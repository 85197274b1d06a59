------------------------------ MODULE ByteQueue ------------------------------
(***************************************************************************)
(* What a socket's byte buffer promises to the one thread that writes it   *)
(* and the one thread that reads it: a bounded first-in first-out queue of *)
(* bytes.  The writer hands over a run of bytes, which then enters the     *)
(* queue as a whole or not at all; the reader looks at a prefix of the     *)
(* queue and later removes exactly what it looked at.                      *)
(***************************************************************************)
EXTENDS Naturals, Sequences

CONSTANTS Byte,      \* the values of a byte
          Capacity   \* the most bytes the queue holds

VARIABLES queue,     \* the bytes written and not yet removed
          input,     \* the run of bytes the writer is handing over
          output     \* the prefix of queue the reader is looking at

vars == <<queue, input, output>>

Init == queue = <<>> /\ input = <<>> /\ output = <<>>

\* The writer offers a run of bytes.
Offer == /\ input = <<>>
         /\ input' \in Seq(Byte) \ {<<>>}
         /\ UNCHANGED <<queue, output>>

\* The offered run enters the queue as a whole.
Commit == /\ input # <<>>
          /\ Len(queue) + Len(input) <= Capacity
          /\ queue' = queue \o input
          /\ input' = <<>>
          /\ UNCHANGED output

\* The offered run does not fit and none of it enters the queue.
Refuse == /\ Len(queue) + Len(input) > Capacity
          /\ input' = <<>>
          /\ UNCHANGED <<queue, output>>

\* The reader looks at the next k bytes.
Peek == /\ output = <<>>
        /\ \E k \in 1..Len(queue) : output' = SubSeq(queue, 1, k)
        /\ UNCHANGED <<queue, input>>

\* The reader removes the bytes it looked at.
Remove == /\ output # <<>>
          /\ queue' = SubSeq(queue, Len(output) + 1, Len(queue))
          /\ output' = <<>>
          /\ UNCHANGED input

Next == Offer \/ Commit \/ Refuse \/ Peek \/ Remove

Spec == Init /\ [][Next]_vars
=============================================================================
