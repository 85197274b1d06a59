------------------------------ MODULE ByteDeque ------------------------------
(***************************************************************************)
(* What SocketBuffer promises: a sequence of bytes that grows at both ends *)
(* and is read from the front, with numbers in network order.  The reads   *)
(* since the last other call can be taken back, unless they have emptied   *)
(* the deque; beyond them, Unread brings up bytes nobody knows.            *)
(***************************************************************************)
EXTENDS Naturals, Sequences

CONSTANTS Base,  \* the values of a byte
          Run    \* the runs of bytes that are written at once

VARIABLES content,  \* the unread bytes
          undo,     \* bytes read that can be unread
          value     \* the number just written or read, 0 if there is none

vars == <<content, undo, value>>

\* The number that bytes stand for, the most significant one first.
Number(bytes) ==
  LET n[k \in 0..Len(bytes)] ==
        IF k = 0 THEN 0 ELSE n[k - 1] * Base + bytes[k]
  IN  n[Len(bytes)]

Init == content = <<>> /\ undo = <<>> /\ value = 0

PushBack ==
  /\ \E d \in Run : content' = content \o d /\ value' \in {0, Number(d)}
  /\ undo' = <<>>

PushFront ==
  /\ \E d \in Run : content' = d \o content /\ value' \in {0, Number(d)}
  /\ undo' = <<>>

\* Bytes leave at the front and are remembered, but for the last ones.
TakeFront ==
  \E n \in 0..Len(content) :
    LET taken == SubSeq(content, 1, n) IN
      /\ content' = SubSeq(content, n + 1, Len(content))
      /\ undo' = undo \o taken \/ (content' = <<>> /\ undo' = <<>>)
      /\ value' \in {0, Number(taken)}

DropBack ==
  /\ \E n \in 0..Len(content) : content' = SubSeq(content, 1, n)
  /\ undo' = <<>> /\ value' = 0

\* Bytes that are remembered come back as they were.
Unread ==
  /\ \E n \in 0..Len(undo) :
       /\ content' = SubSeq(undo, Len(undo) - n + 1, Len(undo)) \o content
       /\ undo' = SubSeq(undo, 1, Len(undo) - n)
  /\ value' = 0

\* More than those: they come back behind others.
UnreadBeyond ==
  /\ LET known == undo \o content
         others == Len(content') - Len(known)
     IN  /\ others > 0
         /\ SubSeq(content', others + 1, Len(content')) = known
  /\ undo' = <<>> /\ value' = 0

Next ==
  PushBack \/ PushFront \/ TakeFront \/ DropBack \/ Unread \/ UnreadBeyond

Spec == Init /\ [][Next]_vars
=============================================================================
