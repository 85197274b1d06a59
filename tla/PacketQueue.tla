----------------------------- MODULE PacketQueue -----------------------------
(***************************************************************************)
(* What two connected sockets promise the tasks at both ends: a queue of   *)
(* packets.  Each is handed over whole, once and in order.  A sender that  *)
(* hands in something that is not a packet spoils all that follows, and    *)
(* only then may the receiver refuse the stream.                           *)
(***************************************************************************)
EXTENDS Sequences

CONSTANT Message  \* the packets, with their heads

VARIABLES
  packets,  \* the packets on their way
  out,      \* the packet in the hands of the receiving task, or <<>>
  intact,   \* nothing but packets has been handed in
  refused,  \* the receiver has met an illegal length
  open      \* the receiving socket reads

vars == <<packets, out, intact, refused, open>>

Init ==
  /\ packets = <<>> /\ out = <<>>
  /\ intact = TRUE /\ refused = FALSE /\ open = TRUE

Send ==
  /\ intact
  /\ \E m \in Message : packets' = Append(packets, m)
  /\ UNCHANGED <<out, intact, refused, open>>

Spoil == intact' = FALSE /\ UNCHANGED <<packets, out, refused, open>>

Deliver ==
  /\ out = <<>> /\ packets # <<>>
  /\ out' = Head(packets) /\ packets' = Tail(packets)
  /\ UNCHANGED <<intact, refused, open>>

\* What is read from a spoilt stream after its last packet.
DeliverSpoilt ==
  /\ out = <<>> /\ packets = <<>> /\ ~intact
  /\ out' # <<>>
  /\ UNCHANGED <<packets, intact, refused, open>>

Return ==
  /\ out # <<>> /\ out' = <<>>
  /\ UNCHANGED <<packets, intact, refused, open>>

Refuse ==
  /\ packets = <<>> /\ ~intact
  /\ refused' = TRUE
  /\ UNCHANGED <<packets, out, intact, open>>

Close == open' = FALSE /\ UNCHANGED <<packets, out, intact, refused>>

Next ==
  Send \/ Spoil \/ Deliver \/ DeliverSpoilt \/ Return \/ Refuse \/ Close

\* While the receiving socket reads, every packet arrives.
Spec ==
  /\ Init /\ [][Next]_vars
  /\ WF_vars(open /\ Deliver) /\ WF_vars(Return)
=============================================================================
