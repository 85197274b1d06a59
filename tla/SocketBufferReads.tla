-------------------------- MODULE SocketBufferReads --------------------------
(***************************************************************************)
(* SocketBuffer with a memory of the bytes that the last read returned,    *)
(* for what socket_buffer.hpp says of UnreadBytes.                         *)
(***************************************************************************)
EXTENDS SocketBuffer

VARIABLE last  \* (history) the bytes of the last call if it was a read, or <<>>

\* The bytes that this step takes from the content and returns.
Returned == SubSeq(Content(buf), 1, Length(buf) - Length(buf'))

InitReads == Init /\ last = <<>>

NextReads ==
  \/ (ReadInt \/ ReadByte) /\ last' = Returned
  \/ Next /\ last' = <<>>

SpecReads == InitReads /\ [][NextReads]_<<vars, last>>

(***************************************************************************)
(* "UnreadBytes unreads the last n bytes returned by the most recent read  *)
(* operation" (socket_buffer.hpp:155-156), for a read that was the last    *)
(* call before it.                                                         *)
(***************************************************************************)
UnreadsLastRead ==
  [][\A n \in 1..Len(last) :
       UnreadBytes(n) =>
         Content(buf)' = SubSeq(last, Len(last) - n + 1, Len(last))
                           \o Content(buf)]_<<vars, last>>
=============================================================================
