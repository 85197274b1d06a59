---------------------------- MODULE SocketBuffer ----------------------------
(***************************************************************************)
(* SocketBuffer (socket_buffer.cpp): bytes in an array that grows, with    *)
(* room kept free in front of them.  It is used by one thread, and its     *)
(* assertions are the duties of its caller; what has no assertion may be   *)
(* called at any time.                                                     *)
(*                                                                         *)
(* A byte has Base values and the numbers have Widths bytes (256 and 1, 2, *)
(* 4 and 8 in the code), taken without a sign; the host stores the least   *)
(* significant byte first.                                                 *)
(***************************************************************************)
EXTENDS Naturals, SequencesExt

CONSTANTS
  Base,         \* the values of a byte
  Widths,       \* the sizes of numbers
  Sizes,        \* values of initial_size and reserved_prepend_size
  MaxRun,       \* (bound) bytes that one call handles
  MaxCapacity   \* (bound) the array's size

ASSUME BufferAssumption ==
  /\ Base \in Nat /\ Base > 1
  /\ Widths \subseteq 1..MaxRun /\ Sizes \subseteq Nat
  /\ MaxRun \in Nat /\ MaxCapacity \in Nat

VARIABLES
  buf,       \* buffer_, read_index_ and write_index_
  reserved,  \* reserved_prepend_size_
  value,     \* the number just appended, prepended or read
  back,      \* (history) bytes the last reads have returned and left in place
  front      \* (history) bytes put in front, or unread beyond those, since the
             \* room there was all free, counted up to reserved

vars == <<buf, reserved, value, back, front>>

Byte == 0..(Base - 1)
Run == SeqOf(Byte, MaxRun)
Amount == 0..MaxRun

\* A slot that was never written.
Junk == Base
Unset(n) == [i \in 1..n |-> Junk]

Smaller(a, b) == IF a <= b THEN a ELSE b

Capacity(b) == Len(b.slots)
Length(b) == b.write - b.read
WritableBytes(b) == Capacity(b) - b.write
Content(b) == SubSeq(b.slots, b.read + 1, b.write)

\* memcpy of d to the place `at`.
Placed(slots, at, d) ==
  [i \in DOMAIN slots |-> IF i - at \in DOMAIN d THEN d[i - at] ELSE slots[i]]

\* The numbers that fit in so many bytes.
Power(n) == LET p[k \in 0..n] == IF k = 0 THEN 1 ELSE p[k - 1] * Base IN p[n]
Fitting(width) == 0..(Power(width) - 1)

\* A number as the host stores it, and htons() and its like.
Host(x, width) ==
  LET rest[k \in 0..width] == IF k = 0 THEN x ELSE rest[k - 1] \div Base
  IN  [k \in 1..width |-> rest[k - 1] % Base]

HostNumber(bytes) ==
  LET n[k \in 0..Len(bytes)] ==
        IF k = 0 THEN 0 ELSE n[k - 1] * Base + bytes[Len(bytes) - k + 1]
  IN  n[Len(bytes)]

Network(x, width) == Reverse(Host(x, width))

Init ==
  /\ reserved \in Sizes
  /\ \E initial_size \in Sizes :
       buf = [slots |-> Unset(reserved + initial_size),
              read |-> reserved, write |-> reserved]
  /\ value = 0 /\ back = 0 /\ front = 0

-----------------------------------------------------------------------------
(* How the functions transform the buffer.                                 *)

\* grow that forgets the room in front.
GrowAtZero(b, len) ==
  LET fits == WritableBytes(b) + b.read >= len + reserved
      room == IF fits THEN b.slots ELSE Unset(2 * Capacity(b) + len)
  IN  [slots |-> Placed(room, 0, Content(b)),
       read |-> 0, write |-> Length(b)]

\* grow: to a new array, or to the front of this one.
Grow(b, len) ==
  LET fits == WritableBytes(b) + b.read >= len + reserved
      room == IF fits THEN b.slots ELSE Unset(2 * Capacity(b) + len)
  IN  [slots |-> Placed(room, reserved, Content(b)),
       read |-> reserved, write |-> reserved + Length(b)]

EnsureWritable(b, len) == IF WritableBytes(b) < len THEN Grow(b, len) ELSE b

\* Write to the place the content ended at before it was moved.
WrittenToOldEnd(b, d) ==
  LET e == EnsureWritable(b, Len(d))
  IN  [e EXCEPT !.slots = Placed(@, b.write, d), !.write = @ + Len(d)]

Written(b, d) ==
  LET e == EnsureWritable(b, Len(d))
  IN  [e EXCEPT !.slots = Placed(@, e.write, d), !.write = @ + Len(d)]

Truncated(b, n) ==
  IF n = 0 THEN [b EXCEPT !.read = reserved, !.write = reserved]
  ELSE [b EXCEPT !.write = Smaller(@, b.read + n)]

Skipped(b, n) ==
  IF n < Length(b) THEN [b EXCEPT !.read = @ + n] ELSE Truncated(b, 0)

Prepended(b, d) ==
  [b EXCEPT !.slots = Placed(@, b.read - Len(d), d), !.read = @ - Len(d)]

-----------------------------------------------------------------------------
(* The calls.                                                              *)

\* (history) What was prepended counts until all the room is there again.
FrontAfter(b) == IF b.read >= reserved THEN 0 ELSE front

\* The buffer becomes b, and what was read before cannot be unread.
Become(b, x) ==
  /\ Capacity(b) <= MaxCapacity
  /\ buf' = b /\ value' = x
  /\ back' = 0 /\ front' = FrontAfter(b)
  /\ UNCHANGED reserved

Write == \E d \in Run : Become(Written(buf, d), 0)

AppendInt ==
  \E w \in Widths : \E x \in Fitting(w) :
    Become(Written(buf, Network(x, w)), x)

\* Prepend(d) where assert(len <= PrependableBytes()) holds.
PrependBytes(d, x) ==
  /\ Len(d) <= buf.read
  /\ buf' = Prepended(buf, d) /\ value' = x
  /\ back' = 0 /\ front' = Smaller(front + Len(d), reserved)
  /\ UNCHANGED reserved

Prepend == \E d \in Run : PrependBytes(d, 0)

PrependInt ==
  \E w \in Widths : \E x \in Fitting(w) : PrependBytes(Network(x, w), x)

UnwriteBytes ==
  \E n \in Amount :
    n <= Length(buf) /\ Become([buf EXCEPT !.write = @ - n], 0)

\* The caller has put its bytes at WriteBegin().
WriteBytes ==
  \E d \in Run :
    /\ Len(d) <= WritableBytes(buf)
    /\ Become([buf EXCEPT !.slots = Placed(@, buf.write, d),
                          !.write = @ + Len(d)], 0)

Truncate == \E n \in Amount : Become(Truncated(buf, n), 0)

Reserve ==
  \E n \in Amount :
    /\ Capacity(buf) < n + reserved
    /\ Become(Grow(buf, n + reserved), 0)

EnsureWritableBytes == \E n \in Amount : Become(EnsureWritable(buf, n), 0)

\* A '\0' is written behind the content and taken back.
ToText ==
  LET b == Written(buf, <<0>>) IN Become([b EXCEPT !.write = @ - 1], 0)

\* readv() whose extra buffer is not appended.
ReadFromFDShort ==
  \E d \in Run :
    LET n == Smaller(Len(d), WritableBytes(buf))
    IN  Become([buf EXCEPT !.slots = Placed(@, buf.write, SubSeq(d, 1, n)),
                           !.write = @ + Len(d)], 0)

\* readv() fills the array and then an extra buffer, which is appended.
ReadFromFD ==
  \E d \in Run :
    LET n == Smaller(Len(d), WritableBytes(buf))
        filled == [buf EXCEPT !.slots = Placed(@, buf.write, SubSeq(d, 1, n)),
                              !.write = @ + n]
    IN  Become(Written(filled, SubSeq(d, n + 1, Len(d))), 0)

\* A read of n bytes returns x; one that resets the buffer leaves its bytes
\* where they are not looked for.
Took(b, n, x) ==
  LET kept == b.read = buf.read + n /\ b.write = buf.write IN
    /\ buf' = b /\ value' = x
    /\ back' = IF kept THEN back + n ELSE 0
    /\ front' = IF kept THEN front ELSE 0
    /\ UNCHANGED reserved

\* Skip, and Retrieve.
Skip == \E n \in Amount : Took(Skipped(buf, n), n, 0)

\* PeekInt64 and its like.
PeekInt(b, w) == HostNumber(Reverse(SubSeq(Content(b), 1, w)))

ReadInt ==
  \E w \in Widths :
    /\ Length(buf) >= w
    /\ Took(Skipped(buf, w), w, PeekInt(buf, w))

NextBytes ==
  \E n \in Amount :
    n <= Length(buf) /\ Took([buf EXCEPT !.read = @ + n], n, 0)

\* "If no byte is available, it returns '\0'": so it does with NDEBUG, and
\* without it assert(length() >= 1) ends the program.
ReadByte ==
  \/ /\ Length(buf) >= 1
     /\ Took([buf EXCEPT !.read = @ + 1], 1, Content(buf)[1])
  \/ Length(buf) = 0 /\ Took(buf, 0, 0)

\* UnreadBytes, whether so many bytes were read or not.
UnreadBytes(n) ==
  /\ n < buf.read
  /\ buf' = [buf EXCEPT !.read = @ - n] /\ value' = 0
  /\ IF n <= back
       THEN back' = back - n /\ UNCHANGED front
       ELSE back' = 0 /\ front' = Smaller(front + (n - back), reserved)
  /\ UNCHANGED reserved

Next ==
  \/ Write \/ AppendInt \/ Prepend \/ PrependInt \/ UnwriteBytes \/ WriteBytes
  \/ Truncate \/ Reserve \/ EnsureWritableBytes \/ ToText \/ ReadFromFD
  \/ Skip \/ ReadInt \/ NextBytes \/ ReadByte
  \/ \E n \in Amount : UnreadBytes(n)

Spec == Init /\ [][Next]_vars

-----------------------------------------------------------------------------
(* Properties.                                                             *)

\* The assertions of all functions: no index ever leaves the array, so that
\* grow, Write and readv() stay within it.
InBounds == buf.read \in 0..buf.write /\ buf.write \in 0..Capacity(buf)

\* kCheapPrependSize: whatever was read, moved or reset before, the
\* reserved_prepend_size_ bytes of a message's head can be prepended.
RoomInFront == reserved <= buf.read + front

Abstract ==
  INSTANCE ByteDeque WITH
    content <- Content(buf),
    undo <- SubSeq(buf.slots, buf.read - back + 1, buf.read)

\* SocketBuffer is a deque of bytes whatever way its content is moved.
ImplementsByteDeque == Abstract!Spec
=============================================================================
