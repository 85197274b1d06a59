------------------------- MODULE PacketStreamProofs -------------------------
(***************************************************************************)
(* Proofs about PacketStream for every number of byte values and every     *)
(* capacity of the buffer: no packet is left in the buffer, and the two    *)
(* sockets are a queue of packets, up to liveness.                         *)
(***************************************************************************)
EXTENDS PacketStream, ProofLemmas

-----------------------------------------------------------------------------
(* Packets and the bytes they are sent as.                                 *)

LEMMA Bases ==
  /\ Base \in Nat /\ Base > 1
  /\ Base * Base \in Nat \ {0} /\ Base * Base > Base
  /\ Capacity \in Nat /\ Capacity > 1
<1>1. Base \in Nat /\ Base > 1
  BY StreamAssumption
<1>2. Base * Base \in Nat /\ Base * Base > Base
  BY <1>1
<1> QED
  BY <1>1, <1>2, StreamAssumption

\* The two bytes of a head are bytes, and stand for the number they are made of.
LEMMA HeadBytes ==
  ASSUME NEW p \in 0..MaxPayload
  PROVE  /\ HeadOf(p)[1] \in Byte /\ HeadOf(p)[2] \in Byte
         /\ HeadOf(p)[1] + Base * HeadOf(p)[2] = p
<1> DEFINE d == p \div Base
           r == p % Base
<1>1. p \in Int /\ p >= 0 /\ p < Base * Base
  BY Bases DEF MaxPayload
<1>2. d \in Int /\ r \in 0..(Base - 1) /\ p = Base * d + r
  BY <1>1, Bases, Division
<1>3. HeadOf(p)[1] = r /\ HeadOf(p)[2] = d
  BY DEF HeadOf
<1> HIDE DEF d, r
<1>4. d >= 0
  <2> SUFFICES ASSUME d < 0 PROVE FALSE
    BY <1>2
  <2>1. Base * d <= 0 - Base
    BY <1>2, Bases
  <2> QED
    BY <1>1, <1>2, <2>1, Bases
<1>5. d < Base
  <2> SUFFICES ASSUME d >= Base PROVE FALSE
    BY <1>2, Bases
  <2>1. Base * d >= Base * Base
    BY <1>2, Bases
  <2>2. Base * d \in Int
    BY <1>2, Bases
  <2> QED
    BY <1>1, <1>2, <2>1, <2>2, Bases
<1> QED
  BY <1>2, <1>3, <1>4, <1>5, Bases DEF Byte

\* What SendData and SendDataWithHead put into the stream.
LEMMA FramedBytes ==
  ASSUME NEW len \in 0..(MaxPayload + HeadLen), NEW b \in Byte
  PROVE  Framed(len, b) \in Seq(Byte) /\ Len(Framed(len, b)) = len
<1> DEFINE p == (len - HeadLen) % (Base * Base)
<1>1. p \in 0..MaxPayload
  <2> DEFINE n == Base * Base
             x == len - HeadLen
  <2>1. n \in Nat \ {0} /\ x \in Int /\ MaxPayload = n - 1
    BY Bases DEF MaxPayload, HeadLen
  <2>2. p = x % n
    OBVIOUS
  <2> HIDE DEF n, x, p
  <2> QED
    BY <2>1, <2>2, Division
<1>2. len \in Nat
  BY Bases DEF MaxPayload, HeadLen
<1> HIDE DEF p
<1>3. \A k \in 1..len : (IF k <= HeadLen THEN HeadOf(p)[k] ELSE b) \in Byte
  <2> SUFFICES ASSUME NEW k \in 1..len, k <= HeadLen PROVE HeadOf(p)[k] \in Byte
    OBVIOUS
  <2>1. k = 1 \/ k = 2
    BY <1>2 DEF HeadLen
  <2> QED
    BY <1>1, <2>1, HeadBytes
<1>4. Framed(len, b) = [k \in 1..len |-> IF k <= HeadLen THEN HeadOf(p)[k] ELSE b]
  BY DEF Framed, p
<1> QED
  BY <1>2, <1>3, <1>4

\* A packet's head is the length of what follows it.
LEMMA MessageShape ==
  ASSUME NEW m \in Message
  PROVE  /\ m \in Seq(Byte) /\ Len(m) \in Nat /\ Len(m) > HeadLen
         /\ m[1] \in Byte /\ m[2] \in Byte
         /\ m[1] + Base * m[2] = Len(m) - HeadLen
<1>1. PICK len \in (HeadLen + 1)..(HeadLen + MaxPayload), b \in Byte :
        m = Framed(len, b)
  BY DEF Message
<1>2. len \in 0..(MaxPayload + HeadLen) /\ len \in Nat /\ len > 2 /\ HeadLen = 2
      /\ len - HeadLen \in 0..MaxPayload /\ MaxPayload = Base * Base - 1
  BY <1>1, Bases DEF MaxPayload, HeadLen
<1>3. m \in Seq(Byte) /\ Len(m) = len
  BY <1>1, <1>2, FramedBytes
<1>4. (len - HeadLen) % (Base * Base) = len - HeadLen
  <2> DEFINE n == Base * Base
             x == len - HeadLen
  <2>1. n \in Nat \ {0} /\ x \in 0..(n - 1) /\ x \in Int
    BY <1>2, Bases
  <2> HIDE DEF n, x
  <2>2. x = n * 0 + x
    BY <2>1
  <2>3. x % n = x
    BY <2>1, <2>2, RemainderUnique
  <2> QED
    BY <2>3 DEF n, x
<1>5. m[1] = HeadOf(len - HeadLen)[1] /\ m[2] = HeadOf(len - HeadLen)[2]
  BY <1>1, <1>2, <1>4 DEF Framed
<1> QED
  BY <1>2, <1>3, <1>5, HeadBytes

-----------------------------------------------------------------------------
(* Packets that follow each other in a sequence of bytes.                  *)

\* The packets p follow each other in the bytes b, as far as there are bytes:
\* packet i begins after cut[i - 1] bytes and ends with byte cut[i].
Frames(cut, p, b) ==
  /\ cut \in [0..Len(p) -> Nat] /\ cut[0] = 0
  /\ \A i \in 0..(Len(p) - 1) : cut[i + 1] = cut[i] + Len(p[i + 1])
  /\ \A i, j \in 0..Len(p) : i <= j => cut[i] <= cut[j]
  /\ \A i \in 0..(Len(p) - 1) : \A k \in 1..Len(p[i + 1]) :
       cut[i] + k <= Len(b) => b[cut[i] + k] = p[i + 1][k]

LEMMA FirstPacket ==
  ASSUME NEW p \in Seq(Message), p # <<>>, NEW b \in Seq(Byte), NEW cut,
         Frames(cut, p, b)
  PROVE  /\ Head(p) \in Message /\ Head(p) = p[1]
         /\ \A k \in 1..Len(Head(p)) : k <= Len(b) => b[k] = Head(p)[k]
<1>1. Len(p) \in Nat /\ 0 \in 0..(Len(p) - 1) /\ Head(p) = p[1] /\ p[1] \in Message
  OBVIOUS
<1>2. Len(p[1]) \in Nat
  BY <1>1, MessageShape
<1>3. PICK i \in 0..(Len(p) - 1) : i = 0
  BY <1>1
<1>4. \A k \in 1..Len(p[i + 1]) :
        cut[i] + k <= Len(b) => b[cut[i] + k] = p[i + 1][k]
  BY DEF Frames
<1>5. i + 1 = 1 /\ cut[i] = 0
  BY <1>3 DEF Frames
<1>6. \A k \in 1..Len(p[1]) : cut[i] + k = k
  BY <1>2, <1>5
<1>7. \A k \in 1..Len(p[1]) : cut[i] + k <= Len(b) => b[cut[i] + k] = p[1][k]
  BY <1>4, <1>5, Zenon
<1>8. \A k \in 1..Len(p[1]) : k <= Len(b) => b[k] = p[1][k]
  BY <1>6, <1>7, Zenon
<1> QED
  BY <1>1, <1>8

\* Bytes that are lost at the end ...
LEMMA FramesOfFront ==
  ASSUME NEW p, NEW b \in Seq(Byte), NEW c \in Seq(Byte), NEW cut, 
         Frames(cut, p, b), Len(p) \in Nat, 
         \A i \in 1..Len(p) : Len(p[i]) \in Nat,
         Len(c) <= Len(b), \A k \in 1..Len(c) : c[k] = b[k]
  PROVE  Frames(cut, p, c)
<1>1. Len(b) \in Nat /\ Len(c) \in Nat
  OBVIOUS
<1> SUFFICES ASSUME NEW i \in 0..(Len(p) - 1), NEW k \in 1..Len(p[i + 1]),
                    cut[i] + k <= Len(c)
             PROVE  c[cut[i] + k] = p[i + 1][k]
  BY DEF Frames
<1>2. i \in 0..Len(p) /\ i + 1 \in 1..Len(p)
  OBVIOUS
<1>3. cut[i] \in Nat /\ k \in Nat /\ k > 0
  BY <1>2 DEF Frames
<1>4. cut[i] + k <= Len(b) /\ cut[i] + k \in 1..Len(c)
  BY <1>1, <1>3
<1> QED
  BY <1>4 DEF Frames

\* ... and bytes that are added behind the last packet leave the packets alone.
LEMMA FramesExtend ==
  ASSUME NEW p \in Seq(Message), NEW b \in Seq(Byte), NEW c \in Seq(Byte),
         NEW cut, Frames(cut, p, b), cut[Len(p)] <= Len(b)
  PROVE  Frames(cut, p, b \o c)
<1>1. Len(b) \in Nat /\ Len(c) \in Nat /\ Len(p) \in Nat
  OBVIOUS
<1> SUFFICES ASSUME NEW i \in 0..(Len(p) - 1), NEW k \in 1..Len(p[i + 1]),
                    cut[i] + k <= Len(b \o c)
             PROVE  (b \o c)[cut[i] + k] = p[i + 1][k]
  BY DEF Frames
<1>2. i \in 0..Len(p) /\ i + 1 \in 0..Len(p) /\ Len(p) \in 0..Len(p)
      /\ i + 1 <= Len(p) /\ p[i + 1] \in Message
  BY <1>1
<1>3. cut[i] \in Nat /\ cut[i + 1] \in Nat /\ cut[Len(p)] \in Nat
      /\ cut[i + 1] = cut[i] + Len(p[i + 1]) /\ cut[i + 1] <= cut[Len(p)]
  BY <1>1, <1>2 DEF Frames
<1>4. Len(p[i + 1]) \in Nat
  BY <1>2, MessageShape
<1>5. cut[i] + k \in 1..Len(b)
  BY <1>1, <1>3, <1>4, SMTT(60)
<1>6. (b \o c)[cut[i] + k] = b[cut[i] + k]
  BY <1>5
<1> QED
  BY <1>1, <1>5, <1>6 DEF Frames

\* A packet that is sent ends where the bytes end.
LEMMA FramesAppend ==
  ASSUME NEW p \in Seq(Message), NEW b \in Seq(Byte), NEW m \in Message,
         NEW cut, Frames(cut, p, b), cut[Len(p)] = Len(b)
  PROVE  \E c : /\ Frames(c, Append(p, m), b \o m)
                /\ c[Len(Append(p, m))] = Len(b \o m)
<1> DEFINE q == Append(p, m)
           c == [n \in 0..Len(q) |-> IF n <= Len(p) THEN cut[n] ELSE Len(b) + Len(m)]
<1>1. /\ Len(b) \in Nat /\ Len(p) \in Nat /\ Len(q) = Len(p) + 1
      /\ q \in Seq(Message) /\ q[Len(p) + 1] = m
      /\ \A i \in 1..Len(p) : q[i] = p[i]
  OBVIOUS
<1>2. m \in Seq(Byte) /\ Len(m) \in Nat
  BY MessageShape
<1>3. b \o m \in Seq(Byte) /\ Len(b \o m) = Len(b) + Len(m)
  BY <1>2
<1>4. /\ cut \in [0..Len(p) -> Nat] /\ cut[0] = 0
      /\ \A i, j \in 0..Len(p) : i <= j => cut[i] <= cut[j]
      /\ \A i \in 0..(Len(p) - 1) : cut[i + 1] = cut[i] + Len(p[i + 1])
  BY DEF Frames
<1> HIDE DEF q
<1>5. /\ c \in [0..Len(q) -> Nat] /\ c[Len(q)] = Len(b) + Len(m)
      /\ \A n \in 0..Len(p) : c[n] = cut[n]
  BY <1>1, <1>2, <1>4
<1> HIDE DEF c
<1>6. \A i, j \in 0..Len(q) : i <= j => c[i] <= c[j]
  <2> SUFFICES ASSUME NEW i \in 0..Len(q), NEW j \in 0..Len(q), i <= j
               PROVE  c[i] <= c[j]
    OBVIOUS
  <2>0. j <= Len(p) \/ (j = Len(q) /\ i = Len(q)) \/ (j = Len(q) /\ i <= Len(p))
    BY <1>1
  <2>1. CASE j <= Len(p)
    <3>1. i \in 0..Len(p) /\ j \in 0..Len(p)
      BY <1>1, <2>1
    <3> QED
      BY <1>4, <1>5, <3>1
  <2>2. CASE j = Len(q) /\ i = Len(q)
    BY <1>1, <1>2, <1>5, <2>2
  <2>3. CASE j = Len(q) /\ i <= Len(p)
    <3>0. i \in 0..Len(p) /\ Len(p) \in 0..Len(p) /\ i <= Len(p)
      BY <1>1, <2>3
    <3>1. c[i] = cut[i] /\ cut[i] <= cut[Len(p)] /\ cut[i] \in Nat
      BY <1>4, <1>5, <3>0
    <3> QED
      BY <1>1, <1>2, <1>5, <2>3, <3>1
  <2> QED
    BY <2>0, <2>1, <2>2, <2>3, Zenon
<1>7. \A i \in 0..(Len(q) - 1) : c[i + 1] = c[i] + Len(q[i + 1])
  <2> SUFFICES ASSUME NEW i \in 0..(Len(q) - 1)
               PROVE  c[i + 1] = c[i] + Len(q[i + 1])
    OBVIOUS
  <2>1. CASE i < Len(p)
    <3>1. i \in 0..(Len(p) - 1) /\ i \in 0..Len(p) /\ i + 1 \in 0..Len(p)
          /\ i + 1 \in 1..Len(p)
      BY <1>1, <2>1
    <3>2. q[i + 1] = p[i + 1] /\ c[i] = cut[i] /\ c[i + 1] = cut[i + 1]
      BY <1>1, <1>5, <3>1
    <3> QED
      BY <1>4, <3>1, <3>2
  <2>2. CASE i = Len(p)
    <3>1. c[i] = Len(b) /\ c[i + 1] = Len(b) + Len(m) /\ q[i + 1] = m
      BY <1>1, <1>5, <2>2, SMTT(60)
    <3> QED
      BY <3>1
  <2> QED
    BY <1>1, <2>1, <2>2
<1>8. ASSUME NEW i \in 0..(Len(q) - 1), NEW k \in 1..Len(q[i + 1]),
             c[i] + k <= Len(b \o m)
      PROVE  (b \o m)[c[i] + k] = q[i + 1][k]
  <2>1. CASE i < Len(p)
    <3>1. Frames(cut, p, b \o m)
      BY <1>1, <1>2, FramesExtend
    <3>2. i \in 0..(Len(p) - 1) /\ i \in 0..Len(p) /\ i + 1 \in 1..Len(p)
      BY <1>1, <2>1
    <3>3. q[i + 1] = p[i + 1] /\ c[i] = cut[i]
      BY <1>1, <1>5, <3>2
    <3> QED
      BY <1>8, <3>1, <3>2, <3>3, ZenonT(60) DEF Frames
  <2>2. CASE i = Len(p)
    <3>1. c[i] = Len(b) /\ q[i + 1] = m
      BY <1>1, <1>5, <2>2, SMTT(60)
    <3>2. k \in 1..Len(m)
      BY <3>1
    <3>3. (b \o m)[Len(b) + k] = m[k]
      BY <1>1, <1>2, <3>2
    <3> QED
      BY <3>1, <3>3
  <2>3. i < Len(p) \/ i = Len(p)
    BY <1>1
  <2> QED
    BY <2>1, <2>2, <2>3, Zenon
<1>9. Frames(c, q, b \o m)
  <2>1. c[0] = 0
    BY <1>1, <1>4, <1>5
  <2> QED
    BY <1>5, <1>6, <1>7, <1>8, <2>1 DEF Frames
<1> QED
  BY <1>1, <1>3, <1>5, <1>9 DEF q

\* Without the first packet, the packets follow each other in what its bytes
\* leave.
LEMMA FramesTail ==
  ASSUME NEW p \in Seq(Message), p # <<>>, NEW b \in Seq(Byte), NEW cut,
         Frames(cut, p, b), NEW n \in Nat, n = Len(Head(p)), n <= Len(b)
  PROVE  \E c : /\ Frames(c, Tail(p), SubSeq(b, n + 1, Len(b)))
                /\ c[Len(Tail(p))] = cut[Len(p)] - n
<1> DEFINE q == Tail(p)
           d == SubSeq(b, n + 1, Len(b))
           c == [i \in 0..Len(q) |-> cut[i + 1] - n]
<1>1. /\ Len(p) \in Nat /\ Len(q) = Len(p) - 1 /\ Len(q) \in Nat
      /\ q \in Seq(Message) /\ \A i \in 1..Len(q) : q[i] = p[i + 1]
      /\ Head(p) = p[1] /\ 1 \in 1..Len(p)
  OBVIOUS
<1>2. /\ d \in Seq(Byte) /\ Len(d) = Len(b) - n /\ Len(b) \in Nat
      /\ \A k \in 1..(Len(b) - n) : d[k] = b[n + k]
  <2>1. n \in 0..Len(b) /\ Len(b) \in Nat
    OBVIOUS
  <2> QED
    BY <2>1, Rest, Zenon
<1>3. /\ cut \in [0..Len(p) -> Nat] /\ cut[0] = 0
      /\ \A i, j \in 0..Len(p) : i <= j => cut[i] <= cut[j]
      /\ \A i \in 0..(Len(p) - 1) : cut[i + 1] = cut[i] + Len(p[i + 1])
  BY DEF Frames
<1> HIDE DEF q, d
<1>4. cut[1] = n
  <2>1. PICK i \in 0..(Len(p) - 1) : i = 0
    BY <1>1
  <2>2. cut[i + 1] = cut[i] + Len(p[i + 1]) /\ cut[i] = 0 /\ i + 1 = 1
    BY <1>3, <2>1
  <2> QED
    BY <1>1, <2>2
<1>5. \A i \in 0..Len(q) :
        /\ i + 1 \in 0..Len(p) /\ cut[i + 1] \in Nat /\ n <= cut[i + 1]
        /\ c[i] = cut[i + 1] - n /\ c[i] \in Nat
  <2> SUFFICES ASSUME NEW i \in 0..Len(q)
               PROVE  /\ i + 1 \in 0..Len(p) /\ cut[i + 1] \in Nat
                      /\ n <= cut[i + 1] /\ c[i] = cut[i + 1] - n
                      /\ c[i] \in Nat
    OBVIOUS
  <2>1. i + 1 \in 0..Len(p) /\ 1 \in 0..Len(p) /\ 1 <= i + 1
    BY <1>1
  <2>2. cut[i + 1] \in Nat /\ n <= cut[i + 1]
    BY <1>3, <1>4, <2>1
  <2>3. c[i] = cut[i + 1] - n
    OBVIOUS
  <2> HIDE DEF c
  <2> QED
    BY <2>1, <2>2, <2>3
<1>6. c \in [0..Len(q) -> Nat]
  <2>1. \A i \in 0..Len(q) : cut[i + 1] - n \in Nat
    BY <1>5
  <2> QED
    BY <2>1
<1>7. c[0] = 0
  BY <1>1, <1>4
<1> HIDE DEF c
<1>8. ASSUME NEW i \in 0..Len(q), NEW j \in 0..Len(q), i <= j
      PROVE  c[i] <= c[j]
  <2>1. i + 1 \in 0..Len(p) /\ j + 1 \in 0..Len(p) /\ i + 1 <= j + 1
    BY <1>5, <1>8
  <2>2. cut[i + 1] <= cut[j + 1]
    BY <1>3, <2>1
  <2> QED
    BY <1>5, <2>2, SMTT(60)
<1>9. ASSUME NEW i \in 0..(Len(q) - 1)
      PROVE  /\ c[i + 1] = c[i] + Len(q[i + 1])
             /\ \A k \in 1..Len(q[i + 1]) :
                  c[i] + k <= Len(d) => d[c[i] + k] = q[i + 1][k]
  <2> DEFINE j == i + 1
  <2>1. /\ j \in 0..(Len(p) - 1) /\ i \in 0..Len(q) /\ j \in 0..Len(q)
        /\ j \in 1..Len(q) /\ j + 1 \in 1..Len(p)
    BY <1>1
  <2> HIDE DEF j
  <2>2. q[j] = p[j + 1] /\ p[j + 1] \in Message
    BY <1>1, <2>1
  <2>3. Len(q[j]) \in Nat
    BY <2>2, MessageShape
  <2>4. cut[j + 1] = cut[j] + Len(q[j])
    BY <1>3, <2>1, <2>2
  <2>5. c[i] = cut[j] - n /\ cut[j] \in Nat /\ n <= cut[j]
    BY <1>5, <2>1 DEF j
  <2>6. c[j] = cut[j + 1] - n /\ cut[j + 1] \in Nat
    BY <1>5, <2>1
  <2>7. c[j] = c[i] + Len(q[j])
    BY <2>3, <2>4, <2>5, <2>6, SMTT(60)
  <2>8. ASSUME NEW k \in 1..Len(q[j]), c[i] + k <= Len(d)
        PROVE  d[c[i] + k] = q[j][k]
    <3>1. c[i] + k \in 1..(Len(b) - n) /\ n + (c[i] + k) = cut[j] + k
          /\ cut[j] + k <= Len(b)
      BY <1>2, <2>3, <2>5, <2>8, SMTT(60)
    <3>2. d[c[i] + k] = b[n + (c[i] + k)]
      BY <1>2, <3>1
    <3>3. k \in 1..Len(p[j + 1])
      BY <2>2
    <3>4. b[cut[j] + k] = p[j + 1][k]
      BY <2>1, <3>1, <3>3 DEF Frames
    <3> QED
      BY <2>2, <3>1, <3>2, <3>4
  <2> QED
    BY <2>7, <2>8 DEF j
<1>10. Frames(c, q, d)
  BY <1>6, <1>7, <1>8, <1>9 DEF Frames
<1>11. c[Len(q)] = cut[Len(p)] - n
  BY <1>1, <1>5
<1> QED
  BY <1>10, <1>11 DEF q, d

-----------------------------------------------------------------------------
(* The head and the packet at the front of the ring.                       *)

TypeOK ==
  /\ stream \in Seq(Byte)
  /\ ring \in Seq(Byte) /\ start \in 0..(Capacity - 1)
  /\ open \in BOOLEAN /\ network \in {"read", "queue"} /\ functors \in Nat
  /\ worker \in {"idle", "load", "series", "decide", "handler"}
  /\ available \in Nat /\ series \in Nat /\ owed \in Nat
  /\ out \in Seq(Byte) /\ garbled \in BOOLEAN
  /\ pending \in Seq(Message) /\ intact \in BOOLEAN

\* What the worker loop has loaded of the counters: the network loop adds bytes
\* behind its back, and only the worker loop takes them away.
Loaded ==
  /\ worker \in {"series", "decide"} => available <= Len(ring)
  /\ worker = "decide" =>
       /\ series <= Len(ring) /\ start + series <= Capacity
       /\ available <= series \/ start + series = Capacity

\* The worker loop has a packet in its hands while SignalReadPacket runs, and
\* only then are bytes of it still in the buffer.
Handled ==
  /\ Len(ring) <= Capacity /\ owed <= Len(ring)
  /\ worker = "handler" <=> out # <<>>
  /\ worker # "handler" => owed = 0

ReceiverInv == TypeOK /\ Loaded /\ Handled

\* The number that the first two bytes of the buffer stand for.
NextLength == ring[1] + Base * ring[2]

\* Whatever the network loop has added since the two loads, the bytes that are
\* read as a head are the first two of the buffer.
LEMMA HeadIsFront ==
  ASSUME ReceiverInv, worker = "decide", available >= HeadLen
  PROVE  /\ Lengths(Head2) = {NextLength} /\ NextLength \in Nat
         /\ Len(ring) >= HeadLen
<1>1. /\ ring \in Seq(Byte) /\ Len(ring) \in Nat /\ HeadLen = 2
      /\ start \in 0..(Capacity - 1) /\ Capacity \in Nat /\ Capacity > 1
      /\ available \in Nat /\ series \in Nat /\ Len(ring) >= 2
      /\ available <= Len(ring) /\ available >= 2
      /\ series <= Len(ring) /\ start + series <= Capacity
      /\ available <= series \/ start + series = Capacity
  BY Bases DEF ReceiverInv, TypeOK, Loaded, HeadLen
<1>2. ring[1] \in Byte /\ ring[2] \in Byte
  BY <1>1
<1>3. (start + 0) % Capacity = start
  BY <1>1
<1>4. Head2[1] = ring[1] /\ Head2[2] = ring[2]
  <2>1. CASE series >= HeadLen
    <3>1. start + 1 <= Capacity /\ start + 2 <= Capacity
      BY <1>1, <2>1
    <3> QED
      BY <1>1, <1>3, <2>1, <3>1 DEF Head2, Run
  <2>2. CASE ~(series >= HeadLen)
    <3>1. start + series = Capacity /\ series = 1
      BY <1>1, <2>2
    <3>2. (Capacity - start) % Capacity = 1
      BY <1>1, <3>1
    <3>3. DataHead = ring[2]
      BY <1>1, <3>2 DEF DataHead
    <3>4. Run(0, 1)[1] = ring[1]
      BY <1>1, <1>3 DEF Run
    <3> QED
      BY <2>2, <3>3, <3>4 DEF Head2
  <2> QED
    BY <2>1, <2>2
<1>5. Readings(Head2[1]) = {ring[1]} /\ Readings(Head2[2]) = {ring[2]}
  BY <1>2, <1>4, Bases DEF Readings, Junk, Byte
<1>6. Lengths(Head2) = {NextLength}
  BY <1>5 DEF Lengths, NextLength
<1>7. NextLength \in Nat
  BY <1>2, Bases DEF NextLength, Byte
<1> QED
  BY <1>1, <1>6, <1>7

\* In one piece or in two, SignalReadPacket is called with the first bytes of
\* the buffer, and the bytes after them stay.
LEMMA HandleTakesFront ==
  ASSUME ReceiverInv, worker = "decide", NEW m \in Nat, m > 0, m <= available,
         Handle(m)
  PROVE  /\ out' \in Seq(Byte) /\ Len(out') = m /\ m <= Len(ring)
         /\ \A k \in 1..m : out'[k] = ring[k]
         /\ ring' \in Seq(Byte) /\ Len(ring') <= Len(ring)
         /\ owed' \in Nat /\ owed' <= Len(ring')
         /\ start' \in 0..(Capacity - 1)
         /\ SubSeq(ring', owed' + 1, Len(ring')) = SubSeq(ring, m + 1, Len(ring))
<1>1. /\ ring \in Seq(Byte) /\ Len(ring) \in Nat
      /\ start \in 0..(Capacity - 1) /\ Capacity \in Nat /\ Capacity > 1
      /\ available \in Nat /\ series \in Nat
      /\ available <= Len(ring) /\ m <= Len(ring) /\ Len(ring) <= Capacity
      /\ series <= Len(ring) /\ start + series <= Capacity
      /\ available <= series \/ start + series = Capacity
  BY Bases DEF ReceiverInv, TypeOK, Loaded, Handled
<1>2. (start + 0) % Capacity = start
  BY <1>1
<1>3. CASE series >= m
  <2>1. out' = Run(0, m) /\ owed' = m /\ ring' = ring /\ start' = start
    BY <1>3 DEF Handle
  <2>2. \A k \in 1..m : start + k <= Capacity /\ 0 + k <= Len(ring)
    BY <1>1, <1>3
  <2>3. Run(0, m) = [k \in 1..m |-> ring[k]]
    BY <1>1, <1>2, <2>2 DEF Run
  <2>4. \A k \in 1..m : ring[k] \in Byte
    BY <1>1
  <2> QED
    BY <1>1, <2>1, <2>3, <2>4
<1>4. CASE ~(series >= m)
  <2>0. start + series = Capacity /\ series < m /\ m - series \in Nat
    BY <1>1, <1>4
  <2>1. /\ out' = Run(0, series) \o Run(series, m - series)
        /\ owed' = 0 /\ ring' = SubSeq(ring, m + 1, Len(ring))
        /\ start' = (start + m) % Capacity
    BY <1>4 DEF Handle, Consume
  <2>2. Run(0, series) = [k \in 1..series |-> ring[k]]
    <3>1. \A k \in 1..series : start + k <= Capacity /\ 0 + k <= Len(ring)
      BY <1>1
    <3> QED
      BY <1>1, <1>2, <3>1 DEF Run
  <2>3. Run(series, m - series) = [k \in 1..(m - series) |-> ring[series + k]]
    <3>1. (start + series) % Capacity = 0
      BY <1>1, <2>0
    <3>2. \A k \in 1..(m - series) : 0 + k <= Capacity /\ series + k <= Len(ring)
      BY <1>1, <2>0
    <3> QED
      BY <1>1, <3>1, <3>2 DEF Run
  <2> DEFINE x == Run(0, series)
             y == Run(series, m - series)
  <2>4. /\ x \in Seq(Byte) /\ Len(x) = series
        /\ \A k \in 1..series : x[k] = ring[k]
    <3>1. \A k \in 1..series : ring[k] \in Byte
      BY <1>1
    <3> QED
      BY <1>1, <2>2, <3>1
  <2>5. /\ y \in Seq(Byte) /\ Len(y) = m - series
        /\ \A k \in 1..(m - series) : y[k] = ring[series + k]
    <3>1. \A k \in 1..(m - series) : ring[series + k] \in Byte
      BY <1>1, <2>0
    <3> QED
      BY <1>1, <2>0, <2>3, <3>1, SMTT(60)
  <2> HIDE DEF x, y
  <2>6. /\ x \o y \in Seq(Byte) /\ Len(x \o y) = m
        /\ \A k \in 1..m : (x \o y)[k] = ring[k]
    <3>1. x \o y \in Seq(Byte) /\ Len(x \o y) = series + (m - series)
      BY <2>4, <2>5
    <3>2. ASSUME NEW k \in 1..m PROVE (x \o y)[k] = ring[k]
      <4>1. CASE k <= series
        <5>1. k \in 1..series
          BY <1>1, <4>1
        <5>2. (x \o y)[k] = x[k]
          BY <2>4, <2>5, <5>1
        <5> QED
          BY <2>4, <5>1, <5>2
      <4>2. CASE k > series
        <5>1. k - series \in 1..(m - series) /\ series + (k - series) = k
          BY <1>1, <2>0, <4>2
        <5>2. (x \o y)[k] = y[k - series]
          BY <1>1, <2>4, <2>5, <4>2, <3>1
        <5> QED
          BY <2>5, <5>1, <5>2
      <4>3. k <= series \/ k > series
        BY <1>1
      <4> QED
        BY <4>1, <4>2, <4>3, Zenon
    <3> QED
      BY <1>1, <3>1, <3>2
  <2>7. out' = x \o y
    BY <2>1 DEF x, y
  <2>8. m \in 0..Len(ring)
    BY <1>1
  <2>9. /\ ring' \in Seq(Byte) /\ Len(ring') = Len(ring) - m
    BY <1>1, <2>1, <2>8, Rest
  <2>10. SubSeq(ring', 0 + 1, Len(ring')) = ring'
    BY <2>9
  <2>11. start' \in 0..(Capacity - 1)
    BY <1>1, <2>1, Division
  <2>12. Len(ring') <= Len(ring) /\ owed' \in Nat /\ owed' <= Len(ring')
    BY <1>1, <2>1, <2>9
  <2>13. SubSeq(ring', owed' + 1, Len(ring')) = SubSeq(ring, m + 1, Len(ring))
    BY <2>1, <2>10
  <2> QED
    BY <1>1, <2>6, <2>7, <2>9, <2>11, <2>12, <2>13, Zenon
<1> QED
  BY <1>3, <1>4

-----------------------------------------------------------------------------
(* The receiver's invariant.                                               *)

LEMMA ReceiverInit == Init => ReceiverInv
<1> SUFFICES ASSUME Init PROVE ReceiverInv
  OBVIOUS
<1>1. <<>> \in Seq(Byte) /\ <<>> \in Seq(Message) /\ Len(<<>>) = 0
  BY EmptySeq, Zenon
<1>0. 0 \in Nat /\ 0 \in 0..(Capacity - 1)
  BY Bases
<1>2. TypeOK
  BY <1>0, <1>1, Zenon DEF Init, TypeOK
<1>3. Loaded /\ Handled
  BY <1>1, Bases DEF Init, Loaded, Handled
<1> QED
  BY <1>2, <1>3 DEF ReceiverInv

LEMMA ReceiverSame ==
  ASSUME ReceiverInv, UNCHANGED <<receiver, process>>,
         stream' \in Seq(Byte), pending' \in Seq(Message), intact' \in BOOLEAN
  PROVE  ReceiverInv'
  BY DEF ReceiverInv, TypeOK, Loaded, Handled, receiver, process

LEMMA AcceptKeepsReceiver ==
  ASSUME ReceiverInv, NEW bytes \in Seq(Byte), Accept(bytes)
  PROVE  ReceiverInv'
<1>1. stream' \in Seq(Byte) /\ intact' \in BOOLEAN /\ UNCHANGED <<receiver, process>>
  BY DEF ReceiverInv, TypeOK, Accept
<1>2. pending' \in Seq(Message)
  BY DEF ReceiverInv, TypeOK, Accept
<1> QED
  BY <1>1, <1>2, ReceiverSame

\* Every call of the sender is one of Accept with some bytes.
LEMMA SenderAccepts ==
  ASSUME Sender
  PROVE  \E bytes \in Seq(Byte) : Accept(bytes)
<1>1. CASE SendData
  <2>1. PICK len \in 0..(MaxPayload + HeadLen), b \in Byte : Accept(Framed(len, b))
    BY <1>1 DEF SendData
  <2> QED
    BY <2>1, FramedBytes
<1>2. CASE SendDataWithHead
  BY <1>2, MessageShape DEF SendDataWithHead
<1> QED
  BY <1>1, <1>2 DEF Sender

\* What ::read() takes fits into the free slots.
LEMMA ReadFits ==
  ASSUME ReceiverInv, Read
  PROVE  \E n \in 1..Len(stream) :
           /\ Len(ring) + n <= Capacity
           /\ ring' = ring \o SubSeq(stream, 1, n)
           /\ stream' = SubSeq(stream, n + 1, Len(stream))
<1>1. /\ Len(ring) \in Nat /\ Len(stream) \in Nat
      /\ Capacity \in Nat \ {0} /\ start + Len(ring) \in Int
      /\ start \in 0..(Capacity - 1) /\ Len(ring) <= Capacity
  BY Bases DEF ReceiverInv, TypeOK, Handled
<1>2. (start + Len(ring)) % Capacity \in 0..(Capacity - 1)
  BY <1>1, Division
<1>3. AvailableSeriesWrite \in Nat /\ AvailableSeriesWrite <= Capacity - Len(ring)
  BY <1>1, <1>2 DEF AvailableSeriesWrite, Smaller
<1>4. PICK n \in 1..Smaller(AvailableSeriesWrite, Len(stream)) :
        /\ ring' = ring \o SubSeq(stream, 1, n)
        /\ stream' = SubSeq(stream, n + 1, Len(stream))
  BY DEF Read
<1>5. n \in 1..Len(stream) /\ Len(ring) + n <= Capacity
  BY <1>1, <1>3, <1>4 DEF Smaller
<1> QED
  BY <1>4, <1>5

LEMMA ReadKeepsReceiver ==
  ASSUME ReceiverInv, Read
  PROVE  ReceiverInv'
<1>1. PICK n \in 1..Len(stream) :
           /\ Len(ring) + n <= Capacity
           /\ ring' = ring \o SubSeq(stream, 1, n)
           /\ stream' = SubSeq(stream, n + 1, Len(stream))
  BY ReadFits
<1>2. /\ ring \in Seq(Byte) /\ stream \in Seq(Byte) /\ Len(ring) \in Nat
      /\ Len(stream) \in Nat /\ n \in 0..Len(stream)
  BY DEF ReceiverInv, TypeOK
<1>3. SubSeq(stream, 1, n) \in Seq(Byte) /\ Len(SubSeq(stream, 1, n)) = n
  BY <1>2, FirstOf
<1>4. ring' \in Seq(Byte) /\ Len(ring') = Len(ring) + n /\ Len(ring') \in Nat
  BY <1>1, <1>2, <1>3
<1>5. stream' \in Seq(Byte)
  BY <1>1, <1>2, Rest
<1>6. network' = "queue" /\ UNCHANGED <<open, functors, start, process, pending, intact>>
  BY DEF Read, Unread
<1>7. TypeOK'
  BY <1>4, <1>5, <1>6 DEF ReceiverInv, TypeOK, process
<1>8. available \in Nat /\ series \in Nat /\ owed \in Nat
  BY DEF ReceiverInv, TypeOK
<1>9. Len(ring) <= Len(ring') /\ Len(ring') <= Capacity
  BY <1>1, <1>2, <1>4
<1>10. Loaded'
  BY <1>2, <1>4, <1>6, <1>8, <1>9 DEF ReceiverInv, Loaded, process
<1>11. Handled'
  BY <1>2, <1>4, <1>6, <1>8, <1>9 DEF ReceiverInv, Handled, process
<1> QED
  BY <1>7, <1>10, <1>11 DEF ReceiverInv

LEMMA QueueProcessKeepsReceiver ==
  ASSUME ReceiverInv, QueueProcess
  PROVE  ReceiverInv'
<1>1. functors' \in Nat
  BY DEF ReceiverInv, TypeOK, QueueProcess
<1> QED
  BY <1>1 DEF ReceiverInv, TypeOK, Loaded, Handled, QueueProcess, Unread, process

LEMMA ReadEndsKeepsReceiver ==
  ASSUME ReceiverInv, ReadEnds
  PROVE  ReceiverInv'
<1>1. stream' \in Seq(Byte) /\ open' \in BOOLEAN
  BY EmptySeq, Zenon DEF ReadEnds
<1> QED
  BY <1>1 DEF ReceiverInv, TypeOK, Loaded, Handled, ReadEnds, Unread, process

LEMMA RunFunctorKeepsReceiver ==
  ASSUME ReceiverInv, RunFunctor
  PROVE  ReceiverInv'
<1>1. functors' \in Nat
  BY DEF ReceiverInv, TypeOK, RunFunctor
<1> QED
  BY <1>1 DEF ReceiverInv, TypeOK, Loaded, Handled, RunFunctor, Unsent

LEMMA LoadKeepsReceiver ==
  ASSUME ReceiverInv, Load
  PROVE  ReceiverInv'
<1>1. /\ Len(ring) \in Nat /\ Capacity \in Nat /\ start \in 0..(Capacity - 1)
      /\ available \in Nat /\ series \in Nat
  BY Bases DEF ReceiverInv, TypeOK
<1>2. CASE worker = "load"
  <2>1. worker' = "series" /\ available' = Len(ring) /\ series' = series
    BY <1>2 DEF Load
  <2> QED
    BY <1>1, <1>2, <2>1 DEF ReceiverInv, TypeOK, Loaded, Handled, Load, Unsent
<1>3. CASE worker = "series"
  <2>1. worker' = "decide" /\ available' = available /\ series' = AvailableSeriesRead
        /\ UNCHANGED <<ring, start>> /\ available <= Len(ring)
    BY <1>3 DEF Load, ReceiverInv, Loaded
  <2>2. /\ series' \in Nat /\ series' <= Len(ring) /\ start + series' <= Capacity
        /\ available <= series' \/ start + series' = Capacity
    BY <1>1, <2>1 DEF AvailableSeriesRead, Smaller
  <2>3. TypeOK' /\ Handled'
    BY <1>3, <2>1, <2>2 DEF ReceiverInv, TypeOK, Handled, Load, Unsent
  <2>4. Loaded'
    BY <2>1, <2>2 DEF Loaded
  <2> QED
    BY <2>3, <2>4 DEF ReceiverInv
<1> QED
  BY <1>2, <1>3 DEF Load

\* NoHead, IllegalLength and Incomplete.
LEMMA LeaveKeepsReceiver ==
  ASSUME ReceiverInv, worker = "decide", Leave, garbled' \in BOOLEAN
  PROVE  ReceiverInv'
  BY DEF ReceiverInv, TypeOK, Loaded, Handled, Leave, Unsent

\* The packet that Deliver hands over.
LEMMA DeliverTakes ==
  ASSUME ReceiverInv, Deliver
  PROVE  \E m \in Nat :
           /\ m = NextLength + HeadLen /\ m > HeadLen /\ m <= available
           /\ Handle(m)
<1>1. worker = "decide" /\ available >= HeadLen
  BY DEF Deliver
<1>2. Lengths(Head2) = {NextLength} /\ NextLength \in Nat
  BY <1>1, HeadIsFront
<1>3. PICK payload \in Lengths(Head2) \ {0} :
        available >= payload + HeadLen /\ Handle(payload + HeadLen)
  BY DEF Deliver
<1>4. payload = NextLength /\ payload # 0
  BY <1>2, <1>3
<1>5. NextLength + HeadLen \in Nat /\ NextLength + HeadLen > HeadLen
  BY <1>2, <1>4 DEF HeadLen
<1>6. NextLength + HeadLen <= available
  BY <1>2, <1>3, <1>4 DEF HeadLen, ReceiverInv, TypeOK
<1> QED
  BY <1>3, <1>4, <1>5, <1>6

LEMMA DeliverKeepsReceiver ==
  ASSUME ReceiverInv, Deliver
  PROVE  ReceiverInv'
<1>1. PICK m \in Nat : m > 2 /\ m <= available /\ Handle(m)
  BY DeliverTakes DEF HeadLen
<1>2. worker = "decide" /\ m > 0
  BY <1>1 DEF Deliver
<1>3. /\ out' \in Seq(Byte) /\ Len(out') = m
      /\ ring' \in Seq(Byte) /\ Len(ring') <= Len(ring)
      /\ owed' \in Nat /\ owed' <= Len(ring') /\ start' \in 0..(Capacity - 1)
  BY <1>1, <1>2, HandleTakesFront
<1>4. out' # <<>>
  BY <1>1, <1>3
<1>5. Len(ring') <= Capacity
  BY <1>3, Bases DEF ReceiverInv, TypeOK, Handled
<1>6. pending' \in Seq(Message)
  BY DEF ReceiverInv, TypeOK, Deliver
<1>7. TypeOK'
  BY <1>3, <1>6 DEF ReceiverInv, TypeOK, Deliver, Unsent
<1>8. Loaded' /\ Handled'
  BY <1>3, <1>4, <1>5 DEF Loaded, Handled, Deliver
<1> QED
  BY <1>7, <1>8 DEF ReceiverInv

LEMMA ReturnKeepsReceiver ==
  ASSUME ReceiverInv, Return
  PROVE  ReceiverInv'
<1>1. ring \in Seq(Byte) /\ owed \in 0..Len(ring) /\ Len(ring) \in Nat
      /\ start \in Nat /\ Capacity \in Nat \ {0}
  BY Bases DEF ReceiverInv, TypeOK, Handled
<1>2. /\ ring' \in Seq(Byte) /\ Len(ring') = Len(ring) - owed
      /\ start' \in 0..(Capacity - 1)
  <2>1. ring' = SubSeq(ring, owed + 1, Len(ring))
    BY DEF Return, Consume
  <2>2. start' = (start + owed) % Capacity /\ start + owed \in Int
    BY <1>1 DEF Return, Consume
  <2>3. start' \in 0..(Capacity - 1)
    BY <1>1, <2>2, Division
  <2> QED
    BY <1>1, <2>1, <2>3, Rest
<1>3. Len(ring') <= Capacity /\ Len(ring') \in Nat
  BY <1>1, <1>2 DEF ReceiverInv, Handled
<1>4. TypeOK'
  BY <1>2 DEF ReceiverInv, TypeOK, Return, Unsent
<1>5. Loaded' /\ Handled'
  BY <1>3 DEF ReceiverInv, Loaded, Handled, Return
<1> QED
  BY <1>4, <1>5 DEF ReceiverInv

LEMMA ReceiverNext ==
  ASSUME ReceiverInv, [Next]_vars
  PROVE  ReceiverInv'
<1>1. CASE Sender
  BY <1>1, SenderAccepts, AcceptKeepsReceiver
<1>2. CASE Network
  BY <1>2, ReadKeepsReceiver, QueueProcessKeepsReceiver, ReadEndsKeepsReceiver
     DEF Network
<1>3. CASE NoHead \/ IllegalLength \/ Incomplete
  <2>1. worker = "decide" /\ Leave /\ garbled' \in BOOLEAN
    BY <1>3 DEF NoHead, IllegalLength, Incomplete, ReceiverInv, TypeOK
  <2> QED
    BY <2>1, LeaveKeepsReceiver
<1>4. CASE RunFunctor \/ Load \/ Deliver \/ Return
  BY <1>4, RunFunctorKeepsReceiver, LoadKeepsReceiver, DeliverKeepsReceiver,
     ReturnKeepsReceiver
<1>5. CASE UNCHANGED vars
  BY <1>5 DEF ReceiverInv, TypeOK, Loaded, Handled, vars, receiver, process
<1> QED
  BY <1>1, <1>2, <1>3, <1>4, <1>5 DEF Next, Process

\* The type invariant, and what the worker loop knows of the buffer.
THEOREM ReceiverInvariance == Spec => []ReceiverInv
<1>1. Init => ReceiverInv
  BY ReceiverInit
<1>2. ReceiverInv /\ [Next]_vars => ReceiverInv'
  BY ReceiverNext
<1> QED
  BY <1>1, <1>2, PTL DEF Spec

-----------------------------------------------------------------------------
(* No packet is left in the buffer.                                        *)

\* The network loop has queued a functor or is about to, or the worker loop is
\* at a point where it will look at the buffer as it is now.
WakeupComes ==
  functors > 0 \/ network = "queue" \/ worker \in {"load", "handler"}

\* What the worker loop has loaded lets it take what is at the front.
SeesFront ==
  /\ worker \in {"series", "decide"} /\ available >= HeadLen
  /\ NextLength = 0 \/ available >= NextLength + HeadLen

LEMMA NoStrandedMeans ==
  NoStrandedPacket <=> (Ready /\ ~garbled => WakeupComes \/ SeesFront)
  BY DEF NoStrandedPacket, WakeupComes, SeesFront, NextLength

\* A worker that leaves has seen that nothing is ready, unless it was told so
\* by a garbled head.
LEMMA LeaveStrandsNothing ==
  ASSUME ReceiverInv, NoStrandedPacket, NoHead \/ IllegalLength \/ Incomplete
  PROVE  NoStrandedPacket'
<1> SUFFICES ASSUME Ready', ~garbled' PROVE WakeupComes'
  BY NoStrandedMeans DEF NoStrandedPacket, WakeupComes
<1>1. worker = "decide" /\ Leave
  BY DEF NoHead, IllegalLength, Incomplete
<1>2. UNCHANGED <<ring, functors, network>>
  BY <1>1 DEF Leave, Unsent
<1>3. Ready /\ ~garbled
  BY <1>2 DEF Ready, NoHead, IllegalLength, Incomplete
<1>4. WakeupComes \/ SeesFront
  BY <1>3, NoStrandedMeans
<1>5. ~SeesFront
  <2> SUFFICES ASSUME SeesFront PROVE FALSE
    OBVIOUS
  <2>1. available \in Nat /\ HeadLen = 2 /\ available >= HeadLen
    BY DEF SeesFront, ReceiverInv, TypeOK, HeadLen
  <2>2. Lengths(Head2) = {NextLength} /\ NextLength \in Nat
    BY <1>1, <2>1, HeadIsFront
  <2>3. CASE NoHead
    BY <2>1, <2>3 DEF NoHead
  <2>4. CASE IllegalLength
    BY <2>4 DEF IllegalLength
  <2>5. CASE Incomplete
    <3>1. NextLength # 0 /\ available < NextLength + HeadLen
      BY <2>2, <2>5 DEF Incomplete
    <3> QED
      BY <2>1, <2>2, <3>1 DEF SeesFront
  <2> QED
    BY <2>3, <2>4, <2>5
<1>6. WakeupComes
  BY <1>4, <1>5
<1> QED
  BY <1>1, <1>2, <1>6 DEF WakeupComes

LEMMA StrandedNext ==
  ASSUME ReceiverInv, NoStrandedPacket, [Next]_vars
  PROVE  NoStrandedPacket'
<1>1. CASE Sender
  <2>1. UNCHANGED <<receiver, process>>
    BY <1>1 DEF Sender, SendData, SendDataWithHead, Accept
  <2> QED
    BY <2>1 DEF NoStrandedPacket, Ready, receiver, process
<1>2. CASE Read
  BY <1>2 DEF Read, NoStrandedPacket
<1>3. CASE QueueProcess
  <2>1. functors' > 0
    BY <1>3 DEF QueueProcess, ReceiverInv, TypeOK
  <2> QED
    BY <2>1 DEF NoStrandedPacket
<1>4. CASE ReadEnds
  BY <1>4 DEF ReadEnds, Unread, process, NoStrandedPacket, Ready
<1>5. CASE RunFunctor
  BY <1>5 DEF RunFunctor, NoStrandedPacket
<1>6. CASE Load
  <2>1. CASE worker = "load"
    <3>1. worker' = "series" /\ available' = Len(ring) /\ ring' = ring
      BY <1>6, <2>1 DEF Load
    <3>2. (Ready => SeesFront)'
      BY <3>1 DEF Ready, SeesFront, NextLength
    <3> QED
      BY <3>2 DEF NoStrandedPacket, SeesFront, NextLength
  <2>2. CASE worker = "series"
    <3>1. /\ worker' = "decide" /\ available' = available /\ ring' = ring
          /\ UNCHANGED <<functors, network, garbled>>
      BY <1>6, <2>2 DEF Load, Unsent
    <3> QED
      BY <2>2, <3>1 DEF NoStrandedPacket, Ready
  <2> QED
    BY <1>6, <2>1, <2>2 DEF Load
<1>7. CASE NoHead \/ IllegalLength \/ Incomplete
  BY <1>7, LeaveStrandsNothing
<1>8. CASE Deliver
  BY <1>8 DEF Deliver, NoStrandedPacket
<1>9. CASE Return
  BY <1>9 DEF Return, NoStrandedPacket
<1>10. CASE UNCHANGED vars
  BY <1>10 DEF NoStrandedPacket, Ready, vars, receiver, process
<1> QED
  BY <1>1, <1>2, <1>3, <1>4, <1>5, <1>6, <1>7, <1>8, <1>9, <1>10
     DEF Next, Network, Process

\* TryReadDataFromSocket queues TryProcessBufferedDataInWorkLoop after every
\* read, and the latter stops only where it has seen no whole packet, whatever
\* was read between its two loads and its decision.
THEOREM NothingStranded == Spec => []NoStrandedPacket
<1>1. Init => NoStrandedPacket
  <2> SUFFICES ASSUME Init, Ready PROVE FALSE
    BY DEF NoStrandedPacket
  <2> QED
    BY DEF Init, Ready, HeadLen
<1>2. ReceiverInv /\ NoStrandedPacket /\ [Next]_vars => NoStrandedPacket'
  BY StrandedNext
<1> QED
  BY <1>1, <1>2, ReceiverInvariance, PTL DEF Spec

-----------------------------------------------------------------------------
(* A socket is a queue of packets.                                         *)

\* The bytes that no packet has been made of: those in the buffer that are not
\* in the hands of SignalReadPacket, and those that are on their way.
Coming == SubSeq(ring, owed + 1, Len(ring)) \o stream

\* The packets that were sent and not delivered are at the front of those
\* bytes.  While the socket reads they are there in full, and nothing else is
\* there unless something else was sent.
Framing ==
  \E cut :
    /\ Frames(cut, pending, Coming)
    /\ intact => Len(Coming) <= cut[Len(pending)]
    /\ open => cut[Len(pending)] <= Len(Coming)

LEMMA ComingType ==
  ASSUME ReceiverInv
  PROVE  /\ Coming \in Seq(Byte)
         /\ Len(Coming) = Len(ring) - owed + Len(stream) /\ Len(Coming) \in Nat
         /\ \A k \in 1..(Len(ring) - owed) : Coming[k] = ring[owed + k]
<1> DEFINE r == SubSeq(ring, owed + 1, Len(ring))
<1>1. /\ ring \in Seq(Byte) /\ owed \in 0..Len(ring) /\ stream \in Seq(Byte)
      /\ Len(ring) \in Nat /\ Len(stream) \in Nat
  BY DEF ReceiverInv, TypeOK, Handled
<1>2. /\ r \in Seq(Byte) /\ Len(r) = Len(ring) - owed
      /\ \A k \in 1..(Len(ring) - owed) : r[k] = ring[owed + k]
  BY <1>1, Rest
<1>3. Coming = r \o stream
  BY DEF Coming
<1> HIDE DEF r
<1>4. /\ r \o stream \in Seq(Byte)
      /\ Len(r \o stream) = Len(ring) - owed + Len(stream)
      /\ Len(ring) - owed + Len(stream) \in Nat
  BY <1>1, <1>2
<1>5. \A k \in 1..(Len(ring) - owed) : (r \o stream)[k] = r[k]
  BY <1>1, <1>2
<1> QED
  BY <1>2, <1>3, <1>4, <1>5

\* Reading moves bytes from the stream into the buffer.
LEMMA ReadKeepsComing ==
  ASSUME ReceiverInv, Read
  PROVE  UNCHANGED Coming
<1>1. PICK n \in 1..Len(stream) :
        /\ ring' = ring \o SubSeq(stream, 1, n)
        /\ stream' = SubSeq(stream, n + 1, Len(stream))
  BY ReadFits
<1>2. /\ ring \in Seq(Byte) /\ stream \in Seq(Byte) /\ owed \in 0..Len(ring)
      /\ n \in 0..Len(stream) /\ owed' = owed
  BY DEF ReceiverInv, TypeOK, Handled, Read, Unread, process
<1>3. SubSeq(ring \o SubSeq(stream, 1, n), owed + 1,
             Len(ring \o SubSeq(stream, 1, n)))
        \o SubSeq(stream, n + 1, Len(stream))
      = SubSeq(ring, owed + 1, Len(ring)) \o stream
  BY <1>2, MovePiece
<1> QED
  BY <1>1, <1>2, <1>3 DEF Coming

\* Sent bytes come last.
LEMMA AcceptExtends ==
  ASSUME ReceiverInv, NEW bytes \in Seq(Byte), Accept(bytes)
  PROVE  Coming' = Coming \o bytes
<1> DEFINE r == SubSeq(ring, owed + 1, Len(ring))
<1>1. stream \in Seq(Byte) /\ ring \in Seq(Byte) /\ owed \in 0..Len(ring)
  BY DEF ReceiverInv, TypeOK, Handled
<1>2. r \in Seq(Byte)
  BY <1>1, Rest
<1>3. stream' = stream \o bytes /\ UNCHANGED <<ring, owed>>
  BY DEF Accept, receiver, process
<1>4. Coming = r \o stream /\ Coming' = r \o (stream \o bytes)
  BY <1>3 DEF Coming
<1> HIDE DEF r
<1>5. r \o (stream \o bytes) = (r \o stream) \o bytes
  BY <1>1, <1>2, ConcatAssociative, SMTT(60)
<1> QED
  BY <1>4, <1>5

LEMMA ReturnKeepsComing ==
  ASSUME ReceiverInv, Return
  PROVE  UNCHANGED Coming
<1>1. ring' = SubSeq(ring, owed + 1, Len(ring)) /\ owed' = 0 /\ stream' = stream
  BY DEF Return, Consume, Unsent
<1>2. ring' \in Seq(Byte)
  BY ReturnKeepsReceiver DEF ReceiverInv, TypeOK
<1>3. SubSeq(ring', 0 + 1, Len(ring')) = ring'
  BY <1>2
<1> QED
  BY <1>1, <1>3 DEF Coming

LEMMA FramingSame ==
  ASSUME Framing, UNCHANGED <<pending, Coming>>,
         intact' = intact, open' => open
  PROVE  Framing'
  BY DEF Framing

LEMMA FramingAccept ==
  ASSUME ReceiverInv, Framing, NEW bytes \in Seq(Byte), Accept(bytes)
  PROVE  Framing'
<1>1. /\ open /\ intact /\ open' = open /\ Coming' = Coming \o bytes
      /\ pending \in Seq(Message) /\ Coming \in Seq(Byte)
      /\ Len(Coming) \in Nat /\ Len(bytes) \in Nat
  <2>1. Coming' = Coming \o bytes /\ Coming \in Seq(Byte) /\ Len(Coming) \in Nat
    BY AcceptExtends, ComingType, Zenon
  <2>2. open /\ intact /\ open' = open /\ pending \in Seq(Message)
    BY Zenon DEF Accept, receiver, ReceiverInv, TypeOK
  <2> QED
    BY <2>1, <2>2
<1>2. PICK cut : /\ Frames(cut, pending, Coming)
                 /\ Len(Coming) <= cut[Len(pending)]
                 /\ cut[Len(pending)] <= Len(Coming)
  BY <1>1 DEF Framing
<1>3. cut[Len(pending)] = Len(Coming)
  <2>1. Len(pending) \in 0..Len(pending)
    BY <1>1
  <2>2. cut[Len(pending)] \in Nat
    BY <1>2, <2>1 DEF Frames
  <2> QED
    BY <1>1, <1>2, <2>2
<1>4. CASE bytes \in Message
  <2>1. pending' = Append(pending, bytes)
    BY <1>4 DEF Accept
  <2>2. PICK c : /\ Frames(c, pending', Coming')
                 /\ c[Len(pending')] = Len(Coming')
    BY <1>1, <1>2, <1>3, <1>4, <2>1, FramesAppend
  <2>3. Len(Coming') \in Nat
    BY <1>1
  <2> QED
    BY <2>2, <2>3 DEF Framing
<1>5. CASE bytes \notin Message
  <2>1. pending' = pending /\ (intact' => bytes = <<>>)
    BY <1>5 DEF Accept
  <2>2. Frames(cut, pending', Coming')
    BY <1>1, <1>2, <1>3, <2>1, FramesExtend
  <2>3. Len(Coming') = Len(Coming) + Len(bytes)
    BY <1>1
  <2>4. intact' => Len(Coming') <= cut[Len(pending')]
    BY <1>1, <1>3, <2>1, <2>3
  <2>5. cut[Len(pending')] <= Len(Coming')
    BY <1>1, <1>3, <2>1, <2>3
  <2> QED
    BY <2>2, <2>4, <2>5 DEF Framing
<1> QED
  BY <1>4, <1>5

LEMMA FramingReadEnds ==
  ASSUME ReceiverInv, Framing, ReadEnds
  PROVE  Framing'
<1>1. PICK cut : /\ Frames(cut, pending, Coming)
                 /\ intact => Len(Coming) <= cut[Len(pending)]
  BY DEF Framing
<1>2. /\ Coming \in Seq(Byte) /\ Len(Coming) = Len(ring) - owed + Len(stream)
      /\ \A k \in 1..(Len(ring) - owed) : Coming[k] = ring[owed + k]
  BY ComingType
<1>3. /\ ~open' /\ stream' = <<>> /\ UNCHANGED <<ring, owed, pending, intact>>
  BY DEF ReadEnds, Unread, process
<1>4. /\ Coming' \in Seq(Byte) /\ Len(Coming') = Len(ring) - owed + 0
      /\ \A k \in 1..(Len(ring) - owed) : Coming'[k] = ring[owed + k]
  <2>1. ReceiverInv'
    BY ReadEndsKeepsReceiver
  <2>2. (/\ Coming \in Seq(Byte) /\ Len(Coming) = Len(ring) - owed + Len(stream)
         /\ \A k \in 1..(Len(ring) - owed) : Coming[k] = ring[owed + k])'
    BY <2>1, ComingType, PTL
  <2> QED
    BY <1>3, <2>2
<1>5. Len(ring) \in Nat /\ owed \in Nat /\ owed <= Len(ring) /\ Len(stream) \in Nat
      /\ pending \in Seq(Message) /\ Len(pending) \in Nat
  BY DEF ReceiverInv, TypeOK, Handled
<1>6. Len(Coming') <= Len(Coming) /\ \A k \in 1..Len(Coming') : Coming'[k] = Coming[k]
  BY <1>2, <1>4, <1>5
<1>7. \A i \in 1..Len(pending) : Len(pending[i]) \in Nat
  BY <1>5
<1>8. Frames(cut, pending, Coming')
  BY <1>1, <1>2, <1>4, <1>5, <1>6, <1>7, FramesOfFront
<1>9. intact => Len(Coming') <= cut[Len(pending)]
  <2>1. Len(pending) \in 0..Len(pending)
    BY <1>5
  <2>2. cut[Len(pending)] \in Nat
    BY <1>1, <2>1 DEF Frames
  <2> QED
    BY <1>1, <1>2, <1>4, <1>5, <1>6, <2>2
<1> QED
  BY <1>3, <1>8, <1>9 DEF Framing

\* What Deliver hands over is the first packet; or the packets have run out,
\* and what was sent after them was no packet.
LEMMA FrontIsPacket ==
  ASSUME ReceiverInv, Framing, worker = "decide", available >= HeadLen
  PROVE  /\ pending = <<>> => ~intact
         /\ pending # <<>> =>
              /\ NextLength # 0 /\ NextLength + HeadLen = Len(Head(pending))
              /\ Head(pending) \in Message
              /\ \A k \in 1..Len(Head(pending)) :
                   k <= Len(ring) => ring[k] = Head(pending)[k]
<1>1. /\ Len(ring) \in Nat /\ available \in Nat /\ HeadLen = 2 /\ owed = 0
      /\ available <= Len(ring) /\ Len(ring) >= 2 /\ Len(stream) \in Nat
      /\ pending \in Seq(Message)
  BY DEF ReceiverInv, TypeOK, Loaded, Handled, HeadLen
<1>2. /\ Coming \in Seq(Byte) /\ Len(Coming) = Len(ring) - owed + Len(stream)
      /\ \A k \in 1..(Len(ring) - owed) : Coming[k] = ring[owed + k]
  BY ComingType
<1>3. Len(Coming) \in Nat /\ Len(Coming) >= Len(ring)
      /\ \A k \in 1..Len(ring) : Coming[k] = ring[k]
  BY <1>1, <1>2
<1>4. PICK cut : /\ Frames(cut, pending, Coming)
                 /\ intact => Len(Coming) <= cut[Len(pending)]
  BY DEF Framing
<1>5. ASSUME pending = <<>> PROVE ~intact
  <2>1. cut[Len(pending)] = 0
    BY <1>4, <1>5 DEF Frames
  <2> QED
    BY <1>1, <1>3, <1>4, <2>1
<1>6. ASSUME pending # <<>>
      PROVE  /\ NextLength # 0 /\ NextLength + HeadLen = Len(Head(pending))
             /\ Head(pending) \in Message
             /\ \A k \in 1..Len(Head(pending)) :
                  k <= Len(ring) => ring[k] = Head(pending)[k]
  <2> DEFINE m == Head(pending)
  <2>1. /\ m \in Message
        /\ \A k \in 1..Len(m) : k <= Len(Coming) => Coming[k] = m[k]
    BY <1>1, <1>2, <1>4, <1>6, FirstPacket
  <2> HIDE DEF m
  <2>2. Len(m) \in Nat /\ Len(m) > 2 /\ m[1] + Base * m[2] = Len(m) - 2
    BY <1>1, <2>1, MessageShape
  <2>3. \A k \in 1..Len(m) : k <= Len(ring) => ring[k] = m[k]
    BY <1>3, <2>1, <2>2
  <2>4. ring[1] = m[1] /\ ring[2] = m[2]
    BY <1>1, <2>2, <2>3
  <2>5. NextLength = Len(m) - 2
    BY <2>2, <2>4 DEF NextLength
  <2>6. NextLength # 0 /\ NextLength + HeadLen = Len(m)
    <3>1. Len(m) \in Nat /\ Len(m) > 2
      BY <2>2
    <3> QED
      BY <2>5, <3>1 DEF HeadLen
  <2> QED
    BY <2>1, <2>3, <2>6 DEF m
<1> QED
  BY <1>5, <1>6

LEMMA FramingDeliver ==
  ASSUME ReceiverInv, Framing, Deliver
  PROVE  /\ Framing'
         /\ pending = <<>> => ~intact
         /\ pending # <<>> => out' = Head(pending)
<1>1. PICK m \in Nat : /\ m = NextLength + HeadLen /\ m > HeadLen
                       /\ m <= available /\ Handle(m)
  BY DeliverTakes
<1>2. /\ worker = "decide" /\ available >= HeadLen /\ m > 0 /\ owed = 0
      /\ UNCHANGED <<stream, open, intact>>
  BY <1>1 DEF Deliver, Unsent, HeadLen, ReceiverInv, Handled
<1>3. /\ out' \in Seq(Byte) /\ Len(out') = m /\ m <= Len(ring)
      /\ \A k \in 1..m : out'[k] = ring[k]
      /\ SubSeq(ring', owed' + 1, Len(ring')) = SubSeq(ring, m + 1, Len(ring))
  BY <1>1, <1>2, HandleTakesFront
<1>4. /\ ring \in Seq(Byte) /\ stream \in Seq(Byte) /\ pending \in Seq(Message)
      /\ Len(ring) \in Nat /\ m \in 0..Len(ring)
  BY <1>3 DEF ReceiverInv, TypeOK
<1>5. Coming = ring \o stream
  <2>1. SubSeq(ring, 0 + 1, Len(ring)) = ring
    BY <1>4
  <2> QED
    BY <1>2, <2>1 DEF Coming
<1>6. Coming' = SubSeq(Coming, m + 1, Len(Coming))
  <2>1. Coming' = SubSeq(ring, m + 1, Len(ring)) \o stream
    BY <1>2, <1>3 DEF Coming
  <2> QED
    BY <1>4, <1>5, <2>1, RestOfJoined
<1>7. Coming \in Seq(Byte) /\ Len(Coming) \in Nat /\ m <= Len(Coming)
      /\ Len(Coming') = Len(Coming) - m
  <2>1. Coming \in Seq(Byte) /\ Len(Coming) \in Nat /\ m <= Len(Coming)
    BY <1>4, <1>5
  <2>2. m \in 0..Len(Coming)
    BY <2>1
  <2> QED
    BY <1>6, <2>1, <2>2, Rest
<1>8. PICK cut : /\ Frames(cut, pending, Coming)
                 /\ intact => Len(Coming) <= cut[Len(pending)]
                 /\ open => cut[Len(pending)] <= Len(Coming)
  BY DEF Framing
<1>9. Len(pending) \in Nat /\ cut[Len(pending)] \in Nat
  <2>1. Len(pending) \in Nat /\ Len(pending) \in 0..Len(pending)
    BY <1>4
  <2> QED
    BY <1>8, <2>1 DEF Frames
<1>10. CASE pending = <<>>
  <2>1. ~intact /\ pending' = <<>>
    BY <1>2, <1>10, FrontIsPacket DEF Deliver
  <2>2. Frames(cut, <<>>, Coming') /\ cut[Len(<<>>)] = 0
    BY <1>8, <1>10 DEF Frames
  <2>3. 0 <= Len(Coming')
    BY <1>7
  <2> QED
    BY <1>2, <1>10, <2>1, <2>2, <2>3 DEF Framing
<1>11. CASE pending # <<>>
  <2>1. /\ Head(pending) \in Message /\ m = Len(Head(pending))
        /\ \A k \in 1..Len(Head(pending)) :
             k <= Len(ring) => ring[k] = Head(pending)[k]
    BY <1>1, <1>2, <1>11, FrontIsPacket
  <2>2. out' = Head(pending)
    <3>1. Head(pending) \in Seq(Byte)
      BY <2>1, MessageShape
    <3>2. \A k \in 1..m : out'[k] = Head(pending)[k]
      BY <1>3, <1>4, <2>1
    <3> QED
      BY <1>3, <2>1, <3>1, <3>2, SeqEqual
  <2>3. pending' = Tail(pending)
    BY <1>11 DEF Deliver
  <2>4. PICK c : /\ Frames(c, pending', Coming')
                 /\ c[Len(pending')] = cut[Len(pending)] - m
    BY <1>4, <1>6, <1>7, <1>8, <1>11, <2>1, <2>3, FramesTail, SMTT(60)
  <2>5. /\ intact => Len(Coming') <= c[Len(pending')]
        /\ open => c[Len(pending')] <= Len(Coming')
    BY <1>7, <1>8, <1>9, <2>4
  <2> QED
    BY <1>2, <1>11, <2>2, <2>4, <2>5 DEF Framing
<1> QED
  BY <1>10, <1>11

LEMMA FramingNext ==
  ASSUME ReceiverInv, Framing, [Next]_vars
  PROVE  Framing'
<1>1. CASE Sender
  BY <1>1, SenderAccepts, FramingAccept
<1>2. CASE Read
  <2>1. UNCHANGED <<Coming, pending, intact, open>>
    BY <1>2, ReadKeepsComing DEF Read, Unread
  <2> QED
    BY <2>1, FramingSame
<1>3. CASE ReadEnds
  BY <1>3, FramingReadEnds
<1>4. CASE Deliver
  BY <1>4, FramingDeliver
<1>5. CASE Return
  <2>1. UNCHANGED <<Coming, pending, intact, open>>
    BY <1>5, ReturnKeepsComing DEF Return, Unsent
  <2> QED
    BY <2>1, FramingSame
<1>6. CASE \/ QueueProcess \/ RunFunctor \/ Load
           \/ NoHead \/ IllegalLength \/ Incomplete \/ UNCHANGED vars
  <2>1. UNCHANGED <<ring, owed, stream, pending, intact, open>>
    BY <1>6 DEF QueueProcess, RunFunctor, Load, NoHead, IllegalLength,
       Incomplete, Leave, Unread, Unsent, vars, receiver, process
  <2>2. UNCHANGED Coming
    BY <2>1 DEF Coming
  <2> QED
    BY <2>1, <2>2, FramingSame
<1> QED
  BY <1>1, <1>2, <1>3, <1>4, <1>5, <1>6 DEF Next, Network, Process

LEMMA FramingInvariance == Spec => []Framing
<1>1. Init => Framing
  <2> SUFFICES ASSUME Init PROVE Framing
    OBVIOUS
  <2> DEFINE cut == [n \in 0..0 |-> 0]
  <2>1. Coming = <<>> /\ pending = <<>>
    BY DEF Init, Coming
  <2>2. Frames(cut, <<>>, <<>>) /\ cut[Len(<<>>)] = 0
    BY DEF Frames
  <2> HIDE DEF cut
  <2> QED
    BY <2>1, <2>2 DEF Framing
<1>2. ReceiverInv /\ Framing /\ [Next]_vars => Framing'
  BY FramingNext
<1> QED
  BY <1>1, <1>2, ReceiverInvariance, PTL DEF Spec

LEMMA QueueStep ==
  ASSUME ReceiverInv, Framing, [Next]_vars
  PROVE  [Abstract!Next]_(Abstract!vars)
<1> USE DEF Abstract!vars
<1>1. CASE Sender
  <2>1. PICK bytes \in Seq(Byte) : Accept(bytes)
    BY <1>1, SenderAccepts
  <2>2. UNCHANGED <<out, garbled, open>> /\ intact
    BY <2>1 DEF Accept, receiver, process
  <2>3. CASE bytes \in Message
    <3>1. pending' = Append(pending, bytes) /\ intact'
      BY <2>1, <2>3 DEF Accept
    <3>2. intact' = intact
      BY <2>1, <2>2, <2>3 DEF Accept
    <3> QED
      BY <2>2, <2>3, <3>1, <3>2 DEF Abstract!Next, Abstract!Send
  <2>4. CASE bytes \notin Message
    <3>1. pending' = pending /\ (intact' = TRUE \/ intact' = FALSE)
      BY <2>1, <2>4 DEF Accept
    <3>2. CASE intact' = FALSE
      BY <2>2, <3>1, <3>2 DEF Abstract!Next, Abstract!Spoil
    <3>3. CASE intact' = TRUE
      BY <2>2, <3>1, <3>3 DEF ReceiverInv, TypeOK
    <3> QED
      BY <3>1, <3>2, <3>3
  <2> QED
    BY <2>3, <2>4
<1>2. CASE ReadEnds
  BY <1>2 DEF ReadEnds, Unread, process, Abstract!Next, Abstract!Close
<1>3. CASE Deliver
  <2>1. /\ pending = <<>> => ~intact
        /\ pending # <<>> => out' = Head(pending)
    BY <1>3, FramingDeliver
  <2>2. out = <<>> /\ UNCHANGED <<intact, garbled, open>>
    BY <1>3 DEF Deliver, Unsent, ReceiverInv, Handled
  <2>3. out' # <<>>
    <3>1. ReceiverInv' /\ worker' = "handler"
      BY <1>3, DeliverKeepsReceiver DEF Deliver
    <3> QED
      BY <3>1 DEF ReceiverInv, Handled
  <2>4. CASE pending = <<>>
    <3>1. pending' = pending
      BY <1>3, <2>4 DEF Deliver
    <3> QED
      BY <2>1, <2>2, <2>3, <2>4, <3>1 DEF Abstract!Next, Abstract!DeliverSpoilt
  <2>5. CASE pending # <<>>
    <3>1. pending' = Tail(pending)
      BY <1>3, <2>5 DEF Deliver
    <3> QED
      BY <2>1, <2>2, <2>5, <3>1 DEF Abstract!Next, Abstract!Deliver
  <2> QED
    BY <2>4, <2>5
<1>4. CASE Return
  <2>1. out # <<>> /\ out' = <<>> /\ UNCHANGED <<pending, intact, garbled, open>>
    BY <1>4 DEF Return, Unsent, ReceiverInv, Handled
  <2> QED
    BY <2>1 DEF Abstract!Next, Abstract!Return
<1>5. CASE IllegalLength
  <2>1. worker = "decide" /\ available >= HeadLen /\ 0 \in Lengths(Head2)
        /\ garbled' = TRUE /\ UNCHANGED <<pending, out, intact, open>>
    BY <1>5 DEF IllegalLength, Leave, Unsent
  <2>2. NextLength = 0
    BY <2>1, HeadIsFront
  <2>3. pending = <<>> /\ ~intact
    BY <2>1, <2>2, FrontIsPacket
  <2> QED
    BY <2>1, <2>3 DEF Abstract!Next, Abstract!Refuse
<1>6. CASE \/ Read \/ QueueProcess \/ RunFunctor \/ Load
           \/ NoHead \/ Incomplete \/ UNCHANGED vars
  BY <1>6 DEF Read, QueueProcess, RunFunctor, Load, NoHead, Incomplete, Leave,
     Unread, Unsent, vars, receiver, process
<1> QED
  BY <1>1, <1>2, <1>3, <1>4, <1>5, <1>6 DEF Next, Network, Process

\* Every step of the two sockets is one of PacketQueue or changes nothing of
\* it: what TryProcessBufferedDataInWorkLoop hands to SignalReadPacket is the
\* first packet that SendData has accepted and that was not handed over, byte
\* for byte, and it meets an illegal length only when all packets are handed
\* over and something else was sent.
THEOREM PacketsInOrder ==
  Spec => Abstract!Init /\ [][Abstract!Next]_(Abstract!vars)
<1>1. Init => Abstract!Init
  BY DEF Init, Abstract!Init
<1>2. ReceiverInv /\ Framing /\ [Next]_vars => [Abstract!Next]_(Abstract!vars)
  BY QueueStep
<1> QED
  BY <1>1, <1>2, ReceiverInvariance, FramingInvariance, PTL DEF Spec
=============================================================================
