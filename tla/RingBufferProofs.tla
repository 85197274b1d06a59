-------------------------- MODULE RingBufferProofs --------------------------
(***************************************************************************)
(* Proofs about RingBuffer for every capacity, every counter width and     *)
(* every set of byte values.                                               *)
(***************************************************************************)
EXTENDS RingBuffer, ProofLemmas

-----------------------------------------------------------------------------
(* What the counters mean.                                                 *)

LEMMA Constants ==
  /\ Capacity \in Nat \ {0}
  /\ WordSize \in Nat \ {0}
  /\ WordSize > Capacity
  /\ MaxRun \in Nat \ {0}
  BY RingAssumption

\* A counter and its slot differ by whole turns around the buffer.
LEMMA IndexTurns ==
  ASSUME NEW x \in Int
  PROVE  /\ Index(x) \in 0 .. Capacity - 1
         /\ \E q \in Int : x = Capacity * q + Index(x)
<1>1. x \div Capacity \in Int /\ x % Capacity \in 0 .. Capacity - 1
      /\ x = Capacity * (x \div Capacity) + (x % Capacity)
  BY Division, Constants
<1> QED
  BY <1>1 DEF Index

\* ... and two numbers that differ by whole turns have one slot.
LEMMA IndexUnique ==
  ASSUME NEW x \in Int, NEW y \in Int, NEW q \in Int, x = Capacity * q + y
  PROVE  Index(x) = Index(y)
<1>1. x = y + Capacity * q
  BY Constants
<1>2. (y + Capacity * q) % Capacity = y % Capacity
  BY RemainderShift, Constants
<1> QED
  BY <1>1, <1>2 DEF Index

\* Wrapping the counter does not change its slot: Capacity divides WordSize.
LEMMA IndexOfWord ==
  ASSUME NEW x \in Int
  PROVE  Index(x % WordSize) = Index(x)
<1>1. PICK d \in Int, m \in Int : x = WordSize * d + m /\ m = x % WordSize
  <2>1. x \div WordSize \in Int /\ x % WordSize \in Int
        /\ x = WordSize * (x \div WordSize) + (x % WordSize)
    BY Division, Constants
  <2> QED
    BY <2>1
<1>2. PICK k \in Int : WordSize = Capacity * k
  <2>1. WordSize \div Capacity \in Int /\ WordSize % Capacity = 0
        /\ WordSize = Capacity * (WordSize \div Capacity) + (WordSize % Capacity)
    BY Division, Constants, RingAssumption
  <2> QED
    BY <2>1, Constants
<1>3. k * d \in Int /\ WordSize * d = Capacity * (k * d)
  BY <1>2, Constants
<1>4. x = Capacity * (k * d) + m
  BY <1>1, <1>2, <1>3, Constants
<1>5. Index(x) = Index(m)
  BY <1>3, <1>4, IndexUnique
<1> QED
  BY <1>1, <1>5

\* The write counter is the read counter advanced by the content.
LEMMA WriteIsReadPlusContent ==
  ASSUME read_count \in Word, write_count \in Word
  PROVE  /\ AvailableRead \in Word
         /\ write_count = (read_count + AvailableRead) % WordSize
         /\ Index(write_count) = Index(read_count + AvailableRead)
<1>1. AvailableRead = IF write_count >= read_count
                        THEN write_count - read_count
                        ELSE write_count - read_count + WordSize
  BY CyclicDifference, Constants DEF AvailableRead, Word
<1>2. AvailableRead \in Word
  BY <1>1, Constants DEF Word
<1>3. write_count = (read_count + AvailableRead) % WordSize
  BY <1>1, <1>2, CyclicSum, Constants DEF Word
<1>4. read_count + AvailableRead \in Int
  BY <1>2, Constants DEF Word
<1> QED
  BY <1>2, <1>3, <1>4, IndexOfWord

\* A multiple of n other than 0 is at least n away from 0.
LEMMA NoMultipleBetween ==
  ASSUME NEW n \in Nat \ {0}, NEW q \in Int, 1 <= n * q, n * q <= n - 1
  PROVE  FALSE
  OBVIOUS

\* The i-th slot from the write index on and the j-th from the read index on
\* are apart as long as i stays in the room and j in the content.
LEMMA ClaimsApart ==
  ASSUME read_count \in Word, write_count \in Word,
         NEW i \in Int, NEW j \in Int,
         1 <= i, i <= Capacity - AvailableRead, 1 <= j, j <= AvailableRead
  PROVE  WriteSlot(i) # Index(Index(read_count) + j - 1)
<1> DEFINE d == AvailableRead
           r == Index(read_count)
           w == Index(write_count)
           si == WriteSlot(i)
           sj == Index(r + j - 1)
<1>1. read_count \in Int /\ d \in Int /\ read_count + d \in Int
      /\ w = Index(read_count + d)
  BY WriteIsReadPlusContent, Constants DEF Word
<1>2. 1 <= d + i - j /\ d + i - j <= Capacity - 1
  BY <1>1, Constants
<1> HIDE DEF d
<1>3. r \in Int /\ \E q \in Int : read_count = Capacity * q + r
  BY <1>1, IndexTurns
<1>4. w \in Int /\ \E q \in Int : read_count + d = Capacity * q + w
  BY <1>1, IndexTurns
<1> HIDE DEF r, w
<1>5. w + i - 1 \in Int /\ r + j - 1 \in Int /\ si = Index(w + i - 1)
  BY <1>3, <1>4 DEF WriteSlot, w
<1>6. si \in Int /\ \E q \in Int : w + i - 1 = Capacity * q + si
  BY <1>5, IndexTurns
<1>7. sj \in Int /\ \E q \in Int : r + j - 1 = Capacity * q + sj
  BY <1>5, IndexTurns
<1> HIDE DEF si, sj
<1> SUFFICES ASSUME si = sj PROVE FALSE
  BY DEF si, sj, r
<1>8. PICK q1 \in Int, q2 \in Int, q3 \in Int, q4 \in Int :
         /\ read_count = Capacity * q1 + r
         /\ read_count + d = Capacity * q2 + w
         /\ w + i - 1 = Capacity * q3 + si
         /\ r + j - 1 = Capacity * q4 + sj
  BY <1>3, <1>4, <1>6, <1>7
<1>9. d + i - j = Capacity * q2 + Capacity * q3 - Capacity * q1 - Capacity * q4
  BY <1>1, <1>3, <1>4, <1>6, <1>7, <1>8, Constants
<1>10. PICK q \in Int : d + i - j = Capacity * q
  <2>1. q2 + q3 - q1 - q4 \in Int
        /\ Capacity * (q2 + q3 - q1 - q4)
             = Capacity * q2 + Capacity * q3 - Capacity * q1 - Capacity * q4
    BY Constants
  <2> QED
    BY <1>9, <2>1
<1> QED
  BY <1>2, <1>10, NoMultipleBetween, Constants

-----------------------------------------------------------------------------
(* Advancing a counter.                                                    *)

\* Advancing the counter that is ahead by k widens the distance by k.
LEMMA CounterAdvances ==
  ASSUME NEW a \in Word, NEW b \in Word,
         NEW k \in Nat, ((a - b) % WordSize) + k < WordSize
  PROVE  /\ Advance(a, k) \in Word
         /\ (Advance(a, k) - b) % WordSize = ((a - b) % WordSize) + k
<1> DEFINE n == WordSize
           c == (a + k) % n
<1>1. n \in Nat \ {0} /\ a \in 0 .. n - 1 /\ b \in 0 .. n - 1
  BY Constants DEF Word
<1> HIDE DEF n
<1>2. (a - b) % n = IF a >= b THEN a - b ELSE a - b + n
  BY <1>1, CyclicDifference
<1>3. k \in 0 .. n
  <2>1. ((a - b) % n) + k < n
    BY DEF n
  <2> QED
    BY <1>1, <1>2, <2>1
<1>4. c \in 0 .. n - 1 /\ c = IF a + k < n THEN a + k ELSE a + k - n
  <2>1. (a + k) % n = IF a + k < n THEN a + k ELSE a + k - n
    BY <1>1, <1>3, CyclicSum
  <2> QED
    BY <1>1, <1>3, <2>1
<1>5. Advance(a, k) = c
  BY Zenon DEF Advance, n
<1>6. ((a - b) % n) + k < n
  BY DEF n
<1> HIDE DEF c
<1>7. (c - b) % n = IF c >= b THEN c - b ELSE c - b + n
  BY <1>1, <1>4, CyclicDifference
<1>8. (c - b) % n = ((a - b) % n) + k
  BY <1>1, <1>2, <1>4, <1>6, <1>7
<1> QED
  BY <1>4, <1>5, <1>8 DEF n, Word

\* Advancing the counter behind by k, at most up to the other, narrows it by k.
LEMMA CounterCatchesUp ==
  ASSUME NEW a \in Word, NEW b \in Word,
         NEW k \in Nat, k <= (a - b) % WordSize
  PROVE  /\ Advance(b, k) \in Word
         /\ (a - Advance(b, k)) % WordSize = ((a - b) % WordSize) - k
<1> DEFINE n == WordSize
           c == (b + k) % n
<1>1. n \in Nat \ {0} /\ a \in 0 .. n - 1 /\ b \in 0 .. n - 1
  BY Constants DEF Word
<1> HIDE DEF n
<1>2. (a - b) % n = IF a >= b THEN a - b ELSE a - b + n
  BY <1>1, CyclicDifference
<1>3. k \in 0 .. n
  <2>1. k <= (a - b) % n
    BY DEF n
  <2> QED
    BY <1>1, <1>2, <2>1
<1>4. c \in 0 .. n - 1 /\ c = IF b + k < n THEN b + k ELSE b + k - n
  <2>1. (b + k) % n = IF b + k < n THEN b + k ELSE b + k - n
    BY <1>1, <1>3, CyclicSum
  <2> QED
    BY <1>1, <1>3, <2>1
<1>5. Advance(b, k) = c
  BY Zenon DEF Advance, n
<1>6. k <= (a - b) % n
  BY DEF n
<1> HIDE DEF c
<1>7. (a - c) % n = IF a >= c THEN a - c ELSE a - c + n
  BY <1>1, <1>4, CyclicDifference
<1>8. (a - c) % n = ((a - b) % n) - k
  BY <1>1, <1>2, <1>4, <1>6, <1>7
<1> QED
  BY <1>4, <1>5, <1>8 DEF n, Word

-----------------------------------------------------------------------------
(* Slots of runs.                                                          *)

\* The slot of a sum depends on the slot of its first summand only.
LEMMA IndexOfSum ==
  ASSUME NEW x \in Int, NEW y \in Int
  PROVE  Index(Index(x) + y) = Index(x + y)
<1>1. Index(x) \in Int
  BY IndexTurns, Constants
<1>2. PICK q \in Int : x = Capacity * q + Index(x)
  BY IndexTurns
<1>3. x + y = Capacity * q + (Index(x) + y)
  BY <1>1, <1>2, Constants
<1> QED
  BY <1>1, <1>3, IndexUnique

\* A slot is its own index.
LEMMA IndexOfSlot ==
  ASSUME NEW s \in Slot
  PROVE  Index(s) = s
  BY CyclicSum, Constants DEF Index, Slot

\* The place of the i-th slot of a run is i, and the slot at a slot's place
\* is that slot.
LEMMA PlaceOfWriteSlot ==
  ASSUME write_count \in Word, NEW i \in 1 .. Capacity
  PROVE  WriteSlot(i) \in Slot /\ PlaceInRun(WriteSlot(i)) = i
<1> DEFINE w == Index(write_count)
<1>1. w \in Int
  BY IndexTurns, Constants DEF Word
<1> HIDE DEF w
<1>2. w + i - 1 \in Int /\ Index(w + i - 1) \in Slot
  BY <1>1, IndexTurns, Constants DEF Slot
<1>3. Index(Index(w + i - 1) + (-w)) = Index((w + i - 1) + (-w))
  BY <1>1, <1>2, IndexOfSum, Constants
<1>4. i - 1 \in Slot /\ (w + i - 1) + (-w) = i - 1
  BY <1>1, Constants DEF Slot
<1>5. Index(Index(w + i - 1) - w) = i - 1
  <2>1. Index(w + i - 1) + (-w) = Index(w + i - 1) - w
    BY <1>1, <1>2, Constants DEF Slot
  <2> QED
    BY <1>3, <1>4, <2>1, IndexOfSlot
<1> QED
  BY <1>2, <1>4, <1>5, Constants DEF w, WriteSlot, PlaceInRun, Slot

LEMMA SlotAtPlace ==
  ASSUME write_count \in Word, NEW s \in Slot
  PROVE  PlaceInRun(s) \in 1 .. Capacity /\ WriteSlot(PlaceInRun(s)) = s
<1> DEFINE w == Index(write_count)
<1>1. w \in Int
  BY IndexTurns, Constants DEF Word
<1> HIDE DEF w
<1>2. s \in Int /\ s - w \in Int /\ Index(s - w) \in 0 .. Capacity - 1
  BY <1>1, IndexTurns, Constants DEF Slot
<1>3. Index(Index(s - w) + w) = Index((s - w) + w)
  BY <1>1, <1>2, IndexOfSum
<1>4. (s - w) + w = s /\ w + (Index(s - w) + 1) - 1 = Index(s - w) + w
  BY <1>1, <1>2, Constants
<1>5. Index(w + (Index(s - w) + 1) - 1) = s
  BY <1>3, <1>4, IndexOfSlot
<1>6. Index(s - w) + 1 \in 1 .. Capacity
  BY <1>2, Constants
<1> QED
  BY <1>5, <1>6 DEF w, WriteSlot, PlaceInRun

-----------------------------------------------------------------------------
(* Inv is inductive.                                                       *)

\* What Inv says of the numbers.
LEMMA Room ==
  ASSUME TypeOK, AvailableRead <= Capacity
  PROVE  /\ AvailableRead \in 0 .. Capacity
         /\ AvailableWrite \in 0 .. Capacity
         /\ AvailableSeriesRead \in 0 .. Capacity
         /\ AvailableSeriesRead <= AvailableRead
         /\ Index(read_count) + AvailableSeriesRead <= Capacity
         /\ AvailableSeriesWrite \in 0 .. AvailableWrite
<1>1. AvailableRead \in 0 .. Capacity
  BY WriteIsReadPlusContent, Constants DEF TypeOK, Word
<1>2. Index(read_count) \in 0 .. Capacity - 1
      /\ Index(write_count) \in 0 .. Capacity - 1
  <2>1. read_count \in Int /\ write_count \in Int
    BY Constants DEF TypeOK, Word
  <2> QED
    BY <2>1, IndexTurns
<1>3. AvailableWrite \in 0 .. Capacity
  BY <1>1, Constants DEF AvailableWrite
<1>4. /\ AvailableSeriesRead \in 0 .. Capacity
      /\ AvailableSeriesRead <= AvailableRead
      /\ Index(read_count) + AvailableSeriesRead <= Capacity
  BY <1>1, <1>2, Constants DEF AvailableSeriesRead
<1>5. AvailableSeriesWrite \in 0 .. AvailableWrite
  BY <1>2, <1>3, Constants DEF AvailableSeriesWrite
<1> QED
  BY <1>1, <1>3, <1>4, <1>5

\* The counters after Publish.
LEMMA PublishAdvances ==
  ASSUME TypeOK, AvailableRead <= Capacity, Len(wbuf) <= AvailableWrite,
         read_count' = read_count, write_count' = Advance(write_count, Len(wbuf))
  PROVE  /\ write_count' \in Word
         /\ AvailableRead' = AvailableRead + Len(wbuf)
         /\ AvailableWrite' = AvailableWrite - Len(wbuf)
<1>1. AvailableRead \in 0 .. Capacity /\ AvailableWrite = Capacity - AvailableRead
  BY Room DEF AvailableWrite
<1>2. Len(wbuf) \in Nat
  BY DEF TypeOK
<1>3. ((write_count - read_count) % WordSize) + Len(wbuf) < WordSize
  BY <1>1, <1>2, Constants DEF AvailableRead
<1>4. /\ write_count' \in Word
      /\ (write_count' - read_count) % WordSize
           = ((write_count - read_count) % WordSize) + Len(wbuf)
  BY <1>2, <1>3, CounterAdvances DEF TypeOK
<1>5. AvailableRead' = AvailableRead + Len(wbuf)
  BY <1>4 DEF AvailableRead
<1>6. AvailableWrite' = Capacity - AvailableRead'
  BY DEF AvailableWrite
<1>7. AvailableWrite' = AvailableWrite - Len(wbuf)
  BY <1>1, <1>2, <1>5, <1>6, Constants
<1> QED
  BY <1>4, <1>5, <1>7

\* The counters after Consume.
LEMMA ConsumeAdvances ==
  ASSUME TypeOK, AvailableRead <= Capacity, Len(rbuf) <= AvailableRead,
         write_count' = write_count, read_count' = Advance(read_count, Len(rbuf))
  PROVE  /\ read_count' \in Word
         /\ AvailableRead' = AvailableRead - Len(rbuf)
         /\ AvailableWrite' = AvailableWrite + Len(rbuf)
<1>1. AvailableRead \in 0 .. Capacity /\ AvailableWrite = Capacity - AvailableRead
  BY Room DEF AvailableWrite
<1>2. Len(rbuf) \in Nat
  BY DEF TypeOK
<1>3. Len(rbuf) <= (write_count - read_count) % WordSize
  BY DEF AvailableRead
<1>4. /\ read_count' \in Word
      /\ (write_count - read_count') % WordSize
           = ((write_count - read_count) % WordSize) - Len(rbuf)
  BY <1>2, <1>3, CounterCatchesUp DEF TypeOK
<1>5. AvailableRead' = AvailableRead - Len(rbuf)
  BY <1>4 DEF AvailableRead
<1>6. AvailableWrite' = Capacity - AvailableRead'
  BY DEF AvailableWrite
<1>7. AvailableWrite' = AvailableWrite + Len(rbuf)
  BY <1>1, <1>2, <1>5, <1>6, Constants
<1> QED
  BY <1>4, <1>5, <1>7 DEF Word

\* Storing a run that fits puts its bytes in its slots and leaves the content.
LEMMA StoreKeepsContent ==
  ASSUME TypeOK, AvailableRead <= Capacity,
         NEW run \in Seq(Byte), Len(run) <= AvailableWrite,
         data_arr' = Stored(run), read_count' = read_count,
         write_count' = write_count
  PROVE  /\ data_arr' \in [Slot -> Byte]
         /\ \A i \in 1 .. Len(run) : data_arr'[WriteSlot(i)] = run[i]
         /\ Content' = Content
<1>1. AvailableRead \in 0 .. Capacity /\ AvailableWrite = Capacity - AvailableRead
      /\ Len(run) \in Nat /\ Len(run) <= Capacity
  BY Room, Constants DEF AvailableWrite
<1>2. \A s \in Slot : PlaceInRun(s) \in 1 .. Capacity
  BY SlotAtPlace DEF TypeOK
<1>3. data_arr' \in [Slot -> Byte]
  <2>1. \A s \in Slot : PlaceInRun(s) <= Len(run) => run[PlaceInRun(s)] \in Byte
    BY <1>1, <1>2, Constants
  <2> QED
    BY <2>1 DEF Stored, TypeOK
<1>4. \A i \in 1 .. Len(run) : data_arr'[WriteSlot(i)] = run[i]
  <2> TAKE i \in 1 .. Len(run)
  <2>1. i \in 1 .. Capacity /\ i <= Len(run)
    BY <1>1, Constants
  <2>2. WriteSlot(i) \in Slot /\ PlaceInRun(WriteSlot(i)) = i
    BY <2>1, PlaceOfWriteSlot DEF TypeOK
  <2> QED
    BY <2>1, <2>2 DEF Stored
<1>5. \A j \in 1 .. AvailableRead :
         data_arr'[Index(read_count + j - 1)] = data_arr[Index(read_count + j - 1)]
  <2> TAKE j \in 1 .. AvailableRead
  <2> DEFINE s == Index(read_count + j - 1)
  <2>1. read_count \in Int /\ j \in Int /\ j - 1 \in Int /\ 1 <= j
        /\ j <= AvailableRead
    BY <1>1, Constants DEF TypeOK, Word
  <2>2. s \in Slot
    <3>1. read_count + j - 1 \in Int
      BY <2>1
    <3> QED
      BY <3>1, IndexTurns DEF Slot
  <2>3. s = Index(Index(read_count) + j - 1)
    <3>1. Index(Index(read_count) + (j - 1)) = Index(read_count + (j - 1))
      BY <2>1, IndexOfSum
    <3>2. Index(read_count) \in Int
      BY <2>1, IndexTurns, Constants
    <3>3. Index(read_count) + (j - 1) = Index(read_count) + j - 1
          /\ read_count + (j - 1) = read_count + j - 1
      BY <2>1, <3>2
    <3> QED
      BY <3>1, <3>3
  <2>4. PlaceInRun(s) > Len(run)
    <3>1. PlaceInRun(s) \in 1 .. Capacity /\ WriteSlot(PlaceInRun(s)) = s
      BY <2>2, SlotAtPlace DEF TypeOK
    <3>2. ASSUME PlaceInRun(s) <= Len(run) PROVE FALSE
      <4>1. PlaceInRun(s) \in Int /\ 1 <= PlaceInRun(s)
            /\ PlaceInRun(s) <= Capacity - AvailableRead
        BY <1>1, <3>1, <3>2, Constants
      <4>2. WriteSlot(PlaceInRun(s)) # Index(Index(read_count) + j - 1)
        BY <2>1, <4>1, ClaimsApart DEF TypeOK
      <4> QED
        BY <2>3, <3>1, <4>2
    <3> QED
      BY <1>1, <3>1, <3>2, Constants
  <2>5. ~(PlaceInRun(s) <= Len(run))
    <3>1. PlaceInRun(s) \in Int
      BY <1>2, <2>2, Constants
    <3> QED
      BY <1>1, <2>4, <3>1
  <2> HIDE DEF s
  <2>6. data_arr'[s] = data_arr[s]
    BY <2>2, <2>5 DEF Stored
  <2> QED
    BY <2>6 DEF s
<1>6. AvailableRead' = AvailableRead
  BY DEF AvailableRead
<1>7. Content' = Content
  BY <1>5, <1>6 DEF Content
<1> QED
  BY <1>3, <1>4, <1>7

-----------------------------------------------------------------------------
\* A run is a sequence of at most n bytes.
LEMMA RunIsSeq ==
  ASSUME NEW n \in Nat, NEW run \in Runs(n)
  PROVE  run \in Seq(Byte) /\ Len(run) \in 1 .. n
<1>1. PICK k \in 1 .. n : run \in [1 .. k -> Byte]
  BY DEF Runs
<1>2. run \in Seq(Byte) /\ Len(run) = k
  BY <1>1
<1> QED
  BY <1>1, <1>2

\* A step that leaves the counters and the slots leaves what is read from them.
LEMMA SameCounters ==
  ASSUME UNCHANGED <<data_arr, read_count, write_count>>
  PROVE  /\ AvailableRead' = AvailableRead
         /\ AvailableWrite' = AvailableWrite
         /\ Content' = Content
  BY DEF AvailableRead, AvailableWrite, Content

LEMMA InvInit == Init => Inv
<1> SUFFICES ASSUME Init PROVE Inv
  OBVIOUS
<1>1. AvailableRead = 0 /\ Index(read_count) = 0
  <2>1. (0 - 0) % WordSize = 0 /\ 0 % Capacity = 0
    BY Constants
  <2> QED
    BY <2>1 DEF Init, AvailableRead, Index
<1>2. AvailableWrite = Capacity
  BY <1>1, Constants DEF AvailableWrite
<1>3. wbuf = <<>> /\ rbuf = <<>> /\ <<>> \in Seq(Byte) /\ Len(<<>>) = 0
  BY DEF Init
<1>4. TypeOK
  <2>1. 0 \in Word /\ 0 \in 0 .. Capacity
    BY Constants DEF Word
  <2> QED
    BY <1>3, <2>1 DEF Init, TypeOK
<1>5. ContentFits /\ CheckedRunFits
  BY <1>1, Constants DEF Init, ContentFits, CheckedRunFits
<1>6. WriterClaim
  BY <1>2, Constants DEF Init, WriterClaim
<1>7. ReaderClaim
  BY <1>1, <1>3, Constants DEF Init, ReaderClaim
<1> QED
  BY <1>4, <1>5, <1>6, <1>7 DEF Inv

\* A step of the writing thread up to the slots it may touch keeps Inv.
LEMMA SendKeepsInv ==
  ASSUME Inv, NEW run \in Runs(MaxRun), SendData(run) \/ SendDataWithHead(run)
  PROVE  Inv'
<1>1. run \in Seq(Byte) /\ Len(run) \in 1 .. MaxRun
  BY RunIsSeq, Constants
<1>2. UNCHANGED <<data_arr, read_count, write_count, wspan, readerVars>>
      /\ wpc = "idle" /\ wpc' = "write" /\ wbuf' = run /\ checked' \in BOOLEAN
      /\ (checked' => AvailableWrite >= Len(run) + 2)
  BY DEF SendData, SendDataWithHead
<1>3. AvailableRead' = AvailableRead /\ AvailableWrite' = AvailableWrite
      /\ Content' = Content
  BY <1>2, SameCounters
<1>4. AvailableWrite \in Int
  BY Room, Constants DEF Inv, ContentFits
<1>5. TypeOK'
  BY <1>1, <1>2 DEF Inv, TypeOK, readerVars
<1>6. ContentFits' /\ CheckedRunFits'
  BY <1>1, <1>2, <1>3, <1>4 DEF Inv, ContentFits, CheckedRunFits
<1>7. WriterClaim'
  BY <1>2, <1>3 DEF Inv, WriterClaim
<1>8. ReaderClaim'
  BY <1>2, <1>3 DEF Inv, ReaderClaim, readerVars
<1> QED
  BY <1>5, <1>6, <1>7, <1>8 DEF Inv

LEMMA WriteContentFitsKeepsInv == Inv /\ WriteContentFits => Inv'
<1> SUFFICES ASSUME Inv, WriteContentFits PROVE Inv'
  OBVIOUS
<1>1. UNCHANGED <<data_arr, read_count, write_count, wbuf, checked, readerVars>>
      /\ AvailableWrite >= Len(wbuf) /\ wpc' = "copy" /\ wspan' = Len(wbuf)
  BY DEF WriteContentFits
<1>2. AvailableRead' = AvailableRead /\ AvailableWrite' = AvailableWrite
      /\ Content' = Content
  BY <1>1, SameCounters
<1>3. AvailableWrite \in 0 .. Capacity /\ Len(wbuf) \in Nat
  BY Room DEF Inv, ContentFits, TypeOK
<1>4. TypeOK'
  BY <1>1, <1>3, Constants DEF Inv, TypeOK, readerVars
<1>5. ContentFits' /\ CheckedRunFits'
  BY <1>1, <1>2 DEF Inv, ContentFits, CheckedRunFits
<1>6. WriterClaim'
  BY <1>1, <1>2, <1>3, Constants DEF Inv, WriterClaim
<1>7. ReaderClaim'
  BY <1>1, <1>2 DEF Inv, ReaderClaim, readerVars
<1> QED
  BY <1>4, <1>5, <1>6, <1>7 DEF Inv

LEMMA WriteContentFullKeepsInv == Inv /\ WriteContentFull => Inv'
<1> SUFFICES ASSUME Inv, WriteContentFull PROVE Inv'
  OBVIOUS
<1>1. UNCHANGED <<data_arr, read_count, write_count, wspan, readerVars>>
      /\ wpc = "write" /\ wpc' = "idle" /\ wbuf' = <<>> /\ checked' = FALSE
  BY DEF WriteContentFull
<1>2. AvailableRead' = AvailableRead /\ AvailableWrite' = AvailableWrite
      /\ Content' = Content
  BY <1>1, SameCounters
<1>3. TypeOK'
  <2>1. wbuf' \in Seq(Byte)
    BY <1>1
  <2> QED
    BY <1>1, <2>1 DEF Inv, TypeOK, readerVars
<1>4. ContentFits' /\ CheckedRunFits'
  BY <1>1, <1>2 DEF Inv, ContentFits, CheckedRunFits
<1>5. WriterClaim'
  BY <1>1, <1>2 DEF Inv, WriterClaim
<1>6. ReaderClaim'
  BY <1>1, <1>2 DEF Inv, ReaderClaim, readerVars
<1> QED
  BY <1>3, <1>4, <1>5, <1>6 DEF Inv

\* Storing a run that fits is a step every clause survives.
LEMMA StoreKeepsInv ==
  ASSUME Inv, NEW run \in Seq(Byte), Len(run) <= AvailableWrite,
         data_arr' = Stored(run), wpc' = "publish", wbuf' = run, wspan' = 0,
         checked' = checked,
         UNCHANGED <<read_count, write_count, readerVars>>
  PROVE  Inv'
<1>1. /\ data_arr' \in [Slot -> Byte]
      /\ \A i \in 1 .. Len(run) : data_arr'[WriteSlot(i)] = run[i]
      /\ Content' = Content
  BY StoreKeepsContent DEF Inv, ContentFits
<1>2. AvailableRead' = AvailableRead /\ AvailableWrite' = AvailableWrite
  BY DEF AvailableRead, AvailableWrite
<1>3. \A i : WriteSlot(i)' = WriteSlot(i)
  BY DEF WriteSlot, Index
<1>4. AvailableRead \in 0 .. Capacity /\ AvailableWrite = Capacity - AvailableRead
      /\ Len(run) \in Nat
  BY Room DEF Inv, ContentFits, AvailableWrite
<1>5. TypeOK'
  BY <1>1, Constants DEF Inv, TypeOK, readerVars
<1>6. ContentFits' /\ CheckedRunFits'
  BY <1>2, <1>4, Constants DEF Inv, ContentFits, CheckedRunFits
<1>7. WriterClaim'
  BY <1>1, <1>2, <1>3, <1>4, Constants DEF Inv, WriterClaim
<1>8. ReaderClaim'
  BY <1>1, <1>2 DEF Inv, ReaderClaim, readerVars
<1> QED
  BY <1>5, <1>6, <1>7, <1>8 DEF Inv

LEMMA CopyContentKeepsInv == Inv /\ CopyContent => Inv'
<1> SUFFICES ASSUME Inv, CopyContent PROVE Inv'
  OBVIOUS
<1>1. wbuf \in Seq(Byte) /\ Len(wbuf) <= AvailableWrite
  BY DEF Inv, TypeOK, WriterClaim, CopyContent
<1> QED
  BY <1>1, StoreKeepsInv DEF CopyContent

LEMMA ReceiveKeepsInv ==
  ASSUME Inv, NEW run \in Runs(Capacity), Receive(run)
  PROVE  Inv'
<1>1. run \in Seq(Byte) /\ Len(run) \in Nat
  BY RunIsSeq, Constants
<1>2. Len(run) <= AvailableWrite
  <2>1. Len(run) <= wspan /\ wspan <= AvailableWrite /\ wspan \in Int
    BY Constants DEF Receive, Inv, WriterClaim, TypeOK
  <2>2. AvailableWrite \in Int
    BY Room, Constants DEF Inv, ContentFits
  <2> QED
    BY <1>1, <2>1, <2>2
<1> QED
  BY <1>1, <1>2, StoreKeepsInv DEF Receive

LEMMA BeginReceiveKeepsInv == Inv /\ BeginReceive => Inv'
<1> SUFFICES ASSUME Inv, BeginReceive PROVE Inv'
  OBVIOUS
<1>1. UNCHANGED <<data_arr, read_count, write_count, wbuf, checked, readerVars>>
      /\ wpc = "idle" /\ wpc' = "fill" /\ wspan' = AvailableSeriesWrite
  BY DEF BeginReceive
<1>2. AvailableRead' = AvailableRead /\ AvailableWrite' = AvailableWrite
      /\ Content' = Content
  BY <1>1, SameCounters
<1>3. AvailableWrite \in 0 .. Capacity
      /\ AvailableSeriesWrite \in 0 .. AvailableWrite
  BY Room DEF Inv, ContentFits
<1>4. TypeOK'
  BY <1>1, <1>3, Constants DEF Inv, TypeOK, readerVars
<1>5. ContentFits' /\ CheckedRunFits'
  BY <1>1, <1>2 DEF Inv, ContentFits, CheckedRunFits
<1>6. WriterClaim'
  BY <1>1, <1>2, <1>3, Constants DEF Inv, WriterClaim
<1>7. ReaderClaim'
  BY <1>1, <1>2 DEF Inv, ReaderClaim, readerVars
<1> QED
  BY <1>4, <1>5, <1>6, <1>7 DEF Inv

LEMMA ReceiveNothingKeepsInv == Inv /\ ReceiveNothing => Inv'
<1> SUFFICES ASSUME Inv, ReceiveNothing PROVE Inv'
  OBVIOUS
<1>1. UNCHANGED <<data_arr, read_count, write_count, wbuf, checked, readerVars>>
      /\ wpc = "fill" /\ wpc' = "idle" /\ wspan' = 0
  BY DEF ReceiveNothing
<1>2. AvailableRead' = AvailableRead /\ AvailableWrite' = AvailableWrite
      /\ Content' = Content
  BY <1>1, SameCounters
<1>3. AvailableWrite \in 0 .. Capacity
  BY Room DEF Inv, ContentFits
<1>4. TypeOK'
  BY <1>1, Constants DEF Inv, TypeOK, readerVars
<1>5. ContentFits' /\ CheckedRunFits'
  BY <1>1, <1>2 DEF Inv, ContentFits, CheckedRunFits
<1>6. WriterClaim'
  BY <1>1, <1>2, <1>3, Constants DEF Inv, WriterClaim
<1>7. ReaderClaim'
  BY <1>1, <1>2 DEF Inv, ReaderClaim, readerVars
<1> QED
  BY <1>4, <1>5, <1>6, <1>7 DEF Inv

\* The i-th slot from the write index on comes after the content.
LEMMA WriteSlotAfterContent ==
  ASSUME read_count \in Word, write_count \in Word, NEW i \in Int
  PROVE  WriteSlot(i) = Index(read_count + (AvailableRead + i) - 1)
<1> DEFINE d == AvailableRead
<1>1. d \in Int /\ read_count \in Int /\ write_count \in Int
      /\ Index(write_count) = Index(read_count + d)
  BY WriteIsReadPlusContent, Constants DEF Word
<1> HIDE DEF d
<1>2. Index(Index(read_count + d) + (i - 1)) = Index((read_count + d) + (i - 1))
  BY <1>1, IndexOfSum
<1>3. (read_count + d) + (i - 1) = read_count + (d + i) - 1
  BY <1>1
<1>4. Index(write_count) \in Int
  BY <1>1, IndexTurns, Constants
<1>5. Index(write_count) + (i - 1) = Index(write_count) + i - 1
  BY <1>4
<1> QED
  BY <1>1, <1>2, <1>3, <1>5 DEF WriteSlot, d

\* Publish appends the bytes that were stored to the content.
LEMMA PublishAppends ==
  ASSUME Inv, Publish
  PROVE  Content' = Content \o wbuf
<1> DEFINE d == AvailableRead
           k == Len(wbuf)
<1>1. /\ AvailableRead' = d + k
      /\ d \in Nat /\ k \in Nat /\ read_count \in Int
      /\ UNCHANGED <<data_arr, read_count>>
      /\ \A i \in 1 .. k : data_arr[WriteSlot(i)] = wbuf[i]
  <2>1. AvailableRead \in 0 .. Capacity /\ Len(wbuf) \in Nat /\ read_count \in Int
    BY Room, Constants DEF Inv, ContentFits, TypeOK, Word
  <2>2. AvailableRead' = AvailableRead + Len(wbuf)
    BY PublishAdvances DEF Inv, ContentFits, WriterClaim, Publish
  <2> QED
    BY <2>1, <2>2, Constants DEF Inv, WriterClaim, Publish
<1>2. \A i \in 1 .. k : data_arr[Index(read_count + (d + i) - 1)] = wbuf[i]
  <2> TAKE i \in 1 .. k
  <2>1. i \in Int
    BY <1>1
  <2>2. WriteSlot(i) = Index(read_count + (d + i) - 1)
    BY <2>1, WriteSlotAfterContent DEF Inv, TypeOK
  <2> QED
    BY <1>1, <2>2
<1> HIDE DEF d, k
<1>3. Content' = [i \in 1 .. d + k |-> data_arr[Index(read_count + i - 1)]]
  BY <1>1 DEF Content, Index
<1>4. Content = [i \in 1 .. d |-> data_arr[Index(read_count + i - 1)]]
  BY DEF Content, d
<1>5. wbuf \in Seq(Byte) /\ Len(wbuf) = k
  BY DEF Inv, TypeOK, k
<1>6. \A i \in 1 .. d + k :
        data_arr[Index(read_count + i - 1)]
          = IF i <= d THEN Content[i] ELSE wbuf[i - d]
  <2> TAKE i \in 1 .. d + k
  <2>1. CASE i <= d
    BY <1>1, <1>4, <2>1
  <2>2. CASE ~(i <= d)
    <3>1. i - d \in 1 .. k /\ d + (i - d) = i
      BY <1>1, <2>2
    <3> QED
      BY <1>2, <2>2, <3>1
  <2> QED
    BY <2>1, <2>2
<1>7. Content \o wbuf
        = [i \in 1 .. d + k |-> IF i <= d THEN Content[i] ELSE wbuf[i - d]]
  BY <1>1, <1>4, <1>5
<1> QED
  BY <1>3, <1>6, <1>7

\* Publish widens the content by what was stored, into the room WriterClaim names.
LEMMA PublishKeepsInv == Inv /\ Publish => Inv'
<1> SUFFICES ASSUME Inv, Publish PROVE Inv'
  OBVIOUS
<1>1. UNCHANGED <<data_arr, read_count, wspan, readerVars>> /\ wpc = "publish"
      /\ wpc' = "idle" /\ wbuf' = <<>> /\ checked' = FALSE
  BY DEF Publish
<1>2. /\ write_count' \in Word
      /\ AvailableRead' = AvailableRead + Len(wbuf)
      /\ AvailableWrite' = AvailableWrite - Len(wbuf)
  BY PublishAdvances DEF Inv, ContentFits, WriterClaim, Publish
<1>3. AvailableRead \in 0 .. Capacity /\ AvailableWrite = Capacity - AvailableRead
      /\ Len(wbuf) \in Nat /\ Len(wbuf) <= AvailableWrite
  BY <1>1, Room DEF Inv, ContentFits, AvailableWrite, TypeOK, WriterClaim
<1>4. TypeOK'
  <2>1. wbuf' \in Seq(Byte)
    BY <1>1
  <2> QED
    BY <1>1, <1>2, <2>1 DEF Inv, TypeOK, readerVars
<1>5. ContentFits' /\ CheckedRunFits'
  BY <1>1, <1>2, <1>3, Constants DEF Inv, ContentFits, CheckedRunFits
<1>6. WriterClaim'
  BY <1>1, <1>2, <1>3, Constants DEF Inv, WriterClaim
<1>7. ReaderClaim'
  <2>1. /\ rspan \in Nat /\ rspan <= AvailableRead
        /\ Len(rbuf) \in Nat /\ Len(rbuf) <= AvailableRead
    BY Constants DEF Inv, TypeOK, ReaderClaim
  <2>2. \A i \in 1 .. Len(rbuf) : Content'[i] = Content[i]
    <3> TAKE i \in 1 .. Len(rbuf)
    <3>1. i \in 1 .. AvailableRead /\ i \in 1 .. AvailableRead'
      BY <1>2, <1>3, <2>1, Constants
    <3>2. Content[i] = data_arr[Index(read_count + i - 1)]
      BY <3>1 DEF Content
    <3>3. Content'[i] = data_arr'[Index(read_count' + i - 1)]
      BY <3>1 DEF Content, Index
    <3> QED
      BY <1>1, <3>2, <3>3
  <2>3. Index(read_count)' = Index(read_count)
    BY <1>1 DEF Index
  <2> QED
    BY <1>1, <1>2, <1>3, <2>1, <2>2, <2>3, Constants
    DEF Inv, ReaderClaim, readerVars
<1> QED
  BY <1>4, <1>5, <1>6, <1>7 DEF Inv

LEMMA BeginReadKeepsInv == Inv /\ BeginRead => Inv'
<1> SUFFICES ASSUME Inv, BeginRead PROVE Inv'
  OBVIOUS
<1>1. UNCHANGED <<data_arr, read_count, write_count, rbuf, writerVars>>
      /\ rpc = "idle" /\ rpc' = "use" /\ rspan' = AvailableSeriesRead
  BY DEF BeginRead
<1>2. AvailableRead' = AvailableRead /\ AvailableWrite' = AvailableWrite
      /\ Content' = Content
  BY <1>1, SameCounters
<1>3. /\ AvailableSeriesRead \in 0 .. Capacity
      /\ AvailableSeriesRead <= AvailableRead
      /\ Index(read_count) + AvailableSeriesRead <= Capacity
      /\ Index(read_count)' = Index(read_count)
      /\ \A i : WriteSlot(i)' = WriteSlot(i)
  BY <1>1, Room DEF Inv, ContentFits, Index, WriteSlot
<1>4. TypeOK'
  BY <1>1, <1>3 DEF Inv, TypeOK, writerVars
<1>5. ContentFits' /\ CheckedRunFits'
  BY <1>1, <1>2 DEF Inv, ContentFits, CheckedRunFits, writerVars
<1>6. WriterClaim'
  BY <1>1, <1>2, <1>3 DEF Inv, WriterClaim, writerVars
<1>7. ReaderClaim'
  BY <1>1, <1>2, <1>3 DEF Inv, ReaderClaim
<1> QED
  BY <1>4, <1>5, <1>6, <1>7 DEF Inv

LEMMA UseNothingKeepsInv == Inv /\ UseNothing => Inv'
<1> SUFFICES ASSUME Inv, UseNothing PROVE Inv'
  OBVIOUS
<1>1. UNCHANGED <<data_arr, read_count, write_count, rbuf, writerVars>>
      /\ rpc = "use" /\ rpc' = "idle" /\ rspan' = 0
  BY DEF UseNothing
<1>2. AvailableRead' = AvailableRead /\ AvailableWrite' = AvailableWrite
      /\ Content' = Content
  BY <1>1, SameCounters
<1>3. /\ AvailableRead \in 0 .. Capacity
      /\ Index(read_count) \in 0 .. Capacity - 1
      /\ Index(read_count)' = Index(read_count)
      /\ \A i : WriteSlot(i)' = WriteSlot(i)
  <2>1. read_count \in Int
    BY Constants DEF Inv, TypeOK, Word
  <2> QED
    BY <1>1, <2>1, Room, IndexTurns DEF Inv, ContentFits, Index, WriteSlot
<1>4. TypeOK'
  BY <1>1, Constants DEF Inv, TypeOK, writerVars
<1>5. ContentFits' /\ CheckedRunFits'
  BY <1>1, <1>2 DEF Inv, ContentFits, CheckedRunFits, writerVars
<1>6. WriterClaim'
  BY <1>1, <1>2, <1>3 DEF Inv, WriterClaim, writerVars
<1>7. ReaderClaim'
  BY <1>1, <1>2, <1>3, Constants DEF Inv, ReaderClaim
<1> QED
  BY <1>4, <1>5, <1>6, <1>7 DEF Inv

\* What the reading thread takes is the front of the content.
LEMMA UseTakesFront ==
  ASSUME Inv, NEW k \in 1 .. Capacity, Use(k)
  PROVE  /\ rbuf' \in Seq(Byte) /\ Len(rbuf') = k /\ k <= AvailableRead
         /\ \A i \in 1 .. k : rbuf'[i] = Content[i]
<1>1. /\ k <= AvailableRead /\ Index(read_count) + k <= Capacity
      /\ AvailableRead \in Nat /\ read_count \in Int
      /\ Index(read_count) \in 0 .. Capacity - 1
  <2>1. read_count \in Int /\ AvailableRead \in Nat
    BY Room, Constants DEF Inv, TypeOK, Word, ContentFits
  <2>2. rspan \in Nat /\ k <= rspan /\ rspan <= AvailableRead
        /\ Index(read_count) + rspan <= Capacity
    BY Constants DEF Inv, TypeOK, ReaderClaim, Use
  <2>3. Index(read_count) \in 0 .. Capacity - 1
    BY <2>1, IndexTurns
  <2> QED
    BY <2>1, <2>2, <2>3, Constants
<1>2. ASSUME NEW i \in 1 .. k
      PROVE  /\ Index(read_count) + i - 1 \in Slot
             /\ Index(read_count) + i - 1 = Index(read_count + i - 1)
  <2>1. Index(read_count) + i - 1 \in Slot
    BY <1>1, Constants DEF Slot
  <2>2. Index(Index(read_count) + (i - 1)) = Index(read_count + (i - 1))
    BY <1>1, IndexOfSum
  <2>3. Index(read_count) + (i - 1) = Index(read_count) + i - 1
        /\ read_count + (i - 1) = read_count + i - 1
    BY <1>1, Constants
  <2> QED
    BY <2>1, <2>2, <2>3, IndexOfSlot
<1>3. rbuf' = [i \in 1 .. k |-> data_arr[Index(read_count) + i - 1]]
  BY DEF Use
<1>4. rbuf' \in [1 .. k -> Byte]
  BY <1>2, <1>3 DEF Inv, TypeOK
<1>5. \A i \in 1 .. k : rbuf'[i] = Content[i]
  <2> TAKE i \in 1 .. k
  <2>1. i \in 1 .. AvailableRead
    BY <1>1, Constants
  <2> QED
    BY <1>2, <1>3, <2>1 DEF Content
<1> QED
  BY <1>1, <1>4, <1>5, Constants

LEMMA UseKeepsInv ==
  ASSUME Inv, NEW k \in 1 .. Capacity, Use(k)
  PROVE  Inv'
<1>1. UNCHANGED <<data_arr, read_count, write_count, writerVars>>
      /\ rpc' = "consume" /\ rspan' = 0
  BY DEF Use
<1>2. AvailableRead' = AvailableRead /\ AvailableWrite' = AvailableWrite
      /\ Content' = Content
  BY <1>1, SameCounters
<1>3. /\ rbuf' \in Seq(Byte) /\ Len(rbuf') = k /\ k <= AvailableRead
      /\ \A i \in 1 .. k : rbuf'[i] = Content[i]
  BY UseTakesFront
<1>4. /\ AvailableRead \in 0 .. Capacity
      /\ Index(read_count) \in 0 .. Capacity - 1
      /\ Index(read_count)' = Index(read_count)
      /\ \A i : WriteSlot(i)' = WriteSlot(i)
  <2>1. read_count \in Int
    BY Constants DEF Inv, TypeOK, Word
  <2> QED
    BY <1>1, <2>1, Room, IndexTurns DEF Inv, ContentFits, Index, WriteSlot
<1>5. TypeOK'
  BY <1>1, <1>3, Constants DEF Inv, TypeOK, writerVars
<1>6. ContentFits' /\ CheckedRunFits'
  BY <1>1, <1>2 DEF Inv, ContentFits, CheckedRunFits, writerVars
<1>7. WriterClaim'
  BY <1>1, <1>2, <1>4 DEF Inv, WriterClaim, writerVars
<1>8. ReaderClaim'
  BY <1>1, <1>2, <1>3, <1>4, Constants DEF Inv, ReaderClaim
<1> QED
  BY <1>5, <1>6, <1>7, <1>8 DEF Inv

\* Consume gives the writing thread more room and takes none of what it claimed.
LEMMA ConsumeKeepsInv == Inv /\ Consume => Inv'
<1> SUFFICES ASSUME Inv, Consume PROVE Inv'
  OBVIOUS
<1>1. UNCHANGED <<data_arr, write_count, rspan, writerVars>> /\ rpc = "consume"
      /\ rpc' = "idle" /\ rbuf' = <<>>
      /\ read_count' = Advance(read_count, Len(rbuf))
  BY DEF Consume
<1>2. /\ read_count' \in Word
      /\ AvailableRead' = AvailableRead - Len(rbuf)
      /\ AvailableWrite' = AvailableWrite + Len(rbuf)
  BY <1>1, ConsumeAdvances DEF Inv, ContentFits, ReaderClaim
<1>3. AvailableRead \in 0 .. Capacity /\ AvailableWrite = Capacity - AvailableRead
      /\ Len(rbuf) \in Nat /\ Len(rbuf) <= AvailableRead
      /\ Len(wbuf) \in Nat /\ wspan \in Nat
  BY <1>1, Room DEF Inv, ContentFits, AvailableWrite, TypeOK, ReaderClaim
<1>4. TypeOK'
  <2>1. rbuf' \in Seq(Byte)
    BY <1>1
  <2> QED
    BY <1>1, <1>2, <2>1 DEF Inv, TypeOK, writerVars
<1>5. ContentFits' /\ CheckedRunFits'
  BY <1>1, <1>2, <1>3, Constants
  DEF Inv, ContentFits, CheckedRunFits, writerVars
<1>6. WriterClaim'
  <2>1. \A i : WriteSlot(i)' = WriteSlot(i)
    BY <1>1 DEF WriteSlot, Index
  <2> QED
    BY <1>1, <1>2, <1>3, <2>1, Constants DEF Inv, WriterClaim, writerVars
<1>7. ReaderClaim'
  <2>1. Index(read_count)' \in 0 .. Capacity - 1 /\ rspan = 0
    <3>1. read_count' \in Int
      BY <1>2, Constants DEF Word
    <3>2. Index(read_count') \in 0 .. Capacity - 1
      BY <3>1, IndexTurns
    <3> QED
      BY <1>1, <3>2 DEF Inv, ReaderClaim, Index
  <2>2. Len(rbuf') = 0
    BY <1>1
  <2> QED
    BY <1>1, <1>2, <1>3, <2>1, <2>2, Constants DEF Inv, ReaderClaim
<1> QED
  BY <1>4, <1>5, <1>6, <1>7 DEF Inv

LEMMA InvNext == Inv /\ [Next]_vars => Inv'
<1> SUFFICES ASSUME Inv, [Next]_vars PROVE Inv'
  OBVIOUS
<1>1. CASE \E run \in Runs(MaxRun) : SendData(run) \/ SendDataWithHead(run)
  BY <1>1, SendKeepsInv
<1>2. CASE WriteContentFits
  BY <1>2, WriteContentFitsKeepsInv
<1>3. CASE WriteContentFull
  BY <1>3, WriteContentFullKeepsInv
<1>4. CASE CopyContent
  BY <1>4, CopyContentKeepsInv
<1>5. CASE BeginReceive
  BY <1>5, BeginReceiveKeepsInv
<1>6. CASE ReceiveNothing
  BY <1>6, ReceiveNothingKeepsInv
<1>7. CASE \E run \in Runs(Capacity) : Receive(run)
  BY <1>7, ReceiveKeepsInv
<1>8. CASE Publish
  BY <1>8, PublishKeepsInv
<1>9. CASE BeginRead
  BY <1>9, BeginReadKeepsInv
<1>10. CASE UseNothing
  BY <1>10, UseNothingKeepsInv
<1>11. CASE Consume
  BY <1>11, ConsumeKeepsInv
<1>12. CASE \E k \in 1 .. Capacity : Use(k)
  BY <1>12, UseKeepsInv
<1>13. CASE UNCHANGED vars
  <2>1. UNCHANGED <<data_arr, read_count, write_count, wpc, wbuf, wspan,
                    checked, rpc, rbuf, rspan>>
    BY <1>13 DEF vars, writerVars, readerVars
  <2>2. AvailableRead' = AvailableRead /\ AvailableWrite' = AvailableWrite
        /\ Content' = Content
    BY <2>1, SameCounters
  <2>3. Index(read_count)' = Index(read_count)
        /\ \A i : WriteSlot(i)' = WriteSlot(i)
    BY <2>1 DEF Index, WriteSlot
  <2> QED
    BY <2>1, <2>2, <2>3
    DEF Inv, TypeOK, ContentFits, CheckedRunFits, WriterClaim, ReaderClaim
<1> QED
  BY <1>1, <1>2, <1>3, <1>4, <1>5, <1>6, <1>7, <1>8, <1>9, <1>10, <1>11, <1>12,
     <1>13 DEF Next, Writer, Reader

(***************************************************************************)
(* The two threads' claims hold in every state, whatever the capacity, the *)
(* width of the counters, the length of a run and the values of a byte.    *)
(***************************************************************************)
THEOREM Invariance == Spec => []Inv
<1>1. Init => Inv
  BY InvInit
<1>2. Inv /\ [Next]_vars => Inv'
  BY InvNext
<1> QED
  BY <1>1, <1>2, PTL DEF Spec

\* Every variable keeps its type; the counters stay 32-bit words.
THEOREM TypeCorrect == Spec => []TypeOK
<1>1. Inv => TypeOK
  BY DEF Inv
<1> QED
  BY <1>1, Invariance, PTL

\* assert(capacity_ >= content_size) never fires.
THEOREM NeverOverfull == Spec => []ContentFits
<1>1. Inv => ContentFits
  BY DEF Inv
<1> QED
  BY <1>1, Invariance, PTL

\* A packet SendData accepted is never refused by WriteContent.
THEOREM AcceptedPacketFits == Spec => []CheckedRunFits
<1>1. Inv => CheckedRunFits
  BY DEF Inv
<1> QED
  BY <1>1, Invariance, PTL

\* The reading and the writing thread never touch one slot at one time.
THEOREM NoSharedSlot == Spec => []SlotsDisjoint
<1>1. Inv => SlotsDisjoint
  <2> SUFFICES ASSUME Inv, NEW s \in WriterSlots, s \in ReaderSlots PROVE FALSE
    BY DEF SlotsDisjoint
  <2>1. PICK i \in 1 .. wspan : s = WriteSlot(i)
    BY DEF WriterSlots
  <2>2. PICK j \in 1 .. rspan : s = Index(read_count) + j - 1
    BY DEF ReaderSlots
  <2>3. /\ AvailableRead \in 0 .. Capacity
        /\ AvailableWrite = Capacity - AvailableRead
        /\ wspan \in Nat /\ wspan <= AvailableWrite
        /\ rspan \in Nat /\ rspan <= AvailableRead
        /\ Index(read_count) + rspan <= Capacity
        /\ read_count \in Int
    BY Room, Constants
    DEF Inv, ContentFits, AvailableWrite, TypeOK, WriterClaim, ReaderClaim, Word
  <2>4. Index(read_count) \in 0 .. Capacity - 1
    BY <2>3, IndexTurns
  <2>5. s \in Slot
    BY <2>2, <2>3, <2>4, Constants DEF Slot
  <2>6. s = Index(Index(read_count) + j - 1)
    BY <2>2, <2>5, IndexOfSlot
  <2>7. /\ i \in Int /\ 1 <= i /\ i <= Capacity - AvailableRead
        /\ j \in Int /\ 1 <= j /\ j <= AvailableRead
    BY <2>3, Constants
  <2> QED
    BY <2>1, <2>6, <2>7, ClaimsApart DEF Inv, TypeOK
<1> QED
  BY <1>1, Invariance, PTL

-----------------------------------------------------------------------------
(* The ring buffer implements the byte queue.                              *)

\* The content is a sequence as long as AvailableRead says.
LEMMA ContentIsSeq ==
  ASSUME Inv
  PROVE  AvailableRead \in Nat /\ Content \in Seq(Byte) /\ Len(Content) = AvailableRead
<1>1. AvailableRead \in Nat /\ read_count \in Int
  BY Room, Constants DEF Inv, ContentFits, TypeOK, Word
<1>2. \A i \in 1 .. AvailableRead : Index(read_count + i - 1) \in Slot
  <2> TAKE i \in 1 .. AvailableRead
  <2>1. read_count + i - 1 \in Int
    BY <1>1
  <2> QED
    BY <2>1, IndexTurns DEF Slot
<1>3. Content \in [1 .. AvailableRead -> Byte]
  BY <1>2 DEF Content, Inv, TypeOK
<1> QED
  BY <1>1, <1>3

\* Consume removes from the content what was taken.
LEMMA ConsumeRemoves ==
  ASSUME Inv, Consume
  PROVE  Content' = SubSeq(Content, Len(rbuf) + 1, Len(Content))
<1> DEFINE d == AvailableRead
           k == Len(rbuf)
<1>1. /\ AvailableRead' = d - k /\ d \in Nat /\ k \in 0 .. d
      /\ read_count \in Int /\ Len(Content) = d /\ Content \in Seq(Byte)
  <2>1. Len(rbuf) \in Nat /\ read_count \in Int /\ Len(rbuf) <= AvailableRead
    BY Constants DEF Inv, TypeOK, Word, ReaderClaim
  <2>2. AvailableRead' = AvailableRead - Len(rbuf)
    BY <2>1, ConsumeAdvances DEF Inv, ContentFits, Consume
  <2> QED
    BY <2>1, <2>2, ContentIsSeq
<1>2. data_arr' = data_arr /\ read_count' = (read_count + k) % WordSize
  BY Zenon DEF Consume, Advance
<1> HIDE DEF d, k
<1>3. \A i \in 1 .. d - k : Index(read_count' + i - 1) = Index(read_count + (k + i) - 1)
  <2> TAKE i \in 1 .. d - k
  <2> DEFINE c == (read_count + k) % WordSize
  <2>1. read_count + k \in Int /\ i - 1 \in Int
    BY <1>1
  <2>2. c \in Int
    BY <2>1, Division, Constants
  <2>3. Index(c) = Index(read_count + k)
    BY <2>1, IndexOfWord
  <2> HIDE DEF c
  <2>4. Index(Index(c) + (i - 1)) = Index(c + (i - 1))
        /\ Index(Index(read_count + k) + (i - 1))
             = Index((read_count + k) + (i - 1))
    BY <2>1, <2>2, IndexOfSum
  <2>5. c + (i - 1) = c + i - 1
        /\ (read_count + k) + (i - 1) = read_count + (k + i) - 1
    BY <1>1, <2>2
  <2>6. Index(c + i - 1) = Index(read_count + (k + i) - 1)
    BY <2>3, <2>4, <2>5
  <2> QED
    BY <1>2, <2>6 DEF c
<1>4. Content' = [i \in 1 .. d - k |-> data_arr[Index(read_count' + i - 1)]]
  BY <1>1, <1>2 DEF Content, Index
<1>5. Content = [i \in 1 .. d |-> data_arr[Index(read_count + i - 1)]]
  BY DEF Content, d
<1>6. SubSeq(Content, k + 1, d) = [i \in 1 .. d - k |-> Content[k + i]]
  <2>1. SubSeq(Content, k + 1, d) = [i \in 1 .. (1 + d - (k + 1)) |-> Content[i + (k + 1) - 1]]
    BY <1>1
  <2>2. 1 + d - (k + 1) = d - k
    BY <1>1
  <2>3. \A i \in 1 .. d - k : i + (k + 1) - 1 = k + i
    BY <1>1
  <2> QED
    BY <2>1, <2>2, <2>3
<1>7. \A i \in 1 .. d - k :
         Content[k + i] = data_arr[Index(read_count + (k + i) - 1)]
  <2> TAKE i \in 1 .. d - k
  <2>1. k + i \in 1 .. d
    BY <1>1
  <2> QED
    BY <1>5, <2>1
<1>8. Content' = SubSeq(Content, k + 1, d)
  BY <1>3, <1>4, <1>6, <1>7
<1> QED
  BY <1>1, <1>8 DEF k

(***************************************************************************)
(* Every step of the two threads is a step of the byte queue or leaves it  *)
(* alone: Publish is the moment a run enters, Consume the moment it leaves.*)
(***************************************************************************)
LEMMA StepRefines ==
  ASSUME Inv, Inv', [Next]_vars
  PROVE  [Q!Next]_(Q!vars)
<1>1. ASSUME NEW run \in Runs(MaxRun), SendData(run) \/ SendDataWithHead(run)
      PROVE  Q!Offer
  <2>1. wbuf = <<>> /\ wbuf' = run /\ rbuf' = rbuf
        /\ UNCHANGED <<data_arr, read_count, write_count>>
    BY <1>1 DEF SendData, SendDataWithHead, readerVars, Inv, WriterClaim
  <2>2. run \in Seq(Byte) /\ run # <<>>
    BY RunIsSeq, Constants
  <2>3. Content' = Content
    BY <2>1, SameCounters
  <2> QED
    BY <2>1, <2>2, <2>3 DEF Q!Offer
<1>2. ASSUME NEW run \in Runs(Capacity), Receive(run)
      PROVE  Q!Offer
  <2>1. wbuf = <<>> /\ wbuf' = run /\ rbuf' = rbuf
        /\ data_arr' = Stored(run) /\ UNCHANGED <<read_count, write_count>>
    BY <1>2 DEF Receive, readerVars, Inv, WriterClaim
  <2>2. run \in Seq(Byte) /\ run # <<>> /\ Len(run) \in Nat
    BY RunIsSeq, Constants
  <2>3. Len(run) <= AvailableWrite
    <3>1. Len(run) <= wspan /\ wspan <= AvailableWrite /\ wspan \in Int
      BY <1>2, Constants DEF Receive, Inv, WriterClaim, TypeOK
    <3>2. AvailableWrite \in Int
      BY Room, Constants DEF Inv, ContentFits
    <3> QED
      BY <2>2, <3>1, <3>2
  <2>4. Content' = Content
    BY <2>1, <2>2, <2>3, StoreKeepsContent DEF Inv, ContentFits
  <2> QED
    BY <2>1, <2>2, <2>4 DEF Q!Offer
<1>3. ASSUME WriteContentFull PROVE Q!Refuse
  <2>1. AvailableWrite < Len(wbuf) /\ wbuf' = <<>> /\ rbuf' = rbuf
        /\ UNCHANGED <<data_arr, read_count, write_count>>
    BY <1>3 DEF WriteContentFull, readerVars
  <2>2. Content' = Content
    BY <2>1, SameCounters
  <2>3. AvailableRead \in 0 .. Capacity /\ AvailableWrite = Capacity - AvailableRead
        /\ Len(wbuf) \in Nat /\ Len(Content) = AvailableRead
    BY Room, ContentIsSeq DEF Inv, ContentFits, AvailableWrite, TypeOK
  <2>4. Len(Content) + Len(wbuf) > Capacity
    BY <2>1, <2>3, Constants
  <2> QED
    BY <2>1, <2>2, <2>4 DEF Q!Refuse
<1>4. ASSUME CopyContent PROVE UNCHANGED Q!vars
  <2>1. wbuf \in Seq(Byte) /\ Len(wbuf) <= AvailableWrite
        /\ data_arr' = Stored(wbuf) /\ wbuf' = wbuf /\ rbuf' = rbuf
        /\ UNCHANGED <<read_count, write_count>>
    BY <1>4 DEF Inv, TypeOK, WriterClaim, CopyContent, readerVars
  <2>2. Content' = Content
    BY <2>1, StoreKeepsContent DEF Inv, ContentFits
  <2> QED
    BY <2>1, <2>2 DEF Q!vars
<1>5. ASSUME Publish PROVE Q!Commit \/ UNCHANGED Q!vars
  <2>1. wbuf' = <<>> /\ rbuf' = rbuf /\ Content' = Content \o wbuf
    BY <1>5, PublishAppends DEF Publish, readerVars
  <2>2. Content \in Seq(Byte) /\ wbuf \in Seq(Byte)
    BY ContentIsSeq DEF Inv, TypeOK
  <2>3. AvailableRead \in 0 .. Capacity /\ AvailableWrite = Capacity - AvailableRead
        /\ Len(wbuf) \in Nat /\ Len(wbuf) <= AvailableWrite
        /\ Len(Content) = AvailableRead
    BY <1>5, Room, ContentIsSeq
    DEF Inv, ContentFits, AvailableWrite, TypeOK, WriterClaim, Publish
  <2>4. Len(Content) + Len(wbuf) <= Capacity
    BY <2>3, Constants
  <2>5. CASE wbuf = <<>>
    <3>1. Content \o <<>> = Content
      BY <2>2
    <3> QED
      BY <2>1, <2>5, <3>1 DEF Q!vars
  <2>6. CASE wbuf # <<>>
    BY <2>1, <2>4, <2>6 DEF Q!Commit
  <2> QED
    BY <2>5, <2>6
<1>6. ASSUME NEW k \in 1 .. Capacity, Use(k) PROVE Q!Peek
  <2>1. /\ rbuf' \in Seq(Byte) /\ Len(rbuf') = k /\ k <= AvailableRead
        /\ \A i \in 1 .. k : rbuf'[i] = Content[i]
    BY <1>6, UseTakesFront
  <2>2. rbuf = <<>> /\ wbuf' = wbuf /\ UNCHANGED <<data_arr, read_count, write_count>>
    BY <1>6 DEF Use, Inv, ReaderClaim, writerVars
  <2>3. Content' = Content
    BY <2>2, SameCounters
  <2>4. Content \in Seq(Byte) /\ Len(Content) = AvailableRead /\ AvailableRead \in Nat
    BY ContentIsSeq
  <2>5. k \in 1 .. Len(Content)
    BY <2>1, <2>4, Constants
  <2>6. rbuf' = SubSeq(Content, 1, k)
    <3>1. SubSeq(Content, 1, k) \in Seq(Byte) /\ Len(SubSeq(Content, 1, k)) = k
          /\ \A i \in 1 .. k : SubSeq(Content, 1, k)[i] = Content[i]
      BY <2>4, <2>5
    <3> QED
      BY <2>1, <3>1
  <2> QED
    BY <2>2, <2>3, <2>5, <2>6 DEF Q!Peek
<1>7. ASSUME Consume PROVE Q!Remove \/ UNCHANGED Q!vars
  <2>1. rbuf' = <<>> /\ wbuf' = wbuf
        /\ Content' = SubSeq(Content, Len(rbuf) + 1, Len(Content))
    BY <1>7, ConsumeRemoves DEF Consume, writerVars
  <2>2. CASE rbuf # <<>>
    BY <2>1, <2>2 DEF Q!Remove
  <2>3. CASE rbuf = <<>>
    <3>1. Content \in Seq(Byte)
      BY ContentIsSeq
    <3>2. SubSeq(Content, 1, Len(Content)) = Content
      BY <3>1
    <3>3. Len(rbuf) + 1 = 1
      BY <2>3
    <3> QED
      BY <2>1, <2>3, <3>2, <3>3 DEF Q!vars
  <2> QED
    BY <2>2, <2>3
<1>8. ASSUME \/ WriteContentFits \/ BeginReceive \/ ReceiveNothing
             \/ BeginRead \/ UseNothing \/ UNCHANGED vars
      PROVE  UNCHANGED Q!vars
  <2>1. UNCHANGED <<data_arr, read_count, write_count, wbuf, rbuf>>
    BY <1>8 DEF WriteContentFits, BeginReceive, ReceiveNothing, BeginRead,
                UseNothing, vars, readerVars, writerVars
  <2>2. Content' = Content
    BY <2>1, SameCounters
  <2> QED
    BY <2>1, <2>2 DEF Q!vars
<1> QED
  BY <1>1, <1>2, <1>3, <1>4, <1>5, <1>6, <1>7, <1>8
  DEF Next, Writer, Reader, Q!Next

(***************************************************************************)
(* The ring buffer is a first-in first-out queue of at most Capacity bytes *)
(* that accepts runs whole: nothing is lost, doubled, reordered or         *)
(* overwritten between the thread that writes and the thread that reads.   *)
(***************************************************************************)
THEOREM Refinement == Spec => ImplementsByteQueue
<1>1. Init => Q!Init
  <2> SUFFICES ASSUME Init PROVE Q!Init
    OBVIOUS
  <2>1. wbuf = <<>> /\ rbuf = <<>>
    BY DEF Init
  <2>2. AvailableRead = 0
    <3>1. (0 - 0) % WordSize = 0
      BY Constants
    <3> QED
      BY <3>1 DEF Init, AvailableRead
  <2>3. Content = <<>>
    BY <2>2 DEF Content
  <2> QED
    BY <2>1, <2>3 DEF Q!Init
<1>2. Inv /\ Inv' /\ [Next]_vars => [Q!Next]_(Q!vars)
  BY StepRefines
<1> QED
  BY <1>1, <1>2, Invariance, PTL DEF Spec, ImplementsByteQueue, Q!Spec
=============================================================================
