------------------------- MODULE SocketBufferProofs -------------------------
(***************************************************************************)
(* Proofs about SocketBuffer for every size of bytes, numbers, runs and    *)
(* arrays: where its indices may be, and that it is a deque of bytes.      *)
(***************************************************************************)
EXTENDS SocketBuffer, ProofLemmas

\* What a slot holds, and an array of n slots.
Slot == 0..Base

Array(slots, n) == n \in Nat /\ slots \in Seq(Slot) /\ Len(slots) = n

Field == {"slots", "read", "write"}

\* A buffer whose indices are in its array.
Sound(b) ==
  /\ DOMAIN b = Field
  /\ Array(b.slots, Capacity(b))
  /\ b.read \in Nat /\ b.write \in Nat
  /\ b.read <= b.write /\ b.write <= Capacity(b)
  /\ reserved <= Capacity(b)

\* The room in front, without what was put there and with what can be unread.
Room == reserved <= (buf.read - back) + front

BufferInv ==
  /\ reserved \in Nat /\ Sound(buf)
  /\ back \in Nat /\ back <= buf.read
  /\ front \in Nat /\ front <= reserved
  /\ Room

-----------------------------------------------------------------------------
(* Numbers and their bytes.                                                *)

LEMMA Bases == Base \in Nat \ {0} /\ Base \in Nat /\ Base > 1
  BY BufferAssumption DEF BufferAssumption

\* The functions that Power, Host, HostNumber and Number define by recursion.
PowerFcn(m) ==
  CHOOSE p : p = [k \in 0..m |-> IF k = 0 THEN 1 ELSE p[k - 1] * Base]

RestFcn(x, m) ==
  CHOOSE rest :
    rest = [k \in 0..m |-> IF k = 0 THEN x ELSE rest[k - 1] \div Base]

HostFcn(t) ==
  CHOOSE n : n = [k \in 0..Len(t) |->
    IF k = 0 THEN 0 ELSE n[k - 1] * Base + t[Len(t) - k + 1]]

NumberFcn(t) ==
  CHOOSE n : n = [k \in 0..Len(t) |->
    IF k = 0 THEN 0 ELSE n[k - 1] * Base + t[k]]

\* The steps they take.
PowerStep(m) == [x \in Nat \X (1..m) |-> x[1] * Base]
RestStep(m) == [x \in Nat \X (1..m) |-> x[1] \div Base]
NumberStep(t) == [x \in Nat \X (1..Len(t)) |-> x[1] * Base + t[x[2]]]

LEMMA PowerIsFcn ==
  ASSUME NEW m \in Nat
  PROVE  /\ IsRecursive(PowerFcn(m), Nat, 1, PowerStep(m), m)
         /\ Power(m) = PowerFcn(m)[m]
<1> DEFINE G == PowerStep(m)
           F == PowerFcn(m)
<1>1. G \in [Nat \X (1..m) -> Nat]
  BY Bases DEF PowerStep
<1>2. \A v \in Nat, k \in 1..m : G[<<v, k>>] = v * Base
  BY DEF PowerStep
<1> HIDE DEF G
<1>3. PICK f : IsRecursive(f, Nat, 1, G, m)
  BY <1>1, RecursiveFcn
<1>4. f = [k \in 0..m |-> IF k = 0 THEN 1 ELSE f[k - 1] * Base]
  <2>1. f = [k \in 0..m |-> f[k]] /\ f[0] = 1
    BY <1>3 DEF IsRecursive
  <2>2. ASSUME NEW k \in 0..m, k # 0 PROVE f[k] = f[k - 1] * Base
    <3>1. k - 1 \in 0..m /\ k - 1 < m /\ (k - 1) + 1 = k /\ k \in 1..m
      BY <2>2
    <3>2. f[k] = G[<<f[k - 1], k>>] /\ f[k - 1] \in Nat
      BY <1>3, <3>1 DEF IsRecursive
    <3> QED
      BY <1>2, <3>1, <3>2
  <2> QED
    BY <2>1, <2>2
<1>5. F = [k \in 0..m |-> IF k = 0 THEN 1 ELSE F[k - 1] * Base]
  BY <1>4, Zenon DEF PowerFcn
<1>6. Power(m) = F[m]
  BY Zenon DEF Power, PowerFcn
<1> HIDE DEF F
<1>7. F = [k \in 0..m |-> F[k]] /\ F[0] = 1
  BY <1>5
<1>8. ASSUME NEW n \in 0..m, n < m /\ F[n] \in Nat
      PROVE  F[n + 1] = G[<<F[n], n + 1>>]
  <2>1. n + 1 \in 0..m /\ n + 1 # 0 /\ (n + 1) - 1 = n /\ n + 1 \in 1..m
    BY <1>8
  <2>2. F[n + 1] = F[n] * Base
    BY <1>5, <2>1
  <2> QED
    BY <1>2, <1>8, <2>1, <2>2
<1>9. IsRecursive(F, Nat, 1, G, m)
  BY <1>1, <1>7, <1>8, RecursiveFrom
<1> QED
  BY <1>6, <1>9 DEF F, G

LEMMA RestIsFcn ==
  ASSUME NEW m \in Nat, NEW x \in Nat
  PROVE  /\ IsRecursive(RestFcn(x, m), Nat, x, RestStep(m), m)
         /\ Host(x, m) = [k \in 1..m |-> RestFcn(x, m)[k - 1] % Base]
<1> DEFINE G == RestStep(m)
           F == RestFcn(x, m)
<1>0. \A v \in Nat : v \div Base \in Nat
  BY Bases, Division
<1>1. G \in [Nat \X (1..m) -> Nat]
  BY <1>0 DEF RestStep
<1>2. \A v \in Nat, k \in 1..m : G[<<v, k>>] = v \div Base
  BY DEF RestStep
<1> HIDE DEF G
<1>3. PICK f : IsRecursive(f, Nat, x, G, m)
  BY <1>1, RecursiveFcn
<1>4. f = [k \in 0..m |-> IF k = 0 THEN x ELSE f[k - 1] \div Base]
  <2>1. f = [k \in 0..m |-> f[k]] /\ f[0] = x
    BY <1>3 DEF IsRecursive
  <2>2. ASSUME NEW k \in 0..m, k # 0 PROVE f[k] = f[k - 1] \div Base
    <3>1. k - 1 \in 0..m /\ k - 1 < m /\ (k - 1) + 1 = k /\ k \in 1..m
      BY <2>2
    <3>2. f[k] = G[<<f[k - 1], k>>] /\ f[k - 1] \in Nat
      BY <1>3, <3>1 DEF IsRecursive
    <3> QED
      BY <1>2, <3>1, <3>2
  <2> QED
    BY <2>1, <2>2
<1>5. F = [k \in 0..m |-> IF k = 0 THEN x ELSE F[k - 1] \div Base]
  BY <1>4, Zenon DEF RestFcn
<1>6. Host(x, m) = [k \in 1..m |-> F[k - 1] % Base]
  BY Zenon DEF Host, RestFcn
<1> HIDE DEF F
<1>7. F = [k \in 0..m |-> F[k]] /\ F[0] = x
  BY <1>5
<1>8. ASSUME NEW n \in 0..m, n < m /\ F[n] \in Nat
      PROVE  F[n + 1] = G[<<F[n], n + 1>>]
  <2>1. n + 1 \in 0..m /\ n + 1 # 0 /\ (n + 1) - 1 = n /\ n + 1 \in 1..m
    BY <1>8
  <2>2. F[n + 1] = F[n] \div Base
    BY <1>5, <2>1
  <2> QED
    BY <1>2, <1>8, <2>1, <2>2
<1>9. IsRecursive(F, Nat, x, G, m)
  BY <1>1, <1>7, <1>8, RecursiveFrom
<1> QED
  BY <1>6, <1>9 DEF F, G

\* The step of Number.
LEMMA NumberSteps ==
  ASSUME NEW t \in Seq(Nat)
  PROVE  /\ NumberStep(t) \in [Nat \X (1..Len(t)) -> Nat]
         /\ \A v \in Nat, k \in 1..Len(t) :
              NumberStep(t)[<<v, k>>] = v * Base + t[k]
<1>1. \A v \in Nat, k \in 1..Len(t) : v * Base + t[k] \in Nat
  BY Bases
<1> QED
  BY <1>1 DEF NumberStep

LEMMA NumberIsFcn ==
  ASSUME NEW t \in Seq(Nat)
  PROVE  /\ IsRecursive(NumberFcn(t), Nat, 0, NumberStep(t), Len(t))
         /\ Abstract!Number(t) = NumberFcn(t)[Len(t)]
<1> DEFINE G == NumberStep(t)
           m == Len(t)
           F == NumberFcn(t)
<1>0. m \in Nat /\ 0 \in Nat
  OBVIOUS
<1>1. /\ G \in [Nat \X (1..m) -> Nat]
      /\ \A v \in Nat, k \in 1..m : G[<<v, k>>] = v * Base + t[k]
  BY NumberSteps
<1>6. Abstract!Number(t) = F[m]
  BY Zenon DEF Abstract!Number, NumberFcn
<1> HIDE DEF G
<1>3. PICK f : IsRecursive(f, Nat, 0, G, m)
  BY <1>0, <1>1, RecursiveFcn
<1>4. f = [k \in 0..m |-> IF k = 0 THEN 0 ELSE f[k - 1] * Base + t[k]]
  <2>1. f = [k \in 0..m |-> f[k]] /\ f[0] = 0
    BY <1>3 DEF IsRecursive
  <2>2. ASSUME NEW k \in 0..m, k # 0 PROVE f[k] = f[k - 1] * Base + t[k]
    <3>1. k - 1 \in 0..m /\ k - 1 < m /\ (k - 1) + 1 = k /\ k \in 1..m
      BY <1>0, <2>2
    <3>2. f[k] = G[<<f[k - 1], k>>] /\ f[k - 1] \in Nat
      BY <1>3, <3>1 DEF IsRecursive
    <3> QED
      BY <1>1, <3>1, <3>2
  <2> QED
    BY <2>1, <2>2
<1>5. F = [k \in 0..m |-> IF k = 0 THEN 0 ELSE F[k - 1] * Base + t[k]]
  BY <1>4, Zenon DEF NumberFcn, m
<1> HIDE DEF F, m
<1>7. F = [k \in 0..m |-> F[k]] /\ F[0] = 0
  BY <1>0, <1>5
<1>8. ASSUME NEW n \in 0..m, n < m /\ F[n] \in Nat
      PROVE  F[n + 1] = G[<<F[n], n + 1>>]
  <2>1. n + 1 \in 0..m /\ n + 1 # 0 /\ (n + 1) - 1 = n /\ n + 1 \in 1..m
    BY <1>0, <1>8
  <2>2. F[n + 1] = F[n] * Base + t[n + 1]
    BY <1>5, <2>1
  <2> QED
    BY <1>1, <1>8, <2>1, <2>2
<1>9. IsRecursive(F, Nat, 0, G, m)
  BY <1>0, <1>1, <1>7, <1>8, RecursiveFrom
<1> QED
  BY <1>6, <1>9 DEF F, G, m

\* The host reads the bytes that ntohs() and its like have turned around as the
\* number that they are in network order.
LEMMA HostNumberIs ==
  ASSUME NEW t \in Seq(Nat)
  PROVE  HostNumber(Reverse(t)) = Abstract!Number(t)
<1> DEFINE r == Reverse(t)
           G == NumberStep(t)
           m == Len(t)
           F == HostFcn(r)
<1>0. m \in Nat /\ 0 \in Nat
  OBVIOUS
<1>1. /\ G \in [Nat \X (1..m) -> Nat]
      /\ \A v \in Nat, k \in 1..m : G[<<v, k>>] = v * Base + t[k]
  BY NumberSteps
<1>2. Len(r) = m /\ \A k \in 1..m : r[m - k + 1] = t[k]
  <2>1. r = [i \in 1..m |-> t[(m - i) + 1]]
    BY DEF Reverse
  <2>2. r \in [1..m -> Nat]
    BY <1>0, <2>1
  <2>3. \A k \in 1..m : m - k + 1 \in 1..m /\ (m - (m - k + 1)) + 1 = k
    BY <1>0
  <2>4. Len(r) = m
    BY <1>0, <2>2
  <2> HIDE DEF r
  <2>5. \A k \in 1..m : r[m - k + 1] = t[k]
    BY <2>1, <2>3
  <2> QED
    BY <2>4, <2>5
<1>6. HostNumber(r) = F[Len(r)]
  BY Zenon DEF HostNumber, HostFcn
<1> HIDE DEF G, r
<1>3. PICK f : IsRecursive(f, Nat, 0, G, m)
  BY <1>0, <1>1, RecursiveFcn
<1>4. f = [k \in 0..Len(r) |->
             IF k = 0 THEN 0 ELSE f[k - 1] * Base + r[Len(r) - k + 1]]
  <2>1. f = [k \in 0..m |-> f[k]] /\ f[0] = 0
    BY <1>3 DEF IsRecursive
  <2>2. ASSUME NEW k \in 0..m, k # 0
        PROVE  f[k] = f[k - 1] * Base + r[Len(r) - k + 1]
    <3>1. k - 1 \in 0..m /\ k - 1 < m /\ (k - 1) + 1 = k /\ k \in 1..m
      BY <1>0, <2>2
    <3>2. f[k] = G[<<f[k - 1], k>>] /\ f[k - 1] \in Nat
      BY <1>3, <3>1 DEF IsRecursive
    <3>3. r[Len(r) - k + 1] = t[k]
      BY <1>2, <3>1
    <3> QED
      BY <1>1, <3>1, <3>2, <3>3
  <2>3. Len(r) = m
    BY <1>2
  <2> QED
    BY <2>1, <2>2, <2>3
<1>5. F = [k \in 0..Len(r) |->
             IF k = 0 THEN 0 ELSE F[k - 1] * Base + r[Len(r) - k + 1]]
  BY <1>4, Zenon DEF HostFcn
<1> HIDE DEF F, m
<1>7. F = [k \in 0..m |-> F[k]] /\ F[0] = 0
  BY <1>0, <1>2, <1>5
<1>8. ASSUME NEW n \in 0..m, n < m /\ F[n] \in Nat
      PROVE  F[n + 1] = G[<<F[n], n + 1>>]
  <2>1. n + 1 \in 0..m /\ n + 1 # 0 /\ (n + 1) - 1 = n /\ n + 1 \in 1..m
    BY <1>0, <1>8
  <2>2. F[n + 1] = F[n] * Base + r[m - (n + 1) + 1]
    BY <1>2, <1>5, <2>1
  <2>3. r[m - (n + 1) + 1] = t[n + 1]
    BY <1>2, <2>1
  <2> QED
    BY <1>1, <1>8, <2>1, <2>2, <2>3
<1>9. IsRecursive(F, Nat, 0, G, m)
  BY <1>0, <1>1, <1>7, <1>8, RecursiveFrom
<1>10. /\ IsRecursive(NumberFcn(t), Nat, 0, G, m)
       /\ Abstract!Number(t) = NumberFcn(t)[m]
  BY NumberIsFcn DEF G, m
<1>11. F = NumberFcn(t)
  BY <1>0, <1>9, <1>10, RecursiveSame, Zenon
<1> QED
  BY <1>2, <1>6, <1>10, <1>11 DEF r

\* One byte is the number it holds.
LEMMA NumberOfOne ==
  ASSUME NEW t \in Seq(Nat), Len(t) = 1
  PROVE  Abstract!Number(t) = t[1]
<1> DEFINE F == NumberFcn(t)
<1>1. IsRecursive(F, Nat, 0, NumberStep(t), 1) /\ Abstract!Number(t) = F[1]
  BY NumberIsFcn
<1> HIDE DEF F
<1>2. F[0] = 0 /\ \A n \in 0..1 : n < 1 => F[n + 1] = NumberStep(t)[<<F[n], n + 1>>]
  BY <1>1, Zenon DEF IsRecursive
<1>3. F[1] = NumberStep(t)[<<0, 1>>]
  BY <1>2
<1>4. NumberStep(t)[<<0, 1>>] = 0 * Base + t[1] /\ t[1] \in Nat
  <2>1. PICK z \in Nat : z = 0
    OBVIOUS
  <2>2. PICK i \in 1..Len(t) : i = 1
    OBVIOUS
  <2>3. NumberStep(t)[<<z, i>>] = z * Base + t[i]
    BY NumberSteps, Zenon
  <2>4. NumberStep(t)[<<0, 1>>] = 0 * Base + t[1]
    BY <2>1, <2>2, <2>3, Zenon
  <2>5. \A j \in 1..Len(t) : t[j] \in Nat
    BY ElementOfSeq, Zenon
  <2> QED
    BY <2>2, <2>4, <2>5, Zenon
<1> QED
  BY <1>1, <1>3, <1>4, Bases

\* A quotient is below n when the dividend is below n times the divisor.
LEMMA SmallQuotient ==
  ASSUME NEW d \in Nat \ {0}, NEW x \in Nat, NEW n \in Nat, x < n * d
  PROVE  x \div d < n /\ x \div d \in Nat
<1> DEFINE q == x \div d
           r == x % d
<1>1. q \in Int /\ r \in 0..(d - 1) /\ x = d * q + r
  BY Division
<1> HIDE DEF q, r
<1>2. q >= n => d * q >= d * n
  BY <1>1
<1>3. n * d = d * n
  OBVIOUS
<1>4. q < 0 => d * q <= 0 - d
  <2> SUFFICES ASSUME q < 0 PROVE d * q <= 0 - d
    OBVIOUS
  <2>1. q <= 0 - 1
    BY <1>1
  <2>2. d * q <= d * (0 - 1)
    BY <1>1, <2>1
  <2> QED
    BY <1>1, <2>2
<1>5. q < n /\ q >= 0
  BY <1>1, <1>2, <1>3, <1>4
<1> QED
  BY <1>1, <1>5 DEF q

\* What AppendInt64 and its like store is read in network order as the number
\* that was stored.
LEMMA NetworkNumber ==
  ASSUME NEW w \in Nat, NEW x \in Fitting(w)
  PROVE  /\ Network(x, w) \in [1..w -> Byte] /\ Network(x, w) \in Seq(Nat)
         /\ Len(Network(x, w)) = w
         /\ Abstract!Number(Network(x, w)) = x
<1>0. ASSUME NEW v \in Nat
      PROVE  v = Base * (v \div Base) + (v % Base) /\ v \div Base \in Int
  BY Bases, Division
<1> DEFINE P == PowerFcn(w)
           R == RestFcn(x, w)
           t == Network(x, w)
           F == NumberFcn(t)
<1>1. /\ P \in [0..w -> Nat] /\ P[0] = 1
      /\ \A n \in 0..w : n < w => P[n + 1] = P[n] * Base
      /\ Power(w) = P[w]
  <2>1. IsRecursive(P, Nat, 1, PowerStep(w), w) /\ Power(w) = P[w]
    BY PowerIsFcn
  <2> HIDE DEF P
  <2>2. \A n \in 0..w : n < w => n + 1 \in 1..w
    OBVIOUS
  <2> QED
    BY <2>1, <2>2 DEF IsRecursive, PowerStep
<1>2. x \in Nat /\ x < P[w]
  <2> HIDE DEF P
  <2>1. P[w] \in Nat
    BY <1>1
  <2> QED
    BY <1>1, <2>1 DEF Fitting
<1>3. /\ R \in [0..w -> Nat] /\ R[0] = x
      /\ \A n \in 0..w : n < w => R[n + 1] = R[n] \div Base
      /\ Host(x, w) = [k \in 1..w |-> R[k - 1] % Base]
  <2>1. /\ IsRecursive(R, Nat, x, RestStep(w), w)
        /\ Host(x, w) = [k \in 1..w |-> R[k - 1] % Base]
    BY <1>2, RestIsFcn
  <2> HIDE DEF R
  <2>2. \A n \in 0..w : n < w => n + 1 \in 1..w
    OBVIOUS
  <2> QED
    BY <2>1, <2>2 DEF IsRecursive, RestStep
<1> HIDE DEF P, R
<1>4. /\ t \in [1..w -> Byte] /\ t \in Seq(Nat) /\ Len(t) = w
      /\ \A k \in 1..w : t[k] = R[w - k] % Base
  <2> DEFINE h == Host(x, w)
  <2>1. \A k \in 1..w : k - 1 \in 0..w /\ R[k - 1] \in Nat
    BY <1>3
  <2>2. \A k \in 1..w : R[k - 1] % Base \in Byte
    <3>1. \A v \in Nat : v % Base \in Byte
      BY Bases, Division DEF Byte
    <3> QED
      BY <2>1, <3>1
  <2>3. h \in [1..w -> Byte]
    BY <1>3, <2>2
  <2> HIDE DEF h
  <2>4. h \in Seq(Byte) /\ Len(h) = w
    BY <2>3
  <2>5. t = [i \in 1..w |-> h[(w - i) + 1]]
    BY <2>4 DEF Network, Reverse, h
  <2>6. \A k \in 1..w : (w - k) + 1 \in 1..w /\ ((w - k) + 1) - 1 = w - k
    OBVIOUS
  <2> HIDE DEF t
  <2>7. t \in [1..w -> Byte]
    BY <2>3, <2>5, <2>6
  <2>8. \A k \in 1..w : h[k] = R[k - 1] % Base
    BY <1>3 DEF h
  <2>9. ASSUME NEW k \in 1..w PROVE t[k] = R[w - k] % Base
    <3>1. t[k] = h[(w - k) + 1]
      BY <2>5
    <3>2. h[(w - k) + 1] = R[((w - k) + 1) - 1] % Base
      BY <2>6, <2>8
    <3> QED
      BY <2>6, <3>1, <3>2
  <2>10. t \in [1..w -> Nat]
    <3>1. Byte \subseteq Nat
      BY Bases DEF Byte
    <3> QED
      BY <2>7, <3>1
  <2>11. t \in Seq(Nat) /\ Len(t) = w
    BY <2>10
  <2> QED
    BY <2>7, <2>9, <2>11
<1> HIDE DEF t
<1>5. /\ F \in [0..w -> Nat] /\ F[0] = 0
      /\ \A n \in 0..w : n < w => F[n + 1] = F[n] * Base + t[n + 1]
      /\ Abstract!Number(t) = F[w]
  <2>1. /\ IsRecursive(F, Nat, 0, NumberStep(t), w)
        /\ Abstract!Number(t) = F[w]
    BY <1>4, NumberIsFcn
  <2>2. \A v \in Nat, k \in 1..w : NumberStep(t)[<<v, k>>] = v * Base + t[k]
    BY <1>4, NumberSteps
  <2> HIDE DEF F
  <2>3. \A n \in 0..w : n < w => n + 1 \in 1..w
    OBVIOUS
  <2> QED
    BY <2>1, <2>2, <2>3 DEF IsRecursive
<1> HIDE DEF F
<1> DEFINE Below == {n \in 0..w : R[n] < P[w - n]}
           Same == {n \in 0..w : F[n] = R[w - n]}
<1>6. \A n \in 0..w : n \in Below
  <2>1. 0 \in Below
    BY <1>2, <1>3
  <2>2. ASSUME NEW n \in 0..w, n \in Below, n < w PROVE n + 1 \in Below
    <3> DEFINE j == w - (n + 1)
    <3>1. j \in 0..w /\ j < w /\ j + 1 = w - n /\ n + 1 \in 0..w
      BY <2>2
    <3>2. P[w - n] = P[j] * Base /\ P[j] \in Nat /\ R[n] \in Nat /\ R[n] < P[w - n]
      BY <1>1, <1>3, <2>2, <3>1
    <3> HIDE DEF j
    <3>3. R[n] < P[j] * Base
      BY <3>2
    <3>4. R[n] \div Base < P[j]
      BY <3>2, <3>3, Bases, SmallQuotient
    <3>5. R[n + 1] < P[j]
      BY <1>3, <2>2, <3>4
    <3> QED
      BY <3>1, <3>5 DEF j
  <2> HIDE DEF Below
  <2> QED
    BY <2>1, <2>2, InductionUpTo
<1>7. R[w] = 0
  <2>1. w \in Below /\ w - w = 0 /\ w \in 0..w
    BY <1>6
  <2>2. R[w] < P[0] /\ R[w] \in Nat
    BY <1>3, <2>1
  <2> QED
    BY <1>1, <2>2
<1>8. \A n \in 0..w : n \in Same
  <2>1. 0 \in Same
    BY <1>5, <1>7
  <2>2. ASSUME NEW n \in 0..w, n \in Same, n < w PROVE n + 1 \in Same
    <3> DEFINE j == w - (n + 1)
    <3>1. /\ j \in 0..w /\ j < w /\ j + 1 = w - n /\ n + 1 \in 0..w
          /\ n + 1 \in 1..w
      BY <2>2
    <3>2. t[n + 1] = R[j] % Base
      BY <1>4, <3>1
    <3>3. F[n + 1] = F[n] * Base + t[n + 1] /\ F[n] = R[w - n]
      BY <1>5, <2>2
    <3>4. R[w - n] = R[j] \div Base /\ R[j] \in Nat
      BY <1>3, <3>1
    <3> HIDE DEF j
    <3>5. R[j] = Base * (R[j] \div Base) + (R[j] % Base)
          /\ R[j] \div Base \in Int
      BY <1>0, <3>4, Zenon
    <3>6. F[n + 1] = (R[j] \div Base) * Base + (R[j] % Base)
      BY <3>2, <3>3, <3>4
    <3>7. F[n + 1] = R[j]
      BY <3>5, <3>6, Bases
    <3> QED
      BY <3>1, <3>7 DEF j
  <2> HIDE DEF Same
  <2> QED
    BY <2>1, <2>2, InductionUpTo
<1>9. F[w] = R[0]
  <2>1. w \in Same /\ w - w = 0
    BY <1>8
  <2> QED
    BY <2>1
<1> QED
  BY <1>3, <1>4, <1>5, <1>9 DEF t

-----------------------------------------------------------------------------
(* Arrays.                                                                 *)

LEMMA MakeArray ==
  ASSUME NEW n \in Nat, NEW f \in [1..n -> Slot] PROVE Array(f, n)
  BY DEF Array

LEMMA UnsetArray == ASSUME NEW n \in Nat PROVE Array(Unset(n), n)
<1>1. Junk \in Slot
  BY BufferAssumption DEF Junk, Slot, BufferAssumption
<1>2. Unset(n) \in [1..n -> Slot]
  BY <1>1 DEF Unset
<1> QED
  BY <1>2, MakeArray

\* memcpy changes no array's size, and the slots it is told to.
LEMMA PlacedArray ==
  ASSUME NEW slots, NEW n \in Nat, Array(slots, n), NEW at \in Int,
         NEW d \in Seq(Slot)
  PROVE  Array(Placed(slots, at, d), n) /\ Len(Placed(slots, at, d)) = n
<1>1. /\ DOMAIN slots = 1..n /\ DOMAIN d = 1..Len(d)
      /\ \A i \in 1..n : slots[i] \in Slot
      /\ \A k \in 1..Len(d) : d[k] \in Slot
  BY DEF Array
<1>2. Placed(slots, at, d) \in [1..n -> Slot]
  BY <1>1 DEF Placed
<1> QED
  BY <1>2, MakeArray DEF Array

LEMMA PlacedSlots ==
  ASSUME NEW slots, NEW n \in Nat, Array(slots, n), NEW at \in Int,
         NEW d \in Seq(Slot)
  PROVE  /\ \A k \in 1..Len(d) :
              at + k \in 1..n => Placed(slots, at, d)[at + k] = d[k]
         /\ \A i \in 1..n :
              (i <= at \/ i > at + Len(d)) => Placed(slots, at, d)[i] = slots[i]
<1> DEFINE p == Placed(slots, at, d)
           m == Len(d)
<1>1. /\ DOMAIN slots = 1..n /\ DOMAIN d = 1..m /\ m \in Nat
  BY DEF Array
<1>2. p = [i \in 1..n |-> IF i - at \in 1..m THEN d[i - at] ELSE slots[i]]
  BY <1>1 DEF Placed
<1> HIDE DEF p, m
<1>3. ASSUME NEW k \in 1..m, at + k \in 1..n PROVE p[at + k] = d[k]
  <2>1. (at + k) - at = k
    BY <1>1
  <2> QED
    BY <1>2, <1>3, <2>1
<1>4. ASSUME NEW i \in 1..n, i <= at \/ i > at + m PROVE p[i] = slots[i]
  <2>1. i - at \notin 1..m
    BY <1>1, <1>4
  <2> QED
    BY <1>2, <2>1
<1> QED
  BY <1>3, <1>4 DEF p, m

\* The bytes of one call.
LEMMA RunLength ==
  ASSUME NEW d \in Run
  PROVE  Len(d) \in Nat /\ d \in Seq(Byte) /\ d \in Seq(Slot)
<1>1. PICK m \in 0..MaxRun : d \in [1..m -> Byte]
  BY DEF Run, SeqOf
<1>2. m \in Nat
  BY BufferAssumption DEF BufferAssumption
<1>3. d \in Seq(Byte) /\ Len(d) \in Nat
  BY <1>1, <1>2
<1>4. Byte \subseteq Slot
  BY Bases DEF Byte, Slot
<1>5. d \in Seq(Slot)
  BY <1>1, <1>2, <1>4
<1> QED
  BY <1>3, <1>5

\* The bytes of a number can be written in one call.
LEMMA NetworkRun ==
  ASSUME NEW w \in Widths, NEW x \in Fitting(w)
  PROVE  Network(x, w) \in Run /\ Abstract!Number(Network(x, w)) = x
<1>1. w \in Nat /\ w \in 0..MaxRun
  BY BufferAssumption DEF BufferAssumption
<1>2. /\ Network(x, w) \in [1..w -> Byte]
      /\ Abstract!Number(Network(x, w)) = x
  BY <1>1, NetworkNumber
<1> QED
  BY <1>1, <1>2 DEF Run, SeqOf

\* The bytes in a sound buffer.
LEMMA ContentIs ==
  ASSUME NEW b, Sound(b)
  PROVE  /\ Content(b) = Piece(b.slots, b.read, b.write)
         /\ Content(b) \in Seq(Slot) /\ Len(Content(b)) = Length(b)
<1>1. Content(b) = Piece(b.slots, b.read, b.write)
  BY DEF Content, Piece
<1>2. /\ b.slots \in Seq(Slot) /\ b.write \in 0..Len(b.slots)
      /\ b.read \in 0..b.write
  BY DEF Sound, Array, Capacity
<1>3. /\ Piece(b.slots, b.read, b.write) \in Seq(Slot)
      /\ Len(Piece(b.slots, b.read, b.write)) = b.write - b.read
  BY <1>2, PieceIs, ZenonT(60)
<1> QED
  BY <1>1, <1>3 DEF Length

-----------------------------------------------------------------------------
(* The functions.                                                          *)

\* grow makes the room it was asked for, behind and in front.
LEMMA GrowSound ==
  ASSUME reserved \in Nat, NEW b, Sound(b), NEW len \in Nat
  PROVE  /\ Sound(Grow(b, len)) /\ WritableBytes(Grow(b, len)) >= len
         /\ Grow(b, len).read = reserved
<1> DEFINE fits == WritableBytes(b) + b.read >= len + reserved
           room == IF fits THEN b.slots ELSE Unset(2 * Capacity(b) + len)
           size == IF fits THEN Capacity(b) ELSE 2 * Capacity(b) + len
           g == Grow(b, len)
<1>1. /\ Capacity(b) \in Nat /\ b.read \in Nat /\ b.write \in Nat
      /\ b.read <= b.write /\ b.write <= Capacity(b) /\ reserved <= Capacity(b)
  BY DEF Sound, Array
<1>2. size \in Nat /\ Array(room, size)
  <2>1. CASE fits
    BY <1>1, <2>1 DEF Sound
  <2>2. CASE ~fits
    BY <1>1, <2>2, UnsetArray
  <2> QED
    BY <2>1, <2>2
<1>3. g = [slots |-> Placed(room, reserved, Content(b)), read |-> reserved,
           write |-> reserved + (b.write - b.read)]
  BY DEF Grow, Length
<1>4. Array(g.slots, size) /\ Capacity(g) = size
  <2>1. Content(b) \in Seq(Slot) /\ reserved \in Int
    BY ContentIs
  <2>2. g.slots = Placed(room, reserved, Content(b))
    BY <1>3
  <2> HIDE DEF g, size, room
  <2> QED
    BY <1>2, <2>1, <2>2, PlacedArray DEF Capacity
<1>5. /\ reserved + (b.write - b.read) + len <= size
      /\ reserved <= size /\ size \in Nat
  BY <1>1, <1>2 DEF WritableBytes
<1> HIDE DEF g, size, room, fits
<1> QED
  BY <1>1, <1>3, <1>4, <1>5 DEF Sound, Field, WritableBytes, g

LEMMA EnsureSound ==
  ASSUME reserved \in Nat, NEW b, Sound(b), NEW len \in Nat
  PROVE  /\ Sound(EnsureWritable(b, len))
         /\ WritableBytes(EnsureWritable(b, len)) >= len
         /\ EnsureWritable(b, len).read \in {b.read, reserved}
<1>1. CASE WritableBytes(b) < len
  BY <1>1, GrowSound DEF EnsureWritable
<1>2. CASE ~(WritableBytes(b) < len)
  BY <1>2 DEF EnsureWritable, WritableBytes, Sound, Array
<1> QED
  BY <1>1, <1>2

\* Bytes may be placed in the array and the indices moved within it.
LEMMA ChangedSound ==
  ASSUME NEW b, Sound(b), NEW g, DOMAIN g = Field,
         \/ g.slots = b.slots
         \/ \E at \in Int, d \in Seq(Slot) : g.slots = Placed(b.slots, at, d),
         g.read \in Nat, g.write \in Nat,
         g.read <= g.write, g.write <= Capacity(b)
  PROVE  Sound(g) /\ Capacity(g) = Capacity(b)
<1>1. /\ Capacity(b) \in Nat /\ Array(b.slots, Capacity(b))
      /\ reserved <= Capacity(b)
  BY DEF Sound, Array
<1>2. Array(g.slots, Capacity(b)) /\ Len(g.slots) = Capacity(b)
  <2>1. CASE g.slots = b.slots
    BY <1>1, <2>1 DEF Array
  <2>2. CASE \E at \in Int, d \in Seq(Slot) : g.slots = Placed(b.slots, at, d)
    <3> PICK at \in Int, d \in Seq(Slot) : g.slots = Placed(b.slots, at, d)
      BY <2>2
    <3> QED
      BY <1>1, PlacedArray
  <2> QED
    BY <2>1, <2>2
<1> QED
  BY <1>1, <1>2 DEF Sound, Capacity

\* The indices of a sound buffer.
LEMMA Indices ==
  ASSUME NEW b, Sound(b)
  PROVE  /\ b.read \in Nat /\ b.write \in Nat /\ Capacity(b) \in Nat
         /\ b.read <= b.write /\ b.write <= Capacity(b)
         /\ reserved <= Capacity(b)
  BY DEF Sound, Array

\* n bytes d are put behind the content.
Appended(b, d, n) ==
  [b EXCEPT !.slots = Placed(@, b.write, d), !.write = @ + n]

LEMMA AppendedSound ==
  ASSUME NEW b, Sound(b), NEW d \in Seq(Slot), NEW n \in Nat,
         n <= WritableBytes(b)
  PROVE  /\ Sound(Appended(b, d, n)) /\ Appended(b, d, n).read = b.read
         /\ Appended(b, d, n).write = b.write + n
<1> DEFINE g == Appended(b, d, n)
<1>1. /\ DOMAIN g = Field /\ g.slots = Placed(b.slots, b.write, d)
      /\ g.read = b.read /\ g.write = b.write + n
  BY DEF Sound, Field, Appended
<1>2. /\ g.read \in Nat /\ g.write \in Nat /\ g.read <= g.write
      /\ g.write <= Capacity(b)
  BY <1>1, Indices DEF WritableBytes
<1> HIDE DEF g
<1>3. \E at \in Int, c \in Seq(Slot) : g.slots = Placed(b.slots, at, c)
  <2>1. b.write \in Int
    BY Indices
  <2> QED
    BY <1>1, <2>1
<1>4. Sound(g)
  BY <1>1, <1>2, <1>3, ChangedSound
<1> QED
  BY <1>1, <1>4 DEF g

LEMMA WrittenSound ==
  ASSUME reserved \in Nat, NEW b, Sound(b), NEW d \in Seq(Slot)
  PROVE  /\ Sound(Written(b, d)) /\ Written(b, d).read \in {b.read, reserved}
         /\ Written(b, d).read + Len(d) <= Written(b, d).write
<1> DEFINE e == EnsureWritable(b, Len(d))
<1>1. /\ Sound(e) /\ WritableBytes(e) >= Len(d) /\ e.read \in {b.read, reserved}
  BY EnsureSound
<1>2. Len(d) <= WritableBytes(e)
  BY <1>1, Indices DEF WritableBytes
<1>3. Written(b, d) = Appended(e, d, Len(d))
  BY DEF Written, Appended
<1> HIDE DEF e
<1>4. /\ Sound(Written(b, d)) /\ Written(b, d).read = e.read
      /\ Written(b, d).write = e.write + Len(d)
  BY <1>1, <1>2, <1>3, AppendedSound
<1>5. e.read \in Nat /\ e.write \in Nat /\ e.read <= e.write
  BY <1>1, Indices
<1> QED
  BY <1>1, <1>4, <1>5

\* The content is cut at its end.
LEMMA ShorterSound ==
  ASSUME NEW b, Sound(b), NEW w \in Nat, b.read <= w, w <= b.write
  PROVE  LET g == [b EXCEPT !.write = w] IN Sound(g) /\ g.read = b.read
<1> DEFINE g == [b EXCEPT !.write = w]
<1>1. DOMAIN g = Field /\ g.slots = b.slots /\ g.read = b.read /\ g.write = w
  BY DEF Sound, Field
<1>2. g.read \in Nat /\ g.read <= g.write /\ g.write <= Capacity(b)
  BY <1>1, Indices
<1> HIDE DEF g
<1>3. Sound(g)
  BY <1>1, <1>2, ChangedSound
<1> QED
  BY <1>1, <1>3 DEF g

\* The content begins elsewhere, before its end.
LEMMA MovedSound ==
  ASSUME NEW b, Sound(b), NEW r \in Nat, r <= b.write
  PROVE  LET g == [b EXCEPT !.read = r]
         IN  Sound(g) /\ g.read = r /\ g.write = b.write
<1> DEFINE g == [b EXCEPT !.read = r]
<1>1. DOMAIN g = Field /\ g.slots = b.slots /\ g.read = r /\ g.write = b.write
  BY DEF Sound, Field
<1>2. g.write \in Nat /\ g.read <= g.write /\ g.write <= Capacity(b)
  BY <1>1, Indices
<1> HIDE DEF g
<1>3. Sound(g)
  BY <1>1, <1>2, ChangedSound
<1> QED
  BY <1>1, <1>3 DEF g

LEMMA TruncatedSound ==
  ASSUME reserved \in Nat, NEW b, Sound(b), NEW n \in Nat
  PROVE  /\ Sound(Truncated(b, n))
         /\ Truncated(b, n).read \in {b.read, reserved}
         /\ n = 0 => Truncated(b, n).read = reserved
<1>1. CASE n = 0
  <2> DEFINE g == [b EXCEPT !.read = reserved, !.write = reserved]
  <2>1. /\ DOMAIN g = Field /\ g.slots = b.slots
        /\ g.read = reserved /\ g.write = reserved
    BY DEF Sound, Field
  <2>2. Truncated(b, n) = g
    BY <1>1 DEF Truncated
  <2> HIDE DEF g
  <2>3. Sound(g)
    BY <2>1, Indices, ChangedSound
  <2> QED
    BY <2>1, <2>2, <2>3
<1>2. CASE n # 0
  <2>1. /\ Smaller(b.write, b.read + n) \in Nat
        /\ b.read <= Smaller(b.write, b.read + n)
        /\ Smaller(b.write, b.read + n) <= b.write
    BY Indices DEF Smaller
  <2>2. Truncated(b, n) = [b EXCEPT !.write = Smaller(b.write, b.read + n)]
    BY <1>2 DEF Truncated
  <2> QED
    BY <1>2, <2>1, <2>2, ShorterSound
<1> QED
  BY <1>1, <1>2

\* Skip goes forward, or back to where an empty buffer begins.
LEMMA SkippedSound ==
  ASSUME reserved \in Nat, NEW b, Sound(b), NEW n \in Nat
  PROVE  /\ Sound(Skipped(b, n))
         /\ \/ Skipped(b, n).read = b.read + n /\ Skipped(b, n).write = b.write
            \/ Skipped(b, n).read = reserved
<1>1. CASE n < Length(b)
  <2>1. b.read + n \in Nat /\ b.read + n <= b.write
    BY <1>1, Indices DEF Length
  <2>2. Skipped(b, n) = [b EXCEPT !.read = b.read + n]
    BY <1>1 DEF Skipped
  <2> QED
    BY <2>1, <2>2, MovedSound
<1>2. CASE ~(n < Length(b))
  BY <1>2, TruncatedSound DEF Skipped
<1> QED
  BY <1>1, <1>2

-----------------------------------------------------------------------------
(* The content.                                                            *)

\* What was copied to a place is found there, and all around it is as it was.
LEMMA PlacedHere ==
  ASSUME NEW slots, NEW n \in Nat, Array(slots, n), NEW at \in Nat,
         NEW d \in Seq(Slot), NEW e \in 0..n, e = at + Len(d)
  PROVE  Piece(Placed(slots, at, d), at, e) = d
<1> DEFINE p == Placed(slots, at, d)
<1>0. at \in Int /\ Len(d) \in Nat
  OBVIOUS
<1>1. p \in Seq(Slot) /\ Len(p) = n
  BY <1>0, PlacedArray DEF Array
<1>2. \A k \in 1..Len(d) : at + k \in 1..n => p[at + k] = d[k]
  BY <1>0, PlacedSlots
<1> HIDE DEF p
<1>3. /\ e \in 0..Len(p) /\ at \in 0..e /\ Len(d) = e - at
      /\ \A k \in 1..(e - at) : k \in 1..Len(d) /\ at + k \in 1..n
  BY <1>0, <1>1
<1>4. \A k \in 1..(e - at) : d[k] = p[at + k]
  BY <1>2, <1>3, Zenon
<1>5. d = Piece(p, at, e)
  BY <1>1, <1>3, <1>4, IsPiece, Zenon
<1> QED
  BY <1>5 DEF p

LEMMA PlacedElsewhere ==
  ASSUME NEW slots, NEW n \in Nat, Array(slots, n), NEW at \in Nat,
         NEW d \in Seq(Slot), NEW j \in 0..n, NEW i \in 0..j,
         j <= at \/ at + Len(d) <= i
  PROVE  Piece(Placed(slots, at, d), i, j) = Piece(slots, i, j)
<1> DEFINE p == Placed(slots, at, d)
<1>0. at \in Int /\ Len(d) \in Nat
  OBVIOUS
<1>1. /\ p \in Seq(Slot) /\ Len(p) = n
      /\ slots \in Seq(Slot) /\ Len(slots) = n
  BY <1>0, PlacedArray DEF Array
<1>2. \A k \in 1..n : (k <= at \/ k > at + Len(d)) => p[k] = slots[k]
  BY <1>0, PlacedSlots
<1> HIDE DEF p
<1>3. \A k \in 1..(j - i) :
        i + k \in 1..n /\ (i + k <= at \/ i + k > at + Len(d))
  BY <1>0
<1>4. \A k \in 1..(j - i) : p[i + k] = slots[i + k]
  BY <1>2, <1>3, Zenon
<1>5. j \in 0..Len(p) /\ j \in 0..Len(slots)
  BY <1>1
<1> DEFINE q == Piece(p, i, j)
<1>6. q \in Seq(Slot) /\ Len(q) = j - i /\ \A k \in 1..(j - i) : q[k] = p[i + k]
  BY <1>1, <1>5, PieceIs, Zenon
<1> HIDE DEF q
<1>7. \A k \in 1..(j - i) : q[k] = slots[i + k]
  BY <1>4, <1>6, Zenon
<1>8. q = Piece(slots, i, j)
  BY <1>1, <1>5, <1>6, <1>7, IsPiece, Zenon
<1> QED
  BY <1>8 DEF p, q

\* grow moves the content and changes nothing of it.
LEMMA GrowContent ==
  ASSUME reserved \in Nat, NEW b, Sound(b), NEW len \in Nat
  PROVE  Content(Grow(b, len)) = Content(b)
<1> DEFINE fits == WritableBytes(b) + b.read >= len + reserved
           room == IF fits THEN b.slots ELSE Unset(2 * Capacity(b) + len)
           size == IF fits THEN Capacity(b) ELSE 2 * Capacity(b) + len
           g == Grow(b, len)
           c == Content(b)
<1>1. /\ Capacity(b) \in Nat /\ b.read \in Nat /\ b.write \in Nat
      /\ b.read <= b.write /\ b.write <= Capacity(b) /\ reserved <= Capacity(b)
  BY DEF Sound, Array
<1>2. size \in Nat /\ Array(room, size)
  <2>1. CASE fits
    BY <1>1, <2>1 DEF Sound
  <2>2. CASE ~fits
    BY <1>1, <2>2, UnsetArray
  <2> QED
    BY <2>1, <2>2
<1>3. c \in Seq(Slot) /\ Len(c) = b.write - b.read
  BY ContentIs DEF Length
<1>4. /\ g.slots = Placed(room, reserved, c) /\ g.read = reserved
      /\ g.write = reserved + (b.write - b.read)
  BY DEF Grow, Length
<1>5. reserved + (b.write - b.read) <= size
  BY <1>1, <1>2 DEF WritableBytes
<1> HIDE DEF g, size, room, fits, c
<1>6. g.write \in 0..size /\ g.write = reserved + Len(c)
  BY <1>1, <1>2, <1>3, <1>4, <1>5
<1>7. Piece(Placed(room, reserved, c), reserved, g.write) = c
  BY <1>2, <1>3, <1>6, PlacedHere
<1>8. Content(g) = Piece(g.slots, g.read, g.write)
  BY DEF Content, Piece
<1> QED
  BY <1>4, <1>7, <1>8 DEF g, c

LEMMA EnsureContent ==
  ASSUME reserved \in Nat, NEW b, Sound(b), NEW len \in Nat
  PROVE  Content(EnsureWritable(b, len)) = Content(b)
  BY GrowContent DEF EnsureWritable

LEMMA AppendedContent ==
  ASSUME NEW b, Sound(b), NEW d \in Seq(Slot), Len(d) <= WritableBytes(b)
  PROVE  Content(Appended(b, d, Len(d))) = Content(b) \o d
<1> DEFINE g == Appended(b, d, Len(d))
           n == Capacity(b)
           p == Placed(b.slots, b.write, d)
           m == Len(d)
           r == b.read
           w == b.write
           e == w + m
<1>1. g.slots = p /\ g.read = r /\ g.write = e
  BY DEF Sound, Field, Appended
<1>2. /\ r \in Nat /\ w \in Nat /\ n \in Nat /\ m \in Nat
      /\ r <= w /\ w <= n /\ e <= n /\ e \in Nat /\ r \in 0..w /\ w \in 0..w
      /\ w \in 0..e /\ e \in 0..n
  BY Indices DEF WritableBytes
<1>3. Array(b.slots, n) /\ w \in Int
  BY <1>2 DEF Sound
<1>4. p \in Seq(Slot) /\ Len(p) = n
  BY <1>2, <1>3, PlacedArray DEF Array
<1>5. Piece(p, w, e) = d /\ Piece(p, r, w) = Piece(b.slots, r, w)
  <2>1. w \in 0..n /\ w <= w /\ e = w + Len(d)
    BY <1>2
  <2>2. p = Placed(b.slots, w, d)
    OBVIOUS
  <2> HIDE DEF n, w, r, p, e, m
  <2>3. Piece(p, w, e) = d
    BY <1>2, <1>3, <2>1, <2>2, PlacedHere
  <2>4. Piece(p, r, w) = Piece(b.slots, r, w)
    BY <1>2, <1>3, <2>1, <2>2, PlacedElsewhere
  <2> QED
    BY <2>3, <2>4
<1> HIDE DEF g, p, n, m, e, r, w
<1>6. e \in 0..Len(p)
  BY <1>2, <1>4
<1>7. Piece(p, r, w) \o Piece(p, w, e) = Piece(p, r, e)
  BY <1>2, <1>4, <1>6, JoinPieces
<1>8. Content(g) = Piece(g.slots, g.read, g.write)
  BY DEF Content, Piece
<1>9. Content(b) = Piece(b.slots, r, w)
  BY DEF Content, Piece, r, w
<1> QED
  BY <1>1, <1>5, <1>7, <1>8, <1>9 DEF g, m

LEMMA WrittenContent ==
  ASSUME reserved \in Nat, NEW b, Sound(b), NEW d \in Seq(Slot)
  PROVE  Content(Written(b, d)) = Content(b) \o d
<1> DEFINE e == EnsureWritable(b, Len(d))
<1>1. /\ Sound(e) /\ WritableBytes(e) >= Len(d) /\ Content(e) = Content(b)
  BY EnsureSound, EnsureContent
<1>2. Len(d) <= WritableBytes(e)
  BY <1>1, Indices DEF WritableBytes
<1>3. Written(b, d) = Appended(e, d, Len(d))
  BY DEF Written, Appended
<1> HIDE DEF e
<1> QED
  BY <1>1, <1>2, <1>3, AppendedContent

LEMMA PrependedContent ==
  ASSUME NEW b, Sound(b), NEW d \in Seq(Slot), Len(d) <= b.read
  PROVE  Content(Prepended(b, d)) = d \o Content(b)
<1> DEFINE g == Prepended(b, d)
           n == Capacity(b)
           m == Len(d)
           r == b.read
           w == b.write
           a == r - m
           p == Placed(b.slots, a, d)
<1>1. g.slots = p /\ g.read = a /\ g.write = w
  BY DEF Sound, Field, Prepended
<1>2. /\ r \in Nat /\ w \in Nat /\ n \in Nat /\ m \in Nat /\ m <= r
      /\ r <= w /\ w <= n
  BY Indices
<1>3. /\ a \in Nat /\ a \in Int /\ a + m = r /\ r \in 0..w /\ a \in 0..r
      /\ w \in r..n /\ r \in r..w /\ w \in 0..n
  BY <1>2
<1>4. Array(b.slots, n)
  BY DEF Sound
<1> HIDE DEF a, n, r, w
<1>5. p \in Seq(Slot) /\ Len(p) = n
  BY <1>2, <1>3, <1>4, PlacedArray DEF Array
<1>6. Piece(p, a, r) = d /\ Piece(p, r, w) = Piece(b.slots, r, w)
  <2>1. r = a + Len(d) /\ r \in 0..n /\ a + Len(d) <= r
    BY <1>2, <1>3
  <2>2. p = Placed(b.slots, a, d)
    OBVIOUS
  <2> HIDE DEF p, m
  <2>3. Piece(p, a, r) = d
    BY <1>2, <1>3, <1>4, <2>1, <2>2, PlacedHere
  <2>4. Piece(p, r, w) = Piece(b.slots, r, w)
    BY <1>2, <1>3, <1>4, <2>1, <2>2, PlacedElsewhere
  <2> QED
    BY <2>3, <2>4
<1> HIDE DEF g, p, m
<1>7. w \in 0..Len(p)
  BY <1>3, <1>5
<1>8. Piece(p, a, r) \o Piece(p, r, w) = Piece(p, a, w)
  BY <1>3, <1>5, <1>7, JoinPieces
<1>9. Content(g) = Piece(g.slots, g.read, g.write)
  BY DEF Content, Piece
<1>10. Content(b) = Piece(b.slots, r, w)
  BY DEF Content, Piece, r, w
<1> QED
  BY <1>1, <1>6, <1>8, <1>9, <1>10 DEF g

\* An empty piece.
LEMMA NoPiece == ASSUME NEW s, NEW i \in Int PROVE SubSeq(s, i + 1, i) = <<>>
  OBVIOUS

\* The pieces of the content in the array.
LEMMA ContentPiece ==
  ASSUME NEW b, Sound(b), NEW v \in 0..Len(Content(b)), NEW u \in 0..v
  PROVE  SubSeq(Content(b), u + 1, v) = Piece(b.slots, b.read + u, b.read + v)
<1>1. /\ Content(b) = Piece(b.slots, b.read, b.write)
      /\ Len(Content(b)) = b.write - b.read
  BY ContentIs DEF Length
<1>2. /\ b.slots \in Seq(Slot) /\ b.write \in 0..Len(b.slots)
      /\ b.read \in 0..b.write
  BY DEF Sound, Array, Capacity
<1>3. v \in 0..(b.write - b.read)
  BY <1>1
<1>4. Piece(Piece(b.slots, b.read, b.write), u, v)
        = Piece(b.slots, b.read + u, b.read + v)
  BY <1>2, <1>3, PieceOfPiece
<1>5. SubSeq(Content(b), u + 1, v) = Piece(Content(b), u, v)
  BY DEF Piece
<1> QED
  BY <1>1, <1>4, <1>5

\* The content cut at its end.
LEMMA ShorterContent ==
  ASSUME NEW b, Sound(b), NEW w \in Nat, b.read <= w, w <= b.write
  PROVE  /\ w - b.read \in 0..Len(Content(b))
         /\ Content([b EXCEPT !.write = w])
              = SubSeq(Content(b), 1, w - b.read)
<1> DEFINE g == [b EXCEPT !.write = w]
           n == w - b.read
<1>1. g.slots = b.slots /\ g.read = b.read /\ g.write = w
  BY DEF Sound, Field
<1>2. Len(Content(b)) = b.write - b.read
  BY ContentIs DEF Length
<1>3. /\ b.read \in Nat /\ b.write \in Nat /\ n \in 0..Len(Content(b))
      /\ 0 \in 0..n /\ b.read + 0 = b.read /\ b.read + n = w /\ 0 + 1 = 1
  BY <1>2, Indices
<1> HIDE DEF n
<1>4. SubSeq(Content(b), 0 + 1, n) = Piece(b.slots, b.read + 0, b.read + n)
  BY <1>3, ContentPiece
<1>5. Content(g) = Piece(b.slots, b.read, w)
  BY <1>1 DEF Content, Piece
<1> QED
  BY <1>3, <1>4, <1>5 DEF n

\* The content without its first bytes.
LEMMA MovedContent ==
  ASSUME NEW b, Sound(b), NEW n \in Nat, n <= Length(b)
  PROVE  /\ n \in 0..Len(Content(b))
         /\ [b EXCEPT !.read = b.read + n].slots = b.slots
         /\ Content([b EXCEPT !.read = b.read + n])
              = SubSeq(Content(b), n + 1, Len(Content(b)))
<1> DEFINE g == [b EXCEPT !.read = b.read + n]
           m == Len(Content(b))
<1>1. g.slots = b.slots /\ g.read = b.read + n /\ g.write = b.write
  BY DEF Sound, Field
<1>2. m = b.write - b.read /\ n <= b.write - b.read
  BY ContentIs DEF Length
<1>3. /\ b.read \in Nat /\ b.write \in Nat /\ m \in 0..m
      /\ n \in 0..m /\ b.read + m = b.write
  BY <1>2, Indices
<1>4. SubSeq(Content(b), n + 1, m) = Piece(b.slots, b.read + n, b.read + m)
  BY <1>3, ContentPiece
<1>5. Content(g) = Piece(b.slots, b.read + n, b.write)
  BY <1>1 DEF Content, Piece
<1> QED
  BY <1>1, <1>3, <1>4, <1>5

\* A buffer that was reset is empty.
LEMMA ResetContent ==
  ASSUME reserved \in Nat, NEW b, Sound(b)
  PROVE  /\ Truncated(b, 0).slots = b.slots
         /\ Content(Truncated(b, 0)) = SubSeq(Content(b), 1, 0)
         /\ Content(Truncated(b, 0))
              = SubSeq(Content(b), Len(Content(b)) + 1, Len(Content(b)))
<1> DEFINE g == Truncated(b, 0)
<1>1. g.slots = b.slots /\ g.read = reserved /\ g.write = reserved
  BY DEF Sound, Field, Truncated
<1>2. Content(g) = SubSeq(b.slots, reserved + 1, reserved)
  BY <1>1 DEF Content
<1>3. Content(g) = <<>>
  BY <1>2, NoPiece
<1>4. Len(Content(b)) \in Int /\ 0 \in Int /\ 0 + 1 = 1
  BY ContentIs, Indices DEF Length
<1>5. SubSeq(Content(b), 0 + 1, 0) = <<>>
  BY <1>4, NoPiece
<1>6. SubSeq(Content(b), Len(Content(b)) + 1, Len(Content(b))) = <<>>
  BY <1>4, NoPiece
<1> QED
  BY <1>1, <1>3, <1>4, <1>5, <1>6

LEMMA TruncatedContent ==
  ASSUME reserved \in Nat, NEW b, Sound(b), NEW n \in Nat
  PROVE  \E m \in 0..Len(Content(b)) :
           Content(Truncated(b, n)) = SubSeq(Content(b), 1, m)
<1>0. Len(Content(b)) \in Nat
  BY ContentIs, Indices DEF Length
<1>1. CASE n = 0
  BY <1>0, <1>1, ResetContent
<1>2. CASE n # 0
  <2> DEFINE w == Smaller(b.write, b.read + n)
  <2>1. w \in Nat /\ b.read <= w /\ w <= b.write
    BY Indices DEF Smaller
  <2>2. Truncated(b, n) = [b EXCEPT !.write = w]
    BY <1>2 DEF Truncated
  <2> HIDE DEF w
  <2>3. /\ w - b.read \in 0..Len(Content(b))
        /\ Content(Truncated(b, n)) = SubSeq(Content(b), 1, w - b.read)
    BY <2>1, <2>2, ShorterContent
  <2> QED
    BY <2>3
<1> QED
  BY <1>1, <1>2

\* Skip goes forward, or leaves an empty buffer.
LEMMA SkippedKept ==
  ASSUME reserved \in Nat, NEW b, Sound(b), NEW n \in Nat
  PROVE  \/ Skipped(b, n).read = b.read + n /\ Skipped(b, n).write = b.write
         \/ Content(Skipped(b, n)) = <<>>
<1>1. CASE n < Length(b)
  <2>1. b.read + n \in Nat /\ b.read + n <= b.write
    BY <1>1, Indices DEF Length
  <2>2. Skipped(b, n) = [b EXCEPT !.read = b.read + n]
    BY <1>1 DEF Skipped
  <2> QED
    BY <2>1, <2>2, MovedSound
<1>2. CASE ~(n < Length(b))
  <2>1. Skipped(b, n) = Truncated(b, 0)
    BY <1>2 DEF Skipped
  <2>2. Len(Content(b)) \in Int
    BY ContentIs, Indices DEF Length
  <2>3. SubSeq(Content(b), Len(Content(b)) + 1, Len(Content(b))) = <<>>
    BY <2>2, NoPiece
  <2> QED
    BY <2>1, <2>3, ResetContent
<1> QED
  BY <1>1, <1>2

\* Skip takes the bytes it is asked for, or all there are.
LEMMA SkippedContent ==
  ASSUME reserved \in Nat, NEW b, Sound(b), NEW n \in Nat
  PROVE  /\ Skipped(b, n).slots = b.slots
         /\ \E m \in 0..Len(Content(b)) :
              /\ Content(Skipped(b, n))
                   = SubSeq(Content(b), m + 1, Len(Content(b)))
              /\ n <= Length(b) => m = n
<1>0. Len(Content(b)) \in Nat /\ Len(Content(b)) = Length(b)
  BY ContentIs, Indices DEF Length
<1>1. CASE n < Length(b)
  <2>1. Skipped(b, n) = [b EXCEPT !.read = b.read + n] /\ n <= Length(b)
    BY <1>0, <1>1 DEF Skipped
  <2>2. /\ n \in 0..Len(Content(b)) /\ Skipped(b, n).slots = b.slots
        /\ Content(Skipped(b, n)) = SubSeq(Content(b), n + 1, Len(Content(b)))
    BY <2>1, MovedContent
  <2> QED
    BY <2>2
<1>2. CASE ~(n < Length(b))
  <2>1. Skipped(b, n) = Truncated(b, 0)
    BY <1>2 DEF Skipped
  <2>2. Len(Content(b)) \in 0..Len(Content(b))
        /\ (n <= Length(b) => Len(Content(b)) = n)
    BY <1>0, <1>2
  <2> QED
    BY <2>1, <2>2, ResetContent
<1> QED
  BY <1>1, <1>2

-----------------------------------------------------------------------------
(* The calls.                                                              *)

LEMMA BufferInit == Init => BufferInv
<1> SUFFICES ASSUME Init PROVE BufferInv
  OBVIOUS
<1>1. PICK initial_size \in Sizes :
        buf = [slots |-> Unset(reserved + initial_size),
               read |-> reserved, write |-> reserved]
  BY DEF Init
<1>2. reserved \in Nat /\ initial_size \in Nat /\ back = 0 /\ front = 0
  BY BufferAssumption DEF Init, BufferAssumption
<1>3. /\ Array(buf.slots, reserved + initial_size)
      /\ Capacity(buf) = reserved + initial_size
  BY <1>1, <1>2, UnsetArray DEF Array, Capacity
<1>4. DOMAIN buf = Field /\ buf.read = reserved /\ buf.write = reserved
  BY <1>1 DEF Field
<1> QED
  BY <1>2, <1>3, <1>4 DEF BufferInv, Sound, Room

LEMMA BecomeInv ==
  ASSUME BufferInv, NEW b, Sound(b), b.read \in {buf.read, reserved},
         NEW x, Become(b, x)
  PROVE  BufferInv'
<1>1. buf' = b /\ back' = 0 /\ front' = FrontAfter(b) /\ UNCHANGED reserved
  BY DEF Become
<1>2. Sound(buf)'
  BY <1>1 DEF Sound
<1>3. /\ buf.read \in Nat /\ back \in Nat /\ back <= buf.read
      /\ front \in Nat /\ front <= reserved /\ reserved \in Nat
      /\ reserved <= (buf.read - back) + front
  BY Indices DEF BufferInv, Room
<1> QED
  BY <1>1, <1>2, <1>3 DEF FrontAfter, BufferInv, Room

LEMMA TookInv ==
  ASSUME BufferInv, NEW b, Sound(b), NEW n \in Nat,
         (b.read = buf.read + n /\ b.write = buf.write) \/ b.read = reserved,
         NEW x, Took(b, n, x)
  PROVE  BufferInv'
<1>1. /\ buf' = b /\ UNCHANGED reserved
      /\ \/ b.read = buf.read + n /\ back' = back + n /\ front' = front
         \/ b.read = reserved /\ back' = 0 /\ front' = 0
  BY DEF Took
<1>2. Sound(buf)'
  BY <1>1 DEF Sound
<1>3. /\ buf.read \in Nat /\ back \in Nat /\ back <= buf.read
      /\ front \in Nat /\ front <= reserved /\ reserved \in Nat
      /\ reserved <= (buf.read - back) + front
  BY Indices DEF BufferInv, Room
<1> QED
  BY <1>1, <1>2, <1>3 DEF BufferInv, Room

LEMMA PrependInv ==
  ASSUME BufferInv, NEW d \in Seq(Slot), NEW x, PrependBytes(d, x)
  PROVE  BufferInv'
<1> DEFINE g == Prepended(buf, d)
<1>1. Sound(buf)
  BY DEF BufferInv
<1>2. /\ DOMAIN g = Field /\ g.slots = Placed(buf.slots, buf.read - Len(d), d)
      /\ g.read = buf.read - Len(d) /\ g.write = buf.write
  BY <1>1 DEF Prepended, Sound, Field
<1>3. Len(d) <= buf.read
  BY DEF PrependBytes
<1>4. /\ g.read \in Nat /\ g.write \in Nat
      /\ g.read <= g.write /\ g.write <= Capacity(buf)
  BY <1>1, <1>2, <1>3, Indices
<1>5. /\ buf' = g /\ back' = 0 /\ front' = Smaller(front + Len(d), reserved)
      /\ UNCHANGED reserved
  BY DEF PrependBytes
<1> HIDE DEF g
<1>6. Sound(g)
  BY <1>1, <1>2, <1>4, ChangedSound
<1>7. Sound(buf)'
  BY <1>5, <1>6 DEF Sound
<1>8. /\ buf.read \in Nat /\ back \in Nat /\ back <= buf.read
      /\ front \in Nat /\ front <= reserved /\ reserved \in Nat
      /\ reserved <= (buf.read - back) + front
  BY <1>1, Indices DEF BufferInv, Room
<1>9. /\ front' \in Nat /\ front' <= reserved
      /\ reserved <= (buf.read - Len(d)) + front'
  <2>1. CASE front + Len(d) <= reserved
    BY <1>3, <1>5, <1>8, <2>1 DEF Smaller
  <2>2. CASE ~(front + Len(d) <= reserved)
    BY <1>3, <1>5, <1>8, <2>2 DEF Smaller
  <2> QED
    BY <2>1, <2>2
<1>10. buf'.read = buf.read - Len(d) /\ buf'.read \in Nat
  BY <1>2, <1>4, <1>5
<1> QED
  BY <1>5, <1>7, <1>8, <1>9, <1>10 DEF BufferInv, Room

LEMMA UnreadInv ==
  ASSUME BufferInv, NEW n \in Nat, UnreadBytes(n)
  PROVE  BufferInv'
<1>1. /\ n < buf.read /\ buf' = [buf EXCEPT !.read = @ - n]
      /\ UNCHANGED reserved
  BY DEF UnreadBytes
<1>2. /\ buf.read \in Nat /\ back \in Nat /\ back <= buf.read
      /\ buf.write \in Nat
      /\ front \in Nat /\ front <= reserved /\ reserved \in Nat /\ Sound(buf)
      /\ reserved <= (buf.read - back) + front /\ buf.read <= buf.write
  BY Indices DEF BufferInv, Room
<1>3. buf.read - n \in Nat /\ buf.read - n <= buf.write
  BY <1>1, <1>2
<1>4. LET g == [buf EXCEPT !.read = buf.read - n]
      IN  Sound(g) /\ g.read = buf.read - n
  BY <1>2, <1>3, MovedSound
<1>5. Sound(buf)' /\ buf'.read = buf.read - n
  BY <1>1, <1>4 DEF Sound
<1>6. CASE n <= back
  <2>1. back' = back - n /\ front' = front
    BY <1>6 DEF UnreadBytes
  <2> QED
    BY <1>1, <1>2, <1>3, <1>5, <1>6, <2>1 DEF BufferInv, Room
<1>7. CASE ~(n <= back)
  <2>1. back' = 0 /\ front' = Smaller(front + (n - back), reserved)
    BY <1>7 DEF UnreadBytes
  <2>2. /\ front' \in Nat /\ front' <= reserved
        /\ reserved <= (buf.read - n) + front'
    <3>1. CASE front + (n - back) <= reserved
      BY <1>2, <1>3, <1>7, <2>1, <3>1 DEF Smaller
    <3>2. CASE ~(front + (n - back) <= reserved)
      BY <1>2, <1>3, <1>7, <2>1, <3>2 DEF Smaller
    <3> QED
      BY <3>1, <3>2
  <2> QED
    BY <1>1, <1>2, <1>3, <1>5, <2>1, <2>2 DEF BufferInv, Room
<1> QED
  BY <1>6, <1>7

\* The numbers that one call handles.
LEMMA Amounts == Amount \subseteq Nat /\ Widths \subseteq Nat
  BY BufferAssumption DEF Amount, BufferAssumption

LEMMA WritingInv ==
  BufferInv /\ (Write \/ AppendInt \/ WriteBytes \/ ReadFromFD \/ ToText)
    => BufferInv'
<1> SUFFICES ASSUME BufferInv,
                    Write \/ AppendInt \/ WriteBytes \/ ReadFromFD \/ ToText
             PROVE  BufferInv'
  OBVIOUS
<1>1. reserved \in Nat /\ Sound(buf)
  BY DEF BufferInv
<1>2. CASE Write
  <2>1. PICK d \in Run : Become(Written(buf, d), 0)
    BY <1>2 DEF Write
  <2> QED
    BY <1>1, <2>1, RunLength, WrittenSound, BecomeInv
<1>3. CASE AppendInt
  <2>1. PICK w \in Widths :
          \E x \in Fitting(w) : Become(Written(buf, Network(x, w)), x)
    BY <1>3 DEF AppendInt
  <2> PICK x \in Fitting(w) : Become(Written(buf, Network(x, w)), x)
    BY <2>1
  <2>2. Network(x, w) \in Seq(Slot)
    BY NetworkRun, RunLength
  <2> QED
    BY <1>1, <2>2, WrittenSound, BecomeInv
<1>4. CASE WriteBytes
  <2>1. PICK d \in Run :
          /\ Len(d) <= WritableBytes(buf)
          /\ Become(Appended(buf, d, Len(d)), 0)
    BY <1>4 DEF WriteBytes, Appended
  <2>2. /\ Sound(Appended(buf, d, Len(d)))
        /\ Appended(buf, d, Len(d)).read = buf.read
    BY <1>1, <2>1, RunLength, AppendedSound
  <2> QED
    BY <2>1, <2>2, BecomeInv
<1>5. CASE ReadFromFD
  <2>1. PICK d \in Run :
          LET n == Smaller(Len(d), WritableBytes(buf))
          IN  Become(Written(Appended(buf, SubSeq(d, 1, n), n),
                             SubSeq(d, n + 1, Len(d))), 0)
    BY <1>5 DEF ReadFromFD, Appended
  <2> DEFINE n == Smaller(Len(d), WritableBytes(buf))
             filled == Appended(buf, SubSeq(d, 1, n), n)
             rest == SubSeq(d, n + 1, Len(d))
  <2>2. n \in Nat /\ n <= WritableBytes(buf) /\ n <= Len(d) /\ n \in 0..Len(d)
    BY <1>1, RunLength, Indices DEF Smaller, WritableBytes
  <2>3. Sound(filled) /\ filled.read = buf.read
    <3> HIDE DEF n
    <3>1. SubSeq(d, 1, n) \in Seq(Slot)
      BY <2>2, RunLength, FirstOf, Zenon
    <3> QED
      BY <1>1, <2>2, <3>1, AppendedSound
  <2>4. rest \in Seq(Slot)
    <3> HIDE DEF n
    <3> QED
      BY <2>2, RunLength, Rest
  <2> HIDE DEF n, filled, rest
  <2>5. /\ Sound(Written(filled, rest))
        /\ Written(filled, rest).read \in {buf.read, reserved}
    BY <1>1, <2>3, <2>4, WrittenSound
  <2>6. Become(Written(filled, rest), 0)
    BY <2>1 DEF n, filled, rest
  <2> QED
    BY <2>5, <2>6, BecomeInv
<1>6. CASE ToText
  <2> DEFINE b == Written(buf, <<0>>)
  <2>1. Become([b EXCEPT !.write = b.write - 1], 0)
    BY <1>6 DEF ToText
  <2>2. <<0>> \in Seq(Slot) /\ Len(<<0>>) = 1
    <3>1. 0 \in Slot
      BY Bases DEF Slot
    <3> QED
      BY <3>1
  <2>3. Sound(b) /\ b.read \in {buf.read, reserved} /\ b.read + 1 <= b.write
    BY <1>1, <2>2, WrittenSound
  <2> HIDE DEF b
  <2>4. /\ b.write - 1 \in Nat /\ b.read <= b.write - 1
        /\ b.write - 1 <= b.write
    BY <2>3, Indices
  <2>5. LET g == [b EXCEPT !.write = b.write - 1]
        IN  Sound(g) /\ g.read = b.read
    BY <2>3, <2>4, ShorterSound
  <2> QED
    BY <2>1, <2>3, <2>5, BecomeInv
<1> QED
  BY <1>2, <1>3, <1>4, <1>5, <1>6

LEMMA RoomInv ==
  BufferInv /\ (UnwriteBytes \/ Truncate \/ Reserve \/ EnsureWritableBytes)
    => BufferInv'
<1> SUFFICES ASSUME BufferInv,
                    UnwriteBytes \/ Truncate \/ Reserve \/ EnsureWritableBytes
             PROVE  BufferInv'
  OBVIOUS
<1>1. reserved \in Nat /\ Sound(buf)
  BY DEF BufferInv
<1>2. CASE UnwriteBytes
  <2>1. PICK n \in Amount :
          n <= Length(buf) /\ Become([buf EXCEPT !.write = buf.write - n], 0)
    BY <1>2 DEF UnwriteBytes
  <2>2. /\ buf.write - n \in Nat /\ buf.read <= buf.write - n
        /\ buf.write - n <= buf.write
    BY <1>1, <2>1, Amounts, Indices DEF Length
  <2>3. LET g == [buf EXCEPT !.write = buf.write - n]
        IN  Sound(g) /\ g.read = buf.read
    BY <1>1, <2>2, ShorterSound
  <2> QED
    BY <2>1, <2>3, BecomeInv
<1>3. CASE Truncate
  BY <1>1, <1>3, Amounts, TruncatedSound, BecomeInv DEF Truncate
<1>4. CASE Reserve
  <2>1. PICK n \in Amount : Become(Grow(buf, n + reserved), 0)
    BY <1>4 DEF Reserve
  <2>2. n + reserved \in Nat
    BY <1>1, Amounts
  <2> QED
    BY <1>1, <2>1, <2>2, GrowSound, BecomeInv
<1>5. CASE EnsureWritableBytes
  BY <1>1, <1>5, Amounts, EnsureSound, BecomeInv DEF EnsureWritableBytes
<1> QED
  BY <1>2, <1>3, <1>4, <1>5

LEMMA ReadingInv ==
  BufferInv /\ (Skip \/ ReadInt \/ NextBytes \/ ReadByte) => BufferInv'
<1> SUFFICES ASSUME BufferInv, Skip \/ ReadInt \/ NextBytes \/ ReadByte
             PROVE  BufferInv'
  OBVIOUS
<1>1. reserved \in Nat /\ Sound(buf)
  BY DEF BufferInv
<1>2. CASE Skip
  BY <1>1, <1>2, Amounts, SkippedSound, TookInv DEF Skip
<1>3. CASE ReadInt
  BY <1>1, <1>3, Amounts, SkippedSound, TookInv DEF ReadInt
<1>4. ASSUME NEW n \in Nat, n <= Length(buf), NEW x,
             Took([buf EXCEPT !.read = buf.read + n], n, x)
      PROVE  BufferInv'
  <2> DEFINE g == [buf EXCEPT !.read = buf.read + n]
  <2>1. buf.read + n \in Nat /\ buf.read + n <= buf.write
    BY <1>1, <1>4, Indices DEF Length
  <2>2. Sound(g) /\ g.read = buf.read + n /\ g.write = buf.write
    BY <1>1, <2>1, MovedSound
  <2> QED
    BY <1>4, <2>2, TookInv
<1>5. CASE NextBytes
  BY <1>4, <1>5, Amounts DEF NextBytes
<1>6. CASE ReadByte
  <2>1. CASE Length(buf) >= 1
    <3>1. 1 <= Length(buf)
      BY <1>1, <2>1, Indices DEF Length
    <3>2. Took([buf EXCEPT !.read = buf.read + 1], 1, Content(buf)[1])
      BY <1>1, <1>6, <2>1, Indices DEF ReadByte, Length
    <3> QED
      BY <1>4, <3>1, <3>2
  <2>2. CASE Length(buf) = 0 /\ Took(buf, 0, 0)
    <3>1. buf.read = buf.read + 0
      BY <1>1, Indices
    <3> QED
      BY <1>1, <2>2, <3>1, TookInv
  <2> QED
    BY <1>6, <2>1, <2>2 DEF ReadByte
<1> QED
  BY <1>2, <1>3, <1>5, <1>6

LEMMA BufferNext == BufferInv /\ [Next]_vars => BufferInv'
<1> SUFFICES ASSUME BufferInv, [Next]_vars PROVE BufferInv'
  OBVIOUS
<1>1. CASE Prepend
  BY <1>1, RunLength, PrependInv DEF Prepend
<1>2. CASE PrependInt
  <2>1. PICK w \in Widths :
          \E x \in Fitting(w) : PrependBytes(Network(x, w), x)
    BY <1>2 DEF PrependInt
  <2> PICK x \in Fitting(w) : PrependBytes(Network(x, w), x)
    BY <2>1
  <2>2. Network(x, w) \in Seq(Slot)
    BY NetworkRun, RunLength
  <2> QED
    BY <2>2, PrependInv
<1>3. CASE \E n \in Amount : UnreadBytes(n)
  BY <1>3, Amounts, UnreadInv
<1>4. CASE UNCHANGED vars
  BY <1>4 DEF vars, BufferInv, Sound, Room, Array, Capacity
<1> QED
  BY <1>1, <1>2, <1>3, <1>4, WritingInv, RoomInv, ReadingInv DEF Next

-----------------------------------------------------------------------------
(* The steps of the deque.                                                 *)

\* What a call that forgets earlier reads changes of the deque.
LEMMA BecomeMaps ==
  ASSUME NEW b, Sound(b), NEW x, Become(b, x)
  PROVE  /\ Content(buf)' = Content(b) /\ value' = x
         /\ SubSeq(buf.slots, buf.read - back + 1, buf.read)' = <<>>
<1>1. buf' = b /\ value' = x /\ back' = 0
  BY DEF Become
<1>2. b.read \in Int /\ b.read - 0 = b.read
  BY Indices
<1>3. SubSeq(b.slots, b.read + 1, b.read) = <<>>
  BY <1>2, NoPiece
<1>4. SubSeq(buf.slots, buf.read - back + 1, buf.read)' = <<>>
  BY <1>1, <1>2, <1>3
<1> QED
  BY <1>1, <1>4 DEF Content

LEMMA PushesBack ==
  ASSUME NEW b, Sound(b), NEW d \in Run, Content(b) = Content(buf) \o d,
         NEW x, x \in {0, Abstract!Number(d)}, Become(b, x)
  PROVE  Abstract!PushBack
<1>1. /\ Content(buf)' = Content(buf) \o d /\ value' = x
      /\ SubSeq(buf.slots, buf.read - back + 1, buf.read)' = <<>>
  BY BecomeMaps
<1> QED
  BY <1>1, Zenon DEF Abstract!PushBack

LEMMA DropsBack ==
  ASSUME NEW b, Sound(b), NEW n \in 0..Len(Content(buf)),
         Content(b) = SubSeq(Content(buf), 1, n), Become(b, 0)
  PROVE  Abstract!DropBack
<1>1. /\ Content(buf)' = SubSeq(Content(buf), 1, n) /\ value' = 0
      /\ SubSeq(buf.slots, buf.read - back + 1, buf.read)' = <<>>
  BY BecomeMaps
<1> QED
  BY <1>1, Zenon DEF Abstract!DropBack

\* Nothing is dropped when the content is only moved.
LEMMA DropsNothing ==
  ASSUME BufferInv, NEW b, Sound(b), Content(b) = Content(buf), Become(b, 0)
  PROVE  Abstract!DropBack
<1>1. Content(buf) \in Seq(Slot) /\ Len(Content(buf)) \in Nat
  BY ContentIs DEF BufferInv
<1>2. /\ Len(Content(buf)) \in 0..Len(Content(buf))
      /\ Content(buf) = SubSeq(Content(buf), 1, Len(Content(buf)))
  BY <1>1
<1> QED
  BY <1>2, DropsBack

LEMMA PushesFront ==
  ASSUME BufferInv, NEW d \in Run, NEW x, x \in {0, Abstract!Number(d)},
         PrependBytes(d, x)
  PROVE  Abstract!PushFront
<1> DEFINE g == Prepended(buf, d)
<1>1. /\ buf' = g /\ value' = x /\ back' = 0 /\ Len(d) <= buf.read
  BY DEF PrependBytes
<1>2. Sound(buf) /\ d \in Seq(Slot)
  BY RunLength DEF BufferInv
<1>3. Content(g) = d \o Content(buf)
  BY <1>1, <1>2, PrependedContent
<1>4. g.read = buf.read - Len(d)
  BY <1>2 DEF Prepended, Sound, Field
<1>5. g.read \in Int
  BY <1>2, <1>4, Indices
<1> HIDE DEF g
<1>6. g.read - 0 = g.read /\ SubSeq(g.slots, g.read + 1, g.read) = <<>>
  BY <1>5, NoPiece
<1>7. SubSeq(buf.slots, buf.read - back + 1, buf.read)' = <<>>
  BY <1>1, <1>6
<1>8. Content(buf)' = d \o Content(buf)
  BY <1>1, <1>3 DEF Content
<1> QED
  BY <1>1, <1>7, <1>8, Zenon DEF Abstract!PushFront

\* A read takes bytes at the front, and remembers them unless it has reset an
\* empty buffer.
LEMMA TakesFront ==
  ASSUME BufferInv, NEW b, Sound(b), b.slots = buf.slots,
         NEW n \in 0..Len(Content(buf)),
         Content(b) = SubSeq(Content(buf), n + 1, Len(Content(buf))),
         NEW m \in Nat,
         (b.read = buf.read + m /\ b.write = buf.write) \/ Content(b) = <<>>,
         NEW x,
         x \in {0, Abstract!Number(SubSeq(Content(buf), 1, n))}, Took(b, m, x)
  PROVE  Abstract!TakeFront
<1> DEFINE undo == SubSeq(buf.slots, buf.read - back + 1, buf.read)
           taken == SubSeq(Content(buf), 1, n)
<1>1. buf' = b /\ value' = x
  BY DEF Took
<1>2. Content(buf)' = SubSeq(Content(buf), n + 1, Len(Content(buf)))
  BY <1>1 DEF Content
<1>3. /\ Sound(buf) /\ back \in Nat /\ back <= buf.read
      /\ buf.slots \in Seq(Slot)
  BY DEF BufferInv, Sound, Array
<1>4. /\ buf.read \in Nat /\ buf.write \in Nat /\ b.read \in Nat
      /\ buf.read <= buf.write /\ b.read <= b.write /\ b.write \in Nat
      /\ buf.write <= Len(buf.slots) /\ Len(buf.slots) \in Nat
  BY <1>3, Indices DEF Capacity
<1>5. CASE b.read = buf.read + m /\ b.write = buf.write
  <2>1. back' = back + m
    BY <1>5 DEF Took
  <2>2. Len(Content(buf)) = buf.write - buf.read
    BY <1>3, ContentIs DEF Length
  <2>3. Len(Content(b)) = b.write - b.read
    BY ContentIs DEF Length
  <2>4. Len(Content(b)) = Len(Content(buf)) - n
    BY <1>3, ContentIs, Rest
  <2>5. n \in Nat /\ n <= buf.write - buf.read /\ m = n
    <3>1. \A c \in Int : n \in 0..c => n \in Nat /\ n <= c
      OBVIOUS
    <3>2. n \in Nat /\ n <= buf.write - buf.read
      BY <1>4, <2>2, <3>1
    <3>3. b.write - b.read = (buf.write - buf.read) - n
      BY <2>2, <2>3, <2>4, Zenon
    <3> QED
      BY <1>4, <1>5, <3>2, <3>3
  <2>6. taken = Piece(buf.slots, buf.read, buf.read + n)
    <3>1. 0 \in 0..n /\ 0 + 1 = 1 /\ buf.read + 0 = buf.read
      BY <1>4, <2>5
    <3>2. SubSeq(Content(buf), 0 + 1, n)
            = Piece(buf.slots, buf.read + 0, buf.read + n)
      BY <1>3, <3>1, ContentPiece
    <3> QED
      BY <3>1, <3>2
  <2>7. undo = Piece(buf.slots, buf.read - back, buf.read)
    BY DEF Piece
  <2> HIDE DEF undo, taken
  <2>8. undo \o taken = Piece(buf.slots, buf.read - back, buf.read + n)
    <3>1. buf.read + n \in 0..Len(buf.slots)
      BY <1>4, <2>5
    <3>2. buf.read \in 0..(buf.read + n)
      BY <1>4, <2>5
    <3>3. buf.read - back \in 0..buf.read
      BY <1>3, <1>4
    <3> QED
      BY <1>3, <2>6, <2>7, <3>1, <3>2, <3>3, JoinPieces
  <2>9. (buf.read + n) - (back + n) = buf.read - back
    BY <1>3, <1>4, <2>5
  <2>10. undo' = Piece(b.slots, b.read - (back + m), b.read)
    BY <1>1, <2>1 DEF undo, Piece
  <2>11. undo' = undo \o taken
    BY <1>5, <2>5, <2>8, <2>9, <2>10
  <2> QED
    BY <1>1, <1>2, <2>11, Zenon DEF Abstract!TakeFront, undo, taken
<1>6. CASE ~(b.read = buf.read + m /\ b.write = buf.write)
  <2>1. back' = 0
    BY <1>6 DEF Took
  <2>2. b.read - 0 = b.read /\ SubSeq(b.slots, b.read + 1, b.read) = <<>>
    BY <1>4, NoPiece
  <2>3. undo' = <<>>
    BY <1>1, <2>1, <2>2
  <2>4. Content(buf)' = <<>>
    BY <1>1, <1>6 DEF Content
  <2> QED
    BY <1>1, <1>2, <2>3, <2>4, Zenon DEF Abstract!TakeFront
<1> QED
  BY <1>5, <1>6

\* Bytes that were left in place come back.
LEMMA UnreadMaps ==
  ASSUME BufferInv, NEW n \in Nat, n <= back, UnreadBytes(n)
  PROVE  Abstract!Unread
<1>1. /\ value' = 0 /\ buf' = [buf EXCEPT !.read = @ - n]
      /\ back' = back - n
  BY DEF UnreadBytes
<1> DEFINE s == buf.slots
           r == buf.read
           w == buf.write
           u == r - back
           v == r - n
           undo == SubSeq(buf.slots, buf.read - back + 1, buf.read)
<1>2. /\ Sound(buf) /\ back \in Nat /\ back <= r /\ s \in Seq(Slot)
  BY DEF BufferInv, Sound, Array
<1>3. /\ r \in Nat /\ w \in Nat /\ r <= w /\ w <= Len(s)
  BY <1>2, Indices DEF Capacity
<1>4. /\ u \in Nat /\ v \in Nat /\ n \in Nat /\ u <= v /\ v <= r
      /\ v - (back - n) = u /\ n <= back
      /\ w \in 0..Len(s) /\ r \in 0..Len(s) /\ r \in 0..w /\ v \in 0..r
      /\ u \in 0..r /\ u + back = r /\ u + (back - n) = v /\ r - u = back
      /\ u + 0 = u
  BY <1>1, <1>2, <1>3, SMTT(60)
<1>5. buf'.slots = s /\ buf'.read = v /\ buf'.write = w
  BY <1>1, <1>2 DEF Sound, Field
<1>6. undo = Piece(s, u, r)
  BY DEF Piece
<1>7. undo' = Piece(s, v - (back - n), v)
  BY <1>1, <1>5 DEF Piece
<1>8. Content(buf) = Piece(s, r, w) /\ Content(buf)' = Piece(s, v, w)
  BY <1>5 DEF Content, Piece
<1> HIDE DEF undo, s, r, w, u, v
<1>9. Len(undo) = back
  BY <1>2, <1>4, <1>6, PieceIs
<1>10. Piece(s, v, r) \o Piece(s, r, w) = Piece(s, v, w)
  BY <1>2, <1>4, JoinPieces
<1>11. Piece(undo, back - n, back) = Piece(s, v, r)
  <2>1. back \in 0..(r - u) /\ back - n \in 0..back
    BY <1>2, <1>4
  <2>2. Piece(Piece(s, u, r), back - n, back)
          = Piece(s, u + (back - n), u + back)
    BY <1>2, <1>4, <2>1, PieceOfPiece
  <2> QED
    BY <1>4, <1>6, <2>2
<1>12. Piece(undo, 0, back - n) = Piece(s, u, v)
  <2>1. back - n \in 0..(r - u) /\ 0 \in 0..(back - n)
    BY <1>2, <1>4
  <2>2. Piece(Piece(s, u, r), 0, back - n)
          = Piece(s, u + 0, u + (back - n))
    BY <1>2, <1>4, <2>1, PieceOfPiece
  <2> QED
    BY <1>4, <1>6, <2>2
<1>13. Content(buf)' = SubSeq(undo, Len(undo) - n + 1, Len(undo)) \o Content(buf)
  BY <1>8, <1>9, <1>10, <1>11 DEF Piece
<1>14. undo' = SubSeq(undo, 1, Len(undo) - n)
  <2>1. 0 + 1 = 1
    OBVIOUS
  <2> QED
    BY <1>4, <1>7, <1>9, <1>12, <2>1 DEF Piece
<1>15. n \in 0..Len(undo)
  BY <1>2, <1>9
<1> QED
  BY <1>1, <1>13, <1>14, <1>15, Zenon DEF Abstract!Unread, undo

\* More than those: they come back behind what the array holds before them.
LEMMA UnreadBeyondMaps ==
  ASSUME BufferInv, NEW n \in Nat, ~(n <= back), UnreadBytes(n)
  PROVE  Abstract!UnreadBeyond
<1>1. /\ n < buf.read /\ value' = 0 /\ buf' = [buf EXCEPT !.read = @ - n]
      /\ back' = 0
  BY DEF UnreadBytes
<1> DEFINE s == buf.slots
           r == buf.read
           w == buf.write
           u == r - back
           v == r - n
           undo == SubSeq(buf.slots, buf.read - back + 1, buf.read)
<1>2. /\ Sound(buf) /\ back \in Nat /\ back <= r /\ s \in Seq(Slot)
  BY DEF BufferInv, Sound, Array
<1>3. /\ r \in Nat /\ w \in Nat /\ r <= w /\ w <= Len(s)
  BY <1>2, Indices DEF Capacity
<1>4. /\ u \in Nat /\ v \in Nat /\ n - back > 0
      /\ w \in 0..Len(s) /\ r \in 0..w /\ v \in 0..w /\ u \in 0..r
      /\ u \in 0..w /\ v + (n - back) = u /\ v + (w - v) = w
      /\ (w - v) - (w - u) = n - back
      /\ w - v \in 0..(w - v) /\ n - back \in 0..(w - v)
  <2>1. n < r /\ back <= r /\ back < n /\ r <= w /\ w <= Len(s)
    BY <1>1, <1>2, <1>3
  <2>2. r \in Nat /\ w \in Nat /\ back \in Nat /\ Len(s) \in Nat
    BY <1>2, <1>3
  <2> HIDE DEF s, r, w
  <2>3. u \in Nat /\ v \in Nat /\ n - back > 0 /\ v <= u /\ u <= r
    BY <2>1, <2>2
  <2>4. v + (n - back) = u /\ v + (w - v) = w
        /\ (w - v) - (w - u) = n - back
    BY <2>1, <2>2
  <2>5. w \in 0..Len(s) /\ r \in 0..w
    BY <2>1, <2>2
  <2>6. v \in 0..w /\ u \in 0..r /\ u \in 0..w
    BY <2>1, <2>2
  <2>7. w - v \in 0..(w - v)
    BY <2>1, <2>2
  <2>8. n - back \in 0..(w - v)
    BY <2>1, <2>2
  <2> QED
    BY <2>3, <2>4, <2>5, <2>6, <2>7, <2>8
<1>5. buf'.slots = s /\ buf'.read = v /\ buf'.write = w
  BY <1>1, <1>2 DEF Sound, Field
<1>6. undo = Piece(s, u, r)
  BY DEF Piece
<1>7. undo' = <<>>
  <2>1. v - 0 = v /\ v \in Int
    BY <1>4
  <2> QED
    BY <1>1, <1>5, <2>1, NoPiece
<1>8. Content(buf) = Piece(s, r, w) /\ Content(buf)' = Piece(s, v, w)
  BY <1>5 DEF Content, Piece
<1> HIDE DEF undo, s, r, w, u, v
<1>9. undo \o Content(buf) = Piece(s, u, w)
  BY <1>2, <1>4, <1>6, <1>8, JoinPieces
<1>10. Len(Piece(s, u, w)) = w - u /\ Len(Piece(s, v, w)) = w - v
  BY <1>2, <1>4, PieceIs
<1>11. Piece(Piece(s, v, w), n - back, w - v) = Piece(s, u, w)
  <2>1. Piece(Piece(s, v, w), n - back, w - v)
          = Piece(s, v + (n - back), v + (w - v))
    BY <1>2, <1>4, PieceOfPiece
  <2> QED
    BY <1>4, <2>1
<1>12. Len(Content(buf)') - Len(undo \o Content(buf)) = n - back
  BY <1>4, <1>8, <1>9, <1>10
<1>13. SubSeq(Content(buf)', (n - back) + 1, Len(Content(buf)'))
         = undo \o Content(buf)
  BY <1>8, <1>9, <1>10, <1>11 DEF Piece
<1> QED
  BY <1>1, <1>4, <1>7, <1>12, <1>13 DEF Abstract!UnreadBeyond, undo

\* A sequence of slots is one of numbers.
LEMMA SlotNumbers == ASSUME NEW t \in Seq(Slot) PROVE t \in Seq(Nat)
<1>1. Slot \subseteq Nat
  BY Bases DEF Slot
<1>2. Len(t) \in Nat /\ t \in [1..Len(t) -> Slot]
  OBVIOUS
<1>3. t \in [1..Len(t) -> Nat]
  BY <1>1, <1>2
<1> QED
  BY <1>2, <1>3

LEMMA WritingMaps ==
  BufferInv /\ (Write \/ AppendInt \/ WriteBytes \/ ReadFromFD)
    => Abstract!PushBack
<1> SUFFICES ASSUME BufferInv, Write \/ AppendInt \/ WriteBytes \/ ReadFromFD
             PROVE  Abstract!PushBack
  OBVIOUS
<1>1. reserved \in Nat /\ Sound(buf)
  BY DEF BufferInv
<1>2. CASE Write
  <2>1. PICK d \in Run : Become(Written(buf, d), 0)
    BY <1>2 DEF Write
  <2>2. /\ Sound(Written(buf, d))
        /\ Content(Written(buf, d)) = Content(buf) \o d
    BY <1>1, RunLength, WrittenSound, WrittenContent
  <2> QED
    BY <2>1, <2>2, PushesBack
<1>3. CASE AppendInt
  <2>1. PICK w \in Widths :
          \E x \in Fitting(w) : Become(Written(buf, Network(x, w)), x)
    BY <1>3 DEF AppendInt
  <2> PICK x \in Fitting(w) : Become(Written(buf, Network(x, w)), x)
    BY <2>1
  <2> DEFINE d == Network(x, w)
  <2>2. d \in Run /\ x \in {0, Abstract!Number(d)}
    BY NetworkRun
  <2>3. /\ Sound(Written(buf, d))
        /\ Content(Written(buf, d)) = Content(buf) \o d
    BY <1>1, <2>2, RunLength, WrittenSound, WrittenContent
  <2> HIDE DEF d
  <2>4. Become(Written(buf, d), x)
    BY DEF d
  <2> QED
    BY <2>2, <2>3, <2>4, PushesBack
<1>4. CASE WriteBytes
  <2>1. PICK d \in Run :
          /\ Len(d) <= WritableBytes(buf)
          /\ Become(Appended(buf, d, Len(d)), 0)
    BY <1>4 DEF WriteBytes, Appended
  <2>2. /\ Sound(Appended(buf, d, Len(d)))
        /\ Content(Appended(buf, d, Len(d))) = Content(buf) \o d
    BY <1>1, <2>1, RunLength, AppendedSound, AppendedContent
  <2> QED
    BY <2>1, <2>2, PushesBack
<1>5. CASE ReadFromFD
  <2>1. PICK d \in Run :
          LET n == Smaller(Len(d), WritableBytes(buf))
          IN  Become(Written(Appended(buf, SubSeq(d, 1, n), n),
                             SubSeq(d, n + 1, Len(d))), 0)
    BY <1>5 DEF ReadFromFD, Appended
  <2> DEFINE n == Smaller(Len(d), WritableBytes(buf))
             first == SubSeq(d, 1, n)
             filled == Appended(buf, first, n)
             rest == SubSeq(d, n + 1, Len(d))
             last == Written(filled, rest)
  <2>2. /\ n \in Nat /\ n <= WritableBytes(buf) /\ n \in 0..Len(d)
        /\ d \in Seq(Slot) /\ Len(d) \in 0..Len(d) /\ 0 \in 0..n
    BY <1>1, RunLength, Indices DEF Smaller, WritableBytes
  <2>3. Become(last, 0)
    BY <2>1
  <2> HIDE DEF n
  <2>4. first \in Seq(Slot) /\ Len(first) = n
    BY <2>2, FirstOf
  <2>5. rest \in Seq(Slot)
    BY <2>2, Rest
  <2>6. first \o rest = d
    <3>1. first = Piece(d, 0, n) /\ rest = Piece(d, n, Len(d))
      BY DEF Piece
    <3>2. Piece(d, 0, Len(d)) = d
      BY <2>2 DEF Piece
    <3> HIDE DEF first, rest
    <3> QED
      BY <2>2, <3>1, <3>2, JoinPieces
  <2> HIDE DEF first, rest, last
  <2>7. Sound(filled) /\ Content(filled) = Content(buf) \o first
    BY <1>1, <2>2, <2>4, AppendedSound, AppendedContent
  <2> HIDE DEF filled
  <2>8. Sound(last) /\ Content(last) = (Content(buf) \o first) \o rest
    BY <1>1, <2>5, <2>7, WrittenSound, WrittenContent DEF last
  <2>9. Content(buf) \in Seq(Slot)
    BY <1>1, ContentIs
  <2>10. (Content(buf) \o first) \o rest = Content(buf) \o (first \o rest)
    BY <2>4, <2>5, <2>9, ConcatAssociative
  <2>11. Content(last) = Content(buf) \o d
    BY <2>6, <2>8, <2>10
  <2> QED
    BY <2>3, <2>8, <2>11, PushesBack
<1> QED
  BY <1>2, <1>3, <1>4, <1>5

LEMMA FrontMaps == BufferInv /\ (Prepend \/ PrependInt) => Abstract!PushFront
<1> SUFFICES ASSUME BufferInv, Prepend \/ PrependInt
             PROVE  Abstract!PushFront
  OBVIOUS
<1>1. CASE Prepend
  BY <1>1, PushesFront DEF Prepend
<1>2. CASE PrependInt
  <2>1. PICK w \in Widths :
          \E x \in Fitting(w) : PrependBytes(Network(x, w), x)
    BY <1>2 DEF PrependInt
  <2> PICK x \in Fitting(w) : PrependBytes(Network(x, w), x)
    BY <2>1
  <2>2. Network(x, w) \in Run /\ x \in {0, Abstract!Number(Network(x, w))}
    BY NetworkRun
  <2> QED
    BY <2>2, PushesFront
<1> QED
  BY <1>1, <1>2

LEMMA BackMaps ==
  BufferInv /\ (UnwriteBytes \/ Truncate \/ Reserve \/ EnsureWritableBytes
                  \/ ToText)
    => Abstract!DropBack
<1> SUFFICES ASSUME BufferInv,
                    UnwriteBytes \/ Truncate \/ Reserve \/ EnsureWritableBytes
                      \/ ToText
             PROVE  Abstract!DropBack
  OBVIOUS
<1>1. reserved \in Nat /\ Sound(buf)
  BY DEF BufferInv
<1>2. CASE UnwriteBytes
  <2>1. PICK n \in Amount :
          n <= Length(buf) /\ Become([buf EXCEPT !.write = buf.write - n], 0)
    BY <1>2 DEF UnwriteBytes
  <2> DEFINE w == buf.write - n
             g == [buf EXCEPT !.write = w]
  <2>2. w \in Nat /\ buf.read <= w /\ w <= buf.write
    BY <1>1, <2>1, Amounts, Indices DEF Length
  <2>3. Become(g, 0)
    BY <2>1
  <2> HIDE DEF w
  <2>4. /\ Sound(g) /\ w - buf.read \in 0..Len(Content(buf))
        /\ Content(g) = SubSeq(Content(buf), 1, w - buf.read)
    BY <1>1, <2>2, ShorterSound, ShorterContent
  <2> QED
    BY <2>3, <2>4, DropsBack
<1>3. CASE Truncate
  <2>1. PICK n \in Amount : Become(Truncated(buf, n), 0)
    BY <1>3 DEF Truncate
  <2>2. Sound(Truncated(buf, n))
    BY <1>1, Amounts, TruncatedSound
  <2>3. PICK m \in 0..Len(Content(buf)) :
          Content(Truncated(buf, n)) = SubSeq(Content(buf), 1, m)
    BY <1>1, Amounts, TruncatedContent
  <2> QED
    BY <2>1, <2>2, <2>3, DropsBack
<1>4. CASE Reserve
  <2>1. PICK n \in Amount : Become(Grow(buf, n + reserved), 0)
    BY <1>4 DEF Reserve
  <2>2. n + reserved \in Nat
    BY <1>1, Amounts
  <2> QED
    BY <1>1, <2>1, <2>2, GrowSound, GrowContent, DropsNothing
<1>5. CASE EnsureWritableBytes
  BY <1>1, <1>5, Amounts, EnsureSound, EnsureContent, DropsNothing
  DEF EnsureWritableBytes
<1>6. CASE ToText
  <2> DEFINE b == Written(buf, <<0>>)
             w == b.write - 1
             g == [b EXCEPT !.write = w]
             c == Content(buf)
  <2>1. Become(g, 0)
    BY <1>6 DEF ToText
  <2>2. <<0>> \in Seq(Slot) /\ Len(<<0>>) = 1
    <3>1. 0 \in Slot
      BY Bases DEF Slot
    <3> QED
      BY <3>1
  <2>3. Sound(b) /\ b.read + 1 <= b.write /\ Content(b) = c \o <<0>>
    BY <1>1, <2>2, WrittenSound, WrittenContent
  <2> HIDE DEF b
  <2>4. w \in Nat /\ b.read <= w /\ w <= b.write
    BY <2>3, Indices
  <2>5. Sound(g) /\ Content(g) = SubSeq(Content(b), 1, w - b.read)
    BY <2>3, <2>4, ShorterSound, ShorterContent
  <2>6. c \in Seq(Slot)
    BY <1>1, ContentIs
  <2>7. Len(Content(b)) = b.write - b.read
    BY <2>3, ContentIs DEF Length
  <2> HIDE DEF c
  <2>8. Len(c \o <<0>>) = Len(c) + 1 /\ Len(c) \in Nat
    BY <2>2, <2>6, Joining
  <2>9. w - b.read = Len(c)
    BY <2>3, <2>4, <2>7, <2>8, Indices
  <2>10. SubSeq(c \o <<0>>, 1, Len(c)) = c
    BY <2>2, <2>6, <2>8
  <2>11. Content(g) = c
    BY <2>3, <2>5, <2>9, <2>10
  <2> QED
    BY <2>1, <2>5, <2>11, DropsNothing DEF c
<1> QED
  BY <1>2, <1>3, <1>4, <1>5, <1>6

LEMMA ReadingMaps ==
  BufferInv /\ (Skip \/ ReadInt \/ NextBytes \/ ReadByte)
    => Abstract!TakeFront
<1> SUFFICES ASSUME BufferInv, Skip \/ ReadInt \/ NextBytes \/ ReadByte
             PROVE  Abstract!TakeFront
  OBVIOUS
<1> DEFINE c == Content(buf)
<1>1. reserved \in Nat /\ Sound(buf)
  BY DEF BufferInv
<1>2. c \in Seq(Slot) /\ Len(c) = Length(buf) /\ Len(c) \in Nat
  BY <1>1, ContentIs
<1>3. ASSUME NEW n \in 0..Len(c)
      PROVE  SubSeq(c, 1, n) \in Seq(Nat) /\ Len(SubSeq(c, 1, n)) = n
  <2> HIDE DEF c
  <2>1. SubSeq(c, 1, n) \in Seq(Slot) /\ Len(SubSeq(c, 1, n)) = n
    BY <1>2, FirstOf
  <2> QED
    BY <2>1, SlotNumbers
<1>4. CASE Skip
  <2>1. PICK n \in Amount : Took(Skipped(buf, n), n, 0)
    BY <1>4 DEF Skip
  <2>2. Sound(Skipped(buf, n)) /\ n \in Nat
    BY <1>1, Amounts, SkippedSound
  <2>3. Skipped(buf, n).slots = buf.slots
    BY <1>1, <2>2, SkippedContent
  <2>4. PICK m \in 0..Len(c) :
          Content(Skipped(buf, n)) = SubSeq(c, m + 1, Len(c))
    BY <1>1, <2>2, SkippedContent
  <2>5. \/ /\ Skipped(buf, n).read = buf.read + n
           /\ Skipped(buf, n).write = buf.write
        \/ Content(Skipped(buf, n)) = <<>>
    BY <1>1, <2>2, SkippedKept
  <2> QED
    BY <2>1, <2>2, <2>3, <2>4, <2>5, TakesFront
<1>5. CASE ReadInt
  <2>1. PICK w \in Widths :
          Length(buf) >= w /\ Took(Skipped(buf, w), w, PeekInt(buf, w))
    BY <1>5 DEF ReadInt
  <2>2. Sound(Skipped(buf, w)) /\ w \in Nat
    BY <1>1, Amounts, SkippedSound
  <2>3. w <= Length(buf) /\ w \in 0..Len(c)
    BY <1>2, <2>1, <2>2
  <2>4. Skipped(buf, w).slots = buf.slots
    BY <1>1, <2>2, SkippedContent
  <2>5. Content(Skipped(buf, w)) = SubSeq(c, w + 1, Len(c))
    BY <1>1, <2>2, <2>3, SkippedContent
  <2>6. PeekInt(buf, w) = Abstract!Number(SubSeq(c, 1, w))
    BY <1>3, <2>3, HostNumberIs DEF PeekInt
  <2>7. \/ /\ Skipped(buf, w).read = buf.read + w
           /\ Skipped(buf, w).write = buf.write
        \/ Content(Skipped(buf, w)) = <<>>
    BY <1>1, <2>2, SkippedKept
  <2> QED
    BY <2>1, <2>2, <2>3, <2>4, <2>5, <2>6, <2>7, TakesFront
<1>6. ASSUME NEW n \in Nat, n <= Length(buf),
             NEW x, x \in {0, Abstract!Number(SubSeq(c, 1, n))},
             Took([buf EXCEPT !.read = buf.read + n], n, x)
      PROVE  Abstract!TakeFront
  <2> DEFINE g == [buf EXCEPT !.read = buf.read + n]
  <2>1. buf.read + n \in Nat /\ buf.read + n <= buf.write
    BY <1>1, <1>6, Indices DEF Length
  <2>2. Sound(g) /\ g.read = buf.read + n /\ g.write = buf.write
    BY <1>1, <2>1, MovedSound
  <2>3. /\ n \in 0..Len(c) /\ g.slots = buf.slots
        /\ Content(g) = SubSeq(c, n + 1, Len(c))
    BY <1>1, <1>6, MovedContent
  <2> QED
    BY <1>6, <2>2, <2>3, TakesFront
<1>7. CASE NextBytes
  <2>1. PICK n \in Amount :
          n <= Length(buf) /\ Took([buf EXCEPT !.read = buf.read + n], n, 0)
    BY <1>7 DEF NextBytes
  <2> QED
    BY <1>6, <2>1, Amounts
<1>8. CASE Length(buf) >= 1 /\ ReadByte
  <2>1. /\ 1 <= Length(buf) /\ Took([buf EXCEPT !.read = buf.read + 1], 1, c[1])
    BY <1>1, <1>8, Indices DEF ReadByte, Length
  <2>2. 1 \in 0..Len(c) /\ 1 \in Nat
    BY <1>2, <2>1
  <2>3. SubSeq(c, 1, 1)[1] = c[1]
    <3> HIDE DEF c
    <3> QED
      BY <1>2, <2>2, FirstOf
  <2>4. c[1] = Abstract!Number(SubSeq(c, 1, 1))
    BY <1>3, <2>2, <2>3, NumberOfOne
  <2> QED
    BY <1>6, <2>1, <2>2, <2>4
<1>9. CASE Length(buf) = 0 /\ Took(buf, 0, 0)
  <2>1. /\ 0 \in Nat /\ 0 \in 0..Len(c) /\ 0 + 1 = 1
        /\ buf.read + 0 = buf.read
    BY <1>1, <1>2, Indices
  <2>2. SubSeq(c, 0 + 1, Len(c)) = c
    <3> HIDE DEF c
    <3> QED
      BY <1>2, <2>1
  <2> QED
    BY <1>1, <1>9, <2>1, <2>2, TakesFront
<1>10. CASE ReadByte
  BY <1>8, <1>9, <1>10 DEF ReadByte
<1> QED
  BY <1>4, <1>5, <1>7, <1>10

LEMMA DequeInit == Init => Abstract!Init
<1> SUFFICES ASSUME Init PROVE Abstract!Init
  OBVIOUS
<1>1. buf.read = reserved /\ buf.write = reserved /\ value = 0 /\ back = 0
  BY DEF Init
<1>2. reserved \in Int /\ reserved - 0 = reserved
  BY BufferAssumption DEF Init, BufferAssumption
<1>3. SubSeq(buf.slots, reserved + 1, reserved) = <<>>
  BY <1>2, NoPiece
<1>4. Content(buf) = <<>>
  BY <1>1, <1>3 DEF Content
<1>5. SubSeq(buf.slots, buf.read - back + 1, buf.read) = <<>>
  BY <1>1, <1>2, <1>3
<1> QED
  BY <1>1, <1>4, <1>5, Zenon DEF Abstract!Init

LEMMA DequeNext ==
  BufferInv /\ [Next]_vars => [Abstract!Next]_(Abstract!vars)
<1> SUFFICES ASSUME BufferInv, [Next]_vars
             PROVE  Abstract!Next \/ UNCHANGED Abstract!vars
  OBVIOUS
<1>1. CASE UNCHANGED vars
  BY <1>1 DEF vars, Abstract!vars, Content
<1>2. CASE Next
  <2>1. CASE Write \/ AppendInt \/ WriteBytes \/ ReadFromFD
    BY <2>1, WritingMaps, Zenon DEF Abstract!Next
  <2>2. CASE Prepend \/ PrependInt
    BY <2>2, FrontMaps, Zenon DEF Abstract!Next
  <2>3. CASE UnwriteBytes \/ Truncate \/ Reserve \/ EnsureWritableBytes
               \/ ToText
    BY <2>3, BackMaps, Zenon DEF Abstract!Next
  <2>4. CASE Skip \/ ReadInt \/ NextBytes \/ ReadByte
    BY <2>4, ReadingMaps, Zenon DEF Abstract!Next
  <2>5. CASE \E n \in Amount : UnreadBytes(n)
    <3>1. PICK n \in Amount : UnreadBytes(n)
      BY <2>5
    <3>2. n \in Nat
      BY Amounts
    <3>3. Abstract!Unread \/ Abstract!UnreadBeyond
      BY <3>1, <3>2, UnreadMaps, UnreadBeyondMaps
    <3> QED
      BY <3>3, Zenon DEF Abstract!Next
  <2> QED
    BY <1>2, <2>1, <2>2, <2>3, <2>4, <2>5, Zenon DEF Next
<1> QED
  BY <1>1, <1>2

-----------------------------------------------------------------------------
(* Theorems.                                                               *)

\* The inductive invariant: the indices, the room in front and what of it was
\* used up or can be won back.
THEOREM BufferInvariance == Spec => []BufferInv
  BY BufferInit, BufferNext, PTL DEF Spec

(***************************************************************************)
(* No index ever leaves the array: grow's new array is large enough for    *)
(* the content, the room in front of it and the bytes asked for, since     *)
(* reserved_prepend_size_ is never more than the old capacity.             *)
(***************************************************************************)
THEOREM IndicesInBounds == Spec => []InBounds
<1>1. BufferInv => InBounds
  BY Indices DEF BufferInv, InBounds
<1> QED
  BY <1>1, BufferInvariance, PTL

\* The reserved_prepend_size_ bytes in front are there but for what was put
\* there or unread beyond the last reads: no read, reset, move or UnreadBytes
\* of bytes left in place takes them away.
THEOREM RoomAlwaysInFront == Spec => []RoomInFront
<1>1. BufferInv => RoomInFront
  BY Indices DEF BufferInv, Room, RoomInFront
<1> QED
  BY <1>1, BufferInvariance, PTL

(***************************************************************************)
(* SocketBuffer is a deque of bytes: wherever grow moves the content and   *)
(* whether a call fills the array, grows it or splits what readv() gave,   *)
(* bytes are read in the order they were put in, a number is read as the   *)
(* one that was stored, and UnreadBytes brings back the bytes read since   *)
(* the last other call in their order, as long as no read has emptied the  *)
(* buffer, and any others before them.                                     *)
(***************************************************************************)
THEOREM DequeRefinement == Spec => ImplementsByteDeque
  BY BufferInvariance, DequeInit, DequeNext, PTL
  DEF Spec, ImplementsByteDeque, Abstract!Spec
=============================================================================
