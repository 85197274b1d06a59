---------------------------- MODULE ProofLemmas ----------------------------
(***************************************************************************)
(* Facts about numbers and sequences that the proofs of several modules    *)
(* use.  Induction is stated in terms of sets, for the proofs about        *)
(* functions that are defined by recursion.                                *)
(***************************************************************************)
EXTENDS WellFoundedInduction, SequenceTheorems, TLAPS

\* A set of natural numbers has a least element.
LEMMA Least ==
  ASSUME NEW S \in SUBSET Nat, S # {}
  PROVE  \E x \in S : \A y \in S : x <= y
<1> DEFINE R == {ss \in Nat \X Nat : ss[1] < ss[2]}
<1>1. IsWellFoundedOn(R, Nat)
  BY NatLessThanWellFounded DEF OpToRel
<1> HIDE DEF R
<1>2. PICK x \in S : \A y \in S : <<y, x>> \notin R
  BY <1>1, WFMin
<1>3. x \in Nat /\ \A y \in S : y \in Nat /\ ~(y < x)
  <2> SUFFICES ASSUME NEW y \in S, y < x PROVE FALSE
    OBVIOUS
  <2>1. x \in Nat /\ y \in Nat
    OBVIOUS
  <2>2. <<y, x>> \in R
    BY <2>1 DEF R
  <2> QED
    BY <1>2, <2>2
<1> QED
  BY <1>3

\* A set that holds 0, and with each number up to m the next one, holds all of
\* them.
LEMMA InductionUpTo ==
  ASSUME NEW m \in Nat, NEW S,
         0 \in S, \A n \in 0..m : n \in S /\ n < m => n + 1 \in S
  PROVE  \A n \in 0..m : n \in S
<1> SUFFICES ASSUME (0..m) \ S # {} PROVE FALSE
  OBVIOUS
<1>1. (0..m) \ S \in SUBSET Nat
  OBVIOUS
<1>2. PICK x \in (0..m) \ S : \A y \in (0..m) \ S : x <= y
  BY <1>1, Least
<1>3. x # 0 /\ x - 1 \in 0..m /\ x - 1 < m
  BY <1>2
<1>4. x - 1 \in S
  BY <1>2, <1>3
<1>5. (x - 1) + 1 \in S
  BY <1>3, <1>4
<1> QED
  BY <1>2, <1>5

\* f is the function into V that has the value a at 0 and takes the steps G from
\* there to m.
IsRecursive(f, V, a, G, m) ==
  /\ f \in [0..m -> V] /\ f[0] = a
  /\ \A n \in 0..m : n < m => f[n + 1] = G[<<f[n], n + 1>>]

\* There is such a function.
LEMMA RecursiveFcn ==
  ASSUME NEW V, NEW a \in V, NEW m \in Nat, NEW G \in [V \X (1..m) -> V]
  PROVE  \E f : IsRecursive(f, V, a, G, m)
<1> DEFINE Is(f, k) == IsRecursive(f, V, a, G, k)
           S == {k \in 0..m : \E f : Is(f, k)}
<1>1. 0 \in S
  <2> DEFINE f == [n \in 0..0 |-> a]
  <2>1. f \in [0..0 -> V] /\ f[0] = a /\ \A n \in 0..0 : ~(n < 0)
    OBVIOUS
  <2> HIDE DEF f
  <2>2. Is(f, 0)
    BY <2>1 DEF IsRecursive
  <2> QED
    BY <2>2
<1>2. ASSUME NEW k \in 0..m, k \in S, k < m PROVE k + 1 \in S
  <2>1. PICK f : Is(f, k)
    BY <1>2
  <2> DEFINE v == G[<<f[k], k + 1>>]
             g == [n \in 0..(k + 1) |-> IF n = k + 1 THEN v ELSE f[n]]
  <2> USE DEF IsRecursive
  <2>2. k \in Nat /\ k \in 0..k /\ k + 1 \in 1..m /\ k + 1 \in 0..m
    BY <1>2
  <2>3. v \in V
    <3>1. <<f[k], k + 1>> \in V \X (1..m)
      BY <2>1, <2>2
    <3> QED
      BY <3>1
  <2>4. ASSUME NEW n \in 0..(k + 1), n < k + 1
        PROVE  g[n + 1] = G[<<g[n], n + 1>>]
    <3>1. n \in 0..k /\ n + 1 \in 0..(k + 1) /\ g[n] = f[n]
      BY <2>2, <2>4
    <3>2. CASE n = k
      BY <3>1, <3>2
    <3>3. CASE n < k
      <4>1. f[n + 1] = G[<<f[n], n + 1>>]
        BY <2>1, <3>1, <3>3
      <4>2. g[n + 1] = f[n + 1]
        BY <2>2, <3>1, <3>3
      <4> QED
        BY <3>1, <4>1, <4>2
    <3>4. n = k \/ n < k
      BY <2>2, <3>1
    <3> QED
      BY <3>2, <3>3, <3>4, Zenon
  <2> HIDE DEF v
  <2>5. g \in [0..(k + 1) -> V] /\ g[0] = a
    BY <2>1, <2>2, <2>3
  <2> HIDE DEF g
  <2>6. Is(g, k + 1)
    BY <2>4, <2>5, Zenon
  <2> QED
    BY <2>2, <2>6
<1> HIDE DEF S
<1>3. \A k \in 0..m : k \in S
  BY <1>1, <1>2, InductionUpTo
<1>4. m \in S
  BY <1>3
<1> QED
  BY <1>4 DEF S

\* A function is that one if it takes a step of G wherever its value is in V.
LEMMA RecursiveFrom ==
  ASSUME NEW V, NEW a \in V, NEW m \in Nat, NEW G \in [V \X (1..m) -> V],
         NEW f, f = [n \in 0..m |-> f[n]], f[0] = a,
         \A n \in 0..m : n < m /\ f[n] \in V => f[n + 1] = G[<<f[n], n + 1>>]
  PROVE  IsRecursive(f, V, a, G, m)
<1> DEFINE S == {n \in 0..m : f[n] \in V}
<1>1. 0 \in S
  OBVIOUS
<1>2. ASSUME NEW n \in 0..m, n \in S, n < m PROVE n + 1 \in S
  <2>1. f[n] \in V /\ n + 1 \in 1..m /\ n + 1 \in 0..m
    BY <1>2
  <2>2. f[n + 1] = G[<<f[n], n + 1>>]
    BY <1>2, <2>1
  <2>3. <<f[n], n + 1>> \in V \X (1..m)
    BY <2>1
  <2> QED
    BY <2>1, <2>2, <2>3
<1> HIDE DEF S
<1>3. \A n \in 0..m : n \in S
  BY <1>1, <1>2, InductionUpTo
<1>4. \A n \in 0..m : f[n] \in V
  BY <1>3 DEF S
<1>5. f \in [0..m -> V]
  BY <1>4
<1> QED
  BY <1>4, <1>5, Zenon DEF IsRecursive

\* There is only one.
LEMMA RecursiveSame ==
  ASSUME NEW V, NEW a \in V, NEW m \in Nat, NEW G,
         NEW f, IsRecursive(f, V, a, G, m), NEW g, IsRecursive(g, V, a, G, m)
  PROVE  f = g
<1> DEFINE S == {n \in 0..m : f[n] = g[n]}
<1>1. 0 \in S
  BY DEF IsRecursive
<1>2. ASSUME NEW n \in 0..m, n \in S, n < m PROVE n + 1 \in S
  <2>1. f[n] = g[n] /\ n + 1 \in 0..m
    BY <1>2
  <2>2. f[n + 1] = G[<<f[n], n + 1>>] /\ g[n + 1] = G[<<g[n], n + 1>>]
    BY <1>2, Zenon DEF IsRecursive
  <2> QED
    BY <2>1, <2>2
<1> HIDE DEF S
<1>3. \A n \in 0..m : n \in S
  BY <1>1, <1>2, InductionUpTo
<1>4. \A n \in 0..m : f[n] = g[n]
  BY <1>3 DEF S
<1> QED
  BY <1>4 DEF IsRecursive

-----------------------------------------------------------------------------
(* Facts about remainders, for a modulus n.                                *)

\* Division with remainder.
LEMMA Division ==
  ASSUME NEW n \in Nat \ {0}, NEW x \in Int
  PROVE  /\ x \div n \in Int
         /\ x % n \in 0 .. n - 1
         /\ x = n * (x \div n) + (x % n)
  OBVIOUS

\* The remainder is the only one in 0 .. n - 1.
LEMMA RemainderUnique ==
  ASSUME NEW n \in Nat \ {0}, NEW x \in Int, NEW q \in Int,
         NEW r \in 0 .. n - 1, x = n * q + r
  PROVE  x % n = r
<1> DEFINE d == x \div n
<1> DEFINE m == x % n
<1>1. d \in Int /\ m \in 0 .. n - 1 /\ x = n * d + m
  BY Division
<1> HIDE DEF d, m
<1>2. n * (d - q) = r - m
  BY <1>1
<1>3. d = q
  BY <1>1, <1>2
<1> QED
  BY <1>1, <1>3 DEF m

\* The difference of two counters modulo n.
LEMMA CyclicDifference ==
  ASSUME NEW n \in Nat \ {0}, NEW a \in 0 .. n - 1, NEW b \in 0 .. n - 1
  PROVE  (a - b) % n = IF a >= b THEN a - b ELSE a - b + n
  OBVIOUS

\* A sum of a counter and a length of at most n wraps at most once.
LEMMA CyclicSum ==
  ASSUME NEW n \in Nat \ {0}, NEW a \in 0 .. n - 1, NEW k \in 0 .. n
  PROVE  (a + k) % n = IF a + k < n THEN a + k ELSE a + k - n
  OBVIOUS

\* Two numbers that differ by a multiple of n have the same remainder.
LEMMA RemainderShift ==
  ASSUME NEW n \in Nat \ {0}, NEW x \in Int, NEW q \in Int
  PROVE  (x + n * q) % n = x % n
<1> DEFINE d == x \div n
<1> DEFINE m == x % n
<1>1. d \in Int /\ m \in 0 .. n - 1 /\ x = n * d + m
  BY Division
<1> HIDE DEF d, m
<1>2. n * (d + q) = n * d + n * q
  BY <1>1
<1>3. x + n * q = n * (d + q) + m
  BY <1>1, <1>2
<1>4. (x + n * q) % n = m
  BY <1>1, <1>3, RemainderUnique
<1> QED
  BY <1>4 DEF m

-----------------------------------------------------------------------------
(* Pieces of sequences.                                                    *)

\* What follows the first n elements.
LEMMA Rest ==
  ASSUME NEW S, NEW s \in Seq(S), NEW n \in 0..Len(s)
  PROVE  /\ SubSeq(s, n + 1, Len(s)) \in Seq(S)
         /\ Len(SubSeq(s, n + 1, Len(s))) = Len(s) - n
         /\ \A k \in 1..(Len(s) - n) :
              SubSeq(s, n + 1, Len(s))[k] = s[n + k]
<1> DEFINE a == n + 1
           m == Len(s)
<1>1. a \in Int /\ m \in Int /\ \A i \in a..m : s[i] \in S
  OBVIOUS
<1>2. m - a + 1 = Len(s) - n /\ m - a + 1 >= 0 /\ \A k \in Int : a + k - 1 = n + k
  OBVIOUS
<1> HIDE DEF a, m
<1>3. /\ SubSeq(s, a, m) \in Seq(S)
      /\ Len(SubSeq(s, a, m)) = IF a <= m THEN m - a + 1 ELSE 0
      /\ \A k \in 1..(m - a + 1) : SubSeq(s, a, m)[k] = s[a + k - 1]
  BY <1>1, SubSeqProperties
<1>4. Len(SubSeq(s, a, m)) = m - a + 1
  BY <1>1, <1>2, <1>3
<1>5. \A k \in 1..(m - a + 1) : SubSeq(s, a, m)[k] = s[n + k]
  BY <1>2, <1>3
<1>6. \A k \in 1..(Len(s) - n) : SubSeq(s, a, m)[k] = s[n + k]
  BY <1>2, <1>5, Zenon
<1> QED
  BY <1>2, <1>3, <1>4, <1>6, Zenon DEF a, m

\* The first n elements.
LEMMA FirstOf ==
  ASSUME NEW S, NEW s \in Seq(S), NEW n \in 0..Len(s)
  PROVE  /\ SubSeq(s, 1, n) \in Seq(S)
         /\ Len(SubSeq(s, 1, n)) = n
         /\ \A k \in 1..n : SubSeq(s, 1, n)[k] = s[k]
<1>1. n \in Int /\ \A i \in 1..n : s[i] \in S
  OBVIOUS
<1>2. /\ SubSeq(s, 1, n) \in Seq(S)
      /\ Len(SubSeq(s, 1, n)) = IF 1 <= n THEN n - 1 + 1 ELSE 0
      /\ \A k \in 1..(n - 1 + 1) : SubSeq(s, 1, n)[k] = s[1 + k - 1]
  BY <1>1, SubSeqProperties
<1> QED
  BY <1>1, <1>2

\* A sequence without its element i.
LEMMA Without ==
  ASSUME NEW S, NEW w \in Seq(S), NEW i \in 1..Len(w), NEW v,
         v = SubSeq(w, 1, i - 1) \o SubSeq(w, i + 1, Len(w))
  PROVE  /\ v \in Seq(S) /\ Len(v) = Len(w) - 1
         /\ \A k \in 1..(Len(w) - 1) : v[k] = IF k < i THEN w[k] ELSE w[k + 1]
<1> DEFINE a == SubSeq(w, 1, i - 1)
           b == SubSeq(w, i + 1, Len(w))
           n == Len(w)
<1>1. i \in 0..Len(w) /\ i - 1 \in 0..Len(w) /\ n \in Nat /\ i \in 1..n
  OBVIOUS
<1>2. a \in Seq(S) /\ Len(a) = i - 1 /\ \A k \in 1..(i - 1) : a[k] = w[k]
  BY <1>1, FirstOf
<1>3. /\ b \in Seq(S) /\ Len(b) = n - i
      /\ \A k \in 1..(n - i) : b[k] = w[i + k]
  BY <1>1, Rest
<1> HIDE DEF a, b, n
<1>4. /\ a \o b \in Seq(S) /\ Len(a \o b) = n - 1
      /\ \A k \in 1..(n - 1) :
           (a \o b)[k] = IF k <= i - 1 THEN a[k] ELSE b[k - (i - 1)]
  <2>1. /\ a \o b \in Seq(S) /\ Len(a \o b) = Len(a) + Len(b)
        /\ \A k \in 1..(Len(a) + Len(b)) :
             (a \o b)[k] = IF k <= Len(a) THEN a[k] ELSE b[k - Len(a)]
    BY <1>2, <1>3, ConcatProperties
  <2>2. Len(a) + Len(b) = n - 1
    BY <1>1, <1>2, <1>3
  <2> QED
    BY <1>2, <2>1, <2>2, Zenon
<1>5. ASSUME NEW k \in 1..(n - 1)
      PROVE  (a \o b)[k] = IF k < i THEN w[k] ELSE w[k + 1]
  <2>1. CASE k < i
    BY <1>1, <1>2, <1>4, <2>1
  <2>2. CASE k >= i
    <3> DEFINE j == k - (i - 1)
    <3>1. j \in 1..(n - i) /\ i + j = k + 1
      BY <1>1, <2>2
    <3>2. (a \o b)[k] = b[j]
      BY <1>1, <1>4, <2>2
    <3> HIDE DEF j
    <3>3. b[j] = w[k + 1]
      BY <1>3, <3>1
    <3>4. ~(k < i)
      BY <1>1, <2>2
    <3> QED
      BY <3>2, <3>3, <3>4
  <2>3. k < i \/ k >= i
    BY <1>1
  <2> QED
    BY <2>1, <2>2, <2>3, Zenon
<1> QED
  BY <1>4, <1>5, Zenon DEF a, b, n

LEMMA IsWithout ==
  ASSUME NEW S, NEW w \in Seq(S), NEW i \in 1..Len(w), NEW c \in Seq(S),
         Len(c) = Len(w) - 1,
         \A k \in 1..(Len(w) - 1) : c[k] = IF k < i THEN w[k] ELSE w[k + 1]
  PROVE  c = SubSeq(w, 1, i - 1) \o SubSeq(w, i + 1, Len(w))
<1> DEFINE v == SubSeq(w, 1, i - 1) \o SubSeq(w, i + 1, Len(w))
<1>1. v = SubSeq(w, 1, i - 1) \o SubSeq(w, i + 1, Len(w))
  OBVIOUS
<1> HIDE DEF v
<1>2. /\ v \in Seq(S) /\ Len(v) = Len(w) - 1
      /\ \A k \in 1..(Len(w) - 1) : v[k] = IF k < i THEN w[k] ELSE w[k + 1]
  BY <1>1, Without, ZenonT(60)
<1>3. \A k \in 1..Len(c) : c[k] = v[k]
  BY <1>2
<1>4. c = v
  BY <1>2, <1>3, SeqEqual
<1> QED
  BY <1>1, <1>4

\* Three sequences one after the other, and a sequence without one element.
Joined(s, t, u) == (s \o t) \o u

WithoutAt(w, i) == SubSeq(w, 1, i - 1) \o SubSeq(w, i + 1, Len(w))

\* Without its first element a middle piece leaves a gap of one.
LEMMA RemoveMiddle ==
  ASSUME NEW S, NEW s \in Seq(S), NEW t \in Seq(S), NEW u \in Seq(S), t # <<>>
  PROVE  /\ Len(s) + 1 \in 1..Len(Joined(s, t, u))
         /\ Joined(s, t, u)[Len(s) + 1] = Head(t)
         /\ Joined(s, Tail(t), u) = WithoutAt(Joined(s, t, u), Len(s) + 1)
<1> DEFINE w == Joined(s, t, u)
           i == Len(s) + 1
           c == Joined(s, Tail(t), u)
<1>1. /\ w \in Seq(S) /\ Len(w) = Len(s) + Len(t) + Len(u)
      /\ Len(s) \in Nat /\ Len(u) \in Nat /\ Len(t) \in Nat /\ Len(t) > 0
  BY DEF Joined
<1>2. i \in 1..Len(w) /\ w[i] = Head(t)
  BY <1>1 DEF Joined
<1>3. c \in Seq(S) /\ Len(c) = Len(w) - 1
  BY <1>1 DEF Joined
<1>4. \A k \in 1..(Len(w) - 1) : c[k] = IF k < i THEN w[k] ELSE w[k + 1]
  BY <1>1 DEF Joined
<1> HIDE DEF c, w, i
<1>5. c = SubSeq(w, 1, i - 1) \o SubSeq(w, i + 1, Len(w))
  BY <1>1, <1>2, <1>3, <1>4, IsWithout, Zenon
<1>6. c = WithoutAt(w, i)
  BY <1>5, Zenon DEF WithoutAt
<1> QED
  BY <1>2, <1>6, Zenon DEF c, w, i

\* One sequence after another.
LEMMA Joining ==
  ASSUME NEW S, NEW s \in Seq(S), NEW t \in Seq(S)
  PROVE  /\ s \o t \in Seq(S) /\ Len(s \o t) = Len(s) + Len(t)
         /\ \A k \in 1..Len(s) : (s \o t)[k] = s[k]
         /\ \A k \in 1..Len(t) : (s \o t)[Len(s) + k] = t[k]
  OBVIOUS

\* Elements that move from the front of a sequence to the end of the one before
\* it leave the two, one after the other, as they were.
LEMMA MovePiece ==
  ASSUME NEW S, NEW s \in Seq(S), NEW t \in Seq(S),
         NEW d \in 0..Len(s), NEW n \in 0..Len(t)
  PROVE  SubSeq(s \o SubSeq(t, 1, n), d + 1, Len(s \o SubSeq(t, 1, n)))
           \o SubSeq(t, n + 1, Len(t))
         = SubSeq(s, d + 1, Len(s)) \o t
<1> DEFINE a == SubSeq(t, 1, n)
           b == SubSeq(t, n + 1, Len(t))
           sa == s \o a
           u == SubSeq(sa, d + 1, Len(sa))
           v == SubSeq(s, d + 1, Len(s))
<1>1. Len(s) \in Nat /\ Len(t) \in Nat /\ d \in Nat /\ n \in Nat /\ n <= Len(t)
      /\ d <= Len(s)
  OBVIOUS
<1>2. a \in Seq(S) /\ Len(a) = n /\ \A k \in 1..n : a[k] = t[k]
  BY FirstOf
<1>3. b \in Seq(S) /\ Len(b) = Len(t) - n /\ \A k \in 1..(Len(t) - n) : b[k] = t[n + k]
  BY Rest
<1>4. v \in Seq(S) /\ Len(v) = Len(s) - d /\ \A k \in 1..(Len(s) - d) : v[k] = s[d + k]
  BY Rest
<1> HIDE DEF a, b, v
<1>5. /\ sa \in Seq(S) /\ Len(sa) = Len(s) + n /\ d \in 0..Len(sa)
      /\ \A k \in 1..Len(s) : sa[k] = s[k]
      /\ \A k \in 1..n : sa[Len(s) + k] = a[k]
  BY <1>1, <1>2
<1> HIDE DEF sa
<1>6. /\ u \in Seq(S) /\ Len(u) = Len(sa) - d
      /\ \A k \in 1..(Len(sa) - d) : u[k] = sa[d + k]
  BY <1>5, Rest
<1> HIDE DEF u
<1>7. /\ u \o b \in Seq(S) /\ v \o t \in Seq(S)
      /\ Len(u \o b) = Len(s) - d + Len(t) /\ Len(v \o t) = Len(s) - d + Len(t)
  <2>1. /\ u \o b \in Seq(S) /\ v \o t \in Seq(S)
        /\ Len(u \o b) = Len(u) + Len(b) /\ Len(v \o t) = Len(v) + Len(t)
    BY <1>3, <1>4, <1>6, Joining
  <2>2. Len(u) + Len(b) = Len(s) - d + Len(t) /\ Len(v) + Len(t) = Len(s) - d + Len(t)
        /\ Len(u) \in Nat /\ Len(b) \in Nat /\ Len(v) \in Nat
    BY <1>1, <1>3, <1>4, <1>5, <1>6
  <2> QED
    BY <1>1, <2>1, <2>2
<1>8. \A i \in 1..Len(b) : (u \o b)[Len(u) + i] = b[i]
  <2>1. u \in Seq(S) /\ b \in Seq(S)
    BY <1>3, <1>6
  <2> QED
    BY <2>1
<1>9. \A i \in 1..Len(t) : (v \o t)[Len(v) + i] = t[i]
  <2>1. v \in Seq(S)
    BY <1>4
  <2> QED
    BY <2>1
<1>10. ASSUME NEW k \in 1..(Len(s) - d + Len(t)) PROVE (u \o b)[k] = (v \o t)[k]
  <2>1. CASE k <= Len(s) - d
    <3>1. k \in 1..(Len(s) - d) /\ k \in 1..Len(u) /\ d + k \in 1..Len(s)
          /\ k \in 1..(Len(sa) - d) /\ k \in 1..Len(v)
      BY <1>1, <1>4, <1>5, <1>6, <2>1
    <3>2. (u \o b)[k] = u[k] /\ (v \o t)[k] = v[k]
      BY <1>3, <1>4, <1>6, <3>1, SMTT(60)
    <3> QED
      BY <1>4, <1>5, <1>6, <3>1, <3>2
  <2>2. CASE k > Len(s) - d /\ k <= Len(s) - d + n
    <3> DEFINE j == k - (Len(s) - d)
    <3>1. /\ j \in 1..n /\ j \in 1..Len(t) /\ k \in 1..Len(u)
          /\ k \in 1..(Len(sa) - d) /\ d + k = Len(s) + j /\ k = Len(v) + j
      BY <1>1, <1>4, <1>5, <1>6, <2>2
    <3> HIDE DEF j
    <3>2. (u \o b)[k] = u[k]
      BY <1>3, <1>6, <3>1, SMTT(60)
    <3>3. (v \o t)[Len(v) + j] = t[j]
      BY <1>4, <3>1, SMTT(60)
    <3>4. u[k] = sa[d + k] /\ sa[Len(s) + j] = a[j] /\ a[j] = t[j]
      BY <1>2, <1>5, <1>6, <3>1
    <3> QED
      BY <3>1, <3>2, <3>3, <3>4
  <2>3. CASE k > Len(s) - d + n
    <3> DEFINE j == k - (Len(s) - d + n)
    <3>1. /\ j \in 1..(Len(t) - n) /\ j \in 1..Len(b) /\ n + j \in 1..Len(t)
          /\ k = Len(u) + j /\ k = Len(v) + (n + j)
      BY <1>1, <1>3, <1>4, <1>5, <1>6, <2>3, SMTT(60)
    <3> HIDE DEF j
    <3>2. (u \o b)[Len(u) + j] = b[j]
      BY <1>8, <3>1, Zenon
    <3>3. (v \o t)[Len(v) + (n + j)] = t[n + j]
      BY <1>9, <3>1, Zenon
    <3> QED
      BY <1>3, <3>1, <3>2, <3>3
  <2>4. \/ k <= Len(s) - d \/ (k > Len(s) - d /\ k <= Len(s) - d + n)
        \/ k > Len(s) - d + n
    BY <1>1
  <2> QED
    BY <2>1, <2>2, <2>3, <2>4, Zenon
<1>11. u \o b = v \o t
  BY <1>7, <1>10, SeqEqual
<1> QED
  BY <1>11 DEF u, sa, a, b, v

\* What follows the first n elements of two sequences, when the first has them.
LEMMA RestOfJoined ==
  ASSUME NEW S, NEW s \in Seq(S), NEW t \in Seq(S), NEW n \in 0..Len(s)
  PROVE  SubSeq(s, n + 1, Len(s)) \o t = SubSeq(s \o t, n + 1, Len(s \o t))
<1> DEFINE w == s \o t
           a == SubSeq(s, n + 1, Len(s))
           b == SubSeq(w, n + 1, Len(w))
<1>1. /\ w \in Seq(S) /\ Len(w) = Len(s) + Len(t) /\ n \in 0..Len(w)
      /\ Len(s) \in Nat /\ Len(t) \in Nat /\ n \in Nat /\ n <= Len(s)
      /\ \A k \in 1..Len(s) : w[k] = s[k]
      /\ \A k \in 1..Len(t) : w[Len(s) + k] = t[k]
  OBVIOUS
<1> HIDE DEF w
<1>2. /\ a \in Seq(S) /\ Len(a) = Len(s) - n
      /\ \A k \in 1..(Len(s) - n) : a[k] = s[n + k]
  BY Rest
<1>3. /\ b \in Seq(S) /\ Len(b) = Len(w) - n
      /\ \A k \in 1..(Len(w) - n) : b[k] = w[n + k]
  BY <1>1, Rest
<1> HIDE DEF a, b
<1>4. a \o t \in Seq(S) /\ Len(a \o t) = Len(b) /\ Len(b) = Len(s) - n + Len(t)
  <2>1. a \o t \in Seq(S) /\ Len(a \o t) = Len(a) + Len(t)
    BY <1>2, Joining, Zenon
  <2>2. Len(a) + Len(t) = Len(b) /\ Len(b) = Len(s) - n + Len(t)
    BY <1>1, <1>2, <1>3
  <2> QED
    BY <2>1, <2>2
<1>5. \A i \in 1..Len(t) : (a \o t)[Len(a) + i] = t[i]
  <2>1. a \in Seq(S)
    BY <1>2
  <2> QED
    BY <2>1
<1>6. ASSUME NEW k \in 1..(Len(s) - n + Len(t)) PROVE (a \o t)[k] = b[k]
  <2>0. k \in 1..(Len(w) - n)
    BY <1>1
  <2>1. CASE k <= Len(s) - n
    <3>1. k \in 1..(Len(s) - n) /\ k \in 1..Len(a) /\ n + k \in 1..Len(s)
      BY <1>1, <1>2, <2>1
    <3>2. (a \o t)[k] = a[k]
      BY <1>2, <3>1, Joining, SMTT(60)
    <3> QED
      BY <1>1, <1>2, <1>3, <2>0, <3>1, <3>2
  <2>2. CASE k > Len(s) - n
    <3> DEFINE j == k - (Len(s) - n)
    <3>1. j \in 1..Len(t) /\ k = Len(a) + j /\ n + k = Len(s) + j
      BY <1>1, <1>2, <2>2
    <3> HIDE DEF j
    <3>2. (a \o t)[Len(a) + j] = t[j]
      BY <1>5, <3>1, Zenon
    <3>3. b[k] = w[n + k] /\ w[Len(s) + j] = t[j]
      BY <1>1, <1>3, <2>0, <3>1
    <3> QED
      BY <3>1, <3>2, <3>3
  <2>3. k <= Len(s) - n \/ k > Len(s) - n
    BY <1>1
  <2> QED
    BY <2>1, <2>2, <2>3, Zenon
<1>7. a \o t = b
  BY <1>3, <1>4, <1>6, SeqEqual
<1> QED
  BY <1>7 DEF a, b, w

-----------------------------------------------------------------------------
(* Pieces of sequences.                                                    *)

\* The elements of s after the i-th, up to the j-th.
Piece(s, i, j) == SubSeq(s, i + 1, j)

LEMMA PieceIs ==
  ASSUME NEW S, NEW s \in Seq(S), NEW j \in 0..Len(s), NEW i \in 0..j
  PROVE  /\ Piece(s, i, j) \in Seq(S) /\ Len(Piece(s, i, j)) = j - i
         /\ \A k \in 1..(j - i) : Piece(s, i, j)[k] = s[i + k]
<1> DEFINE a == i + 1
<1>1. /\ a \in Int /\ a = i + 1 /\ i \in Int /\ j \in Int
      /\ \A k \in a..j : s[k] \in S
  OBVIOUS
<1> HIDE DEF a
<1>2. /\ SubSeq(s, a, j) \in Seq(S)
      /\ Len(SubSeq(s, a, j)) = IF a <= j THEN j - a + 1 ELSE 0
      /\ \A k \in 1..(j - a + 1) : SubSeq(s, a, j)[k] = s[a + k - 1]
  BY <1>1, SubSeqProperties
<1>3. Piece(s, i, j) = SubSeq(s, a, j)
  BY <1>1 DEF Piece
<1>4. j - a + 1 = j - i /\ (IF a <= j THEN j - a + 1 ELSE 0) = j - i
  BY <1>1
<1>5. \A k \in 1..(j - i) : a + k - 1 = i + k
  BY <1>1
<1> QED
  BY <1>2, <1>3, <1>4, <1>5

\* A sequence with the elements of a piece is that piece.
LEMMA IsPiece ==
  ASSUME NEW S, NEW s \in Seq(S), NEW j \in 0..Len(s), NEW i \in 0..j,
         NEW t \in Seq(S), Len(t) = j - i, \A k \in 1..(j - i) : t[k] = s[i + k]
  PROVE  t = Piece(s, i, j)
<1>1. /\ Piece(s, i, j) \in Seq(S) /\ Len(Piece(s, i, j)) = j - i
      /\ \A k \in 1..(j - i) : Piece(s, i, j)[k] = s[i + k]
  BY PieceIs
<1> DEFINE p == Piece(s, i, j)
<1> HIDE DEF p
<1>2. p \in Seq(S) /\ Len(p) = Len(t) /\ \A k \in 1..Len(t) : p[k] = t[k]
  BY <1>1 DEF p
<1>3. p = t
  BY <1>2, SeqEqual
<1> QED
  BY <1>3 DEF p

\* A piece and the one after it make one.
LEMMA JoinPieces ==
  ASSUME NEW S, NEW s \in Seq(S), NEW k \in 0..Len(s), NEW j \in 0..k,
         NEW i \in 0..j
  PROVE  Piece(s, i, j) \o Piece(s, j, k) = Piece(s, i, k)
<1> DEFINE p == Piece(s, i, j)
           q == Piece(s, j, k)
<1>0. j \in 0..Len(s) /\ i \in 0..k
  OBVIOUS
<1>1. p \in Seq(S) /\ Len(p) = j - i /\ \A n \in 1..(j - i) : p[n] = s[i + n]
  BY <1>0, PieceIs
<1>2. q \in Seq(S) /\ Len(q) = k - j /\ \A n \in 1..(k - j) : q[n] = s[j + n]
  BY PieceIs
<1> HIDE DEF p, q
<1>3. /\ p \o q \in Seq(S) /\ Len(p \o q) = Len(p) + Len(q)
      /\ \A n \in 1..Len(p) : (p \o q)[n] = p[n]
      /\ \A n \in 1..Len(q) : (p \o q)[Len(p) + n] = q[n]
  <2>1. p \in Seq(S) /\ q \in Seq(S)
    BY <1>1, <1>2
  <2> QED
    BY <2>1, SMTT(60)
<1> DEFINE r == p \o q
<1> HIDE DEF r
<1>4. Len(r) = k - i
  BY <1>1, <1>2, <1>3 DEF r
<1>5. ASSUME NEW n \in 1..(k - i) PROVE r[n] = s[i + n]
  <2>1. CASE n <= j - i
    <3>1. n \in 1..Len(p) /\ n \in 1..(j - i)
      BY <1>1, <2>1
    <3> QED
      BY <1>1, <1>3, <3>1, Zenon DEF r
  <2>2. CASE n > j - i
    <3> DEFINE d == n - (j - i)
    <3>1. /\ d \in 1..Len(q) /\ d \in 1..(k - j) /\ Len(p) + d = n
          /\ j + d = i + n
      BY <1>1, <1>2, <2>2
    <3> HIDE DEF d
    <3>2. r[Len(p) + d] = q[d] /\ q[d] = s[j + d]
      BY <1>2, <1>3, <3>1, Zenon DEF r
    <3> QED
      BY <3>1, <3>2
  <2> QED
    BY <2>1, <2>2
<1>6. r \in Seq(S)
  BY <1>3 DEF r
<1>7. r = Piece(s, i, k)
  BY <1>0, <1>4, <1>5, <1>6, IsPiece
<1> QED
  BY <1>7 DEF r, p, q

\* A piece of a piece.
LEMMA PieceOfPiece ==
  ASSUME NEW S, NEW s \in Seq(S), NEW j \in 0..Len(s), NEW i \in 0..j,
         NEW v \in 0..(j - i), NEW u \in 0..v
  PROVE  Piece(Piece(s, i, j), u, v) = Piece(s, i + u, i + v)
<1> DEFINE p == Piece(s, i, j)
<1>1. p \in Seq(S) /\ Len(p) = j - i /\ \A n \in 1..(j - i) : p[n] = s[i + n]
  BY PieceIs
<1> HIDE DEF p
<1>2. /\ v \in 0..Len(p) /\ i + v \in 0..Len(s) /\ i + u \in 0..(i + v)
      /\ v - u = (i + v) - (i + u)
  BY <1>1
<1>3. ASSUME NEW k \in 1..((i + v) - (i + u)) PROVE p[u + k] = s[(i + u) + k]
  <2>1. u + k \in 1..(j - i) /\ i + (u + k) = (i + u) + k
    BY <1>3
  <2> QED
    BY <1>1, <2>1
<1> DEFINE x == i + u
           y == i + v
<1> HIDE DEF x, y
<1>4. /\ y \in 0..Len(s) /\ x \in 0..y /\ v - u = y - x
      /\ \A k \in 1..(y - x) : p[u + k] = s[x + k]
  BY <1>2, <1>3 DEF x, y
<1>5. p \in Seq(S) /\ v \in 0..Len(p)
  BY <1>1, <1>2
<1> DEFINE q == Piece(p, u, v)
<1>6. q \in Seq(S) /\ Len(q) = v - u /\ \A k \in 1..(v - u) : q[k] = p[u + k]
  BY <1>5, PieceIs
<1> HIDE DEF q
<1>7. Len(q) = y - x /\ \A k \in 1..(y - x) : q[k] = s[x + k]
  BY <1>4, <1>6
<1>8. q = Piece(s, x, y)
  BY <1>4, <1>6, <1>7, IsPiece
<1> QED
  BY <1>8 DEF p, q, x, y

=============================================================================
