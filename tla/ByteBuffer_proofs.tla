-------------------------- MODULE ByteBuffer_proofs --------------------------
(***************************************************************************)
(* Proofs about ByteBuffer, for every size of the ring, every base of the  *)
(* VarInts and every width of the integers: the positions stay in order    *)
(* around the ring, what is written as a VarInt reads back, and the ring   *)
(* implements the queue of ByteFifo.                                       *)
(***************************************************************************)
EXTENDS ByteBuffer, SequenceTheorems, FiniteSetTheorems, NaturalsInduction,
        WellFoundedInduction, TLAPS

-----------------------------------------------------------------------------
(***************************************************************************)
(* Recursion.                                                              *)
(***************************************************************************)
\* A set of naturals that is not empty has a least one.
LEMMA Least ==
  ASSUME NEW T \in SUBSET Nat, T # {}
  PROVE  \E m \in T : \A k \in T : m <= k
<1> DEFINE R == OpToRel(<, Nat)
<1>1. PICK x \in T : \A y \in T : <<y, x>> \notin R
  <2>1. IsWellFoundedOn(R, Nat)
    BY NatLessThanWellFounded, Zenon
  <2> HIDE DEF R
  <2> QED BY <2>1, WFMin
<1>2. \A y \in T : ~(y < x)
  BY <1>1 DEF OpToRel
<1> QED BY <1>2

\* Induction, for a property given as the set of the numbers that have it.
LEMMA Induction ==
  ASSUME NEW T \in SUBSET Nat, 0 \in T, \A k \in T : k + 1 \in T
  PROVE  T = Nat
<1> SUFFICES ASSUME Nat \ T # {} PROVE FALSE
  OBVIOUS
<1>1. PICK m \in Nat \ T : \A k \in Nat \ T : m <= k
  <2> DEFINE U == Nat \ T
  <2>1. U \in SUBSET Nat /\ U # {}
    OBVIOUS
  <2> HIDE DEF U
  <2>2. \E m \in U : \A k \in U : m <= k
    BY <2>1, Least
  <2> QED BY <2>2 DEF U
<1>2. m # 0 /\ m - 1 \in Nat
  OBVIOUS
<1>3. m - 1 \in T
  BY <1>1, <1>2
<1> QED BY <1>2, <1>3

\* What one step of a recursion makes of a function that has the earlier values.
Turn(x, h, base, b, g, d) == IF x \in base THEN b[x] ELSE g[<<x, h[d[x]]>>]

\* Every argument outside of the base refers to one of smaller measure.
Descends(X, S, base, b, g, d, m) ==
  /\ b \in [X -> S] /\ g \in [X \X S -> S] /\ m \in [X -> Nat]
  /\ \A x \in X \ base : d[x] \in X /\ m[d[x]] < m[x]

\* Such a recursion has a solution.
LEMMA Recursion ==
  ASSUME NEW X, NEW S, NEW base, NEW b, NEW g, NEW d, NEW m,
         Descends(X, S, base, b, g, d, m)
  PROVE  \E f \in [X -> S] : \A x \in X : f[x] = Turn(x, f, base, b, g, d)
<1>0. /\ b \in [X -> S] /\ g \in [X \X S -> S] /\ m \in [X -> Nat]
      /\ \A x \in X \ base : d[x] \in X /\ m[d[x]] < m[x]
  BY DEF Descends
<1> USE <1>0
<1> DEFINE Low(k) == {x \in X : m[x] <= k}
           Sol(h, k) == h \in [Low(k) -> S] /\ \A x \in Low(k) : h[x] = Turn(x, h, base, b, g, d)
<1>1. \A k \in Nat : \E h : Sol(h, k)
  <2> DEFINE T == {k \in Nat : \E h : Sol(h, k)}
  <2>1. 0 \in T
    <3> DEFINE h == [x \in Low(0) |-> b[x]]
    <3>1. \A x \in Low(0) : x \in base
      OBVIOUS
    <3>2. Sol(h, 0)
      BY <3>1 DEF Turn
    <3> QED BY <3>2
  <2>2. ASSUME NEW k \in T PROVE k + 1 \in T
    <3>1. PICK h : Sol(h, k)
      BY <2>2
    <3> DEFINE n == [x \in Low(k + 1) |-> Turn(x, h, base, b, g, d)]
    <3>2. \A x \in Low(k) : x \in Low(k + 1) /\ n[x] = h[x]
      BY <3>1
    <3>3. \A x \in Low(k + 1) \ base : d[x] \in Low(k)
      OBVIOUS
    <3>4. ASSUME NEW x \in Low(k + 1)
          PROVE  n[x] = Turn(x, n, base, b, g, d) /\ n[x] \in S
      <4>1. CASE x \in base
        BY <4>1 DEF Turn
      <4>2. CASE x \notin base
        <5>1. d[x] \in Low(k) /\ n[d[x]] = h[d[x]] /\ h[d[x]] \in S
          BY <3>1, <3>2, <3>3, <4>2
        <5> QED BY <5>1, <4>2 DEF Turn
      <4> QED BY <4>1, <4>2
    <3>5. Sol(n, k + 1)
      BY <3>4
    <3> HIDE DEF n, Sol
    <3> QED BY <3>5
  <2> HIDE DEF Sol
  <2>3. T = Nat
    <3> HIDE DEF T
    <3>1. T \in SUBSET Nat
      BY DEF T
    <3> QED BY <2>1, <2>2, <3>1, Induction
  <2> QED BY <2>3
<1>2. ASSUME NEW k \in Nat, NEW l \in Nat, k <= l, NEW h, NEW i, Sol(h, k), Sol(i, l)
      PROVE  \A x \in Low(k) : h[x] = i[x]
  <2> DEFINE T == {j \in Nat : \A x \in Low(k) : m[x] <= j => h[x] = i[x]}
  <2>1. ASSUME NEW x \in Low(k), x \in base \/ h[d[x]] = i[d[x]]
        PROVE  h[x] = i[x]
    <3>1. x \in Low(l)
      BY <1>2
    <3>2. h[x] = Turn(x, h, base, b, g, d) /\ i[x] = Turn(x, i, base, b, g, d)
      BY <1>2, <3>1
    <3> QED BY <2>1, <3>2 DEF Turn
  <2>2. 0 \in T
    BY <2>1
  <2>3. ASSUME NEW j \in T PROVE j + 1 \in T
    BY <2>1, <2>3
  <2>4. T = Nat
    <3> HIDE DEF T
    <3>1. T \in SUBSET Nat
      BY DEF T
    <3> QED BY <2>2, <2>3, <3>1, Induction
  <2> QED BY <2>4
<1> DEFINE At(k) == CHOOSE h : Sol(h, k)
           f == [x \in X |-> At(m[x])[x]]
<1>3. \A k \in Nat : Sol(At(k), k)
  <2> HIDE DEF Sol
  <2> QED BY <1>1
<1>4. ASSUME NEW x \in X PROVE f[x] = Turn(x, f, base, b, g, d) /\ f[x] \in S
  <2> DEFINE h == At(m[x])
  <2>1. Sol(h, m[x]) /\ x \in Low(m[x]) /\ f[x] = h[x]
    <3>1. m[x] \in Nat /\ x \in Low(m[x])
      OBVIOUS
    <3> HIDE DEF Sol, Low
    <3> QED BY <1>3, <3>1
  <2>2. h[x] \in S /\ h[x] = Turn(x, h, base, b, g, d)
    BY <2>1
  <2>3. CASE x \in base
    BY <2>1, <2>2, <2>3 DEF Turn
  <2>4. CASE x \notin base
    <3>1. d[x] \in X /\ m[d[x]] <= m[x] /\ m[d[x]] \in Nat /\ m[x] \in Nat
      BY <2>4
    <3>2. f[d[x]] = At(m[d[x]])[d[x]] /\ d[x] \in Low(m[d[x]])
      BY <3>1
    <3> HIDE DEF h, f, At
    <3>3. At(m[d[x]])[d[x]] = h[d[x]]
      <4>1. Sol(At(m[d[x]]), m[d[x]])
        BY <1>3, <3>1
      <4> HIDE DEF Sol, Low
      <4> QED BY <1>2, <4>1, <2>1, <3>1, <3>2
    <3> QED BY <2>1, <2>2, <2>4, <3>2, <3>3 DEF Turn
  <2> QED BY <2>3, <2>4
<1> HIDE DEF At
<1>5. f \in [X -> S]
  BY <1>4
<1> HIDE DEF f
<1> QED BY <1>4, <1>5

\* Power.
LEMMA PowerFacts ==
  ASSUME NEW b \in Nat
  PROVE  /\ Power(b, 0) = 1
         /\ \A n \in Nat : Power(b, n) \in Nat /\ Power(b, n + 1) = b * Power(b, n)
<1> DEFINE p == CHOOSE p : p = [k \in Nat |-> IF k = 0 THEN 1 ELSE b * p[k - 1]]
<1>1. \A n : Power(b, n) = p[n]
  BY DEF Power
<1>2. \E f \in [Nat -> Nat] : f = [k \in Nat |-> IF k = 0 THEN 1 ELSE b * f[k - 1]]
  <2> DEFINE g == [x \in Nat \X Nat |-> b * x[2]]
             one == [x \in Nat |-> 1]
             d == [x \in Nat |-> x - 1]
             id == [x \in Nat |-> x]
  <2>1. Descends(Nat, Nat, {0}, one, g, d, id)
    BY DEF Descends
  <2>2. PICK f \in [Nat -> Nat] : \A x \in Nat : f[x] = Turn(x, f, {0}, one, g, d)
    <3> HIDE DEF g, one, d, id
    <3> QED BY <2>1, Recursion
  <2>3. \A x \in Nat : f[x] = IF x = 0 THEN 1 ELSE b * f[x - 1]
    <3> SUFFICES ASSUME NEW x \in Nat PROVE f[x] = IF x = 0 THEN 1 ELSE b * f[x - 1]
      OBVIOUS
    <3>1. x # 0 => d[x] = x - 1 /\ f[x - 1] \in Nat /\ g[<<x, f[x - 1]>>] = b * f[x - 1]
      OBVIOUS
    <3>2. one[x] = 1
      OBVIOUS
    <3> HIDE DEF g, one, d
    <3> QED BY <2>2, <3>1, <3>2 DEF Turn
  <2> QED BY <2>3
<1>3. p = [k \in Nat |-> IF k = 0 THEN 1 ELSE b * p[k - 1]]
  BY <1>2
<1>4. p[0] = 1 /\ \A n \in Nat : p[n + 1] = b * p[n]
  <2> HIDE DEF p
  <2>1. \A n \in Nat : p[n] = IF n = 0 THEN 1 ELSE b * p[n - 1]
    BY <1>3
  <2> QED BY <2>1
<1> HIDE DEF p
<1>5. \A n \in Nat : p[n] \in Nat
  <2> DEFINE T == {n \in Nat : p[n] \in Nat}
  <2>1. T \in SUBSET Nat /\ 0 \in T /\ \A n \in T : n + 1 \in T
    BY <1>4
  <2>2. T = Nat
    <3> HIDE DEF T
    <3> QED BY <2>1, Induction
  <2> QED BY <2>2
<1> QED BY <1>1, <1>4, <1>5

-----------------------------------------------------------------------------
(***************************************************************************)
(* Folds.                                                                  *)
(***************************************************************************)
\* A set of indices has a first and a last one.
LEMMA Extremes ==
  ASSUME NEW n \in Nat, NEW t \in SUBSET (1 .. n), t # {}
  PROVE  /\ Min(t) \in t /\ \A k \in t : Min(t) <= k
         /\ Max(t) \in t /\ \A k \in t : Max(t) >= k
<1>1. \E m \in t : \A k \in t : m <= k
  <2>1. t \in SUBSET Nat
    OBVIOUS
  <2> QED BY <2>1, Least
<1>2. \E m \in t : \A k \in t : m >= k
  <2> DEFINE u == {n - k : k \in t}
  <2>1. u \in SUBSET Nat /\ u # {}
    <3>1. PICK e \in t : TRUE
      OBVIOUS
    <3>2. n - e \in u
      OBVIOUS
    <3>3. \A k \in t : n - k \in Nat
      OBVIOUS
    <3> QED BY <3>2, <3>3
  <2>2. PICK l \in u : \A j \in u : l <= j
    <3> HIDE DEF u
    <3> QED BY <2>1, Least
  <2>3. PICK m \in t : l = n - m
    OBVIOUS
  <2>4. \A k \in t : n - k \in u /\ k \in Int
    OBVIOUS
  <2> HIDE DEF u
  <2>5. \A k \in t : l <= n - k
    BY <2>2, <2>4
  <2> QED BY <2>3, <2>4, <2>5
<1> QED BY <1>1, <1>2 DEF Min, Max

LEMMA Ends ==
  ASSUME NEW i \in Nat, NEW j \in Nat, 1 <= i, i <= j
  PROVE  Min(i .. j) = i /\ Max(i .. j) = j
<1> DEFINE t == i .. j
<1>1. t \in SUBSET (1 .. j) /\ t # {} /\ i \in t /\ j \in t /\ t \subseteq Int
  OBVIOUS
<1>2. \A k \in t : i <= k /\ k <= j
  OBVIOUS
<1> HIDE DEF t
<1>3. /\ Min(t) \in t /\ \A k \in t : Min(t) <= k
      /\ Max(t) \in t /\ \A k \in t : Max(t) >= k
  BY <1>1, Extremes
<1>4. Min(t) = i
  <2>1. Min(t) \in Int /\ Min(t) <= i /\ i <= Min(t)
    BY <1>1, <1>2, <1>3
  <2> QED BY <2>1
<1>5. Max(t) = j
  <2>1. Max(t) \in Int /\ Max(t) >= j /\ Max(t) <= j
    BY <1>1, <1>2, <1>3
  <2> QED BY <2>1
<1> QED BY <1>4, <1>5 DEF t

\* A fold over the indices 1..n: g is the operation and c chooses the next index.
FoldOf(n, S, a, g, c) ==
  /\ n \in Nat /\ a \in S /\ g \in [(SUBSET (1 .. n)) \X S -> S]
  /\ \A t \in SUBSET (1 .. n) : t # {} => c[t] \in t

\* What it computes, for every set of indices that are not yet done.
Table(f, n, S, a, g, c) ==
  /\ f \in [SUBSET (1 .. n) -> S]
  /\ \A t \in SUBSET (1 .. n) : f[t] = IF t = {} THEN a ELSE g[<<t, f[t \ {c[t]}]>>]

LEMMA FoldTable ==
  ASSUME NEW n, NEW S, NEW a, NEW g, NEW c, FoldOf(n, S, a, g, c)
  PROVE  \E f : Table(f, n, S, a, g, c)
<1>0. /\ n \in Nat /\ a \in S /\ g \in [(SUBSET (1 .. n)) \X S -> S]
      /\ \A t \in SUBSET (1 .. n) : t # {} => c[t] \in t
  BY DEF FoldOf
<1> USE <1>0
<1> DEFINE X == SUBSET (1 .. n)
           b == [t \in X |-> a]
           d == [t \in X |-> t \ {c[t]}]
           m == [t \in X |-> Cardinality(t)]
<1>1. Descends(X, S, {{}}, b, g, d, m)
  <2>1. \A t \in X : IsFiniteSet(t) /\ Cardinality(t) \in Nat
    <3>1. IsFiniteSet(1 .. n)
      BY FS_Interval
    <3> QED BY <3>1, FS_Subset, FS_CardinalityType
  <2>2. \A t \in X \ {{}} : d[t] \in X /\ m[d[t]] < m[t]
    <3> SUFFICES ASSUME NEW t \in X, t # {} PROVE d[t] \in X /\ m[d[t]] < m[t]
      OBVIOUS
    <3>1. d[t] = t \ {c[t]} /\ d[t] \in X
      OBVIOUS
    <3>2. Cardinality(t \ {c[t]}) = Cardinality(t) - 1
      BY <2>1, FS_RemoveElement
    <3> QED BY <2>1, <3>1, <3>2
  <2>3. m \in [X -> Nat] /\ b \in [X -> S]
    BY <2>1
  <2> HIDE DEF b, d, m
  <2> QED BY <2>2, <2>3 DEF Descends
<1>2. PICK f \in [X -> S] : \A t \in X : f[t] = Turn(t, f, {{}}, b, g, d)
  <2> HIDE DEF X, b, d, m
  <2> QED BY <1>1, Recursion
<1>3. \A t \in X : f[t] = IF t = {} THEN a ELSE g[<<t, f[t \ {c[t]}]>>]
  <2> SUFFICES ASSUME NEW t \in X PROVE f[t] = IF t = {} THEN a ELSE g[<<t, f[t \ {c[t]}]>>]
    OBVIOUS
  <2>1. b[t] = a /\ d[t] = t \ {c[t]}
    OBVIOUS
  <2>2. t \in {{}} <=> t = {}
    OBVIOUS
  <2> HIDE DEF b, d
  <2> QED BY <1>2, <2>1, <2>2 DEF Turn
<1> QED BY <1>3 DEF Table

\* FromBigEndian returns a number.
LEMMA BigEndianType ==
  ASSUME NEW s \in Seq(Nat)
  PROVE  FromBigEndian(s) \in Nat
<1> DEFINE D == 1 .. Len(s)
           Eq(f) == f = [t \in SUBSET D |-> IF t = {} THEN 0
                                             ELSE f[t \ {Max(t)}] * Radix + s[Max(t)]]
           iter == CHOOSE f : Eq(f)
<1>1. DOMAIN s = D /\ Len(s) \in Nat /\ \A i \in D : s[i] \in Nat
  OBVIOUS
<1>2. FromBigEndian(s) = iter[D]
  BY <1>1 DEF FromBigEndian, FoldLeft, MapThenFoldSet
<1>3. Radix \in Nat
  BY ByteBufferAssumption DEF Radix
<1>4. \E f \in [SUBSET D -> Nat] : Eq(f)
  <2> DEFINE c == [t \in SUBSET D |-> Max(t)]
             g == [x \in (SUBSET D) \X Nat |->
                     IF x[1] = {} THEN 0 ELSE x[2] * Radix + s[Max(x[1])]]
  <2>1. \A t \in SUBSET D : t # {} => Max(t) \in t /\ Max(t) \in D /\ s[Max(t)] \in Nat
    BY <1>1, Extremes
  <2>2. g \in [(SUBSET D) \X Nat -> Nat]
    <3> SUFFICES ASSUME NEW t \in SUBSET D, NEW v \in Nat
                 PROVE  (IF t = {} THEN 0 ELSE v * Radix + s[Max(t)]) \in Nat
      OBVIOUS
    <3> QED BY <1>3, <2>1, SMTT(60)
  <2>3. \A t \in SUBSET D : c[t] = Max(t)
    OBVIOUS
  <2>4. PICK f : Table(f, Len(s), Nat, 0, g, c)
    <3>1. FoldOf(Len(s), Nat, 0, g, c)
      <4> HIDE DEF c, g
      <4> QED BY <1>1, <2>1, <2>2, <2>3 DEF FoldOf
    <3> HIDE DEF c, g
    <3> QED BY <3>1, FoldTable
  <2>5. ASSUME NEW t \in SUBSET D
        PROVE  f[t] = IF t = {} THEN 0 ELSE f[t \ {Max(t)}] * Radix + s[Max(t)]
    <3>1. t \ {Max(t)} \in SUBSET D /\ f[t \ {Max(t)}] \in Nat
      BY <2>4 DEF Table
    <3>2. t # {} => g[<<t, f[t \ {Max(t)}]>>] = f[t \ {Max(t)}] * Radix + s[Max(t)]
      BY <3>1
    <3> HIDE DEF g, c
    <3> QED BY <2>3, <2>4, <3>2 DEF Table
  <2>6. Eq(f) /\ f \in [SUBSET D -> Nat]
    BY <2>4, <2>5 DEF Table
  <2> QED BY <2>6
<1>5. Eq(iter)
  <2> HIDE DEF Eq
  <2> QED BY <1>4
<1>6. \A t \in SUBSET D : iter[t] = IF t = {} THEN 0
                                     ELSE iter[t \ {Max(t)}] * Radix + s[Max(t)]
  BY <1>5
<1> HIDE DEF iter, Eq
<1>7. \A k \in Nat : k <= Len(s) => iter[1 .. k] \in Nat
  <2> DEFINE T == {k \in Nat : k <= Len(s) => iter[1 .. k] \in Nat}
  <2>1. 0 \in T
    <3>1. 1 .. 0 = {} /\ {} \in SUBSET D
      OBVIOUS
    <3> HIDE DEF D
    <3>2. iter[{}] = 0
      BY <1>6, <3>1
    <3> QED BY <3>1, <3>2
  <2>2. ASSUME NEW k \in T PROVE k + 1 \in T
    <3> SUFFICES ASSUME k + 1 <= Len(s) PROVE iter[1 .. k + 1] \in Nat
      OBVIOUS
    <3>1. 1 .. k + 1 \in SUBSET D /\ 1 .. k + 1 # {} /\ k + 1 \in 1 .. k + 1
      BY <1>1, SMTT(60)
    <3>2. Max(1 .. k + 1) = k + 1
      BY Ends
    <3>3. (1 .. k + 1) \ {k + 1} = 1 .. k
      OBVIOUS
    <3>4. iter[1 .. k] \in Nat
      BY <1>1, <2>2
    <3>5. iter[1 .. k + 1] = iter[1 .. k] * Radix + s[k + 1]
      <4> DEFINE t == 1 .. k + 1
      <4>1. t \in SUBSET D /\ t # {} /\ Max(t) = k + 1 /\ t \ {k + 1} = 1 .. k
        BY <3>1, <3>2, <3>3
      <4> HIDE DEF t, D
      <4>2. iter[t] = iter[t \ {Max(t)}] * Radix + s[Max(t)]
        BY <1>6, <4>1
      <4> QED BY <4>1, <4>2 DEF t
    <3>6. s[k + 1] \in Nat
      BY <1>1, <3>1
    <3>7. \A x, y \in Nat : x * Radix + y \in Nat
      BY <1>3
    <3> QED BY <3>4, <3>5, <3>6, <3>7
  <2>3. T = Nat
    <3>1. T \in SUBSET Nat
      OBVIOUS
    <3> HIDE DEF T
    <3> QED BY <2>1, <2>2, <3>1, Induction
  <2> QED BY <2>3
<1> QED BY <1>1, <1>2, <1>7

-----------------------------------------------------------------------------
(***************************************************************************)
(* VarInts.                                                                *)
(***************************************************************************)
\* Digits in base B.
LEMMA Digits ==
  ASSUME NEW v \in Nat
  PROVE  /\ v % B \in 0 .. B - 1 /\ v \div B \in Nat
         /\ v = (v \div B) * B + (v % B)
         /\ v >= B => v \div B >= 1 /\ v \div B < v
         /\ v < B => v \div B = 0 /\ v % B = v
<1>1. B \in Nat /\ B > 1
  BY ByteBufferAssumption
<1> DEFINE q == v \div B
           r == v % B
<1>2. q \in Int /\ r \in 0 .. B - 1 /\ v = q * B + r
  BY <1>1
<1> HIDE DEF q, r
<1>3. q >= 0
  <2>1. q < 0 => q * B <= -B
    BY <1>1, <1>2
  <2> QED BY <1>1, <1>2, <2>1
<1>4. v >= B => q >= 1
  <2>1. q = 0 => q * B = 0
    BY <1>1
  <2> QED BY <1>1, <1>2, <1>3, <2>1
<1>5. q >= 1 => q < v
  <2>1. q >= 1 => q * B >= 2 * q
    BY <1>1, <1>2
  <2> QED BY <1>1, <1>2, <2>1
<1>6. v < B => q = 0
  <2>1. q >= 1 => q * B >= B
    BY <1>1, <1>2
  <2> QED BY <1>1, <1>2, <1>3, <2>1
<1>7. q = 0 => r = v
  <2>1. q = 0 => q * B = 0
    BY <1>1
  <2> QED BY <1>1, <1>2, <2>1
<1>8. q \in Nat
  BY <1>2, <1>3
<1> QED BY <1>2, <1>4, <1>5, <1>6, <1>7, <1>8 DEF q, r

\* Encode is what its equation says.
LEMMA EncodeFacts ==
  /\ Encode \in [Nat -> Seq(Byte)]
  /\ \A v \in Nat : Encode[v] = IF v < B THEN <<v>> ELSE <<(v % B) + B>> \o Encode[v \div B]
<1>1. B \in Nat /\ B > 1
  BY ByteBufferAssumption
<1>2. \E f \in [Nat -> Seq(Byte)] :
        f = [v \in Nat |-> IF v < B THEN <<v>> ELSE <<(v % B) + B>> \o f[v \div B]]
  <2> DEFINE g == [x \in Nat \X Seq(Byte) |-> <<(x[1] % B) + B>> \o x[2]]
             one == [x \in Nat |-> IF x < B THEN <<x>> ELSE <<>>]
             d == [x \in Nat |-> x \div B]
             id == [x \in Nat |-> x]
             base == 0 .. B - 1
  <2>1. Descends(Nat, Seq(Byte), base, one, g, d, id)
    <3>1. one \in [Nat -> Seq(Byte)]
      <4>1. \A x \in Nat : x < B => x \in Byte
        BY <1>1 DEF Byte, Radix
      <4> QED BY <4>1
    <3>2. g \in [Nat \X Seq(Byte) -> Seq(Byte)]
      <4>1. \A x \in Nat : (x % B) + B \in Byte
        <5> SUFFICES ASSUME NEW x \in Nat PROVE (x % B) + B \in Byte
          OBVIOUS
        <5>1. x % B \in 0 .. B - 1
          BY Digits
        <5> QED BY <1>1, <5>1 DEF Byte, Radix
      <4>2. \A x \in Nat : <<(x % B) + B>> \in Seq(Byte)
        BY <4>1
      <4> QED BY <4>2
    <3>3. \A x \in Nat \ base : d[x] \in Nat /\ id[d[x]] < id[x]
      BY <1>1, Digits
    <3>4. id \in [Nat -> Nat]
      OBVIOUS
    <3> HIDE DEF one, g, d, id, base
    <3> QED BY <3>1, <3>2, <3>3, <3>4 DEF Descends
  <2>2. PICK f \in [Nat -> Seq(Byte)] : \A x \in Nat : f[x] = Turn(x, f, base, one, g, d)
    <3> DEFINE S == Seq(Byte)
    <3>1. Descends(Nat, S, base, one, g, d, id)
      BY <2>1
    <3> HIDE DEF g, one, d, id, base, S
    <3>2. \E f \in [Nat -> S] : \A x \in Nat : f[x] = Turn(x, f, base, one, g, d)
      BY <3>1, Recursion
    <3> QED BY <3>2 DEF S
  <2>3. ASSUME NEW v \in Nat
        PROVE  f[v] = IF v < B THEN <<v>> ELSE <<(v % B) + B>> \o f[v \div B]
    <3>1. d[v] = v \div B /\ v \div B \in Nat
      BY Digits
    <3>2. g[<<v, f[v \div B]>>] = <<(v % B) + B>> \o f[v \div B]
      BY <3>1
    <3>3. v < B => one[v] = <<v>>
      OBVIOUS
    <3>4. v < B <=> v \in base
      BY <1>1
    <3> HIDE DEF g, one, d, base
    <3> QED BY <2>2, <3>1, <3>2, <3>3, <3>4 DEF Turn
  <2> QED BY <2>3
<1>3. \E f : /\ f = [v \in Nat |-> IF v < B THEN <<v>> ELSE <<(v % B) + B>> \o f[v \div B]]
  BY <1>2
<1>4. Encode = [v \in Nat |-> IF v < B THEN <<v>> ELSE <<(v % B) + B>> \o Encode[v \div B]]
  BY <1>3, Zenon DEF Encode
<1>5. \A v \in Nat : Encode[v] = IF v < B THEN <<v>> ELSE <<(v % B) + B>> \o Encode[v \div B]
  BY <1>4
<1>6. Encode \in [Nat -> Seq(Byte)]
  <2> DEFINE T == {n \in Nat : \A v \in Nat : v <= n => Encode[v] \in Seq(Byte)}
  <2>0. ASSUME NEW v \in Nat, v >= B => Encode[v \div B] \in Seq(Byte)
        PROVE  Encode[v] \in Seq(Byte)
    <3>1. v % B \in 0 .. B - 1
      BY Digits
    <3>2. CASE v < B
      <4>1. v \in Byte
        BY <1>1, <3>2 DEF Byte, Radix
      <4>2. Encode[v] = <<v>>
        BY <1>5, <3>2, Zenon
      <4> QED BY <4>1, <4>2
    <3>3. CASE v >= B
      <4>1. (v % B) + B \in Byte
        BY <1>1, <3>1 DEF Byte, Radix
      <4>2. Encode[v] = <<(v % B) + B>> \o Encode[v \div B]
        <5>1. ~(v < B)
          BY <1>1, <3>3
        <5> QED BY <1>5, <5>1, Zenon
      <4> QED BY <2>0, <3>3, <4>1, <4>2
    <3> QED BY <1>1, <3>2, <3>3
  <2>1. 0 \in T
    BY <1>1, <2>0
  <2>2. ASSUME NEW n \in T PROVE n + 1 \in T
    <3> SUFFICES ASSUME NEW v \in Nat, v <= n + 1 PROVE Encode[v] \in Seq(Byte)
      OBVIOUS
    <3>1. v >= B => v \div B \in Nat /\ v \div B <= n
      BY Digits, <1>1
    <3> QED BY <2>0, <2>2, <3>1
  <2>3. T = Nat
    <3>1. T \in SUBSET Nat
      OBVIOUS
    <3> HIDE DEF T
    <3> QED BY <2>1, <2>2, <3>1, Induction
  <2>5. \A v \in Nat : Encode[v] \in Seq(Byte)
    <3> SUFFICES ASSUME NEW v \in Nat PROVE Encode[v] \in Seq(Byte)
      OBVIOUS
    <3>1. v \in T
      BY <2>3
    <3>2. v <= v
      OBVIOUS
    <3> QED BY <3>1, <3>2, Zenon
  <2>6. Encode = [v \in Nat |-> Encode[v]]
    BY <1>4
  <2> QED BY <2>5, <2>6
<1> QED BY <1>5, <1>6

\* The digits of s put together, which VarValues takes modulo the width.
Value(s) == FoldRight(LAMBDA b, v : v * B + (b % B), s, 0)

\* w[i] is what the digits from i on are worth.
Worth(w, s) ==
  /\ w[Len(s) + 1] = 0
  /\ \A i \in 1 .. Len(s) : w[i + 1] \in Nat /\ w[i] = w[i + 1] * B + (s[i] % B)

\* Value adds the digits up from the last one to the first.
LEMMA ValueFacts ==
  ASSUME NEW s \in Seq(Nat)
  PROVE  Value(s) \in Nat /\ \E w : Worth(w, s) /\ Value(s) = w[1]
<1> DEFINE D == 1 .. Len(s)
           Eq(f) == f = [t \in SUBSET D |-> IF t = {} THEN 0
                                             ELSE f[t \ {Min(t)}] * B + (s[Min(t)] % B)]
           iter == CHOOSE f : Eq(f)
<1>1. DOMAIN s = D /\ Len(s) \in Nat /\ \A i \in D : s[i] \in Nat
  OBVIOUS
<1>2. Value(s) = iter[D]
  BY <1>1 DEF Value, FoldRight, MapThenFoldSet
<1>3. B \in Nat /\ \A x \in Nat : x % B \in Nat
  BY ByteBufferAssumption, Digits
<1>4. \E f \in [SUBSET D -> Nat] : Eq(f)
  <2> DEFINE c == [t \in SUBSET D |-> Min(t)]
             g == [x \in (SUBSET D) \X Nat |->
                     IF x[1] = {} THEN 0 ELSE x[2] * B + (s[Min(x[1])] % B)]
  <2>1. \A t \in SUBSET D : t # {} => Min(t) \in t /\ Min(t) \in D /\ s[Min(t)] % B \in Nat
    BY <1>1, <1>3, Extremes
  <2>2. g \in [(SUBSET D) \X Nat -> Nat]
    <3> SUFFICES ASSUME NEW t \in SUBSET D, NEW v \in Nat
                 PROVE  (IF t = {} THEN 0 ELSE v * B + (s[Min(t)] % B)) \in Nat
      OBVIOUS
    <3>1. \A y \in Nat : v * B + y \in Nat
      BY <1>3
    <3> HIDE DEF D
    <3> QED BY <2>1, <3>1
  <2>3. \A t \in SUBSET D : c[t] = Min(t)
    OBVIOUS
  <2>4. PICK f : Table(f, Len(s), Nat, 0, g, c)
    <3>1. FoldOf(Len(s), Nat, 0, g, c)
      <4> HIDE DEF c, g
      <4> QED BY <1>1, <2>1, <2>2, <2>3 DEF FoldOf
    <3> HIDE DEF c, g
    <3> QED BY <3>1, FoldTable
  <2>5. ASSUME NEW t \in SUBSET D
        PROVE  f[t] = IF t = {} THEN 0 ELSE f[t \ {Min(t)}] * B + (s[Min(t)] % B)
    <3>1. t \ {Min(t)} \in SUBSET D /\ f[t \ {Min(t)}] \in Nat
      BY <2>4 DEF Table
    <3>2. t # {} => g[<<t, f[t \ {Min(t)}]>>] = f[t \ {Min(t)}] * B + (s[Min(t)] % B)
      BY <3>1
    <3> HIDE DEF g, c
    <3> QED BY <2>3, <2>4, <3>2 DEF Table
  <2>6. Eq(f) /\ f \in [SUBSET D -> Nat]
    BY <2>4, <2>5 DEF Table
  <2> QED BY <2>6
<1>5. Eq(iter)
  <2> HIDE DEF Eq
  <2> QED BY <1>4
<1>6. \A t \in SUBSET D : iter[t] = IF t = {} THEN 0
                                     ELSE iter[t \ {Min(t)}] * B + (s[Min(t)] % B)
  BY <1>5
<1> HIDE DEF iter, Eq
<1> DEFINE w == [i \in 1 .. Len(s) + 1 |-> iter[i .. Len(s)]]
<1>7. w[Len(s) + 1] = 0
  <2>1. Len(s) + 1 .. Len(s) = {} /\ {} \in SUBSET D
    OBVIOUS
  <2>2. iter[{}] = 0
    <3> HIDE DEF D
    <3> QED BY <1>6, <2>1
  <2> QED BY <1>1, <2>1, <2>2
<1>8. ASSUME NEW i \in 1 .. Len(s)
      PROVE  w[i] = w[i + 1] * B + (s[i] % B)
  <2> DEFINE t == i .. Len(s)
  <2>1. t \in SUBSET D /\ t # {} /\ Min(t) = i /\ t \ {i} = i + 1 .. Len(s)
    BY <1>1, Ends
  <2>2. w[i] = iter[t] /\ w[i + 1] = iter[t \ {i}]
    <3>1. i \in 1 .. Len(s) + 1 /\ i + 1 \in 1 .. Len(s) + 1
      BY <1>1
    <3>2. w[i] = iter[i .. Len(s)] /\ w[i + 1] = iter[i + 1 .. Len(s)]
      BY <3>1
    <3> HIDE DEF w
    <3> QED BY <2>1, <3>2
  <2> HIDE DEF t, D, w
  <2>3. iter[t] = iter[t \ {Min(t)}] * B + (s[Min(t)] % B)
    BY <1>6, <2>1
  <2> QED BY <2>1, <2>2, <2>3
<1>9. \A k \in Nat : k <= Len(s) => w[Len(s) + 1 - k] \in Nat
  <2> DEFINE T == {k \in Nat : k <= Len(s) => w[Len(s) + 1 - k] \in Nat}
  <2> HIDE DEF w
  <2>1. 0 \in T
    BY <1>1, <1>7
  <2>2. ASSUME NEW k \in T PROVE k + 1 \in T
    <3> SUFFICES ASSUME k + 1 <= Len(s) PROVE w[Len(s) + 1 - (k + 1)] \in Nat
      OBVIOUS
    <3> DEFINE i == Len(s) - k
    <3>0. k \in Nat /\ Len(s) \in Nat
      BY <1>1
    <3>1. i \in 1 .. Len(s) /\ i + 1 = Len(s) + 1 - k /\ i = Len(s) + 1 - (k + 1)
      BY <3>0
    <3>2. w[Len(s) + 1 - k] \in Nat
      BY <1>1, <2>2
    <3> HIDE DEF i
    <3>3. w[i + 1] \in Nat /\ s[i] % B \in Nat
      BY <1>1, <1>3, <3>1, <3>2
    <3>4. \A x, y \in Nat : x * B + y \in Nat
      BY <1>3
    <3>5. w[i] \in Nat
      BY <1>8, <3>1, <3>3, <3>4
    <3> QED BY <3>1, <3>5
  <2>3. T = Nat
    <3>1. T \in SUBSET Nat
      OBVIOUS
    <3> HIDE DEF T
    <3> QED BY <2>1, <2>2, <3>1, Induction
  <2> QED BY <2>3
<1>10. \A i \in 1 .. Len(s) + 1 : w[i] \in Nat
  <2> SUFFICES ASSUME NEW i \in 1 .. Len(s) + 1 PROVE w[i] \in Nat
    OBVIOUS
  <2>1. Len(s) + 1 - i \in Nat /\ Len(s) + 1 - i <= Len(s) /\ Len(s) + 1 - (Len(s) + 1 - i) = i
    BY <1>1
  <2> HIDE DEF w
  <2> QED BY <1>9, <2>1
<1>11. Worth(w, s)
  <2>1. \A i \in 1 .. Len(s) : i + 1 \in 1 .. Len(s) + 1
    BY <1>1
  <2> HIDE DEF w
  <2> QED BY <1>7, <1>8, <1>10, <2>1 DEF Worth
<1>12. Value(s) = w[1] /\ 1 \in 1 .. Len(s) + 1
  BY <1>1, <1>2
<1> HIDE DEF w
<1> QED BY <1>10, <1>11, <1>12

\* s is a VarInt worth v: its last digit, and no other, ends it, and it is no longer
\* than v is large.
IsVarInt(s, v) ==
  /\ s \in Seq(Byte) /\ Len(s) >= 1
  /\ s[Len(s)] < B /\ \A i \in 1 .. Len(s) - 1 : s[i] >= B
  /\ \A w : Worth(w, s) => w[1] = v
  /\ Len(s) = 1 \/ Power(B, Len(s) - 1) <= v

\* A digit before a VarInt.
LEMMA LongerVarInt ==
  ASSUME NEW v \in Nat, v >= B, NEW s, IsVarInt(s, v \div B)
  PROVE  IsVarInt(<<(v % B) + B>> \o s, v)
<1> DEFINE q == v \div B
           r == v % B
           d == r + B
           t == <<d>> \o s
<1>1. B \in Nat /\ B > 1
  BY ByteBufferAssumption
<1>2. r \in 0 .. B - 1 /\ q \in Nat /\ v = q * B + r /\ q >= 1
  BY Digits
<1>3. d \in Byte /\ d >= B
  BY <1>1, <1>2 DEF Byte, Radix
<1>4. d % B = r
  BY <1>1, <1>2
<1> HIDE DEF q, r, d
<1>5. s \in Seq(Byte) /\ Len(s) \in Nat /\ Len(s) >= 1
  BY DEF IsVarInt
<1>6. /\ t \in Seq(Byte) /\ Len(t) = Len(s) + 1 /\ t[1] = d
      /\ \A i \in 1 .. Len(s) : t[i + 1] = s[i]
  BY <1>3, <1>5
<1> HIDE DEF t
<1>7. t[Len(t)] < B
  BY <1>5, <1>6 DEF IsVarInt
<1>8. ASSUME NEW i \in 1 .. Len(t) - 1 PROVE t[i] >= B
  <2>1. CASE i = 1
    BY <1>3, <1>6, <2>1
  <2>2. CASE i # 1
    <3>1. i - 1 \in 1 .. Len(s) - 1 /\ i - 1 \in 1 .. Len(s) /\ (i - 1) + 1 = i
      BY <1>5, <1>6, <2>2
    <3>2. s[i - 1] >= B
      BY <3>1 DEF IsVarInt
    <3>3. t[(i - 1) + 1] = s[i - 1]
      BY <1>6, <3>1
    <3> QED BY <3>1, <3>2, <3>3
  <2> QED BY <2>1, <2>2
<1>9. ASSUME NEW w, Worth(w, t) PROVE w[1] = v
  <2> DEFINE u == [i \in 1 .. Len(s) + 1 |-> w[i + 1]]
  <2>1. Worth(u, s)
    <3>1. u[Len(s) + 1] = 0
      BY <1>5, <1>6, <1>9 DEF Worth
    <3>2. ASSUME NEW i \in 1 .. Len(s)
          PROVE  u[i + 1] \in Nat /\ u[i] = u[i + 1] * B + (s[i] % B)
      <4>1. i + 1 \in 1 .. Len(t)
        BY <1>5, <1>6
      <4>2. u[i] = w[i + 1] /\ u[i + 1] = w[(i + 1) + 1]
        BY <1>5
      <4>3. /\ w[(i + 1) + 1] \in Nat
            /\ w[i + 1] = w[(i + 1) + 1] * B + (t[i + 1] % B)
        BY <4>1, <1>9 DEF Worth
      <4> HIDE DEF u
      <4> QED BY <1>6, <4>2, <4>3
    <3> HIDE DEF u
    <3> QED BY <3>1, <3>2 DEF Worth
  <2>2. u[1] = w[2]
    BY <1>5
  <2> HIDE DEF u
  <2>3. w[2] = q
    BY <2>1, <2>2 DEF IsVarInt, q
  <2>4. 1 \in 1 .. Len(t)
    BY <1>5, <1>6
  <2>5. w[1] = w[1 + 1] * B + (t[1] % B)
    BY <2>4, <1>9 DEF Worth
  <2> QED BY <1>2, <1>4, <1>6, <2>3, <2>5
<1>10. Power(B, Len(t) - 1) <= v
  <2>1. Len(s) - 1 \in Nat /\ Len(t) - 1 = (Len(s) - 1) + 1
    BY <1>5, <1>6
  <2>2. /\ Power(B, Len(s) - 1) \in Nat
        /\ Power(B, Len(t) - 1) = B * Power(B, Len(s) - 1)
        /\ Power(B, 0) = 1
    BY <1>1, <2>1, PowerFacts
  <2>3. Power(B, Len(s) - 1) <= q
    <3>1. CASE Len(s) = 1
      BY <1>2, <2>2, <3>1
    <3>2. CASE Len(s) # 1
      BY <3>2 DEF IsVarInt, q
    <3> QED BY <3>1, <3>2
  <2>4. \A x \in Nat : x <= q => B * x <= q * B
    BY <1>1, <1>2
  <2> QED BY <1>1, <1>2, <2>2, <2>3, <2>4
<1>11. IsVarInt(t, v)
  BY <1>5, <1>6, <1>7, <1>8, <1>9, <1>10 DEF IsVarInt
<1> QED BY <1>11 DEF t, d, r

\* Every number is encoded as a VarInt.
LEMMA EncodeIsVarInt == \A v \in Nat : IsVarInt(Encode[v], v)
<1>1. B \in Nat /\ B > 1
  BY ByteBufferAssumption
<1>2. ASSUME NEW v \in Nat, v < B PROVE IsVarInt(Encode[v], v)
  <2>1. Encode[v] = <<v>>
    BY <1>2, EncodeFacts, Zenon
  <2>2. <<v>> \in Seq(Byte) /\ Len(<<v>>) = 1 /\ <<v>>[1] = v
    BY <1>1, <1>2 DEF Byte, Radix
  <2>3. ASSUME NEW w, Worth(w, <<v>>) PROVE w[1] = v
    <3>1. w[2] = 0 /\ w[1] = w[1 + 1] * B + (<<v>>[1] % B)
      BY <2>2, <2>3 DEF Worth
    <3>2. v % B = v
      BY <1>2, Digits
    <3> QED BY <1>1, <2>2, <3>1, <3>2
  <2>4. IsVarInt(<<v>>, v)
    BY <1>1, <1>2, <2>2, <2>3 DEF IsVarInt
  <2> QED BY <2>1, <2>4
<1>3. ASSUME NEW v \in Nat, v >= B, IsVarInt(Encode[v \div B], v \div B)
      PROVE  IsVarInt(Encode[v], v)
  <2>1. ~(v < B)
    BY <1>1, <1>3
  <2>2. Encode[v] = <<(v % B) + B>> \o Encode[v \div B]
    BY <2>1, EncodeFacts, Zenon
  <2> QED BY <1>3, <2>2, LongerVarInt
<1> DEFINE T == {n \in Nat : \A v \in Nat : v <= n => IsVarInt(Encode[v], v)}
<1>4. 0 \in T
  BY <1>1, <1>2
<1>5. ASSUME NEW n \in T PROVE n + 1 \in T
  <2> SUFFICES ASSUME NEW v \in Nat, v <= n + 1 PROVE IsVarInt(Encode[v], v)
    OBVIOUS
  <2>1. CASE v < B
    BY <1>2, <2>1
  <2>2. CASE v >= B
    <3>1. v \div B \in Nat /\ v \div B <= n
      BY <2>2, Digits
    <3>2. IsVarInt(Encode[v \div B], v \div B)
      BY <1>5, <3>1
    <3> QED BY <1>3, <2>2, <3>2
  <2> QED BY <1>1, <2>1, <2>2
<1>6. T = Nat
  <2>1. T \in SUBSET Nat
    OBVIOUS
  <2> HIDE DEF T
  <2> QED BY <1>4, <1>5, <2>1, Induction
<1> SUFFICES ASSUME NEW v \in Nat PROVE IsVarInt(Encode[v], v)
  OBVIOUS
<1>7. v \in T
  BY <1>6
<1>8. v <= v
  OBVIOUS
<1> QED BY <1>7, <1>8, Zenon

-----------------------------------------------------------------------------
(***************************************************************************)
(* The ring.                                                               *)
(***************************************************************************)
\* One turn around the ring at most.
LEMMA Wrap ==
  ASSUME NEW x \in 0 .. 2 * Size - 1
  PROVE  x % Size = IF x < Size THEN x ELSE x - Size
<1>1. Size \in Nat /\ Size > 0
  BY ByteBufferAssumption
<1>2. CASE x < Size
  BY <1>1, <1>2
<1>3. CASE x >= Size
  <2> DEFINE y == x - Size
  <2>1. y \in 0 .. Size - 1 /\ x = y + Size
    BY <1>1, <1>3
  <2> HIDE DEF y
  <2>2. (y + Size) % Size = y
    BY <1>1, <2>1
  <2> QED BY <1>1, <1>3, <2>1, <2>2 DEF y
<1> QED BY <1>1, <1>2, <1>3

LEMMA DistanceIs ==
  ASSUME NEW a \in Positions, NEW b \in Positions
  PROVE  /\ Distance(a, b) = IF b >= a THEN b - a ELSE b + Size - a
         /\ Distance(a, b) \in 0 .. Size - 1
<1>1. Size \in Nat /\ Size > 0
  BY ByteBufferAssumption
<1>2. b + Size - a \in 0 .. 2 * Size - 1
  BY <1>1 DEF Positions
<1>3. (b + Size - a) % Size = IF b + Size - a < Size THEN b + Size - a ELSE b + Size - a - Size
  <2>1. PICK x \in 0 .. 2 * Size - 1 : x = b + Size - a
    BY <1>2
  <2>2. x % Size = IF x < Size THEN x ELSE x - Size
    BY Wrap
  <2> QED BY <1>1, <2>1, <2>2 DEF Positions
<1> QED BY <1>1, <1>3 DEF Positions, Distance

\* Where a copy of n bytes ends.
LEMMA AdvanceIs ==
  ASSUME NEW a \in Positions, NEW n \in 0 .. Size - 1
  PROVE  /\ Advance(a, n) \in Positions
         /\ Advance(a, n) = IF a + n < Size THEN a + n ELSE a + n - Size
         /\ Distance(a, Advance(a, n)) = n
<1>1. Size \in Nat /\ Size > 0
  BY ByteBufferAssumption
<1>2. Advance(a, n) = IF a + n < Size THEN a + n ELSE a + n - Size
  BY <1>1 DEF Advance, TillEnd, Positions
<1>3. Advance(a, n) \in Positions
  BY <1>1, <1>2 DEF Positions
<1>4. Distance(a, Advance(a, n)) = n
  <2>1. Distance(a, Advance(a, n)) = IF Advance(a, n) >= a THEN Advance(a, n) - a
                                     ELSE Advance(a, n) + Size - a
    BY <1>3, DistanceIs
  <2> QED BY <1>1, <1>2, <2>1 DEF Positions
<1> QED BY <1>2, <1>3, <1>4

\* The positions a, b and c follow each other around the ring.
LEMMA Between ==
  ASSUME NEW a \in Positions, NEW b \in Positions, NEW c \in Positions,
         Distance(a, b) <= Distance(a, c)
  PROVE  Distance(b, c) = Distance(a, c) - Distance(a, b)
<1>1. Size \in Nat /\ Size > 0
  BY ByteBufferAssumption
<1>2. /\ Distance(a, b) = IF b >= a THEN b - a ELSE b + Size - a
      /\ Distance(a, c) = IF c >= a THEN c - a ELSE c + Size - a
      /\ Distance(b, c) = IF c >= b THEN c - b ELSE c + Size - b
  BY DistanceIs
<1> QED BY <1>1, <1>2 DEF Positions

\* The k-th byte from a on.
At(f, a, k) == f[IF a + k - 1 < Size THEN a + k - 1 ELSE a + k - 1 - Size]

\* What lies between two positions of the array f.
Seg(f, a, b) == [k \in 1 .. Distance(a, b) |-> f[(a + k - 1) % Size]]

LEMMA SegIs ==
  ASSUME NEW f \in [Positions -> Byte], NEW a \in Positions, NEW b \in Positions
  PROVE  /\ Seg(f, a, b) \in Seq(Byte)
         /\ Len(Seg(f, a, b)) = Distance(a, b)
         /\ \A k \in 1 .. Distance(a, b) : Seg(f, a, b)[k] = At(f, a, k)
<1>1. Size \in Nat /\ Size > 0
  BY ByteBufferAssumption
<1>2. Distance(a, b) \in 0 .. Size - 1
  BY DistanceIs
<1>3. ASSUME NEW k \in 1 .. Distance(a, b)
      PROVE  f[(a + k - 1) % Size] = At(f, a, k) /\ At(f, a, k) \in Byte
  <2>1. a + k - 1 \in 0 .. 2 * Size - 1
    BY <1>1, <1>2 DEF Positions
  <2>2. (a + k - 1) % Size = IF a + k - 1 < Size THEN a + k - 1 ELSE a + k - 1 - Size
    <3>1. PICK x \in 0 .. 2 * Size - 1 : x = a + k - 1
      BY <2>1
    <3>2. x % Size = IF x < Size THEN x ELSE x - Size
      BY Wrap
    <3> QED BY <1>1, <1>2, <3>1, <3>2 DEF Positions
  <2>3. (IF a + k - 1 < Size THEN a + k - 1 ELSE a + k - 1 - Size) \in Positions
    BY <1>1, <2>1 DEF Positions
  <2> QED BY <2>2, <2>3 DEF At
<1>4. Seg(f, a, b) = [k \in 1 .. Distance(a, b) |-> At(f, a, k)]
  BY <1>3 DEF Seg
<1> DEFINE n == Distance(a, b)
<1>5. n \in Nat
  BY <1>2
<1> HIDE DEF n
<1>6. \A k \in 1 .. n : At(f, a, k) \in Byte
  BY <1>3 DEF n
<1>7. Seg(f, a, b) = [k \in 1 .. n |-> At(f, a, k)]
  BY <1>4 DEF n
<1>8. Seg(f, a, b) \in Seq(Byte) /\ Len(Seg(f, a, b)) = n
  BY <1>5, <1>6, <1>7
<1> QED BY <1>7, <1>8 DEF n

LEMMA SegmentIs ==
  ASSUME buf \in [Positions -> Byte], NEW a \in Positions, NEW b \in Positions
  PROVE  /\ Segment(a, b) \in Seq(Byte)
         /\ Len(Segment(a, b)) = Distance(a, b)
         /\ \A k \in 1 .. Distance(a, b) : Segment(a, b)[k] = At(buf, a, k)
<1>1. Segment(a, b) = Seg(buf, a, b)
  BY DEF Segment, Seg
<1> QED BY <1>1, SegIs

\* Equal bytes at equal places.
LEMMA SameBytes ==
  ASSUME NEW S, NEW s \in Seq(S), NEW t \in Seq(S), Len(s) = Len(t),
         \A k \in 1 .. Len(s) : s[k] = t[k]
  PROVE  s = t
BY SeqEqual

\* What lies between a and c is what lies before b and what lies behind it.
LEMMA SegmentJoin ==
  ASSUME buf \in [Positions -> Byte],
         NEW a \in Positions, NEW b \in Positions, NEW c \in Positions,
         Distance(a, b) <= Distance(a, c)
  PROVE  Segment(a, c) = Segment(a, b) \o Segment(b, c)
<1>1. Size \in Nat /\ Size > 0
  BY ByteBufferAssumption
<1> DEFINE m == Distance(a, b)
           n == Distance(a, c)
           s == Segment(a, b) \o Segment(b, c)
<1>2. m \in Nat /\ n \in Nat /\ m <= n /\ n <= Size - 1 /\ Distance(b, c) = n - m
  BY <1>1, DistanceIs, Between
<1>3. b = IF a + m < Size THEN a + m ELSE a + m - Size
  <2>1. m = IF b >= a THEN b - a ELSE b + Size - a
    BY DistanceIs
  <2> HIDE DEF m
  <2> QED BY <1>1, <2>1 DEF Positions
<1>4. /\ Segment(a, b) \in Seq(Byte) /\ Len(Segment(a, b)) = m
      /\ Segment(b, c) \in Seq(Byte) /\ Len(Segment(b, c)) = n - m
      /\ Segment(a, c) \in Seq(Byte) /\ Len(Segment(a, c)) = n
  BY <1>2, SegmentIs
<1>5. s \in Seq(Byte) /\ Len(s) = n
  BY <1>2, <1>4
<1>6. ASSUME NEW k \in 1 .. n PROVE Segment(a, c)[k] = s[k]
  <2>1. Segment(a, c)[k] = At(buf, a, k)
    BY SegmentIs
  <2>2. CASE k <= m
    <3>1. s[k] = Segment(a, b)[k]
      BY <1>2, <1>4, <2>2
    <3>2. k \in 1 .. Distance(a, b)
      BY <2>2, <1>2
    <3>3. Segment(a, b)[k] = At(buf, a, k)
      BY <3>2, SegmentIs
    <3> QED BY <2>1, <3>1, <3>3
  <2>3. CASE k > m
    <3>1. s[k] = Segment(b, c)[k - m]
      BY <1>2, <1>4, <2>3
    <3>2. k - m \in 1 .. Distance(b, c)
      BY <1>2, <2>3
    <3>3. Segment(b, c)[k - m] = At(buf, b, k - m)
      BY <3>2, SegmentIs
    <3>4. (IF b + (k - m) - 1 < Size THEN b + (k - m) - 1 ELSE b + (k - m) - 1 - Size)
          = IF a + k - 1 < Size THEN a + k - 1 ELSE a + k - 1 - Size
      <4> HIDE DEF m, n
      <4> QED BY <1>1, <1>2, <1>3, <2>3 DEF Positions
    <3> QED BY <2>1, <3>1, <3>3, <3>4 DEF At
  <2> HIDE DEF m, n, s
  <2> QED BY <1>2, <2>2, <2>3
<1> HIDE DEF m, n, s
<1>7. Segment(a, c) = s
  BY <1>4, <1>5, <1>6, SameBytes
<1> QED BY <1>7 DEF s

\* What is copied out is what lies there.
LEMMA CopyOutIs ==
  ASSUME buf \in [Positions -> Byte], NEW a \in Positions, NEW n \in 0 .. Size - 1
  PROVE  CopyOut(a, n) = Segment(a, Advance(a, n))
<1>1. Size \in Nat /\ Size > 0
  BY ByteBufferAssumption
<1>2. Distance(a, Advance(a, n)) = n /\ Advance(a, n) \in Positions
  BY AdvanceIs
<1>3. ASSUME NEW k \in 1 .. n
      PROVE  buf[(a + k - 1) % Size] = IF k <= TillEnd(a) THEN buf[a + k - 1]
                                       ELSE buf[k - TillEnd(a) - 1]
  <2>1. PICK x \in 0 .. 2 * Size - 1 : x = a + k - 1
    BY <1>1 DEF Positions
  <2>2. x % Size = IF x < Size THEN x ELSE x - Size
    BY Wrap
  <2>3. k <= TillEnd(a) <=> x < Size
    BY <1>1, <2>1 DEF Positions, TillEnd
  <2>4. k - TillEnd(a) - 1 = x - Size
    BY <1>1, <2>1 DEF Positions, TillEnd
  <2>5. (a + k - 1) % Size = IF k <= TillEnd(a) THEN a + k - 1 ELSE k - TillEnd(a) - 1
    BY <1>1, <2>1, <2>2, <2>3, <2>4 DEF Positions
  <2> QED BY <2>5
<1>4. Segment(a, Advance(a, n)) = [k \in 1 .. n |-> buf[(a + k - 1) % Size]]
  BY <1>2 DEF Segment
<1>5. CopyOut(a, n) = [k \in 1 .. n |-> buf[(a + k - 1) % Size]]
  BY <1>3 DEF CopyOut
<1> QED BY <1>4, <1>5

-----------------------------------------------------------------------------
(***************************************************************************)
(* The cursors.                                                            *)
(***************************************************************************)
\* The ring's part of TypeOK.
RingOK ==
  /\ buf \in [Positions -> Byte]
  /\ start \in Positions /\ write \in Positions /\ read \in Positions
  /\ Distance(start, read) <= Distance(start, write)

\* What was read and not committed, and what was not read: the refinement mapping.
Taken == Segment(start, read)
Rest  == Segment(read, write)

\* The spaces the code computes are those of the queue.
LEMMA Spaces ==
  ASSUME RingOK
  PROVE  /\ Taken \in Seq(Byte) /\ Rest \in Seq(Byte)
         /\ Len(Taken) = Distance(start, read) /\ Len(Rest) = Distance(read, write)
         /\ Len(Taken) + Len(Rest) = Distance(start, write)
         /\ GetReadableSpace = Len(Rest)
         /\ GetFreeSpace = Size - 1 - (Len(Taken) + Len(Rest))
         /\ Len(Taken) + Len(Rest) \in 0 .. Size - 1
<1>1. Size \in Nat /\ Size > 0
  BY ByteBufferAssumption
<1>2. /\ Taken \in Seq(Byte) /\ Len(Taken) = Distance(start, read)
      /\ Rest \in Seq(Byte) /\ Len(Rest) = Distance(read, write)
  BY SegmentIs DEF RingOK, Taken, Rest
<1>3. Distance(read, write) = Distance(start, write) - Distance(start, read)
  BY Between DEF RingOK
<1>4. /\ Distance(start, read) \in 0 .. Size - 1 /\ Distance(start, write) \in 0 .. Size - 1
      /\ Distance(start, write) = IF write >= start THEN write - start
                                  ELSE write + Size - start
      /\ Distance(read, write) = IF write >= read THEN write - read ELSE write + Size - read
  BY DistanceIs DEF RingOK
<1>5. GetReadableSpace = Distance(read, write)
  BY <1>1, <1>4 DEF RingOK, GetReadableSpace, Positions
<1>6. GetFreeSpace = Size - 1 - Distance(start, write)
  BY <1>1, <1>4 DEF RingOK, GetFreeSpace, Positions
<1> QED BY <1>1, <1>2, <1>3, <1>4, <1>5, <1>6

\* Reading n bytes moves them from the front of what is not read.
LEMMA Reads ==
  ASSUME RingOK, NEW n \in 0 .. Len(Rest), read' = Advance(read, n),
         UNCHANGED <<buf, start, write>>
  PROVE  /\ RingOK'
         /\ Rest = CopyOut(read, n) \o Rest'
         /\ Taken' = Taken \o CopyOut(read, n)
         /\ CopyOut(read, n) \in Seq(Byte) /\ Len(CopyOut(read, n)) = n
<1>1. Size \in Nat /\ Size > 0
  BY ByteBufferAssumption
<1>2. /\ Len(Rest) = Distance(read, write) /\ Len(Taken) = Distance(start, read)
      /\ Len(Rest) \in Nat /\ Len(Taken) \in Nat
      /\ Len(Taken) + Len(Rest) \in 0 .. Size - 1
      /\ Len(Taken) + Len(Rest) = Distance(start, write)
  BY Spaces
<1>3. n \in 0 .. Size - 1
  BY <1>1, <1>2
<1> DEFINE p == Advance(read, n)
<1>4. p \in Positions /\ Distance(read, p) = n
  BY <1>3, AdvanceIs DEF RingOK
<1>5. p = IF read + n < Size THEN read + n ELSE read + n - Size
  BY <1>3, AdvanceIs DEF RingOK
<1>6. CopyOut(read, n) = Segment(read, p)
  BY <1>3, CopyOutIs DEF RingOK
<1> HIDE DEF p
<1>7. Distance(start, p) = Distance(start, read) + n
  <2>1. /\ Distance(start, p) = IF p >= start THEN p - start ELSE p + Size - start
        /\ Distance(start, read) = IF read >= start THEN read - start ELSE read + Size - start
    BY <1>4, DistanceIs DEF RingOK
  <2> QED BY <1>1, <1>2, <1>3, <1>5, <2>1 DEF RingOK, Positions
<1>8. Segment(read, write) = Segment(read, p) \o Segment(p, write)
  BY <1>2, <1>4, SegmentJoin DEF RingOK
<1>9. Segment(start, p) = Segment(start, read) \o Segment(read, p)
  <2>1. Distance(start, read) <= Distance(start, p)
    BY <1>2, <1>3, <1>7
  <2> QED BY <2>1, <1>4, SegmentJoin DEF RingOK
<1>10. Rest' = Segment(p, write) /\ Taken' = Segment(start, p)
  BY DEF Rest, Taken, Segment, p
<1>11. RingOK'
  <2>1. Distance(start, p) <= Distance(start, write)
    BY <1>2, <1>3, <1>7
  <2>2. Distance(start, read)' = Distance(start, p) /\ Distance(start, write)' = Distance(start, write)
    BY DEF Distance, p
  <2> QED BY <1>4, <2>1, <2>2 DEF RingOK, p
<1>12. Segment(read, p) \in Seq(Byte) /\ Len(Segment(read, p)) = n
  BY <1>4, SegmentIs DEF RingOK
<1> QED BY <1>6, <1>8, <1>9, <1>10, <1>11, <1>12 DEF Rest, Taken

\* Writing s appends it to what is not read, and disturbs no other byte.
LEMMA Writes ==
  ASSUME RingOK, NEW s \in Seq(Byte), Len(s) <= GetFreeSpace,
         buf' = CopyIn(write, s), write' = Advance(write, Len(s)), UNCHANGED <<start, read>>
  PROVE  /\ RingOK' /\ Taken' = Taken /\ Rest' = Rest \o s
         /\ \A k \in 1 .. Len(s) : At(buf', write, k) = s[k]
<1>1. Size \in Nat /\ Size > 0
  BY ByteBufferAssumption
<1> DEFINE n == Len(s)
           p == Advance(write, n)
           f == CopyIn(write, s)
           m == Distance(start, write)
<1>2. /\ Len(Rest) = Distance(read, write) /\ Len(Taken) = Distance(start, read)
      /\ Len(Rest) \in Nat /\ Len(Taken) \in Nat
      /\ Len(Taken) + Len(Rest) \in 0 .. Size - 1
      /\ Len(Taken) + Len(Rest) = m
      /\ n \in Nat /\ n <= Size - 1 - m
      /\ Taken \in Seq(Byte) /\ Rest \in Seq(Byte)
  BY Spaces
<1>3. m \in Nat /\ n \in 0 .. Size - 1 /\ m <= Size - 1
  BY <1>1, <1>2
<1>4. p \in Positions /\ p = IF write + n < Size THEN write + n ELSE write + n - Size
  BY <1>3, AdvanceIs DEF RingOK
<1>5. m = IF write >= start THEN write - start ELSE write + Size - start
  BY DistanceIs DEF RingOK
<1>6. \A k \in 1 .. n : s[k] \in Byte
  OBVIOUS
<1>7. f = [i \in Positions |->
             IF i >= write /\ i < write + n THEN s[i - write + 1]
             ELSE IF i < n - (Size - write) THEN s[(Size - write) + i + 1]
             ELSE buf[i]]
  BY DEF CopyIn, TillEnd
<1> HIDE DEF n, p, f, m
<1>8. f \in [Positions -> Byte]
  <2> SUFFICES ASSUME NEW i \in Positions
               PROVE  (IF i >= write /\ i < write + n THEN s[i - write + 1]
                       ELSE IF i < n - (Size - write) THEN s[(Size - write) + i + 1]
                       ELSE buf[i]) \in Byte
    BY <1>7
  <2>1. i >= write /\ i < write + n => i - write + 1 \in 1 .. n
    BY <1>1, <1>3 DEF RingOK, Positions
  <2>2. i < n - (Size - write) => (Size - write) + i + 1 \in 1 .. n
    BY <1>1, <1>3 DEF RingOK, Positions
  <2> QED BY <1>6, <2>1, <2>2 DEF RingOK
<1>9. ASSUME NEW k \in 1 .. m PROVE At(f, start, k) = At(buf, start, k)
  <2> DEFINE i == IF start + k - 1 < Size THEN start + k - 1 ELSE start + k - 1 - Size
  <2>1. i \in Positions
    BY <1>1, <1>3 DEF RingOK, Positions
  <2>2. ~(i >= write /\ i < write + n) /\ ~(i < n - (Size - write))
    BY <1>1, <1>2, <1>3, <1>5 DEF RingOK, Positions
  <2> HIDE DEF i
  <2>3. f[i] = buf[i]
    BY <1>7, <2>1, <2>2
  <2> QED BY <2>3 DEF At, i
<1>10. ASSUME NEW k \in 1 .. n PROVE At(f, write, k) = s[k]
  <2> DEFINE i == IF write + k - 1 < Size THEN write + k - 1 ELSE write + k - 1 - Size
  <2>1. i \in Positions
    BY <1>1, <1>3 DEF RingOK, Positions
  <2>2. CASE write + k - 1 < Size
    <3>1. i >= write /\ i < write + n /\ i - write + 1 = k
      BY <1>1, <1>3, <2>2 DEF RingOK, Positions
    <3> HIDE DEF i
    <3>2. f[i] = s[i - write + 1]
      BY <1>7, <2>1, <3>1
    <3> QED BY <3>1, <3>2 DEF At, i
  <2>3. CASE write + k - 1 >= Size
    <3>1. /\ ~(i >= write /\ i < write + n) /\ i < n - (Size - write)
          /\ (Size - write) + i + 1 = k
      BY <1>1, <1>3, <2>3 DEF RingOK, Positions
    <3> HIDE DEF i
    <3>2. f[i] = s[(Size - write) + i + 1]
      BY <1>7, <2>1, <3>1
    <3> QED BY <3>1, <3>2 DEF At, i
  <2> QED BY <1>1, <1>3, <2>2, <2>3 DEF RingOK, Positions
<1>11. Distance(start, p) = m + n /\ Distance(read, p) = Len(Rest) + n
  <2>1. /\ Distance(start, p) = IF p >= start THEN p - start ELSE p + Size - start
        /\ Distance(read, p) = IF p >= read THEN p - read ELSE p + Size - read
        /\ Distance(read, write) = IF write >= read THEN write - read ELSE write + Size - read
    BY <1>4, DistanceIs DEF RingOK
  <2>2. Distance(start, p) = m + n
    BY <1>1, <1>2, <1>3, <1>4, <1>5, <2>1 DEF RingOK, Positions
  <2>3. Distance(read, p) = Len(Rest) + n
    BY <1>1, <1>2, <1>3, <1>4, <2>1 DEF RingOK, Positions
  <2> QED BY <2>2, <2>3
<1>12. Taken' = Seg(f, start, read) /\ Rest' = Seg(f, read, p)
  BY DEF Taken, Rest, Segment, Seg, Distance, f, p, n
<1>13. Seg(f, start, read) = Taken
  <2>1. /\ Seg(f, start, read) \in Seq(Byte)
        /\ Len(Seg(f, start, read)) = Len(Taken)
        /\ \A k \in 1 .. Len(Taken) : Seg(f, start, read)[k] = At(f, start, k)
    BY <1>2, <1>8, SegIs DEF RingOK
  <2>2. \A k \in 1 .. Len(Taken) : Taken[k] = At(buf, start, k)
    BY <1>2, SegmentIs DEF RingOK, Taken
  <2>3. \A k \in 1 .. Len(Taken) : k \in 1 .. m
    BY <1>2
  <2>4. \A k \in 1 .. Len(Taken) : Seg(f, start, read)[k] = Taken[k]
    BY <1>9, <2>1, <2>2, <2>3
  <2> QED BY <1>2, <2>1, <2>4, SameBytes
<1>14. Seg(f, read, p) = Rest \o s
  <2>1. /\ Seg(f, read, p) \in Seq(Byte)
        /\ Len(Seg(f, read, p)) = Len(Rest) + n
        /\ \A k \in 1 .. Len(Rest) + n : Seg(f, read, p)[k] = At(f, read, k)
    <3>1. /\ Seg(f, read, p) \in Seq(Byte)
          /\ Len(Seg(f, read, p)) = Distance(read, p)
          /\ \A k \in 1 .. Distance(read, p) : Seg(f, read, p)[k] = At(f, read, k)
      BY <1>4, <1>8, SegIs DEF RingOK
    <3> QED BY <1>11, <3>1
  <2>2. Rest \o s \in Seq(Byte) /\ Len(Rest \o s) = Len(Rest) + n
    BY <1>2, ConcatProperties DEF n
  <2> DEFINE t == Len(Taken)
             r == Len(Rest)
  <2>0. /\ t \in Nat /\ r \in Nat /\ t + r = m
        /\ n \in Nat /\ n <= Size - 1 - m
        /\ start \in 0 .. Size - 1 /\ read \in 0 .. Size - 1 /\ write \in 0 .. Size - 1
    BY <1>2 DEF RingOK, Positions
  <2>3. /\ read = IF start + Len(Taken) < Size THEN start + Len(Taken)
                  ELSE start + Len(Taken) - Size
        /\ write = IF read + Len(Rest) < Size THEN read + Len(Rest)
                   ELSE read + Len(Rest) - Size
    <3>1. /\ Len(Taken) = IF read >= start THEN read - start ELSE read + Size - start
          /\ Len(Rest) = IF write >= read THEN write - read ELSE write + Size - read
      BY <1>2, DistanceIs DEF RingOK
    <3> QED BY <1>1, <3>1 DEF RingOK, Positions
  <2>6. /\ read = IF start + t < Size THEN start + t ELSE start + t - Size
        /\ write = IF read + r < Size THEN read + r ELSE read + r - Size
    BY <2>3
  <2>4. ASSUME NEW k \in 1 .. r + n PROVE At(f, read, k) = (Rest \o s)[k]
    <3>1. CASE k <= r
      <4>1. (Rest \o s)[k] = Rest[k]
        BY <1>2, <3>1
      <4>2. Rest[k] = At(buf, read, k)
        <5>1. k \in 1 .. Distance(read, write)
          BY <1>2, <3>1
        <5> QED BY <5>1, SegmentIs DEF RingOK, Rest
      <4> DEFINE j == t + k
      <4>3. j \in 1 .. m /\
            (IF start + j - 1 < Size THEN start + j - 1 ELSE start + j - 1 - Size)
            = IF read + k - 1 < Size THEN read + k - 1 ELSE read + k - 1 - Size
        <5> HIDE DEF t, r
        <5> QED BY <1>1, <1>3, <2>0, <2>6, <3>1
      <4> HIDE DEF j
      <4>4. At(f, start, j) = At(buf, start, j)
        BY <1>9, <4>3
      <4>5. At(f, read, k) = At(f, start, j) /\ At(buf, read, k) = At(buf, start, j)
        BY <4>3 DEF At
      <4> QED BY <4>1, <4>2, <4>4, <4>5
    <3>2. CASE k > r
      <4> DEFINE j == k - r
      <4>1. (Rest \o s)[k] = s[j]
        BY <1>2, <3>2 DEF n
      <4>2. j \in 1 .. n /\
            (IF write + j - 1 < Size THEN write + j - 1 ELSE write + j - 1 - Size)
            = IF read + k - 1 < Size THEN read + k - 1 ELSE read + k - 1 - Size
        <5> HIDE DEF t, r
        <5> QED BY <1>1, <1>3, <2>0, <2>6, <3>2
      <4> HIDE DEF j
      <4>3. At(f, read, k) = At(f, write, j)
        BY <4>2 DEF At
      <4> QED BY <1>10, <4>1, <4>2, <4>3
    <3>3. k <= r \/ k > r
      <4>1. k \in Int
        BY <2>0
      <4> HIDE DEF r
      <4> QED BY <2>0, <4>1
    <3> QED BY <3>1, <3>2, <3>3
  <2>5. \A k \in 1 .. Len(Rest) + n : Seg(f, read, p)[k] = (Rest \o s)[k]
    BY <2>1, <2>4
  <2> QED BY <2>1, <2>2, <2>5, SameBytes
<1>15. RingOK'
  <2>1. Distance(start, read)' = Distance(start, read) /\ Distance(start, write)' = Distance(start, p)
    BY DEF Distance, p, n
  <2>2. Distance(start, read) <= Distance(start, p)
    BY <1>2, <1>3, <1>11
  <2> QED BY <1>4, <1>8, <2>1, <2>2 DEF RingOK, p, f, n
<1>16. \A k \in 1 .. Len(s) : At(buf', write, k) = s[k]
  BY <1>10 DEF f, n
<1> QED BY <1>12, <1>13, <1>14, <1>15, <1>16

-----------------------------------------------------------------------------
(***************************************************************************)
(* Steps: each keeps the types and is a step of the queue.                 *)
(***************************************************************************)
\* A call, as its caller sees it.
Call(op, ok, val, bytes) == [op |-> op, ok |-> ok, val |-> val, bytes |-> bytes]
Calls == [op: {"new", "write", "string", "fixed", "var", "again", "commit", "reset", "clear"},
          ok: BOOLEAN, val: Seq(Nat), bytes: Seq(Byte)]

LEMMA Types ==
  ASSUME RingOK, io \in Calls PROVE TypeOK
BY DEF RingOK, TypeOK, Calls

LEMMA PutStep ==
  ASSUME RingOK, NEW s \in Seq(Byte), NEW val \in Seq(Nat), Put(s, val)
  PROVE  RingOK' /\ io' \in Calls /\ Fifo!Write
<1>1. /\ GetFreeSpace = Size - 1 - (Len(Taken) + Len(Rest))
      /\ Len(Taken) \in Nat /\ Len(Rest) \in Nat /\ Size \in Nat
      /\ Taken \in Seq(Byte) /\ Rest \in Seq(Byte)
  BY Spaces, ByteBufferAssumption
<1> DEFINE ok == CanWriteBytes(Len(s))
<1>2. ok <=> Len(Taken) + Len(Rest) + Len(s) <= Size - 1
  BY <1>1 DEF CanWriteBytes
<1>3. io' = Call("write", ok, val, s) /\ ok \in BOOLEAN
  BY DEF Put, Returns, Call, CanWriteBytes
<1>4. io' \in Calls
  <2> HIDE DEF ok
  <2> QED BY <1>3 DEF Call, Calls
<1>5. RingOK' /\ Taken' = Taken /\ Rest' = IF ok THEN Rest \o s ELSE Rest
  <2>1. CASE ok
    <3>1. RingOK' /\ Taken' = Taken /\ Rest' = Rest \o s
      BY <2>1, Writes DEF Put, CanWriteBytes
    <3> QED BY <2>1, <3>1
  <2>2. CASE ~ok
    <3>1. UNCHANGED <<buf, start, write, read>>
      BY <2>2 DEF Put
    <3>2. RingOK' /\ Taken' = Taken /\ Rest' = Rest
      BY <3>1 DEF RingOK, Taken, Rest, Segment, Distance
    <3> QED BY <2>2, <3>2
  <2> QED BY <2>1, <2>2
<1>6. io'.op = "write" /\ io'.ok = ok /\ io'.bytes = s
  <2> HIDE DEF ok
  <2> QED BY <1>3 DEF Call
<1>7. Fifo!Fits(s) <=> ok
  BY <1>2 DEF Fifo!Fits, Taken, Rest
<1>8. Fifo!Fits(s) = ok
  BY <1>7 DEF Fifo!Fits, CanWriteBytes
<1> HIDE DEF ok
<1>9. Fifo!Write
  BY <1>5, <1>6, <1>8 DEF Fifo!Write, Taken, Rest
<1> QED BY <1>4, <1>5, <1>9

LEMMA TakeStep ==
  ASSUME RingOK, NEW n \in 0 .. GetReadableSpace, read' = Advance(read, n),
         UNCHANGED <<buf, start, write>>,
         NEW o \in {"fixed", "var"}, NEW val \in Seq(Nat),
         io' = Call(o, TRUE, val, CopyOut(read, n))
  PROVE  RingOK' /\ io' \in Calls /\ Fifo!Take
<1>1. n \in 0 .. Len(Rest)
  BY Spaces
<1>2. /\ RingOK' /\ Rest = CopyOut(read, n) \o Rest' /\ Taken' = Taken \o CopyOut(read, n)
      /\ CopyOut(read, n) \in Seq(Byte)
  BY <1>1, Reads
<1>3. io' \in Calls
  BY <1>2 DEF Call, Calls
<1>4. io'.op \in {"fixed", "var"} /\ io'.ok /\ io'.bytes = CopyOut(read, n)
  BY DEF Call
<1>5. Fifo!Take
  BY <1>2, <1>4 DEF Fifo!Take, Taken, Rest
<1> QED BY <1>2, <1>3, <1>5

LEMMA RefuseStep ==
  ASSUME RingOK, UNCHANGED <<buf, start, write, read>>, io' = Call("fixed", FALSE, <<>>, <<>>)
  PROVE  RingOK' /\ io' \in Calls /\ Fifo!TakeNothing
<1>1. RingOK' /\ Taken' = Taken /\ Rest' = Rest
  BY DEF RingOK, Taken, Rest, Segment, Distance
<1>2. io' \in Calls /\ io'.op = "fixed" /\ ~io'.ok
  BY DEF Call, Calls
<1> QED BY <1>1, <1>2 DEF Fifo!TakeNothing, Taken, Rest

LEMMA CutStep ==
  ASSUME RingOK, NEW n \in 0 .. GetReadableSpace, read' = Advance(read, n),
         UNCHANGED <<buf, start, write>>, io' = Call("var", FALSE, <<>>, <<>>)
  PROVE  RingOK' /\ io' \in Calls /\ Fifo!TakePart
<1>1. n \in 0 .. Len(Rest) /\ Taken \in Seq(Byte)
  BY Spaces
<1> DEFINE c == CopyOut(read, n)
<1>2. /\ RingOK' /\ Rest = c \o Rest' /\ Taken' = Taken \o c
      /\ c \in Seq(Byte)
  BY <1>1, Reads
<1>3. io' \in Calls /\ io'.op = "var" /\ ~io'.ok
  BY DEF Call, Calls
<1> HIDE DEF c
<1>4. Rest' \in Seq(Byte)
  <2>1. Rest' = Seg(buf', read', write') /\ buf' \in [Positions -> Byte]
        /\ read' \in Positions /\ write' \in Positions
    BY <1>2 DEF RingOK, Rest, Segment, Seg, Distance
  <2> QED BY <2>1, SegIs
<1>5. Taken' \o Rest' = Taken \o Rest
  BY <1>1, <1>2, <1>4, ConcatAssociative
<1>6. IsPrefix(Taken, Taken')
  <2>1. \A s, t \in Seq(Byte) : IsPrefix(s, s \o t)
    <3> SUFFICES ASSUME NEW s \in Seq(Byte), NEW t \in Seq(Byte) PROVE IsPrefix(s, s \o t)
      OBVIOUS
    <3>1. Len(s) \in Nat /\ Len(s \o t) = Len(s) + Len(t) /\ Len(t) \in Nat
      OBVIOUS
    <3>2. SubSeq(s, 1, Len(s)) = SubSeq(s \o t, 1, Len(s))
      BY SubSeqOfConcat1, <3>1
    <3> QED BY <3>1, <3>2 DEF IsPrefix
  <2> QED BY <1>1, <1>2, <2>1
<1> QED BY <1>2, <1>3, <1>5, <1>6 DEF IsPrefix, Fifo!TakePart, Fifo!IsPrefix, Taken, Rest

\* A width is positive.
LEMMA WidthPositive == \A n \in Nat : Width(n) \in Nat \ {0}
<1>1. Radix \in Nat /\ Radix > 0
  BY ByteBufferAssumption DEF Radix
<1>2. Power(Radix, 0) = 1 /\ \A n \in Nat : /\ Power(Radix, n) \in Nat
                                           /\ Power(Radix, n + 1) = Radix * Power(Radix, n)
  BY <1>1, PowerFacts
<1> DEFINE T == {n \in Nat : Power(Radix, n) > 0}
<1>3. 0 \in T
  BY <1>2
<1>4. ASSUME NEW n \in T PROVE n + 1 \in T
  <2>1. \A x \in Nat : x > 0 => Radix * x > 0
    BY <1>1
  <2> QED BY <1>2, <1>4, <2>1
<1>5. T = Nat
  <2>1. T \in SUBSET Nat
    OBVIOUS
  <2> HIDE DEF T
  <2> QED BY <1>3, <1>4, <2>1, Induction
<1>6. \A n \in Nat : Power(Radix, n) > 0
  BY <1>5
<1> QED BY <1>2, <1>6 DEF Width

\* The bytes of an integer.
LEMMA BigEndianBytes ==
  ASSUME NEW v \in Nat, NEW n \in Nat
  PROVE  BigEndian(v, n) \in Seq(Byte) /\ Reverse(BigEndian(v, n)) \in Seq(Byte)
<1>1. Radix \in Nat /\ Radix > 0
  BY ByteBufferAssumption DEF Radix
<1> DEFINE s == BigEndian(v, n)
<1>2. ASSUME NEW i \in 1 .. n PROVE (v \div Width(n - i)) % Radix \in Byte
  <2>1. Width(n - i) \in Nat \ {0}
    BY WidthPositive
  <2>2. \A w \in Nat \ {0} : v \div w \in Int
    OBVIOUS
  <2>3. \A x \in Int : x % Radix \in 0 .. Radix - 1
    BY <1>1
  <2> QED BY <2>1, <2>2, <2>3 DEF Byte
<1>3. s = [i \in 1 .. n |-> (v \div Width(n - i)) % Radix]
  BY DEF BigEndian
<1> HIDE DEF s
<1>4. s \in Seq(Byte) /\ Len(s) = n
  BY <1>2, <1>3
<1>5. \A i \in 1 .. n : s[(n - i) + 1] \in Byte
  BY <1>4
<1>6. [i \in 1 .. n |-> s[(n - i) + 1]] \in Seq(Byte)
  BY <1>5
<1>7. Reverse(s) = [i \in 1 .. n |-> s[(n - i) + 1]]
  BY <1>4 DEF Reverse
<1> QED BY <1>4, <1>6, <1>7 DEF s

\* What can be read, copied out.
LEMMA CopyOutBytes ==
  ASSUME RingOK, NEW n \in 0 .. GetReadableSpace
  PROVE  CopyOut(read, n) \in Seq(Byte) /\ Len(CopyOut(read, n)) = n
<1>1. n \in 0 .. Size - 1
  BY Spaces, ByteBufferAssumption
<1>2. /\ CopyOut(read, n) = Segment(read, Advance(read, n))
      /\ Advance(read, n) \in Positions /\ Distance(read, Advance(read, n)) = n
  BY <1>1, CopyOutIs, AdvanceIs DEF RingOK
<1> QED BY <1>2, SegmentIs DEF RingOK

\* A VarInt at the cursor is no longer than the data.
LEMMA VarLenIs ==
  ASSUME RingOK
  PROVE  VarLen \in 0 .. GetReadableSpace /\ GetReadableSpace \in 0 .. Size - 1
<1>1. GetReadableSpace \in Nat /\ GetReadableSpace \in 0 .. Size - 1
  BY Spaces, ByteBufferAssumption
<1> DEFINE n == GetReadableSpace
           s == CopyOut(read, n)
           I == {i \in 1 .. Len(s) : s[i] < B}
<1>2. Len(s) = n
  BY <1>1, CopyOutBytes
<1>3. VarLen = IF I # {} THEN Min(I) ELSE 0
  BY DEF VarLen, SelectInSeq
<1>4. I # {} => Min(I) \in I
  <2>1. I \in SUBSET (1 .. n)
    BY <1>2
  <2> HIDE DEF I, n
  <2> QED BY <1>1, <2>1, Extremes DEF n
<1> QED BY <1>1, <1>2, <1>3, <1>4

\* Whatever a VarInt is read as is a number.
LEMMA VarValuesType ==
  ASSUME NEW s \in Seq(Byte), NEW width \in Nat \ {0}
  PROVE  VarValues(s, width) \subseteq 0 .. width - 1
<1>1. s \in Seq(Nat)
  <2>1. Byte \subseteq Nat
    BY ByteBufferAssumption DEF Byte, Radix
  <2> QED BY <2>1, SeqMonotonic
<1>2. Value(s) \in Nat
  BY <1>1, ValueFacts
<1>3. Value(s) % width \in 0 .. width - 1
  BY <1>2
<1> QED BY <1>3 DEF VarValues, Value

-----------------------------------------------------------------------------
(***************************************************************************)
(* One lemma per group of calls.                                           *)
(***************************************************************************)
\* What a call does to the queue and what it leaves of the types.
Good == RingOK' /\ io' \in Calls /\ Fifo!Next

\* Only WriteVarInt keeps an integer in a call to write.
Plain == io.op = "write" => io.val = <<>>

LEMMA WriteGood ==
  ASSUME RingOK, NEW s \in Chunks, Write(s)
  PROVE  Good /\ Plain'
<1>1. s \in Seq(Byte) /\ <<>> \in Seq(Nat)
  BY ByteBufferAssumption
<1>2. Put(s, <<>>) /\ io'.val = <<>>
  BY DEF Write, Put, Returns
<1> QED BY <1>1, <1>2, PutStep DEF Good, Plain, Fifo!Next

LEMMA WriteBEGood ==
  ASSUME RingOK, NEW n \in Widths, NEW v \in VarInts, WriteBE(v, n) \/ WriteLE(v)
  PROVE  Good /\ Plain'
<1>1. v \in Nat /\ n \in Nat /\ IntBytes \in Nat /\ <<>> \in Seq(Nat)
  <2>1. LongBytes \in Nat /\ ShortBytes \in Nat /\ IntBytes \in Nat
    BY ByteBufferAssumption
  <2>2. Width(LongBytes) \in Nat
    BY <2>1, WidthPositive
  <2>3. v \in 0 .. Width(LongBytes) - 1
    BY ByteBufferAssumption
  <2> QED BY <2>1, <2>2, <2>3 DEF Widths
<1>2. PICK s \in Seq(Byte) : Put(s, <<>>)
  BY <1>1, BigEndianBytes DEF WriteBE, WriteLE
<1>3. io'.val = <<>>
  BY <1>2 DEF Put, Returns
<1> QED BY <1>1, <1>2, <1>3, PutStep DEF Good, Plain, Fifo!Next

\* n bytes of the array f from a on.
Copied(f, a, n) == [i \in 1 .. n |-> IF i <= Size - a THEN f[a + i - 1]
                                     ELSE f[i - (Size - a) - 1]]

\* The integer can be read back from where it was put.
LEMMA WriteVarIntGood ==
  ASSUME RingOK, NEW v \in VarInts, WriteVarInt(v)
  PROVE  Good /\ WrittenIntsDecode'
<1>1. Size \in Nat /\ Size > 0
  BY ByteBufferAssumption
<1>2. v \in Nat /\ v < Width(LongBytes) /\ Width(LongBytes) \in Nat
  <2>1. LongBytes \in Nat
    BY ByteBufferAssumption
  <2>2. Width(LongBytes) \in Nat
    BY <2>1, WidthPositive
  <2>3. v \in 0 .. Width(LongBytes) - 1
    BY ByteBufferAssumption
  <2> QED BY <2>2, <2>3
<1> DEFINE s == Encode[v]
           k == Len(s)
<1>3. s \in Seq(Byte) /\ Put(s, <<v>>) /\ <<v>> \in Seq(Nat)
  BY <1>2, EncodeFacts DEF WriteVarInt
<1>4. IsVarInt(s, v)
  BY <1>2, EncodeIsVarInt
<1>5. Good
  <2> HIDE DEF s
  <2> QED BY <1>3, PutStep DEF Good, Fifo!Next
<1>6. TypeOK'
  BY <1>5 DEF Good, RingOK, Calls, TypeOK
<1>7. ASSUME CanWriteBytes(k)
      PROVE  /\ k \in 1 .. GetReadableSpace'
             /\ Copied(buf', (write' + Size - k) % Size, k) = s
  <2>1. /\ k \in Nat /\ k >= 1 /\ k <= GetFreeSpace
        /\ buf' = CopyIn(write, s) /\ write' = Advance(write, k) /\ UNCHANGED <<start, read>>
    BY <1>3, <1>4, <1>7 DEF IsVarInt, Put, CanWriteBytes
  <2>2. /\ Rest' = Rest \o s /\ \A j \in 1 .. k : At(buf', write, j) = s[j]
        /\ RingOK'
    BY <1>3, <2>1, Writes
  <2>3. k \in 0 .. Size - 1
    BY <1>1, <2>1, Spaces
  <2>4. (write' + Size - k) % Size = write
    <3> HIDE DEF s, k
    <3>1. write' = IF write + k < Size THEN write + k ELSE write + k - Size
      BY <2>1, <2>3, AdvanceIs DEF RingOK
    <3>2. PICK x \in 0 .. 2 * Size - 1 : x = write' + Size - k
      BY <1>1, <2>3, <3>1 DEF RingOK, Positions
    <3>3. x % Size = IF x < Size THEN x ELSE x - Size
      BY Wrap
    <3>4. (IF x < Size THEN x ELSE x - Size) = write
      BY <1>1, <2>3, <3>1, <3>2 DEF RingOK, Positions
    <3>5. x % Size = write
      BY <3>3, <3>4
    <3>6. write' + Size - k \in Int
      BY <3>2
    <3> QED BY <1>1, <3>2, <3>5, <3>6
  <2>5. Copied(buf', write, k) = s
    <3>1. ASSUME NEW j \in 1 .. k
          PROVE  (IF j <= Size - write THEN buf'[write + j - 1]
                  ELSE buf'[j - (Size - write) - 1]) = s[j]
      <4>1. j <= Size - write <=> write + j - 1 < Size
        BY <1>1, <2>1 DEF RingOK, Positions
      <4>2. j - (Size - write) - 1 = write + j - 1 - Size
        BY <1>1, <2>1 DEF RingOK, Positions
      <4> QED BY <2>2, <4>1, <4>2 DEF At
    <3>2. Copied(buf', write, k) = [j \in 1 .. k |-> s[j]]
      BY <3>1 DEF Copied
    <3>3. s = [j \in 1 .. k |-> s[j]]
      BY <1>3
    <3> QED BY <3>2, <3>3
  <2>6. k <= GetReadableSpace' /\ GetReadableSpace' \in Int
    <3>1. GetReadableSpace' = Distance(read', write')
      <4>1. /\ Distance(read', write') = IF write' >= read' THEN write' - read'
                                         ELSE write' + Size - read'
            /\ write' \in Positions /\ read' \in Positions
        BY <2>2, DistanceIs DEF RingOK
      <4> QED BY <1>1, <4>1 DEF GetReadableSpace, Positions
    <3>2. Rest' = Seg(buf', read', write')
      BY DEF Rest, Segment, Seg, Distance
    <3>3. Len(Rest') = Distance(read', write')
      <4>1. buf' \in [Positions -> Byte] /\ write' \in Positions /\ read' \in Positions
        BY <2>2 DEF RingOK
      <4> QED BY <3>2, <4>1, SegIs
    <3>4. Rest \in Seq(Byte)
      BY Spaces
    <3>5. Len(Rest \o s) = Len(Rest) + k /\ Len(Rest) \in Nat
      BY <1>3, <3>4
    <3> QED BY <2>1, <2>2, <3>1, <3>3, <3>5
  <2> QED BY <2>1, <2>4, <2>5, <2>6
<1>8. SelectInSeq(s, LAMBDA b : b < B) = k
  <2> DEFINE I == {i \in 1 .. k : s[i] < B}
  <2>1. SelectInSeq(s, LAMBDA b : b < B) = IF I # {} THEN Min(I) ELSE 0
    BY DEF SelectInSeq
  <2>2. I = {k} /\ k \in Nat /\ k >= 1
    <3>1. /\ k \in Nat /\ k >= 1 /\ s[k] < B /\ \A i \in 1 .. k - 1 : s[i] >= B
          /\ B \in Nat /\ \A i \in 1 .. k : s[i] \in Byte
      BY <1>3, <1>4, ByteBufferAssumption DEF IsVarInt
    <3>2. Byte \subseteq Nat
      BY ByteBufferAssumption DEF Byte, Radix
    <3> HIDE DEF s, k
    <3>3. \A i \in 1 .. k : s[i] < B => i = k
      <4> SUFFICES ASSUME NEW i \in 1 .. k, i # k PROVE ~(s[i] < B)
        BY <3>1
      <4>1. k \in Nat /\ s[i] \in Byte /\ B \in Nat
        BY <3>1
      <4>2. i \in 1 .. k - 1
        BY <4>1
      <4>3. s[i] >= B
        BY <3>1, <4>2
      <4>4. s[i] \in Nat
        BY <3>2, <4>1
      <4> QED BY <4>1, <4>3, <4>4
    <3>4. k \in 1 .. k
      BY <3>1
    <3>5. k \in I
      BY <3>1, <3>4
    <3>6. \A i \in I : i = k
      BY <3>3
    <3> HIDE DEF I
    <3> QED BY <3>1, <3>5, <3>6
  <2> HIDE DEF I, k, s
  <2>3. k .. k = {k}
    BY <2>2
  <2>4. k \in Nat /\ 1 <= k /\ k <= k
    BY <2>2
  <2>5. Min(k .. k) = k
    BY <2>4, Ends
  <2> QED BY <2>1, <2>2, <2>3, <2>5
<1>9. VarValues(s, Width(LongBytes)) = {v}
  <2>1. s \in Seq(Nat)
    <3>1. Byte \subseteq Nat
      BY ByteBufferAssumption DEF Byte, Radix
    <3> QED BY <1>3, <3>1, SeqMonotonic
  <2>2. Value(s) = v
    BY <1>4, <2>1, ValueFacts DEF IsVarInt
  <2>3. v % Width(LongBytes) = v
    BY <1>2
  <2>4. Power(B, k - 1) < Width(LongBytes)
    <3>1. CASE k = 1
      <4>1. B \in Nat /\ LongBytes \in Nat \ {0} /\ Radix \in Nat /\ Radix > 1
        BY ByteBufferAssumption DEF Radix
      <4>2. Power(B, 0) = 1
        BY <4>1, PowerFacts
      <4>3. Width(LongBytes) > 1
        <5>1. LongBytes - 1 \in Nat /\ (LongBytes - 1) + 1 = LongBytes
          BY <4>1
        <5>2. Power(Radix, LongBytes) = Radix * Power(Radix, LongBytes - 1)
          BY <4>1, <5>1, PowerFacts
        <5>3. Power(Radix, LongBytes - 1) \in Nat \ {0}
          BY <5>1, WidthPositive DEF Width
        <5>4. \A x \in Nat \ {0} : Radix * x > 1
          BY <4>1
        <5> QED BY <5>2, <5>3, <5>4 DEF Width
      <4> QED BY <3>1, <4>2, <4>3
    <3>2. CASE k # 1
      <4>1. Power(B, k - 1) <= v
        BY <1>4, <3>2 DEF IsVarInt
      <4>2. Power(B, k - 1) \in Nat
        <5>1. k - 1 \in Nat /\ B \in Nat
          BY <1>4, ByteBufferAssumption DEF IsVarInt
        <5> QED BY <5>1, PowerFacts
      <4> QED BY <1>2, <4>1, <4>2
    <3> QED BY <3>1, <3>2
  <2> QED BY <2>2, <2>3, <2>4 DEF VarValues, Value
<1>10. io' = Call("write", CanWriteBytes(k), <<v>>, s)
  BY <1>3 DEF Put, Returns, Call
<1>11. io'.ok = CanWriteBytes(k) /\ io'.val = <<v>> /\ <<v>>[1] = v
  BY <1>10 DEF Call
<1>12. \A j : CopyOut((write + Size - j) % Size, j)' = Copied(buf', (write' + Size - j) % Size, j)
  BY DEF CopyOut, Copied, TillEnd
<1> HIDE DEF s, k
<1>13. ASSUME io'.ok
       PROVE  \E j \in 1 .. GetReadableSpace' :
                LET c == CopyOut((write + Size - j) % Size, j)'
                IN /\ SelectInSeq(c, LAMBDA b : b < B) = j
                   /\ VarValues(c, Width(LongBytes)) = {io'.val[1]}
  <2>1. k \in 1 .. GetReadableSpace' /\ Copied(buf', (write' + Size - k) % Size, k) = s
    BY <1>7, <1>11, <1>13
  <2>2. CopyOut((write + Size - k) % Size, k)' = s
    BY <1>12, <2>1
  <2>3. VarValues(s, Width(LongBytes)) = {io'.val[1]}
    BY <1>9, <1>11
  <2> QED BY <1>8, <2>1, <2>2, <2>3
<1>14. (io'.op = "write" /\ io'.ok /\ io'.val # <<>>) =>
         \E j \in 1 .. GetReadableSpace' :
           LET c == CopyOut((write + Size - j) % Size, j)'
           IN /\ SelectInSeq(c, LAMBDA b : b < B) = j
              /\ VarValues(c, Width(LongBytes)) = {io'.val[1]}
  BY <1>13
<1>15. WrittenIntsDecode'
  BY <1>6, <1>14 DEF WrittenIntsDecode, SelectInSeq
<1> QED BY <1>5, <1>15

\* The prefix of a string is at least one byte, so that it alone is less than all.
LEMMA WriteVarUTF8StringGood ==
  ASSUME RingOK, NEW s \in Strings, WriteVarUTF8String(s)
  PROVE  Good /\ Plain'
<1> DEFINE c == Encode[Len(s) % Width(IntBytes)]
           t == c \o s
           ok == CanWriteBytes(Len(t))
<1>1. s \in Seq(Byte)
  BY ByteBufferAssumption
<1>2. Len(s) % Width(IntBytes) \in Nat
  <2>1. Width(IntBytes) \in Nat \ {0}
    BY WidthPositive, ByteBufferAssumption
  <2> QED BY <1>1, <2>1
<1>3. c \in Seq(Byte) /\ Len(c) \in Nat /\ Len(c) >= 1
  <2>1. c \in Seq(Byte)
    BY <1>2, EncodeFacts
  <2> QED BY <1>2, <2>1, EncodeIsVarInt DEF IsVarInt
<1>4. /\ \/ /\ ok
            /\ buf' = CopyIn(write, t) /\ write' = Advance(write, Len(t))
         \/ /\ ~ok /\ CanWriteBytes(Len(c))
            /\ buf' = CopyIn(write, c) /\ write' = Advance(write, Len(c))
         \/ /\ ~(CanWriteBytes(Len(s) + 1) /\ CanWriteBytes(Len(c)))
            /\ UNCHANGED <<buf, write>>
      /\ io' = Call("string", ok, <<>>, t)
      /\ UNCHANGED <<start, read>>
  BY DEF WriteVarUTF8String, Returns, Call
<1> HIDE DEF c
<1>5. /\ t \in Seq(Byte) /\ Len(t) = Len(c) + Len(s) /\ Len(s) \in Nat /\ Len(t) \in Nat
      /\ SubSeq(t, 1, Len(c)) = c /\ SubSeq(t, 1, 0) = <<>>
  <2>1. t \in Seq(Byte) /\ Len(t) = Len(c) + Len(s) /\ Len(s) \in Nat /\ Len(t) \in Nat
    BY <1>1, <1>3
  <2>2. SubSeq(t, 1, Len(c)) = c
    BY <1>1, <1>3, SubSeqOfConcat1
  <2>3. SubSeq(t, 1, 0) = <<>>
    BY <2>1
  <2> QED BY <2>1, <2>2, <2>3
<1>6. /\ GetFreeSpace = Size - 1 - (Len(Taken) + Len(Rest)) /\ GetFreeSpace \in Int
      /\ Len(Taken) \in Nat /\ Len(Rest) \in Nat /\ Size \in Nat
      /\ Taken \in Seq(Byte) /\ Rest \in Seq(Byte)
  BY Spaces, ByteBufferAssumption
<1> HIDE DEF t
<1>7. ok => CanWriteBytes(Len(s) + 1) /\ CanWriteBytes(Len(c))
  BY <1>3, <1>5, <1>6 DEF CanWriteBytes
<1>8. Fifo!Fits(t) = ok /\ ok \in BOOLEAN
  <2>1. Fifo!Fits(t) <=> ok
    BY <1>5, <1>6 DEF Fifo!Fits, CanWriteBytes, Taken, Rest
  <2> QED BY <2>1 DEF Fifo!Fits, CanWriteBytes
<1> HIDE DEF ok
<1>9. /\ io' \in Calls /\ io'.op = "string" /\ io'.ok = ok /\ io'.bytes = t
  BY <1>4, <1>5, <1>8 DEF Call, Calls
<1>10. /\ RingOK' /\ Taken' = Taken
       /\ IF ok THEN Rest' = Rest \o t
          ELSE \E k \in 0 .. Len(t) - 1 : Rest' = Rest \o SubSeq(t, 1, k)
  <2>1. CASE ok
    <3>1. Len(t) <= GetFreeSpace
      BY <2>1 DEF ok, CanWriteBytes
    <3>2. buf' = CopyIn(write, t) /\ write' = Advance(write, Len(t)) /\ UNCHANGED <<start, read>>
      BY <1>4, <1>7, <2>1
    <3>3. RingOK' /\ Taken' = Taken /\ Rest' = Rest \o t
      BY <1>5, <3>1, <3>2, Writes
    <3> QED BY <2>1, <3>3
  <2>2. CASE ~ok /\ CanWriteBytes(Len(c)) /\ buf' = CopyIn(write, c)
             /\ write' = Advance(write, Len(c))
    <3>1. Len(c) <= GetFreeSpace /\ UNCHANGED <<start, read>>
      BY <1>4, <2>2 DEF CanWriteBytes
    <3>2. RingOK' /\ Taken' = Taken /\ Rest' = Rest \o c
      BY <1>3, <2>2, <3>1, Writes
    <3>3. Len(c) # Len(t)
      BY <2>2 DEF ok
    <3>4. Len(c) \in 0 .. Len(t) - 1
      <4>1. Len(c) \in Nat /\ Len(s) \in Nat /\ Len(t) = Len(c) + Len(s)
        BY <1>3, <1>5
      <4> QED BY <3>3, <4>1
    <3> QED BY <1>5, <2>2, <3>2, <3>4
  <2>3. CASE ~ok /\ UNCHANGED <<buf, write>>
    <3>1. RingOK' /\ Taken' = Taken /\ Rest' = Rest
      BY <1>4, <2>3 DEF RingOK, Taken, Rest, Segment, Distance
    <3>2. Rest \o <<>> = Rest
      BY <1>6
    <3>3. 0 \in 0 .. Len(t) - 1
      BY <1>3, <1>5
    <3> QED BY <1>5, <2>3, <3>1, <3>2, <3>3
  <2> QED BY <1>4, <1>7, <2>1, <2>2, <2>3
<1>11. Fifo!WriteString
  BY <1>8, <1>9, <1>10 DEF Fifo!WriteString, Taken, Rest
<1> QED BY <1>9, <1>10, <1>11 DEF Good, Plain, Fifo!Next

\* A read of n bytes that takes all of them or does nothing.
Fixed(n, ok, val) ==
  /\ ok \in BOOLEAN /\ (ok => n \in 0 .. GetReadableSpace)
  /\ read' = IF ok THEN Advance(read, n) ELSE read
  /\ io' = Call("fixed", ok, val, IF ok THEN CopyOut(read, n) ELSE <<>>)
  /\ UNCHANGED <<buf, start, write>>

LEMMA FixedGood ==
  ASSUME RingOK, NEW n, NEW ok, NEW val \in Seq(Nat), Fixed(n, ok, val), ~ok => val = <<>>
  PROVE  Good /\ Plain'
<1>1. CASE ok
  <2>1. /\ n \in 0 .. GetReadableSpace /\ read' = Advance(read, n)
        /\ io' = Call("fixed", TRUE, val, CopyOut(read, n)) /\ UNCHANGED <<buf, start, write>>
    BY <1>1 DEF Fixed
  <2>2. RingOK' /\ io' \in Calls /\ Fifo!Take
    BY <2>1, TakeStep
  <2>3. io'.op = "fixed"
    BY <2>1 DEF Call
  <2> QED BY <2>2, <2>3 DEF Good, Plain, Fifo!Next
<1>2. CASE ~ok
  <2>1. io' = Call("fixed", FALSE, <<>>, <<>>) /\ UNCHANGED <<buf, start, write, read>>
    BY <1>2 DEF Fixed
  <2>2. RingOK' /\ io' \in Calls /\ Fifo!TakeNothing
    BY <2>1, RefuseStep
  <2>3. io'.op = "fixed"
    BY <2>1 DEF Call
  <2> QED BY <2>2, <2>3 DEF Good, Plain, Fifo!Next
<1> QED BY <1>1, <1>2

LEMMA ReadBufGood ==
  ASSUME RingOK, NEW n \in Counts, NEW room \in {0, Size},
         ReadBuf(n) \/ SkipRead(n) \/ ReadToByteBuffer(n, room)
  PROVE  Good /\ Plain'
<1>1. Size \in Nat /\ n \in Nat /\ GetReadableSpace \in Nat /\ GetReadableSpace \in 0 .. Size - 1
  BY ByteBufferAssumption, VarLenIs DEF Counts
<1>2. CanReadBytes(n) \in BOOLEAN /\ (CanReadBytes(n) => n \in 0 .. GetReadableSpace)
  BY <1>1 DEF CanReadBytes
<1>3. n \in 0 .. GetReadableSpace => AdvanceReadPos(n) = Advance(read, n)
  BY <1>1 DEF RingOK, Positions, AdvanceReadPos, Advance, TillEnd
<1>4. <<>> \in Seq(Nat)
  OBVIOUS
<1>5. CASE ReadBuf(n)
  <2>1. Fixed(n, CanReadBytes(n), <<>>)
    BY <1>2, <1>5 DEF Fixed, ReadBuf, Returns, Call
  <2> QED BY <1>4, <2>1, FixedGood
<1>6. CASE SkipRead(n)
  <2>1. Fixed(n, CanReadBytes(n), <<>>)
    BY <1>2, <1>3, <1>6 DEF Fixed, SkipRead, Returns, Call
  <2> QED BY <1>4, <2>1, FixedGood
<1>7. CASE ReadToByteBuffer(n, room)
  <2> DEFINE ok == n <= room /\ CanReadBytes(n)
  <2>1. Fixed(n, ok, <<>>)
    BY <1>2, <1>7 DEF Fixed, ReadToByteBuffer, Returns, Call
  <2> HIDE DEF ok
  <2> QED BY <1>4, <2>1, FixedGood
<1> QED BY <1>5, <1>6, <1>7

\* What the bytes stand for is a number, in either order.
LEMMA BytesValue ==
  ASSUME NEW s \in Seq(Byte)
  PROVE  FromBigEndian(s) \in Nat /\ FromBigEndian(Reverse(s)) \in Nat
<1>1. Byte \subseteq Nat
  BY ByteBufferAssumption DEF Byte, Radix
<1>2. Reverse(s) \in Seq(Byte)
  <2> DEFINE n == Len(s)
  <2>1. n \in Nat /\ \A i \in 1 .. n : s[(n - i) + 1] \in Byte
    OBVIOUS
  <2>2. Reverse(s) = [i \in 1 .. n |-> s[(n - i) + 1]]
    BY DEF Reverse
  <2> HIDE DEF n
  <2> QED BY <2>1, <2>2
<1>3. s \in Seq(Nat) /\ Reverse(s) \in Seq(Nat)
  BY <1>1, <1>2, SeqMonotonic
<1> QED BY <1>3, BigEndianType

LEMMA ReadBEGood ==
  ASSUME RingOK, NEW n \in Widths, ReadBE(n) \/ ReadLE \/ ReadRefused(n)
  PROVE  Good /\ Plain'
<1>1. n \in Nat /\ IntBytes \in Nat /\ GetReadableSpace \in Nat
  BY ByteBufferAssumption, VarLenIs DEF Widths
<1>2. CASE ReadBE(n)
  <2> DEFINE s == CopyOut(read, n)
  <2>1. n \in 0 .. GetReadableSpace
    BY <1>1, <1>2 DEF ReadBE, CanReadBytes
  <2>2. s \in Seq(Byte)
    BY <2>1, CopyOutBytes
  <2>3. /\ read' = Advance(read, n) /\ UNCHANGED <<buf, start, write>>
        /\ io' = Call("fixed", TRUE, <<FromBigEndian(s)>>, s)
    BY <1>2 DEF ReadBE, Returns, Call
  <2>4. Fixed(n, TRUE, <<FromBigEndian(s)>>)
    BY <2>1, <2>3 DEF Fixed
  <2> HIDE DEF s
  <2>5. <<FromBigEndian(s)>> \in Seq(Nat)
    BY <2>2, BytesValue
  <2> QED BY <2>4, <2>5, FixedGood
<1>3. CASE ReadLE
  <2> DEFINE s == CopyOut(read, IntBytes)
  <2>1. IntBytes \in 0 .. GetReadableSpace
    BY <1>1, <1>3 DEF ReadLE, CanReadBytes
  <2>2. s \in Seq(Byte)
    BY <2>1, CopyOutBytes
  <2>3. /\ read' = Advance(read, IntBytes) /\ UNCHANGED <<buf, start, write>>
        /\ io' = Call("fixed", TRUE, <<FromBigEndian(Reverse(s))>>, s)
    BY <1>3 DEF ReadLE, Returns, Call
  <2>4. Fixed(IntBytes, TRUE, <<FromBigEndian(Reverse(s))>>)
    BY <2>1, <2>3 DEF Fixed
  <2> HIDE DEF s
  <2>5. <<FromBigEndian(Reverse(s))>> \in Seq(Nat)
    BY <2>2, BytesValue
  <2> QED BY <2>4, <2>5, FixedGood
<1>4. CASE ReadRefused(n)
  <2>1. io' = Call("fixed", FALSE, <<>>, <<>>) /\ UNCHANGED <<buf, start, write, read>>
    BY <1>4 DEF ReadRefused, Returns, Call
  <2>2. RingOK' /\ io' \in Calls /\ Fifo!TakeNothing
    BY <2>1, RefuseStep
  <2>3. io'.op = "fixed"
    BY <2>1 DEF Call
  <2> QED BY <2>2, <2>3 DEF Good, Plain, Fifo!Next
<1> QED BY <1>2, <1>3, <1>4

\* A read of a prefixed value: n bytes are taken and given, or k of them are lost.
LEMMA VarGood ==
  ASSUME RingOK, NEW n \in 0 .. GetReadableSpace, read' = Advance(read, n),
         UNCHANGED <<buf, start, write>>, NEW val \in Seq(Nat),
         \/ io' = Call("var", TRUE, val, CopyOut(read, n))
         \/ io' = Call("var", FALSE, <<>>, <<>>)
  PROVE  Good /\ Plain'
<1>1. CASE io' = Call("var", TRUE, val, CopyOut(read, n))
  <2>1. RingOK' /\ io' \in Calls /\ Fifo!Take
    BY <1>1, TakeStep
  <2>2. io'.op = "var"
    BY <1>1 DEF Call
  <2> QED BY <2>1, <2>2 DEF Good, Plain, Fifo!Next
<1>2. CASE io' = Call("var", FALSE, <<>>, <<>>)
  <2>1. RingOK' /\ io' \in Calls /\ Fifo!TakePart
    BY <1>2, CutStep
  <2>2. io'.op = "var"
    BY <1>2 DEF Call
  <2> QED BY <2>1, <2>2 DEF Good, Plain, Fifo!Next
<1> QED BY <1>1, <1>2

LEMMA ReadVarIntGood ==
  ASSUME RingOK, NEW width \in Nat \ {0}, NEW target \in Nat \ {0}, ReadVarInt(width, target)
  PROVE  Good /\ Plain'
<1> DEFINE s == CopyOut(read, VarLen)
<1>1. VarLen \in 0 .. GetReadableSpace
  BY VarLenIs
<1>2. s \in Seq(Byte)
  BY <1>1, CopyOutBytes
<1>3. PICK v \in VarValues(s, width) : io' = Call("var", TRUE, <<v % target>>, s)
  BY DEF ReadVarInt, Returns, Call
<1>4. read' = Advance(read, VarLen) /\ UNCHANGED <<buf, start, write>>
  BY DEF ReadVarInt
<1>5. <<v % target>> \in Seq(Nat)
  <2>1. v \in 0 .. width - 1
    <3> HIDE DEF s
    <3> QED BY <1>2, VarValuesType
  <2>2. v % target \in Nat
    BY <2>1
  <2> QED BY <2>2
<1> QED BY <1>1, <1>3, <1>4, <1>5, VarGood

\* All that is there has been read.
LEMMA ReadVarIntCutGood ==
  ASSUME RingOK, ReadVarIntCut
  PROVE  Good /\ Plain'
<1> DEFINE n == GetReadableSpace
<1>1. n \in 0 .. GetReadableSpace /\ n \in 0 .. Size - 1 /\ Size \in Nat
  BY VarLenIs, ByteBufferAssumption
<1>2. write = Advance(read, n)
  BY <1>1 DEF RingOK, Positions, Advance, TillEnd, GetReadableSpace
<1>3. /\ read' = Advance(read, n) /\ UNCHANGED <<buf, start, write>>
      /\ io' = Call("var", FALSE, <<>>, <<>>)
  BY <1>2 DEF ReadVarIntCut, Returns, Call
<1>4. <<>> \in Seq(Nat)
  OBVIOUS
<1> HIDE DEF n
<1> QED BY <1>1, <1>3, <1>4, VarGood

LEMMA ReadPrefixedGood ==
  ASSUME RingOK, NEW k \in 0 .. GetReadableSpace, NEW n \in Nat, ReadPrefixed(k, n)
  PROVE  Good /\ Plain'
<1>1. GetReadableSpace \in 0 .. Size - 1 /\ Size \in Nat /\ GetReadableSpace \in Nat
  BY VarLenIs, ByteBufferAssumption
<1>2. UNCHANGED <<buf, start, write>> /\ <<>> \in Seq(Nat)
  BY DEF ReadPrefixed
<1>3. CASE n <= GetReadableSpace - k
  <2>1. k + n \in 0 .. GetReadableSpace
    BY <1>1, <1>3
  <2>2. Advance(Advance(read, k), n) = Advance(read, k + n)
    BY <1>1, <2>1 DEF RingOK, Positions, Advance, TillEnd
  <2>3. read' = Advance(read, k + n) /\ io' = Call("var", TRUE, <<>>, CopyOut(read, k + n))
    BY <1>3, <2>2 DEF ReadPrefixed, Returns, Call
  <2> QED BY <1>2, <2>1, <2>3, VarGood
<1>4. CASE ~(n <= GetReadableSpace - k)
  <2>1. read' = Advance(read, k) /\ io' = Call("var", FALSE, <<>>, <<>>)
    BY <1>4 DEF ReadPrefixed, Returns, Call
  <2> QED BY <1>2, <2>1, VarGood
<1> QED BY <1>3, <1>4

LEMMA ReadStringGood ==
  ASSUME RingOK, ReadVarUTF8String \/ ReadBEUTF16String16
  PROVE  Good /\ Plain'
<1>1. CASE ReadVarUTF8String
  <2> DEFINE s == CopyOut(read, VarLen)
  <2>1. VarLen \in 0 .. GetReadableSpace
    BY VarLenIs
  <2>2. s \in Seq(Byte)
    BY <2>1, CopyOutBytes
  <2>3. PICK v \in VarValues(s, Width(LongBytes)) : ReadPrefixed(VarLen, v % Width(IntBytes))
    BY <1>1 DEF ReadVarUTF8String
  <2>4. Width(LongBytes) \in Nat \ {0} /\ Width(IntBytes) \in Nat \ {0}
    BY WidthPositive, ByteBufferAssumption
  <2>5. v \in Nat
    <3> HIDE DEF s
    <3>1. v \in 0 .. Width(LongBytes) - 1
      BY <2>2, <2>4, VarValuesType
    <3> QED BY <2>4, <3>1
  <2>6. v % Width(IntBytes) \in Nat
    BY <2>4, <2>5
  <2> QED BY <2>1, <2>3, <2>6, ReadPrefixedGood
<1>2. CASE ReadBEUTF16String16
  <2> DEFINE s == CopyOut(read, ShortBytes)
  <2>1. ShortBytes \in 0 .. GetReadableSpace
    BY <1>2, VarLenIs, ByteBufferAssumption DEF ReadBEUTF16String16, CanReadBytes
  <2>2. s \in Seq(Byte)
    BY <2>1, CopyOutBytes
  <2>3. ReadPrefixed(ShortBytes, 2 * FromBigEndian(s))
    BY <1>2 DEF ReadBEUTF16String16
  <2> HIDE DEF s
  <2>4. 2 * FromBigEndian(s) \in Nat
    BY <2>2, BytesValue
  <2> QED BY <2>1, <2>3, <2>4, ReadPrefixedGood
<1> QED BY <1>1, <1>2

\* Nothing lies between a position and itself.
LEMMA Empty ==
  ASSUME NEW a \in Positions
  PROVE  Distance(a, a) = 0 /\ \A f : Seg(f, a, a) = <<>>
<1>1. Distance(a, a) = 0
  <2>1. Distance(a, a) = IF a >= a THEN a - a ELSE a + Size - a
    BY DistanceIs
  <2> QED BY <2>1, ByteBufferAssumption DEF Positions
<1>2. \A f : Seg(f, a, a) = <<>>
  BY <1>1 DEF Seg
<1> QED BY <1>1, <1>2

\* The refinement mapping in the next state.
LEMMA NextMapping ==
  /\ Taken' = Seg(buf', start', read') /\ Rest' = Seg(buf', read', write')
  /\ \A a, b : Segment(a, b) = Seg(buf, a, b)
  /\ \A a, b : Distance(a, b) = (b + Size - a) % Size
  /\ Distance(start, read)' = Distance(start', read')
  /\ Distance(start, write)' = Distance(start', write')
BY DEF Taken, Rest, Segment, Seg, Distance

LEMMA CommitReadGood ==
  ASSUME RingOK, CommitRead
  PROVE  Good /\ Plain'
<1>1. start' = read /\ UNCHANGED <<buf, write, read>> /\ io' = Call("commit", TRUE, <<>>, <<>>)
  BY DEF CommitRead, Returns, Call
<1>2. io' \in Calls /\ io'.op = "commit"
  BY <1>1 DEF Call, Calls
<1>3. Distance(read, read) = 0 /\ Distance(read, write) \in Nat
  BY Empty, DistanceIs DEF RingOK
<1>4. RingOK'
  BY <1>1, <1>3, NextMapping DEF RingOK
<1>5. Taken' = <<>> /\ Rest' = Rest
  BY <1>1, Empty, NextMapping DEF RingOK, Rest
<1>6. Fifo!Commit
  BY <1>2, <1>5 DEF Fifo!Commit, Taken, Rest
<1> QED BY <1>2, <1>4, <1>6 DEF Good, Plain, Fifo!Next

LEMMA ResetReadGood ==
  ASSUME RingOK, ResetRead
  PROVE  Good /\ Plain'
<1>1. read' = start /\ UNCHANGED <<buf, write, start>> /\ io' = Call("reset", TRUE, <<>>, <<>>)
  BY DEF ResetRead, Returns, Call
<1>2. io' \in Calls /\ io'.op = "reset"
  BY <1>1 DEF Call, Calls
<1>3. Distance(start, start) = 0 /\ Distance(start, write) \in Nat
  BY Empty, DistanceIs DEF RingOK
<1>4. RingOK'
  BY <1>1, <1>3, NextMapping DEF RingOK
<1>5. Taken' = <<>> /\ Rest' = Segment(start, write)
  BY <1>1, Empty, NextMapping DEF RingOK
<1>6. Segment(start, write) = Taken \o Rest
  BY SegmentJoin DEF RingOK, Taken, Rest
<1>7. Fifo!Reset
  BY <1>2, <1>5, <1>6 DEF Fifo!Reset, Taken, Rest
<1> QED BY <1>2, <1>4, <1>7 DEF Good, Plain, Fifo!Next

\* The two branches of ReadAgain give the bytes from the start to the cursor.
LEMMA UncommittedIs ==
  ASSUME RingOK
  PROVE  Uncommitted = Taken
<1>1. /\ Size \in Nat /\ Size > 0 /\ buf \in [Positions -> Byte]
      /\ start \in 0 .. Size - 1 /\ read \in 0 .. Size - 1
  BY ByteBufferAssumption DEF RingOK, Positions
<1> DEFINE m == Distance(start, read)
<1>2. /\ Taken \in Seq(Byte) /\ Len(Taken) = m
      /\ \A k \in 1 .. m : Taken[k] = At(buf, start, k)
  BY SegmentIs DEF RingOK, Taken
<1>3. m = IF read >= start THEN read - start ELSE read + Size - start
  BY DistanceIs DEF RingOK
<1> HIDE DEF m
<1>4. CASE read < start
  <2> DEFINE p == Size - start
             x == [k \in 1 .. p |-> buf[start + k - 1]]
             y == [k \in 1 .. read |-> buf[k - 1]]
  <2>1. p \in Nat /\ read \in Nat /\ m = p + read
    BY <1>1, <1>3, <1>4
  <2>2. x \in Seq(Byte) /\ Len(x) = p
    <3>1. \A k \in 1 .. p : buf[start + k - 1] \in Byte
      BY <1>1 DEF Positions
    <3> HIDE DEF p
    <3> QED BY <2>1, <3>1
  <2>3. y \in Seq(Byte) /\ Len(y) = read
    <3>1. \A k \in 1 .. read : buf[k - 1] \in Byte
      BY <1>1 DEF Positions
    <3> QED BY <2>1, <3>1
  <2>4. /\ \A k \in 1 .. p : x[k] = buf[start + k - 1]
        /\ \A k \in 1 .. read : y[k] = buf[k - 1]
    OBVIOUS
  <2>5. Uncommitted = x \o y
    BY <1>4 DEF Uncommitted
  <2> HIDE DEF x, y
  <2>6. x \o y \in Seq(Byte) /\ Len(x \o y) = m
    BY <2>1, <2>2, <2>3
  <2>7. ASSUME NEW k \in 1 .. m PROVE (x \o y)[k] = Taken[k]
    <3>1. k \in Nat /\ Taken[k] = At(buf, start, k)
      BY <1>2, <2>1
    <3>2. CASE k <= p
      <4>1. k \in 1 .. p /\ start + k - 1 < Size
        BY <1>1, <2>1, <3>2
      <4>2. (x \o y)[k] = x[k]
        BY <2>2, <2>3, <4>1, ConcatProperties
      <4> QED BY <2>4, <3>1, <4>1, <4>2 DEF At
    <3>3. CASE ~(k <= p)
      <4>1. k - p \in 1 .. read /\ ~(start + k - 1 < Size) /\ k - p - 1 = start + k - 1 - Size
        BY <1>1, <2>1, <3>3
      <4>2. (x \o y)[k] = y[k - p]
        <5>1. k \in 1 .. Len(x) + Len(y) /\ ~(k <= Len(x)) /\ k - Len(x) = k - p
          BY <2>1, <2>2, <2>3, <3>3
        <5> HIDE DEF p
        <5> QED BY <2>2, <2>3, <5>1, ConcatProperties
      <4>3. y[k - p] = buf[k - p - 1]
        BY <2>4, <4>1
      <4> QED BY <3>1, <4>1, <4>2, <4>3 DEF At
    <3> QED BY <3>2, <3>3
  <2> HIDE DEF p
  <2> QED BY <1>2, <2>5, <2>6, <2>7, SameBytes
<1>5. CASE ~(read < start)
  <2> DEFINE x == [k \in 1 .. m |-> buf[start + k - 1]]
  <2>1. m \in Nat /\ m = read - start
    BY <1>1, <1>3, <1>5
  <2>2. Uncommitted = x
    BY <1>5, <2>1 DEF Uncommitted
  <2>3. \A k \in 1 .. m : At(buf, start, k) = buf[start + k - 1]
    BY <1>1, <2>1 DEF At
  <2>4. \A k \in 1 .. m : Taken[k] = buf[start + k - 1]
    BY <1>2, <2>3
  <2>5. Taken = [k \in 1 .. m |-> Taken[k]]
    BY <1>2
  <2> QED BY <2>2, <2>4, <2>5
<1> QED BY <1>4, <1>5

LEMMA ReadAgainGood ==
  ASSUME RingOK, ReadAgain
  PROVE  Good /\ Plain'
<1>1. /\ UNCHANGED <<buf, start, write, read>>
      /\ io' = Call("again", TRUE, <<>>, Taken)
  BY UncommittedIs DEF ReadAgain, Returns, Call
<1>2. RingOK' /\ Taken' = Taken /\ Rest' = Rest
  BY <1>1 DEF RingOK, Taken, Rest, Segment, Distance
<1>3. Taken \in Seq(Byte)
  BY Spaces
<1>4. io' \in Calls /\ io'.op = "again" /\ io'.bytes = Taken
  BY <1>1, <1>3 DEF Call, Calls
<1>5. Fifo!ReadAgain
  BY <1>2, <1>4 DEF Fifo!ReadAgain, Taken, Rest
<1> QED BY <1>2, <1>4, <1>5 DEF Good, Plain, Fifo!Next

LEMMA ClearAllGood ==
  ASSUME RingOK, ClearAll
  PROVE  Good /\ Plain'
<1>1. /\ start' = 0 /\ write' = 0 /\ read' = 0 /\ buf' = buf
      /\ io' = Call("clear", TRUE, <<>>, <<>>)
  BY DEF ClearAll, Returns, Call
<1>2. 0 \in Positions
  BY ByteBufferAssumption DEF Positions
<1>3. io' \in Calls /\ io'.op = "clear"
  BY <1>1 DEF Call, Calls
<1>4. Distance(0, 0) = 0
  BY <1>2, Empty
<1>5. RingOK'
  BY <1>1, <1>2, <1>4, NextMapping DEF RingOK
<1>6. Taken' = <<>> /\ Rest' = <<>>
  BY <1>1, <1>2, Empty, NextMapping
<1>7. Fifo!Clear
  BY <1>3, <1>6 DEF Fifo!Clear, Taken, Rest
<1> QED BY <1>3, <1>5, <1>7 DEF Good, Plain, Fifo!Next

-----------------------------------------------------------------------------
(***************************************************************************)
(* The theorems.                                                           *)
(***************************************************************************)
LEMMA InitOK ==
  ASSUME Init
  PROVE  RingOK /\ io \in Calls /\ Plain /\ Fifo!Init
<1>1. 0 \in Positions
  BY ByteBufferAssumption DEF Positions
<1>2. Distance(0, 0) = 0 /\ Segment(0, 0) = <<>>
  BY <1>1, Empty, NextMapping
<1>3. io \in Calls /\ io.op = "new"
  BY DEF Init, Calls
<1>4. RingOK /\ Plain
  BY <1>1, <1>2, <1>3 DEF Init, RingOK, Plain
<1>5. Fifo!Init
  BY <1>2, <1>3 DEF Init, Fifo!Init
<1> QED BY <1>3, <1>4, <1>5

LEMMA NextGood ==
  ASSUME RingOK, Next
  PROVE  Good /\ (Plain' \/ WrittenIntsDecode')
<1>1. \A n \in {IntBytes, LongBytes} : Width(n) \in Nat \ {0}
  BY ByteBufferAssumption, WidthPositive
<1>2. 1 \in Widths
  BY DEF Widths
<1>3. CASE \E s \in Chunks : Write(s)
  BY <1>3, WriteGood
<1>4. CASE \E n \in Widths : \E v \in VarInts : WriteBE(v, n)
  BY <1>4, WriteBEGood
<1>5. CASE \E v \in VarInts : WriteLE(v) \/ WriteVarInt(v)
  BY <1>2, <1>5, WriteBEGood, WriteVarIntGood
<1>6. CASE \E s \in Strings : WriteVarUTF8String(s)
  BY <1>6, WriteVarUTF8StringGood
<1>7. CASE \E n \in Counts : ReadBuf(n) \/ SkipRead(n)
  BY <1>7, ReadBufGood
<1>8. CASE \E n \in Counts : \E room \in {0, Size} : ReadToByteBuffer(n, room)
  BY <1>8, ReadBufGood
<1>9. CASE \/ \E n \in Widths : ReadBE(n) \/ ReadRefused(n)
           \/ ReadLE
  BY <1>2, <1>9, ReadBEGood
<1>10. CASE \/ \E target \in {Width(IntBytes), Width(LongBytes)} :
                 ReadVarInt(Width(LongBytes), target)
            \/ ReadVarInt(Width(IntBytes), Width(IntBytes))
  BY <1>1, <1>10, ReadVarIntGood
<1>11. CASE ReadVarIntCut
  BY <1>11, ReadVarIntCutGood
<1>12. CASE ReadVarUTF8String \/ ReadBEUTF16String16
  BY <1>12, ReadStringGood
<1>13. CASE CommitRead \/ ResetRead \/ ReadAgain \/ ClearAll
  BY <1>13, CommitReadGood, ResetReadGood, ReadAgainGood, ClearAllGood
<1> QED BY <1>3, <1>4, <1>5, <1>6, <1>7, <1>8, <1>9, <1>10, <1>11, <1>12, <1>13 DEF Next

\* The inductive invariant: the ring is in order, the last call is a call, and an
\* integer it put into the buffer can be read back.
Inv == RingOK /\ io \in Calls /\ WrittenIntsDecode

LEMMA PlainDecodes ==
  ASSUME RingOK, io \in Calls, Plain
  PROVE  WrittenIntsDecode
<1>1. TypeOK
  BY Types
<1> QED BY <1>1 DEF WrittenIntsDecode, Plain, SelectInSeq

LEMMA InvHolds == Spec => []Inv
<1>1. Init => Inv
  BY InitOK, PlainDecodes DEF Inv
<1>2. Inv /\ [Next]_vars => Inv'
  <2> SUFFICES ASSUME Inv, [Next]_vars PROVE Inv'
    OBVIOUS
  <2>1. CASE Next
    <3>1. RingOK' /\ io' \in Calls /\ (Plain' \/ WrittenIntsDecode')
      BY <2>1, NextGood DEF Inv, Good
    <3>2. CASE Plain'
      <4>1. TypeOK'
        BY <3>1 DEF RingOK, Calls, TypeOK
      <4>2. WrittenIntsDecode'
        BY <3>2, <4>1 DEF WrittenIntsDecode, Plain, SelectInSeq
      <4> QED BY <3>1, <4>2 DEF Inv
    <3> QED BY <3>1, <3>2 DEF Inv
  <2>2. CASE UNCHANGED vars
    <3>1. RingOK' /\ io' \in Calls /\ TypeOK'
      BY <2>2 DEF vars, Inv, RingOK, Distance, WrittenIntsDecode, TypeOK
    <3>2. WrittenIntsDecode'
      BY <2>2, <3>1 DEF vars, Inv, WrittenIntsDecode, SelectInSeq, GetReadableSpace,
                        CopyOut, TillEnd
    <3> QED BY <3>1, <3>2 DEF Inv
  <2> QED BY <2>1, <2>2
<1> QED BY <1>1, <1>2, PTL DEF Spec

\* Whatever the calls and their order, the three positions of a cByteBuffer stay inside
\* the array and the read position stays between the start of the data and the write
\* position, around the end too (the ASSERTs of CheckValid).
THEOREM TypeCorrect == Spec => []TypeOK
<1>1. Inv => TypeOK
  BY Types DEF Inv
<1> QED BY <1>1, InvHolds, PTL

\* Every integer below the width of a UInt64 that WriteVarInt32 or WriteVarInt64 has put
\* into the ring, across its end or not, is found by the loop of ReadVarInt64 to end where
\* it was written to end, and has the value that was written.
THEOREM IntsDecode == Spec => []WrittenIntsDecode
<1>1. Inv => WrittenIntsDecode
  BY DEF Inv
<1> QED BY <1>1, InvHolds, PTL

\* For every size of the array, the ring with its three positions is the bounded queue
\* of ByteFifo: no call of cByteBuffer loses, reorders or overwrites a byte that was
\* written and not committed, and ReadAgain, ResetRead and CommitRead see the same bytes.
THEOREM Refinement == Spec => ImplementsByteFifo
<1>1. Init => Fifo!Init
  BY InitOK
<1>2. Inv /\ [Next]_vars => [Fifo!Next]_Fifo!vars
  <2> SUFFICES ASSUME Inv, [Next]_vars PROVE [Fifo!Next]_Fifo!vars
    OBVIOUS
  <2>1. CASE Next
    BY <2>1, NextGood DEF Inv, Good
  <2>2. CASE UNCHANGED vars
    BY <2>2 DEF vars, Fifo!vars, Segment, Distance
  <2> QED BY <2>1, <2>2
<1> QED BY <1>1, <1>2, InvHolds, PTL DEF Spec, ImplementsByteFifo, Fifo!Spec

=============================================================================
