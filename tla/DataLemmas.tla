----------------------------- MODULE DataLemmas -----------------------------
(***************************************************************************)
(* Facts about the data the kernel works on: what the list operations of   *)
(* the scheduler do to the set of threads on a queue, for queues without   *)
(* duplicates, and how registers and counters add modulo their range.      *)
(***************************************************************************)
EXTENDS Integers, SequencesExt, SequenceTheorems, WellFoundedInduction, TLAPS

(* Enqueuing (list_add_last) adds the element and keeps the queue a set. *)
LEMMA EnqueueLemma ==
    ASSUME NEW S, NEW q \in Seq(S), NEW e \in S
    PROVE  /\ Append(q, e) \in Seq(S)
           /\ Range(Append(q, e)) = Range(q) \cup {e}
           /\ IsInjective(q) /\ e \notin Range(q) => IsInjective(Append(q, e))
<1> DEFINE a == Append(q, e)
<1>1. /\ a \in Seq(S)
      /\ Len(a) = Len(q) + 1
      /\ \A i \in 1 .. Len(q) : a[i] = q[i]
      /\ a[Len(q) + 1] = e
  BY AppendProperties
<1>2. DOMAIN a = 1 .. Len(q) + 1 /\ DOMAIN q = 1 .. Len(q) /\ Len(q) \in Nat
  BY <1>1, LenProperties
<1> HIDE DEF a
<1>3. Range(a) = Range(q) \cup {e}
  BY <1>1, <1>2 DEF Range
<1>4. IsInjective(q) /\ e \notin Range(q) => IsInjective(a)
  BY <1>1, <1>2 DEF IsInjective, Range
<1> QED  BY <1>1, <1>3, <1>4 DEF a

(* Taking the first element (list_remove_first) removes just that element. *)
LEMMA DequeueLemma ==
    ASSUME NEW S, NEW q \in Seq(S), q # <<>>
    PROVE  /\ Head(q) \in S
           /\ Head(q) \in Range(q)
           /\ Tail(q) \in Seq(S)
           /\ IsInjective(q) => /\ IsInjective(Tail(q))
                                /\ Range(Tail(q)) = Range(q) \ {Head(q)}
<1> DEFINE u == Tail(q)
<1>1. /\ Head(q) \in S
      /\ u \in Seq(S)
      /\ Len(u) = Len(q) - 1
      /\ \A i \in 1 .. Len(u) : u[i] = q[i + 1]
  BY HeadTailProperties
<1>2. /\ DOMAIN u = 1 .. Len(q) - 1
      /\ DOMAIN q = 1 .. Len(q)
      /\ Len(q) \in Nat \ {0}
  BY <1>1, LenProperties, EmptySeq
<1>3. Head(q) = q[1]
  OBVIOUS
<1> HIDE DEF u
<1>4. Head(q) \in Range(q)
  BY <1>2, <1>3 DEF Range
<1>5. ASSUME IsInjective(q)
      PROVE  IsInjective(u) /\ Range(u) = Range(q) \ {Head(q)}
  <2>1. ASSUME NEW i \in DOMAIN u
        PROVE  i + 1 \in DOMAIN q /\ i + 1 # 1 /\ i \in Nat /\ u[i] = q[i + 1]
    BY <1>1, <1>2
  <2>2. ASSUME NEW i \in DOMAIN u, NEW j \in DOMAIN u, u[i] = u[j]
        PROVE  i = j
    <3>1. i + 1 = j + 1
      BY <2>1, <2>2, <1>5 DEF IsInjective
    <3> QED  BY <2>1, <3>1
  <2>3. ASSUME NEW i \in DOMAIN u
        PROVE  u[i] \in Range(q) \ {Head(q)}
    <3>1. 1 \in DOMAIN q
      BY <1>2
    <3>2. q[i + 1] # q[1]
      BY <2>1, <3>1, <1>5 DEF IsInjective
    <3> QED  BY <2>1, <3>2, <1>3 DEF Range
  <2>4. ASSUME NEW x \in Range(q) \ {Head(q)}
        PROVE  x \in Range(u)
    <3>1. PICK i \in 1 .. Len(q) : x = q[i]
      BY <1>2 DEF Range
    <3>2. i # 1
      BY <3>1, <1>3
    <3>3. i - 1 \in DOMAIN u /\ u[i - 1] = x
      BY <1>1, <1>2, <3>1, <3>2
    <3> QED  BY <3>3 DEF Range
  <2> QED  BY <2>2, <2>3, <2>4 DEF Range, IsInjective
<1> QED  BY <1>1, <1>4, <1>5 DEF u

(* Unlinking closes the gap: what stood behind position i moves up by one. *)
LEMMA UnlinkPositions ==
    ASSUME NEW S, NEW q \in Seq(S), NEW i \in 1 .. Len(q)
    PROVE  /\ RemoveAt(q, i) \in Seq(S)
           /\ Len(RemoveAt(q, i)) = Len(q) - 1
           /\ \A j \in 1 .. Len(q) - 1 :
                RemoveAt(q, i)[j] = IF j < i THEN q[j] ELSE q[j + 1]
<1> DEFINE l == SubSeq(q, 1, i - 1)
           r == SubSeq(q, i + 1, Len(q))
           u == RemoveAt(q, i)
<1>1. Len(q) \in Nat /\ DOMAIN q = 1 .. Len(q) /\ \A j \in 1 .. Len(q) : q[j] \in S
  BY LenProperties, ElementOfSeq
<1>2. /\ l \in Seq(S)
      /\ Len(l) = i - 1
      /\ \A j \in 1 .. i - 1 : l[j] = q[j]
  <2>1. \A j \in 1 .. i - 1 : q[j] \in S
    BY <1>1
  <2>2. /\ l \in Seq(S)
        /\ Len(l) = IF 1 <= i - 1 THEN i - 1 - 1 + 1 ELSE 0
        /\ \A j \in 1 .. i - 1 - 1 + 1 : l[j] = q[1 + j - 1]
    BY <1>1, <2>1, SubSeqProperties
  <2> QED  BY <1>1, <2>2
<1>3. /\ r \in Seq(S)
      /\ Len(r) = Len(q) - i
      /\ \A j \in 1 .. Len(q) - i : r[j] = q[i + j]
  <2>1. \A j \in i + 1 .. Len(q) : q[j] \in S
    BY <1>1
  <2>2. /\ r \in Seq(S)
        /\ Len(r) = IF i + 1 <= Len(q) THEN Len(q) - (i + 1) + 1 ELSE 0
        /\ \A j \in 1 .. Len(q) - (i + 1) + 1 : r[j] = q[i + 1 + j - 1]
    BY <1>1, <2>1, SubSeqProperties
  <2> HIDE DEF r
  <2>3. Len(r) = Len(q) - i
    <3>1. Len(r) = IF i + 1 <= Len(q) THEN Len(q) - (i + 1) + 1 ELSE 0
      BY <2>2
    <3>2. Len(q) \in Nat /\ i \in 1 .. Len(q)
      BY <1>1
    <3>3. CASE i + 1 <= Len(q)
      BY <3>1, <3>2, <3>3
    <3>4. CASE i = Len(q)
      BY <3>1, <3>2, <3>4
    <3> QED  BY <3>2, <3>3, <3>4
  <2>4. ASSUME NEW j \in 1 .. Len(q) - i  PROVE r[j] = q[i + j]
    <3>1. j \in 1 .. Len(q) - (i + 1) + 1 /\ i + 1 + j - 1 = i + j
      BY <1>1
    <3> QED  BY <2>2, <3>1
  <2> QED  BY <2>2, <2>3, <2>4
<1>4. u = l \o r
  BY DEF RemoveAt
<1> HIDE DEF l, r, u
<1>5. /\ u \in Seq(S)
      /\ Len(u) = Len(q) - 1
      /\ \A j \in 1 .. Len(q) - 1 : u[j] = IF j < i THEN q[j] ELSE q[j + 1]
  <2>1. /\ u \in Seq(S)
        /\ Len(u) = Len(l) + Len(r)
        /\ \A j \in 1 .. Len(l) + Len(r) :
                u[j] = IF j <= Len(l) THEN l[j] ELSE r[j - Len(l)]
    BY <1>2, <1>3, <1>4, ConcatProperties
  <2>2. ASSUME NEW j \in 1 .. Len(q) - 1
        PROVE  u[j] = IF j < i THEN q[j] ELSE q[j + 1]
    <3>. /\ j \in 1 .. Len(l) + Len(r)
         /\ u[j] = IF j <= i - 1 THEN l[j] ELSE r[j - (i - 1)]
      <4>1. j \in 1 .. Len(l) + Len(r)
        BY <1>1, <1>2, <1>3
      <4> QED  BY <4>1, <1>2, <2>1
    <3>1. CASE j < i
      <4>1. j <= i - 1 /\ j \in 1 .. i - 1
        BY <3>1
      <4> QED  BY <4>1, <1>2, <3>1
    <3>2. CASE j >= i
      <4>1. u[j] = r[j - (i - 1)]
        BY <3>2
      <4>2. j - (i - 1) \in 1 .. Len(q) - i /\ i + (j - (i - 1)) = j + 1
        BY <1>1, <3>2
      <4> QED  BY <4>1, <4>2, <1>3, <3>2
    <3> QED  BY <1>1, <3>1, <3>2
  <2> QED  BY <1>1, <1>2, <1>3, <2>1, <2>2
<1> QED  BY <1>5 DEF u

(* Unlinking the element at position i (list_remove) removes just that. *)
LEMMA UnlinkLemma ==
    ASSUME NEW S, NEW q \in Seq(S), NEW i \in 1 .. Len(q)
    PROVE  /\ q[i] \in S
           /\ q[i] \in Range(q)
           /\ RemoveAt(q, i) \in Seq(S)
           /\ Len(RemoveAt(q, i)) = Len(q) - 1
           /\ IsInjective(q) => /\ IsInjective(RemoveAt(q, i))
                                /\ Range(RemoveAt(q, i)) = Range(q) \ {q[i]}
<1> DEFINE u == RemoveAt(q, i)
<1>1. Len(q) \in Nat /\ DOMAIN q = 1 .. Len(q) /\ \A j \in 1 .. Len(q) : q[j] \in S
  BY LenProperties, ElementOfSeq
<1>2. /\ u \in Seq(S)
      /\ Len(u) = Len(q) - 1
      /\ \A j \in 1 .. Len(q) - 1 : u[j] = IF j < i THEN q[j] ELSE q[j + 1]
  BY UnlinkPositions
<1> HIDE DEF u
<1>3. DOMAIN u = 1 .. Len(q) - 1
  BY <1>2, LenProperties
<1>4. ASSUME IsInjective(q)
      PROVE  IsInjective(u) /\ Range(u) = Range(q) \ {q[i]}
  <2> DEFINE at(j) == IF j < i THEN j ELSE j + 1
  <2>1. ASSUME NEW j \in DOMAIN u
        PROVE  /\ at(j) \in DOMAIN q /\ at(j) # i /\ j \in Nat
               /\ u[j] = q[at(j)]
    BY <1>1, <1>2, <1>3
  <2>2. ASSUME NEW j \in DOMAIN u, NEW k \in DOMAIN u, u[j] = u[k]
        PROVE  j = k
    <3>1. at(j) = at(k)
      BY <2>1, <2>2, <1>4 DEF IsInjective
    <3> QED  BY <2>1, <3>1
  <2>3. ASSUME NEW j \in DOMAIN u
        PROVE  u[j] \in Range(q) \ {q[i]}
    <3>1. q[at(j)] # q[i]
      BY <1>1, <2>1, <1>4 DEF IsInjective
    <3> QED  BY <2>1, <3>1 DEF Range
  <2>4. ASSUME NEW x \in Range(q) \ {q[i]}
        PROVE  x \in Range(u)
    <3>1. PICK k \in 1 .. Len(q) : x = q[k]
      BY <1>1 DEF Range
    <3>2. CASE k < i
      <4>1. k \in DOMAIN u /\ u[k] = x
        BY <1>1, <1>2, <1>3, <3>1, <3>2
      <4> QED  BY <4>1 DEF Range
    <3>3. CASE k > i
      <4>1. k - 1 \in DOMAIN u /\ u[k - 1] = x
        BY <1>1, <1>2, <1>3, <3>1, <3>3
      <4> QED  BY <4>1 DEF Range
    <3> QED  BY <1>1, <3>1, <3>2, <3>3
  <2> QED  BY <2>2, <2>3, <2>4 DEF Range, IsInjective
<1>5. q[i] \in S /\ q[i] \in Range(q)
  BY <1>1 DEF Range
<1> QED  BY <1>2, <1>4, <1>5 DEF u

-----------------------------------------------------------------------------
(* A remainder is in range and differs from the number by a multiple. *)
LEMMA RemainderLemma ==
    ASSUME NEW m \in Nat \ {0}, NEW a \in Int
    PROVE  /\ a % m \in 0 .. m - 1
           /\ a \div m \in Int
           /\ a = m * (a \div m) + (a % m)
OBVIOUS

(* Two remainders that differ by a multiple of the modulus are the same. *)
LEMMA NoMultipleBetween ==
    ASSUME NEW m \in Nat \ {0}, NEW k \in Int, NEW x \in 0 .. m - 1,
           NEW y \in 0 .. m - 1, k * m + x = y
    PROVE  x = y
<1>1. CASE k >= 1
  <2>1. (k - 1) * m >= 0
    BY <1>1
  <2>2. k * m = (k - 1) * m + m
    OBVIOUS
  <2> QED  BY <2>1, <2>2
<1>2. CASE k <= -1
  <2>1. (-1 - k) * m >= 0
    BY <1>2
  <2>2. k * m = -((-1 - k) * m) - m
    OBVIOUS
  <2> QED  BY <2>1, <2>2
<1>3. CASE k = 0
  BY <1>3
<1> QED  BY <1>1, <1>2, <1>3

(* Adding multiples of the modulus does not change the remainder. *)
LEMMA SameRemainder ==
    ASSUME NEW m \in Nat \ {0}, NEW a \in Int, NEW k \in Int
    PROVE  (a + k * m) % m = a % m
<1> DEFINE b == a + k * m
           x == a % m
           q == a \div m
           y == b % m
           p == b \div m
<1>1. b \in Int
  OBVIOUS
<1>2. a = m * q + x /\ q \in Int /\ x \in 0 .. m - 1
  BY RemainderLemma
<1>3. b = m * p + y /\ p \in Int /\ y \in 0 .. m - 1
  <2> HIDE DEF b
  <2> QED  BY <1>1, RemainderLemma
<1> HIDE DEF q, p, x, y
<1>4. (q + k - p) * m + x = y /\ q + k - p \in Int
  BY <1>2, <1>3
<1>5. x = y
  BY <1>2, <1>3, <1>4, NoMultipleBetween
<1> QED  BY <1>5 DEF x, y

(* Adding to a remainder is adding to the number. *)
LEMMA RemainderOfSum ==
    ASSUME NEW m \in Nat \ {0}, NEW a \in Int, NEW n \in Int
    PROVE  ((a % m) + n) % m = (a + n) % m
<1> DEFINE x == a % m
           q == a \div m
<1>1. a = m * q + x /\ q \in Int /\ x \in Int
  BY RemainderLemma
<1> HIDE DEF x, q
<1>2. (x + n) + q * m = a + n /\ x + n \in Int
  BY <1>1
<1>3. ((x + n) + q * m) % m = (x + n) % m
  BY <1>1, <1>2, SameRemainder
<1> QED  BY <1>2, <1>3 DEF x

(* One full turn of a counter brings it back. *)
LEMMA OneTurn ==
    ASSUME NEW m \in Nat \ {0}, NEW a \in Int
    PROVE  (a + m) % m = a % m
<1>1. PICK k \in Int : k = 1
  OBVIOUS
<1>2. (a + k * m) % m = a % m
  BY SameRemainder
<1>3. k * m = m
  BY <1>1
<1> QED  BY <1>2, <1>3

(* Numbers in the range, and the next range up, wrap around at most once. *)
LEMMA WrapOnce ==
    ASSUME NEW m \in Nat \ {0}, NEW a \in 0 .. 2 * m - 1
    PROVE  a % m = IF a < m THEN a ELSE a - m
<1>1. CASE a < m
  BY <1>1
<1>2. CASE a >= m
  <2> DEFINE b == a - m
  <2>1. b \in 0 .. m - 1 /\ b + m = a /\ b \in Int
    BY <1>2
  <2> HIDE DEF b
  <2>2. b % m = b
    BY <2>1
  <2>3. (b + m) % m = b % m
    BY <2>1, OneTurn
  <2> QED  BY <1>2, <2>1, <2>2, <2>3
<1> QED  BY <1>1, <1>2

(* A distance shorter than the modulus changes the remainder. *)
LEMMA OtherRemainder ==
    ASSUME NEW m \in Nat \ {0}, NEW a \in Int, NEW d \in 1 .. m - 1
    PROVE  (a + d) % m # a % m
<1> DEFINE x == a % m
           q == a \div m
           p == (a + d) \div m
<1>1. a = m * q + x /\ q \in Int /\ x \in 0 .. m - 1
  BY RemainderLemma
<1>2. /\ a + d = m * p + ((a + d) % m) /\ p \in Int
      /\ a + d \in Int
  BY RemainderLemma
<1> HIDE DEF q, p, x
<1>3. SUFFICES ASSUME (a + d) % m = x PROVE FALSE
  BY DEF x
<1>4. (q - p) * m + d = 0 /\ q - p \in Int
  BY <1>1, <1>2, <1>3
<1>5. d = 0
  BY <1>4, NoMultipleBetween
<1> QED  BY <1>5

-----------------------------------------------------------------------------
(* A set of natural numbers that is not empty has a least element. *)
LEMMA LeastNat ==
    ASSUME NEW T \in SUBSET Nat, T # {}
    PROVE  \E x \in T : \A y \in T : x <= y
<1> DEFINE R == OpToRel(<, Nat)
<1>1. IsWellFoundedOn(R, Nat)
  BY NatLessThanWellFounded
<1>2. \A x, y \in Nat : <<x, y>> \in R <=> x < y
  BY DEF OpToRel
<1> HIDE DEF R
<1>3. PICK x \in T : \A y \in T : ~ (<<y, x>> \in R)
  BY <1>1, WFMin
<1>4. \A y \in T : x <= y
  <2> TAKE y \in T
  <2>1. x \in Nat /\ y \in Nat
    OBVIOUS
  <2>2. ~ (y < x)
    BY <1>2, <1>3, <2>1
  <2> QED  BY <2>1, <2>2
<1> QED  BY <1>4

(* Induction, with the set of the numbers that have the property. *)
LEMMA SetInduction ==
    ASSUME NEW T, 0 \in T, \A n \in Nat : n \in T => n + 1 \in T
    PROVE  \A n \in Nat : n \in T
<1> DEFINE C == {n \in Nat : n \notin T}
<1> SUFFICES ASSUME C # {} PROVE FALSE
  OBVIOUS
<1>1. PICK x \in C : \A y \in C : x <= y
  BY LeastNat
<1>2. x # 0 /\ x \in Nat
  OBVIOUS
<1>3. x - 1 \in Nat /\ x - 1 \notin C
  BY <1>1, <1>2
<1>4. (x - 1) + 1 \in T
  BY <1>3
<1> QED  BY <1>2, <1>4

(* The values of n rounds, the first a and each made from the last by h. *)
History(g, n, a, h) ==
    g = [k \in 0 .. n |-> IF k = 0 THEN a ELSE h[k][g[k - 1]]]

(* There are such values, whatever is done in the rounds. *)
LEMMA HistoryExists ==
    ASSUME NEW V, NEW a \in V, NEW h \in [Nat -> [V -> V]]
    PROVE  \A n \in Nat : \E g \in [0 .. n -> V] : History(g, n, a, h)
<1> DEFINE Is(g, n) == History(g, n, a, h)
           T == {n \in Nat : \E g \in [0 .. n -> V] : Is(g, n)}
<1>1. 0 \in T
  <2> DEFINE g == [k \in 0 .. 0 |-> a]
  <2>1. g \in [0 .. 0 -> V] /\ Is(g, 0)
    BY DEF History
  <2> HIDE DEF g, Is
  <2> QED  BY <2>1
<1>2. ASSUME NEW n \in Nat, n \in T
      PROVE  n + 1 \in T
  <2>1. PICK g \in [0 .. n -> V] : Is(g, n)
    BY <1>2
  <2> DEFINE e == [k \in 0 .. n + 1 |-> IF k = n + 1 THEN h[n + 1][g[n]] ELSE g[k]]
  <2>2. \A k \in 0 .. n : g[k] = IF k = 0 THEN a ELSE h[k][g[k - 1]]
    <3> TAKE j \in 0 .. n
    <3>1. g[j] = [k \in 0 .. n |-> IF k = 0 THEN a ELSE h[k][g[k - 1]]][j]
      BY <2>1 DEF History
    <3> QED  BY <3>1
  <2>3. e \in [0 .. n + 1 -> V]
    OBVIOUS
  <2>4. \A k \in 0 .. n + 1 : e[k] = IF k = 0 THEN a ELSE h[k][e[k - 1]]
    <3> TAKE k \in 0 .. n + 1
    <3>1. CASE k = n + 1
      BY <3>1
    <3>2. CASE k # n + 1
      <4>1. k \in 0 .. n /\ (k # 0 => k - 1 \in 0 .. n /\ k - 1 # n + 1)
        BY <3>2
      <4>2. e[k] = g[k] /\ (k # 0 => e[k - 1] = g[k - 1])
        BY <4>1, <3>2
      <4> HIDE DEF e
      <4> QED  BY <4>1, <4>2, <2>2
    <3> QED  BY <3>1, <3>2
  <2> HIDE DEF e
  <2>5. Is(e, n + 1)
    BY <2>3, <2>4 DEF History
  <2> HIDE DEF Is
  <2> QED  BY <2>3, <2>5
<1> HIDE DEF T
<1>3. \A n \in Nat : n \in T
  BY <1>1, <1>2, SetInduction
<1> QED  BY <1>3 DEF T
=============================================================================
