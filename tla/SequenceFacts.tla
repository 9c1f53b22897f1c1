--------------------------- MODULE SequenceFacts ---------------------------
(***************************************************************************)
(* Lemmas about Subsequences that the proofs of several components use,    *)
(* and the least element of a set of naturals, which is how they do        *)
(* induction.                                                              *)
(***************************************************************************)
EXTENDS Subsequences, FiniteSetTheorems, SequenceTheorems, WellFoundedInduction, TLAPS

\* A nonempty set of naturals has a least element.
LEMMA LeastNat ==
    ASSUME NEW T, T \subseteq Nat, T # {}
    PROVE  \E x \in T : \A y \in T : x <= y
<1>1. PICK x \in T : \A y \in T : ~ (<<y, x>> \in OpToRel(<, Nat))
  BY NatLessThanWellFounded, WFMin
<1>2. \A y \in T : ~(y < x)
  BY <1>1 DEF OpToRel
<1> QED
  BY <1>2

\* f is a on m, and goes from each value to the next by the step.
Steps(f, m, n, X, a, step) ==
    /\ f \in [m .. n -> X] /\ f[m] = a
    /\ \A d \in m .. n : d # m => f[d] = step[d][f[d - 1]]

\* A function may be defined by its first value and a step from each value to the
\* next.
LEMMA RecursionExists ==
    ASSUME NEW m \in Nat, NEW n \in Nat, m <= n, NEW X, NEW a \in X,
           NEW step \in [Nat -> [X -> X]]
    PROVE  \E f : Steps(f, m, n, X, a, step)
<1> DEFINE is(f, e) == Steps(f, m, e, X, a, step)
           T == {e \in m .. n : ~ \E f : is(f, e)}
<1>1. SUFFICES ASSUME T # {} PROVE FALSE
  <2>1. n \in m .. n
    OBVIOUS
  <2> QED
    BY <2>1
<1>2. PICK e \in T : \A y \in T : e <= y
  <2>1. T \subseteq Nat
    OBVIOUS
  <2> HIDE DEF T
  <2> QED
    BY <1>1, <2>1, LeastNat
<1>3. CASE e = m
  <2>1. is([i \in m .. m |-> a], m)
    <3>1. m \in m .. m /\ \A d \in m .. m : d = m
      OBVIOUS
    <3> QED
      BY <3>1 DEF Steps
  <2> QED
    BY <1>3, <2>1
<1>4. CASE e # m
  <2>1. e \in Nat /\ e - 1 \in m .. n /\ e \in m .. n /\ ~(e <= e - 1)
    BY <1>4
  <2>2. PICK f : is(f, e - 1)
    BY <1>2, <2>1
  <2> DEFINE h == [i \in m .. e |-> IF i = e THEN step[e][f[e - 1]] ELSE f[i]]
  <2>3. \A i \in m .. e : i # e => i \in m .. e - 1
    BY <2>1
  <2>4. f[e - 1] \in X
    BY <2>1, <2>2 DEF Steps
  <2>5. step[e][f[e - 1]] \in X
    BY <2>1, <2>4
  <2>6. h \in [m .. e -> X]
    BY <2>2, <2>3, <2>5 DEF Steps
  <2>7. h[m] = a
    <3>1. m \in m .. e /\ m # e
      BY <1>4, <2>1
    <3> QED
      BY <2>2, <3>1 DEF Steps
  <2>8. ASSUME NEW d \in m .. e, d # m PROVE h[d] = step[d][h[d - 1]]
    <3>1. d \in m .. e /\ d - 1 \in m .. e /\ d - 1 # e
      BY <2>1, <2>8
    <3>2. h[d - 1] = f[d - 1]
      BY <3>1
    <3>3. CASE d = e
      BY <3>1, <3>2, <3>3
    <3>4. CASE d # e
      <4>1. d \in m .. e - 1
        BY <2>1, <3>4
      <4>2. f[d] = step[d][f[d - 1]]
        BY <2>2, <2>8, <4>1 DEF Steps
      <4>3. h[d] = f[d]
        BY <3>1, <3>4
      <4> QED
        BY <3>2, <4>2, <4>3
    <3> QED
      BY <3>3, <3>4
  <2>9. is(h, e)
    <3> HIDE DEF h
    <3> QED
      BY <2>6, <2>7, <2>8 DEF Steps
  <2> QED
    BY <2>9
<1> QED
  BY <1>3, <1>4

LEMMA UpToCounted ==
    ASSUME NEW n \in Nat
    PROVE  IsFiniteSet(1 .. n) /\ Cardinality(1 .. n) = n
<1>1. 1 \in Int /\ n \in Int
  OBVIOUS
<1>2. IsFiniteSet(1 .. n) /\ Cardinality(1 .. n) = IF 1 > n THEN 0 ELSE n - 1 + 1
  BY <1>1, FS_Interval
<1>3. (IF 1 > n THEN 0 ELSE n - 1 + 1) = n
  OBVIOUS
<1> QED
  BY <1>2, <1>3

-----------------------------------------------------------------------------
(* Positions picked from a sequence.                                       *)

Below(S, i) == {j \in S : j < i}

\* What is below a position of a finite set, and with the position itself.
LEMMA BelowCounted ==
    ASSUME NEW S, S \subseteq Nat, IsFiniteSet(S), NEW i \in S
    PROVE  /\ IsFiniteSet(Below(S, i)) /\ Cardinality(Below(S, i)) \in Nat
           /\ Cardinality(Below(S, i) \cup {i}) = Cardinality(Below(S, i)) + 1
           /\ IsFiniteSet(Below(S, i) \cup {i}) /\ Below(S, i) \cup {i} \subseteq S
<1>1. Below(S, i) \subseteq S /\ i \notin Below(S, i)
  BY DEF Below
<1>2. IsFiniteSet(Below(S, i)) /\ Cardinality(Below(S, i)) \in Nat
  BY <1>1, FS_Subset, FS_CardinalityType
<1>3. /\ IsFiniteSet(Below(S, i) \cup {i})
      /\ Cardinality(Below(S, i) \cup {i}) =
           IF i \in Below(S, i) THEN Cardinality(Below(S, i)) ELSE Cardinality(Below(S, i)) + 1
  BY <1>2, FS_AddElement
<1> QED
  BY <1>1, <1>2, <1>3

\* A set has as many positions as it has elements, whatever their values.
LEMMA NthExists ==
    ASSUME NEW S, S \subseteq Nat, IsFiniteSet(S), NEW k \in 1 .. Cardinality(S)
    PROVE  \E i \in S : Cardinality(Below(S, i)) = k - 1
<1>0. Cardinality(S) \in Nat
  BY FS_CardinalityType
<1> DEFINE T == {l \in 1 .. Cardinality(S) : ~ \E i \in S : Cardinality(Below(S, i)) = l - 1}
<1> SUFFICES ASSUME T # {} PROVE FALSE
  OBVIOUS
<1>1. PICK l \in T : \A y \in T : l <= y
  <2>1. T \subseteq Nat
    BY <1>0
  <2> HIDE DEF T
  <2> QED
    BY <2>1, LeastNat
<1>2. l \in Nat /\ l >= 1 /\ l <= Cardinality(S) /\ ~ \E i \in S : Cardinality(Below(S, i)) = l - 1
  BY <1>0, <1>1
<1>3. CASE l = 1
  <2>1. S # {}
    <3>1. Cardinality({}) = 0
      BY FS_EmptySet
    <3>2. Cardinality(S) # 0
      BY <1>0, <1>2
    <3> QED
      BY <3>1, <3>2
  <2>2. PICK i \in S : \A y \in S : i <= y
    <3> HIDE DEF T
    <3>1. S \subseteq Nat
      OBVIOUS
    <3> QED
      BY <2>1, <3>1, LeastNat
  <2>3. Below(S, i) = {}
    <3>1. \A y \in S : ~(y < i)
      BY <2>2
    <3> QED
      BY <3>1 DEF Below
  <2>4. Cardinality(Below(S, i)) = l - 1
    BY <1>3, <2>3, FS_EmptySet
  <2> QED
    BY <1>2, <2>4
<1>4. CASE l # 1
  <2>1. l - 1 \in 1 .. Cardinality(S) /\ ~(l <= l - 1)
    BY <1>0, <1>2, <1>4
  <2>2. l - 1 \notin T
    BY <1>1, <2>1
  <2>3. PICK i \in S : Cardinality(Below(S, i)) = (l - 1) - 1
    BY <2>1, <2>2
  <2> DEFINE U == Below(S, i) \cup {i}
  <2>4. Cardinality(U) = l - 1 /\ U \subseteq S
    <3>1. Cardinality(U) = Cardinality(Below(S, i)) + 1 /\ U \subseteq S
      BY BelowCounted
    <3>2. ((l - 1) - 1) + 1 = l - 1
      BY <1>2
    <3> QED
      BY <2>3, <3>1, <3>2
  <2>5. S \ U # {}
    <3> SUFFICES ASSUME S \ U = {} PROVE FALSE
      OBVIOUS
    <3>1. U = S
      BY <2>4
    <3>2. Cardinality(S) = l - 1
      BY <2>4, <3>1
    <3> QED
      BY <1>0, <1>2, <3>2
  <2>6. PICK h \in S \ U : \A y \in S \ U : h <= y
    <3>1. S \ U \subseteq Nat
      OBVIOUS
    <3> HIDE DEF U
    <3> QED
      BY <2>5, <3>1, LeastNat
  <2>7. Below(S, h) = U
    <3>1. i < h
      BY <2>6 DEF Below
    <3>2. \A y \in S : y < h => y \in U
      BY <2>6
    <3>3. \A y \in U : y < h
      BY <3>1 DEF Below
    <3> QED
      BY <2>4, <3>2, <3>3 DEF Below
  <2> QED
    BY <1>2, <2>4, <2>6, <2>7
<1> QED
  BY <1>3, <1>4

\* No two positions have the same number of positions below.
LEMMA BelowDiffers ==
    ASSUME NEW S, S \subseteq Nat, IsFiniteSet(S), NEW i \in S, NEW j \in S, i < j
    PROVE  Cardinality(Below(S, i)) < Cardinality(Below(S, j))
<1>1. Below(S, i) \cup {i} \subseteq Below(S, j)
  <2>1. \A h \in S : h < i => h < j
    OBVIOUS
  <2> QED
    BY <2>1 DEF Below
<1>2. Cardinality(Below(S, i) \cup {i}) <= Cardinality(Below(S, j))
  BY <1>1, BelowCounted, FS_Subset
<1>3. /\ Cardinality(Below(S, i)) \in Nat /\ Cardinality(Below(S, j)) \in Nat
      /\ Cardinality(Below(S, i) \cup {i}) = Cardinality(Below(S, i)) + 1
  BY BelowCounted
<1> QED
  BY <1>2, <1>3

LEMMA NthIs ==
    ASSUME NEW S, S \subseteq Nat, IsFiniteSet(S)
    PROVE  /\ Cardinality(S) \in Nat
           /\ \A k \in 1 .. Cardinality(S) :
                 Nth(S, k) \in S /\ Cardinality(Below(S, Nth(S, k))) = k - 1
           /\ \A i \in S :
                 /\ Cardinality(Below(S, i)) + 1 \in 1 .. Cardinality(S)
                 /\ Nth(S, Cardinality(Below(S, i)) + 1) = i
<1>1. Cardinality(S) \in Nat
  BY FS_CardinalityType
<1>2. ASSUME NEW k \in 1 .. Cardinality(S)
      PROVE  Nth(S, k) \in S /\ Cardinality(Below(S, Nth(S, k))) = k - 1
  <2>1. \E i \in S : Cardinality({j \in S : j < i}) = k - 1
    BY NthExists DEF Below
  <2> QED
    BY <2>1 DEF Nth, Below
<1>3. ASSUME NEW i \in S
      PROVE  /\ Cardinality(Below(S, i)) + 1 \in 1 .. Cardinality(S)
             /\ Nth(S, Cardinality(Below(S, i)) + 1) = i
  <2> DEFINE k == Cardinality(Below(S, i)) + 1
             h == Nth(S, k)
  <2>1. Cardinality(Below(S, i)) \in Nat /\ k <= Cardinality(S)
    <3>1. Cardinality(Below(S, i) \cup {i}) <= Cardinality(S)
      BY BelowCounted, FS_Subset
    <3> QED
      BY <3>1, BelowCounted
  <2>2. k \in 1 .. Cardinality(S)
    BY <1>1, <2>1
  <2>3. h \in S /\ Cardinality(Below(S, h)) = Cardinality(Below(S, i))
    <3>1. h \in S /\ Cardinality(Below(S, h)) = k - 1
      BY <1>2, <2>2
    <3> QED
      BY <2>1, <3>1
  <2> HIDE DEF h
  <2>4. ~(h < i)
    <3> SUFFICES ASSUME h < i PROVE FALSE
      OBVIOUS
    <3>1. Cardinality(Below(S, h)) < Cardinality(Below(S, i))
      BY <2>3, BelowDiffers
    <3> QED
      BY <2>1, <2>3, <3>1
  <2>5. ~(i < h)
    <3> SUFFICES ASSUME i < h PROVE FALSE
      OBVIOUS
    <3>1. Cardinality(Below(S, i)) < Cardinality(Below(S, h))
      BY <2>3, BelowDiffers
    <3> QED
      BY <2>1, <2>3, <3>1
  <2>6. h = i
    BY <2>3, <2>4, <2>5
  <2> QED
    BY <2>2, <2>6 DEF h
<1> QED
  BY <1>1, <1>2, <1>3

\* What is picked: the elements at the positions, and no other.
Picks(q, S, x) ==
    /\ Len(x) = Cardinality(S) /\ Cardinality(S) \in Nat
    /\ DOMAIN x = 1 .. Cardinality(S)
    /\ \A k \in DOMAIN x : Nth(S, k) \in S /\ x[k] = q[Nth(S, k)]
    /\ \A i \in S : \E k \in DOMAIN x : Nth(S, k) = i /\ x[k] = q[i]
    /\ \A k, l \in DOMAIN x : Nth(S, k) = Nth(S, l) => k = l
    /\ 1 \in S => Len(x) >= 1 /\ (0 \notin S => x[1] = q[1])

LEMMA PickedIs ==
    ASSUME NEW E, NEW q \in Seq(E), NEW S, S \subseteq DOMAIN q
    PROVE  Picked(q, S) \in Seq(E) /\ Picks(q, S, Picked(q, S))
<1>1. S \subseteq Nat /\ IsFiniteSet(S) /\ 0 \notin S
  <2>1. DOMAIN q = 1 .. Len(q) /\ Len(q) \in Nat
    OBVIOUS
  <2>2. IsFiniteSet(1 .. Len(q))
    <3>1. 1 \in Int /\ Len(q) \in Int
      OBVIOUS
    <3> QED
      BY <3>1, FS_Interval
  <2>3. S \subseteq 1 .. Len(q)
    BY <2>1
  <2> QED
    BY <2>2, <2>3, FS_Subset
<1> DEFINE n == Cardinality(S)
           x == Picked(q, S)
<1>2. /\ n \in Nat
      /\ \A k \in 1 .. n : Nth(S, k) \in S /\ Cardinality(Below(S, Nth(S, k))) = k - 1
      /\ \A i \in S : /\ Cardinality(Below(S, i)) + 1 \in 1 .. n
                      /\ Nth(S, Cardinality(Below(S, i)) + 1) = i
  BY <1>1, NthIs
<1>3. x = [k \in 1 .. n |-> q[Nth(S, k)]]
  BY DEF Picked
<1> HIDE DEF n, x
<1>4. \A k \in 1 .. n : x[k] = q[Nth(S, k)] /\ q[Nth(S, k)] \in E
  BY <1>2, <1>3
<1>5. x \in Seq(E) /\ Len(x) = n /\ DOMAIN x = 1 .. n
  BY <1>2, <1>3, <1>4
<1>6. \A i \in S : \E k \in DOMAIN x : Nth(S, k) = i /\ x[k] = q[i]
  BY <1>2, <1>4, <1>5
<1>7. \A k, l \in DOMAIN x : Nth(S, k) = Nth(S, l) => k = l
  BY <1>2, <1>5
<1>8. ASSUME 1 \in S PROVE Len(x) >= 1 /\ x[1] = q[1]
  <2>1. Below(S, 1) = {}
    BY <1>1 DEF Below
  <2>2. Cardinality(Below(S, 1)) = 0
    BY <2>1, FS_EmptySet
  <2>3. 0 + 1 \in 1 .. n /\ Nth(S, 0 + 1) = 1
    BY <1>2, <1>8, <2>2
  <2>4. 0 + 1 = 1
    OBVIOUS
  <2> QED
    BY <1>2, <1>4, <1>5, <2>3, <2>4
<1> QED
  BY <1>2, <1>4, <1>5, <1>6, <1>7, <1>8 DEF Picks, n, x

-----------------------------------------------------------------------------
(* Sorting.                                                                *)

\* R puts any two elements of S in order.
Orders(R, S) ==
    /\ \A x \in S : <<x, x>> \notin R
    /\ \A x, y, z \in S : <<x, y>> \in R /\ <<y, z>> \in R => <<x, z>> \in R
    /\ \A x, y \in S : x # y => <<x, y>> \in R \/ <<y, x>> \in R

Before(S, R, x) == {y \in S : <<y, x>> \in R}

\* A later element has more elements before it.
LEMMA BeforeGrows ==
    ASSUME NEW S, IsFiniteSet(S), NEW R, Orders(R, S), NEW x \in S, NEW y \in S, <<x, y>> \in R
    PROVE  /\ Cardinality(Before(S, R, x)) \in Nat /\ Cardinality(Before(S, R, y)) \in Nat
           /\ Cardinality(Before(S, R, x)) < Cardinality(Before(S, R, y))
<1>1. /\ Before(S, R, x) \subseteq S /\ Before(S, R, y) \subseteq S
      /\ x \notin Before(S, R, x) /\ Before(S, R, x) \cup {x} \subseteq Before(S, R, y)
  BY DEF Before, Orders
<1>2. IsFiniteSet(Before(S, R, x)) /\ IsFiniteSet(Before(S, R, y))
  BY <1>1, FS_Subset
<1>3. Cardinality(Before(S, R, x)) \in Nat /\ Cardinality(Before(S, R, y)) \in Nat
  BY <1>2, FS_CardinalityType
<1>4. Cardinality(Before(S, R, x) \cup {x}) =
         IF x \in Before(S, R, x) THEN Cardinality(Before(S, R, x))
         ELSE Cardinality(Before(S, R, x)) + 1
  BY <1>2, FS_AddElement
<1>5. Cardinality(Before(S, R, x) \cup {x}) <= Cardinality(Before(S, R, y))
  BY <1>1, <1>2, FS_Subset
<1> QED
  BY <1>1, <1>3, <1>4, <1>5

\* Every number of elements before it is that of one element: the counts are
\* different and there are as many of them as elements.
LEMMA PlaceTaken ==
    ASSUME NEW S, IsFiniteSet(S), NEW R, Orders(R, S), NEW k \in 1 .. Cardinality(S)
    PROVE  \E x \in S : Cardinality(Before(S, R, x)) = k - 1
<1> DEFINE n == Cardinality(S)
           f == [x \in S |-> Cardinality(Before(S, R, x))]
<1>1. n \in Nat
  BY FS_CardinalityType
<1>2. ASSUME NEW x \in S
      PROVE  Cardinality(Before(S, R, x)) \in 0 .. n - 1
  <2>1. Before(S, R, x) \subseteq S /\ x \notin Before(S, R, x)
    BY DEF Before, Orders
  <2>2. IsFiniteSet(Before(S, R, x)) /\ Cardinality(Before(S, R, x)) <= n
        /\ (n = Cardinality(Before(S, R, x)) => S = Before(S, R, x))
    BY <2>1, FS_Subset
  <2>3. Cardinality(Before(S, R, x)) \in Nat
    BY <2>2, FS_CardinalityType
  <2> QED
    BY <1>1, <2>1, <2>2, <2>3
<1>3. ASSUME NEW x \in S, NEW y \in S, f[x] = f[y] PROVE x = y
  <2>1. ~(<<x, y>> \in R) /\ ~(<<y, x>> \in R)
    BY <1>3, BeforeGrows
  <2> QED
    BY <2>1 DEF Orders
<1>4. f \in Injection(S, 0 .. n - 1)
  <2>1. f \in [S -> 0 .. n - 1]
    BY <1>2
  <2> QED
    BY <1>3, <2>1 DEF Injection, IsInjective
<1>5. IsFiniteSet(0 .. n - 1) /\ Cardinality(0 .. n - 1) = n
  <2>1. 0 \in Int /\ n - 1 \in Int
    BY <1>1
  <2> QED
    BY <1>1, <2>1, FS_Interval
<1>6. f \in Surjection(S, 0 .. n - 1)
  BY <1>4, <1>5, FS_Injection
<1>7. k - 1 \in 0 .. n - 1
  BY <1>1
<1>8. \E x \in S : f[x] = k - 1
  BY <1>6, <1>7 DEF Surjection
<1> QED
  BY <1>8

\* The result of sorting has every element once, and any two in their order.
Sorts(S, R, q) ==
    /\ Cardinality(S) \in Nat
    /\ q \in Seq(S) /\ Len(q) = Cardinality(S)
    /\ \A k, l \in 1 .. Len(q) : q[k] = q[l] => k = l
    /\ \A x \in S : \E k \in 1 .. Len(q) : q[k] = x
    /\ \A k, l \in 1 .. Len(q) : k < l => <<q[k], q[l]>> \in R

LEMMA SortedIs ==
    ASSUME NEW S, IsFiniteSet(S), NEW R, Orders(R, S)
    PROVE  Sorts(S, R, SortedBy(S, R))
<1> DEFINE n == Cardinality(S)
           q == SortedBy(S, R)
<1>1. n \in Nat
  BY FS_CardinalityType
<1>2. q = [k \in 1 .. n |-> CHOOSE x \in S : Cardinality({y \in S : <<y, x>> \in R}) = k - 1]
  BY DEF SortedBy
<1>3. ASSUME NEW k \in 1 .. n
      PROVE  q[k] \in S /\ Cardinality(Before(S, R, q[k])) = k - 1
  <2>1. \E x \in S : Cardinality({y \in S : <<y, x>> \in R}) = k - 1
    BY PlaceTaken DEF Before
  <2> QED
    BY <1>2, <2>1 DEF Before
<1> HIDE DEF q
<1>4. q \in Seq(S) /\ Len(q) = n
  <2>1. q \in [1 .. n -> S]
    BY <1>2, <1>3
  <2> QED
    BY <1>1, <2>1
<1>5. \A k, l \in 1 .. n : q[k] = q[l] => k = l
  <2> SUFFICES ASSUME NEW k \in 1 .. n, NEW l \in 1 .. n, q[k] = q[l] PROVE k = l
    OBVIOUS
  <2>1. k - 1 = l - 1
    BY <1>3
  <2> QED
    BY <1>1, <2>1
<1>6. \A x \in S : \E k \in 1 .. n : q[k] = x
  <2>1. q \in Injection(1 .. n, S)
    <3>1. q \in [1 .. n -> S]
      BY <1>2, <1>3
    <3> QED
      BY <1>5, <3>1 DEF Injection, IsInjective
  <2>2. Cardinality(1 .. n) = n
    <3>1. 1 \in Int /\ n \in Int
      BY <1>1
    <3> QED
      BY <1>1, <3>1, FS_Interval
  <2>3. q \in Surjection(1 .. n, S)
    BY <2>1, <2>2, FS_Injection
  <2> QED
    BY <2>3 DEF Surjection
<1>7. ASSUME NEW k \in 1 .. n, NEW l \in 1 .. n, k < l PROVE <<q[k], q[l]>> \in R
  <2>1. q[k] # q[l]
    BY <1>1, <1>5, <1>7
  <2>2. CASE <<q[l], q[k]>> \in R
    <3>1. Cardinality(Before(S, R, q[l])) < Cardinality(Before(S, R, q[k]))
      BY <1>3, <2>2, BeforeGrows
    <3>2. l - 1 < k - 1
      BY <1>3, <3>1
    <3> QED
      BY <1>1, <1>7, <3>2
  <2> QED
    BY <1>3, <2>1, <2>2 DEF Orders
<1> QED
  BY <1>1, <1>4, <1>5, <1>6, <1>7 DEF Sorts, q
-----------------------------------------------------------------------------
(* Parts of a sequence.                                                    *)

\* The first n elements.
LEMMA PrefixIs ==
    ASSUME NEW q \in Seq(Nat), NEW n \in Nat, n <= Len(q)
    PROVE  /\ SubSeq(q, 1, n) \in Seq(Nat) /\ Len(SubSeq(q, 1, n)) = n
           /\ \A j \in 1 .. n : SubSeq(q, 1, n)[j] = q[j]
<1>1. Len(q) \in Nat /\ DOMAIN q = 1 .. Len(q)
  OBVIOUS
<1>2. SubSeq(q, 1, n) = [j \in 1 .. n |-> q[j]]
  OBVIOUS
<1>3. \A j \in 1 .. n : j \in 1 .. Len(q)
  BY <1>1
<1>4. \A j \in 1 .. n : q[j] \in Nat
  BY <1>1, <1>3
<1>5. SubSeq(q, 1, n) \in Seq(Nat)
  BY <1>2, <1>4
<1>6. Len(SubSeq(q, 1, n)) = n
  BY <1>2
<1> QED
  BY <1>2, <1>5, <1>6

\* One element more.
LEMMA AppendIs ==
    ASSUME NEW q \in Seq(Nat), NEW t \in Nat
    PROVE  /\ Append(q, t) \in Seq(Nat) /\ Len(Append(q, t)) = Len(q) + 1
           /\ \A j \in 1 .. Len(q) : Append(q, t)[j] = q[j]
           /\ Append(q, t)[Len(q) + 1] = t
BY AppendProperties
=============================================================================
