--------------------------- MODULE SignatureProofs ---------------------------
(***************************************************************************)
(* Proofs about Signatures for every group order and every choice of even  *)
(* points, every hash function of the family, every key and every nonce.   *)
(*                                                                         *)
(* The model folds sequences, of the parts of a hash and of the points of  *)
(* a sum, and reduces modulo Q at every step.  The first lemmas say that   *)
(* such a fold is the last of the values that arise on the way, so that a  *)
(* hash is a number below Q and a sum the remainder of a sum; the next     *)
(* ones compute with remainders, so that two sides of a verification are   *)
(* compared as polynomials over the integers.                              *)
(***************************************************************************)
EXTENDS MCSignatures, SequenceTheorems, WellFoundedInduction, TLAPS

-----------------------------------------------------------------------------
(* Folds.                                                                   *)

\* Induction over the naturals, for a set of them.
LEMMA Induction ==
    ASSUME NEW S \in SUBSET Nat, 0 \in S, \A n \in S : n + 1 \in S
    PROVE  S = Nat
<1> SUFFICES ASSUME Nat \ S # {}
             PROVE  FALSE
  OBVIOUS
<1> DEFINE R == OpToRel(<, Nat)
<1>1. PICK x \in Nat \ S : \A y \in Nat \ S : ~ (<<y, x>> \in R)
  BY NatLessThanWellFounded, WFMin
<1>2. \A y, z \in Nat : y < z => <<y, z>> \in R
  BY DEF OpToRel
<1> HIDE DEF R
<1>3. x # 0
  OBVIOUS
<1>4. x - 1 \in Nat /\ x - 1 < x
  BY <1>3
<1>5. x - 1 \in S
  BY <1>1, <1>2, <1>4
<1>6. (x - 1) + 1 \in S
  BY <1>5
<1> QED
  BY <1>6

\* A set of places has a last one.
LEMMA MaxOfPlaces ==
    ASSUME NEW n \in Nat, NEW t \in SUBSET (1 .. n), t # {}
    PROVE  Max(t) \in t
<1> DEFINE S == {k \in Nat : \A u \in SUBSET (1 .. k) : u # {} => \E x \in u : \A y \in u : x >= y}
<1>1. 0 \in S
  <2>1. 1 .. 0 = {}
    OBVIOUS
  <2> QED
    BY <2>1
<1>2. ASSUME NEW k \in Nat, k \in S
      PROVE  k + 1 \in S
  <2>1. ASSUME NEW u \in SUBSET (1 .. k + 1), u # {}
        PROVE  \E x \in u : \A y \in u : x >= y
    <3>1. CASE k + 1 \in u
      <4>1. \A y \in u : k + 1 >= y
        OBVIOUS
      <4> QED
        BY <3>1, <4>1
    <3>2. CASE k + 1 \notin u
      <4>1. \A y \in u : y \in 1 .. k + 1 /\ y # k + 1
        BY <3>2
      <4>2. \A y \in u : y \in 1 .. k
        BY <4>1
      <4>3. u \in SUBSET (1 .. k)
        BY <4>2
      <4> QED
        BY <1>2, <2>1, <4>3
    <3> QED
      BY <3>1, <3>2
  <2> QED
    BY <2>1
<1>3. S = Nat
  <2>1. S \in SUBSET Nat /\ \A k \in S : k + 1 \in S
    BY <1>2
  <2> HIDE DEF S
  <2> QED
    BY <1>1, <2>1, Induction
<1>4. \E x \in t : \A y \in t : x >= y
  <2>1. n \in S
    BY <1>3
  <2> QED
    BY <2>1
<1> QED
  BY <1>4 DEF Max

\* The recursion that a fold from the left stands for, with the step a function.
Iterates(g, n, s, base, op) ==
    g = [t \in SUBSET (1 .. n) |->
           IF t = {} THEN base ELSE op[<<g[t \ {Max(t)}], s[Max(t)]>>]]

Foldable(n, s, base, op) ==
    \E g \in [SUBSET (1 .. n) -> Int] : Iterates(g, n, s, base, op)

\* Every fold has a value: each place adds the sets that it is the last of.
LEMMA FoldExists ==
    ASSUME NEW n \in Nat, NEW s \in [1 .. n -> Int], NEW base \in Int,
           NEW op \in [Int \X Int -> Int]
    PROVE  Foldable(n, s, base, op)
<1> DEFINE G == {k \in Nat : k <= n => Foldable(k, s, base, op)}
<1>1. Foldable(0, s, base, op)
  <2> DEFINE g == [t \in SUBSET (1 .. 0) |-> base]
  <2>1. g \in [SUBSET (1 .. 0) -> Int]
    OBVIOUS
  <2>2. \A t \in SUBSET (1 .. 0) : t = {}
    OBVIOUS
  <2>3. Iterates(g, 0, s, base, op)
    BY <2>2 DEF Iterates
  <2> QED
    BY <2>1, <2>3 DEF Foldable
<1>2. ASSUME NEW k \in Nat, k + 1 <= n, Foldable(k, s, base, op)
      PROVE  Foldable(k + 1, s, base, op)
  <2>1. PICK f \in [SUBSET (1 .. k) -> Int] : Iterates(f, k, s, base, op)
    BY <1>2 DEF Foldable
  <2> DEFINE g == [t \in SUBSET (1 .. k + 1) |->
                     IF k + 1 \in t THEN op[<<f[t \ {k + 1}], s[k + 1]>>] ELSE f[t]]
  <2>2. k + 1 \in 1 .. n
    BY <1>2
  <2>3. ASSUME NEW t \in SUBSET (1 .. k + 1)
        PROVE  /\ t \ {k + 1} \in SUBSET (1 .. k)
               /\ k + 1 \notin t => t \in SUBSET (1 .. k)
    <3>1. \A y \in t : y # k + 1 => y \in 1 .. k
      OBVIOUS
    <3> QED
      BY <3>1
  <2>4. g \in [SUBSET (1 .. k + 1) -> Int]
    <3>1. \A t \in SUBSET (1 .. k + 1) :
            (IF k + 1 \in t THEN op[<<f[t \ {k + 1}], s[k + 1]>>] ELSE f[t]) \in Int
      BY <2>2, <2>3
    <3> QED
      BY <3>1
  <2>5. ASSUME NEW t \in SUBSET (1 .. k + 1), k + 1 \in t
        PROVE  g[t] = IF t = {} THEN base ELSE op[<<g[t \ {Max(t)}], s[Max(t)]>>]
    <3>1. Max(t) = k + 1
      <4>1. k + 1 \in t /\ \A y \in t : k + 1 >= y
        BY <2>5
      <4>2. \A x \in t : (\A y \in t : x >= y) => x = k + 1
        BY <2>5
      <4> QED
        BY <4>1, <4>2 DEF Max
    <3>2. g[t \ {k + 1}] = f[t \ {k + 1}]
      BY <2>3
    <3> QED
      BY <2>5, <3>1, <3>2
  <2>6. ASSUME NEW t \in SUBSET (1 .. k + 1), k + 1 \notin t
        PROVE  g[t] = IF t = {} THEN base ELSE op[<<g[t \ {Max(t)}], s[Max(t)]>>]
    <3>1. t \in SUBSET (1 .. k) /\ t \ {Max(t)} \in SUBSET (1 .. k)
      BY <2>3, <2>6
    <3>2. f[t] = IF t = {} THEN base ELSE op[<<f[t \ {Max(t)}], s[Max(t)]>>]
      BY <2>1, <3>1 DEF Iterates
    <3>3. g[t] = f[t] /\ g[t \ {Max(t)}] = f[t \ {Max(t)}]
      BY <2>6, <3>1
    <3> QED
      BY <3>2, <3>3
  <2>7. Iterates(g, k + 1, s, base, op)
    BY <2>5, <2>6 DEF Iterates
  <2> QED
    BY <2>4, <2>7 DEF Foldable
<1>3. 0 \in G /\ \A k \in G : k + 1 \in G
  BY <1>1, <1>2
<1>4. G = Nat
  <2> HIDE DEF G
  <2>1. G \in SUBSET Nat
    BY DEF G
  <2> QED
    BY <1>3, <2>1, Induction
<1>5. n \in G
  BY <1>4
<1> QED
  BY <1>5

\* What the recursion says of a fold whose values so far are numbers.
Steps(f, n, s, op) ==
    \A t \in SUBSET (1 .. n) :
        t # {} /\ f[t \ {Max(t)}] \in Int => f[t] = op[<<f[t \ {Max(t)}], s[Max(t)]>>]

\* The values on the way to the value of a fold.
Values(h, n, s, base, op, result) ==
    /\ h \in [0 .. n -> Int]
    /\ h[0] = base /\ h[n] = result
    /\ \A i \in 1 .. n : h[i] = op[<<h[i - 1], s[i]>>]

\* The value of a fold is the last of the values on the way.
LEMMA FoldByPlaces ==
    ASSUME NEW n \in Nat, NEW s \in [1 .. n -> Int], NEW base \in Int,
           NEW op \in [Int \X Int -> Int], NEW f,
           f[{}] = base, Steps(f, n, s, op)
    PROVE  \E h : Values(h, n, s, base, op, f[1 .. n])
<1> DEFINE h == [i \in 0 .. n |-> f[1 .. i]]
           S == {i \in Nat : i <= n => h[i] \in Int}
<1>1. h[0] = base
  <2>1. 1 .. 0 = {} /\ h[0] = f[1 .. 0]
    OBVIOUS
  <2> QED
    BY <2>1
<1>2. ASSUME NEW i \in 1 .. n, h[i - 1] \in Int
      PROVE  h[i] = op[<<h[i - 1], s[i]>>]
  <2>1. 1 .. i \in SUBSET (1 .. n) /\ 1 .. i # {}
    <3>1. i \in 1 .. i /\ \A j \in 1 .. i : j \in 1 .. n
      OBVIOUS
    <3> QED
      BY <3>1
  <2>2. Max(1 .. i) = i
    <3>1. i \in 1 .. i /\ \A y \in 1 .. i : i >= y
      OBVIOUS
    <3>2. ASSUME NEW x \in 1 .. i, \A y \in 1 .. i : x >= y
          PROVE  x = i
      <4>1. x >= i
        BY <3>1, <3>2, Zenon
      <4>2. x \in Nat /\ i \in Nat /\ x <= i
        OBVIOUS
      <4> QED
        BY <4>1, <4>2
    <3> QED
      BY <3>1, <3>2 DEF Max
  <2>3. (1 .. i) \ {i} = 1 .. i - 1
    OBVIOUS
  <2>4. h[i] = f[1 .. i] /\ h[i - 1] = f[1 .. i - 1]
    <3>1. i \in 0 .. n /\ i - 1 \in 0 .. n
      OBVIOUS
    <3> QED
      BY <3>1
  <2>5. f[1 .. i] = op[<<f[(1 .. i) \ {i}], s[i]>>]
    BY <1>2, <2>1, <2>2, <2>3, <2>4 DEF Steps
  <2> QED
    BY <2>3, <2>4, <2>5
<1> HIDE DEF h
<1>3. 0 \in S /\ \A i \in S : i + 1 \in S
  <2>1. 0 \in S
    BY <1>1
  <2>2. ASSUME NEW i \in Nat, i + 1 <= n, h[i] \in Int
        PROVE  h[i + 1] \in Int
    <3>1. (i + 1) - 1 = i /\ i + 1 \in 1 .. n /\ s[i + 1] \in Int
      BY <2>2
    <3>2. h[i + 1] = op[<<h[i], s[i + 1]>>]
      BY <1>2, <2>2, <3>1
    <3> QED
      BY <2>2, <3>1, <3>2
  <2> QED
    BY <2>1, <2>2
<1>4. S = Nat
  <2> HIDE DEF S
  <2>1. S \in SUBSET Nat
    BY DEF S
  <2> QED
    BY <1>3, <2>1, Induction
<1>5. \A i \in 0 .. n : h[i] \in Int
  BY <1>4
<1>6. h \in [0 .. n -> Int] /\ h[n] = f[1 .. n]
  BY <1>5 DEF h
<1>7. ASSUME NEW i \in 1 .. n
      PROVE  h[i] = op[<<h[i - 1], s[i]>>]
  <2>1. i - 1 \in 0 .. n
    OBVIOUS
  <2> QED
    BY <1>2, <1>5, <2>1
<1>8. Values(h, n, s, base, op, f[1 .. n])
  BY <1>1, <1>6, <1>7 DEF Values
<1> QED
  BY <1>8

\* A sum of points adds them one at a time, modulo Q.
LEMMA SumByPlaces ==
    ASSUME NEW n \in Nat, NEW s \in [1 .. n -> Int]
    PROVE  \E h \in [0 .. n -> Int] :
              /\ h[0] = 0 /\ h[n] = Sum(s)
              /\ \A i \in 1 .. n : h[i] = (h[i - 1] + s[i]) % Q
<1> DEFINE op == [p \in Int \X Int |-> (p[1] + p[2]) % Q]
           Is(f) == f = [t \in SUBSET DOMAIN s |->
                           IF t = {} THEN 0 ELSE point_add(f[t \ {Max(t)}], s[Max(t)])]
           iter == CHOOSE f : Is(f)
<1>1. Sum(s) = iter[DOMAIN s]
  <2>1. Sum(s) = LET it[t \in SUBSET DOMAIN s] ==
                       IF t = {} THEN 0
                       ELSE LET x == Max(t) IN point_add(it[t \ {x}], s[x])
                 IN it[DOMAIN s]
    BY DEF Sum, FoldLeft, MapThenFoldSet
  <2> QED
    BY <2>1
<1>2. op \in [Int \X Int -> Int] /\ \A a, b \in Int : op[<<a, b>>] = point_add(a, b)
  <2>1. \A a, b \in Int : (a + b) % Q \in Int
    BY QAssumption
  <2>2. \A p \in Int \X Int : (p[1] + p[2]) % Q \in Int
    BY <2>1
  <2> QED
    BY <2>2 DEF point_add
<1> HIDE DEF op
<1>3. \A t \in SUBSET (1 .. n) : t # {} => Max(t) \in 1 .. n /\ s[Max(t)] \in Int
  BY MaxOfPlaces
<1>4. \E f : Is(f)
  <2> DEFINE zero == 0
  <2>0. zero \in Int
    OBVIOUS
  <2> HIDE DEF zero
  <2>f. Foldable(n, s, zero, op)
    BY <1>2, <2>0, FoldExists
  <2>1. PICK g \in [SUBSET (1 .. n) -> Int] : Iterates(g, n, s, 0, op)
    BY <2>f DEF Foldable, zero
  <2>2. ASSUME NEW t \in SUBSET (1 .. n), t # {}
        PROVE  op[<<g[t \ {Max(t)}], s[Max(t)]>>] = point_add(g[t \ {Max(t)}], s[Max(t)])
    <3>1. t \ {Max(t)} \in SUBSET (1 .. n)
      OBVIOUS
    <3> QED
      BY <1>2, <1>3, <2>2, <3>1
  <2>3. Is(g)
    BY <2>1, <2>2 DEF Iterates
  <2> QED
    BY <2>3
<1>5. Is(iter)
  BY <1>4
<1> HIDE DEF iter
<1>6. iter[{}] = 0
  BY <1>5
<1>7. Steps(iter, n, s, op)
  BY <1>2, <1>3, <1>5 DEF Steps
<1>8. PICK h : Values(h, n, s, 0, op, iter[1 .. n])
  <2> DEFINE zero == 0
  <2>1. zero \in Int /\ iter[{}] = zero
    BY <1>6
  <2> HIDE DEF zero
  <2>2. op \in [Int \X Int -> Int]
    BY <1>2
  <2>3. \E h : Values(h, n, s, zero, op, iter[1 .. n])
    BY <1>7, <2>1, <2>2, FoldByPlaces
  <2> QED
    BY <2>3 DEF zero
<1>9. ASSUME NEW i \in 1 .. n
      PROVE  h[i] = (h[i - 1] + s[i]) % Q
  <2>1. i - 1 \in 0 .. n
    OBVIOUS
  <2> QED
    BY <1>2, <1>8, <2>1 DEF point_add, Values
<1> QED
  BY <1>1, <1>8, <1>9 DEF Values

HashFunctions == [mul : Scalars, seed : 0 .. Q - 1]

\* A hash of one part or more is a number below Q.
LEMMA HashType ==
    ASSUME hash \in HashFunctions, NEW tag \in Int,
           NEW n \in Nat \ {0}, NEW s \in [1 .. n -> Int]
    PROVE  tagged_hash(tag, s) \in 0 .. Q - 1
<1> DEFINE step(a, b) == (hash.mul * (a + b) * (a + b) + b + 1) % Q
           base == hash.seed + tag
           op == [p \in Int \X Int |-> step(p[1], p[2])]
           Is(f) == f = [t \in SUBSET DOMAIN s |->
                           IF t = {} THEN base ELSE step(f[t \ {Max(t)}], s[Max(t)])]
           iter == CHOOSE f : Is(f)
<1>0. hash.mul \in Int /\ base \in Int
  BY QAssumption DEF HashFunctions, Scalars
<1>1. tagged_hash(tag, s) = iter[DOMAIN s]
  <2>1. tagged_hash(tag, s) =
          LET it[t \in SUBSET DOMAIN s] ==
                IF t = {} THEN hash.seed + tag
                ELSE LET x == Max(t)
                     IN  (hash.mul * (it[t \ {x}] + s[x]) * (it[t \ {x}] + s[x]) + s[x] + 1) % Q
          IN it[DOMAIN s]
    BY DEF tagged_hash, FoldLeft, MapThenFoldSet
  <2> QED
    BY <2>1
<1>2. op \in [Int \X Int -> Int] /\ \A a, b \in Int : op[<<a, b>>] = step(a, b) /\ step(a, b) \in 0 .. Q - 1
  <2>1. ASSUME NEW a \in Int, NEW b \in Int
        PROVE  step(a, b) \in 0 .. Q - 1 /\ step(a, b) \in Int
    <3>1. hash.mul * (a + b) * (a + b) + b + 1 \in Int
      BY <1>0
    <3> QED
      BY <3>1, QAssumption
  <2> HIDE DEF step
  <2>2. \A p \in Int \X Int : step(p[1], p[2]) \in Int
    BY <2>1
  <2>3. op \in [Int \X Int -> Int]
    BY <2>2
  <2>4. \A a, b \in Int : op[<<a, b>>] = step(a, b)
    OBVIOUS
  <2> QED
    BY <2>1, <2>3, <2>4
<1> HIDE DEF op, step, base
<1>3. \A t \in SUBSET (1 .. n) : t # {} => Max(t) \in 1 .. n /\ s[Max(t)] \in Int
  BY MaxOfPlaces
<1>4. \E f : Is(f)
  <2>f. Foldable(n, s, base, op)
    BY <1>0, <1>2, FoldExists
  <2>1. PICK g \in [SUBSET (1 .. n) -> Int] : Iterates(g, n, s, base, op)
    BY <2>f DEF Foldable
  <2>2. ASSUME NEW t \in SUBSET (1 .. n), t # {}
        PROVE  op[<<g[t \ {Max(t)}], s[Max(t)]>>] = step(g[t \ {Max(t)}], s[Max(t)])
    <3>1. t \ {Max(t)} \in SUBSET (1 .. n)
      OBVIOUS
    <3> QED
      BY <1>2, <1>3, <2>2, <3>1
  <2>3. Is(g)
    BY <2>1, <2>2 DEF Iterates
  <2> QED
    BY <2>3
<1>5. Is(iter)
  BY <1>4
<1> HIDE DEF iter
<1>6. iter[{}] = base
  BY <1>5
<1>7. Steps(iter, n, s, op)
  BY <1>2, <1>3, <1>5 DEF Steps
<1>8. PICK h : Values(h, n, s, base, op, iter[1 .. n])
  <2>1. op \in [Int \X Int -> Int]
    BY <1>2
  <2> QED
    BY <1>0, <1>6, <1>7, <2>1, FoldByPlaces
<1>9. h[n] \in 0 .. Q - 1
  <2>1. n \in 1 .. n /\ n - 1 \in 0 .. n
    OBVIOUS
  <2>2. h[n] = op[<<h[n - 1], s[n]>>] /\ h[n - 1] \in Int /\ s[n] \in Int
    BY <1>8, <2>1 DEF Values
  <2>3. \A a, b \in Int : op[<<a, b>>] \in 0 .. Q - 1
    BY <1>2
  <2>4. op[<<h[n - 1], s[n]>>] \in 0 .. Q - 1
    BY <2>2, <2>3
  <2> QED
    BY <2>2, <2>4
<1>10. h[n] = iter[1 .. n] /\ DOMAIN s = 1 .. n
  BY <1>8 DEF Values
<1> QED
  BY <1>1, <1>9, <1>10

-----------------------------------------------------------------------------
(* Remainders.                                                              *)

\* Numbers that are the same modulo Q.
Same(a, b) == \E k \in Int : a = b + k * Q

\* A remainder is below Q, and that of a number below Q is the number.
LEMMA Remainder ==
    ASSUME NEW a \in Int
    PROVE  (a % Q) \in 0 .. Q - 1 /\ (a % Q) \in Int /\ (a \in 0 .. Q - 1 => (a % Q) = a)
  BY QAssumption

\* Zero is the only multiple of Q between -Q and Q.
LEMMA SmallMultiple ==
    ASSUME NEW k \in Int, k * Q < Q, -Q < k * Q
    PROVE  k = 0
<1>1. CASE k >= 1
  <2>1. k * Q >= 1 * Q
    BY <1>1, QAssumption
  <2> QED
    BY <2>1, QAssumption
<1>2. CASE k <= -1
  <2>1. k * Q <= (-1) * Q
    BY <1>2, QAssumption
  <2> QED
    BY <2>1, QAssumption
<1> QED
  BY <1>1, <1>2

\* A number and its remainder are the same modulo Q.
LEMMA SameRemainder ==
    ASSUME NEW a \in Int
    PROVE  Same(a % Q, a) /\ Same(a, a % Q)
<1> DEFINE m == a % Q
           k == a \div Q
<1>1. a = k * Q + m /\ k \in Int /\ m \in Int
  BY QAssumption
<1> HIDE DEF m, k
<1>2. k * Q \in Int /\ -k \in Int /\ (-k) * Q = -(k * Q)
  BY <1>1, QAssumption
<1>3. m = a + (-k) * Q /\ a = m + k * Q
  BY <1>1, <1>2
<1>4. Same(m, a) /\ Same(a, m)
  BY <1>1, <1>2, <1>3 DEF Same
<1> QED
  BY <1>4 DEF m

\* Numbers below Q that are the same modulo Q are equal.
LEMMA SameSmall ==
    ASSUME NEW a \in 0 .. Q - 1, NEW b \in 0 .. Q - 1, Same(a, b)
    PROVE  a = b
<1>1. PICK k \in Int : a = b + k * Q
  BY DEF Same
<1>2. k * Q \in Int /\ k * Q = a - b
  BY <1>1, QAssumption
<1>3. k = 0
  BY <1>2, SmallMultiple, QAssumption
<1> QED
  BY <1>1, <1>3, QAssumption

\* Same is a congruence: an equivalence that sums and products respect.
LEMMA Congruence ==
    ASSUME NEW a \in Int, NEW b \in Int, Same(a, b)
    PROVE  /\ Same(b, a)
           /\ \A c \in Int : Same(b, c) => Same(a, c)
           /\ \A c \in Int : Same(a + c, b + c) /\ Same(c + a, c + b)
           /\ \A c \in Int : Same(a * c, b * c) /\ Same(c * a, c * b)
           /\ Same(-a, -b)
<1>1. PICK k \in Int : a = b + k * Q
  BY DEF Same
<1>2. k * Q \in Int /\ (-k) * Q = -(k * Q) /\ -k \in Int
  BY QAssumption
<1>3. Same(b, a)
  BY <1>1, <1>2 DEF Same
<1>4. ASSUME NEW c \in Int, Same(b, c)
      PROVE  Same(a, c)
  <2>1. PICK j \in Int : b = c + j * Q
    BY <1>4 DEF Same
  <2>2. (k + j) * Q = k * Q + j * Q /\ j * Q \in Int /\ k + j \in Int
    BY QAssumption
  <2>3. a = c + (k + j) * Q
    BY <1>1, <1>2, <2>1, <2>2
  <2> QED
    BY <2>2, <2>3 DEF Same
<1>5. ASSUME NEW c \in Int
      PROVE  Same(a + c, b + c) /\ Same(c + a, c + b)
  <2>1. a + c = (b + c) + k * Q /\ c + a = (c + b) + k * Q
    BY <1>1, <1>2
  <2> QED
    BY <2>1 DEF Same
<1>6. ASSUME NEW c \in Int
      PROVE  Same(a * c, b * c) /\ Same(c * a, c * b)
  <2>1. a * c = b * c + (k * c) * Q /\ k * c \in Int
    BY <1>1, QAssumption
  <2>2. a * c = c * a /\ b * c = c * b
    OBVIOUS
  <2> QED
    BY <2>1, <2>2 DEF Same
<1>7. Same(-a, -b)
  <2>1. -a = -b + (-k) * Q
    BY <1>1, <1>2
  <2> QED
    BY <1>2, <2>1 DEF Same
<1> QED
  BY <1>3, <1>4, <1>5, <1>6, <1>7

\* Sums and products of numbers that are the same are the same.
LEMMA SameSum ==
    ASSUME NEW a \in Int, NEW b \in Int, NEW c \in Int, NEW d \in Int, Same(a, b), Same(c, d)
    PROVE  Same(a + c, b + d) /\ Same(a - c, b - d)
<1>1. Same(a + c, b + c) /\ Same(b + c, b + d)
  BY Congruence
<1>2. -c \in Int /\ -d \in Int /\ Same(-c, -d)
  BY Congruence
<1>3. Same(a + (-c), b + (-c)) /\ Same(b + (-c), b + (-d))
  BY <1>2, Congruence
<1>4. a + c \in Int /\ b + c \in Int /\ b + d \in Int
      /\ a + (-c) \in Int /\ b + (-c) \in Int /\ b + (-d) \in Int
      /\ a - c = a + (-c) /\ b - d = b + (-d)
  OBVIOUS
<1>5. Same(a + c, b + d)
  BY <1>1, <1>4, Congruence
<1>6. Same(a + (-c), b + (-d))
  BY <1>3, <1>4, Congruence
<1> QED
  BY <1>4, <1>5, <1>6

LEMMA SameProduct ==
    ASSUME NEW a \in Int, NEW b \in Int, NEW c \in Int, NEW d \in Int, Same(a, b), Same(c, d)
    PROVE  Same(a * c, b * d)
<1>1. Same(a * c, b * c) /\ Same(b * c, b * d)
  BY Congruence
<1>2. a * c \in Int /\ b * c \in Int /\ b * d \in Int
  OBVIOUS
<1> QED
  BY <1>1, <1>2, Congruence

\* Remainders are equal just when the numbers are the same modulo Q.
LEMMA SameIsEqual ==
    ASSUME NEW a \in Int, NEW b \in Int
    PROVE  ((a % Q) = (b % Q)) <=> Same(a, b)
<1> DEFINE m == a % Q
           l == b % Q
<1>1. m \in 0 .. Q - 1 /\ l \in 0 .. Q - 1 /\ m \in Int /\ l \in Int
  BY Remainder
<1>2. Same(m, a) /\ Same(a, m) /\ Same(l, b) /\ Same(b, l)
  BY SameRemainder
<1> HIDE DEF m, l
<1>3. Same(a, b) => m = l
  BY <1>1, <1>2, Congruence, SameSmall
<1>4. m = l => Same(a, b)
  BY <1>1, <1>2, Congruence
<1> QED
  BY <1>3, <1>4 DEF m, l

-----------------------------------------------------------------------------
(* Points.                                                                  *)

LEMMA PointTypes ==
    ASSUME NEW p \in Int, NEW q \in Int
    PROVE  /\ point_add(p, q) \in 0 .. Q - 1 /\ point_add(p, q) \in Int /\ Same(point_add(p, q), p + q)
           /\ point_mul(p, q) \in 0 .. Q - 1 /\ point_mul(p, q) \in Int /\ Same(point_mul(p, q), p * q)
           /\ Neg(p) \in 0 .. Q - 1 /\ Neg(p) \in Int /\ Same(Neg(p), -p)
<1>1. p + q \in Int /\ p * q \in Int /\ Q - p \in Int /\ -p \in Int
  BY QAssumption
<1>2. point_add(p, q) \in 0 .. Q - 1 /\ point_add(p, q) \in Int /\ Same(point_add(p, q), p + q)
  BY <1>1, Remainder, SameRemainder DEF point_add
<1>3. point_mul(p, q) \in 0 .. Q - 1 /\ point_mul(p, q) \in Int /\ Same(point_mul(p, q), p * q)
  BY <1>1, Remainder, SameRemainder DEF point_mul
<1>4. Neg(p) \in 0 .. Q - 1 /\ Neg(p) \in Int /\ Same(Neg(p), Q - p)
  BY <1>1, Remainder, SameRemainder DEF Neg
<1>5. Same(Q - p, -p)
  <2>1. Q - p = -p + 1 * Q
    BY QAssumption
  <2> QED
    BY <2>1 DEF Same
<1>6. Same(Neg(p), -p)
  BY <1>1, <1>4, <1>5, Congruence
<1> QED
  BY <1>2, <1>3, <1>4, <1>6

\* Of a point and its negation one is even, and both have it as their x.
LEMMA EvenedPoint ==
    ASSUME NEW p \in 0 .. Q - 1
    PROVE  /\ p = 0 => Evened(p) = 0 /\ Neg(p) = 0
           /\ p # 0 => Evened(p) \in Even
           /\ p \in Even => Evened(p) = p
           /\ Evened(Neg(p)) = Evened(p)
           /\ Evened(p) \in 0 .. Q - 1
           /\ p \notin Even => Evened(p) = Neg(p)
<1>1. CASE p = 0
  <2>1. Neg(p) = 0 /\ p \notin Even
    BY <1>1, QAssumption, EvenAssumption DEF Neg
  <2> QED
    BY <1>1, <2>1, QAssumption DEF Evened
<1>2. CASE p # 0
  <2>1. Q - p \in 1 .. Q - 1 /\ Neg(p) = Q - p
    BY <1>2, QAssumption DEF Neg
  <2>2. Neg(Neg(p)) = p
    BY <1>2, <2>1, QAssumption DEF Neg
  <2>3. p \in Even <=> Neg(p) \notin Even
    BY <1>2, <2>1, EvenAssumption
  <2> QED
    BY <1>2, <2>1, <2>2, <2>3 DEF Evened
<1> QED
  BY <1>1, <1>2

\* A point of the set lifts to itself.
LEMMA Lift ==
    ASSUME NEW p \in Even
    PROVE  lift_x(p) = p /\ p # 0 /\ p \in 1 .. Q - 1 /\ p \in 0 .. Q - 1 /\ p \in Int
  BY QAssumption, EvenAssumption DEF lift_x

-----------------------------------------------------------------------------
(* Schnorr signatures.                                                      *)

\* Every tag is a number, and so is every hash the constructions take.
LEMMA HashOfParts ==
    ASSUME hash \in HashFunctions, NEW tag \in Int, NEW a \in Int, NEW b \in Int, NEW c \in Int, NEW d \in Int
    PROVE  /\ tagged_hash(tag, <<a>>) \in 0 .. Q - 1
           /\ tagged_hash(tag, <<a, b>>) \in 0 .. Q - 1
           /\ tagged_hash(tag, <<a, b, c>>) \in 0 .. Q - 1
           /\ tagged_hash(tag, <<a, b, c, d>>) \in 0 .. Q - 1
<1>1. <<a>> \in [1 .. 1 -> Int] /\ <<a, b>> \in [1 .. 2 -> Int]
      /\ <<a, b, c>> \in [1 .. 3 -> Int] /\ <<a, b, c, d>> \in [1 .. 4 -> Int]
  OBVIOUS
<1>2. 1 \in Nat \ {0} /\ 2 \in Nat \ {0} /\ 3 \in Nat \ {0} /\ 4 \in Nat \ {0}
  OBVIOUS
<1> QED
  BY <1>1, <1>2, HashType

LEMMA ChallengeType ==
    ASSUME hash \in HashFunctions, NEW r \in Int, NEW pk \in Int, NEW msg \in Int
    PROVE  Challenge(r, pk, msg) \in 0 .. Q - 1 /\ Challenge(r, pk, msg) \in Int
<1>1. Tag.challenge \in Int
  BY DEF Tag
<1>2. Challenge(r, pk, msg) \in 0 .. Q - 1
  BY <1>1, HashOfParts DEF Challenge
<1> QED
  BY <1>2, QAssumption

\* A signature under a nonce and a key whose points are even verifies.
LEMMA SealedVerifies ==
    ASSUME hash \in HashFunctions, NEW k \in Even, NEW d \in Even, NEW msg \in Int
    PROVE  /\ schnorr_verify(msg, d, Sealed(k, d, msg))
           /\ Sealed(k, d, msg).r = k /\ Sealed(k, d, msg).s \in 0 .. Q - 1
<1> DEFINE c == Challenge(k, d, msg)
           s == (k + c * d) % Q
           R == point_add(s, point_mul(d, Neg(c)))
<1>1. k \in Int /\ d \in Int /\ k \in 0 .. Q - 1 /\ lift_x(d) # 0
  BY Lift
<1>2. c \in Int
  BY <1>1, ChallengeType
<1>3. Sealed(k, d, msg) = [r |-> k, s |-> s]
  BY DEF Sealed
<1> HIDE DEF c
<1>4. c * d \in Int /\ k + c * d \in Int
  BY <1>1, <1>2
<1>5. s \in 0 .. Q - 1 /\ s \in Int /\ Same(s, k + c * d)
  BY <1>4, Remainder, SameRemainder
<1> HIDE DEF s
<1>6. Neg(c) \in Int /\ Same(Neg(c), -c)
  BY <1>2, PointTypes
<1>7. point_mul(d, Neg(c)) \in Int /\ Same(point_mul(d, Neg(c)), d * Neg(c))
  BY <1>1, <1>6, PointTypes
<1>8. Same(point_mul(d, Neg(c)), d * (-c))
  <2>1. Same(d * Neg(c), d * (-c)) /\ d * Neg(c) \in Int /\ d * (-c) \in Int /\ -c \in Int
    BY <1>1, <1>2, <1>6, Congruence
  <2> QED
    BY <1>7, <2>1, Congruence
<1>9. R \in 0 .. Q - 1 /\ R \in Int /\ Same(R, s + point_mul(d, Neg(c)))
  BY <1>5, <1>7, PointTypes
<1>10. Same(s + point_mul(d, Neg(c)), (k + c * d) + d * (-c))
  <2>1. d * (-c) \in Int
    BY <1>1, <1>2
  <2> QED
    BY <1>4, <1>5, <1>7, <1>8, <2>1, SameSum
<1>11. (k + c * d) + d * (-c) = k
  BY <1>1, <1>2
<1>12. R = k
  <2>1. Same(s + point_mul(d, Neg(c)), k) /\ s + point_mul(d, Neg(c)) \in Int
    BY <1>5, <1>7, <1>10, <1>11
  <2>2. Same(R, k)
    BY <1>1, <1>9, <2>1, Congruence
  <2> HIDE DEF R
  <2> QED
    BY <1>1, <1>9, <2>2, SameSmall
<1> QED
  BY <1>1, <1>3, <1>5, <1>12 DEF schnorr_verify, c

\* What BIP340's verification says of s.
LEMMA VerifiedEquation ==
    ASSUME hash \in HashFunctions, NEW pk \in Int, NEW msg \in Int, NEW sig, sig.s \in 0 .. Q - 1,
           schnorr_verify(msg, pk, sig)
    PROVE  /\ pk \in Even /\ sig.r \in Even
           /\ sig.s = point_add(sig.r, point_mul(pk, Challenge(sig.r, pk, msg)))
<1> DEFINE r == sig.r
           s == sig.s
           c == Challenge(r, pk, msg)
           m == point_mul(pk, c)
           n == point_mul(pk, Neg(c))
           z == point_add(r, m)
<1>1. pk \in Even /\ r \in Even /\ r = point_add(s, n) /\ s \in 0 .. Q - 1
  BY DEF schnorr_verify, lift_x
<1>2. r \in Int /\ s \in Int /\ r \in 0 .. Q - 1
  <2>1. r \in Int /\ r \in 0 .. Q - 1
    BY <1>1, Lift
  <2>2. s \in Int
    BY QAssumption
  <2> QED
    BY <2>1, <2>2
<1> HIDE DEF r, s
<1>3. c \in Int
  BY <1>2, ChallengeType
<1> HIDE DEF c
<1>4. Neg(c) \in Int /\ Same(Neg(c), -c) /\ -c \in Int
  <2>1. -c \in Int
    BY <1>3
  <2> QED
    BY <1>3, <2>1, PointTypes
<1>5. pk * Neg(c) \in Int /\ pk * (-c) \in Int /\ pk * c \in Int
  BY <1>3, <1>4
<1>6. m \in Int /\ Same(m, pk * c)
  BY <1>3, PointTypes
<1>7. n \in Int /\ Same(n, pk * (-c))
  <2>1. n \in Int /\ Same(n, pk * Neg(c))
    BY <1>4, PointTypes
  <2>2. Same(pk * Neg(c), pk * (-c))
    BY <1>4, Congruence
  <2> HIDE DEF n
  <2> QED
    BY <1>5, <2>1, <2>2, Congruence
<1> HIDE DEF m, n
<1>8. Same(r, s + n) /\ s + n \in Int
  BY <1>1, <1>2, <1>7, PointTypes
<1>9. z \in 0 .. Q - 1 /\ z \in Int /\ Same(z, r + m)
  BY <1>2, <1>6, PointTypes
<1> HIDE DEF z
<1>10. Same(r + m, (s + n) + m)
  BY <1>2, <1>6, <1>8, Congruence
<1>11. Same(n + m, 0)
  <2>1. Same(n + m, pk * (-c) + pk * c)
    BY <1>5, <1>6, <1>7, SameSum
  <2>2. pk * (-c) + pk * c = 0
    BY <1>3
  <2> QED
    BY <2>1, <2>2
<1>12. Same((s + n) + m, s)
  <2>1. n + m \in Int /\ 0 \in Int
    BY <1>6, <1>7
  <2>2. Same(s + (n + m), s + 0)
    BY <1>2, <1>11, <2>1, Congruence
  <2>3. s + (n + m) = (s + n) + m /\ s + 0 = s
    BY <1>2, <1>6, <1>7
  <2> QED
    BY <2>2, <2>3
<1>13. Same(z, s)
  <2>1. r + m \in Int /\ (s + n) + m \in Int
    BY <1>2, <1>6, <1>8
  <2>2. Same(z, (s + n) + m)
    BY <1>9, <1>10, <2>1, Congruence
  <2> QED
    BY <1>2, <1>9, <1>12, <2>1, <2>2, Congruence
<1>14. z = s
  BY <1>1, <1>9, <1>13, SameSmall
<1> QED
  BY <1>1, <1>14 DEF r, s, c, m, z

\* What a key signs verifies under the x of its point.
LEMMA SignVerifies ==
    ASSUME hash \in HashFunctions, NEW msg \in Int, NEW secret \in 0 .. Q - 1, NEW aux \in Int,
           schnorr_sign(msg, secret, aux) # NoSig
    PROVE  /\ schnorr_verify(msg, Evened(secret), schnorr_sign(msg, secret, aux))
           /\ schnorr_sign(msg, secret, aux) \in [r : Int, s : 0 .. Q - 1]
<1> DEFINE d == Evened(secret)
           k0 == tagged_hash(Tag.nonce, <<Masked(d, aux), d, msg>>)
<1>1. secret # 0 /\ k0 # 0 /\ schnorr_sign(msg, secret, aux) = Sealed(Evened(k0), d, msg)
  BY DEF schnorr_sign
<1>2. d \in Even /\ d \in Int
  BY <1>1, EvenedPoint, Lift
<1>3. Tag.nonce \in Int /\ Tag.aux \in Int
  BY DEF Tag
<1>4. Masked(d, aux) \in Int
  <2>1. tagged_hash(Tag.aux, <<aux>>) \in 0 .. Q - 1
    BY <1>3, HashOfParts
  <2> QED
    BY <1>2, <2>1, QAssumption DEF Masked
<1>5. k0 \in 0 .. Q - 1
  BY <1>2, <1>3, <1>4, HashOfParts
<1>6. Evened(k0) \in Even
  BY <1>1, <1>5, EvenedPoint
<1> DEFINE k == Evened(k0)
<1> HIDE DEF d, k
<1>7. k \in Int /\ k \in Even
  <2>1. k \in Even
    BY <1>6 DEF k
  <2> QED
    BY <2>1, Lift
<1>8. schnorr_verify(msg, d, Sealed(k, d, msg)) /\ Sealed(k, d, msg).s \in 0 .. Q - 1
  BY <1>2, <1>7, SealedVerifies
<1>9. Sealed(k, d, msg) \in [r : Int, s : 0 .. Q - 1]
  BY <1>7, <1>8 DEF Sealed
<1> QED
  BY <1>1, <1>8, <1>9 DEF d, k

-----------------------------------------------------------------------------
(* Adaptor signatures.                                                      *)

\* Adding to a number is one to one on the points.
LEMMA AddCancels ==
    ASSUME NEW a \in Int, NEW x \in 0 .. Q - 1, NEW y \in 0 .. Q - 1
    PROVE  point_add(a, x) = point_add(a, y) <=> x = y
<1>1. x \in Int /\ y \in Int /\ -a \in Int
  BY QAssumption
<1>2. ASSUME point_add(a, x) = point_add(a, y)
      PROVE  x = y
  <2>1. Same(a + x, a + y)
    <3>1. a + x \in Int /\ a + y \in Int /\ (a + x) % Q = (a + y) % Q
      BY <1>1, <1>2 DEF point_add
    <3> QED
      BY <3>1, SameIsEqual
  <2>2. a + x \in Int /\ a + y \in Int
    BY <1>1
  <2>3. Same((a + x) + (-a), (a + y) + (-a))
    BY <1>1, <2>1, <2>2, Congruence
  <2>4. (a + x) + (-a) = x /\ (a + y) + (-a) = y
    BY <1>1
  <2> QED
    BY <2>3, <2>4, SameSmall
<1> QED
  BY <1>2

\* A pre-signature verifies against its adaptor point.
LEMMA PreSignVerifies ==
    ASSUME hash \in HashFunctions, NEW msg \in Int, NEW secret \in 0 .. Q - 1, NEW T \in 0 .. Q - 1,
           NEW pre, pre = pre_sign(secret, msg, T), pre # NoSig
    PROVE  /\ secret # 0 /\ T # 0 /\ pre.r # 0 /\ pre.s \in 0 .. Q - 1
           /\ \E r, s : pre = [r |-> r, s |-> s]
           /\ point_add(pre.s, T) = RightHand(pre, Evened(secret), msg)
<1> DEFINE d == Evened(secret)
           k == tagged_hash(Tag.adaptor, <<Masked(d, 0), d, T, msg>>)
           R == point_add(k, T)
           c == Challenge(Evened(R), d, msg)
           s == (k + c * d) % Q
           z == point_add(s, T)
           w == point_add(R, point_mul(d, c))
<1>1. secret # 0 /\ T # 0 /\ R # 0 /\ pre = [r |-> R, s |-> s]
  BY DEF pre_sign, Presigned
<1>2. d \in Even /\ d \in Int /\ T \in Int
  <2>1. T \in Int
    BY QAssumption
  <2> QED
    BY <1>1, <2>1, EvenedPoint, Lift
<1>3. Tag.adaptor \in Int /\ Tag.aux \in Int
  BY DEF Tag
<1>4. Masked(d, 0) \in Int
  <2>1. 0 \in Int
    OBVIOUS
  <2>2. tagged_hash(Tag.aux, <<0>>) \in 0 .. Q - 1
    BY <1>3, <2>1, HashOfParts
  <2> QED
    BY <1>2, <2>2, QAssumption DEF Masked
<1>5. k \in Int
  <2>1. k \in 0 .. Q - 1
    BY <1>2, <1>3, <1>4, HashOfParts
  <2> HIDE DEF k
  <2> QED
    BY <2>1, QAssumption
<1> HIDE DEF k, d
<1>6. R \in 0 .. Q - 1 /\ R \in Int /\ Same(R, k + T)
  BY <1>2, <1>5, PointTypes
<1> HIDE DEF R
<1>7. c \in Int
  <2>1. Evened(R) \in 0 .. Q - 1
    BY <1>6, EvenedPoint
  <2>2. Evened(R) \in Int
    BY <2>1, QAssumption
  <2> QED
    BY <1>2, <2>2, ChallengeType
<1>8. w = RightHand(pre, Evened(secret), msg)
  BY <1>1 DEF RightHand, d
<1> HIDE DEF c
<1>9. k + c * d \in Int /\ c * d \in Int /\ d * c \in Int /\ k + T \in Int
  BY <1>2, <1>5, <1>7
<1>10. s \in 0 .. Q - 1 /\ s \in Int /\ Same(s, k + c * d)
  BY <1>9, Remainder, SameRemainder
<1>11. pre.s = s /\ pre.r = R
  BY <1>1
<1> HIDE DEF s
<1>12. point_mul(d, c) \in Int /\ Same(point_mul(d, c), d * c)
  BY <1>2, <1>7, PointTypes
<1>13. z \in 0 .. Q - 1 /\ z \in Int /\ Same(z, s + T)
  BY <1>2, <1>10, PointTypes
<1>14. w \in 0 .. Q - 1 /\ w \in Int /\ Same(w, R + point_mul(d, c))
  BY <1>6, <1>12, PointTypes
<1> HIDE DEF z, w
<1>15. Same(s + T, (k + c * d) + T)
  BY <1>2, <1>9, <1>10, Congruence
<1>16. Same(R + point_mul(d, c), (k + T) + d * c)
  BY <1>6, <1>9, <1>12, SameSum
<1>17. (k + T) + d * c = (k + c * d) + T /\ s + T \in Int /\ (k + c * d) + T \in Int /\ R + point_mul(d, c) \in Int
  BY <1>2, <1>5, <1>6, <1>7, <1>9, <1>10, <1>12
<1>18. Same(z, (k + c * d) + T) /\ Same(w, (k + c * d) + T)
  BY <1>13, <1>14, <1>15, <1>16, <1>17, Congruence
<1>19. z = w
  <2>1. Same(z, w)
    BY <1>13, <1>14, <1>17, <1>18, Congruence
  <2> QED
    BY <1>13, <1>14, <2>1, SameSmall
<1> QED
  BY <1>1, <1>8, <1>10, <1>11, <1>19 DEF z

\* The point a maker derives from what the oracle publishes is that of the
\* number the oracle will attest.
LEMMA AttestationIsThePoint ==
    ASSUME hash \in HashFunctions, NEW d \in 1 .. Q - 1, NEW r \in 1 .. Q - 1,
           NEW event \in Int, NEW outcome \in Int
    PROVE  /\ attest(Oracle(d, r), event, outcome) \in 0 .. Q - 1
           /\ maker_derive_T(Oracle(d, r).d, Oracle(d, r).r, event, outcome) = attest(Oracle(d, r), event, outcome)
<1> DEFINE P == Evened(d)
           R == Evened(r)
           h == Outcome(event, outcome)
           t == (R + h * P) % Q
           T == point_add(R, point_mul(P, h))
<1>1. d \in 0 .. Q - 1 /\ d # 0 /\ r \in 0 .. Q - 1 /\ r # 0
  BY QAssumption
<1>2. P \in Even /\ R \in Even
  BY <1>1, EvenedPoint
<1>3. P \in Int /\ R \in Int /\ lift_x(P) = P
  BY <1>2, Lift
<1>4. h \in Int
  <2>1. Tag.outcome \in Int
    BY DEF Tag
  <2>2. h \in 0 .. Q - 1
    BY <2>1, HashOfParts DEF Outcome
  <2> HIDE DEF h
  <2> QED
    BY <2>2, QAssumption
<1>5. attest(Oracle(d, r), event, outcome) = t
  BY DEF attest, Oracle
<1>6. maker_derive_T(Oracle(d, r).d, Oracle(d, r).r, event, outcome) = T
  BY <1>3 DEF maker_derive_T, Oracle
<1> HIDE DEF P, R, h
<1>7. h * P \in Int /\ R + h * P \in Int /\ h * P = P * h
  BY <1>3, <1>4
<1>8. t \in 0 .. Q - 1 /\ t \in Int /\ Same(t, R + h * P)
  BY <1>7, Remainder, SameRemainder
<1>9. point_mul(P, h) \in Int /\ Same(point_mul(P, h), h * P)
  BY <1>3, <1>4, <1>7, PointTypes
<1>10. T \in 0 .. Q - 1 /\ T \in Int /\ Same(T, R + point_mul(P, h))
  BY <1>3, <1>9, PointTypes
<1>11. Same(R + point_mul(P, h), R + h * P) /\ R + point_mul(P, h) \in Int
  BY <1>3, <1>7, <1>9, Congruence
<1> HIDE DEF t, T
<1>12. Same(T, t)
  <2>1. Same(T, R + h * P)
    BY <1>7, <1>10, <1>11, Congruence
  <2> QED
    BY <1>7, <1>8, <1>10, <2>1, Congruence
<1>13. T = t
  BY <1>8, <1>10, <1>12, SameSmall
<1> QED
  BY <1>5, <1>6, <1>8, <1>13

\* A completed signature moves s by the number that completes it.
LEMMA Decrypted ==
    ASSUME NEW r, NEW s, NEW pre, pre = [r |-> r, s |-> s], NEW u
    PROVE  /\ decrypt(pre, u).r = pre.r /\ decrypt(pre, u).s = point_add(pre.s, u)
           /\ \A pk, msg : RightHand(decrypt(pre, u), pk, msg) = RightHand(pre, pk, msg)
<1>1. decrypt(pre, u).r = pre.r /\ decrypt(pre, u).s = point_add(pre.s, u)
  BY DEF decrypt, point_add
<1> QED
  BY <1>1 DEF RightHand

\* One number completes a pre-signature, and the completed one gives it back.
LEMMA OneNumberCompletes ==
    ASSUME hash \in HashFunctions, NEW msg \in Int, NEW secret \in 0 .. Q - 1, NEW t \in 0 .. Q - 1,
           NEW pre, pre = pre_sign(secret, msg, t), pre # NoSig
    PROVE  /\ \A T \in 0 .. Q - 1 : pre_verify(pre, Evened(secret), msg, T) <=> T = t
           /\ \A u \in 0 .. Q - 1 : verify_completed(decrypt(pre, u), Evened(secret), msg) <=> u = t
           /\ recover(pre, decrypt(pre, t)) = t
<1> DEFINE pk == Evened(secret)
<1>1. /\ secret # 0 /\ t # 0 /\ pre.r # 0 /\ pre.s \in 0 .. Q - 1
      /\ \E r, s : pre = [r |-> r, s |-> s]
      /\ point_add(pre.s, t) = RightHand(pre, pk, msg)
  BY PreSignVerifies
<1>2. lift_x(pk) # 0
  BY <1>1, EvenedPoint, Lift
<1>3. pre.s \in Int /\ t \in Int
  BY <1>1, QAssumption
<1>4. ASSUME NEW T \in 0 .. Q - 1
      PROVE  point_add(pre.s, T) = RightHand(pre, pk, msg) <=> T = t
  BY <1>1, <1>3, AddCancels
<1>5. \A T \in 0 .. Q - 1 : pre_verify(pre, pk, msg, T) <=> T = t
  BY <1>1, <1>2, <1>4 DEF pre_verify
<1>6. \A u : /\ decrypt(pre, u).r = pre.r /\ decrypt(pre, u).s = point_add(pre.s, u)
             /\ RightHand(decrypt(pre, u), pk, msg) = RightHand(pre, pk, msg)
  BY <1>1, Decrypted
<1>7. \A u \in 0 .. Q - 1 : verify_completed(decrypt(pre, u), pk, msg) <=> u = t
  BY <1>1, <1>2, <1>4, <1>6 DEF verify_completed
<1>8. recover(pre, decrypt(pre, t)) = t
  <2> DEFINE s == pre.s
             z == point_add(s, t)
             v == (z - s) % Q
  <2>1. recover(pre, decrypt(pre, t)) = v
    BY <1>6 DEF recover
  <2>2. s \in Int /\ t \in Int /\ t \in 0 .. Q - 1
    BY <1>3
  <2> HIDE DEF s
  <2>3. z \in Int /\ Same(z, s + t)
    BY <2>2, PointTypes
  <2> HIDE DEF z
  <2>4. -s \in Int /\ s + t \in Int /\ z - s \in Int /\ z + (-s) = z - s /\ (s + t) + (-s) = t
    BY <2>2, <2>3
  <2>5. Same(z + (-s), (s + t) + (-s))
    BY <2>3, <2>4, Congruence
  <2>6. v \in 0 .. Q - 1 /\ v \in Int /\ Same(v, z - s)
    BY <2>4, Remainder, SameRemainder
  <2> HIDE DEF v
  <2>7. Same(v, t)
    BY <2>2, <2>4, <2>5, <2>6, Congruence
  <2>8. v = t
    BY <2>2, <2>6, <2>7, SameSmall
  <2> QED
    BY <2>1, <2>8
<1> QED
  BY <1>5, <1>7, <1>8

\* The hash of an order is a number.
LEMMA OrderHashType ==
    ASSUME hash \in HashFunctions, NEW body \in Int, NEW pk \in Int
    PROVE  order_sighash(body, pk) \in Int
<1>1. Tag.order \in Int
  BY DEF Tag
<1>2. order_sighash(body, pk) \in 0 .. Q - 1
  BY <1>1, HashOfParts DEF order_sighash
<1> QED
  BY <1>2, QAssumption

\* An order sealed to an outcome is locked by the oracle's attestation of it.
LEMMA AttestationLocks ==
    ASSUME hash \in HashFunctions, NEW o, o.secret \in 1 .. Q - 1, o.body \in Int,
           NEW d \in 1 .. Q - 1, NEW r \in 1 .. Q - 1, NEW event \in Int, NEW outcome \in Int,
           NEW c, c = build_oracle_conditional_order(o, Oracle(d, r), event, outcome), c.pre # NoSig,
           NEW t, t = attest(Oracle(d, r), event, outcome)
    PROVE  /\ verify_conditional_order(c)
           /\ \A T \in 1 .. Q - 1 : verify_conditional_order([c EXCEPT !.T = T]) => T = t
           /\ \A u \in 1 .. Q - 1 :
                 verify_completed(decrypt(c.pre, u), c.pk, order_sighash(c.body, c.pk)) <=> u = t
           /\ recover(c.pre, decrypt(c.pre, t)) = t
<1> DEFINE pk == Evened(o.secret)
           msg == order_sighash(o.body, pk)
           pre == pre_sign(o.secret, msg, t)
<1>1. t \in 0 .. Q - 1 /\ maker_derive_T(Oracle(d, r).d, Oracle(d, r).r, event, outcome) = t
  BY AttestationIsThePoint
<1>2. c = [body |-> o.body, pk |-> pk, T |-> t, pre |-> pre]
  BY <1>1 DEF build_oracle_conditional_order, build_conditional_order
<1>3. o.secret \in 0 .. Q - 1 /\ o.secret # 0
  BY QAssumption
<1>4. msg \in Int
  <2>1. pk \in Int
    BY <1>3, EvenedPoint, Lift
  <2> QED
    BY <2>1, OrderHashType
<1>5. /\ \A T \in 0 .. Q - 1 : pre_verify(pre, pk, msg, T) <=> T = t
      /\ \A u \in 0 .. Q - 1 : verify_completed(decrypt(pre, u), pk, msg) <=> u = t
      /\ recover(pre, decrypt(pre, t)) = t
  <2>1. pre # NoSig
    BY <1>2
  <2> HIDE DEF msg
  <2>2. \A p : p = pre_sign(o.secret, msg, t) /\ p # NoSig =>
                  /\ \A T \in 0 .. Q - 1 : pre_verify(p, pk, msg, T) <=> T = t
                  /\ \A u \in 0 .. Q - 1 : verify_completed(decrypt(p, u), pk, msg) <=> u = t
                  /\ recover(p, decrypt(p, t)) = t
    BY <1>1, <1>3, <1>4, OneNumberCompletes
  <2> QED
    BY <2>1, <2>2
<1> HIDE DEF pre
<1>6. \A T : verify_conditional_order([c EXCEPT !.T = T]) <=> pre_verify(pre, pk, msg, T)
  BY <1>2 DEF verify_conditional_order
<1>7. verify_conditional_order(c) <=> pre_verify(pre, pk, msg, t)
  BY <1>2 DEF verify_conditional_order
<1>8. \A x \in 1 .. Q - 1 : x \in 0 .. Q - 1
  BY QAssumption
<1>9. verify_conditional_order(c)
  BY <1>1, <1>5, <1>7
<1>10. \A T \in 1 .. Q - 1 : verify_conditional_order([c EXCEPT !.T = T]) => T = t
  BY <1>5, <1>6, <1>8
<1>11. c.pre = pre /\ c.pk = pk /\ order_sighash(c.body, c.pk) = msg
  BY <1>2
<1>12. \A u \in 1 .. Q - 1 : verify_completed(decrypt(c.pre, u), c.pk, order_sighash(c.body, c.pk)) <=> u = t
  BY <1>5, <1>8, <1>11
<1> QED
  BY <1>5, <1>9, <1>10, <1>11, <1>12

-----------------------------------------------------------------------------
(* Sums of points.                                                          *)

LEMMA SumType ==
    ASSUME NEW n \in Nat, NEW s \in [1 .. n -> Int]
    PROVE  Sum(s) \in 0 .. Q - 1 /\ Sum(s) \in Int
<1>1. PICK h \in [0 .. n -> Int] :
         /\ h[0] = 0 /\ h[n] = Sum(s)
         /\ \A i \in 1 .. n : h[i] = (h[i - 1] + s[i]) % Q
  BY SumByPlaces
<1>2. CASE n = 0
  BY <1>1, <1>2, QAssumption
<1>3. CASE n # 0
  <2>1. n \in 1 .. n /\ n - 1 \in 0 .. n
    BY <1>3
  <2>2. h[n] = (h[n - 1] + s[n]) % Q /\ h[n - 1] + s[n] \in Int
    BY <1>1, <2>1
  <2>3. h[n] \in 0 .. Q - 1 /\ h[n] \in Int
    BY <2>2, Remainder
  <2> QED
    BY <1>1, <2>3
<1> QED
  BY <1>2, <1>3

\* Two sums whose terms differ by a factor and by what D grows by at each
\* place differ by the factor and by what D grows to.
LEMMA SumTracks ==
    ASSUME NEW n \in Nat, NEW s \in [1 .. n -> Int], NEW t \in [1 .. n -> Int], NEW c \in Int,
           NEW D \in [0 .. n -> Int], D[0] = 0,
           \A i \in 1 .. n : Same(t[i], c * s[i] + (D[i] - D[i - 1]))
    PROVE  Same(Sum(t), c * Sum(s) + D[n])
<1>1. PICK g \in [0 .. n -> Int] :
         /\ g[0] = 0 /\ g[n] = Sum(s)
         /\ \A i \in 1 .. n : g[i] = (g[i - 1] + s[i]) % Q
  BY SumByPlaces
<1>2. PICK h \in [0 .. n -> Int] :
         /\ h[0] = 0 /\ h[n] = Sum(t)
         /\ \A i \in 1 .. n : h[i] = (h[i - 1] + t[i]) % Q
  BY SumByPlaces
<1> DEFINE S == {i \in Nat : i <= n => Same(h[i], c * g[i] + D[i])}
<1>3. 0 \in S
  <2>1. c * g[0] + D[0] = 0 + 0 * Q /\ h[0] = 0 /\ 0 \in Int
    BY <1>1, <1>2, QAssumption
  <2>2. Same(h[0], c * g[0] + D[0])
    <3>1. h[0] = (c * g[0] + D[0]) + 0 * Q
      BY <2>1, QAssumption
    <3> QED
      BY <2>1, <3>1 DEF Same
  <2> QED
    BY <2>2
<1>4. ASSUME NEW i \in Nat, i + 1 <= n, Same(h[i], c * g[i] + D[i])
      PROVE  Same(h[i + 1], c * g[i + 1] + D[i + 1])
  <2> DEFINE hi == h[i]
             gi == g[i]
             di == D[i]
             ti == t[i + 1]
             si == s[i + 1]
             dj == D[i + 1]
             hj == (hi + ti) % Q
             gj == (gi + si) % Q
  <2>1. i + 1 \in 1 .. n /\ (i + 1) - 1 = i /\ i \in 0 .. n /\ i + 1 \in 0 .. n
    BY <1>4
  <2>2. h[i + 1] = hj /\ g[i + 1] = gj /\ Same(ti, c * si + (dj - di)) /\ Same(hi, c * gi + di)
    BY <1>1, <1>2, <1>4, <2>1
  <2>3. hi \in Int /\ gi \in Int /\ di \in Int /\ ti \in Int /\ si \in Int /\ dj \in Int
    BY <2>1
  <2> HIDE DEF hi, gi, di, ti, si, dj
  <2>4. c * gi \in Int /\ c * si \in Int /\ c * (gi + si) = c * gi + c * si
    BY <2>3
  <2>5. hi + ti \in Int /\ gi + si \in Int /\ c * gi + di \in Int /\ c * si + (dj - di) \in Int
    BY <2>3, <2>4
  <2>6. hj \in Int /\ Same(hj, hi + ti) /\ gj \in Int /\ Same(gi + si, gj)
    BY <2>5, Remainder, SameRemainder
  <2> HIDE DEF hj, gj
  <2>7. Same(hi + ti, (c * gi + di) + (c * si + (dj - di)))
    BY <2>2, <2>3, <2>5, SameSum
  <2>8. (c * gi + di) + (c * si + (dj - di)) = c * (gi + si) + dj
    BY <2>3, <2>4
  <2>9. c * (gi + si) \in Int /\ c * gj \in Int /\ Same(c * (gi + si), c * gj)
    <3>1. Same(c * (gi + si), c * gj)
      BY <2>5, <2>6, Congruence
    <3> QED
      BY <2>5, <2>6, <3>1
  <2>10. Same(c * (gi + si) + dj, c * gj + dj) /\ c * (gi + si) + dj \in Int /\ c * gj + dj \in Int
    <3>1. Same(c * (gi + si) + dj, c * gj + dj)
      BY <2>3, <2>9, Congruence
    <3> QED
      BY <2>3, <2>9, <3>1
  <2>11. Same(hj, c * (gi + si) + dj)
    <3> DEFINE p == hi + ti
               q == c * (gi + si) + dj
    <3>1. Same(p, q)
      BY <2>7, <2>8
    <3>2. p \in Int /\ q \in Int /\ hj \in Int /\ Same(hj, p)
      BY <2>5, <2>6, <2>10
    <3> HIDE DEF p, q
    <3>3. Same(hj, q)
      BY <3>1, <3>2, Congruence
    <3> QED
      BY <3>3 DEF q
  <2>12. Same(hj, c * gj + dj)
    BY <2>6, <2>10, <2>11, Congruence
  <2> QED
    BY <2>2, <2>12 DEF dj
<1>5. S = Nat
  <2>1. S \in SUBSET Nat /\ \A i \in S : i + 1 \in S
    BY <1>4
  <2> HIDE DEF S
  <2> QED
    BY <1>3, <2>1, Induction
<1>6. Same(h[n], c * g[n] + D[n])
  <2>1. n \in S
    BY <1>5
  <2> QED
    BY <2>1
<1> QED
  BY <1>1, <1>2, <1>6

\* The sum of the negations is the negation of the sum.
LEMMA SumOfNegations ==
    ASSUME NEW n \in Nat, NEW s \in [1 .. n -> Int], NEW t \in [1 .. n -> Int],
           \A i \in 1 .. n : Same(t[i], -(s[i]))
    PROVE  Sum(t) = Neg(Sum(s))
<1> DEFINE D == [i \in 0 .. n |-> 0]
           m == -1
<1>1. m \in Int /\ D \in [0 .. n -> Int] /\ D[0] = 0 /\ D[n] = 0
  OBVIOUS
<1>2. \A i \in 1 .. n : m * s[i] + (D[i] - D[i - 1]) = -(s[i])
  <2>1. \A i \in 1 .. n : D[i] = 0 /\ D[i - 1] = 0 /\ s[i] \in Int
    OBVIOUS
  <2> QED
    BY <2>1
<1>3. \A i \in 1 .. n : Same(t[i], m * s[i] + (D[i] - D[i - 1]))
  BY <1>2
<1> HIDE DEF D, m
<1>4. Same(Sum(t), m * Sum(s) + D[n])
  BY <1>1, <1>3, SumTracks
<1>5. Sum(s) \in Int /\ Sum(t) \in 0 .. Q - 1 /\ Sum(t) \in Int
  BY SumType
<1>6. m * Sum(s) + D[n] = -(Sum(s)) /\ -(Sum(s)) \in Int
  BY <1>1, <1>5 DEF m
<1>7. Neg(Sum(s)) \in 0 .. Q - 1 /\ Neg(Sum(s)) \in Int /\ Same(Neg(Sum(s)), -(Sum(s)))
  BY <1>5, PointTypes
<1>8. Same(Sum(t), Neg(Sum(s)))
  BY <1>4, <1>5, <1>6, <1>7, Congruence
<1> QED
  BY <1>5, <1>7, <1>8, SameSmall

\* Changing one term changes the sum by as much.
LEMMA SumOfChanged ==
    ASSUME NEW n \in Nat, NEW s \in [1 .. n -> Int], NEW k \in 1 .. n, NEW x \in Int
    PROVE  Same(Sum([s EXCEPT ![k] = x]), Sum(s) + (x - s[k]))
<1> DEFINE t == [s EXCEPT ![k] = x]
           D == [i \in 0 .. n |-> IF i >= k THEN x - s[k] ELSE 0]
           m == 1
<1>1. s[k] \in Int /\ x - s[k] \in Int
  OBVIOUS
<1>2. m \in Int /\ t \in [1 .. n -> Int]
  OBVIOUS
<1>3. D \in [0 .. n -> Int] /\ D[0] = 0 /\ D[n] = x - s[k]
  <2>1. \A i \in 0 .. n : (IF i >= k THEN x - s[k] ELSE 0) \in Int
    BY <1>1
  <2>2. ~ 0 >= k /\ n >= k /\ 0 \in 0 .. n /\ n \in 0 .. n
    OBVIOUS
  <2> QED
    BY <2>1, <2>2
<1>4. ASSUME NEW i \in 1 .. n
      PROVE  Same(t[i], m * s[i] + (D[i] - D[i - 1]))
  <2>1. s[i] \in Int /\ i \in 0 .. n /\ i - 1 \in 0 .. n
    OBVIOUS
  <2>2. t[i] = m * s[i] + (D[i] - D[i - 1])
    <3>1. CASE i = k
      <4>1. t[i] = x /\ D[i] = x - s[k] /\ D[i - 1] = 0
        BY <2>1, <3>1
      <4> QED
        BY <1>1, <2>1, <3>1, <4>1
    <3>2. CASE i < k
      <4>1. t[i] = s[i] /\ D[i] = 0 /\ D[i - 1] = 0
        BY <2>1, <3>2
      <4> QED
        BY <2>1, <4>1
    <3>3. CASE i > k
      <4>1. t[i] = s[i] /\ D[i] = x - s[k] /\ D[i - 1] = x - s[k]
        BY <2>1, <3>3
      <4> QED
        BY <1>1, <2>1, <4>1
    <3> QED
      BY <3>1, <3>2, <3>3
  <2>3. t[i] = t[i] + 0 * Q
    BY <1>2, QAssumption
  <2>4. Same(t[i], t[i])
    BY <2>3 DEF Same
  <2> QED
    BY <2>2, <2>4
<1> HIDE DEF t, D, m
<1>5. Same(Sum(t), m * Sum(s) + D[n])
  BY <1>2, <1>3, <1>4, SumTracks
<1>6. m * Sum(s) + D[n] = Sum(s) + (x - s[k])
  <2>1. Sum(s) \in Int
    BY SumType
  <2> QED
    BY <1>1, <1>3, <2>1 DEF m
<1> QED
  BY <1>5, <1>6 DEF t

-----------------------------------------------------------------------------
(* Pools and thresholds.                                                    *)

LEMMA CoefficientTypes ==
    ASSUME hash \in HashFunctions, NEW n \in Nat \ {0}, NEW keys \in [1 .. n -> Int], NEW second
    PROVE  Coefficients(keys, second) \in [1 .. n -> Int]
<1> DEFINE list == tagged_hash(Tag.list, keys)
<1>1. Tag.list \in Int /\ Tag.coefficient \in Int
  BY DEF Tag
<1>2. list \in Int
  <2>1. list \in 0 .. Q - 1
    BY <1>1, HashType
  <2> HIDE DEF list
  <2> QED
    BY <2>1, QAssumption
<1> HIDE DEF list
<1>3. ASSUME NEW k \in Int
      PROVE  tagged_hash(Tag.coefficient, <<list, k>>) \in Int
  <2>1. tagged_hash(Tag.coefficient, <<list, k>>) \in 0 .. Q - 1
    BY <1>1, <1>2, HashOfParts
  <2> QED
    BY <2>1, QAssumption
<1>4. Coefficients(keys, second) =
        [i \in 1 .. n |-> IF keys[i] = second THEN 1 ELSE tagged_hash(Tag.coefficient, <<list, keys[i]>>)]
  BY DEF Coefficients, list
<1>5. \A i \in 1 .. n :
        (IF keys[i] = second THEN 1 ELSE tagged_hash(Tag.coefficient, <<list, keys[i]>>)) \in Int
  BY <1>3
<1> QED
  BY <1>4, <1>5

\* A pool signs with the secret of the key it announces: the keys are evened
\* one by one and once more together.
LEMMA PoolSecret ==
    ASSUME hash \in HashFunctions, NEW n \in Nat \ {0}, NEW secrets \in [1 .. n -> 0 .. Q - 1]
    PROVE  /\ aggregate_secret(secrets) \in 0 .. Q - 1
           /\ Evened(aggregate_secret(secrets)) = key_agg(EvenedKeys(secrets))
<1> DEFINE keys == EvenedKeys(secrets)
           coefs == Coefficients(keys, find_second_key(keys))
           P == AggPoint(keys)
           turned == [i \in 1 .. n |-> IF P \in Even THEN keys[i] ELSE Neg(keys[i])]
           s == [i \in 1 .. n |-> point_mul(keys[i], coefs[i])]
           t == [i \in 1 .. n |-> point_mul(turned[i], coefs[i])]
<1>1. keys \in [1 .. n -> Int] /\ DOMAIN keys = 1 .. n
  <2>1. \A i \in 1 .. n : Evened(secrets[i]) \in 0 .. Q - 1
    BY EvenedPoint
  <2>2. \A i \in 1 .. n : Evened(secrets[i]) \in Int
    BY <2>1, QAssumption
  <2>3. keys = [i \in 1 .. n |-> Evened(secrets[i])]
    BY DEF EvenedKeys
  <2> HIDE DEF keys
  <2> QED
    BY <2>2, <2>3
<1>2. coefs \in [1 .. n -> Int]
  BY <1>1, CoefficientTypes
<1>3. P = Sum(s)
  BY <1>1 DEF AggPoint, Weighted
<1>4. aggregate_secret(secrets) = Sum(t)
  BY <1>1 DEF aggregate_secret, Weighted
<1>5. key_agg(keys) = Evened(P)
  BY DEF key_agg
<1> HIDE DEF keys, coefs, P
<1>6. n \in Nat
  OBVIOUS
<1>7. \A i \in 1 .. n : Neg(keys[i]) \in Int /\ Same(Neg(keys[i]), -(keys[i]))
  BY <1>1, PointTypes
<1>8. turned \in [1 .. n -> Int]
  BY <1>1, <1>7
<1>9. s \in [1 .. n -> Int] /\ t \in [1 .. n -> Int]
  <2>1. \A i \in 1 .. n : keys[i] \in Int /\ coefs[i] \in Int /\ turned[i] \in Int
    BY <1>1, <1>2, <1>8
  <2> HIDE DEF turned
  <2>2. \A i \in 1 .. n : point_mul(keys[i], coefs[i]) \in Int /\ point_mul(turned[i], coefs[i]) \in Int
    BY <2>1, PointTypes
  <2> QED
    BY <2>2
<1>10. P \in 0 .. Q - 1 /\ Sum(t) \in 0 .. Q - 1
  BY <1>3, <1>6, <1>9, SumType
<1>11. CASE P \in Even
  <2>1. t = s
    BY <1>11
  <2> QED
    BY <1>3, <1>4, <1>5, <1>10, <2>1 DEF keys
<1>12. CASE P \notin Even
  <2>1. ASSUME NEW i \in 1 .. n
        PROVE  Same(t[i], -(s[i]))
    <3> DEFINE k == keys[i]
               c == coefs[i]
               m == Neg(k)
               a == point_mul(m, c)
               b == point_mul(k, c)
    <3>1. t[i] = a /\ s[i] = b
      BY <1>12
    <3>2. k \in Int /\ c \in Int /\ m \in Int /\ Same(m, -k)
      BY <1>1, <1>2, <1>7
    <3> HIDE DEF k, c, m
    <3>3. a \in Int /\ Same(a, m * c) /\ b \in Int /\ Same(b, k * c)
      BY <3>2, PointTypes
    <3> HIDE DEF a, b
    <3>4. -k \in Int /\ m * c \in Int /\ (-k) * c \in Int /\ k * c \in Int /\ -(k * c) \in Int /\ -b \in Int
          /\ (-k) * c = -(k * c)
      BY <3>2, <3>3
    <3>5. Same(m * c, (-k) * c) /\ Same(-b, -(k * c))
      BY <3>2, <3>3, <3>4, Congruence
    <3>6. Same(a, -(k * c)) /\ Same(-(k * c), -b)
      BY <3>3, <3>4, <3>5, Congruence
    <3>7. Same(a, -b)
      BY <3>3, <3>4, <3>6, Congruence
    <3> QED
      BY <3>1, <3>7
  <2>2. Sum(t) = Neg(P)
    <3> HIDE DEF s, t
    <3> QED
      BY <1>3, <1>6, <1>9, <2>1, SumOfNegations
  <2>3. Evened(Neg(P)) = Evened(P)
    BY <1>10, EvenedPoint
  <2> QED
    BY <1>4, <1>5, <1>10, <2>2, <2>3 DEF keys
<1> QED
  BY <1>11, <1>12

-----------------------------------------------------------------------------
(* Half-aggregation.                                                        *)

\* Sequences that are joined one after the other: the recursion of FlattenSeq.
Joins(f, n, seqs) == f = [i \in 1 .. n |-> IF i = 1 THEN seqs[i] ELSE f[i - 1] \o seqs[i]]

LEMMA FlattenType ==
    ASSUME NEW n \in Nat \ {0}, NEW seqs \in [1 .. n -> Seq(Int) \ {<<>>}]
    PROVE  FlattenSeq(seqs) \in Seq(Int) \ {<<>>}
<1> DEFINE Texts == Seq(Int) \ {<<>>}
           G == {k \in Nat : k + 1 <= n => \E f \in [1 .. k + 1 -> Texts] : Joins(f, k + 1, seqs)}
           flat == CHOOSE f : Joins(f, n, seqs)
           H == {k \in Nat : k + 1 <= n => flat[k + 1] \in Texts}
<1>1. \A a, b \in Texts : a \o b \in Texts
  <2>1. \A a, b \in Seq(Int) : a \o b \in Seq(Int) /\ Len(a \o b) = Len(a) + Len(b)
    OBVIOUS
  <2>2. \A a \in Seq(Int) : a # <<>> <=> Len(a) > 0
    BY EmptySeq, LenProperties
  <2>3. ASSUME NEW a \in Texts, NEW b \in Texts
        PROVE  a \o b \in Texts
    <3>1. Len(a) > 0 /\ Len(b) > 0 /\ Len(a) \in Nat /\ Len(b) \in Nat
      BY <2>2, LenProperties
    <3>2. Len(a \o b) > 0 /\ a \o b \in Seq(Int)
      BY <2>1, <3>1
    <3> QED
      BY <2>2, <3>2
  <2> QED
    BY <2>3
<1> HIDE DEF Texts
<1>2. \A i \in 1 .. n : seqs[i] \in Texts
  BY DEF Texts
<1>3. 0 \in G
  <2> DEFINE f == [i \in 1 .. 1 |-> seqs[i]]
  <2>1. 1 \in 1 .. n /\ 0 + 1 = 1
    OBVIOUS
  <2>2. f \in [1 .. 1 -> Texts]
    BY <1>2, <2>1
  <2>3. Joins(f, 1, seqs)
    BY DEF Joins
  <2> HIDE DEF f
  <2> QED
    BY <2>1, <2>2, <2>3
<1>4. ASSUME NEW k \in Nat, k \in G
      PROVE  k + 1 \in G
  <2>1. SUFFICES ASSUME (k + 1) + 1 <= n
                 PROVE  \E f \in [1 .. (k + 1) + 1 -> Texts] : Joins(f, (k + 1) + 1, seqs)
    OBVIOUS
  <2>2. PICK f \in [1 .. k + 1 -> Texts] : Joins(f, k + 1, seqs)
    BY <1>4, <2>1
  <2> DEFINE m == (k + 1) + 1
             g == [i \in 1 .. m |-> IF i = m THEN f[k + 1] \o seqs[m] ELSE f[i]]
  <2>3. m \in 1 .. n /\ k + 1 \in 1 .. k + 1 /\ m - 1 = k + 1 /\ m # 1
    BY <2>1
  <2>4. \A i \in 1 .. m : i # m => i \in 1 .. k + 1
    OBVIOUS
  <2>5. f[k + 1] \o seqs[m] \in Texts
    BY <1>1, <1>2, <2>3
  <2>6. g \in [1 .. m -> Texts]
    BY <2>4, <2>5
  <2>7. ASSUME NEW i \in 1 .. m
        PROVE  g[i] = IF i = 1 THEN seqs[i] ELSE g[i - 1] \o seqs[i]
    <3>1. CASE i = m
      <4>1. g[i - 1] = f[k + 1]
        BY <2>3, <3>1
      <4> QED
        BY <2>3, <3>1, <4>1
    <3>2. CASE i # m
      <4>1. i \in 1 .. k + 1 /\ g[i] = f[i]
        BY <2>4, <3>2
      <4>2. f[i] = IF i = 1 THEN seqs[i] ELSE f[i - 1] \o seqs[i]
        BY <2>2, <4>1 DEF Joins
      <4>3. i # 1 => g[i - 1] = f[i - 1]
        BY <4>1
      <4> QED
        BY <4>1, <4>2, <4>3
    <3> QED
      BY <3>1, <3>2
  <2>8. Joins(g, m, seqs)
    BY <2>7 DEF Joins
  <2> HIDE DEF g
  <2> QED
    BY <2>6, <2>8
<1>5. G = Nat
  <2>1. G \in SUBSET Nat /\ \A k \in G : k + 1 \in G
    BY <1>4
  <2> HIDE DEF G
  <2> QED
    BY <1>3, <2>1, Induction
<1>6. n - 1 \in Nat /\ (n - 1) + 1 = n
  OBVIOUS
<1>7. Joins(flat, n, seqs)
  <2>1. n - 1 \in G
    BY <1>5, <1>6
  <2>2. \E f : Joins(f, n, seqs)
    BY <1>6, <2>1
  <2> QED
    BY <2>2
<1> HIDE DEF flat
<1>8. 0 \in H /\ \A k \in H : k + 1 \in H
  <2>1. flat[1] \in Texts
    <3>1. 1 \in 1 .. n
      OBVIOUS
    <3> QED
      BY <1>2, <1>7, <3>1 DEF Joins
  <2>2. ASSUME NEW k \in Nat, (k + 1) + 1 <= n, flat[k + 1] \in Texts
        PROVE  flat[(k + 1) + 1] \in Texts
    <3>1. (k + 1) + 1 \in 1 .. n /\ (k + 1) + 1 # 1 /\ ((k + 1) + 1) - 1 = k + 1
      BY <2>2
    <3>2. flat[(k + 1) + 1] = flat[k + 1] \o seqs[(k + 1) + 1]
      BY <1>7, <3>1 DEF Joins
    <3> QED
      BY <1>1, <1>2, <2>2, <3>1, <3>2
  <2> QED
    BY <2>1, <2>2
<1>9. H = Nat
  <2>1. H \in SUBSET Nat
    OBVIOUS
  <2> HIDE DEF H
  <2> QED
    BY <1>8, <2>1, Induction
<1>10. flat[n] \in Texts
  <2>1. n - 1 \in H
    BY <1>6, <1>9
  <2> QED
    BY <1>6, <2>1
<1>11. FlattenSeq(seqs) = flat[n]
  <2>1. Len(seqs) = n
    OBVIOUS
  <2> QED
    BY <2>1 DEF FlattenSeq, flat, Joins
<1> QED
  BY <1>10, <1>11 DEF Texts

LEMMA RandomizerType ==
    ASSUME hash \in HashFunctions, NEW n \in Nat \ {0}, NEW keys \in [1 .. n -> Int],
           NEW msgs \in [1 .. n -> Int], NEW rs \in [1 .. n -> Int], NEW i \in 1 .. n
    PROVE  Randomizer(keys, msgs, rs, i) \in 0 .. Q - 1
<1> DEFINE parts == [j \in 1 .. i |-> <<rs[j], keys[j], msgs[j]>>]
<1>1. CASE i = 1
  BY <1>1, QAssumption DEF Randomizer
<1>2. CASE i # 1
  <2>1. i \in Nat \ {0} /\ \A j \in 1 .. i : j \in 1 .. n
    OBVIOUS
  <2>2. \A j \in 1 .. i : <<rs[j], keys[j], msgs[j]>> \in Seq(Int) \ {<<>>}
    BY <2>1
  <2>3. parts \in [1 .. i -> Seq(Int) \ {<<>>}]
    BY <2>2
  <2>4. Randomizer(keys, msgs, rs, i) = tagged_hash(Tag.randomizer, FlattenSeq(parts))
    BY <1>2 DEF Randomizer
  <2> HIDE DEF parts
  <2>5. FlattenSeq(parts) \in Seq(Int) \ {<<>>}
    BY <2>1, <2>3, FlattenType
  <2> DEFINE t == FlattenSeq(parts)
  <2>6. Len(t) \in Nat \ {0} /\ t \in [1 .. Len(t) -> Int]
    <3>1. \A u \in Seq(Int) \ {<<>>} : Len(u) \in Nat \ {0} /\ u \in [1 .. Len(u) -> Int]
      BY EmptySeq, LenProperties
    <3> QED
      BY <2>5, <3>1
  <2>7. Tag.randomizer \in Int
    BY DEF Tag
  <2> HIDE DEF t
  <2>8. tagged_hash(Tag.randomizer, t) \in 0 .. Q - 1
    BY <2>6, <2>7, HashType
  <2> QED
    BY <2>4, <2>8 DEF t
<1> QED
  BY <1>1, <1>2

\* Each term of a half-aggregate's sum.
Term(keys, msgs, rs, i) ==
    point_mul(point_add(rs[i], point_mul(keys[i], Challenge(rs[i], keys[i], msgs[i]))), Randomizer(keys, msgs, rs, i))

\* The signatures with the s of the k-th changed.
Moved(sigs, k) == [sigs EXCEPT ![k].s = (@ + 1) % Q]

BoundToEach(keys, msgs, sigs, rs) ==
    \A k \in DOMAIN sigs :
        halfagg_verify(keys, msgs, aggregate(keys, msgs, Moved(sigs, k))) <=> Randomizer(keys, msgs, rs, k) = 0

\* Signatures that verify one by one verify together; when the s of one is
\* changed they verify together only if its randomizer is 0.
LEMMA AggregateVerifies ==
    ASSUME hash \in HashFunctions, NEW n \in Nat \ {0}, NEW keys \in [1 .. n -> Int], NEW msgs \in [1 .. n -> Int],
           NEW sigs \in [1 .. n -> [r : Int, s : 0 .. Q - 1]], NEW rs, rs = [i \in 1 .. n |-> sigs[i].r],
           \A i \in 1 .. n : schnorr_verify(msgs[i], keys[i], sigs[i])
    PROVE  /\ halfagg_verify(keys, msgs, aggregate(keys, msgs, sigs))
           /\ BoundToEach(keys, msgs, sigs, rs)
<1> DEFINE z == [i \in 1 .. n |-> Randomizer(keys, msgs, rs, i)]
           w == [i \in 1 .. n |-> Term(keys, msgs, rs, i)]
           Parts(ss) == [i \in 1 .. n |-> point_mul(ss[i].s, z[i])]
<1>1. rs \in [1 .. n -> Int]
  OBVIOUS
<1>2. \A i \in 1 .. n : /\ z[i] \in 0 .. Q - 1 /\ z[i] \in Int
                        /\ sigs[i].s \in 0 .. Q - 1 /\ sigs[i].s \in Int
  <2>1. \A i \in 1 .. n : z[i] \in 0 .. Q - 1
    BY <1>1, RandomizerType
  <2> HIDE DEF z
  <2> QED
    BY <2>1, QAssumption
<1>3. ASSUME NEW i \in 1 .. n
      PROVE  /\ keys[i] \in Even /\ rs[i] \in Even
             /\ sigs[i].s = point_add(rs[i], point_mul(keys[i], Challenge(rs[i], keys[i], msgs[i])))
  <2>1. rs[i] = sigs[i].r /\ keys[i] \in Int /\ msgs[i] \in Int /\ sigs[i].s \in 0 .. Q - 1
    OBVIOUS
  <2>2. schnorr_verify(msgs[i], keys[i], sigs[i])
    OBVIOUS
  <2> QED
    BY <2>1, <2>2, VerifiedEquation
<1>4. Parts(sigs) = w
  BY <1>3 DEF Term
<1>5. n \in Nat /\ w \in [1 .. n -> Int]
  <2>1. \A i \in 1 .. n : point_mul(sigs[i].s, z[i]) \in Int
    BY <1>2, PointTypes
  <2>2. \A i \in 1 .. n : w[i] \in Int
    BY <1>4, <2>1
  <2> QED
    BY <2>2
<1>6. ASSUME NEW ss \in [1 .. n -> [r : Int, s : 0 .. Q - 1]], \A i \in 1 .. n : ss[i].r = sigs[i].r
      PROVE  halfagg_verify(keys, msgs, aggregate(keys, msgs, ss)) <=> Sum(Parts(ss)) = Sum(w)
  <2> DEFINE agg == aggregate(keys, msgs, ss)
  <2>1. [i \in DOMAIN ss |-> ss[i].r] = rs /\ DOMAIN ss = 1 .. n /\ DOMAIN keys = 1 .. n
    BY <1>6
  <2>2. agg.rs = rs /\ agg.s = Sum([i \in 1 .. n |-> point_mul(ss[i].s, Randomizer(keys, msgs, rs, i))])
    BY <2>1 DEF aggregate
  <2>3. [i \in 1 .. n |-> point_mul(ss[i].s, Randomizer(keys, msgs, rs, i))] = Parts(ss)
    OBVIOUS
  <2>4. agg.s = Sum(Parts(ss))
    BY <2>2, <2>3
  <2>5. Len(rs) = n /\ Len(keys) = n
    BY <1>1
  <2>6. [i \in DOMAIN keys |->
            point_mul(point_add(rs[i], point_mul(keys[i], Challenge(rs[i], keys[i], msgs[i]))),
                      Randomizer(keys, msgs, rs, i))] = w
    BY <2>1 DEF Term
  <2> HIDE DEF agg, w, Parts
  <2>7. halfagg_verify(keys, msgs, agg) <=> agg.s = Sum(w)
    BY <1>3, <2>1, <2>2, <2>5, <2>6 DEF halfagg_verify
  <2> QED
    BY <2>4, <2>7 DEF agg
<1>7. halfagg_verify(keys, msgs, aggregate(keys, msgs, sigs))
  <2>1. \A i \in 1 .. n : sigs[i].r = sigs[i].r
    OBVIOUS
  <2> HIDE DEF w, Parts
  <2> QED
    BY <1>4, <1>6, <2>1
<1>8. ASSUME NEW k \in 1 .. n
      PROVE  halfagg_verify(keys, msgs, aggregate(keys, msgs, Moved(sigs, k))) <=> z[k] = 0
  <2> DEFINE s == sigs[k].s
             zk == z[k]
             s1 == (s + 1) % Q
             ss == [sigs EXCEPT ![k].s = (@ + 1) % Q]
             x == point_mul(s1, zk)
             wk == w[k]
             W == Sum(w)
             V == Sum([w EXCEPT ![k] = x])
  <2>1. s \in Int /\ s + 1 \in Int /\ zk \in Int /\ zk \in 0 .. Q - 1
    BY <1>2
  <2>2. s1 \in 0 .. Q - 1 /\ s1 \in Int /\ Same(s1, s + 1)
    <3> HIDE DEF s, zk
    <3> QED
      BY <2>1, Remainder, SameRemainder
  <2>3. /\ ss \in [1 .. n -> [r : Int, s : 0 .. Q - 1]]
        /\ \A i \in 1 .. n : ss[i].r = sigs[i].r
        /\ \A i \in 1 .. n : ss[i].s = IF i = k THEN s1 ELSE sigs[i].s
    <3> HIDE DEF s1
    <3>1. ss = [sigs EXCEPT ![k] = [r |-> sigs[k].r, s |-> s1]]
      <4>1. sigs[k] \in [r : Int, s : 0 .. Q - 1]
        OBVIOUS
      <4>2. [sigs[k] EXCEPT !.s = s1] = [r |-> sigs[k].r, s |-> s1]
        BY <4>1
      <4>3. ss = [sigs EXCEPT ![k] = [sigs[k] EXCEPT !.s = s1]]
        BY DEF s1
      <4> QED
        BY <4>2, <4>3
    <3> HIDE DEF ss
    <3> QED
      BY <2>2, <3>1
  <2>4. Parts(ss) = [w EXCEPT ![k] = x]
    <3> HIDE DEF ss, w, s1
    <3> QED
      BY <1>4, <2>3
  <2>5. halfagg_verify(keys, msgs, aggregate(keys, msgs, ss)) <=> V = W
    <3> HIDE DEF ss, w, Parts, x, s1
    <3>1. halfagg_verify(keys, msgs, aggregate(keys, msgs, ss)) <=> Sum(Parts(ss)) = Sum(w)
      BY <1>6, <2>3
    <3> QED
      BY <2>4, <3>1
  <2>6. w[k] = point_mul(s, zk)
    BY <1>4
  <2> HIDE DEF s, zk, s1
  <2>7. x \in Int /\ Same(x, s1 * zk) /\ wk \in Int /\ Same(wk, s * zk)
    <3> HIDE DEF w
    <3>1. x \in Int /\ Same(x, s1 * zk)
      BY <2>1, <2>2, PointTypes
    <3>2. wk = point_mul(s, zk)
      BY <2>6
    <3> HIDE DEF x, wk
    <3>3. wk \in Int /\ Same(wk, s * zk)
      BY <2>1, <3>2, PointTypes
    <3> QED
      BY <3>1, <3>3
  <2> HIDE DEF x, w, wk
  <2>8. V \in 0 .. Q - 1 /\ V \in Int /\ W \in 0 .. Q - 1 /\ W \in Int /\ Same(V, W + (x - wk))
    <3>1. [w EXCEPT ![k] = x] \in [1 .. n -> Int]
      BY <1>5, <2>7
    <3> QED
      BY <1>5, <2>7, <3>1, SumType, SumOfChanged DEF wk
  <2> HIDE DEF V, W
  <2>9. Same(x - wk, zk)
    <3>1. s1 * zk \in Int /\ (s + 1) * zk \in Int /\ s * zk \in Int /\ x - wk \in Int
          /\ (s + 1) * zk - s * zk = zk
      BY <2>1, <2>2, <2>7
    <3>2. Same(s1 * zk, (s + 1) * zk)
      BY <2>1, <2>2, Congruence
    <3>3. Same(x, (s + 1) * zk)
      BY <2>7, <3>1, <3>2, Congruence
    <3>4. Same(x - wk, (s + 1) * zk - s * zk)
      BY <2>7, <3>1, <3>3, SameSum
    <3> QED
      BY <3>1, <3>4
  <2>10. Same(V, W + zk) /\ W + zk \in Int /\ Same(W + zk, V)
    <3>1. W + (x - wk) \in Int /\ W + zk \in Int /\ x - wk \in Int
      BY <2>1, <2>7, <2>8
    <3>2. Same(W + (x - wk), W + zk)
      BY <2>1, <2>8, <2>9, <3>1, Congruence
    <3>3. Same(V, W + zk)
      BY <2>8, <3>1, <3>2, Congruence
    <3> QED
      BY <2>8, <3>1, <3>3, Congruence
  <2>11. ASSUME V = W
         PROVE  zk = 0
    <3>1. Same(W + zk, W) /\ -W \in Int
      BY <2>8, <2>10, <2>11
    <3>2. Same((W + zk) + (-W), W + (-W))
      BY <2>8, <2>10, <3>1, Congruence
    <3>3. (W + zk) + (-W) = zk /\ W + (-W) = 0 /\ 0 \in 0 .. Q - 1
      BY <2>1, <2>8, QAssumption
    <3>4. Same(zk, 0)
      BY <3>2, <3>3
    <3> QED
      BY <2>1, <3>3, <3>4, SameSmall
  <2>12. ASSUME zk = 0
         PROVE  V = W
    <3>1. Same(V, W)
      <4>1. W + zk = W
        BY <2>8, <2>12
      <4> QED
        BY <2>10, <4>1
    <3> QED
      BY <2>8, <3>1, SameSmall
  <2>13. halfagg_verify(keys, msgs, aggregate(keys, msgs, ss)) <=> zk = 0
    BY <2>5, <2>11, <2>12
  <2> QED
    BY <2>13 DEF zk, s, Moved
<1>9. \A k \in 1 .. n : z[k] = Randomizer(keys, msgs, rs, k)
  OBVIOUS
<1> HIDE DEF z, w, Parts
<1>10. BoundToEach(keys, msgs, sigs, rs)
  BY <1>8, <1>9 DEF BoundToEach
<1> QED
  BY <1>7, <1>10

-----------------------------------------------------------------------------
(* Commitments.                                                             *)

\* A signature that hides c opens to c, and a search that reaches c ends at c
\* or at an earlier candidate with the same nonce.
LEMMA HiddenOpens ==
    ASSUME hash \in HashFunctions, NEW secret \in 1 .. Q - 1, NEW msg \in Int, NEW c \in 0 .. 2, NEW aux \in Int,
           NEW made, made = s2c_sign(secret, msg, c, aux), made.sig # NoSig,
           NEW found, found = s2c_recover_c(made.sig, msg, Evened(secret), made.R0, <<0, 1, 2>>)
    PROVE  /\ verify_reveal_against_sig(build_reveal("tx", made.R0, c), made.sig, msg, Evened(secret))
           /\ found \in 1 .. c + 1
           /\ s2c_expected_R_x(made.R0, found - 1) = made.sig.r
<1> DEFINE d == Evened(secret)
           R0 == derive_k0(d, msg, c, aux)
           T == Tweaked(R0, c)
           sig == Sealed(Evened(T), d, msg)
<1>1. R0 # 0 /\ T # 0 /\ made = [sig |-> sig, R0 |-> R0]
  BY DEF s2c_sign
<1>2. secret \in 0 .. Q - 1 /\ secret # 0
  BY QAssumption
<1>3. d \in Even /\ d \in Int /\ c \in Int
  BY <1>2, EvenedPoint, Lift
<1>4. R0 \in Even /\ R0 \in Int /\ lift_x(R0) # 0
  <2> DEFINE k0 == tagged_hash(Tag.s2cNonce, <<Masked(d, aux), msg, c>>)
  <2>1. Tag.s2cNonce \in Int /\ Tag.aux \in Int
    BY DEF Tag
  <2>2. Masked(d, aux) \in Int
    <3>1. tagged_hash(Tag.aux, <<aux>>) \in 0 .. Q - 1
      BY <2>1, HashOfParts
    <3> QED
      BY <1>3, <3>1, QAssumption DEF Masked
  <2>3. k0 \in 0 .. Q - 1
    BY <1>3, <2>1, <2>2, HashOfParts
  <2>4. R0 = Evened(k0)
    BY DEF derive_k0
  <2> HIDE DEF k0, R0
  <2>5. R0 \in Even
    BY <1>1, <2>3, <2>4, EvenedPoint
  <2> QED
    BY <2>5, Lift
<1>5. Evened(T) \in Even
  <2>1. Tag.s2c \in Int
    BY DEF Tag
  <2>2. s2c_tweak(R0, c) \in 0 .. Q - 1
    <3> HIDE DEF R0
    <3> QED
      BY <1>3, <1>4, <2>1, HashOfParts DEF s2c_tweak
  <2>3. s2c_tweak(R0, c) \in Int
    BY <2>2, QAssumption
  <2>4. T \in 0 .. Q - 1
    <3> HIDE DEF R0
    <3> QED
      BY <1>4, <2>3, PointTypes DEF Tweaked
  <2> HIDE DEF T
  <2> QED
    BY <1>1, <2>4, EvenedPoint
<1> HIDE DEF R0, d
<1>6. schnorr_verify(msg, d, sig) /\ sig.r = Evened(T)
  <2> HIDE DEF T
  <2> QED
    BY <1>3, <1>5, SealedVerifies
<1>7. s2c_expected_R_x(R0, c) = sig.r
  <2>1. s2c_expected_R_x(R0, c) = Evened(T)
    BY <1>4 DEF s2c_expected_R_x
  <2> QED
    BY <1>6, <2>1
<1> HIDE DEF sig
<1>8. verify_reveal_against_sig(build_reveal("tx", made.R0, c), made.sig, msg, d)
  <2>1. build_reveal("tx", made.R0, c).R0 = R0 /\ build_reveal("tx", made.R0, c).c = c /\ made.sig = sig
    BY <1>1 DEF build_reveal
  <2> QED
    BY <1>4, <1>6, <1>7, <2>1 DEF verify_reveal_against_sig, s2c_verify
<1> DEFINE candidates == <<0, 1, 2>>
           I == {i \in 1 .. 3 : s2c_expected_R_x(R0, candidates[i]) = sig.r}
<1>9. Len(candidates) = 3 /\ \A i \in 1 .. 3 : candidates[i] = i - 1
  OBVIOUS
<1>10. found = IF I # {} THEN Min(I) ELSE 0
  <2>1. made.R0 = R0 /\ made.sig = sig /\ schnorr_verify(msg, Evened(secret), made.sig)
    BY <1>1, <1>6 DEF d
  <2> DEFINE J == {i \in 1 .. Len(candidates) : s2c_expected_R_x(made.R0, candidates[i]) = made.sig.r}
  <2>2. found = IF J # {} THEN Min(J) ELSE 0
    BY <2>1 DEF s2c_recover_c, SelectInSeq
  <2>3. J = I
    <3> HIDE DEF candidates
    <3> QED
      BY <1>9, <2>1
  <2> HIDE DEF I, J
  <2> QED
    BY <2>2, <2>3
<1>11. c + 1 \in I
  <2>1. c + 1 \in 1 .. 3 /\ (c + 1) - 1 = c
    OBVIOUS
  <2>2. candidates[c + 1] = c
    BY <1>9, <2>1
  <2> HIDE DEF candidates
  <2> QED
    BY <1>7, <2>1, <2>2
<1>12. \E x \in I : \A y \in I : x =< y
  <2>1. I \in SUBSET (1 .. 3)
    OBVIOUS
  <2> HIDE DEF I
  <2>2. CASE 1 \in I
    BY <2>1, <2>2
  <2>3. CASE 1 \notin I /\ 2 \in I
    BY <2>1, <2>3
  <2>4. CASE 1 \notin I /\ 2 \notin I
    BY <1>11, <2>1, <2>4
  <2> QED
    BY <2>2, <2>3, <2>4
<1>13. Min(I) \in I /\ Min(I) =< c + 1
  <2> HIDE DEF I
  <2> QED
    BY <1>11, <1>12 DEF Min
<1>14. found \in I /\ found =< c + 1
  <2>1. I # {}
    BY <1>11
  <2> HIDE DEF I
  <2> QED
    BY <1>10, <1>13, <2>1
<1>15. found \in 1 .. c + 1 /\ s2c_expected_R_x(R0, found - 1) = sig.r
  <2>1. found \in 1 .. 3 /\ s2c_expected_R_x(R0, candidates[found]) = sig.r
    BY <1>14
  <2>2. candidates[found] = found - 1
    BY <1>9, <2>1
  <2> HIDE DEF candidates
  <2> QED
    BY <1>14, <2>1, <2>2
<1> QED
  BY <1>1, <1>8, <1>15 DEF d

\* The point a proof of equal logarithms gives back is that of its nonce.
LEMMA NonceComesBack ==
    ASSUME NEW g \in Int, NEW a \in Int, NEW k \in Int, NEW e \in Int
    PROVE  point_add(point_mul(g, (k + e * a) % Q), Neg(point_mul(point_mul(g, a), e))) = point_mul(g, k)
<1> DEFINE s == (k + e * a) % Q
           X == point_mul(g, a)
           u == point_mul(g, s)
           v == point_mul(X, e)
           m == Neg(v)
           z == point_add(u, m)
           w == point_mul(g, k)
<1>1. e * a \in Int /\ k + e * a \in Int /\ g * a \in Int /\ g * k \in Int
  OBVIOUS
<1>2. s \in Int /\ Same(s, k + e * a)
  BY <1>1, Remainder, SameRemainder
<1> HIDE DEF s
<1>3. X \in Int /\ Same(X, g * a)
  BY PointTypes
<1> HIDE DEF X
<1>4. u \in Int /\ Same(u, g * s) /\ v \in Int /\ Same(v, X * e)
  BY <1>2, <1>3, PointTypes
<1> HIDE DEF u, v
<1>5. m \in Int /\ Same(m, -v)
  BY <1>4, PointTypes
<1> HIDE DEF m
<1>6. z \in 0 .. Q - 1 /\ z \in Int /\ Same(z, u + m) /\ w \in 0 .. Q - 1 /\ w \in Int /\ Same(w, g * k)
  BY <1>4, <1>5, PointTypes
<1> HIDE DEF z, w
<1> DEFINE p == g * (k + e * a)
           q == (g * a) * e
<1>7. p \in Int /\ q \in Int /\ -q \in Int /\ p + (-q) = g * k
  <2>1. p = g * k + g * (e * a) /\ q = g * (e * a)
    <3>1. g * (k + e * a) = g * k + g * (e * a)
      OBVIOUS
    <3>2. (g * a) * e = g * (e * a)
      OBVIOUS
    <3> QED
      BY <3>1, <3>2
  <2>2. g * (e * a) \in Int
    OBVIOUS
  <2> HIDE DEF p, q
  <2> QED
    BY <1>1, <2>1, <2>2
<1>8. g * s \in Int /\ X * e \in Int /\ -v \in Int /\ u + m \in Int
  BY <1>2, <1>3, <1>4, <1>5
<1>9. Same(g * s, p) /\ Same(X * e, q)
  BY <1>1, <1>2, <1>3, Congruence
<1> HIDE DEF p, q
<1>10. Same(u, p) /\ Same(v, q)
  BY <1>4, <1>7, <1>8, <1>9, Congruence
<1>11. Same(-v, -q)
  BY <1>4, <1>7, <1>10, Congruence
<1>12. Same(m, -q)
  BY <1>5, <1>7, <1>8, <1>11, Congruence
<1>13. Same(u + m, p + (-q))
  BY <1>4, <1>5, <1>7, <1>10, <1>12, SameSum
<1>14. Same(z, g * k)
  BY <1>1, <1>6, <1>7, <1>8, <1>13, Congruence
<1>15. Same(z, w)
  BY <1>1, <1>6, <1>14, Congruence
<1>16. z = w
  BY <1>6, <1>15, SameSmall
<1> QED
  BY <1>16 DEF z, u, m, v, X, s, w

\* A proof of equal logarithms verifies.
LEMMA ProofVerifies ==
    ASSUME hash \in HashFunctions, NEW a \in 1 .. Q - 1, NEW B \in 1 .. Q - 1, NEW gen \in 1 .. Q - 1,
           NEW r \in Int, NEW m \in Int, NEW A, A = point_mul(gen, a), NEW C, C = point_mul(B, a),
           DleqNonce(a, A, C, r, m) # 0
    PROVE  verify_proof(A, B, C, generate_proof(a, B, r, gen, m), gen, m)
<1> DEFINE k == DleqNonce(a, A, C, r, m)
           R1 == point_mul(gen, k)
           R2 == point_mul(B, k)
           e == dleq_challenge(A, B, C, R1, R2, m, gen)
           s == (k + e * a) % Q
<1>1. a \in Int /\ B \in Int /\ gen \in Int /\ B # 0 /\ gen # 0
  BY QAssumption
<1>2. A \in Int /\ C \in Int /\ A # 0 /\ C # 0
  BY <1>1, PointTypes, NoZeroDivisors DEF point_mul
<1>3. k \in 0 .. Q - 1
  <2>1. Tag.dleqNonce \in Int /\ Tag.aux \in Int
    BY DEF Tag
  <2>2. Masked(a, r) \in Int
    <3>1. tagged_hash(Tag.aux, <<r>>) \in 0 .. Q - 1
      BY <2>1, HashOfParts
    <3> QED
      BY <1>1, <3>1, QAssumption DEF Masked
  <2> QED
    BY <1>2, <2>1, <2>2, HashOfParts DEF DleqNonce
<1>4. k \in 1 .. Q - 1 /\ k \in Int
  <2> HIDE DEF k
  <2>1. k # 0
    BY DEF k
  <2> QED
    BY <1>3, <2>1, QAssumption
<1>5. generate_proof(a, B, r, gen, m) = [e |-> e, s |-> s]
  BY DEF generate_proof, Proof
<1> HIDE DEF k
<1>6. R1 \in Int /\ R2 \in Int /\ R1 # 0 /\ R2 # 0
  <2>1. R1 \in Int /\ R2 \in Int
    BY <1>1, <1>4, PointTypes
  <2>2. R1 # 0 /\ R2 # 0
    BY <1>4, NoZeroDivisors DEF point_mul
  <2> QED
    BY <2>1, <2>2
<1>7. e \in Int
  <2> HIDE DEF R1, R2
  <2>1. <<A, B, C, gen, R1, R2, m>> \in [1 .. 7 -> Int] /\ 7 \in Nat \ {0}
    BY <1>1, <1>2, <1>6
  <2>2. Tag.dleq \in Int
    BY DEF Tag
  <2>3. tagged_hash(Tag.dleq, <<A, B, C, gen, R1, R2, m>>) \in 0 .. Q - 1
    BY <2>1, <2>2, HashType
  <2> QED
    BY <2>3, QAssumption DEF dleq_challenge
<1> HIDE DEF e
<1>8. point_add(point_mul(gen, s), Neg(point_mul(A, e))) = R1
  BY <1>1, <1>4, <1>7, NonceComesBack
<1>9. point_add(point_mul(B, s), Neg(point_mul(C, e))) = R2
  BY <1>1, <1>4, <1>7, NonceComesBack
<1> HIDE DEF s, R1, R2
<1> QED
  BY <1>1, <1>2, <1>5, <1>6, <1>8, <1>9 DEF verify_proof, e

-----------------------------------------------------------------------------
(* The probes.                                                              *)

Orders == Solo \cup Pool \cup Frost

\* Whoever makes an order, it is signed under the key it announces.
LEMMA OrderSigned ==
    ASSUME hash \in HashFunctions, NEW o \in Orders,
           NEW pk, pk = MakerKey(o), NEW sig, sig = resolve_order(o, pk), sig # NoSig
    PROVE  /\ pk \in Int /\ o.body \in Int
           /\ sig \in [r : Int, s : 0 .. Q - 1]
           /\ schnorr_verify(order_sighash(o.body, pk), pk, sig)
<1> DEFINE msg == order_sighash(o.body, pk)
<1>1. o.body \in Int
  BY DEF Orders, Solo, Pool, Frost, Bodies
<1>2. \A key \in 0 .. Q - 1 : Evened(key) \in Int
  <2>1. \A key \in 0 .. Q - 1 : Evened(key) \in 0 .. Q - 1
    BY EvenedPoint
  <2> QED
    BY <2>1, QAssumption
<1>3. 0 \in Int
  OBVIOUS
<1>4. ASSUME NEW key \in 0 .. Q - 1, pk = Evened(key), sig = schnorr_sign(msg, key, 0)
      PROVE  pk \in Int /\ sig \in [r : Int, s : 0 .. Q - 1] /\ schnorr_verify(msg, pk, sig)
  <2>1. pk \in Int
    BY <1>2, <1>4
  <2>2. msg \in Int
    BY <1>1, <2>1, OrderHashType
  <2> HIDE DEF msg
  <2> QED
    BY <1>3, <1>4, <2>1, <2>2, SignVerifies
<1>5. CASE o \in Solo
  <2>1. o.kind = "solo" /\ o.secret \in 0 .. Q - 1
    BY <1>5, QAssumption DEF Solo, Scalars
  <2>2. pk = Evened(o.secret) /\ sig = schnorr_sign(msg, o.secret, 0)
    BY <2>1 DEF MakerKey, resolve_order
  <2> QED
    BY <1>1, <1>4, <2>1, <2>2
<1>6. CASE o \in Pool
  <2>1. o.kind = "pool" /\ \E n \in Nat \ {0} : o.secrets \in [1 .. n -> 0 .. Q - 1]
    <3>1. o.kind = "pool" /\ o.secrets \in Scalars \X Scalars \cup {3} \X Scalars \X Scalars
      BY <1>6 DEF Pool
    <3>2. \A a, b, c \in Scalars : <<a, b>> \in [1 .. 2 -> 0 .. Q - 1] /\ <<3, a, b>> \in [1 .. 3 -> 0 .. Q - 1]
      <4>1. \A a \in Scalars : a \in 0 .. Q - 1
        BY QAssumption DEF Scalars
      <4>2. 3 \in 0 .. Q - 1
        BY QAssumption, KeysAssumption
      <4> QED
        BY <4>1, <4>2
    <3>3. \/ \E a, b \in Scalars : o.secrets = <<a, b>>
          \/ \E a, b \in Scalars : o.secrets = <<3, a, b>>
      BY <3>1
    <3>4. o.secrets \in [1 .. 2 -> 0 .. Q - 1] \/ o.secrets \in [1 .. 3 -> 0 .. Q - 1]
      <4>1. ASSUME NEW a \in Scalars, NEW b \in Scalars, o.secrets = <<a, b>>
            PROVE  o.secrets \in [1 .. 2 -> 0 .. Q - 1]
        <5>1. <<a, b>> \in [1 .. 2 -> 0 .. Q - 1]
          BY <3>2
        <5> QED
          BY <4>1, <5>1
      <4>2. ASSUME NEW a \in Scalars, NEW b \in Scalars, o.secrets = <<3, a, b>>
            PROVE  o.secrets \in [1 .. 3 -> 0 .. Q - 1]
        <5>1. <<3, a, b>> \in [1 .. 3 -> 0 .. Q - 1]
          BY <3>2
        <5> QED
          BY <4>2, <5>1
      <4> QED
        BY <3>3, <4>1, <4>2
    <3>5. 2 \in Nat \ {0} /\ 3 \in Nat \ {0}
      OBVIOUS
    <3> QED
      BY <3>1, <3>4, <3>5
  <2>2. /\ aggregate_secret(o.secrets) \in 0 .. Q - 1
        /\ Evened(aggregate_secret(o.secrets)) = key_agg(EvenedKeys(o.secrets))
    BY <2>1, PoolSecret
  <2>3. pk = key_agg(EvenedKeys(o.secrets)) /\ sig = schnorr_sign(msg, aggregate_secret(o.secrets), 0)
    BY <2>1 DEF MakerKey, resolve_order, pool_sign_demo
  <2> QED
    BY <1>1, <1>4, <2>2, <2>3
<1>7. CASE o \in Frost
  <2>1. PICK c \in Scalars \X Scalars : o.kind = "frost" /\ o.frost = FrostKey(c, 3)
    BY <1>7 DEF Frost
  <2>2. pk = o.frost.xonly /\ pk # 0 /\ sig = threshold_sign(o.frost, o.indices, msg)
    BY <2>1 DEF MakerKey, resolve_order
  <2>3. sig = schnorr_sign(msg, pk, 0)
    BY <2>2 DEF threshold_sign
  <2>4. pk = Evened(c[1])
    <3>1. DOMAIN c = 1 .. 2 /\ 1 \in 1 .. 2
      BY <2>1
    <3> QED
      BY <2>1, <2>2, <3>1 DEF FrostKey, Evened
  <2>5. c[1] \in 0 .. Q - 1 /\ c[1] # 0
    BY <2>1, QAssumption DEF Scalars
  <2>6. pk \in Even
    BY <2>4, <2>5, EvenedPoint
  <2>7. pk \in 0 .. Q - 1 /\ Evened(pk) = pk
    BY <2>6, Lift, EvenedPoint
  <2> QED
    BY <1>1, <1>4, <2>3, <2>7
<1> QED
  BY <1>5, <1>6, <1>7 DEF Orders

\* A batch of orders that are all signed verifies, and is bound to each s.
LEMMA BatchVerifies ==
    ASSUME hash \in HashFunctions, NEW n \in Nat \ {0}, NEW orders \in [1 .. n -> Orders],
           NEW entries, entries = Entries(orders), NEW sigs, sigs = SigsOf(orders),
           \A i \in DOMAIN sigs : sigs[i] # NoSig
    PROVE  /\ \A i \in DOMAIN sigs : schnorr_verify(Hashes(entries)[i], entries[i].pk, sigs[i])
           /\ verify_batch_announce(build_batch_announce(orders))
           /\ \A i \in DOMAIN sigs :
                 verify_batch_announce(Announced(entries, [sigs EXCEPT ![i].s = (@ + 1) % Q]))
                   <=> Randomizer(Keys(entries), Hashes(entries), [j \in DOMAIN sigs |-> sigs[j].r], i) = 0
<1> DEFINE keys == Keys(entries)
           msgs == Hashes(entries)
           rs == [j \in 1 .. n |-> sigs[j].r]
<1>1. DOMAIN sigs = 1 .. n /\ DOMAIN entries = 1 .. n
  BY DEF Entries, SigsOf
<1>2. ASSUME NEW i \in 1 .. n
      PROVE  /\ keys[i] = MakerKey(orders[i]) /\ entries[i].pk = keys[i]
             /\ msgs[i] = order_sighash(orders[i].body, keys[i])
             /\ sigs[i] = resolve_order(orders[i], keys[i])
  BY <1>1 DEF Keys, Hashes, Entries, SigsOf
<1>3. ASSUME NEW i \in 1 .. n
      PROVE  /\ keys[i] \in Int /\ msgs[i] \in Int /\ sigs[i] \in [r : Int, s : 0 .. Q - 1]
             /\ schnorr_verify(msgs[i], keys[i], sigs[i])
  <2>1. orders[i] \in Orders /\ sigs[i] # NoSig
    BY <1>1
  <2> HIDE DEF keys, msgs
  <2>2. /\ keys[i] \in Int /\ orders[i].body \in Int /\ sigs[i] \in [r : Int, s : 0 .. Q - 1]
        /\ schnorr_verify(order_sighash(orders[i].body, keys[i]), keys[i], sigs[i])
    BY <1>2, <2>1, OrderSigned
  <2>3. msgs[i] \in Int
    BY <1>2, <2>2, OrderHashType
  <2> QED
    BY <1>2, <2>2, <2>3
<1>4. keys \in [1 .. n -> Int] /\ msgs \in [1 .. n -> Int]
  <2>1. keys = [i \in 1 .. n |-> entries[i].pk] /\ DOMAIN msgs = 1 .. n /\ msgs = [i \in 1 .. n |-> msgs[i]]
    BY <1>1 DEF Keys, Hashes
  <2>2. \A i \in 1 .. n : entries[i].pk \in Int
    BY <1>2, <1>3
  <2> HIDE DEF msgs
  <2>3. msgs \in [1 .. n -> Int]
    BY <1>3, <2>1
  <2> HIDE DEF keys
  <2> QED
    BY <2>1, <2>2, <2>3
<1>5. sigs \in [1 .. n -> [r : Int, s : 0 .. Q - 1]]
  <2>1. sigs = [i \in 1 .. n |-> sigs[i]]
    BY <1>1 DEF SigsOf
  <2> QED
    BY <1>3, <2>1
<1> DEFINE Aggregated(ss) == halfagg_verify(keys, msgs, aggregate(keys, msgs, ss))
<1>6. \A ss : verify_batch_announce(Announced(entries, ss)) <=> Aggregated(ss)
  BY DEF verify_batch_announce, Announced
<1>7. verify_batch_announce(build_batch_announce(orders)) <=> Aggregated(sigs)
  BY <1>6 DEF build_batch_announce
<1>8. [j \in DOMAIN sigs |-> sigs[j].r] = rs
  BY <1>1
<1> HIDE DEF keys, msgs, rs
<1>9. /\ Aggregated(sigs)
      /\ \A i \in 1 .. n : Aggregated(Moved(sigs, i)) <=> Randomizer(keys, msgs, rs, i) = 0
  <2>1. rs = [i \in 1 .. n |-> sigs[i].r]
    BY DEF rs
  <2>2. \A i \in 1 .. n : schnorr_verify(msgs[i], keys[i], sigs[i])
    BY <1>3
  <2>3. halfagg_verify(keys, msgs, aggregate(keys, msgs, sigs)) /\ BoundToEach(keys, msgs, sigs, rs)
    BY <1>4, <1>5, <2>1, <2>2, AggregateVerifies
  <2> QED
    BY <1>1, <2>3 DEF BoundToEach
<1> HIDE DEF Aggregated
<1>10. \A i \in DOMAIN sigs : schnorr_verify(msgs[i], entries[i].pk, sigs[i])
  BY <1>1, <1>2, <1>3
<1>11. \A i \in DOMAIN sigs :
         verify_batch_announce(Announced(entries, [sigs EXCEPT ![i].s = (@ + 1) % Q]))
           <=> Randomizer(keys, msgs, [j \in DOMAIN sigs |-> sigs[j].r], i) = 0
  BY <1>1, <1>6, <1>8, <1>9 DEF Moved
<1> QED
  BY <1>7, <1>9, <1>10, <1>11 DEF keys, msgs

-----------------------------------------------------------------------------
(* Attestations.                                                            *)

\* The secret of an address's output key is the even one of the two that its
\* point has, so it is the key that the address names.
LEMMA TweakedKey ==
    ASSUME hash \in HashFunctions, NEW secret \in 0 .. Q - 1, OutputKey(secret) # 0
    PROVE  /\ taproot_tweak_seckey(secret) = OutputKey(secret)
           /\ OutputKey(secret) \in Even
<1> DEFINE e == Evened(secret)
           h == tagged_hash(Tag.tweak, <<e, 0>>)
           point == TweakedPoint(e, 0)
           out == taproot_tweak_pubkey(e, 0)
<1>1. /\ lift_x(e) # 0 /\ point # 0 /\ out.xonly = Evened(point) /\ OutputKey(secret) = out.xonly
      /\ out.parity = IF point \in Even THEN 0 ELSE 1
  <2>1. OutputKey(secret) = out.xonly
    BY DEF OutputKey
  <2>2. ~(lift_x(e) = 0 \/ point = 0)
    BY <2>1 DEF taproot_tweak_pubkey
  <2> QED
    BY <2>1, <2>2 DEF taproot_tweak_pubkey
<1>2. e \in Even /\ lift_x(e) = e /\ e \in Int
  BY <1>1, Lift DEF lift_x
<1>3. h \in Int
  <2>1. Tag.tweak \in Int /\ 0 \in Int
    BY DEF Tag
  <2>2. h \in 0 .. Q - 1
    BY <1>2, <2>1, HashOfParts
  <2> QED
    BY <2>2, QAssumption
<1>4. point = (e + h) % Q /\ point \in 0 .. Q - 1
  <2>1. point = point_add(e, h)
    BY <1>2 DEF TweakedPoint
  <2> QED
    BY <1>2, <1>3, <2>1, PointTypes DEF point_add
<1>5. out.xonly # 0 /\ Evened(point) \in Even
  BY <1>1, <1>4, EvenedPoint
<1>6. taproot_tweak_seckey(secret) = IF out.parity = 1 THEN Neg(point) ELSE point
  BY <1>4, <1>5 DEF taproot_tweak_seckey
<1> HIDE DEF out, point
<1>7. (IF out.parity = 1 THEN Neg(point) ELSE point) = Evened(point)
  BY <1>1, <1>4, EvenedPoint
<1> QED
  BY <1>1, <1>5, <1>6, <1>7

\* Multiplying a point that is not infinity is one to one on the numbers
\* below Q.
LEMMA MulCancels ==
    ASSUME NEW p \in 1 .. Q - 1, NEW c \in 0 .. Q - 1, NEW d \in 0 .. Q - 1,
           point_mul(p, c) = point_mul(p, d)
    PROVE  c = d
<1>0. p \in Int /\ c \in Int /\ d \in Int
  BY QAssumption
<1>1. ASSUME NEW x \in 0 .. Q - 1, NEW y \in 0 .. Q - 1, x < y, point_mul(p, x) = point_mul(p, y)
      PROVE  FALSE
  <2>1. y - x \in 1 .. Q - 1 /\ x \in Int /\ y \in Int /\ y - x \in Int
    BY <1>1, QAssumption
  <2>2. p * x \in Int /\ p * y \in Int /\ p * (y - x) \in Int /\ p * (y - x) = p * y - p * x
    BY <1>0, <2>1
  <2>3. Same(p * y, p * x)
    BY <1>1, <2>2, SameIsEqual DEF point_mul
  <2>4. Same(p * (y - x), 0)
    <3>1. Same(p * y + (-(p * x)), p * x + (-(p * x)))
      BY <2>2, <2>3, Congruence
    <3>2. p * y + (-(p * x)) = p * (y - x) /\ p * x + (-(p * x)) = 0
      BY <2>2
    <3> QED
      BY <3>1, <3>2
  <2>5. (p * (y - x)) % Q = 0 % Q
    BY <2>2, <2>4, SameIsEqual
  <2>6. 0 % Q = 0
    BY Remainder, QAssumption
  <2> QED
    BY <2>1, <2>5, <2>6, NoZeroDivisors
<1>2. ~(c < d) /\ ~(d < c)
  BY <1>1
<1> QED
  BY <1>0, <1>2

\* A signature that verifies for one message verifies for another just when
\* the challenges are the same.
LEMMA OtherMessage ==
    ASSUME hash \in HashFunctions, NEW pk \in Int, NEW m \in Int, NEW n \in Int,
           NEW sig, sig.s \in 0 .. Q - 1, schnorr_verify(m, pk, sig)
    PROVE  schnorr_verify(n, pk, sig) <=> Challenge(sig.r, pk, n) = Challenge(sig.r, pk, m)
<1> DEFINE c == Challenge(sig.r, pk, m)
           d == Challenge(sig.r, pk, n)
<1>1. pk \in Even /\ sig.r \in Even /\ sig.s = point_add(sig.r, point_mul(pk, c))
  BY VerifiedEquation
<1>2. pk \in 1 .. Q - 1 /\ sig.r \in Int
  BY <1>1, Lift
<1>3. c \in 0 .. Q - 1 /\ d \in 0 .. Q - 1 /\ c \in Int /\ d \in Int
  BY <1>2, ChallengeType
<1>4. ASSUME d = c
      PROVE  schnorr_verify(n, pk, sig)
  BY <1>4 DEF schnorr_verify
<1>5. ASSUME schnorr_verify(n, pk, sig)
      PROVE  d = c
  <2>1. sig.s = point_add(sig.r, point_mul(pk, d))
    BY <1>5, VerifiedEquation
  <2> HIDE DEF c, d
  <2>2. point_mul(pk, c) = point_mul(pk, d)
    <3>1. point_mul(pk, c) \in 0 .. Q - 1 /\ point_mul(pk, d) \in 0 .. Q - 1
      BY <1>2, <1>3, PointTypes
    <3>2. point_add(sig.r, point_mul(pk, c)) = point_add(sig.r, point_mul(pk, d))
      BY <1>1, <2>1 DEF c
    <3> QED
      BY <1>2, <3>1, <3>2, AddCancels
  <2>3. c = d
    BY <1>2, <1>3, <2>2, MulCancels
  <2> QED
    BY <2>3
<1> QED
  BY <1>4, <1>5

\* The number that a BIP322 signature signs is below Q.
LEMMA AttestedType ==
    ASSUME hash \in HashFunctions, NEW message \in Int, NEW xonly \in Int, NEW version \in Int,
           NEW locktime \in Int, NEW sequence \in Int, NEW type \in {SIGHASH.DEFAULT, SIGHASH.ALL}
    PROVE  /\ to_spend_txid(message_hash(message), xonly) \in Int
           /\ tap_sighash(to_sign(message, xonly, version, locktime, sequence), 1, type, <<>>) \in Int
<1> DEFINE tx == to_sign(message, xonly, version, locktime, sequence)
           Texts == Seq(Int) \ {<<>>}
<1>1. to_spend_txid(message_hash(message), xonly) \in Int
  <2>1. AttestTag.message \in Int /\ AttestTag.toSpend \in Int
    BY DEF AttestTag
  <2>2. message_hash(message) \in 0 .. Q - 1
    BY <2>1, HashOfParts DEF message_hash
  <2>3. message_hash(message) \in Int
    BY <2>2, QAssumption
  <2>4. to_spend_txid(message_hash(message), xonly) \in 0 .. Q - 1
    BY <2>1, <2>3, HashOfParts DEF to_spend_txid
  <2> QED
    BY <2>4, QAssumption
<1> DEFINE in == [txid |-> to_spend_txid(message_hash(message), xonly), vout |-> 0,
                  amount |-> 0, spk |-> xonly, sequence |-> sequence]
<1>2. tx.ins = <<in>> /\ tx.outs = <<<<0, 6>>>> /\ tx.version = version /\ tx.locktime = locktime
  BY DEF to_sign, TxOut, OpReturn
<1>3. \A text \in Texts : FlattenSeq(<<text>>) \in Texts
  <2>1. ASSUME NEW text \in Texts
        PROVE  FlattenSeq(<<text>>) \in Texts
    <3>1. <<text>> \in [1 .. 1 -> Seq(Int) \ {<<>>}] /\ 1 \in Nat \ {0}
      OBVIOUS
    <3> QED
      BY <3>1, FlattenType
  <2> QED
    BY <2>1
<1>4. /\ EachIn(tx, Outpoint) = FlattenSeq(<<Outpoint(in)>>)
      /\ EachIn(tx, LAMBDA i : <<i.amount>>) = FlattenSeq(<<<<in.amount>>>>)
      /\ EachIn(tx, LAMBDA i : <<i.spk>>) = FlattenSeq(<<<<in.spk>>>>)
      /\ EachIn(tx, LAMBDA i : <<i.sequence>>) = FlattenSeq(<<<<in.sequence>>>>)
  <2> HIDE DEF tx, in
  <2>1. [i \in DOMAIN tx.ins |-> Outpoint(tx.ins[i])] = <<Outpoint(in)>>
    BY <1>2
  <2>2. [i \in DOMAIN tx.ins |-> <<tx.ins[i].amount>>] = <<<<in.amount>>>>
    BY <1>2
  <2>3. [i \in DOMAIN tx.ins |-> <<tx.ins[i].spk>>] = <<<<in.spk>>>>
    BY <1>2
  <2>4. [i \in DOMAIN tx.ins |-> <<tx.ins[i].sequence>>] = <<<<in.sequence>>>>
    BY <1>2
  <2> QED
    BY <2>1, <2>2, <2>3, <2>4 DEF EachIn
<1>5. /\ Outpoint(in) \in Texts /\ <<in.amount>> \in Texts /\ <<in.spk>> \in Texts /\ <<in.sequence>> \in Texts
      /\ <<0, 6>> \in Texts /\ <<0>> \in Texts /\ <<type, version, locktime>> \in Texts
  <2>1. type \in Int /\ (type = 0 \/ type = 1)
    BY DEF SIGHASH
  <2> QED
    BY <1>1, <2>1 DEF Outpoint
<1> HIDE DEF tx, in, Texts
<1>6. CommonInputs(tx) = <<FlattenSeq(<<Outpoint(in)>>), FlattenSeq(<<<<in.amount>>>>),
                           FlattenSeq(<<<<in.spk>>>>), FlattenSeq(<<<<in.sequence>>>>)>>
  BY <1>4 DEF CommonInputs
<1> DEFINE a == FlattenSeq(<<Outpoint(in)>>)
           b == FlattenSeq(<<<<in.amount>>>>)
           c == FlattenSeq(<<<<in.spk>>>>)
           d == FlattenSeq(<<<<in.sequence>>>>)
           o == FlattenSeq(tx.outs)
           head == <<type, version, locktime>>
           whole == <<head>> \o <<a, b, c, d>> \o <<o>> \o <<<<0>>>> \o <<<<0>>>> \o <<>> \o <<>>
<1>7. a \in Texts /\ b \in Texts /\ c \in Texts /\ d \in Texts /\ o \in Texts
  BY <1>2, <1>3, <1>5
<1>8. tap_sigmsg(tx, 1, type, <<>>) = whole
  <2> HIDE DEF a, b, c, d, o
  <2>1. type \in {0, 1} /\ type \in HashTypes /\ type % 4 = type /\ ~(type >= 128)
    BY DEF SIGHASH, HashTypes
  <2>2. tap_sigmsg(tx, 1, type, <<>>) = SigMsg(tx, 1, type, FALSE, type, <<>>)
    <3>1. type % 4 # SIGHASH.SINGLE /\ (type >= SIGHASH.ANYONECANPAY) = FALSE
      BY <2>1 DEF SIGHASH
    <3>2. tap_sigmsg(tx, 1, type, <<>>) = SigMsg(tx, 1, type, type >= SIGHASH.ANYONECANPAY, type % 4, <<>>)
      BY <2>1, <3>1 DEF tap_sigmsg
    <3> QED
      BY <2>1, <3>1, <3>2
  <2>3. SigMsg(tx, 1, type, FALSE, type, <<>>)
          = <<head>> \o <<a, b, c, d>> \o <<o>> \o <<<<0>>>> \o <<<<0>>>> \o <<>> \o <<>>
    <3>1. type \notin {SIGHASH.NONE, SIGHASH.SINGLE} /\ type # SIGHASH.SINGLE /\ Len(<<>>) = 0
          /\ 2 * 0 = 0 /\ 1 - 1 = 0
      BY <2>1 DEF SIGHASH
    <3>2. CommonInputs(tx) = <<a, b, c, d>>
      BY <1>6 DEF a, b, c, d
    <3> QED
      BY <1>2, <3>1, <3>2 DEF SigMsg, o
  <2> QED
    BY <2>2, <2>3
<1>9. whole \in Seq(Texts) /\ Len(whole) # 0
  <2> HIDE DEF a, b, c, d, o, head
  <2>1. <<head>> \in Seq(Texts) /\ <<a, b, c, d>> \in Seq(Texts) /\ <<o>> \in Seq(Texts)
        /\ <<<<0>>>> \in Seq(Texts) /\ <<>> \in Seq(Texts)
    BY <1>5, <1>7 DEF head
  <2>2. \A s, t \in Seq(Texts) : s \o t \in Seq(Texts) /\ Len(s \o t) = Len(s) + Len(t)
                                /\ Len(s) \in Nat /\ Len(t) \in Nat
    OBVIOUS
  <2>3. Len(<<head>>) = 1
    OBVIOUS
  <2>4. \A s, t \in Seq(Texts) : Len(s) # 0 => s \o t \in Seq(Texts) /\ Len(s \o t) # 0
    BY <2>2
  <2>5. <<head>> \o <<a, b, c, d>> \in Seq(Texts) /\ Len(<<head>> \o <<a, b, c, d>>) # 0
    BY <2>1, <2>3, <2>4
  <2> QED
    BY <2>1, <2>4, <2>5
<1>10. FlattenSeq(whole) \in Seq(Int) \ {<<>>}
  <2> HIDE DEF whole
  <2>1. Len(whole) \in Nat \ {0} /\ whole \in [1 .. Len(whole) -> Texts]
    BY <1>9, LenProperties
  <2> QED
    BY <2>1, FlattenType DEF Texts
<1>11. tap_sighash(tx, 1, type, <<>>) \in 0 .. Q - 1
  <2> HIDE DEF whole
  <2>1. PICK t \in Seq(Int) \ {<<>>} : t = FlattenSeq(whole)
    BY <1>10
  <2>2. t \in [1 .. Len(t) -> Int] /\ Len(t) \in Nat \ {0}
    <3>1. Len(t) \in Nat /\ t \in [1 .. Len(t) -> Int]
      BY LenProperties
    <3>2. Len(t) # 0
      BY EmptySeq
    <3> QED
      BY <3>1, <3>2
  <2>3. AttestTag.sighash \in Int
    BY DEF AttestTag
  <2>4. tagged_hash(AttestTag.sighash, t) \in 0 .. Q - 1
    BY <2>2, <2>3, HashType
  <2> QED
    BY <1>8, <2>1, <2>4 DEF tap_sighash
<1> QED
  BY <1>1, <1>11, QAssumption DEF tx

\* The tool exits with 0, and the server says valid, for what the library
\* accepts of a taproot address of the main net, and for nothing else.
LEMMA OnlyAccepted ==
    ASSUME NEW message, NEW addr, NEW sig
    PROVE  /\ cmd_verify(message, addr, sig) = 0
                => Verified(message, addr, sig) = "yes" /\ sig.prefix \in {"smp", "ful"}
           /\ h_attest_verify(message, addr, sig) = "valid"
                => Verified(message, addr, sig) = "yes" /\ sig.prefix \in {"smp", "ful"}
           /\ Verified(message, addr, sig) = "yes" => IsTaproot(addr, "bc") /\ sig.decodes = "whole"
<1> DEFINE verdict == Verified(message, addr, sig)
<1>1. verdict = "yes" => IsTaproot(addr, "bc") /\ sig.decodes = "whole"
  <2>1. verify_simple_p2tr(message, addr, sig) = "yes" => IsTaproot(addr, "bc") /\ sig.decodes = "whole"
    BY DEF verify_simple_p2tr, Verdict
  <2>2. verify_full_p2tr(message, addr, sig) = "yes" => IsTaproot(addr, "bc") /\ sig.decodes = "whole"
    BY DEF verify_full_p2tr, Verdict
  <2> QED
    BY <2>1, <2>2 DEF Verified
<1>2. cmd_verify(message, addr, sig) = 0 => verdict = "yes" /\ sig.prefix \in {"smp", "ful"}
  BY DEF cmd_verify
<1>3. h_attest_verify(message, addr, sig) = "valid" => verdict = "yes" /\ sig.prefix \in {"smp", "ful"}
  BY DEF h_attest_verify
<1> QED
  BY <1>1, <1>2, <1>3

\* An address of that kind, and what the two front ends say of it.
LEMMA Accepted ==
    ASSUME NEW message, NEW xonly, NEW sig, sig.prefix \in {"smp", "ful"}
    PROVE  /\ IsTaproot(segwit_address(xonly, "bc"), "bc") /\ segwit_address(xonly, "bc").program = xonly
           /\ cmd_verify(message, segwit_address(xonly, "bc"), sig) = 0
                <=> Verified(message, segwit_address(xonly, "bc"), sig) = "yes"
           /\ h_attest_verify(message, segwit_address(xonly, "bc"), sig) = "valid"
                <=> Verified(message, segwit_address(xonly, "bc"), sig) = "yes"
<1> DEFINE addr == segwit_address(xonly, "bc")
           verdict == Verified(message, addr, sig)
<1>1. /\ addr = [hrp |-> "bc", witver |-> 1, program |-> xonly, size |-> 32, checksum |-> "bech32m", spaces |-> FALSE]
      /\ Checksum(1) = "bech32m"
  BY DEF segwit_address, Checksum
<1> HIDE DEF addr
<1>2. /\ addr.hrp = "bc" /\ addr.witver = 1 /\ addr.size = 32 /\ addr.program = xonly
      /\ addr.checksum = "bech32m" /\ addr.spaces = FALSE
  BY <1>1
<1>3. IsTaproot(addr, "bc")
  BY <1>1, <1>2 DEF IsTaproot, decode_segwit_address
<1> HIDE DEF verdict
<1>4. cmd_verify(message, addr, sig) = 0 <=> verdict = "yes"
  <2>1. verdict # "yes" => cmd_verify(message, addr, sig) # 0
    BY OnlyAccepted DEF verdict
  <2>2. ASSUME verdict = "yes"
        PROVE  cmd_verify(message, addr, sig) = 0
    <3>1. IsTaproot([addr EXCEPT !.spaces = FALSE], addr.hrp)
      BY <1>1, <1>2 DEF IsTaproot, decode_segwit_address
    <3>2. Verified(message, addr, sig) = "yes" /\ addr.hrp \in {"bc", "tb"}
      BY <1>2, <2>2 DEF verdict
    <3> HIDE DEF verdict
    <3> QED
      BY <1>2, <3>1, <3>2 DEF cmd_verify
  <2> QED
    BY <2>1, <2>2
<1>5. h_attest_verify(message, addr, sig) = "valid" <=> verdict = "yes"
  BY <1>2 DEF h_attest_verify, verdict
<1> QED
  BY <1>2, <1>3, <1>4, <1>5 DEF addr, verdict

\* No address of another kind, net or encoding is a taproot address.
LEMMA ForeignAddress ==
    ASSUME NEW xonly, NEW there \in Foreign(segwit_address(xonly, "bc"))
    PROVE  ~IsTaproot(there, "bc")
<1> DEFINE addr == segwit_address(xonly, "bc")
<1>1. /\ addr = [hrp |-> "bc", witver |-> 1, program |-> xonly, size |-> 32, checksum |-> "bech32m", spaces |-> FALSE]
      /\ Checksum(1) = "bech32m"
  BY DEF segwit_address, Checksum
<1> HIDE DEF addr
<1>2. there \in {[addr EXCEPT !.hrp = "tb"], [addr EXCEPT !.witver = 0], [addr EXCEPT !.checksum = "bech32"],
                 [addr EXCEPT !.size = 20], [addr EXCEPT !.spaces = TRUE]}
  BY DEF Foreign, addr
<1> QED
  BY <1>1, <1>2 DEF IsTaproot, decode_segwit_address

\* What the library accepts of a signature in the simple format with one item.
LEMMA SimpleVerdict ==
    ASSUME NEW message, NEW xonly, NEW r, NEW s, NEW flag, NEW sig,
           sig = [prefix |-> "smp", decodes |-> "whole", stack |-> <<[r |-> r, s |-> s, flag |-> flag]>>]
    PROVE  Verified(message, segwit_address(xonly, "bc"), sig) = "yes"
             <=> /\ flag \in {NoFlag, SIGHASH.DEFAULT, SIGHASH.ALL}
                 /\ schnorr_verify(bip322_sighash(message, xonly, flag % 256), xonly, [r |-> r, s |-> s])
<1> DEFINE addr == segwit_address(xonly, "bc")
<1>1. /\ sig.prefix = "smp" /\ sig.decodes = "whole" /\ Len(sig.stack) = 1
      /\ sig.stack[1] = [r |-> r, s |-> s, flag |-> flag]
      /\ sig.stack[1].r = r /\ sig.stack[1].s = s /\ sig.stack[1].flag = flag
  OBVIOUS
<1>2. IsTaproot(addr, "bc") /\ addr.program = xonly
  BY <1>1, Accepted
<1> HIDE DEF addr
<1> QED
  BY <1>1, <1>2 DEF Verified, verify_simple_p2tr, Verdict, addr

\* A signature in the full format with one item.
Full(item, spent, version, locktime, sequence) ==
    [prefix |-> "ful", decodes |-> "whole", stack |-> <<item>>, inputs |-> 1,
     outputs |-> 1, prevout |-> <<spent, 0>>, out |-> TxOut(0, OpReturn),
     version |-> version, locktime |-> locktime, sequence |-> sequence]

\* What the library accepts of it.
LEMMA FullVerdict ==
    ASSUME NEW message, NEW xonly, NEW spent, NEW item, NEW version, NEW locktime, NEW sequence,
           NEW sig, sig = Full(item, spent, version, locktime, sequence)
    PROVE  /\ sig.prefix = "ful" /\ sig.decodes = "whole"
           /\ Verified(message, segwit_address(xonly, "bc"), sig) = "yes"
                <=> /\ item.flag \in {NoFlag, SIGHASH.DEFAULT}
                    /\ to_spend_txid(message_hash(message), xonly) = spent
                    /\ schnorr_verify(bip322_sighash_full(message, xonly, sig), xonly, [r |-> item.r, s |-> item.s])
<1> DEFINE addr == segwit_address(xonly, "bc")
<1>1. /\ sig.prefix = "ful" /\ sig.decodes = "whole" /\ Len(sig.stack) = 1 /\ sig.stack[1] = item
      /\ sig.inputs = 1 /\ sig.outputs = 1 /\ sig.prevout = <<spent, 0>> /\ sig.out = TxOut(0, OpReturn)
  BY DEF Full
<1>2. IsTaproot(addr, "bc") /\ addr.program = xonly
  BY <1>1, Accepted
<1>3. to_spend_txid(message_hash(message), xonly) = spent
        <=> sig.prevout = <<to_spend_txid(message_hash(message), xonly), 0>>
  BY <1>1
<1> HIDE DEF addr
<1> QED
  BY <1>1, <1>2, <1>3 DEF Verified, verify_full_p2tr, Verdict, addr

\* A broken signature of either format is refused.
LEMMA BrokenRefused ==
    ASSUME NEW message, NEW addr, NEW sig, NEW item,
           \/ sig = Simple(<<item>>)
           \/ \E spent, version, locktime, sequence : sig = Full(item, spent, version, locktime, sequence),
           NEW bad \in Broken(sig)
    PROVE  cmd_verify(message, addr, bad) # 0 /\ h_attest_verify(message, addr, bad) # "valid"
<1>1. SUFFICES ASSUME Verified(message, addr, bad) = "yes", bad.prefix \in {"smp", "ful"}
              PROVE  FALSE
  BY OnlyAccepted
<1>2. CASE sig = Simple(<<item>>)
  <2>1. sig = [prefix |-> "smp", decodes |-> "whole", stack |-> <<item>>]
    BY <1>2 DEF Simple
  <2>2. bad.decodes # "whole" \/ bad.prefix \notin {"smp", "ful"}
        \/ (bad.prefix = "smp" /\ bad.stack = <<item>> \o <<item>>)
    BY <2>1 DEF Broken
  <2>3. Len(<<item>> \o <<item>>) # 1
    OBVIOUS
  <2>4. bad.prefix = "smp" /\ Len(bad.stack) # 1 => Verified(message, addr, bad) # "yes"
    BY DEF Verified, verify_simple_p2tr, Verdict
  <2> QED
    BY <1>1, <2>2, <2>3, <2>4, OnlyAccepted
<1>3. ASSUME NEW spent, NEW version, NEW locktime, NEW sequence,
             sig = Full(item, spent, version, locktime, sequence)
      PROVE  FALSE
  <2>1. \/ bad.decodes # "whole" \/ bad.prefix \notin {"smp", "ful"}
        \/ (bad.prefix = "ful" /\ bad.stack = <<item>> \o <<item>>)
        \/ (bad.prefix = "ful" /\ bad.inputs = 2)
        \/ (bad.prefix = "ful" /\ bad.out = TxOut(1, OpReturn))
    <3>1. bad \in {[sig EXCEPT !.decodes = "cut"], [sig EXCEPT !.decodes = "rest"], [sig EXCEPT !.stack = @ \o @],
                   [sig EXCEPT !.prefix = "pof"], [sig EXCEPT !.inputs = 2], [sig EXCEPT !.out = TxOut(1, OpReturn)]}
      BY <1>3 DEF Broken, Full
    <3> QED
      BY <1>3, <3>1 DEF Full
  <2>2. Len(<<item>> \o <<item>>) # 1
    OBVIOUS
  <2>3. TxOut(1, OpReturn) # TxOut(0, OpReturn)
    BY DEF TxOut, OpReturn
  <2>4. bad.prefix = "ful" /\ (Len(bad.stack) # 1 \/ bad.inputs # 1 \/ bad.out # TxOut(0, OpReturn))
          => Verified(message, addr, bad) # "yes"
    BY DEF Verified, verify_full_p2tr, Verdict
  <2> QED
    BY <1>1, <2>1, <2>2, <2>3, <2>4, OnlyAccepted
<1> QED
  BY <1>2, <1>3

\* A signature in the simple format binds its message, flag and address.
LEMMA SimpleBinds ==
    ASSUME hash \in HashFunctions, probe.message \in Int, NEW xonly \in Int, NEW flag \in {NoFlag, 0, 1},
           NEW r, NEW s \in 0 .. Q - 1,
           schnorr_verify(bip322_sighash(probe.message, xonly, flag % 256), xonly, [r |-> r, s |-> s])
    PROVE  Binds(segwit_address(xonly, "bc"), Simple(<<[r |-> r, s |-> s, flag |-> flag]>>), xonly,
                 [r |-> r, s |-> s, flag |-> flag])
<1> DEFINE addr == segwit_address(xonly, "bc")
           item == [r |-> r, s |-> s, flag |-> flag]
           sig == Simple(<<item>>)
           Plain(f) == [prefix |-> "smp", decodes |-> "whole", stack |-> <<[r |-> r, s |-> s, flag |-> f]>>]
           Locked(m, f) == Challenge(r, xonly, bip322_sighash(m, xonly, f % 256))
                             = Challenge(r, xonly, bip322_sighash(probe.message, xonly, flag % 256))
<1>1. sig = Plain(flag) /\ sig.prefix = "smp" /\ sig.stack = <<item>> /\ sig.stack[1] = item
  BY DEF Simple
<1>2. {NoFlag, SIGHASH.DEFAULT, SIGHASH.ALL} = {NoFlag, 0, 1} /\ Flags = {NoFlag, 0, 1, 2} /\ NoFlag = 256
  BY DEF SIGHASH, Flags, NoFlag
<1>3. \A f : WithFlag(sig, f) = Plain(f)
  BY <1>1 DEF WithFlag
<1>4. ASSUME NEW m \in Int, NEW f \in Flags
      PROVE  Verified(m, addr, Plain(f)) = "yes" <=> f \in {NoFlag, 0, 1} /\ Locked(m, f)
  <2>1. Verified(m, addr, Plain(f)) = "yes"
          <=> /\ f \in {NoFlag, 0, 1}
              /\ schnorr_verify(bip322_sighash(m, xonly, f % 256), xonly, [r |-> r, s |-> s])
    <3>1. PICK one : one = Plain(f)
      OBVIOUS
    <3> HIDE DEF addr
    <3>2. Verified(m, segwit_address(xonly, "bc"), one) = "yes"
            <=> /\ f \in {NoFlag, SIGHASH.DEFAULT, SIGHASH.ALL}
                /\ schnorr_verify(bip322_sighash(m, xonly, f % 256), xonly, [r |-> r, s |-> s])
      BY <3>1, SimpleVerdict
    <3> HIDE DEF Plain
    <3> QED
      BY <1>2, <3>1, <3>2 DEF addr
  <2>2. ASSUME f \in {NoFlag, 0, 1}
        PROVE  schnorr_verify(bip322_sighash(m, xonly, f % 256), xonly, [r |-> r, s |-> s]) <=> Locked(m, f)
    <3>1. /\ f % 256 \in {SIGHASH.DEFAULT, SIGHASH.ALL}
          /\ flag % 256 \in {SIGHASH.DEFAULT, SIGHASH.ALL}
      BY <1>2, <2>2 DEF SIGHASH
    <3>2. /\ bip322_sighash(m, xonly, f % 256) \in Int
          /\ bip322_sighash(probe.message, xonly, flag % 256) \in Int
      <4>1. \A n \in Int, type \in {SIGHASH.DEFAULT, SIGHASH.ALL} :
              tap_sighash(to_sign(n, xonly, 0, 0, 0), 1, type, <<>>) \in Int
        <5>1. 0 \in Int
          OBVIOUS
        <5> QED
          BY <5>1, AttestedType
      <4> QED
        BY <3>1, <4>1 DEF bip322_sighash
    <3>3. PICK two : two = [r |-> r, s |-> s]
      OBVIOUS
    <3>4. /\ two.s \in 0 .. Q - 1 /\ two.r = r
          /\ schnorr_verify(bip322_sighash(probe.message, xonly, flag % 256), xonly, two)
      BY <3>3
    <3>5. schnorr_verify(bip322_sighash(m, xonly, f % 256), xonly, two)
            <=> Challenge(two.r, xonly, bip322_sighash(m, xonly, f % 256))
                  = Challenge(two.r, xonly, bip322_sighash(probe.message, xonly, flag % 256))
      BY <3>2, <3>4, OtherMessage
    <3> QED
      BY <3>3, <3>4, <3>5
  <2> QED
    BY <2>1, <2>2
<1>5. flag \in Flags /\ probe.message \in Int /\ Locked(probe.message, flag)
  BY <1>2
<1>6. \A f : Plain(f).prefix = "smp"
  OBVIOUS
<1>7. \A m, f : Signed(m, xonly, Plain(f), f) = bip322_sighash(m, xonly, f % 256)
  BY <1>6 DEF Signed
<1>8. /\ \A m, f : cmd_verify(m, addr, Plain(f)) = 0 <=> Verified(m, addr, Plain(f)) = "yes"
      /\ \A m, f : h_attest_verify(m, addr, Plain(f)) = "valid" <=> Verified(m, addr, Plain(f)) = "yes"
  BY <1>6, Accepted
<1>9. Variants(sig) = {sig} /\ AllowedFlags(sig) = {NoFlag, 0, 1}
  BY <1>1 DEF Variants, AllowedFlags
<1>10. Verified(probe.message, addr, sig) = "yes"
  BY <1>1, <1>4, <1>5
<1>11. ASSUME NEW bad \in Broken(sig)
       PROVE  cmd_verify(probe.message, addr, bad) # 0 /\ h_attest_verify(probe.message, addr, bad) # "valid"
  <2>1. sig = Simple(<<item>>)
    OBVIOUS
  <2> HIDE DEF addr, sig, item
  <2> QED
    BY <1>11, <2>1, BrokenRefused
<1>12. ASSUME NEW there \in Foreign(addr)
       PROVE  cmd_verify(probe.message, there, sig) # 0 /\ h_attest_verify(probe.message, there, sig) # "valid"
  BY ForeignAddress, OnlyAccepted
<1>13. ASSUME NEW m \in 0 .. 2, NEW other \in Variants(sig), NEW f \in Flags
       PROVE  LET changed == WithFlag(other, f)
              IN  /\ (cmd_verify(m, addr, changed) = 0) = (h_attest_verify(m, addr, changed) = "valid")
                  /\ cmd_verify(m, addr, changed) = 0 <=>
                        /\ f \in AllowedFlags(sig)
                        /\ sig.prefix = "ful" => to_spend_txid(message_hash(m), xonly)
                                                  = to_spend_txid(message_hash(probe.message), xonly)
                        /\ Challenge(item.r, xonly, Signed(m, xonly, changed, f))
                           = Challenge(item.r, xonly, Signed(probe.message, xonly, sig, item.flag))
  <2>1. m \in Int /\ other = sig /\ item.r = r /\ item.flag = flag
    BY <1>9
  <2>2. WithFlag(other, f) = Plain(f)
    BY <1>3, <2>1
  <2>3. Signed(m, xonly, Plain(f), f) = bip322_sighash(m, xonly, f % 256)
        /\ Signed(probe.message, xonly, sig, flag) = bip322_sighash(probe.message, xonly, flag % 256)
    BY <1>1, <1>7
  <2>4. Verified(m, addr, Plain(f)) = "yes" <=> f \in AllowedFlags(sig) /\ Locked(m, f)
    BY <1>4, <1>9, <2>1
  <2>5. sig.prefix # "ful"
    BY <1>1
  <2>6. /\ cmd_verify(m, addr, Plain(f)) = 0 <=> Verified(m, addr, Plain(f)) = "yes"
        /\ h_attest_verify(m, addr, Plain(f)) = "valid" <=> Verified(m, addr, Plain(f)) = "yes"
    BY <1>8
  <2> HIDE DEF addr, sig, item, Plain
  <2> QED
    BY <2>1, <2>2, <2>3, <2>4, <2>5, <2>6
<1> HIDE DEF addr, sig, item
<1>14. Binds(addr, sig, xonly, item)
  BY <1>10, <1>11, <1>12, <1>13 DEF Binds
<1> QED
  BY <1>14 DEF addr, sig, item

\* A signature in the full format binds its message, its transaction's
\* version, locktime and sequence, its flag and its address.
LEMMA FullBinds ==
    ASSUME hash \in HashFunctions, probe.message \in Int, NEW xonly \in Int,
           NEW item, item = [r |-> item.r, s |-> item.s, flag |-> NoFlag], item.s \in 0 .. Q - 1,
           NEW version \in Int, NEW locktime \in Int, NEW sequence \in Int, NEW sig,
           sig = Full(item, to_spend_txid(message_hash(probe.message), xonly), version, locktime, sequence),
           schnorr_verify(bip322_sighash_full(probe.message, xonly, sig), xonly, [r |-> item.r, s |-> item.s])
    PROVE  Binds(segwit_address(xonly, "bc"), sig, xonly, item)
<1> DEFINE r == item.r
           s == item.s
           addr == segwit_address(xonly, "bc")
           spent == to_spend_txid(message_hash(probe.message), xonly)
           Flagged(f) == [r |-> r, s |-> s, flag |-> f]
           Signs(m, other) == bip322_sighash_full(m, xonly, other)
<1> HIDE DEF r, s
<1>1. {NoFlag, SIGHASH.DEFAULT} = {NoFlag, 0} /\ Flags = {NoFlag, 0, 1, 2} /\ NoFlag = 256
  BY DEF SIGHASH, Flags, NoFlag
<1>2. sig.prefix = "ful" /\ sig.stack = <<item>> /\ item.r = r /\ item.s = s /\ item.flag = NoFlag
      /\ sig.version = version /\ sig.locktime = locktime /\ sig.sequence = sequence
  BY DEF Full, r, s
<1>3. AllowedFlags(sig) = {NoFlag, 0}
  BY <1>2 DEF AllowedFlags
<1>4. ASSUME NEW m \in Int, NEW f \in Flags, NEW v \in Int, NEW l \in Int, NEW q \in Int,
             NEW other, other = Full(Flagged(f), spent, v, l, q)
      PROVE  Verified(m, addr, other) = "yes"
                  <=> /\ f \in {NoFlag, 0}
                      /\ to_spend_txid(message_hash(m), xonly) = spent
                      /\ Challenge(r, xonly, Signs(m, other)) = Challenge(r, xonly, Signs(probe.message, sig))
  <2>1. /\ other.prefix = "ful"
        /\ Verified(m, segwit_address(xonly, "bc"), other) = "yes"
             <=> /\ f \in {NoFlag, SIGHASH.DEFAULT}
                 /\ to_spend_txid(message_hash(m), xonly) = spent
                 /\ schnorr_verify(bip322_sighash_full(m, xonly, other), xonly, [r |-> r, s |-> s])
    <3>1. Flagged(f).r = r /\ Flagged(f).s = s /\ Flagged(f).flag = f
      OBVIOUS
    <3> HIDE DEF addr, spent, Flagged
    <3>2. /\ other.prefix = "ful"
          /\ Verified(m, segwit_address(xonly, "bc"), other) = "yes"
               <=> /\ Flagged(f).flag \in {NoFlag, SIGHASH.DEFAULT}
                   /\ to_spend_txid(message_hash(m), xonly) = spent
                   /\ schnorr_verify(bip322_sighash_full(m, xonly, other), xonly, [r |-> Flagged(f).r, s |-> Flagged(f).s])
      BY <1>4, FullVerdict
    <3> QED
      BY <3>1, <3>2
  <2>2. other.version = v /\ other.locktime = l /\ other.sequence = q
    BY <1>4 DEF Full
  <2>3. Signs(m, other) \in Int /\ Signs(probe.message, sig) \in Int
    <3>1. SIGHASH.DEFAULT \in {SIGHASH.DEFAULT, SIGHASH.ALL}
      OBVIOUS
    <3>2. /\ tap_sighash(to_sign(m, xonly, v, l, q), 1, SIGHASH.DEFAULT, <<>>) \in Int
          /\ tap_sighash(to_sign(probe.message, xonly, version, locktime, sequence), 1, SIGHASH.DEFAULT, <<>>) \in Int
      BY <3>1, AttestedType
    <3> QED
      BY <1>2, <2>2, <3>2 DEF bip322_sighash_full
  <2>4. PICK two : two = [r |-> r, s |-> s]
    OBVIOUS
  <2>5. two.s \in 0 .. Q - 1 /\ two.r = r /\ schnorr_verify(Signs(probe.message, sig), xonly, two)
    BY <2>4 DEF r, s
  <2>6. schnorr_verify(Signs(m, other), xonly, two)
          <=> Challenge(r, xonly, Signs(m, other)) = Challenge(r, xonly, Signs(probe.message, sig))
    <3> HIDE DEF Signs
    <3>1. schnorr_verify(Signs(m, other), xonly, two)
            <=> Challenge(two.r, xonly, Signs(m, other)) = Challenge(two.r, xonly, Signs(probe.message, sig))
      BY <2>3, <2>5, OtherMessage
    <3> QED
      BY <2>5, <3>1
  <2> QED
    BY <1>1, <2>1, <2>4, <2>6
<1>5. ASSUME NEW other \in Variants(sig), NEW f \in Flags
      PROVE  \E v, l, q \in Int : WithFlag(other, f) = Full(Flagged(f), spent, v, l, q)
  <2>1. \E v, l, q \in Int : other = Full(item, spent, v, l, q)
    <3>1. other \in {sig, [sig EXCEPT !.version = 7], [sig EXCEPT !.locktime = 7], [sig EXCEPT !.sequence = 7]}
      BY <1>2 DEF Variants
    <3>2. /\ [sig EXCEPT !.version = 7] = Full(item, spent, 7, locktime, sequence)
          /\ [sig EXCEPT !.locktime = 7] = Full(item, spent, version, 7, sequence)
          /\ [sig EXCEPT !.sequence = 7] = Full(item, spent, version, locktime, 7)
      BY DEF Full
    <3>3. sig = Full(item, spent, version, locktime, sequence) /\ 7 \in Int
      OBVIOUS
    <3> HIDE DEF spent
    <3>4. CASE other = sig
      BY <3>3, <3>4
    <3>5. CASE other = [sig EXCEPT !.version = 7]
      <4>1. other = Full(item, spent, 7, locktime, sequence)
        BY <3>2, <3>5
      <4> QED
        BY <3>3, <4>1
    <3>6. CASE other = [sig EXCEPT !.locktime = 7]
      <4>1. other = Full(item, spent, version, 7, sequence)
        BY <3>2, <3>6
      <4> QED
        BY <3>3, <4>1
    <3>7. CASE other = [sig EXCEPT !.sequence = 7]
      <4>1. other = Full(item, spent, version, locktime, 7)
        BY <3>2, <3>7
      <4> QED
        BY <3>3, <4>1
    <3> QED
      BY <3>1, <3>4, <3>5, <3>6, <3>7
  <2>2. PICK v \in Int, l \in Int, q \in Int : other = Full(item, spent, v, l, q)
    BY <2>1
  <2>3. WithFlag(other, f) = Full(Flagged(f), spent, v, l, q)
    <3>1. item = [r |-> r, s |-> s, flag |-> NoFlag]
      BY DEF r, s
    <3>2. [item EXCEPT !.flag = f] = Flagged(f)
      BY <3>1
    <3> HIDE DEF spent, Flagged
    <3>3. [<<item>> EXCEPT ![1].flag = f] = <<Flagged(f)>>
      BY <3>2
    <3> QED
      BY <2>2, <3>3 DEF WithFlag, Full
  <2> QED
    BY <2>3
<1>6. Verified(probe.message, addr, sig) = "yes"
  <2>1. sig = Full(Flagged(NoFlag), spent, version, locktime, sequence) /\ NoFlag \in Flags
    BY <1>1 DEF r, s
  <2> HIDE DEF addr, spent, Flagged, Signs
  <2>2. Verified(probe.message, addr, sig) = "yes"
                  <=> /\ NoFlag \in {NoFlag, 0}
                      /\ to_spend_txid(message_hash(probe.message), xonly) = spent
                      /\ Challenge(r, xonly, Signs(probe.message, sig)) = Challenge(r, xonly, Signs(probe.message, sig))
    <3>1. \A other : other = Full(Flagged(NoFlag), spent, version, locktime, sequence) =>
            (Verified(probe.message, addr, other) = "yes"
                  <=> /\ NoFlag \in {NoFlag, 0}
                      /\ to_spend_txid(message_hash(probe.message), xonly) = spent
                      /\ Challenge(r, xonly, Signs(probe.message, other)) = Challenge(r, xonly, Signs(probe.message, sig)))
      BY <1>4, <2>1
    <3> QED
      BY <2>1, <3>1
  <2> QED
    BY <2>2 DEF spent
<1>7. ASSUME NEW bad \in Broken(sig)
       PROVE  cmd_verify(probe.message, addr, bad) # 0 /\ h_attest_verify(probe.message, addr, bad) # "valid"
  <2>1. \E x, v, l, q : sig = Full(item, x, v, l, q)
    OBVIOUS
  <2> HIDE DEF addr
  <2> QED
    BY <1>2, <1>7, <2>1, BrokenRefused
<1>8. ASSUME NEW there \in Foreign(addr)
      PROVE  cmd_verify(probe.message, there, sig) # 0 /\ h_attest_verify(probe.message, there, sig) # "valid"
  BY ForeignAddress, OnlyAccepted
<1>9. ASSUME NEW m \in 0 .. 2, NEW other \in Variants(sig), NEW f \in Flags
      PROVE  LET changed == WithFlag(other, f)
             IN  /\ (cmd_verify(m, addr, changed) = 0) = (h_attest_verify(m, addr, changed) = "valid")
                 /\ cmd_verify(m, addr, changed) = 0 <=>
                       /\ f \in AllowedFlags(sig)
                       /\ sig.prefix = "ful" => to_spend_txid(message_hash(m), xonly)
                                                 = to_spend_txid(message_hash(probe.message), xonly)
                       /\ Challenge(item.r, xonly, Signed(m, xonly, changed, f))
                          = Challenge(item.r, xonly, Signed(probe.message, xonly, sig, item.flag))
  <2> DEFINE changed == WithFlag(other, f)
  <2>1. PICK v \in Int, l \in Int, q \in Int : changed = Full(Flagged(f), spent, v, l, q)
    BY <1>5
  <2>2. m \in Int
    OBVIOUS
  <2> HIDE DEF changed, spent, addr, Signs, Flagged
  <2>3. Verified(m, addr, changed) = "yes"
          <=> /\ f \in {NoFlag, 0}
              /\ to_spend_txid(message_hash(m), xonly) = spent
              /\ Challenge(r, xonly, Signs(m, changed)) = Challenge(r, xonly, Signs(probe.message, sig))
    BY <1>4, <2>1, <2>2
  <2>7. changed.prefix = "ful"
    BY <2>1 DEF Full
  <2>4. /\ cmd_verify(m, addr, changed) = 0 <=> Verified(m, addr, changed) = "yes"
        /\ h_attest_verify(m, addr, changed) = "valid" <=> Verified(m, addr, changed) = "yes"
    BY <2>7, Accepted DEF addr
  <2>5. /\ Signed(m, xonly, changed, f) = Signs(m, changed)
        /\ Signed(probe.message, xonly, sig, item.flag) = Signs(probe.message, sig)
    BY <1>2, <2>7 DEF Signed, Signs
  <2>6. spent = to_spend_txid(message_hash(probe.message), xonly)
    BY DEF spent
  <2> SUFFICES /\ (cmd_verify(m, addr, changed) = 0) = (h_attest_verify(m, addr, changed) = "valid")
               /\ cmd_verify(m, addr, changed) = 0 <=>
                     /\ f \in AllowedFlags(sig)
                     /\ sig.prefix = "ful" => to_spend_txid(message_hash(m), xonly)
                                               = to_spend_txid(message_hash(probe.message), xonly)
                     /\ Challenge(item.r, xonly, Signed(m, xonly, changed, f))
                        = Challenge(item.r, xonly, Signed(probe.message, xonly, sig, item.flag))
    BY DEF changed
  <2> QED
    BY <1>2, <1>3, <2>3, <2>4, <2>5, <2>6
<1> HIDE DEF addr
<1>10. Binds(addr, sig, xonly, item)
  BY <1>6, <1>7, <1>8, <1>9 DEF Binds
<1> QED
  BY <1>10 DEF addr

\* What a key signs for the address it has, when it signs at all, verifies.
LEMMA KeySigns ==
    ASSUME hash \in HashFunctions, NEW secret \in 0 .. Q - 1, NEW aux \in Int, NEW m \in Int,
           OutputKey(secret) # 0, NEW two, two = schnorr_sign(m, taproot_tweak_seckey(secret), aux), two.r # 0
    PROVE  /\ two = [r |-> two.r, s |-> two.s] /\ two.s \in 0 .. Q - 1 /\ two.r \in Int
           /\ schnorr_verify(m, OutputKey(secret), two)
<1>1. taproot_tweak_seckey(secret) = OutputKey(secret) /\ OutputKey(secret) \in Even
  BY TweakedKey
<1>2. OutputKey(secret) \in 0 .. Q - 1 /\ OutputKey(secret) \in Int /\ Evened(OutputKey(secret)) = OutputKey(secret)
  BY <1>1, Lift, EvenedPoint
<1>3. two # NoSig
  BY DEF NoSig
<1>4. /\ schnorr_verify(m, OutputKey(secret), two)
      /\ two \in [r : Int, s : 0 .. Q - 1]
  BY <1>1, <1>2, <1>3, SignVerifies
<1> QED
  BY <1>4

\* What a signature in the simple format signs, and a signature that
\* sign_simple_p2tr made, with its item.
SimpleHash(message, xonly, flag) == bip322_sighash(message, xonly, flag % 256)
SimplyMade(sig, item, message, secret, flag, aux) ==
    /\ message \in Int /\ secret \in 0 .. Q - 1 /\ flag \in {NoFlag, 0, 1} /\ aux \in Int
    /\ OutputKey(secret) # 0 /\ sig = sign_simple_p2tr(message, secret, flag, aux)
    /\ sig.stack[1].r # 0 /\ item = sig.stack[1]

\* A signature in the simple format has one item, and is for its address.
LEMMA SimpleSigned ==
    ASSUME hash \in HashFunctions, NEW sig, NEW item, NEW message, NEW secret, NEW flag, NEW aux,
           SimplyMade(sig, item, message, secret, flag, aux)
    PROVE  /\ sig = Simple(<<[r |-> item.r, s |-> item.s, flag |-> flag]>>) /\ item.s \in 0 .. Q - 1
           /\ item = [r |-> item.r, s |-> item.s, flag |-> flag]
           /\ schnorr_verify(SimpleHash(message, OutputKey(secret), flag), OutputKey(secret),
                             [r |-> item.r, s |-> item.s])
           /\ Verified(message, segwit_address(OutputKey(secret), "bc"), sig) = "yes"
<1> DEFINE xonly == OutputKey(secret)
           m == bip322_sighash(message, xonly, flag % 256)
           two == schnorr_sign(m, taproot_tweak_seckey(secret), aux)
<1>0. /\ message \in Int /\ secret \in 0 .. Q - 1 /\ flag \in {NoFlag, 0, 1} /\ aux \in Int
      /\ OutputKey(secret) # 0 /\ sig = sign_simple_p2tr(message, secret, flag, aux)
      /\ sig.stack[1].r # 0 /\ item = sig.stack[1]
  BY DEF SimplyMade
<1>1. sig = Simple(<<[r |-> two.r, s |-> two.s, flag |-> flag]>>)
  BY <1>0 DEF sign_simple_p2tr, Item
<1>2. item = [r |-> two.r, s |-> two.s, flag |-> flag]
  BY <1>0, <1>1 DEF Simple
<1>3. item.r = two.r /\ item.s = two.s /\ two.r # 0
  BY <1>0, <1>2
<1>4. m \in Int
  <2>1. flag % 256 \in {SIGHASH.DEFAULT, SIGHASH.ALL}
    BY <1>0 DEF SIGHASH, NoFlag
  <2>2. 0 \in Int /\ xonly \in Int
    BY <1>0, TweakedKey, Lift
  <2> HIDE DEF xonly
  <2>3. tap_sighash(to_sign(message, xonly, 0, 0, 0), 1, flag % 256, <<>>) \in Int
    BY <1>0, <2>1, <2>2, AttestedType
  <2> QED
    BY <2>3 DEF bip322_sighash, m
<1> HIDE DEF m
<1>5. two = [r |-> two.r, s |-> two.s] /\ two.s \in 0 .. Q - 1 /\ schnorr_verify(m, xonly, two)
  BY <1>0, <1>3, <1>4, KeySigns
<1> HIDE DEF two
<1>6. schnorr_verify(m, xonly, [r |-> item.r, s |-> item.s])
  BY <1>3, <1>5
<1>7. /\ sig = Simple(<<[r |-> item.r, s |-> item.s, flag |-> flag]>>) /\ item.s \in 0 .. Q - 1
      /\ item = [r |-> item.r, s |-> item.s, flag |-> flag]
  BY <1>1, <1>2, <1>3, <1>5
<1>8. Verified(message, segwit_address(xonly, "bc"), sig) = "yes"
  <2>1. sig = [prefix |-> "smp", decodes |-> "whole", stack |-> <<[r |-> item.r, s |-> item.s, flag |-> flag]>>]
    BY <1>7 DEF Simple
  <2>2. flag \in {NoFlag, SIGHASH.DEFAULT, SIGHASH.ALL}
    BY <1>0 DEF SIGHASH
  <2> HIDE DEF xonly
  <2> QED
    BY <1>6, <2>1, <2>2, SimpleVerdict DEF m
<1> QED
  BY <1>6, <1>7, <1>8 DEF m, SimpleHash

\* A signature that sign_full_p2tr made, with its item.
FullyMade(sig, item, message, secret, choice, aux) ==
    /\ message \in Int /\ secret \in 0 .. Q - 1 /\ choice \in [version : Int, locktime : Int, sequence : Int]
    /\ aux \in Int /\ OutputKey(secret) # 0 /\ sig = sign_full_p2tr(message, secret, choice, aux)
    /\ sig.stack[1].r # 0 /\ item = sig.stack[1]

\* And so has, and is, one in the full format.
LEMMA FullSigned ==
    ASSUME hash \in HashFunctions, NEW sig, NEW item, NEW message, NEW secret, NEW choice, NEW aux,
           FullyMade(sig, item, message, secret, choice, aux)
    PROVE  /\ sig = Full(item, to_spend_txid(message_hash(message), OutputKey(secret)),
                         choice.version, choice.locktime, choice.sequence)
           /\ item = [r |-> item.r, s |-> item.s, flag |-> NoFlag] /\ item.s \in 0 .. Q - 1
           /\ schnorr_verify(bip322_sighash_full(message, OutputKey(secret), sig), OutputKey(secret),
                             [r |-> item.r, s |-> item.s])
           /\ Verified(message, segwit_address(OutputKey(secret), "bc"), sig) = "yes"
<1> DEFINE xonly == OutputKey(secret)
           m == bip322_sighash_full(message, xonly, choice)
           two == schnorr_sign(m, taproot_tweak_seckey(secret), aux)
           spent == to_spend_txid(message_hash(message), xonly)
<1>0. /\ message \in Int /\ secret \in 0 .. Q - 1 /\ choice \in [version : Int, locktime : Int, sequence : Int]
      /\ choice.version \in Int /\ choice.locktime \in Int /\ choice.sequence \in Int
      /\ aux \in Int /\ OutputKey(secret) # 0 /\ sig = sign_full_p2tr(message, secret, choice, aux)
      /\ sig.stack[1].r # 0 /\ item = sig.stack[1]
  BY DEF FullyMade
<1>1. sig = Full([r |-> two.r, s |-> two.s, flag |-> NoFlag], spent,
                 choice.version, choice.locktime, choice.sequence)
  BY <1>0 DEF sign_full_p2tr, Item, Full
<1>2. /\ item = [r |-> two.r, s |-> two.s, flag |-> NoFlag]
      /\ sig.version = choice.version /\ sig.locktime = choice.locktime /\ sig.sequence = choice.sequence
  BY <1>0, <1>1 DEF Full
<1>3. item.r = two.r /\ item.s = two.s /\ item.flag = NoFlag /\ two.r # 0
  BY <1>0, <1>2
<1>4. m \in Int
  <2>1. SIGHASH.DEFAULT \in {SIGHASH.DEFAULT, SIGHASH.ALL}
    OBVIOUS
  <2>2. xonly \in Int
    BY <1>0, TweakedKey, Lift
  <2> HIDE DEF xonly
  <2> QED
    BY <1>0, <2>1, <2>2, AttestedType DEF bip322_sighash_full
<1>5. bip322_sighash_full(message, xonly, sig) = m
  BY <1>2 DEF bip322_sighash_full
<1> HIDE DEF m
<1>6. two = [r |-> two.r, s |-> two.s] /\ two.s \in 0 .. Q - 1 /\ schnorr_verify(m, xonly, two)
  BY <1>0, <1>3, <1>4, KeySigns
<1> HIDE DEF two, spent
<1>7. schnorr_verify(bip322_sighash_full(message, xonly, sig), xonly, [r |-> item.r, s |-> item.s])
  BY <1>3, <1>5, <1>6
<1>8. /\ sig = Full(item, spent, choice.version, choice.locktime, choice.sequence)
      /\ item = [r |-> item.r, s |-> item.s, flag |-> NoFlag] /\ item.s \in 0 .. Q - 1
  BY <1>1, <1>2, <1>3, <1>6
<1>9. Verified(message, segwit_address(xonly, "bc"), sig) = "yes"
  <2> HIDE DEF xonly
  <2> QED
    BY <1>3, <1>7, <1>8, FullVerdict DEF spent
<1> QED
  BY <1>7, <1>8, <1>9 DEF spent

-----------------------------------------------------------------------------
(* The theorems: a probe is as it was chosen, and has the property.         *)

LEMMA ProbesStay ==
    Spec => []Init
<1>1. Init /\ [Next]_<<hash, probe>> => Init'
  <2>1. ASSUME Init, UNCHANGED <<hash, probe>>
        PROVE  Init'
    BY <2>1 DEF Init
  <2> QED
    BY <2>1 DEF Next
<1> QED
  BY <1>1, PTL DEF Spec

\* A batch of orders of every kind of signer is one of signed orders: each
\* signature is BIP340-valid under the key announced, the batch verifies, and
\* verifies with one s changed only if that order's randomizer is 0
\* (btx_halfagg.py, btx_artifact_v2_demo.py).
THEOREM BatchesAlwaysVerify ==
    Spec => []BatchesVerify
<1>1. Init => BatchesVerify
  <2> SUFFICES ASSUME Init, probe.kind = "batch"
               PROVE  BatchesVerify
    BY DEF BatchesVerify
  <2>1. hash \in HashFunctions /\ \E b \in Batches : probe.orders = b
    BY DEF Init, HashFunctions
  <2>2. Orders = Solo \cup Pool \cup Frost
    BY DEF Orders
  <2>3. /\ [kind |-> "solo", body |-> 1, secret |-> 3] \in Orders
        /\ [kind |-> "solo", body |-> 0, secret |-> 4] \in Orders
    <3>1. 3 \in Scalars /\ 4 \in Scalars
      BY QAssumption, KeysAssumption DEF Scalars
    <3>2. 0 \in Bodies /\ 1 \in Bodies
      BY DEF Bodies
    <3> QED
      BY <2>2, <3>1, <3>2 DEF Solo
  <2>4. \A b \in Batches : (\E x \in Orders : b = <<x>>) \/ (\E x, y \in Orders : b = <<x, y>>)
    <3> HIDE DEF Orders
    <3> QED
      BY <2>2, <2>3 DEF Batches
  <2>5. PICK n \in Nat \ {0} : probe.orders \in [1 .. n -> Orders]
    <3>1. probe.orders \in [1 .. 1 -> Orders] \/ probe.orders \in [1 .. 2 -> Orders]
      <4> HIDE DEF Orders
      <4> QED
        BY <2>1, <2>4
    <3>2. 1 \in Nat \ {0} /\ 2 \in Nat \ {0}
      OBVIOUS
    <3> QED
      BY <3>1, <3>2
  <2> DEFINE orders == probe.orders
             entries == Entries(orders)
             sigs == SigsOf(orders)
  <2> HIDE DEF orders, entries, sigs
  <2>6. ASSUME \A i \in DOMAIN sigs : sigs[i] # NoSig
        PROVE  /\ \A i \in DOMAIN sigs : schnorr_verify(Hashes(entries)[i], entries[i].pk, sigs[i])
               /\ verify_batch_announce(build_batch_announce(orders))
               /\ \A i \in DOMAIN sigs :
                     verify_batch_announce(Announced(entries, [sigs EXCEPT ![i].s = (@ + 1) % Q]))
                       <=> Randomizer(Keys(entries), Hashes(entries), [j \in DOMAIN sigs |-> sigs[j].r], i) = 0
    <3>1. orders \in [1 .. n -> Orders] /\ entries = Entries(orders) /\ sigs = SigsOf(orders)
      BY <2>5 DEF orders, entries, sigs
    <3> QED
      BY <2>1, <2>6, <3>1, BatchVerifies
  <2> QED
    BY <2>6 DEF BatchesVerify, orders, entries, sigs
<1> QED
  BY <1>1, ProbesStay, PTL

\* A sealed order verifies for its own outcome's point and for no other, the
\* oracle's attestation and no other number completes it and comes back out
\* of the completed signature; a pool's pre-signature verifies and completes
\* under the key the pool announces (btx_adaptor.py, btx_dlc_oracle.py).
THEOREM AdaptorsAlwaysLock ==
    Spec => []AdaptorsLockTheOrder
<1>1. ASSUME Init, probe.kind = "conditional"
      PROVE  LET oracle == Oracle(probe.d, probe.r)
                 c == build_oracle_conditional_order(probe, oracle, 5, probe.outcome)
                 t == attest(oracle, 5, probe.outcome)
             IN  c.pre # NoSig =>
                   /\ verify_conditional_order(c)
                   /\ \A T \in 1 .. Q - 1 : verify_conditional_order([c EXCEPT !.T = T]) => T = t
                   /\ \A u \in 1 .. Q - 1 :
                         verify_completed(decrypt(c.pre, u), c.pk, order_sighash(c.body, c.pk)) <=> u = t
                   /\ recover(c.pre, decrypt(c.pre, t)) = t
  <2>1. hash \in HashFunctions
    BY <1>1 DEF Init, HashFunctions
  <2>2. /\ probe.secret \in 1 .. Q - 1 /\ probe.d \in 1 .. Q - 1 /\ probe.r \in 1 .. Q - 1
        /\ probe.body \in Bodies /\ probe.outcome \in 0 .. 1
    BY <1>1 DEF Init, Scalars
  <2>3. probe.body \in Int /\ probe.outcome \in Int /\ 5 \in Int
    BY <2>2 DEF Bodies
  <2> DEFINE oracle == Oracle(probe.d, probe.r)
             c == build_oracle_conditional_order(probe, oracle, 5, probe.outcome)
             t == attest(oracle, 5, probe.outcome)
             event == 5
  <2>4. c = build_oracle_conditional_order(probe, Oracle(probe.d, probe.r), event, probe.outcome)
        /\ t = attest(Oracle(probe.d, probe.r), event, probe.outcome) /\ event \in Int
    BY <2>3
  <2> HIDE DEF c, t, event
  <2>5. ASSUME c.pre # NoSig
        PROVE  /\ verify_conditional_order(c)
               /\ \A T \in 1 .. Q - 1 : verify_conditional_order([c EXCEPT !.T = T]) => T = t
               /\ \A u \in 1 .. Q - 1 :
                     verify_completed(decrypt(c.pre, u), c.pk, order_sighash(c.body, c.pk)) <=> u = t
               /\ recover(c.pre, decrypt(c.pre, t)) = t
    BY <2>1, <2>2, <2>3, <2>4, <2>5, AttestationLocks
  <2> QED
    BY <2>5 DEF c, t
<1>2. ASSUME Init, probe.kind = "poolAdaptor"
      PROVE  LET pk == key_agg(EvenedKeys(probe.secrets))
                 pre == pool_pre_sign(probe.secrets, 1, probe.t)
             IN  pre # NoSig => pre_verify(pre, pk, 1, probe.t) /\ verify_completed(decrypt(pre, probe.t), pk, 1)
  <2>1. hash \in HashFunctions
    BY <1>2 DEF Init, HashFunctions
  <2>2. probe.secrets \in Scalars \X Scalars /\ probe.t \in 0 .. Q - 1
    <3>1. probe.secrets \in Scalars \X Scalars /\ probe.t \in Scalars
      BY <1>2 DEF Init
    <3> QED
      BY <3>1, QAssumption DEF Scalars
  <2>3. probe.secrets \in [1 .. 2 -> 0 .. Q - 1] /\ 2 \in Nat \ {0}
    <3>1. \A a \in Scalars : a \in 0 .. Q - 1
      BY QAssumption DEF Scalars
    <3> QED
      BY <2>2, <3>1
  <2> DEFINE secret == aggregate_secret(probe.secrets)
             pk == key_agg(EvenedKeys(probe.secrets))
             msg == 1
             pre == pool_pre_sign(probe.secrets, msg, probe.t)
  <2>4. secret \in 0 .. Q - 1 /\ Evened(secret) = pk
    <3>1. \E n \in Nat \ {0} : probe.secrets \in [1 .. n -> 0 .. Q - 1]
      BY <2>3
    <3> QED
      BY <2>1, <3>1, PoolSecret
  <2>5. pre = pre_sign(secret, msg, probe.t) /\ msg \in Int
    BY DEF pool_pre_sign
  <2> HIDE DEF secret, pk, msg, pre
  <2>6. ASSUME pre # NoSig
        PROVE  pre_verify(pre, pk, msg, probe.t) /\ verify_completed(decrypt(pre, probe.t), pk, msg)
    <3>1. /\ \A T \in 0 .. Q - 1 : pre_verify(pre, Evened(secret), msg, T) <=> T = probe.t
          /\ \A u \in 0 .. Q - 1 : verify_completed(decrypt(pre, u), Evened(secret), msg) <=> u = probe.t
      BY <2>1, <2>2, <2>4, <2>5, <2>6, OneNumberCompletes
    <3> QED
      BY <2>2, <2>4, <3>1
  <2> QED
    BY <2>6 DEF pk, msg, pre
<1>3. Init => AdaptorsLockTheOrder
  BY <1>1, <1>2 DEF AdaptorsLockTheOrder
<1> QED
  BY <1>3, ProbesStay, PTL

\* A signature that hides a commitment verifies and opens to it, and an
\* indexer's search finds it or an earlier candidate of the same nonce; a
\* proof of equal logarithms verifies; a commit output opens with its own
\* control block and parity only (btx_s2c.py, btx_dleq.py, btx_taproot.py).
THEOREM CommitmentsAlwaysOpen ==
    Spec => []CommitmentsOpen
<1>1. ASSUME Init, probe.kind = "s2c"
      PROVE  LET pk == Evened(probe.secret)
                 s == s2c_sign(probe.secret, probe.msg, probe.c, 1)
                 found == s2c_recover_c(s.sig, probe.msg, pk, s.R0, <<0, 1, 2>>)
             IN  s.sig # NoSig =>
                   /\ verify_reveal_against_sig(build_reveal("tx", s.R0, probe.c), s.sig, probe.msg, pk)
                   /\ found \in 1 .. probe.c + 1
                   /\ s2c_expected_R_x(s.R0, found - 1) = s.sig.r
  <2>1. hash \in HashFunctions
    BY <1>1 DEF Init, HashFunctions
  <2>2. probe.secret \in 1 .. Q - 1 /\ probe.msg \in Int /\ probe.c \in 0 .. 2 /\ 1 \in Int
    <3>1. probe.secret \in Scalars /\ probe.msg \in 0 .. 1 /\ probe.c \in 0 .. 2
      BY <1>1 DEF Init
    <3> QED
      BY <3>1 DEF Scalars
  <2> DEFINE aux == 1
             s == s2c_sign(probe.secret, probe.msg, probe.c, aux)
             found == s2c_recover_c(s.sig, probe.msg, Evened(probe.secret), s.R0, <<0, 1, 2>>)
  <2>3. s = s2c_sign(probe.secret, probe.msg, probe.c, aux) /\ aux \in Int
        /\ found = s2c_recover_c(s.sig, probe.msg, Evened(probe.secret), s.R0, <<0, 1, 2>>)
    OBVIOUS
  <2> HIDE DEF aux, s, found
  <2>4. ASSUME s.sig # NoSig
        PROVE  /\ verify_reveal_against_sig(build_reveal("tx", s.R0, probe.c), s.sig, probe.msg, Evened(probe.secret))
               /\ found \in 1 .. probe.c + 1
               /\ s2c_expected_R_x(s.R0, found - 1) = s.sig.r
    BY <2>1, <2>2, <2>3, <2>4, HiddenOpens
  <2> QED
    BY <2>4 DEF aux, s, found
<1>2. ASSUME Init, probe.kind = "dleq"
      PROVE  LET A == point_mul(probe.gen, probe.a)
                 C == point_mul(probe.B, probe.a)
             IN  DleqNonce(probe.a, A, C, 0, probe.m) # 0 =>
                   verify_proof(A, probe.B, C, generate_proof(probe.a, probe.B, 0, probe.gen, probe.m), probe.gen, probe.m)
  <2>1. hash \in HashFunctions
    BY <1>2 DEF Init, HashFunctions
  <2>2. probe.a \in 1 .. Q - 1 /\ probe.B \in 1 .. Q - 1 /\ probe.gen \in 1 .. Q - 1 /\ probe.m \in Int
    <3>1. probe.a \in Scalars /\ probe.B \in Scalars /\ probe.gen \in {1, 3} /\ probe.m \in 0 .. 1
      BY <1>2 DEF Init
    <3>2. probe.gen \in 1 .. Q - 1
      BY <3>1, QAssumption, KeysAssumption
    <3> QED
      BY <3>1, <3>2 DEF Scalars
  <2> DEFINE A == point_mul(probe.gen, probe.a)
             C == point_mul(probe.B, probe.a)
             r == 0
  <2>3. A = point_mul(probe.gen, probe.a) /\ C = point_mul(probe.B, probe.a) /\ r \in Int
    OBVIOUS
  <2> HIDE DEF A, C, r
  <2>4. ASSUME DleqNonce(probe.a, A, C, r, probe.m) # 0
        PROVE  verify_proof(A, probe.B, C, generate_proof(probe.a, probe.B, r, probe.gen, probe.m), probe.gen, probe.m)
    BY <2>1, <2>2, <2>3, <2>4, ProofVerifies
  <2> QED
    BY <2>4 DEF A, C, r
<1>3. ASSUME Init, probe.kind = "commit"
      PROVE  LET out == commit_for_envelope(probe.internal, probe.script)
             IN  out.xonly # 0 =>
                   \A parity \in 0 .. 1 : Opens(out.xonly, probe.internal, parity, probe.script) <=> parity = out.parity
  <2> DEFINE out == commit_for_envelope(probe.internal, probe.script)
             point == TweakedPoint(probe.internal, tapleaf_hash(probe.script))
  <2>1. SUFFICES ASSUME out.xonly # 0
                 PROVE  \A parity \in 0 .. 1 :
                          Opens(out.xonly, probe.internal, parity, probe.script) <=> parity = out.parity
    OBVIOUS
  <2>2. /\ lift_x(probe.internal) # 0 /\ point # 0
        /\ out = [parity |-> IF point \in Even THEN 0 ELSE 1, xonly |-> Evened(point)]
    BY <2>1 DEF commit_for_envelope, taproot_tweak_pubkey
  <2>3. probe.internal \in Even
    BY <2>2 DEF lift_x
  <2> HIDE DEF out
  <2>4. \A parity \in 0 .. 1 :
          Opens(out.xonly, probe.internal, parity, probe.script) <=> (point \in Even <=> parity = 0)
    BY <2>2, <2>3 DEF Opens
  <2>5. out.parity = IF point \in Even THEN 0 ELSE 1
    BY <2>2
  <2> QED
    BY <2>4, <2>5
<1>4. Init => CommitmentsOpen
  BY <1>1, <1>2, <1>3 DEF CommitmentsOpen
<1> QED
  BY <1>4, ProbesStay, PTL

\* A BIP322 signature is accepted for its own address by the library, the
\* tool and the server, for another message, sighash byte, version, locktime
\* or sequence only where the challenges collide, and never for a broken
\* encoding, an extra witness item or a foreign address; what the signing
\* tool prints the verifier accepts, and a flaw of the WIF or of the
\* randomness is an error (btx_bip322.py, btx_attest.py, btxd.py).
THEOREM AttestationsAlwaysBind ==
    Spec => []AttestationsBind
<1>1. Init => AttestationsBind
  <2> SUFFICES ASSUME Init
               PROVE  AttestationsBind
    OBVIOUS
  <2>1. hash \in HashFunctions /\ Scalars \subseteq 0 .. Q - 1
    BY DEF Init, HashFunctions, Scalars
  <2>2. ASSUME probe.kind = "sign"
        PROVE  LET done == cmd_sign(probe.wif, 1, probe.format, probe.choice, probe.aux)
                   addr == tr_key_only_address(Evened(probe.wif.secret), "bc")
               IN  /\ probe.wif \in BadWifs \/ probe.aux = -1 => done.code = 2
                   /\ done.code = 0 => cmd_verify(1, addr, done.sig) = 0 /\ h_attest_verify(1, addr, done.sig) = "valid"
    <3> DEFINE done == cmd_sign(probe.wif, 1, probe.format, probe.choice, probe.aux)
               addr == tr_key_only_address(Evened(probe.wif.secret), "bc")
               secret == probe.wif.secret
               sig == IF probe.format = "simple" THEN sign_simple_p2tr(1, secret, NoFlag, probe.aux)
                      ELSE sign_full_p2tr(1, secret, probe.choice, probe.aux)
    <3>1. /\ probe.wif \in Wifs \cup BadWifs /\ probe.aux \in -1 .. 1
          /\ probe.choice = [version |-> 2, locktime |-> 5, sequence |-> 0]
      BY <2>2 DEF Init
    <3>2. ASSUME probe.wif \in BadWifs
          PROVE  decode_wif(probe.wif) = -1
      BY <3>2 DEF BadWifs, Wif, decode_wif
    <3>3. ASSUME probe.wif \in Wifs
          PROVE  decode_wif(probe.wif) = secret /\ secret \in 0 .. Q - 1
      <4>1. 2 \in 0 .. Q - 1
        BY QAssumption
      <4> QED
        BY <3>3, <4>1 DEF Wifs, Wif, decode_wif
    <3>4. decode_wif(probe.wif) = -1 \/ probe.aux = -1 => done = [code |-> 2]
      BY DEF cmd_sign
    <3>5. ASSUME done.code = 0
          PROVE  /\ decode_wif(probe.wif) = secret /\ secret \in 0 .. Q - 1 /\ probe.aux \in Int
                 /\ OutputKey(secret) # 0 /\ sig.stack[1].r # 0 /\ done.sig = sig
      <4>1. decode_wif(probe.wif) # -1
        BY <3>4, <3>5
      <4>2. decode_wif(probe.wif) = secret /\ secret \in 0 .. Q - 1
        BY <3>1, <3>2, <3>3, <4>1
      <4>3. OutputKey(secret) # 0 /\ sig.stack[1].r # 0 /\ done.sig = sig
        BY <3>5, <4>2 DEF cmd_sign
      <4> QED
        BY <3>1, <4>2, <4>3
    <3>6. ASSUME done.code = 0
          PROVE  Verified(1, segwit_address(OutputKey(secret), "bc"), sig) = "yes" /\ sig.prefix \in {"smp", "ful"}
      <4>1. PICK x : x = sig
        OBVIOUS
      <4>2. PICK item : item = x.stack[1]
        OBVIOUS
      <4>6. secret \in 0 .. Q - 1 /\ probe.aux \in Int /\ OutputKey(secret) # 0
        BY <3>5, <3>6
      <4>3. 1 \in Int /\ NoFlag \in {NoFlag, 0, 1} /\ probe.choice \in [version : Int, locktime : Int, sequence : Int]
        BY <3>1
      <4>4. CASE probe.format = "simple"
        <5>1. x = sign_simple_p2tr(1, secret, NoFlag, probe.aux)
          BY <4>1, <4>4
        <5> HIDE DEF sig, secret, done
        <5>2. x.stack[1].r # 0
          BY <3>5, <3>6, <4>1
        <5>3. /\ Verified(1, segwit_address(OutputKey(secret), "bc"), x) = "yes"
              /\ x = Simple(<<[r |-> item.r, s |-> item.s, flag |-> NoFlag]>>)
          <6>1. SimplyMade(x, item, 1, secret, NoFlag, probe.aux)
            BY <4>2, <4>3, <4>6, <5>1, <5>2 DEF SimplyMade
          <6> QED
            BY <2>1, <6>1, SimpleSigned
        <5> QED
          BY <4>1, <5>3 DEF Simple
      <4>5. CASE probe.format # "simple"
        <5>1. x = sign_full_p2tr(1, secret, probe.choice, probe.aux)
          BY <4>1, <4>5
        <5> HIDE DEF sig, secret, done
        <5>2. x.stack[1].r # 0
          BY <3>5, <3>6, <4>1
        <5>3. Verified(1, segwit_address(OutputKey(secret), "bc"), x) = "yes"
          <6>1. FullyMade(x, item, 1, secret, probe.choice, probe.aux)
            BY <4>2, <4>3, <4>6, <5>1, <5>2 DEF FullyMade
          <6> QED
            BY <2>1, <6>1, FullSigned
        <5>4. x.prefix = "ful"
          BY <5>1 DEF sign_full_p2tr
        <5> QED
          BY <4>1, <5>3, <5>4
      <4> QED
        BY <4>4, <4>5
    <3>7. addr = segwit_address(OutputKey(secret), "bc")
      BY DEF tr_key_only_address, OutputKey
    <3> HIDE DEF done, addr, secret, sig
    <3>8. done.code = 0 => cmd_verify(1, addr, done.sig) = 0 /\ h_attest_verify(1, addr, done.sig) = "valid"
      BY <3>5, <3>6, <3>7, Accepted
    <3>9. probe.wif \in BadWifs \/ probe.aux = -1 => done.code = 2
      BY <3>2, <3>4
    <3> QED
      BY <3>8, <3>9 DEF done, addr
  <2>3. ASSUME probe.kind \in {"simple", "full"}
        PROVE  LET addr == tr_key_only_address(Evened(probe.secret), "bc")
                   sig == IF probe.kind = "simple" THEN sign_simple_p2tr(probe.message, probe.secret, probe.flag, 0)
                          ELSE sign_full_p2tr(probe.message, probe.secret, probe.choice, 0)
               IN  (addr.program # 0 /\ sig.stack[1].r # 0) => Binds(addr, sig, addr.program, sig.stack[1])
    <3> DEFINE addr == tr_key_only_address(Evened(probe.secret), "bc")
               sig == IF probe.kind = "simple" THEN sign_simple_p2tr(probe.message, probe.secret, probe.flag, 0)
                      ELSE sign_full_p2tr(probe.message, probe.secret, probe.choice, 0)
               xonly == OutputKey(probe.secret)
    <3>1. probe.secret \in 0 .. Q - 1 /\ probe.message \in Int /\ 0 \in Int
      <4>1. probe.secret \in Scalars /\ probe.message \in 0 .. 1
        <5>1. CASE probe.kind = "simple"
          BY <5>1 DEF Init
        <5>2. CASE probe.kind = "full"
          BY <5>2 DEF Init
        <5> QED
          BY <2>3, <5>1, <5>2
      <4>2. probe.secret \in 0 .. Q - 1
        BY <2>1, <4>1
      <4>3. probe.message \in Int /\ 0 \in Int
        BY <4>1
      <4> QED
        BY <4>2, <4>3
    <3>2. addr = segwit_address(xonly, "bc") /\ addr.program = xonly
      BY DEF tr_key_only_address, segwit_address, OutputKey
    <3>3. ASSUME addr.program # 0, sig.stack[1].r # 0, NEW x, x = sig, NEW item, item = x.stack[1]
          PROVE  Binds(segwit_address(xonly, "bc"), x, xonly, item)
      <4>1. xonly # 0 /\ xonly \in Int /\ x.stack[1].r # 0
        <5>1. xonly # 0
          BY <3>2, <3>3
        <5>2. xonly \in Int
          BY <2>1, <3>1, <5>1, TweakedKey, Lift
        <5> QED
          BY <3>3, <5>1, <5>2
      <4>2. CASE probe.kind = "simple"
        <5>1. probe.flag \in {NoFlag, 0, 1}
          BY <4>2 DEF Init
        <5>2. x = sign_simple_p2tr(probe.message, probe.secret, probe.flag, 0)
          BY <3>3, <4>2
        <5> HIDE DEF addr, sig
        <5>3. /\ x = Simple(<<[r |-> item.r, s |-> item.s, flag |-> probe.flag]>>) /\ item.s \in 0 .. Q - 1
              /\ item = [r |-> item.r, s |-> item.s, flag |-> probe.flag]
              /\ schnorr_verify(bip322_sighash(probe.message, xonly, probe.flag % 256), xonly,
                                [r |-> item.r, s |-> item.s])
          <6>1. SimplyMade(x, item, probe.message, probe.secret, probe.flag, 0)
            BY <3>1, <3>3, <4>1, <5>1, <5>2 DEF SimplyMade
          <6>2. /\ x = Simple(<<[r |-> item.r, s |-> item.s, flag |-> probe.flag]>>) /\ item.s \in 0 .. Q - 1
                /\ item = [r |-> item.r, s |-> item.s, flag |-> probe.flag]
                /\ schnorr_verify(SimpleHash(probe.message, xonly, probe.flag), xonly, [r |-> item.r, s |-> item.s])
            BY <2>1, <6>1, SimpleSigned
          <6> QED
            BY <6>2 DEF SimpleHash
        <5> HIDE DEF xonly
        <5>4. Binds(segwit_address(xonly, "bc"), Simple(<<[r |-> item.r, s |-> item.s, flag |-> probe.flag]>>), xonly,
                    [r |-> item.r, s |-> item.s, flag |-> probe.flag])
          BY <2>1, <3>1, <4>1, <5>1, <5>3, SimpleBinds
        <5> QED
          BY <5>3, <5>4
      <4>3. CASE probe.kind = "full"
        <5>1. /\ probe.choice \in [version : Int, locktime : Int, sequence : Int]
              /\ probe.choice.version \in Int /\ probe.choice.locktime \in Int /\ probe.choice.sequence \in Int
          <6>1. probe.choice \in Versions
            BY <4>3 DEF Init
          <6> QED
            BY <6>1 DEF Versions
        <5>2. x = sign_full_p2tr(probe.message, probe.secret, probe.choice, 0)
          BY <3>3, <4>3
        <5> HIDE DEF addr, sig
        <5>3. /\ x = Full(item, to_spend_txid(message_hash(probe.message), xonly),
                          probe.choice.version, probe.choice.locktime, probe.choice.sequence)
              /\ item = [r |-> item.r, s |-> item.s, flag |-> NoFlag] /\ item.s \in 0 .. Q - 1
              /\ schnorr_verify(bip322_sighash_full(probe.message, xonly, x), xonly, [r |-> item.r, s |-> item.s])
          <6>1. FullyMade(x, item, probe.message, probe.secret, probe.choice, 0)
            BY <3>1, <3>3, <4>1, <5>1, <5>2 DEF FullyMade
          <6> QED
            BY <2>1, <6>1, FullSigned
        <5> HIDE DEF xonly
        <5> QED
          BY <2>1, <3>1, <4>1, <5>1, <5>3, FullBinds
      <4> QED
        BY <2>3, <4>2, <4>3
    <3> HIDE DEF addr, sig, xonly
    <3>4. (addr.program # 0 /\ sig.stack[1].r # 0) => Binds(addr, sig, addr.program, sig.stack[1])
      BY <3>2, <3>3
    <3> QED
      BY <3>4 DEF addr, sig
  <2> QED
    BY <2>2, <2>3 DEF AttestationsBind
<1> QED
  BY <1>1, ProbesStay, PTL

=============================================================================
