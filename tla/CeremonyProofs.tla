---------------------------- MODULE CeremonyProofs ----------------------------
(***************************************************************************)
(* Theorems about the signing ceremony, for every set of members, of which *)
(* any may misbehave, and every number of sessions and slips.              *)
(***************************************************************************)
EXTENDS Ceremony, FiniteSetTheorems, FunctionTheorems, SequenceTheorems, TLAPS

USE CeremonyAssumption

-----------------------------------------------------------------------------
(* The order of the keys. *)

\* How many keys of the pool sort up to k: the place of k.
Rank(S, k) == Cardinality({j \in S : j <= k})

LEMMA RankGrows ==
    ASSUME NEW S \in SUBSET Nat, IsFiniteSet(S), NEW a \in S, NEW b \in S
    PROVE  /\ Rank(S, a) \in 1 .. Cardinality(S)
           /\ a <= b => Rank(S, a) <= Rank(S, b)
           /\ a < b => Rank(S, a) # Rank(S, b)
<1> DEFINE Upto(k) == {j \in S : j <= k}
<1>0. \A k \in S : k \in Nat
  OBVIOUS
<1>1. \A k \in S : /\ IsFiniteSet(Upto(k)) /\ Cardinality(Upto(k)) \in Nat
                   /\ Cardinality(Upto(k)) <= Cardinality(S)
  BY FS_Subset, FS_CardinalityType
<1>2. a \in Upto(a)
  OBVIOUS
<1>3. Cardinality(Upto(a)) # 0
  BY <1>1, <1>2, FS_EmptySet
<1>4. ASSUME a <= b
      PROVE  Upto(a) \in SUBSET Upto(b)
  <2> SUFFICES ASSUME NEW j \in Upto(a)
               PROVE  j \in Upto(b)
    OBVIOUS
  <2> QED
    BY <1>0, <1>4
<1>5. ASSUME NEW A, NEW B, IsFiniteSet(B), A \in SUBSET B
      PROVE  Cardinality(A) <= Cardinality(B) /\ (Cardinality(A) = Cardinality(B) => A = B)
  BY <1>5, FS_Subset
<1> HIDE DEF Upto
<1>6. ASSUME a <= b
      PROVE  /\ Cardinality(Upto(a)) <= Cardinality(Upto(b))
             /\ Cardinality(Upto(a)) = Cardinality(Upto(b)) => Upto(a) = Upto(b)
  BY <1>1, <1>4, <1>5, <1>6
<1>8. a < b => a <= b /\ Upto(a) # Upto(b)
  <2>1. b \in Upto(b) /\ (a < b => b \notin Upto(a))
    BY <1>0 DEF Upto
  <2> QED
    BY <1>0, <2>1
<1>7. Cardinality(S) \in Nat
  BY FS_CardinalityType
<1> QED
  BY <1>1, <1>3, <1>6, <1>7, <1>8 DEF Rank, Upto

\* Every finite set of keys can be sorted: the ranks number its elements.
LEMMA SortedExists ==
    ASSUME NEW S \in SUBSET Nat, IsFiniteSet(S)
    PROVE  \E s \in SetToSeqs(S) : \A i, j \in DOMAIN s : i < j => s[i] < s[j]
<1> DEFINE n == Cardinality(S)
           rank == [k \in S |-> Rank(S, k)]
           sorted == [i \in 1 .. n |-> CHOOSE k \in S : rank[k] = i]
<1>1. n \in Nat /\ IsFiniteSet(1 .. n) /\ Cardinality(1 .. n) = n
  BY FS_CardinalityType, FS_Interval
<1>2. rank \in [S -> 1 .. n]
  BY RankGrows
<1>3. \A a, b \in S : rank[a] = rank[b] => a = b
  <2> SUFFICES ASSUME NEW a \in S, NEW b \in S, a # b
               PROVE  rank[a] # rank[b]
    OBVIOUS
  <2>1. a < b \/ b < a
    OBVIOUS
  <2>2. CASE a < b
    BY <2>2, RankGrows
  <2>3. CASE b < a
    BY <2>3, RankGrows
  <2> QED
    BY <2>1, <2>2, <2>3
<1> HIDE DEF rank, n
<1>4. rank \in Injection(S, 1 .. n)
  BY <1>2, <1>3, Fun_IsInj
<1>5. rank \in Surjection(S, 1 .. n)
  <2>1. Cardinality(S) = Cardinality(1 .. n)
    BY <1>1 DEF n
  <2> QED
    BY <1>1, <1>4, <2>1, FS_Injection
<1>6. \A i \in 1 .. n : \E k \in S : rank[k] = i
  BY <1>5, Fun_SurjectionProperties
<1>7. \A i \in 1 .. n : sorted[i] \in S /\ rank[sorted[i]] = i
  BY <1>6
<1>8. sorted \in SetToSeqs(S)
  BY <1>7 DEF SetToSeqs, n
<1> HIDE DEF sorted
<1>9. \A i, j \in 1 .. n : i < j => sorted[i] < sorted[j]
  <2> SUFFICES ASSUME NEW i \in 1 .. n, NEW j \in 1 .. n, i < j, ~(sorted[i] < sorted[j])
               PROVE  FALSE
    OBVIOUS
  <2>1. sorted[i] \in S /\ sorted[j] \in S /\ sorted[i] \in Nat /\ sorted[j] \in Nat
    BY <1>7
  <2>2. sorted[j] <= sorted[i]
    BY <2>1
  <2>3. rank[sorted[j]] <= rank[sorted[i]]
    BY <2>1, <2>2, RankGrows DEF rank
  <2> QED
    BY <1>1, <1>7, <2>3
<1>10. DOMAIN sorted = 1 .. n
  BY DEF sorted
<1> QED
  BY <1>8, <1>9, <1>10

\* A list of all the members, in whatever order.
LEMMA ListOfAll ==
    ASSUME NEW S, IsFiniteSet(S), NEW l \in SetToSeqs(S)
    PROVE  /\ l \in Seq(S) /\ Len(l) = Cardinality(S) /\ DOMAIN l = 1 .. Len(l)
           /\ \A i, j \in 1 .. Len(l) : l[i] = l[j] => i = j
           /\ \A m \in S : \E i \in 1 .. Len(l) : l[i] = m
           /\ ToSet(l) = S
<1> DEFINE n == Cardinality(S)
<1>1. n \in Nat /\ IsFiniteSet(1 .. n) /\ Cardinality(1 .. n) = n
  BY FS_CardinalityType, FS_Interval
<1>2. l \in [1 .. n -> S] /\ \A i, j \in 1 .. n : l[i] = l[j] => i = j
  BY DEF SetToSeqs
<1>3. l \in Seq(S) /\ Len(l) = n
  BY <1>1, <1>2
<1>4. l \in Injection(1 .. n, S)
  BY <1>2, Fun_IsInj
<1>5. l \in Surjection(1 .. n, S)
  <2>1. Cardinality(1 .. n) = Cardinality(S)
    BY <1>1
  <2> HIDE DEF n
  <2> QED
    BY <1>4, <2>1, FS_Injection
<1>6. \A m \in S : \E i \in 1 .. n : l[i] = m
  BY <1>5 DEF Surjection
<1> QED
  BY <1>2, <1>3, <1>6 DEF ToSet

\* sorted(key = pk) returns every key of the pool once, smallest first.
LEMMA CanonicalSorts ==
    ASSUME NEW S \in SUBSET Members
    PROVE  /\ Canonical(S) \in Seq(S) /\ Len(Canonical(S)) = Cardinality(S)
           /\ DOMAIN Canonical(S) = 1 .. Cardinality(S)
           /\ \A i, j \in 1 .. Cardinality(S) : i < j => Canonical(S)[i] < Canonical(S)[j]
           /\ \A i, j \in 1 .. Cardinality(S) : Canonical(S)[i] = Canonical(S)[j] => i = j
           /\ \A m \in S : \E i \in 1 .. Cardinality(S) : Canonical(S)[i] = m
           /\ ToSet(Canonical(S)) = S
<1>1. IsFiniteSet(S) /\ S \in SUBSET Nat
  BY FS_Subset
<1>2. /\ Canonical(S) \in SetToSeqs(S)
      /\ \A i, j \in DOMAIN Canonical(S) : i < j => Canonical(S)[i] < Canonical(S)[j]
  BY <1>1, SortedExists DEF Canonical
<1> QED
  BY <1>1, <1>2, ListOfAll

-----------------------------------------------------------------------------
(* The inductive invariant. *)

\* The members of the session, in the order of their keys.
Ordered == Canonical(Pool)

TypeOK ==
    /\ member \in [Members -> [pool : Seq(Members) \cup {None}, msg : Msgs \cup {None},
                               secnonce : Nonces \cup {None}]]
    /\ step \in {"idle", "round1", "round2", "verify"}
    /\ list \in Seq(Members) /\ msg \in Msgs \cup {None}
    /\ pubnonces \in Seq(Nonces) /\ psigs \in Seq(PartialSigs \cup {Garbage})
    /\ published \subseteq [pool : Seq(Members), msg : Msgs]
    /\ excluded \subseteq Members /\ sessions \in Nat /\ faults \in Nat
    /\ old \subseteq Seq(Nonces) /\ partials \subseteq PartialSigs

\* Everybody in a session has the same list of keys, and the two rounds are as
\* long as it is.
InSession ==
    step # "idle" =>
        /\ msg \in Msgs /\ Len(list) >= 2 /\ Len(list) = Cardinality(Pool)
        /\ \A m \in Pool : member[m].pool = Ordered
Places ==
    /\ step = "round1" => Len(pubnonces) < Len(list) /\ psigs = <<>>
    /\ step = "round2" => Len(pubnonces) = Len(list) /\ Len(psigs) < Len(list)
    /\ step = "verify" => Len(pubnonces) = Len(list) /\ Len(psigs) = Len(list)

\* What the answers of the two rounds are: the nonces of this session in the
\* order of the keys, still held by those who have not answered the second
\* round, and partial signatures that were made or garbage.
NoncesOfSession ==
    step # "idle" =>
        \A i \in 1 .. Len(pubnonces) :
            /\ pubnonces[i] = [by |-> Ordered[i], serial |-> sessions]
            /\ member[Ordered[i]].msg = msg
            /\ i > Len(psigs) => member[Ordered[i]].secnonce = pubnonces[i]
AnswersAreSigned ==
    step # "idle" =>
        \A i \in 1 .. Len(psigs) : psigs[i] # Garbage => psigs[i] \in partials
HonestAnswer(i) == psigs[i] = Signed(Ordered[i], pubnonces[i], pubnonces, Ordered, msg)
HonestAnswers ==
    step # "idle" /\ faults = 0 =>
        \A i \in 1 .. Len(psigs) : Ordered[i] \in Bad \/ HonestAnswer(i)

\* A nonce that someone holds is its holder's own, and nothing was signed with it;
\* those of the present session were drawn after every partial signature.
Held(m) == member[m].secnonce # None
HeldIsUnused ==
    /\ \A m \in Members : Held(m) => /\ member[m].secnonce.by = m
                                    /\ member[m].secnonce.serial <= sessions
    /\ \A p \in partials : /\ p.nonce.serial <= sessions
                           /\ step = "round1" => p.nonce.serial < sessions
    /\ \A p \in partials, m \in Members : Held(m) => p.nonce # member[m].secnonce

CeremonyInv ==
    /\ TypeOK /\ InSession /\ Places /\ NoncesOfSession /\ AnswersAreSigned
    /\ HonestAnswers /\ HeldIsUnused
    /\ NonceUsedOnce /\ SignedByAll /\ BlameIsRight

-----------------------------------------------------------------------------
(* What the proofs of the steps share. *)

\* A list of some members is a list of members.
LEMMA ListOfSome ==
    ASSUME NEW T, NEW S \in SUBSET T, NEW s \in Seq(S)
    PROVE  s \in Seq(T)
<1>1. \A i \in 1 .. Len(s) : s[i] \in S
  OBVIOUS
<1>2. \A m \in S : m \in T
  OBVIOUS
<1>3. \A i \in 1 .. Len(s) : s[i] \in T
  BY <1>1, <1>2
<1> QED
  BY <1>3

\* A finite nonempty set of indices has a least one.
LEMMA LeastExists ==
    ASSUME NEW S \in SUBSET Nat, IsFiniteSet(S), S # {}
    PROVE  \E j \in S : \A k \in S : j <= k
<1>1. PICK s \in SetToSeqs(S) : \A i, j \in DOMAIN s : i < j => s[i] < s[j]
  BY SortedExists
<1>2. /\ Len(s) \in Nat /\ DOMAIN s = 1 .. Len(s) /\ \A i \in 1 .. Len(s) : s[i] \in S
      /\ \A k \in S : \E i \in 1 .. Len(s) : s[i] = k
  BY ListOfAll
<1>3. 1 \in 1 .. Len(s)
  <2>1. PICK k \in S : TRUE
    OBVIOUS
  <2>2. PICK i \in 1 .. Len(s) : s[i] = k
    BY <1>2, <2>1
  <2> QED
    BY <1>2, <2>2
<1>4. \A i \in 1 .. Len(s) : s[1] <= s[i]
  <2> SUFFICES ASSUME NEW i \in 1 .. Len(s)
               PROVE  s[1] <= s[i]
    OBVIOUS
  <2>1. s[1] \in S /\ s[i] \in S /\ (i = 1 \/ 1 < i)
    BY <1>2, <1>3
  <2>2. 1 < i => s[1] < s[i]
    BY <1>1, <1>2, <1>3
  <2>3. \A k \in S : k \in Nat
    OBVIOUS
  <2>4. s[1] \in Nat /\ s[i] \in Nat
    BY <2>1, <2>3
  <2>5. CASE i = 1
    BY <2>4, <2>5
  <2>6. CASE 1 < i
    BY <2>2, <2>4, <2>6
  <2> QED
    BY <2>1, <2>5, <2>6
<1>5. \A k \in S : s[1] <= k
  BY <1>2, <1>4
<1>6. s[1] \in S
  BY <1>2, <1>3
<1> QED
  BY <1>5, <1>6

\* The order of a list is that of its members.
LEMMA OrderedFacts ==
    ASSUME list \in Seq(Members)
    PROVE  /\ Pool \in SUBSET Members /\ Cardinality(Pool) \in Nat
           /\ Ordered \in Seq(Members) /\ Len(Ordered) = Cardinality(Pool)
           /\ \A i \in 1 .. Cardinality(Pool) : Ordered[i] \in Pool
           /\ \A i, j \in 1 .. Cardinality(Pool) : Ordered[i] = Ordered[j] => i = j
           /\ \A m \in Pool : \E i \in 1 .. Cardinality(Pool) : Ordered[i] = m
           /\ ToSet(Ordered) = Pool
<1>1. Pool \in SUBSET Members
  BY DEF Pool, ToSet
<1>2. IsFiniteSet(Pool) /\ Cardinality(Pool) \in Nat
  BY <1>1, FS_Subset, FS_CardinalityType
<1> HIDE DEF Pool
<1>3. /\ Canonical(Pool) \in Seq(Pool) /\ Len(Canonical(Pool)) = Cardinality(Pool)
      /\ \A i, j \in 1 .. Cardinality(Pool) : Canonical(Pool)[i] = Canonical(Pool)[j] => i = j
      /\ \A m \in Pool : \E i \in 1 .. Cardinality(Pool) : Canonical(Pool)[i] = m
      /\ ToSet(Canonical(Pool)) = Pool
  BY <1>1, CanonicalSorts
<1> DEFINE s == Canonical(Pool)
<1>4. s \in Seq(Members) /\ \A i \in 1 .. Cardinality(Pool) : s[i] \in Pool
  <2>1. s \in Seq(Pool) /\ Len(s) = Cardinality(Pool)
    BY <1>3
  <2> HIDE DEF s
  <2>2. \A i \in 1 .. Len(s) : s[i] \in Pool
    BY <2>1
  <2>3. \A i \in 1 .. Len(s) : s[i] \in Members
    BY <1>1, <2>2
  <2>4. s \in Seq(Members)
    BY <2>1, <2>3
  <2> QED
    BY <2>1, <2>2, <2>4
<1> QED
  BY <1>1, <1>2, <1>3, <1>4 DEF Ordered

\* What everybody signed stays signed.
LEMMA SignedGrows ==
    ASSUME SignedByAll, published' = published, partials \subseteq partials'
    PROVE  SignedByAll'
<1> SUFFICES ASSUME NEW s \in published
             PROVE  \E agg \in {p.agg : p \in partials'} :
                        \A m \in ToSet(s.pool) : \E p \in partials' :
                            p.by = m /\ p.pool = s.pool /\ p.msg = s.msg /\ p.agg = agg
  BY DEF SignedByAll
<1>1. PICK agg \in {p.agg : p \in partials} :
        \A m \in ToSet(s.pool) : \E p \in partials :
            p.by = m /\ p.pool = s.pool /\ p.msg = s.msg /\ p.agg = agg
  BY DEF SignedByAll
<1> QED
  BY <1>1

\* A partial signature is made with a nonce that its signer holds, and wipes it.
LEMMA SigningKeeps ==
    ASSUME TypeOK, HeldIsUnused, NonceUsedOnce, SignedByAll,
           NEW m \in Members, Held(m), NEW psig \in PartialSigs,
           psig.nonce = member[m].secnonce,
           partials' = partials \cup {psig},
           member' = [member EXCEPT ![m].secnonce = None],
           published' = published, sessions' = sessions, step' # "round1"
    PROVE  /\ HeldIsUnused' /\ NonceUsedOnce' /\ SignedByAll'
           /\ partials' \subseteq PartialSigs
           /\ member' \in [Members -> [pool : Seq(Members) \cup {None}, msg : Msgs \cup {None},
                                       secnonce : Nonces \cup {None}]]
           /\ \A o \in Members : /\ member'[o].pool = member[o].pool
                                 /\ member'[o].msg = member[o].msg
                                 /\ o # m => member'[o] = member[o]
<1>1. /\ \A o \in Members : /\ member'[o].pool = member[o].pool
                            /\ member'[o].msg = member[o].msg
                            /\ o # m => member'[o] = member[o]
      /\ member'[m].secnonce = None
  BY DEF TypeOK
<1>2. member' \in [Members -> [pool : Seq(Members) \cup {None}, msg : Msgs \cup {None},
                               secnonce : Nonces \cup {None}]]
  BY DEF TypeOK
<1>3. \A o \in Members \ {m} : Held(o) => member[o].secnonce # member[m].secnonce
  BY DEF HeldIsUnused
<1>4. member[m].secnonce.serial <= sessions
  BY DEF HeldIsUnused
<1>5. HeldIsUnused'
  <2>1. (\A o \in Members : Held(o) => /\ member[o].secnonce.by = o
                                       /\ member[o].secnonce.serial <= sessions)'
    BY <1>1 DEF HeldIsUnused, Held
  <2>2. (\A p \in partials : /\ p.nonce.serial <= sessions
                             /\ step = "round1" => p.nonce.serial < sessions)'
    BY <1>4 DEF HeldIsUnused
  <2>3. (\A p \in partials, o \in Members : Held(o) => p.nonce # member[o].secnonce)'
    BY <1>1, <1>3 DEF HeldIsUnused, Held
  <2> QED
    BY <2>1, <2>2, <2>3 DEF HeldIsUnused
<1>6. NonceUsedOnce'
  BY DEF NonceUsedOnce, HeldIsUnused
<1>7. SignedByAll'
  BY SignedGrows
<1> QED
  BY <1>1, <1>2, <1>5, <1>6, <1>7 DEF TypeOK

\* A session that ends leaves members, nonces and partial signatures behind.
LEMMA EndKeeps ==
    ASSUME CeremonyInv, step' = "idle", old' \in {old, old \cup {pubnonces}},
           UNCHANGED <<session, member, sessions, partials>>,
           faults' \in Nat, excluded' \subseteq Members, BlameIsRight',
           published' \subseteq [pool : Seq(Members), msg : Msgs], SignedByAll'
    PROVE  CeremonyInv'
<1> USE DEF session
<1>1. TypeOK'
  BY DEF CeremonyInv, TypeOK
<1>2. InSession' /\ Places' /\ NoncesOfSession' /\ AnswersAreSigned' /\ HonestAnswers'
  BY DEF InSession, Places, NoncesOfSession, AnswersAreSigned, HonestAnswers
<1>3. HeldIsUnused'
  BY DEF CeremonyInv, HeldIsUnused, Held
<1>4. NonceUsedOnce'
  BY DEF CeremonyInv, NonceUsedOnce
<1> QED
  BY <1>1, <1>2, <1>3, <1>4 DEF CeremonyInv

-----------------------------------------------------------------------------
(* The steps. *)

LEMMA InitHolds == Init => CeremonyInv
<1> SUFFICES ASSUME Init PROVE CeremonyInv
  OBVIOUS
<1>1. TypeOK
  BY DEF Init, TypeOK
<1>2. InSession /\ Places /\ NoncesOfSession /\ AnswersAreSigned /\ HonestAnswers
  BY DEF Init, InSession, Places, NoncesOfSession, AnswersAreSigned, HonestAnswers
<1>3. HeldIsUnused /\ NonceUsedOnce /\ SignedByAll /\ BlameIsRight
  BY DEF Init, HeldIsUnused, Held, NonceUsedOnce, SignedByAll, BlameIsRight
<1> QED
  BY <1>1, <1>2, <1>3 DEF CeremonyInv

LEMMA StutterKeeps == CeremonyInv /\ UNCHANGED vars => CeremonyInv'
<1> SUFFICES ASSUME CeremonyInv, UNCHANGED vars PROVE CeremonyInv'
  OBVIOUS
<1> USE DEF vars, session
<1>1. TypeOK'
  BY DEF CeremonyInv, TypeOK
<1>2. Ordered' = Ordered /\ Pool' = Pool
  BY DEF Ordered, Pool
<1>3. InSession' /\ Places'
  BY <1>2 DEF CeremonyInv, InSession, Places
<1>4. NoncesOfSession' /\ AnswersAreSigned'
  BY <1>2 DEF CeremonyInv, NoncesOfSession, AnswersAreSigned
<1>5. HonestAnswers'
  BY <1>2 DEF CeremonyInv, HonestAnswers, HonestAnswer
<1>6. HeldIsUnused'
  BY DEF CeremonyInv, HeldIsUnused, Held
<1>7. NonceUsedOnce' /\ SignedByAll' /\ BlameIsRight'
  BY SignedGrows DEF CeremonyInv, NonceUsedOnce, BlameIsRight
<1> QED
  BY <1>1, <1>3, <1>4, <1>5, <1>6, <1>7 DEF CeremonyInv

\* Setup gives every member of the new session the same list of keys.
LEMMA SetupKeeps == CeremonyInv /\ setup => CeremonyInv'
<1> SUFFICES ASSUME CeremonyInv, setup PROVE CeremonyInv'
  OBVIOUS
<1> DEFINE S == Members \ excluded
<1>1. /\ list' \in SetToSeqs(S) /\ Len(list') >= 2 /\ msg' \in Msgs
      /\ member' = [m \in Members |-> IF m \in ToSet(list')
                                      THEN [member[m] EXCEPT !.pool = Canonical(ToSet(list'))]
                                      ELSE member[m]]
      /\ pubnonces' = <<>> /\ psigs' = <<>> /\ step' = "round1" /\ sessions' = sessions + 1
      /\ UNCHANGED <<published, excluded, faults, old, partials>>
  BY DEF setup
<1>2. S \in SUBSET Members /\ IsFiniteSet(S)
  BY FS_Subset
<1> HIDE DEF S
<1>3. list' \in Seq(S) /\ Len(list') = Cardinality(S) /\ ToSet(list') = S
  BY <1>1, <1>2, ListOfAll
<1>4. list' \in Seq(Members)
  BY <1>2, <1>3, ListOfSome
<1>5. Canonical(S) \in Seq(Members)
  BY <1>2, CanonicalSorts, ListOfSome
<1>6. \A m \in Members : /\ member'[m].pool = IF m \in S THEN Canonical(S) ELSE member[m].pool
                         /\ member'[m].msg = member[m].msg
                         /\ member'[m].secnonce = member[m].secnonce
  BY <1>1, <1>3 DEF CeremonyInv, TypeOK
<1>7. TypeOK'
  <2>1. member' \in [Members -> [pool : Seq(Members) \cup {None}, msg : Msgs \cup {None},
                                 secnonce : Nonces \cup {None}]]
    BY <1>1, <1>3, <1>5 DEF CeremonyInv, TypeOK
  <2>2. pubnonces' \in Seq(Nonces) /\ psigs' \in Seq(PartialSigs \cup {Garbage})
    BY <1>1
  <2> QED
    BY <1>1, <1>4, <2>1, <2>2 DEF CeremonyInv, TypeOK
<1>8. InSession' /\ Places'
  <2>1. Pool' = S
    BY <1>3 DEF Pool
  <2>2. Ordered' = Canonical(S)
    BY <2>1 DEF Ordered, Canonical
  <2> QED
    BY <1>1, <1>2, <1>3, <1>6, <2>1, <2>2 DEF InSession, Places
<1>9. NoncesOfSession' /\ AnswersAreSigned' /\ HonestAnswers'
  BY <1>1 DEF NoncesOfSession, AnswersAreSigned, HonestAnswers
<1>10. HeldIsUnused'
  <2>1. sessions \in Nat
    BY DEF CeremonyInv, TypeOK
  <2>2. \A n \in Nonces : n.serial \in Nat
    BY DEF Nonces
  <2>3. \A m \in Members : Held(m) => member[m].secnonce \in Nonces
    BY DEF Held, CeremonyInv, TypeOK
  <2>4. \A p \in partials : p.nonce \in Nonces
    BY DEF PartialSigs, CeremonyInv, TypeOK
  <2> QED
    BY <1>1, <1>6, <2>1, <2>2, <2>3, <2>4 DEF CeremonyInv, HeldIsUnused, Held
<1>11. NonceUsedOnce' /\ SignedByAll' /\ BlameIsRight'
  BY <1>1, SignedGrows DEF CeremonyInv, NonceUsedOnce, BlameIsRight
<1> QED
  BY <1>7, <1>8, <1>9, <1>10, <1>11 DEF CeremonyInv

\* In a session, the one whose turn it is is the next in the order of the keys.
LEMMA TurnFacts ==
    ASSUME CeremonyInv, step # "idle", NEW i \in 1 .. Len(list)
    PROVE  /\ Ordered[i] \in Members /\ Ordered[i] \in Pool
           /\ member[Ordered[i]].pool = Ordered /\ Ordered \in Seq(Members)
           /\ \A j \in 1 .. Len(list) : Ordered[j] = Ordered[i] => j = i
           /\ Canonical(Pool)[i] = Ordered[i]
<1>1. list \in Seq(Members) /\ Len(list) = Cardinality(Pool)
      /\ \A m \in Pool : member[m].pool = Ordered
  BY DEF CeremonyInv, TypeOK, InSession
<1>2. /\ Pool \in SUBSET Members /\ Ordered \in Seq(Members)
      /\ \A j \in 1 .. Len(list) : Ordered[j] \in Pool
      /\ \A j, k \in 1 .. Len(list) : Ordered[j] = Ordered[k] => j = k
  BY <1>1, OrderedFacts
<1>3. Canonical(Pool)[i] = Ordered[i]
  BY DEF Ordered
<1> QED
  BY <1>1, <1>2, <1>3

\* Round 1 draws a nonce that is newer than every partial signature.
LEMMA Round1Keeps == CeremonyInv /\ round1_nonce => CeremonyInv'
<1> SUFFICES ASSUME CeremonyInv, round1_nonce PROVE CeremonyInv'
  OBVIOUS
<1> DEFINE i == Len(pubnonces) + 1
           m == Ordered[i]
           n == [by |-> m, serial |-> sessions]
<1>1. /\ step = "round1" /\ psigs = <<>> /\ i \in 1 .. Len(list) /\ Len(pubnonces) \in Nat
      /\ Len(list) \in Nat /\ Len(list) >= 2 /\ list \in Seq(Members) /\ msg \in Msgs
      /\ sessions \in Nat /\ pubnonces \in Seq(Nonces)
  BY DEF round1_nonce, CeremonyInv, TypeOK, Places, InSession
<1>2. /\ m \in Members /\ m \in Pool /\ member[m].pool = Ordered
      /\ \A j \in 1 .. Len(list) : Ordered[j] = m => j = i
  BY <1>1, TurnFacts
<1>drawn. member' = [member EXCEPT ![m].msg = msg, ![m].secnonce = n]
  BY DEF round1_nonce, Turn, nonce_gen, Ordered
<1>3. /\ pubnonces' = Append(pubnonces, n)
      /\ step' = IF Len(pubnonces') = Len(list) THEN "round2" ELSE "round1"
      /\ UNCHANGED <<list, msg, psigs, published, excluded, sessions, faults, old, partials>>
  BY DEF round1_nonce, Turn, nonce_gen, Ordered
<1>4. n \in Nonces /\ n.by = m /\ n.serial = sessions
  BY <1>1, <1>2 DEF Nonces
<1> HIDE DEF m, n
<1>5. /\ member' \in [Members -> [pool : Seq(Members) \cup {None}, msg : Msgs \cup {None},
                                  secnonce : Nonces \cup {None}]]
      /\ member'[m].msg = msg /\ member'[m].secnonce = n /\ member'[m].pool = member[m].pool
      /\ \A o \in Members \ {m} : member'[o] = member[o]
  BY <1>1, <1>2, <1>drawn, <1>4 DEF CeremonyInv, TypeOK
<1>6. /\ pubnonces' \in Seq(Nonces) /\ Len(pubnonces') = i /\ pubnonces'[i] = n
      /\ \A j \in 1 .. Len(pubnonces) : pubnonces'[j] = pubnonces[j]
  BY <1>1, <1>3, <1>4
<1>7. Ordered' = Ordered /\ Pool' = Pool
  BY <1>3 DEF Ordered, Pool
<1>8. step' \in {"round1", "round2"}
  BY <1>3
<1>9. TypeOK'
  BY <1>3, <1>5, <1>6, <1>8 DEF CeremonyInv, TypeOK
<1>10. InSession' /\ Places'
  <2>1. InSession'
    <3>1. \A o \in Pool : o \in Members /\ member[o].pool = Ordered
      BY <1>1, OrderedFacts DEF CeremonyInv, InSession
    <3>2. \A o \in Pool : member'[o].pool = Ordered
      BY <1>5, <3>1
    <3> QED
      BY <1>1, <1>3, <1>7, <3>2 DEF CeremonyInv, InSession
  <2>2. Places'
    BY <1>1, <1>3, <1>6 DEF Places
  <2> QED
    BY <2>1, <2>2
<1>11. NoncesOfSession'
  <2> SUFFICES ASSUME NEW j \in 1 .. i
               PROVE  /\ pubnonces'[j] = [by |-> Ordered[j], serial |-> sessions]
                      /\ member'[Ordered[j]].msg = msg
                      /\ member'[Ordered[j]].secnonce = pubnonces'[j]
    BY <1>3, <1>6, <1>7 DEF NoncesOfSession
  <2>1. CASE j = i
    BY <1>5, <1>6, <2>1 DEF m, n
  <2>2. CASE j < i
    <3>1. j \in 1 .. Len(pubnonces) /\ j \in 1 .. Len(list)
      BY <1>1, <2>2
    <3>2. Ordered[j] \in Members /\ Ordered[j] # m
      BY <1>1, <1>2, <2>2, <3>1, TurnFacts
    <3>3. /\ pubnonces[j] = [by |-> Ordered[j], serial |-> sessions]
          /\ member[Ordered[j]].msg = msg
          /\ member[Ordered[j]].secnonce = pubnonces[j]
      BY <1>1, <3>1 DEF CeremonyInv, NoncesOfSession
    <3> QED
      BY <1>5, <1>6, <3>1, <3>2, <3>3
  <2> QED
    BY <1>1, <2>1, <2>2
<1>12. AnswersAreSigned' /\ HonestAnswers'
  BY <1>1, <1>3 DEF AnswersAreSigned, HonestAnswers
<1>13. HeldIsUnused'
  <2>1. \A o \in Members : \/ o = m /\ member'[o].secnonce = n
                           \/ o # m /\ member'[o] = member[o]
    BY <1>5
  <2>2. \A p \in partials : p.nonce.serial < sessions /\ p.nonce.serial <= sessions
    BY <1>1 DEF CeremonyInv, HeldIsUnused
  <2>3. \A p \in partials : p.nonce.serial # sessions
    <3>1. \A p \in partials : p.nonce.serial \in Nat
      BY DEF CeremonyInv, TypeOK, PartialSigs, Nonces
    <3> QED
      BY <1>1, <2>2, <3>1
  <2>4. (\A o \in Members : Held(o) => /\ member[o].secnonce.by = o
                                       /\ member[o].secnonce.serial <= sessions)'
    BY <1>1, <1>3, <1>4, <2>1 DEF CeremonyInv, HeldIsUnused, Held
  <2>5. ASSUME NEW p \in partials, NEW o \in Members, member'[o].secnonce # None
        PROVE  p.nonce # member'[o].secnonce
    <3>1. CASE o = m
      BY <1>4, <2>1, <2>3, <3>1
    <3>2. CASE o # m
      BY <2>1, <2>5, <3>2 DEF CeremonyInv, HeldIsUnused, Held
    <3> QED
      BY <3>1, <3>2
  <2> QED
    BY <1>3, <2>2, <2>4, <2>5 DEF HeldIsUnused, Held
<1>14. NonceUsedOnce' /\ SignedByAll' /\ BlameIsRight'
  BY <1>3, SignedGrows DEF CeremonyInv, NonceUsedOnce, BlameIsRight
<1> QED
  BY <1>9, <1>10, <1>11, <1>12, <1>13, <1>14 DEF CeremonyInv

\* What an answer in round 2 has to be: made, or garbage; honest, unless its
\* member is not or the coordinator slips; and of everybody else nothing changes.
LEMMA AnswerKeeps ==
    ASSUME CeremonyInv, step = "round2",
           NEW psig \in PartialSigs \cup {Garbage}, psig # Garbage => psig \in partials',
           psigs' = Append(psigs, psig), partials \subseteq partials', partials' \subseteq PartialSigs,
           step' = IF Len(psigs') = Len(list) THEN "verify" ELSE "round2",
           UNCHANGED <<list, msg, pubnonces, published, excluded, sessions, old>>,
           faults' \in {faults, faults + 1},
           member' \in [Members -> [pool : Seq(Members) \cup {None}, msg : Msgs \cup {None},
                                    secnonce : Nonces \cup {None}]],
           \A o \in Members : /\ member'[o].pool = member[o].pool /\ member'[o].msg = member[o].msg
                              /\ o # Turn(psigs) => member'[o] = member[o],
           HeldIsUnused', NonceUsedOnce', SignedByAll',
           faults' = 0 => \/ Turn(psigs) \in Bad
                          \/ psig = Signed(Turn(psigs), pubnonces[Len(psigs) + 1], pubnonces, Ordered, msg)
    PROVE  CeremonyInv'
<1> DEFINE i == Len(psigs) + 1
           m == Turn(psigs)
<1>1. /\ i \in 1 .. Len(list) /\ Len(psigs) \in Nat /\ Len(pubnonces) = Len(list)
      /\ Len(list) \in Nat /\ list \in Seq(Members) /\ faults \in Nat
      /\ psigs \in Seq(PartialSigs \cup {Garbage})
  BY DEF CeremonyInv, TypeOK, Places
<1>2. /\ m = Ordered[i] /\ m \in Members
      /\ \A j \in 1 .. Len(list) : Ordered[j] \in Members /\ (Ordered[j] = m => j = i)
  BY <1>1, TurnFacts DEF Turn
<1>3. \A o \in Members : /\ member'[o].pool = member[o].pool /\ member'[o].msg = member[o].msg
                         /\ o # m => member'[o] = member[o]
  OBVIOUS
<1> HIDE DEF m
<1>4. /\ psigs' \in Seq(PartialSigs \cup {Garbage}) /\ Len(psigs') = i /\ psigs'[i] = psig
      /\ \A j \in 1 .. Len(psigs) : psigs'[j] = psigs[j]
      /\ \A j \in 1 .. i : j = i \/ j \in 1 .. Len(psigs)
  BY <1>1
<1>5. Ordered' = Ordered /\ Pool' = Pool
  BY DEF Ordered, Pool
<1>6. step' \in {"round2", "verify"} /\ faults' \in Nat /\ (faults' = 0 => faults = 0)
  BY <1>1
<1>7. TypeOK'
  BY <1>4, <1>6 DEF CeremonyInv, TypeOK
<1>8. InSession' /\ Places'
  <2>1. \A o \in Pool : o \in Members /\ member[o].pool = Ordered
    BY <1>1, OrderedFacts DEF CeremonyInv, InSession
  <2>2. \A o \in Pool : member'[o].pool = Ordered
    BY <1>3, <2>1
  <2>3. InSession'
    BY <1>5, <2>2 DEF CeremonyInv, InSession
  <2>4. Places'
    BY <1>1, <1>4 DEF Places
  <2> QED
    BY <2>3, <2>4
<1>9. NoncesOfSession'
  <2> SUFFICES ASSUME NEW j \in 1 .. Len(pubnonces)
               PROVE  /\ pubnonces[j] = [by |-> Ordered[j], serial |-> sessions]
                      /\ member'[Ordered[j]].msg = msg
                      /\ j > i => member'[Ordered[j]].secnonce = pubnonces[j]
    BY <1>4, <1>5 DEF NoncesOfSession
  <2>1. /\ pubnonces[j] = [by |-> Ordered[j], serial |-> sessions]
        /\ member[Ordered[j]].msg = msg
        /\ j > Len(psigs) => member[Ordered[j]].secnonce = pubnonces[j]
    BY DEF CeremonyInv, NoncesOfSession
  <2>2. Ordered[j] \in Members /\ (j > i => j > Len(psigs) /\ Ordered[j] # m)
    BY <1>1, <1>2
  <2> QED
    BY <1>3, <2>1, <2>2
<1>10. AnswersAreSigned'
  <2>1. \A j \in 1 .. i : psigs'[j] # Garbage => psigs'[j] \in partials'
    BY <1>4 DEF CeremonyInv, AnswersAreSigned
  <2> QED
    BY <1>4, <2>1 DEF AnswersAreSigned
<1>11. HonestAnswers'
  <2> SUFFICES ASSUME faults' = 0, NEW j \in 1 .. i
               PROVE  \/ Ordered[j] \in Bad
                      \/ psigs'[j] = Signed(Ordered[j], pubnonces[j], pubnonces, Ordered, msg)
    BY <1>4, <1>5 DEF HonestAnswers, HonestAnswer
  <2>1. CASE j = i
    BY <1>2, <1>4, <2>1 DEF m
  <2>2. CASE j # i
    BY <1>4, <1>6, <2>2 DEF CeremonyInv, HonestAnswers, HonestAnswer
  <2> QED
    BY <2>1, <2>2
<1>12. BlameIsRight'
  BY <1>6 DEF CeremonyInv, BlameIsRight
<1> QED
  BY <1>7, <1>8, <1>9, <1>10, <1>11, <1>12 DEF CeremonyInv

\* A partial signature of the one whose turn it is, with the nonce it holds.
LEMMA SigningAnswers ==
    ASSUME CeremonyInv, step = "round2", Held(Turn(psigs)),
           NEW agg \in Seq(Nonces), NEW text \in Msgs, NEW psig,
           psig = Signed(Turn(psigs), member[Turn(psigs)].secnonce, agg,
                         member[Turn(psigs)].pool, text),
           psigs' = Append(psigs, psig), partials' = partials \cup {psig},
           member' = [member EXCEPT ![Turn(psigs)].secnonce = None],
           step' = IF Len(psigs') = Len(list) THEN "verify" ELSE "round2",
           UNCHANGED <<list, msg, pubnonces, published, excluded, sessions, old>>,
           faults' \in {faults, faults + 1},
           \/ agg = pubnonces /\ text = msg
           \/ Turn(psigs) \in Bad
           \/ faults' = faults + 1
    PROVE  CeremonyInv'
<1> DEFINE i == Len(psigs) + 1
           m == Turn(psigs)
<1>1. i \in 1 .. Len(list) /\ Len(pubnonces) = Len(list) /\ faults \in Nat /\ i > Len(psigs)
  BY DEF CeremonyInv, TypeOK, Places
<1>2. /\ m = Ordered[i] /\ m \in Members /\ member[m].pool = Ordered /\ Ordered \in Seq(Members)
  BY <1>1, TurnFacts DEF Turn
<1>3. member[m].secnonce = pubnonces[i] /\ member[m].secnonce \in Nonces
  BY <1>1, <1>2 DEF CeremonyInv, TypeOK, NoncesOfSession, Held
<1>4. psig \in PartialSigs /\ psig.nonce = member[m].secnonce
  BY <1>2, <1>3 DEF PartialSigs, Signed
<1>5. step' # "round1"
  OBVIOUS
<1>6. Held(m) /\ member' = [member EXCEPT ![m].secnonce = None]
  OBVIOUS
<1>7. faults' = 0 => m \in Bad \/ psig = Signed(m, pubnonces[i], pubnonces, Ordered, msg)
  BY <1>1, <1>2, <1>3
<1>8. TypeOK /\ HeldIsUnused /\ NonceUsedOnce /\ SignedByAll
  BY DEF CeremonyInv
<1> HIDE DEF m
<1>9. /\ HeldIsUnused' /\ NonceUsedOnce' /\ SignedByAll' /\ partials' \subseteq PartialSigs
      /\ member' \in [Members -> [pool : Seq(Members) \cup {None}, msg : Msgs \cup {None},
                                  secnonce : Nonces \cup {None}]]
      /\ \A o \in Members : /\ member'[o].pool = member[o].pool
                            /\ member'[o].msg = member[o].msg
                            /\ o # m => member'[o] = member[o]
  BY <1>2, <1>4, <1>5, <1>6, <1>8, SigningKeeps
<1>10. psig \in partials' /\ partials \subseteq partials'
  OBVIOUS
<1> QED
  BY <1>4, <1>7, <1>9, <1>10, AnswerKeeps DEF m

\* round2_partial, whatever it is sent: it refuses, or it signs.
LEMMA SignKeeps ==
    ASSUME CeremonyInv, step = "round2",
           NEW pubs \in old \cup {pubnonces}, NEW agg \in old \cup {pubnonces},
           Sign(Turn(psigs), pubs, agg),
           UNCHANGED <<list, msg, pubnonces, published, excluded, sessions>>,
           \/ faults' = faults /\ agg = pubnonces
           \/ faults' = faults + 1
    PROVE  CeremonyInv'
<1> DEFINE m == Turn(psigs)
           i == Len(psigs) + 1
<1>1. /\ faults \in Nat /\ msg \in Msgs /\ agg \in Seq(Nonces) /\ i \in 1 .. Len(list)
      /\ Len(pubnonces) = Len(list)
  BY DEF CeremonyInv, TypeOK, Places, InSession
<1>2. CASE Refuses(m, pubs, agg)
  <2>1. Abort /\ UNCHANGED <<member, psigs, partials>>
    BY <1>2 DEF Sign
  <2>2. /\ excluded' \subseteq Members /\ published' \subseteq [pool : Seq(Members), msg : Msgs]
        /\ faults' \in Nat /\ SignedByAll' /\ BlameIsRight'
    BY <1>1, <2>1, SignedGrows DEF CeremonyInv, TypeOK, BlameIsRight
  <2> QED
    BY <2>1, <2>2, EndKeeps DEF Abort, session
<1>3. CASE ~Refuses(m, pubs, agg)
  <2>1. Ordered[i] = m /\ m \in Members /\ member[m].msg = msg
    BY <1>1, TurnFacts DEF Turn, CeremonyInv, NoncesOfSession
  <2>2. Held(m)
    BY <1>3 DEF Refuses, Held
  <2> DEFINE psig == Signed(m, member[m].secnonce, agg, member[m].pool, msg)
  <2>3. /\ psigs' = Append(psigs, psig) /\ partials' = partials \cup {psig}
        /\ member' = [member EXCEPT ![m].secnonce = None]
        /\ step' = IF Len(psigs') = Len(list) THEN "verify" ELSE "round2"
        /\ UNCHANGED old
    BY <1>3, <2>1 DEF Sign, Wiped
  <2> QED
    BY <1>1, <2>2, <2>3, SigningAnswers
<1> QED
  BY <1>2, <1>3

LEMMA Round2Keeps == CeremonyInv /\ round2_partial => CeremonyInv'
  BY SignKeeps DEF round2_partial, nonce_agg

LEMMA MixedKeeps == CeremonyInv /\ Mixed => CeremonyInv'
  BY SignKeeps DEF Mixed, nonce_agg

\* A member that is asked again has no nonce left, or had answered garbage.
LEMMA AgainKeeps == CeremonyInv /\ Again => CeremonyInv'
<1> SUFFICES ASSUME CeremonyInv, Again PROVE CeremonyInv'
  OBVIOUS
<1> DEFINE i == Len(psigs)
           m == Ordered[i]
<1>1. /\ step = "round2" /\ faults' = faults + 1 /\ faults \in Nat
      /\ UNCHANGED <<session, published, excluded, sessions>>
  BY DEF Again, CeremonyInv, TypeOK
<1>2. /\ i \in 1 .. Len(list) /\ Len(pubnonces) = Len(list) /\ msg \in Msgs
      /\ psigs \in Seq(PartialSigs \cup {Garbage}) /\ pubnonces \in Seq(Nonces)
      /\ list \in Seq(Members)
  BY DEF Again, CeremonyInv, TypeOK, Places, InSession
<1>3. CASE Refuses(m, pubnonces, pubnonces)
  <2>1. Abort /\ UNCHANGED <<member, partials>>
    BY <1>3 DEF Again, Ordered, nonce_agg
  <2>2. /\ excluded' \subseteq Members /\ published' \subseteq [pool : Seq(Members), msg : Msgs]
        /\ faults' \in Nat /\ SignedByAll' /\ BlameIsRight'
    BY <1>1, <2>1, SignedGrows DEF CeremonyInv, TypeOK, BlameIsRight
  <2> QED
    BY <1>1, <2>1, <2>2, EndKeeps DEF Abort
<1>4. CASE ~Refuses(m, pubnonces, pubnonces)
  <2>1. /\ m \in Members /\ member[m].pool = Ordered /\ Ordered \in Seq(Members)
        /\ \A j \in 1 .. Len(list) : Ordered[j] = m => j = i
        /\ \A j \in 1 .. Len(list) : Ordered[j] \in Members
    BY <1>1, <1>2, TurnFacts
  <2>2. member[m].msg = msg
    BY <1>1, <1>2 DEF CeremonyInv, NoncesOfSession
  <2> DEFINE psig == Signed(m, member[m].secnonce, pubnonces, member[m].pool, member[m].msg)
  <2>3. /\ partials' = partials \cup {psig}
        /\ member' = [member EXCEPT ![m].secnonce = None]
        /\ UNCHANGED <<step, old>>
    BY <1>4 DEF Again, Ordered, Wiped, nonce_agg
  <2> HIDE DEF m
  <2>4. Held(m) /\ member[m].secnonce \in Nonces
    BY <1>4, <2>1 DEF Refuses, Held, CeremonyInv, TypeOK
  <2>5. psig \in PartialSigs /\ psig.nonce = member[m].secnonce
    BY <1>2, <2>1, <2>2, <2>4 DEF PartialSigs, Signed
  <2> HIDE DEF psig
  <2>6. /\ HeldIsUnused' /\ NonceUsedOnce' /\ SignedByAll' /\ partials' \subseteq PartialSigs
        /\ member' \in [Members -> [pool : Seq(Members) \cup {None}, msg : Msgs \cup {None},
                                    secnonce : Nonces \cup {None}]]
        /\ \A o \in Members : /\ member'[o].pool = member[o].pool
                              /\ member'[o].msg = member[o].msg
                              /\ o # m => member'[o] = member[o]
    BY <1>1, <2>1, <2>3, <2>4, <2>5, SigningKeeps DEF CeremonyInv
  <2>7. Ordered' = Ordered /\ Pool' = Pool
    BY <1>1 DEF session, Ordered, Pool
  <2>8. TypeOK'
    BY <1>1, <2>3, <2>6 DEF CeremonyInv, TypeOK, session
  <2>9. InSession' /\ Places'
    <3>1. \A o \in Pool : o \in Members /\ member[o].pool = Ordered
      BY <1>1, <1>2, OrderedFacts DEF CeremonyInv, InSession
    <3>2. \A o \in Pool : member'[o].pool = Ordered
      BY <2>6, <3>1
    <3> QED
      BY <1>1, <2>3, <2>7, <3>2 DEF CeremonyInv, InSession, Places, session
  <2>10. NoncesOfSession'
    <3> SUFFICES ASSUME NEW j \in 1 .. Len(pubnonces)
                 PROVE  /\ pubnonces[j] = [by |-> Ordered[j], serial |-> sessions]
                        /\ member'[Ordered[j]].msg = msg
                        /\ j > i => member'[Ordered[j]].secnonce = pubnonces[j]
      BY <1>1, <2>7 DEF NoncesOfSession, session
    <3>1. /\ pubnonces[j] = [by |-> Ordered[j], serial |-> sessions]
          /\ member[Ordered[j]].msg = msg
          /\ j > i => member[Ordered[j]].secnonce = pubnonces[j]
      BY <1>1 DEF CeremonyInv, NoncesOfSession
    <3>2. Ordered[j] \in Members /\ (j > i => Ordered[j] # m)
      BY <1>2, <2>1
    <3> QED
      BY <2>6, <3>1, <3>2
  <2>11. AnswersAreSigned'
    BY <1>1, <2>3 DEF CeremonyInv, AnswersAreSigned, session
  <2>12. HonestAnswers' /\ BlameIsRight'
    BY <1>1 DEF HonestAnswers, BlameIsRight
  <2> QED
    BY <2>6, <2>8, <2>9, <2>10, <2>11, <2>12 DEF CeremonyInv
<1> QED
  BY <1>3, <1>4

\* Garbage is not signed; another message is, with the same nonce.
LEMMA MisbehaveKeeps == CeremonyInv /\ Misbehave => CeremonyInv'
<1> SUFFICES ASSUME CeremonyInv, Misbehave PROVE CeremonyInv'
  OBVIOUS
<1> DEFINE m == Turn(psigs)
<1>1. /\ step = "round2" /\ m \in Bad
      /\ step' = IF Len(psigs') = Len(list) THEN "verify" ELSE "round2"
      /\ UNCHANGED <<list, msg, pubnonces, published, excluded, sessions, faults, old>>
      /\ pubnonces \in Seq(Nonces)
  BY DEF Misbehave, CeremonyInv, TypeOK
<1>2. CASE psigs' = Append(psigs, Garbage) /\ UNCHANGED <<member, partials>>
  <2>1. /\ partials \subseteq partials' /\ partials' \subseteq PartialSigs
        /\ member' \in [Members -> [pool : Seq(Members) \cup {None}, msg : Msgs \cup {None},
                                    secnonce : Nonces \cup {None}]]
        /\ \A o \in Members : /\ member'[o].pool = member[o].pool
                              /\ member'[o].msg = member[o].msg
                              /\ o # m => member'[o] = member[o]
    BY <1>2 DEF CeremonyInv, TypeOK
  <2>2. HeldIsUnused'
    BY <1>1, <1>2 DEF CeremonyInv, HeldIsUnused, Held
  <2>3. NonceUsedOnce' /\ SignedByAll'
    BY <1>1, <1>2, SignedGrows DEF CeremonyInv, NonceUsedOnce
  <2> QED
    BY <1>1, <1>2, <2>1, <2>2, <2>3, AnswerKeeps
<1>3. ASSUME NEW other \in Msgs,
             member[m].secnonce # None,
             psigs' = Append(psigs, Signed(m, member[m].secnonce, pubnonces, member[m].pool, other)),
             partials' = partials \cup {Signed(m, member[m].secnonce, pubnonces, member[m].pool, other)},
             member' = [member EXCEPT ![m].secnonce = None]
      PROVE  CeremonyInv'
  BY <1>1, <1>3, SigningAnswers DEF Held
<1> QED
  BY <1>2, <1>3 DEF Misbehave, nonce_agg, Wiped

\* What everybody accepts is what everybody signed; the first partial signature
\* that somebody refuses is not an honest one.
LEMMA VerifyKeeps == CeremonyInv /\ verify_all_partials => CeremonyInv'
<1> SUFFICES ASSUME CeremonyInv, verify_all_partials PROVE CeremonyInv'
  OBVIOUS
<1> DEFINE n == Len(list)
<1>1. /\ step = "verify" /\ UNCHANGED <<session, member, sessions, faults, partials>>
      /\ Len(pubnonces) = n /\ Len(psigs) = n /\ n \in Nat /\ n >= 2 /\ msg \in Msgs
      /\ list \in Seq(Members) /\ n = Cardinality(Pool) /\ faults \in Nat
      /\ pubnonces \in Seq(Nonces) /\ DOMAIN psigs = 1 .. n
      /\ psigs \in Seq(PartialSigs \cup {Garbage})
  BY DEF verify_all_partials, CeremonyInv, TypeOK, Places, InSession
<1>2. /\ \A i \in 1 .. n : Ordered[i] \in Pool /\ Ordered[i] \in Members
      /\ \A m \in Pool : \E i \in 1 .. n : Ordered[i] = m
      /\ Ordered \in Seq(Members) /\ ToSet(Ordered) = Pool
  BY <1>1, OrderedFacts
<1>3. \A m \in Pool : member[m].pool = Ordered /\ member[m].msg = msg
  <2>1. \A i \in 1 .. n : member[Ordered[i]].msg = msg
    BY <1>1 DEF CeremonyInv, NoncesOfSession
  <2> QED
    BY <1>1, <1>2, <2>1 DEF CeremonyInv, InSession
<1>4. \A m \in Pool, i \in 1 .. n : i \notin Rejected(m) <=> psigs[i] # Garbage /\ HonestAnswer(i)
  BY <1>1, <1>3 DEF Rejected, partial_sig_verify, HonestAnswer, nonce_agg
<1> HIDE DEF n
<1>5. CASE \A m \in Pool : Rejected(m) = {}
  <2> DEFINE s == [pool |-> Ordered, msg |-> msg]
  <2>1. published' = published \cup {s} /\ step' = "idle" /\ UNCHANGED <<excluded, old>>
    BY <1>5 DEF verify_all_partials, Ordered
  <2>2. ASSUME NEW i \in 1 .. n
        PROVE  /\ psigs[i] \in partials /\ psigs[i].by = Ordered[i] /\ psigs[i].pool = Ordered
               /\ psigs[i].msg = msg /\ psigs[i].agg = pubnonces
    <3>1. Ordered[i] \in Pool
      BY <1>2
    <3>2. psigs[i] # Garbage /\ HonestAnswer(i)
      BY <1>4, <1>5, <3>1
    <3>3. psigs[i] = Signed(Ordered[i], pubnonces[i], pubnonces, Ordered, msg)
      BY <3>2 DEF HonestAnswer
    <3>4. /\ psigs[i].by = Ordered[i] /\ psigs[i].pool = Ordered
          /\ psigs[i].msg = msg /\ psigs[i].agg = pubnonces
      BY <3>3 DEF Signed
    <3>5. psigs[i] \in partials
      BY <1>1, <3>2 DEF CeremonyInv, AnswersAreSigned
    <3> QED
      BY <3>4, <3>5
  <2>3. pubnonces \in {p.agg : p \in partials}
    <3>1. 1 \in 1 .. n
      BY <1>1
    <3>2. psigs[1] \in partials /\ psigs[1].agg = pubnonces
      BY <2>2, <3>1
    <3> QED
      BY <3>2
  <2>4. \A m \in Pool : \E p \in partials :
            p.by = m /\ p.pool = Ordered /\ p.msg = msg /\ p.agg = pubnonces
    BY <1>2, <2>2
  <2>5. SignedByAll'
    <3>1. ToSet(s.pool) = Pool /\ s.pool = Ordered /\ s.msg = msg
      BY <1>2
    <3> HIDE DEF s
    <3> SUFFICES ASSUME NEW t \in published \cup {s}
                 PROVE  \E agg \in {p.agg : p \in partials} :
                            \A m \in ToSet(t.pool) : \E p \in partials :
                                p.by = m /\ p.pool = t.pool /\ p.msg = t.msg /\ p.agg = agg
      <4>1. partials' = partials /\ published' = published \cup {s}
        BY <1>1, <2>1
      <4> QED
        BY <4>1 DEF SignedByAll
    <3>2. CASE t \in published
      BY <3>2 DEF CeremonyInv, SignedByAll
    <3>3. CASE t = s
      BY <2>3, <2>4, <3>1, <3>3
    <3> QED
      BY <3>2, <3>3
  <2>6. s \in [pool : Seq(Members), msg : Msgs]
    BY <1>1, <1>2
  <2>7. /\ published' \subseteq [pool : Seq(Members), msg : Msgs] /\ excluded' \subseteq Members
        /\ faults' \in Nat /\ BlameIsRight'
    BY <1>1, <2>1, <2>6 DEF CeremonyInv, TypeOK, BlameIsRight
  <2> QED
    BY <1>1, <2>1, <2>5, <2>7, EndKeeps
<1>6. CASE ~ \A m \in Pool : Rejected(m) = {}
  <2>1. PICK m \in Pool :
          /\ Rejected(m) # {}
          /\ excluded' = excluded \cup
               {Ordered[CHOOSE j \in Rejected(m) : \A k \in Rejected(m) : j <= k]}
    BY <1>6 DEF verify_all_partials, Ordered
  <2>2. Abort /\ UNCHANGED published
    BY <1>6 DEF verify_all_partials
  <2> DEFINE i == CHOOSE j \in Rejected(m) : \A k \in Rejected(m) : j <= k
  <2>3. Rejected(m) \in SUBSET (1 .. n)
    BY <1>1 DEF Rejected
  <2>4. IsFiniteSet(Rejected(m)) /\ Rejected(m) \in SUBSET Nat
    <3>1. IsFiniteSet(1 .. n) /\ 1 .. n \in SUBSET Nat
      BY <1>1, FS_Interval
    <3>2. \A j \in Rejected(m) : j \in 1 .. n
      BY <2>3
    <3> QED
      BY <2>3, <3>1, <3>2, FS_Subset
  <2>5. i \in Rejected(m)
    BY <2>1, <2>4, LeastExists
  <2>6. i \in 1 .. n
    BY <2>3, <2>5
  <2> HIDE DEF i
  <2>7. excluded' = excluded \cup {Ordered[i]}
    BY <2>1 DEF i
  <2>8. faults = 0 => Ordered[i] \in Bad
    <3>1. HonestAnswer(i) => psigs[i] # Garbage
      <4>1. pubnonces[i] \in Nonces /\ Ordered[i] \in Members
        BY <1>1, <1>2, <2>6
      <4> QED
        BY <1>1, <1>2, <4>1 DEF HonestAnswer, Signed, PartialSigs
    <3>2. ~HonestAnswer(i)
      BY <1>4, <2>5, <2>6, <3>1
    <3> QED
      BY <1>1, <2>6, <3>2 DEF CeremonyInv, HonestAnswers
  <2>9. excluded' \subseteq Members /\ BlameIsRight'
    BY <1>1, <1>2, <2>6, <2>7, <2>8 DEF CeremonyInv, TypeOK, BlameIsRight
  <2>10. SignedByAll' /\ published' \subseteq [pool : Seq(Members), msg : Msgs] /\ faults' \in Nat
    BY <1>1, <2>2, SignedGrows DEF CeremonyInv, TypeOK
  <2> QED
    BY <1>1, <2>2, <2>9, <2>10, EndKeeps DEF Abort
<1> QED
  BY <1>5, <1>6

LEMMA DieKeeps == CeremonyInv /\ Die => CeremonyInv'
<1> SUFFICES ASSUME CeremonyInv, Die PROVE CeremonyInv'
  OBVIOUS
<1>1. /\ Abort /\ faults' = faults + 1 /\ faults \in Nat
      /\ UNCHANGED <<session, member, published, excluded, sessions, partials>>
  BY DEF Die, CeremonyInv, TypeOK
<1>2. /\ excluded' \subseteq Members /\ published' \subseteq [pool : Seq(Members), msg : Msgs]
      /\ faults' \in Nat /\ SignedByAll' /\ BlameIsRight'
  BY <1>1, SignedGrows DEF CeremonyInv, TypeOK, BlameIsRight
<1> QED
  BY <1>1, <1>2, EndKeeps DEF Abort

-----------------------------------------------------------------------------
(* The theorems. *)

LEMMA InvHolds == Spec => []CeremonyInv
<1>1. CeremonyInv /\ [Next]_vars => CeremonyInv'
  BY SetupKeeps, Round1Keeps, Round2Keeps, VerifyKeeps, MixedKeeps, AgainKeeps,
     MisbehaveKeeps, DieKeeps, StutterKeeps DEF Next, Ceremonial
<1> QED
  BY InitHolds, <1>1, PTL DEF Spec

\* The state keeps its shape: a member's pool is a list of members, a round's
\* answers are nonces and partial signatures (PoolMember, PoolCoordinator).
THEOREM TypeCorrect == Spec => []TypeOK
<1>1. CeremonyInv => TypeOK
  BY DEF CeremonyInv
<1> QED
  BY InvHolds, <1>1, PTL

\* A secret nonce makes one partial signature, however often a session dies, is
\* repeated or mixed up with another, and whoever misbehaves (sign wipes it).
THEOREM NonceNeverReused == Spec => []NonceUsedOnce
<1>1. CeremonyInv => NonceUsedOnce
  BY DEF CeremonyInv
<1> QED
  BY InvHolds, <1>1, PTL

\* A signature gets out only if every member of its pool signed its message with
\* one aggregate nonce (verify_all_partials before partial_sig_agg).
THEOREM PublishedIsSignedByAll == Spec => []SignedByAll
<1>1. CeremonyInv => SignedByAll
  BY DEF CeremonyInv
<1> QED
  BY InvHolds, <1>1, PTL

\* Unless the coordinator slips, nobody honest is left out of the next session:
\* the index of the first refused partial signature is that of a bad member.
THEOREM BlameCorrect == Spec => []BlameIsRight
<1>1. CeremonyInv => BlameIsRight
  BY DEF CeremonyInv
<1> QED
  BY InvHolds, <1>1, PTL
=============================================================================
