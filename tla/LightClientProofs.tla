-------------------------- MODULE LightClientProofs --------------------------
(***************************************************************************)
(* Theorems about the light client, for streams of any length, any set of  *)
(* digests and an indexer that serves whatever it likes.                   *)
(***************************************************************************)
EXTENDS LightClient, SequenceTheorems, WellFoundedInduction, TLAPS

USE BoundsAssumption, NoneAssumption

-----------------------------------------------------------------------------
(* Lemmas on the fold of a stream. *)

LEMMA FoldType ==
    ASSUME NEW S, NEW s \in Seq(S),
           \A k \in 1 .. Len(s) : /\ s[k].height \in 1 .. MaxHeight
                                  /\ s[k].block_hash \in Digests,
           NEW i \in 0 .. Len(s)
    PROVE  /\ fold(s, i) \in Hashes
           /\ Len(fold(s, i)) = i
<1>1. \A k \in 1 .. i : [height |-> s[k].height, block_hash |-> s[k].block_hash]
                          \in Folded
  BY DEF Folded
<1>2. fold(s, i) \in [1 .. i -> Folded]
  BY <1>1 DEF fold
<1>3. i \in Nat
  OBVIOUS
<1> QED
  BY <1>2, <1>3 DEF Hashes

\* The hash through an entry extends the hash through every earlier one.
LEMMA FoldGrows ==
    ASSUME NEW S, NEW s \in Seq(S),
           \A k \in 1 .. Len(s) : /\ s[k].height \in 1 .. MaxHeight
                                  /\ s[k].block_hash \in Digests,
           NEW i \in 0 .. Len(s), NEW j \in 0 .. Len(s), i <= j
    PROVE  IsPrefix(fold(s, i), fold(s, j))
<1>1. Len(fold(s, i)) = i /\ Len(fold(s, j)) = j
  BY FoldType
<1>2. \A k \in 1 .. i : fold(s, i)[k] = fold(s, j)[k]
  BY DEF fold
<1> QED
  BY <1>1, <1>2 DEF IsPrefix

LEMMA ServedType ==
    ASSUME NEW s \in Seq(Folded), NEW lie
    PROVE  Serve(s, lie) \in Seq(Entries)
<1>1. \A k \in 1 .. Len(s) : /\ s[k].height \in 1 .. MaxHeight
                             /\ s[k].block_hash \in Digests
  <2>1. \A k \in 1 .. Len(s) : s[k] \in Folded
    OBVIOUS
  <2> QED
    BY <2>1 DEF Folded
<1>2. \A i \in 1 .. Len(s) : fold(s, i) \in Hashes
  BY <1>1, FoldType
<1>3. Serve(s, lie) \in [1 .. Len(s) -> Entries]
  <2> DEFINE entry(i) == [height |-> s[i].height, block_hash |-> s[i].block_hash,
                          cumulative |-> IF i = lie THEN Garbage ELSE fold(s, i)]
  <2>1. \A i \in 1 .. Len(s) : entry(i) \in Entries
    BY <1>1, <1>2 DEF Entries
  <2>2. Serve(s, lie) = [i \in 1 .. Len(s) |-> entry(i)]
    BY DEF Serve
  <2> QED
    BY <2>1, <2>2
<1>4. Len(s) \in Nat
  OBVIOUS
<1> QED
  BY <1>3, <1>4

LEMMA StreamsType ==
    ASSUME TypeOK, NEW s \in Streams
    PROVE  s \in Seq(Entries)
<1>1. CASE honest
  BY <1>1, ServedType DEF Streams, TypeOK
<1>2. CASE ~honest
  <2>1. PICK t \in Upto(Folded, MaxEvents), lie \in 0 .. MaxEvents :
          s = Serve(t, lie)
    BY <1>2 DEF Streams
  <2>2. t \in Seq(Folded)
    BY <2>1 DEF Upto
  <2> QED
    BY <2>1, <2>2, ServedType
<1> QED
  BY <1>1, <1>2

\* The checkpoint that an accepted poll saves.
LEMMA AcceptEffect ==
    ASSUME TypeOK, FetchHashAndVerify, checkpoint' # checkpoint
    PROVE  /\ stream # <<>>
           /\ check_against_checkpoint(stream, checkpoint)
           /\ \A i \in 1 .. Len(stream) : stream[i].cumulative = fold(stream, i)
           /\ checkpoint' = [height |-> stream[Len(stream)].height,
                             cumulative |-> fold(stream, Len(stream))]
           /\ checkpoint' \in Checkpoints
<1>1. PICK expect_final \in EventHashes :
        /\ verify_stream(stream, expect_final)
        /\ check_against_checkpoint(stream, checkpoint)
        /\ Accept
  BY DEF FetchHashAndVerify
<1>2. stream # <<>>
  BY <1>1 DEF Accept
<1>3. \A i \in 1 .. Len(stream) : stream[i].cumulative = fold(stream, i)
  BY <1>1 DEF verify_stream
<1>4. /\ stream \in Seq(Entries)
      /\ Len(stream) \in 1 .. Len(stream)
      /\ Len(stream) \in 0 .. Len(stream)
  BY <1>2 DEF TypeOK
<1>5. \A k \in 1 .. Len(stream) : /\ stream[k].height \in 1 .. MaxHeight
                                  /\ stream[k].block_hash \in Digests
  <2>1. \A k \in 1 .. Len(stream) : stream[k] \in Entries
    BY <1>4
  <2> QED
    BY <2>1 DEF Entries
<1>6. checkpoint' = [height |-> stream[Len(stream)].height,
                     cumulative |-> fold(stream, Len(stream))]
  <2>1. checkpoint' = [height |-> stream[Len(stream)].height,
                       cumulative |-> stream[Len(stream)].cumulative]
    BY <1>1, <1>2 DEF Accept
  <2>2. stream[Len(stream)].cumulative = fold(stream, Len(stream))
    BY <1>3, <1>4
  <2> QED
    BY <2>1, <2>2
<1>7. fold(stream, Len(stream)) \in Hashes
  BY <1>4, <1>5, FoldType
<1> QED
  BY <1>1, <1>2, <1>3, <1>4, <1>5, <1>6, <1>7 DEF Checkpoints

-----------------------------------------------------------------------------
\* Type correctness: in particular no served hash that is not the fold of a
\* stream ever reaches the checkpoint file.
THEOREM TypeCorrect == Spec => []TypeOK
<1>1. Init => TypeOK
  <2>1. <<>> \in Seq(Folded) /\ <<>> \in Seq(Entries)
    OBVIOUS
  <2> QED
    BY <2>1 DEF Init, TypeOK, Results
<1>2. TypeOK /\ [Next]_vars => TypeOK'
  <2> SUFFICES ASSUME TypeOK, [Next]_vars
               PROVE  TypeOK'
    OBVIOUS
  <2>1. ASSUME NEW b \in Folded, NewEventBlock(b)
        PROVE  TypeOK'
    <3>1. events' \in Seq(Folded)
      BY <2>1, AppendProperties DEF NewEventBlock, TypeOK
    <3> QED
      BY <2>1, <3>1 DEF NewEventBlock, TypeOK
  <2>2. ASSUME NEW k \in 0 .. MaxEvents, Reorg(k)
        PROVE  TypeOK'
    <3>1. \A i \in 1 .. k : events[i] \in Folded
      BY <2>2 DEF Reorg, TypeOK
    <3>2. events' \in Seq(Folded)
      BY <2>2, <3>1, SubSeqProperties DEF Reorg
    <3> QED
      BY <2>2, <3>2 DEF Reorg, TypeOK
  <2>3. CASE FetchStream
    <3>1. stream' \in Seq(Entries)
      BY <2>3, StreamsType DEF FetchStream
    <3> QED
      BY <2>3, <3>1 DEF FetchStream, TypeOK
  <2>4. CASE Unreachable
    BY <2>4 DEF Unreachable, TypeOK, Results
  <2>5. CASE FetchHashAndVerify
    <3>1. /\ phase' = "idle" /\ stream' = <<>>
          /\ UNCHANGED <<honest, events, moved>>
          /\ result' \in Results
      BY <2>5 DEF FetchHashAndVerify, Accept, Results
    <3>2. checkpoint' \in Checkpoints \cup {None}
      BY <2>5, AcceptEffect DEF TypeOK
    <3>3. /\ forked' \in BOOLEAN
          /\ witness' \in {witness, checkpoint'}
      BY <2>5 DEF FetchHashAndVerify, Accept, TypeOK
    <3> QED
      BY <3>1, <3>2, <3>3 DEF TypeOK
  <2>6. CASE UNCHANGED vars
    BY <2>6 DEF vars, TypeOK
  <2> QED
    BY <2>1, <2>2, <2>3, <2>4, <2>5, <2>6 DEF Next
<1> QED
  BY <1>1, <1>2, PTL DEF Spec

\* Whatever an indexer serves, a checkpoint that does not go back in height
\* extends the history that the previous one committed to.
THEOREM CheckpointsExtend == Spec => AdvanceExtends
<1>1. TypeOK /\ [Next]_vars =>
        [checkpoint # None /\ checkpoint'.height >= checkpoint.height =>
            IsPrefix(checkpoint.cumulative, checkpoint'.cumulative)]_checkpoint
  <2> SUFFICES ASSUME TypeOK, [Next]_vars, checkpoint' # checkpoint,
                      checkpoint # None,
                      checkpoint'.height >= checkpoint.height
               PROVE  IsPrefix(checkpoint.cumulative, checkpoint'.cumulative)
    OBVIOUS
  <2>1. FetchHashAndVerify
    BY DEF Next, NewEventBlock, Reorg, FetchStream, Unreachable, vars
  <2> DEFINE n == Len(stream)
  <2>2. /\ stream # <<>>
        /\ check_against_checkpoint(stream, checkpoint)
        /\ \A i \in 1 .. n : stream[i].cumulative = fold(stream, i)
        /\ checkpoint' = [height |-> stream[n].height,
                          cumulative |-> fold(stream, n)]
    BY <2>1, AcceptEffect
  <2>3. stream \in Seq(Entries) /\ n \in Nat /\ n \in 1 .. n
    BY <2>2 DEF TypeOK
  <2>4. \A k \in 1 .. n : /\ stream[k].height \in 1 .. MaxHeight
                          /\ stream[k].block_hash \in Digests
    <3>1. \A k \in 1 .. n : stream[k] \in Entries
      BY <2>3
    <3> QED
      BY <3>1 DEF Entries
  <2>5. checkpoint.height \in Nat
    BY DEF TypeOK, Checkpoints
  <2>6. PICK i \in 1 .. n : stream[i].cumulative = checkpoint.cumulative
    <3>1. ~(stream[n].height < checkpoint.height)
      BY <2>2, <2>3, <2>4, <2>5
    <3> QED
      BY <2>2, <2>3, <3>1 DEF check_against_checkpoint
  <2>7. IsPrefix(fold(stream, i), fold(stream, n))
    <3>1. i \in 0 .. n /\ n \in 0 .. n /\ i <= n
      BY <2>3
    <3> QED
      BY <2>3, <2>4, <3>1, FoldGrows
  <2> QED
    BY <2>2, <2>6, <2>7
<1> QED
  BY <1>1, TypeCorrect, PTL DEF Spec, AdvanceExtends

-----------------------------------------------------------------------------
(* Lemmas on heights that ascend. *)

LEMMA LeastNatural ==
    ASSUME NEW S \in SUBSET Nat, S # {}
    PROVE  \E x \in S : \A y \in S : x <= y
<1>1. PICK x \in S : \A y \in S : ~ (<<y, x>> \in OpToRel(<, Nat))
  BY NatLessThanWellFounded, WFMin
<1>2. \A y \in S : x \in Nat /\ y \in Nat
  OBVIOUS
<1>3. \A y \in S : ~(y < x)
  BY <1>1, <1>2 DEF OpToRel
<1> QED
  BY <1>2, <1>3

\* What verify_stream checks of neighbours holds of any two entries: otherwise
\* there were a first entry not above an earlier one, and a last one before it.
LEMMA StepsAscend ==
    ASSUME NEW S, NEW s \in Seq(S), \A i \in 1 .. Len(s) : s[i].height \in Nat,
           \A i \in 2 .. Len(s) : s[i].height > s[i - 1].height
    PROVE  Ascending(s)
<1> SUFFICES ASSUME NEW i \in 1 .. Len(s), NEW j \in 1 .. Len(s), i < j,
                    ~(s[i].height < s[j].height)
             PROVE  FALSE
  BY DEF Ascending
<1> DEFINE T == {k \in 1 .. Len(s) : i < k /\ ~(s[i].height < s[k].height)}
<1>1. T \in SUBSET Nat /\ T # {}
  <2>1. j \in T
    OBVIOUS
  <2>2. Len(s) \in Nat
    OBVIOUS
  <2>3. \A k \in T : k \in Nat
    BY <2>2
  <2> QED
    BY <2>1, <2>3
<1>2. PICK k \in T : \A l \in T : k <= l
  BY <1>1, LeastNatural
<1>3. /\ k \in 2 .. Len(s) /\ k - 1 \in 1 .. Len(s) /\ i <= k - 1
      /\ k \in 1 .. Len(s) /\ ~(s[i].height < s[k].height)
  OBVIOUS
<1>4. k - 1 \notin T
  BY <1>2, <1>3
<1>5. s[i].height \in Nat /\ s[k].height \in Nat /\ s[k - 1].height \in Nat
  BY <1>3
<1>6. s[k].height > s[k - 1].height
  BY <1>3
<1>7. s[i].height <= s[k - 1].height
  <2>1. CASE i = k - 1
    BY <1>5, <2>1
  <2>2. CASE i # k - 1
    <3>1. i < k - 1
      BY <1>3, <2>2
    <3>2. s[i].height < s[k - 1].height
      BY <1>3, <1>4, <3>1
    <3> QED
      BY <1>5, <3>2
  <2> QED
    BY <2>1, <2>2
<1>8. \A x, y, z \in Nat : x <= y /\ z > y => x < z
  OBVIOUS
<1> HIDE DEF T
<1>9. s[i].height < s[k].height
  BY <1>5, <1>6, <1>7, <1>8
<1> QED
  BY <1>3, <1>9

\* The fold of a stream has its heights and digests.
LEMMA FoldEntries ==
    ASSUME NEW s, NEW n \in Nat
    PROVE  \A k \in 1 .. n : /\ fold(s, n)[k].height = s[k].height
                             /\ fold(s, n)[k].block_hash = s[k].block_hash
  BY DEF fold

LEMMA FoldOfChain ==
    ASSUME NEW s \in Seq(Folded), NEW n \in 0 .. Len(s)
    PROVE  /\ fold(s, n) \in Hashes /\ Len(fold(s, n)) = n
           /\ \A k \in 1 .. n : fold(s, n)[k] = s[k]
<1>1. \A k \in 1 .. Len(s) : s[k] \in Folded
  OBVIOUS
<1>2. \A k \in 1 .. Len(s) : /\ s[k].height \in 1 .. MaxHeight /\ s[k].block_hash \in Digests
                             /\ s[k] = [height |-> s[k].height, block_hash |-> s[k].block_hash]
  BY <1>1 DEF Folded
<1>3. fold(s, n) \in Hashes /\ Len(fold(s, n)) = n
  BY <1>2, FoldType
<1>4. \A k \in 1 .. n : fold(s, n)[k] = s[k]
  BY <1>2 DEF fold
<1> QED
  BY <1>3, <1>4

\* What an honest indexer serves of its chain.
LEMMA ServeOfChain ==
    ASSUME NEW s \in Seq(Folded)
    PROVE  /\ Len(Serve(s, 0)) = Len(s)
           /\ \A i \in 1 .. Len(s) : /\ Serve(s, 0)[i].height = s[i].height
                                     /\ Serve(s, 0)[i].cumulative = fold(s, i)
           /\ \A i \in 0 .. Len(s) : fold(Serve(s, 0), i) = fold(s, i)
<1> DEFINE t == Serve(s, 0)
<1>1. DOMAIN t = 1 .. Len(s) /\ Len(s) \in Nat
  BY DEF Serve
<1>2. t \in Seq(Entries)
  BY ServedType
<1>3. \A i \in 1 .. Len(s) : /\ t[i].height = s[i].height
                             /\ t[i].block_hash = s[i].block_hash
                             /\ t[i].cumulative = fold(s, i)
  BY DEF Serve
<1> HIDE DEF t
<1>4. Len(t) = Len(s)
  BY <1>1, <1>2
<1>5. ASSUME NEW i \in 0 .. Len(s)
      PROVE  fold(t, i) = fold(s, i)
  <2>1. \A k \in 1 .. i : k \in 1 .. Len(s)
    BY <1>1
  <2>2. \A k \in 1 .. i : /\ t[k].height = s[k].height
                          /\ t[k].block_hash = s[k].block_hash
    BY <1>3, <2>1
  <2> QED
    BY <2>2 DEF fold
<1> QED
  BY <1>3, <1>4, <1>5 DEF t

-----------------------------------------------------------------------------
\* Whatever an indexer serves, the checkpoint commits to a history: the fold of
\* blocks with ascending heights, the last one at the checkpoint's height
\* (verify_stream and the overwrite of the checkpoint at the end of follow).
THEOREM CheckpointsCommit == Spec => []CheckpointIsCommitment
<1>1. Init => CheckpointIsCommitment
  BY DEF Init, CheckpointIsCommitment
<1>2. TypeOK /\ CheckpointIsCommitment /\ [Next]_vars => CheckpointIsCommitment'
  <2> SUFFICES ASSUME TypeOK, CheckpointIsCommitment, [Next]_vars, checkpoint' # checkpoint
               PROVE  CheckpointIsCommitment'
    BY DEF CheckpointIsCommitment
  <2>1. FetchHashAndVerify
    BY DEF Next, NewEventBlock, Reorg, FetchStream, Unreachable, vars
  <2> DEFINE n == Len(stream)
             c == fold(stream, n)
  <2>2. /\ stream # <<>> /\ checkpoint' = [height |-> stream[n].height, cumulative |-> c]
    BY <2>1, AcceptEffect
  <2>3. stream \in Seq(Entries) /\ n \in Nat /\ n \in 1 .. n /\ n \in 0 .. n
    BY <2>2 DEF TypeOK
  <2>4. \A k \in 1 .. n : /\ stream[k].height \in 1 .. MaxHeight
                          /\ stream[k].block_hash \in Digests
    <3>1. \A k \in 1 .. n : stream[k] \in Entries
      BY <2>3
    <3> QED
      BY <3>1 DEF Entries
  <2>5. \A i \in 2 .. n : stream[i].height > stream[i - 1].height
    <3>1. PICK expect_final \in EventHashes : verify_stream(stream, expect_final)
      BY <2>1 DEF FetchHashAndVerify
    <3> QED
      BY <3>1 DEF verify_stream
  <2>6. Ascending(stream)
    BY <2>3, <2>4, <2>5, StepsAscend
  <2>7. c \in Hashes /\ Len(c) = n
    BY <2>3, <2>4, FoldType
  <2>8. \A k \in 1 .. n : c[k].height = stream[k].height
    BY <2>3, FoldEntries
  <2>9. Ascending(c) /\ c # <<>> /\ c[Len(c)].height = stream[n].height
    <3> HIDE DEF c
    <3> QED
      BY <2>3, <2>6, <2>7, <2>8 DEF Ascending
  <2> QED
    BY <2>2, <2>9 DEF CheckpointIsCommitment
<1> QED
  BY <1>1, <1>2, TypeCorrect, PTL DEF Spec

\* The chain of an honest indexer ascends; what it served is that chain until it
\* moves; the checkpoint's history begins that chain unless it has left it; and a
\* complaint of the last poll still has its reason.
HonestInv ==
    honest =>
        /\ Ascending(events)
        /\ phase = "stream" /\ ~moved => stream = Serve(events, 0)
        /\ ~forked => OnChain(checkpoint, events)
        /\ phase = "idle" => /\ result = "inconsistent" => moved
                             /\ result = "rewritten" => forked

\* A prefix of a chain that goes on stays one.
LEMMA PrefixGrows ==
    ASSUME NEW c \in Hashes, NEW s \in Seq(Folded), NEW b \in Folded, IsPrefix(c, s)
    PROVE  IsPrefix(c, Append(s, b))
<1>1. Len(Append(s, b)) = Len(s) + 1 /\ \A i \in 1 .. Len(s) : Append(s, b)[i] = s[i]
  OBVIOUS
<1>2. Len(c) \in Nat /\ Len(s) \in Nat
  BY DEF Hashes
<1> QED
  BY <1>1, <1>2 DEF IsPrefix

\* An honest poll without a move in between finds the stream consistent.
LEMMA UnmovedIsConsistent ==
    ASSUME TypeOK, honest, Ascending(events), stream = Serve(events, 0),
           NEW expect_final \in EventHashes
    PROVE  verify_stream(stream, expect_final)
<1>1. events \in Seq(Folded) /\ \A i \in 1 .. Len(events) : events[i].height \in Nat
  <2>1. events \in Seq(Folded) /\ \A i \in 1 .. Len(events) : events[i] \in Folded
    BY DEF TypeOK
  <2> QED
    BY <2>1 DEF Folded
<1>2. /\ Len(stream) = Len(events) /\ Len(events) \in Nat
      /\ \A i \in 1 .. Len(events) : /\ stream[i].height = events[i].height
                                     /\ stream[i].cumulative = fold(events, i)
      /\ \A i \in 0 .. Len(events) : fold(stream, i) = fold(events, i)
  BY <1>1, ServeOfChain
<1>3. expect_final = fold(events, Len(events))
  BY DEF EventHashes
<1>4. \A i \in 2 .. Len(stream) : stream[i].height > stream[i - 1].height
  <2> TAKE i \in 2 .. Len(stream)
  <2>1. i \in 1 .. Len(events) /\ i - 1 \in 1 .. Len(events) /\ i - 1 < i
    BY <1>2
  <2>2. events[i - 1].height < events[i].height
    BY <2>1 DEF Ascending
  <2> QED
    BY <1>1, <1>2, <2>1, <2>2
<1>5. \A i \in 1 .. Len(stream) : stream[i].cumulative = fold(stream, i)
  BY <1>2
<1>6. expect_final = fold(stream, Len(stream))
  BY <1>2, <1>3
<1> QED
  BY <1>4, <1>5, <1>6 DEF verify_stream

\* A consistent stream of an honest indexer is its chain at the second request,
\* which the checkpoint begins unless it has been forked off.
LEMMA UnforkedIsAccepted ==
    ASSUME TypeOK, CheckpointIsCommitment, honest, OnChain(checkpoint, events),
           NEW expect_final \in EventHashes, verify_stream(stream, expect_final)
    PROVE  check_against_checkpoint(stream, checkpoint)
<1> SUFFICES ASSUME checkpoint # None
             PROVE  \E i \in 1 .. Len(stream) : /\ stream[i].height = checkpoint.height
                                                /\ stream[i].cumulative = checkpoint.cumulative
  BY DEF check_against_checkpoint
<1> DEFINE n == Len(stream)
           c == checkpoint.cumulative
           i == Len(c)
<1>1. events \in Seq(Folded) /\ stream \in Seq(Entries) /\ n \in Nat /\ Len(events) \in Nat
  BY DEF TypeOK
<1>2. c \in Hashes /\ checkpoint \in Checkpoints
  BY DEF TypeOK, Checkpoints
<1>3. c # <<>> /\ c[i].height = checkpoint.height /\ IsPrefix(c, events)
  BY DEF CheckpointIsCommitment, OnChain
<1>4. i \in Nat /\ i >= 1 /\ i <= Len(events) /\ \A k \in 1 .. i : c[k] = events[k]
  <2>1. i \in Nat /\ i >= 1
    BY <1>2, <1>3 DEF Hashes
  <2> QED
    BY <1>3, <2>1 DEF IsPrefix
<1>5. \A k \in 1 .. n : /\ stream[k].height \in 1 .. MaxHeight
                        /\ stream[k].block_hash \in Digests
  <2>1. \A k \in 1 .. n : stream[k] \in Entries
    BY <1>1
  <2> QED
    BY <2>1 DEF Entries
<1>6. fold(stream, n) = fold(events, Len(events))
  <2>1. fold(events, Len(events)) \in Hashes
    BY <1>1, FoldOfChain
  <2>2. expect_final = fold(events, Len(events))
    BY DEF EventHashes
  <2> QED
    BY <2>1, <2>2 DEF verify_stream
<1>7. n = Len(events)
  BY <1>1, <1>5, <1>6, FoldType, FoldOfChain
<1>8. \A k \in 1 .. n : fold(stream, n)[k] = events[k]
  BY <1>1, <1>6, <1>7, FoldOfChain
<1>9. i \in 1 .. n /\ i \in 0 .. n
  BY <1>1, <1>4, <1>7
<1>10. \A k \in 1 .. i : fold(stream, i)[k] = fold(stream, n)[k]
  BY <1>1, <1>9 DEF fold
<1>11. fold(stream, i) \in Hashes /\ Len(fold(stream, i)) = i
  BY <1>1, <1>5, <1>9, FoldType
<1>12. fold(stream, i) = c
  <2> DEFINE f == fold(stream, i)
  <2>1. \A k \in 1 .. i : f[k] = c[k]
    BY <1>1, <1>4, <1>8, <1>9, <1>10
  <2>2. f \in Seq(Folded) /\ c \in Seq(Folded) /\ Len(f) = i /\ Len(c) = i
    BY <1>2, <1>11 DEF Hashes
  <2> HIDE DEF f, c
  <2> QED
    BY <2>1, <2>2, SeqEqual DEF f
<1>13. stream[i].height = checkpoint.height
  <2>1. fold(stream, n)[i].height = stream[i].height
    BY <1>1, <1>9, FoldEntries
  <2> QED
    BY <1>3, <1>4, <1>8, <1>9, <2>1
<1>14. stream[i].cumulative = c
  BY <1>9, <1>12 DEF verify_stream
<1> QED
  BY <1>9, <1>13, <1>14

LEMMA HonestInvHolds == Spec => []HonestInv
<1>1. Init => HonestInv
  BY DEF Init, HonestInv, OnChain, Ascending
<1>2. TypeOK /\ CheckpointIsCommitment /\ HonestInv /\ [Next]_vars => HonestInv'
  <2> SUFFICES ASSUME TypeOK, CheckpointIsCommitment, HonestInv, honest', [Next]_vars
               PROVE  HonestInv'
    BY DEF HonestInv
  <2>0. honest
    BY DEF Next, NewEventBlock, Reorg, FetchStream, Unreachable, FetchHashAndVerify, vars
  <2>1. ASSUME NEW b \in Folded, NewEventBlock(b)
        PROVE  HonestInv'
    <3>1. /\ events \in Seq(Folded) /\ events' = Append(events, b) /\ moved'
          /\ \A i \in 1 .. Len(events) : events[i].height < b.height
          /\ UNCHANGED <<honest, phase, stream, checkpoint, result, forked>>
      BY <2>1 DEF NewEventBlock, TypeOK
    <3>2. Len(events') = Len(events) + 1 /\ Len(events) \in Nat
          /\ events'[Len(events) + 1] = b
          /\ \A i \in 1 .. Len(events) : events'[i] = events[i]
      BY <3>1
    <3>3. Ascending(events')
      <4> SUFFICES ASSUME NEW i \in 1 .. Len(events'), NEW j \in 1 .. Len(events'), i < j
                   PROVE  events'[i].height < events'[j].height
        BY DEF Ascending
      <4>1. i \in 1 .. Len(events) /\ (j \in 1 .. Len(events) \/ j = Len(events) + 1)
        BY <3>2
      <4> QED
        BY <2>0, <3>1, <3>2, <4>1 DEF HonestInv, Ascending
    <3>4. ~forked => OnChain(checkpoint, events')
      <4>1. checkpoint # None => checkpoint.cumulative \in Hashes
        BY DEF TypeOK, Checkpoints
      <4> QED
        BY <2>0, <3>1, <4>1, PrefixGrows DEF HonestInv, OnChain
    <3> QED
      BY <2>0, <3>1, <3>3, <3>4 DEF HonestInv, OnChain
  <2>2. ASSUME NEW k \in 0 .. MaxEvents, Reorg(k)
        PROVE  HonestInv'
    <3>1. /\ events \in Seq(Folded) /\ k < Len(events) /\ events' = SubSeq(events, 1, k) /\ moved'
          /\ forked' = (forked \/ ~OnChain(checkpoint, events'))
          /\ UNCHANGED <<honest, phase, stream, checkpoint, result>>
      BY <2>2 DEF Reorg, TypeOK
    <3>2. Len(events') = k /\ \A i \in 1 .. k : events'[i] = events[i] /\ i \in 1 .. Len(events)
      BY <3>1
    <3>3. Ascending(events')
      BY <2>0, <3>2 DEF HonestInv, Ascending
    <3>4. ~forked' => OnChain(checkpoint', events')
      BY <3>1 DEF OnChain
    <3> QED
      BY <2>0, <3>1, <3>3, <3>4 DEF HonestInv
  <2>3. CASE FetchStream
    <3>1. /\ stream' = Serve(events, 0) /\ phase' = "stream" /\ moved' = FALSE
          /\ UNCHANGED <<honest, events, checkpoint, forked>>
      BY <2>0, <2>3 DEF FetchStream, Streams
    <3>2. Serve(events, 0)' = Serve(events, 0)
      BY <3>1 DEF Serve, fold
    <3> QED
      BY <2>0, <3>1 DEF HonestInv, OnChain
  <2>4. CASE Unreachable
    BY <2>0, <2>4 DEF Unreachable, HonestInv, OnChain
  <2>5. CASE FetchHashAndVerify
    <3>1. /\ phase = "stream" /\ phase' = "idle" /\ UNCHANGED <<honest, events, moved>>
      BY <2>5 DEF FetchHashAndVerify
    <3>2. result' = "inconsistent" => moved
      <4> SUFFICES ASSUME result' = "inconsistent", ~moved PROVE FALSE
        OBVIOUS
      <4>1. stream = Serve(events, 0) /\ Ascending(events)
        BY <2>0, <3>1 DEF HonestInv
      <4>2. PICK expect_final \in EventHashes : ~verify_stream(stream, expect_final)
        BY <2>5 DEF FetchHashAndVerify, Accept
      <4> QED
        BY <2>0, <4>1, <4>2, UnmovedIsConsistent
    <3>3. result' = "rewritten" => forked /\ forked'
      <4> SUFFICES ASSUME result' = "rewritten" PROVE forked /\ forked'
        OBVIOUS
      <4>1. PICK expect_final \in EventHashes :
              /\ verify_stream(stream, expect_final)
              /\ ~check_against_checkpoint(stream, checkpoint)
              /\ UNCHANGED forked
        BY <2>5 DEF FetchHashAndVerify, Accept
      <4> QED
        BY <2>0, <4>1, UnforkedIsAccepted DEF HonestInv, TypeOK
    <3>4. ~forked' => OnChain(checkpoint', events')
      <4>1. CASE UNCHANGED <<checkpoint, forked>>
        BY <2>0, <3>1, <4>1 DEF HonestInv, OnChain
      <4>2. CASE ~UNCHANGED <<checkpoint, forked>>
        BY <2>0, <2>5, <3>1, <4>2 DEF FetchHashAndVerify, Accept, OnChain
      <4> QED
        BY <4>1, <4>2
    <3> QED
      BY <2>0, <3>1, <3>2, <3>3, <3>4 DEF HonestInv
  <2>6. CASE UNCHANGED vars
    BY <2>0, <2>6 DEF vars, HonestInv, OnChain, Serve, fold
  <2> QED
    BY <2>1, <2>2, <2>3, <2>4, <2>5, <2>6 DEF Next
<1> QED
  BY <1>1, <1>2, TypeCorrect, CheckpointsCommit, PTL DEF Spec

\* An honest indexer is reported inconsistent only when its chain moved between
\* the two requests of a poll, and reported to rewrite history only when the
\* checkpoint's block left its chain (follow's two refusals).
THEOREM HonestNotAccused == Spec => HonestIsAccepted
<1>1. TypeOK /\ CheckpointIsCommitment /\ HonestInv /\ HonestInv' /\ [Next]_vars =>
        [honest => /\ result' = "inconsistent" => moved
                   /\ result' = "rewritten" => forked]_<<result, phase>>
  <2> SUFFICES ASSUME TypeOK, CheckpointIsCommitment, HonestInv, HonestInv', Next, honest,
                      ~UNCHANGED <<result, phase>>
               PROVE  /\ result' = "inconsistent" => moved
                      /\ result' = "rewritten" => forked
    BY DEF vars
  <2>1. CASE FetchStream
    BY <2>1 DEF FetchStream, HonestInv
  <2>2. CASE Unreachable
    BY <2>2 DEF Unreachable
  <2>3. CASE FetchHashAndVerify
    <3>1. result' = "rewritten" => UNCHANGED forked
      BY <2>3 DEF FetchHashAndVerify, Accept
    <3> QED
      BY <2>3, <3>1 DEF FetchHashAndVerify, HonestInv
  <2> QED
    BY <2>1, <2>2, <2>3 DEF Next, NewEventBlock, Reorg
<1> QED
  BY <1>1, TypeCorrect, CheckpointsCommit, HonestInvHolds, PTL DEF Spec, HonestIsAccepted
=============================================================================
