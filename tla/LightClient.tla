----------------------------- MODULE LightClient -----------------------------
(***************************************************************************)
(* The light client that follows the order book by its event stream        *)
(* (btx_light_client.py), and an indexer that it polls.                    *)
(*                                                                         *)
(* The indexer publishes, for every block with order events, the digest of *)
(* those events and the cumulative hash through it.  A poll of the client  *)
(* makes two requests, for the stream and for the final cumulative hash,   *)
(* re-folds the stream, compares it with the checkpoint of the last        *)
(* accepted poll and overwrites the checkpoint.  Between the two requests  *)
(* and between polls the chain of the indexer moves on or is reorganised.  *)
(* An indexer that is not honest serves whatever it likes.                 *)
(*                                                                         *)
(* The hash is free of collisions: the cumulative hash through a block is  *)
(* the sequence of what was folded into it.                                *)
(***************************************************************************)
EXTENDS Naturals, Sequences, FiniteSets

CONSTANTS Digests,    \* digests of the events of a block
          MaxHeight,  \* bound on the height of an event-bearing block
          MaxEvents,  \* bound on the length of a stream
          Garbage,    \* a served hash that is the fold of no stream
          None        \* no checkpoint yet, or no hash served

ASSUME BoundsAssumption ==
    /\ MaxHeight \in Nat
    /\ MaxEvents \in Nat

VARIABLES honest,      \* whether the indexer serves what its chain determines
          events,      \* the event-bearing blocks of the indexer's chain
          phase,       \* what the client has of the current poll
          stream,      \* the answer to the first request
          checkpoint,  \* the checkpoint file
          result,      \* what the last poll reported
          moved,       \* history: the chain moved since the first request
          forked,      \* history: the checkpoint's block was not, at some time
                       \* since it was saved, on an honest indexer's chain
          witness      \* history: any one of the checkpoints ever saved

vars == <<honest, events, phase, stream, checkpoint, result, moved, forked,
          witness>>

Folded == [height : 1 .. MaxHeight, block_hash : Digests]
Hashes == Seq(Folded)
Entries == [height : 1 .. MaxHeight, block_hash : Digests,
            cumulative : Hashes \cup {Garbage}]
Checkpoints == [height : 1 .. MaxHeight, cumulative : Hashes]

\* The absence of a hash, or of a checkpoint, is told from one.
ASSUME NoneAssumption == None \notin Hashes /\ None \notin Checkpoints

\* Sequences over S of a bounded length, shortest first.
Upto(S, n) == UNION {[1 .. k -> S] : k \in 0 .. n}

Ascending(s) == \A i, j \in 1 .. Len(s) : i < j => s[i].height < s[j].height
Chains == {s \in Upto(Folded, MaxEvents) : Ascending(s)}

IsPrefix(s, t) == Len(s) <= Len(t) /\ \A i \in 1 .. Len(s) : s[i] = t[i]

\* The history that checkpoint c commits to begins the chain of event blocks s.
OnChain(c, s) == c # None => IsPrefix(c.cumulative, s)

-----------------------------------------------------------------------------
\* fold_block, repeated: the hash through the i-th entry.
fold(s, i) ==
    [k \in 1 .. i |-> [height |-> s[k].height, block_hash |-> s[k].block_hash]]

\* event_stream of the indexer for a list of blocks, with one cumulative hash
\* spoilt (none for lie = 0).
Serve(s, lie) ==
    [i \in 1 .. Len(s) |->
        [height |-> s[i].height, block_hash |-> s[i].block_hash,
         cumulative |-> IF i = lie THEN Garbage ELSE fold(s, i)]]

Streams ==
    IF honest THEN {Serve(events, 0)}
    ELSE {Serve(s, lie) : s \in Upto(Folded, MaxEvents), lie \in 0 .. MaxEvents}

\* The indexer's event-hash, which a dishonest one fits to the stream or not.
EventHashes ==
    IF honest THEN {fold(events, Len(events))}
    ELSE {fold(stream, Len(stream)), Garbage, None}

\* Mutant: the order of the heights is not checked.
VerifyAnyOrder(s, expect_final) ==
    /\ \A i \in 1 .. Len(s) : s[i].cumulative = fold(s, i)
    /\ expect_final \in {None, fold(s, Len(s))}

\* verify_stream from genesis, TRUE where the code raises no StreamError.
verify_stream(s, expect_final) ==
    /\ \A i \in 2 .. Len(s) : s[i].height > s[i - 1].height
    /\ \A i \in 1 .. Len(s) : s[i].cumulative = fold(s, i)
    /\ expect_final \in {None, fold(s, Len(s))}

\* Mutants: a checkpoint height that is absent is accepted, and one that is
\* present must not be the tip.
CheckAbsentIsFine(s, c) ==
    c # None => \A i \in 1 .. Len(s) :
                    s[i].height = c.height => s[i].cumulative = c.cumulative
CheckBeforeTip(s, c) ==
    c # None =>
        \/ \A i \in 1 .. Len(s) : s[i].height < c.height
        \/ \E i \in 1 .. Len(s) - 1 : /\ s[i].height = c.height
                                      /\ s[i].cumulative = c.cumulative

\* check_against_checkpoint: no checkpoint, or a stream that ends below it, or
\* the same cumulative hash at its height.
check_against_checkpoint(s, c) ==
    c # None =>
        \/ \A i \in 1 .. Len(s) : s[i].height < c.height
        \/ \E i \in 1 .. Len(s) : /\ s[i].height = c.height
                                  /\ s[i].cumulative = c.cumulative

Init ==
    /\ honest \in BOOLEAN
    /\ events = <<>>
    /\ phase = "idle"
    /\ stream = <<>>
    /\ checkpoint = None
    /\ result = "none"
    /\ moved = FALSE
    /\ forked = FALSE
    /\ witness = None

-----------------------------------------------------------------------------
\* A block with order events joins the indexer's chain.
NewEventBlock(b) ==
    /\ honest
    /\ Len(events) < MaxEvents
    /\ \A i \in 1 .. Len(events) : events[i].height < b.height
    /\ events' = Append(events, b)
    /\ moved' = TRUE
    /\ UNCHANGED <<honest, phase, stream, checkpoint, result, forked, witness>>

\* A reorganisation drops the event blocks after the first k.
Reorg(k) ==
    /\ honest
    /\ k < Len(events)
    /\ events' = SubSeq(events, 1, k)
    /\ moved' = TRUE
    /\ forked' = (forked \/ ~OnChain(checkpoint, events'))
    /\ UNCHANGED <<honest, phase, stream, checkpoint, result, witness>>

\* follow's first request.
FetchStream ==
    /\ phase = "idle"
    /\ \E s \in Streams : stream' = s
    /\ phase' = "stream"
    /\ moved' = FALSE
    /\ UNCHANGED <<honest, events, checkpoint, result, forked, witness>>

\* Either request fails: follow reports it and changes nothing.
Unreachable ==
    /\ result' = "unreachable"
    /\ phase' = "idle"
    /\ stream' = <<>>
    /\ UNCHANGED <<honest, events, checkpoint, moved, forked, witness>>

\* The end of follow when everything holds: the tip becomes the checkpoint, and
\* an empty stream leaves the old one.
Accept ==
    /\ result' = "ok"
    /\ IF stream = <<>>
       THEN UNCHANGED <<checkpoint, forked, witness>>
       ELSE LET tip == stream[Len(stream)]
                c == [height |-> tip.height, cumulative |-> tip.cumulative]
            IN /\ checkpoint' = c
               /\ forked' = (honest /\ ~OnChain(c, events))
               /\ witness' \in {witness, c}

\* follow's second request, and the rest of the poll.
FetchHashAndVerify ==
    /\ phase = "stream"
    /\ \E expect_final \in EventHashes :
         \/ /\ ~verify_stream(stream, expect_final)
            /\ result' = "inconsistent"
            /\ UNCHANGED <<checkpoint, forked, witness>>
         \/ /\ verify_stream(stream, expect_final)
            /\ ~check_against_checkpoint(stream, checkpoint)
            /\ result' = "rewritten"
            /\ UNCHANGED <<checkpoint, forked, witness>>
         \/ /\ verify_stream(stream, expect_final)
            /\ check_against_checkpoint(stream, checkpoint)
            /\ Accept
    /\ phase' = "idle"
    /\ stream' = <<>>
    /\ UNCHANGED <<honest, events, moved>>

Next ==
    \/ \E b \in Folded : NewEventBlock(b)
    \/ \E k \in 0 .. MaxEvents : Reorg(k)
    \/ FetchStream
    \/ Unreachable
    \/ FetchHashAndVerify

Spec == Init /\ [][Next]_vars

-----------------------------------------------------------------------------
Results == {"none", "ok", "unreachable", "inconsistent", "rewritten"}

TypeOK ==
    /\ honest \in BOOLEAN
    /\ events \in Seq(Folded)
    /\ phase \in {"idle", "stream"}
    /\ stream \in Seq(Entries)
    /\ checkpoint \in Checkpoints \cup {None}
    /\ result \in Results
    /\ moved \in BOOLEAN
    /\ forked \in BOOLEAN
    /\ witness \in Checkpoints \cup {None}

\* Whatever an indexer serves, the checkpoint commits to a history: its
\* cumulative hash is the fold of blocks with ascending heights, the last one
\* at the checkpoint's height.
CheckpointIsCommitment ==
    checkpoint # None =>
        LET c == checkpoint.cumulative IN
        /\ c # <<>>
        /\ Ascending(c)
        /\ c[Len(c)].height = checkpoint.height

\* Whatever an indexer serves, a checkpoint that does not go back in height
\* extends the history that the previous one committed to.
AdvanceExtends ==
    [][checkpoint # None /\ checkpoint'.height >= checkpoint.height =>
           IsPrefix(checkpoint.cumulative, checkpoint'.cumulative)]_checkpoint

\* An honest indexer is found inconsistent only when its chain moved between
\* the two requests, and found to rewrite history only when the block of the
\* checkpoint left its chain.
HonestIsAccepted ==
    [][honest => /\ result' = "inconsistent" => moved
                 /\ result' = "rewritten" => forked]_<<result, phase>>

\* Once a history was accepted, no later checkpoint at or above its height
\* contradicts it: the client notices a rewrite between polls and refuses to
\* advance (item 3 of the module's documentation).
AcceptedHistoryStands ==
    witness # None /\ checkpoint.height >= witness.height =>
        IsPrefix(witness.cumulative, checkpoint.cumulative)

=============================================================================
