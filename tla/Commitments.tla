----------------------------- MODULE Commitments -----------------------------
(***************************************************************************)
(* The commitments to the order book (btx_orderbook.py): the canonical     *)
(* order of the open orders, their flat hash, the Merkle root with its     *)
(* membership proofs, the stream of announce, fill and cancel events with  *)
(* its cumulative hash, and the price-time book.                           *)
(*                                                                         *)
(* The hash is free of collisions: a hash is the very term that was hashed *)
(* under its domain tag, and the fold of the events is their sequence.     *)
(* Rune ids and outpoints are numbers, which compare as their canonical    *)
(* strings do.                                                             *)
(***************************************************************************)
EXTENDS Naturals, Sequences, FiniteSets, SequencesExt

\* What _canonical_line commits to; side is pinned to 0 there, so it is absent.
Line(o) == <<o.rune, o.price, o.amount, o.announce_height, o.op>>

\* The comparison of tuples of numbers.
Precedes(k, l) ==
    \E i \in DOMAIN k : k[i] < l[i] /\ \A j \in 1 .. i - 1 : k[j] = l[j]

Key(o) == <<o.rune, o.price, o.announce_height, o.op>>

\* The order at place i is sorted before the one at place j; sorted() is stable.
Sooner(orders, i, j) ==
    \/ Precedes(Key(orders[i]), Key(orders[j]))
    \/ Key(orders[i]) = Key(orders[j]) /\ i < j

\* An order's place is behind all that come before it.  (SubSeq leaves the list as
\* it is; it makes TLC compute the list once.)
sorted_norm(orders) ==
    LET rank == [k \in DOMAIN orders |->
                   1 + Cardinality({j \in DOMAIN orders : Sooner(orders, j, k)})]
        list == [n \in DOMAIN orders |-> orders[CHOOSE k \in DOMAIN orders : rank[k] = n]]
    IN SubSeq(list, 1, Len(orders))

book_hash(orders) ==
    LET s == sorted_norm(orders) IN [i \in DOMAIN s |-> Line(s[i])]

-----------------------------------------------------------------------------
\* The Merkle tree.

EmptyRoot == <<"empty">>
leaf_hash(o) == <<"leaf", Line(o)>>
node_hash(left, right) == <<"node", left, right>>

\* Mutant: a lone node is paired with itself.
NextLevel_M(level) ==
    [i \in 1 .. (Len(level) + 1) \div 2 |->
        node_hash(level[2 * i - 1],
                  level[IF 2 * i <= Len(level) THEN 2 * i ELSE 2 * i - 1])]

\* Pairs are hashed; a lone last node is carried up as it is.
NextLevel(level) ==
    [i \in 1 .. (Len(level) + 1) \div 2 |->
        IF 2 * i <= Len(level)
        THEN node_hash(level[2 * i - 1], level[2 * i])
        ELSE level[2 * i - 1]]

\* The levels above the leaves, up to the first of length one.
Level(leaves) ==
    LET level[k \in 0 .. Len(leaves)] ==
            IF k = 0 THEN leaves ELSE NextLevel(level[k - 1])
    IN level

Height(leaves) ==
    CHOOSE k \in 0 .. Len(leaves) :
        /\ Len(Level(leaves)[k]) = 1
        /\ \A j \in 0 .. k - 1 : Len(Level(leaves)[j]) > 1

merkle_levels(leaves) ==
    IF leaves = <<>> THEN <<>>
    ELSE [k \in 1 .. Height(leaves) + 1 |-> Level(leaves)[k - 1]]

Leaves(norm) == [i \in DOMAIN norm |-> leaf_hash(norm[i])]

book_root(orders) ==
    IF orders = <<>> THEN EmptyRoot
    ELSE Last(merkle_levels(Leaves(sorted_norm(orders))))[1]

\* The siblings of the i-th leaf (from 0), none at a level where it is alone.
SiblingAt(level, i) ==
    IF i % 2 = 1 THEN <<[hash |-> level[i], dir |-> "L"]>>
    ELSE IF i + 1 < Len(level) THEN <<[hash |-> level[i + 2], dir |-> "R"]>>
    ELSE <<>>

\* The place of the leaf's ancestor on a level, and the path up to there.
ProofPath(levels, idx) ==
    LET at[l \in 1 .. Len(levels)] ==
            IF l = 1 THEN idx ELSE at[l - 1] \div 2
        path[l \in 1 .. Len(levels)] ==
            IF l = 1 THEN <<>> ELSE path[l - 1] \o SiblingAt(levels[l - 1], at[l - 1])
    IN path[Len(levels)]

NoProof == <<>>

merkle_prove(orders, op) ==
    LET norm == sorted_norm(orders)
        place == SelectInSeq(norm, LAMBDA o : o.op = op)
    IN IF place = 0 THEN NoProof
       ELSE [index |-> place - 1, n |-> Len(norm),
             path |-> ProofPath(merkle_levels(Leaves(norm)), place - 1)]

\* The hashes from the order's leaf up along the path.
Climb(order, path) ==
    LET h[i \in 0 .. Len(path)] ==
            IF i = 0 THEN leaf_hash(order)
            ELSE IF path[i].dir = "L" THEN node_hash(path[i].hash, h[i - 1])
                                      ELSE node_hash(h[i - 1], path[i].hash)
    IN h

merkle_verify(order, proof, root) == Climb(order, proof.path)[Len(proof.path)] = root

-----------------------------------------------------------------------------
\* The event stream.  An expiry is no event: no transaction causes it.

Code == [A |-> 1, C |-> 2, F |-> 3]

\* _norm: what an event keeps of a record, its status not among it.
Norm(r) ==
    [rune |-> r.rune, price |-> r.price, amount |-> r.amount,
     announce_height |-> r.announce_height, op |-> r.op]
Event(height, code, r) == [height |-> height, code |-> code, order |-> Norm(r)]

events_of_record(r) ==
    {Event(r.announce_height, Code.A, r)}
    \cup (IF r.status = "Filled" THEN {Event(r.last_event_height, Code.F, r)} ELSE {})
    \cup (IF r.status = "Cancelled" THEN {Event(r.last_event_height, Code.C, r)} ELSE {})

EventLine(e) == <<e.height, e.code>> \o Line(e.order)
EventKey(e) ==
    <<e.order.rune, e.order.price, e.order.announce_height, e.order.op, e.code>>

BlockDigest(evs) ==
    LET s == SetToSortSeq(evs, LAMBDA a, b : Precedes(EventKey(a), EventKey(b)))
    IN [i \in DOMAIN s |-> EventLine(s[i])]

Ascending(S) ==
    CHOOSE s \in SetToSeqs(S) : \A i, j \in DOMAIN s : i < j => s[i] < s[j]

event_block_hashes(records) ==
    LET evs == UNION {events_of_record(r) : r \in records}
        heights == Ascending({e.height : e \in evs})
    IN [i \in DOMAIN heights |->
          [height |-> heights[i],
           block_hash |-> BlockDigest({e \in evs : e.height = heights[i]})]]

\* Each entry with the hash of all that was folded up to it.
event_stream(records) ==
    LET blocks == event_block_hashes(records)
    IN [i \in DOMAIN blocks |->
          [height |-> blocks[i].height, block_hash |-> blocks[i].block_hash,
           cumulative |-> SubSeq(blocks, 1, i)]]

cumulative_event_hash(records) == event_block_hashes(records)

-----------------------------------------------------------------------------
\* The price-time book of one rune: asks from the cheapest, bids from the
\* dearest, then by height and outpoint, with running totals.

AskKey(o) == <<o.price, o.announce_height, o.op>>

BidBefore(a, b) ==
    \/ a.price > b.price
    \/ a.price = b.price /\ Precedes(AskKey(a), AskKey(b))

WithTotals(s) ==
    LET Add(acc, o) == Append(acc, [order |-> o,
                           total |-> o.amount + IF acc = <<>> THEN 0 ELSE Last(acc).total])
    IN FoldLeft(Add, <<>>, s)

Side(orders, rune, side) ==
    SelectSeq(orders, LAMBDA o : o.rune = rune /\ o.side = side)

build_book(orders, rune) ==
    [asks |-> WithTotals(SortSeq(Side(orders, rune, 0),
                                 LAMBDA a, b : Precedes(AskKey(a), AskKey(b)))),
     bids |-> WithTotals(SortSeq(Side(orders, rune, 1), BidBefore))]

summary(orders, rune) ==
    LET book == build_book(orders, rune) IN
    [best_ask |-> IF book.asks = <<>> THEN "none" ELSE ToString(Head(book.asks).order.price),
     asks |-> Len(book.asks), bids |-> Len(book.bids),
     depth |-> IF book.asks = <<>> THEN 0 ELSE Last(book.asks).total]

=============================================================================
