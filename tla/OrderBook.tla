------------------------------ MODULE OrderBook ------------------------------
(***************************************************************************)
(* The order-book state machine of the indexer (btx_index.rs) and the      *)
(* chain it follows.                                                       *)
(*                                                                         *)
(* The chain is the environment: blocks are mined, create and spend        *)
(* offers, and leave the active chain in a reorganisation.  The indexer    *)
(* follows at its own pace: it calls index_block for the next block of the *)
(* active chain, and revert_to when blocks that it has indexed are no      *)
(* longer on it.  Between the two the chain may have grown, and get_utxo   *)
(* answers for its tip.                                                    *)
(***************************************************************************)
EXTENDS Naturals, Sequences, FiniteSets

CONSTANTS Outpoints,   \* offer outputs, each created by a block, or never
          Terms,       \* a committed payout: (price, payout_spk)
          Artifacts,   \* order artifacts that may be announced
          Authentic,   \* those with msg_type 1 that verify_maker_sig accepts
          NoTerms,     \* an output that pays no committed payout
          Spends,      \* confirmed spends of an offer: what the output at its
                       \* input index pays, and whether the spend uses a
                       \* signature that the maker has published
          MaxHeight,   \* bound on the length of the chain
          MaxLag,      \* bound on how far the indexer may fall behind
          MaxNew,      \* bound on the offers created, and on the artifacts
                       \* announced, in one block
          MaxSpends    \* bound on the offers spent in one block

ASSUME ArtifactsAssumption ==
    /\ Artifacts \subseteq [op : Outpoints, terms : Terms, expiry : Nat]
    /\ Authentic \subseteq Artifacts
    /\ NoTerms \notin Terms
    /\ Spends \subseteq [op : Outpoints, pays : Terms \cup {NoTerms},
                         presigned : BOOLEAN]
ASSUME BoundsAssumption ==
    /\ MaxHeight \in Nat
    /\ MaxLag \in Nat \ {0}
    /\ MaxNew \in Nat
    /\ MaxSpends \in Nat

VARIABLES chain,      \* the blocks of the active chain
          indexed,    \* height of the last block that the book includes
          valid,      \* how many of the indexed blocks are on the active chain
          book,       \* OrderBook.orders
          published,  \* artifacts whose signature has been seen by anyone
          disturbed,  \* history: offers announced twice, or rejected for a
                      \* spend in a later block than the announcement's
          early       \* history: offers admitted for an output that a later
                      \* block than the announcement's creates

vars == <<chain, indexed, valid, book, published, disturbed, early>>

OnePerOffer(S) == \A x, y \in S : x.op = y.op => x = y

\* What a block may hold.  An offer is spent once, and of several announcements
\* of an offer the last valid one counts, so a block holds one of them.
Announcements ==
    {S \in SUBSET Artifacts : OnePerOffer(S) /\ Cardinality(S) <= MaxNew}
Creations == {S \in SUBSET Outpoints : Cardinality(S) <= MaxNew}
Settlements ==
    {S \in SUBSET Spends : OnePerOffer(S) /\ Cardinality(S) <= MaxSpends}
Blocks == [created : SUBSET Outpoints, new : SUBSET Artifacts, spends : SUBSET Spends]

OrderStatus == {"Open", "Filled", "Cancelled", "Expired"}
Orders == [art : Artifacts, status : OrderStatus,
           announce_height : Nat, last_event_height : Nat]

-----------------------------------------------------------------------------
\* The chain as the code sees it.

SpentIn(op, block) == \E s \in block.spends : s.op = op
NeverSpent(op, height) == \A k \in 1 .. height : ~SpentIn(op, chain[k])
Created(op, height) == \E k \in 1 .. height : op \in chain[k].created
Unspent(op, height) == Created(op, height) /\ NeverSpent(op, height)

\* get_utxo finds the output in the set of the tip, whatever block is indexed,
\* and finds none that is spent or absent there.
get_utxo(op) == Unspent(op, Len(chain))

\* Mutant: an artifact of a spent offer is admitted.
ValidateAnyUtxo(art, height) == art \in Authentic /\ height <= art.expiry

validate(art, height) ==
    /\ art \in Authentic
    /\ height <= art.expiry
    /\ get_utxo(art.op)

is_fill(spend, art) == spend.pays = art.terms

NewOrder(art, height) ==
    [art |-> art, status |-> "Open",
     announce_height |-> height, last_event_height |-> height]

Resolve(order, status, height) ==
    [order EXCEPT !.status = status, !.last_event_height = height]

\* on_new_order for each admitted artifact: insert replaces an earlier record.
on_new_orders(orders, arts, height) ==
    [op \in DOMAIN orders \cup {a.op : a \in arts} |->
        IF \E a \in arts : a.op = op
        THEN NewOrder(CHOOSE a \in arts : a.op = op, height)
        ELSE orders[op]]

\* on_spend for each input of the block.
on_spends(orders, spends, height) ==
    [op \in DOMAIN orders |->
        IF orders[op].status = "Open" /\ \E s \in spends : s.op = op
        THEN Resolve(orders[op],
                     IF \E s \in spends : s.op = op /\ is_fill(s, orders[op].art)
                     THEN "Filled" ELSE "Cancelled",
                     height)
        ELSE orders[op]]

\* expire: every open order whose expiry height has passed.
expire(orders, height) ==
    [op \in DOMAIN orders |->
        IF orders[op].status = "Open" /\ height > orders[op].art.expiry
        THEN Resolve(orders[op], "Expired", height)
        ELSE orders[op]]

\* Mutants: a revert that keeps the announcements above the height, and one
\* that reopens an order without taking back the height of its last event.
RevertKeepsAll(orders, height) ==
    [op \in DOMAIN orders |->
        IF orders[op].status # "Open" /\ orders[op].last_event_height > height
        THEN Resolve(orders[op], "Open", orders[op].announce_height)
        ELSE orders[op]]
RevertKeepsEvent(orders, height) ==
    [op \in {o \in DOMAIN orders : orders[o].announce_height <= height} |->
        IF orders[op].status # "Open" /\ orders[op].last_event_height > height
        THEN [orders[op] EXCEPT !.status = "Open"]
        ELSE orders[op]]

revert_to(orders, height) ==
    [op \in {o \in DOMAIN orders : orders[o].announce_height <= height} |->
        IF orders[op].status # "Open" /\ orders[op].last_event_height > height
        THEN Resolve(orders[op], "Open", orders[op].announce_height)
        ELSE orders[op]]

Init ==
    /\ chain = <<>>
    /\ indexed = 0
    /\ valid = 0
    /\ book = [op \in {} |-> NoTerms]
    /\ published = {}
    /\ disturbed = {}
    /\ early = {}

-----------------------------------------------------------------------------
\* A block joins the active chain: offers that do not exist yet, any artifacts,
\* and spends of unspent offers by their maker or by a taker who has a published
\* signature.
Mine(created, new, spends) ==
    /\ Len(chain) < MaxHeight
    /\ Len(chain) < indexed + MaxLag
    /\ \A op \in created : ~Created(op, Len(chain))
    /\ \A s \in spends :
         /\ get_utxo(s.op) \/ s.op \in created
         /\ s.presigned => \E a \in (published \cup new) \cap Authentic :
                               a.op = s.op /\ a.terms = s.pays
    /\ chain' = Append(chain, [created |-> created, new |-> new, spends |-> spends])
    /\ published' = published \cup new
    /\ UNCHANGED <<indexed, valid, book, disturbed, early>>

\* The blocks above a height leave the active chain.
Reorg(height) ==
    /\ height < Len(chain)
    /\ chain' = SubSeq(chain, 1, height)
    /\ valid' = IF height < valid THEN height ELSE valid
    /\ UNCHANGED <<indexed, book, published, disturbed, early>>

\* revert_to: the indexer drops what it took from blocks that are gone.
RevertTo ==
    /\ valid < indexed
    /\ book' = revert_to(book, valid)
    /\ indexed' = valid
    /\ UNCHANGED <<chain, valid, published, disturbed, early>>

\* index_block: artifacts, then spends, then expiry.
IndexBlock ==
    LET height == indexed + 1
        block == chain[height]
        arts == {a \in block.new : validate(a, height)}
    IN
    /\ valid = indexed
    /\ indexed < Len(chain)
    /\ book' = expire(on_spends(on_new_orders(book, arts, height),
                                block.spends, height), height)
    /\ indexed' = height
    /\ valid' = height
    /\ disturbed' = disturbed
         \cup {a.op : a \in {b \in arts : b.op \in DOMAIN book}}
         \cup {a.op : a \in {b \in block.new \cap Authentic :
                                ~get_utxo(b.op) /\ Unspent(b.op, height)}}
    /\ early' = early \cup {a.op : a \in {b \in arts : ~Unspent(b.op, height)}}
    /\ UNCHANGED <<chain, published>>

Next ==
    \/ \E created \in Creations, new \in Announcements, spends \in Settlements :
          Mine(created, new, spends)
    \/ \E height \in 0 .. MaxHeight : Reorg(height)
    \/ RevertTo
    \/ IndexBlock

Spec == Init /\ [][Next]_vars

-----------------------------------------------------------------------------
\* The heights of an order stay within the part of the chain it was taken from.
TypeOK ==
    /\ chain \in Seq(Blocks)
    /\ indexed \in Nat
    /\ valid \in 0 .. indexed
    /\ valid <= Len(chain)
    /\ DOMAIN book \subseteq Outpoints
    /\ book \in [DOMAIN book -> Orders]
    /\ \A op \in DOMAIN book :
         /\ book[op].art.op = op
         /\ book[op].announce_height <= book[op].last_event_height
         /\ book[op].last_event_height <= indexed
    /\ published \subseteq Artifacts
    /\ disturbed \subseteq Outpoints
    /\ early \subseteq Outpoints

\* What the chain up to the indexed height says of an offer, without any book:
\* its last admissible announcement, and the first block after it that spends
\* the offer or is above its expiry.
Admissible(op, height) ==
    {a \in chain[height].new \cap Authentic :
        a.op = op /\ height <= a.expiry /\ Unspent(op, height)}
Announced(op) == {h \in 1 .. indexed : Admissible(op, h) # {}}
Least(S) == CHOOSE x \in S : \A y \in S : x <= y
Greatest(S) == CHOOSE x \in S : \A y \in S : x >= y
Projection(op) ==
    LET from == Greatest(Announced(op))
        art == CHOOSE a \in Admissible(op, from) : TRUE
        ends == {k \in from .. indexed : SpentIn(op, chain[k]) \/ k > art.expiry}
        end == Least(ends)
        order == NewOrder(art, from)
    IN IF ends = {} THEN order
       ELSE IF ~SpentIn(op, chain[end]) THEN Resolve(order, "Expired", end)
       ELSE IF \E s \in chain[end].spends : s.op = op /\ is_fill(s, art)
            THEN Resolve(order, "Filled", end)
            ELSE Resolve(order, "Cancelled", end)

\* The book is a projection of the chain (comment of revert_to): whatever was
\* indexed, reverted and indexed again, it holds the very orders, with the same
\* status and heights, that the active chain determines.  Excepted are offers
\* announced twice (see LiveOffersAreOpen) or judged by a later tip: rejected
\* for a spend that the announcing block had not seen, or admitted for an output
\* that it had not created.
BookIsProjection ==
    valid = indexed =>
        \A op \in Outpoints \ (disturbed \cup early) :
            /\ op \in DOMAIN book <=> Announced(op) # {}
            /\ op \in DOMAIN book => book[op] = Projection(op)

\* A taker who trusts the book can fill: an order shown as Open was announced
\* on the active chain, no block spends its offer and it has not expired.  This
\* holds for every offer, and also after a reorganisation.  Its offer exists as
\* well, since the announcing block or before, unless it was admitted early (see
\* OpenOffersExist).
OpenIsLive ==
    valid = indexed =>
        \A op \in DOMAIN book :
            book[op].status = "Open" =>
                /\ book[op].announce_height \in 1 .. indexed
                /\ book[op].art \in chain[book[op].announce_height].new
                /\ NeverSpent(op, indexed)
                /\ indexed <= book[op].art.expiry
                /\ op \notin early => Created(op, book[op].announce_height)

\* Comment of validate: an order is admitted that is live and authorized against
\* the current chain state.  So once the indexer has caught up, each Open order
\* has an offer to fill.
OpenOffersExist ==
    valid = indexed /\ indexed = Len(chain) =>
        \A op \in DOMAIN book : book[op].status = "Open" => get_utxo(op)

\* Conversely no live offer is missing from the book: once the indexer has
\* caught up, an unspent offer with an announcement on the active chain that
\* has not expired is Open (comment of revert_to: the book is a projection of
\* chain state).
LiveOffersAreOpen ==
    valid = indexed /\ indexed = Len(chain) =>
        \A op \in Outpoints :
            /\ get_utxo(op)
            /\ \E h \in 1 .. indexed :
                 \E a \in Admissible(op, h) : indexed <= a.expiry
            => op \in DOMAIN book /\ book[op].status = "Open"

\* The fill classifier is exact (comment of is_fill): an order is recorded as
\* Cancelled only if its maker spent the offer, never if a taker filled it with
\* a signature of the maker.
CancelledByMaker ==
    valid = indexed =>
        \A op \in DOMAIN book :
            book[op].status = "Cancelled" =>
                \A s \in chain[book[op].last_event_height].spends :
                    s.op = op => ~s.presigned

=============================================================================
