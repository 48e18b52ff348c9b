------------------------------ MODULE BookViews ------------------------------
(***************************************************************************)
(* What others make of the indexer's book and of the chain under it: the   *)
(* event stream that light clients follow (btx_orderbook.py over the       *)
(* records of btx_index.rs), and the independent reconstruction of         *)
(* "btx.py book scan", which reads the same blocks without an indexer.     *)
(***************************************************************************)
EXTENDS OrderBook, Commitments

CONSTANTS Number,  \* the rank of an outpoint's canonical string
          Price    \* the price of a committed payout

\* The view of an order that is served and hashed; one rune, one unit.
Record(op, order) ==
    [rune |-> 0, price |-> Price[order.art.terms], amount |-> 1, op |-> Number[op],
     announce_height |-> order.announce_height,
     status |-> order.status, last_event_height |-> order.last_event_height]

StreamOf(orders, offers) ==
    event_stream({Record(op, orders[op]) : op \in DOMAIN orders \cap offers})

\* cmd_book_scan of the blocks up to the tip.  The first artifact of an offer
\* stays, signed or not, and a spend counts wherever in the list it is.
ScanAnnounced(op) == {h \in 1 .. Len(chain) : \E a \in chain[h].new : a.op = op}

\* Mutant: an unspent order is open whatever its expiry.
ScanStatus_M(op, art) ==
    LET spends == UNION {{s \in chain[h].spends : s.op = op} : h \in 1 .. Len(chain)}
    IN IF spends # {} THEN IF \E s \in spends : is_fill(s, art) THEN "Filled" ELSE "Cancelled"
       ELSE "Open"

ScanStatus(op, art) ==
    LET spends == UNION {{s \in chain[h].spends : s.op = op} : h \in 1 .. Len(chain)}
    IN IF spends # {} THEN IF \E s \in spends : is_fill(s, art) THEN "Filled" ELSE "Cancelled"
       ELSE IF Len(chain) > art.expiry THEN "Expired" ELSE "Open"
Scan ==
    [op \in {o \in Outpoints : ScanAnnounced(o) # {}} |->
        ScanStatus(op, CHOOSE a \in chain[Least(ScanAnnounced(op))].new : a.op = op)]

-----------------------------------------------------------------------------
\* What light clients assume of an honest indexer: a block adds its own events
\* at the end of the stream and changes none before, and a revert takes away
\* exactly the events of the blocks above it.  Excepted are the offers whose
\* record a second announcement replaced.
StreamExtends ==
    [][LET before == StreamOf(book, Outpoints \ disturbed')
           after == StreamOf(book', Outpoints \ disturbed')
       IN /\ indexed' > indexed =>
                /\ IsPrefix(before, after)
                /\ \A i \in Len(before) + 1 .. Len(after) : after[i].height = indexed'
          /\ indexed' < indexed =>
                /\ IsPrefix(after, before)
                /\ \A i \in DOMAIN before :
                      i <= Len(after) <=> before[i].height <= indexed']_vars

\* The offers that the blocks announce once, with an authentic artifact.
AnnouncedPlainly ==
    {op \in Outpoints :
        /\ Cardinality(ScanAnnounced(op)) = 1
        /\ \A h \in ScanAnnounced(op) : \A a \in chain[h].new : a.op = op => a \in Authentic}
BookOpen(op) == op \in DOMAIN book /\ book[op].status = "Open"

\* btx.py:323-326: the scan of the same chain has the same open orders as the
\* indexer at its tip, for the offers that one authentic artifact announces.
\* Every one that the indexer has Open is Open in the scan.  Every one that is
\* Open in the scan is Open in the book if its output existed when it was
\* announced (see ScanOpensAreBooked) and the indexer did not judge it by a later
\* tip or see it announced before on another chain.
ScanAgrees ==
    valid = indexed /\ indexed = Len(chain) =>
        \A op \in AnnouncedPlainly :
            /\ BookOpen(op) => Scan[op] = "Open"
            /\ /\ op \notin disturbed
               /\ \A h \in ScanAnnounced(op) : Created(op, h)
               /\ Scan[op] = "Open"
               => BookOpen(op)

\* btx.py:323-326 as it stands: the scan of the same chain MUST match the book
\* that the indexer serves, whenever the offer was created.
ScanOpensAreBooked ==
    valid = indexed /\ indexed = Len(chain) =>
        \A op \in AnnouncedPlainly \ disturbed : Scan[op] = "Open" => BookOpen(op)

=============================================================================
