--------------------------- MODULE OrderBookProofs ---------------------------
(***************************************************************************)
(* Theorems about the order book, for every set of offers, artifacts and   *)
(* spends, chains of any length, reorganisations of any depth and an       *)
(* indexer that lags behind by any number of blocks: what an Open order    *)
(* is; that the book is a projection of the chain; that the scan of the    *)
(* same blocks without an indexer agrees; and that blocks and reverts only *)
(* extend and cut the event stream.  Then, for books of any size, what a   *)
(* Merkle root commits to and what a membership proof shows.               *)
(***************************************************************************)
EXTENDS BookViews, SequenceTheorems, FiniteSetTheorems, FunctionTheorems,
        WellFoundedInduction, TLAPS

USE ArtifactsAssumption, BoundsAssumption

-----------------------------------------------------------------------------
(* Lemmas on the operations of the book. *)

\* A set of records that each belong to an offer of their own.
BookType(orders) ==
    /\ DOMAIN orders \subseteq Outpoints
    /\ orders \in [DOMAIN orders -> Orders]
    /\ \A op \in DOMAIN orders : orders[op].art.op = op

LEMMA ResolveType ==
    ASSUME NEW order \in Orders, NEW status \in OrderStatus, NEW height \in Nat
    PROVE  /\ Resolve(order, status, height) \in Orders
           /\ Resolve(order, status, height).art = order.art
           /\ Resolve(order, status, height).status = status
           /\ Resolve(order, status, height).announce_height
                = order.announce_height
           /\ Resolve(order, status, height).last_event_height = height
BY DEF Resolve, Orders

LEMMA StatusType ==
    {"Open", "Filled", "Cancelled", "Expired"} \subseteq OrderStatus
BY DEF OrderStatus

LEMMA NewOrderType ==
    ASSUME NEW art \in Artifacts, NEW height \in Nat
    PROVE  NewOrder(art, height) \in Orders
BY DEF NewOrder, Orders, OrderStatus

\* The record of an offer after the artifacts of a block were admitted: the
\* record it had, or a new one for an admitted artifact.
LEMMA Admitted ==
    ASSUME NEW orders, BookType(orders), NEW arts \in SUBSET Artifacts,
           NEW height \in Nat, NEW op \in DOMAIN on_new_orders(orders, arts, height)
    PROVE  \/ \E a \in arts : /\ a.op = op
                              /\ on_new_orders(orders, arts, height)[op]
                                   = NewOrder(a, height)
           \/ /\ op \in DOMAIN orders
              /\ on_new_orders(orders, arts, height)[op] = orders[op]
<1>1. op \in DOMAIN orders \cup {a.op : a \in arts}
  BY DEF on_new_orders
<1>2. CASE \E a \in arts : a.op = op
  <2> DEFINE b == CHOOSE a \in arts : a.op = op
  <2>1. b \in arts /\ b.op = op
    BY <1>2
  <2>2. on_new_orders(orders, arts, height)[op] = NewOrder(b, height)
    BY <1>1, <1>2 DEF on_new_orders
  <2> QED
    BY <2>1, <2>2
<1>3. CASE ~ \E a \in arts : a.op = op
  BY <1>1, <1>3 DEF on_new_orders
<1> QED
  BY <1>2, <1>3

LEMMA AdmittedType ==
    ASSUME NEW orders, BookType(orders), NEW arts \in SUBSET Artifacts,
           NEW height \in Nat
    PROVE  BookType(on_new_orders(orders, arts, height))
<1> DEFINE new == on_new_orders(orders, arts, height)
<1>1. \A op \in DOMAIN new : new[op] \in Orders /\ new[op].art.op = op
  <2> TAKE op \in DOMAIN new
  <2>1. CASE \E a \in arts : a.op = op /\ new[op] = NewOrder(a, height)
    BY <2>1, NewOrderType DEF NewOrder
  <2>2. CASE op \in DOMAIN orders /\ new[op] = orders[op]
    BY <2>2 DEF BookType
  <2> QED
    BY <2>1, <2>2, Admitted
<1>2. DOMAIN new \subseteq Outpoints
  BY DEF on_new_orders, BookType
<1>3. new \in [DOMAIN new -> Orders]
  BY <1>1 DEF on_new_orders
<1> QED
  BY <1>1, <1>2, <1>3 DEF BookType

\* Spends resolve open orders, with the height of the block, and do nothing
\* else.  An order that is still open afterwards was not spent in the block.
LEMMA Spent ==
    ASSUME NEW orders, BookType(orders), NEW spends, NEW height \in Nat
    PROVE  /\ BookType(on_spends(orders, spends, height))
           /\ DOMAIN on_spends(orders, spends, height) = DOMAIN orders
           /\ \A op \in DOMAIN orders :
                \/ /\ on_spends(orders, spends, height)[op] = orders[op]
                   /\ orders[op].status = "Open" => ~ \E s \in spends : s.op = op
                \/ /\ orders[op].status = "Open"
                   /\ \E status \in OrderStatus \ {"Open"} :
                        on_spends(orders, spends, height)[op]
                          = Resolve(orders[op], status, height)
<1> DEFINE new == on_spends(orders, spends, height)
<1>1. DOMAIN new = DOMAIN orders
  BY DEF on_spends
<1>2. \A op \in DOMAIN orders :
         \/ /\ new[op] = orders[op]
            /\ orders[op].status = "Open" => ~ \E s \in spends : s.op = op
         \/ /\ orders[op].status = "Open"
            /\ \E status \in OrderStatus \ {"Open"} :
                 new[op] = Resolve(orders[op], status, height)
  BY DEF on_spends, OrderStatus
<1>3. \A op \in DOMAIN orders : new[op] \in Orders /\ new[op].art.op = op
  BY <1>2, ResolveType DEF BookType
<1>4. new \in [DOMAIN new -> Orders]
  BY <1>1, <1>3 DEF on_spends
<1> HIDE DEF new
<1>5. BookType(new) /\ DOMAIN new = DOMAIN orders
  BY <1>1, <1>3, <1>4 DEF BookType
<1> QED
  BY <1>2, <1>5 DEF new

\* Likewise for expiry: what is still open has not expired.
LEMMA Expired ==
    ASSUME NEW orders, BookType(orders), NEW height \in Nat
    PROVE  /\ BookType(expire(orders, height))
           /\ DOMAIN expire(orders, height) = DOMAIN orders
           /\ \A op \in DOMAIN orders :
                \/ /\ expire(orders, height)[op] = orders[op]
                   /\ orders[op].status = "Open" => height <= orders[op].art.expiry
                \/ /\ orders[op].status = "Open"
                   /\ expire(orders, height)[op]
                        = Resolve(orders[op], "Expired", height)
<1> DEFINE new == expire(orders, height)
<1>1. DOMAIN new = DOMAIN orders
  BY DEF expire
<1>2. \A op \in DOMAIN orders : orders[op].art.expiry \in Nat
  BY DEF BookType, Orders
<1>3. \A op \in DOMAIN orders :
         \/ /\ new[op] = orders[op]
            /\ orders[op].status = "Open" => height <= orders[op].art.expiry
         \/ /\ orders[op].status = "Open"
            /\ new[op] = Resolve(orders[op], "Expired", height)
  BY <1>2 DEF expire
<1>4. \A op \in DOMAIN orders : new[op] \in Orders /\ new[op].art.op = op
  <2> TAKE op \in DOMAIN orders
  <2>1. orders[op] \in Orders /\ orders[op].art.op = op
    BY DEF BookType
  <2>2. CASE new[op] = Resolve(orders[op], "Expired", height)
    BY <2>1, <2>2, StatusType, ResolveType
  <2> QED
    BY <1>3, <2>1, <2>2
<1>5. new \in [DOMAIN new -> Orders]
  BY <1>1, <1>4 DEF expire
<1> QED
  BY <1>1, <1>3, <1>4, <1>5 DEF BookType

\* A revert keeps the orders announced up to the height, and reopens those that
\* were resolved above it.
LEMMA Reverted ==
    ASSUME NEW orders, BookType(orders), NEW height \in Nat
    PROVE  /\ BookType(revert_to(orders, height))
           /\ \A op \in DOMAIN revert_to(orders, height) :
                /\ op \in DOMAIN orders
                /\ orders[op].announce_height <= height
                /\ \/ /\ revert_to(orders, height)[op] = orders[op]
                      /\ \/ orders[op].status = "Open"
                         \/ orders[op].last_event_height <= height
                   \/ /\ orders[op].last_event_height > height
                      /\ orders[op].status # "Open"
                      /\ revert_to(orders, height)[op]
                           = Resolve(orders[op], "Open",
                                     orders[op].announce_height)
<1> DEFINE new == revert_to(orders, height)
           kept == {o \in DOMAIN orders : orders[o].announce_height <= height}
<1>1. DOMAIN new = kept
  BY DEF revert_to
<1>2. \A op \in DOMAIN orders : orders[op].last_event_height \in Nat
  BY DEF BookType, Orders
<1>3. \A op \in kept :
         \/ /\ new[op] = orders[op]
            /\ \/ orders[op].status = "Open"
               \/ orders[op].last_event_height <= height
         \/ /\ orders[op].last_event_height > height
            /\ orders[op].status # "Open"
            /\ new[op] = Resolve(orders[op], "Open", orders[op].announce_height)
  BY <1>2 DEF revert_to
<1>4. \A op \in kept : orders[op] \in Orders /\ orders[op].art.op = op
  BY DEF BookType
<1>5. \A op \in kept : orders[op].announce_height \in Nat
  BY <1>4 DEF Orders
<1>6. \A op \in kept : new[op] \in Orders /\ new[op].art.op = op
  <2> TAKE op \in kept
  <2>1. orders[op] \in Orders /\ orders[op].art.op = op
    BY <1>4
  <2>2. CASE new[op] = Resolve(orders[op], "Open", orders[op].announce_height)
    <3>1. orders[op].announce_height \in Nat
      BY <1>5
    <3>2. "Open" \in OrderStatus
      BY StatusType
    <3> HIDE DEF new
    <3> QED
      BY <2>1, <2>2, <3>1, <3>2, ResolveType
  <2> QED
    BY <1>3, <2>1, <2>2
<1>7. new \in [DOMAIN new -> Orders]
  BY <1>1, <1>6 DEF revert_to
<1> QED
  BY <1>1, <1>3, <1>6, <1>7 DEF BookType

\* What index_block makes of an offer's record: a record that the book had or
\* that an admitted artifact opened, resolved at this height or left alone.  A
\* record that is open afterwards is neither spent in the block nor expired.
AsIndexed(admitted, next, spends, height) ==
    /\ BookType(admitted)
    /\ BookType(next)
    /\ DOMAIN next = DOMAIN admitted
    /\ \A op \in DOMAIN next :
         /\ next[op].art = admitted[op].art
         /\ next[op].announce_height = admitted[op].announce_height
         /\ \/ /\ next[op] = admitted[op]
               /\ next[op].status = "Open" =>
                    /\ ~ \E s \in spends : s.op = op
                    /\ height <= next[op].art.expiry
            \/ /\ admitted[op].status = "Open"
               /\ next[op].status # "Open"
               /\ next[op].last_event_height = height

\* index_block makes just that of every record.
LEMMA Indexed ==
    ASSUME NEW orders, BookType(orders), NEW arts \in SUBSET Artifacts,
           NEW spends, NEW height \in Nat
    PROVE  LET admitted == on_new_orders(orders, arts, height)
           IN AsIndexed(admitted,
                        expire(on_spends(admitted, spends, height), height),
                        spends, height)
<1> DEFINE admitted == on_new_orders(orders, arts, height)
           settled == on_spends(admitted, spends, height)
           next == expire(settled, height)
<1>1. BookType(admitted)
  BY AdmittedType
<1> HIDE DEF admitted
<1>2. BookType(settled) /\ DOMAIN settled = DOMAIN admitted
  BY <1>1, Spent
<1>3. BookType(next) /\ DOMAIN next = DOMAIN admitted
  <2> HIDE DEF settled
  <2> QED
    BY <1>2, Expired
<1>4. ASSUME NEW op \in DOMAIN admitted
      PROVE  /\ next[op].art = admitted[op].art
             /\ next[op].announce_height = admitted[op].announce_height
             /\ \/ /\ next[op] = admitted[op]
                   /\ next[op].status = "Open" =>
                        /\ ~ \E s \in spends : s.op = op
                        /\ height <= next[op].art.expiry
                \/ /\ admitted[op].status = "Open"
                   /\ next[op].status # "Open"
                   /\ next[op].last_event_height = height
  <2>1. admitted[op] \in Orders /\ settled[op] \in Orders
    BY <1>1, <1>2 DEF BookType
  <2>2. \/ /\ settled[op] = admitted[op]
           /\ admitted[op].status = "Open" => ~ \E s \in spends : s.op = op
        \/ /\ admitted[op].status = "Open"
           /\ \E status \in OrderStatus \ {"Open"} :
                settled[op] = Resolve(admitted[op], status, height)
    BY <1>1, Spent
  <2> HIDE DEF settled
  <2>3. \/ /\ next[op] = settled[op]
           /\ settled[op].status = "Open" => height <= settled[op].art.expiry
        \/ /\ settled[op].status = "Open"
           /\ next[op] = Resolve(settled[op], "Expired", height)
    BY <1>2, Expired
  <2> HIDE DEF next
  <2>4. CASE settled[op] = admitted[op] /\ next[op] = settled[op]
    <3>1. admitted[op].status = "Open" =>
             ~(\E s \in spends : s.op = op) /\ height <= admitted[op].art.expiry
      <4>1. CASE settled[op].status # "Open"
        BY <2>4, <4>1
      <4>2. CASE settled[op].status = "Open"
        <5>1. settled[op] # Resolve(settled[op], "Expired", height)
          <6>1. "Expired" \in OrderStatus
            BY StatusType
          <6>2. Resolve(settled[op], "Expired", height).status = "Expired"
            BY <2>1, <6>1, ResolveType
          <6> QED
            BY <4>2, <6>2
        <5>2. height <= admitted[op].art.expiry
          BY <2>3, <2>4, <4>2, <5>1
        <5>3. \A status \in OrderStatus \ {"Open"} :
                 admitted[op] # Resolve(admitted[op], status, height)
          BY <2>1, <2>4, <4>2, ResolveType
        <5>4. ~ \E s \in spends : s.op = op
          BY <2>2, <2>4, <4>2, <5>3
        <5> QED
          BY <5>2, <5>4
      <4> QED
        BY <4>1, <4>2
    <3> QED
      BY <2>4, <3>1
  <2>5. CASE /\ settled[op].status = "Open"
             /\ next[op] = Resolve(settled[op], "Expired", height)
    <3>1. settled[op] = admitted[op]
      <4>1. \A status \in OrderStatus \ {"Open"} :
               settled[op] # Resolve(admitted[op], status, height)
        BY <2>1, <2>5, ResolveType
      <4> QED
        BY <2>2, <4>1
    <3>2. /\ next[op].art = settled[op].art
          /\ next[op].announce_height = settled[op].announce_height
          /\ next[op].status = "Expired"
          /\ next[op].last_event_height = height
      BY <2>1, <2>5, StatusType, ResolveType
    <3> QED
      BY <2>5, <3>1, <3>2
  <2>6. CASE /\ next[op] = settled[op]
             /\ admitted[op].status = "Open"
             /\ \E status \in OrderStatus \ {"Open"} :
                  settled[op] = Resolve(admitted[op], status, height)
    <3>1. PICK status \in OrderStatus \ {"Open"} :
            settled[op] = Resolve(admitted[op], status, height)
      BY <2>6
    <3>2. /\ next[op].art = admitted[op].art
          /\ next[op].announce_height = admitted[op].announce_height
          /\ next[op].status = status
          /\ next[op].last_event_height = height
      BY <2>1, <2>6, <3>1, ResolveType
    <3> QED
      BY <2>6, <3>2
  <2> QED
    BY <2>2, <2>3, <2>4, <2>5, <2>6
<1> HIDE DEF next
<1>5. AsIndexed(admitted, next, spends, height)
  BY <1>1, <1>3, <1>4 DEF AsIndexed
<1> QED
  BY <1>5 DEF admitted, next

-----------------------------------------------------------------------------
(* The book only shows orders that a taker can fill. *)

\* OpenIsLive is not inductive: a revert reopens orders, so something must be
\* known of the resolved ones too.  An order whose announcement is still on the
\* active chain was live at every block before the one that resolved it.
Standing(op, height) ==
    /\ ~SpentIn(op, chain[height])
    /\ height <= book[op].art.expiry
LiveUntilResolved ==
    \A op \in DOMAIN book :
        book[op].announce_height <= valid =>
            /\ 1 <= book[op].announce_height
            /\ book[op].art \in chain[book[op].announce_height].new
            /\ \A h \in 1 .. valid :
                 book[op].status = "Open" \/ h < book[op].last_event_height
                 => Standing(op, h)

LEMMA BookOfType ==
    ASSUME TypeOK
    PROVE  /\ BookType(book)
           /\ \A op \in DOMAIN book :
                /\ book[op].announce_height \in Nat
                /\ book[op].last_event_height \in Nat
                /\ book[op].art.expiry \in Nat
                /\ book[op].art \in Artifacts
                /\ book[op].announce_height <= book[op].last_event_height
                /\ book[op].last_event_height <= indexed
<1>1. BookType(book)
  BY DEF TypeOK, BookType
<1>2. ASSUME NEW op \in DOMAIN book
      PROVE  /\ book[op].announce_height \in Nat
             /\ book[op].last_event_height \in Nat
             /\ book[op].art \in Artifacts
             /\ book[op].art.expiry \in Nat
  <2>1. book[op] \in Orders
    BY <1>1 DEF BookType
  <2> QED
    BY <2>1 DEF Orders
<1> QED
  BY <1>1, <1>2 DEF TypeOK

\* Blocks are records, so that the artifacts of a block are artifacts.
LEMMA BlockType ==
    ASSUME TypeOK, NEW h \in 1 .. Len(chain)
    PROVE  chain[h].new \subseteq Artifacts
<1>1. chain[h] \in Blocks
  BY DEF TypeOK
<1> QED
  BY <1>1 DEF Blocks

\* What index_block does to the book, in one fact for the proofs below.
LEMMA IndexEffect ==
    ASSUME TypeOK, IndexBlock
    PROVE  /\ indexed + 1 \in 1 .. Len(chain)
           /\ BookType(book')
           /\ \A op \in DOMAIN book' :
                /\ \/ /\ op \in DOMAIN book
                      /\ book'[op].art = book[op].art
                      /\ book'[op].announce_height = book[op].announce_height
                      /\ \/ book'[op] = book[op]
                         \/ /\ book[op].status = "Open"
                            /\ book'[op].last_event_height = indexed + 1
                            /\ book'[op].status # "Open"
                   \/ /\ book'[op].art \in chain[indexed + 1].new
                      /\ validate(book'[op].art, indexed + 1)
                      /\ book'[op].announce_height = indexed + 1
                      /\ book'[op].last_event_height = indexed + 1
                /\ book'[op].status = "Open" =>
                     /\ ~SpentIn(op, chain[indexed + 1])
                     /\ indexed + 1 <= book'[op].art.expiry
<1> DEFINE height == indexed + 1
           arts == {a \in chain[height].new : validate(a, height)}
           spends == chain[height].spends
           admitted == on_new_orders(book, arts, height)
<1>1. height \in Nat /\ height \in 1 .. Len(chain)
  BY DEF TypeOK, IndexBlock
<1>2. arts \in SUBSET Artifacts
  BY <1>1, BlockType
<1>3. book' = expire(on_spends(admitted, spends, height), height)
  BY DEF IndexBlock
<1>4. BookType(book)
  BY BookOfType
<1> HIDE DEF height
<1>5. /\ BookType(admitted)
      /\ BookType(book')
      /\ DOMAIN book' = DOMAIN admitted
      /\ \A op \in DOMAIN book' :
           /\ book'[op].art = admitted[op].art
           /\ book'[op].announce_height = admitted[op].announce_height
           /\ \/ /\ book'[op] = admitted[op]
                 /\ book'[op].status = "Open" =>
                      /\ ~ \E s \in spends : s.op = op
                      /\ height <= book'[op].art.expiry
              \/ /\ admitted[op].status = "Open"
                 /\ book'[op].status # "Open"
                 /\ book'[op].last_event_height = height
  <2> HIDE DEF arts, spends
  <2>1. AsIndexed(admitted, expire(on_spends(admitted, spends, height), height),
                  spends, height)
    BY <1>1, <1>2, <1>4, Indexed
  <2>2. AsIndexed(admitted, book', spends, height)
    BY <1>3, <2>1
  <2> HIDE DEF admitted
  <2> QED
    BY <2>2 DEF AsIndexed
<1>6. ASSUME NEW op \in DOMAIN book'
      PROVE  /\ \/ /\ op \in DOMAIN book
                   /\ book'[op].art = book[op].art
                   /\ book'[op].announce_height = book[op].announce_height
                   /\ \/ book'[op] = book[op]
                      \/ /\ book[op].status = "Open"
                         /\ book'[op].last_event_height = height
                         /\ book'[op].status # "Open"
                \/ /\ book'[op].art \in chain[height].new
                   /\ validate(book'[op].art, height)
                   /\ book'[op].announce_height = height
                   /\ book'[op].last_event_height = height
             /\ book'[op].status = "Open" =>
                  /\ ~SpentIn(op, chain[height])
                  /\ height <= book'[op].art.expiry
  <2>1. book'[op].status = "Open" =>
           /\ ~SpentIn(op, chain[height])
           /\ height <= book'[op].art.expiry
    BY <1>5 DEF SpentIn
  <2>2. \/ \E a \in arts : a.op = op /\ admitted[op] = NewOrder(a, height)
        \/ op \in DOMAIN book /\ admitted[op] = book[op]
    <3> HIDE DEF arts
    <3> QED
      BY <1>1, <1>2, <1>4, <1>5, Admitted
  <2> HIDE DEF admitted
  <2>3. CASE op \in DOMAIN book /\ admitted[op] = book[op]
    BY <1>5, <2>1, <2>3
  <2>4. CASE \E a \in arts : a.op = op /\ admitted[op] = NewOrder(a, height)
    <3>1. PICK a \in arts : admitted[op] = NewOrder(a, height)
      BY <2>4
    <3>2. /\ admitted[op].art = a
          /\ admitted[op].announce_height = height
          /\ admitted[op].last_event_height = height
      BY <3>1 DEF NewOrder
    <3> QED
      BY <1>5, <2>1, <3>2
  <2> QED
    BY <2>2, <2>3, <2>4
<1> QED
  BY <1>1, <1>5, <1>6 DEF height

\* A revert only touches orders resolved above the height, so an order that
\* stays open must never carry a later height than its announcement's.
OpenIsUntouched ==
    \A op \in DOMAIN book :
        book[op].status = "Open" =>
            book[op].last_event_height = book[op].announce_height

\* The active chain, as far as the indexer has followed it, is kept by a new
\* block and by a reorganisation.
LEMMA ChainKept ==
    ASSUME TypeOK,
           (\E created \in Creations, new \in Announcements, spends \in Settlements :
                Mine(created, new, spends))
             \/ (\E height \in 0 .. MaxHeight : Reorg(height))
    PROVE  /\ chain' \in Seq(Blocks)
           /\ valid' \in 0 .. valid
           /\ valid' <= Len(chain')
           /\ \A h \in 1 .. valid' : chain'[h] = chain[h]
           /\ UNCHANGED <<indexed, book, disturbed, early>>
           /\ published' \subseteq Artifacts
<1>1. ASSUME NEW created \in Creations, NEW new \in Announcements,
             NEW spends \in Settlements, Mine(created, new, spends)
      PROVE  /\ chain' \in Seq(Blocks)
             /\ valid' \in 0 .. valid
             /\ valid' <= Len(chain')
             /\ \A h \in 1 .. valid' : chain'[h] = chain[h]
             /\ UNCHANGED <<indexed, book, disturbed, early>>
             /\ published' \subseteq Artifacts
  <2>1. [created |-> created, new |-> new, spends |-> spends] \in Blocks
    BY DEF Creations, Announcements, Settlements, Blocks
  <2>2. chain \in Seq(Blocks) /\ valid \in Nat /\ valid <= Len(chain)
    BY DEF TypeOK
  <2>3. chain' = Append(chain, [created |-> created, new |-> new, spends |-> spends])
    BY <1>1 DEF Mine
  <2>4. /\ chain' \in Seq(Blocks)
        /\ Len(chain') = Len(chain) + 1
        /\ \A i \in 1 .. Len(chain) : chain'[i] = chain[i]
    BY <2>1, <2>2, <2>3, AppendProperties
  <2>5. published' \subseteq Artifacts
    BY <1>1 DEF Mine, TypeOK, Announcements
  <2>6. valid' = valid /\ UNCHANGED <<indexed, book, disturbed, early>>
    BY <1>1 DEF Mine
  <2>7. Len(chain) \in Nat
    BY <2>2
  <2> QED
    BY <2>2, <2>4, <2>5, <2>6, <2>7
<1>2. ASSUME NEW height \in 0 .. MaxHeight, Reorg(height)
      PROVE  /\ chain' \in Seq(Blocks)
             /\ valid' \in 0 .. valid
             /\ valid' <= Len(chain')
             /\ \A h \in 1 .. valid' : chain'[h] = chain[h]
             /\ UNCHANGED <<indexed, book, disturbed, early>>
             /\ published' \subseteq Artifacts
  <2>1. /\ chain \in Seq(Blocks)
        /\ valid \in Nat
        /\ valid <= Len(chain)
        /\ height \in Nat
        /\ height < Len(chain)
    BY <1>2 DEF TypeOK, Reorg
  <2>2. \A i \in 1 .. height : chain[i] \in Blocks
    BY <2>1
  <2>3. chain' = SubSeq(chain, 1, height)
    BY <1>2 DEF Reorg
  <2>4. /\ chain' \in Seq(Blocks)
        /\ Len(chain') = height
        /\ \A i \in 1 .. height : chain'[i] = chain[i]
    BY <2>1, <2>2, <2>3, SubSeqProperties
  <2>5. /\ valid' = IF height < valid THEN height ELSE valid
        /\ UNCHANGED <<indexed, book, published, disturbed, early>>
    BY <1>2 DEF Reorg
  <2> QED
    BY <2>1, <2>4, <2>5 DEF TypeOK
<1> QED
  BY <1>1, <1>2

\* What revert_to leaves in the book.
LEMMA RevertEffect ==
    ASSUME TypeOK, RevertTo
    PROVE  /\ BookType(book')
           /\ \A op \in DOMAIN book' :
                /\ op \in DOMAIN book
                /\ book[op].announce_height <= valid
                /\ book'[op].art = book[op].art
                /\ book'[op].announce_height = book[op].announce_height
                /\ \/ /\ book'[op] = book[op]
                      /\ \/ book[op].status = "Open"
                         \/ book[op].last_event_height <= valid
                   \/ /\ book[op].last_event_height > valid
                      /\ book'[op].status = "Open"
                      /\ book'[op].last_event_height = book[op].announce_height
<1>1. BookType(book) /\ valid \in Nat
  BY BookOfType DEF TypeOK
<1>2. book' = revert_to(book, valid)
  BY DEF RevertTo
<1>3. BookType(book')
  BY <1>1, <1>2, Reverted
<1>4. ASSUME NEW op \in DOMAIN book'
      PROVE  /\ op \in DOMAIN book
             /\ book[op].announce_height <= valid
             /\ book'[op].art = book[op].art
             /\ book'[op].announce_height = book[op].announce_height
             /\ \/ /\ book'[op] = book[op]
                   /\ \/ book[op].status = "Open"
                      \/ book[op].last_event_height <= valid
                \/ /\ book[op].last_event_height > valid
                   /\ book'[op].status = "Open"
                   /\ book'[op].last_event_height = book[op].announce_height
  <2>1. /\ op \in DOMAIN book
        /\ book[op].announce_height <= valid
        /\ \/ /\ book'[op] = book[op]
              /\ \/ book[op].status = "Open"
                 \/ book[op].last_event_height <= valid
           \/ /\ book[op].last_event_height > valid
              /\ book'[op] = Resolve(book[op], "Open", book[op].announce_height)
    BY <1>1, <1>2, Reverted
  <2>2. book[op] \in Orders /\ book[op].announce_height \in Nat
    BY <1>1, <2>1, BookOfType DEF BookType
  <2>3. "Open" \in OrderStatus
    BY StatusType
  <2>4. CASE book'[op] = Resolve(book[op], "Open", book[op].announce_height)
    BY <2>1, <2>2, <2>3, <2>4, ResolveType
  <2> QED
    BY <2>1, <2>4
<1> QED
  BY <1>3, <1>4

\* Type correctness, with the order of the heights that a revert relies on: no
\* order carries a height above the last indexed block.
LEMMA TypeInvariant == Spec => [](TypeOK /\ OpenIsUntouched)
<1> DEFINE TInv == TypeOK /\ OpenIsUntouched
<1>1. Init => TInv
  BY DEF Init, TypeOK, OpenIsUntouched
<1>2. TInv /\ [Next]_vars => TInv'
  <2> SUFFICES ASSUME TInv, [Next]_vars
               PROVE  TInv'
    OBVIOUS
  <2>1. CASE \/ \E created \in Creations, new \in Announcements, spends \in Settlements :
                  Mine(created, new, spends)
             \/ \E height \in 0 .. MaxHeight : Reorg(height)
    <3>1. /\ chain' \in Seq(Blocks)
          /\ valid' \in 0 .. valid
          /\ valid' <= Len(chain')
          /\ UNCHANGED <<indexed, book, disturbed, early>>
          /\ published' \subseteq Artifacts
      BY <2>1, ChainKept
    <3> QED
      BY <3>1 DEF TypeOK, OpenIsUntouched
  <2>2. CASE RevertTo
    <3>1. /\ indexed' = valid /\ valid \in Nat
          /\ UNCHANGED <<chain, valid, published, disturbed, early>>
      BY <2>2 DEF RevertTo, TypeOK
    <3>2. BookType(book')
      BY <2>2, RevertEffect
    <3>3. ASSUME NEW op \in DOMAIN book'
          PROVE  /\ book'[op].announce_height <= book'[op].last_event_height
                 /\ book'[op].last_event_height <= valid
                 /\ book'[op].status = "Open" =>
                      book'[op].last_event_height = book'[op].announce_height
      <4>1. /\ op \in DOMAIN book
            /\ book[op].announce_height <= valid
            /\ book'[op].announce_height = book[op].announce_height
            /\ \/ /\ book'[op] = book[op]
                  /\ \/ book[op].status = "Open"
                     \/ book[op].last_event_height <= valid
               \/ /\ book'[op].status = "Open"
                  /\ book'[op].last_event_height = book[op].announce_height
        BY <2>2, RevertEffect
      <4>2. /\ book[op].announce_height <= book[op].last_event_height
            /\ book[op].announce_height \in Nat
            /\ book[op].status = "Open" =>
                 book[op].last_event_height = book[op].announce_height
        BY <4>1, BookOfType DEF OpenIsUntouched
      <4> QED
        BY <4>1, <4>2
    <3> QED
      BY <3>1, <3>2, <3>3 DEF TypeOK, BookType, OpenIsUntouched
  <2>3. CASE IndexBlock
    <3>1. /\ indexed' = indexed + 1 /\ valid' = indexed + 1
          /\ UNCHANGED <<chain, published>>
          /\ indexed \in Nat
      BY <2>3 DEF IndexBlock, TypeOK
    <3>2. BookType(book') /\ indexed + 1 \in 1 .. Len(chain)
      BY <2>3, IndexEffect
    <3>3. ASSUME NEW op \in DOMAIN book'
          PROVE  /\ book'[op].announce_height <= book'[op].last_event_height
                 /\ book'[op].last_event_height <= indexed + 1
                 /\ book'[op].status = "Open" =>
                      book'[op].last_event_height = book'[op].announce_height
      <4>1. \/ /\ op \in DOMAIN book
               /\ book'[op].announce_height = book[op].announce_height
               /\ \/ book'[op] = book[op]
                  \/ /\ book'[op].last_event_height = indexed + 1
                     /\ book'[op].status # "Open"
            \/ /\ book'[op].announce_height = indexed + 1
               /\ book'[op].last_event_height = indexed + 1
        BY <2>3, IndexEffect
      <4>2. op \in DOMAIN book =>
              /\ book[op].announce_height <= book[op].last_event_height
              /\ book[op].last_event_height <= indexed
              /\ book[op].announce_height \in Nat
              /\ book[op].last_event_height \in Nat
              /\ book[op].status = "Open" =>
                   book[op].last_event_height = book[op].announce_height
        BY BookOfType DEF OpenIsUntouched
      <4> QED
        BY <3>1, <4>1, <4>2
    <3>4. disturbed' \subseteq Outpoints /\ early' \subseteq Outpoints
      <4>1. chain[indexed + 1].new \subseteq Artifacts
        BY <3>2, BlockType
      <4>2. \A a \in Artifacts : a.op \in Outpoints
        OBVIOUS
      <4> QED
        BY <2>3, <4>1, <4>2 DEF IndexBlock, TypeOK
    <3>5. chain \in Seq(Blocks) /\ published \subseteq Artifacts
      BY DEF TypeOK
    <3>6. indexed + 1 <= Len(chain) /\ indexed + 1 \in 0 .. indexed + 1
      BY <3>1, <3>2
    <3> QED
      BY <3>1, <3>2, <3>3, <3>4, <3>5, <3>6
         DEF TypeOK, BookType, OpenIsUntouched
  <2>4. CASE UNCHANGED vars
    BY <2>4 DEF vars, TypeOK, OpenIsUntouched
  <2> QED
    BY <2>1, <2>2, <2>3, <2>4 DEF Next
<1> QED
  BY <1>1, <1>2, PTL DEF Spec

\* Type correctness of the book and of the chain it follows, with the order of
\* an order's two heights.
THEOREM TypeCorrect == Spec => []TypeOK
  BY TypeInvariant, PTL

\* What the chain says of an order up to the block that resolved it is kept by
\* every step.
LEMMA LiveInvariant == Spec => []LiveUntilResolved
<1>1. Init => LiveUntilResolved
  BY DEF Init, LiveUntilResolved
<1>2. TypeOK /\ LiveUntilResolved /\ [Next]_vars => LiveUntilResolved'
  <2> SUFFICES ASSUME TypeOK, LiveUntilResolved, [Next]_vars
               PROVE  LiveUntilResolved'
    OBVIOUS
  <2>1. CASE \/ \E created \in Creations, new \in Announcements, spends \in Settlements :
                  Mine(created, new, spends)
             \/ \E height \in 0 .. MaxHeight : Reorg(height)
    <3>1. /\ valid' \in 0 .. valid /\ valid \in Nat
          /\ \A h \in 1 .. valid' : chain'[h] = chain[h]
          /\ book' = book
      BY <2>1, ChainKept DEF TypeOK
    <3>2. \A op \in DOMAIN book : book[op].announce_height \in Nat
      BY BookOfType
    <3> QED
      BY <3>1, <3>2 DEF LiveUntilResolved, Standing, SpentIn
  <2>2. CASE RevertTo
    <3>1. UNCHANGED <<chain, valid>> /\ valid \in Nat
      BY <2>2 DEF RevertTo, TypeOK
    <3>2. ASSUME NEW op \in DOMAIN book'
          PROVE  /\ 1 <= book'[op].announce_height
                 /\ book'[op].art \in chain[book'[op].announce_height].new
                 /\ \A h \in 1 .. valid :
                      book'[op].status = "Open" \/ h < book'[op].last_event_height
                      => Standing(op, h)
      <4>1. /\ op \in DOMAIN book
            /\ book[op].announce_height <= valid
            /\ book'[op].art = book[op].art
            /\ book'[op].announce_height = book[op].announce_height
            /\ \/ book'[op] = book[op]
               \/ book[op].last_event_height > valid
        BY <2>2, RevertEffect
      <4>2. book[op].last_event_height \in Nat
        BY <4>1, BookOfType
      <4> QED
        BY <3>1, <4>1, <4>2 DEF LiveUntilResolved
    <3>3. \A op \in DOMAIN book' : book'[op].art = book[op].art
      BY <2>2, RevertEffect
    <3> QED
      BY <3>1, <3>2, <3>3 DEF LiveUntilResolved, Standing, SpentIn
  <2>3. CASE IndexBlock
    <3>1. /\ valid = indexed /\ valid' = indexed + 1 /\ indexed \in Nat
          /\ chain' = chain
          /\ indexed + 1 \in 1 .. Len(chain)
      BY <2>3, IndexEffect DEF IndexBlock, TypeOK
    <3>2. ASSUME NEW op \in DOMAIN book'
          PROVE  /\ 1 <= book'[op].announce_height
                 /\ book'[op].art \in chain[book'[op].announce_height].new
                 /\ \A h \in 1 .. indexed + 1 :
                      book'[op].status = "Open" \/ h < book'[op].last_event_height
                      => /\ ~SpentIn(op, chain[h])
                         /\ h <= book'[op].art.expiry
      <4>1. book'[op].status = "Open" =>
              /\ ~SpentIn(op, chain[indexed + 1])
              /\ indexed + 1 <= book'[op].art.expiry
        BY <2>3, IndexEffect
      <4>2. CASE /\ op \in DOMAIN book
                 /\ book'[op].art = book[op].art
                 /\ book'[op].announce_height = book[op].announce_height
                 /\ \/ book'[op] = book[op]
                    \/ /\ book[op].status = "Open"
                       /\ book'[op].last_event_height = indexed + 1
                       /\ book'[op].status # "Open"
        <5>1. /\ book[op].announce_height <= valid
              /\ book[op].last_event_height <= indexed
              /\ book[op].last_event_height \in Nat
          BY <3>1, <4>2, BookOfType
        <5>2. /\ 1 <= book[op].announce_height
              /\ book[op].art \in chain[book[op].announce_height].new
              /\ \A h \in 1 .. valid :
                   book[op].status = "Open" \/ h < book[op].last_event_height
                   => ~SpentIn(op, chain[h]) /\ h <= book[op].art.expiry
          BY <4>2, <5>1 DEF LiveUntilResolved, Standing
        <5>3. ASSUME NEW h \in 1 .. indexed + 1,
                     book'[op].status = "Open" \/ h < book'[op].last_event_height
              PROVE  ~SpentIn(op, chain[h]) /\ h <= book'[op].art.expiry
          <6>1. CASE h \in 1 .. indexed
            BY <3>1, <4>2, <5>2, <5>3, <6>1
          <6>2. CASE h = indexed + 1
            BY <3>1, <4>1, <4>2, <5>1, <5>3, <6>2
          <6> QED
            BY <3>1, <6>1, <6>2
        <5> QED
          BY <4>2, <5>2, <5>3
      <4>3. CASE /\ book'[op].art \in chain[indexed + 1].new
                 /\ validate(book'[op].art, indexed + 1)
                 /\ book'[op].announce_height = indexed + 1
                 /\ book'[op].last_event_height = indexed + 1
        <5>1. book'[op].art \in Artifacts /\ book'[op].art.op = op
          <6>1. BookType(book')
            BY <2>3, IndexEffect
          <6> QED
            BY <6>1 DEF BookType, Orders
        <5>2. book'[op].art.expiry \in Nat
          BY <5>1
        <5>3. /\ indexed + 1 <= book'[op].art.expiry
              /\ \A h \in 1 .. Len(chain) : ~SpentIn(op, chain[h])
          BY <4>3, <5>1 DEF validate, get_utxo, Unspent, NeverSpent
        <5>4. Len(chain) \in Nat
          BY DEF TypeOK
        <5> QED
          BY <3>1, <4>3, <5>2, <5>3, <5>4
      <4> QED
        BY <2>3, <4>2, <4>3, IndexEffect
    <3> QED
      BY <3>1, <3>2 DEF LiveUntilResolved, Standing, SpentIn
  <2>4. CASE UNCHANGED vars
    BY <2>4 DEF vars, LiveUntilResolved, Standing, SpentIn
  <2> QED
    BY <2>1, <2>2, <2>3, <2>4 DEF Next
<1> QED
  BY <1>1, <1>2, TypeCorrect, PTL DEF Spec

-----------------------------------------------------------------------------
(* What index_block makes of each record, exactly. *)

\* How a block ends an order: by a spend that fills or cancels it, or because
\* the block's height is above the order's expiry.
Ends(op, art, block, height) == SpentIn(op, block) \/ height > art.expiry
Verdict(op, art, block) ==
    IF ~SpentIn(op, block) THEN "Expired"
    ELSE IF \E s \in block.spends : s.op = op /\ is_fill(s, art)
         THEN "Filled" ELSE "Cancelled"
Settle(op, order, block, height) ==
    IF order.status = "Open" /\ Ends(op, order.art, block, height)
    THEN Resolve(order, Verdict(op, order.art, block), height)
    ELSE order

\* Spends before expiry: an order that is spent at a height above its expiry is
\* filled or cancelled, not expired.
LEMMA SettledExactly ==
    ASSUME NEW orders, BookType(orders), NEW block, NEW height \in Nat,
           NEW op \in DOMAIN orders
    PROVE  expire(on_spends(orders, block.spends, height), height)[op]
             = Settle(op, orders[op], block, height)
<1> DEFINE order == orders[op]
           spent == on_spends(orders, block.spends, height)
           next == expire(spent, height)
           status == IF \E s \in block.spends : s.op = op /\ is_fill(s, order.art)
                     THEN "Filled" ELSE "Cancelled"
<1>1. order \in Orders /\ order.art.expiry \in Nat
  BY DEF BookType, Orders
<1>2. DOMAIN spent = DOMAIN orders
  BY DEF on_spends
<1>3. next[op] = IF spent[op].status = "Open" /\ height > spent[op].art.expiry
                 THEN Resolve(spent[op], "Expired", height) ELSE spent[op]
  BY <1>2 DEF expire
<1>4. spent[op] = IF order.status = "Open" /\ SpentIn(op, block)
                  THEN Resolve(order, status, height) ELSE order
  BY DEF on_spends, SpentIn
<1>5. status \in OrderStatus /\ status # "Open"
  BY DEF OrderStatus
<1>6. Resolve(order, status, height).status = status
  <2> HIDE DEF status, order
  <2> QED
    BY <1>1, <1>5, ResolveType
<1> HIDE DEF next, spent
<1>7. CASE order.status = "Open" /\ SpentIn(op, block)
  <2>1. spent[op] = Resolve(order, status, height)
    BY <1>4, <1>7
  <2>2. next[op] = Resolve(order, status, height)
    BY <1>3, <1>5, <1>6, <2>1
  <2> QED
    BY <1>7, <2>2 DEF Settle, Ends, Verdict, next, spent
<1>8. CASE ~(order.status = "Open" /\ SpentIn(op, block))
  <2>1. spent[op] = order
    BY <1>4, <1>8
  <2>2. next[op] = IF order.status = "Open" /\ height > order.art.expiry
                   THEN Resolve(order, "Expired", height) ELSE order
    BY <1>3, <2>1
  <2> QED
    BY <1>8, <2>2 DEF Settle, Ends, Verdict, next, spent
<1> QED
  BY <1>7, <1>8

LEMMA SettleType ==
    ASSUME NEW op, NEW order \in Orders, NEW block, NEW height \in Nat
    PROVE  LET next == Settle(op, order, block, height)
               closed == order.status = "Open" /\ Ends(op, order.art, block, height)
           IN /\ ~closed => next = order
              /\ closed => /\ next.art = order.art
                           /\ next.announce_height = order.announce_height
                           /\ next.last_event_height = height
                           /\ next.status = Verdict(op, order.art, block)
                           /\ next.status # "Open"
<1>1. Verdict(op, order.art, block) \in OrderStatus \ {"Open"}
  BY DEF Verdict, OrderStatus
<1>2. LET next == Resolve(order, Verdict(op, order.art, block), height)
      IN /\ next.art = order.art
         /\ next.announce_height = order.announce_height
         /\ next.last_event_height = height
         /\ next.status = Verdict(op, order.art, block)
  BY <1>1, ResolveType
<1> QED
  BY <1>1, <1>2 DEF Settle

\* An admitted artifact always makes a new record; other records stay.
LEMMA AdmittedExactly ==
    ASSUME NEW orders, NEW arts, NEW height, NEW op
    PROVE  LET new == on_new_orders(orders, arts, height)
           IN /\ op \in DOMAIN new <=> \/ op \in DOMAIN orders
                                       \/ \E a \in arts : a.op = op
              /\ (\E a \in arts : a.op = op) =>
                   \E a \in arts : a.op = op /\ new[op] = NewOrder(a, height)
              /\ op \in DOMAIN orders /\ ~(\E a \in arts : a.op = op) =>
                   new[op] = orders[op]
<1> DEFINE new == on_new_orders(orders, arts, height)
<1>1. DOMAIN new = DOMAIN orders \cup {a.op : a \in arts}
  BY DEF on_new_orders
<1>2. CASE \E a \in arts : a.op = op
  <2> DEFINE b == CHOOSE a \in arts : a.op = op
  <2>1. b \in arts /\ b.op = op
    BY <1>2
  <2>2. new[op] = NewOrder(b, height)
    BY <1>1, <1>2 DEF on_new_orders
  <2> QED
    BY <1>1, <1>2, <2>1, <2>2
<1>3. CASE ~ \E a \in arts : a.op = op
  BY <1>1, <1>3 DEF on_new_orders
<1> QED
  BY <1>2, <1>3

\* index_block, offer by offer: a valid artifact of the block opens a new
\* record, which no spend or expiry of the same block can end; any other record
\* is settled by the block.
LEMMA IndexExact ==
    ASSUME TypeOK, IndexBlock, NEW op
    PROVE  \/ \E a \in chain[indexed + 1].new :
                /\ a.op = op /\ validate(a, indexed + 1)
                /\ op \in DOMAIN book'
                /\ book'[op] = NewOrder(a, indexed + 1)
                /\ op \in DOMAIN book => op \in disturbed'
           \/ /\ ~ \E a \in chain[indexed + 1].new :
                     a.op = op /\ validate(a, indexed + 1)
              /\ op \in DOMAIN book' <=> op \in DOMAIN book
              /\ op \in DOMAIN book =>
                   book'[op] = Settle(op, book[op], chain[indexed + 1], indexed + 1)
<1> DEFINE height == indexed + 1
           block == chain[height]
           arts == {a \in block.new : validate(a, height)}
           admitted == on_new_orders(book, arts, height)
<1>1. height \in Nat /\ height \in 1 .. Len(chain) /\ BookType(book) /\ Len(chain) \in Nat
  BY BookOfType DEF TypeOK, IndexBlock
<1>2. arts \in SUBSET Artifacts
  BY <1>1, BlockType
<1>3. book' = expire(on_spends(admitted, block.spends, height), height)
  BY DEF IndexBlock
<1>4. disturbed' = disturbed
         \cup {a.op : a \in {b \in arts : b.op \in DOMAIN book}}
         \cup {a.op : a \in {b \in block.new \cap Authentic :
                                ~get_utxo(b.op) /\ Unspent(b.op, height)}}
  BY DEF IndexBlock
<1> HIDE DEF height, arts, block
<1>5. BookType(admitted)
  BY <1>1, <1>2, AdmittedType
<1>6. DOMAIN book' = DOMAIN admitted
  BY <1>3 DEF expire, on_spends
<1>7. op \in DOMAIN admitted =>
         book'[op] = Settle(op, admitted[op], block, height)
  <2> HIDE DEF admitted
  <2> QED
    BY <1>1, <1>3, <1>5, SettledExactly
<1>8. CASE \E a \in arts : a.op = op
  <2>1. PICK a \in arts : a.op = op /\ admitted[op] = NewOrder(a, height)
    BY <1>8, AdmittedExactly
  <2>2. op \in DOMAIN admitted
    BY <1>8, AdmittedExactly
  <2>3. a \in block.new /\ validate(a, height)
    BY <2>1 DEF arts
  <2>4. height <= a.expiry /\ ~SpentIn(op, block) /\ a.expiry \in Nat
    <3>1. a \in Artifacts
      BY <1>2, <2>1
    <3>2. height <= a.expiry /\ Unspent(op, Len(chain))
      BY <2>1, <2>3 DEF validate, get_utxo
    <3> QED
      BY <1>1, <3>1, <3>2 DEF Unspent, NeverSpent, block
  <2>5. admitted[op].art = a
    BY <2>1 DEF NewOrder
  <2>6. ~Ends(op, admitted[op].art, block, height)
    BY <1>1, <2>4, <2>5 DEF Ends
  <2>7. book'[op] = NewOrder(a, height)
    BY <1>7, <2>1, <2>2, <2>6 DEF Settle
  <2>8. op \in DOMAIN book => op \in disturbed'
    BY <1>4, <2>1
  <2> QED
    BY <1>6, <2>1, <2>2, <2>3, <2>7, <2>8 DEF height, block
<1>9. CASE ~ \E a \in arts : a.op = op
  <2>1. /\ op \in DOMAIN admitted <=> op \in DOMAIN book
        /\ op \in DOMAIN book => admitted[op] = book[op]
    BY <1>9, AdmittedExactly
  <2>2. ~ \E a \in block.new : a.op = op /\ validate(a, height)
    BY <1>9 DEF arts
  <2> HIDE DEF admitted
  <2>3. /\ op \in DOMAIN book' <=> op \in DOMAIN book
        /\ op \in DOMAIN book => book'[op] = Settle(op, book[op], block, height)
    BY <1>6, <1>7, <2>1
  <2> QED
    BY <2>2, <2>3 DEF height, block
<1> QED
  BY <1>8, <1>9

-----------------------------------------------------------------------------
(* The inductive invariant. *)

\* Block by block an offer is announced at most once (of several announcements
\* the last valid one counts), so that the artifact of an announcement is
\* determined by its height.
BlocksAnnounceOnce == \A h \in 1 .. Len(chain) : OnePerOffer(chain[h].new)

\* An offer that is not disturbed has one announcement on the indexed part of
\* the active chain, and the book has its record.
AnnouncedOnce ==
    \A op \in Outpoints \ disturbed : \A h \in 1 .. valid :
        Admissible(op, h) # {} =>
            op \in DOMAIN book /\ book[op].announce_height = h

\* Conversely every record whose block is still on the active chain was taken
\* from there, and unless it was admitted early its offer existed by then.
TakenFromChain ==
    \A op \in DOMAIN book \ early :
        book[op].announce_height <= valid =>
            /\ book[op].announce_height \in 1 .. valid
            /\ book[op].art \in Admissible(op, book[op].announce_height)

\* And every resolved order was ended by the block that it names.
ResolvedByChain ==
    \A op \in DOMAIN book :
        book[op].status # "Open" /\ book[op].last_event_height <= valid =>
            LET height == book[op].last_event_height
            IN /\ book[op].announce_height < height
               /\ Ends(op, book[op].art, chain[height], height)
               /\ book[op].status = Verdict(op, book[op].art, chain[height])

ProjectionInv ==
    /\ BlocksAnnounceOnce
    /\ AnnouncedOnce
    /\ TakenFromChain
    /\ ResolvedByChain

\* A change of the chain above the indexed part changes nothing below it.
LEMMA ChainStep ==
    ASSUME TypeOK, ProjectionInv,
           (\E created \in Creations, new \in Announcements, spends \in Settlements :
                Mine(created, new, spends))
             \/ (\E height \in 0 .. MaxHeight : Reorg(height))
    PROVE  ProjectionInv'
<1>1. /\ valid' \in 0 .. valid /\ valid \in Nat
      /\ \A h \in 1 .. valid' : chain'[h] = chain[h]
      /\ UNCHANGED <<indexed, book, disturbed, early>>
  BY ChainKept DEF TypeOK
<1>2. BlocksAnnounceOnce'
  <2>1. ASSUME NEW created \in Creations, NEW new \in Announcements,
               NEW spends \in Settlements, Mine(created, new, spends)
        PROVE  BlocksAnnounceOnce'
    <3> DEFINE block == [created |-> created, new |-> new, spends |-> spends]
    <3>1. chain' = Append(chain, block) /\ chain \in Seq(Blocks)
      BY <2>1 DEF Mine, TypeOK
    <3>2. block \in Blocks /\ block.new = new
      BY DEF Creations, Announcements, Settlements, Blocks
    <3>3. OnePerOffer(new)
      BY DEF Announcements
    <3> HIDE DEF block
    <3>4. /\ Len(chain') = Len(chain) + 1
          /\ \A i \in 1 .. Len(chain) : chain'[i] = chain[i]
          /\ chain'[Len(chain) + 1] = block
      BY <3>1, <3>2, AppendProperties
    <3>5. Len(chain) \in Nat
      BY <3>1
    <3>6. ASSUME NEW h \in 1 .. Len(chain')
          PROVE  \A x, y \in chain'[h].new : x.op = y.op => x = y
      <4>1. CASE h \in 1 .. Len(chain)
        BY <3>4, <4>1 DEF ProjectionInv, BlocksAnnounceOnce, OnePerOffer
      <4>2. CASE h = Len(chain) + 1
        BY <3>2, <3>3, <3>4, <4>2 DEF OnePerOffer
      <4> QED
        BY <3>4, <3>5, <4>1, <4>2
    <3> QED
      BY <3>6 DEF BlocksAnnounceOnce, OnePerOffer
  <2>2. ASSUME NEW height \in 0 .. MaxHeight, Reorg(height)
        PROVE  BlocksAnnounceOnce'
    <3>1. /\ chain \in Seq(Blocks) /\ height \in Nat /\ height < Len(chain)
          /\ chain' = SubSeq(chain, 1, height)
      BY <2>2 DEF TypeOK, Reorg
    <3>2. \A i \in 1 .. height : chain[i] \in Blocks
      BY <3>1
    <3>3. Len(chain') = height /\ \A i \in 1 .. height : chain'[i] = chain[i]
      BY <3>1, <3>2, SubSeqProperties
    <3> QED
      BY <3>1, <3>3 DEF ProjectionInv, BlocksAnnounceOnce, OnePerOffer
  <2> QED
    BY <2>1, <2>2
<1>3. \A h \in 1 .. valid' : 1 .. h \subseteq 1 .. valid'
  BY <1>1
<1>4. ASSUME NEW op, NEW h \in 1 .. valid'
      PROVE  Admissible(op, h)' = Admissible(op, h)
  BY <1>1, <1>3 DEF Admissible, Unspent, Created, NeverSpent, SpentIn
<1>5. AnnouncedOnce'
  <2> SUFFICES ASSUME NEW op \in Outpoints \ disturbed, NEW h \in 1 .. valid',
                      Admissible(op, h)' # {}
               PROVE  op \in DOMAIN book /\ book[op].announce_height = h
    BY <1>1 DEF AnnouncedOnce
  <2>1. Admissible(op, h) # {} /\ h \in 1 .. valid
    BY <1>1, <1>4
  <2> QED
    BY <2>1 DEF ProjectionInv, AnnouncedOnce
<1>6. TakenFromChain'
  <2> SUFFICES ASSUME NEW op \in DOMAIN book \ early, book[op].announce_height <= valid'
               PROVE  /\ book[op].announce_height \in 1 .. valid'
                      /\ book[op].art \in Admissible(op, book[op].announce_height)'
    BY <1>1 DEF TakenFromChain
  <2> DEFINE h == book[op].announce_height
  <2>1. h \in Nat
    BY BookOfType
  <2>2. h <= valid
    BY <1>1, <2>1
  <2>3. h \in 1 .. valid /\ book[op].art \in Admissible(op, h)
    BY <2>2 DEF ProjectionInv, TakenFromChain
  <2>4. h \in 1 .. valid'
    BY <1>1, <2>3
  <2> QED
    BY <1>1, <1>4, <2>3, <2>4
<1>7. ResolvedByChain'
  <2> SUFFICES ASSUME NEW op \in DOMAIN book, book[op].status # "Open",
                      book[op].last_event_height <= valid'
               PROVE  LET height == book[op].last_event_height
                      IN /\ book[op].announce_height < height
                         /\ Ends(op, book[op].art, chain'[height], height)
                         /\ book[op].status = Verdict(op, book[op].art, chain'[height])
    BY <1>1 DEF ResolvedByChain, Ends, Verdict, SpentIn, is_fill
  <2> DEFINE h == book[op].last_event_height
  <2>1. h \in Nat /\ book[op].announce_height \in Nat
    BY BookOfType
  <2>2. h <= valid
    BY <1>1, <2>1
  <2>3. /\ book[op].announce_height < h
        /\ Ends(op, book[op].art, chain[h], h)
        /\ book[op].status = Verdict(op, book[op].art, chain[h])
    BY <2>2 DEF ProjectionInv, ResolvedByChain
  <2>4. chain'[h] = chain[h]
    BY <1>1, <2>1, <2>3
  <2> QED
    BY <2>3, <2>4
<1> QED
  BY <1>2, <1>5, <1>6, <1>7 DEF ProjectionInv

\* A revert drops the records from blocks that are gone and reopens the orders
\* that such blocks had resolved.
LEMMA RevertStep ==
    ASSUME TypeOK, ProjectionInv, RevertTo
    PROVE  ProjectionInv'
<1>1. UNCHANGED <<chain, valid, disturbed, early>> /\ valid \in Nat
  BY DEF RevertTo, TypeOK
<1>2. BlocksAnnounceOnce'
  BY <1>1 DEF ProjectionInv, BlocksAnnounceOnce, OnePerOffer
<1>3. AnnouncedOnce'
  <2> SUFFICES ASSUME NEW op \in Outpoints \ disturbed, NEW h \in 1 .. valid,
                      Admissible(op, h) # {}
               PROVE  op \in DOMAIN book' /\ book'[op].announce_height = h
    BY <1>1 DEF AnnouncedOnce, Admissible, Unspent, Created, NeverSpent, SpentIn
  <2>1. op \in DOMAIN book /\ book[op].announce_height = h
    BY DEF ProjectionInv, AnnouncedOnce
  <2>2. book' = revert_to(book, valid)
    BY DEF RevertTo
  <2>3. DOMAIN book' = {o \in DOMAIN book : book[o].announce_height <= valid}
    BY <2>2 DEF revert_to
  <2>4. op \in DOMAIN book'
    BY <1>1, <2>1, <2>3
  <2> QED
    BY <2>1, <2>4, RevertEffect
<1>4. TakenFromChain'
  <2> SUFFICES ASSUME NEW op \in DOMAIN book' \ early
               PROVE  /\ book'[op].announce_height \in 1 .. valid
                      /\ book'[op].art \in Admissible(op, book'[op].announce_height)
    BY <1>1 DEF TakenFromChain, Admissible, Unspent, Created, NeverSpent, SpentIn
  <2>1. /\ op \in DOMAIN book
        /\ book[op].announce_height <= valid
        /\ book'[op].art = book[op].art
        /\ book'[op].announce_height = book[op].announce_height
    BY RevertEffect
  <2> QED
    BY <2>1 DEF ProjectionInv, TakenFromChain
<1>5. ResolvedByChain'
  <2> SUFFICES ASSUME NEW op \in DOMAIN book', book'[op].status # "Open"
               PROVE  LET height == book'[op].last_event_height
                      IN /\ book'[op].announce_height < height
                         /\ Ends(op, book'[op].art, chain[height], height)
                         /\ book'[op].status = Verdict(op, book'[op].art, chain[height])
    BY <1>1 DEF ResolvedByChain, Ends, Verdict, SpentIn, is_fill
  <2>1. /\ op \in DOMAIN book
        /\ book'[op] = book[op]
        /\ book[op].last_event_height <= valid
    BY RevertEffect
  <2> QED
    BY <2>1 DEF ProjectionInv, ResolvedByChain
<1> QED
  BY <1>2, <1>3, <1>4, <1>5 DEF ProjectionInv

\* A block opens and resolves orders as it says, and what it says of a disturbed
\* offer does not matter.
LEMMA IndexStep ==
    ASSUME TypeOK, ProjectionInv, IndexBlock
    PROVE  ProjectionInv'
<1> DEFINE height == indexed + 1
           block == chain[height]
<1>1. /\ valid = indexed /\ valid' = height /\ chain' = chain
      /\ indexed \in Nat /\ height \in 1 .. Len(chain) /\ Len(chain) \in Nat
  BY DEF IndexBlock, TypeOK
<1>2. /\ disturbed \subseteq disturbed'
      /\ early \subseteq early'
      /\ \A a \in block.new : validate(a, height) /\ a.op \notin early' => Unspent(a.op, height)
  BY DEF IndexBlock
<1>3. \A h \in 1 .. height : h \in 1 .. indexed \/ h = height
  BY <1>1
<1>4. ASSUME NEW op
      PROVE  \/ \E a \in block.new :
                   /\ a.op = op /\ validate(a, height)
                   /\ op \in DOMAIN book'
                   /\ book'[op] = NewOrder(a, height)
                   /\ op \in DOMAIN book => op \in disturbed'
             \/ /\ ~ \E a \in block.new : a.op = op /\ validate(a, height)
                /\ op \in DOMAIN book' <=> op \in DOMAIN book
                /\ op \in DOMAIN book =>
                     book'[op] = Settle(op, book[op], block, height)
  BY IndexExact
<1>5. ASSUME NEW op \in DOMAIN book
      PROVE  /\ book[op] \in Orders
             /\ book[op].announce_height \in Nat
             /\ book[op].last_event_height \in Nat
             /\ book[op].announce_height <= indexed
             /\ book[op].last_event_height <= indexed
  <2>1. BookType(book)
    BY BookOfType
  <2> QED
    BY <1>1, <2>1, BookOfType DEF BookType
<1>6. ASSUME NEW op \in DOMAIN book,
             book'[op] = Settle(op, book[op], block, height)
      PROVE  /\ book'[op].art = book[op].art
             /\ book'[op].announce_height = book[op].announce_height
             /\ \/ book'[op] = book[op]
                \/ /\ book'[op].last_event_height = height
                   /\ Ends(op, book[op].art, block, height)
                   /\ book'[op].status = Verdict(op, book[op].art, block)
  <2>1. book[op] \in Orders /\ height \in Nat
    BY <1>1, <1>5
  <2> HIDE DEF height, block
  <2> QED
    BY <1>6, <2>1, SettleType
<1>7. BlocksAnnounceOnce'
  BY <1>1 DEF ProjectionInv, BlocksAnnounceOnce, OnePerOffer
<1>8. AnnouncedOnce'
  <2> SUFFICES ASSUME NEW op \in Outpoints \ disturbed', NEW h \in 1 .. height,
                      Admissible(op, h) # {}
               PROVE  op \in DOMAIN book' /\ book'[op].announce_height = h
    BY <1>1 DEF AnnouncedOnce, Admissible, Unspent, Created, NeverSpent, SpentIn
  <2> HIDE DEF height, block
  <2>1. CASE h \in 1 .. indexed
    <3>1. op \in DOMAIN book /\ book[op].announce_height = h
      BY <1>1, <1>2, <2>1 DEF ProjectionInv, AnnouncedOnce
    <3>2. op \in DOMAIN book' /\ book'[op] = Settle(op, book[op], block, height)
      BY <1>4, <3>1
    <3> QED
      BY <1>6, <3>1, <3>2
  <2>2. CASE h = height
    <3>1. PICK a \in Admissible(op, height) : TRUE
      BY <2>2
    <3>2. /\ a \in block.new /\ a \in Authentic /\ a.op = op
          /\ height <= a.expiry /\ Unspent(op, height)
      BY <3>1 DEF Admissible, block
    <3>3. get_utxo(a.op)
      <4>1. disturbed' = disturbed
               \cup {b.op : b \in {c \in {d \in block.new : validate(d, height)} :
                                     c.op \in DOMAIN book}}
               \cup {b.op : b \in {c \in block.new \cap Authentic :
                                     ~get_utxo(c.op) /\ Unspent(c.op, height)}}
        BY DEF IndexBlock, height, block
      <4>2. a \in block.new \cap Authentic /\ Unspent(a.op, height)
        BY <3>2
      <4> QED
        BY <3>2, <4>1, <4>2
    <3>4. validate(a, height)
      BY <3>2, <3>3 DEF validate
    <3>5. \E b : op \in DOMAIN book' /\ book'[op] = NewOrder(b, height)
      BY <1>4, <3>2, <3>4
    <3> QED
      BY <2>2, <3>5 DEF NewOrder
  <2> QED
    BY <1>3, <2>1, <2>2
<1>9. TakenFromChain'
  <2> SUFFICES ASSUME NEW op \in DOMAIN book' \ early'
               PROVE  /\ book'[op].announce_height \in 1 .. height
                      /\ book'[op].art \in Admissible(op, book'[op].announce_height)
    BY <1>1 DEF TakenFromChain, Admissible, Unspent, Created, NeverSpent, SpentIn
  <2>1. ASSUME NEW a \in block.new, a.op = op, validate(a, height),
               book'[op] = NewOrder(a, height)
        PROVE  /\ book'[op].announce_height \in 1 .. height
               /\ book'[op].art \in Admissible(op, book'[op].announce_height)
    <3>1. book'[op].announce_height = height /\ book'[op].art = a
      BY <2>1 DEF NewOrder
    <3>2. a \in Authentic /\ height <= a.expiry
      BY <2>1 DEF validate
    <3>3. Unspent(op, height)
      BY <1>2, <2>1
    <3>4. a \in Admissible(op, height)
      BY <2>1, <3>2, <3>3 DEF Admissible
    <3> QED
      BY <1>1, <3>1, <3>4
  <2>2. CASE op \in DOMAIN book /\ book'[op] = Settle(op, book[op], block, height)
    <3>1. /\ book'[op].art = book[op].art
          /\ book'[op].announce_height = book[op].announce_height
      BY <1>6, <2>2
    <3>2. /\ book[op].announce_height \in 1 .. valid
          /\ book[op].art \in Admissible(op, book[op].announce_height)
      BY <1>1, <1>2, <1>5, <2>2 DEF ProjectionInv, TakenFromChain
    <3> QED
      BY <1>1, <3>1, <3>2
  <2> HIDE DEF height, block
  <2> QED
    BY <1>4, <2>1, <2>2
<1>10. ResolvedByChain'
  <2> SUFFICES ASSUME NEW op \in DOMAIN book', book'[op].status # "Open"
               PROVE  LET h == book'[op].last_event_height
                      IN /\ book'[op].announce_height < h
                         /\ Ends(op, book'[op].art, chain[h], h)
                         /\ book'[op].status = Verdict(op, book'[op].art, chain[h])
    BY <1>1 DEF ResolvedByChain, Ends, Verdict, SpentIn, is_fill
  <2> HIDE DEF height, block
  <2>1. \A a : NewOrder(a, height).status = "Open"
    BY DEF NewOrder
  <2>2. op \in DOMAIN book /\ book'[op] = Settle(op, book[op], block, height)
    BY <1>4, <2>1
  <2>3. CASE book'[op] = book[op]
    BY <1>1, <1>5, <2>2, <2>3 DEF ProjectionInv, ResolvedByChain
  <2>4. CASE /\ book'[op].last_event_height = height
             /\ Ends(op, book[op].art, block, height)
             /\ book'[op].status = Verdict(op, book[op].art, block)
    <3>1. /\ book'[op].art = book[op].art
          /\ book'[op].announce_height = book[op].announce_height
      BY <1>6, <2>2
    <3>2. book[op].announce_height < height
      BY <1>1, <1>5, <2>2 DEF height
    <3> QED
      BY <2>4, <3>1, <3>2 DEF block
  <2> QED
    BY <1>6, <2>2, <2>3, <2>4
<1> QED
  BY <1>7, <1>8, <1>9, <1>10 DEF ProjectionInv

LEMMA ProjectionInvHolds == Spec => []ProjectionInv
<1>1. Init => ProjectionInv
  BY DEF Init, ProjectionInv, BlocksAnnounceOnce, AnnouncedOnce, TakenFromChain,
         ResolvedByChain
<1>2. TypeOK /\ ProjectionInv /\ [Next]_vars => ProjectionInv'
  <2> SUFFICES ASSUME TypeOK, ProjectionInv, [Next]_vars
               PROVE  ProjectionInv'
    OBVIOUS
  <2>1. CASE UNCHANGED vars
    BY <2>1 DEF vars, ProjectionInv, BlocksAnnounceOnce, AnnouncedOnce, TakenFromChain,
                ResolvedByChain, Admissible, Unspent, Created, NeverSpent, SpentIn, Ends, Verdict,
                OnePerOffer, is_fill
  <2> QED
    BY <2>1, ChainStep, RevertStep, IndexStep DEF Next
<1> QED
  BY <1>1, <1>2, TypeCorrect, PTL DEF Spec

-----------------------------------------------------------------------------
(* The theorems. *)

\* A taker who trusts the book can fill: an order shown as Open was announced
\* on the active chain, no block spends its offer and it has not expired; and
\* unless it was admitted early its offer exists since the announcing block.
THEOREM OpenOrdersAreLive == Spec => []OpenIsLive
<1>1. TypeOK /\ LiveUntilResolved /\ ProjectionInv => OpenIsLive
  <2> SUFFICES ASSUME TypeOK, LiveUntilResolved, ProjectionInv, valid = indexed,
                      NEW op \in DOMAIN book, book[op].status = "Open"
               PROVE  /\ book[op].announce_height \in 1 .. indexed
                      /\ book[op].art \in chain[book[op].announce_height].new
                      /\ NeverSpent(op, indexed)
                      /\ indexed <= book[op].art.expiry
                      /\ op \notin early => Created(op, book[op].announce_height)
    BY DEF OpenIsLive
  <2>1. /\ book[op].announce_height \in Nat
        /\ book[op].announce_height <= indexed
        /\ indexed \in Nat
    BY BookOfType DEF TypeOK
  <2>2. /\ 1 <= book[op].announce_height
        /\ book[op].art \in chain[book[op].announce_height].new
        /\ \A h \in 1 .. indexed :
             ~SpentIn(op, chain[h]) /\ h <= book[op].art.expiry
    BY <2>1 DEF LiveUntilResolved, Standing
  <2>3. op \notin early => Created(op, book[op].announce_height)
    BY <2>1 DEF ProjectionInv, TakenFromChain, Admissible, Unspent
  <2> QED
    BY <2>1, <2>2, <2>3 DEF NeverSpent
<1> QED
  BY <1>1, TypeCorrect, LiveInvariant, ProjectionInvHolds, PTL

LEMMA OrderFields ==
    ASSUME NEW order \in Orders
    PROVE  order = [art |-> order.art, status |-> order.status,
                    announce_height |-> order.announce_height,
                    last_event_height |-> order.last_event_height]
BY DEF Orders

LEMMA ResolvedRecord ==
    ASSUME NEW art \in Artifacts, NEW status \in OrderStatus,
           NEW from \in Nat, NEW end \in Nat
    PROVE  Resolve(NewOrder(art, from), status, end)
             = [art |-> art, status |-> status,
                announce_height |-> from, last_event_height |-> end]
<1> DEFINE opened == NewOrder(art, from)
           order == Resolve(opened, status, end)
<1>1. opened \in Orders /\ opened.art = art /\ opened.announce_height = from
  BY NewOrderType DEF NewOrder
<1> HIDE DEF opened
<1>2. /\ order \in Orders /\ order.art = art /\ order.status = status
      /\ order.announce_height = from /\ order.last_event_height = end
  BY <1>1, ResolveType
<1> HIDE DEF order
<1>3. order = [art |-> art, status |-> status,
               announce_height |-> from, last_event_height |-> end]
  BY <1>2, OrderFields
<1> QED
  BY <1>3 DEF order, opened

\* Projection, once the announcement is known.
ProjectionOf(op, from, art) ==
    LET ends == {k \in from .. indexed : SpentIn(op, chain[k]) \/ k > art.expiry}
        end == Least(ends)
        order == NewOrder(art, from)
    IN IF ends = {} THEN order
       ELSE IF ~SpentIn(op, chain[end]) THEN Resolve(order, "Expired", end)
       ELSE IF \E s \in chain[end].spends : s.op = op /\ is_fill(s, art)
            THEN Resolve(order, "Filled", end)
            ELSE Resolve(order, "Cancelled", end)

\* What the active chain says of the order of an offer, in the terms of the
\* book: the extreme elements that Projection chooses are the record's heights.
LEMMA Projected ==
    ASSUME TypeOK, OpenIsUntouched, LiveUntilResolved, ProjectionInv,
           valid = indexed, NEW op \in Outpoints \ (disturbed \cup early),
           op \in DOMAIN book
    PROVE  book[op] = Projection(op)
<1> DEFINE order == book[op]
           from == order.announce_height
           ends == {k \in from .. indexed : SpentIn(op, chain[k]) \/ k > order.art.expiry}
           end == order.last_event_height
<1>1. /\ order \in Orders /\ from \in Nat /\ end \in Nat
      /\ order.art.expiry \in Nat /\ order.art \in Artifacts
      /\ from <= end /\ end <= indexed /\ from <= indexed
      /\ indexed \in Nat /\ indexed <= Len(chain) /\ Len(chain) \in Nat
  <2>1. BookType(book)
    BY BookOfType
  <2>2. order \in Orders
    BY <2>1 DEF BookType
  <2>3. indexed \in Nat /\ indexed <= Len(chain) /\ Len(chain) \in Nat
    BY DEF TypeOK
  <2> QED
    BY <2>2, <2>3, BookOfType
<1>2. from \in 1 .. indexed /\ order.art \in Admissible(op, from)
  BY <1>1 DEF ProjectionInv, TakenFromChain
<1>3. Announced(op) = {from}
  <2>1. \A h \in 1 .. indexed : Admissible(op, h) # {} => h = from
    BY DEF ProjectionInv, AnnouncedOnce
  <2> QED
    BY <1>2, <2>1 DEF Announced
<1>4. Greatest(Announced(op)) = from
  BY <1>1, <1>3 DEF Greatest
<1>5. (CHOOSE a \in Admissible(op, from) : TRUE) = order.art
  <2>1. \A x, y \in chain[from].new : x.op = y.op => x = y
    BY <1>1, <1>2 DEF ProjectionInv, BlocksAnnounceOnce, OnePerOffer
  <2>2. \A a \in Admissible(op, from) : a = order.art
    BY <1>2, <2>1 DEF Admissible
  <2> QED
    BY <1>2, <2>2
<1>6. \A h \in 1 .. indexed :
         order.status = "Open" \/ h < end => ~SpentIn(op, chain[h]) /\ h <= order.art.expiry
  BY <1>1 DEF LiveUntilResolved, Standing
<1>7. Projection(op) = ProjectionOf(op, from, order.art)
  <2> DEFINE latest == Greatest(Announced(op))
             announcement == CHOOSE a \in Admissible(op, latest) : TRUE
  <2>1. Projection(op) = ProjectionOf(op, latest, announcement)
    BY DEF Projection, ProjectionOf
  <2>2. latest = from /\ announcement = order.art
    BY <1>4, <1>5
  <2> HIDE DEF latest, announcement
  <2> QED
    BY <2>1, <2>2
<1>8. order = [art |-> order.art, status |-> order.status,
               announce_height |-> from, last_event_height |-> end]
  BY <1>1, OrderFields
<1>9. CASE order.status = "Open"
  <2>1. ends = {}
    BY <1>1, <1>2, <1>6, <1>9
  <2>2. end = from
    BY <1>9 DEF OpenIsUntouched
  <2>3. order = NewOrder(order.art, from)
    BY <1>8, <1>9, <2>2 DEF NewOrder
  <2> QED
    BY <1>7, <2>1, <2>3 DEF ProjectionOf
<1>10. CASE order.status # "Open"
  <2>1. /\ from < end
        /\ SpentIn(op, chain[end]) \/ end > order.art.expiry
        /\ order.status = Verdict(op, order.art, chain[end])
    BY <1>1, <1>10 DEF ProjectionInv, ResolvedByChain, Ends
  <2>2. end \in ends
    BY <1>1, <2>1
  <2>3. \A k \in ends : end <= k
    <3> TAKE k \in ends
    <3>1. k \in 1 .. indexed /\ (SpentIn(op, chain[k]) \/ k > order.art.expiry)
      BY <1>1, <1>2
    <3> QED
      BY <1>1, <1>6, <3>1
  <2>4. Least(ends) = end
    <3>1. \A k \in ends : k \in Nat
      BY <1>1
    <3> HIDE DEF ends
    <3> QED
      BY <1>1, <2>2, <2>3, <3>1 DEF Least
  <2>5. Resolve(NewOrder(order.art, from), order.status, end)
          = [art |-> order.art, status |-> order.status,
             announce_height |-> from, last_event_height |-> end]
    <3>1. order.status \in OrderStatus
      BY <1>1 DEF Orders
    <3> HIDE DEF order, from, end
    <3> QED
      BY <1>1, <3>1, ResolvedRecord
  <2>6. order = Resolve(NewOrder(order.art, from), order.status, end)
    BY <1>8, <2>5
  <2>7. Projection(op) = Resolve(NewOrder(order.art, from),
                                 Verdict(op, order.art, chain[end]), end)
    BY <1>7, <2>2, <2>4 DEF ProjectionOf, Verdict
  <2> QED
    BY <2>1, <2>6, <2>7
<1> QED
  BY <1>9, <1>10

\* The book is a projection of the chain: whatever was indexed, reverted and
\* indexed again, it holds the very orders that the active chain determines,
\* but for offers announced twice or judged by a later tip.
THEOREM BookIsDetermined == Spec => []BookIsProjection
<1>1. TypeOK /\ OpenIsUntouched /\ LiveUntilResolved /\ ProjectionInv
        => BookIsProjection
  <2> SUFFICES ASSUME TypeOK, OpenIsUntouched, LiveUntilResolved, ProjectionInv,
                      valid = indexed, NEW op \in Outpoints \ (disturbed \cup early)
               PROVE  /\ op \in DOMAIN book <=> Announced(op) # {}
                      /\ op \in DOMAIN book => book[op] = Projection(op)
    BY DEF BookIsProjection
  <2>1. op \in DOMAIN book => Announced(op) # {}
    <3> SUFFICES ASSUME op \in DOMAIN book
                 PROVE  Announced(op) # {}
      OBVIOUS
    <3>1. /\ book[op].announce_height \in Nat /\ book[op].last_event_height \in Nat
          /\ book[op].announce_height <= book[op].last_event_height
          /\ book[op].last_event_height <= indexed /\ indexed \in Nat
      BY BookOfType DEF TypeOK
    <3>2. /\ book[op].announce_height \in 1 .. indexed
          /\ Admissible(op, book[op].announce_height) # {}
      BY <3>1 DEF ProjectionInv, TakenFromChain
    <3> QED
      BY <3>2 DEF Announced
  <2>2. Announced(op) # {} => op \in DOMAIN book
    BY DEF Announced, ProjectionInv, AnnouncedOnce
  <2> QED
    BY <2>1, <2>2, Projected
<1> QED
  BY <1>1, TypeInvariant, LiveInvariant, ProjectionInvHolds, PTL

\* The scan of the same chain has the same open orders as the indexer at its
\* tip, for the offers that one authentic artifact announces; in the direction
\* from the scan to the book only those that existed when they were announced.
THEOREM ScansAgree == Spec => []ScanAgrees
<1>1. TypeOK /\ OpenIsLive /\ LiveUntilResolved /\ ProjectionInv => ScanAgrees
  <2> SUFFICES ASSUME TypeOK, OpenIsLive, LiveUntilResolved, ProjectionInv,
                      valid = indexed, indexed = Len(chain),
                      NEW op \in AnnouncedPlainly
               PROVE  /\ BookOpen(op) => Scan[op] = "Open"
                      /\ /\ op \notin disturbed
                         /\ \A h \in ScanAnnounced(op) : Created(op, h)
                         /\ Scan[op] = "Open"
                         => BookOpen(op)
    BY DEF ScanAgrees
  <2>0. /\ op \in Outpoints
        /\ Cardinality(ScanAnnounced(op)) = 1
        /\ \A h \in ScanAnnounced(op) :
             \A a \in chain[h].new : a.op = op => a \in Authentic
    BY DEF AnnouncedPlainly
  <2>1. indexed \in Nat /\ Len(chain) \in Nat
    BY DEF TypeOK
  <2>2. PICK h : ScanAnnounced(op) = {h}
    <3>1. ScanAnnounced(op) \subseteq 1 .. Len(chain)
      BY DEF ScanAnnounced
    <3>2. IsFiniteSet(1 .. Len(chain))
      BY <2>1, FS_Interval
    <3>3. IsFiniteSet(ScanAnnounced(op))
      BY <3>1, <3>2, FS_Subset
    <3> QED
      BY <2>0, <3>3, FS_Singleton
  <2>3. h \in 1 .. Len(chain) /\ \E a \in chain[h].new : a.op = op
    BY <2>2 DEF ScanAnnounced
  <2> DEFINE art == CHOOSE a \in chain[h].new : a.op = op
  <2>4. /\ art \in chain[h].new /\ art.op = op /\ art \in Authentic
        /\ \A a \in chain[h].new : a.op = op => a = art
    BY <2>0, <2>2, <2>3 DEF ProjectionInv, BlocksAnnounceOnce, OnePerOffer
  <2>5. art.expiry \in Nat
    BY <2>4
  <2> HIDE DEF art
  <2>6. Least(ScanAnnounced(op)) = h
    BY <2>2, <2>3 DEF Least
  <2>7. Scan[op] = ScanStatus(op, art)
    BY <2>0, <2>2, <2>6 DEF Scan, art
  <2>8. Scan[op] = "Open" <=> NeverSpent(op, Len(chain)) /\ Len(chain) <= art.expiry
    <3> DEFINE spends == UNION {{s \in chain[k].spends : s.op = op} : k \in 1 .. Len(chain)}
    <3>1. spends = {} <=> NeverSpent(op, Len(chain))
      BY DEF NeverSpent, SpentIn
    <3>2. ScanStatus(op, art) = "Open" <=> spends = {} /\ ~(Len(chain) > art.expiry)
      BY DEF ScanStatus
    <3> QED
      BY <2>1, <2>5, <2>7, <3>1, <3>2
  <2>9. ASSUME BookOpen(op)
        PROVE  Scan[op] = "Open"
    <3> DEFINE from == book[op].announce_height
    <3>1. /\ from \in 1 .. Len(chain) /\ book[op].art \in chain[from].new
          /\ NeverSpent(op, Len(chain)) /\ Len(chain) <= book[op].art.expiry
      BY <2>9 DEF OpenIsLive, BookOpen
    <3>2. book[op].art.op = op
      BY <2>9 DEF TypeOK, BookOpen
    <3>3. from = h
      BY <2>2, <3>1, <3>2 DEF ScanAnnounced
    <3>4. book[op].art = art
      BY <2>4, <3>1, <3>2, <3>3
    <3> QED
      BY <2>8, <3>1, <3>4
  <2>10. ASSUME op \notin disturbed, Scan[op] = "Open",
                \A k \in ScanAnnounced(op) : Created(op, k)
         PROVE  BookOpen(op)
    <3>1. NeverSpent(op, Len(chain)) /\ Len(chain) <= art.expiry
      BY <2>8, <2>10
    <3>2. Unspent(op, h) /\ h <= art.expiry
      BY <2>1, <2>2, <2>3, <2>5, <2>10, <3>1 DEF Unspent, NeverSpent
    <3>3. art \in Admissible(op, h)
      BY <2>4, <3>2 DEF Admissible
    <3>4. op \in DOMAIN book /\ book[op].announce_height = h
      BY <2>0, <2>3, <2>10, <3>3 DEF ProjectionInv, AnnouncedOnce
    <3>5. /\ book[op].last_event_height \in Nat
          /\ book[op].last_event_height <= indexed
      BY <3>4, BookOfType
    <3>6. book[op].art = art
      <4>1. book[op].art \in chain[h].new
        BY <2>1, <2>3, <3>4 DEF LiveUntilResolved
      <4>2. book[op].art.op = op
        BY <3>4 DEF TypeOK
      <4> QED
        BY <2>4, <4>1, <4>2
    <3>7. ASSUME book[op].status # "Open"
          PROVE  FALSE
      <4> DEFINE k == book[op].last_event_height
      <4>1. h < k /\ (SpentIn(op, chain[k]) \/ k > art.expiry)
        BY <3>4, <3>5, <3>6, <3>7 DEF ProjectionInv, ResolvedByChain, Ends
      <4>2. k \in 1 .. Len(chain)
        BY <2>1, <2>3, <3>5, <4>1
      <4> QED
        BY <2>1, <2>5, <3>1, <4>1, <4>2 DEF NeverSpent
    <3> QED
      BY <3>4, <3>7 DEF BookOpen
  <2> QED
    BY <2>9, <2>10
<1> QED
  BY <1>1, TypeCorrect, OpenOrdersAreLive, LiveInvariant, ProjectionInvHolds, PTL

-----------------------------------------------------------------------------
(* Lists in ascending order: the heights at which the stream has an entry.  *)

\* How many elements are up to k: the place of k.
Rank(S, k) == Cardinality({j \in S : j <= k})

LEMMA RankGrows ==
    ASSUME NEW S \in SUBSET Nat, IsFiniteSet(S), NEW a \in S, NEW b \in S
    PROVE  /\ Rank(S, a) \in 1 .. Cardinality(S)
           /\ a <= b => Rank(S, a) <= Rank(S, b)
           /\ a < b => Rank(S, a) # Rank(S, b)
<1> DEFINE Upto(k) == {j \in S : j <= k}
<1>0. \A k \in S : k \in Nat
  OBVIOUS
<1>1. \A k \in S : /\ IsFiniteSet(Upto(k)) /\ Cardinality(Upto(k)) \in Nat
                   /\ Cardinality(Upto(k)) <= Cardinality(S)
  BY FS_Subset, FS_CardinalityType
<1>2. a \in Upto(a)
  OBVIOUS
<1>3. Cardinality(Upto(a)) # 0
  BY <1>1, <1>2, FS_EmptySet
<1>4. ASSUME a <= b
      PROVE  Upto(a) \in SUBSET Upto(b)
  <2> SUFFICES ASSUME NEW j \in Upto(a)
               PROVE  j \in Upto(b)
    OBVIOUS
  <2> QED
    BY <1>0, <1>4
<1>5. ASSUME NEW A, NEW B, IsFiniteSet(B), A \in SUBSET B
      PROVE  Cardinality(A) <= Cardinality(B) /\ (Cardinality(A) = Cardinality(B) => A = B)
  BY <1>5, FS_Subset
<1> HIDE DEF Upto
<1>6. ASSUME a <= b
      PROVE  /\ Cardinality(Upto(a)) <= Cardinality(Upto(b))
             /\ Cardinality(Upto(a)) = Cardinality(Upto(b)) => Upto(a) = Upto(b)
  BY <1>1, <1>4, <1>5, <1>6
<1>8. a < b => a <= b /\ Upto(a) # Upto(b)
  <2>1. b \in Upto(b) /\ (a < b => b \notin Upto(a))
    BY <1>0 DEF Upto
  <2> QED
    BY <1>0, <2>1
<1>7. Cardinality(S) \in Nat
  BY FS_CardinalityType
<1> QED
  BY <1>1, <1>3, <1>6, <1>7, <1>8 DEF Rank, Upto

\* Every finite set of numbers can be sorted: the ranks number its elements.
LEMMA SortedExists ==
    ASSUME NEW S \in SUBSET Nat, IsFiniteSet(S)
    PROVE  \E s \in SetToSeqs(S) : \A i, j \in DOMAIN s : i < j => s[i] < s[j]
<1> DEFINE n == Cardinality(S)
           rank == [k \in S |-> Rank(S, k)]
           sorted == [i \in 1 .. n |-> CHOOSE k \in S : rank[k] = i]
<1>1. n \in Nat /\ IsFiniteSet(1 .. n) /\ Cardinality(1 .. n) = n
  BY FS_CardinalityType, FS_Interval
<1>2. rank \in [S -> 1 .. n]
  BY RankGrows
<1>3. \A a, b \in S : rank[a] = rank[b] => a = b
  <2> SUFFICES ASSUME NEW a \in S, NEW b \in S, a # b
               PROVE  rank[a] # rank[b]
    OBVIOUS
  <2>1. a < b \/ b < a
    OBVIOUS
  <2>2. CASE a < b
    BY <2>2, RankGrows
  <2>3. CASE b < a
    BY <2>3, RankGrows
  <2> QED
    BY <2>1, <2>2, <2>3
<1> HIDE DEF rank, n
<1>4. rank \in Injection(S, 1 .. n)
  BY <1>2, <1>3, Fun_IsInj
<1>5. rank \in Surjection(S, 1 .. n)
  <2>1. Cardinality(S) = Cardinality(1 .. n)
    BY <1>1 DEF n
  <2> QED
    BY <1>1, <1>4, <2>1, FS_Injection
<1>6. \A i \in 1 .. n : \E k \in S : rank[k] = i
  BY <1>5, Fun_SurjectionProperties
<1>7. \A i \in 1 .. n : sorted[i] \in S /\ rank[sorted[i]] = i
  BY <1>6
<1>8. sorted \in SetToSeqs(S)
  BY <1>7 DEF SetToSeqs, n
<1> HIDE DEF sorted
<1>9. \A i, j \in 1 .. n : i < j => sorted[i] < sorted[j]
  <2> SUFFICES ASSUME NEW i \in 1 .. n, NEW j \in 1 .. n, i < j, ~(sorted[i] < sorted[j])
               PROVE  FALSE
    OBVIOUS
  <2>1. sorted[i] \in S /\ sorted[j] \in S /\ sorted[i] \in Nat /\ sorted[j] \in Nat
    BY <1>7
  <2>2. sorted[j] <= sorted[i]
    BY <2>1
  <2>3. rank[sorted[j]] <= rank[sorted[i]]
    BY <2>1, <2>2, RankGrows DEF rank
  <2> QED
    BY <1>1, <1>7, <2>3
<1>10. DOMAIN sorted = 1 .. n
  BY DEF sorted
<1> QED
  BY <1>8, <1>9, <1>10

\* The list of a finite set in ascending order has each element once.
LEMMA AscendingSorts ==
    ASSUME NEW S \in SUBSET Nat, IsFiniteSet(S)
    PROVE  LET s == Ascending(S)
               n == Cardinality(S)
           IN /\ n \in Nat /\ s \in [1 .. n -> S] /\ s \in Seq(S) /\ Len(s) = n
              /\ \A i, j \in 1 .. n : i < j => s[i] < s[j]
              /\ \A i, j \in 1 .. n : s[i] = s[j] => i = j
              /\ \A x \in S : \E i \in 1 .. n : s[i] = x
<1> DEFINE s == Ascending(S)
           n == Cardinality(S)
<1>1. n \in Nat /\ IsFiniteSet(1 .. n) /\ Cardinality(1 .. n) = n
  BY FS_CardinalityType, FS_Interval
<1>2. /\ s \in SetToSeqs(S)
      /\ \A i, j \in DOMAIN s : i < j => s[i] < s[j]
  BY SortedExists DEF Ascending
<1> HIDE DEF s
<1>3. s \in [1 .. n -> S] /\ \A i, j \in 1 .. n : s[i] = s[j] => i = j
  BY <1>2 DEF SetToSeqs
<1>4. s \in Seq(S) /\ Len(s) = n
  BY <1>1, <1>3
<1>5. s \in Injection(1 .. n, S)
  BY <1>3, Fun_IsInj
<1>6. s \in Surjection(1 .. n, S)
  <2>1. Cardinality(1 .. n) = Cardinality(S)
    BY <1>1
  <2> HIDE DEF n
  <2> QED
    BY <1>5, <2>1, FS_Injection
<1>7. \A x \in S : \E i \in 1 .. n : s[i] = x
  BY <1>6 DEF Surjection
<1> QED
  BY <1>1, <1>2, <1>3, <1>4, <1>7 DEF s

\* In that list the place of an element is its rank.
LEMMA RankOfPlace ==
    ASSUME NEW S \in SUBSET Nat, IsFiniteSet(S), NEW i \in 1 .. Cardinality(S)
    PROVE  Rank(S, Ascending(S)[i]) = i
<1> DEFINE s == Ascending(S)
           n == Cardinality(S)
           Upto == {x \in S : x <= s[i]}
           f == [k \in 1 .. i |-> s[k]]
<1>1. /\ n \in Nat /\ s \in [1 .. n -> S]
      /\ \A j, k \in 1 .. n : j < k => s[j] < s[k]
      /\ \A j, k \in 1 .. n : s[j] = s[k] => j = k
      /\ \A x \in S : \E k \in 1 .. n : s[k] = x
  BY AscendingSorts
<1>2. i \in Nat /\ 1 .. i \subseteq 1 .. n /\ IsFiniteSet(1 .. i) /\ Cardinality(1 .. i) = i
  BY <1>1, FS_Interval
<1> HIDE DEF s, n
<1>3. \A k \in 1 .. n : s[k] \in S /\ s[k] \in Nat
  BY <1>1
<1>4. \A k \in 1 .. n : s[k] <= s[i] <=> k \in 1 .. i
  <2> SUFFICES ASSUME NEW k \in 1 .. n
               PROVE  s[k] <= s[i] <=> k <= i
    BY <1>1, <1>2
  <2>1. i \in 1 .. n /\ i \in Nat /\ k \in Nat /\ s[k] \in Nat /\ s[i] \in Nat
    BY <1>1, <1>2, <1>3 DEF n
  <2>2. CASE k < i
    BY <1>1, <2>1, <2>2
  <2>3. CASE k = i
    BY <2>1, <2>3
  <2>4. CASE i < k
    BY <1>1, <2>1, <2>4
  <2> QED
    BY <2>1, <2>2, <2>3, <2>4
<1>5. f \in Bijection(1 .. i, Upto)
  <2>1. \A k \in 1 .. i : k \in 1 .. n /\ s[k] \in Upto
    BY <1>2, <1>3, <1>4
  <2>2. f \in [1 .. i -> Upto]
    BY <2>1
  <2>3. \A j, k \in 1 .. i : f[j] = f[k] => j = k
    BY <1>1, <2>1
  <2>4. \A x \in Upto : \E k \in 1 .. i : f[k] = x
    BY <1>1, <1>4
  <2> HIDE DEF f, Upto
  <2>5. f \in Injection(1 .. i, Upto)
    BY <2>2, <2>3, Fun_IsInj
  <2>6. f \in Surjection(1 .. i, Upto)
    BY <2>2, <2>4, Fun_IsSurj
  <2> QED
    BY <2>5, <2>6 DEF Bijection
<1>6. ExistsBijection(1 .. i, Upto)
  BY <1>5 DEF ExistsBijection
<1>7. Cardinality(Upto) = i
  BY <1>2, <1>6, FS_Bijection
<1> QED
  BY <1>7 DEF Rank, s

\* Cutting a set at a number cuts its ascending list there.
LEMMA AscendingCut ==
    ASSUME NEW H \in SUBSET Nat, IsFiniteSet(H), NEW v \in Nat,
           NEW G \in SUBSET H, \A h \in H : h \in G <=> h <= v
    PROVE  LET long == Ascending(H)
               short == Ascending(G)
           IN /\ long \in Seq(H) /\ short \in Seq(G)
              /\ Len(short) <= Len(long)
              /\ \A i \in 1 .. Len(short) : short[i] = long[i]
              /\ \A i \in 1 .. Len(long) : i <= Len(short) <=> long[i] <= v
<1> DEFINE long == Ascending(H)
           short == Ascending(G)
<1>1. G \in SUBSET Nat /\ IsFiniteSet(G) /\ Cardinality(G) <= Cardinality(H)
  BY FS_Subset
<1>2. /\ Cardinality(H) \in Nat /\ Len(long) = Cardinality(H) /\ long \in Seq(H)
      /\ \A i \in 1 .. Cardinality(H) : long[i] \in H
  BY AscendingSorts
<1>3. /\ Cardinality(G) \in Nat /\ Len(short) = Cardinality(G) /\ short \in Seq(G)
      /\ \A i \in 1 .. Cardinality(G) : short[i] \in G
  BY <1>1, AscendingSorts
<1>4. \A x \in G : x \in H /\ Rank(G, x) = Rank(H, x)
  <2> SUFFICES ASSUME NEW x \in G
               PROVE  Rank(G, x) = Rank(H, x)
    OBVIOUS
  <2>1. \A j \in H : j <= x => j \in G
    OBVIOUS
  <2>2. {j \in G : j <= x} = {j \in H : j <= x}
    BY <2>1
  <2> QED
    BY <2>2 DEF Rank
<1>5. \A i \in 1 .. Cardinality(H) : Rank(H, long[i]) = i
  BY RankOfPlace
<1>6. \A i \in 1 .. Cardinality(G) : Rank(G, short[i]) = i
  BY <1>1, RankOfPlace
<1>7. \A x, y \in H : Rank(H, x) = Rank(H, y) => x = y
  <2> SUFFICES ASSUME NEW x \in H, NEW y \in H, x # y
               PROVE  Rank(H, x) # Rank(H, y)
    OBVIOUS
  <2>1. CASE x < y
    BY <2>1, RankGrows
  <2>2. CASE y < x
    BY <2>2, RankGrows
  <2> QED
    BY <2>1, <2>2
<1>8. \A x \in G : Rank(G, x) \in 1 .. Cardinality(G)
  BY <1>1, RankGrows
<1> HIDE DEF long, short
<1>9. \A i \in 1 .. Cardinality(G) : short[i] = long[i]
  <2> SUFFICES ASSUME NEW i \in 1 .. Cardinality(G)
               PROVE  short[i] = long[i]
    OBVIOUS
  <2>1. i \in 1 .. Cardinality(H)
    BY <1>1, <1>2, <1>3
  <2>2. short[i] \in H /\ Rank(H, short[i]) = i
    BY <1>3, <1>4, <1>6
  <2>3. long[i] \in H /\ Rank(H, long[i]) = i
    BY <1>2, <1>5, <2>1
  <2> QED
    BY <1>7, <2>2, <2>3
<1>10. \A i \in 1 .. Cardinality(H) : i <= Cardinality(G) <=> long[i] <= v
  <2> SUFFICES ASSUME NEW i \in 1 .. Cardinality(H)
               PROVE  i <= Cardinality(G) <=> long[i] \in G
    BY <1>2
  <2>1. ASSUME i <= Cardinality(G)
        PROVE  long[i] \in G
    <3>1. i \in 1 .. Cardinality(G)
      BY <1>2, <1>3, <2>1
    <3> QED
      BY <1>3, <1>9, <3>1
  <2>2. ASSUME long[i] \in G
        PROVE  i <= Cardinality(G)
    <3>1. Rank(G, long[i]) = i /\ Rank(G, long[i]) \in 1 .. Cardinality(G)
      BY <1>4, <1>5, <1>8, <2>2
    <3> QED
      BY <1>3, <3>1
  <2> QED
    BY <2>1, <2>2
<1> QED
  BY <1>1, <1>2, <1>3, <1>9, <1>10 DEF long, short

-----------------------------------------------------------------------------
(* The event stream. *)

EventsOf(records) == UNION {events_of_record(r) : r \in records}

\* The events up to a height determine the stream up to it.
LEMMA StreamCut ==
    ASSUME NEW R, NEW S, NEW v \in Nat,
           {e.height : e \in EventsOf(S)} \in SUBSET Nat,
           IsFiniteSet({e.height : e \in EventsOf(S)}),
           EventsOf(R) = {e \in EventsOf(S) : e.height <= v}
    PROVE  LET short == event_stream(R)
               long == event_stream(S)
           IN /\ IsPrefix(short, long)
              /\ Len(short) \in Nat /\ DOMAIN long = 1 .. Len(long) /\ Len(long) \in Nat
              /\ \A i \in DOMAIN long : i <= Len(short) <=> long[i].height <= v
              /\ \A i \in DOMAIN long : long[i].height \in {e.height : e \in EventsOf(S)}
<1> DEFINE E == EventsOf(S)
           F == EventsOf(R)
           H == {e.height : e \in E}
           G == {e.height : e \in F}
           lh == Ascending(H)
           sh == Ascending(G)
           m == Len(lh)
           n == Len(sh)
           lb == event_block_hashes(S)
           sb == event_block_hashes(R)
           long == event_stream(S)
           short == event_stream(R)
<1>1. H \in SUBSET Nat /\ IsFiniteSet(H) /\ F = {e \in E : e.height <= v}
  OBVIOUS
<1>2. lb = [i \in DOMAIN lh |-> [height |-> lh[i],
                                 block_hash |-> BlockDigest({e \in E : e.height = lh[i]})]]
  BY DEF event_block_hashes, EventsOf
<1>3. sb = [i \in DOMAIN sh |-> [height |-> sh[i],
                                 block_hash |-> BlockDigest({e \in F : e.height = sh[i]})]]
  BY DEF event_block_hashes, EventsOf
<1>4. long = [i \in DOMAIN lb |-> [height |-> lb[i].height, block_hash |-> lb[i].block_hash,
                                   cumulative |-> SubSeq(lb, 1, i)]]
  BY DEF event_stream
<1>5. short = [i \in DOMAIN sb |-> [height |-> sb[i].height, block_hash |-> sb[i].block_hash,
                                    cumulative |-> SubSeq(sb, 1, i)]]
  BY DEF event_stream
<1> HIDE DEF E, F, lb, sb, long, short
<1>6. /\ lh \in Seq(H) /\ sh \in Seq(G) /\ n <= m
      /\ \A i \in 1 .. n : sh[i] = lh[i]
      /\ \A i \in 1 .. m : i <= n <=> lh[i] <= v
  <2>1. H \in SUBSET Nat /\ IsFiniteSet(H) /\ v \in Nat
    BY <1>1
  <2>2. G \in SUBSET H /\ \A h \in H : h \in G <=> h <= v
    BY <1>1
  <2> HIDE DEF H, G
  <2>3. /\ Ascending(H) \in Seq(H) /\ Ascending(G) \in Seq(G)
        /\ Len(Ascending(G)) <= Len(Ascending(H))
        /\ \A i \in 1 .. Len(Ascending(G)) : Ascending(G)[i] = Ascending(H)[i]
        /\ \A i \in 1 .. Len(Ascending(H)) :
              i <= Len(Ascending(G)) <=> Ascending(H)[i] <= v
    BY <2>1, <2>2, AscendingCut
  <2> QED
    BY <2>3
<1> HIDE DEF H, G
<1>7. /\ m \in Nat /\ n \in Nat /\ DOMAIN lh = 1 .. m /\ DOMAIN sh = 1 .. n
      /\ \A i \in 1 .. m : lh[i] \in H
  BY <1>6
<1> HIDE DEF lh, sh, m, n
<1>8. /\ DOMAIN lb = 1 .. m /\ DOMAIN sb = 1 .. n
      /\ \A i \in 1 .. m : lb[i].height = lh[i]
      /\ \A i \in 1 .. n : sb[i] = lb[i]
  <2>1. ASSUME NEW i \in 1 .. n
        PROVE  {e \in F : e.height = sh[i]} = {e \in E : e.height = lh[i]}
    <3>1. sh[i] = lh[i] /\ lh[i] <= v
      BY <1>6, <1>7
    <3> QED
      BY <1>1, <3>1
  <2>2. \A i \in 1 .. n : i \in 1 .. m
    BY <1>6, <1>7
  <2> QED
    BY <1>2, <1>3, <1>6, <1>7, <2>1, <2>2
<1>9. /\ lb \in Seq({lb[i] : i \in 1 .. m}) /\ Len(lb) = m
      /\ sb \in Seq({lb[i] : i \in 1 .. m}) /\ Len(sb) = n
  <2> DEFINE T == {lb[i] : i \in 1 .. m}
  <2>1. lb \in [1 .. m -> T]
    BY <1>2, <1>8
  <2>2. \A i \in 1 .. n : sb[i] \in T
    BY <1>6, <1>7, <1>8
  <2>3. sb \in [1 .. n -> T]
    BY <1>3, <1>8, <2>2
  <2> HIDE DEF T
  <2>4. lb \in Seq(T) /\ Len(lb) = m /\ sb \in Seq(T) /\ Len(sb) = n
    BY <1>7, <2>1, <2>3
  <2> QED
    BY <2>4 DEF T
<1>10. \A i \in 1 .. n : SubSeq(lb, 1, i) = SubSeq(sb, 1, i)
  <2> SUFFICES ASSUME NEW i \in 1 .. n
               PROVE  SubSeq(lb, 1, i) = SubSeq(sb, 1, i)
    OBVIOUS
  <2>1. i \in Nat /\ i <= m /\ i <= n /\ i >= 1
    BY <1>6, <1>7
  <2> DEFINE T == {lb[k] : k \in 1 .. m}
  <2>2. lb \in Seq(T) /\ sb \in Seq(T) /\ Len(lb) = m /\ Len(sb) = n
    BY <1>9
  <2> HIDE DEF T
  <2>3. SubSeq(lb, 1, i) = [k \in 1 .. i |-> lb[k]]
    BY <1>7, <2>1, <2>2
  <2>4. SubSeq(sb, 1, i) = [k \in 1 .. i |-> sb[k]]
    BY <1>7, <2>1, <2>2
  <2>5. \A k \in 1 .. i : sb[k] = lb[k]
    BY <1>7, <1>8, <2>1
  <2> QED
    BY <2>3, <2>4, <2>5
<1>11. /\ DOMAIN long = 1 .. m /\ DOMAIN short = 1 .. n
       /\ \A i \in 1 .. m : long[i].height = lh[i]
       /\ \A i \in 1 .. n : short[i] = long[i]
  <2>1. \A i \in 1 .. n : i \in 1 .. m
    BY <1>6, <1>7
  <2> QED
    BY <1>4, <1>5, <1>8, <1>10, <2>1
<1>12. /\ long \in Seq({long[i] : i \in 1 .. m}) /\ Len(long) = m
       /\ short \in Seq({long[i] : i \in 1 .. m}) /\ Len(short) = n
  <2> DEFINE T == {long[i] : i \in 1 .. m}
  <2>1. long \in [1 .. m -> T]
    BY <1>4, <1>8, <1>11
  <2>2. short \in [1 .. n -> T]
    BY <1>5, <1>6, <1>7, <1>8, <1>11
  <2> HIDE DEF T
  <2>3. long \in Seq(T) /\ Len(long) = m /\ short \in Seq(T) /\ Len(short) = n
    BY <1>7, <2>1, <2>2
  <2> QED
    BY <2>3 DEF T
<1>13. IsPrefix(short, long)
  <2> DEFINE T == {long[i] : i \in 1 .. m}
  <2>1. long \in Seq(T) /\ short \in Seq(T) /\ Len(long) = m /\ Len(short) = n
    BY <1>12
  <2> HIDE DEF T
  <2>2. SubSeq(short, 1, n) = [k \in 1 .. n |-> short[k]]
    BY <1>7, <2>1
  <2>3. SubSeq(long, 1, n) = [k \in 1 .. n |-> long[k]]
    BY <1>6, <1>7, <2>1
  <2>4. SubSeq(short, 1, n) = SubSeq(long, 1, n)
    BY <1>11, <2>2, <2>3
  <2> QED
    BY <1>6, <2>1, <2>4 DEF IsPrefix
<1>14. \A i \in 1 .. m : long[i].height \in H
  BY <1>7, <1>11
<1> QED
  BY <1>6, <1>7, <1>11, <1>12, <1>13, <1>14 DEF long, short, H, E

\* The events of an offer's record: where it was announced, and how it ended.
Said(op, order, height, code) ==
    [height |-> height, code |-> code,
     order |-> [rune |-> 0, price |-> Price[order.art.terms], amount |-> 1,
                announce_height |-> order.announce_height, op |-> Number[op]]]
Told(op, order) ==
    {Said(op, order, order.announce_height, Code.A)}
    \cup (IF order.status = "Filled"
          THEN {Said(op, order, order.last_event_height, Code.F)} ELSE {})
    \cup (IF order.status = "Cancelled"
          THEN {Said(op, order, order.last_event_height, Code.C)} ELSE {})

Views(orders, offers) == {Record(op, orders[op]) : op \in DOMAIN orders \cap offers}

LEMMA ViewEvents ==
    ASSUME NEW orders, NEW offers
    PROVE  /\ StreamOf(orders, offers) = event_stream(Views(orders, offers))
           /\ \A e : e \in EventsOf(Views(orders, offers)) <=>
                       \E op \in DOMAIN orders \cap offers : e \in Told(op, orders[op])
<1>1. \A op : events_of_record(Record(op, orders[op])) = Told(op, orders[op])
  BY DEF events_of_record, Record, Event, Norm, Told, Said
<1>2. StreamOf(orders, offers) = event_stream(Views(orders, offers))
  BY DEF StreamOf, Views
<1>3. \A e : e \in EventsOf(Views(orders, offers)) <=>
              \E r \in Views(orders, offers) : e \in events_of_record(r)
  BY DEF EventsOf
<1>4. \A e : (\E r \in Views(orders, offers) : e \in events_of_record(r)) <=>
              \E op \in DOMAIN orders \cap offers : e \in events_of_record(Record(op, orders[op]))
  BY DEF Views
<1> QED
  BY <1>1, <1>2, <1>3, <1>4

LEMMA ToldHeights ==
    ASSUME NEW op, NEW order
    PROVE  /\ \A e \in Told(op, order) :
                \/ e.height = order.announce_height
                \/ /\ e.height = order.last_event_height
                   /\ order.status \in {"Filled", "Cancelled"}
           /\ \E e \in Told(op, order) : e.height = order.announce_height
<1> DEFINE said == Said(op, order, order.announce_height, Code.A)
<1>1. said \in Told(op, order) /\ said.height = order.announce_height
  BY DEF Told, Said
<1>2. \A e \in Told(op, order) :
        \/ e.height = order.announce_height
        \/ /\ e.height = order.last_event_height
           /\ order.status \in {"Filled", "Cancelled"}
  BY DEF Told, Said
<1> HIDE DEF said
<1> QED
  BY <1>1, <1>2

\* Two records of one announcement, the later one ended above a height, tell
\* the same up to that height if the earlier one is open.
LEMMA ToldBefore ==
    ASSUME NEW op, NEW old, NEW new, NEW v \in Nat,
           new.art = old.art, new.announce_height = old.announce_height,
           old.status = "Open", old.announce_height <= v,
           new.last_event_height \in Nat, new.last_event_height > v
    PROVE  Told(op, old) = {e \in Told(op, new) : e.height <= v}
<1> DEFINE said == Said(op, old, old.announce_height, Code.A)
<1>1. Told(op, old) = {said}
  BY DEF Told
<1>2. said \in Told(op, new) /\ said.height = old.announce_height
  BY DEF Told, Said
<1>3. \A e \in Told(op, new) : e = said \/ e.height = new.last_event_height
  BY DEF Told, Said
<1> HIDE DEF said
<1> QED
  BY <1>1, <1>2, <1>3

LEMMA ToldAll ==
    ASSUME NEW op, NEW order, NEW v \in Nat,
           order.announce_height <= v, order.last_event_height <= v
    PROVE  Told(op, order) = {e \in Told(op, order) : e.height <= v}
BY ToldHeights

\* index_block adds events at its own height and changes none below.
LEMMA IndexedEvents ==
    ASSUME TypeOK, IndexBlock, NEW op \in Outpoints \ disturbed'
    PROVE  /\ op \in DOMAIN book =>
                /\ op \in DOMAIN book'
                /\ Told(op, book[op]) = {e \in Told(op, book'[op]) : e.height <= indexed}
           /\ op \in DOMAIN book' /\ op \notin DOMAIN book =>
                \A e \in Told(op, book'[op]) : e.height = indexed + 1
<1>1. indexed \in Nat
  BY DEF TypeOK
<1>2. CASE \E a \in chain[indexed + 1].new :
                /\ a.op = op /\ validate(a, indexed + 1)
                /\ op \in DOMAIN book'
                /\ book'[op] = NewOrder(a, indexed + 1)
                /\ op \in DOMAIN book => op \in disturbed'
  <2>1. /\ op \notin DOMAIN book
        /\ book'[op].announce_height = indexed + 1
        /\ book'[op].last_event_height = indexed + 1
    BY <1>2 DEF NewOrder
  <2> QED
    BY <2>1, ToldHeights
<1>3. CASE /\ op \in DOMAIN book' <=> op \in DOMAIN book
           /\ op \in DOMAIN book =>
                book'[op] = Settle(op, book[op], chain[indexed + 1], indexed + 1)
  <2> SUFFICES ASSUME op \in DOMAIN book
               PROVE  Told(op, book[op]) = {e \in Told(op, book'[op]) : e.height <= indexed}
    BY <1>3
  <2>1. /\ book[op] \in Orders /\ indexed + 1 \in Nat
        /\ book[op].announce_height \in Nat /\ book[op].last_event_height \in Nat
        /\ book[op].announce_height <= indexed
        /\ book[op].last_event_height <= indexed
    BY <1>1, BookOfType DEF BookType
  <2>2. book'[op] = Settle(op, book[op], chain[indexed + 1], indexed + 1)
    BY <1>3
  <2>3. CASE book'[op] = book[op]
    BY <1>1, <2>1, <2>3, ToldAll
  <2>4. CASE book'[op] # book[op]
    <3>1. /\ book[op].status = "Open" /\ book'[op].art = book[op].art
          /\ book'[op].announce_height = book[op].announce_height
          /\ book'[op].last_event_height = indexed + 1
      BY <2>1, <2>2, <2>4, SettleType
    <3>2. book'[op].last_event_height > indexed /\ book'[op].last_event_height \in Nat
      BY <1>1, <2>1, <3>1
    <3>3. \A old, new :
             /\ new.art = old.art /\ new.announce_height = old.announce_height
             /\ old.status = "Open" /\ old.announce_height <= indexed
             /\ new.last_event_height \in Nat /\ new.last_event_height > indexed
             => Told(op, old) = {e \in Told(op, new) : e.height <= indexed}
      BY <1>1, ToldBefore
    <3> QED
      BY <2>1, <3>1, <3>2, <3>3
  <2> QED
    BY <2>3, <2>4
<1> QED
  BY <1>2, <1>3, IndexExact

\* revert_to takes back the events above its height and no other.
LEMMA RevertedEvents ==
    ASSUME TypeOK, OpenIsUntouched, RevertTo, NEW op
    PROVE  /\ op \in DOMAIN book' =>
                /\ op \in DOMAIN book
                /\ Told(op, book'[op]) = {e \in Told(op, book[op]) : e.height <= valid}
           /\ op \in DOMAIN book /\ op \notin DOMAIN book' =>
                \A e \in Told(op, book[op]) : e.height > valid
<1>1. valid \in Nat /\ indexed \in Nat /\ book' = revert_to(book, valid)
  BY DEF RevertTo, TypeOK
<1>2. DOMAIN book' = {o \in DOMAIN book : book[o].announce_height <= valid}
  BY <1>1 DEF revert_to
<1>3. op \in DOMAIN book =>
        /\ book[op].announce_height \in Nat /\ book[op].last_event_height \in Nat
        /\ book[op].announce_height <= book[op].last_event_height
  BY BookOfType
<1>4. ASSUME op \in DOMAIN book'
      PROVE  Told(op, book'[op]) = {e \in Told(op, book[op]) : e.height <= valid}
  <2>1. op \in DOMAIN book /\ book[op].announce_height <= valid
    BY <1>2, <1>4
  <2>2. CASE /\ book'[op] = book[op]
             /\ \/ book[op].status = "Open"
                \/ book[op].last_event_height <= valid
    <3>1. book[op].last_event_height <= valid
      BY <2>1, <2>2 DEF OpenIsUntouched
    <3> QED
      BY <1>1, <2>1, <2>2, <3>1, ToldAll
  <2>3. CASE /\ book[op].last_event_height > valid
             /\ book'[op].status = "Open"
    <3>1. /\ book[op].art = book'[op].art
          /\ book[op].announce_height = book'[op].announce_height
          /\ book'[op].announce_height <= valid
      BY <1>4, <2>1, RevertEffect
    <3>2. \A old, new :
             /\ new.art = old.art /\ new.announce_height = old.announce_height
             /\ old.status = "Open" /\ old.announce_height <= valid
             /\ new.last_event_height \in Nat /\ new.last_event_height > valid
             => Told(op, old) = {e \in Told(op, new) : e.height <= valid}
      BY <1>1, ToldBefore
    <3> QED
      BY <1>3, <2>1, <2>3, <3>1, <3>2
  <2> QED
    BY <1>4, <2>2, <2>3, RevertEffect
<1>5. ASSUME op \in DOMAIN book, op \notin DOMAIN book', NEW e \in Told(op, book[op])
      PROVE  e.height > valid
  <2>1. book[op].announce_height > valid
    BY <1>1, <1>2, <1>3, <1>5
  <2> QED
    BY <1>1, <1>3, <1>5, <2>1, ToldHeights
<1> QED
  BY <1>2, <1>4, <1>5

\* Every event lies at a height that the book includes.
LEMMA EventHeights ==
    ASSUME NEW orders, NEW offers, NEW top \in Nat,
           \A op \in DOMAIN orders :
               /\ orders[op].announce_height \in Nat
               /\ orders[op].last_event_height \in Nat
               /\ orders[op].announce_height <= orders[op].last_event_height
               /\ orders[op].last_event_height <= top
    PROVE  LET E == EventsOf(Views(orders, offers))
           IN /\ \A e \in E : e.height \in 0 .. top
              /\ {e.height : e \in E} \in SUBSET Nat
              /\ IsFiniteSet({e.height : e \in E})
<1> DEFINE E == EventsOf(Views(orders, offers))
<1>1. ASSUME NEW e \in E
      PROVE  e.height \in 0 .. top
  <2>1. PICK op \in DOMAIN orders : e \in Told(op, orders[op])
    BY ViewEvents
  <2>2. e.height = orders[op].announce_height \/ e.height = orders[op].last_event_height
    BY <2>1, ToldHeights
  <2> QED
    BY <2>2
<1> HIDE DEF E
<1>2. {e.height : e \in E} \in SUBSET (0 .. top)
  BY <1>1
<1>3. IsFiniteSet(0 .. top) /\ 0 .. top \subseteq Nat
  BY FS_Interval
<1>4. IsFiniteSet({e.height : e \in E}) /\ {e.height : e \in E} \in SUBSET Nat
  BY <1>2, <1>3, FS_Subset
<1> QED
  BY <1>1, <1>4 DEF E

\* A block adds its events at the end of the stream and changes none before; a
\* revert takes away just the events of the blocks above it: what LightClient
\* assumes of an honest indexer, whatever is announced, spent and reorganised
\* (btx_orderbook.py:300, over the records of btx_index.rs).
THEOREM StreamOnlyExtends == Spec => StreamExtends
<1>1. TypeOK /\ OpenIsUntouched /\ TypeOK' /\ [Next]_vars =>
        [LET before == StreamOf(book, Outpoints \ disturbed')
             after == StreamOf(book', Outpoints \ disturbed')
         IN /\ indexed' > indexed =>
                  /\ IsPrefix(before, after)
                  /\ \A i \in Len(before) + 1 .. Len(after) : after[i].height = indexed'
            /\ indexed' < indexed =>
                  /\ IsPrefix(after, before)
                  /\ \A i \in DOMAIN before :
                        i <= Len(after) <=> before[i].height <= indexed']_vars
  <2> SUFFICES ASSUME TypeOK, OpenIsUntouched, TypeOK', Next
               PROVE  LET before == StreamOf(book, Outpoints \ disturbed')
                          after == StreamOf(book', Outpoints \ disturbed')
                      IN /\ indexed' > indexed =>
                               /\ IsPrefix(before, after)
                               /\ \A i \in Len(before) + 1 .. Len(after) : after[i].height = indexed'
                         /\ indexed' < indexed =>
                               /\ IsPrefix(after, before)
                               /\ \A i \in DOMAIN before :
                                     i <= Len(after) <=> before[i].height <= indexed'
    OBVIOUS
  <2> DEFINE offers == Outpoints \ disturbed'
             before == StreamOf(book, offers)
             after == StreamOf(book', offers)
             old == EventsOf(Views(book, offers))
             new == EventsOf(Views(book', offers))
  <2>1. /\ indexed \in Nat /\ indexed' \in Nat /\ valid \in Nat
        /\ before = event_stream(Views(book, offers))
        /\ after = event_stream(Views(book', offers))
        /\ \A e : e \in old <=> \E op \in DOMAIN book \cap offers : e \in Told(op, book[op])
        /\ \A e : e \in new <=> \E op \in DOMAIN book' \cap offers : e \in Told(op, book'[op])
    BY ViewEvents DEF TypeOK
  <2>2. /\ \A e \in old : e.height \in 0 .. indexed
        /\ {e.height : e \in old} \in SUBSET Nat /\ IsFiniteSet({e.height : e \in old})
    BY <2>1, BookOfType, EventHeights
  <2>3. /\ \A e \in new : e.height \in 0 .. indexed'
        /\ {e.height : e \in new} \in SUBSET Nat /\ IsFiniteSet({e.height : e \in new})
    <3>1. \A op \in DOMAIN book' : /\ book'[op].announce_height \in Nat
                                   /\ book'[op].last_event_height \in Nat
                                   /\ book'[op].announce_height <= book'[op].last_event_height
                                   /\ book'[op].last_event_height <= indexed'
      BY DEF TypeOK, Orders
    <3> QED
      BY <2>1, <3>1, EventHeights
  <2> HIDE DEF before, after, old, new
  <2>4. ASSUME IndexBlock
        PROVE  indexed' = indexed + 1 /\ old = {e \in new : e.height <= indexed}
    <3>1. indexed' = indexed + 1
      BY <2>4 DEF IndexBlock
    <3>2. ASSUME NEW e \in old
          PROVE  e \in new /\ e.height <= indexed
      <4>1. PICK op \in DOMAIN book \cap offers : e \in Told(op, book[op])
        BY <2>1
      <4>2. op \in DOMAIN book' /\ e \in Told(op, book'[op]) /\ e.height <= indexed
        BY <2>4, <4>1, IndexedEvents
      <4> QED
        BY <2>1, <4>1, <4>2
    <3>3. ASSUME NEW e \in new, e.height <= indexed
          PROVE  e \in old
      <4>1. PICK op \in DOMAIN book' \cap offers : e \in Told(op, book'[op])
        BY <2>1
      <4>2. op \in DOMAIN book
        BY <2>1, <2>4, <3>3, <4>1, IndexedEvents
      <4>3. e \in Told(op, book[op])
        BY <2>4, <3>3, <4>1, <4>2, IndexedEvents
      <4> QED
        BY <2>1, <4>1, <4>2, <4>3
    <3> QED
      BY <3>1, <3>2, <3>3
  <2>5. ASSUME RevertTo
        PROVE  indexed' < indexed /\ new = {e \in old : e.height <= indexed'}
    <3>1. indexed' = valid /\ valid < indexed
      BY <2>5 DEF RevertTo
    <3>2. ASSUME NEW e \in new
          PROVE  e \in old /\ e.height <= valid
      <4>1. PICK op \in DOMAIN book' \cap offers : e \in Told(op, book'[op])
        BY <2>1
      <4>2. op \in DOMAIN book /\ e \in Told(op, book[op]) /\ e.height <= valid
        BY <2>5, <4>1, RevertedEvents
      <4> QED
        BY <2>1, <4>1, <4>2
    <3>3. ASSUME NEW e \in old, e.height <= valid
          PROVE  e \in new
      <4>1. PICK op \in DOMAIN book \cap offers : e \in Told(op, book[op])
        BY <2>1
      <4>2. e.height \in Nat
        BY <2>2
      <4>3. op \in DOMAIN book'
        BY <2>1, <2>5, <3>3, <4>1, <4>2, RevertedEvents
      <4>4. e \in Told(op, book'[op])
        BY <2>5, <3>3, <4>1, <4>3, RevertedEvents
      <4> QED
        BY <2>1, <4>1, <4>3, <4>4
    <3> QED
      BY <2>1, <3>1, <3>2, <3>3
  <2>6. ASSUME old = {e \in new : e.height <= indexed}, indexed' = indexed + 1
        PROVE  /\ IsPrefix(before, after)
               /\ \A i \in Len(before) + 1 .. Len(after) : after[i].height = indexed'
    <3>1. /\ IsPrefix(before, after)
          /\ Len(before) \in Nat /\ DOMAIN after = 1 .. Len(after) /\ Len(after) \in Nat
          /\ \A i \in DOMAIN after : i <= Len(before) <=> after[i].height <= indexed
          /\ \A i \in DOMAIN after : after[i].height \in {e.height : e \in new}
      <4>1. /\ EventsOf(Views(book, offers))
                 = {e \in EventsOf(Views(book', offers)) : e.height <= indexed}
            /\ {e.height : e \in EventsOf(Views(book', offers))} \in SUBSET Nat
            /\ IsFiniteSet({e.height : e \in EventsOf(Views(book', offers))})
            /\ indexed \in Nat /\ before = event_stream(Views(book, offers))
            /\ after = event_stream(Views(book', offers))
        BY <2>1, <2>3, <2>6 DEF old, new
      <4> QED
        BY ONLY <4>1, StreamCut DEF new
    <3>2. ASSUME NEW i \in Len(before) + 1 .. Len(after)
          PROVE  after[i].height = indexed'
      <4>1. i \in DOMAIN after /\ ~(i <= Len(before))
        BY <3>1
      <4>2. after[i].height \in {e.height : e \in new}
        BY <3>1, <4>1
      <4>3. after[i].height \in 0 .. indexed' /\ ~(after[i].height <= indexed)
        BY <2>3, <3>1, <4>1, <4>2
      <4> QED
        BY <2>1, <2>6, <4>3
    <3> QED
      BY <3>1, <3>2
  <2>7. ASSUME new = {e \in old : e.height <= indexed'}
        PROVE  /\ IsPrefix(after, before)
               /\ \A i \in DOMAIN before : i <= Len(after) <=> before[i].height <= indexed'
    BY <2>1, <2>2, <2>7, StreamCut DEF old, new
  <2>8. CASE UNCHANGED <<indexed, book>>
    BY <2>1, <2>8
  <2>9. CASE IndexBlock
    <3>1. indexed' = indexed + 1 /\ indexed' > indexed /\ ~(indexed' < indexed)
      BY <2>1, <2>4, <2>9
    <3> QED
      BY <2>4, <2>6, <2>9, <3>1 DEF before, after
  <2>10. CASE RevertTo
    <3>1. indexed' < indexed /\ ~(indexed' > indexed)
      BY <2>1, <2>5, <2>10
    <3> QED
      BY <2>5, <2>7, <2>10, <3>1 DEF before, after
  <2> QED
    BY <2>8, <2>9, <2>10, ChainKept DEF Next
<1> QED
  BY <1>1, TypeInvariant, PTL DEF Spec, StreamExtends

-----------------------------------------------------------------------------
(* The levels of the Merkle tree are lists, each half as long as the one below. *)

HIDE BoundsAssumption
HIDE ArtifactsAssumption

\* Induction over the naturals, for a set of them.
LEMMA Induction ==
    ASSUME NEW S \in SUBSET Nat, 0 \in S, \A n \in S : n + 1 \in S
    PROVE  S = Nat
<1> SUFFICES ASSUME Nat \ S # {}
             PROVE  FALSE
  OBVIOUS
<1> DEFINE R == OpToRel(<, Nat)
<1>1. PICK x \in Nat \ S : \A y \in Nat \ S : ~ (<<y, x>> \in R)
  BY NatLessThanWellFounded, WFMin
<1>2. \A y, z \in Nat : y < z => <<y, z>> \in R
  BY DEF OpToRel
<1> HIDE DEF R
<1>3. x # 0
  OBVIOUS
<1>4. x - 1 \in Nat /\ x - 1 < x
  BY <1>3
<1>5. x - 1 \in S
  BY <1>1, <1>2, <1>4
<1>6. (x - 1) + 1 \in S
  BY <1>5
<1> QED
  BY <1>6

\* Every set of naturals has a least member.
LEMMA LeastExists ==
    ASSUME NEW S \in SUBSET Nat, S # {}
    PROVE  \E x \in S : \A y \in S : x <= y
<1> DEFINE R == OpToRel(<, Nat)
<1>1. PICK x \in S : \A y \in S : ~ (<<y, x>> \in R)
  BY NatLessThanWellFounded, WFMin
<1>2. \A y, z \in Nat : y < z => <<y, z>> \in R
  BY DEF OpToRel
<1> HIDE DEF R
<1>3. ASSUME NEW y \in S
      PROVE  x <= y
  <2>1. x \in Nat /\ y \in Nat
    OBVIOUS
  <2>2. ~(y < x)
    BY <1>1, <1>2, <2>1
  <2> QED
    BY <2>1, <2>2
<1> QED
  BY <1>3

\* The recursive function of Level, and that there is one.
Rises(g, n, leaves) ==
    g = [k \in 0 .. n |-> IF k = 0 THEN leaves ELSE NextLevel(g[k - 1])]

LEMMA RisesExists ==
    ASSUME NEW leaves, NEW n \in Nat
    PROVE  \E g : Rises(g, n, leaves)
<1> DEFINE S == {m \in Nat : \E g : Rises(g, m, leaves)}
<1>1. 0 \in S
  <2> DEFINE g == [k \in 0 .. 0 |-> leaves]
  <2>1. Rises(g, 0, leaves)
    BY DEF Rises
  <2> QED
    BY <2>1
<1>2. ASSUME NEW m \in Nat, NEW f, Rises(f, m, leaves)
      PROVE  m + 1 \in S
  <2> DEFINE g == [k \in 0 .. m + 1 |-> IF k = m + 1 THEN NextLevel(f[m]) ELSE f[k]]
  <2>1. ASSUME NEW k \in 0 .. m + 1
        PROVE  g[k] = IF k = 0 THEN leaves ELSE NextLevel(g[k - 1])
    <3>1. CASE k = m + 1
      <4>1. m \in 0 .. m + 1 /\ m # m + 1 /\ k # 0 /\ k - 1 = m
        BY <3>1
      <4>2. g[m] = f[m]
        BY <4>1
      <4> QED
        BY <3>1, <4>1, <4>2
    <3>2. CASE k # m + 1
      <4>1. k \in 0 .. m /\ (k # 0 => k - 1 \in 0 .. m + 1 /\ k - 1 # m + 1)
        BY <3>2
      <4>2. f[k] = IF k = 0 THEN leaves ELSE NextLevel(f[k - 1])
        BY <1>2, <4>1 DEF Rises
      <4>3. g[k] = f[k] /\ (k # 0 => g[k - 1] = f[k - 1])
        BY <3>2, <4>1
      <4> QED
        BY <4>2, <4>3
    <3> QED
      BY <3>1, <3>2
  <2>2. g = [k \in 0 .. m + 1 |-> IF k = 0 THEN leaves ELSE NextLevel(g[k - 1])]
    BY <2>1
  <2>3. Rises(g, m + 1, leaves)
    BY <2>2 DEF Rises
  <2> QED
    BY <2>3
<1>3. S = Nat
  <2>1. S \in SUBSET Nat /\ \A m \in S : m + 1 \in S
    BY <1>2
  <2> HIDE DEF S
  <2> QED
    BY <1>1, <2>1, Induction
<1> QED
  BY <1>3

\* What Level is: the leaves, and each further level the next of the one below.
LEMMA LevelStep ==
    ASSUME NEW R, NEW leaves \in Seq(R)
    PROVE  /\ Level(leaves)[0] = leaves
           /\ \A k \in 1 .. Len(leaves) : Level(leaves)[k] = NextLevel(Level(leaves)[k - 1])
<1> DEFINE level == CHOOSE g : Rises(g, Len(leaves), leaves)
<1>1. Len(leaves) \in Nat
  OBVIOUS
<1>2. Rises(level, Len(leaves), leaves)
  BY <1>1, RisesExists
<1>3. Level(leaves) = level
  BY DEF Level, Rises
<1> HIDE DEF level
<1>4. 0 \in 0 .. Len(leaves) /\ \A k \in 1 .. Len(leaves) : k \in 0 .. Len(leaves) /\ k # 0
  BY <1>1
<1> QED
  BY <1>2, <1>3, <1>4 DEF Rises

\* A list of n values.
IsList(s, n) == n \in Nat /\ DOMAIN s = 1 .. n /\ Len(s) = n

\* What NextLevel makes of a list.
LEMMA NextLevelList ==
    ASSUME NEW s, NEW n \in Nat, IsList(s, n)
    PROVE  /\ IsList(NextLevel(s), (n + 1) \div 2)
           /\ \A i \in 1 .. (n + 1) \div 2 :
                NextLevel(s)[i] = IF 2 * i <= n THEN node_hash(s[2 * i - 1], s[2 * i])
                                                ELSE s[2 * i - 1]
BY DEF NextLevel, IsList

\* Every level is a list, shorter than the one below until it has one node.
LEMMA LevelList ==
    ASSUME NEW R, NEW leaves \in Seq(R), leaves # <<>>,
           NEW k \in 0 .. Len(leaves)
    PROVE  /\ IsList(Level(leaves)[k], Len(Level(leaves)[k]))
           /\ Len(Level(leaves)[k]) >= 1
           /\ Len(Level(leaves)[k]) = 1 \/ Len(Level(leaves)[k]) <= Len(leaves) - k
<1> DEFINE n == Len(leaves)
           L == Level(leaves)
           Fine(j) == /\ IsList(L[j], Len(L[j])) /\ Len(L[j]) >= 1
                      /\ Len(L[j]) = 1 \/ Len(L[j]) <= n - j
           S == {j \in Nat : j <= n => Fine(j)}
<1>1. n \in Nat /\ n >= 1
  OBVIOUS
<1>2. Fine(0)
  BY <1>1, LevelStep DEF IsList
<1>3. ASSUME NEW j \in Nat, j + 1 <= n, Fine(j)
      PROVE  Fine(j + 1)
  <2>1. L[j + 1] = NextLevel(L[j])
    <3>1. j + 1 \in 1 .. n /\ (j + 1) - 1 = j
      BY <1>1, <1>3
    <3> QED
      BY <3>1, LevelStep
  <2>2. IsList(L[j + 1], (Len(L[j]) + 1) \div 2)
    BY <1>3, <2>1, NextLevelList DEF IsList
  <2>3. Len(L[j]) \in Nat /\ Len(L[j + 1]) = (Len(L[j]) + 1) \div 2
    BY <1>3, <2>2 DEF IsList
  <2>4. ASSUME NEW m \in Nat, m >= 1, m = 1 \/ m <= n - j
        PROVE  /\ (m + 1) \div 2 >= 1
               /\ (m + 1) \div 2 = 1 \/ (m + 1) \div 2 <= n - (j + 1)
    <3>1. (m + 1) \div 2 >= 1 /\ (m = 1 \/ m = 2 => (m + 1) \div 2 = 1)
      BY <2>4
    <3>2. m > 2 => (m + 1) \div 2 <= m - 1
      BY <2>4
    <3> QED
      BY <1>1, <1>3, <2>4, <3>1, <3>2
  <2>5. Len(L[j + 1]) >= 1 /\ (Len(L[j + 1]) = 1 \/ Len(L[j + 1]) <= n - (j + 1))
    BY <1>3, <2>3, <2>4
  <2>6. IsList(L[j + 1], Len(L[j + 1]))
    BY <2>2, <2>3
  <2> QED
    BY <2>5, <2>6
<1> HIDE DEF L, n
<1>4. S = Nat
  <2>1. S \in SUBSET Nat /\ 0 \in S
    BY <1>1, <1>2
  <2>2. \A j \in S : j + 1 \in S
    BY <1>1, <1>3
  <2> HIDE DEF S
  <2> QED
    BY <2>1, <2>2, Induction
<1>5. k \in S /\ k <= n
  BY <1>1, <1>4 DEF n
<1>6. Fine(k)
  BY <1>5
<1> QED
  BY <1>6 DEF L, n

\* The loop of _merkle_levels ends, with the only node of the last level.
LEMMA HeightType ==
    ASSUME NEW R, NEW leaves \in Seq(R), leaves # <<>>
    PROVE  /\ Height(leaves) \in 0 .. Len(leaves)
           /\ Len(Level(leaves)[Height(leaves)]) = 1
           /\ \A j \in 0 .. Height(leaves) - 1 : Len(Level(leaves)[j]) > 1
<1> DEFINE L == Level(leaves)
           S == {k \in 0 .. Len(leaves) : Len(L[k]) = 1}
<1>1. Len(leaves) \in Nat
  OBVIOUS
<1>2. Len(leaves) \in S
  <2>1. Len(leaves) \in 0 .. Len(leaves)
    BY <1>1
  <2>2. /\ IsList(L[Len(leaves)], Len(L[Len(leaves)])) /\ Len(L[Len(leaves)]) >= 1
        /\ Len(L[Len(leaves)]) = 1 \/ Len(L[Len(leaves)]) <= Len(leaves) - Len(leaves)
    BY <2>1, LevelList
  <2>3. Len(L[Len(leaves)]) = 1
    BY <1>1, <2>2 DEF IsList
  <2> QED
    BY <2>1, <2>2
<1>3. PICK k \in S : \A j \in S : k <= j
  <2>1. S \in SUBSET Nat /\ S # {}
    BY <1>1, <1>2
  <2> HIDE DEF S
  <2> QED
    BY <2>1, LeastExists
<1>4. ASSUME NEW j \in 0 .. k - 1
      PROVE  Len(L[j]) > 1
  <2>1. j \in 0 .. Len(leaves) /\ j \notin S
    BY <1>1, <1>3
  <2>2. Len(L[j]) # 1 /\ Len(L[j]) >= 1 /\ Len(L[j]) \in Nat
    <3>1. IsList(L[j], Len(L[j])) /\ Len(L[j]) >= 1
      BY <2>1, LevelList
    <3> QED
      BY <2>1, <3>1 DEF IsList
  <2>3. \A m \in Nat : m # 1 /\ m >= 1 => m > 1
    OBVIOUS
  <2> HIDE DEF L
  <2> QED
    BY <2>2, <2>3
<1>5. \E h \in 0 .. Len(leaves) : Len(L[h]) = 1 /\ \A j \in 0 .. h - 1 : Len(L[j]) > 1
  BY <1>3, <1>4
<1> QED
  BY <1>5 DEF Height

-----------------------------------------------------------------------------
(* What stands in the tree, and where a path from a leaf to the root leads. *)

\* What stands in the tree over the leaves.
InTree(leaves, x) ==
    \E k \in 0 .. Len(leaves) : \E i \in 1 .. Len(Level(leaves)[k]) : x = Level(leaves)[k][i]

Leaf(leaves, x) == \E i \in 1 .. Len(leaves) : x = leaves[i]

Paired(leaves, x) == \E y, z : x = node_hash(y, z) /\ InTree(leaves, y) /\ InTree(leaves, z)

\* Whatever stands in the tree is a leaf, or the hash of two that do.
LEMMA NodeOrigin ==
    ASSUME NEW R, NEW leaves \in Seq(R), leaves # <<>>,
           NEW x, InTree(leaves, x)
    PROVE  Leaf(leaves, x) \/ Paired(leaves, x)
<1> DEFINE n == Len(leaves)
           L == Level(leaves)
           Known(k) == \A i \in 1 .. Len(L[k]) : Leaf(leaves, L[k][i]) \/ Paired(leaves, L[k][i])
           S == {k \in Nat : k <= n => Known(k)}
<1>1. n \in Nat
  OBVIOUS
<1>2. Known(0)
  BY LevelStep DEF Leaf
<1>3. ASSUME NEW k \in Nat, k + 1 <= n, Known(k)
      PROVE  Known(k + 1)
  <2> SUFFICES ASSUME NEW i \in 1 .. Len(L[k + 1])
               PROVE  Leaf(leaves, L[k + 1][i]) \/ Paired(leaves, L[k + 1][i])
    OBVIOUS
  <2>1. k + 1 \in 1 .. n /\ (k + 1) - 1 = k /\ k \in 0 .. n
    BY <1>1, <1>3
  <2>2. L[k + 1] = NextLevel(L[k])
    BY <2>1, LevelStep
  <2> DEFINE m == Len(L[k])
  <2>3. IsList(L[k], m) /\ m \in Nat
    BY <2>1, LevelList DEF IsList
  <2> HIDE DEF m, L
  <2>4. /\ Len(L[k + 1]) = (m + 1) \div 2
        /\ \A j \in 1 .. (m + 1) \div 2 :
              L[k + 1][j] = IF 2 * j <= m THEN node_hash(L[k][2 * j - 1], L[k][2 * j])
                                          ELSE L[k][2 * j - 1]
    BY <2>2, <2>3, NextLevelList DEF IsList
  <2>5. i \in Nat /\ 1 <= i /\ 2 * i <= m + 1
    BY <2>3, <2>4
  <2>6. 2 * i - 1 \in 1 .. m
    BY <2>3, <2>5
  <2>7. CASE 2 * i <= m
    <3>1. L[k + 1][i] = node_hash(L[k][2 * i - 1], L[k][2 * i])
      BY <2>4, <2>7
    <3>2. 2 * i \in 1 .. m
      BY <2>3, <2>5, <2>7
    <3>3. InTree(leaves, L[k][2 * i - 1]) /\ InTree(leaves, L[k][2 * i])
      BY <2>1, <2>6, <3>2 DEF InTree, L, m, n
    <3> QED
      BY <3>1, <3>3 DEF Paired
  <2>8. CASE ~(2 * i <= m)
    <3>1. L[k + 1][i] = L[k][2 * i - 1]
      BY <2>4, <2>8
    <3> QED
      BY <1>3, <2>6, <3>1 DEF m
  <2> QED
    BY <2>7, <2>8
<1> HIDE DEF L, n
<1>4. S = Nat
  <2>1. S \in SUBSET Nat /\ 0 \in S
    BY <1>2
  <2>2. \A k \in S : k + 1 \in S
    BY <1>1, <1>3
  <2> HIDE DEF S
  <2> QED
    BY <2>1, <2>2, Induction
<1>5. PICK k \in 0 .. n : \E i \in 1 .. Len(L[k]) : x = L[k][i]
  BY DEF InTree, L, n
<1>6. k \in S /\ k <= n
  BY <1>1, <1>4
<1>7. Known(k)
  BY <1>6
<1> QED
  BY <1>5, <1>7

\* The hash above x, with the sibling of the step.
Up(x, step) ==
    IF step.dir = "L" THEN node_hash(step.hash, x) ELSE node_hash(x, step.hash)

\* The recursive function of Climb, and that there is one.
Ascends(h, n, order, path) ==
    h = [i \in 0 .. n |->
            IF i = 0 THEN leaf_hash(order)
            ELSE IF path[i].dir = "L" THEN node_hash(path[i].hash, h[i - 1])
                                      ELSE node_hash(h[i - 1], path[i].hash)]

LEMMA AscentExists ==
    ASSUME NEW order, NEW path, NEW n \in Nat
    PROVE  \E h : Ascends(h, n, order, path)
<1> DEFINE S == {m \in Nat : \E h : Ascends(h, m, order, path)}
<1>0. \A h, m : Ascends(h, m, order, path) <=>
                  h = [i \in 0 .. m |-> IF i = 0 THEN leaf_hash(order) ELSE Up(h[i - 1], path[i])]
  BY DEF Ascends, Up
<1>1. 0 \in S
  <2> DEFINE h == [k \in 0 .. 0 |-> leaf_hash(order)]
  <2>1. h = [i \in 0 .. 0 |-> IF i = 0 THEN leaf_hash(order) ELSE Up(h[i - 1], path[i])]
    OBVIOUS
  <2> QED
    BY <1>0, <2>1
<1>2. ASSUME NEW m \in Nat, NEW f, Ascends(f, m, order, path)
      PROVE  m + 1 \in S
  <2> DEFINE h == [k \in 0 .. m + 1 |-> IF k = m + 1 THEN Up(f[m], path[m + 1]) ELSE f[k]]
  <2>1. ASSUME NEW k \in 0 .. m + 1
        PROVE  h[k] = IF k = 0 THEN leaf_hash(order) ELSE Up(h[k - 1], path[k])
    <3>1. CASE k = m + 1
      <4>1. m \in 0 .. m + 1 /\ m # m + 1 /\ k # 0 /\ k - 1 = m
        BY <3>1
      <4>2. h[m] = f[m]
        BY <4>1
      <4> QED
        BY <3>1, <4>1, <4>2
    <3>2. CASE k # m + 1
      <4>1. k \in 0 .. m /\ (k # 0 => k - 1 \in 0 .. m + 1 /\ k - 1 # m + 1)
        BY <3>2
      <4>2. f[k] = IF k = 0 THEN leaf_hash(order) ELSE Up(f[k - 1], path[k])
        BY <1>0, <1>2, <4>1
      <4>3. h[k] = f[k] /\ (k # 0 => h[k - 1] = f[k - 1])
        BY <3>2, <4>1
      <4> QED
        BY <4>2, <4>3
    <3> QED
      BY <3>1, <3>2
  <2>2. h = [k \in 0 .. m + 1 |-> IF k = 0 THEN leaf_hash(order) ELSE Up(h[k - 1], path[k])]
    BY <2>1
  <2>3. Ascends(h, m + 1, order, path)
    BY <1>0, <2>2
  <2> QED
    BY <2>3
<1>3. S = Nat
  <2>1. S \in SUBSET Nat /\ \A m \in S : m + 1 \in S
    BY <1>2
  <2> HIDE DEF S
  <2> QED
    BY <1>1, <2>1, Induction
<1> QED
  BY <1>3

\* What Climb is: the order's leaf, then with each step of the path its sibling.
LEMMA ClimbStep ==
    ASSUME NEW order, NEW P, NEW path \in Seq(P)
    PROVE  /\ Climb(order, path)[0] = leaf_hash(order)
           /\ \A i \in 1 .. Len(path) :
                Climb(order, path)[i] =
                   IF path[i].dir = "L" THEN node_hash(path[i].hash, Climb(order, path)[i - 1])
                                        ELSE node_hash(Climb(order, path)[i - 1], path[i].hash)
<1> DEFINE h == CHOOSE g : Ascends(g, Len(path), order, path)
<1>1. Len(path) \in Nat
  OBVIOUS
<1>2. Ascends(h, Len(path), order, path)
  BY <1>1, AscentExists
<1>3. Climb(order, path) = h
  BY DEF Climb, Ascends
<1> HIDE DEF h
<1>4. 0 \in 0 .. Len(path) /\ \A i \in 1 .. Len(path) : i \in 0 .. Len(path) /\ i # 0
  BY <1>1
<1> QED
  BY <1>2, <1>3, <1>4 DEF Ascends

\* What book_root is of the leaves of a book that is not empty.
MerkleRoot(leaves) == Last(merkle_levels(leaves))[1]

\* The root stands on the last level, alone.
LEMMA RootPlace ==
    ASSUME NEW R, NEW leaves \in Seq(R), leaves # <<>>
    PROVE  /\ MerkleRoot(leaves) = Level(leaves)[Height(leaves)][1]
           /\ InTree(leaves, MerkleRoot(leaves))
<1>1. Height(leaves) \in 0 .. Len(leaves) /\ Len(leaves) \in Nat
  BY HeightType
<1>2. Len(merkle_levels(leaves)) = Height(leaves) + 1
  BY <1>1 DEF merkle_levels
<1>3. Last(merkle_levels(leaves)) = Level(leaves)[Height(leaves)]
  <2>1. Height(leaves) + 1 \in 1 .. Height(leaves) + 1 /\ (Height(leaves) + 1) - 1 = Height(leaves)
    BY <1>1
  <2> QED
    BY <1>2, <2>1 DEF merkle_levels, Last
<1>4. Len(Level(leaves)[Height(leaves)]) = 1 /\ 1 \in 1 .. 1
  BY HeightType
<1> QED
  BY <1>1, <1>3, <1>4 DEF MerkleRoot, InTree

\* The tags keep leaves and nodes apart.
LEMMA LeafIsNoNode ==
    ASSUME NEW o, NEW x, NEW y
    PROVE  leaf_hash(o) # node_hash(x, y)
BY DEF leaf_hash, node_hash

LEMMA NodeInjective ==
    ASSUME NEW x, NEW y, NEW u, NEW v, node_hash(x, y) = node_hash(u, v)
    PROVE  x = u /\ y = v
BY DEF node_hash

\* A path from an order's leaf to the root leads through the tree.
LEMMA PathInTree ==
    ASSUME NEW R, NEW norm \in Seq(R), norm # <<>>, NEW order,
           NEW P, NEW path \in Seq(P),
           Climb(order, path)[Len(path)] = MerkleRoot(Leaves(norm))
    PROVE  InTree(Leaves(norm), leaf_hash(order))
<1> DEFINE leaves == Leaves(norm)
           h == Climb(order, path)
           n == Len(path)
           S == {d \in Nat : d <= n => InTree(leaves, h[n - d])}
<1>1. /\ n \in Nat /\ Len(leaves) = Len(norm) /\ leaves # <<>>
      /\ leaves \in Seq({leaf_hash(norm[i]) : i \in DOMAIN norm})
      /\ \A i \in 1 .. Len(leaves) : i \in DOMAIN norm /\ leaves[i] = leaf_hash(norm[i])
  BY DEF Leaves
<1>2. 0 \in S
  BY <1>1, RootPlace
<1>h. /\ h[0] = leaf_hash(order)
      /\ \A i \in 1 .. n : \E x, y : h[i] = node_hash(x, y) /\ h[i - 1] \in {x, y}
  <2>1. \A i \in 1 .. n : h[i] = IF path[i].dir = "L" THEN node_hash(path[i].hash, h[i - 1])
                                                    ELSE node_hash(h[i - 1], path[i].hash)
    BY ClimbStep
  <2> HIDE DEF h, n
  <2>2. ASSUME NEW i \in 1 .. n
        PROVE  \E x, y : h[i] = node_hash(x, y) /\ h[i - 1] \in {x, y}
    BY <2>1
  <2>3. h[0] = leaf_hash(order)
    BY ClimbStep DEF h
  <2> QED
    BY <2>2, <2>3
<1> HIDE DEF leaves, h, n
<1>3. ASSUME NEW d \in Nat, d + 1 <= n, InTree(leaves, h[n - d])
      PROVE  InTree(leaves, h[n - (d + 1)])
  <2>1. n - d \in 1 .. n /\ (n - d) - 1 = n - (d + 1)
    BY <1>1, <1>3
  <2>2. \E x, y : h[n - d] = node_hash(x, y) /\ h[n - (d + 1)] \in {x, y}
    BY <1>h, <2>1
  <2>3. PICK x, y : h[n - d] = node_hash(x, y) /\ h[n - (d + 1)] \in {x, y}
    BY <2>2
  <2>4. ~Leaf(leaves, h[n - d])
    BY <1>1, <2>3, LeafIsNoNode DEF Leaf
  <2>5. PICK y1, z1 : h[n - d] = node_hash(y1, z1) /\ InTree(leaves, y1) /\ InTree(leaves, z1)
    BY <1>1, <1>3, <2>4, NodeOrigin DEF Paired
  <2>6. x = y1 /\ y = z1
    <3>1. node_hash(x, y) = node_hash(y1, z1)
      BY <2>3, <2>5
    <3> QED
      BY ONLY <3>1, NodeInjective
  <2> QED
    BY <2>3, <2>5, <2>6
<1>4. S = Nat
  <2>1. S \in SUBSET Nat /\ \A d \in S : d + 1 \in S
    BY <1>1, <1>3
  <2> HIDE DEF S
  <2> QED
    BY <1>2, <2>1, Induction
<1>5. n \in S
  <2> HIDE DEF S
  <2> QED
    BY <1>1, <1>4
<1>6. InTree(leaves, h[0])
  <2>1. n <= n /\ n - n = 0
    BY <1>1
  <2> QED
    BY <1>5, <2>1
<1> QED
  BY <1>h, <1>6 DEF leaves

-----------------------------------------------------------------------------
(* How deep a node is: its left spine down to a leaf. *)

\* x is the hash of a first one that is the hash of a first one ... d times, down
\* to a leaf.
SpineOf(sp, x, d) ==
    /\ sp[0] = x
    /\ \A i \in 0 .. d - 1 : \E y : sp[i] = node_hash(sp[i + 1], y)
    /\ \E o : sp[d] = leaf_hash(o)
Spine(x, d) == \E sp : SpineOf(sp, x, d)

\* A hash has one spine.
LEMMA SpineUnique ==
    ASSUME NEW x, NEW d \in Nat, NEW e \in Nat, Spine(x, d), Spine(x, e), d < e
    PROVE  FALSE
<1>1. PICK s : SpineOf(s, x, d)
  BY DEF Spine
<1>2. PICK t : SpineOf(t, x, e)
  BY DEF Spine
<1> DEFINE S == {i \in Nat : i <= d => s[i] = t[i]}
<1>3. 0 \in S
  BY <1>1, <1>2 DEF SpineOf
<1>4. ASSUME NEW i \in Nat, i + 1 <= d, s[i] = t[i]
      PROVE  s[i + 1] = t[i + 1]
  <2>1. i \in 0 .. d - 1 /\ i \in 0 .. e - 1
    BY <1>4
  <2>2. PICK y : s[i] = node_hash(s[i + 1], y)
    BY <1>1, <2>1 DEF SpineOf
  <2>3. PICK z : t[i] = node_hash(t[i + 1], z)
    BY <1>2, <2>1 DEF SpineOf
  <2>4. node_hash(s[i + 1], y) = node_hash(t[i + 1], z)
    BY <1>4, <2>2, <2>3
  <2> QED
    BY ONLY <2>4, NodeInjective
<1>5. S = Nat
  <2>1. S \in SUBSET Nat
    OBVIOUS
  <2>2. ASSUME NEW i \in S
        PROVE  i + 1 \in S
    BY <1>4
  <2> HIDE DEF S
  <2> QED
    BY <1>3, <2>1, <2>2, Induction
<1>6. s[d] = t[d]
  <2>1. d \in S
    BY <1>5
  <2> QED
    BY <2>1
<1>7. PICK o : s[d] = leaf_hash(o)
  BY <1>1 DEF SpineOf
<1>8. d \in 0 .. e - 1
  OBVIOUS
<1>9. PICK y : t[d] = node_hash(t[d + 1], y)
  BY <1>2, <1>8 DEF SpineOf
<1> QED
  BY <1>6, <1>7, <1>9, LeafIsNoNode

\* The spine of a pair is one longer than that of its first half.
LEMMA SpineNode ==
    ASSUME NEW x, NEW y, NEW d \in Nat, Spine(x, d)
    PROVE  Spine(node_hash(x, y), d + 1)
<1>1. PICK s : SpineOf(s, x, d)
  BY DEF Spine
<1> DEFINE t == [i \in 0 .. d + 1 |-> IF i = 0 THEN node_hash(x, y) ELSE s[i - 1]]
<1>2. t[0] = node_hash(x, y)
  OBVIOUS
<1>3. t[d + 1] = s[d]
  <2>1. d + 1 \in 0 .. d + 1 /\ d + 1 # 0 /\ (d + 1) - 1 = d
    OBVIOUS
  <2> QED
    BY <2>1
<1>4. ASSUME NEW i \in 0 .. (d + 1) - 1
      PROVE  \E z : t[i] = node_hash(t[i + 1], z)
  <2>1. i + 1 \in 0 .. d + 1 /\ i + 1 # 0 /\ (i + 1) - 1 = i /\ i \in 0 .. d + 1
    OBVIOUS
  <2>2. t[i + 1] = s[i]
    BY <2>1
  <2>3. CASE i = 0
    <3>1. t[i + 1] = x
      BY <1>1, <2>2, <2>3 DEF SpineOf
    <3> HIDE DEF t
    <3> QED
      BY <1>2, <2>3, <3>1
  <2>4. CASE i # 0
    <3>1. i - 1 \in 0 .. d - 1 /\ (i - 1) + 1 = i
      BY <2>4
    <3>2. PICK z : s[i - 1] = node_hash(s[i], z)
      BY <1>1, <3>1 DEF SpineOf
    <3>3. t[i] = s[i - 1]
      BY <2>1, <2>4
    <3> HIDE DEF t
    <3> QED
      BY <2>2, <3>2, <3>3
  <2> QED
    BY <2>3, <2>4
<1> HIDE DEF t
<1>5. \E o : t[d + 1] = leaf_hash(o)
  BY <1>1, <1>3 DEF SpineOf
<1>6. SpineOf(t, node_hash(x, y), d + 1)
  BY <1>2, <1>4, <1>5 DEF SpineOf
<1> QED
  BY <1>6 DEF Spine

AllLeaves(leaves) == \A i \in 1 .. Len(leaves) : \E o : leaves[i] = leaf_hash(o)

\* On a level all nodes but the last are full trees; the last may have come up alone.
LEMMA SpineLevel ==
    ASSUME NEW R, NEW leaves \in Seq(R), leaves # <<>>, AllLeaves(leaves),
           NEW k \in 0 .. Len(leaves), NEW i \in 1 .. Len(Level(leaves)[k])
    PROVE  /\ \E d \in 0 .. k : Spine(Level(leaves)[k][i], d)
           /\ i < Len(Level(leaves)[k]) => Spine(Level(leaves)[k][i], k)
<1> DEFINE n == Len(leaves)
           L == Level(leaves)
           Full(j, p) == /\ \E d \in 0 .. j : Spine(L[j][p], d)
                         /\ p < Len(L[j]) => Spine(L[j][p], j)
           Known(j) == \A p \in 1 .. Len(L[j]) : Full(j, p)
           S == {j \in Nat : j <= n => Known(j)}
<1>1. n \in Nat
  OBVIOUS
<1>2. Known(0)
  <2> SUFFICES ASSUME NEW p \in 1 .. Len(L[0])
               PROVE  Spine(L[0][p], 0)
    OBVIOUS
  <2>1. L[0] = leaves
    BY LevelStep
  <2>2. PICK o : L[0][p] = leaf_hash(o)
    BY <2>1 DEF AllLeaves
  <2> DEFINE sp == [j \in {0} |-> L[0][p]]
  <2>3. sp[0] = L[0][p]
    OBVIOUS
  <2> HIDE DEF sp, L
  <2>4. SpineOf(sp, L[0][p], 0)
    BY <2>2, <2>3 DEF SpineOf
  <2> QED
    BY <2>4 DEF Spine
<1>3. ASSUME NEW j \in Nat, j + 1 <= n, Known(j)
      PROVE  Known(j + 1)
  <2> SUFFICES ASSUME NEW p \in 1 .. Len(L[j + 1])
               PROVE  Full(j + 1, p)
    OBVIOUS
  <2>1. j + 1 \in 1 .. n /\ (j + 1) - 1 = j /\ j \in 0 .. n
    BY <1>1, <1>3
  <2>2. L[j + 1] = NextLevel(L[j])
    BY <2>1, LevelStep
  <2> DEFINE m == Len(L[j])
  <2>3. IsList(L[j], m) /\ m \in Nat
    BY <2>1, LevelList DEF IsList
  <2> HIDE DEF m, L
  <2>4. /\ Len(L[j + 1]) = (m + 1) \div 2
        /\ \A q \in 1 .. (m + 1) \div 2 :
              L[j + 1][q] = IF 2 * q <= m THEN node_hash(L[j][2 * q - 1], L[j][2 * q])
                                          ELSE L[j][2 * q - 1]
    BY <2>2, <2>3, NextLevelList DEF IsList
  <2>5. /\ p \in Nat /\ 1 <= p /\ 2 * p <= m + 1
        /\ p < Len(L[j + 1]) => 2 * p <= m
    BY <2>3, <2>4
  <2>6. 2 * p - 1 \in 1 .. m
    BY <2>3, <2>5
  <2>7. CASE 2 * p <= m
    <3>1. L[j + 1][p] = node_hash(L[j][2 * p - 1], L[j][2 * p])
      BY <2>4, <2>7
    <3>2. 2 * p - 1 < Len(L[j])
      BY <2>3, <2>5, <2>7 DEF m
    <3>3. Spine(L[j][2 * p - 1], j)
      BY <1>3, <2>6, <3>2 DEF m
    <3>4. Spine(L[j + 1][p], j + 1)
      BY <3>1, <3>3, SpineNode
    <3>5. j + 1 \in 0 .. j + 1
      OBVIOUS
    <3> QED
      BY <3>4, <3>5
  <2>8. CASE ~(2 * p <= m)
    <3>1. L[j + 1][p] = L[j][2 * p - 1]
      BY <2>4, <2>8
    <3>2. PICK d \in 0 .. j : Spine(L[j][2 * p - 1], d)
      BY <1>3, <2>6 DEF m
    <3>3. d \in 0 .. j + 1
      OBVIOUS
    <3> QED
      BY <2>5, <2>8, <3>1, <3>2, <3>3
  <2> QED
    BY <2>7, <2>8
<1> HIDE DEF L, n
<1>4. S = Nat
  <2>1. S \in SUBSET Nat /\ 0 \in S
    BY <1>2
  <2>2. \A j \in S : j + 1 \in S
    BY <1>1, <1>3
  <2> HIDE DEF S
  <2> QED
    BY <2>1, <2>2, Induction
<1>5. k \in S /\ k <= n
  BY <1>1, <1>4 DEF n
<1>6. Known(k)
  BY <1>5
<1> QED
  BY <1>6 DEF L

\* The root is a full tree as far as its left side goes.
LEMMA SpineRoot ==
    ASSUME NEW R, NEW leaves \in Seq(R), leaves # <<>>, AllLeaves(leaves)
    PROVE  Spine(MerkleRoot(leaves), Height(leaves))
<1> DEFINE L == Level(leaves)
           H == Height(leaves)
<1>1. /\ H \in 0 .. Len(leaves) /\ Len(leaves) \in Nat /\ Len(L[H]) = 1
      /\ \A j \in 0 .. H - 1 : Len(L[j]) > 1
      /\ MerkleRoot(leaves) = L[H][1]
  BY HeightType, RootPlace
<1>2. CASE H = 0
  <2>1. \E d \in 0 .. 0 : Spine(L[0][1], d)
    BY <1>1, <1>2, SpineLevel
  <2> QED
    BY <1>1, <1>2, <2>1
<1>3. CASE H # 0
  <2>1. H - 1 \in 0 .. H - 1 /\ H - 1 \in 0 .. Len(leaves) /\ H \in 1 .. Len(leaves)
    BY <1>1, <1>3
  <2>2. Len(L[H - 1]) > 1 /\ L[H] = NextLevel(L[H - 1])
    BY <1>1, <2>1, LevelStep
  <2> DEFINE m == Len(L[H - 1])
  <2>3. IsList(L[H - 1], m) /\ m \in Nat
    BY <2>1, LevelList DEF IsList
  <2>4. 1 \in 1 .. m /\ 1 < m
    BY <2>2, <2>3
  <2>5. Spine(L[H - 1][1], H - 1)
    BY <2>1, <2>4, SpineLevel
  <2> HIDE DEF L, H
  <2>6. L[H][1] = node_hash(L[H - 1][1], L[H - 1][2])
    <3>1. \A i \in 1 .. (m + 1) \div 2 :
            NextLevel(L[H - 1])[i] = IF 2 * i <= m THEN node_hash(L[H - 1][2 * i - 1], L[H - 1][2 * i])
                                                   ELSE L[H - 1][2 * i - 1]
      BY <2>3, NextLevelList
    <3>0. m \in Nat /\ m > 1
      BY <2>2, <2>3
    <3> HIDE DEF m
    <3>2. 1 \in 1 .. (m + 1) \div 2 /\ 2 * 1 <= m /\ 2 * 1 - 1 = 1 /\ 2 * 1 = 2
      BY <3>0
    <3> QED
      BY <2>2, <3>1, <3>2
  <2>7. H - 1 \in Nat /\ (H - 1) + 1 = H
    BY <1>1, <2>1
  <2>8. Spine(L[H][1], (H - 1) + 1)
    BY <2>5, <2>6, <2>7, SpineNode
  <2> QED
    BY <1>1, <2>7, <2>8 DEF H
<1> QED
  BY <1>2, <1>3

-----------------------------------------------------------------------------
(* Two trees of one root have the same leaves. *)

\* What stands at place i of the next level.
LEMMA LevelAbove ==
    ASSUME NEW R, NEW leaves \in Seq(R), leaves # <<>>, NEW k \in Nat, k + 1 <= Len(leaves)
    PROVE  LET L == Level(leaves)
               m == Len(L[k])
           IN  /\ m \in Nat /\ m >= 1
               /\ Len(L[k + 1]) = (m + 1) \div 2
               /\ \A i \in 1 .. (m + 1) \div 2 :
                    L[k + 1][i] = IF 2 * i <= m THEN node_hash(L[k][2 * i - 1], L[k][2 * i])
                                                ELSE L[k][2 * i - 1]
<1> DEFINE L == Level(leaves)
           m == Len(L[k])
<1>1. k + 1 \in 1 .. Len(leaves) /\ (k + 1) - 1 = k /\ k \in 0 .. Len(leaves)
  OBVIOUS
<1>2. L[k + 1] = NextLevel(L[k])
  BY <1>1, LevelStep
<1>3. IsList(L[k], m) /\ m \in Nat /\ m >= 1
  BY <1>1, LevelList DEF IsList
<1> HIDE DEF m, L
<1>4. /\ Len(L[k + 1]) = (m + 1) \div 2
      /\ \A i \in 1 .. (m + 1) \div 2 :
            L[k + 1][i] = IF 2 * i <= m THEN node_hash(L[k][2 * i - 1], L[k][2 * i])
                                        ELSE L[k][2 * i - 1]
  BY <1>2, <1>3, NextLevelList DEF IsList
<1> QED
  BY <1>3, <1>4 DEF m, L

\* A node that came up alone is no node of two full trees.
LEMMA NoneAlone ==
    ASSUME NEW R, NEW a \in Seq(R), a # <<>>, AllLeaves(a),
           NEW T, NEW b \in Seq(T), b # <<>>, AllLeaves(b),
           NEW k \in Nat, k + 1 <= Len(a), k + 1 <= Len(b), NEW m \in Nat, m >= 1,
           Len(Level(a)[k]) = 2 * m, Len(Level(b)[k]) = 2 * m - 1,
           Level(a)[k + 1][m] = Level(b)[k + 1][m]
    PROVE  FALSE
<1> DEFINE A == Level(a)
           B == Level(b)
<1>1. k \in 0 .. Len(a) /\ k \in 0 .. Len(b) /\ Len(a) \in Nat /\ Len(b) \in Nat
  OBVIOUS
<1>2. /\ m \in 1 .. (2 * m + 1) \div 2 /\ m \in 1 .. ((2 * m - 1) + 1) \div 2
      /\ 2 * m - 1 \in 1 .. 2 * m - 1 /\ 2 * m - 1 \in 1 .. 2 * m /\ 2 * m - 1 < 2 * m
      /\ 2 * m <= 2 * m /\ ~(2 * m <= 2 * m - 1)
  OBVIOUS
<1>3. A[k + 1][m] = node_hash(A[k][2 * m - 1], A[k][2 * m])
  <2>1. \A i \in 1 .. (2 * m + 1) \div 2 :
          A[k + 1][i] = IF 2 * i <= 2 * m THEN node_hash(A[k][2 * i - 1], A[k][2 * i])
                                          ELSE A[k][2 * i - 1]
    <3> DEFINE u == Len(A[k])
    <3>1. \A i \in 1 .. (u + 1) \div 2 :
            A[k + 1][i] = IF 2 * i <= u THEN node_hash(A[k][2 * i - 1], A[k][2 * i])
                                        ELSE A[k][2 * i - 1]
      BY LevelAbove
    <3>2. u = 2 * m
      OBVIOUS
    <3> HIDE DEF u, A
    <3> QED
      BY <3>1, <3>2
  <2> HIDE DEF A
  <2> QED
    BY <1>2, <2>1
<1>4. B[k + 1][m] = B[k][2 * m - 1]
  <2>1. \A i \in 1 .. ((2 * m - 1) + 1) \div 2 :
          B[k + 1][i] = IF 2 * i <= 2 * m - 1 THEN node_hash(B[k][2 * i - 1], B[k][2 * i])
                                              ELSE B[k][2 * i - 1]
    <3> DEFINE u == Len(B[k])
    <3>1. \A i \in 1 .. (u + 1) \div 2 :
            B[k + 1][i] = IF 2 * i <= u THEN node_hash(B[k][2 * i - 1], B[k][2 * i])
                                        ELSE B[k][2 * i - 1]
      BY LevelAbove
    <3>2. u = 2 * m - 1
      OBVIOUS
    <3> HIDE DEF u, B
    <3> QED
      BY <3>1, <3>2
  <2> HIDE DEF B
  <2> QED
    BY <1>2, <2>1
<1>5. Spine(A[k][2 * m - 1], k)
  BY <1>1, <1>2, SpineLevel
<1>6. PICK d \in 0 .. k : Spine(B[k][2 * m - 1], d)
  BY <1>1, <1>2, SpineLevel
<1> HIDE DEF A, B
<1>7. Spine(A[k + 1][m], k + 1)
  BY <1>3, <1>5, SpineNode
<1>8. Spine(A[k + 1][m], d) /\ d \in Nat /\ d < k + 1 /\ k + 1 \in Nat
  BY <1>4, <1>6 DEF A, B
<1> QED
  BY <1>7, <1>8, SpineUnique

SameList(s, t) == Len(s) = Len(t) /\ \A i \in 1 .. Len(s) : s[i] = t[i]

\* A level that is halved has twice as many nodes, or one fewer.
LEMMA Halved ==
    ASSUME NEW n \in Nat, NEW q, q = (n + 1) \div 2
    PROVE  n = 2 * q \/ n = 2 * q - 1
OBVIOUS

\* Two levels are the same if those above them are.
LEMMA SameBelow ==
    ASSUME NEW R, NEW a \in Seq(R), a # <<>>, AllLeaves(a),
           NEW T, NEW b \in Seq(T), b # <<>>, AllLeaves(b),
           NEW k \in Nat, k + 1 <= Len(a), k + 1 <= Len(b),
           SameList(Level(a)[k + 1], Level(b)[k + 1])
    PROVE  SameList(Level(a)[k], Level(b)[k])
<1> DEFINE A == Level(a)
           B == Level(b)
           m == Len(A[k])
           n == Len(B[k])
<1>1. /\ m \in Nat /\ m >= 1 /\ Len(A[k + 1]) = (m + 1) \div 2
      /\ \A i \in 1 .. (m + 1) \div 2 :
            A[k + 1][i] = IF 2 * i <= m THEN node_hash(A[k][2 * i - 1], A[k][2 * i])
                                        ELSE A[k][2 * i - 1]
  BY LevelAbove
<1>2. /\ n \in Nat /\ n >= 1 /\ Len(B[k + 1]) = (n + 1) \div 2
      /\ \A i \in 1 .. (n + 1) \div 2 :
            B[k + 1][i] = IF 2 * i <= n THEN node_hash(B[k][2 * i - 1], B[k][2 * i])
                                        ELSE B[k][2 * i - 1]
  BY LevelAbove
<1>3. /\ (m + 1) \div 2 = (n + 1) \div 2
      /\ \A i \in 1 .. (m + 1) \div 2 : A[k + 1][i] = B[k + 1][i]
  BY <1>1, <1>2 DEF SameList
<1> DEFINE q == (m + 1) \div 2
<1>4. /\ q \in Nat /\ q >= 1 /\ q \in 1 .. q
      /\ m = 2 * q \/ m = 2 * q - 1
      /\ n = 2 * q \/ n = 2 * q - 1
  <2> HIDE DEF m, n
  <2>1. q \in Nat /\ q >= 1 /\ (m = 2 * q \/ m = 2 * q - 1)
    BY <1>1
  <2>2. q = (n + 1) \div 2
    BY <1>3
  <2> HIDE DEF q
  <2>3. n \in Nat
    BY <1>2
  <2>4. n = 2 * q \/ n = 2 * q - 1
    BY ONLY <2>2, <2>3, Halved
  <2> QED
    BY <2>1, <2>4
<1>5. m = n
  <2>1. ASSUME m = 2 * q, n = 2 * q - 1
        PROVE  FALSE
    BY <1>3, <1>4, <2>1, NoneAlone
  <2>2. ASSUME n = 2 * q, m = 2 * q - 1
        PROVE  FALSE
    BY <1>3, <1>4, <2>2, NoneAlone
  <2> QED
    BY <1>4, <2>1, <2>2
<1> HIDE DEF A, B, m, n, q
<1>6. ASSUME NEW i \in 1 .. m
      PROVE  A[k][i] = B[k][i]
  <2> DEFINE p == (i + 1) \div 2
  <2>1. /\ p \in 1 .. (m + 1) \div 2
        /\ i = 2 * p \/ i = 2 * p - 1
        /\ i = 2 * p => 2 * p <= m
    BY <1>1, <1>6
  <2> HIDE DEF p
  <2>2. /\ A[k + 1][p] = IF 2 * p <= m THEN node_hash(A[k][2 * p - 1], A[k][2 * p])
                                       ELSE A[k][2 * p - 1]
        /\ B[k + 1][p] = IF 2 * p <= m THEN node_hash(B[k][2 * p - 1], B[k][2 * p])
                                       ELSE B[k][2 * p - 1]
        /\ A[k + 1][p] = B[k + 1][p]
    BY <1>1, <1>2, <1>3, <1>5, <2>1
  <2>3. CASE 2 * p <= m
    <3>1. node_hash(A[k][2 * p - 1], A[k][2 * p]) = node_hash(B[k][2 * p - 1], B[k][2 * p])
      BY <2>2, <2>3
    <3>2. A[k][2 * p - 1] = B[k][2 * p - 1] /\ A[k][2 * p] = B[k][2 * p]
      BY ONLY <3>1, NodeInjective
    <3> QED
      BY <2>1, <3>2
  <2>4. CASE ~(2 * p <= m)
    BY <2>1, <2>2, <2>4
  <2> QED
    BY <2>3, <2>4
<1> QED
  BY <1>5, <1>6 DEF SameList, m, n, A, B

\* One root, one list of leaves.
LEMMA RootBindsLeaves ==
    ASSUME NEW R, NEW a \in Seq(R), a # <<>>, AllLeaves(a),
           NEW T, NEW b \in Seq(T), b # <<>>, AllLeaves(b),
           MerkleRoot(a) = MerkleRoot(b)
    PROVE  a = b
<1> DEFINE A == Level(a)
           B == Level(b)
           h == Height(a)
<1>1. h \in 0 .. Len(a) /\ Height(b) \in 0 .. Len(b) /\ Len(a) \in Nat /\ Len(b) \in Nat
  BY HeightType
<1>2. Height(b) = h
  <2>1. Spine(MerkleRoot(a), h) /\ Spine(MerkleRoot(a), Height(b))
    <3>1. Spine(MerkleRoot(a), h)
      BY SpineRoot
    <3>2. Spine(MerkleRoot(b), Height(b))
      BY SpineRoot
    <3> QED
      BY <3>1, <3>2
  <2>2. h \in Nat /\ Height(b) \in Nat
    BY <1>1
  <2> HIDE DEF h
  <2>3. ~(h < Height(b)) /\ ~(Height(b) < h)
    BY <2>1, <2>2, SpineUnique
  <2> QED
    BY <2>2, <2>3
<1>3. SameList(A[h], B[h])
  <2>1. Len(A[h]) = 1 /\ Len(B[h]) = 1
    BY <1>2, HeightType
  <2>2. A[h][1] = B[h][1]
    BY <1>2, RootPlace
  <2> QED
    BY <2>1, <2>2 DEF SameList
<1> DEFINE S == {d \in Nat : d <= h => SameList(A[h - d], B[h - d])}
<1>4. ASSUME NEW d \in Nat, d + 1 <= h, SameList(A[h - d], B[h - d])
      PROVE  SameList(A[h - (d + 1)], B[h - (d + 1)])
  <2> DEFINE k == h - (d + 1)
  <2>1. k \in Nat /\ k + 1 = h - d /\ k + 1 <= Len(a) /\ k + 1 <= Len(b)
    BY <1>1, <1>2, <1>4
  <2>2. SameList(A[k + 1], B[k + 1])
    BY <1>4, <2>1
  <2> HIDE DEF k
  <2>3. SameList(A[k], B[k])
    BY <2>1, <2>2, SameBelow
  <2> QED
    BY <2>3 DEF k
<1> HIDE DEF A, B, h
<1>5. S = Nat
  <2>1. 0 \in S
    BY <1>1, <1>3
  <2>2. S \in SUBSET Nat /\ \A d \in S : d + 1 \in S
    BY <1>1, <1>4
  <2> HIDE DEF S
  <2> QED
    BY <2>1, <2>2, Induction
<1>6. SameList(A[0], B[0])
  <2>1. h \in S
    <3> HIDE DEF S
    <3> QED
      BY <1>1, <1>5
  <2>2. h <= h /\ h - h = 0
    BY <1>1
  <2> QED
    BY <2>1, <2>2
<1>7. A[0] = a /\ B[0] = b
  BY LevelStep DEF A, B
<1>8. SameList(a, b)
  BY <1>6, <1>7
<1> QED
  BY <1>8 DEF SameList

-----------------------------------------------------------------------------
(* The canonical order of a book. *)

\* The order in which sorted() puts two keys.
Less(x, y) ==
    \/ x.rune < y.rune
    \/ x.rune = y.rune /\ x.price < y.price
    \/ x.rune = y.rune /\ x.price = y.price /\ x.announce_height < y.announce_height
    \/ x.rune = y.rune /\ x.price = y.price /\ x.announce_height = y.announce_height
       /\ x.op < y.op

\* That order is the comparison of the tuples.
LEMMA Lexicographic ==
    ASSUME NEW x, NEW y
    PROVE  Precedes(Key(x), Key(y)) <=> Less(x, y)
<1> DEFINE k == Key(x)
           l == Key(y)
<1>1. /\ DOMAIN k = {1, 2, 3, 4}
      /\ k[1] = x.rune /\ k[2] = x.price /\ k[3] = x.announce_height /\ k[4] = x.op
      /\ l[1] = y.rune /\ l[2] = y.price /\ l[3] = y.announce_height /\ l[4] = y.op
  BY DEF Key
<1>2. 1 .. 1 - 1 = {} /\ 1 .. 2 - 1 = {1} /\ 1 .. 3 - 1 = {1, 2} /\ 1 .. 4 - 1 = {1, 2, 3}
  OBVIOUS
<1> HIDE DEF k, l
<1>3. Precedes(k, l) <=> \E i \in {1, 2, 3, 4} : k[i] < l[i] /\ \A j \in 1 .. i - 1 : k[j] = l[j]
  BY <1>1 DEF Precedes
<1>4. Precedes(k, l) <=>
             \/ k[1] < l[1] /\ \A j \in 1 .. 1 - 1 : k[j] = l[j]
             \/ k[2] < l[2] /\ \A j \in 1 .. 2 - 1 : k[j] = l[j]
             \/ k[3] < l[3] /\ \A j \in 1 .. 3 - 1 : k[j] = l[j]
             \/ k[4] < l[4] /\ \A j \in 1 .. 4 - 1 : k[j] = l[j]
  BY <1>3
<1>5. Precedes(k, l) <=>
             \/ k[1] < l[1]
             \/ k[2] < l[2] /\ k[1] = l[1]
             \/ k[3] < l[3] /\ k[1] = l[1] /\ k[2] = l[2]
             \/ k[4] < l[4] /\ k[1] = l[1] /\ k[2] = l[2] /\ k[3] = l[3]
  BY <1>2, <1>4
<1>6. Precedes(k, l) <=> Less(x, y)
  BY <1>1, <1>5 DEF Less
<1> QED
  BY <1>6 DEF k, l

\* A list of orders, of which no two offer the same outpoint.
IsBook(orders) ==
    /\ orders \in Seq({orders[i] : i \in DOMAIN orders})
    /\ \A i \in DOMAIN orders :
          /\ orders[i].rune \in Nat /\ orders[i].price \in Nat
          /\ orders[i].announce_height \in Nat /\ orders[i].op \in Nat
    /\ \A i, j \in DOMAIN orders : orders[i].op = orders[j].op => i = j

\* The places of a list.
LEMMA BookPlaces ==
    ASSUME NEW orders, IsBook(orders)
    PROVE  Len(orders) \in Nat /\ DOMAIN orders = 1 .. Len(orders)
BY DEF IsBook

\* In a book the outpoints decide every tie.
LEMMA SoonerIsLess ==
    ASSUME NEW orders, IsBook(orders), NEW i \in DOMAIN orders, NEW j \in DOMAIN orders
    PROVE  Sooner(orders, i, j) <=> Less(orders[i], orders[j])
<1>1. Precedes(Key(orders[i]), Key(orders[j])) <=> Less(orders[i], orders[j])
  BY Lexicographic
<1>2. Key(orders[i]) = Key(orders[j]) => i = j
  BY DEF IsBook, Key
<1>3. i = j => ~(i < j)
  <2>1. i \in Nat
    BY BookPlaces
  <2> QED
    BY <2>1
<1> QED
  BY <1>1, <1>2, <1>3 DEF Sooner

\* No two orders of a book are sorted to one place.
LEMMA SoonerOrders ==
    ASSUME NEW orders, IsBook(orders),
           NEW i \in DOMAIN orders, NEW j \in DOMAIN orders, NEW k \in DOMAIN orders
    PROVE  /\ ~Sooner(orders, i, i)
           /\ i # j => Sooner(orders, i, j) \/ Sooner(orders, j, i)
           /\ Sooner(orders, i, j) /\ Sooner(orders, j, k) => Sooner(orders, i, k)
<1>1. \A p, q \in DOMAIN orders : Sooner(orders, p, q) <=> Less(orders[p], orders[q])
  BY SoonerIsLess
<1>2. i # j => orders[i].op # orders[j].op
  BY DEF IsBook
<1> DEFINE a == orders[i]
           b == orders[j]
           c == orders[k]
<1>3. /\ a.rune \in Nat /\ a.price \in Nat /\ a.announce_height \in Nat /\ a.op \in Nat
      /\ b.rune \in Nat /\ b.price \in Nat /\ b.announce_height \in Nat /\ b.op \in Nat
      /\ c.rune \in Nat /\ c.price \in Nat /\ c.announce_height \in Nat /\ c.op \in Nat
  BY DEF IsBook
<1>4. ~Less(a, a) /\ (a.op # b.op => Less(a, b) \/ Less(b, a))
  BY <1>3 DEF Less
<1>5. Less(a, b) /\ Less(b, c) => Less(a, c)
  BY <1>3 DEF Less
<1> QED
  BY <1>1, <1>2, <1>4, <1>5

Place(orders, k) == 1 + Cardinality({j \in DOMAIN orders : Sooner(orders, j, k)})

\* The places of the orders are those from 1 to their number.
LEMMA PlacesNumber ==
    ASSUME NEW orders, IsBook(orders)
    PROVE  /\ \A k \in DOMAIN orders : Place(orders, k) \in 1 .. Len(orders)
           /\ \A k, l \in DOMAIN orders : Place(orders, k) = Place(orders, l) => k = l
           /\ \A n \in 1 .. Len(orders) : \E k \in DOMAIN orders : Place(orders, k) = n
<1> DEFINE D == DOMAIN orders
           n == Len(orders)
           Ahead(k) == {j \in D : Sooner(orders, j, k)}
           place == [k \in D |-> Place(orders, k)]
<1>1. n \in Nat /\ D = 1 .. n /\ IsFiniteSet(D) /\ Cardinality(D) = n
  <2>1. n \in Nat /\ D = 1 .. n
    BY BookPlaces
  <2> HIDE DEF n, D
  <2>2. IsFiniteSet(1 .. n) /\ Cardinality(1 .. n) = n
    BY <2>1, FS_Interval
  <2> QED
    BY <2>1, <2>2
<1>2. ASSUME NEW A, NEW B, IsFiniteSet(B), A \in SUBSET B, A # B
      PROVE  /\ Cardinality(A) \in Nat /\ Cardinality(B) \in Nat
             /\ Cardinality(A) < Cardinality(B)
  <2>1. IsFiniteSet(A) /\ Cardinality(A) <= Cardinality(B) /\ (Cardinality(A) = Cardinality(B) => A = B)
    BY <1>2, FS_Subset
  <2>2. Cardinality(A) \in Nat /\ Cardinality(B) \in Nat
    BY <1>2, <2>1, FS_CardinalityType
  <2> QED
    BY <1>2, <2>1, <2>2
<1>3. ASSUME NEW k \in D
      PROVE  /\ IsFiniteSet(Ahead(k)) /\ Cardinality(Ahead(k)) \in Nat
             /\ Cardinality(Ahead(k)) < n
  <2>1. k \notin Ahead(k) /\ Ahead(k) \in SUBSET D /\ Ahead(k) # D
    BY SoonerOrders
  <2>2. IsFiniteSet(Ahead(k))
    BY <1>1, <2>1, FS_Subset
  <2> HIDE DEF Ahead, D, n
  <2> QED
    BY <1>1, <1>2, <2>1, <2>2
<1>4. ASSUME NEW k \in D, NEW l \in D, k # l
      PROVE  Cardinality(Ahead(k)) # Cardinality(Ahead(l))
  <2>1. ASSUME NEW p \in D, NEW q \in D, Sooner(orders, p, q)
        PROVE  Cardinality(Ahead(p)) < Cardinality(Ahead(q))
    <3>1. Ahead(p) \in SUBSET Ahead(q) /\ p \in Ahead(q) /\ p \notin Ahead(p)
      BY <2>1, SoonerOrders
    <3>2. IsFiniteSet(Ahead(q))
      BY <1>3
    <3> HIDE DEF Ahead
    <3> QED
      BY <1>2, <3>1, <3>2
  <2>2. Sooner(orders, k, l) \/ Sooner(orders, l, k)
    BY <1>4, SoonerOrders
  <2>3. Cardinality(Ahead(k)) \in Nat /\ Cardinality(Ahead(l)) \in Nat
    BY <1>3
  <2>4. Cardinality(Ahead(k)) < Cardinality(Ahead(l)) \/ Cardinality(Ahead(l)) < Cardinality(Ahead(k))
    BY <2>1, <2>2
  <2> HIDE DEF Ahead
  <2> QED
    BY <2>3, <2>4
<1>5. \A k \in D : place[k] = 1 + Cardinality(Ahead(k))
  BY DEF Place
<1> HIDE DEF place, Ahead
<1>6. place \in [D -> 1 .. n]
  <2>1. \A k \in D : place[k] \in 1 .. n
    BY <1>1, <1>3, <1>5
  <2>2. place = [k \in D |-> place[k]]
    BY DEF place
  <2> QED
    BY <2>1, <2>2
<1>7. \A k, l \in D : place[k] = place[l] => k = l
  <2> SUFFICES ASSUME NEW k \in D, NEW l \in D, k # l, place[k] = place[l]
               PROVE  FALSE
    OBVIOUS
  <2>1. Cardinality(Ahead(k)) \in Nat /\ Cardinality(Ahead(l)) \in Nat
    BY <1>3
  <2>2. Cardinality(Ahead(k)) # Cardinality(Ahead(l))
    BY <1>4
  <2> QED
    BY <1>5, <2>1, <2>2
<1> HIDE DEF D, n
<1>8. place \in Injection(D, 1 .. n)
  BY <1>6, <1>7, Fun_IsInj
<1>9. place \in Surjection(D, 1 .. n)
  <2>1. IsFiniteSet(1 .. n) /\ Cardinality(1 .. n) = Cardinality(D)
    BY <1>1
  <2> QED
    BY <1>8, <2>1, FS_Injection
<1>10. \A m \in 1 .. n : \E k \in D : place[k] = m
  BY <1>9, Fun_SurjectionProperties
<1>11. \A k \in D : place[k] = Place(orders, k)
  BY DEF place
<1> QED
  BY <1>6, <1>7, <1>10, <1>11 DEF D, n

\* Where sorted_norm finds the order of each place.
Found(orders, n) == CHOOSE k \in DOMAIN orders : Place(orders, k) = n

\* sorted_norm lists the orders, each at its place.
LEMMA SortedList ==
    ASSUME NEW orders, IsBook(orders)
    PROVE  LET norm == sorted_norm(orders) IN
           /\ IsList(norm, Len(orders)) /\ DOMAIN norm = DOMAIN orders
           /\ norm \in Seq({norm[i] : i \in DOMAIN norm})
           /\ \A i \in DOMAIN orders : /\ Found(orders, i) \in DOMAIN orders
                                       /\ Place(orders, Found(orders, i)) = i
                                       /\ norm[i] = orders[Found(orders, i)]
           /\ \A k \in DOMAIN orders : /\ Place(orders, k) \in DOMAIN orders
                                       /\ Found(orders, Place(orders, k)) = k
<1> DEFINE n == Len(orders)
           rank == [k \in DOMAIN orders |-> 1 + Cardinality({j \in DOMAIN orders : Sooner(orders, j, k)})]
           list == [i \in DOMAIN orders |-> orders[CHOOSE k \in DOMAIN orders : rank[k] = i]]
           norm == sorted_norm(orders)
<1>1. n \in Nat /\ DOMAIN orders = 1 .. n
  BY BookPlaces
<1>2. norm = SubSeq(list, 1, n)
  BY DEF sorted_norm
<1>3. \A i \in DOMAIN orders : list[i] = orders[Found(orders, i)]
  <2>1. \A k \in DOMAIN orders : rank[k] = Place(orders, k)
    BY DEF Place
  <2>2. \A i \in DOMAIN orders :
          (CHOOSE k \in DOMAIN orders : rank[k] = i) = (CHOOSE k \in DOMAIN orders : Place(orders, k) = i)
    BY <2>1
  <2> HIDE DEF rank
  <2> QED
    BY <2>2 DEF Found
<1>4. list = [i \in 1 .. n |-> list[i]]
  BY <1>1
<1> HIDE DEF list, norm, n
<1>5. norm = [i \in 1 .. n |-> list[i]]
  <2>1. list \in Seq({list[i] : i \in 1 .. n}) /\ Len(list) = n
    BY <1>1, <1>4
  <2> QED
    BY <1>1, <1>2, <1>4, <2>1
<1>6. IsList(norm, n) /\ norm \in Seq({norm[i] : i \in DOMAIN norm}) /\ DOMAIN norm = 1 .. n
  BY <1>1, <1>5 DEF IsList
<1>7. \A i \in 1 .. n : Found(orders, i) \in DOMAIN orders /\ Place(orders, Found(orders, i)) = i
  BY PlacesNumber DEF Found, n
<1>8. \A k \in DOMAIN orders : Place(orders, k) \in 1 .. n /\ Found(orders, Place(orders, k)) = k
  BY <1>7, PlacesNumber DEF n
<1>9. \A i \in 1 .. n : norm[i] = orders[Found(orders, i)]
  BY <1>1, <1>3, <1>5
<1> QED
  BY <1>1, <1>6, <1>7, <1>8, <1>9 DEF n, norm

-----------------------------------------------------------------------------
(* The root of a book. *)

\* Orders of one line are sorted alike.
LEMMA LineFields ==
    ASSUME NEW x, NEW y, Line(x) = Line(y)
    PROVE  /\ x.rune = y.rune /\ x.price = y.price
           /\ x.announce_height = y.announce_height /\ x.op = y.op
BY DEF Line

\* What the orders commit to.
Lines(orders) == {Line(orders[i]) : i \in DOMAIN orders}

\* The lines of a book, in whatever order its orders are listed, have one hash.
LEMMA SameBook ==
    ASSUME NEW a, IsBook(a), NEW b, IsBook(b), Lines(a) = Lines(b)
    PROVE  book_hash(a) = book_hash(b)
<1> DEFINE D == DOMAIN a
           E == DOMAIN b
           f == [i \in D |-> CHOOSE j \in E : Line(b[j]) = Line(a[i])]
<1>1. /\ Len(a) \in Nat /\ D = 1 .. Len(a) /\ IsFiniteSet(D) /\ Cardinality(D) = Len(a)
      /\ Len(b) \in Nat /\ E = 1 .. Len(b) /\ IsFiniteSet(E) /\ Cardinality(E) = Len(b)
  <2>1. Len(a) \in Nat /\ D = 1 .. Len(a) /\ Len(b) \in Nat /\ E = 1 .. Len(b)
    BY BookPlaces
  <2>2. \A n \in Nat : IsFiniteSet(1 .. n) /\ Cardinality(1 .. n) = n
    BY FS_Interval
  <2> HIDE DEF D, E
  <2> QED
    BY <2>1, <2>2
<1>2. \A i \in D : f[i] \in E /\ Line(b[f[i]]) = Line(a[i])
  <2> SUFFICES ASSUME NEW i \in D
               PROVE  \E j \in E : Line(b[j]) = Line(a[i])
    OBVIOUS
  <2>1. Line(a[i]) \in Lines(b)
    BY DEF Lines
  <2> QED
    BY <2>1 DEF Lines
<1>3. /\ \A i, j \in D : Line(a[i]) = Line(a[j]) => i = j
      /\ \A i, j \in E : Line(b[i]) = Line(b[j]) => i = j
  BY LineFields DEF IsBook
<1>f. f = [i \in D |-> f[i]]
  OBVIOUS
<1> HIDE DEF f
<1>4. \A i, j \in D : f[i] = f[j] => i = j
  BY <1>2, <1>3
<1>5. \A j \in E : \E i \in D : f[i] = j
  <2> SUFFICES ASSUME NEW j \in E
               PROVE  \E i \in D : f[i] = j
    OBVIOUS
  <2>1. Line(b[j]) \in Lines(a)
    BY DEF Lines
  <2>2. PICK i \in D : Line(a[i]) = Line(b[j])
    BY <2>1 DEF Lines
  <2> QED
    BY <1>2, <1>3, <2>2
<1>6. \A i, k \in D : Sooner(a, i, k) <=> Sooner(b, f[i], f[k])
  <2> SUFFICES ASSUME NEW i \in D, NEW k \in D
               PROVE  Sooner(a, i, k) <=> Sooner(b, f[i], f[k])
    OBVIOUS
  <2> DEFINE x == a[i]
             y == a[k]
             u == b[f[i]]
             v == b[f[k]]
  <2>1. /\ u.rune = x.rune /\ u.price = x.price
        /\ u.announce_height = x.announce_height /\ u.op = x.op
    BY <1>2, LineFields
  <2>2. /\ v.rune = y.rune /\ v.price = y.price
        /\ v.announce_height = y.announce_height /\ v.op = y.op
    BY <1>2, LineFields
  <2>3. Sooner(a, i, k) <=> Less(x, y)
    BY SoonerIsLess
  <2>4. Sooner(b, f[i], f[k]) <=> Less(u, v)
    BY <1>2, SoonerIsLess
  <2> HIDE DEF x, y, u, v
  <2>5. Less(x, y) <=> Less(u, v)
    BY <2>1, <2>2 DEF Less
  <2> QED
    BY <2>3, <2>4, <2>5
<1>7. ASSUME NEW A \in SUBSET D, NEW B \in SUBSET E,
             \A i \in A : f[i] \in B, \A j \in B : \E i \in A : f[i] = j
      PROVE  Cardinality(A) = Cardinality(B)
  <2> DEFINE g == [i \in A |-> f[i]]
  <2>1. g \in [A -> B]
    BY <1>7
  <2>2. \A i, j \in A : g[i] = g[j] => i = j
    BY <1>4
  <2>3. \A j \in B : \E i \in A : g[i] = j
    BY <1>7
  <2> HIDE DEF g
  <2>4. g \in Injection(A, B) /\ g \in Surjection(A, B)
    BY <2>1, <2>2, <2>3, Fun_IsInj, Fun_IsSurj
  <2>5. ExistsBijection(A, B)
    BY <2>4 DEF ExistsBijection, Bijection
  <2>6. IsFiniteSet(A)
    BY <1>1, FS_Subset
  <2> QED
    BY <2>5, <2>6, FS_Bijection
<1>8. D = E
  <2>1. Cardinality(D) = Cardinality(E)
    BY <1>2, <1>5, <1>7
  <2> HIDE DEF D, E
  <2> QED
    BY <1>1, <2>1
<1>9. \A k \in D : Place(a, k) = Place(b, f[k])
  <2> SUFFICES ASSUME NEW k \in D
               PROVE  Place(a, k) = Place(b, f[k])
    OBVIOUS
  <2> DEFINE A == {j \in D : Sooner(a, j, k)}
             B == {j \in E : Sooner(b, j, f[k])}
  <2>1. A \in SUBSET D /\ B \in SUBSET E
    OBVIOUS
  <2>2. \A i \in A : f[i] \in B
    BY <1>2, <1>6
  <2>3. \A j \in B : \E i \in A : f[i] = j
    BY <1>5, <1>6
  <2> HIDE DEF A, B, D, E
  <2>4. Cardinality(A) = Cardinality(B)
    BY <1>7, <2>1, <2>2, <2>3
  <2> QED
    BY <2>4 DEF Place, A, B, D, E
<1>10. ASSUME NEW n \in D
       PROVE  Line(sorted_norm(a)[n]) = Line(sorted_norm(b)[n])
  <2>1. Found(a, n) \in D /\ Place(a, Found(a, n)) = n /\ sorted_norm(a)[n] = a[Found(a, n)]
    BY SortedList
  <2>2. sorted_norm(b)[n] = b[Found(b, n)] /\ \A j \in E : Found(b, Place(b, j)) = j
    BY <1>8, SortedList
  <2>3. Found(b, n) = f[Found(a, n)]
    BY <1>2, <1>9, <2>1, <2>2
  <2> QED
    BY <1>2, <2>1, <2>2, <2>3
<1>11. DOMAIN sorted_norm(a) = D /\ DOMAIN sorted_norm(b) = D
  BY <1>8, SortedList
<1> QED
  BY <1>10, <1>11 DEF book_hash

\* book_hash lists the lines of the book.
LEMMA HashLines ==
    ASSUME NEW a, IsBook(a)
    PROVE  Lines(a) = {book_hash(a)[n] : n \in DOMAIN book_hash(a)}
<1> DEFINE norm == sorted_norm(a)
<1>1. /\ DOMAIN norm = DOMAIN a
      /\ \A i \in DOMAIN a : Found(a, i) \in DOMAIN a /\ norm[i] = a[Found(a, i)]
      /\ \A k \in DOMAIN a : Place(a, k) \in DOMAIN a /\ Found(a, Place(a, k)) = k
  BY SortedList
<1> HIDE DEF norm
<1>2. DOMAIN book_hash(a) = DOMAIN a /\ \A n \in DOMAIN a : book_hash(a)[n] = Line(norm[n])
  BY <1>1 DEF book_hash, norm
<1>3. ASSUME NEW k \in DOMAIN a
      PROVE  \E n \in DOMAIN a : book_hash(a)[n] = Line(a[k])
  <2> DEFINE n == Place(a, k)
  <2>1. n \in DOMAIN a /\ Found(a, n) = k
    BY <1>1
  <2> HIDE DEF n
  <2>2. book_hash(a)[n] = Line(a[k])
    BY <1>1, <1>2, <2>1
  <2> QED
    BY <2>1, <2>2
<1>4. ASSUME NEW n \in DOMAIN a
      PROVE  \E k \in DOMAIN a : book_hash(a)[n] = Line(a[k])
  BY <1>1, <1>2
<1> QED
  BY <1>2, <1>3, <1>4 DEF Lines

\* The leaves of the tree over a book, and the book they come from.
Tree(a, leaves) ==
    /\ leaves \in Seq({leaves[i] : i \in DOMAIN leaves})
    /\ Len(leaves) = Len(a) /\ DOMAIN leaves = DOMAIN a
    /\ DOMAIN book_hash(a) = DOMAIN a
    /\ a # <<>> => leaves # <<>> /\ sorted_norm(a) # <<>>
    /\ \A i \in DOMAIN a : leaves[i] = leaf_hash(sorted_norm(a)[i])
    /\ \A i \in DOMAIN a : leaves[i] = <<"leaf", book_hash(a)[i]>>
    /\ AllLeaves(leaves)
    /\ book_root(a) = IF a = <<>> THEN EmptyRoot ELSE MerkleRoot(leaves)

LEMMA BookLeaves ==
    ASSUME NEW a, IsBook(a), NEW leaves, leaves = Leaves(sorted_norm(a))
    PROVE  Tree(a, leaves)
<1> DEFINE norm == sorted_norm(a)
<1>1. /\ Len(a) \in Nat /\ DOMAIN a = 1 .. Len(a) /\ DOMAIN norm = DOMAIN a
      /\ norm \in Seq({norm[i] : i \in DOMAIN norm}) /\ Len(norm) = Len(a)
      /\ a \in Seq({a[i] : i \in DOMAIN a})
  BY BookPlaces, SortedList DEF IsList, IsBook
<1> HIDE DEF norm
<1>2. leaves = [i \in 1 .. Len(a) |-> leaf_hash(norm[i])]
  BY <1>1 DEF Leaves, norm
<1>3. a # <<>> => Len(a) # 0
  BY <1>1
<1>4. /\ DOMAIN book_hash(a) = DOMAIN a
      /\ \A i \in DOMAIN a : book_hash(a)[i] = Line(norm[i])
  BY <1>1 DEF book_hash, norm
<1>5. book_root(a) = IF a = <<>> THEN EmptyRoot ELSE MerkleRoot(leaves)
  BY DEF book_root, MerkleRoot, norm
<1>6. /\ leaves \in Seq({leaves[i] : i \in DOMAIN leaves})
      /\ Len(leaves) = Len(a) /\ DOMAIN leaves = DOMAIN a
  BY <1>1, <1>2
<1>7. a # <<>> => leaves # <<>> /\ norm # <<>>
  BY <1>1, <1>3, <1>6
<1>8. \A i \in DOMAIN a : leaves[i] = leaf_hash(norm[i])
  BY <1>1, <1>2
<1>9. \A i \in DOMAIN a : leaves[i] = <<"leaf", book_hash(a)[i]>>
  BY <1>4, <1>8 DEF leaf_hash
<1>10. AllLeaves(leaves)
  BY <1>1, <1>6, <1>8 DEF AllLeaves
<1> QED
  BY <1>4, <1>5, <1>6, <1>7, <1>8, <1>9, <1>10 DEF norm, Tree

\* No tree has the root of the empty book.
LEMMA RootNotEmpty ==
    ASSUME NEW R, NEW leaves \in Seq(R), leaves # <<>>, AllLeaves(leaves)
    PROVE  MerkleRoot(leaves) # EmptyRoot
<1>1. Leaf(leaves, MerkleRoot(leaves)) \/ Paired(leaves, MerkleRoot(leaves))
  BY RootPlace, NodeOrigin
<1>2. ASSUME Leaf(leaves, MerkleRoot(leaves))
      PROVE  MerkleRoot(leaves) # EmptyRoot
  <2>1. PICK o : MerkleRoot(leaves) = leaf_hash(o)
    BY <1>2 DEF Leaf, AllLeaves
  <2> QED
    BY <2>1 DEF leaf_hash, EmptyRoot
<1>3. ASSUME Paired(leaves, MerkleRoot(leaves))
      PROVE  MerkleRoot(leaves) # EmptyRoot
  <2>1. PICK x, y : MerkleRoot(leaves) = node_hash(x, y)
    BY <1>3 DEF Paired
  <2> QED
    BY <2>1 DEF node_hash, EmptyRoot
<1> QED
  BY <1>1, <1>2, <1>3

\* The root is a commitment to the book (btx_orderbook.py:160, "carry-up + domain
\* tags is unambiguous"): two books, of any size and in whatever order they are
\* listed, have the same root exactly when they hold the same canonical lines.
THEOREM RootIsTheBook ==
    ASSUME NEW a, IsBook(a), NEW b, IsBook(b)
    PROVE  book_root(a) = book_root(b) <=> Lines(a) = Lines(b)
<1> DEFINE p == Leaves(sorted_norm(a))
           q == Leaves(sorted_norm(b))
<1>0. p = Leaves(sorted_norm(a)) /\ q = Leaves(sorted_norm(b))
  OBVIOUS
<1> HIDE DEF p, q
<1>1. /\ p \in Seq({p[i] : i \in DOMAIN p}) /\ Len(p) = Len(a) /\ DOMAIN p = DOMAIN a
      /\ DOMAIN book_hash(a) = DOMAIN a /\ (a # <<>> => p # <<>>) /\ AllLeaves(p)
      /\ \A i \in DOMAIN a : p[i] = <<"leaf", book_hash(a)[i]>>
      /\ book_root(a) = IF a = <<>> THEN EmptyRoot ELSE MerkleRoot(p)
  <2>1. Tree(a, p)
    BY <1>0, BookLeaves
  <2> QED
    BY <2>1 DEF Tree
<1>2. /\ q \in Seq({q[i] : i \in DOMAIN q}) /\ Len(q) = Len(b) /\ DOMAIN q = DOMAIN b
      /\ DOMAIN book_hash(b) = DOMAIN b /\ (b # <<>> => q # <<>>) /\ AllLeaves(q)
      /\ \A i \in DOMAIN b : q[i] = <<"leaf", book_hash(b)[i]>>
      /\ book_root(b) = IF b = <<>> THEN EmptyRoot ELSE MerkleRoot(q)
  <2>1. Tree(b, q)
    BY <1>0, BookLeaves
  <2> QED
    BY <2>1 DEF Tree
<1>3. /\ Len(a) \in Nat /\ DOMAIN a = 1 .. Len(a) /\ (a = <<>> <=> Len(a) = 0)
      /\ Len(b) \in Nat /\ DOMAIN b = 1 .. Len(b) /\ (b = <<>> <=> Len(b) = 0)
  BY BookPlaces DEF IsBook
<1>4. ASSUME book_root(a) = book_root(b)
      PROVE  Lines(a) = Lines(b)
  <2>1. a = <<>> <=> b = <<>>
    BY <1>1, <1>2, <1>4, RootNotEmpty
  <2>2. CASE a = <<>>
    BY <2>1, <2>2
  <2>3. CASE a # <<>>
    <3>1. p = q
      BY <1>1, <1>2, <1>4, <2>1, <2>3, RootBindsLeaves
    <3>2. \A i \in DOMAIN a : book_hash(a)[i] = book_hash(b)[i]
      BY <1>1, <1>2, <3>1
    <3>3. DOMAIN book_hash(a) = DOMAIN book_hash(b)
      BY <1>1, <1>2, <3>1
    <3>4. {book_hash(a)[n] : n \in DOMAIN book_hash(a)} = {book_hash(b)[n] : n \in DOMAIN book_hash(b)}
      BY <1>1, <3>2, <3>3
    <3> QED
      BY <3>4, HashLines
  <2> QED
    BY <2>2, <2>3
<1>5. ASSUME Lines(a) = Lines(b)
      PROVE  book_root(a) = book_root(b)
  <2>1. book_hash(a) = book_hash(b)
    BY <1>5, SameBook
  <2>2. DOMAIN a = DOMAIN b
    BY <1>1, <1>2, <2>1
  <2>3. Len(a) = Len(b)
    <3>1. \A m, n \in Nat : 1 .. m = 1 .. n => m = n
      <4> SUFFICES ASSUME NEW m \in Nat, NEW n \in Nat, m < n
                   PROVE  1 .. m # 1 .. n
        OBVIOUS
      <4>1. n \in 1 .. n /\ n \notin 1 .. m
        OBVIOUS
      <4> QED
        BY <4>1
    <3> QED
      BY <1>3, <2>2, <3>1
  <2>4. Len(p) = Len(q) /\ \A i \in 1 .. Len(p) : p[i] = q[i]
    BY <1>1, <1>2, <1>3, <2>1, <2>2, <2>3
  <2>5. p = q
    <3> DEFINE R == {p[i] : i \in DOMAIN p} \cup {q[i] : i \in DOMAIN q}
    <3>1. p \in Seq(R) /\ q \in Seq(R)
      BY <1>1, <1>2
    <3> HIDE DEF R
    <3> QED
      BY <2>4, <3>1
  <2>6. a = <<>> <=> b = <<>>
    BY <1>3, <2>3
  <2> QED
    BY <1>1, <1>2, <2>5, <2>6
<1> QED
  BY <1>4, <1>5

\* merkle_verify accepts nothing that is not in the book: whatever path comes with
\* an order, no hash of an inner node or of no order at all passes for a leaf.
THEOREM OnlyTheBookIsProven ==
    ASSUME NEW a, IsBook(a), NEW order, NEW proof, NEW P, proof.path \in Seq(P),
           merkle_verify(order, proof, book_root(a))
    PROVE  Line(order) \in Lines(a)
<1> DEFINE path == proof.path
           h == Climb(order, path)
           norm == sorted_norm(a)
<1>1. h[Len(path)] = book_root(a)
  BY DEF merkle_verify
<1>2. a # <<>>
  <2> SUFFICES ASSUME a = <<>>
               PROVE  FALSE
    OBVIOUS
  <2>1. h[Len(path)] = EmptyRoot
    BY <1>1 DEF book_root
  <2>2. /\ h[0] = leaf_hash(order)
        /\ \A i \in 1 .. Len(path) : \E x, y : h[i] = node_hash(x, y)
    <3>1. \A i \in 1 .. Len(path) :
             h[i] = IF path[i].dir = "L" THEN node_hash(path[i].hash, h[i - 1])
                                         ELSE node_hash(h[i - 1], path[i].hash)
      BY ClimbStep
    <3>2. h[0] = leaf_hash(order)
      BY ClimbStep
    <3> HIDE DEF h
    <3> QED
      BY <3>1, <3>2
  <2>3. Len(path) = 0 \/ Len(path) \in 1 .. Len(path)
    OBVIOUS
  <2> HIDE DEF h, path
  <2> QED
    BY <2>1, <2>2, <2>3 DEF leaf_hash, node_hash, EmptyRoot
<1>3. /\ norm \in Seq({norm[i] : i \in DOMAIN norm}) /\ norm # <<>> /\ DOMAIN norm = DOMAIN a
      /\ \A i \in DOMAIN a : Found(a, i) \in DOMAIN a /\ norm[i] = a[Found(a, i)]
      /\ Len(Leaves(norm)) = Len(a) /\ DOMAIN Leaves(norm) = DOMAIN a /\ DOMAIN a = 1 .. Len(a)
      /\ \A i \in DOMAIN a : Leaves(norm)[i] = leaf_hash(norm[i])
      /\ Leaves(norm) \in Seq({Leaves(norm)[i] : i \in DOMAIN Leaves(norm)}) /\ Leaves(norm) # <<>>
      /\ book_root(a) = MerkleRoot(Leaves(norm))
  <2>1. /\ norm \in Seq({norm[i] : i \in DOMAIN norm}) /\ DOMAIN norm = DOMAIN a
        /\ \A i \in DOMAIN a : Found(a, i) \in DOMAIN a /\ norm[i] = a[Found(a, i)]
    BY SortedList
  <2>2. DOMAIN a = 1 .. Len(a)
    BY BookPlaces
  <2> DEFINE leaves == Leaves(norm)
  <2>3. leaves = Leaves(sorted_norm(a))
    OBVIOUS
  <2> HIDE DEF leaves
  <2>4. /\ leaves \in Seq({leaves[i] : i \in DOMAIN leaves}) /\ leaves # <<>>
        /\ Len(leaves) = Len(a) /\ DOMAIN leaves = DOMAIN a /\ norm # <<>>
        /\ \A i \in DOMAIN a : leaves[i] = leaf_hash(norm[i])
        /\ book_root(a) = MerkleRoot(leaves)
    <3>1. Tree(a, leaves)
      BY <2>3, BookLeaves
    <3> QED
      BY <1>2, <3>1 DEF Tree
  <2> QED
    BY <2>1, <2>2, <2>4 DEF leaves
<1>4. InTree(Leaves(norm), leaf_hash(order))
  BY <1>1, <1>3, PathInTree
<1> HIDE DEF norm, h, path
<1>5. Leaf(Leaves(norm), leaf_hash(order))
  <2>1. ~Paired(Leaves(norm), leaf_hash(order))
    BY LeafIsNoNode DEF Paired
  <2> QED
    BY <1>3, <1>4, <2>1, NodeOrigin
<1>6. PICK i \in DOMAIN a : leaf_hash(order) = leaf_hash(norm[i])
  BY <1>3, <1>5 DEF Leaf
<1>7. Line(order) = Line(a[Found(a, i)])
  <2>1. Line(order) = Line(norm[i])
    BY <1>6 DEF leaf_hash
  <2> QED
    BY <1>3, <2>1
<1> QED
  BY <1>3, <1>7 DEF Lines

-----------------------------------------------------------------------------
(* The steps of a proof. *)

\* Climbing one step more is what it was below, and that step.
LEMMA ClimbOne ==
    ASSUME NEW order, NEW P, NEW path \in Seq(P), NEW step \in P
    PROVE  Climb(order, path \o <<step>>)[Len(path) + 1] = Up(Climb(order, path)[Len(path)], step)
<1> DEFINE n == Len(path)
           longer == path \o <<step>>
           h == Climb(order, path)
           g == Climb(order, longer)
           S == {i \in Nat : i <= n => g[i] = h[i]}
<1>1. /\ n \in Nat /\ longer \in Seq(P) /\ Len(longer) = n + 1 /\ longer[n + 1] = step
      /\ \A i \in 1 .. n : longer[i] = path[i]
  <2>1. <<step>> \in Seq(P) /\ Len(<<step>>) = 1
    OBVIOUS
  <2> QED
    BY <2>1
<1>2. /\ h[0] = leaf_hash(order)
      /\ \A i \in 1 .. n : h[i] = Up(h[i - 1], path[i])
  BY ClimbStep DEF Up
<1>3. /\ g[0] = leaf_hash(order)
      /\ \A i \in 1 .. n + 1 : g[i] = Up(g[i - 1], longer[i])
  <2>1. /\ g[0] = leaf_hash(order)
        /\ \A i \in 1 .. Len(longer) :
             g[i] = IF longer[i].dir = "L" THEN node_hash(longer[i].hash, g[i - 1])
                                           ELSE node_hash(g[i - 1], longer[i].hash)
    BY <1>1, ClimbStep
  <2> HIDE DEF g, longer
  <2> QED
    BY <1>1, <2>1 DEF Up
<1> HIDE DEF n, longer, h, g
<1>4. 0 \in S
  BY <1>2, <1>3
<1>5. ASSUME NEW i \in Nat, i + 1 <= n, g[i] = h[i]
      PROVE  g[i + 1] = h[i + 1]
  <2>1. i + 1 \in 1 .. n /\ i + 1 \in 1 .. n + 1 /\ (i + 1) - 1 = i
    BY <1>1, <1>5
  <2> QED
    BY <1>1, <1>2, <1>3, <1>5, <2>1
<1>6. S = Nat
  <2>1. S \in SUBSET Nat /\ \A i \in S : i + 1 \in S
    BY <1>1, <1>5
  <2> HIDE DEF S
  <2> QED
    BY <1>4, <2>1, Induction
<1>7. g[n] = h[n]
  BY <1>1, <1>6
<1>8. n + 1 \in 1 .. n + 1 /\ (n + 1) - 1 = n
  BY <1>1
<1>9. g[n + 1] = Up(h[n], step)
  BY <1>1, <1>3, <1>7, <1>8
<1> QED
  BY <1>9 DEF n, longer, h, g

\* Two orders that climb to one hash along one path have one leaf.
LEMMA ClimbInjective ==
    ASSUME NEW a, NEW b, NEW P, NEW path \in Seq(P),
           Climb(a, path)[Len(path)] = Climb(b, path)[Len(path)]
    PROVE  leaf_hash(a) = leaf_hash(b)
<1> DEFINE n == Len(path)
           h == Climb(a, path)
           g == Climb(b, path)
           S == {i \in Nat : i <= n /\ h[i] = g[i] => h[0] = g[0]}
<1>1. n \in Nat /\ h[n] = g[n]
  OBVIOUS
<1>2. /\ h[0] = leaf_hash(a)
      /\ \A i \in 1 .. n : h[i] = Up(h[i - 1], path[i])
  BY ClimbStep DEF Up
<1>3. /\ g[0] = leaf_hash(b)
      /\ \A i \in 1 .. n : g[i] = Up(g[i - 1], path[i])
  BY ClimbStep DEF Up
<1> HIDE DEF n, h, g
<1>4. 0 \in S
  OBVIOUS
<1>5. ASSUME NEW i \in S
      PROVE  i + 1 \in S
  <2> SUFFICES ASSUME i + 1 <= n, h[i + 1] = g[i + 1]
               PROVE  h[0] = g[0]
    OBVIOUS
  <2>1. i + 1 \in 1 .. n /\ (i + 1) - 1 = i /\ i <= n
    BY <1>1
  <2>2. Up(h[i], path[i + 1]) = Up(g[i], path[i + 1])
    BY <1>2, <1>3, <2>1
  <2>3. h[i] = g[i]
    <3>1. CASE path[i + 1].dir = "L"
      <4>1. node_hash(path[i + 1].hash, h[i]) = node_hash(path[i + 1].hash, g[i])
        BY <2>2, <3>1 DEF Up
      <4> QED
        BY ONLY <4>1, NodeInjective
    <3>2. CASE path[i + 1].dir # "L"
      <4>1. node_hash(h[i], path[i + 1].hash) = node_hash(g[i], path[i + 1].hash)
        BY <2>2, <3>2 DEF Up
      <4> QED
        BY ONLY <4>1, NodeInjective
    <3> QED
      BY <3>1, <3>2
  <2> QED
    BY <2>1, <2>3
<1>6. S = Nat
  <2>1. S \in SUBSET Nat
    OBVIOUS
  <2> HIDE DEF S
  <2> QED
    BY <1>4, <1>5, <2>1, Induction
<1>7. h[0] = g[0]
  BY <1>1, <1>6
<1> QED
  BY <1>2, <1>3, <1>7

\* The recursive functions of ProofPath.

Halves(at, n, idx) ==
    at = [l \in 1 .. n |-> IF l = 1 THEN idx ELSE at[l - 1] \div 2]

LEMMA HalvesExist ==
    ASSUME NEW idx, NEW n \in Nat
    PROVE  \E at : Halves(at, n, idx)
<1> DEFINE S == {m \in Nat : \E at : Halves(at, m, idx)}
<1>1. 0 \in S
  <2> DEFINE at == [l \in 1 .. 0 |-> idx]
  <2>1. at = [l \in 1 .. 0 |-> IF l = 1 THEN idx ELSE at[l - 1] \div 2]
    OBVIOUS
  <2>2. Halves(at, 0, idx)
    BY <2>1 DEF Halves
  <2> QED
    BY <2>2
<1>2. ASSUME NEW m \in Nat, NEW f, Halves(f, m, idx)
      PROVE  m + 1 \in S
  <2> DEFINE at == [l \in 1 .. m + 1 |->
                      IF l = m + 1 THEN IF l = 1 THEN idx ELSE f[m] \div 2 ELSE f[l]]
  <2>1. ASSUME NEW l \in 1 .. m + 1
        PROVE  at[l] = IF l = 1 THEN idx ELSE at[l - 1] \div 2
    <3>1. CASE l = m + 1
      <4>1. l # 1 => m \in 1 .. m + 1 /\ m # m + 1 /\ l - 1 = m
        BY <3>1
      <4> QED
        BY <3>1, <4>1
    <3>2. CASE l # m + 1
      <4>1. l \in 1 .. m /\ (l # 1 => l - 1 \in 1 .. m + 1 /\ l - 1 # m + 1)
        BY <3>2
      <4>2. f[l] = IF l = 1 THEN idx ELSE f[l - 1] \div 2
        BY <1>2, <4>1 DEF Halves
      <4>3. at[l] = f[l] /\ (l # 1 => at[l - 1] = f[l - 1])
        BY <3>2, <4>1
      <4> QED
        BY <4>2, <4>3
    <3> QED
      BY <3>1, <3>2
  <2>2. at = [l \in 1 .. m + 1 |-> IF l = 1 THEN idx ELSE at[l - 1] \div 2]
    BY <2>1
  <2>3. Halves(at, m + 1, idx)
    BY <2>2 DEF Halves
  <2> QED
    BY <2>3
<1>3. S = Nat
  <2>1. S \in SUBSET Nat /\ \A m \in S : m + 1 \in S
    BY <1>2
  <2> HIDE DEF S
  <2> QED
    BY <1>1, <2>1, Induction
<1> QED
  BY <1>3

Gathers(path, n, levels, at) ==
    path = [l \in 1 .. n |-> IF l = 1 THEN <<>>
                             ELSE path[l - 1] \o SiblingAt(levels[l - 1], at[l - 1])]

LEMMA GathersExist ==
    ASSUME NEW levels, NEW at, NEW n \in Nat
    PROVE  \E path : Gathers(path, n, levels, at)
<1> DEFINE S == {m \in Nat : \E path : Gathers(path, m, levels, at)}
           More(p, l) == p \o SiblingAt(levels[l], at[l])
<1>0. \A path, m : Gathers(path, m, levels, at) <=>
                     path = [l \in 1 .. m |-> IF l = 1 THEN <<>> ELSE More(path[l - 1], l - 1)]
  BY DEF Gathers
<1> HIDE DEF More
<1>1. 0 \in S
  <2> DEFINE path == [l \in 1 .. 0 |-> <<>>]
  <2>1. path = [l \in 1 .. 0 |-> IF l = 1 THEN <<>> ELSE More(path[l - 1], l - 1)]
    OBVIOUS
  <2>2. Gathers(path, 0, levels, at)
    BY <1>0, <2>1
  <2> QED
    BY <2>2
<1>2. ASSUME NEW m \in Nat, NEW f, Gathers(f, m, levels, at)
      PROVE  m + 1 \in S
  <2> DEFINE path == [l \in 1 .. m + 1 |->
                        IF l = m + 1 THEN IF l = 1 THEN <<>> ELSE More(f[m], m) ELSE f[l]]
  <2>1. ASSUME NEW l \in 1 .. m + 1
        PROVE  path[l] = IF l = 1 THEN <<>> ELSE More(path[l - 1], l - 1)
    <3>1. CASE l = m + 1
      <4>1. l # 1 => m \in 1 .. m + 1 /\ m # m + 1 /\ l - 1 = m
        BY <3>1
      <4> QED
        BY <3>1, <4>1
    <3>2. CASE l # m + 1
      <4>1. l \in 1 .. m /\ (l # 1 => l - 1 \in 1 .. m + 1 /\ l - 1 # m + 1)
        BY <3>2
      <4>2. f[l] = IF l = 1 THEN <<>> ELSE More(f[l - 1], l - 1)
        BY <1>0, <1>2, <4>1
      <4>3. path[l] = f[l] /\ (l # 1 => path[l - 1] = f[l - 1])
        BY <3>2, <4>1
      <4> QED
        BY <4>2, <4>3
    <3> QED
      BY <3>1, <3>2
  <2>2. path = [l \in 1 .. m + 1 |-> IF l = 1 THEN <<>> ELSE More(path[l - 1], l - 1)]
    BY <2>1
  <2>3. Gathers(path, m + 1, levels, at)
    BY <1>0, <2>2
  <2> QED
    BY <2>3
<1>3. S = Nat
  <2>1. S \in SUBSET Nat /\ \A m \in S : m + 1 \in S
    BY <1>2
  <2> HIDE DEF S
  <2> QED
    BY <1>1, <2>1, Induction
<1> QED
  BY <1>3

\* What ProofPath is: the place of the ancestor is halved from level to level,
\* and its sibling there, if any, is one more step.
LEMMA ProofPathStep ==
    ASSUME NEW levels, NEW idx, Len(levels) \in Nat, Len(levels) >= 1
    PROVE  \E at, path :
             /\ at[1] = idx /\ path[1] = <<>>
             /\ \A l \in 1 .. Len(levels) - 1 :
                   /\ at[l + 1] = at[l] \div 2
                   /\ path[l + 1] = path[l] \o SiblingAt(levels[l], at[l])
             /\ ProofPath(levels, idx) = path[Len(levels)]
<1> DEFINE n == Len(levels)
           at == CHOOSE f : Halves(f, n, idx)
           path == CHOOSE f : Gathers(f, n, levels, at)
<1>1. Halves(at, n, idx)
  BY HalvesExist
<1>2. ProofPath(levels, idx) = path[n]
  BY DEF ProofPath, Halves, Gathers
<1> HIDE DEF at
<1>3. Gathers(path, n, levels, at)
  BY GathersExist
<1> HIDE DEF path, n
<1>4. n \in Nat /\ n >= 1
  BY DEF n
<1>5. 1 \in 1 .. n
  BY <1>4
<1>6. at[1] = idx /\ path[1] = <<>>
  BY <1>1, <1>3, <1>5 DEF Halves, Gathers
<1>7. ASSUME NEW l \in 1 .. n - 1
      PROVE  /\ at[l + 1] = at[l] \div 2
             /\ path[l + 1] = path[l] \o SiblingAt(levels[l], at[l])
  <2>1. l + 1 \in 1 .. n /\ l + 1 # 1 /\ (l + 1) - 1 = l
    BY <1>4
  <2> QED
    BY <1>1, <1>3, <2>1 DEF Halves, Gathers
<1> QED
  BY <1>2, <1>6, <1>7 DEF n

\* The steps a path through the tree may take.
Steps(leaves) ==
    {[hash |-> Level(leaves)[c[1]][c[2]], dir |-> c[3]] :
        c \in (0 .. Len(leaves)) \X (Nat \ {0}) \X {"L", "R"}}

\* The hashes along an order's proof are those of the ancestors of its leaf.
LEMMA ProofClimbs ==
    ASSUME NEW R, NEW leaves \in Seq(R), leaves # <<>>,
           NEW idx \in 0 .. Len(leaves) - 1, NEW order, leaf_hash(order) = leaves[idx + 1],
           NEW proof, proof = ProofPath(merkle_levels(leaves), idx)
    PROVE  /\ proof \in Seq(Steps(leaves))
           /\ Climb(order, proof)[Len(proof)] = MerkleRoot(leaves)
<1> DEFINE L == Level(leaves)
           H == Height(leaves)
           levels == merkle_levels(leaves)
           P == Steps(leaves)
<1>1. /\ H \in 0 .. Len(leaves) /\ Len(leaves) \in Nat /\ Len(L[H]) = 1
      /\ \A j \in 0 .. H - 1 : Len(L[j]) > 1
  <2>1. Len(leaves) \in Nat
    OBVIOUS
  <2>2. /\ H \in 0 .. Len(leaves) /\ Len(L[H]) = 1
        /\ \A j \in 0 .. H - 1 : Len(L[j]) > 1
    BY ONLY leaves \in Seq(R), leaves # <<>>, HeightType
  <2> QED
    BY <2>1, <2>2
<1>2. L[0] = leaves
  BY LevelStep
<1>3. Len(levels) = H + 1 /\ \A j \in 1 .. H + 1 : levels[j] = L[j - 1]
  BY <1>1 DEF merkle_levels
<1>4. PICK at, path :
        /\ at[1] = idx /\ path[1] = <<>>
        /\ \A l \in 1 .. Len(levels) - 1 :
              /\ at[l + 1] = at[l] \div 2
              /\ path[l + 1] = path[l] \o SiblingAt(levels[l], at[l])
        /\ ProofPath(levels, idx) = path[Len(levels)]
  <2>1. Len(levels) \in Nat /\ Len(levels) >= 1
    BY <1>1, <1>3
  <2> HIDE DEF levels
  <2> QED
    BY <2>1, ProofPathStep
<1>5. MerkleRoot(leaves) = L[H][1]
  BY RootPlace
<1>6. \A j \in 0 .. Len(leaves), i \in Nat \ {0}, d \in {"L", "R"} :
         [hash |-> L[j][i], dir |-> d] \in P
  <2> SUFFICES ASSUME NEW j \in 0 .. Len(leaves), NEW i \in Nat \ {0}, NEW d \in {"L", "R"}
               PROVE  [hash |-> L[j][i], dir |-> d] \in P
    OBVIOUS
  <2> DEFINE c == <<j, i, d>>
  <2>1. c \in (0 .. Len(leaves)) \X (Nat \ {0}) \X {"L", "R"} /\ c[1] = j /\ c[2] = i /\ c[3] = d
    OBVIOUS
  <2> HIDE DEF c
  <2> QED
    BY <2>1 DEF Steps
<1>7. ASSUME NEW j \in Nat, j + 1 <= H
      PROVE  /\ Len(L[j]) \in Nat /\ Len(L[j]) > 1
             /\ Len(L[j + 1]) = (Len(L[j]) + 1) \div 2
             /\ \A i \in 1 .. (Len(L[j]) + 1) \div 2 :
                  L[j + 1][i] = IF 2 * i <= Len(L[j]) THEN node_hash(L[j][2 * i - 1], L[j][2 * i])
                                                      ELSE L[j][2 * i - 1]
  <2>1. j + 1 <= Len(leaves) /\ j \in 0 .. H - 1
    BY <1>1, <1>7
  <2> QED
    BY <1>1, <2>1, LevelAbove
<1> DEFINE Fine(j) == /\ at[j + 1] \in Nat /\ at[j + 1] < Len(L[j])
                      /\ path[j + 1] \in Seq(P)
                      /\ Climb(order, path[j + 1])[Len(path[j + 1])] = L[j][at[j + 1] + 1]
           S == {j \in Nat : j <= H => Fine(j)}
<1> HIDE DEF L, H, levels, P
<1>8. Fine(0)
  <2>1. <<>> \in Seq(P) /\ Len(<<>>) = 0
    OBVIOUS
  <2>2. Climb(order, <<>>)[0] = leaf_hash(order)
    BY <2>1, ClimbStep
  <2>3. 0 + 1 = 1 /\ idx \in Nat /\ idx < Len(leaves)
    BY <1>1
  <2> QED
    BY <1>2, <1>4, <2>1, <2>2, <2>3
<1>9. ASSUME NEW j \in Nat, j + 1 <= H, Fine(j)
      PROVE  Fine(j + 1)
  <2> DEFINE i == at[j + 1]
             m == Len(L[j])
             q == i \div 2 + 1
             p == path[j + 1]
  <2>1. i \in Nat /\ m \in Nat /\ m > 1 /\ i < m /\ j \in 0 .. Len(leaves)
    BY <1>1, <1>7, <1>9
  <2>2. /\ at[(j + 1) + 1] = i \div 2 /\ path[(j + 1) + 1] = p \o SiblingAt(L[j], i)
    <3>1. j + 1 \in 1 .. Len(levels) - 1 /\ j + 1 \in 1 .. H + 1 /\ (j + 1) - 1 = j
      <4>1. H \in Nat /\ Len(levels) - 1 = H
        BY <1>1, <1>3
      <4> HIDE DEF i, m, q, p, Fine, S
      <4> QED
        BY <1>9, <4>1
    <3>2. levels[j + 1] = L[j]
      BY <1>3, <3>1
    <3> QED
      BY <1>4, <3>1, <3>2
  <2>3. /\ p \in Seq(P) /\ Climb(order, p)[Len(p)] = L[j][i + 1]
    BY <1>9
  <2>4. /\ Len(L[j + 1]) = (m + 1) \div 2
        /\ \A k \in 1 .. (m + 1) \div 2 :
             L[j + 1][k] = IF 2 * k <= m THEN node_hash(L[j][2 * k - 1], L[j][2 * k])
                                         ELSE L[j][2 * k - 1]
    BY <1>7, <1>9
  <2> HIDE DEF i, m, p
  <2>5. q \in 1 .. (m + 1) \div 2 /\ i \div 2 \in Nat /\ i \div 2 < (m + 1) \div 2
    BY <2>1
  <2>6. L[j + 1][q] = IF 2 * q <= m THEN node_hash(L[j][2 * q - 1], L[j][2 * q])
                                    ELSE L[j][2 * q - 1]
    BY <2>4, <2>5
  <2>7. /\ p \o SiblingAt(L[j], i) \in Seq(P)
        /\ Climb(order, p \o SiblingAt(L[j], i))[Len(p \o SiblingAt(L[j], i))] = L[j + 1][q]
    <3>1. CASE i % 2 = 1
      <4> DEFINE step == [hash |-> L[j][i], dir |-> "L"]
      <4>1. 2 * q - 1 = i /\ 2 * q = i + 1 /\ 2 * q <= m /\ i \in Nat \ {0}
        BY <2>1, <3>1
      <4>2. SiblingAt(L[j], i) = <<step>>
        BY <3>1 DEF SiblingAt
      <4>3. step \in P
        BY <1>6, <2>1, <4>1
      <4>4. \A x : Up(x, step) = node_hash(L[j][i], x)
        BY DEF Up
      <4> HIDE DEF step, q
      <4>5. p \o <<step>> \in Seq(P) /\ Len(p \o <<step>>) = Len(p) + 1
        BY <2>3, <4>3
      <4>6. Climb(order, p \o <<step>>)[Len(p) + 1] = Up(Climb(order, p)[Len(p)], step)
        BY <2>3, <4>3, ClimbOne
      <4>7. L[j + 1][q] = node_hash(L[j][i], L[j][i + 1])
        BY <2>6, <4>1
      <4> QED
        BY <2>3, <4>2, <4>4, <4>5, <4>6, <4>7
    <3>2. CASE i % 2 # 1 /\ i + 1 < m
      <4> DEFINE step == [hash |-> L[j][i + 2], dir |-> "R"]
      <4>1. 2 * q - 1 = i + 1 /\ 2 * q = i + 2 /\ 2 * q <= m /\ i + 2 \in Nat \ {0}
        BY <2>1, <3>2
      <4>2. SiblingAt(L[j], i) = <<step>>
        BY <3>2 DEF SiblingAt, m
      <4>3. step \in P
        BY <1>6, <2>1, <4>1
      <4>4. \A x : Up(x, step) = node_hash(x, L[j][i + 2])
        BY DEF Up
      <4> HIDE DEF step, q
      <4>5. p \o <<step>> \in Seq(P) /\ Len(p \o <<step>>) = Len(p) + 1
        BY <2>3, <4>3
      <4>6. Climb(order, p \o <<step>>)[Len(p) + 1] = Up(Climb(order, p)[Len(p)], step)
        BY <2>3, <4>3, ClimbOne
      <4>7. L[j + 1][q] = node_hash(L[j][i + 1], L[j][i + 2])
        BY <2>6, <4>1
      <4> QED
        BY <2>3, <4>2, <4>4, <4>5, <4>6, <4>7
    <3>3. CASE i % 2 # 1 /\ ~(i + 1 < m)
      <4>1. 2 * q - 1 = i + 1 /\ ~(2 * q <= m)
        BY <2>1, <3>3
      <4>2. SiblingAt(L[j], i) = <<>>
        BY <3>3 DEF SiblingAt, m
      <4>3. p \o <<>> = p
        BY <2>3
      <4> HIDE DEF q
      <4>4. L[j + 1][q] = L[j][i + 1]
        BY <2>6, <4>1
      <4> QED
        BY <2>3, <4>2, <4>3, <4>4
    <3> QED
      BY <3>1, <3>2, <3>3
  <2> QED
    BY <2>2, <2>4, <2>5, <2>7
<1>10. S = Nat
  <2>1. S \in SUBSET Nat
    OBVIOUS
  <2>2. 0 \in S
    BY <1>8
  <2>3. ASSUME NEW j \in S
        PROVE  j + 1 \in S
    <3> SUFFICES ASSUME j + 1 <= H
                 PROVE  Fine(j + 1)
      OBVIOUS
    <3>1. j \in Nat /\ j <= H
      BY <1>1
    <3> QED
      BY <1>9, <3>1
  <2> HIDE DEF S
  <2> QED
    BY <2>1, <2>2, <2>3, Induction
<1>11. Fine(H)
  <2>1. H \in Nat /\ H <= H
    BY <1>1
  <2>2. H \in S
    BY <1>10, <2>1
  <2> HIDE DEF Fine
  <2> QED
    BY <2>1, <2>2
<1>12. at[H + 1] = 0
  <2>1. at[H + 1] \in Nat /\ at[H + 1] < 1
    BY <1>1, <1>11
  <2> QED
    BY <2>1
<1>13. proof = path[H + 1]
  BY <1>3, <1>4 DEF levels
<1> QED
  BY <1>5, <1>11, <1>12, <1>13 DEF P

\* The proof merkle_prove gives for an outpoint of the book.
LEMMA ProofOf ==
    ASSUME NEW a, IsBook(a), NEW k \in DOMAIN a, NEW proof, proof = merkle_prove(a, a[k].op)
    PROVE  /\ Place(a, k) \in DOMAIN a /\ sorted_norm(a)[Place(a, k)] = a[k]
           /\ proof.path = ProofPath(merkle_levels(Leaves(sorted_norm(a))), Place(a, k) - 1)
<1> DEFINE norm == sorted_norm(a)
           op == a[k].op
           at == Place(a, k)
           found == SelectInSeq(norm, LAMBDA o : o.op = op)
<1>1. Len(a) \in Nat /\ DOMAIN a = 1 .. Len(a)
  BY BookPlaces
<1>2. /\ Len(norm) = Len(a)
      /\ at \in DOMAIN a /\ Found(a, at) = k
      /\ \A i \in DOMAIN a : Found(a, i) \in DOMAIN a /\ Place(a, Found(a, i)) = i
                             /\ norm[i] = a[Found(a, i)]
  BY SortedList DEF IsList
<1>3. \A i \in DOMAIN a : norm[i].op = op <=> i = at
  <2> SUFFICES ASSUME NEW i \in DOMAIN a
               PROVE  norm[i].op = op <=> i = at
    OBVIOUS
  <2>1. norm[i].op = op <=> Found(a, i) = k
    BY <1>2 DEF IsBook
  <2> QED
    BY <1>2, <2>1
<1>4. norm[at] = a[k]
  BY <1>2
<1>5. found = at
  <2> DEFINE I == {i \in 1 .. Len(norm) : norm[i].op = op}
  <2>1. I = {at}
    BY <1>1, <1>2, <1>3
  <2>2. found = IF I # {} THEN Min(I) ELSE 0
    BY DEF SelectInSeq
  <2> HIDE DEF I, found
  <2>3. Min({at}) = at
    <3>1. at \in Nat
      BY <1>1, <1>2
    <3> QED
      BY <3>1 DEF Min
  <2> QED
    BY <2>1, <2>2, <2>3
<1>6. at # 0
  BY <1>1, <1>2
<1>7. proof = [index |-> found - 1, n |-> Len(norm),
               path |-> ProofPath(merkle_levels(Leaves(norm)), found - 1)]
  BY <1>5, <1>6 DEF merkle_prove
<1> HIDE DEF norm, found
<1>8. proof.path = ProofPath(merkle_levels(Leaves(norm)), found - 1)
  BY <1>7
<1> QED
  BY <1>2, <1>4, <1>5, <1>8 DEF norm

\* merkle_prove and merkle_verify fit: in a book of any size the proof given for an
\* order's outpoint leads to the root from that order, and from no order whose
\* canonical line differs.
THEOREM EachOrderIsProven ==
    ASSUME NEW a, IsBook(a), NEW k \in DOMAIN a, NEW order
    PROVE  merkle_verify(order, merkle_prove(a, a[k].op), book_root(a))
              <=> Line(order) = Line(a[k])
<1> DEFINE proof == merkle_prove(a, a[k].op)
           path == proof.path
           leaves == Leaves(sorted_norm(a))
           idx == Place(a, k) - 1
<1>1. /\ Place(a, k) \in DOMAIN a /\ sorted_norm(a)[Place(a, k)] = a[k]
      /\ path = ProofPath(merkle_levels(leaves), idx)
  BY ProofOf
<1>2. Tree(a, leaves)
  BY BookLeaves
<1> HIDE DEF leaves, proof
<1>3. DOMAIN a = 1 .. Len(a) /\ Len(a) \in Nat
  BY BookPlaces
<1>4. a # <<>>
  BY <1>3
<1>5. /\ leaves \in Seq({leaves[i] : i \in DOMAIN leaves}) /\ leaves # <<>>
      /\ idx \in 0 .. Len(leaves) - 1
      /\ leaves[idx + 1] = leaf_hash(a[k])
      /\ book_root(a) = MerkleRoot(leaves)
  <2>1. idx \in 0 .. Len(a) - 1 /\ idx + 1 = Place(a, k)
    BY <1>1, <1>3
  <2> QED
    BY <1>1, <1>2, <1>4, <2>1 DEF Tree
<1>6. /\ path \in Seq(Steps(leaves))
      /\ Climb(a[k], path)[Len(path)] = book_root(a)
  BY <1>1, <1>5, ProofClimbs
<1>7. leaf_hash(order) = leaf_hash(a[k]) <=> Line(order) = Line(a[k])
  BY DEF leaf_hash
<1>8. ASSUME leaf_hash(order) = leaf_hash(a[k])
      PROVE  Climb(order, path) = Climb(a[k], path)
  BY <1>8 DEF Climb
<1>9. ASSUME Climb(order, path)[Len(path)] = book_root(a)
      PROVE  leaf_hash(order) = leaf_hash(a[k])
  BY <1>6, <1>9, ClimbInjective
<1>10. merkle_verify(order, proof, book_root(a)) <=> leaf_hash(order) = leaf_hash(a[k])
  BY <1>6, <1>8, <1>9 DEF merkle_verify
<1> QED
  BY <1>7, <1>10 DEF proof

=============================================================================
