-------------------------------- MODULE Swap --------------------------------
(***************************************************************************)
(* Addressed swaps: a taker proposes (addressed-propose, addressed-rune-   *)
(* propose) by building the whole transaction and signing its funding      *)
(* input, the PSBT travels out of band, the maker verifies it and counter- *)
(* signs (addressed-countersign, addressed-rune-countersign); and the      *)
(* sweep of several open orders in one transaction (batch-fill).           *)
(* Runestone gives the transactions, the checks and what ord makes of      *)
(* them.  PSBTs are never lost track of: they may arrive late, twice,      *)
(* after another taker's, or differ from the agreed deal.  ord indexes     *)
(* behind the node, and everybody spends coins elsewhere.                  *)
(***************************************************************************)
EXTENDS Runestone

CONSTANTS
    Takers, Coins,        \* takers; their coins
    OwnerOf,              \* the taker of a coin
    AmountA, AmountB,     \* the agreed units: A offered, B asked
    Price, Fee, OfferSats,\* the agreed price in sats; sats of the offer
    MaxPsbts, MaxOther    \* bounds: PSBTs made, PSBTs that differ from the deal

ASSUME SwapAssumption ==
    /\ OwnerOf \in [Coins -> Takers]
    /\ Coins \cap {"offer", "open"} = {} /\ NoValue # "maker"
    /\ {AmountA, AmountB, Price, Fee, OfferSats, MaxPsbts, MaxOther} \subseteq Nat \ {0}

A == <<1, 1>>
B == <<2, 1>>
Maker == "maker"
Offers == {"offer", "open"}       \* the offer of the deal, and another order of the maker

VARIABLES
    deal,      \* "btc" or "rune", and whether the maker gives its address
    holds,     \* units on chain: of A on the offers, of the funding rune on each coin
    stray,     \* coins that carry a unit of the other rune as well
    sats,      \* sats on each coin
    indexed,   \* outpoints ord has indexed
    synced,    \* ord is within the margin of the node's tip
    psbts,     \* PSBTs in the makers' and takers' hands: transaction, sender
    mempool, chain, \* transactions: unconfirmed, confirmed
    spent      \* outpoints spent by transactions outside the model

vars == <<deal, holds, stray, sats, indexed, synced, psbts, mempool, chain, spent>>
oracle == <<deal, holds, stray, sats>>

Outpoints == Coins \cup Offers
Inputs(tx) == {tx.ins[i] : i \in DOMAIN tx.ins}
SpentBy(txs) == UNION {Inputs(tx) : tx \in txs}
Gone == spent \cup SpentBy(chain)
\* gettxout sees the mempool.
Unspent(op) == op \notin Gone \cup SpentBy(mempool)

Init ==
    /\ deal \in [rune : BOOLEAN, addressed : BOOLEAN]
    /\ deal.rune => deal.addressed
    /\ holds \in [Outpoints -> {0, AmountA, AmountA + 1}]
    /\ \A c \in Coins : holds[c] \in IF deal.rune THEN {0, AmountB + 1} ELSE {0, AmountA}
    /\ holds["open"] = AmountA
    /\ stray \in {{}} \cup {{c} : c \in {d \in Coins : deal.rune /\ holds[d] > 0}}
    /\ sats = [c \in Coins |-> 2 * Price + 2 * Fee + 2 * Dust]
    /\ indexed = {} /\ synced = FALSE
    /\ psbts = {} /\ mempool = {} /\ chain = {} /\ spent = {}

----------------------------------------------------------------------------
\* The oracle: 0 units for an output ord does not know is also an answer of
\* ord's, and a refusal for every caller.

\* _output_rune_amount: what ord lists for the output, by the rune's name.
output_rune_amount(op) == holds[op]

ord_rune_balance(op) == IF op \in indexed THEN output_rune_amount(op) ELSE 0

\* Exactly the units advertised: fewer cannot be honoured, more would go to
\* the maker's output.
\* Mutant: at least the units.
assert_offer_backs_rune_M(amount) == ord_rune_balance("offer") >= amount
assert_offer_backs_rune(amount) == ord_rune_balance("offer") = amount

\* A coin ord cannot vouch for counts as rune-bearing.
ord_output_has_runes(op) == op \notin indexed \/ output_rune_amount(op) > 0

Mine(t) == {c \in Coins : OwnerOf[c] = t /\ Unspent(c)}

\* Mutant: an unknown coin counts as rune-free.
pick_p2wpkh_utxo_M(t, want) == {c \in Mine(t) : sats[c] >= want /\ ord_rune_balance(c) = 0}
pick_p2wpkh_utxo(t, want) == {c \in Mine(t) : sats[c] >= want /\ ~ord_output_has_runes(c)}

\* The sats beyond the offer's that two dust outputs and the fee need.
pick_rune_utxo(t) ==
    {c \in Mine(t) : ord_rune_balance(c) >= AmountB /\ sats[c] + OfferSats >= 2 * Dust + Fee}

Leg(op) == [offer |-> op, sats |-> OfferSats, price |-> Price, spk |-> Maker, id |-> A, amount |-> AmountA]
Funding(c) == [outpoint |-> c, sats |-> sats[c]]

\* The whole swap, as the taker builds it.
Proposal(t, c) ==
    IF deal.rune
    THEN build_addressed_rune_swap_unsigned([outpoint |-> "offer", sats |-> OfferSats], Funding(c), Maker, t,
                                            A, AmountA, B, AmountB, Fee)
    ELSE build_batch_taker_swap_unsigned(<<Leg("offer")>>, Funding(c), t, Fee)

\* The tools: the offer unspent and backed, the funding suitable; the PSBT
\* carries the taker's signature of the whole transaction.  Nothing locks
\* the funding coin: a second proposal may pick it again.
Proposes(t, coins) ==
    /\ Unspent("offer") /\ assert_offer_backs_rune(AmountA)
    /\ \E c \in coins :
          /\ Proposal(t, c) # NoValue
          /\ psbts' = psbts \cup {[tx |-> Proposal(t, c), by |-> t, honest |-> TRUE]}

addressed_propose(t) == Price >= Dust /\ Proposes(t, pick_p2wpkh_utxo(t, Price + Fee))
addressed_rune_propose(t) == Proposes(t, pick_rune_utxo(t))

\* The daemon's handlers refuse a swap of runes while ord is far behind.
h_addressed_propose(t) == ~deal.rune /\ synced /\ addressed_propose(t)
h_rune_propose(t) == deal.rune /\ synced /\ addressed_rune_propose(t)

Propose(t) ==
    /\ Cardinality(psbts) < MaxPsbts
    /\ h_addressed_propose(t) \/ h_rune_propose(t)
    /\ UNCHANGED <<oracle, indexed, synced, mempool, chain, spent>>

\* PSBTs that do not follow the deal: another price, another recipient,
\* other routes for the units.
Variants(t, tx) ==
    LET n == Len(tx.outs)
        out0(f, v) == [tx EXCEPT !.outs[1][f] = v]
        route(ints) == [tx EXCEPT !.outs[n] = Return(Stone(ints))]
    IN  {out0("sats", tx.outs[1].sats - 1), out0("spk", t),
         route(<<Tag.body, B[1], B[2], 0, 1>>), route(<<Tag.pointer, n - 1>>),
         route(<<Tag.pointer, n, Tag.body, B[1], B[2], AmountB, 0>>),
         route(<<Tag.body, B[1], B[2], AmountB, n + 1>>)}

ProposeOther(t) ==
    /\ Cardinality(psbts) < MaxPsbts
    /\ Cardinality({p \in psbts : ~p.honest}) < MaxOther
    /\ \E c \in Coins :
          /\ OwnerOf[c] = t /\ Proposal(t, c) # NoValue
          /\ \E tx \in Variants(t, Proposal(t, c)) :
                psbts' = psbts \cup {[tx |-> tx, by |-> t, honest |-> FALSE]}
    /\ UNCHANGED <<oracle, indexed, synced, mempool, chain, spent>>

\* sendrawtransaction: the inputs exist; a conflicting unconfirmed
\* transaction is replaced (its funding input signals it) or it wins.
Broadcast(tx) ==
    /\ Inputs(tx) \cap Gone = {}
    /\ LET rivals == {m \in mempool : Inputs(m) \cap Inputs(tx) # {}} IN
       mempool' = (mempool \ rivals) \cup {tx}

\* Witnesses: a signature of the whole transaction, or a maker's leg signed
\* SINGLE|ANYONECANPAY, which fixes its own input and the output beside it.
All == [offer |-> NoValue]
Valid(tx, wit) ==
    \A i \in DOMAIN tx.ins :
        \/ wit[i] = All
        \/ tx.ins[i] = wit[i].offer /\ tx.outs[i] = Pay(wit[i].price, wit[i].spk)

\* The makers' signatures come first, in the order of the legs, the wallet's
\* own after them.
transplant_maker_witnesses(tx, legs) ==
    [i \in DOMAIN tx.ins |-> IF i <= Len(legs) THEN legs[i] ELSE All]

\* What the maker believes the inputs hold: A as agreed, B on the funding as
\* its own ord says.
Believed(tx) == [id \in {A, B} |-> IF id = A THEN AmountA ELSE ord_rune_balance(tx.ins[2])]

\* The maker's tools: verify, sign everything (SIGHASH_ALL), broadcast.
\* Mutant: output 0 is compared with the price only.
addressed_countersign_M(tx) == verify_addressed_tx(tx, "offer", Price, NoValue)
addressed_countersign(tx) ==
    verify_addressed_tx(tx, "offer", Price, IF deal.addressed THEN Maker ELSE NoValue)

addressed_rune_countersign(tx) ==
    /\ Len(tx.ins) >= 2
    /\ verify_addressed_rune_tx(tx, "offer", Maker, B, AmountB, Believed(tx))

\* Only the handler of rune swaps asks how far ord is.
h_addressed_countersign(tx) == ~deal.rune /\ addressed_countersign(tx)
h_rune_countersign(tx) == deal.rune /\ synced /\ addressed_rune_countersign(tx)

Countersign ==
    /\ \E p \in psbts :
          /\ h_addressed_countersign(p.tx) \/ h_rune_countersign(p.tx)
          /\ Broadcast(p.tx)
    /\ UNCHANGED <<oracle, indexed, synced, psbts, chain, spent>>

\* batch-fill by a taker: both orders are also open ones, each leg signed by
\* the maker on its own; every offer is looked up and its signature checked,
\* none may be in the batch twice, and the rune-free funding covers the total.
batch_fill(t, legs, fee) ==
    /\ \A i \in DOMAIN legs : Unspent(legs[i].offer)
    /\ IsInjective([i \in DOMAIN legs |-> legs[i].offer])
    /\ \E c \in pick_p2wpkh_utxo(t, Len(legs) * (Price + fee)) :
          LET tx == build_batch_taker_swap_unsigned(legs, Funding(c), t, Len(legs) * fee)
          IN  tx # NoValue /\ Valid(tx, transplant_maker_witnesses(tx, legs)) /\ Broadcast(tx)

\* h_batch_fill: any orders but none; the fee is per offer.
h_batch_fill(t) == \E ops \in {<<"open">>, <<"open", "offer">>, <<"offer", "offer">>} :
    batch_fill(t, [i \in DOMAIN ops |-> Leg(ops[i])], Fee)

BatchFill(t) ==
    /\ ~deal.rune /\ h_batch_fill(t)
    /\ UNCHANGED <<oracle, indexed, synced, psbts, chain, spent>>

----------------------------------------------------------------------------
\* The world.

Confirm ==
    /\ \E tx \in mempool : mempool' = mempool \ {tx} /\ chain' = chain \cup {tx}
    /\ UNCHANGED <<oracle, indexed, synced, psbts, spent>>

SpendElsewhere ==
    /\ \E op \in Outpoints :
          /\ op \notin Gone
          /\ spent' = spent \cup {op}
          /\ mempool' = {tx \in mempool : op \notin Inputs(tx)}
    /\ UNCHANGED <<oracle, indexed, synced, psbts, chain>>

OrdIndexes ==
    /\ \E op \in Outpoints : indexed' = indexed \cup {op}
    /\ UNCHANGED <<oracle, synced, psbts, mempool, chain, spent>>

\* Within the margin of the tip, which does not cover the newest outputs, or
\* behind it again.
OrdCatchesUp ==
    /\ synced' = ~synced
    /\ UNCHANGED <<oracle, indexed, psbts, mempool, chain, spent>>

Next ==
    \/ \E t \in Takers : Propose(t) \/ ProposeOther(t) \/ BatchFill(t)
    \/ Countersign \/ Confirm \/ SpendElsewhere \/ OrdIndexes \/ OrdCatchesUp

Spec == Init /\ [][Next]_vars

----------------------------------------------------------------------------
TypeOK ==
    /\ deal \in [rune : BOOLEAN, addressed : BOOLEAN]
    /\ stray \subseteq Coins /\ indexed \subseteq Outpoints /\ spent \subseteq Outpoints /\ synced \in BOOLEAN
    /\ \A tx \in mempool \cup chain : Inputs(tx) \subseteq Outpoints

\* What the inputs of a transaction really hold.
True(tx) ==
    LET sum(ops) == FoldFunctionOnSet(+, 0, holds, ops \cap Inputs(tx))
        onCoins == sum(Coins)
    IN  [id \in {A, B} |-> IF id = B THEN (IF deal.rune THEN onCoins ELSE 0)
                           ELSE sum(Offers) + IF deal.rune THEN Cardinality(stray \cap Inputs(tx))
                                              ELSE onCoins]

\* A maker that gave its address is paid what was agreed by whatever
\* confirmed transaction spends its offer through a swap: the price, or the
\* units of B as ord counts them, also for PSBTs that are not the deal, that
\* come late, or that ord's index did not cover when they were proposed.
MakerGetsAgreed ==
    \A tx \in chain : "offer" \in Inputs(tx) /\ deal.addressed =>
        IF deal.rune THEN tx.outs[1].spk = Maker /\ OrdUnits(tx, True(tx), 0, B) >= AmountB
        ELSE \A i \in DOMAIN tx.ins :
                tx.ins[i] \in Offers => tx.outs[i] = Pay(Price, Maker)

\* A taker whose own proposal is confirmed has the offered units on its
\* output, all of them, and of its own units the maker has the ones agreed
\* only.  Units of a third kind on a rune funding are not looked at
\* (_pick_rune_utxo does not), so stray ones are left out here.
TakerGetsRune ==
    \A p \in psbts : p.honest /\ p.tx \in chain =>
        /\ OrdUnits(p.tx, True(p.tx), 1, A) = AmountA
        /\ OrdUnits(p.tx, True(p.tx), 0, A) = Cardinality(stray \cap Inputs(p.tx))
        /\ OrdUnits(p.tx, True(p.tx), 0, B) = IF deal.rune THEN AmountB ELSE 0

============================================================================
