------------------------------ MODULE SwapProofs ------------------------------
(***************************************************************************)
(* Theorems about addressed swaps for bitcoin and the sweep of open        *)
(* orders, for every set of takers and coins, any number of PSBTs and any  *)
(* price, whatever arrives late, twice or differs from the deal.  What ord *)
(* makes of a runestone is a fold over its edicts, so the rune side of the *)
(* deals is left to the model checker.                                     *)
(***************************************************************************)
EXTENDS Swap, SequenceTheorems, TLAPS

-----------------------------------------------------------------------------
(* Lemmas on the transactions that are built. *)

\* Two lists one after the other.
LEMMA Joined ==
    ASSUME NEW S, NEW first \in Seq(S), NEW second \in Seq(S)
    PROVE  /\ first \o second \in Seq(S)
           /\ Len(first \o second) = Len(first) + Len(second)
           /\ \A i \in 1 .. Len(first) : (first \o second)[i] = first[i]
           /\ Len(second) = 1 => (first \o second)[Len(first) + 1] = second[1]
<1>1. Len(first) \in Nat /\ Len(second) \in Nat
  OBVIOUS
<1>2. /\ first \o second \in Seq(S)
      /\ Len(first \o second) = Len(first) + Len(second)
  BY ConcatProperties
<1>3. \A i \in 1 .. Len(first) + Len(second) :
         (first \o second)[i] = IF i <= Len(first) THEN first[i] ELSE second[i - Len(first)]
  BY ConcatProperties
<1> QED
  BY <1>1, <1>2, <1>3

\* offer_k at input k, its payout at output k, the funding behind the offers.
BatchShaped(tx, legs, funding) ==
    /\ DOMAIN tx = {"ins", "outs"}
    /\ DOMAIN tx.ins = 1 .. Len(legs) + 1
    /\ \A i \in 1 .. Len(legs) : tx.ins[i] = legs[i].offer
    /\ tx.ins[Len(legs) + 1] = funding
    /\ DOMAIN tx.outs = 1 .. Len(tx.outs) /\ Len(tx.outs) \in Nat
    /\ Len(tx.outs) > Len(legs)
    /\ \A i \in 1 .. Len(legs) : tx.outs[i] = Pay(legs[i].price, legs[i].spk)

LEMMA BatchShape ==
    ASSUME NEW Legs, NEW legs \in Seq(Legs), NEW fund, NEW t, NEW value, NEW backed,
           BatchTx(legs, fund, t, value, backed) # NoValue
    PROVE  BatchShaped(BatchTx(legs, fund, t, value, backed), legs, fund.outpoint)
<1> DEFINE offers == [i \in DOMAIN legs |-> legs[i].offer]
           payouts == [i \in DOMAIN legs |-> Pay(legs[i].price, legs[i].spk)]
           stone == Return(runestone_spk([i \in DOMAIN backed |->
                               EdictOf(backed[i].id, backed[i].amount, Len(legs))]))
           rest == IF backed = <<>> THEN <<>> ELSE <<stone>>
           tx == BatchTx(legs, fund, t, value, backed)
           T == {payouts[i] : i \in DOMAIN legs} \cup {Pay(value, t), stone}
           Ops == {legs[i].offer : i \in DOMAIN legs} \cup {fund.outpoint}
<1>1. tx = [ins |-> offers \o <<fund.outpoint>>, outs |-> payouts \o <<Pay(value, t)>> \o rest]
  BY DEF BatchTx
<1>2. DOMAIN legs = 1 .. Len(legs) /\ Len(legs) \in Nat
  OBVIOUS
<1>3. offers \in Seq(Ops) /\ Len(offers) = Len(legs)
  BY <1>2
<1>4. payouts \in Seq(T) /\ Len(payouts) = Len(legs)
  BY <1>2
<1>5. \A i \in 1 .. Len(legs) : /\ offers[i] = legs[i].offer
                                /\ payouts[i] = Pay(legs[i].price, legs[i].spk)
  BY <1>2
<1>6. fund.outpoint \in Ops /\ Pay(value, t) \in T /\ stone \in T
  OBVIOUS
<1> HIDE DEF offers, payouts, stone, T, Ops, tx
<1>10. /\ <<fund.outpoint>> \in Seq(Ops) /\ Len(<<fund.outpoint>>) = 1
       /\ <<Pay(value, t)>> \in Seq(T) /\ Len(<<Pay(value, t)>>) = 1
       /\ rest \in Seq(T) /\ Len(rest) \in Nat
  BY <1>6
<1> HIDE DEF rest
<1>7. /\ offers \o <<fund.outpoint>> \in Seq(Ops)
      /\ Len(offers \o <<fund.outpoint>>) = Len(legs) + 1
      /\ \A i \in 1 .. Len(legs) : (offers \o <<fund.outpoint>>)[i] = offers[i]
      /\ (offers \o <<fund.outpoint>>)[Len(legs) + 1] = fund.outpoint
  <2> DEFINE one == <<fund.outpoint>>
  <2>1. one \in Seq(Ops) /\ Len(one) = 1
    BY <1>10
  <2>2. one[1] = fund.outpoint
    OBVIOUS
  <2> HIDE DEF one
  <2>3. offers \o one \in Seq(Ops) /\ Len(offers \o one) = Len(offers) + Len(one)
    <3>1. offers \in Seq(Ops)
      BY <1>3
    <3>2. one \in Seq(Ops)
      BY <2>1
    <3> QED
      BY <3>1, <3>2, Joined
  <2>4. \A i \in 1 .. Len(offers) : (offers \o one)[i] = offers[i]
    BY <1>3, <2>1, Joined
  <2>5. (offers \o one)[Len(offers) + 1] = one[1]
    BY <1>3, <2>1, Joined
  <2>6. /\ offers \o one \in Seq(Ops)
        /\ Len(offers \o one) = Len(legs) + 1
        /\ \A i \in 1 .. Len(legs) : (offers \o one)[i] = offers[i]
        /\ (offers \o one)[Len(legs) + 1] = fund.outpoint
    BY <1>3, <2>1, <2>2, <2>3, <2>4, <2>5
  <2> QED
    BY <2>6 DEF one
<1>8. /\ payouts \o <<Pay(value, t)>> \in Seq(T)
      /\ Len(payouts \o <<Pay(value, t)>>) = Len(legs) + 1
      /\ \A i \in 1 .. Len(legs) : (payouts \o <<Pay(value, t)>>)[i] = payouts[i]
  <2> DEFINE one == <<Pay(value, t)>>
  <2>1. one \in Seq(T) /\ Len(one) = 1
    BY <1>10
  <2> HIDE DEF one
  <2>2. payouts \o one \in Seq(T) /\ Len(payouts \o one) = Len(payouts) + Len(one)
    <3>1. payouts \in Seq(T)
      BY <1>4
    <3>2. one \in Seq(T)
      BY <2>1
    <3> QED
      BY <3>1, <3>2, Joined
  <2>3. \A i \in 1 .. Len(payouts) : (payouts \o one)[i] = payouts[i]
    BY <1>4, <2>1, Joined
  <2>4. /\ payouts \o one \in Seq(T)
        /\ Len(payouts \o one) = Len(legs) + 1
        /\ \A i \in 1 .. Len(legs) : (payouts \o one)[i] = payouts[i]
    BY <1>4, <2>1, <2>2, <2>3
  <2> QED
    BY <2>4 DEF one
<1>9. /\ payouts \o <<Pay(value, t)>> \o rest \in Seq(T)
      /\ Len(payouts \o <<Pay(value, t)>> \o rest) > Len(legs)
      /\ \A i \in 1 .. Len(legs) : (payouts \o <<Pay(value, t)>> \o rest)[i] = payouts[i]
  <2> DEFINE first == payouts \o <<Pay(value, t)>>
  <2>1. first \in Seq(T) /\ Len(first) = Len(legs) + 1
    BY <1>8
  <2>2. \A i \in 1 .. Len(legs) : first[i] = payouts[i] /\ i \in 1 .. Len(first)
    BY <1>2, <1>8
  <2> HIDE DEF first
  <2>3. first \o rest \in Seq(T) /\ Len(first \o rest) = Len(first) + Len(rest)
    BY <1>10, <2>1, Joined
  <2>4. \A i \in 1 .. Len(first) : (first \o rest)[i] = first[i]
    BY <1>10, <2>1, Joined
  <2>5. Len(first \o rest) > Len(legs)
    BY <1>2, <1>10, <2>1, <2>3
  <2>6. \A i \in 1 .. Len(legs) : (first \o rest)[i] = payouts[i]
    BY <2>2, <2>4
  <2> QED
    BY <2>3, <2>5, <2>6 DEF first
<1>11. /\ tx.ins = offers \o <<fund.outpoint>>
       /\ tx.outs = payouts \o <<Pay(value, t)>> \o rest
       /\ DOMAIN tx = {"ins", "outs"}
  BY <1>1
<1>12. DOMAIN tx.ins = 1 .. Len(legs) + 1
  BY <1>7, <1>11
<1>13. DOMAIN tx.outs = 1 .. Len(tx.outs) /\ Len(tx.outs) \in Nat
  BY <1>9, <1>11
<1>14. BatchShaped(tx, legs, fund.outpoint)
  BY <1>5, <1>7, <1>9, <1>11, <1>12, <1>13 DEF BatchShaped
<1> QED
  BY <1>14 DEF tx

-----------------------------------------------------------------------------
(* The maker's payment. *)

\* A PSBT for the deal spends the offer first and a coin behind it, and pays
\* somebody something beside the offer.
ForTheDeal(tx) ==
    /\ DOMAIN tx.ins = {1, 2}
    /\ tx.ins[1] = "offer"
    /\ tx.ins[2] \in Coins
    /\ tx.outs[1] = Pay(tx.outs[1].sats, tx.outs[1].spk)

\* Beside every offer that a transaction spends it pays the maker the price.
PaysTheMaker(tx) ==
    \A i \in DOMAIN tx.ins : tx.ins[i] \in Offers => tx.outs[i] = Pay(Price, Maker)

\* The inductive invariant: what is in the mempool needs to pay the maker too,
\* and what a taker may hand over must at least be for the deal.
PaymentInv ==
    ~deal.rune =>
        /\ \A p \in psbts : ForTheDeal(p.tx)
        /\ deal.addressed => \A tx \in mempool \cup chain : PaysTheMaker(tx)

LEMMA CoinsAreNotOffers ==
    ASSUME NEW c \in Coins
    PROVE  c \notin Offers
BY SwapAssumption DEF Offers

\* The transaction that a taker builds for a deal in bitcoin.
LEMMA ProposalShape ==
    ASSUME ~deal.rune, NEW t, NEW c \in Coins, Proposal(t, c) # NoValue
    PROVE  LET tx == Proposal(t, c)
           IN /\ ForTheDeal(tx)
              /\ DOMAIN tx = {"ins", "outs"}
              /\ DOMAIN tx.outs = 1 .. Len(tx.outs)
              /\ Len(tx.outs) \in Nat /\ Len(tx.outs) > 1
<1> DEFINE legs == <<Leg("offer")>>
           value == FoldLeft(LAMBDA s, a : s + a.sats - a.price, Funding(c).sats - Fee, legs)
           backed == SelectSeq(legs, LAMBDA a : a.amount > 0 /\ a.id # <<0, 0>>)
           tx == Proposal(t, c)
<1>1. tx = BatchTx(legs, Funding(c), t, value, backed)
  BY DEF Proposal, build_batch_taker_swap_unsigned
<1>2. legs \in Seq({Leg("offer")}) /\ Len(legs) = 1 /\ legs[1] = Leg("offer")
  OBVIOUS
<1> HIDE DEF legs, value, backed, tx
<1>3. BatchShaped(tx, legs, Funding(c).outpoint)
  <2>1. BatchTx(legs, Funding(c), t, value, backed) # NoValue
    BY <1>1 DEF tx
  <2>2. legs \in Seq({Leg("offer")})
    BY <1>2
  <2> QED
    BY <1>1, <2>1, <2>2, BatchShape
<1>4. /\ legs[1].offer = "offer" /\ legs[1].price = Price /\ legs[1].spk = Maker
      /\ Funding(c).outpoint = c
  BY <1>2 DEF Leg, Funding
<1>5. /\ DOMAIN tx.ins = {1, 2} /\ tx.ins[1] = "offer" /\ tx.ins[2] = c
      /\ DOMAIN tx.outs = 1 .. Len(tx.outs) /\ Len(tx.outs) \in Nat
      /\ Len(tx.outs) > 1
      /\ tx.outs[1] = Pay(Price, Maker)
      /\ DOMAIN tx = {"ins", "outs"}
  BY <1>2, <1>3, <1>4 DEF BatchShaped
<1>6. tx.outs[1] = Pay(tx.outs[1].sats, tx.outs[1].spk)
  BY <1>5 DEF Pay
<1> QED
  BY <1>5, <1>6 DEF ForTheDeal, tx

\* Another price, another recipient and other routes leave it one for the deal.
LEMMA VariantShape ==
    ASSUME ~deal.rune, NEW t, NEW c \in Coins, Proposal(t, c) # NoValue,
           NEW tx \in Variants(t, Proposal(t, c))
    PROVE  ForTheDeal(tx)
<1> DEFINE base == Proposal(t, c)
           n == Len(base.outs)
<1>1. ForTheDeal(base) /\ DOMAIN base = {"ins", "outs"}
  BY ProposalShape
<1>2. DOMAIN base.outs = 1 .. n /\ n \in Nat /\ n > 1
  BY ProposalShape
<1>3. \/ \E v : tx = [base EXCEPT !.outs[1].sats = v]
      \/ \E v : tx = [base EXCEPT !.outs[1].spk = v]
      \/ \E v : tx = [base EXCEPT !.outs[n] = v]
  BY DEF Variants
<1> HIDE DEF base, n
<1>4. CASE \E v : tx = [base EXCEPT !.outs[n] = v]
  <2>1. tx.ins = base.ins /\ tx.outs[1] = base.outs[1]
    BY <1>1, <1>2, <1>4
  <2> QED
    BY <1>1, <2>1 DEF ForTheDeal
<1>5. ASSUME NEW v, tx = [base EXCEPT !.outs[1].sats = v]
      PROVE  ForTheDeal(tx)
  <2>1. tx.ins = base.ins /\ tx.outs[1] = [base.outs[1] EXCEPT !.sats = v]
    <3> DEFINE outs == [base.outs EXCEPT ![1] = [base.outs[1] EXCEPT !.sats = v]]
    <3>1. tx = [base EXCEPT !.outs = outs]
      BY <1>5
    <3>2. outs[1] = [base.outs[1] EXCEPT !.sats = v]
      BY <1>2
    <3> HIDE DEF outs
    <3>3. tx.ins = base.ins /\ tx.outs = outs
      BY <1>1, <3>1
    <3> QED
      BY <3>2, <3>3
  <2>2. base.outs[1] = Pay(base.outs[1].sats, base.outs[1].spk)
    BY <1>1 DEF ForTheDeal
  <2>3. tx.outs[1] = Pay(v, base.outs[1].spk)
    BY <2>1, <2>2 DEF Pay
  <2>4. tx.outs[1] = Pay(tx.outs[1].sats, tx.outs[1].spk)
    BY <2>3 DEF Pay
  <2> QED
    BY <1>1, <2>1, <2>4 DEF ForTheDeal
<1>6. ASSUME NEW v, tx = [base EXCEPT !.outs[1].spk = v]
      PROVE  ForTheDeal(tx)
  <2>1. tx.ins = base.ins /\ tx.outs[1] = [base.outs[1] EXCEPT !.spk = v]
    <3> DEFINE outs == [base.outs EXCEPT ![1] = [base.outs[1] EXCEPT !.spk = v]]
    <3>1. tx = [base EXCEPT !.outs = outs]
      BY <1>6
    <3>2. outs[1] = [base.outs[1] EXCEPT !.spk = v]
      BY <1>2
    <3> HIDE DEF outs
    <3>3. tx.ins = base.ins /\ tx.outs = outs
      BY <1>1, <3>1
    <3> QED
      BY <3>2, <3>3
  <2>2. base.outs[1] = Pay(base.outs[1].sats, base.outs[1].spk)
    BY <1>1 DEF ForTheDeal
  <2>3. tx.outs[1] = Pay(base.outs[1].sats, v)
    BY <2>1, <2>2 DEF Pay
  <2>4. tx.outs[1] = Pay(tx.outs[1].sats, tx.outs[1].spk)
    BY <2>3 DEF Pay
  <2> QED
    BY <1>1, <2>1, <2>4 DEF ForTheDeal
<1> QED
  BY <1>3, <1>4, <1>5, <1>6

\* The maker countersigns only what pays it, to the address it gave.
LEMMA CountersignedPays ==
    ASSUME NEW tx, ForTheDeal(tx), deal.addressed, addressed_countersign(tx)
    PROVE  PaysTheMaker(tx)
<1>1. tx.outs[1].sats = Price /\ tx.outs[1].spk = Maker
  BY SwapAssumption DEF addressed_countersign, verify_addressed_tx, Maker
<1>2. tx.outs[1] = Pay(Price, Maker)
  BY <1>1 DEF ForTheDeal
<1>3. tx.ins[2] \notin Offers
  BY CoinsAreNotOffers DEF ForTheDeal
<1> QED
  BY <1>2, <1>3 DEF ForTheDeal, PaysTheMaker

\* A sweep is only valid if each maker's signature, which fixes the output
\* beside its own input, is at the input it signed.
LEMMA SweptPays ==
    ASSUME NEW legs, legs \in Seq({Leg(op) : op \in Offers}), NEW c \in Coins,
           NEW t, NEW fee,
           LET tx == build_batch_taker_swap_unsigned(legs, Funding(c), t, fee)
           IN tx # NoValue /\ Valid(tx, transplant_maker_witnesses(tx, legs))
    PROVE  PaysTheMaker(build_batch_taker_swap_unsigned(legs, Funding(c), t, fee))
<1> DEFINE Legs == {Leg(op) : op \in Offers}
           value == FoldLeft(LAMBDA s, a : s + a.sats - a.price, Funding(c).sats - fee, legs)
           backed == SelectSeq(legs, LAMBDA a : a.amount > 0 /\ a.id # <<0, 0>>)
           tx == build_batch_taker_swap_unsigned(legs, Funding(c), t, fee)
<1>1. tx = BatchTx(legs, Funding(c), t, value, backed)
  BY DEF build_batch_taker_swap_unsigned
<1>2. tx # NoValue /\ Valid(tx, transplant_maker_witnesses(tx, legs))
  OBVIOUS
<1>3. legs \in Seq(Legs)
  OBVIOUS
<1> HIDE DEF Legs, value, backed, tx
<1>4. /\ DOMAIN tx.ins = 1 .. Len(legs) + 1
      /\ tx.ins[Len(legs) + 1] = Funding(c).outpoint
  <2>1. BatchTx(legs, Funding(c), t, value, backed) # NoValue
    BY <1>1, <1>2
  <2>2. BatchShaped(tx, legs, Funding(c).outpoint)
    BY <1>1, <1>3, <2>1, BatchShape
  <2> QED
    BY <2>2 DEF BatchShaped
<1>5. ASSUME NEW i \in 1 .. Len(legs)
      PROVE  tx.outs[i] = Pay(Price, Maker)
  <2>1. transplant_maker_witnesses(tx, legs)[i] = legs[i]
    BY <1>4 DEF transplant_maker_witnesses
  <2>2. PICK op \in Offers : legs[i] = Leg(op)
    BY <1>3 DEF Legs
  <2>3. Leg(op) # All
    <3>1. "price" \in DOMAIN Leg(op) /\ "price" \notin DOMAIN All
      BY DEF Leg, All
    <3> QED
      BY <3>1
  <2>4. i \in DOMAIN tx.ins
    BY <1>4
  <2>5. tx.outs[i] = Pay(Leg(op).price, Leg(op).spk)
    BY <1>2, <2>1, <2>2, <2>3, <2>4 DEF Valid
  <2> QED
    BY <2>5 DEF Leg
<1>6. tx.ins[Len(legs) + 1] \notin Offers
  BY <1>4, CoinsAreNotOffers DEF Funding
<1>7. \A i \in DOMAIN tx.ins : i \in 1 .. Len(legs) \/ i = Len(legs) + 1
  <2>1. Len(legs) \in Nat
    BY <1>3
  <2>2. \A i \in 1 .. Len(legs) + 1 : i \in 1 .. Len(legs) \/ i = Len(legs) + 1
    BY <2>1
  <2> QED
    BY <1>4, <2>2
<1>8. PaysTheMaker(tx)
  BY <1>5, <1>6, <1>7 DEF PaysTheMaker
<1> QED
  BY <1>8 DEF tx

\* One more transaction in the mempool, whatever it replaces there.
LEMMA BroadcastPays ==
    ASSUME deal.addressed => \A tx \in mempool \cup chain : PaysTheMaker(tx),
           NEW tx, Broadcast(tx), deal.addressed => PaysTheMaker(tx), chain' = chain
    PROVE  deal.addressed => \A m \in mempool' \cup chain' : PaysTheMaker(m)
BY DEF Broadcast

LEMMA PaymentStep ==
    ASSUME PaymentInv, [Next]_vars
    PROVE  PaymentInv'
<1> SUFFICES ASSUME ~deal.rune
             PROVE  /\ \A p \in psbts' : ForTheDeal(p.tx)
                    /\ deal.addressed =>
                         \A tx \in mempool' \cup chain' : PaysTheMaker(tx)
  <2>1. deal' = deal
    BY DEF Next, Propose, ProposeOther, BatchFill, Countersign, Confirm,
           SpendElsewhere, OrdIndexes, OrdCatchesUp, oracle, vars
  <2> QED
    BY <2>1 DEF PaymentInv, ForTheDeal, PaysTheMaker
<1>1. /\ \A p \in psbts : ForTheDeal(p.tx)
      /\ deal.addressed => \A tx \in mempool \cup chain : PaysTheMaker(tx)
  BY DEF PaymentInv
<1>2. ASSUME NEW t \in Takers, Propose(t)
      PROVE  /\ \A p \in psbts' : ForTheDeal(p.tx)
             /\ UNCHANGED <<mempool, chain>>
  <2>1. Proposes(t, pick_p2wpkh_utxo(t, Price + Fee))
    BY <1>2 DEF Propose, h_addressed_propose, h_rune_propose, addressed_propose
  <2>2. PICK c \in pick_p2wpkh_utxo(t, Price + Fee) :
          /\ Proposal(t, c) # NoValue
          /\ psbts' = psbts \cup {[tx |-> Proposal(t, c), by |-> t, honest |-> TRUE]}
    BY <2>1 DEF Proposes
  <2>3. c \in Coins
    BY DEF pick_p2wpkh_utxo, Mine
  <2>4. ForTheDeal(Proposal(t, c))
    BY <2>2, <2>3, ProposalShape
  <2>5. UNCHANGED <<mempool, chain>>
    BY <1>2 DEF Propose
  <2> QED
    BY <1>1, <2>2, <2>4, <2>5
<1>3. ASSUME NEW t \in Takers, ProposeOther(t)
      PROVE  /\ \A p \in psbts' : ForTheDeal(p.tx)
             /\ UNCHANGED <<mempool, chain>>
  <2>1. PICK c \in Coins :
          /\ Proposal(t, c) # NoValue
          /\ \E tx \in Variants(t, Proposal(t, c)) :
               psbts' = psbts \cup {[tx |-> tx, by |-> t, honest |-> FALSE]}
    BY <1>3 DEF ProposeOther
  <2>2. PICK tx \in Variants(t, Proposal(t, c)) :
          psbts' = psbts \cup {[tx |-> tx, by |-> t, honest |-> FALSE]}
    BY <2>1
  <2>3. ForTheDeal(tx)
    BY <2>1, VariantShape
  <2>4. UNCHANGED <<mempool, chain>>
    BY <1>3 DEF ProposeOther
  <2> QED
    BY <1>1, <2>2, <2>3, <2>4
<1>4. ASSUME NEW t \in Takers, BatchFill(t)
      PROVE  /\ deal.addressed => \A tx \in mempool' \cup chain' : PaysTheMaker(tx)
             /\ psbts' = psbts
  <2>1. PICK ops \in {<<"open">>, <<"open", "offer">>, <<"offer", "offer">>} :
          batch_fill(t, [i \in DOMAIN ops |-> Leg(ops[i])], Fee)
    BY <1>4 DEF BatchFill, h_batch_fill
  <2> DEFINE legs == [i \in DOMAIN ops |-> Leg(ops[i])]
  <2>2. legs \in Seq({Leg(op) : op \in Offers})
    <3>1. ops \in Seq(Offers)
      <4>1. "open" \in Offers /\ "offer" \in Offers
        BY DEF Offers
      <4>2. CASE ops = <<"open">>
        BY <4>1, <4>2
      <4>3. CASE ops = <<"open", "offer">>
        BY <4>1, <4>3
      <4>4. CASE ops = <<"offer", "offer">>
        BY <4>1, <4>4
      <4> QED
        BY <2>1, <4>2, <4>3, <4>4
    <3>2. \A i \in DOMAIN ops : Leg(ops[i]) \in {Leg(op) : op \in Offers}
      BY <3>1
    <3>3. DOMAIN ops = 1 .. Len(ops) /\ Len(ops) \in Nat
      BY <3>1
    <3> QED
      BY <3>2, <3>3
  <2> HIDE DEF legs
  <2>3. PICK c \in Coins :
          LET tx == build_batch_taker_swap_unsigned(legs, Funding(c), t, Len(legs) * Fee)
          IN  /\ tx # NoValue
              /\ Valid(tx, transplant_maker_witnesses(tx, legs))
              /\ Broadcast(tx)
    BY <2>1 DEF batch_fill, pick_p2wpkh_utxo, Mine, legs
  <2> DEFINE tx == build_batch_taker_swap_unsigned(legs, Funding(c), t, Len(legs) * Fee)
  <2>4. PaysTheMaker(tx)
    BY <2>2, <2>3, SweptPays
  <2>5. Broadcast(tx)
    BY <2>3
  <2>6. UNCHANGED <<psbts, chain>>
    BY <1>4 DEF BatchFill
  <2> HIDE DEF tx
  <2> QED
    BY <1>1, <2>4, <2>5, <2>6, BroadcastPays
<1>5. ASSUME Countersign
      PROVE  /\ deal.addressed => \A tx \in mempool' \cup chain' : PaysTheMaker(tx)
             /\ psbts' = psbts
  <2>1. PICK p \in psbts : addressed_countersign(p.tx) /\ Broadcast(p.tx)
    BY <1>5 DEF Countersign, h_addressed_countersign, h_rune_countersign
  <2>2. deal.addressed => PaysTheMaker(p.tx)
    BY <1>1, <2>1, CountersignedPays
  <2>3. UNCHANGED <<psbts, chain>>
    BY <1>5 DEF Countersign
  <2> QED
    BY <1>1, <2>1, <2>2, <2>3, BroadcastPays
<1>6. ASSUME Confirm
      PROVE  mempool' \cup chain' = mempool \cup chain /\ psbts' = psbts
  BY <1>6 DEF Confirm
<1>7. ASSUME SpendElsewhere
      PROVE  mempool' \subseteq mempool /\ UNCHANGED <<chain, psbts>>
  BY <1>7 DEF SpendElsewhere
<1>8. ASSUME OrdIndexes \/ OrdCatchesUp \/ UNCHANGED vars
      PROVE  UNCHANGED <<mempool, chain, psbts>>
  BY <1>8 DEF OrdIndexes, OrdCatchesUp, vars
<1> QED
  BY <1>1, <1>2, <1>3, <1>4, <1>5, <1>6, <1>7, <1>8 DEF Next

\* A maker that gave its address in a deal for bitcoin is paid the agreed price
\* by whatever confirmed transaction spends its offer, and by a sweep for each
\* of its orders.
THEOREM MakerIsPaidInBitcoin == Spec => [](~deal.rune => MakerGetsAgreed)
<1>1. Init => PaymentInv
  BY DEF Init, PaymentInv
<1>2. PaymentInv /\ [Next]_vars => PaymentInv'
  BY PaymentStep
<1>3. PaymentInv => (~deal.rune => MakerGetsAgreed)
  BY DEF PaymentInv, MakerGetsAgreed, PaysTheMaker
<1> QED
  BY <1>1, <1>2, <1>3, PTL DEF Spec

=============================================================================
