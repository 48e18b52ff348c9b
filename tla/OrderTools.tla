----------------------------- MODULE OrderTools -----------------------------
(***************************************************************************)
(* The commands that make an order, look at it and fill it: maker-sign     *)
(* with Core's wallet (btx_wallet.py), the publication through an envelope *)
(* and its recovery (btx_envelope_publish.py), and order create, lots,     *)
(* inspect and verify, swap build and client orders (btx.py).              *)
(*                                                                         *)
(* NoValue stands for a command that exits with an error.                  *)
(***************************************************************************)
EXTENDS Codec

-----------------------------------------------------------------------------
\* maker-sign.

\* The offer and its payout, all the maker signs.
build_partial_tx(offer, price, spk) ==
    [ins |-> <<[txid |-> offer.txid, vout |-> offer.vout]>>, outs |-> <<Pay(price, spk)>>]

\* Core: the witness of the input, empty when the wallet has no key for it.
signrawtransactionwithwallet(tx, pub, offer, flag) ==
    IF offer.spk # wpkh(pub) THEN <<>>
    ELSE <<Signed(pub, tx.ins[1].txid, tx.ins[1].vout, tx.outs[1].sats, tx.outs[1].spk, flag, offer.sats)
             \o <<flag>>, pub>>

\* Exactly a signature, of the agreed kind, and a key.
extract_maker_witness(stack) ==
    IF Len(stack) < 2 \/ (stack[1] # <<>> /\ Last(stack[1]) # SAA) THEN NoValue
    ELSE [sig |-> stack[1], pub |-> stack[2]]

\* rune 0 is no rune.
assemble_artifact(offer, price, spk, witness, rune, units, expiry, group) ==
    [make_artifact(witness.pub, offer, price, spk, units, expiry, group)
        EXCEPT !.maker_sig = witness.sig, !.rune_id = rune]

\* The artifact with the tool's own check of the signature.  held is what ord
\* says the offer holds of the rune, NoValue when ord is not asked.
maker_sign(pub, offer, price, spk, rune, units, held, flag) ==
    LET witness == extract_maker_witness(
                       signrawtransactionwithwallet(build_partial_tx(offer, price, spk), pub, offer, flag))
    IN  IF \/ price < Dust \/ price > U64Max \/ units > U64Max
           \/ witness = NoValue
           \/ units > 0 /\ rune # 0 /\ held \notin {NoValue, units}
        THEN NoValue
        ELSE LET blob == serialize_artifact(assemble_artifact(offer, price, spk, witness, rune, units, 8, 1))
             IN [artifact_hex |-> blob,
                 self_verifies |-> verify_maker_sig(parse_artifact(blob), offer.sats, NoValue)]

-----------------------------------------------------------------------------
\* Publication through an envelope: the commit pays to the tapscript under
\* the ephemeral key; what the state file keeps is enough for the reveal.

publish_commit(blob, key, sats) ==
    [script |-> envelope_tapscript(blob, key), sats |-> sats,
     state |-> [seckey |-> key, artifact_hex |-> blob, value |-> sats]]

\* publish-reveal, from the file or from the same values as flags.
publish_reveal(state, fee) ==
    IF state.value - fee < Dust THEN NoValue
    ELSE [sats |-> state.value - fee,
          wits |-> <<build_reveal_witness(state.artifact_hex, state.seckey, <<state.seckey>>, <<state.seckey>>)>>,
          outs |-> <<>>]

-----------------------------------------------------------------------------
\* btx.py.

artifact_to_public_dict(art) ==
    [ver |-> art.ver, rune_id |-> art.rune_id, amount_units |-> art.amount, price_sats |-> art.price,
     expiry_height |-> art.expiry, group_id |-> art.group_id,
     side_label |-> IF art.side = 0 THEN "SELL" ELSE "BUY",
     offer_outpoint |-> <<art.offer_txid, art.offer_vout>>, payout_spk |-> art.payout_spk,
     maker_pubkey |-> art.maker_pubkey,
     sighash |-> IF art.sighash_flag = SAA THEN "SINGLE|ANYONECANPAY" ELSE "other"]

order_inspect(blob) ==
    LET art == parse_artifact(blob) IN IF art = NoValue THEN NoValue ELSE artifact_to_public_dict(art)

order_create(pub, offer, price, spk, units) ==
    LET blob == serialize_artifact(make_artifact(pub, offer, price, spk, units, 8, 1))
    IN [artifact_hex |-> blob, carrier |-> op_return_carrier(blob), order |-> order_inspect(blob)]

\* Without the offer's script only the signature is checked.
order_verify(blob, sats, spk) ==
    LET art == parse_artifact(blob) IN
    IF art = NoValue THEN NoValue
    ELSE CASE ~verify_maker_sig(art, sats, spk) -> "INVALID"
           [] spk = NoValue                     -> "VALID (sig only)"
           [] OTHER                             -> "VALID open order"

\* Without offers just the plan, else one artifact for each lot.
order_lots(total, offers, pub, unitPrice, spk, group) ==
    LET ladder == lot_decomposition(total)
        arts == make_lots(pub, offers, unitPrice, spk, ladder, 8, group)
    IN  IF offers = NoValue THEN [ladder |-> ladder, lots |-> <<>>]
        ELSE IF Len(offers) # Len(ladder) THEN NoValue
        ELSE [ladder |-> ladder,
              lots |-> [i \in DOMAIN ladder |-> [units |-> ladder[i], artifact_hex |-> serialize_artifact(arts[i]),
                                                 payout |-> arts[i].price]]]

\* The orders a BRK server serves; the client may ask for one group.
client_orders(served, group) == SelectSeq(served, LAMBDA o : group = NoValue \/ o.group_id = group)

\* --from-api --offer: the first served order over the outpoint.
resolve_artifact_hex(served, outpoint) ==
    LET at == SelectInSeq(served, LAMBDA o : o.outpoint = outpoint)
    IN IF at = 0 THEN NoValue ELSE served[at].artifact_hex

\* The swap is built without a look at the signature.
swap_build(blob, sats, pay, takerSpk) ==
    LET art == IF blob = NoValue THEN NoValue ELSE parse_artifact(blob)
    IN IF art = NoValue THEN NoValue ELSE build_swap_from_artifact(art, sats, pay, takerSpk)

=============================================================================
