-------------------------------- MODULE Codec --------------------------------
(***************************************************************************)
(* An order on its way through the chain: the artifact and its two         *)
(* carriers (btx_0b.py, btx_carrier.py, btx_envelope_publish.py), how a    *)
(* reader finds it again (btx.py), the maker's signature in it, the swap   *)
(* that transplants the signature, lots and their summary, the BTX2        *)
(* envelope (btx_artifact_v2_demo.py) and the trade classifier             *)
(* (btx_trades.py).                                                        *)
(*                                                                         *)
(* Bytes are numbers; a field of fixed width is one byte, the magic too.   *)
(* A signature is the key and the message; a script is a list of opcodes,  *)
(* where a push has its length as opcode, so that the empty push is        *)
(* OP_FALSE.  NoValue stands for a parse that raises ValueError.           *)
(***************************************************************************)
EXTENDS Runestone

CONSTANTS Magic, Magic2,              \* BTX1 and BTX2
          OpReturn, OpIf, OpEndif, OpChecksig,
          Annex,                      \* 0x50, the first byte of an annex
          MaxChunk,                   \* 520: MAX_SCRIPT_ELEMENT_SIZE
          SAA,                        \* 0x83
          SwapFee                     \* 10000: the fee of the reference swap

\* Opcodes and the magic differ from each other and from the length of a push.
ASSUME CodecAssumption ==
    /\ {Magic, Magic2, OpReturn, OpIf, OpEndif, OpChecksig, Annex, SAA, SwapFee} \subseteq Nat
    /\ Cardinality({Magic, Magic2, OpReturn, OpIf, OpEndif, OpChecksig, Annex}) = 7
    /\ MaxChunk \in Nat \ {0}

-----------------------------------------------------------------------------
\* The artifact: magic, version, the fixed fields, then two strings, the
\* flag and the signature.  Version 1 has no group.

Fixed == <<"msg_type", "side", "rune_id", "amount", "price", "expiry", "group_id",
           "offer_txid", "offer_vout">>
FixedOf(ver) == IF ver >= 2 THEN Fixed ELSE SelectSeq(Fixed, LAMBDA f : f # "group_id")

Counted(bytes) == <<Len(bytes)>> \o bytes

serialize_artifact(a) ==
    <<Magic, 2>> \o [i \in DOMAIN Fixed |-> a[Fixed[i]]]
    \o Counted(a.payout_spk) \o Counted(a.maker_pubkey)
    \o <<a.sighash_flag>> \o Counted(a.maker_sig)

\* need: the counted string at o is there; the position after it.
Has(buf, o) == o <= Len(buf) /\ o + buf[o] <= Len(buf)
After(buf, o) == IF Has(buf, o) THEN o + buf[o] + 1 ELSE Len(buf) + 1
StringAt(buf, o) == SubSeq(buf, o + 1, o + buf[o])
IndexOf(f, fields) == SelectInSeq(fields, LAMBDA g : g = f)

ParsedFrom(buf, fields, spk, pub, sig) ==
    IF ~(Has(buf, spk) /\ Has(buf, pub) /\ Has(buf, sig)) THEN NoValue
    ELSE [ver |-> buf[2], payout_spk |-> StringAt(buf, spk), maker_pubkey |-> StringAt(buf, pub),
          sighash_flag |-> buf[sig - 1], maker_sig |-> StringAt(buf, sig)]
         @@ [f \in Range(Fixed) |-> LET i == IndexOf(f, fields) IN IF i = 0 THEN 0 ELSE buf[2 + i]]

Strings(buf, fields, spk, pub) == ParsedFrom(buf, fields, spk, pub, After(buf, pub) + 1)
StringsFrom(buf, fields, spk) == Strings(buf, fields, spk, After(buf, spk))

\* Bytes after the signature are ignored.
parse_artifact(buf) ==
    IF Len(buf) < 2 \/ buf[1] # Magic \/ Len(buf) < 2 + Len(FixedOf(buf[2])) THEN NoValue
    ELSE StringsFrom(buf, FixedOf(buf[2]), 3 + Len(FixedOf(buf[2])))

-----------------------------------------------------------------------------
\* Carriers.

Op(code) == [op |-> code, data |-> <<>>]
Push(bytes) == [op |-> Len(bytes), data |-> bytes]
OpFalse == Push(<<>>)
Raw(script) == FlattenSeq([i \in DOMAIN script |-> <<script[i].op>> \o script[i].data])

op_return_carrier(blob) == <<Op(OpReturn), Push(blob)>>

chunks(b) ==
    IF b = <<>> THEN <<b>>
    ELSE [i \in 1 .. (Len(b) + MaxChunk - 1) \div MaxChunk |->
            SubSeq(b, (i - 1) * MaxChunk + 1, Lesser(i * MaxChunk, Len(b)))]

envelope_tapscript(blob, internal) ==
    <<Push(<<internal>>), Op(OpChecksig), OpFalse, Op(OpIf)>>
    \o [i \in DOMAIN chunks(blob) |-> Push(chunks(blob)[i])] \o <<Op(OpEndif)>>

Collect(s, item) ==
    CASE s.state = "find" /\ item.op = OpFalse.op -> [s EXCEPT !.state = "false"]
      [] s.state = "false" -> [s EXCEPT !.state = IF item.op = OpIf THEN "in"
                                                  ELSE IF item.op = OpFalse.op THEN "false"
                                                  ELSE "find"]
      [] s.state = "in" /\ item.op = OpEndif -> [s EXCEPT !.state = "done"]
      [] s.state = "in" /\ item.op # OpEndif -> [s EXCEPT !.out = @ \o item.data]
      [] OTHER -> s

\* The payload of the first envelope; <<>> where the code returns None.
parse_envelope(script) == FoldLeft(Collect, [state |-> "find", out |-> <<>>], script).out

\* The witness of a reveal.
build_reveal_witness(blob, internal, sig, control) ==
    <<<<Push(sig)>>, envelope_tapscript(blob, internal), <<Push(control)>>>>

\* Mutant: an annex is taken for the control block.
LeafIndex_M(stack) == Len(stack) - 1

\* Only the leaf script is read, before the control block and any annex.
LeafIndex(stack) ==
    Len(stack) + 1 - IF Last(stack) # <<>> /\ Raw(Last(stack))[1] = Annex THEN 3 ELSE 2

Leaf(stack) == IF Len(stack) < 2 \/ LeafIndex(stack) < 1 THEN <<>> ELSE stack[LeafIndex(stack)]

FromMagic(b) ==
    LET pos == SelectInSeq(b, LAMBDA x : x = Magic)
    IN IF pos = 0 THEN NoValue ELSE parse_artifact(SubSeq(b, pos, Len(b)))

\* The artifacts of a transaction: outputs first, each with its index, then
\* envelopes with index -1.
extract_btx_from_tx(tx) ==
    SelectSeq([i \in DOMAIN tx.outs |-> [at |-> i - 1, art |-> FromMagic(Raw(tx.outs[i]))]]
              \o [i \in DOMAIN tx.wits |->
                    [at |-> -1, art |-> FromMagic(parse_envelope(Leaf(tx.wits[i])))]],
              LAMBDA found : found.art # NoValue)

-----------------------------------------------------------------------------
\* The maker's signature and the swap.

wpkh(pub) == <<0>> \o pub
Signed(pub, txid, vout, price, spk, flag, amount) ==
    pub \o <<txid, vout, price>> \o spk \o <<flag, amount>>

make_artifact(pub, offer, price, spk, units, expiry, group) ==
    [ver |-> 2, msg_type |-> 1, side |-> 0, rune_id |-> 1, amount |-> units, price |-> price,
     expiry |-> expiry, group_id |-> group, offer_txid |-> offer.txid, offer_vout |-> offer.vout,
     payout_spk |-> spk, maker_pubkey |-> pub, sighash_flag |-> SAA,
     maker_sig |-> Signed(pub, offer.txid, offer.vout, price, spk, SAA, offer.sats) \o <<SAA>>]

\* Without spk (NoValue) only the signature is checked, not who owns the offer.
verify_maker_sig(art, amount, spk) ==
    /\ spk # NoValue => spk = wpkh(art.maker_pubkey)
    /\ Front(art.maker_sig)
         = Signed(art.maker_pubkey, art.offer_txid, art.offer_vout, art.price,
                  art.payout_spk, art.sighash_flag, amount)

build_swap_from_artifact(art, offerSats, pay, takerSpk) ==
    LET value == offerSats + pay.sats - art.price - SwapFee
    IN IF value < Dust THEN NoValue
       ELSE [ins |-> <<[txid |-> art.offer_txid, vout |-> art.offer_vout],
                       [txid |-> pay.txid, vout |-> pay.vout]>>,
             outs |-> <<Pay(art.price, art.payout_spk), Pay(value, takerSpk)>>,
             wit0 |-> [sig |-> art.maker_sig, pub |-> art.maker_pubkey]]

\* What the chain requires of the maker's input: the signature covers this
\* input and the output opposite to it, and its key owns the offer.
MakerInputValid(tx, offer) ==
    /\ tx.ins[1] = [txid |-> offer.txid, vout |-> offer.vout]
    /\ offer.spk = wpkh(tx.wit0.pub)
    /\ tx.wit0.sig = Signed(tx.wit0.pub, offer.txid, offer.vout, tx.outs[1].sats,
                            tx.outs[1].spk, SAA, offer.sats) \o <<SAA>>

-----------------------------------------------------------------------------
\* Lots: a power of two for every bit of the total, one artifact each.

lot_decomposition(total) ==
    SelectSeq([i \in 1 .. total |-> 2 ^ (i - 1)], LAMBDA lot : (total \div lot) % 2 = 1)

make_lots(pub, offers, unitPrice, spk, ladder, expiry, group) ==
    [i \in DOMAIN ladder |->
        make_artifact(pub, offers[i], unitPrice * ladder[i], spk, ladder[i], expiry, group)]

\* cmd_book_summary for one group: every lot that is not filled counts as open.
Units(arts, group, chosen(_)) ==
    FoldLeft(LAMBDA sum, a : sum + IF a.group_id = group /\ chosen(a) THEN a.amount ELSE 0, 0, arts)
book_summary(arts, filled, group) ==
    LET isFilled(a) == <<a.offer_txid, a.offer_vout>> \in filled IN
    [total |-> Units(arts, group, LAMBDA a : TRUE), filled |-> Units(arts, group, isFilled),
     open |-> Units(arts, group, LAMBDA a : ~isFilled(a))]

-----------------------------------------------------------------------------
\* The BTX2 envelope: typed records with their lengths, and nothing after.

RecordTypes == 1 .. 3
serialize_envelope(records) ==
    IF \E i \in DOMAIN records : records[i].type \notin RecordTypes THEN NoValue
    ELSE <<Magic2, 2, Len(records)>>
         \o FlattenSeq([i \in DOMAIN records |-> <<records[i].type>> \o Counted(records[i].payload)])

Complete(p, buf) == p.ok /\ p.at = Len(buf) + 1

NextRecord(p, buf) ==
    IF ~p.ok \/ ~Has(buf, p.at + 1) THEN [p EXCEPT !.ok = FALSE]
    ELSE [p EXCEPT !.at = After(buf, p.at + 1),
                   !.out = Append(@, [type |-> buf[p.at], payload |-> StringAt(buf, p.at + 1)])]
ParsedRecords(p, buf) == IF Complete(p, buf) THEN p.out ELSE NoValue
parse_records(buf) ==
    IF Len(buf) < 3 \/ buf[1] # Magic2 THEN NoValue
    ELSE ParsedRecords(FoldLeft(LAMBDA p, i : NextRecord(p, buf), [ok |-> TRUE, at |-> 4, out |-> <<>>],
                                [i \in 1 .. buf[3] |-> i]), buf)

-----------------------------------------------------------------------------
\* The classifier.  A witness is [items, flag]: "wpkh" is a signature and a
\* key, "tr" one Schnorr signature, each with its sighash byte.

witness_is_single_anyonecanpay(w) == w.items \in {"wpkh", "tr"} /\ w.flag = SAA

classify_runes_trade(tx, witnesses) ==
    LET presigned == {i \in DOMAIN witnesses : witness_is_single_anyonecanpay(witnesses[i])}
        stone == StoneOf(tx)
        at(i) == IF i \in DOMAIN tx.outs THEN tx.outs[i] ELSE Pay(0, NoValue)
    IN IF stone = NoValue THEN {}
       ELSE {[id |-> <<e.blk, e.tx>>, amount |-> e.amount, btc_paid |-> at(i).sats,
              seller |-> at(i).spk, buyer |-> at(e.output + 1).spk] :
                i \in presigned, e \in Range(stone.edicts)}

=============================================================================
