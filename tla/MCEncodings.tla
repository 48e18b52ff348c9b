----------------------------- MODULE MCEncodings -----------------------------
(***************************************************************************)
(* Runestone, Codec, OrderTools, Commitments and Wire checked over bounded *)
(* inputs: each initial state is one input to one family of operators,     *)
(* each invariant what must hold of it.                                    *)
(***************************************************************************)
EXTENDS OrderTools, Commitments, Wire

VARIABLE probe

IDs == {<<1, 1>>, <<2, 1>>}
Edicts == [blk : 0 .. 2, tx : 0 .. 2, amount : {0, 2}, output : 0 .. 1]
\* Integers of a payload: tags known and unknown, flags, a delta too large.
Ints == {0, 1, 2, 4, 7, 8, 22, 24}
Stones == {<<Tag.body, 1, 1, a1, o1>> \o e \o p :
             a1 \in {0, 2}, o1 \in 0 .. 3, e \in {<<>>} \cup {<<b, 1, a, o>> : b \in {0, 1}, a \in {0, 1}, o \in 0 .. 4},
             p \in {<<>>}}
Pointed == {<<Tag.pointer, p>> \o s : p \in 0 .. 4, s \in Stones}
Shapes == {<<"maker", "taker", "return">>, <<"maker", "return", "taker">>, <<"return", "maker", "taker">>}
Balances == [IDs -> {0, 3}]

Swap(shape, ints) ==
    [ins |-> <<"offer", "fund">>,
     outs |-> [i \in 1 .. 3 |-> IF shape[i] = "return" THEN Return(Stone(ints)) ELSE Pay(Dust, shape[i])]]

Arts == [offer : {"x"}, sats : {2}, price : {1, 3}, spk : {"m"}, id : IDs \cup {<<0, 0>>}, amount : {0, 2}]

\* Orders: key 7 makes one over an outpoint it owns; artifacts ride either way,
\* with junk before them and an annex that carries another artifact.
Offer == [txid |-> 3, vout |-> 1, sats |-> 9, spk |-> wpkh(<<7>>)]
Made(price, spk) == make_artifact(<<7>>, Offer, price, spk, 2, 8, 1)
Blob(art) == serialize_artifact(art)
Prices == 1 .. 3
Spks == {<<>>, <<5, 6, 6>>}
Decoy == envelope_tapscript(serialize_artifact(Made(9, <<5>>)), 1)
Hidden == <<Op(Annex)>> \o Decoy
Junk == {<<>>, <<OpFalse>>, <<Op(OpReturn), Push(<<4>>)>>, <<OpFalse, Op(OpChecksig)>>}

Truncated(bytes, keep) == SubSeq(bytes, 1, Lesser(keep, Len(bytes)))

Published(probed) ==
    LET created == order_create(<<7>>, Offer, probed.price, probed.spk, 2)
        blob == Truncated(created.artifact_hex, probed.keep)
        stack == build_reveal_witness(blob, 1, <<1, 2>>, <<4>>)
    IN IF probed.carrier = "return"
       THEN [outs |-> <<<<OpFalse, Push(<<7>>)>>, op_return_carrier(blob)>>, wits |-> <<>>]
       ELSE [outs |-> <<<<OpFalse, Push(<<7>>)>>>>,
             wits |-> <<<<<<Push(<<1>>)>>, <<Push(<<2>>)>>>>,
                        [stack EXCEPT ![2] = probed.junk \o @] \o probed.tail>>]

\* Books: lists of up to four orders, an order twice too, in any sequence.
Levels == [rune : 0 .. 1, price : 1 .. 2, amount : {2}, announce_height : {1}, op : 1 .. 2, side : {0}]
Five == [i \in 1 .. 5 |-> [rune |-> 0, price |-> 1 + (i % 2), amount |-> i, announce_height |-> i \div 3,
                          op |-> i, side |-> IF i > 3 THEN 1 ELSE 0]]
Shuffles == {[i \in 1 .. n |-> Five[p[i]]] : p \in Permutations(1 .. 5), n \in 1 .. 5}
Lists == UNION {[1 .. k -> Levels] : k \in 0 .. 2} \cup Shuffles
         \cup {<<a, b, b>> : a, b \in Levels} \cup {<<a, b, b, b>> : a, b \in Levels}

\* Transactions whose scripts are around the first boundary of a size, and a
\* reference encoder of base58.
Script(n) == [k \in 1 .. n |-> k % Byte]
Transaction(ins, outs, locktime) ==
    [version |-> 1, locktime |-> locktime,
     ins |-> [i \in DOMAIN ins |-> [txid |-> i, vout |-> 2, sequence |-> 3, script |-> Script(ins[i])]],
     outs |-> [i \in DOMAIN outs |-> [sats |-> 4, spk |-> Script(outs[i])]]]
Sizes == {<<>>, <<0>>, <<4>>, <<5>>, <<6, 0>>, <<0, 5>>}
WithoutScripts(tx) == [tx EXCEPT !.ins = [i \in DOMAIN @ |-> [f \in {"txid", "vout", "sequence"} |-> @[i][f]]]]

InBase58(n) == IF n = 0 THEN <<>>
               ELSE LET width == Min({w \in 1 .. 9 : n < Digits ^ w})
                    IN [i \in 1 .. width |-> (n \div Digits ^ (width - i)) % Digits]
b58_encode(bytes) ==
    [i \in 1 .. LeadingOnes(bytes) |-> 0] \o InBase58(LittleEnd(Reverse(bytes)))
Strings3(set) == UNION {[1 .. k -> set] : k \in 0 .. 3}

Init ==
    \/ probe \in [kind : {"wire"}, ins : Sizes, outs : Sizes, locktime : {0, 3}, keep : 0 .. 45]
    \/ probe \in [kind : {"size"}, n : {Byte ^ 8 - 1} \cup UNION {k - 2 .. k + 1 : k \in {2, Byte - 3, Byte ^ 2, Byte ^ 4}}]
    \/ probe \in [kind : {"base58"}, bytes : Strings3(Bytes)]
    \/ probe \in [kind : {"base58 text"}, text : Strings3(0 .. Digits)]
    \/ probe \in [kind : {"groups"}, groups : UNION {[1 .. k -> 0 .. 2 ^ GroupBits - 1] : k \in 0 .. 5}]
    \/ probe \in [kind : {"contract"}, txid : [1 .. 3 -> {0, 5}], temporary : [1 .. 3 -> {2, 7}], index : {-1, 0, 1, 7, 8, 63, 64}]
    \/ probe \in [kind : {"address"}, hrp : {<<98, 99>>, <<116, 98>>}, witver : 1 .. 2,
                  program : UNION {[1 .. k -> {0, 255}] : k \in 1 .. 3}]
    \/ probe \in [kind : {"descriptor"}, key : [1 .. KeyDigits -> {3, 15}], checked : BOOLEAN]
    \/ probe \in [kind : {"psbt"}, key : Bytes, fingerprint : {0, 3}, size : 0 .. 8]
    \/ probe \in [kind : {"order"}, price : Prices, spk : Spks, carrier : {"return"}, keep : 0 .. 30,
                  junk : {<<>>}, tail : {<<>>}]
    \/ probe \in [kind : {"order"}, price : Prices, spk : Spks, carrier : {"envelope"}, keep : 0 .. 30,
                  junk : Junk, tail : {<<>>, <<Hidden>>}]
    \/ probe \in [kind : {"fill"}, price : Prices, spk : Spks, asked : Prices, sats : 8 .. 9, owner : 7 .. 8, pay : 0 .. 4]
    \/ probe \in [kind : {"maker"}, price : 0 .. U64Max + 1, spk : Spks, owner : 7 .. 8, rune : 0 .. 1, units : 0 .. 2,
                  held : {NoValue, 0, 2}, flag : {SAA, SAA + 1}]
    \/ probe \in [kind : {"lots"}, total : 1 .. 21, filled : SUBSET (1 .. 4)]
    \/ probe \in [kind : {"records"}, types : {<<>>, <<1>>, <<3, 2>>, <<4>>}, size : 0 .. 2, keep : 0 .. 12]
    \/ probe \in [kind : {"book"}, orders : Lists]
    \/ probe \in [kind : {"bytes"}, bytes : UNION {[1 .. k -> 0 .. 2 * Base - 1] : k \in 0 .. 4}]
    \/ probe \in [kind : {"edicts"}, edicts : UNION {[1 .. k -> Edicts] : k \in 0 .. 2}]
    \/ probe \in [kind : {"payload"}, ints : UNION {[1 .. k -> Ints] : k \in 0 .. 5}]
    \/ probe \in [kind : {"etching"}, rune : {0, 9}, divisibility : {0, 2}, spacers : {0, 1},
                  symbol : {NoValue, 0, 5}, premine : {0, 30}, terms : BOOLEAN, turbo : BOOLEAN,
                  amount : {0, 3}, cap : {1, 9}]
    \/ probe \in [kind : {"name"}, name : UNION {[1 .. k -> 0 .. Letters] : k \in 0 .. 5},
                  height : {NoValue} \cup 0 .. 20]
    \/ \E shape \in Shapes, ints \in Stones \cup Pointed, b \in Balances :
          probe = [kind |-> "tx", tx |-> Swap(shape, ints), balances |-> b]
    \/ probe \in [kind : {"batch"}, arts : UNION {[1 .. k -> Arts] : k \in 1 .. 2}, fund : {2, 6}]
    \/ probe \in [kind : {"rune4rune"}, idA : IDs, idB : IDs, a : 0 .. 2, b : 0 .. 2,
                  extra : 0 .. 1, offer : {2, 3}, fund : {2, 4, 7}]

Next == UNCHANGED probe
Spec == Init /\ [][Next]_probe

----------------------------------------------------------------------------
\* Bytes on the wire survive too: sizes at the boundaries of their widths,
\* transactions, bits in groups, base58, bech32 addresses, descriptors,
\* contract ids and PSBT fields.  No two texts decode to one value, and one
\* wrong character makes an address, or a descriptor with its checksum, wrong.
\* A transaction that is cut off is never read with more inputs or outputs
\* than it had.
WireRoundTrips ==
    /\ probe.kind = "size" =>
          read_varint(compact_size(probe.n) \o <<6>>, 1) = [n |-> probe.n, at |-> Len(compact_size(probe.n)) + 1]
    /\ probe.kind = "wire" =>
          LET tx == Transaction(probe.ins, probe.outs, probe.locktime)
              bytes == serialize(tx)
              read == parse_unsigned_tx(Truncated(bytes \o <<6>>, probe.keep))
          IN  IF probe.keep >= Len(bytes) THEN read = WithoutScripts(tx)
              ELSE read # Missing =>
                      /\ Len(read.ins) <= Len(tx.ins) /\ Len(read.outs) <= Len(tx.outs)
                      /\ read.locktime \in {0, tx.locktime}
    /\ probe.kind = "base58" =>
          /\ b58_decode(b58_encode(probe.bytes)) =
                probe.bytes \o IF Range(probe.bytes) \subseteq {0} THEN <<0>> ELSE <<>>
          /\ convertbits(convertbits(probe.bytes, ByteBits, GroupBits, TRUE), GroupBits, ByteBits, FALSE) = probe.bytes
    /\ probe.kind = "base58 text" =>
          LET bytes == b58_decode(probe.text)
          IN  bytes # Missing /\ ~(Range(probe.text) \subseteq {0}) => b58_encode(bytes) = probe.text
    /\ probe.kind = "groups" =>
          LET bytes == convertbits(probe.groups, GroupBits, ByteBits, FALSE)
          IN  bytes # Missing => convertbits(bytes, ByteBits, GroupBits, TRUE) = probe.groups
    /\ probe.kind = "contract" =>
          LET id(index) == contract_id(probe.txid, index, probe.temporary) IN
          IF probe.index \notin 0 .. Byte ^ 2 - 1 THEN id(probe.index) = Missing
          ELSE /\ contract_id(id(probe.index), probe.index, probe.temporary) = probe.txid
               /\ \A other \in 0 .. Byte ^ 2 - 1 : id(other) = id(probe.index) <=> other = probe.index
    /\ probe.kind = "address" =>
          LET addr == segwit_address(probe.witver, probe.program, probe.hrp)
              read(data) == decode_segwit_address([addr EXCEPT !.data = data], probe.hrp)
          IN  /\ read(addr.data) = IF Len(probe.program) = 1 THEN Missing
                                   ELSE [witver |-> probe.witver, program |-> probe.program]
              /\ decode_segwit_address(addr, Reverse(probe.hrp)) = Missing
              /\ \A i \in DOMAIN addr.data, symbol \in {0, 5, 31, 32} :
                    symbol # addr.data[i] => read([addr.data EXCEPT ![i] = symbol]) = Missing
    /\ probe.kind = "descriptor" =>
          LET d == tr_key_only_serialize(probe.key, probe.checked) IN
          /\ tr_key_only_parse(d) = probe.key /\ verify_checksum(d) = probe.checked
          /\ \A i \in DOMAIN d.body, index \in {1, 10, 20, 84, 73} :
                LET changed == [d EXCEPT !.body[i] = index] IN
                probe.checked /\ index # d.body[i] => tr_key_only_parse(changed) = Missing
          /\ \A i \in 1 .. 8, symbol \in {0, 31, 32} :
                probe.checked /\ symbol # d.checksum[i] =>
                    tr_key_only_parse([d EXCEPT !.checksum[i] = symbol]) = Missing
    /\ probe.kind = "psbt" =>
          LET path == Script(probe.size)
              fields == tr_key_only_psbt_input_fields(probe.key, probe.fingerprint, path)
              internal == encode_psbt_tap_internal_key_kv(probe.key)
              origin == encode_psbt_tap_bip32_derivation_kv(probe.key, probe.fingerprint, path)
          IN  IF probe.size % 4 # 0 THEN fields = Missing /\ origin = Missing
              ELSE LET leaves == read_varint(origin.value, 1) IN
                   /\ leaves.n = Len(fields.origins[1].leaves)
                   /\ Slice(origin.value, leaves.at, 1) = <<fields.origins[1].fingerprint>>
                   /\ SubSeq(origin.value, leaves.at + 1, Len(origin.value)) = fields.origins[1].path
                   /\ internal.value = <<fields.internal>> /\ internal.key # Front(origin.key)

\* Integers survive the encoder (leb128, runestone_spk, etching_payload) and
\* the decoder, and bytes on the wire theirs; a decoded varint fits u128; a
\* stone our encoders build is no cenotaph unless its supply overflows; the
\* minimal indexer of btx_runes.py credits what the allocator does as long as
\* the edicts share a block.  An unknown even tag, or one without its value,
\* always makes a cenotaph.
RoundTrips ==
    /\ WireRoundTrips
    /\ probe.kind = "bytes" =>
          LET d == leb128_decode_all(probe.bytes) IN
          /\ \A i \in DOMAIN d.vals : d.vals[i] <= U128Max
          /\ d.ok => leb128_decode_all(Encode(d.vals)) = d /\ loose_leb128_decode_all(probe.bytes) = d.vals
    /\ probe.kind = "edicts" =>
          LET s == runestone_spk(probe.edicts)
              d == decode_runestone(s)
              bal == [id \in IDs |-> 3]
          IN  /\ d.edicts = Sorted(probe.edicts) /\ ~d.cenotaph /\ d.pointer = NoValue
              /\ (\A i \in DOMAIN probe.edicts : probe.edicts[i].blk = 2) =>
                    verify(leb128_decode_all(s[1].bytes).vals, 3, bal).out
                      = allocate_runes(d.edicts, bal, 3, {2}, 2)
    /\ probe.kind = "etching" =>
          LET tx == build_etch_reveal(probe, [outpoint |-> "commit", sats |-> Dust + 1], "p", 1)
              d == StoneOf(tx)
          IN
          /\ Head(Real(2, Returns(tx))) = 0 /\ tx.outs[1] = Pay(Dust, "p")
          /\ \A n \in 0 .. 20 : rune_commitment[n] = tx.pushed => n = probe.rune
          /\ \A f \in {"rune", "premine", "divisibility", "spacers", "symbol"} :
                d.etching[f] = probe[f]
          /\ d.cenotaph <=> probe.premine + (IF probe.terms THEN probe.amount * probe.cap ELSE 0) > U128Max
    /\ probe.kind = "payload" =>
          LET ints == probe.ints
              d == decode_payload(Encode(ints))
              unknown(i) == i % 2 = 1 /\ ints[i] = 24 /\ \A j \in 1 .. i : j % 2 = 1 => ints[j] # Tag.body
          IN  /\ (\E i \in 1 .. Len(ints) : unknown(i)) => d.cenotaph
              /\ \A i \in DOMAIN d.edicts : d.edicts[i].blk <= U64Max /\ d.edicts[i].tx <= U32Max

\* A name that may be etched at a height may be etched at every later one,
\* so that the blocks between etch and reveal never make it a cenotaph; the
\* names and the numbers correspond.
NamesUnlockForGood ==
    probe.kind = "name" =>
        /\ validate_name(probe.name, probe.height) =>
              /\ rune_name(rune_number(probe.name)) = probe.name
              /\ validate_name(probe.name, NoValue)
              /\ probe.height # NoValue => validate_name(probe.name, probe.height + 1)
        /\ probe.height # NoValue => minimum_at_height(probe.height) \in 0 .. Step(Unlocked)

\* The allocator neither makes nor moves units that ord would not: whatever
\* the edicts and the pointer of a stone that is no cenotaph.  What the
\* maker's check accepts, ord pays: the tx cannot be confirmed and give
\* output 0 less than the amount agreed.
VerifyIsSound ==
    probe.kind = "tx" =>
        LET tx == probe.tx
            stone == StoneOf(tx)
            n == Len(tx.outs)
        IN  /\ ~stone.cenotaph /\ ~OutOfRange(stone, n) =>
                  LET out == allocate_runes(stone.edicts, probe.balances, n, Returns(tx), stone.pointer) IN
                  \A id \in IDs :
                     /\ \A o \in (0 .. n - 1) \ Returns(tx) : out[o][id] = OrdUnits(tx, probe.balances, o, id)
                     /\ out[0][id] + out[1][id] + out[2][id] <= probe.balances[id]
            /\ \A id \in IDs, amount \in 1 .. 3 :
                  verify_addressed_rune_tx(tx, "offer", "maker", id, amount, probe.balances)
                     => OrdUnits(tx, probe.balances, 0, id) >= amount

\* What our builders build, the counterparty's check accepts and ord routes
\* as promised: every payout opposite its offer (SIGHASH_SINGLE), every
\* offered unit to the taker, the agreed units of B to the maker and the
\* rest of B back to the taker.  The classifier sees the batch as trades of
\* its sellers with that taker.
SwapsDeliver ==
    /\ probe.kind = "batch" =>
          LET arts == probe.arts
              n == Len(arts)
              tx == build_batch_taker_swap_unsigned(arts, [outpoint |-> "f", sats |-> probe.fund], "t", 1)
              units(id) == FoldLeft(LAMBDA s, a : s + IF a.id = id THEN a.amount ELSE 0, 0, arts)
              bal == [id \in IDs |-> units(id)]
              trades(t) == classify_runes_trade(t, [i \in 1 .. n + 1 |->
                              [items |-> "wpkh", flag |-> IF i <= n THEN SAA ELSE SAA + 1]])
          IN  tx # NoValue =>
                 /\ \A i \in 1 .. n : tx.ins[i] = arts[i].offer /\ tx.outs[i] = Pay(arts[i].price, arts[i].spk)
                 /\ \A id \in IDs : OrdUnits(tx, bal, n, id) = units(id)
                 /\ \A t \in trades(tx) : t.buyer = "t" /\ t.id # <<0, 0>>
                        /\ \E i \in 1 .. n : t.seller = arts[i].spk /\ t.btc_paid = arts[i].price
                 /\ n = 1 /\ arts[1].id \in IDs /\ arts[1].amount > 0 =>
                       trades(tx) = {[id |-> arts[1].id, amount |-> arts[1].amount, btc_paid |-> arts[1].price,
                                      seller |-> arts[1].spk, buyer |-> "t"]}
    /\ probe.kind = "rune4rune" /\ probe.b > 0 =>
          LET tx == build([outpoint |-> "offer", sats |-> probe.offer], [outpoint |-> "fund", sats |-> probe.fund],
                          1, 1, probe.idB, probe.b)
              bal == [id \in IDs |-> IF id = probe.idB THEN probe.b ELSE 0]
              ints == loose_leb128_decode_all(tx.outs[3].script[1].bytes)
          IN  /\ OrdUnits(tx, bal, 1, probe.idB) = probe.b
              /\ verify(ints, 3, bal).out[1] = bal
    /\ probe.kind = "rune4rune" =>
          LET tx == build_addressed_rune_swap_unsigned([outpoint |-> "offer", sats |-> probe.offer],
                       [outpoint |-> "fund", sats |-> probe.fund], "maker", "taker",
                       probe.idA, probe.a, probe.idB, probe.b, 1)
              bal == [id \in IDs |-> (IF id = probe.idA THEN probe.a ELSE 0)
                                      + (IF id = probe.idB THEN probe.b + probe.extra ELSE 0)]
          IN  tx # NoValue =>
                 /\ verify_addressed_rune_tx(tx, "offer", "maker", probe.idB, probe.b, bal)
                 /\ OrdUnits(tx, bal, 0, probe.idB) = probe.b
                 /\ \A id \in IDs : OrdUnits(tx, bal, 1, id) = bal[id] - IF id = probe.idB THEN probe.b ELSE 0

\* What a maker publishes is what every reader finds, in either carrier and
\* behind whatever precedes the envelope, and nothing is found in an annex,
\* in a control block or in an artifact with its end cut off.  The artifact's
\* signature answers for the outpoint, its amount and owner, the price and
\* the payout, and its swap is valid; so do those of the commands that make,
\* publish, recover, look up and fill an order.  Lots and records lose nothing.
OrdersSurvive ==
    /\ probe.kind = "order" =>
          LET art == Made(probe.price, probe.spk)
              whole == probe.keep >= Len(serialize_artifact(art))
              found == extract_btx_from_tx(Published(probe))
          IN  found = IF whole THEN <<[at |-> IF probe.carrier = "return" THEN 1 ELSE -1, art |-> art]>>
                      ELSE <<>>
    /\ probe.kind = "fill" =>
          LET art == [Made(probe.price, probe.spk) EXCEPT !.price = probe.asked]
              swap == build_swap_from_artifact(art, probe.sats, [txid |-> 4, vout |-> 0, sats |-> probe.pay], <<5>>)
              ok == verify_maker_sig(art, probe.sats, wpkh(<<probe.owner>>))
          IN  /\ ok <=> probe.asked = probe.price /\ probe.sats = Offer.sats /\ probe.owner = 7
              /\ ok /\ swap # NoValue =>
                    /\ MakerInputValid(swap, Offer)
                    /\ swap.outs[1].sats + swap.outs[2].sats + SwapFee = probe.sats + probe.pay
    /\ probe.kind = "maker" =>
          LET offer == [Offer EXCEPT !.spk = wpkh(<<probe.owner>>)]
              made == maker_sign(<<7>>, offer, probe.price, probe.spk, probe.rune, probe.units, probe.held, probe.flag)
              seen == order_inspect(made.artifact_hex)
              served == [txid \in 1 .. 3 |-> [outpoint |-> <<txid, 1>>, group_id |-> 1,
                            artifact_hex |-> IF txid = 3 THEN made.artifact_hex ELSE Blob(Made(txid, <<5>>))]]
              found == resolve_artifact_hex(client_orders(served, 1), seen.offer_outpoint)
              commit == publish_commit(made.artifact_hex, 1, 9)
              reveal == publish_reveal(commit.state, 1)
          IN  made # NoValue =>
                 /\ made.self_verifies
                 /\ order_verify(made.artifact_hex, offer.sats, offer.spk) = "VALID open order"
                 /\ <<seen.price_sats, seen.payout_spk, seen.amount_units>> = <<probe.price, probe.spk, probe.units>>
                 /\ probe.rune = 1 /\ probe.held # NoValue => seen.amount_units \in {0, probe.held}
                 /\ MakerInputValid(swap_build(found, offer.sats, [txid |-> 4, vout |-> 0, sats |-> 20], <<5>>), offer)
                 /\ Leaf(reveal.wits[1]) = commit.script
                 /\ extract_btx_from_tx(reveal) = <<[at |-> -1, art |-> parse_artifact(made.artifact_hex)]>>
    /\ probe.kind = "lots" =>
          LET ladder == lot_decomposition(probe.total)
              offers == [i \in DOMAIN ladder |-> [txid |-> i, vout |-> 0, sats |-> 9]]
              lots == order_lots(probe.total, offers, <<7>>, 3, <<5>>, 1).lots
              book == book_summary([i \in DOMAIN lots |-> parse_artifact(lots[i].artifact_hex)], probe.filled \X {0}, 1)
          IN  /\ order_lots(probe.total, Tail(offers), <<7>>, 3, <<5>>, 1) = NoValue
              /\ book.total = probe.total /\ book.filled + book.open = probe.total
              /\ \A i, j \in DOMAIN ladder : i < j => 2 * ladder[i] <= ladder[j]
    /\ probe.kind = "records" =>
          LET records == [i \in DOMAIN probe.types |-> [type |-> probe.types[i], payload |-> [k \in 1 .. probe.size |-> k]]]
              bytes == serialize_envelope(records)
          IN  bytes # NoValue =>
                parse_records(Truncated(bytes \o <<9>>, probe.keep)) = IF probe.keep = Len(bytes) THEN records ELSE NoValue

\* A root stands for one book: two lists have the same root exactly when they
\* hold the same lines, in whatever order they arrived.  Each order's proof
\* leads to it, and the proof of no other order, nor of that order changed.
\* The depth of the book is what there is to buy at a price or better.
RootsBindTheBook ==
    probe.kind = "book" =>
        LET orders == probe.orders
            root == book_root(orders)
        IN  /\ \A other \in {orders \o <<o>> : o \in Range(orders)} \cup {Reverse(orders)}
                              \cup (IF orders = <<>> THEN {} ELSE {Front(orders)}) :
                    book_root(other) = root <=> book_hash(other) = book_hash(orders)
            /\ \A j \in DOMAIN orders :
                    LET proof == merkle_prove(orders, orders[j].op) IN
                    \A i \in DOMAIN orders :
                    /\ merkle_verify([orders[i] EXCEPT !.amount = @ + 1], proof, root) = FALSE
                    /\ IsInjective([k \in DOMAIN orders |-> orders[k].op]) =>
                          (merkle_verify(orders[i], proof, root) <=> i = j)
            /\ \A rune \in 0 .. 1 :
                    LET book == build_book(orders, rune)
                        better(o, side) == SelectSeq(orders, LAMBDA p :
                            /\ p.rune = rune /\ p.side = side
                            /\ IF side = 0 THEN p.price < o.price ELSE p.price > o.price)
                        size(s) == FoldLeft(LAMBDA n, p : n + p.amount, 0, s)
                        sound(levels, side) ==
                            \A k \in DOMAIN levels :
                                /\ levels[k].total >= size(better(levels[k].order, side)) + levels[k].order.amount
                                /\ k = Len(levels) => levels[k].total = size(Side(orders, rune, side))
                    IN  sound(book.asks, 0) /\ sound(book.bids, 1)

=============================================================================
