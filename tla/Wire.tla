-------------------------------- MODULE Wire --------------------------------
(***************************************************************************)
(* Bytes as they are on the wire: sizes, strings and transactions          *)
(* (btx_bip322.py, btx_taproot.py), bits in groups, base58 and bech32      *)
(* (btx_bip322.py, btx_taproot.py), descriptors and the PSBT fields of a   *)
(* tr(K) input (btx_descriptor.py), the id of a DLC (btx_dlc_oracle.py).   *)
(*                                                                         *)
(* A byte has ByteBits bits, so that each width of a size takes few bytes; *)
(* a field of fixed width is one byte.  Missing stands for an exception.   *)
(***************************************************************************)
EXTENDS Integers, Sequences, SequencesExt, Functions

CONSTANTS ByteBits, GroupBits,    \* 8 and 5
          Digits,                 \* 58: the characters of base58
          KeyDigits,              \* 64: the hex digits of a key
          Missing                 \* what no byte is: an exception

\* The three highest bytes announce a size of two, four or eight bytes.
ASSUME WireAssumption ==
    /\ ByteBits \in Nat \ {0, 1} /\ GroupBits \in 1 .. ByteBits - 1
    /\ Digits \in Nat \ {0, 1} /\ KeyDigits \in Nat \ {0} /\ Missing \notin Nat

Byte == 2 ^ ByteBits
Bytes == 0 .. Byte - 1

-----------------------------------------------------------------------------
\* Numbers of given width, little and big end first.

LittleEnd(bytes) == FoldRight(LAMBDA b, n : n * Byte + b, bytes, 0)
to_bytes(n, width) == [i \in 1 .. width |-> (n \div Byte ^ (i - 1)) % Byte]

\* Python's slice: what there is of the bytes from at.
Slice(buf, at, width) == SubSeq(buf, at, Min({at + width - 1, Len(buf)}))

compact_size(n) ==
    CASE n < Byte - 3                  -> <<n>>
      [] n >= Byte - 3 /\ n < Byte ^ 2 -> <<Byte - 3>> \o to_bytes(n, 2)
      [] n >= Byte ^ 2 /\ n < Byte ^ 4 -> <<Byte - 2>> \o to_bytes(n, 4)
      [] OTHER                         -> <<Byte - 1>> \o to_bytes(n, 8)
ser_string(bytes) == compact_size(Len(bytes)) \o bytes

\* The number and the position after it, past the end too.
read_varint(buf, at) ==
    IF at > Len(buf) THEN Missing
    ELSE IF buf[at] < Byte - 3 THEN [n |-> buf[at], at |-> at + 1]
    ELSE LET width == 2 ^ (buf[at] - (Byte - 4))
         IN [n |-> LittleEnd(Slice(buf, at + 1, width)), at |-> at + 1 + width]

-----------------------------------------------------------------------------
\* A transaction without witnesses: version, inputs, outputs, locktime.

serialize(tx) ==
    <<tx.version>>
    \o compact_size(Len(tx.ins)) \o FlattenSeq([i \in DOMAIN tx.ins |->
           <<tx.ins[i].txid, tx.ins[i].vout>> \o ser_string(tx.ins[i].script) \o <<tx.ins[i].sequence>>])
    \o compact_size(Len(tx.outs)) \o FlattenSeq([i \in DOMAIN tx.outs |->
           <<tx.outs[i].sats>> \o ser_string(tx.outs[i].spk)])
    \o <<tx.locktime>>

\* A field that is cut off reads as zero.
FixedField(buf, at) == LittleEnd(Slice(buf, at, 1))

\* A count above the length of the buffer is refused before the loop.
ReadCount(buf, at) ==
    LET count == read_varint(buf, at) IN IF count = Missing \/ count.n > Len(buf) THEN Missing ELSE count

\* read: where the last item ended (Missing after an exception), and the items.
ReadInput(buf, read) ==
    LET script == IF read.at = Missing THEN Missing ELSE read_varint(buf, read.at + 2)
    IN IF script = Missing THEN [read EXCEPT !.at = Missing]
       ELSE [at |-> script.at + script.n + 1,
             items |-> Append(read.items, [txid |-> FixedField(buf, read.at), vout |-> FixedField(buf, read.at + 1),
                                           sequence |-> FixedField(buf, script.at + script.n)])]

ReadOutput(buf, read) ==
    LET script == IF read.at = Missing THEN Missing ELSE read_varint(buf, read.at + 1)
    IN IF script = Missing THEN [read EXCEPT !.at = Missing]
       ELSE [at |-> script.at + script.n,
             items |-> Append(read.items, [sats |-> FixedField(buf, read.at), spk |-> Slice(buf, script.at, script.n)])]

ReadItems(buf, at, Read(_, _)) ==
    LET count == IF at = Missing THEN Missing ELSE ReadCount(buf, at)
    IN IF count = Missing THEN [at |-> Missing, items |-> <<>>]
       ELSE FoldLeft(LAMBDA read, i : Read(buf, read), [at |-> count.at, items |-> <<>>], [i \in 1 .. count.n |-> i])

\* What follows the locktime is ignored.
parse_unsigned_tx(buf) ==
    LET ins == ReadItems(buf, 2, ReadInput)
        outs == ReadItems(buf, ins.at, ReadOutput)
    IN IF outs.at = Missing THEN Missing
       ELSE [version |-> FixedField(buf, 1), ins |-> ins.items, outs |-> outs.items, locktime |-> FixedField(buf, outs.at)]

-----------------------------------------------------------------------------
\* Groups of bits, most significant first.

BitsOf(data, width) ==
    FlattenSeq([i \in DOMAIN data |-> [j \in 1 .. width |-> (data[i] \div 2 ^ (width - j)) % 2]])
Binary(bits) == FoldLeft(LAMBDA n, b : 2 * n + b, 0, bits)

Regroup(bits, whole, from, to, pad) ==
    LET groups == [k \in 1 .. whole |-> Binary(SubSeq(bits, (k - 1) * to + 1, k * to))]
        rest == SubSeq(bits, whole * to + 1, Len(bits))
    IN IF pad THEN groups \o (IF rest = <<>> THEN <<>> ELSE <<Binary(rest) * 2 ^ (to - Len(rest))>>)
       ELSE IF Len(rest) >= from \/ Binary(rest) # 0 THEN Missing
       ELSE groups

\* Missing is the decoder's None: a whole group of padding, or padding that
\* is not zero.
convertbits(data, from, to, pad) ==
    Regroup(BitsOf(data, from), (Len(data) * from) \div to, from, to, pad)

\* Big end first; at least one byte, then one more for every leading "1".
BigEnd(n) == Reverse(to_bytes(n, Max({1} \cup {w \in 1 .. 8 : n >= Byte ^ (w - 1)})))
LeadingOnes(s) == Min({i \in 1 .. Len(s) + 1 : i = Len(s) + 1 \/ s[i] # 0}) - 1

b58_decode(s) ==
    IF \E i \in DOMAIN s : s[i] >= Digits THEN Missing
    ELSE [i \in 1 .. LeadingOnes(s) |-> 0] \o BigEnd(FoldLeft(LAMBDA n, d : n * Digits + d, 0, s))

-----------------------------------------------------------------------------
\* Checksums.  Here a byte has eight bits and a symbol five, as in the code:
\* a polynomial is the sequence of its symbols.

Exclusive == [width \in {ByteBits, 5} |-> [a, b \in 0 .. 2 ^ width - 1 |->
                 Binary([j \in 1 .. width |-> (BitsOf(<<a>>, width)[j] + BitsOf(<<b>>, width)[j]) % 2])]]
Xor(a, b, width) == [i \in DOMAIN a |-> Exclusive[width][a[i], b[i]]]

\* Shift by one symbol; add generator i when bit i - 1 of the one that falls
\* out is set.
Shifted(generators, c, value) ==
    FoldLeft(LAMBDA sum, i : IF (c[1] \div 2 ^ (i - 1)) % 2 = 0 THEN sum ELSE Xor(sum, generators[i], 5),
             Append(Tail(c), value), <<1, 2, 3, 4, 5>>)
Polymod(generators, values) ==
    FoldLeft(LAMBDA c, v : Shifted(generators, c, v),
             [i \in DOMAIN generators[1] |-> IF i = Len(generators[1]) THEN 1 ELSE 0], values)

bech32_polymod(values) ==
    Polymod(<<<<29, 22, 20, 21, 29, 18>>, <<19, 5, 1, 3, 19, 13>>, <<15, 10, 2, 6, 15, 26>>,
              <<30, 20, 4, 12, 30, 29>>, <<21, 1, 8, 24, 21, 19>>>>, values)
BECH32M_CONST == <<21, 28, 16, 12, 5, 3>>
Bech32Const(witver) == IF witver = 0 THEN <<0, 0, 0, 0, 0, 1>> ELSE BECH32M_CONST
hrp_expand(hrp) == [i \in DOMAIN hrp |-> hrp[i] \div 32] \o <<0>> \o [i \in DOMAIN hrp |-> hrp[i] % 32]

\* An address is its prefix and its symbols; 32 stands for a character that
\* is no symbol.  The writer uses bech32m whatever the version.
segwit_address(witver, program, hrp) ==
    LET data == <<witver>> \o convertbits(program, 8, 5, TRUE)
        poly == bech32_polymod(hrp_expand(hrp) \o data \o <<0, 0, 0, 0, 0, 0>>)
    IN [hrp |-> hrp, data |-> data \o Xor(poly, BECH32M_CONST, 5)]

ProgramFits(witver, program) ==
    program # Missing /\ Len(program) \in 2 .. 40 /\ (witver = 0 => Len(program) \in {20, 32})

decode_segwit_address(addr, hrp) ==
    LET data == addr.data
        program == convertbits(SubSeq(data, 2, Len(data) - 6), 5, 8, FALSE)
    IN IF \/ addr.hrp # hrp \/ 32 \in Range(data) \/ Len(data) < 6
          \/ bech32_polymod(hrp_expand(hrp) \o data) # Bech32Const(data[1])
          \/ ~ProgramFits(data[1], program)
       THEN Missing ELSE [witver |-> data[1], program |-> program]

\* A descriptor's body is the positions of its characters in INPUT_CHARSET;
\* the high bits of three of them make one more symbol.
descriptor_polymod(values) ==
    Polymod(<<<<30, 23, 15, 14, 10, 6, 12, 9>>, <<21, 7, 30, 28, 20, 12, 24, 18>>, <<3, 14, 21, 17, 1, 24, 25, 13>>,
              <<6, 28, 3, 11, 2, 25, 27, 26>>, <<12, 17, 6, 22, 4, 27, 31, 29>>>>, values)

Folded(s, index) ==
    LET cls == s.cls * 3 + index \div 32 IN
    IF s.count < 2 THEN [values |-> Append(s.values, index % 32), cls |-> cls, count |-> s.count + 1]
    ELSE [values |-> s.values \o <<index % 32, cls>>, cls |-> 0, count |-> 0]
Unfolded(s) == IF s.count = 0 THEN s.values ELSE Append(s.values, s.cls)

descriptor_checksum(body) ==
    Xor(descriptor_polymod(Unfolded(FoldLeft(Folded, [values |-> <<>>, cls |-> 0, count |-> 0], body))
                           \o <<0, 0, 0, 0, 0, 0, 0, 0>>), <<0, 0, 0, 0, 0, 0, 0, 1>>, 5)
with_checksum(body) == [body |-> body, checksum |-> descriptor_checksum(body)]

\* Missing as checksum: the text has no "#".
split_checksum(d) ==
    IF d.checksum # Missing /\ (Len(d.checksum) # 8 \/ 32 \in Range(d.checksum)) THEN Missing ELSE d
verify_checksum(d) == d.checksum # Missing /\ split_checksum(d) # Missing /\ descriptor_checksum(d.body) = d.checksum

\* "tr(", the key in hex, ")".  Capitals are read but never written.
HexAt == [h \in 0 .. 15 |-> {IF h < 10 THEN h ELSE 8 + h, IF h < 10 THEN h ELSE 72 + h}]
tr_key_only_serialize(key, withChecksum) ==
    LET body == <<75, 73, 10>> \o [i \in DOMAIN key |-> Min(HexAt[key[i]])] \o <<11>>
    IN IF withChecksum THEN with_checksum(body) ELSE [body |-> body, checksum |-> Missing]

IsTrKey(body) ==
    /\ Len(body) = KeyDigits + 4 /\ SubSeq(body, 1, 3) = <<75, 73, 10>> /\ Last(body) = 11
    /\ \A i \in 4 .. KeyDigits + 3 : \E h \in 0 .. 15 : body[i] \in HexAt[h]

tr_key_only_parse(d) ==
    IF \/ split_checksum(d) = Missing
       \/ d.checksum # Missing /\ ~verify_checksum(d)
       \/ ~IsTrKey(d.body)
    THEN Missing
    ELSE [i \in 1 .. KeyDigits |-> CHOOSE h \in 0 .. 15 : d.body[i + 3] \in HexAt[h]]

-----------------------------------------------------------------------------
\* BIP371 fields of the key path, and the DLC's identifier.

PSBT_IN_TAP_BIP32_DERIVATION == 22
PSBT_IN_TAP_INTERNAL_KEY == 23

\* A path is four bytes for each child.
tr_key_only_psbt_input_fields(key, fingerprint, path) ==
    IF Len(path) % 4 # 0 THEN Missing
    ELSE [internal |-> key, origins |-> <<[key |-> key, leaves |-> <<>>, fingerprint |-> fingerprint, path |-> path]>>]

encode_psbt_tap_internal_key_kv(key) == [key |-> <<PSBT_IN_TAP_INTERNAL_KEY>>, value |-> <<key>>]
encode_psbt_tap_bip32_derivation_kv(key, fingerprint, path) ==
    IF Len(path) % 4 # 0 THEN Missing
    ELSE [key |-> <<PSBT_IN_TAP_BIP32_DERIVATION, key>>, value |-> <<0, fingerprint>> \o path]

\* The last two bytes take the output's index, big end first.
contract_id(txid, index, temporary) ==
    IF index < 0 \/ index >= Byte ^ 2 THEN Missing
    ELSE LET last == Len(txid)
             xored == Xor(txid, temporary, ByteBits)
         IN Xor(xored, [i \in 1 .. last |-> CASE i = last     -> index % Byte
                                              [] i = last - 1 -> index \div Byte
                                              [] OTHER        -> 0], ByteBits)

=============================================================================
