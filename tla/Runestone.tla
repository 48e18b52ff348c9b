----------------------------- MODULE Runestone -----------------------------
(***************************************************************************)
(* Runestones: how btx_runes.py and btx_etch.py encode them, how           *)
(* btx_runes_decode.py decodes any of them and when it calls one a         *)
(* cenotaph, how btx_rune_swap.py and btx_wallet.py route units with them  *)
(* and verify what the other side routed, and which names btx_etch.py      *)
(* lets an etching have.  The code works with 7-bit LEB128 digits, u128,   *)
(* u64 and u32 and 26 letters; here the widths are parameters.             *)
(*                                                                         *)
(* A script is the list of what follows OP_RETURN OP_13: pushes with their *)
(* bytes, or an opcode or a truncated push that ends the parse.  Outputs   *)
(* are numbered from 0, as in the code.                                    *)
(***************************************************************************)
EXTENDS Integers, Sequences, FiniteSets, Functions, SequencesExt

CONSTANTS
    Bits, Width,      \* 7 and 128: bits of a varint byte, bits of an integer
    U64Max, U32Max,   \* ranges of a rune id's block and transaction index
    Letters,          \* 26
    Unlocked,         \* 12: RUNE_UNLOCKED, the names that unlock step by step
    Interval,         \* 17500: RUNE_UNLOCK_INTERVAL
    FirstHeight,      \* first_rune_height of the network
    Reserved,         \* letters of the first reserved name, 27
    Dust, NoValue     \* 546; no pointer, no etching

ASSUME RunestoneAssumption ==
    /\ {Bits, Width, U64Max, U32Max, Letters, Unlocked, Interval, Dust} \subseteq Nat \ {0}
    /\ FirstHeight \in Nat /\ Reserved \in Nat

Base == 2 ^ Bits
U128Max == 2 ^ Width - 1

----------------------------------------------------------------------------
\* Varints.  A byte is a digit below Base, plus Base when more follow.

leb128[n \in Nat] ==
    IF n < Base THEN <<n>> ELSE <<Base + (n % Base)>> \o leb128[n \div Base]

Encode(ints) == FlattenSeq([i \in DOMAIN ints |-> leb128[ints[i]]])

\* Mutant: the last byte of a varint is not checked against u128.
Digit_M(a, b) ==
    IF ~a.ok THEN a
    ELSE IF b >= Base
         THEN [a EXCEPT !.n = @ + (b % Base) * 2 ^ a.shift, !.shift = @ + Bits, !.open = TRUE,
                        !.ok = a.shift + Bits < Width]
         ELSE [a EXCEPT !.vals = Append(@, a.n + b * 2 ^ a.shift), !.n = 0, !.shift = 0,
                        !.open = FALSE]

Digit(a, b) ==
    LET n == a.n + (b % Base) * 2 ^ a.shift IN
    IF ~a.ok THEN a
    ELSE IF b >= Base
         THEN [a EXCEPT !.n = n, !.shift = @ + Bits, !.open = TRUE,
                        !.ok = a.shift + Bits < Width]
         ELSE IF n > U128Max THEN [a EXCEPT !.ok = FALSE]
         ELSE [a EXCEPT !.vals = Append(@, n), !.n = 0, !.shift = 0, !.open = FALSE]

Whole(end) == [vals |-> end.vals, ok |-> end.ok /\ ~end.open]
leb128_decode_all(bytes) ==
    Whole(FoldLeft(Digit, [vals |-> <<>>, n |-> 0, shift |-> 0, open |-> FALSE, ok |-> TRUE], bytes))

\* btx_runes.py decodes with neither the width nor an error for a varint that
\* is left open.
LooseDigit(a, b) ==
    LET n == a.n + (b % Base) * 2 ^ a.shift IN
    IF b >= Base THEN [a EXCEPT !.n = n, !.shift = @ + Bits]
    ELSE [vals |-> Append(a.vals, n), n |-> 0, shift |-> 0]
loose_leb128_decode_all(bytes) == FoldLeft(LooseDigit, [vals |-> <<>>, n |-> 0, shift |-> 0], bytes).vals

----------------------------------------------------------------------------
\* Decoding.

\* Only pushes may follow OP_13; their bytes are concatenated.
Payload(script, bad) ==
    [payload |-> FlattenSeq([i \in 1 .. (IF bad = 0 THEN Len(script) ELSE bad - 1) |-> script[i].bytes]),
     cenotaph |-> bad # 0]
extract_payload(script) == Payload(script, SelectInSeq(script, LAMBDA item : item.kind # "push"))

Tag == [body |-> 0, divisibility |-> 1, flags |-> 2, spacers |-> 3, rune |-> 4, symbol |-> 5,
        premine |-> 6, cap |-> 8, amount |-> 10, heightStart |-> 12, heightEnd |-> 14,
        offsetStart |-> 16, offsetEnd |-> 18, mint |-> 20, pointer |-> 22, nop |-> 127]

\* Rune ids are delta encoded: a block delta of 0 continues the block, else
\* the transaction index is absolute (ord's RuneId::next).
IdOverflow(blk, txi, h, t) ==
    h > U64Max \/ blk + h > U64Max \/ t > U32Max \/ (h = 0 /\ txi + t > U32Max)

Edict(a, e) ==
    LET blk == a.blk + e[1]
        txi == IF e[1] = 0 THEN a.txi + e[2] ELSE e[2]
    IN  IF a.bad THEN a
        ELSE IF IdOverflow(a.blk, a.txi, e[1], e[2]) THEN [a EXCEPT !.bad = TRUE]
        ELSE [a EXCEPT !.blk = blk, !.txi = txi,
                       !.edicts = Append(@, [blk |-> blk, tx |-> txi, amount |-> e[3], output |-> e[4]])]

Groups(body) == [i \in 1 .. Len(body) \div 4 |-> SubSeq(body, 4 * i - 3, 4 * i)]
DecodeBody(body) ==
    FoldLeft(Edict, [edicts |-> <<>>, blk |-> 0, txi |-> 0, bad |-> Len(body) % 4 # 0], Groups(body))

\* The tag/value pairs before the body, which is the at-th tag (0: none).
PairsUpTo(ints, at) ==
    [pairs |-> [i \in 1 .. (IF at = 0 THEN Len(ints) \div 2 ELSE at - 1) |-> <<ints[2 * i - 1], ints[2 * i]>>],
     body |-> IF at = 0 THEN <<>> ELSE SubSeq(ints, 2 * at, Len(ints)),
     dangling |-> at = 0 /\ Len(ints) % 2 = 1]
Pairs(ints) ==
    PairsUpTo(ints, SelectInSeq([i \in 1 .. (Len(ints) + 1) \div 2 |-> ints[2 * i - 1]],
                                LAMBDA tag : tag = Tag.body))

Count(pairs, tag) == Cardinality({i \in DOMAIN pairs : pairs[i][1] = tag})
ValueAt(pairs, at, default) == IF at = 0 THEN default ELSE pairs[at][2]
FirstValue(pairs, tag, default) ==
    ValueAt(pairs, SelectInSeq(pairs, LAMBDA p : p[1] = tag), default)

Flag(flags, bit) == (flags \div bit) % 2 = 1
Etches(flags) == Flag(flags, 1)
HasTerms(flags) == Etches(flags) /\ Flag(flags, 2)
\* Terms and turbo are consumed only within an etching.
Residual(flags) == IF Etches(flags) THEN flags >= 8 ELSE flags # 0

\* How many values of a tag the decoder consumes; a mint needs two.
Taken(tag, flags, count) ==
    CASE tag = Tag.mint -> IF count >= 2 THEN 2 ELSE 0
      [] tag \in {Tag.flags, Tag.pointer, Tag.nop} -> 1
      [] tag \in {Tag.rune, Tag.premine, Tag.divisibility, Tag.spacers, Tag.symbol} ->
            IF Etches(flags) THEN 1 ELSE 0
      [] tag \in {Tag.cap, Tag.amount, Tag.heightStart, Tag.heightEnd, Tag.offsetStart,
                  Tag.offsetEnd} -> IF HasTerms(flags) THEN 1 ELSE 0
      [] OTHER -> 0

\* What the decoder leaves over under an even tag makes a cenotaph.
Leftover(pairs, flags) ==
    \E i \in DOMAIN pairs :
        LET tag == pairs[i][1]
            count == Count(pairs, tag)
        IN  tag % 2 = 0 /\ count > Taken(tag, flags, count)

Supply(pairs, flags) ==
    FirstValue(pairs, Tag.premine, 0)
      + IF HasTerms(flags) THEN FirstValue(pairs, Tag.cap, 0) * FirstValue(pairs, Tag.amount, 0) ELSE 0

Message(ok, pairs, flags, body, dangling) ==
    [edicts |-> body.edicts,
     etching |-> IF Etches(flags)
                 THEN [rune |-> FirstValue(pairs, Tag.rune, NoValue),
                       premine |-> FirstValue(pairs, Tag.premine, 0),
                       divisibility |-> FirstValue(pairs, Tag.divisibility, 0),
                       spacers |-> FirstValue(pairs, Tag.spacers, 0),
                       symbol |-> FirstValue(pairs, Tag.symbol, NoValue)]
                 ELSE NoValue,
     pointer |-> FirstValue(pairs, Tag.pointer, NoValue),
     cenotaph |-> \/ ~ok \/ dangling \/ body.bad \/ Residual(flags)
                  \/ (Etches(flags) /\ Supply(pairs, flags) > U128Max)
                  \/ Leftover(pairs, flags)]

MessageOf(ok, p) ==
    Message(ok, p.pairs, FirstValue(p.pairs, Tag.flags, 0), DecodeBody(p.body), p.dangling)
OfInts(ints) == MessageOf(ints.ok, Pairs(ints.vals))
decode_payload(bytes) == OfInts(leb128_decode_all(bytes))

Cenotaph == [edicts |-> <<>>, etching |-> NoValue, pointer |-> NoValue, cenotaph |-> TRUE]
OfPayload(e) == IF e.cenotaph THEN Cenotaph ELSE decode_payload(e.payload)
decode_runestone(script) == OfPayload(extract_payload(script))

----------------------------------------------------------------------------
\* Encoding.

Before(e, f) == e.blk < f.blk \/ (e.blk = f.blk /\ e.tx < f.tx)
\* Stable, as Python's sorted.
Place(s, e, at) == InsertAt(s, IF at = 0 THEN Len(s) + 1 ELSE at, e)
InsertEdict(s, e) == Place(s, e, SelectInSeq(s, LAMBDA f : Before(e, f)))
Sorted(edicts) == FoldLeft(InsertEdict, <<>>, edicts)

Group(prev, e) ==
    IF e.blk = prev.blk THEN <<0, e.tx - prev.tx, e.amount, e.output>>
                        ELSE <<e.blk - prev.blk, e.tx, e.amount, e.output>>

\* runestone_spk: one push, of edicts only.
Stone(ints) == <<[kind |-> "push", bytes |-> Encode(ints)]>>
Body(s) ==
    Stone(<<Tag.body>> \o FlattenSeq([i \in DOMAIN s |->
        Group(IF i = 1 THEN [blk |-> 0, tx |-> 0] ELSE s[i - 1], s[i])]))
runestone_spk(edicts) == Body(Sorted(edicts))

\* A zero field is left out; a given symbol never is.
Field(tag, value) == IF value \in {0, NoValue} THEN <<>> ELSE <<tag, value>>
etching_payload(e) ==
    Encode(<<Tag.flags, 1 + (IF e.terms THEN 2 ELSE 0) + (IF e.turbo THEN 4 ELSE 0), Tag.rune, e.rune>>
           \o Field(Tag.divisibility, e.divisibility) \o Field(Tag.spacers, e.spacers)
           \o (IF e.symbol = NoValue THEN <<>> ELSE <<Tag.symbol, e.symbol>>)
           \o Field(Tag.premine, e.premine)
           \o IF e.terms THEN <<Tag.amount, e.amount, Tag.cap, e.cap>> ELSE <<>>)

----------------------------------------------------------------------------
\* Names: letters 1 .. Letters, most significant first.

rune_number(name) ==
    LET n[i \in 0 .. Len(name)] == IF i = 0 THEN 0 ELSE n[i - 1] * Letters + name[i]
    IN n[Len(name)] - 1

NameOf[n \in Nat] ==
    IF n = 0 THEN <<>> ELSE NameOf[(n - 1) \div Letters] \o <<((n - 1) % Letters) + 1>>
rune_name(n) == NameOf[n + 1]

\* RUNE_STEPS[length]: the first name one letter longer.
Step(length) == rune_number([i \in 1 .. length + 1 |-> 1])

\* Mutant: the remainder counts towards the longer name.
minimum_at_height_M(height) ==
    LET progress == height + 1 - FirstHeight
        length == Unlocked - (progress \div Interval)
    IN  IF progress < 0 THEN Step(Unlocked)
        ELSE IF progress >= Unlocked * Interval THEN 0
        ELSE Step(length - 1) + ((Step(length) - Step(length - 1)) * (progress % Interval)) \div Interval

minimum_at_height(height) ==
    LET progress == height + 1 - FirstHeight
        length == Unlocked - (progress \div Interval)
    IN  IF progress < 0 THEN Step(Unlocked)
        ELSE IF progress >= Unlocked * Interval THEN 0
        ELSE Step(length) - ((Step(length) - Step(length - 1)) * (progress % Interval)) \div Interval

\* height is NoValue when the node did not answer; letters that are no
\* letters are 0.
validate_name(name, height) ==
    /\ name # <<>> /\ \A i \in DOMAIN name : name[i] \in 1 .. Letters
    /\ rune_number(name) < Step(Reserved - 1)
    /\ height # NoValue => rune_number(name) >= minimum_at_height(height)

----------------------------------------------------------------------------
\* Routing: which output gets which units.

\* give units of id to output o
Credit(out, o, id, give) == [out EXCEPT ![o][id] = @ + give]

\* An edict to "all outputs" (its output is the number of outputs) splits
\* what is left, or gives the amount to each in turn.
Share(avail, amount, k, i) ==
    LET left == avail - amount * (i - 1) IN
    IF amount = 0 THEN (avail \div k) + (IF i <= avail % k THEN 1 ELSE 0)
    ELSE IF left <= 0 THEN 0 ELSE IF left < amount THEN left ELSE amount
Hand(a, target, id, give) ==
    [bal |-> [a.bal EXCEPT ![id] = @ - give],
     out |-> IF target = NoValue THEN a.out ELSE Credit(a.out, target, id, give)]
Spread(a, targets, id, avail, amount) ==
    FoldLeft(LAMBDA s, i : Hand(s, targets[i], id, Share(avail, amount, Len(targets), i)), a,
             [i \in DOMAIN targets |-> i])

Give(avail, amount) == IF amount = 0 \/ amount > avail THEN avail ELSE amount
Real(n, returns) == SelectSeq([i \in 1 .. n |-> i - 1], LAMBDA o : o \notin returns)
Apply(a, e, n, returns) ==
    LET id == <<e.blk, e.tx>> IN
    IF id \notin DOMAIN a.bal \/ a.bal[id] = 0 THEN a
    ELSE IF e.output = n THEN Spread(a, Real(n, returns), id, a.bal[id], e.amount)
    ELSE Hand(a, IF e.output \in returns THEN NoValue ELSE e.output, id, Give(a.bal[id], e.amount))

\* Where units without an edict go; NoValue burns them.
\* Mutant: a pointer to an OP_RETURN falls back to the first real output.
LeftoverTo_M(real, pointer) ==
    IF \E i \in DOMAIN real : real[i] = pointer THEN pointer
    ELSE IF real = <<>> THEN NoValue ELSE Head(real)
LeftoverTo(real, pointer) ==
    IF pointer = NoValue THEN (IF real = <<>> THEN NoValue ELSE Head(real))
    ELSE IF \E i \in DOMAIN real : real[i] = pointer THEN pointer ELSE NoValue

AddLeftover(end, to) ==
    IF to = NoValue THEN end.out ELSE [end.out EXCEPT ![to] = [id \in DOMAIN @ |-> @[id] + end.bal[id]]]
\* balances: units per rune id in the inputs; the result: units per output.
allocate_runes(edicts, balances, n, returns, pointer) ==
    AddLeftover(FoldLeft(LAMBDA a, e : Apply(a, e, n, returns),
                         [bal |-> balances, out |-> [o \in 0 .. n - 1 |-> [id \in DOMAIN balances |-> 0]]],
                         edicts),
                LeftoverTo(Real(n, returns), pointer))

----------------------------------------------------------------------------
\* The swaps' transactions: inputs, and outputs as [sats, spk, script];
\* the script of a runestone output is its pushes, of any other NoValue.

Pay(sats, spk) == [sats |-> sats, spk |-> spk, script |-> NoValue]
Return(script) == [sats |-> 0, spk |-> "return", script |-> script]

\* Mutant: the offers' payouts follow the taker's output.
build_batch_taker_swap_unsigned_M(arts, fund, takerSpk, fee) ==
    [ins |-> [i \in DOMAIN arts |-> arts[i].offer] \o <<fund.outpoint>>,
     outs |-> <<Pay(0, takerSpk)>> \o [i \in DOMAIN arts |-> Pay(arts[i].price, arts[i].spk)]]

EdictOf(id, amount, output) == [blk |-> id[1], tx |-> id[2], amount |-> amount, output |-> output]
BatchTx(arts, fund, takerSpk, value, backed) ==
    IF arts = <<>> \/ value < Dust THEN NoValue
    ELSE [ins |-> [i \in DOMAIN arts |-> arts[i].offer] \o <<fund.outpoint>>,
          outs |-> [i \in DOMAIN arts |-> Pay(arts[i].price, arts[i].spk)]
                   \o <<Pay(value, takerSpk)>>
                   \o IF backed = <<>> THEN <<>>
                      ELSE <<Return(runestone_spk([i \in DOMAIN backed |->
                                EdictOf(backed[i].id, backed[i].amount, Len(arts))]))>>]

\* offer_k at input k, payout_k at output k, the taker behind them, one edict
\* per rune-bearing offer; with one offer this is build_taker_swap_unsigned.
\* NoValue when the taker's output would be dust.
build_batch_taker_swap_unsigned(arts, fund, takerSpk, fee) ==
    BatchTx(arts, fund, takerSpk, FoldLeft(LAMBDA s, a : s + a.sats - a.price, fund.sats - fee, arts),
            SelectSeq(arts, LAMBDA a : a.amount > 0 /\ a.id # <<0, 0>>))

\* The rune for rune swap: A to the taker, amountB of B to the maker, the
\* rest of B back to the taker.
build_addressed_rune_swap_unsigned(offer, fund, makerSpk, takerSpk, idA, amountA, idB, amountB, fee) ==
    LET change == offer.sats + fund.sats - 2 * Dust - fee
        edicts == <<EdictOf(idA, amountA, 1), EdictOf(idB, amountB, 0), EdictOf(idB, 0, 1)>>
    IN  IF amountA <= 0 \/ amountB <= 0 \/ amountA > U64Max \/ amountB > U64Max \/ change < 0
        THEN NoValue
        ELSE [ins |-> <<offer.outpoint, fund.outpoint>>,
              outs |-> <<Pay(Dust, makerSpk), Pay(Dust, takerSpk)>>
                       \o (IF change >= Dust THEN <<Pay(change, takerSpk)>> ELSE <<>>)
                       \o <<Return(runestone_spk(edicts))>>]

\* The prototype of btx_runes.py: the whole supply of one rune to output 1.
build(offer, pay, price, fee, id, supply) ==
    [ins |-> <<offer.outpoint, pay.outpoint>>,
     outs |-> <<Pay(price, "payout"), Pay(offer.sats + pay.sats - price - fee, "taker"),
                Return(runestone_spk(<<EdictOf(id, supply, 1)>>))>>]

\* What ord wants pushed in the reveal: the rune's number in as few digits as
\* it takes, none for zero.
rune_commitment[n \in Nat] == IF n = 0 THEN <<>> ELSE <<n % Base>> \o rune_commitment[n \div Base]

\* The reveal of an etching: premine first, then the runestone.
build_etch_reveal(e, commit, premineSpk, fee) ==
    IF commit.sats <= fee THEN NoValue
    ELSE [ins |-> <<commit.outpoint>>, pushed |-> rune_commitment[e.rune],
          outs |-> <<Pay(commit.sats - fee, premineSpk),
                     Return(<<[kind |-> "push", bytes |-> etching_payload(e)]>>)>>]

Returns(tx) == {i \in 0 .. Len(tx.outs) - 1 : tx.outs[i + 1].spk = "return"}
\* The first OP_RETURN that is a runestone.
StoneAt(outs, at) == IF at = 0 THEN NoValue ELSE decode_runestone(outs[at].script)
StoneOf(tx) ==
    StoneAt(tx.outs, SelectInSeq(tx.outs, LAMBDA out : out.spk = "return" /\ out.script # NoValue))

\* What only the number of outputs can tell: an edict past "all outputs", a
\* pointer past the last output.
OutOfRange(stone, n) ==
    \/ \E i \in DOMAIN stone.edicts : stone.edicts[i].output > n
    \/ stone.pointer # NoValue /\ stone.pointer >= n

\* The maker's check before it countersigns a rune for rune swap.
MakerIsPaid(stone, tx, n, makerSpk, idB, amountB, balances) ==
    /\ stone # NoValue /\ ~stone.cenotaph /\ ~OutOfRange(stone, n)
    /\ n > 0 /\ tx.outs[1].spk = makerSpk
    /\ allocate_runes(stone.edicts, balances, n, Returns(tx), stone.pointer)[0][idB] >= amountB
verify_addressed_rune_tx(tx, offer, makerSpk, idB, amountB, balances) ==
    /\ tx.ins # <<>> /\ tx.ins[1] = offer
    /\ MakerIsPaid(StoneOf(tx), tx, Len(tx.outs), makerSpk, idB, amountB, balances)

\* The maker's check before it countersigns an addressed BTC swap.
verify_addressed_tx(tx, offer, price, makerSpk) ==
    /\ tx.ins # <<>> /\ tx.ins[1] = offer
    /\ tx.outs # <<>> /\ tx.outs[1].sats = price
    /\ makerSpk # NoValue => tx.outs[1].spk = makerSpk

\* ord, as btx_rune_swap.py describes it: a cenotaph or an index out of range
\* burns everything; units that land on an OP_RETURN burn.  OrdUnits follows
\* the units of one rune on one output, edict by edict.
Lesser(x, y) == IF x < y THEN x ELSE y
OrdEdict(t, e, n, real, o) ==
    LET k == Cardinality(real)
        rank == Cardinality({p \in real : p < o})
        one == IF e.amount = 0 THEN t.left ELSE Lesser(t.left, e.amount)
        mine == IF e.amount = 0 THEN (t.left + k - 1 - rank) \div k
                ELSE Lesser(Lesser(t.left, rank * e.amount + e.amount) - Lesser(t.left, rank * e.amount), e.amount)
    IN  IF e.output < n THEN [left |-> t.left - one, here |-> t.here + IF e.output = o THEN one ELSE 0]
        ELSE IF k = 0 THEN t
        ELSE [left |-> IF e.amount = 0 THEN 0 ELSE t.left - Lesser(t.left, k * e.amount),
              here |-> t.here + IF o \in real THEN mine ELSE 0]

OrdRoute(s, n, real, balance, o, id) ==
    LET end == FoldLeft(LAMBDA t, e : IF <<e.blk, e.tx>> = id THEN OrdEdict(t, e, n, real, o) ELSE t,
                        [left |-> balance, here |-> 0], s.edicts)
        default == IF s.pointer # NoValue THEN s.pointer = o ELSE \A p \in real : o <= p
    IN  IF s.cenotaph \/ OutOfRange(s, n) \/ o \notin real THEN 0
        ELSE end.here + IF default THEN end.left ELSE 0

Plain(stone) == IF stone # NoValue THEN stone ELSE [Cenotaph EXCEPT !.cenotaph = FALSE]
OrdUnits(tx, balances, o, id) ==
    OrdRoute(Plain(StoneOf(tx)), Len(tx.outs), (0 .. Len(tx.outs) - 1) \ Returns(tx), balances[id], o, id)

----------------------------------------------------------------------------
\* The first, minimal indexer of btx_runes.py: one push of edicts, deltas
\* added up, no default output.
MinimalEdict(a, g) ==
    LET id == <<a.blk + g[1], a.txi + g[2]>>
        avail == IF id \in DOMAIN a.bal THEN a.bal[id] ELSE 0
        moved == [a EXCEPT !.blk = id[1], !.txi = id[2]]
    IN  IF avail = 0 THEN moved
        ELSE [moved EXCEPT !.bal[id] = @ - Give(avail, g[3]), !.out = Credit(@, g[4], id, Give(avail, g[3]))]
verify(ints, n, balances) ==
    FoldLeft(MinimalEdict,
             [blk |-> 0, txi |-> 0, bal |-> balances, out |-> [o \in 0 .. n - 1 |-> [id \in DOMAIN balances |-> 0]]],
             Groups(Tail(ints)))

============================================================================
