----------------------------- MODULE Signatures -----------------------------
(***************************************************************************)
(* The Schnorr constructions orders are signed with: single keys, pools    *)
(* (x-only MuSig2, BIP327), FROST, half-aggregation, adaptor signatures,   *)
(* DLC oracles, sign-to-contract, DLEQ and the taproot commitment          *)
(* (btx_taproot.py, btx_musig2*.py, btx_frost.py, btx_halfagg.py,          *)
(* btx_adaptor.py, btx_dlc_*.py, btx_s2c*.py, btx_dleq.py and their        *)
(* *_publish.py and btx_artifact_v2_demo.py callers).                      *)
(*                                                                         *)
(* A point of the curve is its discrete logarithm modulo Q, so that the    *)
(* generator is 1 and infinity 0.  Exactly one of p and -p has an even y:  *)
(* that one is in Even, and stands for the x-coordinate both share.  A     *)
(* number outside Even is an x no point of the curve has.  A hash function *)
(* is a value chosen once, so that what holds of every choice does not     *)
(* depend on what SHA256 returns; 0 is the value of an operator where the  *)
(* code raises.                                                            *)
(***************************************************************************)
EXTENDS Integers, Sequences, SequencesExt

CONSTANTS Q,      \* the order of the group, an odd prime (N in the code)
          Even    \* the points whose y is even

ASSUME QAssumption == Q \in Nat /\ Q > 2
\* What Q being a prime is needed for.
ASSUME NoZeroDivisors == \A a, b \in 1 .. Q - 1 : (a * b) % Q # 0
ASSUME EvenAssumption ==
    /\ Even \subseteq 1 .. Q - 1
    /\ \A p \in 1 .. Q - 1 : p \in Even <=> Q - p \notin Even

VARIABLE hash     \* the hash function: its multiplier and its seed

NoSig == [r |-> 0, s |-> 0]
Tag == [aux |-> 1, nonce |-> 2, challenge |-> 3, list |-> 4, coefficient |-> 5, order |-> 6, randomizer |-> 7,
        outcome |-> 8, adaptor |-> 9, s2c |-> 10, s2cNonce |-> 11, dleq |-> 12, dleqNonce |-> 13, leaf |-> 14,
        tweak |-> 15]

tagged_hash(tag, parts) ==
    FoldLeft(LAMBDA acc, part : (hash.mul * (acc + part) * (acc + part) + part + 1) % Q, hash.seed + tag, parts)

point_add(p, q) == (p + q) % Q
point_mul(p, k) == (p * k) % Q
Neg(p) == (Q - p) % Q
Sum(s) == FoldLeft(point_add, 0, s)

\* The x-coordinate of a point; also the secret that BIP340 signs with.
Evened(p) == IF p \in Even THEN p ELSE Neg(p)
lift_x(x) == IF x \in Even THEN x ELSE 0

----------------------------------------------------------------------------
(* BIP340.                                                                 *)

Challenge(r, pk, msg) == tagged_hash(Tag.challenge, <<r, pk, msg>>)
Masked(d, aux) == d + tagged_hash(Tag.aux, <<aux>>)
Sealed(k, d, msg) == [r |-> k, s |-> (k + Challenge(k, d, msg) * d) % Q]

schnorr_sign(msg, secret, aux) ==
    LET d == Evened(secret)
        k0 == tagged_hash(Tag.nonce, <<Masked(d, aux), d, msg>>)
    IN  IF secret = 0 \/ k0 = 0 THEN NoSig ELSE Sealed(Evened(k0), d, msg)

schnorr_verify(msg, pk, sig) ==
    /\ lift_x(pk) # 0
    /\ LET R == point_add(sig.s, point_mul(pk, Neg(Challenge(sig.r, pk, msg))))
       IN  R \in Even /\ R = sig.r

----------------------------------------------------------------------------
(* Pools and thresholds: several keys, one signature.                      *)

\* The first key that differs from keys[1]; none of them when all are equal.
find_second_key(keys) == LET i == SelectInSeq(keys, LAMBDA k : k # keys[1]) IN IF i = 0 THEN 0 ELSE keys[i]

Coefficients(keys, second) ==
    [i \in DOMAIN keys |-> IF keys[i] = second THEN 1
                           ELSE tagged_hash(Tag.coefficient, <<tagged_hash(Tag.list, keys), keys[i]>>)]

Weighted(points, coefs) == Sum([i \in DOMAIN points |-> point_mul(points[i], coefs[i])])

\* The aggregate before its parity is dropped: key_agg over x-only keys and
\* key_agg_bip327 over compressed ones differ in what `keys` are.
AggPoint(keys) == Weighted(keys, Coefficients(keys, find_second_key(keys)))
key_agg(keys) == Evened(AggPoint(keys))
key_agg_bip327(points) == Evened(AggPoint(points))

EvenedKeys(secrets) == [i \in DOMAIN secrets |-> Evened(secrets[i])]

aggregate_secret_M(secrets) ==
    Weighted(EvenedKeys(secrets), Coefficients(secrets, find_second_key(EvenedKeys(secrets))))

\* Every contribution is negated when the aggregate point has an odd y.
aggregate_secret(secrets) ==
    LET keys == EvenedKeys(secrets)
        gacc == AggPoint(keys) \in Even
    IN  Weighted([i \in DOMAIN keys |-> IF gacc THEN keys[i] ELSE Neg(keys[i])],
                 Coefficients(keys, find_second_key(keys)))

pool_sign_demo(secrets, msg) == schnorr_sign(msg, aggregate_secret(secrets), 0)

modinv(a) == (a ^ (Q - 2)) % Q
Product(s) == FoldLeft(point_mul, 1, s)
lagrange_at_zero(indices, j) ==
    LET others == SelectSeq(indices, LAMBDA i : i # indices[j])
    IN  point_mul(Product(others), modinv(Product([k \in DOMAIN others |-> (others[k] - indices[j]) % Q])))

eval_poly(coeffs, x) == FoldRight(LAMBDA c, acc : (acc * x + c) % Q, coeffs, 0)

\* Every coefficient is negated when the group key has an odd y; a zero
\* share is dealt again, so it is no key.
FrostKey(coeffs, n) ==
    LET even == [k \in DOMAIN coeffs |-> IF coeffs[1] \in Even THEN coeffs[k] ELSE Neg(coeffs[k])]
        shares == [i \in 1 .. n |-> eval_poly(even, i)]
    IN  [t |-> Len(coeffs), xonly |-> IF \E i \in 1 .. n : shares[i] = 0 THEN 0 ELSE even[1], shares |-> shares]

Reconstructed(frost, indices) ==
    Sum([j \in DOMAIN indices |-> point_mul(frost.shares[indices[j]], lagrange_at_zero(indices, j))])

threshold_sign(frost, indices, msg) ==
    IF \/ ~IsInjective(indices) \/ Len(indices) # frost.t
       \/ ~ToSet(indices) \subseteq DOMAIN frost.shares
       \/ Reconstructed(frost, indices) # frost.xonly
    THEN NoSig
    ELSE schnorr_sign(msg, Reconstructed(frost, indices), 0)

----------------------------------------------------------------------------
(* Half-aggregation and the batch announcement it carries.                 *)

\* The randomizer of the i-th signature commits to the first i triples.
Randomizer(keys, msgs, rs, i) ==
    IF i = 1 THEN 1
    ELSE tagged_hash(Tag.randomizer, FlattenSeq([j \in 1 .. i |-> <<rs[j], keys[j], msgs[j]>>]))

aggregate(keys, msgs, sigs) ==
    LET rs == [i \in DOMAIN sigs |-> sigs[i].r]
    IN  [rs |-> rs, s |-> Sum([i \in DOMAIN sigs |-> point_mul(sigs[i].s, Randomizer(keys, msgs, rs, i))])]

halfagg_verify(keys, msgs, agg) ==
    /\ Len(agg.rs) = Len(keys) /\ \A i \in DOMAIN keys : agg.rs[i] \in Even /\ keys[i] \in Even
    /\ agg.s = Sum([i \in DOMAIN keys |->
                      point_mul(point_add(agg.rs[i], point_mul(keys[i], Challenge(agg.rs[i], keys[i], msgs[i]))),
                                Randomizer(keys, msgs, agg.rs, i))])

\* An order's key goes into its body, so the hash that is signed covers it.
order_sighash(body, pk) == tagged_hash(Tag.order, <<body, pk>>)

MakerKey(o) ==
    CASE o.kind = "solo" -> Evened(o.secret)
      [] o.kind = "pool" -> key_agg(EvenedKeys(o.secrets))
      [] o.kind = "frost" -> o.frost.xonly

resolve_order(o, pk) ==
    CASE o.kind = "solo" -> schnorr_sign(order_sighash(o.body, pk), o.secret, 0)
      [] o.kind = "pool" -> IF pk = 0 THEN NoSig ELSE pool_sign_demo(o.secrets, order_sighash(o.body, pk))
      [] o.kind = "frost" -> IF pk = 0 THEN NoSig ELSE threshold_sign(o.frost, o.indices, order_sighash(o.body, pk))

Hashes(orders) == [i \in DOMAIN orders |-> order_sighash(orders[i].body, orders[i].pk)]
Keys(orders) == [i \in DOMAIN orders |-> orders[i].pk]

Announced(entries, sigs) == [orders |-> entries, agg |-> aggregate(Keys(entries), Hashes(entries), sigs)]
Entries(orders) == [i \in DOMAIN orders |-> [body |-> orders[i].body, pk |-> MakerKey(orders[i])]]
SigsOf(orders) == [i \in DOMAIN orders |-> resolve_order(orders[i], MakerKey(orders[i]))]
build_batch_announce(orders) == Announced(Entries(orders), SigsOf(orders))
verify_batch_announce(batch) == halfagg_verify(Keys(batch.orders), Hashes(batch.orders), batch.agg)

----------------------------------------------------------------------------
(* Adaptor signatures, and the oracle whose attestation completes them.    *)

Presigned(R, k, d, msg) ==
    IF k = 0 \/ R = 0 THEN NoSig ELSE [r |-> R, s |-> (k + Challenge(Evened(R), d, msg) * d) % Q]

pre_sign_M(secret, msg, T) ==
    LET d == Evened(secret)
        k == tagged_hash(Tag.adaptor, <<Masked(d, 0), d, T, msg>>)
    IN  IF secret = 0 \/ T = 0 THEN NoSig ELSE Presigned(Evened(point_add(k, T)), k, d, msg)

\* R-hat keeps the parity it has.
pre_sign(secret, msg, T) ==
    LET d == Evened(secret)
        k == tagged_hash(Tag.adaptor, <<Masked(d, 0), d, T, msg>>)
    IN  IF secret = 0 \/ T = 0 THEN NoSig ELSE Presigned(point_add(k, T), k, d, msg)

pool_pre_sign(secrets, msg, T) == pre_sign(aggregate_secret(secrets), msg, T)

RightHand(pre, pk, msg) == point_add(pre.r, point_mul(pk, Challenge(Evened(pre.r), pk, msg)))
pre_verify(pre, pk, msg, T) ==
    pre.r # 0 /\ T # 0 /\ lift_x(pk) # 0 /\ point_add(pre.s, T) = RightHand(pre, pk, msg)
verify_completed(sig, pk, msg) == sig.r # 0 /\ lift_x(pk) # 0 /\ sig.s = RightHand(sig, pk, msg)

decrypt(pre, t) == [pre EXCEPT !.s = (@ + t) % Q]
recover(pre, sig) == IF pre.r = sig.r THEN (sig.s - pre.s) % Q ELSE 0

\* s is negated when R-hat has an odd y.
completed_sig_from_adaptor(pre, t) ==
    LET sig == decrypt(pre, t)
    IN  IF sig.r \in Even THEN sig ELSE [r |-> Evened(sig.r), s |-> Neg(sig.s)]

\* The oracle's published key and nonce are both evened.
Oracle(d, r) == [d |-> Evened(d), r |-> Evened(r)]
Outcome(event, outcome) == tagged_hash(Tag.outcome, <<event, outcome>>)
attest(oracle, event, outcome) == (oracle.r + Outcome(event, outcome) * oracle.d) % Q
maker_derive_T(Po, Ro, event, outcome) == point_add(Ro, point_mul(lift_x(Po), Outcome(event, outcome)))

build_conditional_order(o, T) ==
    LET pk == Evened(o.secret)
    IN  [body |-> o.body, pk |-> pk, T |-> T, pre |-> pre_sign(o.secret, order_sighash(o.body, pk), T)]
build_oracle_conditional_order(o, oracle, event, outcome) ==
    build_conditional_order(o, maker_derive_T(oracle.d, oracle.r, event, outcome))
verify_conditional_order(c) == pre_verify(c.pre, c.pk, order_sighash(c.body, c.pk), c.T)

----------------------------------------------------------------------------
(* Commitments hidden in a nonce, in an output key, and equal logarithms.  *)

s2c_tweak(R0, c) == tagged_hash(Tag.s2c, <<R0, c>>)
Tweaked(R0, c) == point_add(R0, s2c_tweak(R0, c))
s2c_expected_R_x(R0, c) == IF lift_x(R0) = 0 THEN 0 ELSE Evened(Tweaked(R0, c))

derive_k0_M(secret, msg, c, aux) == tagged_hash(Tag.s2cNonce, <<Masked(secret, aux), msg, c>>)
\* The untweaked nonce, its point evened so that its x opens the commitment.
derive_k0(d, msg, c, aux) == Evened(tagged_hash(Tag.s2cNonce, <<Masked(d, aux), msg, c>>))

s2c_sign(secret, msg, c, aux) ==
    LET R0 == derive_k0(Evened(secret), msg, c, aux)
    IN  IF secret = 0 \/ R0 = 0 \/ Tweaked(R0, c) = 0 THEN [sig |-> NoSig, R0 |-> 0]
        ELSE [sig |-> Sealed(Evened(Tweaked(R0, c)), Evened(secret), msg), R0 |-> R0]

s2c_verify(sig, msg, pk, R0, c) == schnorr_verify(msg, pk, sig) /\ lift_x(R0) # 0 /\ sig.r = s2c_expected_R_x(R0, c)
s2c_recover_c(sig, msg, pk, R0, candidates) ==
    IF schnorr_verify(msg, pk, sig) THEN SelectInSeq(candidates, LAMBDA c : s2c_expected_R_x(R0, c) = sig.r) ELSE 0

\* What the maker publishes after the commit, and what an indexer checks.
build_reveal(commit, R0, c) == [commit |-> commit, R0 |-> R0, c |-> c]
verify_reveal_against_sig(reveal, sig, msg, pk) == s2c_verify(sig, msg, pk, reveal.R0, reveal.c)

dleq_challenge(A, B, C, R1, R2, m, gen) == tagged_hash(Tag.dleq, <<A, B, C, gen, R1, R2, m>>)
verify_proof(A, B, C, proof, gen, m) ==
    LET R1 == point_add(point_mul(gen, proof.s), Neg(point_mul(A, proof.e)))
        R2 == point_add(point_mul(B, proof.s), Neg(point_mul(C, proof.e)))
    IN  /\ A # 0 /\ B # 0 /\ C # 0 /\ gen # 0 /\ R1 # 0 /\ R2 # 0
        /\ proof.e = dleq_challenge(A, B, C, R1, R2, m, gen)

DleqNonce(a, A, C, r, m) == tagged_hash(Tag.dleqNonce, <<Masked(a, r), A, C, m>>)
Proof(a, A, B, C, k, gen, m) ==
    LET e == dleq_challenge(A, B, C, point_mul(gen, k), point_mul(B, k), m, gen)
    IN  [e |-> e, s |-> (k + e * a) % Q]
generate_proof(a, B, r, gen, m) ==
    LET A == point_mul(gen, a)
        C == point_mul(B, a)
    IN  Proof(a, A, B, C, DleqNonce(a, A, C, r, m), gen, m)

tapleaf_hash(script) == tagged_hash(Tag.leaf, <<script>>)
TweakedPoint(internal, root) == point_add(lift_x(internal), tagged_hash(Tag.tweak, <<internal, root>>))
taproot_tweak_pubkey(internal, root) ==
    LET point == TweakedPoint(internal, root)
    IN  IF lift_x(internal) = 0 \/ point = 0 THEN [parity |-> 0, xonly |-> 0]
        ELSE [parity |-> IF point \in Even THEN 0 ELSE 1, xonly |-> Evened(point)]
\* The output to fund, and the parity its control block carries.
commit_for_envelope(internal, script) == taproot_tweak_pubkey(internal, tapleaf_hash(script))

\* BIP341: a node takes the leaf and the control block for the output's when
\* they give its key and its parity.
Opens(output, internal, parity, script) ==
    LET point == TweakedPoint(internal, tapleaf_hash(script))
    IN  internal \in Even /\ point # 0 /\ Evened(point) = output /\ (point \in Even <=> parity = 0)

============================================================================
