---------------------------- MODULE MCSignatures ----------------------------
(***************************************************************************)
(* Signatures checked for every secret, every hash function of a family    *)
(* and every way to make the construction: one initial state per input.    *)
(***************************************************************************)
EXTENDS Attestation

VARIABLE probe

\* The keys 3 and 4 that some orders are signed with are keys.
ASSUME KeysAssumption == Q > 4

Scalars == 1 .. Q - 1
Bodies == 0 .. 1
Pairs == {<<1, 2>>, <<3, 1>>, <<2, 3>>}

Solo == [kind : {"solo"}, body : Bodies, secret : Scalars]
Pool == [kind : {"pool"}, body : {1}, secrets : Scalars \X Scalars \cup {3} \X Scalars \X Scalars]
Frost == {[kind |-> "frost", body |-> 0, frost |-> FrostKey(c, 3), indices |-> is] :
            c \in Scalars \X Scalars, is \in Pairs}

Batches == {<<o>> : o \in Solo \cup Pool \cup Frost}
           \cup {<<o, [kind |-> "solo", body |-> 1, secret |-> 3]>> : o \in Solo \cup Pool \cup Frost}
           \cup {<<[kind |-> "solo", body |-> 0, secret |-> 4], o>> : o \in Pool \cup Frost}

\* Keys in and out of range, and one flaw of the encoding at a time.
Wif(secret) == [checks |-> TRUE, version |-> 128, size |-> 34, last |-> 1, secret |-> secret]
Wifs == {Wif(secret) : secret \in 0 .. Q - 1} \cup {[Wif(2) EXCEPT !.size = 33]}
BadWifs == {[Wif(2) EXCEPT !.checks = FALSE], [Wif(2) EXCEPT !.version = 239],
            [Wif(2) EXCEPT !.size = 32], [Wif(2) EXCEPT !.last = 0]}
Versions == [version : {0, 2}, locktime : {0, 5}, sequence : {0}]
\* A transaction of two inputs and one or two outputs, and ways to change it.
Tx(outs) ==
    [version |-> 2, locktime |-> 0,
     ins |-> [i \in 1 .. 2 |-> [txid |-> <<i>>, vout |-> 0, amount |-> 7, spk |-> 3, sequence |-> 9]],
     outs |-> [i \in 1 .. outs |-> TxOut(5, i)]]

Init ==
    /\ hash \in [mul : Scalars, seed : 0 .. Q - 1]
    /\ \/ \E b \in Batches : probe = [kind |-> "batch", orders |-> b]
       \/ probe \in [kind : {"conditional"}, secret : Scalars, body : Bodies, d : Scalars, r : Scalars, outcome : 0 .. 1]
       \/ probe \in [kind : {"poolAdaptor"}, secrets : Scalars \X Scalars, t : Scalars]
       \/ probe \in [kind : {"s2c"}, secret : Scalars, msg : 0 .. 1, c : 0 .. 2]
       \/ probe \in [kind : {"dleq"}, a : Scalars, B : Scalars, gen : {1, 3}, m : 0 .. 1]
       \/ probe \in [kind : {"commit"}, internal : 0 .. Q - 1, script : 0 .. 2]
       \/ probe \in [kind : {"simple"}, secret : Scalars, message : 0 .. 1, flag : {NoFlag, 0, 1}]
       \/ probe \in [kind : {"full"}, secret : Scalars, message : 0 .. 1, choice : Versions]
       \/ probe \in [kind : {"sign"}, wif : Wifs \cup BadWifs, format : {"simple", "full"}, choice : {[version |-> 2, locktime |-> 5, sequence |-> 0]},
                     aux : -1 .. 1]
       \/ probe \in [kind : {"sighash"}, type : HashTypes, i : 1 .. 2, outs : 1 .. 2]

Next == UNCHANGED <<hash, probe>>
Spec == Init /\ [][Next]_<<hash, probe>>

----------------------------------------------------------------------------
\* Whoever signs, one key, a pool or any t of n holders, the signature is
\* BIP340-valid under the key the order announces and the batch verifies;
\* with one s changed it verifies only if that order's randomizer is 0.
BatchesVerify ==
    probe.kind = "batch" =>
        LET entries == Entries(probe.orders)
            sigs == SigsOf(probe.orders)
        IN  (\A i \in DOMAIN sigs : sigs[i] # NoSig) =>
              /\ \A i \in DOMAIN sigs : schnorr_verify(Hashes(entries)[i], entries[i].pk, sigs[i])
              /\ verify_batch_announce(build_batch_announce(probe.orders))
              /\ \A i \in DOMAIN sigs :
                    verify_batch_announce(Announced(entries, [sigs EXCEPT ![i].s = (@ + 1) % Q]))
                      <=> Randomizer(Keys(entries), Hashes(entries), [j \in DOMAIN sigs |-> sigs[j].r], i) = 0

\* An order sealed to an outcome verifies for that outcome's point and for no
\* other; the oracle's attestation, and no other number, completes it, and
\* the completed signature gives the attestation back.  Pools too.
AdaptorsLockTheOrder ==
    /\ probe.kind = "conditional" =>
          LET oracle == Oracle(probe.d, probe.r)
              c == build_oracle_conditional_order(probe, oracle, 5, probe.outcome)
              t == attest(oracle, 5, probe.outcome)
          IN  c.pre # NoSig =>
                /\ verify_conditional_order(c)
                /\ \A T \in 1 .. Q - 1 : verify_conditional_order([c EXCEPT !.T = T]) => T = t
                /\ \A u \in 1 .. Q - 1 : verify_completed(decrypt(c.pre, u), c.pk, order_sighash(c.body, c.pk)) <=> u = t
                /\ recover(c.pre, decrypt(c.pre, t)) = t
    /\ probe.kind = "poolAdaptor" =>
          LET pk == key_agg(EvenedKeys(probe.secrets))
              pre == pool_pre_sign(probe.secrets, 1, probe.t)
          IN  pre # NoSig => pre_verify(pre, pk, 1, probe.t) /\ verify_completed(decrypt(pre, probe.t), pk, 1)

\* A signature that hides c is an ordinary one, opens to c, and an indexer
\* that tries candidates finds c unless an earlier one has the same nonce; a
\* DLEQ proof verifies; the commit output opens with its own control block
\* and no other parity.
CommitmentsOpen ==
    /\ probe.kind = "s2c" =>
          LET pk == Evened(probe.secret)
              s == s2c_sign(probe.secret, probe.msg, probe.c, 1)
              found == s2c_recover_c(s.sig, probe.msg, pk, s.R0, <<0, 1, 2>>)
          IN  s.sig # NoSig =>
                /\ verify_reveal_against_sig(build_reveal("tx", s.R0, probe.c), s.sig, probe.msg, pk)
                /\ found \in 1 .. probe.c + 1
                /\ s2c_expected_R_x(s.R0, found - 1) = s.sig.r
    /\ probe.kind = "dleq" =>
          LET A == point_mul(probe.gen, probe.a)
              C == point_mul(probe.B, probe.a)
          IN  DleqNonce(probe.a, A, C, 0, probe.m) # 0 =>
                verify_proof(A, probe.B, C, generate_proof(probe.a, probe.B, 0, probe.gen, probe.m), probe.gen, probe.m)
    /\ probe.kind = "commit" =>
          LET out == commit_for_envelope(probe.internal, probe.script)
          IN  out.xonly # 0 =>
                \A parity \in 0 .. 1 : Opens(out.xonly, probe.internal, parity, probe.script) <=> parity = out.parity

\* The number that a signature signs, read off the signature.
Signed(message, xonly, sig, flag) ==
    IF sig.prefix = "smp" THEN bip322_sighash(message, xonly, flag % 256) ELSE bip322_sighash_full(message, xonly, sig)

Flags == {NoFlag, 0, 1, 2}
AllowedFlags(sig) == IF sig.prefix = "smp" THEN {NoFlag, 0, 1} ELSE {NoFlag, 0}
WithFlag(sig, flag) == [sig EXCEPT !.stack[1].flag = flag]
Variants(sig) ==
    {sig} \cup (IF sig.prefix = "smp" THEN {}
               ELSE {[sig EXCEPT !.version = 7], [sig EXCEPT !.locktime = 7], [sig EXCEPT !.sequence = 7]})

Broken(sig) ==
    {[sig EXCEPT !.decodes = "cut"], [sig EXCEPT !.decodes = "rest"], [sig EXCEPT !.stack = @ \o @],
     [sig EXCEPT !.prefix = "pof"]}
    \cup (IF sig.prefix = "smp" THEN {} ELSE {[sig EXCEPT !.inputs = 2], [sig EXCEPT !.out = TxOut(1, OpReturn)]})

Foreign(addr) ==
    {[addr EXCEPT !.hrp = "tb"], [addr EXCEPT !.witver = 0], [addr EXCEPT !.checksum = "bech32"],
     [addr EXCEPT !.size = 20], [addr EXCEPT !.spaces = TRUE]}

Binds(addr, sig, xonly, item) ==
    /\ Verified(probe.message, addr, sig) = "yes"
    /\ \A message \in 0 .. 2, other \in Variants(sig), flag \in Flags :
          LET changed == WithFlag(other, flag)
          IN  /\ (cmd_verify(message, addr, changed) = 0) = (h_attest_verify(message, addr, changed) = "valid")
              /\ cmd_verify(message, addr, changed) = 0 <=>
                    /\ flag \in AllowedFlags(sig)
                    /\ sig.prefix = "ful" => to_spend_txid(message_hash(message), xonly)
                                              = to_spend_txid(message_hash(probe.message), xonly)
                    /\ Challenge(item.r, xonly, Signed(message, xonly, changed, flag))
                       = Challenge(item.r, xonly, Signed(probe.message, xonly, sig, item.flag))
    /\ \A bad \in Broken(sig) :
          cmd_verify(probe.message, addr, bad) # 0 /\ h_attest_verify(probe.message, addr, bad) # "valid"
    /\ \A there \in Foreign(addr) :
          cmd_verify(probe.message, there, sig) # 0 /\ h_attest_verify(probe.message, there, sig) # "valid"

\* A BIP322 signature is accepted for its own address by the library, the tool
\* and the server; for another message, sighash byte or another version,
\* locktime or sequence only where the challenges collide; and for a broken
\* encoding, an extra witness item or a foreign address never.  What the
\* signing tool prints, the verifier accepts.
AttestationsBind ==
    /\ probe.kind = "sign" =>
          LET done == cmd_sign(probe.wif, 1, probe.format, probe.choice, probe.aux)
              addr == tr_key_only_address(Evened(probe.wif.secret), "bc")
          IN  /\ probe.wif \in BadWifs \/ probe.aux = -1 => done.code = 2
              /\ done.code = 0 => cmd_verify(1, addr, done.sig) = 0 /\ h_attest_verify(1, addr, done.sig) = "valid"
    /\ probe.kind \in {"simple", "full"} =>
        LET addr == tr_key_only_address(Evened(probe.secret), "bc")
            sig == IF probe.kind = "simple" THEN sign_simple_p2tr(probe.message, probe.secret, probe.flag, 0)
                   ELSE sign_full_p2tr(probe.message, probe.secret, probe.choice, 0)
        IN  (addr.program # 0 /\ sig.stack[1].r # 0) => Binds(addr, sig, addr.program, sig.stack[1])

\* A sighash changes with just what its type commits to (BIP341): its own
\* input always, the other inputs unless ANYONECANPAY, its own output unless
\* NONE, the other outputs only under ALL; a SINGLE input without an output
\* of its own is refused.  A comment in btx_bip322.py says otherwise of NONE and
\* SINGLE, see OutputsAlwaysCommitted.
SighashCommits ==
    probe.kind = "sighash" =>
        LET tx == Tx(probe.outs)
            msg == tap_sigmsg(tx, probe.i, probe.type, <<>>)
            anyone == probe.type >= SIGHASH.ANYONECANPAY
            out == probe.type % 4
            Moves(changed, committed) == (tap_sigmsg(changed, probe.i, probe.type, <<>>) # msg) <=> committed
        IN  IF out = SIGHASH.SINGLE /\ probe.i > probe.outs THEN msg = <<>>
            ELSE /\ Moves([tx EXCEPT !.version = 1], TRUE) /\ Moves([tx EXCEPT !.locktime = 1], TRUE)
                 /\ \A in \in 1 .. 2, field \in {"txid", "vout", "amount", "spk", "sequence"} :
                       Moves([tx EXCEPT !.ins[in][field] = IF field = "txid" THEN <<8>> ELSE 8], in = probe.i \/ ~anyone)
                 /\ Moves([tx EXCEPT !.ins = Append(@, tx.ins[1])], ~anyone)
                 /\ \A o \in 1 .. probe.outs :
                       Moves([tx EXCEPT !.outs[o] = TxOut(6, 6)],
                             out \in {SIGHASH.DEFAULT, SIGHASH.ALL} \/ (out = SIGHASH.SINGLE /\ o = probe.i))
                 /\ Moves([tx EXCEPT !.outs = Append(@, TxOut(6, 6))], out \in {SIGHASH.DEFAULT, SIGHASH.ALL})
                 /\ tap_sigmsg(tx, probe.i, probe.type, <<1>>) # msg

\* btx_bip322.py:530-535: "tap_sighash currently computes the all-outputs sigMsg
\* regardless of hash_type": any output changes the sighash of any type.
OutputsAlwaysCommitted ==
    probe.kind = "sighash" =>
        LET tx == Tx(probe.outs)
            msg == tap_sigmsg(tx, probe.i, probe.type, <<>>)
        IN  msg # <<>> =>
              \A o \in 1 .. probe.outs :
                 tap_sigmsg([tx EXCEPT !.outs[o] = TxOut(6, 6)], probe.i, probe.type, <<>>) # msg

\* btx_dlc_publish.py:100-107: the completed signature "settles the swap",
\* that is, passes BIP340 once the oracle has attested the outcome.
CompletedSettles ==
    probe.kind = "conditional" =>
        LET oracle == Oracle(probe.d, probe.r)
            c == build_oracle_conditional_order(probe, oracle, 5, probe.outcome)
            t == attest(oracle, 5, probe.outcome)
        IN  c.pre # NoSig =>
              schnorr_verify(order_sighash(c.body, c.pk), c.pk, completed_sig_from_adaptor(c.pre, t))

============================================================================
