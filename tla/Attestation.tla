----------------------------- MODULE Attestation -----------------------------
(***************************************************************************)
(* Attestations: the BIP341 sighash (btx_taproot.py), BIP322 signatures by *)
(* taproot addresses in the simple and the full format (btx_bip322.py),    *)
(* the tr(K) address they are made for (btx_descriptor.py), and the two    *)
(* front ends that sign and verify them (btx_attest.py, btxd.py).          *)
(*                                                                         *)
(* Serialised data is the sequence of its fields, a SHA256 of part of it a *)
(* sequence inside; only the tagged hashes that a signature signs are      *)
(* numbers.  A signature string is its prefix, how its base64 decodes, and *)
(* what it then holds.                                                     *)
(***************************************************************************)
EXTENDS Signatures

----------------------------------------------------------------------------
(* The sighash.                                                            *)

SIGHASH == [DEFAULT |-> 0, ALL |-> 1, NONE |-> 2, SINGLE |-> 3, ANYONECANPAY |-> 128]
HashTypes == {0, 1, 2, 3, 129, 130, 131}

Outpoint(in) == <<in.txid, in.vout>>
Spent(in) == Outpoint(in) \o <<in.amount, in.spk, in.sequence>>
EachIn(tx, Field(_)) == FlattenSeq([i \in DOMAIN tx.ins |-> Field(tx.ins[i])])

\* Mutant: the amounts and the scripts that are spent are left out.
CommonInputs_M(tx) == <<EachIn(tx, Outpoint), EachIn(tx, LAMBDA in : <<in.sequence>>)>>

CommonInputs(tx) ==
    <<EachIn(tx, Outpoint), EachIn(tx, LAMBDA in : <<in.amount>>),
      EachIn(tx, LAMBDA in : <<in.spk>>), EachIn(tx, LAMBDA in : <<in.sequence>>)>>

\* The message of input i (from 1); <<>> where the code raises.  A leaf is the
\* hash of the tapscript in a script-path spend, <<>> in a key-path spend.
SigMsg(tx, i, type, anyone, out, leaf) ==
    <<<<type, tx.version, tx.locktime>>>>
    \o (IF anyone THEN <<>> ELSE CommonInputs(tx))
    \o (IF out \in {SIGHASH.NONE, SIGHASH.SINGLE} THEN <<>> ELSE <<FlattenSeq(tx.outs)>>)
    \o <<<<2 * Len(leaf)>>>>
    \o <<IF anyone THEN Spent(tx.ins[i]) ELSE <<i - 1>>>>
    \o (IF out = SIGHASH.SINGLE THEN <<tx.outs[i]>> ELSE <<>>)
    \o (IF leaf = <<>> THEN <<>> ELSE <<leaf \o <<0, 0>>>>)

tap_sigmsg(tx, i, type, leaf) ==
    IF type \notin HashTypes \/ (type % 4 = SIGHASH.SINGLE /\ i > Len(tx.outs)) THEN <<>>
    ELSE SigMsg(tx, i, type, type >= SIGHASH.ANYONECANPAY, type % 4, leaf)

AttestTag == [sighash |-> 16, message |-> 17, toSpend |-> 18]
tap_sighash(tx, i, type, leaf) == tagged_hash(AttestTag.sighash, FlattenSeq(tap_sigmsg(tx, i, type, leaf)))

----------------------------------------------------------------------------
(* BIP322.                                                                 *)

OpReturn == 6    \* the script of to_sign's only output
TxOut(value, spk) == <<value, spk>>

message_hash(message) == tagged_hash(AttestTag.message, <<message>>)
to_spend_txid(msgHash, spk) == tagged_hash(AttestTag.toSpend, <<msgHash, spk>>)

\* A taproot script is its output key.
to_sign(message, xonly, version, locktime, sequence) ==
    [version |-> version, locktime |-> locktime,
     ins |-> <<[txid |-> to_spend_txid(message_hash(message), xonly), vout |-> 0,
                amount |-> 0, spk |-> xonly, sequence |-> sequence]>>,
     outs |-> <<TxOut(0, OpReturn)>>]

bip322_sighash(message, xonly, type) == tap_sighash(to_sign(message, xonly, 0, 0, 0), 1, type, <<>>)
bip322_sighash_full(message, xonly, tx) ==
    tap_sighash(to_sign(message, xonly, tx.version, tx.locktime, tx.sequence), 1, SIGHASH.DEFAULT, <<>>)

\* Mutant: the tweak is added to the secret whatever the parity of its point.
taproot_tweak_seckey_M(secret) ==
    LET out == taproot_tweak_pubkey(Evened(secret), 0)
        d == (secret + tagged_hash(Tag.tweak, <<Evened(secret), 0>>)) % Q
    IN IF out.xonly = 0 THEN 0 ELSE IF out.parity = 1 THEN Neg(d) ELSE d

\* The secret of the output key of tr(K) with no scripts; 0 where it raises.
taproot_tweak_seckey(secret) ==
    LET out == taproot_tweak_pubkey(Evened(secret), 0)
        d == (Evened(secret) + tagged_hash(Tag.tweak, <<Evened(secret), 0>>)) % Q
    IN IF out.xonly = 0 THEN 0 ELSE IF out.parity = 1 THEN Neg(d) ELSE d

NoFlag == 256    \* a signature of 64 bytes, without a sighash byte
Item(sig, flag) == [r |-> sig.r, s |-> sig.s, flag |-> flag]
Simple(stack) == [prefix |-> "smp", decodes |-> "whole", stack |-> stack]

OutputKey(secret) == taproot_tweak_pubkey(Evened(secret), 0).xonly
sign_simple_p2tr(message, secret, flag, aux) ==
    Simple(<<Item(schnorr_sign(bip322_sighash(message, OutputKey(secret), flag % 256),
                               taproot_tweak_seckey(secret), aux), flag)>>)

\* The choice is the version, locktime and sequence to sign under.
sign_full_p2tr(message, secret, choice, aux) ==
    LET xonly == OutputKey(secret)
        sig == schnorr_sign(bip322_sighash_full(message, xonly, choice), taproot_tweak_seckey(secret), aux)
    IN [prefix |-> "ful", decodes |-> "whole", stack |-> <<Item(sig, NoFlag)>>, inputs |-> 1, outputs |-> 1,
        prevout |-> <<to_spend_txid(message_hash(message), xonly), 0>>, out |-> TxOut(0, OpReturn),
        version |-> choice.version, locktime |-> choice.locktime, sequence |-> choice.sequence]

\* A WIF of a main net key: 33 bytes, or 34 of which the last says that the
\* public key is compressed; -1 where it raises.
decode_wif(wif) ==
    IF wif.checks /\ wif.version = 128 /\ (wif.size = 33 \/ (wif.size = 34 /\ wif.last = 1))
    THEN wif.secret ELSE -1

\* "btx_attest.py sign": the exit code, and the signature with code 0.  The
\* auxiliary randomness is -1 where it is not 32 bytes of hex.
cmd_sign(wif, message, format, choice, aux) ==
    LET secret == decode_wif(wif)
        sig == IF format = "simple" THEN sign_simple_p2tr(message, secret, NoFlag, aux)
               ELSE sign_full_p2tr(message, secret, choice, aux)
    IN IF secret = -1 \/ aux = -1 THEN [code |-> 2]
       ELSE IF secret = 0 \/ OutputKey(secret) = 0 \/ sig.stack[1].r = 0 THEN [code |-> 3]
       ELSE [code |-> 0, sig |-> sig]

----------------------------------------------------------------------------
(* Addresses.                                                              *)

\* bech32 up to version 0, bech32m from version 1; spaces are no charset.
Checksum(witver) == IF witver = 0 THEN "bech32" ELSE "bech32m"
segwit_address(xonly, hrp) ==
    [hrp |-> hrp, witver |-> 1, program |-> xonly, size |-> 32, checksum |-> Checksum(1), spaces |-> FALSE]
tr_key_only_address(key, hrp) == segwit_address(taproot_tweak_pubkey(key, 0).xonly, hrp)

decode_segwit_address(addr, hrp) ==
    /\ addr.hrp = hrp /\ ~addr.spaces
    /\ addr.checksum = Checksum(addr.witver)
    /\ addr.size \in 2 .. 40
    /\ addr.witver = 0 => addr.size \in {20, 32}
IsTaproot(addr, hrp) == decode_segwit_address(addr, hrp) /\ addr.witver = 1 /\ addr.size = 32

----------------------------------------------------------------------------
(* Verification: "yes", "no", or "raise" for an exception that is not a    *)
(* ValueError, as when the bytes end inside a length.                      *)

Verdict(ok) == IF ok THEN "yes" ELSE "no"

verify_simple_p2tr(message, addr, sig) ==
    IF ~IsTaproot(addr, "bc") THEN "no"
    ELSE IF sig.decodes = "cut" THEN "raise"
    ELSE Verdict(/\ sig.decodes = "whole"
                 /\ Len(sig.stack) = 1
                 /\ sig.stack[1].flag \in {NoFlag, SIGHASH.DEFAULT, SIGHASH.ALL}
                 /\ schnorr_verify(bip322_sighash(message, addr.program, sig.stack[1].flag % 256),
                                   addr.program, [r |-> sig.stack[1].r, s |-> sig.stack[1].s]))

verify_full_p2tr(message, addr, sig) ==
    IF sig.decodes = "cut" THEN "raise"
    ELSE Verdict(/\ sig.decodes = "whole" /\ sig.inputs = 1 /\ sig.outputs = 1
                 /\ sig.out = TxOut(0, OpReturn)
                 /\ IsTaproot(addr, "bc")
                 /\ sig.prevout = <<to_spend_txid(message_hash(message), addr.program), 0>>
                 /\ Len(sig.stack) = 1
                 /\ sig.stack[1].flag \in {NoFlag, SIGHASH.DEFAULT}
                 /\ schnorr_verify(bip322_sighash_full(message, addr.program, sig), addr.program,
                                   [r |-> sig.stack[1].r, s |-> sig.stack[1].s]))

Verified(message, addr, sig) ==
    IF sig.prefix = "smp" THEN verify_simple_p2tr(message, addr, sig) ELSE verify_full_p2tr(message, addr, sig)

\* The exit code of "btx_attest.py verify".  The address is stripped for the
\* checks before the verifier is called, not for the verifier.
cmd_verify(message, addr, sig) ==
    LET stripped == [addr EXCEPT !.spaces = FALSE]
        verdict == Verified(message, addr, sig)
    IN IF \/ addr.hrp \notin {"bc", "tb"} \/ addr.witver # 1
          \/ ~IsTaproot(stripped, addr.hrp)
          \/ sig.prefix \notin {"smp", "ful"}
          \/ verdict = "raise"
       THEN 2 ELSE IF verdict = "yes" THEN 0 ELSE 1

\* The reply of /api/attest/verify: valid or not, or the status of an error.
\* _guard turns an exception into a server error.
h_attest_verify(message, addr, sig) ==
    IF addr.hrp \notin {"bc", "tb"} \/ addr.witver # 1 \/ sig.prefix \notin {"smp", "ful"} THEN "bad request"
    ELSE IF addr.hrp = "tb" THEN "not implemented"
    ELSE LET verdict == Verified(message, addr, sig)
         IN IF verdict = "raise" THEN "server error" ELSE IF verdict = "yes" THEN "valid" ELSE "invalid"

============================================================================
