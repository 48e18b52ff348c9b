-------------------------------- MODULE Etch --------------------------------
(***************************************************************************)
(* Etching a rune with btx_etch.py: a commit transaction that binds the    *)
(* rune's name, a wait until it is buried, then a reveal whose output 0    *)
(* receives the premine.  `etch` does it all or stops after the commit;    *)
(* `etch-reveal` finishes or retries from the saved state.  btxd's         *)
(* /rune/etch drives the regtest one-shot.  The chain may reorganise, any  *)
(* RPC may fail, and any command may die between two of its steps.         *)
(*                                                                         *)
(* Heights are kept as distances: the depth of the commit and of the       *)
(* reveal, and the blocks left until the name is unlocked.  The name is    *)
(* well formed; Runestone models the rest of validate_name.                *)
(***************************************************************************)
EXTENDS Integers, FiniteSets

CONSTANTS
    Coins,        \* the wallet's coins
    RuneCoins,    \* those that carry a rune
    Retries,      \* etch-reveal commands the operator may run, again and again
    Maturity,     \* confirmations the commit needs (6 in the code)
    MaxLocked,    \* bound: how far in the future the name may unlock
    MaxFaults,    \* bound on RPC failures and deaths of a command
    MaxReorgs,    \* bound on disconnected tip blocks
    NoTx          \* no reveal was accepted by the node

ASSUME EtchAssumption ==
    /\ RuneCoins \subseteq Coins
    /\ Maturity \in Nat \ {0}
    /\ MaxLocked \in Nat /\ MaxFaults \in Nat /\ MaxReorgs \in Nat
    /\ "etch" \notin Retries /\ NoTx \notin Retries \cup {"etch"}

VARIABLES
    opts,      \* the flags of this etch
    coins,     \* per wallet coin: present, locked, spent
    commit,    \* depth of the commit: -1 never sent, 0 in the mempool
    reveal,    \* the reveal the node accepted: which transaction, its depth
    locked,    \* blocks until the name is unlocked on this network
    foreign,   \* someone else's etch of the name is in the chain
    verdict,   \* what ord made of the mined reveal
    pc,        \* where each command is
    key,       \* where the reveal key survives: "file", "printed"
    known,     \* the preflight had a block height
    missed,    \* history: coins of which the scan learnt nothing, for want of
               \* an ord, of the list of coins, or of ord's answer
    stuck,     \* history: rune-bearing coins that the scan failed to lock
    fresh,     \* history: coins received between the scan and the commit
    faults, reorgs, cuts

vars == <<opts, coins, commit, reveal, locked, foreign, verdict, pc, key,
          known, missed, stuck, fresh, faults, reorgs, cuts>>
chain == <<commit, reveal, locked, foreign, verdict, reorgs, cuts>>
wallet == <<coins, missed, stuck, fresh>>

Commands == Retries \cup {"etch"}
Deep == Maturity + 1
Least(a, b) == IF a < b THEN a ELSE b

\* The reveal differs from run to run: without --premine-addr every attempt
\* takes a fresh address.
RevealTx(p) == IF opts.fixedAddr THEN "etch" ELSE p

Coin == [present : BOOLEAN, locked : BOOLEAN, spent : BOOLEAN]

TypeOK ==
    /\ opts \in [regtest : BOOLEAN, wait : BOOLEAN, stateFile : BOOLEAN,
                 ordUrl : BOOLEAN, fixedAddr : BOOLEAN]
    /\ coins \in [Coins -> Coin]
    /\ commit \in -1 .. Deep
    /\ reveal \in [tx : Commands \cup {NoTx}, depth : 0 .. 1]
    /\ locked \in 0 .. MaxLocked
    /\ foreign \in BOOLEAN /\ known \in BOOLEAN
    /\ verdict \in {"none", "minted", "cenotaph"}
    /\ pc \in [Commands -> {"idle", "checked", "scanned", "sent", "found", "saved",
                            "polling", "mature", "addressed", "mining", "ok",
                            "error", "refused", "stopped", "lost", "unreported", "dead"}]
    /\ key \subseteq {"file", "printed"}
    /\ missed \subseteq Coins /\ stuck \subseteq Coins /\ fresh \subseteq Coins
    /\ faults \in 0 .. MaxFaults /\ reorgs \in 0 .. MaxReorgs /\ cuts \in BOOLEAN

Init ==
    /\ opts \in [regtest : BOOLEAN, wait : BOOLEAN, stateFile : BOOLEAN,
                 ordUrl : BOOLEAN, fixedAddr : BOOLEAN]
    /\ opts.regtest => ~opts.wait /\ opts.ordUrl
    /\ coins \in [Coins -> [present : BOOLEAN, locked : {FALSE}, spent : {FALSE}]]
    /\ commit = -1 /\ reveal = [tx |-> NoTx, depth |-> 0]
    /\ locked \in 0 .. MaxLocked /\ foreign = FALSE /\ verdict = "none"
    /\ pc = [p \in Commands |-> "idle"]
    /\ key = {} /\ known = FALSE
    /\ missed = {} /\ stuck = {} /\ fresh = {}
    /\ faults = 0 /\ reorgs = 0 /\ cuts = FALSE

Goto(p, l) == pc' = [pc EXCEPT ![p] = l]
Fault == faults < MaxFaults /\ faults' = faults + 1
NoFault == UNCHANGED faults

----------------------------------------------------------------------------
\* The etch command.

\* h_rune_etch (regtest) refuses a name ord already knows; a failed lookup
\* counts as a free name.
NameTaken == opts.regtest /\ foreign

\* Mutant: no height gate.
TooShort_M == FALSE

\* The preflight refuses a name that is not unlocked at the height of the tip;
\* if getblockcount fails it checks the name without a height.
TooShort == locked > 0

Preflight ==
    /\ pc["etch"] = "idle"
    /\ \/ known' = TRUE /\ NoFault
          /\ Goto("etch", IF NameTaken \/ TooShort THEN "refused" ELSE "checked")
       \/ known' = FALSE /\ Fault
          /\ Goto("etch", IF NameTaken THEN "refused" ELSE "checked")
       \/ known' = TRUE /\ Fault
          /\ Goto("etch", IF TooShort THEN "refused" ELSE "checked")
    /\ UNCHANGED <<opts, chain, wallet, key>>

\* The coins of which listunspent tells.
Held == {c \in Coins : coins[c].present /\ ~coins[c].spent}

\* Mutant: the scan asks but locks nothing.
ScanCoins_M ==
    /\ pc["etch"] = "checked"
    /\ missed' = IF opts.ordUrl THEN {} ELSE Held
    /\ Goto("etch", "scanned")
    /\ UNCHANGED <<opts, coins, stuck, fresh, chain, key, known, faults>>

\* _lock_rune_utxos: listunspent, then per coin a query and, if ord reports a
\* rune, lockunspent.  Every failure is swallowed: of the list, and there is
\* nothing to lock; of a query or a lock, and that coin stays as it is.
ScanCoins ==
    /\ pc["etch"] = "checked"
    /\ \/ opts.ordUrl /\ missed' = {} /\ stuck' = {} /\ NoFault
       \/ /\ opts.ordUrl /\ Fault
          /\ missed' \in SUBSET Held
          /\ stuck' \in SUBSET ((Held \cap RuneCoins) \ missed')
       \/ ~opts.ordUrl /\ missed' = Held /\ stuck' = {} /\ NoFault
    /\ LET lockable == (Held \cap RuneCoins) \ (missed' \cup stuck')
       IN coins' = [c \in Coins |-> [coins[c] EXCEPT !.locked = @ \/ c \in lockable]]
    /\ Goto("etch", "scanned")
    /\ UNCHANGED <<opts, fresh, chain, key, known>>

\* sendtoaddress: Core picks any coin that is not locked, or fails.
SendCommit ==
    /\ pc["etch"] = "scanned"
    /\ LET spendable == {c \in Held : ~coins[c].locked} IN
       \/ \E c \in spendable :
            /\ coins' = [coins EXCEPT ![c].spent = TRUE]
            /\ commit' = 0 /\ Goto("etch", "sent") /\ NoFault
       \/ /\ IF spendable = {} THEN NoFault ELSE Fault
          /\ Goto("etch", "refused") /\ UNCHANGED <<coins, commit>>
    /\ UNCHANGED <<opts, missed, stuck, fresh, reveal, locked, foreign, verdict,
                   reorgs, cuts, key, known>>

\* getrawtransaction finds the commit's output; a failure here ends the
\* command before the key was written or printed anywhere.
LocateCommit ==
    /\ pc["etch"] = "sent"
    /\ \/ NoFault /\ Goto("etch", "found")
       \/ Fault /\ Goto("etch", "lost")
    /\ UNCHANGED <<opts, chain, wallet, key, known>>

SaveState ==
    /\ pc["etch"] = "found"
    /\ key' = IF opts.stateFile THEN key \cup {"file"} ELSE key
    /\ Goto("etch", "saved")
    /\ UNCHANGED <<opts, chain, wallet, known, faults>>

\* Without --wait the command prints the state, key included, and stops.
Announce ==
    /\ pc["etch"] = "saved" /\ ~opts.regtest
    /\ IF opts.wait THEN Goto("etch", "polling") /\ UNCHANGED key
                    ELSE Goto("etch", "stopped") /\ key' = key \cup {"printed"}
    /\ UNCHANGED <<opts, chain, wallet, known, faults>>

\* Mutant: one confirmation early.
MatureDepth_M == Maturity - 1

\* Deep enough for the reveal; a depth check forgets earlier reorganisations
\* as long as no reveal is out.
MatureDepth == Maturity

Checked == cuts' = (cuts /\ reveal.tx # NoTx)

\* The regtest one-shot mines the commit in and six blocks on top of it.
MineMaturity ==
    /\ pc["etch"] = "saved" /\ opts.regtest
    /\ \/ /\ NoFault /\ Goto("etch", "mature")
          /\ commit' = Deep /\ locked' = 0 /\ Checked
       \/ Fault /\ Goto("etch", "lost") /\ UNCHANGED <<commit, locked, cuts>>
    /\ UNCHANGED <<opts, reveal, foreign, verdict, reorgs, wallet, key, known>>

\* --wait: poll until the commit is deep enough, or time out and print.
Poll ==
    /\ pc["etch"] = "polling"
    /\ \/ /\ commit >= MatureDepth
          /\ Goto("etch", "mature") /\ Checked /\ UNCHANGED key
       \/ /\ commit < MatureDepth
          /\ Goto("etch", "stopped") /\ key' = key \cup {"printed"} /\ UNCHANGED cuts
    /\ UNCHANGED <<opts, wallet, commit, reveal, locked, foreign, verdict, reorgs, known, faults>>

----------------------------------------------------------------------------
\* The reveal, shared by etch and etch-reveal.

\* Mutant: etch-reveal wants exactly six confirmations.
StartReveal_M(p) ==
    /\ p \in Retries /\ pc[p] \in {"idle", "ok", "error", "lost", "unreported", "dead"}
    /\ key # {} /\ commit = MatureDepth
    /\ Goto(p, "mature") /\ Checked
    /\ UNCHANGED <<opts, wallet, commit, reveal, locked, foreign, verdict, reorgs, key, known, faults>>

\* etch-reveal runs from the saved or printed state; below maturity it stops
\* (regtest mines what is missing).
StartReveal(p) ==
    /\ p \in Retries /\ pc[p] \in {"idle", "ok", "error", "lost", "unreported", "dead"}
    /\ key # {} /\ commit >= 0
    /\ commit >= MatureDepth \/ opts.regtest
    /\ IF commit >= MatureDepth THEN UNCHANGED <<commit, locked>>
       ELSE commit' = MatureDepth /\ locked' = 0
    /\ Goto(p, "mature") /\ Checked
    /\ UNCHANGED <<opts, wallet, reveal, foreign, verdict, reorgs, key, known, faults>>

\* The destination address is fetched before the try block: a failure here
\* ends the command without the recovery text.
RevealAddress(p) ==
    /\ pc[p] = "mature"
    /\ \/ NoFault /\ Goto(p, "addressed")
       \/ Fault /\ Goto(p, "unreported")
    /\ UNCHANGED <<opts, chain, wallet, key, known>>

\* sendrawtransaction accepts the first spend of the commit and a repeat of
\* it while it is unconfirmed.
Accepts(p) ==
    \/ reveal.tx = NoTx
    \/ reveal.tx = RevealTx(p) /\ reveal.depth = 0

\* Mutant: a refusal is read as "already sent" and reported as a success.
SendReveal_M(p) ==
    /\ pc[p] = "addressed" /\ NoFault
    /\ reveal' = IF Accepts(p) THEN [tx |-> RevealTx(p), depth |-> 0] ELSE reveal
    /\ Goto(p, IF opts.regtest /\ Accepts(p) THEN "mining" ELSE "ok")
    /\ UNCHANGED <<opts, wallet, commit, key, locked, foreign, verdict, reorgs, cuts, known>>

SendReveal(p) ==
    /\ pc[p] = "addressed"
    /\ \/ /\ Accepts(p) /\ NoFault
          /\ reveal' = [tx |-> RevealTx(p), depth |-> 0]
          /\ Goto(p, IF opts.regtest THEN "mining" ELSE "ok") /\ UNCHANGED key
       \/ /\ IF Accepts(p) THEN Fault ELSE NoFault
          /\ Goto(p, "error") /\ key' = key \cup {"printed"} /\ UNCHANGED reveal
    /\ UNCHANGED <<opts, wallet, commit, locked, foreign, verdict, reorgs, cuts, known>>

----------------------------------------------------------------------------
\* The chain, as the node and ord see it.

\* ord: the commit is buried by Maturity confirmations before the reveal's
\* block, the name is unlocked, and nobody etched it first.
Verdict(before, left, taken) ==
    IF before >= Maturity /\ left = 0 /\ ~taken THEN "minted" ELSE "cenotaph"

Block(withCommit, withReveal, withForeign) ==
    /\ commit' = IF commit > 0 THEN Least(commit + 1, Deep)
                 ELSE IF withCommit THEN 1 ELSE commit
    /\ locked' = IF locked > 0 THEN locked - 1 ELSE 0
    /\ foreign' = (foreign \/ withForeign)
    /\ reveal' = [reveal EXCEPT !.depth = IF withReveal THEN 1 ELSE @]
    /\ verdict' = IF withReveal THEN Verdict(commit, locked', foreign') ELSE verdict
    /\ UNCHANGED <<reorgs, cuts>>

MineBlock(withCommit, withReveal, withForeign) ==
    /\ withCommit => commit = 0
    /\ withReveal => reveal.tx # NoTx /\ reveal.depth = 0 /\ (commit > 0 \/ withCommit)
    /\ withForeign => ~foreign
    /\ Block(withCommit, withReveal, withForeign)
    /\ UNCHANGED <<opts, wallet, pc, key, known, faults>>

\* generatetoaddress after a regtest reveal; its failure is reported as a
\* failed reveal although the node has the transaction.
MineReveal(p) ==
    /\ pc[p] = "mining"
    /\ \/ /\ NoFault /\ Goto(p, "ok")
          /\ Block(commit = 0, reveal.depth = 0, FALSE) /\ UNCHANGED key
       \/ /\ Fault /\ Goto(p, "error") /\ key' = key \cup {"printed"}
          /\ UNCHANGED chain
    /\ UNCHANGED <<opts, wallet, known>>

\* The tip is disconnected: what it held returns to the mempool.
Reorg ==
    /\ reorgs < MaxReorgs /\ commit > 0
    /\ reorgs' = reorgs + 1 /\ cuts' = TRUE
    /\ commit' = commit - 1
    /\ reveal' = [reveal EXCEPT !.depth = 0]
    /\ verdict' = "none"
    /\ locked' = Least(locked + 1, MaxLocked)
    /\ UNCHANGED <<opts, foreign, wallet, pc, key, known, faults>>

\* A payment reaches the wallet.
Receive(c) ==
    /\ ~coins[c].present
    /\ coins' = [coins EXCEPT ![c].present = TRUE]
    /\ fresh' = IF pc["etch"] = "scanned" THEN fresh \cup {c} ELSE fresh
    /\ UNCHANGED <<opts, missed, stuck, chain, pc, key, known, faults>>

\* A command dies between two of its steps.
Die(p) ==
    /\ pc[p] \notin {"idle", "ok", "error", "refused", "stopped", "lost", "unreported", "dead"}
    /\ Fault /\ Goto(p, "dead")
    /\ UNCHANGED <<opts, chain, wallet, key, known>>

EtchStep == Preflight \/ ScanCoins \/ SendCommit \/ LocateCommit \/ SaveState
            \/ Announce \/ MineMaturity \/ Poll
RevealStep(p) == StartReveal(p) \/ RevealAddress(p) \/ SendReveal(p) \/ MineReveal(p)
ChainStep == \E c, r, f \in BOOLEAN : MineBlock(c, r, f)

Next ==
    \/ EtchStep \/ ChainStep \/ Reorg
    \/ \E p \in Commands : RevealStep(p) \/ Die(p)
    \/ \E c \in Coins : Receive(c)

\* The command runs, blocks that carry what is waiting keep coming, and the
\* operator keeps one etch-reveal going until it is through.
Fairness ==
    /\ WF_vars(EtchStep)
    /\ WF_vars(MineBlock(commit = 0, FALSE, FALSE) /\ commit < Deep)
    /\ WF_vars(MineBlock(FALSE, TRUE, FALSE))
    /\ \A p \in Retries : WF_vars(RevealStep(p))
    /\ WF_vars(RevealStep("etch"))

Spec == Init /\ [][Next]_vars /\ Fairness

----------------------------------------------------------------------------
\* The name gate and the six-confirmation wait do their job: a mined reveal
\* mints, unless the preflight had no height, a reorganisation hit after the
\* last depth check, or someone else etched the name first.
EtchMints ==
    verdict = "cenotaph" => ~known \/ foreign \/ cuts

\* A rune-bearing coin pays for the commit, and its rune lands in the premine
\* output, only if the scan learnt nothing of the coin, or failed to lock it, or
\* the coin came after the scan: _lock_rune_utxos guards against anything else,
\* whatever ord, the node and the wallet do.
PremineIsClean ==
    \A c \in RuneCoins : coins[c].spent => c \in missed \cup stuck \cup fresh

\* _lock_rune_utxos (btx_etch.py:356-359): "Lock every wallet UTXO that ord
\* reports as rune-bearing ... an ord query failure just leaves that UTXO
\* unlocked."
ReportedRunesAreLocked ==
    \A c \in RuneCoins : coins[c].spent => c \in missed \cup fresh

\* A command that printed its reveal_txid and offer_outpoint names the
\* transaction that spends the commit, whichever attempts ran beside it.
ReportedRevealIsReal ==
    \A p \in Commands : pc[p] = "ok" => reveal.tx = RevealTx(p)

\* With the state saved, etch-reveal gets the reveal mined in the end,
\* through deaths, failed calls and reorganisations.
EtchCompletes == ("file" \in key) ~> (reveal.depth = 1)

\* _do_reveal (btx_etch.py:319-320): "On any failure, surface seckey_hex +
\* recovery so the committed funds aren't lost."
FailureSurfacesKey ==
    \A p \in Commands : pc[p] = "unreported" => key # {}

============================================================================
