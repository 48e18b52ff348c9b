------------------------------ MODULE EtchProofs ------------------------------
(***************************************************************************)
(* Theorems about etching a rune, for every set of coins and of retries,   *)
(* every maturity, and any number of faults and reorganisations; and about *)
(* the names that may be etched at a height.                               *)
(***************************************************************************)
EXTENDS Etch, Runestone, WellFoundedInduction, TLAPS

USE EtchAssumption

\* Before the commit is sent there is nothing to reveal, and etch-reveal has
\* nothing to run from.
Early == pc["etch"] \in {"idle", "checked", "scanned"}
EarlyIsEmpty ==
    Early => /\ commit = -1 /\ key = {} /\ reveal.tx = NoTx /\ verdict = "none"
             /\ \A p \in Retries : pc[p] = "idle"

\* The coins that the scan cannot protect.
Spared == missed \cup stuck \cup fresh

\* Before the commit no rune-bearing coin is spent, and between the scan and the
\* commit each that the wallet holds is locked but for those.
RunesLocked ==
    /\ PremineIsClean
    /\ Early => \A c \in RuneCoins :
         /\ ~coins[c].spent
         /\ pc["etch"] = "scanned" /\ coins[c].present => coins[c].locked \/ c \in Spared

\* The node keeps the reveal it has accepted.
RevealKept == \A p \in Commands : pc[p] \in {"ok", "mining"} => reveal.tx = RevealTx(p)

\* Who is past the depth check, and what was sent by them, has a buried commit,
\* unless the tip was disconnected since.
Buried ==
    ~cuts /\ (reveal.tx # NoTx \/ \E p \in Commands : pc[p] \in {"mature", "addressed"})
        => commit >= Maturity

\* The commit ages as fast as the name's lock runs out: with the height known,
\* a buried commit means that the name unlocks with the next block.
Unlocking ==
    known => /\ pc["etch"] \in {"checked", "scanned"} => locked <= 1
             /\ commit >= 0 => commit + locked <= Deep

\* A verdict is about a reveal that the node accepted.
VerdictIsReal == verdict # "none" => reveal.tx # NoTx

EtchInv ==
    /\ TypeOK /\ EarlyIsEmpty /\ RunesLocked /\ RevealKept
    /\ Buried /\ Unlocking /\ VerdictIsReal /\ EtchMints

-----------------------------------------------------------------------------
(* What the proofs of the steps share. *)

Labels == {"idle", "checked", "scanned", "sent", "found", "saved",
           "polling", "mature", "addressed", "mining", "ok",
           "error", "refused", "stopped", "lost", "unreported", "dead"}

LEMMA Moves ==
    ASSUME TypeOK, NEW p \in Commands, NEW l \in Labels, Goto(p, l)
    PROVE  /\ pc' \in [Commands -> Labels] /\ pc'[p] = l
           /\ \A q \in Commands : q # p => pc'[q] = pc[q]
  BY DEF TypeOK, Goto, Labels

\* The fields of a coin are Booleans, whatever they are made of.
LEMMA CoinFields ==
    ASSUME NEW c \in Coin, NEW s \in BOOLEAN
    PROVE  /\ [c EXCEPT !.spent = s] \in Coin
           /\ [c EXCEPT !.present = s] \in Coin /\ [c EXCEPT !.present = s].locked = c.locked
           /\ [c EXCEPT !.present = s].spent = c.spent
  BY DEF Coin

LEMMA CoinLocked ==
    ASSUME NEW c \in Coin, NEW l \in BOOLEAN
    PROVE  /\ [c EXCEPT !.locked = l] \in Coin /\ [c EXCEPT !.locked = l].locked = l
           /\ [c EXCEPT !.locked = l].spent = c.spent
           /\ [c EXCEPT !.locked = l].present = c.present
  BY DEF Coin

LEMMA FaultCounted == ASSUME TypeOK, Fault \/ NoFault PROVE faults' \in 0 .. MaxFaults
  BY DEF TypeOK, Fault, NoFault

\* Retries start with a key, and only etch itself makes one.
LEMMA NoKeyBefore ==
    ASSUME EtchInv, NEW p \in Commands, pc[p] # "idle", NEW l \in Labels, Goto(p, l),
           l \notin {"idle", "checked", "scanned"}
    PROVE  ~Early'
<1>1. "etch" \in Commands /\ \A r \in Retries : r \in Commands /\ r # "etch"
  BY DEF Commands
<1>2. pc'[p] = l /\ \A q \in Commands : q # p => pc'[q] = pc[q]
  BY Moves DEF EtchInv
<1>3. CASE p = "etch"
  BY <1>2, <1>3 DEF Early
<1>4. CASE p # "etch"
  <2>1. p \in Retries
    BY <1>4 DEF Commands
  <2>2. ~Early
    BY <2>1 DEF EtchInv, EarlyIsEmpty
  <2> QED
    BY <1>1, <1>2, <1>4, <2>2 DEF Early
<1> QED
  BY <1>3, <1>4

\* Whoever leaves the wallet alone and does not bring etch to its commit keeps
\* the rune-bearing coins where they are.
LEMMA RunesStay ==
    ASSUME EtchInv, UNCHANGED wallet, ~Early' \/ pc'["etch"] = pc["etch"]
    PROVE  RunesLocked'
  BY DEF EtchInv, RunesLocked, PremineIsClean, Spared, Early, wallet

\* A command goes on, or ends, without touching chain or wallet.
LEMMA GoesOn ==
    ASSUME EtchInv, NEW p \in Commands, pc[p] # "idle", NEW l \in Labels, Goto(p, l),
           l \notin {"idle", "checked", "scanned", "mature", "ok", "mining"},
           l = "addressed" => pc[p] = "mature",
           UNCHANGED <<opts, chain, wallet, known>>,
           key' \subseteq {"file", "printed"}, faults' \in 0 .. MaxFaults
    PROVE  EtchInv'
<1> USE DEF chain, wallet
<1>1. pc' \in [Commands -> Labels] /\ pc'[p] = l /\ \A q \in Commands : q # p => pc'[q] = pc[q]
  BY Moves DEF EtchInv
<1>2. ~Early'
  BY NoKeyBefore
<1>3. TypeOK'
  BY <1>1 DEF EtchInv, TypeOK, Labels
<1>4. EarlyIsEmpty'
  BY <1>2 DEF EarlyIsEmpty
<1>5. RunesLocked' /\ VerdictIsReal' /\ EtchMints'
  BY <1>2, RunesStay DEF EtchInv, VerdictIsReal, EtchMints
<1>6. RevealKept'
  BY <1>1 DEF EtchInv, RevealKept, RevealTx
<1>7. Buried'
  BY <1>1 DEF EtchInv, Buried
<1>8. Unlocking'
  BY <1>2 DEF EtchInv, Unlocking, Early
<1> QED
  BY <1>3, <1>4, <1>5, <1>6, <1>7, <1>8 DEF EtchInv

\* A command finds the commit deep enough for the reveal.
LEMMA Matures ==
    ASSUME EtchInv, ~Early, NEW p \in Commands, Goto(p, "mature"), Checked,
           \/ UNCHANGED <<commit, locked>>
           \/ commit' \in {Maturity, Deep} /\ locked' = 0,
           commit' >= Maturity,
           UNCHANGED <<opts, wallet, reveal, foreign, verdict, reorgs, key, known>>,
           faults' \in 0 .. MaxFaults
    PROVE  EtchInv'
<1> USE DEF wallet
<1>0. "mature" \in Labels
  BY DEF Labels
<1>1. /\ pc' \in [Commands -> Labels] /\ pc'[p] = "mature"
      /\ \A q \in Commands : q # p => pc'[q] = pc[q]
  BY <1>0, Moves DEF EtchInv
<1>2. ~Early'
  BY <1>1 DEF Early, Commands
<1>3. Maturity \in Nat /\ Deep = Maturity + 1 /\ Maturity \in -1 .. Deep /\ Deep \in -1 .. Deep
      /\ 0 \in 0 .. MaxLocked
  BY DEF Deep
<1>4. TypeOK'
  <2>1. commit' \in -1 .. Deep /\ locked' \in 0 .. MaxLocked
    BY <1>3 DEF EtchInv, TypeOK
  <2>2. cuts' \in BOOLEAN
    BY DEF Checked
  <2> QED
    BY <1>1, <2>1, <2>2 DEF EtchInv, TypeOK, Labels
<1>5. EarlyIsEmpty'
  BY <1>2 DEF EarlyIsEmpty
<1>6. RunesLocked' /\ VerdictIsReal'
  BY <1>2, RunesStay DEF EtchInv, VerdictIsReal
<1>7. EtchMints'
  BY DEF EtchInv, VerdictIsReal, EtchMints, Checked
<1>8. RevealKept'
  BY <1>1 DEF EtchInv, RevealKept, RevealTx
<1>9. Buried'
  BY DEF Buried
<1>10. Unlocking'
  BY <1>2, <1>3 DEF EtchInv, Unlocking, Early
<1> QED
  BY <1>4, <1>5, <1>6, <1>7, <1>8, <1>9, <1>10 DEF EtchInv

-----------------------------------------------------------------------------
(* The steps of etch. *)

LEMMA InitHolds == Init => EtchInv
<1> SUFFICES ASSUME Init PROVE EtchInv
  OBVIOUS
<1>1. "etch" \in Commands
  BY DEF Commands
<1>2. TypeOK
  <2>1. coins \in [Coins -> Coin]
    <3>1. ASSUME NEW c \in [present : BOOLEAN, locked : {FALSE}, spent : {FALSE}]
          PROVE  c \in Coin
      <4>1. c = [present |-> c.present, locked |-> c.locked, spent |-> c.spent]
        OBVIOUS
      <4>2. c.present \in BOOLEAN /\ c.locked \in BOOLEAN /\ c.spent \in BOOLEAN
        OBVIOUS
      <4> QED
        BY <4>1, <4>2 DEF Coin
    <3>2. coins \in [Coins -> [present : BOOLEAN, locked : {FALSE}, spent : {FALSE}]]
      BY DEF Init
    <3> QED
      BY <3>1, <3>2
  <2>2. opts \in [regtest : BOOLEAN, wait : BOOLEAN, stateFile : BOOLEAN,
                  ordUrl : BOOLEAN, fixedAddr : BOOLEAN]
    BY DEF Init
  <2>3. commit \in -1 .. Deep /\ locked \in 0 .. MaxLocked /\ faults \in 0 .. MaxFaults
        /\ reorgs \in 0 .. MaxReorgs
    BY DEF Init, Deep
  <2>4. reveal \in [tx : Commands \cup {NoTx}, depth : 0 .. 1]
    BY DEF Init
  <2>5. foreign \in BOOLEAN /\ known \in BOOLEAN /\ cuts \in BOOLEAN
    BY DEF Init
  <2>6. pc \in [Commands -> Labels]
    BY DEF Init, Labels
  <2>7. verdict = "none" /\ key = {} /\ missed = {} /\ stuck = {} /\ fresh = {}
    BY DEF Init
  <2> HIDE DEF Labels
  <2> QED
    BY <2>1, <2>2, <2>3, <2>4, <2>5, <2>6, <2>7 DEF TypeOK, Labels
<1>3. EarlyIsEmpty /\ VerdictIsReal /\ EtchMints
  BY DEF Init, EarlyIsEmpty, VerdictIsReal, EtchMints, Commands
<1>5. RunesLocked
  BY <1>1 DEF Init, RunesLocked, PremineIsClean, Commands
<1>4. RevealKept /\ Buried /\ Unlocking
  BY <1>1 DEF Init, RevealKept, Buried, Unlocking
<1> QED
  BY <1>2, <1>3, <1>4, <1>5 DEF EtchInv

\* Without a change of what the invariant is about it holds on.
LEMMA StutterKeeps == EtchInv /\ UNCHANGED vars => EtchInv'
<1> SUFFICES ASSUME EtchInv, UNCHANGED vars PROVE EtchInv'
  OBVIOUS
<1> USE DEF vars
<1>1. TypeOK'
  BY DEF EtchInv, TypeOK
<1>2. EarlyIsEmpty' /\ RunesLocked' /\ VerdictIsReal' /\ EtchMints'
  BY RunesStay DEF EtchInv, EarlyIsEmpty, Early, VerdictIsReal, EtchMints, wallet
<1>3. RevealKept' /\ Buried' /\ Unlocking'
  BY DEF EtchInv, RevealKept, RevealTx, Buried, Unlocking
<1> QED
  BY <1>1, <1>2, <1>3 DEF EtchInv

LEMMA PreflightKeeps == EtchInv /\ Preflight => EtchInv'
<1> SUFFICES ASSUME EtchInv, Preflight PROVE EtchInv'
  OBVIOUS
<1> USE DEF chain, wallet
<1>1. PICK l \in {"refused", "checked"} :
        /\ Goto("etch", l) /\ known' \in BOOLEAN /\ (Fault \/ NoFault)
        /\ known' /\ l = "checked" => ~TooShort
  BY DEF Preflight
<1>2. /\ pc["etch"] = "idle" /\ "etch" \in Commands
      /\ UNCHANGED <<opts, chain, wallet, key>>
  BY DEF Preflight, Commands
<1>3. /\ pc' \in [Commands -> Labels] /\ pc'["etch"] = l
      /\ \A q \in Commands : q # "etch" => pc'[q] = pc[q]
  <2>1. l \in Labels
    BY DEF Labels
  <2> QED
    BY <1>1, <1>2, <2>1, Moves DEF EtchInv
<1>4. Early /\ commit = -1 /\ reveal.tx = NoTx /\ verdict = "none"
  BY <1>2 DEF Early, EtchInv, EarlyIsEmpty
<1>5. TypeOK'
  BY <1>1, <1>2, <1>3, FaultCounted DEF EtchInv, TypeOK, Labels
<1>6. EarlyIsEmpty'
  BY <1>2, <1>3, <1>4 DEF EtchInv, EarlyIsEmpty, Commands
<1>7. RunesLocked' /\ VerdictIsReal' /\ EtchMints'
  BY <1>2, <1>3, <1>4 DEF EtchInv, RunesLocked, PremineIsClean, Early, VerdictIsReal, EtchMints
<1>8. RevealKept'
  BY <1>2, <1>3 DEF EtchInv, RevealKept, RevealTx
<1>9. Buried'
  BY <1>2, <1>3 DEF EtchInv, Buried
<1>10. Unlocking'
  <2>1. ~TooShort => locked <= 1
    BY DEF TooShort, EtchInv, TypeOK
  <2> QED
    BY <1>1, <1>2, <1>3, <1>4, <2>1 DEF Unlocking
<1> QED
  BY <1>5, <1>6, <1>7, <1>8, <1>9, <1>10 DEF EtchInv

\* Every rune-bearing coin that the scan can protect is locked.
LEMMA ScanKeeps == EtchInv /\ ScanCoins => EtchInv'
<1> SUFFICES ASSUME EtchInv, ScanCoins PROVE EtchInv'
  OBVIOUS
<1> USE DEF chain
<1> DEFINE lockable == (Held \cap RuneCoins) \ (missed' \cup stuck')
           Locked(c) == [coins[c] EXCEPT !.locked = @ \/ c \in lockable]
<1>1. /\ pc["etch"] = "checked" /\ "etch" \in Commands /\ Goto("etch", "scanned")
      /\ UNCHANGED <<opts, fresh, chain, key, known>>
      /\ coins' = [c \in Coins |-> Locked(c)]
  BY DEF ScanCoins, Commands
<1>2. missed' \subseteq Coins /\ stuck' \subseteq Coins /\ faults' \in 0 .. MaxFaults
  BY FaultCounted DEF ScanCoins, Held, EtchInv
<1>3. \A c \in Coins : /\ Locked(c) \in Coin /\ Locked(c).spent = coins[c].spent
                       /\ Locked(c).present = coins[c].present
                       /\ c \in lockable => Locked(c).locked
  <2> TAKE c \in Coins
  <2>1. coins[c] \in Coin
    BY DEF EtchInv, TypeOK
  <2> DEFINE l == coins[c].locked \/ c \in lockable
  <2>2. l \in BOOLEAN /\ (c \in lockable => l)
    OBVIOUS
  <2>3. Locked(c) = [coins[c] EXCEPT !.locked = l]
    OBVIOUS
  <2> HIDE DEF l, lockable
  <2>4. /\ [coins[c] EXCEPT !.locked = l] \in Coin
        /\ [coins[c] EXCEPT !.locked = l].locked = l
        /\ [coins[c] EXCEPT !.locked = l].spent = coins[c].spent
        /\ [coins[c] EXCEPT !.locked = l].present = coins[c].present
    BY ONLY <2>1, <2>2, CoinLocked
  <2> QED
    BY <2>2, <2>3, <2>4
<1> HIDE DEF Locked
<1>4. coins' \in [Coins -> Coin]
  BY <1>1, <1>3
<1>5. /\ pc' \in [Commands -> Labels] /\ pc'["etch"] = "scanned"
      /\ \A q \in Commands : q # "etch" => pc'[q] = pc[q]
  BY <1>1, Moves DEF EtchInv, Labels
<1>6. TypeOK'
  BY <1>1, <1>2, <1>4, <1>5 DEF EtchInv, TypeOK, Labels
<1>7. RunesLocked'
  <2>1. \A c \in RuneCoins : ~coins[c].spent
    BY <1>1 DEF EtchInv, RunesLocked, Early
  <2>2. ASSUME NEW c \in RuneCoins
        PROVE  /\ ~coins'[c].spent
               /\ coins'[c].present => coins'[c].locked \/ c \in Spared'
    <3>1. coins'[c] = Locked(c) /\ c \in Coins
      BY <1>1
    <3>2. coins[c].present /\ c \notin Spared' => c \in lockable
      BY <2>1, <3>1 DEF Spared, Held
    <3> HIDE DEF lockable
    <3> QED
      BY <1>3, <2>1, <3>1, <3>2
  <2> QED
    BY <2>2 DEF RunesLocked, PremineIsClean
<1>8. EarlyIsEmpty'
  BY <1>1, <1>5 DEF EtchInv, EarlyIsEmpty, Early, Commands
<1>9. VerdictIsReal' /\ EtchMints'
  BY <1>1 DEF EtchInv, VerdictIsReal, EtchMints
<1>10. RevealKept'
  BY <1>1, <1>5 DEF EtchInv, RevealKept, RevealTx
<1>11. Buried'
  BY <1>1, <1>5 DEF EtchInv, Buried
<1>12. Unlocking'
  BY <1>1, <1>5 DEF EtchInv, Unlocking
<1> QED
  BY <1>6, <1>7, <1>8, <1>9, <1>10, <1>11, <1>12 DEF EtchInv

\* Core funds the commit with an unlocked coin.
LEMMA SendCommitKeeps == EtchInv /\ SendCommit => EtchInv'
<1> SUFFICES ASSUME EtchInv, SendCommit PROVE EtchInv'
  OBVIOUS
<1>1. /\ pc["etch"] = "scanned" /\ "etch" \in Commands
      /\ UNCHANGED <<opts, missed, stuck, fresh, reveal, locked, foreign, verdict,
                     reorgs, cuts, key, known>>
      /\ faults' \in 0 .. MaxFaults
  BY FaultCounted DEF SendCommit, Commands, EtchInv
<1>2. ASSUME NEW c \in Held, ~coins[c].locked,
             coins' = [coins EXCEPT ![c].spent = TRUE],
             commit' = 0, Goto("etch", "sent")
      PROVE  EtchInv'
  <2>0. c \in Coins /\ coins[c].present
    BY DEF Held
  <2>1. /\ coins' \in [Coins -> Coin]
        /\ \A d \in Coins : d # c => coins'[d] = coins[d]
    <3>1. coins \in [Coins -> Coin] /\ coins[c] \in Coin
      BY <2>0 DEF EtchInv, TypeOK
    <3>2. coins' = [coins EXCEPT ![c] = [coins[c] EXCEPT !.spent = TRUE]]
      BY <1>2
    <3>3. [coins[c] EXCEPT !.spent = TRUE] \in Coin
      BY <3>1, CoinFields
    <3> QED
      BY <3>1, <3>2, <3>3
  <2>2. /\ pc' \in [Commands -> Labels] /\ pc'["etch"] = "sent"
        /\ \A q \in Commands : q # "etch" => pc'[q] = pc[q]
    BY <1>1, <1>2, Moves DEF EtchInv, Labels
  <2>3. /\ commit = -1 /\ reveal.tx = NoTx /\ verdict = "none"
        /\ \A p \in Retries : pc[p] = "idle"
    BY <1>1 DEF EtchInv, EarlyIsEmpty, Early
  <2>4. TypeOK'
    BY <1>1, <1>2, <2>1, <2>2 DEF EtchInv, TypeOK, Labels, Deep
  <2>5. EarlyIsEmpty'
    BY <2>2 DEF EarlyIsEmpty, Early
  <2>6. RunesLocked'
    <3>1. \A d \in RuneCoins : ~coins[d].spent /\ (d = c => c \in Spared)
      BY <1>1, <1>2, <2>0 DEF EtchInv, RunesLocked, Early
    <3>2. \A d \in RuneCoins : coins'[d].spent => d \in Spared
      BY <2>1, <3>1
    <3> QED
      BY <1>1, <2>2, <3>2 DEF RunesLocked, PremineIsClean, Early, Spared
  <2>7. VerdictIsReal' /\ EtchMints'
    BY <1>1 DEF EtchInv, VerdictIsReal, EtchMints
  <2>8. RevealKept' /\ Buried'
    BY <1>1, <2>2, <2>3 DEF RevealKept, Buried, Commands
  <2>9. Unlocking'
    <3>1. known => locked <= 1
      BY <1>1 DEF EtchInv, Unlocking
    <3>2. locked <= 1 => locked <= Deep
      BY DEF Deep, EtchInv, TypeOK
    <3>3. locked' \in Nat /\ 0 + locked' = locked'
      BY <1>1 DEF EtchInv, TypeOK
    <3> QED
      BY <1>1, <1>2, <2>2, <3>1, <3>2, <3>3 DEF Unlocking, Deep
  <2> QED
    BY <2>4, <2>5, <2>6, <2>7, <2>8, <2>9 DEF EtchInv
<1>3. CASE Goto("etch", "refused") /\ UNCHANGED <<coins, commit>>
  BY <1>1, <1>3, GoesOn DEF Labels, chain, wallet, EtchInv, TypeOK
<1> QED
  BY <1>2, <1>3 DEF SendCommit

LEMMA LocateKeeps == EtchInv /\ LocateCommit => EtchInv'
<1> SUFFICES ASSUME EtchInv, LocateCommit PROVE EtchInv'
  OBVIOUS
<1>1. /\ pc["etch"] = "sent" /\ "etch" \in Commands /\ UNCHANGED <<opts, chain, wallet, key, known>>
      /\ faults' \in 0 .. MaxFaults /\ key' \subseteq {"file", "printed"}
      /\ Goto("etch", "found") \/ Goto("etch", "lost")
  BY FaultCounted DEF LocateCommit, Commands, EtchInv, TypeOK
<1> QED
  BY <1>1, GoesOn DEF Labels

LEMMA SaveKeeps == EtchInv /\ SaveState => EtchInv'
<1> SUFFICES ASSUME EtchInv, SaveState PROVE EtchInv'
  OBVIOUS
<1>1. /\ pc["etch"] = "found" /\ "etch" \in Commands /\ UNCHANGED <<opts, chain, wallet, known>>
      /\ faults' \in 0 .. MaxFaults /\ key' \subseteq {"file", "printed"} /\ Goto("etch", "saved")
  BY DEF SaveState, Commands, EtchInv, TypeOK
<1> QED
  BY <1>1, GoesOn DEF Labels

LEMMA AnnounceKeeps == EtchInv /\ Announce => EtchInv'
<1> SUFFICES ASSUME EtchInv, Announce PROVE EtchInv'
  OBVIOUS
<1>1. /\ pc["etch"] = "saved" /\ "etch" \in Commands /\ UNCHANGED <<opts, chain, wallet, known>>
      /\ faults' \in 0 .. MaxFaults /\ key' \subseteq {"file", "printed"}
      /\ Goto("etch", "polling") \/ Goto("etch", "stopped")
  BY DEF Announce, Commands, EtchInv, TypeOK
<1> QED
  BY <1>1, GoesOn DEF Labels

LEMMA MineMaturityKeeps == EtchInv /\ MineMaturity => EtchInv'
<1> SUFFICES ASSUME EtchInv, MineMaturity PROVE EtchInv'
  OBVIOUS
<1>1. /\ pc["etch"] = "saved" /\ "etch" \in Commands /\ ~Early
      /\ UNCHANGED <<opts, reveal, foreign, verdict, reorgs, wallet, key, known>>
      /\ faults' \in 0 .. MaxFaults /\ key' \subseteq {"file", "printed"}
  BY FaultCounted DEF MineMaturity, Commands, EtchInv, TypeOK, Early
<1>2. CASE Goto("etch", "mature") /\ commit' = Deep /\ locked' = 0 /\ Checked
  BY <1>1, <1>2, Matures DEF Deep
<1>3. CASE Goto("etch", "lost") /\ UNCHANGED <<commit, locked, cuts>>
  BY <1>1, <1>3, GoesOn DEF Labels, chain
<1> QED
  BY <1>2, <1>3 DEF MineMaturity

LEMMA PollKeeps == EtchInv /\ Poll => EtchInv'
<1> SUFFICES ASSUME EtchInv, Poll PROVE EtchInv'
  OBVIOUS
<1>1. /\ pc["etch"] = "polling" /\ "etch" \in Commands /\ ~Early
      /\ UNCHANGED <<opts, wallet, commit, reveal, locked, foreign, verdict, reorgs, known>>
      /\ faults' \in 0 .. MaxFaults /\ key' \subseteq {"file", "printed"}
  BY DEF Poll, Commands, EtchInv, TypeOK, Early
<1>2. CASE commit >= MatureDepth /\ Goto("etch", "mature") /\ Checked /\ UNCHANGED key
  BY <1>1, <1>2, Matures DEF MatureDepth
<1>3. CASE Goto("etch", "stopped") /\ UNCHANGED cuts
  BY <1>1, <1>3, GoesOn DEF Labels, chain
<1> QED
  BY <1>2, <1>3 DEF Poll

-----------------------------------------------------------------------------
(* The steps of the reveal. *)

LEMMA StartRevealKeeps == ASSUME EtchInv, NEW p \in Commands, StartReveal(p) PROVE EtchInv'
<1>1. /\ p \in Retries /\ ~Early /\ Goto(p, "mature") /\ Checked
      /\ UNCHANGED <<opts, wallet, reveal, foreign, verdict, reorgs, key, known>>
      /\ faults' \in 0 .. MaxFaults
  BY DEF StartReveal, EtchInv, EarlyIsEmpty, TypeOK
<1>2. CASE commit >= Maturity /\ UNCHANGED <<commit, locked>>
  BY <1>1, <1>2, Matures
<1>3. CASE commit' = Maturity /\ locked' = 0
  BY <1>1, <1>3, Matures
<1> QED
  BY <1>2, <1>3 DEF StartReveal, MatureDepth

LEMMA RevealAddressKeeps == ASSUME EtchInv, NEW p \in Commands, RevealAddress(p) PROVE EtchInv'
<1>1. /\ pc[p] = "mature" /\ UNCHANGED <<opts, chain, wallet, key, known>>
      /\ faults' \in 0 .. MaxFaults /\ key' \subseteq {"file", "printed"}
      /\ Goto(p, "addressed") \/ Goto(p, "unreported")
  BY FaultCounted DEF RevealAddress, EtchInv, TypeOK
<1> QED
  BY <1>1, GoesOn DEF Labels

\* A reveal is accepted when none was, or the same once more.
LEMMA SendRevealKeeps == ASSUME EtchInv, NEW p \in Commands, SendReveal(p) PROVE EtchInv'
<1>1. /\ pc[p] = "addressed" /\ faults' \in 0 .. MaxFaults
      /\ UNCHANGED <<opts, wallet, commit, locked, foreign, verdict, reorgs, cuts, known>>
  BY FaultCounted DEF SendReveal, EtchInv
<1>2. ASSUME NEW l \in {"mining", "ok"}, Goto(p, l), Accepts(p),
             reveal' = [tx |-> RevealTx(p), depth |-> 0], key' = key
      PROVE  EtchInv'
  <2>1. l \in Labels /\ pc[p] # "idle" /\ l \notin {"idle", "checked", "scanned"}
    BY <1>1 DEF Labels
  <2>2. pc' \in [Commands -> Labels] /\ pc'[p] = l /\ \A q \in Commands : q # p => pc'[q] = pc[q]
    BY <1>2, <2>1, Moves DEF EtchInv
  <2>3. ~Early'
    BY <1>2, <2>1, NoKeyBefore
  <2>4. \A q \in Commands : RevealTx(q) \in Commands /\ RevealTx(q) # NoTx /\ RevealTx(q)' = RevealTx(q)
    BY <1>1 DEF RevealTx, Commands
  <2>5. reveal'.tx = RevealTx(p) /\ (reveal.tx # NoTx => reveal'.tx = reveal.tx)
    BY <1>2 DEF Accepts
  <2>6. TypeOK'
    <3>1. reveal' \in [tx : Commands \cup {NoTx}, depth : 0 .. 1]
      BY <1>2, <2>4
    <3> QED
      BY <1>1, <1>2, <2>2, <3>1 DEF EtchInv, TypeOK, Labels, wallet
  <2>7. EarlyIsEmpty'
    BY <2>3 DEF EarlyIsEmpty
  <2>8. RunesLocked' /\ EtchMints' /\ VerdictIsReal'
    BY <1>1, <2>3, <2>4, <2>5, RunesStay DEF EtchInv, EtchMints, VerdictIsReal
  <2>9. RevealKept'
    <3> SUFFICES ASSUME NEW q \in Commands, pc'[q] \in {"ok", "mining"}
                 PROVE  reveal'.tx = RevealTx(q)'
      BY DEF RevealKept
    <3>1. CASE q = p
      BY <2>4, <2>5, <3>1
    <3>2. CASE q # p
      <4>1. reveal.tx = RevealTx(q)
        BY <2>2, <3>2 DEF EtchInv, RevealKept
      <4> QED
        BY <2>4, <2>5, <4>1
    <3> QED
      BY <3>1, <3>2
  <2>10. Buried'
    BY <1>1 DEF EtchInv, Buried
  <2>11. Unlocking'
    BY <1>1, <2>3 DEF EtchInv, Unlocking, Early
  <2> QED
    BY <2>6, <2>7, <2>8, <2>9, <2>10, <2>11 DEF EtchInv
<1>3. CASE Goto(p, "error") /\ key' = key \cup {"printed"} /\ UNCHANGED reveal
  <2>1. key' \subseteq {"file", "printed"}
    BY <1>3 DEF EtchInv, TypeOK
  <2> QED
    BY <1>1, <1>3, <2>1, GoesOn DEF Labels, chain
<1> QED
  BY <1>2, <1>3 DEF SendReveal

-----------------------------------------------------------------------------
(* The steps of the chain and of the wallet. *)

\* A block on top; meanwhile no command gets past the depth check.
LEMMA BlockKeeps ==
    ASSUME EtchInv, NEW c \in BOOLEAN, NEW r \in BOOLEAN, NEW f \in BOOLEAN, Block(c, r, f),
           c => commit = 0, r => reveal.tx # NoTx,
           UNCHANGED <<opts, wallet, key, known>>, faults' \in 0 .. MaxFaults,
           pc' \in [Commands -> Labels],
           \A p \in Commands : \/ pc'[p] = pc[p]
                               \/ pc[p] = "mining" /\ pc'[p] = "ok"
    PROVE  EtchInv'
<1> USE DEF wallet
<1>1. /\ commit' = IF commit > 0 THEN Least(commit + 1, Deep) ELSE IF c THEN 1 ELSE commit
      /\ locked' = IF locked > 0 THEN locked - 1 ELSE 0
      /\ foreign' = (foreign \/ f)
      /\ verdict' = IF r THEN Verdict(commit, locked', foreign') ELSE verdict
      /\ UNCHANGED <<reorgs, cuts>>
  BY DEF Block
<1>2. reveal' \in [tx : Commands \cup {NoTx}, depth : 0 .. 1] /\ reveal'.tx = reveal.tx
  BY DEF Block, EtchInv, TypeOK
<1>3. /\ commit \in -1 .. Deep /\ locked \in 0 .. MaxLocked /\ Maturity \in Nat /\ Maturity >= 1
      /\ Deep = Maturity + 1 /\ MaxLocked \in Nat
  BY DEF EtchInv, TypeOK, Deep
<1>4. /\ commit' \in -1 .. Deep /\ locked' \in 0 .. MaxLocked
      /\ commit >= Maturity => commit' >= Maturity
      /\ commit = -1 => commit' = -1
      /\ locked <= 1 => locked' = 0 /\ locked' <= 1
      /\ commit' >= 0 => commit >= 0
      /\ commit >= 0 /\ commit + locked <= Deep => commit' + locked' <= Deep
  BY <1>1, <1>3 DEF Least
<1>5. verdict' \in {"none", "minted", "cenotaph"} /\ foreign' \in BOOLEAN
  BY <1>1 DEF Verdict, EtchInv, TypeOK
<1>6. "etch" \in Commands /\ \A p \in Retries : p \in Commands
  BY DEF Commands
<1>7. TypeOK'
  BY <1>1, <1>2, <1>4, <1>5 DEF EtchInv, TypeOK, Labels
<1>8. EarlyIsEmpty'
  <2> SUFFICES ASSUME Early'
               PROVE  /\ commit' = -1 /\ key' = {} /\ reveal'.tx = NoTx /\ verdict' = "none"
                      /\ \A p \in Retries : pc'[p] = "idle"
    BY DEF EarlyIsEmpty
  <2>1. Early
    BY <1>6 DEF Early
  <2>2. /\ commit = -1 /\ key = {} /\ reveal.tx = NoTx /\ verdict = "none"
        /\ \A p \in Retries : pc[p] = "idle"
    BY <2>1 DEF EtchInv, EarlyIsEmpty
  <2> QED
    BY <1>1, <1>2, <1>4, <1>6, <2>2
<1>9. RunesLocked'
  BY RunesStay DEF EtchInv, Early, Commands
<1>10. VerdictIsReal'
  BY <1>1, <1>2 DEF EtchInv, VerdictIsReal
<1>11. RevealKept'
  BY <1>2 DEF EtchInv, RevealKept, RevealTx
<1>12. Buried'
  BY <1>1, <1>2, <1>4 DEF EtchInv, Buried
<1>13. Unlocking'
  <2>1. pc'["etch"] \in {"checked", "scanned"} => pc["etch"] \in {"checked", "scanned"}
    BY <1>6
  <2> QED
    BY <1>4, <2>1 DEF EtchInv, Unlocking
<1>14. EtchMints'
  <2> SUFFICES ASSUME verdict' = "cenotaph", known, ~foreign', ~cuts
               PROVE  FALSE
    BY <1>1 DEF EtchMints
  <2>1. CASE r
    <3>1. commit >= Maturity
      BY <2>1 DEF EtchInv, Buried
    <3>2. locked <= 1
      BY <1>3, <3>1 DEF EtchInv, Unlocking
    <3> QED
      BY <1>1, <1>4, <2>1, <3>1, <3>2 DEF Verdict
  <2>2. CASE ~r
    BY <1>1, <2>2 DEF EtchInv, EtchMints
  <2> QED
    BY <2>1, <2>2
<1> QED
  BY <1>7, <1>8, <1>9, <1>10, <1>11, <1>12, <1>13, <1>14 DEF EtchInv

LEMMA ChainKeeps == EtchInv /\ ChainStep => EtchInv'
<1> SUFFICES ASSUME EtchInv, NEW c \in BOOLEAN, NEW r \in BOOLEAN, NEW f \in BOOLEAN,
                    MineBlock(c, r, f)
             PROVE  EtchInv'
  BY DEF ChainStep
<1>1. /\ c => commit = 0
      /\ r => reveal.tx # NoTx
      /\ Block(c, r, f) /\ UNCHANGED <<opts, wallet, pc, key, known, faults>>
  BY DEF MineBlock
<1>2. /\ pc' \in [Commands -> Labels] /\ faults' \in 0 .. MaxFaults
      /\ \A p \in Commands : pc'[p] = pc[p]
  BY <1>1 DEF EtchInv, TypeOK, Labels
<1> QED
  BY <1>1, <1>2, BlockKeeps

LEMMA MineRevealKeeps == ASSUME EtchInv, NEW p \in Commands, MineReveal(p) PROVE EtchInv'
<1>1. /\ pc[p] = "mining" /\ UNCHANGED <<opts, wallet, known>> /\ faults' \in 0 .. MaxFaults
  BY FaultCounted DEF MineReveal, EtchInv
<1>2. CASE Goto(p, "ok") /\ Block(commit = 0, reveal.depth = 0, FALSE) /\ UNCHANGED key
  <2>1. /\ pc' \in [Commands -> Labels] /\ pc'[p] = "ok"
        /\ \A q \in Commands : q # p => pc'[q] = pc[q]
    BY <1>2, Moves DEF EtchInv, Labels
  <2>2. reveal.tx # NoTx
    BY <1>1 DEF EtchInv, RevealKept, RevealTx, Commands
  <2> QED
    BY <1>1, <1>2, <2>1, <2>2, BlockKeeps
<1>3. CASE Goto(p, "error") /\ key' = key \cup {"printed"} /\ UNCHANGED chain
  <2>1. key' \subseteq {"file", "printed"}
    BY <1>3 DEF EtchInv, TypeOK
  <2> QED
    BY <1>1, <1>3, <2>1, GoesOn DEF Labels
<1> QED
  BY <1>2, <1>3 DEF MineReveal

\* The commit is a block younger, and so is the name's lock.
LEMMA ReorgKeeps == EtchInv /\ Reorg => EtchInv'
<1> SUFFICES ASSUME EtchInv, Reorg PROVE EtchInv'
  OBVIOUS
<1> USE DEF wallet
<1>1. /\ commit > 0 /\ commit' = commit - 1 /\ locked' = Least(locked + 1, MaxLocked)
      /\ reorgs' = reorgs + 1 /\ reorgs < MaxReorgs /\ cuts' = TRUE /\ verdict' = "none"
      /\ UNCHANGED <<opts, foreign, wallet, pc, key, known, faults>>
  BY DEF Reorg
<1>2. reveal' \in [tx : Commands \cup {NoTx}, depth : 0 .. 1] /\ reveal'.tx = reveal.tx
  BY DEF Reorg, EtchInv, TypeOK
<1>3. commit \in -1 .. Deep /\ locked \in 0 .. MaxLocked /\ Deep \in Nat /\ MaxLocked \in Nat
  BY DEF EtchInv, TypeOK, Deep
<1>4. /\ commit' \in -1 .. Deep /\ locked' \in 0 .. MaxLocked
      /\ commit + locked <= Deep => commit' + locked' <= Deep
  BY <1>1, <1>3 DEF Least
<1>5. ~Early
  BY <1>1, <1>3 DEF EtchInv, EarlyIsEmpty
<1>6. TypeOK'
  BY <1>1, <1>2, <1>4 DEF EtchInv, TypeOK
<1>7. EarlyIsEmpty' /\ Unlocking'
  BY <1>1, <1>3, <1>4, <1>5 DEF EtchInv, EarlyIsEmpty, Early, Unlocking
<1>8. RunesLocked' /\ VerdictIsReal' /\ EtchMints' /\ Buried'
  BY <1>1, RunesStay DEF EtchInv, VerdictIsReal, EtchMints, Buried
<1>9. RevealKept'
  BY <1>1, <1>2 DEF EtchInv, RevealKept, RevealTx
<1> QED
  BY <1>6, <1>7, <1>8, <1>9 DEF EtchInv

LEMMA ReceiveKeeps == ASSUME EtchInv, NEW c \in Coins, Receive(c) PROVE EtchInv'
<1> USE DEF chain
<1>1. /\ coins' = [coins EXCEPT ![c].present = TRUE]
      /\ fresh' = IF pc["etch"] = "scanned" THEN fresh \cup {c} ELSE fresh
      /\ UNCHANGED <<opts, missed, stuck, chain, pc, key, known, faults>>
  BY DEF Receive
<1>2. coins \in [Coins -> Coin] /\ coins' = [coins EXCEPT ![c] = [coins[c] EXCEPT !.present = TRUE]]
  BY <1>1 DEF EtchInv, TypeOK
<1>3. /\ coins' \in [Coins -> Coin]
      /\ \A d \in Coins : coins'[d].locked = coins[d].locked /\ coins'[d].spent = coins[d].spent
      /\ \A d \in Coins : d # c => coins'[d].present = coins[d].present
  <2>1. /\ [coins[c] EXCEPT !.present = TRUE] \in Coin
        /\ [coins[c] EXCEPT !.present = TRUE].locked = coins[c].locked
        /\ [coins[c] EXCEPT !.present = TRUE].spent = coins[c].spent
    BY <1>2, CoinFields
  <2> QED
    BY <1>2, <2>1
<1>4. TypeOK'
  BY <1>1, <1>3 DEF EtchInv, TypeOK
<1>5. RunesLocked'
  BY <1>1, <1>3 DEF EtchInv, RunesLocked, PremineIsClean, Spared, Early
<1>6. EarlyIsEmpty' /\ VerdictIsReal' /\ EtchMints'
  BY <1>1 DEF EtchInv, EarlyIsEmpty, Early, VerdictIsReal, EtchMints
<1>7. RevealKept' /\ Buried' /\ Unlocking'
  BY <1>1 DEF EtchInv, RevealKept, RevealTx, Buried, Unlocking
<1> QED
  BY <1>4, <1>5, <1>6, <1>7 DEF EtchInv

LEMMA DieKeeps == ASSUME EtchInv, NEW p \in Commands, Die(p) PROVE EtchInv'
<1>1. /\ pc[p] # "idle" /\ Goto(p, "dead") /\ faults' \in 0 .. MaxFaults
      /\ UNCHANGED <<opts, chain, wallet, key, known>> /\ key' \subseteq {"file", "printed"}
  BY FaultCounted DEF Die, EtchInv, TypeOK
<1> QED
  BY <1>1, GoesOn DEF Labels

-----------------------------------------------------------------------------
(* The theorems. *)

LEMMA InvHolds == Spec => []EtchInv
<1>1. EtchInv /\ EtchStep => EtchInv'
  BY PreflightKeeps, ScanKeeps, SendCommitKeeps, LocateKeeps, SaveKeeps, AnnounceKeeps,
     MineMaturityKeeps, PollKeeps DEF EtchStep
<1>2. ASSUME EtchInv, NEW p \in Commands, RevealStep(p) \/ Die(p)
      PROVE  EtchInv'
  BY <1>2, StartRevealKeeps, RevealAddressKeeps, SendRevealKeeps, MineRevealKeeps, DieKeeps
     DEF RevealStep
<1>3. EtchInv /\ [Next]_vars => EtchInv'
  BY <1>1, <1>2, ChainKeeps, ReorgKeeps, ReceiveKeeps, StutterKeeps DEF Next
<1> QED
  BY InitHolds, <1>3, PTL DEF Spec

\* The state keeps its shape, depths and heights within their ranges.
THEOREM TypeCorrect == Spec => []TypeOK
<1>1. EtchInv => TypeOK
  BY DEF EtchInv
<1> QED
  BY InvHolds, <1>1, PTL

\* A reveal that is mined mints: the height gate of the preflight and the wait
\* for the commit's burial see to it, except where they had no height, the tip
\* was disconnected after the last depth check, or the name was taken.
THEOREM MintsWhenChecked == Spec => []EtchMints
<1>1. EtchInv => EtchMints
  BY DEF EtchInv
<1> QED
  BY InvHolds, <1>1, PTL

\* The commit spends a rune-bearing coin only if the scan learnt nothing of it
\* or failed to lock it, or if it came after the scan (_lock_rune_utxos before
\* sendtoaddress).
THEOREM PremineNeverMixed == Spec => []PremineIsClean
<1>1. EtchInv => PremineIsClean
  BY DEF EtchInv, RunesLocked
<1> QED
  BY InvHolds, <1>1, PTL

\* Whatever attempts ran beside it, a command that ends well reports the reveal
\* that the node accepted (_do_reveal).
THEOREM ReportedRevealCorrect == Spec => []ReportedRevealIsReal
<1>1. EtchInv => ReportedRevealIsReal
  BY DEF EtchInv, RevealKept, ReportedRevealIsReal
<1> QED
  BY InvHolds, <1>1, PTL

-----------------------------------------------------------------------------
(* The names that unlock with the height. *)

HIDE EtchAssumption

\* Induction over the naturals, for a set of them.
LEMMA Induction ==
    ASSUME NEW S \in SUBSET Nat, 0 \in S, \A n \in S : n + 1 \in S
    PROVE  S = Nat
<1> SUFFICES ASSUME Nat \ S # {}
             PROVE  FALSE
  OBVIOUS
<1> DEFINE R == OpToRel(<, Nat)
<1>1. PICK x \in Nat \ S : \A y \in Nat \ S : ~ (<<y, x>> \in R)
  BY NatLessThanWellFounded, WFMin
<1>2. \A y, z \in Nat : y < z => <<y, z>> \in R
  BY DEF OpToRel
<1> HIDE DEF R
<1>3. x # 0
  OBVIOUS
<1>4. x - 1 \in Nat /\ x - 1 < x
  BY <1>3
<1>5. x - 1 \in S
  BY <1>1, <1>2, <1>4
<1>6. (x - 1) + 1 \in S
  BY <1>5
<1> QED
  BY <1>6

\* The recursive function of rune_number, and that there is one.
Numbers(n, m, name) ==
    n = [i \in 0 .. m |-> IF i = 0 THEN 0 ELSE n[i - 1] * Letters + name[i]]

LEMMA NumbersExist ==
    ASSUME NEW name, NEW m \in Nat
    PROVE  \E n : Numbers(n, m, name)
<1> DEFINE More(x, i) == x * Letters + name[i]
           S == {k \in Nat : \E n : Numbers(n, k, name)}
<1>0. \A n, k : Numbers(n, k, name) <=>
                  n = [i \in 0 .. k |-> IF i = 0 THEN 0 ELSE More(n[i - 1], i)]
  BY DEF Numbers
<1> HIDE DEF More
<1>1. 0 \in S
  <2> DEFINE n == [i \in 0 .. 0 |-> 0]
  <2>1. n = [i \in 0 .. 0 |-> IF i = 0 THEN 0 ELSE More(n[i - 1], i)]
    OBVIOUS
  <2> QED
    BY <1>0, <2>1
<1>2. ASSUME NEW k \in Nat, NEW f, Numbers(f, k, name)
      PROVE  k + 1 \in S
  <2> DEFINE n == [i \in 0 .. k + 1 |-> IF i = k + 1 THEN More(f[k], k + 1) ELSE f[i]]
  <2>1. ASSUME NEW i \in 0 .. k + 1
        PROVE  n[i] = IF i = 0 THEN 0 ELSE More(n[i - 1], i)
    <3>1. CASE i = k + 1
      <4>1. k \in 0 .. k + 1 /\ k # k + 1 /\ i # 0 /\ i - 1 = k
        BY <3>1
      <4> QED
        BY <3>1, <4>1
    <3>2. CASE i # k + 1
      <4>1. i \in 0 .. k /\ (i # 0 => i - 1 \in 0 .. k + 1 /\ i - 1 # k + 1)
        BY <3>2
      <4>2. f[i] = IF i = 0 THEN 0 ELSE More(f[i - 1], i)
        BY <1>0, <1>2, <4>1
      <4>3. n[i] = f[i] /\ (i # 0 => n[i - 1] = f[i - 1])
        BY <3>2, <4>1
      <4> QED
        BY <4>2, <4>3
    <3> QED
      BY <3>1, <3>2
  <2>2. n = [i \in 0 .. k + 1 |-> IF i = 0 THEN 0 ELSE More(n[i - 1], i)]
    BY <2>1
  <2>3. Numbers(n, k + 1, name)
    BY <1>0, <2>2
  <2> QED
    BY <2>3
<1>3. S = Nat
  <2>1. S \in SUBSET Nat /\ \A k \in S : k + 1 \in S
    BY <1>2
  <2> HIDE DEF S
  <2> QED
    BY <1>1, <2>1, Induction
<1> QED
  BY <1>3

\* The number of a name is computed letter by letter.
LEMMA NumberByLetters ==
    ASSUME NEW name, NEW m \in Nat, Len(name) = m
    PROVE  \E n : /\ n[0] = 0 /\ rune_number(name) = n[m] - 1
                  /\ \A i \in 1 .. m : n[i] = n[i - 1] * Letters + name[i]
<1> DEFINE n == CHOOSE f : Numbers(f, m, name)
<1>1. Numbers(n, m, name)
  BY NumbersExist
<1>2. rune_number(name) = n[m] - 1
  BY DEF rune_number, Numbers
<1> HIDE DEF n
<1>3. 0 \in 0 .. m /\ \A i \in 1 .. m : i \in 0 .. m /\ i # 0
  OBVIOUS
<1> QED
  BY <1>1, <1>2, <1>3 DEF Numbers

\* The first name of each length is the next number after the names before it.
LEMMA NextStep ==
    ASSUME NEW length \in Nat, Letters \in Nat \ {0}
    PROVE  Step(0) = 0 /\ Step(length + 1) = (Step(length) + 1) * Letters
<1> DEFINE ones(l) == [i \in 1 .. l |-> 1]
<1>1. \A l \in Nat : /\ Len(ones(l)) = l /\ \A i \in 1 .. l : ones(l)[i] = 1
  OBVIOUS
<1>2. \A l \in Nat : Step(l) = rune_number(ones(l + 1))
  BY DEF Step
<1> HIDE DEF ones
<1>3. ASSUME NEW l \in Nat
      PROVE  \E n : /\ n[0] = 0 /\ Step(l) = n[l + 1] - 1
                    /\ \A i \in 1 .. l + 1 : n[i] = n[i - 1] * Letters + 1
  <2>1. l + 1 \in Nat /\ Len(ones(l + 1)) = l + 1
    BY <1>1
  <2>2. PICK n : /\ n[0] = 0 /\ rune_number(ones(l + 1)) = n[l + 1] - 1
                 /\ \A i \in 1 .. l + 1 : n[i] = n[i - 1] * Letters + ones(l + 1)[i]
    BY <2>1, NumberByLetters
  <2>3. \A i \in 1 .. l + 1 : n[i] = n[i - 1] * Letters + 1
    BY <1>1, <2>1, <2>2
  <2> QED
    BY <1>2, <2>2, <2>3
<1>4. Step(0) = 0
  <2>1. PICK n : /\ n[0] = 0 /\ Step(0) = n[0 + 1] - 1
                 /\ \A i \in 1 .. 0 + 1 : n[i] = n[i - 1] * Letters + 1
    BY <1>3
  <2>2. n[1] = n[1 - 1] * Letters + 1 /\ 1 - 1 = 0
    BY <2>1
  <2>3. 0 * Letters = 0
    OBVIOUS
  <2> QED
    BY <2>1, <2>2, <2>3
<1>5. PICK n : /\ n[0] = 0 /\ Step(length) = n[length + 1] - 1
               /\ \A i \in 1 .. length + 1 : n[i] = n[i - 1] * Letters + 1
  BY <1>3
<1>6. PICK m : /\ m[0] = 0 /\ Step(length + 1) = m[(length + 1) + 1] - 1
               /\ \A i \in 1 .. (length + 1) + 1 : m[i] = m[i - 1] * Letters + 1
  <2>1. length + 1 \in Nat
    OBVIOUS
  <2> QED
    BY <1>3, <2>1
<1> DEFINE S == {i \in Nat : i <= length + 1 => n[i] \in Nat /\ m[i] = n[i]}
<1>7. 0 \in S
  BY <1>5, <1>6
<1>8. ASSUME NEW i \in Nat, i + 1 <= length + 1, n[i] \in Nat, m[i] = n[i]
      PROVE  n[i + 1] \in Nat /\ m[i + 1] = n[i + 1]
  <2>1. i + 1 \in 1 .. length + 1 /\ i + 1 \in 1 .. (length + 1) + 1 /\ (i + 1) - 1 = i
    BY <1>8
  <2>2. n[i + 1] = n[i] * Letters + 1 /\ m[i + 1] = m[i] * Letters + 1
    BY <1>5, <1>6, <2>1
  <2>3. \A x \in Nat : x * Letters + 1 \in Nat
    OBVIOUS
  <2> QED
    BY <1>8, <2>2, <2>3
<1>9. S = Nat
  <2>1. S \in SUBSET Nat /\ \A i \in S : i + 1 \in S
    BY <1>8
  <2> HIDE DEF S
  <2> QED
    BY <1>7, <2>1, Induction
<1>10. n[length + 1] \in Nat /\ m[length + 1] = n[length + 1]
  <2>1. length + 1 \in S
    BY <1>9
  <2> QED
    BY <2>1
<1>11. m[(length + 1) + 1] = m[length + 1] * Letters + 1
  <2>1. (length + 1) + 1 \in 1 .. (length + 1) + 1 /\ ((length + 1) + 1) - 1 = length + 1
    OBVIOUS
  <2> QED
    BY <1>6, <2>1
<1>12. \A x \in Nat : x * Letters \in Nat
  OBVIOUS
<1>13. (Step(length) + 1) * Letters = n[length + 1] * Letters
  <2>1. Step(length) + 1 = n[length + 1]
    BY <1>5, <1>10
  <2> QED
    BY <2>1
<1>14. Step(length + 1) = n[length + 1] * Letters
  BY <1>6, <1>10, <1>11, <1>12
<1> QED
  BY <1>4, <1>13, <1>14

\* The steps grow.
LEMMA StepsGrow ==
    ASSUME NEW length \in Nat, Letters \in Nat \ {0}
    PROVE  /\ Step(length) \in Nat /\ Step(length + 1) \in Nat
           /\ Step(length) <= Step(length + 1)
<1> DEFINE S == {l \in Nat : Step(l) \in Nat}
<1>1. \A x \in Nat : (x + 1) * Letters \in Nat /\ x <= (x + 1) * Letters
  <2> SUFFICES ASSUME NEW x \in Nat
               PROVE  (x + 1) * Letters \in Nat /\ x <= (x + 1) * Letters
    OBVIOUS
  <2>1. PICK k \in Nat : Letters = k + 1
    <3>1. Letters - 1 \in Nat /\ Letters = (Letters - 1) + 1
      OBVIOUS
    <3> QED
      BY <3>1
  <2>2. (x + 1) * (k + 1) = (x + 1) * k + (x + 1) /\ (x + 1) * k \in Nat
    BY <2>1
  <2> QED
    BY <2>1, <2>2
<1>2. 0 \in S
  BY NextStep
<1>3. ASSUME NEW l \in S
      PROVE  l + 1 \in S
  BY <1>1, NextStep
<1>4. S = Nat
  <2>1. S \in SUBSET Nat
    OBVIOUS
  <2> HIDE DEF S
  <2> QED
    BY <1>2, <1>3, <2>1, Induction
<1>5. Step(length) \in Nat
  BY <1>4
<1> QED
  BY <1>1, <1>5, NextStep

\* Quotient and remainder are the only ones that fit.
LEMMA Quotient ==
    ASSUME NEW k \in Nat \ {0}, NEW q \in Int, NEW r \in 0 .. k - 1
    PROVE  (k * q + r) \div k = q /\ (k * q + r) % k = r
<1> DEFINE x == k * q + r
           y == x \div k
           z == x % k
<1>1. k * q \in Int
  OBVIOUS
<1>2. x \in Int /\ y \in Int /\ z \in 0 .. k - 1 /\ x = k * y + z
  BY <1>1
<1> HIDE DEF y, z
<1>3. k * q - k * y = k * (q - y)
  BY <1>2
<1>4. k * (q - y) = z - r
  BY <1>1, <1>2, <1>3
<1>5. \A d \in Int : d >= 1 => k * d >= k
  OBVIOUS
<1>6. \A d \in Int : d <= -1 => k * d <= -k
  OBVIOUS
<1>7. q = y
  <2>1. q - y \in Int
    BY <1>2
  <2>2. ~(q - y >= 1) /\ ~(q - y <= -1)
    BY <1>2, <1>4, <1>5, <1>6, <2>1
  <2> QED
    BY <1>2, <2>1, <2>2
<1>8. z = r
  BY <1>2, <1>7
<1> QED
  BY <1>7, <1>8 DEF y, z

\* What div and mod are.
LEMMA Division ==
    ASSUME NEW k \in Nat \ {0}, NEW x \in Nat
    PROVE  x \div k \in Nat /\ x % k \in 0 .. k - 1 /\ x = k * (x \div k) + (x % k)
<1> DEFINE q == x \div k
           r == x % k
<1>1. q \in Nat /\ r \in 0 .. k - 1 /\ x = k * q + r /\ k * q \in Int
  OBVIOUS
<1> QED
  BY <1>1

\* The quotient and the remainder of the next number.
LEMMA NextQuotient ==
    ASSUME NEW k \in Nat \ {0}, NEW p \in Nat
    PROVE  /\ p \div k \in Nat /\ p % k \in 0 .. k - 1
           /\ IF (p % k) + 1 < k
              THEN (p + 1) \div k = p \div k /\ (p + 1) % k = (p % k) + 1
              ELSE p % k = k - 1 /\ (p + 1) \div k = p \div k + 1 /\ (p + 1) % k = 0
<1> DEFINE q == p \div k
           r == p % k
<1>1. q \in Nat /\ r \in 0 .. k - 1 /\ p = k * q + r /\ k * q \in Int
  OBVIOUS
<1> HIDE DEF q, r
<1>2. CASE r + 1 < k
  <2>1. r + 1 \in 0 .. k - 1 /\ p + 1 = k * q + (r + 1)
    BY <1>1, <1>2
  <2>2. (k * q + (r + 1)) \div k = q /\ (k * q + (r + 1)) % k = r + 1
    BY <1>1, <2>1, Quotient
  <2>3. (p + 1) \div k = q /\ (p + 1) % k = r + 1
    BY <2>1, <2>2
  <2> QED
    BY <1>1, <1>2, <2>3 DEF q, r
<1>3. CASE ~(r + 1 < k)
  <2>1. r = k - 1 /\ 0 \in 0 .. k - 1 /\ q + 1 \in Int
    BY <1>1, <1>3
  <2>2. k * (q + 1) = k * q + k
    BY <1>1
  <2>3. p + 1 = k * (q + 1) + 0
    BY <1>1, <2>1, <2>2
  <2>4. (k * (q + 1) + 0) \div k = q + 1 /\ (k * (q + 1) + 0) % k = 0
    BY <2>1, Quotient
  <2>5. (p + 1) \div k = q + 1 /\ (p + 1) % k = 0
    BY <2>3, <2>4
  <2> QED
    BY <1>1, <1>3, <2>1, <2>5 DEF q, r
<1> QED
  BY <1>2, <1>3

\* What is taken off within an interval grows, up to the whole difference.
LEMMA PartGrows ==
    ASSUME NEW k \in Nat \ {0}, NEW d \in Nat, NEW r \in 0 .. k - 1
    PROVE  /\ (d * 0) \div k = 0
           /\ (d * r) \div k \in 0 .. d
           /\ r + 1 < k => (d * r) \div k <= (d * (r + 1)) \div k
<1>1. ASSUME NEW x \in Nat, NEW y \in Nat, x <= y
      PROVE  x \div k \in Nat /\ y \div k \in Nat /\ x \div k <= y \div k
  <2> DEFINE u == x \div k
             v == y \div k
  <2>1. /\ u \in Nat /\ x % k \in 0 .. k - 1 /\ x = k * u + (x % k)
        /\ v \in Nat /\ y % k \in 0 .. k - 1 /\ y = k * v + (y % k)
    BY <1>1, Division
  <2> HIDE DEF u, v
  <2>2. k * v - k * u = k * (v - u) /\ k * u \in Int /\ k * v \in Int
    BY <2>1
  <2>3. k * (v - u) > -k
    <3> DEFINE a == k * u
               b == k * v
    <3>1. a \in Int /\ b \in Int /\ x = a + (x % k) /\ y = b + (y % k) /\ k * (v - u) = b - a
      BY <2>1, <2>2
    <3> DEFINE m == x % k
               n == y % k
    <3>2. m \in 0 .. k - 1 /\ n \in 0 .. k - 1 /\ x = a + m /\ y = b + n
      BY <2>1, <3>1
    <3> HIDE DEF a, b, m, n
    <3>3. b - a > -k
      BY <1>1, <3>1, <3>2
    <3> QED
      BY <3>1, <3>3
  <2>4. \A e \in Int : e <= -1 => k * e <= -k
    OBVIOUS
  <2>5. ~(v - u <= -1)
    <3>1. v - u \in Int /\ k * (v - u) \in Int
      BY <2>1
    <3> QED
      BY <2>3, <2>4, <3>1
  <2>6. u <= v
    BY <2>1, <2>5
  <2> QED
    BY <2>1, <2>6 DEF u, v
<1>2. d * 0 = 0 /\ 0 \div k = 0
  <2>1. 0 = k * 0 + 0 /\ 0 \in 0 .. k - 1 /\ d * 0 = 0
    OBVIOUS
  <2>2. (k * 0 + 0) \div k = 0
    BY <2>1, Quotient
  <2> QED
    BY <2>1, <2>2
<1>3. (d * k) \div k = d
  <2>1. d * k = k * d + 0 /\ 0 \in 0 .. k - 1
    OBVIOUS
  <2>2. (k * d + 0) \div k = d
    BY <2>1, Quotient
  <2> QED
    BY <2>1, <2>2
<1>4. /\ d * r \in Nat /\ d * (r + 1) \in Nat /\ d * k \in Nat
      /\ d * r <= d * k /\ d * r <= d * (r + 1)
  <2>1. d * (r + 1) = d * r + d /\ d * r \in Nat
    OBVIOUS
  <2>2. d * k = d * r + d * (k - r) /\ d * (k - r) \in Nat
    <3>1. k - r \in Nat
      OBVIOUS
    <3>2. \A x, y \in Nat : d * (x + y) = d * x + d * y /\ d * y \in Nat
      OBVIOUS
    <3>3. r + (k - r) = k
      OBVIOUS
    <3> QED
      BY <3>1, <3>2, <3>3
  <2> QED
    BY <2>1, <2>2
<1>5. (d * r) \div k \in Nat /\ (d * r) \div k <= d
  BY <1>1, <1>3, <1>4
<1>6. (d * r) \div k <= (d * (r + 1)) \div k
  BY <1>1, <1>4
<1> QED
  BY <1>2, <1>5, <1>6

\* From a block to the next the minimum does not rise, and it stays between the
\* first number and the one it starts from.
LEMMA MinimumFalls ==
    ASSUME NEW h \in Nat, Letters \in Nat \ {0}, Unlocked \in Nat \ {0},
           Interval \in Nat \ {0}, FirstHeight \in Nat
    PROVE  /\ minimum_at_height(h) \in Nat /\ minimum_at_height(h + 1) \in Nat
           /\ minimum_at_height(h + 1) <= minimum_at_height(h)
<1> DEFINE U == Unlocked
           I == Interval
           end == U * I
           Part(l, r) == ((Step(l) - Step(l - 1)) * r) \div I
           Minimum(p) == IF p < 0 THEN Step(U)
                         ELSE IF p >= end THEN 0
                         ELSE Step(U - (p \div I)) - Part(U - (p \div I), p % I)
           p == h + 1 - FirstHeight
<1>1. minimum_at_height(h) = Minimum(p) /\ minimum_at_height(h + 1) = Minimum(p + 1)
  <2>1. (h + 1) + 1 - FirstHeight = p + 1
    OBVIOUS
  <2> QED
    BY <2>1 DEF minimum_at_height
<1>2. p \in Int /\ end \in Nat /\ U \in Nat /\ U >= 1 /\ I \in Nat \ {0}
  OBVIOUS
<1>3. ASSUME NEW l \in Nat \ {0}
      PROVE  /\ Step(l) \in Nat /\ Step(l - 1) \in Nat /\ Step(l - 1) <= Step(l)
             /\ Part(l, 0) = 0
             /\ \A r \in 0 .. I - 1 :
                  /\ Part(l, r) \in 0 .. Step(l) - Step(l - 1)
                  /\ r + 1 < I => Part(l, r) <= Part(l, r + 1)
  <2>1. l - 1 \in Nat /\ (l - 1) + 1 = l
    OBVIOUS
  <2>2. Step(l) \in Nat /\ Step(l - 1) \in Nat /\ Step(l - 1) <= Step(l)
    BY <2>1, StepsGrow
  <2>3. Step(l) - Step(l - 1) \in Nat
    BY <2>2
  <2>4. 0 \in 0 .. I - 1
    OBVIOUS
  <2> QED
    BY <2>2, <2>3, <2>4, PartGrows
<1>4. ASSUME NEW x \in Nat, x < end
      PROVE  x \div I \in Nat /\ x \div I < U /\ x % I \in 0 .. I - 1
  <2> DEFINE q == x \div I
  <2>1. q \in Nat /\ x % I \in 0 .. I - 1 /\ x = I * q + (x % I)
    BY <1>2, Division
  <2> HIDE DEF q
  <2>2. q < U
    <3> SUFFICES ASSUME q >= U
                 PROVE  FALSE
      BY <2>1
    <3>1. I * q >= I * U
      <4>1. q - U \in Nat /\ I * q = I * U + I * (q - U) /\ I * (q - U) \in Nat /\ I * U \in Int
        BY <2>1
      <4> QED
        BY <4>1
    <3>2. end = I * U
      OBVIOUS
    <3> DEFINE a == I * q
    <3>3. x = a + (x % I) /\ a >= end /\ a \in Int
      BY <2>1, <3>1, <3>2
    <3> DEFINE r == x % I
    <3>4. x = a + r /\ r \in 0 .. I - 1
      BY <2>1, <3>3
    <3> HIDE DEF a, r, end, I
    <3> QED
      BY <1>2, <1>4, <3>3, <3>4
  <2> QED
    BY <2>1, <2>2 DEF q
<1>5. Step(U) \in Nat
  BY <1>2, <1>3
<1> HIDE DEF U, I, end, p, Part
<1>6. ASSUME NEW x \in Int
      PROVE  /\ Minimum(x) \in Nat
             /\ 0 <= x /\ x < end => Minimum(x) >= Step(U - (x \div I) - 1)
  <2>1. CASE x < 0 \/ x >= end
    BY <1>2, <1>5, <2>1
  <2>2. CASE ~(x < 0) /\ ~(x >= end)
    <3> DEFINE l == U - (x \div I)
    <3>1. x \in Nat /\ x < end
      BY <1>2, <2>2
    <3>2. x \div I \in Nat /\ x \div I < U /\ x % I \in 0 .. I - 1
      BY <1>4, <3>1
    <3>3. l \in Nat \ {0} /\ U - (x \div I) - 1 = l - 1
      BY <1>2, <3>2
    <3>4. Minimum(x) = Step(l) - Part(l, x % I)
      BY <2>2
    <3> HIDE DEF l
    <3>5. /\ Step(l) \in Nat /\ Step(l - 1) \in Nat
          /\ Part(l, x % I) \in 0 .. Step(l) - Step(l - 1)
      BY <1>3, <3>2, <3>3
    <3> HIDE DEF Minimum
    <3> QED
      BY <3>3, <3>4, <3>5
  <2> QED
    BY <1>2, <2>1, <2>2
<1>7. Minimum(p + 1) <= Minimum(p)
  <2>1. Minimum(p) \in Nat /\ Minimum(p + 1) \in Nat
    <3>1. p \in Int /\ p + 1 \in Int
      BY <1>2
    <3> HIDE DEF Minimum
    <3> QED
      BY <1>6, <3>1
  <2>2. CASE p < -1
    BY <1>2, <1>5, <2>2
  <2>3. CASE p = -1
    <3>1. Minimum(p) = Step(U) /\ p + 1 = 0
      BY <2>3
    <3>2. 0 \div I = 0 /\ 0 % I = 0
      <4>1. 0 = I * 0 + 0 /\ 0 \in 0 .. I - 1
        BY <1>2
      <4>2. (I * 0 + 0) \div I = 0 /\ (I * 0 + 0) % I = 0
        BY <1>2, <4>1, Quotient
      <4> QED
        BY <4>1, <4>2
    <3>3. Minimum(0) = 0 \/ Minimum(0) = Step(U) - Part(U, 0)
      BY <1>2, <3>2
    <3>4. Part(U, 0) = 0
      BY <1>2, <1>3
    <3> QED
      BY <1>5, <3>1, <3>3, <3>4
  <2>4. CASE p >= end
    BY <1>2, <2>4
  <2>5. CASE p >= 0 /\ p < end
    <3> DEFINE q == p \div I
               r == p % I
               l == U - q
    <3>1. p \in Nat /\ q \in Nat /\ q < U /\ r \in 0 .. I - 1
      BY <1>2, <1>4, <2>5
    <3>2. l \in Nat \ {0}
      BY <1>2, <3>1
    <3>3. Minimum(p) = Step(l) - Part(l, r)
      BY <1>2, <2>5
    <3>4. /\ Step(l) \in Nat /\ Step(l - 1) \in Nat /\ Step(l - 1) <= Step(l)
          /\ Part(l, r) \in 0 .. Step(l) - Step(l - 1)
          /\ r + 1 < I => Part(l, r) <= Part(l, r + 1)
      BY <1>3, <3>1, <3>2
    <3>5. IF r + 1 < I THEN (p + 1) \div I = q /\ (p + 1) % I = r + 1
                       ELSE r = I - 1 /\ (p + 1) \div I = q + 1 /\ (p + 1) % I = 0
      BY <1>2, <3>1, NextQuotient
    <3>6. CASE p + 1 >= end
      <4>1. Minimum(p + 1) = 0
        BY <1>2, <3>1, <3>6
      <4> QED
        BY <2>1, <4>1
    <3>7. CASE p + 1 < end
      <4>1. Minimum(p + 1) = Step(U - ((p + 1) \div I)) - Part(U - ((p + 1) \div I), (p + 1) % I)
        BY <1>2, <3>1, <3>7
      <4>2. p + 1 \in Nat /\ (p + 1) \div I \in Nat /\ (p + 1) \div I < U
            /\ (p + 1) % I \in 0 .. I - 1
        BY <1>4, <3>1, <3>7
      <4>3. CASE r + 1 < I
        <5>1. Minimum(p + 1) = Step(l) - Part(l, r + 1)
          BY <3>5, <4>1, <4>3
        <5>2. Part(l, r + 1) \in 0 .. Step(l) - Step(l - 1)
          <6>1. r + 1 \in 0 .. I - 1
            BY <1>2, <3>1, <4>3
          <6> QED
            BY <1>3, <3>2, <6>1
        <5> HIDE DEF q, r, l, Minimum
        <5> QED
          BY <3>3, <3>4, <4>3, <5>1, <5>2
      <4>4. CASE ~(r + 1 < I)
        <5>1. (p + 1) \div I = q + 1 /\ (p + 1) % I = 0
          BY <3>5, <4>4
        <5>2. U - (q + 1) = l - 1 /\ l - 1 \in Nat \ {0}
          BY <1>2, <3>1, <4>2, <5>1
        <5>3. Minimum(p + 1) = Step(l - 1) - Part(l - 1, 0)
          BY <4>1, <5>1, <5>2
        <5>4. Part(l - 1, 0) = 0
          BY <1>3, <5>2
        <5> HIDE DEF q, r, l, Minimum
        <5> QED
          BY <3>3, <3>4, <5>3, <5>4
      <4> QED
        BY <4>3, <4>4
    <3> QED
      BY <1>2, <3>1, <3>6, <3>7
  <2> QED
    BY <1>2, <2>2, <2>3, <2>4, <2>5
<1>8. p + 1 \in Int
  BY <1>2
<1> HIDE DEF Minimum
<1> QED
  BY <1>1, <1>2, <1>6, <1>7, <1>8

\* The number of a name is a number.
LEMMA NumberType ==
    ASSUME NEW name \in Seq(1 .. Letters), Letters \in Nat \ {0}
    PROVE  rune_number(name) \in Int
<1> DEFINE m == Len(name)
<1>1. m \in Nat /\ \A i \in 1 .. m : name[i] \in Nat
  OBVIOUS
<1>2. PICK n : /\ n[0] = 0 /\ rune_number(name) = n[m] - 1
               /\ \A i \in 1 .. m : n[i] = n[i - 1] * Letters + name[i]
  BY <1>1, NumberByLetters
<1> DEFINE S == {i \in Nat : i <= m => n[i] \in Nat}
<1> HIDE DEF m
<1>3. 0 \in S
  BY <1>2
<1>4. ASSUME NEW i \in Nat, i + 1 <= m, n[i] \in Nat
      PROVE  n[i + 1] \in Nat
  <2>1. i + 1 \in 1 .. m /\ (i + 1) - 1 = i
    BY <1>1, <1>4
  <2>2. n[i + 1] = n[i] * Letters + name[i + 1] /\ name[i + 1] \in Nat
    BY <1>1, <1>2, <2>1
  <2>3. \A x, y \in Nat : x * Letters + y \in Nat
    OBVIOUS
  <2> QED
    BY <1>4, <2>2, <2>3
<1>5. S = Nat
  <2>1. S \in SUBSET Nat /\ \A i \in S : i + 1 \in S
    BY <1>1, <1>4
  <2> HIDE DEF S
  <2> QED
    BY <1>3, <2>1, Induction
<1>6. n[m] \in Nat
  <2>1. m \in S /\ m <= m
    BY <1>1, <1>5
  <2> QED
    BY <2>1
<1> QED
  BY <1>2, <1>6

\* A name that validate_name lets pass at a height passes at every later one, for
\* every alphabet, activation height and interval of minimum_at_height: the blocks
\* between etch and reveal never lock a name again, which is why a count of the
\* blocks until it unlocks is all that Etch has to know of it.
THEOREM NamesStayUnlocked ==
    ASSUME NEW name \in Seq(1 .. Letters), NEW h \in Nat, NEW g \in Nat, h <= g, h # NoValue, validate_name(name, h)
    PROVE  validate_name(name, g)
<1> DEFINE S == {d \in Nat : minimum_at_height(h + d) \in Nat
                             /\ minimum_at_height(h + d) <= minimum_at_height(h)}
<1>1. /\ Letters \in Nat \ {0} /\ Unlocked \in Nat \ {0}
      /\ Interval \in Nat \ {0} /\ FirstHeight \in Nat
  BY RunestoneAssumption DEF RunestoneAssumption
<1>2. 0 \in S
  BY <1>1, MinimumFalls
<1>3. ASSUME NEW d \in S
      PROVE  d + 1 \in S
  <2>1. h + d \in Nat /\ h + (d + 1) = (h + d) + 1
    OBVIOUS
  <2>2. /\ minimum_at_height((h + d) + 1) \in Nat
        /\ minimum_at_height((h + d) + 1) <= minimum_at_height(h + d)
    BY <1>1, <2>1, MinimumFalls
  <2>3. minimum_at_height(h) \in Nat
    BY <1>1, MinimumFalls
  <2> QED
    BY <2>1, <2>2, <2>3
<1>4. S = Nat
  <2>1. S \in SUBSET Nat
    OBVIOUS
  <2> HIDE DEF S
  <2> QED
    BY <1>2, <1>3, <2>1, Induction
<1>5. minimum_at_height(g) \in Nat /\ minimum_at_height(g) <= minimum_at_height(h)
  <2>1. g - h \in Nat /\ h + (g - h) = g
    OBVIOUS
  <2>2. g - h \in S
    <3> HIDE DEF S
    <3> QED
      BY <1>4, <2>1
  <2>3. /\ minimum_at_height(h + (g - h)) \in Nat
        /\ minimum_at_height(h + (g - h)) <= minimum_at_height(h)
    BY <2>2
  <2> QED
    BY <2>1, <2>3
<1>6. minimum_at_height(h) \in Nat
  BY <1>1, MinimumFalls
<1>7. rune_number(name) \in Int
  BY <1>1, NumberType
<1> QED
  BY <1>5, <1>6, <1>7 DEF validate_name

=============================================================================
