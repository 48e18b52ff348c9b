---------------------------- MODULE TradingProofs ----------------------------
(***************************************************************************)
(* Proofs about Trading for every set of coins, requests and cancels.      *)
(*                                                                         *)
(* The two safety properties rest on one argument.  An offer is covered,   *)
(* locked or exposed, from the moment it is signed, and stays so, because  *)
(* whatever takes a coin out of the set of locked coins exposes it.  Coin  *)
(* selection avoids locked coins, and between the selection of a coin and  *)
(* the broadcast that spends it nothing else is signed or spent, because   *)
(* only the holder of the lock is past it, unless a tool has been          *)
(* orphaned.                                                               *)
(***************************************************************************)
EXTENDS Trading, TLAPS

\* A request is at its place for a reason: it has an offer or a funding coin
\* when it needs one, and only requests that create an order sign and publish.
Shaped ==
    \A r \in Reqs :
        /\ req[r].pc \in {"lock", "sign"} => req[r].kind \in Creates
        /\ req[r].pc \in {"commit", "persist", "reveal"} =>
               req[r].kind = "envelope"
        /\ req[r].pc # "idle" /\ req[r].kind \in Creates => req[r].offer \in Coins
        /\ req[r].pc = "broadcast" => req[r].fund \in Coins
        /\ req[r].pc = "idle" => ~req[r].orphan

CancelShaped ==
    \A k \in Cancels :
        /\ cancel[k].pc \in {"unlock", "fund", "send"} => cancel[k].offer \in Coins
        /\ cancel[k].pc = "send" => cancel[k].fee \in Coins

\* Only the holder of the lock is past it, and only while btxd runs, orphans
\* apart; a request that waits is no orphan.
Serialised ==
    \A r \in Reqs :
        /\ req[r].pc \in Section /\ ~req[r].orphan => holder = r /\ btxd
        /\ req[r].pc = "wait" => ~req[r].orphan /\ btxd

\* An offer that is signed, or about to be, is locked or exposed.
Covered ==
    /\ \A c \in Coins : order[c] # "none" => c \in locked \cup exposed
    /\ \A r \in Reqs : req[r].pc = "sign" => req[r].offer \in locked \cup exposed

\* What is published has been signed.
Signed ==
    \A r \in Reqs :
        /\ req[r].kind \in Creates
        /\ req[r].pc \in {"commit", "persist", "reveal", "select", "broadcast"}
        => order[req[r].offer] # "none"

\* The coin that a request is about to spend is no protected offer.
Picked ==
    ~Orphans =>
        \A r \in Reqs :
            req[r].pc = "broadcast" /\ order[req[r].fund] # "none" =>
                req[r].fund \in exposed

-----------------------------------------------------------------------------
Pcs == Section \cup {"idle", "wait", "done"}

\* Only the program counter of one request changes.
LEMMA PcType ==
    ASSUME req \in [Reqs -> Requests], NEW r \in Reqs, NEW pc \in Pcs,
           req' = [req EXCEPT ![r].pc = pc]
    PROVE  /\ req' \in [Reqs -> Requests]
           /\ req'[r].pc = pc
           /\ \A q \in Reqs \ {r} : req'[q] = req[q]
           /\ \A q \in Reqs : /\ req'[q].kind = req[q].kind
                              /\ req'[q].offer = req[q].offer
                              /\ req'[q].fund = req[q].fund
                              /\ req'[q].orphan = req[q].orphan
  <1>1. [req[r] EXCEPT !.pc = pc] \in Requests
    BY DEF Requests, Pcs
  <1>2. req' = [req EXCEPT ![r] = [req[r] EXCEPT !.pc = pc]]
    OBVIOUS
  <1> QED
    BY <1>1, <1>2 DEF Requests

\* The same for a cancel.
LEMMA CancelType ==
    ASSUME cancel \in [Cancels -> Cancellations], NEW k \in Cancels,
           NEW pc \in {"idle", "unlock", "fund", "send", "done"},
           cancel' = [cancel EXCEPT ![k].pc = pc]
    PROVE  /\ cancel' \in [Cancels -> Cancellations]
           /\ cancel'[k].pc = pc
           /\ \A q \in Cancels \ {k} : cancel'[q] = cancel[q]
           /\ \A q \in Cancels : /\ cancel'[q].offer = cancel[q].offer
                                 /\ cancel'[q].fee = cancel[q].fee
  <1>1. [cancel[k] EXCEPT !.pc = pc] \in Cancellations
    BY DEF Cancellations
  <1>2. cancel' = [cancel EXCEPT ![k] = [cancel[k] EXCEPT !.pc = pc]]
    OBVIOUS
  <1> QED
    BY <1>1, <1>2 DEF Cancellations

\* What the type invariant says of the requests and of the lock.
Requesting ==
    /\ req \in [Reqs -> Requests]
    /\ holder \in Reqs \cup {Nobody}
    /\ holder # Nobody => req[holder].pc \in Section /\ ~req[holder].orphan
    /\ btxd \in BOOLEAN
    /\ Shaped
    /\ Serialised

\* A request at work moves on to a place where its shape allows it to be.
LEMMA GotoType ==
    ASSUME Requesting, NEW r \in Reqs, req[r].pc \in Section,
           NEW pc \in Section, Goto(r, pc), UNCHANGED btxd,
           pc = "sign" => req[r].pc = "lock",
           pc \in {"commit", "persist", "reveal"} => req[r].kind = "envelope",
           pc \notin {"lock", "broadcast"}
    PROVE  Requesting'
  <1>1. req' = [req EXCEPT ![r].pc = pc] /\ holder' = holder
    BY DEF Goto
  <1>2. pc \in Pcs
    BY DEF Pcs
  <1>3. /\ req' \in [Reqs -> Requests]
        /\ req'[r].pc = pc
        /\ \A q \in Reqs \ {r} : req'[q] = req[q]
        /\ \A q \in Reqs : /\ req'[q].kind = req[q].kind
                           /\ req'[q].offer = req[q].offer
                           /\ req'[q].fund = req[q].fund
                           /\ req'[q].orphan = req[q].orphan
    BY <1>1, <1>2, PcType DEF Requesting
  <1>4. req[r].pc # "idle" /\ pc # "idle"
    BY DEF Section
  <1>5. Shaped'
    BY <1>3, <1>4 DEF Requesting, Shaped
  <1>6. Serialised'
    BY <1>1, <1>3 DEF Requesting, Serialised, Section
  <1> QED
    BY <1>1, <1>3, <1>5, <1>6 DEF Requesting

\* A request that is answered, or a tool that exits, leaves the lock to others.
LEMMA ReturnType ==
    ASSUME Requesting, NEW r \in Reqs, req[r].pc \in Section, Return(r),
           UNCHANGED btxd
    PROVE  Requesting'
  <1>1. /\ req' = [req EXCEPT ![r].pc = "done"]
        /\ holder' = IF holder = r THEN Nobody ELSE holder
    BY DEF Return
  <1>2. "done" \in Pcs /\ "done" \notin Section
    BY DEF Pcs, Section
  <1>3. /\ req' \in [Reqs -> Requests]
        /\ req'[r].pc = "done"
        /\ \A q \in Reqs \ {r} : req'[q] = req[q]
        /\ \A q \in Reqs : /\ req'[q].kind = req[q].kind
                           /\ req'[q].offer = req[q].offer
                           /\ req'[q].fund = req[q].fund
                           /\ req'[q].orphan = req[q].orphan
    BY <1>1, <1>2, PcType DEF Requesting
  <1>4. req[r].pc # "idle"
    BY DEF Section
  <1>5. Shaped'
    BY <1>3, <1>4 DEF Requesting, Shaped
  <1>6. Serialised'
    BY <1>1, <1>2, <1>3 DEF Requesting, Serialised
  <1> QED
    BY <1>1, <1>3, <1>5, <1>6, NobodyAssumption DEF Requesting

\* A request that arrives waits for the lock.
LEMMA ArriveType ==
    ASSUME Requesting, NEW r \in Reqs, NEW kind \in Kinds, NEW c \in Coins,
           Arrive(r, kind, c)
    PROVE  Requesting'
  <1> DEFINE new == [pc |-> "wait", kind |-> kind,
                     offer |-> IF kind \in Creates THEN c ELSE Nobody,
                     fund |-> Nobody, orphan |-> FALSE]
  <1>1. new \in Requests
    BY DEF Requests
  <1>2. new.pc = "wait" /\ ~new.orphan /\ (kind \in Creates => new.offer \in Coins)
        /\ new.kind = kind
    OBVIOUS
  <1>3. req' = [req EXCEPT ![r] = new] /\ UNCHANGED <<holder, btxd>> /\ btxd
    BY DEF Arrive
  <1> HIDE DEF new
  <1>4. /\ req' \in [Reqs -> Requests]
        /\ req'[r] = new
        /\ \A q \in Reqs \ {r} : req'[q] = req[q]
    BY <1>1, <1>3 DEF Requesting
  <1>5. holder # r
    BY NobodyAssumption DEF Arrive, Requesting, Section
  <1>6. Shaped'
    BY <1>2, <1>4 DEF Requesting, Shaped
  <1>7. Serialised'
    BY <1>2, <1>3, <1>4 DEF Requesting, Serialised, Section
  <1> QED
    BY <1>3, <1>4, <1>5, <1>6, <1>7 DEF Requesting

\* Whoever takes the lock starts at the first place of its kind.
LEMMA AcquireType ==
    ASSUME Requesting, NEW r \in Reqs, Acquire(r)
    PROVE  Requesting'
  <1> DEFINE pc == First(req[r].kind)
  <1>1. /\ pc \in {"lock", "select", "send"}
        /\ pc = "lock" => req[r].kind \in Creates
    BY DEF First
  <1>2. /\ req' = [req EXCEPT ![r].pc = pc]
        /\ holder = Nobody /\ holder' = r /\ UNCHANGED btxd
        /\ req[r].pc = "wait"
    BY DEF Acquire
  <1> HIDE DEF pc
  <1>3. pc \in Pcs /\ pc \in Section
    BY <1>1 DEF Pcs, Section
  <1>4. /\ req' \in [Reqs -> Requests]
        /\ req'[r].pc = pc
        /\ \A q \in Reqs \ {r} : req'[q] = req[q]
        /\ \A q \in Reqs : /\ req'[q].kind = req[q].kind
                           /\ req'[q].offer = req[q].offer
                           /\ req'[q].fund = req[q].fund
                           /\ req'[q].orphan = req[q].orphan
    BY <1>2, <1>3, PcType DEF Requesting
  <1>5. Shaped'
    BY <1>1, <1>2, <1>4 DEF Requesting, Shaped
  <1>6. req[r].orphan = FALSE /\ btxd
    BY <1>2 DEF Requesting, Serialised, Requests
  <1>7. Serialised'
    BY <1>2, <1>3, <1>4, <1>6, NobodyAssumption DEF Requesting, Serialised, Section
  <1> QED
    BY <1>2, <1>3, <1>4, <1>5, <1>6, <1>7 DEF Requesting

\* Whoever selects a funding coin has one.
LEMMA SelectType ==
    ASSUME Requesting, NEW r \in Reqs, req[r].pc = "select", NEW f \in Coins,
           req' = [req EXCEPT ![r].pc = "broadcast", ![r].fund = f],
           UNCHANGED <<holder, btxd>>
    PROVE  /\ Requesting'
           /\ \A q \in Reqs \ {r} : req'[q] = req[q]
           /\ req'[r].pc = "broadcast" /\ req'[r].fund = f
           /\ \A q \in Reqs : /\ req'[q].kind = req[q].kind
                              /\ req'[q].offer = req[q].offer
                              /\ req'[q].orphan = req[q].orphan
  <1> DEFINE new == [req[r] EXCEPT !.pc = "broadcast", !.fund = f]
  <1>0. req \in [Reqs -> Requests]
    BY DEF Requesting
  <1>1. /\ new \in Requests
        /\ new.pc = "broadcast" /\ new.fund = f /\ new.kind = req[r].kind
        /\ new.offer = req[r].offer /\ new.orphan = req[r].orphan
    BY <1>0 DEF Requests, Section
  <1>2. req' = [req EXCEPT ![r] = new]
    BY <1>0 DEF Requests
  <1> HIDE DEF new
  <1>3. /\ req' \in [Reqs -> Requests]
        /\ req'[r] = new
        /\ \A q \in Reqs \ {r} : req'[q] = req[q]
    BY <1>0, <1>1, <1>2
  <1>4. Shaped'
    BY <1>1, <1>3 DEF Requesting, Shaped
  <1>5. Serialised'
    BY <1>1, <1>3 DEF Requesting, Serialised, Section
  <1>6. "broadcast" \in Section
    BY DEF Section
  <1> QED
    BY <1>1, <1>3, <1>4, <1>5, <1>6 DEF Requesting

\* When btxd dies, a request is over, or runs on as an orphan of the same shape.
LEMMA AbandonedShape ==
    ASSUME req \in [Reqs -> Requests], NEW r \in Reqs, NEW new \in Abandoned(r)
    PROVE  /\ new \in Requests
           /\ new.kind = req[r].kind
           /\ new.offer = req[r].offer
           /\ new.fund = req[r].fund
           /\ \/ req[r].pc = "idle" /\ new = req[r]
              \/ req[r].pc # "idle" /\ new.pc = "done" /\ new.orphan = req[r].orphan
              \/ /\ req[r].pc # "idle" /\ new.pc = req[r].pc /\ new.orphan
                 /\ new.pc \in Section
  <1>1. CASE new = [req[r] EXCEPT !.pc = "done"] /\ req[r].pc # "idle"
    BY <1>1 DEF Requests
  <1>2. CASE new = [req[r] EXCEPT !.orphan = TRUE] /\ InTool(r)
    BY <1>2 DEF Requests, InTool, Section
  <1>3. CASE req[r].pc = "idle" /\ new = req[r]
    BY <1>3
  <1> QED
    BY <1>1, <1>2, <1>3 DEF Abandoned

LEMMA BtxdDiesType ==
    ASSUME Requesting, BtxdDies
    PROVE  Requesting'
  <1>1. /\ req' \in [Reqs -> UNION {Abandoned(r) : r \in Reqs}]
        /\ \A r \in Reqs : req'[r] \in Abandoned(r)
        /\ holder' = Nobody /\ btxd' = FALSE
    BY DEF BtxdDies
  <1>2. \A r \in Reqs :
          /\ req'[r] \in Requests
          /\ req'[r].kind = req[r].kind
          /\ req'[r].offer = req[r].offer
          /\ req'[r].fund = req[r].fund
          /\ \/ req[r].pc = "idle" /\ req'[r] = req[r]
             \/ /\ req[r].pc # "idle" /\ req'[r].pc = "done"
                /\ req'[r].orphan = req[r].orphan
             \/ /\ req[r].pc # "idle" /\ req'[r].pc = req[r].pc /\ req'[r].orphan
                /\ req'[r].pc \in Section
    BY <1>1, AbandonedShape DEF Requesting
  <1>3. req' \in [Reqs -> Requests]
    BY <1>1, <1>2
  <1>4. Shaped'
    BY <1>2 DEF Requesting, Shaped, Section
  <1>5. Serialised'
    BY <1>2 DEF Requesting, Serialised, Section
  <1> QED
    BY <1>1, <1>3, <1>4, <1>5 DEF Requesting

\* The next step, for what is said of the requests.
LEMMA RequestingStep ==
    ASSUME Requesting, [Next]_vars
    PROVE  Requesting'
  <1>1. CASE \E r \in Reqs, kind \in Kinds, c \in Coins : Arrive(r, kind, c)
    BY <1>1, ArriveType
  <1>2. ASSUME NEW r \in Reqs, ReqStep(r)
        PROVE  Requesting'
    <2>1. CASE Acquire(r)
      BY <2>1, AcquireType
    <2>2. CASE Fails(r)
      BY <2>2, ReturnType DEF Fails
    <2>3. CASE LockOffer(r)
      BY <2>3, GotoType DEF LockOffer, Section
    <2>4. CASE Sign(r)
      <3>1. req[r].pc = "sign" /\ UNCHANGED btxd
        BY <2>4 DEF Sign
      <3>2. CASE Return(r)
        BY <3>1, <3>2, ReturnType DEF Section
      <3>3. CASE Goto(r, "commit") /\ req[r].kind = "envelope"
        BY <3>1, <3>3, GotoType DEF Section
      <3>4. CASE Goto(r, "select")
        BY <3>1, <3>4, GotoType DEF Section
      <3> QED
        BY <2>4, <3>2, <3>3, <3>4 DEF Sign
    <2>5. CASE Commit(r)
      <3>1. req[r].kind = "envelope"
        BY <2>5 DEF Commit, Requesting, Shaped
      <3> QED
        BY <2>5, <3>1, GotoType DEF Commit, Section
    <2>6. CASE Persist(r)
      <3>1. req[r].kind = "envelope"
        BY <2>6 DEF Persist, Requesting, Shaped
      <3> QED
        BY <2>6, <3>1, GotoType DEF Persist, Section
    <2>7. CASE Reveal(r)
      BY <2>7, ReturnType DEF Reveal, Section
    <2>8. CASE Select(r)
      BY <2>8, SelectType DEF Select, Spendable
    <2>9. CASE Broadcast(r)
      BY <2>9, ReturnType DEF Broadcast, Section
    <2>10. CASE Send(r)
      BY <2>10, ReturnType DEF Send, Section
    <2> QED
      BY <1>2, <2>1, <2>2, <2>3, <2>4, <2>5, <2>6, <2>7, <2>8, <2>9, <2>10
      DEF ReqStep
  <1>3. CASE UNCHANGED <<req, holder, btxd>>
    BY <1>3 DEF Requesting, Shaped, Serialised
  <1>4. CASE \E k \in Cancels, c \in Coins : CancelCheck(k, c)
    BY <1>3, <1>4 DEF CancelCheck
  <1>5. CASE \E k \in Cancels : CancelStep(k)
    BY <1>3, <1>5
    DEF CancelStep, CancelUnlock, CancelFund, CancelSend, CancelFails
  <1>6. CASE \E c \in Coins : TakerFills(c) \/ ConfirmSpend(c) \/ ConfirmOrder(c)
    BY <1>3, <1>6 DEF TakerFills, ConfirmSpend, ConfirmOrder
  <1>7. CASE NodeRestarts
    BY <1>3, <1>7 DEF NodeRestarts
  <1>8. CASE BtxdDies
    BY <1>8, BtxdDiesType
  <1>9. CASE BtxdStarts
    <2>1. UNCHANGED <<req, holder>> /\ btxd' = TRUE
      BY <1>9 DEF BtxdStarts
    <2> QED
      BY <2>1 DEF Requesting, Shaped, Serialised
  <1>10. CASE UNCHANGED vars
    BY <1>3, <1>10 DEF vars
  <1> QED
    BY <1>1, <1>2, <1>4, <1>5, <1>6, <1>7, <1>8, <1>9, <1>10 DEF Next

-----------------------------------------------------------------------------
\* What the type invariant says of the cancels.
Cancelling == cancel \in [Cancels -> Cancellations] /\ CancelShaped

LEMMA CancellingStep ==
    ASSUME Cancelling, [Next]_vars
    PROVE  Cancelling'
  <1>1. ASSUME NEW k \in Cancels, NEW c \in Coins, CancelCheck(k, c)
        PROVE  Cancelling'
    <2> DEFINE new == [cancel[k] EXCEPT !.offer = c,
                           !.pc = IF gettxout(c) THEN "unlock" ELSE "done",
                           !.refused = ~gettxout(c)]
    <2>1. new \in Cancellations /\ new.offer = c /\ new.pc # "send"
      BY DEF Cancelling, Cancellations, gettxout, Unspent
    <2>2. cancel' = [cancel EXCEPT ![k] = new]
      BY <1>1 DEF CancelCheck, Cancelling, Cancellations
    <2> HIDE DEF new
    <2> QED
      BY <2>1, <2>2 DEF Cancelling, CancelShaped
  <1>2. ASSUME NEW k \in Cancels, CancelStep(k)
        PROVE  Cancelling'
    <2>1. CASE CancelUnlock(k)
      BY <2>1, CancelType DEF CancelUnlock, Cancelling, CancelShaped
    <2>2. CASE CancelFund(k)
      <3>1. PICK f \in Coins :
              cancel' = [cancel EXCEPT ![k].pc = "send", ![k].fee = f]
        BY <2>2 DEF CancelFund, Spendable
      <3> DEFINE new == [cancel[k] EXCEPT !.pc = "send", !.fee = f]
      <3>2. /\ new \in Cancellations /\ new.offer = cancel[k].offer
            /\ new.pc = "send" /\ new.fee = f
        BY DEF Cancelling, Cancellations
      <3>3. cancel' = [cancel EXCEPT ![k] = new]
        BY <3>1 DEF Cancelling, Cancellations
      <3>4. cancel[k].pc = "fund"
        BY <2>2 DEF CancelFund
      <3> HIDE DEF new
      <3> QED
        BY <3>2, <3>3, <3>4 DEF Cancelling, CancelShaped
    <2>3. CASE CancelSend(k)
      BY <2>3, CancelType DEF CancelSend, Cancelling, CancelShaped
    <2>4. CASE CancelFails(k)
      BY <2>4, CancelType DEF CancelFails, Cancelling, CancelShaped
    <2> QED
      BY <1>2, <2>1, <2>2, <2>3, <2>4 DEF CancelStep
  <1>3. CASE UNCHANGED cancel
    BY <1>3 DEF Cancelling, CancelShaped
  <1>4. CASE \E r \in Reqs, kind \in Kinds, c \in Coins : Arrive(r, kind, c)
    BY <1>3, <1>4 DEF Arrive
  <1>5. CASE \E r \in Reqs : ReqStep(r)
    BY <1>3, <1>5 DEF ReqStep, Acquire, Fails, LockOffer, Sign, Commit, Persist,
                      Reveal, Select, Broadcast, Send, wallet
  <1>6. CASE \E c \in Coins : TakerFills(c) \/ ConfirmSpend(c) \/ ConfirmOrder(c)
    BY <1>3, <1>6 DEF TakerFills, ConfirmSpend, ConfirmOrder
  <1>7. CASE NodeRestarts \/ BtxdDies \/ BtxdStarts
    BY <1>3, <1>7 DEF NodeRestarts, BtxdDies, BtxdStarts
  <1>8. CASE UNCHANGED vars
    BY <1>3, <1>8 DEF vars
  <1> QED
    BY <1>1, <1>2, <1>4, <1>5, <1>6, <1>7, <1>8 DEF Next

-----------------------------------------------------------------------------
Coin == [by : Spenders, confirmed : BOOLEAN]
Orders == {"none", "signed", "announced", "open"}

\* What the type invariant says of the coins.
Holding ==
    /\ spent \in [Coins -> Coin]
    /\ order \in [Coins -> Orders]
    /\ locked \subseteq Coins
    /\ exposed \subseteq Coins

\* What it says of the publishing.
Publishing ==
    /\ commit \in [Reqs -> {"none", "broadcast", "revealed"}]
    /\ file \in Reqs \cup {Nobody}

LEMMA PublishingStep ==
    ASSUME Publishing, [Next]_vars
    PROVE  Publishing'
  <1>1. CASE UNCHANGED <<commit, file>>
    BY <1>1 DEF Publishing
  <1>2. ASSUME NEW r \in Reqs, ReqStep(r)
        PROVE  Publishing'
    <2>1. CASE Commit(r)
      BY <2>1 DEF Commit, Publishing
    <2>2. CASE Persist(r)
      BY <2>2 DEF Persist, Publishing
    <2>3. CASE Reveal(r)
      BY <2>3 DEF Reveal, Publishing
    <2>4. CASE UNCHANGED <<commit, file>>
      BY <1>1, <2>4
    <2> QED
      BY <1>2, <2>1, <2>2, <2>3, <2>4
      DEF ReqStep, Acquire, Fails, LockOffer, Sign, Select, Broadcast, Send
  <1>3. CASE \E r \in Reqs, kind \in Kinds, c \in Coins : Arrive(r, kind, c)
    BY <1>1, <1>3 DEF Arrive
  <1>4. CASE \E k \in Cancels, c \in Coins : CancelCheck(k, c)
    BY <1>1, <1>4 DEF CancelCheck
  <1>5. CASE \E k \in Cancels : CancelStep(k)
    BY <1>1, <1>5
    DEF CancelStep, CancelUnlock, CancelFund, CancelSend, CancelFails
  <1>6. CASE \E c \in Coins : TakerFills(c) \/ ConfirmSpend(c) \/ ConfirmOrder(c)
    BY <1>1, <1>6 DEF TakerFills, ConfirmSpend, ConfirmOrder
  <1>7. CASE NodeRestarts \/ BtxdDies \/ BtxdStarts
    BY <1>1, <1>7 DEF NodeRestarts, BtxdDies, BtxdStarts
  <1>8. CASE UNCHANGED vars
    BY <1>1, <1>8 DEF vars
  <1> QED
    BY <1>2, <1>3, <1>4, <1>5, <1>6, <1>7, <1>8 DEF Next

LEMMA HoldingStep ==
    ASSUME Holding, Requesting, Cancelling, [Next]_vars
    PROVE  Holding'
  <1>1. CASE UNCHANGED wallet /\ UNCHANGED exposed
    BY <1>1 DEF Holding, wallet
  <1>2. ASSUME NEW r \in Reqs, ReqStep(r)
        PROVE  Holding'
    <2>1. CASE LockOffer(r)
      <3>1. req[r].offer \in Coins
        BY <2>1 DEF LockOffer, Requesting, Shaped
      <3> QED
        BY <2>1, <3>1 DEF LockOffer, Holding
    <2>2. CASE Sign(r)
      <3>1. req[r].offer \in Coins
        BY <2>2 DEF Sign, Requesting, Shaped
      <3>2. order' \in [Coins -> Orders] /\ UNCHANGED <<spent, locked, exposed>>
        <4>1. order' = [order EXCEPT ![req[r].offer] =
                          IF order[req[r].offer] = "none" THEN "signed"
                          ELSE order[req[r].offer]]
          BY <2>2 DEF Sign
        <4>2. UNCHANGED <<spent, locked, exposed>>
          BY <2>2 DEF Sign
        <4> QED
          BY <3>1, <4>1, <4>2 DEF Holding, Orders
      <3> QED
        BY <3>2 DEF Holding
    <2>3. CASE Commit(r) \/ Send(r)
      <3>1. \E f \in Coins : spent' = [spent EXCEPT ![f] = InMempool("fund")]
        BY <2>3 DEF Commit, Send, Spendable
      <3>2. UNCHANGED <<locked, order, exposed>>
        BY <2>3 DEF Commit, Send
      <3> QED
        BY <3>1, <3>2 DEF Holding, Coin, InMempool, Spenders
    <2>4. CASE Reveal(r)
      <3>1. UNCHANGED <<spent, locked, exposed>>
        BY <2>4 DEF Reveal
      <3>2. order' \in [Coins -> Orders]
        BY <2>4 DEF Reveal, Announce, Holding, Orders
      <3> QED
        BY <3>1, <3>2 DEF Holding
    <2>5. CASE Broadcast(r)
      <3>1. spent' \in [Coins -> Coin] /\ UNCHANGED <<locked, exposed>>
        BY <2>5 DEF Broadcast, Holding, Coin, InMempool, Spenders
      <3>2. order' \in [Coins -> Orders]
        BY <2>5 DEF Broadcast, Announce, Holding, Orders
      <3> QED
        BY <3>1, <3>2 DEF Holding
    <2>6. CASE Acquire(r) \/ Fails(r) \/ Persist(r) \/ Select(r)
      BY <1>1, <2>6 DEF Acquire, Fails, Persist, Select
    <2> QED
      BY <1>2, <2>1, <2>2, <2>3, <2>4, <2>5, <2>6 DEF ReqStep
  <1>3. ASSUME NEW k \in Cancels, CancelStep(k)
        PROVE  Holding'
    <2>1. CASE CancelUnlock(k)
      BY <2>1 DEF CancelUnlock, Holding, Cancelling, CancelShaped
    <2>2. CASE CancelSend(k)
      BY <2>2 DEF CancelSend, Holding, Coin, InMempool, Spenders
    <2>3. CASE CancelFund(k) \/ CancelFails(k)
      BY <1>1, <2>3 DEF CancelFund, CancelFails
    <2> QED
      BY <1>3, <2>1, <2>2, <2>3 DEF CancelStep
  <1>4. ASSUME NEW c \in Coins, TakerFills(c) \/ ConfirmSpend(c) \/ ConfirmOrder(c)
        PROVE  Holding'
    <2>1. CASE TakerFills(c)
      BY <2>1 DEF TakerFills, Holding, Coin, InMempool, Spenders
    <2>2. CASE ConfirmSpend(c)
      BY <2>2 DEF ConfirmSpend, Holding, Coin
    <2>3. CASE ConfirmOrder(c)
      BY <2>3 DEF ConfirmOrder, Holding, Orders
    <2> QED
      BY <1>4, <2>1, <2>2, <2>3
  <1>5. CASE NodeRestarts \/ BtxdStarts
    BY <1>5 DEF NodeRestarts, BtxdStarts, Holding
  <1>6. CASE \E r \in Reqs, kind \in Kinds, c \in Coins : Arrive(r, kind, c)
    BY <1>1, <1>6 DEF Arrive
  <1>7. CASE \E k \in Cancels, c \in Coins : CancelCheck(k, c)
    BY <1>1, <1>7 DEF CancelCheck
  <1>8. CASE BtxdDies \/ UNCHANGED vars
    BY <1>1, <1>8 DEF BtxdDies, vars, wallet
  <1> QED
    BY <1>2, <1>3, <1>4, <1>5, <1>6, <1>7, <1>8 DEF Next

\* What is in the type invariant, and what the places of requests and cancels add
\* to it.
T == Requesting /\ Cancelling /\ Holding /\ Publishing

LEMMA TypeStep ==
    ASSUME T, [Next]_vars
    PROVE  T'
  BY RequestingStep, CancellingStep, HoldingStep, PublishingStep DEF T

LEMMA TypeInit ==
    ASSUME Init
    PROVE  T
  <1>1. Requesting
    <2>1. \A r \in Reqs : /\ req[r].pc = "idle" /\ ~req[r].orphan
                          /\ req[r].pc \notin Section
      BY DEF Init, Section
    <2>2. req \in [Reqs -> Requests]
      BY DEF Init, Requests, Kinds
    <2>3. Shaped /\ Serialised
      BY <2>1 DEF Shaped, Serialised, Section
    <2> QED
      BY <2>2, <2>3 DEF Init, Requesting
  <1>2. Cancelling
    BY DEF Init, Cancelling, Cancellations, CancelShaped
  <1>3. Holding
    BY DEF Init, Holding, Coin, InMempool, Spenders, Orders
  <1>4. Publishing
    BY DEF Init, Publishing
  <1> QED
    BY <1>1, <1>2, <1>3, <1>4 DEF T

\* Every variable has its type, and the lock belongs to a request that is being
\* served by this btxd.
THEOREM TypeCorrect == Spec => []TypeOK
  <1>1. T => TypeOK
    BY DEF T, Requesting, Cancelling, Holding, Publishing, TypeOK, Coin, Orders
  <1> QED
    BY TypeInit, TypeStep, <1>1, PTL DEF Spec

-----------------------------------------------------------------------------
\* Who spends a coin: the wallet's own payments avoid what is locked, but for the
\* coin that a fill or an announcement has picked before.
LEMMA SpentChanges ==
    ASSUME T, [Next]_vars, NEW c \in Coins, spent'[c].by # spent[c].by
    PROVE  \/ spent'[c].by = "cancel"
           \/ spent'[c].by = "fill" /\ TakerFills(c)
           \/ /\ spent'[c].by = "fund" /\ c \in Spendable
              /\ \E r \in Reqs : Commit(r) \/ Send(r)
           \/ /\ spent'[c].by = "fund"
              /\ \E r \in Reqs : Broadcast(r) /\ c = req[r].fund
  <1>0. spent \in [Coins -> Coin]
    BY DEF T, Holding
  <1>1. CASE UNCHANGED spent
    BY <1>1
  <1>2. ASSUME NEW r \in Reqs, ReqStep(r), spent' # spent
        PROVE  \/ /\ spent'[c].by = "fund" /\ c \in Spendable
                  /\ Commit(r) \/ Send(r)
               \/ spent'[c].by = "fund" /\ Broadcast(r) /\ c = req[r].fund
    <2>1. CASE Commit(r) \/ Send(r)
      <3>1. PICK f \in Spendable : spent' = [spent EXCEPT ![f] = InMempool("fund")]
        BY <2>1 DEF Commit, Send
      <3> QED
        BY <1>0, <2>1, <3>1 DEF InMempool
    <2>2. CASE Broadcast(r)
      BY <1>0, <2>2 DEF Broadcast, InMempool
    <2> QED
      BY <1>2, <2>1, <2>2
      DEF ReqStep, Acquire, Fails, LockOffer, Sign, Persist, Reveal, Select, wallet
  <1>3. ASSUME NEW k \in Cancels, CancelStep(k), spent' # spent
        PROVE  spent'[c].by = "cancel"
    <2>1. CancelSend(k)
      BY <1>3 DEF CancelStep, CancelUnlock, CancelFund, CancelFails, wallet
    <2> QED
      BY <1>0, <2>1 DEF CancelSend, InMempool
  <1>4. ASSUME NEW d \in Coins, TakerFills(d)
        PROVE  spent'[c].by = "fill" /\ TakerFills(c)
    BY <1>0, <1>4 DEF TakerFills, InMempool
  <1>5. ASSUME NEW d \in Coins, ConfirmSpend(d)
        PROVE  FALSE
    BY <1>0, <1>5 DEF ConfirmSpend, Coin
  <1>6. CASE \E d \in Coins : ConfirmOrder(d)
    BY <1>1, <1>6 DEF ConfirmOrder
  <1>7. CASE \E r \in Reqs, kind \in Kinds, d \in Coins : Arrive(r, kind, d)
    BY <1>1, <1>7 DEF Arrive, wallet
  <1>8. CASE \E k \in Cancels, d \in Coins : CancelCheck(k, d)
    BY <1>1, <1>8 DEF CancelCheck, wallet
  <1>9. CASE NodeRestarts \/ BtxdDies \/ BtxdStarts \/ UNCHANGED vars
    BY <1>1, <1>9 DEF NodeRestarts, BtxdDies, BtxdStarts, vars, wallet
  <1> QED
    BY <1>1, <1>2, <1>3, <1>4, <1>5, <1>6, <1>7, <1>8, <1>9 DEF Next

\* An offer becomes one when it is signed, and for good.
LEMMA OrderChanges ==
    ASSUME T, Signed, [Next]_vars, NEW c \in Coins
    PROVE  /\ order[c] # "none" => order'[c] # "none"
           /\ order[c] = "none" /\ order'[c] # "none" =>
                  \E r \in Reqs : Sign(r) /\ c = req[r].offer
  <1>0. order \in [Coins -> Orders]
    BY DEF T, Holding
  <1>1. CASE UNCHANGED order
    BY <1>1
  <1>2. ASSUME NEW r \in Reqs, ReqStep(r)
        PROVE  /\ order[c] # "none" => order'[c] # "none"
               /\ order[c] = "none" /\ order'[c] # "none" =>
                      Sign(r) /\ c = req[r].offer
    <2>1. CASE Sign(r)
      <3>1. order' = [order EXCEPT ![req[r].offer] =
                        IF order[req[r].offer] = "none" THEN "signed"
                        ELSE order[req[r].offer]]
        BY <2>1 DEF Sign
      <3> QED
        BY <1>0, <2>1, <3>1
    <2>2. ASSUME Announce(req[r].offer), req[r].kind \in Creates,
                 req[r].pc \in {"reveal", "broadcast"}
          PROVE  order[c] # "none" <=> order'[c] # "none"
      <3>1. order[req[r].offer] # "none"
        BY <2>2 DEF Signed
      <3>2. order' = [order EXCEPT ![req[r].offer] =
                        IF order[req[r].offer] = "open" THEN order[req[r].offer]
                        ELSE "announced"]
        BY <2>2 DEF Announce
      <3> QED
        BY <1>0, <3>1, <3>2
    <2>3. CASE Reveal(r)
      <3>1. req[r].kind \in Creates
        BY <2>3 DEF Reveal, T, Requesting, Shaped, Creates
      <3> QED
        BY <2>2, <2>3, <3>1 DEF Reveal
    <2>4. CASE Broadcast(r) /\ req[r].kind = "op_return"
      BY <2>2, <2>4 DEF Broadcast, Creates
    <2>5. CASE UNCHANGED order
      BY <1>1, <2>5
    <2> QED
      BY <1>2, <2>1, <2>3, <2>4, <2>5
      DEF ReqStep, Acquire, Fails, LockOffer, Commit, Persist, Select, Broadcast,
          Send, wallet
  <1>3. CASE \E d \in Coins : ConfirmOrder(d)
    BY <1>0, <1>3 DEF ConfirmOrder
  <1>4. CASE \E d \in Coins : TakerFills(d) \/ ConfirmSpend(d)
    BY <1>1, <1>4 DEF TakerFills, ConfirmSpend
  <1>5. CASE \E k \in Cancels : CancelStep(k)
    BY <1>1, <1>5 DEF CancelStep, CancelUnlock, CancelFund, CancelSend,
                      CancelFails, wallet
  <1>6. CASE \E r \in Reqs, kind \in Kinds, d \in Coins : Arrive(r, kind, d)
    BY <1>1, <1>6 DEF Arrive, wallet
  <1>7. CASE \E k \in Cancels, d \in Coins : CancelCheck(k, d)
    BY <1>1, <1>7 DEF CancelCheck, wallet
  <1>8. CASE NodeRestarts \/ BtxdDies \/ BtxdStarts \/ UNCHANGED vars
    BY <1>1, <1>8 DEF NodeRestarts, BtxdDies, BtxdStarts, vars, wallet
  <1> QED
    BY <1>2, <1>3, <1>4, <1>5, <1>6, <1>7, <1>8 DEF Next

\* Whatever unlocks a coin exposes it, and only an unspent coin is protected
\* again, by a request that offers it or by btxd when it starts.
LEMMA ProtectionGrows ==
    ASSUME T, [Next]_vars
    PROVE  /\ locked \cup exposed \subseteq locked' \cup exposed'
           /\ \A c \in exposed \ exposed' :
                /\ Unspent(c)
                /\ ~btxd \/ \E r \in Reqs : LockOffer(r) /\ c = req[r].offer
  <1>1. CASE UNCHANGED <<locked, exposed>>
    BY <1>1
  <1>2. ASSUME NEW r \in Reqs, LockOffer(r)
        PROVE  /\ locked \cup exposed \subseteq locked' \cup exposed'
               /\ \A c \in exposed \ exposed' :
                    Unspent(c) /\ c = req[r].offer
    BY <1>2 DEF LockOffer
  <1>3. CASE \E r \in Reqs : ReqStep(r) /\ ~LockOffer(r)
    BY <1>1, <1>3 DEF ReqStep, Acquire, Fails, Sign, Commit, Persist, Reveal,
                      Select, Broadcast, Send, wallet
  <1>4. CASE \E k \in Cancels : CancelUnlock(k)
    BY <1>4 DEF CancelUnlock
  <1>5. CASE \E k \in Cancels : CancelStep(k) /\ ~CancelUnlock(k)
    BY <1>1, <1>5 DEF CancelStep, CancelFund, CancelSend, CancelFails, wallet
  <1>6. CASE \E d \in Coins : TakerFills(d) \/ ConfirmSpend(d) \/ ConfirmOrder(d)
    BY <1>1, <1>6 DEF TakerFills, ConfirmSpend, ConfirmOrder
  <1>7. CASE \E r \in Reqs, kind \in Kinds, d \in Coins : Arrive(r, kind, d)
    BY <1>1, <1>7 DEF Arrive, wallet
  <1>8. CASE \E k \in Cancels, d \in Coins : CancelCheck(k, d)
    BY <1>1, <1>8 DEF CancelCheck, wallet
  <1>9. CASE NodeRestarts
    BY <1>9 DEF NodeRestarts
  <1>10. CASE BtxdStarts
    BY <1>10 DEF BtxdStarts
  <1>11. CASE BtxdDies \/ UNCHANGED vars
    BY <1>1, <1>11 DEF BtxdDies, vars, wallet
  <1> QED
    BY <1>2, <1>3, <1>4, <1>5, <1>6, <1>7, <1>8, <1>9, <1>10, <1>11
    DEF Next, ReqStep, CancelStep

\* How a request can come to be where it is.
Moves(q) ==
    \/ req'[q].pc \notin Section
    \/ req'[q].pc = req[q].pc /\ req'[q].fund = req[q].fund
    \/ Acquire(q) /\ req'[q].pc = First(req[q].kind)
    \/ LockOffer(q) /\ req'[q].pc = "sign"
    \/ Sign(q) /\ req'[q].pc \in {"commit", "select"}
    \/ Commit(q) /\ req'[q].pc = "persist"
    \/ Persist(q) /\ req'[q].pc = "reveal"
    \/ Select(q) /\ req'[q].pc = "broadcast" /\ req'[q].fund \in Spendable

\* It stays what it is, and an orphan stays an orphan.
Stays(q) ==
    /\ req[q].orphan => req'[q].orphan
    /\ req'[q].pc \in Section => /\ req'[q].kind = req[q].kind
                                 /\ req'[q].offer = req[q].offer

LEMMA RequestChanges ==
    ASSUME T, [Next]_vars, NEW q \in Reqs
    PROVE  Moves(q) /\ Stays(q)
  <1>0. req \in [Reqs -> Requests]
    BY DEF T, Requesting
  <1>1. CASE UNCHANGED req
    BY <1>1 DEF Moves, Stays
  <1>2. ASSUME NEW r \in Reqs, ReqStep(r), NEW pc \in Pcs,
               req' = [req EXCEPT ![r].pc = pc],
               q = r => \/ pc \notin Section
                        \/ Acquire(r) /\ pc = First(req[r].kind)
                        \/ LockOffer(r) /\ pc = "sign"
                        \/ Sign(r) /\ pc \in {"commit", "select"}
                        \/ Commit(r) /\ pc = "persist"
                        \/ Persist(r) /\ pc = "reveal"
        PROVE  Moves(q) /\ Stays(q)
    <2>1. /\ req'[r].pc = pc
          /\ \A p \in Reqs \ {r} : req'[p] = req[p]
          /\ \A p \in Reqs : /\ req'[p].kind = req[p].kind
                             /\ req'[p].offer = req[p].offer
                             /\ req'[p].fund = req[p].fund
                             /\ req'[p].orphan = req[p].orphan
      BY <1>0, <1>2, PcType
    <2> QED
      BY <1>2, <2>1 DEF Moves, Stays
  <1>3. ASSUME NEW r \in Reqs, ReqStep(r)
        PROVE  Moves(q) /\ Stays(q)
    <2>0. "done" \notin Section /\ Section \subseteq Pcs /\ "done" \in Pcs
      BY DEF Section, Pcs
    <2>1. CASE Return(r)
      BY <1>2, <1>3, <2>0, <2>1 DEF Return
    <2>2. CASE Acquire(r)
      <3>1. First(req[r].kind) \in Pcs
        BY DEF First, Pcs, Section
      <3> QED
        BY <1>2, <1>3, <2>2, <3>1 DEF Acquire
    <2>3. CASE LockOffer(r)
      BY <1>2, <1>3, <2>0, <2>3 DEF LockOffer, Goto, Section
    <2>4. CASE Sign(r) /\ Goto(r, "commit")
      BY <1>2, <1>3, <2>0, <2>4 DEF Goto, Section
    <2>5. CASE Sign(r) /\ Goto(r, "select")
      BY <1>2, <1>3, <2>0, <2>5 DEF Goto, Section
    <2>6. CASE Commit(r)
      BY <1>2, <1>3, <2>0, <2>6 DEF Commit, Goto, Section
    <2>7. CASE Persist(r)
      BY <1>2, <1>3, <2>0, <2>7 DEF Persist, Goto, Section
    <2>8. CASE Select(r)
      <3>1. PICK f \in Spendable :
              req' = [req EXCEPT ![r].pc = "broadcast", ![r].fund = f]
        BY <2>8 DEF Select
      <3>2. req[r].pc = "select" /\ UNCHANGED <<holder, btxd>> /\ f \in Coins
        BY <2>8 DEF Select, Spendable
      <3>3. /\ \A p \in Reqs \ {r} : req'[p] = req[p]
            /\ req'[r].pc = "broadcast" /\ req'[r].fund = f
            /\ \A p \in Reqs : /\ req'[p].kind = req[p].kind
                               /\ req'[p].offer = req[p].offer
                               /\ req'[p].orphan = req[p].orphan
        BY <3>1, <3>2, SelectType DEF T
      <3> QED
        BY <2>8, <3>3 DEF Moves, Stays
    <2> QED
      BY <1>3, <2>1, <2>2, <2>3, <2>4, <2>5, <2>6, <2>7, <2>8
      DEF ReqStep, Fails, Sign, Reveal, Broadcast, Send
  <1>4. ASSUME NEW r \in Reqs, NEW kind \in Kinds, NEW c \in Coins,
               Arrive(r, kind, c)
        PROVE  Moves(q) /\ Stays(q)
    <2>1. /\ q # r => req'[q] = req[q]
          /\ q = r => req'[q].pc = "wait"
      BY <1>0, <1>4 DEF Arrive
    <2>2. q = r => ~req[q].orphan
      BY <1>4 DEF Arrive, T, Requesting, Shaped
    <2> QED
      BY <2>1, <2>2 DEF Moves, Stays, Section
  <1>5. CASE BtxdDies
    <2>1. req'[q] \in Abandoned(q)
      BY <1>5 DEF BtxdDies
    <2>2. /\ req'[q].kind = req[q].kind
          /\ req'[q].offer = req[q].offer
          /\ req'[q].fund = req[q].fund
          /\ \/ req[q].pc = "idle" /\ req'[q] = req[q]
             \/ req'[q].pc = "done" /\ req'[q].orphan = req[q].orphan
             \/ req'[q].pc = req[q].pc /\ req'[q].orphan
      BY <1>0, <2>1, AbandonedShape
    <2> QED
      BY <2>2 DEF Moves, Stays, Section
  <1>6. CASE \E k \in Cancels, c \in Coins : CancelCheck(k, c)
    BY <1>1, <1>6 DEF CancelCheck
  <1>7. CASE \E k \in Cancels : CancelStep(k)
    BY <1>1, <1>7
    DEF CancelStep, CancelUnlock, CancelFund, CancelSend, CancelFails
  <1>8. CASE \E c \in Coins : TakerFills(c) \/ ConfirmSpend(c) \/ ConfirmOrder(c)
    BY <1>1, <1>8 DEF TakerFills, ConfirmSpend, ConfirmOrder
  <1>9. CASE NodeRestarts \/ BtxdStarts \/ UNCHANGED vars
    BY <1>1, <1>9 DEF NodeRestarts, BtxdStarts, vars
  <1> QED
    BY <1>3, <1>4, <1>5, <1>6, <1>7, <1>8, <1>9 DEF Next

\* Unless a tool is orphaned, one request at most is past the lock, and btxd runs.
LEMMA Exclusive ==
    ASSUME T, ~Orphans, NEW q \in Reqs, NEW r \in Reqs,
           req[q].pc \in Section, req[r].pc \in Section
    PROVE  q = r /\ btxd
  BY DEF T, Requesting, Serialised, Orphans

LEMMA OrphansStay ==
    ASSUME T, [Next]_vars, Orphans
    PROVE  Orphans'
  <1>1. PICK q \in Reqs : req[q].orphan
    BY DEF Orphans
  <1>2. req'[q].orphan
    BY <1>1, RequestChanges DEF Stays
  <1> QED
    BY <1>2 DEF Orphans

\* From its signature on, an offer is locked or exposed.
LEMMA CoveredStep ==
    ASSUME T, Signed, Covered, [Next]_vars
    PROVE  Covered'
  <1>1. ASSUME NEW c \in Coins, order'[c] # "none"
        PROVE  c \in locked' \cup exposed'
    <2>1. CASE order[c] # "none"
      BY <2>1, ProtectionGrows DEF Covered
    <2>2. CASE order[c] = "none"
      <3>1. PICK r \in Reqs : Sign(r) /\ c = req[r].offer
        BY <1>1, <2>2, OrderChanges
      <3> QED
        BY <3>1, ProtectionGrows DEF Sign, Covered
    <2> QED
      BY <2>1, <2>2
  <1>2. ASSUME NEW r \in Reqs, req'[r].pc = "sign"
        PROVE  req'[r].offer \in locked' \cup exposed'
    <2>1. Moves(r) /\ Stays(r) /\ req'[r].offer = req[r].offer
      BY <1>2, RequestChanges DEF Stays, Section
    <2>2. CASE req[r].pc = "sign"
      BY <2>1, <2>2, ProtectionGrows DEF Covered
    <2>3. CASE LockOffer(r)
      BY <2>1, <2>3 DEF LockOffer
    <2> QED
      BY <1>2, <2>1, <2>2, <2>3 DEF Moves, Section, First
  <1> QED
    BY <1>1, <1>2 DEF Covered

\* Only a signed offer is published.
LEMMA SignedStep ==
    ASSUME T, Signed, [Next]_vars
    PROVE  Signed'
  <1> SUFFICES ASSUME NEW r \in Reqs, req'[r].kind \in Creates,
                      req'[r].pc \in {"commit", "persist", "reveal", "select",
                                      "broadcast"}
               PROVE  order'[req'[r].offer] # "none"
    BY DEF Signed
  <1>1. /\ Moves(r) /\ req'[r].pc \in Section
        /\ req'[r].kind = req[r].kind /\ req'[r].offer = req[r].offer
    BY RequestChanges DEF Stays, Section
  <1>2. req[r].pc # "idle" => req[r].offer \in Coins
    BY <1>1 DEF T, Requesting, Shaped
  <1>3. CASE req[r].pc \in {"commit", "persist", "reveal", "select", "broadcast"}
    BY <1>1, <1>2, <1>3, OrderChanges DEF Signed
  <1>4. CASE Sign(r)
    <2>1. order' = [order EXCEPT ![req[r].offer] =
                      IF order[req[r].offer] = "none" THEN "signed"
                      ELSE order[req[r].offer]]
      BY <1>4 DEF Sign
    <2> QED
      BY <1>1, <1>2, <1>4, <2>1 DEF Sign, T, Holding
  <1>5. CASE Acquire(r) /\ req'[r].pc = First(req[r].kind)
    BY <1>1, <1>5 DEF First
  <1> QED
    BY <1>1, <1>3, <1>4, <1>5 DEF Moves, Commit, Persist, Select

\* A coin that is picked is not locked; and nothing is signed or locked between
\* the selection and the payment.
LEMMA PickedStep ==
    ASSUME T, Signed, Covered, Picked, [Next]_vars
    PROVE  Picked'
  <1> SUFFICES ASSUME ~Orphans', NEW r \in Reqs, req'[r].pc = "broadcast",
                      order'[req'[r].fund] # "none"
               PROVE  req'[r].fund \in exposed'
    BY DEF Picked
  <1>1. ~Orphans
    BY OrphansStay
  <1>2. Moves(r)
    BY RequestChanges
  <1>3. CASE req[r].pc = "broadcast" /\ req'[r].fund = req[r].fund
    <2> DEFINE f == req[r].fund
    <2>1. f \in Coins
      BY <1>3 DEF T, Requesting, Shaped
    <2>2. order[f] # "none"
      <3> SUFFICES ASSUME order[f] = "none"
                   PROVE  FALSE
        OBVIOUS
      <3>1. PICK q \in Reqs : Sign(q)
        BY <1>3, <2>1, OrderChanges
      <3> QED
        BY <1>1, <1>3, <3>1, Exclusive DEF Sign, Section
    <2>3. f \in exposed
      BY <1>1, <1>3, <2>2 DEF Picked
    <2>4. btxd /\ \A q \in Reqs : ~LockOffer(q)
      BY <1>1, <1>3, Exclusive DEF LockOffer, Section
    <2> QED
      BY <1>3, <2>3, <2>4, ProtectionGrows
  <1>4. CASE Select(r) /\ req'[r].fund \in Spendable
    <2>1. UNCHANGED <<order, exposed>>
      BY <1>4 DEF Select, wallet
    <2> QED
      BY <1>4, <2>1 DEF Covered, Spendable
  <1> QED
    BY <1>2, <1>3, <1>4 DEF Moves, Section, First

\* Neither coin selection nor a coin picked before spends an offer.
LEMMA OffersStep ==
    ASSUME T, Signed, Covered, Picked, OffersNotSpentAsFunding, [Next]_vars
    PROVE  OffersNotSpentAsFunding'
  <1> SUFFICES ASSUME NEW c \in Coins, order'[c] # "none",
                      spent'[c].by = "fund", ~Orphans'
               PROVE  c \in exposed'
    BY DEF OffersNotSpentAsFunding
  <1>1. ~Orphans
    BY OrphansStay
  <1>2. CASE spent[c].by = "fund"
    <2>1. order[c] # "none"
      <3> SUFFICES ASSUME order[c] = "none"
                   PROVE  FALSE
        OBVIOUS
      <3>1. PICK q \in Reqs : Sign(q) /\ c = req[q].offer
        BY OrderChanges
      <3> QED
        BY <1>2, <3>1 DEF Sign, Unspent
    <2>2. c \in exposed
      BY <1>1, <1>2, <2>1 DEF OffersNotSpentAsFunding
    <2> QED
      BY <1>2, <2>2, ProtectionGrows DEF Unspent
  <1>3. CASE spent[c].by # "fund"
    <2>1. \/ c \in Spendable /\ \E r \in Reqs : Commit(r) \/ Send(r)
          \/ \E r \in Reqs : Broadcast(r) /\ c = req[r].fund
      BY <1>3, SpentChanges
    <2>2. ASSUME NEW r \in Reqs, Commit(r) \/ Send(r), c \in Spendable
          PROVE  c \in exposed'
      <3>1. UNCHANGED <<order, exposed>>
        BY <2>2 DEF Commit, Send
      <3> QED
        BY <2>2, <3>1 DEF Covered, Spendable
    <2>3. ASSUME NEW r \in Reqs, Broadcast(r), c = req[r].fund
          PROVE  c \in exposed'
      <3>1. UNCHANGED exposed /\ req[r].pc = "broadcast"
        BY <2>3 DEF Broadcast
      <3>2. order[c] # "none"
        <4> SUFFICES ASSUME order[c] = "none"
                     PROVE  FALSE
          OBVIOUS
        <4>1. PICK q \in Reqs : Sign(q)
          BY OrderChanges
        <4> QED
          BY <1>1, <3>1, <4>1, Exclusive DEF Sign, Section
      <3> QED
        BY <1>1, <2>3, <3>1, <3>2 DEF Picked
    <2> QED
      BY <2>1, <2>2, <2>3
  <1> QED
    BY <1>2, <1>3

\* Nobody else pays with a coin that is picked.
LEMMA FundingStep ==
    ASSUME T, Signed, Covered, Picked, FundingNotStolen, [Next]_vars
    PROVE  FundingNotStolen'
  <1> SUFFICES ASSUME NEW r \in Reqs, req'[r].pc = "broadcast", ~Orphans'
               PROVE  \/ spent'[req'[r].fund].by \in {"none", "cancel"}
                      \/ /\ spent'[req'[r].fund].by = "fill"
                         /\ req'[r].fund \in exposed'
    BY DEF FundingNotStolen
  <1>1. ~Orphans
    BY OrphansStay
  <1>2. Moves(r)
    BY RequestChanges
  <1>3. CASE req[r].pc = "broadcast" /\ req'[r].fund = req[r].fund
    <2> DEFINE f == req[r].fund
    <2>1. f \in Coins
      BY <1>3 DEF T, Requesting, Shaped
    <2>2. \/ spent[f].by \in {"none", "cancel"}
          \/ spent[f].by = "fill" /\ f \in exposed
      BY <1>1, <1>3 DEF FundingNotStolen
    <2>3. CASE spent'[f].by = spent[f].by
      BY <1>3, <2>2, <2>3, ProtectionGrows DEF Unspent
    <2>4. CASE spent'[f].by # spent[f].by
      <3>1. ASSUME NEW q \in Reqs, Commit(q) \/ Send(q)
            PROVE  FALSE
        BY <1>1, <1>3, <3>1, Exclusive DEF Commit, Send, Section
      <3>2. ASSUME NEW q \in Reqs, Broadcast(q)
            PROVE  FALSE
        <4>1. q = r
          BY <1>1, <1>3, <3>2, Exclusive DEF Broadcast, Section
        <4>2. req'[r].pc = "done"
          BY <3>2, <4>1 DEF Broadcast, Return, T, Requesting, Requests
        <4> QED
          BY <4>2
      <3>3. CASE spent'[f].by = "fill" /\ TakerFills(f)
        <4>1. order[f] # "none" /\ UNCHANGED exposed
          BY <3>3 DEF TakerFills
        <4> QED
          BY <1>1, <1>3, <3>3, <4>1 DEF Picked
      <3>4. CASE spent'[f].by = "cancel"
        BY <1>3, <3>4
      <3> QED
        BY <2>1, <2>4, <3>1, <3>2, <3>3, <3>4, SpentChanges
    <2> QED
      BY <2>3, <2>4
  <1>4. CASE Select(r) /\ req'[r].fund \in Spendable
    <2>1. UNCHANGED spent
      BY <1>4 DEF Select, wallet
    <2> QED
      BY <1>4, <2>1 DEF Spendable, Unspent
  <1> QED
    BY <1>2, <1>3, <1>4 DEF Moves, Section, First

-----------------------------------------------------------------------------
IInv ==
    T /\ Signed /\ Covered /\ Picked /\ OffersNotSpentAsFunding /\ FundingNotStolen

LEMMA IInvInit ==
    ASSUME Init
    PROVE  IInv
  <1>1. /\ \A c \in Coins : order[c] = "none" /\ spent[c].by = "none"
        /\ \A r \in Reqs : req[r].pc = "idle"
    BY DEF Init, InMempool
  <1> QED
    BY <1>1, TypeInit
    DEF IInv, Signed, Covered, Picked, OffersNotSpentAsFunding, FundingNotStolen

LEMMA IInvStep ==
    ASSUME IInv, [Next]_vars
    PROVE  IInv'
  BY TypeStep, SignedStep, CoveredStep, PickedStep, OffersStep, FundingStep
  DEF IInv

\* The wallet never spends the offer of a signed order as funding, but for coins
\* whose lock failed or was given up, as long as no tool outlives its btxd.
THEOREM OffersAreSafe == Spec => []OffersNotSpentAsFunding
  <1>1. IInv => OffersNotSpentAsFunding
    BY DEF IInv
  <1> QED
    BY IInvInit, IInvStep, <1>1, PTL DEF Spec

\* The coin that a request has picked is still there when it pays, but for a
\* cancel, a taker of an exposed offer or an orphaned tool.
THEOREM FundingIsSafe == Spec => []FundingNotStolen
  <1>1. IInv => FundingNotStolen
    BY DEF IInv
  <1> QED
    BY IInvInit, IInvStep, <1>1, PTL DEF Spec

\* A tool that dies between the recovery record and the reveal leaves the record
\* of its own commit on disk, as long as no tool outlives its btxd.
THEOREM RevealsAreRecoverable == Spec => []RevealIsRecoverable
  <1>1. ASSUME T, [Next]_vars, file' # file
        PROVE  \E q \in Reqs : Persist(q)
    BY <1>1 DEF Next, Arrive, ReqStep, Acquire, Fails, LockOffer, Sign, Commit,
      Reveal, Select, Broadcast, Send, CancelCheck, CancelStep, CancelUnlock,
      CancelFund, CancelSend, CancelFails, TakerFills, ConfirmSpend,
      ConfirmOrder, NodeRestarts, BtxdDies, BtxdStarts, vars
  <1>2. ASSUME T, RevealIsRecoverable, [Next]_vars
        PROVE  RevealIsRecoverable'
    <2> SUFFICES ASSUME NEW r \in Reqs, req'[r].pc = "reveal", ~Orphans'
                 PROVE  file' = r
      BY DEF RevealIsRecoverable
    <2>1. ~Orphans
      BY <1>2, OrphansStay
    <2>2. Moves(r)
      BY <1>2, RequestChanges
    <2>3. CASE Persist(r)
      BY <2>3 DEF Persist
    <2>4. CASE req[r].pc = "reveal"
      <3>1. file = r
        BY <1>2, <2>1, <2>4 DEF RevealIsRecoverable
      <3>2. ASSUME NEW q \in Reqs, Persist(q)
            PROVE  FALSE
        BY <1>2, <2>1, <2>4, <3>2, Exclusive DEF Persist, Section
      <3> QED
        BY <1>1, <1>2, <3>1, <3>2
    <2> QED
      BY <2>2, <2>3, <2>4 DEF Moves, Section, First
  <1>3. Init => RevealIsRecoverable
    BY DEF Init, RevealIsRecoverable
  <1>4. T /\ RevealIsRecoverable /\ [Next]_vars => (T /\ RevealIsRecoverable)'
    BY <1>2, TypeStep
  <1>5. Init => T /\ RevealIsRecoverable
    BY <1>3, TypeInit
  <1> QED
    BY <1>4, <1>5, PTL DEF Spec

-----------------------------------------------------------------------------
(***************************************************************************)
(* The wallet implements the ledger.  Every spend was decided on earlier   *)
(* reads: of the coin selection, of gettxout.  Picked and Covered say that *)
(* what was read still holds when the coin is spent.                       *)
(***************************************************************************)

\* What a cancel is after is an order, and it pays its fee with another coin.
Aimed ==
    \A k \in Cancels :
        /\ cancel[k].pc \in {"unlock", "fund", "send"} =>
               order[cancel[k].offer] # "none"
        /\ cancel[k].pc = "send" => cancel[k].fee # cancel[k].offer

LEMMA AimedStep ==
    ASSUME T, Signed, Aimed, [Next]_vars
    PROVE  Aimed'
  <1>0. cancel \in [Cancels -> Cancellations] /\ CancelShaped
    BY DEF T, Cancelling
  <1>1. ASSUME UNCHANGED cancel
        PROVE  Aimed'
    BY <1>0, <1>1, OrderChanges DEF Aimed, CancelShaped
  <1>2. ASSUME NEW k \in Cancels, NEW c \in Coins, CancelCheck(k, c)
        PROVE  Aimed'
    <2>1. /\ order[c] # "none" /\ order' = order
          /\ cancel'[k].offer = c /\ cancel'[k].pc # "send"
          /\ \A q \in Cancels \ {k} : cancel'[q] = cancel[q]
      BY <1>0, <1>2 DEF CancelCheck, Cancellations, gettxout, wallet
    <2> QED
      BY <2>1 DEF Aimed
  <1>3. ASSUME NEW k \in Cancels, CancelUnlock(k) \/ CancelSend(k) \/ CancelFails(k)
        PROVE  Aimed'
    <2>1. /\ order' = order
          /\ cancel[k].pc \in {"unlock", "fund", "send"}
          /\ \/ cancel' = [cancel EXCEPT ![k].pc = "fund"]
             \/ cancel' = [cancel EXCEPT ![k].pc = "done"]
      BY <1>3 DEF CancelUnlock, CancelSend, CancelFails, wallet
    <2>2. /\ \A q \in Cancels \ {k} : cancel'[q] = cancel[q]
          /\ cancel'[k].offer = cancel[k].offer
          /\ cancel'[k].pc # "send"
      BY <1>0, <2>1, CancelType
    <2> QED
      BY <2>1, <2>2 DEF Aimed
  <1>4. ASSUME NEW k \in Cancels, CancelFund(k)
        PROVE  Aimed'
    <2>1. PICK f \in Spendable \ {cancel[k].offer} :
            cancel' = [cancel EXCEPT ![k].pc = "send", ![k].fee = f]
      BY <1>4 DEF CancelFund
    <2>2. /\ \A q \in Cancels \ {k} : cancel'[q] = cancel[q]
          /\ cancel'[k].offer = cancel[k].offer /\ cancel'[k].fee = f
      BY <1>0, <2>1 DEF Cancellations
    <2>3. order' = order /\ cancel[k].pc = "fund"
      BY <1>4 DEF CancelFund, wallet
    <2> QED
      BY <2>1, <2>2, <2>3 DEF Aimed
  <1>5. CASE \E r \in Reqs : ReqStep(r)
    BY <1>1, <1>5 DEF ReqStep, Acquire, Fails, LockOffer, Sign, Commit, Persist,
                      Reveal, Select, Broadcast, Send
  <1>6. CASE \E c \in Coins : TakerFills(c) \/ ConfirmSpend(c) \/ ConfirmOrder(c)
    BY <1>1, <1>6 DEF TakerFills, ConfirmSpend, ConfirmOrder
  <1>7. CASE \E r \in Reqs, kind \in Kinds, c \in Coins : Arrive(r, kind, c)
    BY <1>1, <1>7 DEF Arrive
  <1>8. CASE NodeRestarts \/ BtxdDies \/ BtxdStarts \/ UNCHANGED vars
    BY <1>1, <1>8 DEF NodeRestarts, BtxdDies, BtxdStarts, vars
  <1> QED
    BY <1>2, <1>3, <1>4, <1>5, <1>6, <1>7, <1>8 DEF Next, CancelStep

\* Only the death of btxd makes an orphan.
LEMMA OrphansFrom ==
    ASSUME T, [Next]_vars, ~BtxdDies
    PROVE  Orphans' <=> Orphans
  <1>1. ASSUME NEW q \in Reqs, NEW r \in Reqs, NEW pc \in Pcs,
               req' = [req EXCEPT ![r].pc = pc]
        PROVE  req'[q].orphan = req[q].orphan
    BY <1>1, PcType DEF T, Requesting
  <1>2. ASSUME NEW q \in Reqs
        PROVE  req'[q].orphan = req[q].orphan
    <2>1. CASE UNCHANGED req
      BY <2>1
    <2>2. ASSUME NEW r \in Reqs, ReqStep(r)
          PROVE  req'[q].orphan = req[q].orphan
      <3>1. /\ First(req[r].kind) \in Pcs
            /\ {"sign", "commit", "persist", "reveal", "select", "done"} \subseteq Pcs
        BY DEF First, Pcs, Section
      <3>2. CASE Select(r)
        BY <3>2, SelectType DEF Select, Spendable, T
      <3> QED
        BY <1>1, <2>2, <3>1, <3>2
        DEF ReqStep, Acquire, Fails, LockOffer, Sign, Commit, Persist, Reveal,
            Broadcast, Send, Goto, Return
    <2>3. ASSUME NEW r \in Reqs, NEW kind \in Kinds, NEW c \in Coins,
                 Arrive(r, kind, c)
          PROVE  req'[q].orphan = req[q].orphan
      <3>0. req \in [Reqs -> Requests] /\ req[r].pc = "idle"
        BY <2>3 DEF Arrive, T, Requesting
      <3>1. /\ q # r => req'[q] = req[q]
            /\ q = r => req'[q].orphan = FALSE
        BY <2>3, <3>0 DEF Arrive
      <3>2. q = r => req[q].orphan = FALSE
        <4>1. ~req[r].orphan
          BY <3>0 DEF T, Requesting, Shaped
        <4>2. req[r] \in Requests
          BY <3>0
        <4>3. req[r].orphan \in BOOLEAN
          BY <4>2 DEF Requests
        <4> QED
          BY <4>1, <4>3
      <3>3. CASE q = r
        BY <3>1, <3>2, <3>3, Zenon
      <3>4. CASE q # r
        BY <3>1, <3>4, Zenon
      <3> QED
        BY <3>3, <3>4
    <2>4. CASE \E k \in Cancels, c \in Coins : CancelCheck(k, c)
      BY <2>1, <2>4 DEF CancelCheck
    <2>5. CASE \E k \in Cancels : CancelStep(k)
      BY <2>1, <2>5
      DEF CancelStep, CancelUnlock, CancelFund, CancelSend, CancelFails
    <2>6. CASE \E c \in Coins : TakerFills(c) \/ ConfirmSpend(c) \/ ConfirmOrder(c)
      BY <2>1, <2>6 DEF TakerFills, ConfirmSpend, ConfirmOrder
    <2>7. CASE NodeRestarts \/ BtxdStarts \/ UNCHANGED vars
      BY <2>1, <2>7 DEF NodeRestarts, BtxdStarts, vars
    <2> QED
      BY <2>2, <2>3, <2>4, <2>5, <2>6, <2>7 DEF Next
  <1> QED
    BY <1>2 DEF Orphans

\* An announcement of an order that is out already changes nothing.
LEMMA AnnounceMaps ==
    ASSUME T, Signed, NEW r \in Reqs, req[r].kind \in Creates,
           req[r].pc \in {"reveal", "broadcast"}, Announce(req[r].offer)
    PROVE  \/ UNCHANGED order
           \/ Ledger!Becomes(req[r].offer, "signed", "announced")
  <1>1. order[req[r].offer] # "none"
    BY DEF Signed
  <1>2. req[r].offer \in Coins
    BY DEF T, Requesting, Shaped
  <1>3. order[req[r].offer] \in {"signed", "announced", "open"}
    BY <1>1, <1>2 DEF T, Holding, Orders
  <1>4. CASE order[req[r].offer] = "signed"
    BY <1>4 DEF Announce, Ledger!Becomes
  <1>5. CASE order[req[r].offer] # "signed"
    <2>1. order' = [order EXCEPT ![req[r].offer] = order[req[r].offer]]
      BY <1>3, <1>5 DEF Announce
    <2> QED
      BY <2>1 DEF T, Holding
  <1> QED
    BY <1>4, <1>5

\* A request spends a coin that is not reserved, now, whenever it was chosen.
LEMMA RequestMaps ==
    ASSUME IInv, NEW r \in Reqs, ReqStep(r)
    PROVE  Ledger!Next \/ UNCHANGED Ledger!vars
  <1>0. Ledger!Next \/ UNCHANGED <<spent, order, exposed, Orphans>>
    <2>0. T /\ Signed /\ Covered /\ Picked /\ [Next]_vars /\ ~BtxdDies
      <3>1. ReqStep(r) => Next
        BY DEF Next
      <3>2. btxd' = btxd
        BY DEF ReqStep, Acquire, Fails, LockOffer, Sign, Commit, Persist, Reveal,
               Select, Broadcast, Send
      <3> QED
        BY <3>1, <3>2 DEF IInv, BtxdDies
    <2>1. UNCHANGED Orphans
      BY <2>0, OrphansFrom DEF Orphans
    <2>2. CASE Acquire(r) \/ Fails(r) \/ Persist(r) \/ Select(r)
      BY <2>1, <2>2 DEF Acquire, Fails, Persist, Select, wallet
    <2>3. CASE LockOffer(r)
      <3> DEFINE c == req[r].offer
      <3>1. c \in Coins
        BY <2>0, <2>3 DEF LockOffer, T, Requesting, Shaped
      <3>2. UNCHANGED <<spent, order>>
        BY <2>3 DEF LockOffer
      <3>3. CASE Unspent(c) /\ exposed' = exposed \ {c}
        <4>1. Ledger!Reserve({c})
          BY <2>1, <3>2, <3>3 DEF Ledger!Reserve, Ledger!Unspent, Unspent
        <4> QED
          BY <3>1, <4>1 DEF Ledger!Next
      <3>4. CASE exposed' = exposed \cup {c}
        <4>1. Ledger!GiveUp({c})
          BY <2>1, <3>2, <3>4 DEF Ledger!GiveUp
        <4> QED
          BY <3>1, <4>1 DEF Ledger!Next
      <3> QED
        BY <2>1, <2>3, <3>2, <3>3, <3>4 DEF LockOffer
    <2>4. CASE Sign(r)
      <3> DEFINE c == req[r].offer
      <3>1. c \in Coins
        BY <2>0, <2>4 DEF Sign, T, Requesting, Shaped
      <3>2. UNCHANGED <<spent, exposed>> /\ Unspent(c)
        BY <2>4 DEF Sign
      <3>3. CASE order[c] = "none"
        <4>1. order' = [order EXCEPT ![c] = "signed"]
          BY <2>4, <3>3 DEF Sign
        <4>2. Ledger!Sign(c)
          BY <2>1, <3>2, <3>3, <4>1
          DEF Ledger!Sign, Ledger!Becomes, Ledger!Unspent, Unspent
        <4> QED
          BY <3>1, <4>2 DEF Ledger!Next
      <3>4. CASE order[c] # "none"
        <4>1. order' = [order EXCEPT ![c] = order[c]]
          BY <2>4, <3>4 DEF Sign
        <4>2. order' = order
          BY <2>0, <4>1 DEF T, Holding
        <4> QED
          BY <2>1, <3>2, <4>2
      <3> QED
        BY <3>3, <3>4
    <2>5. CASE Commit(r) \/ Send(r)
      <3>1. PICK f \in Spendable : spent' = [spent EXCEPT ![f] = InMempool("fund")]
        BY <2>5 DEF Commit, Send
      <3>2. UNCHANGED <<order, exposed>>
        BY <2>5 DEF Commit, Send
      <3>3. f \in Coins /\ Unspent(f) /\ ~Ledger!Reserved(f)
        BY <2>0, <3>1 DEF Spendable, Covered, Ledger!Reserved
      <3>4. Ledger!Pay(f)
        BY <2>1, <3>1, <3>2, <3>3
        DEF Ledger!Pay, Ledger!Unspent, Unspent, Ledger!InMempool, InMempool
      <3> QED
        BY <3>3, <3>4 DEF Ledger!Next
    <2>6. CASE Reveal(r)
      <3>1. req[r].kind \in Creates /\ req[r].offer \in Coins
        BY <2>0, <2>6 DEF Reveal, T, Requesting, Shaped, Creates
      <3>2. UNCHANGED <<spent, exposed>>
        BY <2>6 DEF Reveal
      <3>3. CASE UNCHANGED order
        BY <2>1, <3>2, <3>3
      <3>4. CASE Ledger!Becomes(req[r].offer, "signed", "announced")
        <4>1. Ledger!Announce(req[r].offer)
          BY <2>1, <3>2, <3>4 DEF Ledger!Announce
        <4> QED
          BY <3>1, <4>1 DEF Ledger!Next
      <3> QED
        BY <2>0, <2>6, <3>1, <3>3, <3>4, AnnounceMaps DEF Reveal
    <2>7. CASE Broadcast(r)
      <3> DEFINE f == req[r].fund
      <3>1. /\ req[r].pc = "broadcast" /\ Unspent(f) /\ UNCHANGED exposed
            /\ spent' = [spent EXCEPT ![f] = InMempool("fund")]
        BY <2>7 DEF Broadcast
      <3>2. f \in Coins
        BY <2>0, <3>1 DEF T, Requesting, Shaped
      <3>3. ~Ledger!Reserved(f)
        BY <2>0, <3>1 DEF Picked, Ledger!Reserved
      <3>4. UNCHANGED order \/ \E c \in Coins : Ledger!Becomes(c, "signed", "announced")
        <4>1. CASE UNCHANGED order
          BY <4>1
        <4>2. CASE req[r].kind = "op_return" /\ Announce(req[r].offer)
          <5>1. req[r].kind \in Creates /\ req[r].offer \in Coins
            BY <2>0, <3>1, <4>2 DEF Creates, T, Requesting, Shaped
          <5> QED
            BY <2>0, <3>1, <4>2, <5>1, AnnounceMaps
        <4> QED
          BY <2>7, <4>1, <4>2 DEF Broadcast
      <3>5. Ledger!Pay(f)
        BY <2>1, <3>1, <3>3, <3>4
        DEF Ledger!Pay, Ledger!Unspent, Unspent, Ledger!InMempool, InMempool
      <3> QED
        BY <3>2, <3>5 DEF Ledger!Next
    <2> QED
      BY <2>2, <2>3, <2>4, <2>5, <2>6, <2>7 DEF ReqStep
  <1> QED
    BY <1>0 DEF Ledger!vars

\* A cancel takes back an offer that is still an order.
LEMMA CancelMaps ==
    ASSUME IInv, Aimed, NEW k \in Cancels, CancelStep(k)
    PROVE  Ledger!Next \/ UNCHANGED Ledger!vars
  <1>1. UNCHANGED Orphans
    BY DEF CancelStep, CancelUnlock, CancelFund, CancelSend, CancelFails, Orphans
  <1>2. CASE CancelFund(k) \/ CancelFails(k)
    BY <1>1, <1>2 DEF CancelFund, CancelFails, wallet, Ledger!vars
  <1>3. CASE CancelUnlock(k)
    <2>1. cancel[k].offer \in Coins
      BY <1>3 DEF CancelUnlock, IInv, T, Cancelling, CancelShaped
    <2>2. Ledger!GiveUp({cancel[k].offer})
      BY <1>1, <1>3 DEF CancelUnlock, Ledger!GiveUp
    <2> QED
      BY <2>1, <2>2 DEF Ledger!Next
  <1>4. CASE CancelSend(k)
    <2> DEFINE c == cancel[k].offer
               f == cancel[k].fee
    <2>1. c \in Coins /\ f \in Coins /\ order[c] # "none" /\ f # c
      BY <1>4 DEF CancelSend, IInv, T, Cancelling, CancelShaped, Aimed
    <2>2. /\ Unspent(f)
          /\ Unspent(c) \/ spent[c] = InMempool("fill")
          /\ spent' = [spent EXCEPT ![c] = InMempool("cancel"),
                                    ![f] = InMempool("cancel")]
          /\ UNCHANGED <<order, exposed>>
      BY <1>4 DEF CancelSend
    <2>3. Ledger!Cancel(c, f)
      BY <1>1, <2>1, <2>2
      DEF Ledger!Cancel, Ledger!Unspent, Unspent, Ledger!InMempool, InMempool
    <2> QED
      BY <2>1, <2>3 DEF Ledger!Next
  <1> QED
    BY <1>2, <1>3, <1>4 DEF CancelStep

\* Every step is a step of the ledger, or hidden from it.
LEMMA LedgerStep ==
    ASSUME IInv, Aimed, [Next]_vars
    PROVE  [Ledger!Next]_(Ledger!vars)
  <1>1. CASE \E r \in Reqs : ReqStep(r)
    BY <1>1, RequestMaps
  <1>2. CASE \E k \in Cancels : CancelStep(k)
    BY <1>2, CancelMaps
  <1>3. ASSUME NEW c \in Coins, TakerFills(c) \/ ConfirmSpend(c) \/ ConfirmOrder(c)
        PROVE  Ledger!Next
    <2>1. UNCHANGED Orphans /\ UNCHANGED exposed
      BY <1>3 DEF TakerFills, ConfirmSpend, ConfirmOrder, Orphans
    <2>2. Ledger!Fill(c) \/ Ledger!Confirm(c) \/ Ledger!Open(c)
      BY <1>3, <2>1
      DEF TakerFills, ConfirmSpend, ConfirmOrder, Unspent, InMempool, Ledger!Fill,
          Ledger!Confirm, Ledger!Open, Ledger!Becomes, Ledger!Unspent,
          Ledger!InMempool
    <2> QED
      BY <2>2 DEF Ledger!Next
  <1>4. CASE NodeRestarts
    <2>1. Ledger!GiveUp(locked) /\ locked \in SUBSET Coins
      BY <1>4 DEF NodeRestarts, Ledger!GiveUp, Orphans, IInv, T, Holding
    <2> QED
      BY <2>1 DEF Ledger!Next
  <1>5. CASE BtxdStarts
    <2>1. PICK relocked \in SUBSET {c \in Coins : order[c] = "open" /\ Unspent(c)} :
            exposed' = exposed \ relocked
      BY <1>5 DEF BtxdStarts
    <2>2. Ledger!Reserve(relocked) /\ relocked \in SUBSET Coins
      BY <1>5, <2>1 DEF BtxdStarts, Ledger!Reserve, Ledger!Unspent, Unspent, Orphans
    <2> QED
      BY <2>2 DEF Ledger!Next
  <1>6. CASE BtxdDies
    <2>1. UNCHANGED <<spent, order, exposed>>
      BY <1>6 DEF BtxdDies, wallet
    <2>2. Orphans => Orphans'
      BY OrphansStay DEF IInv
    <2>3. CASE Orphans'
      <3>1. Orphans' = TRUE
        BY <2>3 DEF Orphans
      <3>2. Ledger!Orphan
        BY <2>1, <3>1 DEF Ledger!Orphan
      <3> QED
        BY <3>2 DEF Ledger!Next
    <2>4. CASE ~Orphans'
      <3>1. UNCHANGED Orphans
        BY <2>2, <2>4 DEF Orphans
      <3> QED
        BY <2>1, <3>1 DEF Ledger!vars
    <2> QED
      BY <2>3, <2>4
  <1>7. CASE \/ \E r \in Reqs, kind \in Kinds, c \in Coins : Arrive(r, kind, c)
             \/ \E k \in Cancels, c \in Coins : CancelCheck(k, c)
             \/ UNCHANGED vars
    <2>1. UNCHANGED <<spent, order, exposed>> /\ ~BtxdDies
      <3>1. UNCHANGED <<spent, order, exposed, btxd>>
        BY <1>7 DEF Arrive, CancelCheck, vars, wallet
      <3> QED
        BY <3>1 DEF BtxdDies
    <2>2. UNCHANGED Orphans
      BY <2>1, OrphansFrom DEF IInv, Orphans
    <2> QED
      BY <2>1, <2>2 DEF Ledger!vars
  <1> QED
    BY <1>1, <1>2, <1>3, <1>4, <1>5, <1>6, <1>7 DEF Next

\* With its requests, locks and tools hidden, the wallet is a ledger that chooses
\* and spends in one step, and pays with no coin that is reserved: whatever a
\* handler of btxd, a tool or a cancel read before it spends still holds then.
THEOREM ImplementsLedger == Spec => LedgerSpec
  <1>1. Init => Ledger!Init
    BY DEF Init, Ledger!Init, InMempool, Ledger!InMempool, Orphans
  <1>2. Init => IInv /\ Aimed
    BY IInvInit DEF Init, Aimed
  <1>3. IInv /\ Aimed /\ [Next]_vars => (IInv /\ Aimed)'
    BY IInvStep, AimedStep DEF IInv
  <1>4. IInv /\ Aimed /\ [Next]_vars => [Ledger!Next]_(Ledger!vars)
    BY LedgerStep
  <1> QED
    BY <1>1, <1>2, <1>3, <1>4, PTL DEF Spec, LedgerSpec, Ledger!Spec
=============================================================================
