------------------------------- MODULE Trading -------------------------------
(***************************************************************************)
(* Making and cancelling an open order with the wallet of one node:        *)
(* btxd.py, which serves the GUI and serialises its mutating requests, the *)
(* tools it runs (btx_wallet.py maker-sign and taker-fill,                 *)
(* btx_envelope_publish.py publish), and a cancel that the user runs from  *)
(* the command line, outside btxd's lock.                                  *)
(*                                                                         *)
(* Bitcoin Core is external: the wallet's coins, the set of coins it has   *)
(* locked (in memory only), and the mempool.  Every call of bitcoin-cli is *)
(* a step; between two steps a taker may fill an announced offer, blocks   *)
(* may be mined, btxd may die and the node may restart.  A tool is a       *)
(* process of its own, which survives the btxd that started it.            *)
(***************************************************************************)
EXTENDS Naturals, FiniteSets

CONSTANTS Coins,    \* confirmed P2WPKH outputs of the wallet
          Reqs,     \* bound: the POST requests to btxd
          Cancels,  \* bound: the cancels run from the command line
          Nobody    \* no request, no coin

ASSUME NobodyAssumption == Nobody \notin Reqs \cup Coins

VARIABLES spent,    \* who spends a coin, and whether that is confirmed
          locked,   \* Core's in-memory set of locked coins
          order,    \* the order that offers a coin
          holder,   \* who holds _WALLET_LOCK
          req,      \* the requests
          cancel,   \* the cancels
          commit,   \* the commit transaction of an envelope publish
          file,     \* whose reveal key btx_envelope_recovery.json holds
          btxd,     \* whether btxd is running
          exposed   \* history: coins whose lock failed or was given up

wallet == <<spent, locked, order>>
vars == <<spent, locked, order, holder, req, cancel, commit, file, btxd, exposed>>

Kinds == {"envelope", "op_return", "fill", "send"}
Creates == {"envelope", "op_return"}
Section == {"lock", "sign", "commit", "persist", "reveal", "select",
            "broadcast", "send"}
Spenders == {"none", "fund", "fill", "cancel"}

Unspent(c) == spent[c].by = "none"

\* listunspent and coin selection: neither spent, in the mempool or not, nor
\* locked.
Spendable == {c \in Coins : Unspent(c)} \ locked

\* gettxout looks at the mempool too, unless told otherwise.
gettxout(c) == Unspent(c)

InMempool(who) == [by |-> who, confirmed |-> FALSE]

Init ==
    /\ spent = [c \in Coins |-> InMempool("none")]
    /\ locked = {}
    /\ order = [c \in Coins |-> "none"]
    /\ holder = Nobody
    /\ req = [r \in Reqs |-> [pc |-> "idle", kind |-> "send",
                              offer |-> Nobody, fund |-> Nobody,
                              orphan |-> FALSE]]
    /\ cancel = [k \in Cancels |-> [pc |-> "idle", offer |-> Nobody,
                                    fee |-> Nobody, refused |-> FALSE]]
    /\ commit = [r \in Reqs |-> "none"]
    /\ file = Nobody
    /\ btxd = TRUE
    /\ exposed = {}

-----------------------------------------------------------------------------
\* A request arrives on a thread of its own; do_POST waits for the lock.
Arrive(r, kind, c) ==
    /\ btxd
    /\ req[r].pc = "idle"
    /\ req' = [req EXCEPT ![r] = [pc |-> "wait", kind |-> kind,
                                  offer |-> IF kind \in Creates THEN c ELSE Nobody,
                                  fund |-> Nobody, orphan |-> FALSE]]
    /\ UNCHANGED <<wallet, holder, cancel, commit, file, btxd, exposed>>

First(kind) == IF kind \in Creates THEN "lock"
               ELSE IF kind = "fill" THEN "select" ELSE "send"

\* Mutant: requests are not serialised.
AcquireAnyway(r) ==
    /\ req[r].pc = "wait"
    /\ holder' = r
    /\ req' = [req EXCEPT ![r].pc = First(req[r].kind)]
    /\ UNCHANGED <<wallet, cancel, commit, file, btxd, exposed>>

Acquire(r) ==
    /\ req[r].pc = "wait"
    /\ holder = Nobody
    /\ holder' = r
    /\ req' = [req EXCEPT ![r].pc = First(req[r].kind)]
    /\ UNCHANGED <<wallet, cancel, commit, file, btxd, exposed>>

Goto(r, pc) == req' = [req EXCEPT ![r].pc = pc] /\ UNCHANGED holder

\* The handler returns, with a result or an error, and releases the lock; a tool
\* that outlives btxd just exits.
Return(r) ==
    /\ req' = [req EXCEPT ![r].pc = "done"]
    /\ holder' = IF holder = r THEN Nobody ELSE holder

\* Mutant: a request that fails keeps the lock.
FailsHolding(r) ==
    /\ req[r].pc \in Section \ {"lock"}
    /\ Goto(r, "done")
    /\ UNCHANGED <<wallet, cancel, commit, file, btxd, exposed>>

\* A call of bitcoin-cli fails or times out: the handler gives up, and leaves
\* everything it has done so far.
Fails(r) ==
    /\ req[r].pc \in Section \ {"lock"}
    /\ Return(r)
    /\ UNCHANGED <<wallet, cancel, commit, file, btxd, exposed>>

\* Mutant: the offer is not locked.
LockOfferNever(r) ==
    /\ req[r].pc = "lock"
    /\ Goto(r, "sign")
    /\ UNCHANGED <<wallet, cancel, commit, file, btxd, exposed>>

\* maker-sign reserves the offer, as far as the wallet lets it.
LockOffer(r) ==
    LET c == req[r].offer IN
    /\ req[r].pc = "lock"
    /\ \/ /\ Unspent(c)
          /\ locked' = locked \cup {c}
          /\ exposed' = exposed \ {c}
       \/ /\ UNCHANGED locked
          /\ exposed' = IF c \in locked THEN exposed ELSE exposed \cup {c}
    /\ Goto(r, "sign")
    /\ UNCHANGED <<spent, order, cancel, commit, file, btxd>>

\* maker-sign: the wallet signs the offer, which must be unspent.  It is btxd that
\* goes on to publish the artifact.
Sign(r) ==
    LET c == req[r].offer IN
    /\ req[r].pc = "sign"
    /\ Unspent(c)
    /\ order' = [order EXCEPT ![c] = IF @ = "none" THEN "signed" ELSE @]
    /\ IF req[r].orphan THEN Return(r)
       ELSE Goto(r, IF req[r].kind = "envelope" THEN "commit" ELSE "select")
    /\ UNCHANGED <<spent, locked, cancel, commit, file, btxd, exposed>>

\* publish: sendtoaddress selects coins and broadcasts the commit at once.
Commit(r) ==
    /\ req[r].pc = "commit"
    /\ \E f \in Spendable : spent' = [spent EXCEPT ![f] = InMempool("fund")]
    /\ commit' = [commit EXCEPT ![r] = "broadcast"]
    /\ Goto(r, "persist")
    /\ UNCHANGED <<locked, order, cancel, file, btxd, exposed>>

\* publish: the recovery record, always at the same path.
Persist(r) ==
    /\ req[r].pc = "persist"
    /\ file' = r
    /\ Goto(r, "reveal")
    /\ UNCHANGED <<wallet, cancel, commit, btxd, exposed>>

Announce(c) ==
    order' = [order EXCEPT ![c] = IF @ = "open" THEN @ ELSE "announced"]

\* publish: the reveal carries the artifact.
Reveal(r) ==
    /\ req[r].pc = "reveal"
    /\ commit' = [commit EXCEPT ![r] = "revealed"]
    /\ Announce(req[r].offer)
    /\ Return(r)
    /\ UNCHANGED <<spent, locked, cancel, file, btxd, exposed>>

\* fundrawtransaction (OP_RETURN carrier) or taker-fill picks a funding coin ...
Select(r) ==
    /\ req[r].pc = "select"
    /\ \E f \in Spendable :
         req' = [req EXCEPT ![r].pc = "broadcast", ![r].fund = f]
    /\ UNCHANGED <<wallet, holder, cancel, commit, file, btxd, exposed>>

\* ... and sendrawtransaction spends it, if nobody else has.
Broadcast(r) ==
    LET f == req[r].fund IN
    /\ req[r].pc = "broadcast"
    /\ Unspent(f)
    /\ spent' = [spent EXCEPT ![f] = InMempool("fund")]
    /\ IF req[r].kind = "op_return" THEN Announce(req[r].offer)
                                    ELSE UNCHANGED order
    /\ Return(r)
    /\ UNCHANGED <<locked, cancel, commit, file, btxd, exposed>>

\* h_wallet_send: sendtoaddress.
Send(r) ==
    /\ req[r].pc = "send"
    /\ \E f \in Spendable : spent' = [spent EXCEPT ![f] = InMempool("fund")]
    /\ Return(r)
    /\ UNCHANGED <<locked, order, cancel, commit, file, btxd, exposed>>

-----------------------------------------------------------------------------
\* cmd_cancel: refuse if the offer output is gone.
CancelCheck(k, c) ==
    /\ cancel[k].pc = "idle"
    /\ order[c] # "none"
    /\ cancel' = [cancel EXCEPT ![k].offer = c,
                                ![k].pc = IF gettxout(c) THEN "unlock" ELSE "done",
                                ![k].refused = ~gettxout(c)]
    /\ UNCHANGED <<wallet, holder, req, commit, file, btxd, exposed>>

\* cmd_cancel: release the lock that maker-sign placed.
CancelUnlock(k) ==
    LET c == cancel[k].offer IN
    /\ cancel[k].pc = "unlock"
    /\ locked' = locked \ {c}
    /\ exposed' = exposed \cup {c}
    /\ cancel' = [cancel EXCEPT ![k].pc = "fund"]
    /\ UNCHANGED <<spent, order, holder, req, commit, file, btxd>>

\* cmd_cancel: fundrawtransaction adds an input for the fee.
CancelFund(k) ==
    /\ cancel[k].pc = "fund"
    /\ \E f \in Spendable \ {cancel[k].offer} :
         cancel' = [cancel EXCEPT ![k].pc = "send", ![k].fee = f]
    /\ UNCHANGED <<wallet, holder, req, commit, file, btxd, exposed>>

\* cmd_cancel: sendrawtransaction, which replaces an unconfirmed fill of the
\* offer if it pays more.
CancelSend(k) ==
    LET c == cancel[k].offer
        f == cancel[k].fee
    IN
    /\ cancel[k].pc = "send"
    /\ Unspent(f)
    /\ Unspent(c) \/ spent[c] = InMempool("fill")
    /\ spent' = [spent EXCEPT ![c] = InMempool("cancel"),
                              ![f] = InMempool("cancel")]
    /\ cancel' = [cancel EXCEPT ![k].pc = "done"]
    /\ UNCHANGED <<locked, order, holder, req, commit, file, btxd, exposed>>

\* Any call of the cancel fails: the tool exits where it is.
CancelFails(k) ==
    /\ cancel[k].pc \in {"unlock", "fund", "send"}
    /\ cancel' = [cancel EXCEPT ![k].pc = "done"]
    /\ UNCHANGED <<wallet, holder, req, commit, file, btxd, exposed>>

-----------------------------------------------------------------------------
\* A taker fills an announced order, and may replace an unconfirmed cancel.
TakerFills(c) ==
    /\ order[c] \in {"announced", "open"}
    /\ Unspent(c) \/ spent[c] = InMempool("cancel")
    /\ spent' = [spent EXCEPT ![c] = InMempool("fill")]
    /\ UNCHANGED <<locked, order, holder, req, cancel, commit, file, btxd, exposed>>

\* A block confirms what spends a coin, or the announcement of an order.
ConfirmSpend(c) ==
    /\ spent[c].by # "none" /\ ~spent[c].confirmed
    /\ spent' = [spent EXCEPT ![c].confirmed = TRUE]
    /\ UNCHANGED <<locked, order, holder, req, cancel, commit, file, btxd, exposed>>

ConfirmOrder(c) ==
    /\ order[c] = "announced"
    /\ order' = [order EXCEPT ![c] = "open"]
    /\ UNCHANGED <<spent, locked, holder, req, cancel, commit, file, btxd, exposed>>

\* The node restarts by itself, as when the supervisor brings it back after a
\* crash: its locks are gone, and btxd does not notice.
NodeRestarts ==
    /\ locked # {}
    /\ locked' = {}
    /\ exposed' = exposed \cup locked
    /\ UNCHANGED <<spent, order, holder, req, cancel, commit, file, btxd>>

\* The steps of btx_wallet.py and btx_envelope_publish.py; the others are btxd's.
InTool(r) ==
    \/ req[r].pc \in {"lock", "sign", "commit", "persist", "reveal"}
    \/ req[r].pc \in {"select", "broadcast"} /\ req[r].kind = "fill"

\* What becomes of a request when btxd dies: its tool may run on.
Abandoned(r) ==
    IF req[r].pc = "idle" THEN {req[r]}
    ELSE {[req[r] EXCEPT !.pc = "done"]} \cup
         (IF InTool(r) THEN {[req[r] EXCEPT !.orphan = TRUE]} ELSE {})

\* btxd dies in the middle of anything, and its lock with it.
BtxdDies ==
    /\ btxd
    /\ btxd' = FALSE
    /\ req' \in {q \in [Reqs -> UNION {Abandoned(r) : r \in Reqs}] :
                   \A r \in Reqs : q[r] \in Abandoned(r)}
    /\ holder' = Nobody
    /\ UNCHANGED <<wallet, cancel, commit, file, exposed>>

\* main: relock_open_offers locks the offers of the orders that the indexer has
\* in its book, those that the indexer and the wallet let it lock.
BtxdStarts ==
    /\ ~btxd
    /\ btxd' = TRUE
    /\ \E relocked \in SUBSET {c \in Coins : order[c] = "open" /\ Unspent(c)} :
         /\ locked' = locked \cup relocked
         /\ exposed' = exposed \ relocked
    /\ UNCHANGED <<spent, order, holder, req, cancel, commit, file>>

ReqStep(r) ==
    \/ Acquire(r) \/ Fails(r) \/ LockOffer(r) \/ Sign(r) \/ Commit(r)
    \/ Persist(r) \/ Reveal(r) \/ Select(r) \/ Broadcast(r) \/ Send(r)

CancelStep(k) ==
    \/ CancelUnlock(k) \/ CancelFund(k) \/ CancelSend(k) \/ CancelFails(k)

Next ==
    \/ \E r \in Reqs, kind \in Kinds, c \in Coins : Arrive(r, kind, c)
    \/ \E r \in Reqs : ReqStep(r)
    \/ \E k \in Cancels, c \in Coins : CancelCheck(k, c)
    \/ \E k \in Cancels : CancelStep(k)
    \/ \E c \in Coins : TakerFills(c) \/ ConfirmSpend(c) \/ ConfirmOrder(c)
    \/ NodeRestarts
    \/ BtxdDies
    \/ BtxdStarts

Spec == Init /\ [][Next]_vars

\* bcli and run_tool bound every call by a timeout, so that a request that holds
\* the lock moves on.
FairSpec == Spec /\ \A r \in Reqs : WF_vars(ReqStep(r))

-----------------------------------------------------------------------------
Requests == [pc : Section \cup {"idle", "wait", "done"}, kind : Kinds,
             offer : Coins \cup {Nobody}, fund : Coins \cup {Nobody},
             orphan : BOOLEAN]
Cancellations == [pc : {"idle", "unlock", "fund", "send", "done"},
                  offer : Coins \cup {Nobody}, fee : Coins \cup {Nobody},
                  refused : BOOLEAN]

\* The lock belongs to a request that is being served.
TypeOK ==
    /\ spent \in [Coins -> [by : Spenders, confirmed : BOOLEAN]]
    /\ locked \subseteq Coins
    /\ order \in [Coins -> {"none", "signed", "announced", "open"}]
    /\ holder \in Reqs \cup {Nobody}
    /\ holder # Nobody => req[holder].pc \in Section /\ ~req[holder].orphan
    /\ req \in [Reqs -> Requests]
    /\ cancel \in [Cancels -> Cancellations]
    /\ commit \in [Reqs -> {"none", "broadcast", "revealed"}]
    /\ file \in Reqs \cup {Nobody}
    /\ btxd \in BOOLEAN
    /\ exposed \subseteq Coins

\* A tool has outlived the btxd that started it, and its lock.
Orphans == \E r \in Reqs : req[r].orphan

\* Coin selection never spends the offer of an order, from the moment it is
\* signed: it stays locked unless locking failed, the user cancelled, or the
\* node restarted while btxd ran or before the announcement was in the book.  A
\* tool that runs without btxd's lock can offer a coin that a fill has picked.
OffersNotSpentAsFunding ==
    \A c \in Coins :
        order[c] # "none" /\ spent[c].by = "fund" => c \in exposed \/ Orphans

\* A coin that is offered is not paid away: with its requests, locks and tools
\* hidden, the wallet only takes the steps of the ledger, each of which decides
\* and spends at once (comment of _WALLET_LOCK: two requests must not interleave
\* between the choice of a coin and its spend).
Ledger == INSTANCE OfferLedger WITH loose <- exposed, orphaned <- Orphans

LedgerSpec == Ledger!Spec

\* Of two requests that pick a funding coin, neither finds it spent by the other
\* (comment of _WALLET_LOCK).  Only a tool or a cancel that runs without the lock,
\* or the taker of an offer that lost its own lock, can come in between.
FundingNotStolen ==
    \A r \in Reqs :
        req[r].pc = "broadcast" =>
            LET f == req[r].fund IN
            \/ spent[f].by \in {"none", "cancel"}
            \/ spent[f].by = "fill" /\ f \in exposed
            \/ Orphans

\* Whenever the tool dies between the recovery record and the reveal, the record
\* on disk is that of the commit in flight (comment in cmd_publish: a hard crash
\* is recoverable), as long as no tool runs without the lock.
RevealIsRecoverable ==
    \A r \in Reqs : req[r].pc = "reveal" => file = r \/ Orphans

\* No publish strands the funds of its commit: unless the reveal is out, its key
\* is in the recovery file (comments in h_order_create and cmd_publish: a failure
\* between the commit broadcast and the reveal does not strand the funds).
CommitNotStranded ==
    \A r \in Reqs :
        commit[r] = "broadcast" /\ req[r].pc = "done" => file = r

\* Every request is answered, unless btxd is gone: a request that fails, or
\* waits for a call that fails, never keeps the lock for good.
RequestsReturn ==
    \A r \in Reqs : req[r].pc = "wait" ~> req[r].pc = "done"

\* A cancel is refused only if it is too late: a spend of the offer has confirmed
\* (docstring and step 1 of cmd_cancel: a cancel can replace a competing fill in
\* the mempool), or the maker's own payment has taken the offer.
CancelRefusedOnlyIfConfirmed ==
    \A k \in Cancels :
        LET s == spent[cancel[k].offer] IN
        cancel[k].refused => s.confirmed \/ s.by = "fund"

=============================================================================
