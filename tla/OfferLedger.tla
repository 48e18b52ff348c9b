------------------------------ MODULE OfferLedger ------------------------------
(***************************************************************************)
(* What the wallet promises of the coins of its owner, with no request, no *)
(* lock, no tool and no recovery file in sight: a coin that is offered is  *)
(* not paid away.  It is spent by whoever takes the offer, or by its       *)
(* cancel; a payment takes it only after its reservation has been given    *)
(* up, or while a tool runs on without the btxd that started it.           *)
(***************************************************************************)
CONSTANT Coins

VARIABLES spent,    \* who spends a coin, and whether that is confirmed
          order,    \* the life of the order that offers a coin
          loose,    \* the coins whose reservation failed or was given up
          orphaned  \* whether a tool has outlived its btxd

vars == <<spent, order, loose, orphaned>>

InMempool(who) == [by |-> who, confirmed |-> FALSE]

Init ==
    /\ spent = [c \in Coins |-> InMempool("none")]
    /\ order = [c \in Coins |-> "none"]
    /\ loose = {}
    /\ orphaned = FALSE

Unspent(c) == spent[c].by = "none"

\* A coin that coin selection must leave alone.
Reserved(c) == order[c] # "none" /\ c \notin loose /\ ~orphaned

Becomes(c, from, to) == order[c] = from /\ order' = [order EXCEPT ![c] = to]

\* The maker signs the offer of an unspent coin; later it is announced, and the
\* announcement confirms.
Sign(c) ==
    /\ Unspent(c)
    /\ Becomes(c, "none", "signed")
    /\ UNCHANGED <<spent, loose, orphaned>>

Announce(c) ==
    /\ Becomes(c, "signed", "announced")
    /\ UNCHANGED <<spent, loose, orphaned>>

Open(c) ==
    /\ Becomes(c, "announced", "open")
    /\ UNCHANGED <<spent, loose, orphaned>>

\* The wallet pays with a coin, and the payment may itself carry an announcement.
Pay(f) ==
    /\ Unspent(f)
    /\ ~Reserved(f)
    /\ spent' = [spent EXCEPT ![f] = InMempool("fund")]
    /\ UNCHANGED order \/ \E c \in Coins : Becomes(c, "signed", "announced")
    /\ UNCHANGED <<loose, orphaned>>

\* The owner takes an offer back, and another coin pays for it.
Cancel(c, fee) ==
    /\ order[c] # "none"
    /\ Unspent(c) \/ spent[c] = InMempool("fill")
    /\ Unspent(fee) /\ fee # c
    /\ spent' = [spent EXCEPT ![c] = InMempool("cancel"),
                              ![fee] = InMempool("cancel")]
    /\ UNCHANGED <<order, loose, orphaned>>

\* Somebody takes an offer that has been announced.
Fill(c) ==
    /\ order[c] \in {"announced", "open"}
    /\ Unspent(c) \/ spent[c] = InMempool("cancel")
    /\ spent' = [spent EXCEPT ![c] = InMempool("fill")]
    /\ UNCHANGED <<order, loose, orphaned>>

\* A block has the last word on a coin.
Confirm(c) ==
    /\ ~Unspent(c) /\ ~spent[c].confirmed
    /\ spent' = [spent EXCEPT ![c].confirmed = TRUE]
    /\ UNCHANGED <<order, loose, orphaned>>

\* Reservations are given up, and only unspent coins are reserved again.
GiveUp(lost) ==
    /\ loose' = loose \cup lost
    /\ UNCHANGED <<spent, order, orphaned>>

Reserve(again) ==
    /\ \A c \in again : Unspent(c)
    /\ loose' = loose \ again
    /\ UNCHANGED <<spent, order, orphaned>>

\* A tool outlives its btxd, and its effects come without the lock.
Orphan ==
    /\ orphaned' = TRUE
    /\ UNCHANGED <<spent, order, loose>>

Next ==
    \/ \E c \in Coins : Sign(c) \/ Announce(c) \/ Open(c) \/ Pay(c) \/ Fill(c)
                        \/ Confirm(c)
    \/ \E c, fee \in Coins : Cancel(c, fee)
    \/ \E coins \in SUBSET Coins : GiveUp(coins) \/ Reserve(coins)
    \/ Orphan

Spec == Init /\ [][Next]_vars
==============================================================================
