--------------------------- MODULE DaemonLifecycle ---------------------------
(***************************************************************************)
(* What the State enum of app/src/supervisor.rs promises of a daemon: the  *)
(* life a supervised daemon leads as long as nobody stops it.  A start     *)
(* succeeds or fails, only a running daemon can crash, a crash counts one  *)
(* failure, and a daemon that came up has no failures on record.           *)
(***************************************************************************)
EXTENDS Naturals

CONSTANTS Daemons, MaxFailures

VARIABLES state, failures

vars == <<state, failures>>

Init ==
    /\ state = [d \in Daemons |-> "Stopped"]
    /\ failures = [d \in Daemons |-> 0]

Move(d, from, to, n) ==
    /\ state[d] \in from
    /\ state' = [state EXCEPT ![d] = to]
    /\ failures' = [failures EXCEPT ![d] = n]

OneMore(d) == IF failures[d] > MaxFailures THEN failures[d] ELSE failures[d] + 1

Start(d) == Move(d, {"Stopped", "Crashed", "Dead"}, "Starting", failures[d])
ComeUp(d) == Move(d, {"Starting"}, "Running", 0)
FailToStart(d) == Move(d, {"Starting"}, "Crashed", OneMore(d))
Crash(d) == Move(d, {"Running"}, "Crashed", 1)
GiveUp(d) == failures[d] > MaxFailures /\ Move(d, {"Crashed"}, "Dead", failures[d])

Next ==
    \E d \in Daemons :
        Start(d) \/ ComeUp(d) \/ FailToStart(d) \/ Crash(d) \/ GiveUp(d)

Spec == Init /\ [][Next]_vars
==============================================================================
