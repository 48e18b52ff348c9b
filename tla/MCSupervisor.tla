---------------------------- MODULE MCSupervisor ----------------------------
(***************************************************************************)
(* TLC instances of Supervisor.                                            *)
(***************************************************************************)
EXTENDS Supervisor, TLC

CONSTANTS node, btxd, m, c1, c2, u1, u2, w1, w2, w3, w4

\* A dependency and its dependent, in topological order.
TwoInOrder == <<node, btxd>>

OneInOrder == <<btxd>>

WatcherSymmetry == Permutations(Watchers)
=============================================================================
