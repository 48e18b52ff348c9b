------------------------------- MODULE MCSwap -------------------------------
(***************************************************************************)
(* Two takers with a coin each.                                            *)
(***************************************************************************)
EXTENDS Swap, TLC

CONSTANTS t1, t2, c1, c2

MCTakers == {t1, t2}
MCCoins == {c1, c2}
MCOwnerOf == c1 :> t1 @@ c2 :> t2

============================================================================
