----------------------------- MODULE MCOrderBook -----------------------------
(***************************************************************************)
(* TLC instances of OrderBook: two offers, announced by artifacts of which *)
(* one is forged, and one offer announced on two terms.                    *)
(***************************************************************************)
EXTENDS BookViews

CONSTANTS o1, o2, p1, p2, none

\* The order of o2 expires while the chain still grows; those of o1 do not.
\* One of the artifacts that announce o2 is forged.
lasting == [op |-> o1, terms |-> p2, expiry |-> 9]
dearer == [op |-> o1, terms |-> p1, expiry |-> 9]
soon == [op |-> o2, terms |-> p1, expiry |-> 1]
forged == [op |-> o2, terms |-> p2, expiry |-> 9]

TwoOffers == {lasting, soon, forged}
Signed == {lasting, soon}
TwoTerms == {lasting, dearer}

\* A taker fills an offer at a published price, or its owner takes it back.
Fill(op, terms) == [op |-> op, pays |-> terms, presigned |-> TRUE]
TakeBack(op) == [op |-> op, pays |-> none, presigned |-> FALSE]

SpendsOfOne == {Fill(o1, p1), Fill(o1, p2), TakeBack(o1)}
NumberOf == (o1 :> 1) @@ (o2 :> 2)
PriceOf == (p1 :> 3) @@ (p2 :> 5)

SpendsOfTwo == {Fill(o1, p2), TakeBack(o1)}
=============================================================================
