------------------------------ MODULE Ceremony ------------------------------
(***************************************************************************)
(* The signing ceremony of a maker pool (btx_pool_ceremony_demo.py,        *)
(* btx_pool_ceremony_failstop_demo.py, over the BIP-327 calls that         *)
(* btx_musig2_bip327_protocol.py passes on): a coordinator without keys    *)
(* walks the members through setup, two rounds and a check of everybody's  *)
(* partial signature by everybody, and aggregates only if all accept.      *)
(* Members keep state between sessions; a session may die anywhere, be     *)
(* retried, or carry nonces of an older one, and a member may answer with  *)
(* garbage or sign something else.                                         *)
(*                                                                         *)
(* A member is its public key; keys are ordered as the code sorts them.    *)
(* Points and hashes are what they commit to: an aggregate nonce is the    *)
(* bag of the public nonces, here their sequence in key order.             *)
(***************************************************************************)
EXTENDS Integers, Sequences, FiniteSets, SequencesExt

CONSTANTS
    Members,            \* public keys, integers in the sorting order
    Bad,                \* members that may misbehave
    Msgs,               \* messages a pool may be asked to sign
    MaxSessions,        \* bound on the sessions
    MaxFaults,          \* bound on the coordinator's slips
    Garbage, None       \* a partial signature that is none; nothing

Nonces == [by : Members, serial : Nat]
PartialSigs == [by : Members, nonce : Nonces, agg : Seq(Nonces),
                pool : Seq(Members), msg : Msgs]

ASSUME CeremonyAssumption ==
    /\ Members \subseteq Nat /\ IsFiniteSet(Members) /\ Cardinality(Members) >= 2
    /\ Bad \subseteq Members
    /\ MaxSessions \in Nat /\ MaxFaults \in Nat
    /\ Garbage \notin PartialSigs

VARIABLES
    member,     \* per member: its pool, message, secret nonce (PoolMember)
    step,       \* where the coordinator is
    list,       \* its members, in the order they were handed to it
    msg,        \* what is being signed
    pubnonces,  \* round 1, so far
    psigs,      \* round 2, so far
    published,  \* aggregated signatures
    excluded,   \* members left out after a refused partial signature
    sessions,   \* sessions started; gives each nonce its serial number
    faults,     \* slips of the coordinator
    old,        \* nonces of sessions that died
    partials    \* every partial signature made with a secret nonce

session == <<list, msg, pubnonces, psigs>>
vars == <<member, step, session, published, excluded, sessions, faults, old, partials>>

\* sorted(key = pk)
Canonical(pool) ==
    CHOOSE s \in SetToSeqs(pool) : \A i, j \in DOMAIN s : i < j => s[i] < s[j]
Pool == ToSet(list)

Init ==
    /\ member = [m \in Members |-> [pool |-> None, msg |-> None, secnonce |-> None]]
    /\ step = "idle" /\ list = <<>> /\ msg = None /\ pubnonces = <<>> /\ psigs = <<>>
    /\ published = {} /\ excluded = {} /\ sessions = 0 /\ faults = 0 /\ old = {} /\ partials = {}

----------------------------------------------------------------------------
\* BIP-327, as the code calls it.

\* A fresh secret nonce, bound to its maker; its public part is the same here.
nonce_gen(m) == [by |-> m, serial |-> sessions]
nonce_agg(pubs) == pubs

\* What a partial signature commits to.
Signed(m, nonce, agg, pool, text) ==
    [by |-> m, nonce |-> nonce, agg |-> agg, pool |-> pool, msg |-> text]

\* Mutant: the message is not part of the challenge.
partial_sig_verify_M(psig, pubs, pool, text, i) ==
    psig # Garbage /\ psig.by = pool[i] /\ psig.nonce = pubs[i] /\ psig.agg = nonce_agg(pubs)
partial_sig_verify(psig, pubs, pool, text, i) ==
    psig # Garbage /\ psig = Signed(pool[i], pubs[i], nonce_agg(pubs), pool, text)

----------------------------------------------------------------------------
\* The coordinator.

\* PoolCoordinator: at least two members, in whatever order; every member
\* finds its own key in the list, aggregates it and arrives at the same key,
\* for the list is one and the same.
setup ==
    /\ step = "idle" /\ published = {} /\ sessions < MaxSessions
    /\ \E l \in SetToSeqs(Members \ excluded), text \in Msgs :
          /\ Len(l) >= 2
          /\ list' = l /\ msg' = text
    /\ member' = [m \in Members |-> IF m \in ToSet(list') THEN [member[m] EXCEPT !.pool = Canonical(ToSet(list'))]
                                    ELSE member[m]]
    /\ pubnonces' = <<>> /\ psigs' = <<>>
    /\ step' = "round1" /\ sessions' = sessions + 1
    /\ UNCHANGED <<published, excluded, faults, old, partials>>

\* Mutant: the order of the list, not of the keys.
Turn_M(answers) == list[Len(answers) + 1]
Turn(answers) == Canonical(Pool)[Len(answers) + 1]

\* round1_nonce, member by member: the message and the secret nonce are kept.
round1_nonce ==
    /\ step = "round1"
    /\ LET m == Turn(pubnonces) IN
       /\ member' = [member EXCEPT ![m].msg = msg, ![m].secnonce = nonce_gen(m)]
       /\ pubnonces' = Append(pubnonces, nonce_gen(m))
    /\ step' = IF Len(pubnonces') = Len(list) THEN "round2" ELSE "round1"
    /\ UNCHANGED <<list, msg, psigs, published, excluded, sessions, faults, old, partials>>

\* A session that ends without a signature; its nonces may turn up again.
Abort ==
    /\ step' = "idle"
    /\ old' = old \cup {pubnonces}

\* Mutant: the secret nonce stays.
Wiped_M(nonce) == nonce
\* sign() wipes it.
Wiped(nonce) == None

\* round2_partial raises: the aggregate nonce is not that of the public
\* nonces, or the secret nonce is used up.
Refuses(m, pubs, agg) == member[m].secnonce = None \/ nonce_agg(pubs) # agg

\* round2_partial with what the coordinator sends: pubs and agg.
Sign(m, pubs, agg) ==
    LET psig == Signed(m, member[m].secnonce, agg, member[m].pool, member[m].msg) IN
    IF Refuses(m, pubs, agg)
    THEN Abort /\ UNCHANGED <<member, psigs, partials>>
    ELSE /\ psigs' = Append(psigs, psig)
         /\ partials' = partials \cup {psig}
         /\ member' = [member EXCEPT ![m].secnonce = Wiped(@)]
         /\ step' = IF Len(psigs') = Len(list) THEN "verify" ELSE "round2"
         /\ UNCHANGED old

round2_partial ==
    /\ step = "round2"
    /\ Sign(Turn(psigs), pubnonces, nonce_agg(pubnonces))
    /\ UNCHANGED <<list, msg, pubnonces, published, excluded, sessions, faults>>

\* The coordinator mixes sessions up, in one of the two arguments or both.
Mixed ==
    /\ step = "round2" /\ faults < MaxFaults
    /\ \E pubs \in old \cup {pubnonces}, agg \in old \cup {pubnonces} :
          /\ <<pubs, agg>> # <<pubnonces, pubnonces>>
          /\ Sign(Turn(psigs), pubs, nonce_agg(agg))
    /\ faults' = faults + 1
    /\ UNCHANGED <<list, msg, pubnonces, published, excluded, sessions>>

\* A partial signature is lost on the way back and asked for again.
Again ==
    /\ step = "round2" /\ psigs # <<>> /\ faults < MaxFaults
    /\ LET m == Canonical(Pool)[Len(psigs)] IN
       IF Refuses(m, pubnonces, nonce_agg(pubnonces)) THEN Abort /\ UNCHANGED <<member, partials>>
       ELSE /\ partials' = partials \cup {Signed(m, member[m].secnonce, pubnonces, member[m].pool, member[m].msg)}
            /\ member' = [member EXCEPT ![m].secnonce = Wiped(@)]
            /\ UNCHANGED <<step, old>>
    /\ faults' = faults + 1
    /\ UNCHANGED <<session, published, excluded, sessions>>

\* adversary_mode "garbage" and "wrong_msg", which goes through sign as well
Misbehave ==
    /\ step = "round2" /\ Turn(psigs) \in Bad
    /\ LET m == Turn(psigs) IN
       \/ psigs' = Append(psigs, Garbage) /\ UNCHANGED <<member, partials>>
       \/ \E other \in Msgs \ {msg} :
          LET psig == Signed(m, member[m].secnonce, nonce_agg(pubnonces), member[m].pool, other) IN
          /\ member[m].secnonce # None
          /\ psigs' = Append(psigs, psig) /\ partials' = partials \cup {psig}
          /\ member' = [member EXCEPT ![m].secnonce = Wiped(@)]
    /\ step' = IF Len(psigs') = Len(list) THEN "verify" ELSE "round2"
    /\ UNCHANGED <<list, msg, pubnonces, published, excluded, sessions, faults, old>>

\* The partial signatures the members refuse; all of them verify the same.
Rejected(m) ==
    {i \in DOMAIN psigs :
        ~partial_sig_verify(psigs[i], pubnonces, member[m].pool, member[m].msg, i)}

\* verify_all_partials by each member, then partial_sig_agg; the first
\* refused partial signature ends the session, and the next one is run
\* without its member (scenario D of the fail-stop demo).
verify_all_partials ==
    /\ step = "verify"
    /\ IF \A m \in Pool : Rejected(m) = {}
       THEN /\ published' = published \cup {[pool |-> Canonical(Pool), msg |-> msg]}
            /\ step' = "idle"
            /\ UNCHANGED <<excluded, old>>
       ELSE /\ \E m \in Pool :
                  /\ Rejected(m) # {}
                  /\ LET i == CHOOSE j \in Rejected(m) : \A k \in Rejected(m) : j <= k IN
                     excluded' = excluded \cup {Canonical(Pool)[i]}
            /\ Abort
            /\ UNCHANGED published
    /\ UNCHANGED <<session, member, sessions, faults, partials>>

\* The session's process goes away.
Die ==
    /\ step # "idle" /\ faults < MaxFaults
    /\ Abort /\ faults' = faults + 1
    /\ UNCHANGED <<session, member, published, excluded, sessions, partials>>

----------------------------------------------------------------------------
Ceremonial == setup \/ round1_nonce \/ round2_partial \/ verify_all_partials

Next == Ceremonial \/ Mixed \/ Again \/ Misbehave \/ Die

\* Nobody is obliged to misbehave; a run is taken up again until it is done.
Spec == Init /\ [][Next]_vars /\ WF_vars(Ceremonial)

----------------------------------------------------------------------------
\* What is published is what every member of its pool signed, with one
\* aggregate nonce: no member's garbage, other message, stale nonce or lost
\* answer, and no slip of the coordinator, gets a signature out (the claim
\* of the fail-stop demo, sign_order's check before aggregation).
SignedByAll ==
    \A s \in published : \E agg \in {p.agg : p \in partials} :
        \A m \in ToSet(s.pool) : \E p \in partials :
            p.by = m /\ p.pool = s.pool /\ p.msg = s.msg /\ p.agg = agg

\* A secret nonce makes one partial signature, whatever is asked for again or
\* mixed up: two would give the key away (sign wipes the nonce).
NonceUsedOnce == \A p, q \in partials : p.nonce = q.nonce => p = q

\* Unless the coordinator slips, the member left out of the next run is one
\* that misbehaved: what the index of a refused partial signature points to.
BlameIsRight == faults = 0 => excluded \subseteq Bad

\* Misbehaving members are excluded one by one and the rest sign: with a
\* session for each of them and one more, and two members left, a signature
\* comes out (scenario D of the fail-stop demo).
PoolSigns ==
    Cardinality(Members \ Bad) >= 2 /\ MaxSessions > Cardinality(Bad) /\ [](faults = 0)
        => <>(published # {})

============================================================================
