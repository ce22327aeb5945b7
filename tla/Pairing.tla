------------------------------ MODULE Pairing ------------------------------
(***************************************************************************)
(* What a match maker promises, with no threads, lists, or condition       *)
(* variables: requests for an opponent arrive, two compatible requests are *)
(* joined for good in one step, and once the match maker is closed every   *)
(* request that has no partner is refused and no pair is formed any more.  *)
(* (assignments/hw5/matchmaker.h states this interface in its comments.)   *)
(***************************************************************************)

CONSTANTS
    Request,            \* the calls to findMatch
    Compatible(_, _),   \* may these two requests play together?
    None                \* not a request

VARIABLES
    stage,      \* stage[r]: how far request r has got
    partner,    \* partner[r]: the request r is paired with, or None
    open        \* pairs may still be formed

pairingVars == <<stage, partner, open>>

Stage == {"new", "waiting", "paired", "refused"}

PairingInit ==
    /\ stage = [r \in Request |-> "new"]
    /\ partner = [r \in Request |-> None]
    /\ open = TRUE

(* A request arrives and finds nobody suitable.                            *)
Wait(r) ==
    /\ open
    /\ stage[r] = "new"
    /\ stage' = [stage EXCEPT ![r] = "waiting"]
    /\ UNCHANGED <<partner, open>>

(* A request, just arrived or waiting, is joined with one that waits.      *)
Join(r, q) ==
    /\ open
    /\ stage[r] \in {"new", "waiting"}
    /\ stage[q] = "waiting"
    /\ r # q
    /\ Compatible(r, q)
    /\ stage' = [stage EXCEPT ![r] = "paired", ![q] = "paired"]
    /\ partner' = [partner EXCEPT ![r] = q, ![q] = r]
    /\ UNCHANGED open

Close ==
    /\ open
    /\ open' = FALSE
    /\ UNCHANGED <<stage, partner>>

Refuse(r) ==
    /\ ~open
    /\ stage[r] \in {"new", "waiting"}
    /\ stage' = [stage EXCEPT ![r] = "refused"]
    /\ UNCHANGED <<partner, open>>

PairingNext ==
    \/ Close
    \/ \E r \in Request : Wait(r) \/ Refuse(r)
    \/ \E r, q \in Request : Join(r, q)

PairingSpec == PairingInit /\ [][PairingNext]_pairingVars
=============================================================================
