---------------------------- MODULE MCDatabases ----------------------------
(* Databases on small sets. *)
EXTENDS Databases

(* The scenarios of the runs: one database with two calls that race; one with
   a call, cancellation, a hung engine and a death; two that share the lock. *)
D1 == CHOOSE d \in Dbs : TRUE
C1 == CHOOSE c \in Calls : TRUE
OneDb == \A d \in Dbs \ {D1} : at[d] = "idle"
OneCall == \A c \in Calls \ {C1} : call[c] = Idle
Calm == ~hung /\ stop = {} /\ crashes = 0
Scenarios ==
    \/ OneDb /\ Calm
    \/ OneDb /\ OneCall
    \/ OneCall /\ Calm
=============================================================================
