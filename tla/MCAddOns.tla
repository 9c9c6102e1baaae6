------------------------------ MODULE MCAddOns ------------------------------
(* AddOns on small sets. *)
EXTENDS AddOns

(* The scenarios of the run.  One: one call with everything around it, on one
   jar.  Back: backups and restores around one call.  Two: one call on two
   jars.  Race: two calls, one of them a listing.
   Meet: two calls that change the same jar, while the server starts. *)
C1 == CHOOSE c \in Calls : TRUE
J1 == CHOOSE j \in Jars : TRUE
Kind(c) == call[c].kind
OneCall == \A c \in Calls \ {C1} : call[c] = Idle
OneJar ==
    /\ Files \cup Named \cup {t[2] : t \in pending} \cup {n \in Names : saved[n] # None} \subseteq {J1} \X {"jar", "disabled"}
    /\ \A c \in Calls : call[c].todo \cup ({Name(c)} \ {None}) \subseteq {J1} \X {"jar", "disabled"}
NoBackup == saved = Nothing /\ aside = Nothing
Quiet == spoilt = {} /\ pending = {} /\ crashes = 0 /\ NoBackup
One == OneCall /\ OneJar /\ NoBackup
Back ==
    /\ OneCall /\ OneJar /\ pending = {} /\ crashes = 0
    /\ \A c \in Calls : Kind(c) \in {"none", "list", "install", "toggle", "add"}
Two == OneCall /\ Quiet /\ status = "stopped" /\ \A c \in Calls : Kind(c) \in {"none", "install", "add"}
Race ==
    /\ OneJar /\ Quiet /\ status = "stopped"
    /\ \E c \in Calls : Kind(c) \in {"none", "list"}
    /\ \A c \in Calls : Kind(c) \in {"none", "list", "install", "toggle", "delete"}
Meet ==
    /\ OneJar /\ Quiet /\ status \in {"stopped", "starting"}
    /\ \A c \in Calls : Kind(c) \in {"none", "install", "toggle", "add", "delete"} /\ call[c].step \notin {"load", "purge"}
Scenarios == One \/ Back \/ Two \/ Race \/ Meet
=============================================================================
