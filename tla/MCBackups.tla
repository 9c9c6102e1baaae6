----------------------------- MODULE MCBackups -----------------------------
(* Backups on small sets. *)
EXTENDS Backups

(* The scenarios of a run.  What backup i is for, once it was begun. *)
Is(i, kind) ==
    /\ i <= next => kinds[i] \in {kind, "missing"}
    /\ op.at # "idle" /\ (op.id = i \/ (op.id = 0 /\ next + 1 = i)) => op.kind = kind
NotBegun(i) == next < i /\ ~ (op.at # "idle" /\ op.id = 0 /\ next + 1 = i)

(* One world is used, and nobody changes it. *)
World == CHOOSE w \in Worlds : TRUE
OneWorld ==
    /\ live = 0
    /\ folder[Props] = World /\ op.before[Props] \in {World, None}
    /\ \A r \in Roots : r[1] \notin {World, None} => folder[r] = 0

(* A backup of a played server is restored when either world is the played one;
   it may be deleted meanwhile. *)
Restores ==
    /\ Is(1, "manual") /\ Is(2, "safety") /\ NotBegun(3) /\ (del.count = 0 \/ OneWorld)
    /\ \A i \in Ids : made[i] \in {0, i}
    /\ op.lost = {} \/ (OneWorld /\ del.count = 0 /\ runner = "off" /\ op.kind = "safety")

(* Scheduled backups of a server at rest, with deletions beside them; the clock may be
   set back before the last one. *)
Retention ==
    /\ OneWorld /\ runner = "off" /\ op.lost = {}
    /\ \A i \in Ids : Is(i, "scheduled") /\ (i < MaxBackups => made[i] \in {0, i})

Operations == Restores \/ Retention
=============================================================================
