----------------------------- MODULE MCCreation -----------------------------
(* Creation on small sets. *)
EXTENDS Creation

(* Both names are turned into the same folder. *)
OneFolder == [n \in Names |-> CHOOSE f \in Folders : TRUE]

(* The scenarios of the run.  One task of any kind, with cancellation and
   stalls; or two of them that share folders, names, Java or the lock. *)
Kinds2 == {Kind(t) : t \in Tasks}
Solo == \E t \in Tasks : \A s \in Tasks \ {t} : at[s] = "idle"
Plain(t) == plan[t].loader = FALSE /\ plan[t].files = {}
Pair ==
    /\ asked = {} /\ stalled = {} /\ \A t \in Tasks : ~ plan[t].held
    /\ \/ Kinds2 = {"quick"}
       \/ Kinds2 = {"new"} /\ \A t \in Tasks : Plain(t)
       \/ Kinds2 = {"new", "import"} /\ crashes = 0 /\ \A t \in Tasks : Plain(t)
(* Tasks differ in nothing but what they are asked for: one is asked first. *)
FirstTask == CHOOSE t \in Tasks : TRUE
Scenarios ==
    /\ Solo \/ Pair
    /\ at[FirstTask] = "idle" => \A t \in Tasks : at[t] = "idle"
=============================================================================
