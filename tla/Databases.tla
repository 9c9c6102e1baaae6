----------------------------- MODULE Databases -----------------------------
(***************************************************************************)
(* The databases of one server (src-tauri/src/databases.rs and their table *)
(* in db.rs): a container and a volume in Docker, a row in SQLite, and the *)
(* calls of the window that keep the three together.                       *)
(*                                                                         *)
(* A database is the call that makes it.  Calls that change it hold the    *)
(* server's lock "database:<id>"; listing them and removing the server do  *)
(* not.  Databases of different servers have nothing in common.            *)
(***************************************************************************)
EXTENDS FiniteSets, Naturals

CONSTANTS
    Dbs,        \* calls of create_database
    Calls,      \* other calls; each is used again when it returned
    None,
    MaxCrashes  \* bound: deaths of the application

ASSUME CallsAssumption == Dbs \cap Calls = {} /\ None \notin Dbs \cup Calls

VARIABLES
    \* in Docker, which the application's death does not touch
    container,  \* each database's container
    volume,     \* databases whose volume exists
    hung,       \* does the engine leave commands unanswered?
    \* in SQLite
    row,        \* the status stored for each database
    server,     \* is the server's row there?
    \* in memory
    lock,       \* the call that holds the server's database lock
    at,         \* the step of each create_database
    stop,       \* those whose cancellation flag is set
    end,        \* how they ended
    call,       \* the other calls
    \* history
    doomed,     \* databases the user asked to delete
    spoilt,     \* creations that could not be rolled back
    crashes

docker == <<container, volume, hung>>
rows == <<row, server>>
makers == <<at, stop, end>>
vars == <<docker, rows, lock, makers, call, doomed, spoilt, crashes>>

States == {"none", "created", "running", "stopped"}
Statuses == {"running", "stopped", "error", "missing"}
ASSUME NoneAssumption == None \notin Statuses
Labels == {"idle", "queue", "pull", "volume", "container", "start", "ready", "save", "logs", "undo", "empty", "done"}
Results == {"none", "ok", "failed", "cancelled", "lost"}
Steps == {"idle", "look", "store", "queue", "verb", "mark", "rm", "wipe", "forget", "recycle"}
CallTypes == [kind : {"none", "list", "start", "stop", "delete", "remove"}, step : Steps,
              db : Dbs \cup {None}, todo : SUBSET Dbs, saw : Statuses \cup {None}]
Idle == [kind |-> "none", step |-> "idle", db |-> None, todo |-> {}, saw |-> None]
Listed == {d \in Dbs : row[d] # None}

Init ==
    /\ container = [d \in Dbs |-> "none"] /\ volume = {} /\ hung = FALSE
    /\ row = [d \in Dbs |-> None] /\ server = TRUE
    /\ lock = None /\ at = [d \in Dbs |-> "idle"] /\ stop = {}
    /\ end = [d \in Dbs |-> "none"] /\ call = [c \in Calls |-> Idle]
    /\ doomed = {} /\ spoilt = {} /\ crashes = 0

----------------------------------------------------------------------------
(* create_database.  Its commands up to the readiness of the database are cut
   off when the flag is set; that of the logs and the rollback's are not. *)

Goes(d, label) == at' = [at EXCEPT ![d] = label]
Proceed(d, from, to) ==
    /\ at[d] = from /\ Goes(d, to)
    /\ UNCHANGED <<hung, rows, lock, stop, end, call, doomed, crashes>>
Return(d, result) ==
    /\ Goes(d, "done") /\ end' = [end EXCEPT ![d] = result]
    /\ stop' = stop \ {d} /\ lock' = None
    /\ UNCHANGED <<hung, server, call, doomed, crashes>>
Cut(d) == IF d \in stop THEN {"failed", "cancelled"} ELSE {"failed"}

Ask(d) ==
    /\ server /\ Proceed(d, "idle", "queue") /\ UNCHANGED <<container, volume, spoilt>>
EnterMaker(d) ==
    /\ at[d] = "queue" /\ lock = None /\ lock' = d /\ Goes(d, "pull")
    /\ UNCHANGED <<docker, rows, stop, end, call, doomed, spoilt, crashes>>
Cancel(d) ==
    /\ at[d] \notin {"idle", "queue", "done"} /\ stop' = stop \cup {d}
    /\ UNCHANGED <<docker, rows, lock, at, end, call, doomed, spoilt, crashes>>

Pull(d) ==
    /\ ~hung /\ d \notin stop /\ Proceed(d, "pull", "volume")
    /\ UNCHANGED <<container, volume, spoilt>>
\* Variant: the pull runs to its end whatever the flag says.
PullFailsDeaf(d) ==
    /\ at[d] = "pull" /\ ~hung
    /\ \E result \in Cut(d) : Return(d, result)
    /\ UNCHANGED <<container, volume, row, spoilt>>
PullFails(d) ==
    /\ at[d] = "pull" /\ (hung => d \in stop)
    /\ \E result \in Cut(d) : Return(d, result)
    /\ UNCHANGED <<container, volume, row, spoilt>>
Volume(d) ==
    /\ ~hung /\ Proceed(d, "volume", "container") /\ volume' = volume \cup {d}
    /\ UNCHANGED <<container, spoilt>>
(* The rollback begins after this command: when the flag cuts it off, the
   volume may be there and stay. *)
VolumeFails(d) ==
    /\ at[d] = "volume" /\ (hung => d \in stop)
    /\ \E result \in Cut(d) : Return(d, result)
    /\ \/ UNCHANGED <<volume, spoilt>>
       \/ d \in stop /\ volume' = volume \cup {d} /\ spoilt' = spoilt \cup {d}
    /\ UNCHANGED <<container, row>>
Container(d) ==
    /\ ~hung /\ d \notin stop /\ Proceed(d, "container", "start")
    /\ container' = [container EXCEPT ![d] = "created"] /\ UNCHANGED <<volume, spoilt>>
\* Variant: the row is written as soon as the container runs.
StartSaved(d) ==
    /\ ~hung /\ at[d] = "start" /\ Goes(d, "ready") /\ row' = [row EXCEPT ![d] = "running"]
    /\ container' = [container EXCEPT ![d] = "running"]
    /\ UNCHANGED <<hung, volume, server, lock, stop, end, call, doomed, spoilt, crashes>>
Start(d) ==
    /\ ~hung /\ Proceed(d, "start", "ready")
    /\ container' = [container EXCEPT ![d] = "running"] /\ UNCHANGED <<volume, spoilt>>
(* The port is tried for a minute and a half, without Docker. *)
Ready(d) ==
    /\ Proceed(d, "ready", "save") /\ UNCHANGED <<container, volume, spoilt>>
(* A command fails or is cut off, with or without its effect. *)
Fails(d) ==
    /\ at[d] \in {"container", "start"} /\ (hung => d \in stop)
    /\ container' \in {container, [container EXCEPT ![d] = IF at[d] = "start" THEN "running" ELSE "created"]}
    /\ Proceed(d, at[d], "undo") /\ UNCHANGED <<volume, spoilt>>
(* The port stays closed, or the flag is set; the container's last words are
   read, in a command that the flag does not cut off, before the rollback. *)
NotReady(d) ==
    /\ Proceed(d, "ready", "logs") /\ UNCHANGED <<container, volume, spoilt>>
Logs(d) ==
    /\ ~hung /\ Proceed(d, "logs", "undo") /\ UNCHANGED <<container, volume, spoilt>>

(* The rollback: the container, then the volume, which Docker does not remove
   while a container uses it.  Errors are dropped. *)
\* Variant: without --force, which a running container needs.
UndoGently(d) ==
    /\ ~hung /\ Proceed(d, "undo", "empty")
    /\ \/ container[d] = "running" /\ UNCHANGED <<container, spoilt>>
       \/ container' = [container EXCEPT ![d] = "none"] /\ UNCHANGED spoilt
       \/ spoilt' = spoilt \cup {d} /\ UNCHANGED container
    /\ UNCHANGED volume
Undo(d) ==
    /\ ~hung /\ Proceed(d, "undo", "empty")
    /\ \/ container' = [container EXCEPT ![d] = "none"] /\ UNCHANGED spoilt
       \/ spoilt' = spoilt \cup {d} /\ UNCHANGED container
    /\ UNCHANGED volume
Empty(d) ==
    /\ ~hung /\ at[d] = "empty"
    /\ \E result \in Cut(d) : Return(d, result)
    /\ \/ container[d] = "none" /\ volume' = volume \ {d} /\ UNCHANGED spoilt
       \/ container[d] = "none" /\ spoilt' = spoilt \cup {d} /\ UNCHANGED volume
       \/ container[d] # "none" /\ UNCHANGED <<volume, spoilt>>
    /\ UNCHANGED <<container, row>>

(* The row comes last; it needs the server's. *)
Save(d) ==
    /\ at[d] = "save" /\ server /\ row' = [row EXCEPT ![d] = "running"] /\ Return(d, "ok")
    /\ UNCHANGED <<container, volume, spoilt>>
SaveFails(d) ==
    /\ at[d] = "save" /\ Return(d, "failed") /\ spoilt' = spoilt \cup {d}
    /\ UNCHANGED <<container, volume, row>>

----------------------------------------------------------------------------
(* The other calls. *)

Begin(c, kind, step, d, todo) ==
    /\ call[c] = Idle
    /\ call' = [call EXCEPT ![c] = [kind |-> kind, step |-> step, db |-> d, todo |-> todo, saw |-> None]]
    /\ UNCHANGED <<docker, rows, lock, makers, spoilt, crashes>>
Moves(c, from, to) == call[c].step = from /\ call' = [call EXCEPT ![c].step = to]
\* Variant: the guard outlives the call.
LeavesLocked(c) == call' = [call EXCEPT ![c] = Idle] /\ UNCHANGED lock
Leaves(c) == call' = [call EXCEPT ![c] = Idle] /\ lock' = IF lock = c THEN None ELSE lock
Still == UNCHANGED <<hung, makers, doomed, spoilt, crashes>>

(* list_databases: the rows, then for each what Docker says, stored at once.
   No lock: the row may have been deleted since it was loaded. *)
List(c) == Listed # {} /\ Begin(c, "list", "look", None, Listed) /\ UNCHANGED doomed
Seen(d) == CASE container[d] = "none" -> "missing" [] container[d] = "running" -> "running"
             [] OTHER -> "stopped"
Look(c) ==
    /\ ~hung /\ call[c].step = "look"
    /\ \E d \in call[c].todo, status \in Statuses :
         /\ status \in {Seen(d), "error"}
         /\ call' = [call EXCEPT ![c] = [kind |-> "list", step |-> "store", db |-> d,
                                         todo |-> call[c].todo \ {d}, saw |-> status]]
    /\ UNCHANGED <<container, volume, rows, lock>> /\ Still
Store(c) ==
    /\ call[c].step = "store" /\ server
    /\ row' = [row EXCEPT ![call[c].db] = call[c].saw]
    /\ IF call[c].todo = {} THEN Leaves(c) ELSE Moves(c, "store", "look") /\ UNCHANGED lock
    /\ UNCHANGED <<container, volume, server>> /\ Still
StoreFails(c) ==
    /\ call[c].step = "store" /\ Leaves(c)
    /\ UNCHANGED <<container, volume, rows>> /\ Still

(* database_action and delete_database load the row, then wait for the lock. *)
Act(c, kind, d) ==
    /\ d \in Listed /\ kind \in {"start", "stop", "delete"}
    /\ Begin(c, kind, "queue", d, {})
    /\ doomed' = IF kind = "delete" THEN doomed \cup {d} ELSE doomed
EnterCall(c) ==
    /\ lock = None /\ lock' = c
    /\ Moves(c, "queue", IF call[c].kind = "delete" THEN "rm" ELSE "verb")
    /\ UNCHANGED <<container, volume, rows>> /\ Still
Verb(c) ==
    /\ ~hung /\ Moves(c, "verb", "mark") /\ container[call[c].db] # "none"
    /\ container' = [container EXCEPT ![call[c].db] = IF call[c].kind = "start" THEN "running" ELSE "stopped"]
    /\ UNCHANGED <<volume, rows, lock>> /\ Still
\* Variant: an error of Docker's is passed over, as in a deletion.
VerbFailsSoft(c) ==
    /\ ~hung /\ Moves(c, "verb", "mark")
    /\ UNCHANGED <<container, volume, rows, lock>> /\ Still
VerbFails(c) ==
    /\ ~hung /\ call[c].step = "verb" /\ Leaves(c)
    /\ UNCHANGED <<container, volume, rows>> /\ Still
Mark(c) ==
    /\ call[c].step = "mark" /\ Leaves(c)
    /\ row' \in {row} \cup (IF server THEN
         {[row EXCEPT ![call[c].db] = IF call[c].kind = "start" THEN "running" ELSE "stopped"]} ELSE {})
    /\ UNCHANGED <<container, volume, server>> /\ Still

(* A deletion: the container, whatever comes of it; the volume, or the call
   fails; the row. *)
Rm(c) ==
    /\ ~hung /\ Moves(c, "rm", "wipe")
    /\ container' \in {container, [container EXCEPT ![call[c].db] = "none"]}
    /\ UNCHANGED <<volume, rows, lock>> /\ Still
Wipe(c) ==
    /\ ~hung /\ Moves(c, "wipe", "forget")
    /\ call[c].db \in volume /\ container[call[c].db] = "none" /\ volume' = volume \ {call[c].db}
    /\ UNCHANGED <<container, rows, lock>> /\ Still
WipeFails(c) ==
    /\ ~hung /\ call[c].step = "wipe" /\ Leaves(c)
    /\ UNCHANGED <<container, volume, rows>> /\ Still
Forget(c) ==
    /\ call[c].step = "forget" /\ Leaves(c)
    /\ row' \in {row, [row EXCEPT ![call[c].db] = None]}
    /\ UNCHANGED <<container, volume, server>> /\ Still

(* remove_server counts the databases, recycles the folder and deletes its
   row, which the database refuses while one of them is there. *)
Remove(c) ==
    /\ server /\ Listed = {} /\ Begin(c, "remove", "recycle", None, {}) /\ UNCHANGED doomed
Removed(c) ==
    /\ call[c].step = "recycle" /\ Leaves(c)
    /\ server' \in {server} \cup (IF Listed = {} THEN {FALSE} ELSE {})
    /\ UNCHANGED <<container, volume, row>> /\ Still

(* Docker hangs or answers again; the application dies. *)
Hang == hung' = ~hung
        /\ UNCHANGED <<container, volume, rows, lock, makers, call, doomed, spoilt, crashes>>
Crash ==
    /\ crashes < MaxCrashes /\ crashes' = crashes + 1
    /\ lock' = None /\ stop' = {} /\ call' = [c \in Calls |-> Idle]
    /\ at' = [d \in Dbs |-> IF at[d] = "idle" THEN "idle" ELSE "done"]
    /\ end' = [d \in Dbs |-> IF at[d] \in {"idle", "done"} THEN end[d] ELSE "lost"]
    /\ UNCHANGED <<docker, rows, doomed, spoilt>>

----------------------------------------------------------------------------
Works(d) ==
    \/ Pull(d) \/ PullFails(d) \/ Volume(d) \/ VolumeFails(d) \/ Container(d) \/ Start(d)
    \/ Ready(d) \/ NotReady(d) \/ Logs(d) \/ Fails(d) \/ Undo(d) \/ Empty(d) \/ Save(d) \/ SaveFails(d)
Serves(c) ==
    \/ Look(c) \/ Store(c) \/ StoreFails(c) \/ Verb(c) \/ VerbFails(c) \/ Mark(c)
    \/ Rm(c) \/ Wipe(c) \/ WipeFails(c) \/ Forget(c) \/ Removed(c)
Window ==
    \/ \E d \in Dbs : Ask(d) \/ Cancel(d)
    \/ \E c \in Calls : List(c) \/ Remove(c)
    \/ \E c \in Calls, kind \in {"start", "stop", "delete"}, d \in Dbs : Act(c, kind, d)
Next ==
    \/ Window \/ Hang \/ Crash
    \/ \E d \in Dbs : EnterMaker(d) \/ Works(d)
    \/ \E c \in Calls : EnterCall(c) \/ Serves(c)

Spec == Init /\ [][Next]_vars

(* A call takes its steps when Docker answers; the lock is tokio's, which
   serves the waiting in turn. *)
FairSpec ==
    /\ Spec
    /\ \A d \in Dbs : WF_vars(Works(d)) /\ SF_vars(EnterMaker(d))
    /\ \A c \in Calls : WF_vars(Serves(c)) /\ SF_vars(EnterCall(c))

----------------------------------------------------------------------------
TypeOK ==
    /\ container \in [Dbs -> States] /\ volume \in SUBSET Dbs /\ hung \in BOOLEAN
    /\ row \in [Dbs -> Statuses \cup {None}] /\ server \in BOOLEAN
    /\ lock \in Dbs \cup Calls \cup {None}
    /\ at \in [Dbs -> Labels] /\ stop \in SUBSET Dbs /\ end \in [Dbs -> Results]
    /\ call \in [Calls -> CallTypes]
    /\ doomed \in SUBSET Dbs /\ spoilt \in SUBSET Dbs /\ crashes \in Nat

(* The data of a database the window lists are lost only by a deletion the
   user asked for: a creation rolls back only what it has not yet saved, and
   neither listing, starting, stopping nor the server's removal touches a
   volume (databases.rs create, delete_database). *)
DataIsKept == \A d \in Listed \ doomed : d \in volume

(* A creation that fails or is cancelled leaves neither container nor volume
   unless Docker refuses the rollback, the flag cuts off the volume's creation
   or the row cannot be saved (databases.rs create). *)
RollbackIsComplete ==
    \A d \in Dbs \ spoilt : end[d] \in {"failed", "cancelled"} => container[d] = "none" /\ d \notin volume

(* What makes them hold: what exists at each step of a creation, and that the
   calls of other kinds are about databases that were saved. *)
MakerInv ==
    \A d \in Dbs :
        /\ at[d] \in {"idle", "queue", "pull", "volume"} => container[d] = "none" /\ d \notin volume
        /\ at[d] \in {"container", "start", "ready", "save"} => d \in volume
        /\ at[d] = "container" => container[d] = "none"
        /\ at[d] = "empty" => container[d] = "none" \/ d \in spoilt
        /\ end[d] # "none" => at[d] = "done"
        /\ row[d] # None \/ d \in doomed => end[d] = "ok"
CallInv ==
    \A c \in Calls :
        /\ call[c].step \in {"look", "store"} => call[c].kind = "list"
        /\ call[c].step = "store" => call[c].saw # None
        /\ call[c].db # None => end[call[c].db] = "ok"
        /\ \A d \in call[c].todo : end[d] = "ok"
        /\ call[c].step \in {"store", "queue", "verb", "mark", "rm", "wipe", "forget"} => call[c].db # None
        /\ call[c].step \in {"rm", "wipe", "forget"} \/ call[c].kind = "delete" => call[c].db \in doomed
VolumeInv == \A d \in Dbs : end[d] = "ok" => d \in volume \/ d \in doomed
LockInv ==
    /\ \A d \in Dbs : at[d] \notin {"idle", "queue", "done"} => lock = d
    /\ \A c \in Calls : call[c].step \in {"verb", "mark", "rm", "wipe", "forget"} => lock = c
RowInv ==
    /\ \A d \in Dbs : end[d] = "ok" /\ container[d] # "none" => row[d] # None
    /\ \A c \in Calls :
         /\ call[c].step = "mark" => row[call[c].db] # None
         /\ call[c].step = "forget" => container[call[c].db] = "none"
IInv ==
    /\ TypeOK /\ MakerInv /\ CallInv /\ LockInv /\ RowInv /\ VolumeInv
    /\ RollbackIsComplete /\ DataIsKept

(* A deleted database comes back only by the hand of a listing that loaded its
   row before: a start or stop that waited for the deletion's lock finds no
   container and stores nothing. *)
NothingComesBack ==
    [][\A d \in Dbs : row[d] = None /\ row'[d] # None =>
          \/ at[d] = "save"
          \/ \E c \in Calls : call[c].kind = "list" /\ call[c].db = d]_vars

(* A cancelled creation leaves its cancellable part even where Docker never
   answers: its commands are dropped with the flag.  It may then wait for
   Docker in the commands that read the logs and roll back (databases.rs:370,
   run_docker). *)
CancelIsHeard ==
    \A d \in Dbs : d \in stop ~> at[d] \in {"save", "logs", "undo", "empty", "done"}

(* Every call returns unless Docker hangs. *)
CallsReturn ==
    /\ \A d \in Dbs : at[d] # "idle" ~> at[d] = "done" \/ hung
    /\ \A c \in Calls : call[c].step # "idle" ~> call[c].step = "idle" \/ hung

(* "Delete this server's managed database first." (commands.rs:1630): a
   database that is listed can be deleted, as long as no deletion is at work. *)
DeletableInv ==
    \A d \in Listed : d \in volume \/ \E c \in Calls : call[c].step = "forget" /\ call[c].db = d
=============================================================================
