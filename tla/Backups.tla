------------------------------ MODULE Backups ------------------------------
(***************************************************************************)
(* Backups of one server and their restoration (src-tauri/src/backups.rs). *)
(*                                                                         *)
(* The server's operation lock lets one backup or restore run at a time;   *)
(* starting the server takes the same lock.  Deleting a backup, stopping   *)
(* the server by quitting, the Java process itself and the death of the    *)
(* application ask for no lock.                                            *)
(*                                                                         *)
(* The data is a folder of roots.  A world has several roots (its          *)
(* dimensions) and server.properties names the world the server plays.  A  *)
(* root's content is a version number; that of server.properties the name. *)
(***************************************************************************)
EXTENDS Naturals, FiniteSets

CONSTANTS
    Worlds,        \* world names
    DefaultWorld,  \* the one played when server.properties names none
    Parts,         \* the roots every world has
    None,          \* no content, no archive
    Partial,       \* a half-written file
    Deleted,       \* an archive that delete_backup removed
    Keep,          \* scheduled backups to keep
    MaxVersion,    \* bound: versions of the world the players make
    MaxBackups,    \* bound: archives ever written
    MaxTime,       \* bound: readings of the wall clock
    MaxDeletes     \* bound: calls of delete_backup from the window

ASSUME WorldsAssumption == DefaultWorld \in Worlds /\ None \notin Worlds
ASSUME KeepAssumption == Keep \in Nat \ {0}
ASSUME BoundsAssumption == MaxVersion \in Nat /\ MaxBackups \in Nat /\ MaxDeletes \in Nat
                            /\ MaxTime \in Nat

VARIABLES
    folder,   \* the server's folder: root -> content
    rollback, \* where a restore moves the roots it replaces
    runner,   \* the Java process: off, on, or stopping
    saving,   \* has Java its automatic saving switched on?
    flush,    \* roots Java still has to write in the save under way
    live,     \* the version of the world in Java's memory
    files,    \* archives by backup id
    db,       \* rows of the backups table
    mem,      \* the backups map
    made,     \* when each backup was made, by the wall clock
    kinds,    \* what each backup was made for, or that its archive is missing
    next,     \* backups made so far
    del,      \* the call of delete_backup under way
    op        \* the backup or restore under way

vars == <<folder, rollback, runner, saving, flush, live, files, db, mem, kinds, made, next, del, op>>
java == <<runner, saving, flush, live>>
lists == <<db, mem, kinds, made, next>>

Props == <<None, "props">>
Roots == (Worlds \X Parts) \cup {Props}
Content == (0..MaxVersion) \cup Worlds \cup {Partial}
Data == [Roots -> Content \cup {None}]
Nothing == [r \in Roots |-> None]
ASSUME ArchivesAssumption ==
    /\ Deleted \notin {None, Partial}
    /\ {None, Partial, Deleted} \cap Data = {}
Ids == 1..MaxBackups
Times == 1..MaxTime
Kinds == {"manual", "scheduled", "safety", "missing"}

Level(data) == IF data[Props] \in Worlds THEN data[Props] ELSE DefaultWorld
LevelRoots(data) == {r \in Roots : r[1] = Level(data)}
backup_roots(data) == {r \in LevelRoots(data) \cup {Props} : data[r] # None}
Holds(data) == {r \in Roots : data[r] # None}

Labels == {"idle", "saveOff", "flush", "roots", "copy", "saveOn", "zip", "zipping", "row", "mem",
           "activity", "retain", "retainNext", "retainDb", "retainMem",
           "extract", "replace", "copyBack", "undoDelete", "undoMove", "settle", "done"}
Results == {"none", "ok", "replaced", "cancelled", "failed"}

(* The operation: its step; what it is for; was the server running; the roots
   or backups still to do and the root in hand; what it copied; its archive;
   the restored archive, its content and the roots to replace; the folder when
   a restore began; the roots its archive misses files of; how it ended. *)
Operation == [at : Labels, kind : Kinds, running : BOOLEAN, todo : SUBSET Roots, cur : Roots,
              snap : Data, id : Ids \cup {0}, old : SUBSET Ids, target : Ids \cup {0},
              want : Data, roots : SUBSET Roots, before : Data,
              lost : SUBSET Roots, result : Results]
NoOperation == [at |-> "idle", kind |-> "manual", running |-> FALSE, todo |-> {}, cur |-> Props,
                snap |-> Nothing, id |-> 0, old |-> {}, target |-> 0,
                want |-> Nothing, roots |-> {}, before |-> Nothing,
                lost |-> {}, result |-> "none"]

(* A call of delete_backup, and how many there were. *)
Deletion == [at : {"idle", "db", "mem"}, id : Ids \cup {0}, count : 0..MaxDeletes]
DeleteReturns == del' = [del EXCEPT !.at = "idle", !.id = 0]

TypeOK ==
    /\ folder \in Data /\ rollback \in Data
    /\ runner \in {"off", "on", "stopping"}
    /\ saving \in BOOLEAN
    /\ flush \subseteq Roots
    /\ live \in 0..MaxVersion
    /\ files \in [Ids -> Data \cup {None, Partial, Deleted}]
    /\ db \subseteq Ids /\ mem \subseteq Ids
    /\ kinds \in [Ids -> Kinds]
    /\ made \in [Ids -> Times \cup {0}]
    /\ next \in 0..MaxBackups
    /\ del \in Deletion
    /\ op \in Operation

Fresh(w) == [r \in Roots |-> IF r = Props THEN w ELSE 0]

Init ==
    /\ folder \in {Fresh(w) : w \in Worlds}
    /\ rollback = Nothing
    /\ runner = "off" /\ saving = TRUE /\ flush = {} /\ live = 0
    /\ files = [i \in Ids |-> None]
    /\ db = {} /\ mem = {} /\ kinds = [i \in Ids |-> "manual"] /\ next = 0
    /\ made = [i \in Ids |-> 0]
    /\ del = [at |-> "idle", id |-> 0, count |-> 0]
    /\ op = NoOperation

-----------------------------------------------------------------------------
(* The server around the backups. *)

(* server_action start, under the operation lock. *)
ServerStarts ==
    /\ runner = "off" /\ op.at = "idle"
    /\ runner' = "on" /\ saving' = TRUE /\ flush' = {}
    /\ \E r \in LevelRoots(folder) : live' = IF folder[r] \in 0..MaxVersion THEN folder[r] ELSE 0
    /\ UNCHANGED <<folder, rollback, files, lists, del, op>>

PlayersBuild ==
    /\ runner = "on" /\ flush = {} /\ live < MaxVersion
    /\ live' = live + 1
    /\ UNCHANGED <<folder, rollback, runner, saving, flush, files, lists, del, op>>

Autosave ==
    /\ runner = "on" /\ saving /\ flush = {}
    /\ flush' = LevelRoots(folder)
    /\ UNCHANGED <<folder, rollback, runner, saving, live, files, lists, del, op>>

JavaWrites(r) ==
    /\ runner # "off" /\ r \in flush
    /\ folder' = [folder EXCEPT ![r] = live]
    /\ flush' = flush \ {r}
    /\ UNCHANGED <<rollback, runner, saving, live, files, lists, del, op>>

(* The stop command, by server_action or by quitting; Java saves the world
   and reads no further command. *)
ServerStops ==
    /\ runner = "on"
    /\ runner' = "stopping"
    /\ flush' = LevelRoots(folder)
    /\ UNCHANGED <<folder, rollback, saving, live, files, lists, del, op>>

JavaExits ==
    /\ runner # "off"
    /\ runner' = "off" /\ flush' = {}
    /\ UNCHANGED <<folder, rollback, saving, live, files, lists, del, op>>

(* server.properties is edited to name another world. *)
EditLevel(w) ==
    /\ runner = "off" /\ op.at = "idle"
    /\ folder' = [folder EXCEPT ![Props] = w]
    /\ UNCHANGED <<rollback, java, files, lists, del, op>>

(* A dimension of a world is removed (delete_world, the file manager). *)
RemoveRoot(r) ==
    /\ runner = "off" /\ op.at = "idle"
    /\ r # Props
    /\ folder' = [folder EXCEPT ![r] = None]
    /\ UNCHANGED <<rollback, java, files, lists, del, op>>

-----------------------------------------------------------------------------
(* create_backup, called by a command or the scheduler, or by restore_backup
   for the safety backup. *)

At(l) == op.at = l
Goto(l) == op' = [op EXCEPT !.at = l]
Ends(result) == op' = [op EXCEPT !.at = "done", !.result = result]
Errors == {"cancelled", "failed"}

BackupBegins(kind) ==
    /\ At("idle") /\ next < MaxBackups
    /\ kind \in {"manual", "scheduled"}
    /\ op' = [NoOperation EXCEPT !.at = "saveOff", !.kind = kind, !.running = (runner # "off")]
    /\ UNCHANGED <<folder, rollback, java, files, lists, del>>

(* A stopping server accepts the line on its stdin and never reads it. *)
SendSaveOff ==
    /\ At("saveOff")
    /\ IF ~ op.running THEN Goto("roots") /\ UNCHANGED saving
       ELSE IF runner = "off" THEN Ends("failed") /\ UNCHANGED saving
       ELSE Goto("flush") /\ saving' = IF runner = "on" THEN FALSE ELSE saving
    /\ UNCHANGED <<folder, rollback, runner, flush, live, files, lists, del>>

(* When this line cannot be sent save-on is tried, on a process that is gone.
   The 750 ms that follow are no wait for the flush. *)
SendFlush ==
    /\ At("flush")
    /\ IF runner = "off" THEN Ends("failed") ELSE Goto("roots")
    /\ flush' = IF runner = "on" THEN LevelRoots(folder) ELSE flush
    /\ UNCHANGED <<folder, rollback, runner, saving, live, files, lists, del>>

ListRoots ==
    /\ At("roots")
    /\ op' = [op EXCEPT !.at = "copy", !.todo = backup_roots(folder), !.snap = Nothing]
    /\ UNCHANGED <<folder, rollback, java, files, lists, del>>

CopyRoot(r) ==
    /\ At("copy") /\ r \in op.todo
    /\ op' = [op EXCEPT !.snap[r] = folder[r], !.todo = @ \ {r}]
    /\ UNCHANGED <<folder, rollback, java, files, lists, del>>

CopyEnds ==
    /\ At("copy") /\ op.todo = {}
    /\ Goto("saveOn")
    /\ UNCHANGED <<folder, rollback, java, files, lists, del>>

\* Variant: a copy that is cancelled returns at once.
CopyReturns(error) ==
    /\ At("copy")
    /\ Ends(error)
    /\ UNCHANGED <<folder, rollback, java, files, lists, del>>

CopyStops(error) ==
    /\ At("copy")
    /\ op' = [op EXCEPT !.at = "saveOn", !.result = error]
    /\ UNCHANGED <<folder, rollback, java, files, lists, del>>

SendSaveOn ==
    /\ At("saveOn")
    /\ saving' = IF op.running /\ runner = "on" THEN TRUE ELSE saving
    /\ Goto(IF op.result = "none" THEN "zip" ELSE "done")
    /\ UNCHANGED <<folder, rollback, runner, flush, live, files, lists, del>>

\* Variant: the row is saved before the archive is complete.
ZipBeginsListed ==
    /\ At("zip") /\ next < MaxBackups
    /\ next' = next + 1
    /\ files' = [files EXCEPT ![next + 1] = Partial]
    /\ kinds' = [kinds EXCEPT ![next + 1] = op.kind]
    /\ made' = [made EXCEPT ![next + 1] = next + 1]
    /\ db' = db \cup {next + 1}
    /\ op' = [op EXCEPT !.at = "zipping", !.id = next + 1]
    /\ UNCHANGED <<folder, rollback, java, mem, del>>

(* created_at is what the wall clock says, which may have been set back. *)
ZipBegins ==
    /\ At("zip") /\ next < MaxBackups
    /\ next' = next + 1
    /\ files' = [files EXCEPT ![next + 1] = Partial]
    /\ kinds' = [kinds EXCEPT ![next + 1] = op.kind]
    /\ \E t \in Times : made' = [made EXCEPT ![next + 1] = t]
    /\ op' = [op EXCEPT !.at = "zipping", !.id = next + 1]
    /\ UNCHANGED <<folder, rollback, java, db, mem, del>>

(* The errors of the walk over what was copied are dropped (flatten), and what it did
   not reach is not in the archive. *)
Archive(snap, lost) == [r \in Roots |-> IF r \in lost THEN Partial ELSE snap[r]]
ZipEnds ==
    /\ At("zipping")
    /\ \E lost \in SUBSET Holds(op.snap) :
          /\ files' = [files EXCEPT ![op.id] = Archive(op.snap, lost)]
          /\ op' = [op EXCEPT !.at = "row", !.lost = lost]
    /\ UNCHANGED <<folder, rollback, java, lists, del>>

ZipStops(error) ==
    /\ At("zipping")
    /\ files' = [files EXCEPT ![op.id] = None]
    /\ Ends(error)
    /\ UNCHANGED <<folder, rollback, java, lists, del>>

SaveRow ==
    /\ At("row")
    /\ db' = db \cup {op.id}
    /\ Goto("mem")
    /\ UNCHANGED <<folder, rollback, java, files, mem, kinds, made, next, del>>

(* The archive stays behind, in no list. *)
SaveRowFails ==
    /\ At("row")
    /\ Ends("failed")
    /\ UNCHANGED <<folder, rollback, java, files, lists, del>>

ListBackup ==
    /\ At("mem")
    /\ mem' = mem \cup {op.id}
    /\ Goto("activity")
    /\ UNCHANGED <<folder, rollback, java, files, db, kinds, made, next, del>>

RecordActivity ==
    /\ At("activity")
    /\ \/ Ends("failed")
       \/ IF op.kind = "manual" THEN Ends("ok")
          ELSE Goto(IF op.kind = "safety" THEN "extract" ELSE "retain")
    /\ UNCHANGED <<folder, rollback, java, files, lists, del>>

-----------------------------------------------------------------------------
(* apply_retention and delete_backup. *)

Scheduled == {i \in mem : kinds[i] = "scheduled"}
(* Sorted by the clock, and the first ones skipped; equal times sort in any order. *)
Oldest(old, keep) ==
    /\ \A i \in old, j \in Scheduled \ old : made[i] <= made[j]
    /\ IF Cardinality(Scheduled) > keep THEN Cardinality(Scheduled \ old) = keep ELSE old = {}

\* Variant: one backup too few is skipped.
RetainOneLess ==
    /\ At("retain")
    /\ \E old \in SUBSET Scheduled :
          Oldest(old, Keep - 1) /\ op' = [op EXCEPT !.at = "retainNext", !.old = old]
    /\ UNCHANGED <<folder, rollback, java, files, lists, del>>

Retain ==
    /\ At("retain")
    /\ \E old \in SUBSET Scheduled :
          Oldest(old, Keep) /\ op' = [op EXCEPT !.at = "retainNext", !.old = old]
    /\ UNCHANGED <<folder, rollback, java, files, lists, del>>

\* Variant: one that the user deleted meanwhile is tried again.
RetainNextRetries(i) ==
    /\ At("retainNext") /\ i \in op.old /\ \A j \in op.old : made[j] <= made[i]
    /\ i \in mem
    /\ files' = [files EXCEPT ![i] = Deleted]
    /\ op' = [op EXCEPT !.at = "retainDb", !.target = i]
    /\ UNCHANGED <<folder, rollback, java, lists, del>>

(* The newest one first; one that the user deleted meanwhile ends it, and so does a
   file that cannot be removed. *)
RetainNext(i) ==
    /\ At("retainNext") /\ i \in op.old /\ \A j \in op.old : made[j] <= made[i]
    /\ \/ /\ i \in mem
          /\ files' = [files EXCEPT ![i] = Deleted]
          /\ op' = [op EXCEPT !.at = "retainDb", !.target = i]
       \/ UNCHANGED files /\ Ends("failed")
    /\ UNCHANGED <<folder, rollback, java, lists, del>>

RetainDb ==
    /\ At("retainDb")
    /\ \/ db' = db \ {op.target} /\ Goto("retainMem")
       \/ UNCHANGED db /\ Ends("failed")
    /\ UNCHANGED <<folder, rollback, java, files, mem, kinds, made, next, del>>

RetainMem ==
    /\ At("retainMem")
    /\ mem' = mem \ {op.target}
    /\ op' = [op EXCEPT !.at = "retainNext", !.old = @ \ {op.target}]
    /\ UNCHANGED <<folder, rollback, java, files, db, kinds, made, next, del>>

RetainEnds ==
    /\ At("retainNext") /\ op.old = {}
    /\ Ends("ok")
    /\ UNCHANGED <<folder, rollback, java, files, lists, del>>

(* delete_backup, called from the window at any time; it returns when the file cannot
   be removed. *)
DeleteFile(i) ==
    /\ del.at = "idle" /\ i \in mem /\ del.count < MaxDeletes
    /\ \/ /\ files' = [files EXCEPT ![i] = Deleted]
          /\ del' = [at |-> "db", id |-> i, count |-> del.count + 1]
       \/ UNCHANGED files /\ del' = [del EXCEPT !.count = @ + 1]
    /\ UNCHANGED <<folder, rollback, java, lists, op>>

DeleteRow ==
    /\ del.at = "db"
    /\ \/ db' = db \ {del.id} /\ del' = [del EXCEPT !.at = "mem"]
       \/ UNCHANGED db /\ DeleteReturns
    /\ UNCHANGED <<folder, rollback, java, files, mem, kinds, made, next, op>>

DeleteMem ==
    /\ del.at = "mem"
    /\ mem' = mem \ {del.id}
    /\ DeleteReturns
    /\ UNCHANGED <<folder, rollback, java, files, db, kinds, made, next, op>>

-----------------------------------------------------------------------------
(* restore_backup *)

Readable(i) == files[i] \notin {None, Partial, Deleted}

\* Variant: the safety backup is left out.
RestoreUnsafely(i) ==
    /\ At("idle") /\ next < MaxBackups /\ i \in mem
    /\ runner = "off" /\ Readable(i)
    /\ op' = [NoOperation EXCEPT !.at = "extract", !.kind = "safety", !.target = i, !.before = folder]
    /\ UNCHANGED <<folder, rollback, java, files, lists, del>>

\* Variant: a running server is no reason to refuse.
RestoreWhileRunning(i) ==
    /\ At("idle") /\ next < MaxBackups /\ i \in mem
    /\ Readable(i)
    /\ op' = [NoOperation EXCEPT !.at = "saveOff", !.kind = "safety", !.target = i,
                                 !.before = folder, !.running = (runner # "off")]
    /\ UNCHANGED <<folder, rollback, java, files, lists, del>>

(* A missing row, a running server, a missing or damaged archive refuse it. *)
RestoreBegins(i) ==
    /\ At("idle") /\ next < MaxBackups /\ i \in mem
    /\ runner = "off" /\ Readable(i)
    /\ op' = [NoOperation EXCEPT !.at = "saveOff", !.kind = "safety", !.target = i, !.before = folder]
    /\ UNCHANGED <<folder, rollback, java, files, lists, del>>

(* What is replaced: what the archive lists and what the folder has now. *)
Extract ==
    /\ At("extract") /\ Readable(op.target)
    /\ LET want == files[op.target]
           roots == Holds(want) \cup backup_roots(folder)
       IN  op' = [op EXCEPT !.at = "replace", !.want = want, !.roots = roots, !.todo = roots]
    /\ rollback' = Nothing
    /\ UNCHANGED <<folder, java, files, lists, del>>

ExtractFails(error) ==
    /\ At("extract")
    /\ Ends(error)
    /\ UNCHANGED <<folder, rollback, java, files, lists, del>>

MoveAway(r) ==
    /\ At("replace") /\ r \in op.todo
    /\ rollback' = [rollback EXCEPT ![r] = folder[r]]
    /\ folder' = [folder EXCEPT ![r] = None]
    /\ op' = [op EXCEPT !.at = "copyBack", !.cur = r]
    /\ UNCHANGED <<java, files, lists, del>>

CopyBack ==
    /\ At("copyBack")
    /\ folder' = [folder EXCEPT ![op.cur] = op.want[op.cur]]
    /\ op' = [op EXCEPT !.at = "replace", !.todo = @ \ {op.cur}]
    /\ UNCHANGED <<rollback, java, files, lists, del>>

(* A cancellation, or a file that is in use, between two roots ... *)
ReplaceStops(error) ==
    /\ At("replace") /\ op.todo # {}
    /\ op' = [op EXCEPT !.at = "undoDelete", !.todo = op.roots, !.result = error]
    /\ UNCHANGED <<folder, rollback, java, files, lists, del>>

(* ... or half way through one. *)
CopyBackStops(error) ==
    /\ At("copyBack")
    /\ \/ UNCHANGED folder
       \/ op.want[op.cur] # None /\ folder' = [folder EXCEPT ![op.cur] = Partial]
    /\ op' = [op EXCEPT !.at = "undoDelete", !.todo = op.roots, !.result = error]
    /\ UNCHANGED <<rollback, java, files, lists, del>>

(* rollback_roots: every root of the list is removed first. *)
UndoDelete(r) ==
    /\ At("undoDelete") /\ r \in op.todo
    /\ folder' = [folder EXCEPT ![r] = None]
    /\ op' = [op EXCEPT !.todo = @ \ {r}]
    /\ UNCHANGED <<rollback, java, files, lists, del>>

UndoDeleted ==
    /\ At("undoDelete") /\ op.todo = {}
    /\ Goto("undoMove")
    /\ UNCHANGED <<folder, rollback, java, files, lists, del>>

UndoMove(r) ==
    /\ At("undoMove") /\ r \in Holds(rollback)
    /\ folder' = [folder EXCEPT ![r] = rollback[r]]
    /\ rollback' = [rollback EXCEPT ![r] = None]
    /\ UNCHANGED <<java, files, lists, del, op>>

UndoEnds ==
    /\ At("undoMove") /\ Holds(rollback) = {}
    /\ Goto("done")
    /\ UNCHANGED <<folder, rollback, java, files, lists, del>>

(* The error of rollback_roots is dropped. *)
UndoFails ==
    /\ op.at \in {"undoDelete", "undoMove"}
    /\ op.todo # {} \/ Holds(rollback) # {}
    /\ Goto("done")
    /\ UNCHANGED <<folder, rollback, java, files, lists, del>>

ReplaceEnds ==
    /\ At("replace") /\ op.todo = {}
    /\ rollback' = Nothing
    /\ Goto("settle")
    /\ UNCHANGED <<folder, java, files, lists, del>>

(* Roster, record and activity are brought up to date. *)
Settle ==
    /\ At("settle")
    /\ \E result \in {"ok", "replaced"} : Ends(result)
    /\ UNCHANGED <<folder, rollback, java, files, lists, del>>

Return ==
    /\ At("done")
    /\ op' = NoOperation
    /\ UNCHANGED <<folder, rollback, java, files, lists, del>>

(* The application dies, its Java with it.  The lists are read back and the
   archives looked for; a rollback folder is left where it is, for good. *)
AppDies ==
    /\ runner' = "off" /\ flush' = {}
    /\ mem' = db
    /\ kinds' = [i \in Ids |-> IF i \in db /\ files[i] = Deleted THEN "missing" ELSE kinds[i]]
    /\ rollback' = Nothing
    /\ DeleteReturns
    /\ op' = NoOperation
    /\ UNCHANGED <<folder, saving, live, files, db, made, next>>

-----------------------------------------------------------------------------
BackupStep ==
    \/ SendSaveOff \/ SendFlush \/ ListRoots \/ CopyEnds \/ SendSaveOn \/ ZipBegins \/ ZipEnds
    \/ SaveRow \/ SaveRowFails \/ ListBackup \/ RecordActivity
    \/ \E r \in Roots : CopyRoot(r)
    \/ \E error \in Errors : CopyStops(error) \/ ZipStops(error)
RetainStep ==
    \/ Retain \/ RetainDb \/ RetainMem \/ RetainEnds
    \/ \E i \in Ids : RetainNext(i)
RestoreStep ==
    \/ Extract \/ CopyBack \/ UndoDeleted \/ UndoEnds \/ UndoFails \/ ReplaceEnds \/ Settle
    \/ \E r \in Roots : MoveAway(r) \/ UndoDelete(r) \/ UndoMove(r)
    \/ \E error \in Errors : ExtractFails(error) \/ ReplaceStops(error) \/ CopyBackStops(error)
OperationStep == BackupStep \/ RetainStep \/ RestoreStep \/ Return

Next ==
    \/ ServerStarts \/ PlayersBuild \/ Autosave \/ ServerStops \/ JavaExits
    \/ \E r \in Roots : JavaWrites(r) \/ RemoveRoot(r)
    \/ \E w \in Worlds : EditLevel(w)
    \/ \E kind \in Kinds : BackupBegins(kind)
    \/ \E i \in Ids : RestoreBegins(i) \/ DeleteFile(i)
    \/ DeleteRow \/ DeleteMem
    \/ OperationStep
    \/ AppDies

Spec == Init /\ [][Next]_vars

(* An operation that can go on does; nothing else has to happen. *)
FairSpec == Spec /\ WF_vars(OperationStep)

-----------------------------------------------------------------------------
\* A backup, however it ends, leaves a running server saving by itself again.
AutosaveComesBack == op.at = "idle" /\ runner = "on" => saving

\* While a restore takes the folder apart no Java process works in it.
RestoreRunsAlone ==
    op.at \in {"extract", "replace", "copyBack", "undoDelete", "undoMove", "settle"} => runner = "off"

\* A backup in the list is never half an archive, also after the application
\* died while writing it (what the walk over the copy did not reach is missing in it).
ListedAreComplete == \A i \in db \cup mem : files[i] \notin {None, Partial}

\* Before a restore touches the played world that world is in the safety
\* backup, but for what zip_folder's walk did not reach, and it stays there however
\* the restore ends.
Replacing == {"replace", "copyBack", "undoDelete", "undoMove", "settle"}
PlayedWorldIsSafe ==
    op.at \in Replacing =>
        /\ op.id # 0
        /\ files[op.id] = Deleted \/ \A r \in backup_roots(op.before) \ op.lost : files[op.id][r] = op.before[r]

\* rollback_roots has come to its end: nothing is left to delete or to move back.
RolledBack ==
    /\ op.at = "done" /\ op.kind = "safety" /\ op.result \in Errors
    /\ op.todo = {} /\ rollback = Nothing

\* A restore that rolled back to the end leaves nothing of the archive among
\* the old data.
RolledBackIsOld ==
    RolledBack => \A r \in Roots : folder[r] \in {op.before[r], None}

\* Retention never removes the backup it was run for, whatever is deleted from
\* the window meanwhile, unless the clock was set back: an earlier backup says it was
\* made no earlier.
ClockWasSetBack(i) == \E j \in 1..(i - 1) : made[j] >= made[i]
NewestIsKept ==
    [][op.at = "retainNext" /\ op'.at = "retainDb" =>
          op'.target # op.id \/ ClockWasSetBack(op.id)]_vars

(* Why they hold: the inductive invariant. *)
Copying == {"flush", "roots", "copy", "saveOn"}
Untouched == {"saveOff", "roots", "copy", "saveOn", "zip", "zipping", "row", "mem", "activity", "extract"}
Archived == {"row", "mem", "activity", "extract"} \cup Replacing
Retaining == {"retain", "retainNext", "retainDb", "retainMem"}

\* Saving is off only while a backup of a running server copies.
SavingOK == runner = "on" /\ ~ saving => op.at \in Copying /\ op.running

\* A restore began with the server off and holds the lock since.
RestoreOK ==
    /\ op.at \in {"extract"} \cup Replacing => op.kind = "safety"
    /\ op.at \in {"idle"} \cup Retaining => op.kind # "safety"
    /\ op.kind = "safety" => runner = "off" /\ ~ op.running
    /\ op.at = "flush" => op.running

\* The archive in hand is the newest and in no list until it is complete.
ArchiveOK ==
    /\ db \cup mem \subseteq 1..next
    /\ op.at = "zipping" => op.id = next /\ next \in Ids /\ next \notin db \cup mem
    /\ op.at \in {"row", "mem"} => op.id \in 1..next /\ files[op.id] \notin {None, Partial}

\* A restore knows the backup it restores, retention the one it deletes.
TargetOK == op.at \in {"extract", "retainDb", "retainMem"} \/ op.kind = "safety" => op.target \in Ids

\* The safety backup holds what it has copied of the folder a restore found.
Copied(data) == \A r \in backup_roots(op.before) : data[r] = op.before[r]
Zipped(data) == \A r \in backup_roots(op.before) \ op.lost : data[r] = op.before[r]
SafetyOK ==
    op.kind = "safety" =>
        /\ op.at \in Untouched => folder = op.before
        /\ op.at = "copy" =>
              \A r \in backup_roots(op.before) \ op.todo : op.snap[r] = op.before[r]
        /\ op.at = "saveOn" /\ op.result = "none" => Copied(op.snap)
        /\ op.at \in {"zip", "zipping"} => Copied(op.snap)
        /\ op.at \in Archived => op.id # 0 /\ (files[op.id] = Deleted \/ Zipped(files[op.id]))

\* A root of the folder was not touched yet, or waits in the rollback folder,
\* or is the archive's.
RollbackOK ==
    op.kind = "safety" =>
        /\ op.at \in Replacing \ {"settle"} => \A r \in Roots : rollback[r] \in {op.before[r], None}
        /\ op.at \in {"replace", "copyBack"} =>
              \A r \in (Roots \ op.roots) \cup op.todo :
                 (op.at = "copyBack" /\ r = op.cur) \/ folder[r] = op.before[r]
        /\ op.at \in {"undoDelete", "undoMove"} =>
              \A r \in Roots \ op.todo : folder[r] \in {op.before[r], None}
        /\ op.at = "undoMove" => op.todo = {}
        /\ op.at \in {"replace", "copyBack"} => op.todo \subseteq op.roots
        /\ op.at = "copyBack" => op.cur \in op.todo

\* Retention does not list the backup it was run for: it is the newest, by the clock
\* as well when nobody has set it back.
NewestOK ==
    /\ op.at \in {"row", "mem", "activity", "retain"} => op.id = next
    /\ op.at \in {"retainNext", "retainDb", "retainMem"} =>
          op.id \notin op.old \/ ClockWasSetBack(op.id)

IInv ==
    /\ TypeOK /\ SavingOK /\ RestoreOK /\ ArchiveOK /\ TargetOK /\ SafetyOK
    /\ ListedAreComplete /\ RollbackOK /\ RolledBackIsOld /\ NewestOK

\* A backup or a restore always comes to an end and frees the server.
OperationReturns == op.at # "idle" ~> op.at = "idle"

-----------------------------------------------------------------------------
(* What the window and the documentation say and the code does not keep. *)

\* store.tsx: "Restore cancelled. Existing server data was kept."
\* Stated of a restore whose rollback met no error of its own and ran to its end.
CancelledRestoreKeepsData == RolledBack /\ op.result = "cancelled" => folder = op.before

=============================================================================
