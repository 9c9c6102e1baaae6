------------------------------ MODULE Creation ------------------------------
(***************************************************************************)
(* How servers come and go: new servers, modpacks, imports, quick servers  *)
(* and removal (src-tauri/src/commands.rs, modpacks.rs, ephemeral.rs).     *)
(*                                                                         *)
(* A task fills a hidden staging folder, moves it to the server's home in  *)
(* one rename and then registers the server: a row in the database and a   *)
(* record in memory.  Tasks share no lock; only quick servers have one.    *)
(*                                                                         *)
(* A task is also the id of the server it makes, and the home of a quick   *)
(* server, which is named after its id.                                    *)
(***************************************************************************)
EXTENDS FiniteSets, Naturals

CONSTANTS
    Tasks,      \* calls that make a server
    Names,      \* server names
    Folders,    \* folders a server can live in
    FolderOf,   \* the folder a name is turned into
    Files,      \* files of a modpack
    User, None,
    MaxCrashes  \* bound: deaths of the application

ASSUME FoldersAssumption ==
    /\ FolderOf \in [Names -> Folders] /\ Names # {}
    /\ Tasks \cap Folders = {} /\ {User, None} \cap (Tasks \cup Folders) = {} /\ User # None

VARIABLES
    \* on disk
    owner,     \* who made the folder at a home
    content,   \* what is in it
    staging,   \* what is in a task's staging folder; it holds "dir" when it exists
    room,      \* tasks whose modpack workspace exists
    archive,   \* tasks that left a Java archive or an unregistered runtime
    row,       \* the servers table: the home of each server
    \* in memory
    record,    \* the servers map
    runtime,   \* is the Java the servers need registered?
    running,   \* quick servers whose Java runs
    lock,      \* the task that holds the operation lock "ephemeral-world"
    plan,      \* what each task was asked for
    at,        \* the step it is at
    stop,      \* operations whose flag is set
    got,       \* its modpack files
    err,       \* the first error of its parallel downloads
    end,       \* how it ended
    removing,  \* servers remove_server is at work on
    \* history
    asked,     \* tasks the user cancelled
    stalled,   \* tasks whose connection delivers nothing
    recycled,  \* servers whose folder, or the folder they made, was recycled;
               \* and homes recycled while a folder was copied there
    crashes

disk == <<owner, content, staging, room, archive, row>>
tables == <<record, runtime, running>>
tasks == <<lock, plan, at, stop, got, err, end>>
around == <<removing, asked, stalled, recycled, crashes>>
vars == <<disk, tables, tasks, around>>

Homes == Folders \cup Tasks
Pieces == {"dir", "world", "jar", "loader", "pack", "settings", "eula"}
Kinds == {"new", "modrinth", "curse", "import", "quick"}
(* A task's input, with what it meets: the files its manifest gives no
   checksum (bare), and whether something holds what it writes, so that
   Windows may refuse to remove it (held). *)
Plans == [loader : BOOLEAN, files : SUBSET Files, held : BOOLEAN, bare : SUBSET Files,
          kind : Kinds, name : Names, home : Homes]
Labels == {"idle", "metadata", "archive", "manifest", "fetch", "verify", "overrides", "validate", "scan", "inspect",
           "resolve", "java", "unpack", "place", "world", "jar", "loader", "overlay", "settings",
           "commit", "copy", "copying", "adopt", "register", "schedule", "start", "started", "done"}
Active == Labels \ {"idle", "done"}
Results == {"none", "ok", "failed", "cancelled", "lost"}

Kind(t) == plan[t].kind
Home(t) == plan[t].home
IsPack(t) == Kind(t) \in {"modrinth", "curse"}
Needed(t) == {"dir", "jar", "settings"} \cup (IF Kind(t) = "quick" THEN {"world"} ELSE {})
             \cup (IF IsPack(t) THEN {"pack"} ELSE {})
             \cup (IF plan[t].loader THEN {"loader"} ELSE {})
Quick == {t \in Tasks : Kind(t) = "quick"}

AName == CHOOSE name \in Names : TRUE
NoPlan == [loader |-> FALSE, files |-> {}, held |-> FALSE, bare |-> {},
           kind |-> "new", name |-> AName, home |-> FolderOf[AName]]

Init ==
    /\ owner \in [Homes -> {None, User}] /\ \A t \in Tasks : owner[t] = None
    /\ content = [h \in Homes |-> {}]
    /\ staging = [t \in Tasks |-> {}]
    /\ room = {} /\ archive = {} /\ record = {} /\ running = {} /\ lock = None
    /\ row = [t \in Tasks |-> None]
    /\ runtime \in BOOLEAN
    /\ plan = [t \in Tasks |-> NoPlan]
    /\ at = [t \in Tasks |-> "idle"]
    /\ got = [t \in Tasks |-> [f \in Files |-> "todo"]]
    /\ err = [t \in Tasks |-> "none"]
    /\ end = [t \in Tasks |-> "none"]
    /\ stop = {} /\ removing = {} /\ asked = {} /\ stalled = {} /\ recycled = {} /\ crashes = 0

----------------------------------------------------------------------------
(* Steps of a task. *)

Goes(t, label) == at' = [at EXCEPT ![t] = label]

(* A task goes on to another step and changes nothing else of its own. *)
Proceed(t, from, to) ==
    /\ at[t] = from /\ Goes(t, to)
    /\ UNCHANGED <<lock, plan, stop, got, err, end, around>>

(* The same where the operation's flag was read first and the data arrived. *)
Passes(t, from, to) == t \notin stop \cup stalled /\ Proceed(t, from, to)

(* The errors of removing a folder are dropped: of what is held, something
   may stay. *)
Cleared(t) ==
    {[staging EXCEPT ![t] = left] :
        left \in {l \in {{}, staging[t] \cap {"dir"}} : l # {} => plan[t].held}}
Without(set, t) == {set \ {t}} \cup (IF plan[t].held THEN {set} ELSE {})

(* A task returns: its staging folder, unless it was moved, and its workspace
   are removed, its guard and its lock are dropped.  What it did to homes and
   rows is not undone. *)
Filling == {"world", "jar", "loader", "overlay", "settings", "commit", "copy", "copying"}
Finish(t, result) ==
    /\ Goes(t, "done")
    /\ end' = [end EXCEPT ![t] = result]
    /\ staging' \in (IF at[t] \in Filling THEN Cleared(t) ELSE {staging})
    /\ room' \in Without(room, t)
    /\ lock' = IF lock = t THEN None ELSE lock
    /\ stop' = stop \ {t}
    /\ stalled' = stalled \ {t}
    /\ UNCHANGED <<plan, got, err, removing, asked, recycled, crashes>>

Adds(t, piece) ==
    /\ staging' = [staging EXCEPT ![t] = @ \cup {piece}]
    /\ UNCHANGED <<owner, content, room, archive, row, tables>>

(* The window asks for a server.  A quick server needs the lock and that no
   other quick server is registered. *)
First(kind) == CASE kind = "modrinth" -> "manifest" [] kind = "curse" -> "metadata"
                 [] kind = "quick" -> "inspect" [] OTHER -> "validate"
HomesOf(t, kind, name) == CASE kind = "quick" -> {t} [] kind = "import" -> Folders
                            [] OTHER -> {FolderOf[name]}
\* Variant: the lock is taken for a registered quick server's word.
QuickIsUnlocked == lock = None
QuickIsFree == lock = None /\ record \cap Quick = {}
Asks(t, p) ==
    /\ at[t] = "idle"
    /\ p.kind = "quick" => QuickIsFree
    /\ plan' = [plan EXCEPT ![t] = p]
    /\ Goes(t, First(p.kind))
    /\ lock' = IF p.kind = "quick" THEN t ELSE lock
    /\ room' = IF p.kind \in {"modrinth", "curse"} THEN room \cup {t} ELSE room
    /\ UNCHANGED <<owner, content, staging, archive, row, tables, stop, got, err, end, around>>
Ask(t) ==
    \E kind \in Kinds, name \in Names :
      \E home \in HomesOf(t, kind, name),
         loader \in IF kind \in {"new", "modrinth", "curse"} THEN BOOLEAN ELSE {FALSE},
         files \in IF kind = "modrinth" THEN SUBSET Files ELSE {{}}, held \in BOOLEAN :
      \E bare \in SUBSET files :
        Asks(t, [loader |-> loader, files |-> files, held |-> held, bare |-> bare,
                 kind |-> kind, name |-> name, home |-> home])

(* The steps at which an operation's flag is polled, and those that can fail
   without more ado. *)
Polls == {"archive", "manifest", "overrides", "unpack", "world", "jar", "loader", "settings"}
Fallible == (Active \ {"fetch", "verify", "unpack", "copying", "register", "start", "started"})
Transfers == {"metadata", "archive", "manifest", "fetch", "overrides", "resolve", "java", "unpack", "jar"}
Cancel(t) ==
    /\ at[t] \in Active \ (IF IsPack(t) THEN {} ELSE {"validate"})
    /\ asked' = asked \cup {t} /\ stop' = stop \cup {t}
    /\ UNCHANGED <<disk, tables, lock, plan, at, got, err, end, removing, stalled, recycled, crashes>>
StopsCancelled(t) ==
    /\ at[t] \in Polls /\ t \in stop /\ t \notin stalled
    /\ Finish(t, "cancelled")
    /\ archive' \in Without(archive, t)
    /\ UNCHANGED <<owner, content, row, tables>>
Fails(t) ==
    /\ at[t] \in Fallible /\ t \notin stalled
    /\ Finish(t, "failed")
    /\ UNCHANGED <<owner, content, archive, row, tables>>

(* No client has a time-out: a query of versions, of Java or of an icon, or a
   download, may deliver nothing for as long as it likes, and the flag is
   polled when data arrive. *)
Stall(t) ==
    /\ at[t] \in Transfers
    /\ at[t] = "fetch" => \E f \in plan[t].files : got[t][f] = "todo"
    /\ stalled' = stalled \cup {t}
    /\ UNCHANGED <<disk, tables, tasks, removing, asked, recycled, crashes>>
Resume(t) ==
    /\ t \in stalled /\ stalled' = stalled \ {t}
    /\ UNCHANGED <<disk, tables, tasks, removing, asked, recycled, crashes>>

----------------------------------------------------------------------------
(* A CurseForge pack: its metadata, whatever becomes of that download, a
   cancelled one too; then one archive, checked and extracted. *)

Metadata(t) == t \notin stalled /\ Proceed(t, "metadata", "archive") /\ UNCHANGED <<disk, tables>>
ServerPack(t) == Passes(t, "archive", "overrides") /\ UNCHANGED <<disk, tables>>

(* A Modrinth pack: its manifest, its files in parallel, its overrides. *)

Manifest(t) == Passes(t, "manifest", "fetch") /\ UNCHANGED <<disk, tables>>

(* One parallel job ends well: a file is downloaded, or its checksum agrees.
   A file without one is accepted unread, and the flag with it. *)
JobEnds(t, f, label, from, to) ==
    /\ at[t] = label /\ f \in plan[t].files /\ got[t][f] = from
    /\ got' = [got EXCEPT ![t][f] = to]
    /\ UNCHANGED <<disk, tables, lock, plan, at, stop, err, end, around>>
Fetched(t, f) == t \notin stop \cup stalled /\ JobEnds(t, f, "fetch", "todo", "here")
Verified(t, f) == t \notin stop /\ f \notin plan[t].bare /\ JobEnds(t, f, "verify", "here", "checked")
Accepted(t, f) == f \in plan[t].bare /\ JobEnds(t, f, "verify", "here", "unread")

(* It ends badly, by itself or because the flag is set; one with nothing to
   check only when another job failed.  The first error is kept and sets the
   flag, which ends the other jobs. *)
Causes(t) == IF t \in stop THEN {"failed", "cancelled"} ELSE {"failed"}
\* Variant: the last error is the one reported.
JobFailsLast(t, f, why) ==
    /\ \/ at[t] = "fetch" /\ got[t][f] = "todo" /\ t \notin stalled
       \/ at[t] = "verify" /\ got[t][f] = "here" /\ (f \in plan[t].bare => err[t] # "none")
    /\ f \in plan[t].files
    /\ got' = [got EXCEPT ![t][f] = "bad"]
    /\ err' = [err EXCEPT ![t] = why]
    /\ stop' = stop \cup {t}
    /\ UNCHANGED <<disk, tables, lock, plan, at, end, around>>
JobFails(t, f, why) ==
    /\ \/ at[t] = "fetch" /\ got[t][f] = "todo" /\ t \notin stalled
       \/ at[t] = "verify" /\ got[t][f] = "here" /\ (f \in plan[t].bare => err[t] # "none")
    /\ f \in plan[t].files
    /\ got' = [got EXCEPT ![t][f] = "bad"]
    /\ err' = IF err[t] = "none" THEN [err EXCEPT ![t] = why] ELSE err
    /\ stop' = stop \cup {t}
    /\ UNCHANGED <<disk, tables, lock, plan, at, end, around>>

(* All jobs have ended. *)
\* Variant: only jobs that ended well are counted.
SettledWell(t, from) == \A f \in plan[t].files : got[t][f] \notin {from, "bad"}
\* Variant: one job that ended is enough.
SettledOnce(t, from) == plan[t].files = {} \/ \E f \in plan[t].files : got[t][f] # from
Settled(t, from) == \A f \in plan[t].files : got[t][f] # from
JobsEnd(t, label, from, to) ==
    /\ at[t] = label /\ Settled(t, from)
    /\ IF err[t] = "none" THEN Proceed(t, label, to) /\ UNCHANGED <<disk, tables>>
       ELSE Finish(t, err[t]) /\ UNCHANGED <<owner, content, archive, row, tables>>
FetchesEnd(t) == JobsEnd(t, "fetch", "todo", "verify")
ChecksEnd(t) == JobsEnd(t, "verify", "here", "overrides")
Overrides(t) == Passes(t, "overrides", "validate") /\ UNCHANGED <<disk, tables>>

----------------------------------------------------------------------------
(* All kinds: the name, the version, a Java runtime. *)

NameIsFree(t) == \A s \in record : plan[s].name # plan[t].name
Validate(t) ==
    /\ NameIsFree(t)
    /\ Proceed(t, "validate", IF Kind(t) = "import" THEN "scan" ELSE "resolve")
    /\ UNCHANGED <<disk, tables>>
Inspect(t) == Proceed(t, "inspect", "resolve") /\ UNCHANGED <<disk, tables>>
Scan(t) ==
    /\ owner[Home(t)] # None /\ \A s \in record : row[s] # Home(t)
    /\ Proceed(t, "scan", "resolve") /\ UNCHANGED <<disk, tables>>

AfterJava(t) == IF Kind(t) = "import" THEN "adopt" ELSE "place"
Resolve(t) ==
    /\ t \notin stalled
    /\ Proceed(t, "resolve", IF runtime THEN AfterJava(t) ELSE "java")
    /\ UNCHANGED <<disk, tables>>
OpenArchive(t) ==
    /\ t \notin stalled
    /\ Proceed(t, "java", "unpack") /\ archive' = archive \cup {t}
    /\ UNCHANGED <<owner, content, staging, room, row, tables>>
InstallJava(t) ==
    /\ Passes(t, "unpack", AfterJava(t))
    /\ archive' \in Without(archive, t) /\ runtime' = TRUE
    /\ UNCHANGED <<owner, content, staging, room, row, record, running>>
(* A wrong checksum removes what was downloaded, a broken connection, a
   runtime without java.exe or a row that cannot be written does not. *)
JavaFails(t) ==
    /\ at[t] = "unpack" /\ t \notin stalled /\ Finish(t, "failed")
    /\ archive' \in {archive, archive \ {t}}
    /\ UNCHANGED <<owner, content, row, tables>>

----------------------------------------------------------------------------
(* A new folder is filled out of sight. *)

Place(t) ==
    /\ owner[Home(t)] = None
    /\ Proceed(t, "place", IF Kind(t) = "quick" THEN "world" ELSE "jar") /\ Adds(t, "dir")
World(t) == Proceed(t, "world", "jar") /\ Adds(t, "world")
AfterLoader(t) == IF IsPack(t) THEN "overlay" ELSE "settings"
Jar(t) == Passes(t, "jar", IF plan[t].loader THEN "loader" ELSE AfterLoader(t)) /\ Adds(t, "jar")
Loader(t) == Proceed(t, "loader", AfterLoader(t)) /\ Adds(t, "loader")
Overlay(t) == Proceed(t, "overlay", "settings") /\ Adds(t, "pack")
Settings(t) == Passes(t, "settings", "commit") /\ Adds(t, "settings")

(* One rename puts the folder in its place.  Where Windows keeps refusing it,
   a folder that did not exist is created and filled with a copy. *)
Rename(t) ==
    /\ owner[Home(t)] = None
    /\ owner' = [owner EXCEPT ![Home(t)] = t]
    /\ content' = [content EXCEPT ![Home(t)] = staging[t]]
    /\ staging' = [staging EXCEPT ![t] = {}]
    /\ Proceed(t, "commit", "register")
    /\ UNCHANGED <<room, archive, row, tables>>
Blocked(t) == Kind(t) # "quick" /\ Proceed(t, "commit", "copy") /\ UNCHANGED <<disk, tables>>
\* Variant: create_dir_all, which takes a folder that is there.
CopyOver(t) ==
    /\ owner' = [owner EXCEPT ![Home(t)] = t]
    /\ content' = [content EXCEPT ![Home(t)] = {"dir"}]
    /\ Proceed(t, "copy", "copying")
    /\ UNCHANGED <<staging, room, archive, row, tables>>
Copy(t) ==
    /\ owner[Home(t)] = None
    /\ owner' = [owner EXCEPT ![Home(t)] = t]
    /\ content' = [content EXCEPT ![Home(t)] = {"dir"}]
    /\ Proceed(t, "copy", "copying")
    /\ UNCHANGED <<staging, room, archive, row, tables>>
CopyEnds(t) ==
    /\ owner[Home(t)] # None
    /\ content' = [content EXCEPT ![Home(t)] = @ \cup staging[t]]
    /\ staging' \in Cleared(t)
    /\ Proceed(t, "copying", "register")
    /\ UNCHANGED <<owner, room, archive, row, tables>>
\* Variant: the copy's error is dropped, as that of the removal is.
CopyFailsSilently(t) ==
    /\ Proceed(t, "copying", "register") /\ UNCHANGED <<disk, tables>>
(* A folder is removed, or stays because something holds it. *)
Gone(t, home) ==
    \/ /\ owner' = [owner EXCEPT ![home] = None]
       /\ content' = [content EXCEPT ![home] = {}]
    \/ plan[t].held /\ UNCHANGED <<owner, content>>
CopyFails(t) ==
    /\ at[t] = "copying" /\ Finish(t, "failed") /\ Gone(t, Home(t))
    /\ UNCHANGED <<archive, row, tables>>

(* An import writes eula.txt into the folder it found; that can fail (Fails),
   also because the folder was removed since. *)
Adopt(t) ==
    /\ owner[Home(t)] # None
    /\ content' = [content EXCEPT ![Home(t)] = @ \cup {"eula"}]
    /\ Proceed(t, "adopt", "register")
    /\ UNCHANGED <<owner, staging, room, archive, row, tables>>

----------------------------------------------------------------------------
(* The server is registered; no two rows have the same folder. *)

Register(t) ==
    /\ \A s \in Tasks : row[s] # Home(t)
    /\ row' = [row EXCEPT ![t] = Home(t)] /\ record' = record \cup {t}
    /\ Proceed(t, "register", IF Kind(t) = "quick" THEN "start" ELSE "schedule")
    /\ UNCHANGED <<owner, content, staging, room, archive, runtime, running>>
RegisterFails(t) ==
    /\ at[t] = "register" /\ Finish(t, "failed")
    /\ UNCHANGED <<owner, content, archive, row, tables>>
(* The schedule and the activity entry come after the server itself; when
   they fail the server stays and the call returns the error (Fails). *)
Schedule(t) ==
    /\ at[t] = "schedule" /\ Finish(t, "ok")
    /\ UNCHANGED <<owner, content, archive, row, tables>>

(* A quick server is started at once.  Rolled back or ended, it leaves the
   map and the disk; the row stays where the database refuses. *)
Vanishes(t) ==
    /\ record' = record \ {t}
    /\ row' \in {row, [row EXCEPT ![t] = None]}
    /\ Gone(t, t)
Start(t) ==
    /\ t \in record
    /\ Proceed(t, "start", "started") /\ running' = running \cup {t}
    /\ UNCHANGED <<disk, record, runtime>>
StartFails(t) ==
    /\ at[t] = "start" /\ Finish(t, "failed") /\ Vanishes(t)
    /\ UNCHANGED <<archive, runtime, running>>
Report(t) ==
    /\ at[t] = "started" /\ Finish(t, IF t \in record THEN "ok" ELSE "failed")
    /\ UNCHANGED <<owner, content, archive, row, tables>>
QuickEnds(t) ==
    /\ t \in running /\ running' = running \ {t} /\ Vanishes(t)
    /\ UNCHANGED <<staging, room, archive, runtime, tasks, around>>

----------------------------------------------------------------------------
(* remove_server: the folder is recycled, or left where it is; then the row
   and the record go.  Another server can use the name from then on. *)

Remove(s) ==
    /\ s \in record \ (running \cup removing) /\ removing' = removing \cup {s}
    /\ UNCHANGED <<disk, tables, tasks, asked, stalled, recycled, crashes>>
Recycle(s) ==
    /\ s \in removing /\ row[s] # None /\ owner[row[s]] # None
    /\ owner' = [owner EXCEPT ![row[s]] = None] /\ content' = [content EXCEPT ![row[s]] = {}]
    /\ recycled' = recycled \cup ({s, owner[row[s]]} \cap Tasks)
                            \cup {h \in {row[s]} : \E t \in Tasks : at[t] = "copying" /\ Home(t) = h}
    /\ UNCHANGED <<staging, room, archive, row, tables, tasks, removing, asked, stalled, crashes>>
RecycleFails(s) ==
    /\ s \in removing /\ removing' = removing \ {s}
    /\ UNCHANGED <<disk, tables, tasks, asked, stalled, recycled, crashes>>
Forget(s) ==
    /\ s \in removing /\ removing' = removing \ {s}
    /\ row' = [row EXCEPT ![s] = None] /\ record' = record \ {s}
    /\ UNCHANGED <<owner, content, staging, room, archive, runtime, running, tasks,
                   asked, stalled, recycled, crashes>>

(* The application dies and is launched again: the folder of quick servers is
   removed with all that is in it, then their rows; what other tasks left in
   their staging folders and workspaces stays. *)
Crash ==
    /\ crashes < MaxCrashes /\ crashes' = crashes + 1
    /\ owner' = [h \in Homes |-> IF h \in Tasks THEN None ELSE owner[h]]
    /\ content' = [h \in Homes |-> IF h \in Tasks THEN {} ELSE content[h]]
    /\ staging' = [t \in Tasks |-> IF t \in Quick THEN {} ELSE staging[t]]
    /\ row' = [t \in Tasks |-> IF t \in Quick THEN None ELSE row[t]]
    /\ record' = {t \in Tasks \ Quick : row[t] # None}
    /\ running' = {} /\ lock' = None /\ stop' = {} /\ removing' = {} /\ stalled' = {}
    /\ at' = [t \in Tasks |-> IF at[t] \in Active THEN "done" ELSE at[t]]
    /\ end' = [t \in Tasks |-> IF at[t] \in Active THEN "lost" ELSE end[t]]
    /\ UNCHANGED <<room, archive, runtime, plan, got, err, asked, recycled>>

----------------------------------------------------------------------------
PackStep(t) ==
    \/ Metadata(t) \/ ServerPack(t) \/ Manifest(t) \/ FetchesEnd(t) \/ ChecksEnd(t) \/ Overrides(t)
    \/ \E f \in Files : Fetched(t, f) \/ Verified(t, f) \/ Accepted(t, f) \/ \E why \in Causes(t) : JobFails(t, f, why)
PrepareStep(t) ==
    \/ Validate(t) \/ Inspect(t) \/ Scan(t) \/ Resolve(t)
    \/ OpenArchive(t) \/ InstallJava(t) \/ JavaFails(t)
FillStep(t) == Place(t) \/ World(t) \/ Jar(t) \/ Loader(t) \/ Overlay(t) \/ Settings(t)
CommitStep(t) ==
    \/ Rename(t) \/ Blocked(t) \/ Copy(t) \/ CopyEnds(t) \/ CopyFails(t) \/ Adopt(t)
    \/ Register(t) \/ RegisterFails(t) \/ Schedule(t) \/ Start(t) \/ StartFails(t) \/ Report(t)
Step(t) == PackStep(t) \/ PrepareStep(t) \/ FillStep(t) \/ CommitStep(t)
           \/ StopsCancelled(t) \/ Fails(t)
Window(t) == Ask(t) \/ Cancel(t) \/ Remove(t)
Outside(t) == Stall(t) \/ Resume(t) \/ QuickEnds(t)
Removal(t) == Recycle(t) \/ RecycleFails(t) \/ Forget(t)
Next == Crash \/ \E t \in Tasks : Step(t) \/ Window(t) \/ Outside(t) \/ Removal(t)

Spec == Init /\ [][Next]_vars

(* A task that can take a step takes one: its steps are its own, the network
   answers unless it stalls.  The window, crashes and stalls are free. *)
FairSpec == Spec /\ \A t \in Tasks : WF_vars(Step(t))

----------------------------------------------------------------------------
TypeOK ==
    /\ owner \in [Homes -> Tasks \cup {User, None}]
    /\ content \in [Homes -> SUBSET Pieces]
    /\ staging \in [Tasks -> SUBSET Pieces]
    /\ row \in [Tasks -> Homes \cup {None}]
    /\ room \in SUBSET Tasks /\ archive \in SUBSET Tasks /\ record \in SUBSET Tasks
    /\ running \in SUBSET Tasks /\ stop \in SUBSET Tasks /\ removing \in SUBSET Tasks
    /\ asked \in SUBSET Tasks /\ stalled \in SUBSET Tasks /\ recycled \in SUBSET Homes
    /\ runtime \in BOOLEAN /\ lock \in Tasks \cup {None} /\ crashes \in Nat
    /\ plan \in [Tasks -> Plans] /\ at \in [Tasks -> Labels] /\ end \in [Tasks -> Results]
    /\ got \in [Tasks -> [Files -> {"todo", "here", "checked", "unread", "bad"}]]
    /\ err \in [Tasks -> {"none", "failed", "cancelled"}]

(* A server Nooki created is registered only when its folder is the one its
   task made, with every piece its kind needs, and keeps it until the user
   has it recycled, by itself or under a copy that is at work: staging, one
   rename or a copy that is undone when it fails (commands.rs
   create_with_overlay, ephemeral.rs create). *)
RegisteredIsWhole ==
    \A t \in record \ recycled : Kind(t) # "import" /\ Home(t) \notin recycled =>
        row[t] = Home(t) /\ owner[Home(t)] = t /\ Needed(t) \subseteq content[Home(t)]

(* A modpack's server is registered only when each of its files was downloaded,
   and each the manifest gives a checksum was checked after that; those it
   gives none are in it unread (modpacks.rs prepare_modrinth_pack,
   verify_hash_blocking). *)
PackIsVerified ==
    \A t \in record : Kind(t) = "modrinth" =>
        \A f \in plan[t].files : got[t][f] = IF f \in plan[t].bare THEN "unread" ELSE "checked"

(* There is at most one quick server, from the lock taken while one is made to
   the removal of the last one (ephemeral.rs create). *)
OneQuickServer == \A s, t \in record \cap Quick : s = t

(* What a task leaves when it returned: a staging folder or a workspace only
   where something held it, since the errors of removing them are dropped.  It
   reports a cancellation only where the user asked for one, although the
   first error of parallel downloads cancels the others, and has then left no
   folder and no row, nor an archive that nothing held, as the window says
   (SharingView.tsx:74, AddServerWizard.tsx:418). *)
LeavesNothing ==
    \A t \in Tasks :
        /\ end[t] \in {"ok", "failed", "cancelled"} /\ ~ plan[t].held => staging[t] = {} /\ t \notin room
        /\ end[t] = "cancelled" =>
              /\ t \in asked /\ row[t] = None /\ (t \in archive => plan[t].held)
              /\ \A h \in Homes : owner[h] # t

(* What makes these hold: how far a task's staging folder is filled at each of
   its steps; where its home, its row and its record come from; what an error
   leaves; who holds the lock. *)
Filled == [l \in Labels |->
    CASE l = "world" -> {"dir"}
      [] l = "jar" -> {"dir", "world"}
      [] l = "loader" -> {"dir", "world", "jar"}
      [] l = "overlay" -> {"dir", "world", "jar", "loader"}
      [] l = "settings" -> Pieces \ {"settings"}
      [] l \in {"commit", "copy", "copying"} -> Pieces
      [] OTHER -> {}]
Late == {"register", "schedule", "start", "started", "done"}
StagingInv ==
    \A t \in Tasks :
        /\ Needed(t) \cap Filled[at[t]] \subseteq staging[t]
        /\ staging[t] # {} => at[t] \in Filling \/ end[t] = "lost" \/ plan[t].held
LeftInv ==
    \A t \in Tasks :
        /\ t \in room => at[t] \in Active \/ end[t] = "lost" \/ plan[t].held
        /\ t \in archive => at[t] = "unpack" \/ end[t] \in {"failed", "lost"} \/ plan[t].held
        /\ (at[t] = "done") <=> (end[t] # "none")
        /\ at[t] = "idle" => staging[t] = {} /\ t \notin room \cup archive
HomeInv ==
    \A t \in Tasks :
        /\ at[t] # "idle" => IF Kind(t) = "quick" THEN Home(t) = t ELSE Home(t) \in Folders
        /\ at[t] \in Filling \cup {"place"} => Kind(t) # "import"
        /\ at[t] = "adopt" => Kind(t) = "import"
        /\ at[t] \in {"start", "started"} => Kind(t) = "quick"
        /\ \A h \in Homes : owner[h] = t => h = Home(t) /\ at[t] \in Late \cup {"copying"}
        /\ row[t] # None => row[t] = Home(t) /\ at[t] \in Late \ {"register"}
        /\ t \in record => row[t] # None
        /\ row[t] # None => t \in record \/ Kind(t) = "quick"
        /\ end[t] = "cancelled" => row[t] = None /\ \A h \in Homes : owner[h] # t
        /\ Home(t) \notin recycled /\ at[t] = "copying" => owner[Home(t)] = t
        /\ t \notin recycled /\ Home(t) \notin recycled /\ Kind(t) # "import" /\ (at[t] = "register" \/ t \in record) =>
              owner[Home(t)] = t /\ Needed(t) \subseteq content[Home(t)]
PackInv ==
    \A t \in Tasks :
        /\ t \in stop => t \in asked \/ err[t] # "none"
        /\ err[t] # "none" => at[t] \in {"fetch", "verify", "done"}
        /\ err[t] = "cancelled" \/ end[t] = "cancelled" => t \in asked
        /\ at[t] \in {"idle", "manifest"} => \A f \in Files : got[t][f] = "todo"
        /\ at[t] \in Active => \A f \in Files : got[t][f] = "bad" => err[t] # "none"
        /\ at[t] = "fetch" => \A f \in Files : got[t][f] \notin {"checked", "unread"}
        /\ \A f \in Files : got[t][f] = "checked" => f \notin plan[t].bare
        /\ \A f \in Files : got[t][f] = "unread" => f \in plan[t].bare
        /\ at[t] = "verify" => \A f \in plan[t].files : got[t][f] # "todo"
        /\ Kind(t) = "modrinth" /\ (t \in record \/ at[t] \in Active \ {"manifest", "fetch", "verify"})
              => \A f \in plan[t].files : got[t][f] \in {"checked", "unread"}
QuickInv ==
    /\ \A t \in Tasks : lock = t <=> Kind(t) = "quick" /\ at[t] \in Active
    /\ lock # None => record \cap Quick \subseteq {lock}
    /\ running \subseteq Quick /\ \A t \in running : at[t] \in {"started", "done"}
IInv == TypeOK /\ StagingInv /\ LeftInv /\ HomeInv /\ PackInv /\ QuickInv /\ OneQuickServer

(* What a folder holds changes only by those whose it is.  It goes with its own
   maker's failed copy, a removal the user asked for, also one that cut into a
   copy, or a quick server that ends; files are added to it by its maker's
   copy, and by the import of that very folder, which writes eula.txt and
   leaves the user's other files alone (commands.rs copy_directory_commit,
   import, remove). *)
NothingIsOverwritten ==
    [][\A h \in Homes : owner[h] # None /\ (owner'[h] # owner[h] \/ content'[h] # content[h]) =>
          \/ /\ owner'[h] = None
             /\ \/ h \in Tasks \cup recycled
                \/ owner[h] \in Tasks /\ at[owner[h]] = "copying"
                \/ \E s \in removing : row[s] = h
          \/ /\ owner'[h] = owner[h]
             /\ \/ owner[h] \in Tasks /\ at[owner[h]] = "copying" /\ content[h] \subseteq content'[h]
                \/ h \in recycled
                \/ /\ content'[h] = content[h] \cup {"eula"}
                   /\ \E t \in Tasks : at[t] = "adopt" /\ Home(t) = h]_vars

(* A task comes to an end unless its connection stalls. *)
TaskEnds == \A t \in Tasks : at[t] \in Active ~> (at[t] = "done" \/ t \in stalled)
=============================================================================
