------------------------------- MODULE AddOns -------------------------------
(***************************************************************************)
(* The mods of one server (src-tauri/src/mods.rs) and, with the same code, *)
(* its plugins (plugins.rs): jars in a folder, rows in SQLite that say     *)
(* which project a jar comes from, and the window's calls.                 *)
(*                                                                         *)
(* Calls that change a jar hold the server's operation lock, which         *)
(* starting and stopping the server only try; a listing does not.  A       *)
(* restore of a backup (backups.rs) replaces the whole folder and leaves   *)
(* the rows.  A download's temporary file, which nothing ever reads, and   *)
(* which may stay, is not modelled.                                        *)
(***************************************************************************)
EXTENDS FiniteSets, Naturals

CONSTANTS
    Jars,       \* file names
    Projects,   \* projects of the catalogues
    Calls,      \* calls of the window; each is used again when it returned
    User, None,
    MaxCrashes  \* bound: deaths of the application

ASSUME ProjectsAssumption ==
    /\ {"part", User, None} \cap Projects = {} /\ User # None /\ "part" \notin {User, None}
    /\ None \notin Calls /\ "restore" \notin Calls \cup {None}

(* A jar has two names: its own, and ".disabled" added to it. *)
Names == Jars \X {"jar", "disabled"}
Enabled(n) == n[2] = "jar"
Twin(n) == <<n[1], IF Enabled(n) THEN "disabled" ELSE "jar">>
ASSUME NamesAssumption == None \notin Names

VARIABLES
    \* on disk and in SQLite
    disk,     \* what is under each name: a project's jar, the user's, or part of one
    row,      \* the name each project's row has
    saved,    \* the folder in the archive of a backup
    aside,    \* the folder a restore has moved away
    \* in memory
    status,   \* the server's
    lock,     \* the call, or the restore, that holds the operation lock
    pending,  \* downloads the user was asked to make: a project and a name
    call,     \* the calls
    \* history
    loaded,   \* the names Java opened when it was started
    spoilt,   \* names whose row is not known to speak of their file
    crashes

files == <<disk, row>>
store == <<saved, aside>>
server == <<status, loaded>>
vars == <<files, store, server, lock, pending, call, spoilt, crashes>>

Kinds == {"list", "toggle", "delete", "add", "install", "manual"}
Steps == {"idle", "find", "queue", "work", "rerow", "unrow", "copy", "copying", "fetch", "save", "report",
          "look", "load", "purge"}
CallTypes == [kind : Kinds \cup {"none"}, step : Steps, name : Names \cup {None}, project : Projects \cup {None},
              todo : SUBSET Names, made : SUBSET Names, seen : SUBSET Names]
Idle == [kind |-> "none", step |-> "idle", name |-> None, project |-> None, todo |-> {}, made |-> {}, seen |-> {}]
Named == {row[p] : p \in Projects} \ {None}
Files == {n \in Names : disk[n] # None}
Nothing == [n \in Names |-> None]
Free(n) == disk[n] = None /\ disk[Twin(n)] = None

Init ==
    /\ disk = Nothing /\ row = [p \in Projects |-> None]
    /\ saved = Nothing /\ aside = Nothing
    /\ status = "stopped" /\ loaded = {} /\ lock = None /\ pending = {}
    /\ call = [c \in Calls |-> Idle]
    /\ spoilt = {} /\ crashes = 0

----------------------------------------------------------------------------
(* The window's calls begin. *)

Begin(c, kind, step, n, p, names) ==
    /\ call[c] = Idle
    /\ call' = [call EXCEPT ![c] = [kind |-> kind, step |-> step, name |-> n, project |-> p,
                                    todo |-> names, made |-> {}, seen |-> {}]]
    /\ UNCHANGED <<files, server, lock, pending, spoilt, store, crashes>>
Ask(c) ==
    \/ Begin(c, "list", "look", None, None, {})
    \/ \E kind \in {"toggle", "delete"}, n \in Files : Begin(c, kind, "queue", n, None, {})
    \/ \E names \in SUBSET {n \in Names : Enabled(n)} \ {{}} : Begin(c, "add", "queue", None, None, names)
    \/ \E p \in Projects, n \in Names : Enabled(n) /\ Begin(c, "install", "queue", n, p, {})
    \/ \E t \in pending : Begin(c, "manual", "find", t[2], t[1], {})
CancelManual ==
    /\ \E t \in pending : pending' = pending \ {t}
    /\ UNCHANGED <<files, server, lock, call, spoilt, store, crashes>>

Step(c, from, to) == call[c].step = from /\ call' = [call EXCEPT ![c].step = to]
Leaves(c) == call' = [call EXCEPT ![c] = Idle] /\ lock' = IF lock = c THEN None ELSE lock
Is(c, kind, step) == call[c].kind = kind /\ call[c].step = step
Name(c) == call[c].name
Project(c) == call[c].project
Calm == UNCHANGED <<server, store, crashes>>

(* Each waits for the lock, then looks at the server's status. *)
\* Variant: a jar is moved under the rule for new ones.
AllowsAll(kind) == status \in {"stopped", "running"}
Allows(kind) == status \in (IF kind \in {"toggle", "delete"} THEN {"stopped"} ELSE {"stopped", "running"})
Enter(c) ==
    /\ lock = None /\ lock' = c /\ Allows(call[c].kind) /\ Step(c, "queue", "work")
    /\ UNCHANGED <<files, pending, spoilt>> /\ Calm
Refused(c) ==
    /\ lock = None /\ ~ Allows(call[c].kind) /\ call[c].step = "queue" /\ Leaves(c)
    /\ UNCHANGED <<files, pending, spoilt>> /\ Calm
(* What was asked for is not there, is there already or cannot be had. *)
Fails(c) ==
    /\ call[c].step = "work" /\ Leaves(c)
    /\ UNCHANGED <<files, pending, spoilt>> /\ Calm

(* set_mod_enabled: the file, then its row, or the file back. *)
Move(c) ==
    /\ Is(c, "toggle", "work") /\ Step(c, "work", "rerow")
    /\ disk[Name(c)] # None /\ disk[Twin(Name(c))] = None
    /\ disk' = [disk EXCEPT ![Name(c)] = None, ![Twin(Name(c))] = disk[Name(c)]]
    /\ UNCHANGED <<row, lock, pending, spoilt>> /\ Calm
(* A jar that is as it is asked to be is left alone. *)
Stays(c) ==
    /\ Is(c, "toggle", "work") /\ Step(c, "work", "look") /\ disk[Name(c)] # None
    /\ UNCHANGED <<files, lock, pending, spoilt>> /\ Calm
StillNamed == {n \in spoilt : \E q \in Projects : row'[q] = n}
Rerow(c) ==
    /\ Step(c, "rerow", "look")
    /\ Name(c) \in Named => Twin(Name(c)) \notin Named
    /\ row' = [p \in Projects |-> IF row[p] = Name(c) THEN Twin(Name(c)) ELSE row[p]]
    /\ spoilt' = StillNamed \cup
           (IF Name(c) \in spoilt \cap Named \/ disk[Twin(Name(c))] = None THEN {Twin(Name(c))} ELSE {})
    /\ UNCHANGED <<disk, lock, pending>> /\ Calm
RerowFails(c) ==
    /\ call[c].step = "rerow" /\ Leaves(c)
    /\ \/ /\ disk[Twin(Name(c))] # None /\ UNCHANGED spoilt
          /\ disk' = [disk EXCEPT ![Name(c)] = disk[Twin(Name(c))], ![Twin(Name(c))] = None]
       \/ UNCHANGED disk /\ spoilt' = spoilt \cup ({Name(c)} \cap Named)
    /\ UNCHANGED <<row, pending>> /\ Calm

(* delete_mod: the file to the recycle bin, then its row. *)
Recycle(c) ==
    /\ Is(c, "delete", "work") /\ Step(c, "work", "unrow")
    /\ disk[Name(c)] # None /\ disk' = [disk EXCEPT ![Name(c)] = None]
    /\ UNCHANGED <<row, lock, pending, spoilt>> /\ Calm
Unnamed(n) == [p \in Projects |-> IF row[p] = n THEN None ELSE row[p]]
Unrow(c) ==
    /\ Step(c, "unrow", "look") /\ row' = Unnamed(Name(c)) /\ spoilt' = spoilt \ {Name(c)}
    /\ UNCHANGED <<disk, lock, pending>> /\ Calm
UnrowFails(c) ==
    /\ call[c].step = "unrow" /\ Leaves(c) /\ spoilt' = spoilt \cup ({Name(c)} \cap Named)
    /\ UNCHANGED <<files, pending>> /\ Calm

(* add_mod_files: all names are looked at first, then the jars are copied to
   them one by one. *)
Looked(c) ==
    /\ Is(c, "add", "work") /\ Step(c, "work", "copy") /\ \A n \in call[c].todo : Free(n)
    /\ UNCHANGED <<files, lock, pending, spoilt>> /\ Calm
Copy(c) ==
    /\ Is(c, "add", "copy")
    /\ \E n \in call[c].todo :
         /\ disk' = [disk EXCEPT ![n] = "part"]
         /\ call' = [call EXCEPT ![c] = [kind |-> "add", step |-> "copying", name |-> n, project |-> None,
                                         todo |-> call[c].todo \ {n}, made |-> call[c].made, seen |-> {}]]
    /\ UNCHANGED <<row, lock, pending, spoilt>> /\ Calm
Copied(c) ==
    /\ Is(c, "add", "copying")
    /\ disk' = [disk EXCEPT ![Name(c)] = User]
    /\ call' = [call EXCEPT ![c] = [kind |-> "add", step |-> IF call[c].todo = {} THEN "report" ELSE "copy",
                                    name |-> None, project |-> None, todo |-> call[c].todo,
                                    made |-> call[c].made \cup {Name(c)}, seen |-> {}]]
    /\ UNCHANGED <<row, lock, pending, spoilt>> /\ Calm
(* What was created goes again, unless Windows refuses that; the copy that
   failed may leave a part. *)
CopyFails(c) ==
    /\ call[c].step = "copying" /\ Leaves(c)
    /\ \E left \in {None, "part"}, gone \in SUBSET call[c].made :
         disk' = [n \in Names |-> IF n = Name(c) THEN left ELSE IF n \in gone THEN None ELSE disk[n]]
    /\ UNCHANGED <<row, pending, spoilt>> /\ Calm

(* install_from_provider: a temporary file, which takes the name when it is
   whole and checked; then the row, or the jar goes again, if it can. *)
\* Variant: a disabled copy is not looked for.
FetchBesides(c) ==
    /\ Is(c, "install", "work") /\ Step(c, "work", "fetch")
    /\ disk[Name(c)] = None
    /\ UNCHANGED <<files, lock, pending, spoilt>> /\ Calm
Fetch(c) ==
    /\ Is(c, "install", "work") /\ Step(c, "work", "fetch")
    /\ Free(Name(c))
    /\ UNCHANGED <<files, lock, pending, spoilt>> /\ Calm
FetchFails(c) ==
    /\ call[c].step = "fetch" /\ Leaves(c)
    /\ UNCHANGED <<files, pending, spoilt>> /\ Calm
Place(c) ==
    /\ Step(c, "fetch", "save")
    /\ disk' = [disk EXCEPT ![Name(c)] = Project(c)]
    /\ UNCHANGED <<row, lock, pending, spoilt>> /\ Calm

(* CurseForge offers some jars to browsers only: the user downloads it, and
   check_manual_download copies it from there.  Its checksum, if there is one,
   was looked at before the lock was waited for: the copy may be of another. *)
AsksUser(c) ==
    /\ Is(c, "install", "work") /\ Step(c, "work", "look")
    /\ pending' = pending \cup {<<Project(c), Name(c)>>}
    /\ UNCHANGED <<files, lock, spoilt>> /\ Calm
Find(c) ==
    /\ \/ Step(c, "find", "queue") \/ Step(c, "find", "look")
    /\ UNCHANGED <<files, lock, pending, spoilt>> /\ Calm
Installed(c) ==
    /\ Is(c, "manual", "work") /\ ~ Free(Name(c)) /\ Leaves(c)
    /\ pending' = pending \ {<<Project(c), Name(c)>>}
    /\ UNCHANGED <<files, spoilt>> /\ Calm
Import(c) ==
    /\ Is(c, "manual", "work") /\ Free(Name(c)) /\ Step(c, "work", "copying")
    /\ disk' = [disk EXCEPT ![Name(c)] = "part"]
    /\ UNCHANGED <<row, lock, pending, spoilt>> /\ Calm
Imported(c) ==
    /\ call[c].kind = "manual" /\ Step(c, "copying", "save")
    /\ \E jar \in {Project(c), User} : disk' = [disk EXCEPT ![Name(c)] = jar]
    /\ UNCHANGED <<row, lock, pending, spoilt>> /\ Calm

(* One row a project, one a name: a row of the project moves to the new jar.
   It does not count if that has gone or is not what was to be imported. *)
Doubtful(c) == disk[Name(c)] = None \/ (call[c].kind = "manual" /\ disk[Name(c)] # Project(c))
\* Variant: what is said of a name goes with the jar it was said of.
SaveOver(c) ==
    /\ Step(c, "save", "report")
    /\ row' = [row EXCEPT ![Project(c)] = Name(c)]
    /\ spoilt' = {n \in StillNamed \cup {Name(c)} : n = Name(c) => Doubtful(c)}
    /\ UNCHANGED <<disk, lock, pending>> /\ Calm
Save(c) ==
    /\ Step(c, "save", "report")
    /\ \A q \in Projects \ {Project(c)} : row[q] # Name(c)
    /\ row' = [row EXCEPT ![Project(c)] = Name(c)]
    /\ spoilt' = {n \in StillNamed \cup {Name(c)} : n = Name(c) => Doubtful(c)}
    /\ UNCHANGED <<disk, lock, pending>> /\ Calm
SaveFails(c) ==
    /\ call[c].step = "save" /\ Leaves(c)
    /\ disk' = [disk EXCEPT ![Name(c)] = None] \/ UNCHANGED disk
    /\ UNCHANGED <<row, pending, spoilt>> /\ Calm
(* The alert and the activity entry. *)
Report(c) == Step(c, "report", "look") /\ UNCHANGED <<files, lock, pending, spoilt>> /\ Calm
ReportFails(c) ==
    /\ call[c].step = "report" /\ Leaves(c) /\ UNCHANGED <<files, pending, spoilt>> /\ Calm

(* list_for_server ends every call: the folder is read, the rows are loaded,
   and those that name no file found are deleted. *)
\* Variant: disabled jars are not listed.
LookEnabled(c) ==
    /\ call[c].step = "look"
    /\ call' = [call EXCEPT ![c].step = "load", ![c].seen = {n \in Files : Enabled(n)}]
    /\ UNCHANGED <<files, lock, pending, spoilt>> /\ Calm
Look(c) ==
    /\ call[c].step = "look"
    /\ call' = [call EXCEPT ![c].step = "load", ![c].seen = Files]
    /\ UNCHANGED <<files, lock, pending, spoilt>> /\ Calm
Load(c) ==
    /\ call[c].step = "load"
    /\ call' = [call EXCEPT ![c].step = "purge", ![c].todo = Named \ call[c].seen]
    /\ UNCHANGED <<files, lock, pending, spoilt>> /\ Calm
Purge(c) ==
    /\ call[c].step = "purge"
    /\ \E n \in call[c].todo :
         /\ call' = [call EXCEPT ![c].todo = call[c].todo \ {n}]
         /\ row' = Unnamed(n) /\ spoilt' = spoilt \ {n}
    /\ UNCHANGED <<disk, lock, pending>> /\ Calm
ListFails(c) ==
    /\ call[c].step \in {"look", "load", "purge"} /\ Leaves(c)
    /\ UNCHANGED <<files, pending, spoilt>> /\ Calm
Done(c) ==
    /\ call[c].step = "purge" /\ call[c].todo = {} /\ Leaves(c)
    /\ pending' = IF call[c].kind = "manual" /\ lock = c THEN pending \ {<<Project(c), Name(c)>>} ELSE pending
    /\ UNCHANGED <<files, spoilt>> /\ Calm

----------------------------------------------------------------------------
(* The server starts and stops; both only try the lock.  Java ends by itself
   at any time. *)
Launch ==
    /\ lock = None /\ status = "stopped" /\ status' = "starting"
    /\ loaded' = {n \in Files : Enabled(n)}
    /\ UNCHANGED <<files, lock, pending, call, spoilt, store, crashes>>
Ready ==
    /\ status = "starting" /\ status' = "running"
    /\ UNCHANGED <<files, loaded, lock, pending, call, spoilt, store, crashes>>
Stop ==
    /\ lock = None /\ status \in {"starting", "running"} /\ status' = "stopping"
    /\ UNCHANGED <<files, loaded, lock, pending, call, spoilt, store, crashes>>
Exit ==
    /\ status # "stopped" /\ status' = "stopped" /\ loaded' = {}
    /\ UNCHANGED <<files, lock, pending, call, spoilt, store, crashes>>

(* The user removes a jar in Explorer, which a jar that Java opened prevents. *)
Vanish(n) ==
    /\ n \in Files \ loaded
    /\ disk' = [disk EXCEPT ![n] = None] /\ spoilt' = spoilt \cup ({n} \cap Named)
    /\ UNCHANGED <<row, server, store, lock, pending, call, crashes>>

(* A backup of the folder, which may miss files, and its restore: the folder
   is moved away, the saved one copied back, and if that fails the old one is
   moved back, unless that fails as well. *)
Backup ==
    /\ lock = None
    /\ \E kept \in SUBSET Files : saved' = [n \in Names |-> IF n \in kept THEN disk[n] ELSE None]
    /\ UNCHANGED <<files, aside, server, lock, pending, call, spoilt, crashes>>
Displace ==
    /\ lock = None /\ status = "stopped" /\ lock' = "restore"
    /\ aside' = disk /\ disk' = Nothing /\ spoilt' = spoilt \cup Named
    /\ UNCHANGED <<row, saved, server, pending, call, crashes>>
CopyBack(n) ==
    /\ lock = "restore" /\ saved[n] # None
    /\ \E jar \in {"part", saved[n]} : disk' = [disk EXCEPT ![n] = jar]
    /\ UNCHANGED <<row, store, server, lock, pending, call, spoilt, crashes>>
Restores ==
    /\ lock = "restore" /\ lock' = None /\ aside' = Nothing
    /\ \/ disk = saved /\ UNCHANGED disk
       \/ disk' = aside
       \/ \E left \in SUBSET Files : disk' = [n \in Names |-> IF n \in left THEN disk[n] ELSE None]
    /\ UNCHANGED <<row, saved, server, pending, call, spoilt, crashes>>

Crash ==
    /\ crashes < MaxCrashes /\ crashes' = crashes + 1
    /\ lock' = None /\ pending' = {} /\ call' = [c \in Calls |-> Idle]
    /\ status' = "stopped" /\ loaded' = {} /\ aside' = Nothing
    /\ spoilt' = spoilt \cup (Named \ Files)
    /\ UNCHANGED <<files, saved>>

Edits(c) ==
    \/ Fails(c) \/ Move(c) \/ Stays(c) \/ Rerow(c) \/ RerowFails(c) \/ Recycle(c) \/ Unrow(c) \/ UnrowFails(c)
    \/ Looked(c) \/ Copy(c) \/ Copied(c) \/ CopyFails(c)
Installs(c) ==
    \/ Fetch(c) \/ FetchFails(c) \/ Place(c) \/ AsksUser(c) \/ Find(c) \/ Installed(c) \/ Import(c)
    \/ Imported(c) \/ Save(c) \/ SaveFails(c) \/ Report(c) \/ ReportFails(c)
Lists(c) == Look(c) \/ Load(c) \/ Purge(c) \/ ListFails(c) \/ Done(c)
Works(c) == Edits(c) \/ Installs(c) \/ Lists(c)
Enters(c) == Enter(c) \/ Refused(c)
Around ==
    \/ CancelManual \/ Launch \/ Ready \/ Stop \/ Exit \/ Crash \/ Backup \/ Displace \/ Restores
    \/ \E n \in Names : Vanish(n) \/ CopyBack(n)
Next == Around \/ \E c \in Calls : Ask(c) \/ Enters(c) \/ Works(c)

Spec == Init /\ [][Next]_vars

----------------------------------------------------------------------------
TypeOK ==
    /\ disk \in [Names -> Projects \cup {"part", User, None}]
    /\ saved \in [Names -> Projects \cup {"part", User, None}]
    /\ aside \in [Names -> Projects \cup {"part", User, None}]
    /\ row \in [Projects -> Names \cup {None}]
    /\ status \in {"stopped", "starting", "running", "stopping"} /\ loaded \in SUBSET Names
    /\ lock \in Calls \cup {None, "restore"} /\ pending \in SUBSET (Projects \X Names)
    /\ call \in [Calls -> CallTypes]
    /\ spoilt \in SUBSET Names /\ crashes \in Nat

(* A jar is enabled or disabled, never both, whichever calls meet and whatever
   fails between the check of the names and their use, and whichever backup is
   restored (mods.rs set_mod_enabled, install_downloaded_mod, copy_mod_files). *)
Single(folder) == \A j \in Jars : folder[<<j, "jar">>] = None \/ folder[<<j, "disabled">>] = None
OneCopy == Single(disk)

(* A row speaks of the jar its project delivered, whole: after a rename or a
   deletion that failed half way, beside another project's jar of that name,
   and after a retry.  Excepted is what the code cannot know: the row's own jar
   went in Explorer or with a call that died and no listing has noticed, a
   restore put another folder there, or the jar the user downloaded was not the
   project's (mods.rs, db.rs mod_metadata). *)
RowIsOfJar ==
    \A p \in Projects : row[p] # None /\ row[p] \notin spoilt /\ disk[row[p]] # None =>
        disk[row[p]] = p

(* The jars Java opened stay as they are while it runs: calls that move them,
   restores and what starts the server exclude each other (mods.rs
   editable_modded_server, backups.rs restore_backup, commands.rs
   server_action). *)
JavaKeepsItsJars == [][\A n \in loaded \cap loaded' : disk'[n] = disk[n]]_vars

(* The row of a jar that is there is deleted by nothing but a listing without
   the lock that read the folder when the jar was not under that name (mods.rs
   list_for_server). *)
RowsFollowJars ==
    [][\A p \in Projects : row[p] # None /\ row'[p] = None /\ disk[row[p]] # None =>
          \E c \in Calls : lock # c /\ call[c].step = "purge" /\ row[p] \in call[c].todo \ call[c].seen]_vars

(* The invariant that carries these.  Who is past the lock has it, for what its
   step needs of its kind. *)
Unlocked == {"idle", "find", "queue", "look", "load", "purge"}
KindsAt(step) ==
    CASE step = "find" -> {"manual"} [] step = "rerow" -> {"toggle"} [] step = "unrow" -> {"delete"}
      [] step = "copy" -> {"add"}
      [] step = "copying" -> {"add", "manual"} [] step = "fetch" -> {"install"}
      [] step = "save" -> {"install", "manual"} [] OTHER -> Kinds \cup {"none"}
LockInv ==
    /\ \A c \in Calls : call[c].step \notin Unlocked => lock = c
    /\ \A c \in Calls : lock = c => call[c].step \notin {"idle", "find", "queue"}
CallInv ==
    /\ \A t \in pending : Enabled(t[2])
    /\ \A c \in Calls :
           /\ call[c].kind \in KindsAt(call[c].step)
           /\ call[c].kind \in {"toggle", "delete", "install", "manual"} \/ call[c].step = "copying" => Name(c) \in Names
           /\ call[c].kind \in {"install", "manual"} => Project(c) \in Projects /\ Enabled(Name(c))
           /\ call[c].step = "copying" => Enabled(Name(c))
           /\ call[c].kind = "add" /\ call[c].step \in {"queue", "work", "copy", "copying"} =>
                  \A n \in call[c].todo : Enabled(n)
           /\ call[c].step \in {"find", "queue", "work"} => call[c].made = {}
           /\ call[c].kind # "add" /\ call[c].step # "purge" => call[c].todo = {}
           /\ call[c].step = "copying" => Name(c) \notin call[c].todo
(* What a call has found stays so until it returns. *)
NamesInv ==
    \A c \in Calls :
        /\ call[c].step \in {"rerow", "unrow"} => disk[Name(c)] = None
        /\ call[c].step = "rerow" /\ Twin(Name(c)) \in Named => Twin(Name(c)) \in spoilt
        /\ call[c].step \in {"copying", "save"} => disk[Twin(Name(c))] = None /\ Name(c) \notin loaded
        /\ call[c].step = "fetch" => Free(Name(c))
        /\ call[c].step \in {"copying", "fetch", "save"} /\ Name(c) \in Named => Name(c) \in spoilt
        /\ call[c].step \in {"copy", "copying"} =>
               /\ \A n \in call[c].todo : Free(n) /\ (n \in Named => n \in spoilt)
               /\ call[c].made \cap loaded = {} /\ call[c].made \cap Named \subseteq spoilt
        /\ call[c].step = "save" /\ call[c].kind = "install" => disk[Name(c)] \in {Project(c), None}
ListInv ==
    \A c \in Calls :
        /\ call[c].step = "purge" => call[c].todo \cap call[c].seen = {}
        /\ lock = c /\ call[c].step \in {"load", "purge"} => Files \subseteq call[c].seen
ServerInv ==
    /\ status = "stopped" => loaded = {}
    /\ \A n \in loaded : disk[n] # None
    /\ \A c \in Calls : call[c].kind \in {"toggle", "delete"} /\ call[c].step \notin Unlocked => status = "stopped"
    /\ lock = "restore" => status = "stopped"
(* A restore brings back no jar beside its twin, and no row counts meanwhile. *)
StoreInv ==
    /\ Single(saved) /\ Single(aside)
    /\ lock = "restore" =>
           /\ \A n \in Names : disk[n] # None => saved[n] # None
           /\ Named \subseteq spoilt
(* A row without a file is spoilt, or a call is about to put it right. *)
RowInv ==
    \A p \in Projects : row[p] # None /\ row[p] \notin spoilt =>
        \/ disk[row[p]] = p
        \/ /\ disk[row[p]] = None
           /\ \E c \in Calls :
                /\ call[c].step \in {"rerow", "unrow"} /\ Name(c) = row[p]
                /\ call[c].step = "rerow" => disk[Twin(row[p])] \in {p, None}
KeyInv == \A p, q \in Projects : p # q /\ row[p] # None => row[p] # row[q]
IInv ==
    /\ TypeOK /\ LockInv /\ CallInv /\ NamesInv /\ ListInv /\ ServerInv /\ RowInv /\ KeyInv
    /\ OneCopy /\ StoreInv
=============================================================================
