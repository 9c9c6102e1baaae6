# Nooki in TLA+

Models of Nooki (a desktop application that runs Minecraft servers, with a relay that
publishes them) written from its source, the TLC runs that check them on small instances
and the proofs that hold for every instance. Paths are relative to the repository.
`PROJECT.json` maps every definition to the lines it stands for.

## 1. The system

Nooki is a Tauri application. A React window (`src/`) calls the commands of a Rust backend
(`src-tauri/src/`), each of which runs as a task of a multi-threaded async runtime. The
backend keeps its data in SQLite and, beside it, in maps in memory; it spawns Java and
database processes and watches them. A separate Go program, the relay (`relay/`), accepts
control connections from the backend and forwards players to it.

| Component | Source | State | Operations | Interacts with |
|---|---|---|---|---|
| Server processes | `process.rs` | registry of running sessions, start lock, stop flags, timers | start, stop, force stop, wait for exit, stop all; console readers, exit monitor, readiness probe | records, Sharing, metrics |
| Server records | `state.rs`, `db.rs` | rows and their copies in memory, log sessions | two-step saves, deletion, reload at launch | every task of the backend |
| Commands, quitting | `commands.rs`, `lib.rs` | operation lock per server | start, stop, restart, remove, edit, quit | processes, records, files |
| Backups | `backups.rs` | archives, their rows, the rollback folder | back up, restore, delete, retain | console (save-off, save-on), Java |
| Cancellation | `operations.rs` | set of cancelled ids | begin, cancel, check | backups, installs |
| Backup scheduler | `tasks.rs`, `commands.rs` | schedules in memory and in rows | tick, save a schedule | backups, the operation lock |
| Sharing client | `sharing.rs` | share loops, route tokens, saved receipt | start, reconnect, stop, loop, activate | processes, relay |
| Relay control plane | `relay/main.go` | routes by host and by device, reserved names and their file | claim, register, evict, unregister | sharing client |
| Relay tunnels | `relay/main.go` | pending players, connection counter | accept player, data connection, expire | control plane |
| Relay activation | `relay/access.go` | code and entitlement file | create codes, activate, authorize, load | sharing client |
| Creation and removal | `commands.rs`, `modpacks.rs`, `ephemeral.rs`, `java.rs` | staging folders, server folder, row, record, the quick servers' lock | create, import, install a pack, quick server, remove | records, processes, Java |
| Databases | `databases.rs` | containers and volumes in Docker, rows, a lock per server | create, list, start, stop, delete | Docker, removal of the server |
| Mods and plugins | `mods.rs`, `plugins.rs` | jars in a folder, the row that says which project a jar is from | list, enable, disable, delete, add, install | operation lock, Java |
| Software changes, worlds | `commands.rs`, `catalog.rs`, `worlds.rs` | jar, world folders | change software, import, export, activate, remove a world | backups, records |
| Console | `process.rs` | bounded buffer of lines | append, classify | window |
| Window | `src/src/` | a copy of the records, from events | buttons | commands |

What is hard here, and which properties are about it:

- **Stale clones.** Every task changes a record by cloning it, editing the clone, writing
  the row and then the map. No lock spans the four steps. A status, an alert or a deleted
  row can be overwritten with what a task read before an await.
- **Sessions that outlive each other.** A server is stopped and started again while the
  reader, probe, timer or monitor of the earlier Java process still runs; several of them
  look the server up by id and find the later session.
- **Registry and locks.** The exit monitor must remove the entry after its last write and
  before a waiting removal or restart goes on; two starts must not take one port.
- **A folder that is half old, half new.** Backups copy a world that Java writes; restores
  replace roots one at a time, can be cancelled or fail at each and must be rolled back.
- **The two locks of the relay.** Names are claimed under one lock and routes registered
  under another; connections of one installation overtake each other.
- **Checks made minutes too early.** A creation compares names and looks for its folder,
  and an installation looks for its jar, before a download; both use the answer after it.
- **Three copies of one fact.** A database is a container, a volume and a row, a jar is a
  file and a row; steps fail between them, and listings without a lock write rows back.
- **Answers that are lost.** A key is redeemed and nobody hears of it; a player's tunnel is
  handed over as the player gives up; a connection stalls and no client has a time-out.
- **Crashes.** The application or the relay dies between a file, a row and a map.
- **Documentation against code.** The window and the documents promise more than some
  interleavings keep; these are the runs that expect a violation.

## 2. The modules

Modules `MC*` extend a model with symmetry sets and with the scenarios of its run: state
constraints that keep TLC to behaviours in which one hard thing happens at a time (section
3). They change no definition. Modules
`*_proofs` hold the theorems. No definition of a model is replaced by a configuration.

### ServerLifecycle and ServerLife

One action per step between two awaits of `process.rs`, `state.rs` and the commands that
drive them. `mem` and `db` are the two copies of a record, `registry` is `processes`,
`startLock` and `opLock` are the two mutexes, `java` the operating system's processes,
`stopReq` the stop flags and `timers` the sleeping stop timers. Every task (a command per
client, an editor per server, reader, monitor, probe and timer per session, and the quit)
has a frame in `task`: the label it is at and the clone it is about to save. `SaveDb`,
`SaveDbFails` and `SaveMem` are `AppState::save_server` for all of them.

Actions follow the functions: `StartAccepted`, `StartSpawn`, `AssignJob`, `Register`,
`Started` are `start` (Java runs from the second on, is in the job object from the third
and known to anybody from the fourth, which waits for the registry's lock);
`StopRequest`, `StopWritten`, `TimerFires` are `stop`; `MonitorSeesExit` to
`EphemeralMem` are `spawn_exit_monitor`; `Restart`, `AwaitExit` and `Remove` to
`RemoveMem` are commands; `QuitBegins` to `QuitExits` are `quit_application` and
`stop_all`, whose look at the empty registry (`QuitSeesEmpty`) is a step before the exit;
`AppDies` is a force quit or a crash, which the job object turns into the
death of every Java process in it, and `Loaded` is what the next launch makes of a row.

Abstractions. Metrics samples, which are edited in place, restart-required flags and the
alerts that no property names are left out. The readers of stdout and stderr are one
reader, since both run the same code on whatever line comes. A reader is aborted at any
point when the monitor joins it. The port in `server.properties` and the one in the record
are one port. An error of `try_wait` is not modelled. Any command may be called in any
state: the window's buttons may show a status that is out of date, and the backend has to
bear it.

`ServerLife` is what `ProcessManager` promises, in a few lines of state: one start at a
time launches a fresh session and then enters it for a server that has no entry, with a
port no entry has; an exit is final, an entry is forgotten only when its process has
exited, and the end of the application ends all. `ServerLifeSpec` maps it to
ServerLifecycle: `entry` to `registry`, `live` to the processes in the job object that run
(`LooksAfter`), `starting` to the one whose start waits for the registry (`HasSpawned`),
`used` to those that were ever in the job object. A process that is not in it yet, or could
not be put there, is outside the promise: the code drops the handle of the latter and lets
it run, known to nobody (`JobAssignFails`, `process.rs:131` and `140`).

### RelayRoutes

`relay/main.go`'s control plane. A connection `c` is a goroutine at a step of
`conn[c].at`: it claims its vanity name (`Claim...`, under the access lock), registers its
route (under the route lock), closes the session it replaced, answers, serves, and
unregisters. `byHost`, `byDevice` are the route maps, `vanityByName`, `vanityByOwner`
the reservation maps and `vanityFile` the file. A failing write and a restart of the relay
are actions. A device is its public key and a route is the triple its base32 label is
hashed from, so the signature check and the label are the identity of the data, and a
handshake that fails either leaves no trace. Time-outs of a handshake are a connection that
closes at any step.

### Backups

`backups.rs` for one server. `folder` and `rollback` map roots (the dimensions of each
world and `server.properties`) to contents; `runner`, `saving`, `flush` and `live` are the
Java process as far as the files tell: is it running, is its autosave on, what has it
still to write. `op` is the backup or restore under way with all its locals, `del` a call
of `delete_backup`, which takes no lock. `files`, `db`, `mem`, `kinds` are the archives
and the list. A failing step and a cancelled check are actions at every step where the
code has them (`Errors`), and `AppDies` stands for the death of the application.

The clock may be set back (`made`, which retention sorts by), files whose walk fails may be
missing from a finished archive (`op.lost`), and a file that cannot be removed keeps its row
(`RetainNext`, `DeleteFile`).

Abstractions. Checksums, progress and the refusal of a legacy server are left out, and so is
`save_settings` (`commands.rs:1556`), which rewrites the other lines of `server.properties`
without the lock, during a restore too, but leaves `level-name` alone. A root
is copied in one step, the order of roots is any order. Directories that a crash leaves
behind (staging, rollback) are not read by anything again and disappear from the model.

### RelayAccess and Redemption

The relay's store of codes and rights (`relay/access.go`) and the installations' receipts
(`ShareManager::activate`). The store changes under one mutex, so a request is one action;
`data` is the memory and `file` what a restart reads. `requests` and `answers` are the
network, which loses and delays both; `call` is an activation at the step it is at, and
`receipt`, which is removed before its successor is renamed into place, the file of the
installation. `RedeemNotSaved` is a write that fails, with its undo; a failing write of
`createCodes` changes nothing and is no step. `authorize` is the operator `Live`.
`Redemption` is what the relay promises: a code is issued once, redeemed by one device, and
gives a revocable right. `RedemptionSpec` maps it to the relay's file (`owner` to the codes
of the file, `right` to the entitlement that is not revoked).

### RelayTunnel and PlayerSlots

`handlePlayer`, `data` and `expirePending` for one host. `handler` is a player's goroutine,
`active` the atomic count of a session, `byID` the pending table, `ready` the channel a
socket is handed over in, `dial` a data request of the installation. The control session
appears as `Route` and `Unroute`; RelayRoutes has the rest of it. A write to the control
socket that failed may have arrived. What is proxied and the parser of the handshake are
left out.

`PlayerSlots` is what a player is promised: it is let in once, into one of `Max` places of a
session, waits, plays through one connection that was dialled for it and is never anybody's
again, and gives its place back. `SlotsSpec` maps it to RelayTunnel: `stage` and `slot` to
where the player's handler is, `tunnel`, `secret` and `shut` to the data requests. The
places are counted in the abstract specification by the players that have one; that the
atomic counter of the code, which refused players share for a moment, comes to the same is
what the refinement shows.

### Creation

Every way a server comes to be (a new one, both kinds of modpack, an import, a quick
server) and its removal. A task `t` is a call of the window, at the step `at[t]`; it fills
`staging[t]`, moves it to its home and registers a `row` and a `record`. `got` are the
files of a pack that is downloaded and checked by parallel jobs, whose first error (`err`)
sets the flag `stop` that is also the user's. A task's `plan` says what it meets besides:
files the manifest gives no checksum (`bare`), which are accepted unread, and something
that holds what the task writes (`held`), so that every removal, whose error the code drops,
may leave things behind. An import writes `eula.txt` into the user's own folder (`Adopt`).
`Fails` is the failure of the step a task is
at, `Stall` a connection that delivers nothing, `Crash` the death of the application and
its next launch. Abstractions: which pieces a folder holds stands for its contents; the
order of jobs is any order; unpacking limits and catalogue answers are left out.

### Databases

The databases of one server. A database is the call that makes it (`at`); the other calls
are `call`. `container`, `volume` and `hung` are Docker, which outlives the application.
A command that fails or is cut off may have had its effect (`Fails`, `VolumeFails`). A
container that does not become ready is asked for its logs before the rollback, by a command
that no cancellation cuts off (`NotReady`, `Logs`).
`database_action` and `delete_database` load the row before they wait for the lock;
`list_databases` takes none. `doomed` and `spoilt` record what the user asked to delete
and what could not be rolled back.

### AddOns

The jars of one server; `mods.rs` and `plugins.rs` have one protocol. `disk` maps the two
names of each jar, enabled and disabled, to what is there, `row` each project to the name
its row has. A call waits for the operation lock, looks at the server's status, and then
changes a file and its row one after the other, with a way back that may fail too. Starting
and stopping the server only try that lock. `list_for_server` ends every call and is a call
of its own that takes no lock. `Vanish` is the user in Explorer. `Displace`, `CopyBack` and
`Restores` are a restore, which replaces the whole folder by one that a `Backup` held, or
puts the old one back, or fails at that, and leaves the rows. A manual download is copied
from where the user put it; what was hashed there before the lock was waited for, if
anything was, may be another jar by then (`Imported`). `spoilt` are the names whose row is
not known to speak of their file: the file went, a restore displaced it, or it is not what
was to be imported. `loaded` is what Java opened. A removal whose error is dropped may leave
its jar (`CopyFails`, `SaveFails`); the temporary file of a download, which nothing reads
and which may stay too, is not modelled. The row of a toggled jar is read and written in two
statements (`db.rs:264`), between which only a listing may delete it; that comes to the same
as the listing deleting it under its old name afterwards, so `Rerow` is one step. The first
start of a quick server (`ephemeral.rs:258`) takes no operation lock and is outside this
module. A stalled download keeps the lock for as long as it stalls, since the HTTP clients
have no time-out; nothing bounds that, and the module has no fairness.

## 3. What the runs show

`pass` runs hold in every reachable state of the instance; each of their properties has a
mutant in `PROJECT.json`, a plausible bug of one definition that TLC finds with it.

| Run | Shows | Why the instance is enough |
|---|---|---|
| `lifecycle_runs` | one Java per server, a fatal line kills its own session, log sessions keep their server, every entry has a monitor or a start that will take it away, a quit has waited for every server that was registered | two sessions in a row under three commands: every overlap of an old session's tasks with a new one; then one session that meets failing writes, an edit, a quit, a death and the next launch |
| `lifecycle_progress` | the process manager implements `ServerLife`: one process per server, a port of its own, no entry forgotten before its Java has ended; an exited Java leaves the registry and both locks are given back (liveness) | two servers, one of them quick, and one port; two clients contend, or one meets a failing write |
| `relayroutes_routes` | one routed server per installation, names in memory are those of the file, a dead connection frees its slot (liveness) | two connections with every choice and a restart, or three: one registered, one replacing it, one overtaking |
| `backups_operations` | autosave returns, a restore runs alone and behind a safety backup, listed archives are complete, retention keeps the newest, every operation ends (liveness) | two worlds, so that the roots of the archive, of the folder and of the safety backup differ; three scheduled backups of which one is kept, with a deletion beside them and the clock set back before the last; an archive that misses files in a restore of one world |
| `relayaccess_keys` | receipts are honoured, a lost answer can be retried, no key is wasted, the store implements `Redemption` | two installations, three keys, two activations at once, a revocation, a crash |
| `relaytunnel_players` | the handlers implement `PlayerSlots`, so that the limit holds, a tunnel carries its own player, nothing is left behind, every player is served or let go (liveness) | two players for one place, two sessions of the host, three data requests |
| `creation_servers` | what is registered is whole, each file of a pack with a checksum was checked, one quick server, nothing of others is overwritten, nothing is left but what Windows holds, every task ends unless it stalls (liveness) | one task of each kind with cancellation, stalls and failing removals, two that share a folder, a name or the lock; two files of a pack; a death |
| `databases_calls` | data go only by a deletion, a failed creation is rolled back, a deleted database stays deleted, cancellation is heard, calls return (liveness) | two databases that share the lock, or one with two calls; an engine that hangs; a death |
| `addons_calls` | a jar has one copy, its row is its own, Java's jars stay, only a listing loses a row | two jars, two calls that meet on one, a listing that races a change, a server that starts, a restore around a call, a death |

Runs that expect a violation; each is a finding with the line it contradicts.

| Run | What the code does |
|---|---|
| `relayroutes_vanity` | an overtaken registration deletes the route of the installation that holds the name now |
| `backups_cancel` | the rollback of a cancelled restore, which meets no error and runs to its end, deletes roots that had not been moved away |
| `databases_delete` | a deletion that died after the volume leaves a row that every retry fails to delete, and with it a server that cannot be removed |

The models also contain behaviours of the code that no property excludes, because none
would hold and no run is spent on them:

- A start that has spawned Java and has not registered it is seen by nobody: a quit that
  finds the registry empty exits, and the job object kills that Java unsaved
  (`process.rs:133-166`, `322`), although `README.md:151` promises that servers are stopped
  first. `QuitWaitsForServers` excepts it.
- Java exits while `stop` saves its clone (`process.rs:244`): the row stays at `stopping`.
- A readiness probe or a timer saves the clone of a removed server, and `save_server`
  inserts the row again (`process.rs:819`).
- The 60 second timer of one stop raises its alert during the stop of the next session
  (`process.rs:255`); a start whose save fails after the spawn leaves Java running without
  a monitor (`process.rs:179`).
- A backup of a running server mixes states of two saves (`backups.rs:60`); a restore
  after `level-name` was changed discards the folder of a world that the safety backup
  does not hold (`backups.rs:268`).
- A listing without the lock brings back the row of a deleted database
  (`databases.rs:128`) or deletes the row of a jar that is there (`mods.rs:1161`);
  `NothingComesBack` and `RowsFollowJars` except exactly these.
- A restore of an older folder leaves rows that name other jars than they describe
  (`backups.rs:374`), and a jar imported without a checksum may be any (`mods.rs:986`);
  `RowIsOfJar` excepts them.
- A removal that Windows refuses leaves a staging folder, a workspace or half a copy
  (`commands.rs:834`, `1260`, `1266`, `modpacks.rs:527`); `LeavesNothing` excepts tasks that
  meet this (`held`).
- Two creations register one name (`commands.rs:1793`); a death leaves staging folders
  that no launch removes (`commands.rs:725`).
- A copy of a jar that fails leaves a part of it under its final name (`mods.rs:957`).

Bounds are CONSTANTS of the modules (`Max...`) and the sizes of their sets; `Players`,
`Dials`, `Tasks` and `Dbs` are used up, while `Calls` and `Clients` are used again. The
state constraints (`Scenarios`, `Progress`, `Overlaps`, `Operations`, `InOrder`, defined
and explained in the `MC` modules) bound the product of independent disturbances:
a scenario allows each of them, with the calls it can meet. A constraint cuts behaviours
off where they leave every scenario; a liveness property is thereby shown of those that
stay in one. `InOrder` and the choice of the first task in `MCCreation` stand for symmetry.
`relayroutes_vanity` and `relayaccess_keys` use symmetry sets, over members that no
property tells apart; neither run has a liveness property. `CHECK_DEADLOCK FALSE` is set
because a system at rest, and one that has used its bounds up, may do nothing at all.

Fairness. Rust tasks and goroutines that can go on do (weak fairness of each task's steps);
the user, the network, Java, Docker and crashes owe nothing, so a stalled connection and a
hung engine may stay so and the properties say what then holds. The steps that take
ServerLifecycle's start lock and the databases' lock have strong fairness, because tokio's
mutex is first in, first out. In RelayTunnel the clock advances for each player. A stopping
Java is not assumed to exit, and no property needs it.

## 4. What is proved

TLAPS checks each theorem for all values of the constants, from the named assumptions of
the module (`None` is no member of the sets it is compared with, bounds are naturals). In
each module one invariant `IInv` is shown to be inductive, with one lemma per action and a
step per conjunct that the action touches; the properties follow from it.

- `ServerLifecycle_proofs`: `Invariance` (`IInv`), and from it `TypeCorrect`,
  `PortsAreReserved`, `MonitorOwnsItsEntry`, `LogsKeepTheirServer`. The safety
  invariants are not inductive. What is missing: a command holds its operation lock, and
  the start lock from its port check to the insertion of its entry (`LocksHeld`), what it
  checked still holds when it spawns (`StartKeepsChecks`), a row is removed only while
  nothing is registered and a watched server has its row (`RowsKept`), session numbers are
  fresh (`SessionsNumbered`), and tasks are where their kind can be (`FramesOK`).

  A second invariant, `SessionInv` (`SessionInvariance`), is inductive beside `IInv`. It
  relates a session to the earlier ones: what Nooki looks after is registered or has just
  been spawned by a start that will register it (`JavaIsRegistered`), a monitor leaves its
  watch only when its Java has ended (`WatchedTillExit`), and a reader at work has a monitor
  that has still to join it (`ReaderIsJoined`), so that no entry, and no reader that kills
  by server id, outlives its session. `StepKinds` sorts the steps by what they do to these,
  and most are frames. From it follow `OneJava`, `FatalLinesKillTheirOwn`, and the action
  property `QuitWaitsForAll`.

  `ImplementsServerLife` maps `AssignJob` to `Launch`, `Register` to `Enter`, the end of a
  process in the job object to `Exit`, `MonitorUnregisters` to `Forget`, a quit, a death and
  the next launch to `End`, and everything else to a stutter. `JavaIsKnown` proves the
  invariant `Known` of the abstract specification alone, and the refinement carries it over:
  every living process is the entry of a server or the one that a start is about to enter.

  `LocksAreHeldAtWork` and `NoEntryIsLeft` are the safety halves of `LocksAreReleased` and
  `ExitIsNoticed`: a lock has a command at work that will give it back (`LocksHaveHolders`),
  and an entry is in the hands of a monitor or a start unless a write of the database has
  failed (`EntriesAreWatched`).
- `RelayRoutes_proofs`: `RelayInvariance`, `OneServer`, `LiveRoutes`, `NamesAgree`,
  `NamesPersist`. `OneServerPerInstallation` follows from `RoutesOK`: whatever a host
  leads to is the registered connection of its device, so two hosts of one device would be
  one connection's, and a connection has one host. `RoutesAreAlive` supplies that.
- `Backups_proofs`: `BackupInvariance`, `SavingReturns`, `RestoreAlone`, `SafetyFirst`,
  `CompleteList`, `RollbackIsClean`, `NewestSurvives`. `SafetyOK` carries, step by step,
  that what was copied equals the folder the restore found; `RollbackOK` says of each root
  whether it is untouched, saved aside or replaced; `NewestOK` that retention's list lacks
  the newest backup unless the clock was set back.
- `RelayAccess_proofs`: `AccessInvariance`, `HonouredReceipts`, `RetriesSucceed`,
  `NoWaste`, and `ImplementsRedemption`: every step of the relay is a step of `Redemption`
  or a stutter. Memory and file agree between steps (`GrantsAreSaved`); a right names a
  code of its device and a used code gives its device a right; answers and calls carry
  codes that are their device's.
- `RelayTunnel_proofs`: `TunnelInvariance`, `LimitIsKept`, `TunnelsAreOwn`, `NothingStays`,
  `ImplementsPlayerSlots`. `CountIsExact` says that the counter is the number of handlers
  that will take one off it, by which the check of a limit after the increment suffices;
  `ClaimIsUnique` that a listed player has no claimed tunnel and a removed one at most one.
  Every step is then one of `PlayerSlots` or a stutter: an admission finds a free place,
  because the players that have one are among those the counter counts, and the socket in a
  player's channel is open and was dialled for it (`TunnelIsClaimed`).
- `Creation_proofs`: `Invariant`, `RegisteredAreWhole`, `PacksAreVerified`,
  `QuickServersExclude`, `TasksLeaveNothing`, `NothingOverwritten`. `StagingInv` and
  `HomeInv` say how far a task's folders are filled at each step and whose a home is,
  `PackInv` which files are checked or accepted unread, `QuickInv` that a quick server under
  way holds the lock and found none registered.
- `Databases_proofs`: `Invariant`, `DataAreKept`, `RollbackLeavesNothing`,
  `DeletedStaysDeleted`. `MakerInv` says what exists in Docker at each step of a creation,
  `CallInv` and `LockInv` who is past the lock and what a deletion has done by then.
- `AddOns_proofs`: `Invariant`, `OneCopyOfEach`, `RowsAreOfJars`, `JarsStayForJava`,
  `RowsStayWithJars`. A call past the lock holds it (`LockInv`), what
  it found free or present stays so until it returns (`NamesInv`), because Explorer can
  only take away; Java loads jars only while nobody who moves them is past the lock
  (`ServerInv`); rows and files agree but for spoilt names and the call between two steps
  (`RowInv`); a restore brings back a folder with one copy of each jar (`StoreInv`).

Some of the invariants proved are in no run (`PortsReserved`, `LimitHolds`,
`MonitorOwnsEntry`, `SessionInv`, `Life!Known`, `LocksHaveHolders`, `RoutesAreAlive`,
`ReservationsAgree`, `GrantsAreSaved`, `RolledBackIsOld`). TLC checked them on the instances
of the runs before they were proved; `ServerLifeSpec` implies the first and `SlotsSpec` the
second.

Only model-checked: the liveness properties, which are beyond this prover (`ExitIsNoticed`,
`LocksAreReleased`, `SlotIsFreed`, `OperationReturns`, `SlotIsReturned`, `TaskEnds`,
`CancelIsHeard`, `CallsReturn`), and the three violations.

## 5. Plan

In this order, most important behaviour first. The first seven are done.

1. `ServerLifecycle`, with `ServerLife`: processes, records, commands.
2. `RelayRoutes`: the control plane of the relay.
3. `Backups`: backup, restore, retention.
4. `RelayAccess`, with `Redemption`: activation.
5. `RelayTunnel`, with `PlayerSlots`: players.
6. `Creation`: how servers come and go.
7. `Databases` and `AddOns`: what belongs to a server beside its process.
8. `SoftwareChange`: a backup, a jar in another's place, a trial start and the way back.
9. `Sharing`: loops and route tokens beside the life of a session; one loop per server, a
   token per session. It composes with ServerLifecycle's session (running, exited).
10. `BackupSchedules`: the scheduler's stale clone beside edits from the window; a due
    backup is made; a removed server has no schedule.
11. `Worlds`, on Creation's staging; `Console`: a bounded buffer against its reference.

## 6. What is not modelled

Planned, see above: the sharing client, the backup scheduler, software changes, worlds and
the console buffer. Left out, with the reason in `PROJECT.json`: players' lists and the
file manager (single file operations), `server.properties`, paths and avatars (pure
functions), the window and its event stream (presentation), packaging. Within the modelled
parts: HTTP catalogues and their parsing, archive formats and limits, checksums as
functions (a check agrees or not), progress, logging and messages, Java detection and
`remove_java_runtime`, and the registry of operation ids (`operations.rs`) beyond the flag
each operation reads.
