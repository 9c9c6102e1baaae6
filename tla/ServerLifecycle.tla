-------------------------- MODULE ServerLifecycle --------------------------
(***************************************************************************)
(* The life of a Minecraft server's Java process inside the Nooki backend: *)
(* ProcessManager (src-tauri/src/process.rs), the server record it shares  *)
(* with every other task (state.rs, db.rs) and the commands that drive it  *)
(* (commands.rs).                                                          *)
(*                                                                         *)
(* A server has a record, kept twice: a row of the database and a copy in  *)
(* memory.  Every task changes the record the same way: it clones the copy *)
(* in memory, edits the clone, writes it to the database and then to       *)
(* memory (AppState::save_server).  No lock spans the four steps, so a     *)
(* task may write back a clone that others have made stale.                *)
(*                                                                         *)
(* A running Java process is a session.  The registry (the `processes`     *)
(* map) holds at most one session per server, and a session's own tasks    *)
(* are a console reader, an exit monitor, a readiness probe and one timer  *)
(* per stop request.                                                       *)
(***************************************************************************)
EXTENDS Naturals, FiniteSets

CONSTANTS
    Servers,        \* ids of the registered servers
    Ephemeral,      \* those of them that are quick servers
    Ports,          \* port numbers
    Clients,        \* concurrent calls of server_action and remove_server
    None,           \* no entry, no row, no holder
    MaxSessions,    \* bound: Java processes ever started
    MaxCommands,    \* bound: calls of server_action and remove_server
    MaxTimers,      \* bound: pending stop timers per session
    MaxEdits,       \* bound: record rewrites by edits and player lines
    MaxQuits,       \* bound: calls of quit_application
    MaxDbFailures,  \* bound: failing database writes
    MaxLaunches     \* bound: times the application is started again

ASSUME SetsAssumption ==
    /\ Ephemeral \subseteq Servers
    /\ None \notin Servers \cup Ports \cup Clients
ASSUME BoundsAssumption ==
    /\ MaxSessions \in Nat /\ MaxCommands \in Nat /\ MaxTimers \in Nat /\ MaxEdits \in Nat
    /\ MaxQuits \in Nat /\ MaxDbFailures \in Nat /\ MaxLaunches \in Nat

VARIABLES
    mem,         \* the servers map: id -> record, or None
    db,          \* the servers table: id -> record, or None
    logs,        \* the log_sessions table: id -> set of <<session, outcome>>
    registry,    \* the processes map: id -> session and port, or None
    java,        \* Java processes by session
    stopReq,     \* sessions whose stop_requested flag is set
    timers,      \* stop timers still sleeping, by session
    startLock,   \* holder of ProcessManager::start_lock
    opLock,      \* holder of each server's operation lock
    task,        \* every task: where it is, and its clone of the record
    quitIds,     \* the ids stop_all has still to stop
    count        \* the bounded counters

vars == <<mem, db, logs, registry, java, stopReq, timers, startLock, opLock,
          task, quitIds, count>>
allButTask == <<mem, db, logs, registry, java, stopReq, timers, startLock, opLock,
                quitIds, count>>

Sessions == 1..MaxSessions
Status == {"stopped", "starting", "running", "stopping", "restarting", "crashed"}
Row == [status : Status, overdue : BOOLEAN, port : Ports]
Entry == [n : Sessions, port : Ports]
Outcome == {"clean-stop", "crashed"}
Process == [st : {"none", "up", "listening", "dead"}, srv : Servers \cup {None},
            port : Ports \cup {None}, inJob : BOOLEAN]

ASSUME NoneAssumption == None \notin Row \cup Entry

Cmd(c) == <<"cmd", c>>
Editor(s) == <<"editor", s>>
Reader(n) == <<"reader", n>>
Monitor(n) == <<"monitor", n>>
Probe(n) == <<"probe", n>>
Timer(n) == <<"timer", n>>
Quit == <<"quit", 0>>
Tasks == {Cmd(c) : c \in Clients}
         \cup {Editor(s) : s \in Servers}
         \cup {Reader(n) : n \in Sessions} \cup {Monitor(n) : n \in Sessions}
         \cup {Probe(n) : n \in Sessions} \cup {Timer(n) : n \in Sessions}
         \cup {Quit}

(* The labels of each kind of task. *)
SaveLabels == {"idle", "failed", "saveDb", "saveMem"}
CmdLabels == SaveLabels \cup
    {"start", "spawn", "assign", "insert", "started", "stop", "stopWrite", "awaitExit", "restart", "forceStop",
     "remove", "removeWait", "removeRow", "removeMem"}
MonitorLabels == {"idle", "saveDb", "saveMem", "watch", "join", "verdict", "log", "disk",
                  "unregister", "ephRow", "ephMem"}
QuitLabels == SaveLabels \cup {"quitNext", "quitWait", "exit", "stop", "stopWrite"}
HelperLabels == SaveLabels \cup {"read", "kill", "probe", "hit"}
LabelsOf(t) == CASE t[1] = "cmd" -> CmdLabels
                 [] t[1] = "monitor" -> MonitorLabels
                 [] t[1] = "quit" -> QuitLabels
                 [] OTHER -> HelperLabels
Labels == CmdLabels \cup MonitorLabels \cup QuitLabels \cup HelperLabels

(* A task's frame: the label it is at, the server and session it works for,
   the clone it is about to save and the label that follows the save.  op is
   the command a cmd task runs, or the verdict a monitor reached. *)
Frame == [at : Labels, srv : Servers \cup {None}, n : Sessions \cup {0},
          op : {"none", "start", "stop", "restart", "forceStop", "remove", "quit"} \cup Outcome,
          row : Row \cup {None}, then : Labels]
Idle == [at |-> "idle", srv |-> None, n |-> 0, op |-> "none", row |-> None, then |-> "idle"]

TypeOK ==
    /\ mem \in [Servers -> Row \cup {None}]
    /\ db \in [Servers -> Row \cup {None}]
    /\ logs \in [Servers -> SUBSET (Sessions \X Outcome)]
    /\ registry \in [Servers -> Entry \cup {None}]
    /\ java \in [Sessions -> Process]
    /\ stopReq \subseteq Sessions
    /\ timers \in [Sessions -> 0..MaxTimers]
    /\ startLock \in Clients \cup {None}
    /\ opLock \in [Servers -> Clients \cup {None}]
    /\ task \in [Tasks -> Frame]
    /\ quitIds \subseteq Servers
    /\ count \in [session : 0..MaxSessions, command : 0..MaxCommands, edit : 0..MaxEdits, quit : 0..MaxQuits,
                  dbFailure : 0..MaxDbFailures, launch : 0..MaxLaunches]

InitialRows == {f \in [Servers -> Row] :
                    \A s \in Servers : f[s].status = "stopped" /\ ~ f[s].overdue}
NoJava == [st |-> "none", srv |-> None, port |-> None, inJob |-> FALSE]

Init ==
    /\ db \in InitialRows
    /\ mem = db
    /\ logs = [s \in Servers |-> {}]
    /\ registry = [s \in Servers |-> None]
    /\ java = [n \in Sessions |-> NoJava]
    /\ stopReq = {}
    /\ timers = [n \in Sessions |-> 0]
    /\ startLock = None
    /\ opLock = [s \in Servers |-> None]
    /\ task = [t \in Tasks |-> Idle]
    /\ quitIds = {}
    /\ count = [session |-> 0, command |-> 0, edit |-> 0, quit |-> 0, dbFailure |-> 0, launch |-> 0]

-----------------------------------------------------------------------------
(* Steps every task shares. *)

At(t, l) == task[t].at = l
Becomes(t, frame) == task' = [task EXCEPT ![t] = frame]
Goto(t, l) == Becomes(t, [task[t] EXCEPT !.at = l])
Finish(t) == Becomes(t, Idle)

(* Hand the clone to save_server and go on at l when it returns. *)
Saves(frame, row, l) == [frame EXCEPT !.at = "saveDb", !.row = row, !.then = l]
SaveThen(t, row, l) == Becomes(t, Saves(task[t], row, l))
Resumed(frame) ==
    IF frame.then = "idle" THEN Idle
    ELSE [frame EXCEPT !.at = frame.then, !.row = None, !.then = "idle"]

Alive(n) == java[n].st \in {"up", "listening"}
Killed(n) == [java EXCEPT ![n].st = "dead"]

(* `?` after save_server returns the error to the caller; `let _ =` drops it. *)
Propagates(t) == t[1] \in {"cmd", "editor", "quit"}

SaveDb(t) ==
    /\ At(t, "saveDb")
    /\ db' = [db EXCEPT ![task[t].srv] = task[t].row]
    /\ Goto(t, "saveMem")
    /\ UNCHANGED <<mem, logs, registry, java, stopReq, timers, startLock, opLock,
                   quitIds, count>>

\* Variant: a task without a caller stops at the first failing write.
SaveDbFailsForGood(t) ==
    /\ At(t, "saveDb")
    /\ count.dbFailure < MaxDbFailures
    /\ count' = [count EXCEPT !.dbFailure = @ + 1]
    /\ IF Propagates(t) THEN Goto(t, "failed") ELSE Finish(t)
    /\ UNCHANGED <<mem, db, logs, registry, java, stopReq, timers, startLock, opLock, quitIds>>

SaveDbFails(t) ==
    /\ At(t, "saveDb")
    /\ count.dbFailure < MaxDbFailures
    /\ count' = [count EXCEPT !.dbFailure = @ + 1]
    /\ IF Propagates(t) THEN Goto(t, "failed") ELSE Becomes(t, Resumed(task[t]))
    /\ UNCHANGED <<mem, db, logs, registry, java, stopReq, timers, startLock, opLock, quitIds>>

SaveMem(t) ==
    /\ At(t, "saveMem")
    /\ mem' = [mem EXCEPT ![task[t].srv] = task[t].row]
    /\ Becomes(t, Resumed(task[t]))
    /\ UNCHANGED <<db, logs, registry, java, stopReq, timers, startLock, opLock,
                   quitIds, count>>

-----------------------------------------------------------------------------
(* Commands.  server_action and remove_server take the server's operation
   lock with try_lock and hold it until they return.  Any of them may be called in
   any state: what the window offers may be out of date. *)

BeginCommand(c, s, op) ==
    /\ At(Cmd(c), "idle")
    /\ opLock[s] = None
    /\ count.command < MaxCommands
    /\ count' = [count EXCEPT !.command = @ + 1]
    /\ opLock' = [opLock EXCEPT ![s] = c]
    /\ Becomes(Cmd(c), [Idle EXCEPT !.at = op, !.srv = s, !.op = op])
    /\ UNCHANGED <<mem, db, logs, registry, java, stopReq, timers, startLock, quitIds>>

(* The command returns: its guards, the start lock too, are dropped. *)
Return(c) ==
    /\ opLock' = [opLock EXCEPT ![task[Cmd(c)].srv] = None]
    /\ startLock' = IF startLock = c THEN None ELSE startLock
    /\ Finish(Cmd(c))

CommandFails(c) ==
    /\ At(Cmd(c), "failed")
    /\ Return(c)
    /\ UNCHANGED <<mem, db, logs, registry, java, stopReq, timers, quitIds, count>>

(* validate_port: a bind to the port succeeds when no process listens on it. *)
PortIsFree(p) == \A n \in Sessions : java[n].port = p => java[n].st # "listening"

\* Variant: start forgets that the server may already run.
StartableWhileRunning(s) ==
    /\ mem[s] # None
    /\ \A o \in Servers \ {s} : registry[o] # None => registry[o].port # mem[s].port
    /\ PortIsFree(mem[s].port)

Startable(s) ==
    /\ registry[s] = None
    /\ mem[s] # None
    /\ \A o \in Servers : registry[o] # None => registry[o].port # mem[s].port
    /\ PortIsFree(mem[s].port)

\* Variant: startup is not serialized.
StartAcceptedUnlocked(c) ==
    /\ At(Cmd(c), "start")
    /\ count.session < MaxSessions
    /\ Startable(task[Cmd(c)].srv)
    /\ startLock' = c
    /\ Becomes(Cmd(c), [task[Cmd(c)] EXCEPT !.at = "spawn", !.row = mem[task[Cmd(c)].srv]])
    /\ UNCHANGED <<mem, db, logs, registry, java, stopReq, timers, opLock, quitIds, count>>

StartAccepted(c) ==
    /\ At(Cmd(c), "start")
    /\ startLock = None
    /\ count.session < MaxSessions
    /\ Startable(task[Cmd(c)].srv)
    /\ startLock' = c
    /\ Becomes(Cmd(c), [task[Cmd(c)] EXCEPT !.at = "spawn", !.row = mem[task[Cmd(c)].srv]])
    /\ UNCHANGED <<mem, db, logs, registry, java, stopReq, timers, opLock, quitIds, count>>

(* A conflict, a missing folder, jar or runtime, bad JVM arguments. *)
StartRefused(c) ==
    /\ At(Cmd(c), "start")
    /\ startLock = None
    /\ Return(c)
    /\ UNCHANGED <<mem, db, logs, registry, java, stopReq, timers, quitIds, count>>

NewSession == count.session + 1
Spawned(s, p) ==
    [java EXCEPT ![NewSession] = [st |-> "up", srv |-> s, port |-> p, inJob |-> FALSE]]

(* Java runs from here on, and nobody but this call knows of it. *)
StartSpawn(c) ==
    LET f == task[Cmd(c)]
    IN  /\ At(Cmd(c), "spawn")
        /\ java' = Spawned(f.srv, f.row.port)
        /\ count' = [count EXCEPT !.session = @ + 1]
        /\ Becomes(Cmd(c), [f EXCEPT !.at = "assign", !.n = NewSession])
        /\ UNCHANGED <<mem, db, logs, registry, stopReq, timers, startLock, opLock, quitIds>>

\* Variant: the error path keeps the start lock.
SpawnFailsLocked(c) ==
    /\ At(Cmd(c), "spawn")
    /\ opLock' = [opLock EXCEPT ![task[Cmd(c)].srv] = None]
    /\ Finish(Cmd(c))
    /\ UNCHANGED <<mem, db, logs, registry, java, stopReq, timers, startLock, quitIds, count>>

SpawnFails(c) ==
    /\ At(Cmd(c), "spawn")
    /\ Return(c)
    /\ UNCHANGED <<mem, db, logs, registry, java, stopReq, timers, quitIds, count>>

AssignJob(c) ==
    /\ At(Cmd(c), "assign")
    /\ java' = [java EXCEPT ![task[Cmd(c)].n].inJob = TRUE]
    /\ Goto(Cmd(c), "insert")
    /\ UNCHANGED <<mem, db, logs, registry, stopReq, timers, startLock, opLock, quitIds, count>>

(* JobObject::assign fails after Java was spawned; the child is dropped with
   kill_on_drop(false) and keeps running, known to nobody. *)
JobAssignFails(c) ==
    /\ At(Cmd(c), "assign")
    /\ Return(c)
    /\ UNCHANGED <<mem, db, logs, registry, java, stopReq, timers, quitIds, count>>

(* The registry's write lock has been waited for; until here stop, force_stop,
   stop_all and the timers do not see the process. *)
Register(c) ==
    LET f == task[Cmd(c)]
    IN  /\ At(Cmd(c), "insert")
        /\ registry' = [registry EXCEPT ![f.srv] = [n |-> f.n, port |-> f.row.port]]
        /\ SaveThen(Cmd(c), [f.row EXCEPT !.status = "starting", !.overdue = FALSE], "started")
        /\ UNCHANGED <<mem, db, logs, java, stopReq, timers, startLock, opLock, quitIds, count>>

\* Variant: start returns before it has a monitor when Java is gone already.
StartedUnlessGone(c) ==
    LET s == task[Cmd(c)].srv
        n == task[Cmd(c)].n
        Begin(l) == [Idle EXCEPT !.at = l, !.srv = s, !.n = n]
    IN  /\ At(Cmd(c), "started")
        /\ task' = IF Alive(n)
                   THEN [task EXCEPT ![Cmd(c)] = Idle,
                                     ![Monitor(n)] = Begin("watch"),
                                     ![Reader(n)] = Begin("read"),
                                     ![Probe(n)] = Begin("probe")]
                   ELSE [task EXCEPT ![Cmd(c)] = Idle]
        /\ startLock' = None
        /\ opLock' = [opLock EXCEPT ![s] = None]
        /\ UNCHANGED <<mem, db, logs, registry, java, stopReq, timers, quitIds, count>>

Started(c) ==
    LET s == task[Cmd(c)].srv
        n == task[Cmd(c)].n
        Begin(l) == [Idle EXCEPT !.at = l, !.srv = s, !.n = n]
    IN  /\ At(Cmd(c), "started")
        /\ task' = [task EXCEPT ![Cmd(c)] = Idle,
                                ![Monitor(n)] = Begin("watch"),
                                ![Reader(n)] = Begin("read"),
                                ![Probe(n)] = Begin("probe")]
        /\ startLock' = None
        /\ opLock' = [opLock EXCEPT ![s] = None]
        /\ UNCHANGED <<mem, db, logs, registry, java, stopReq, timers, quitIds, count>>

-----------------------------------------------------------------------------
(* ProcessManager::stop, run by a command or by stop_all. *)

QuitNextFrame == [Idle EXCEPT !.at = "quitNext", !.op = "quit"]
StopFails(t) ==
    IF t = Quit THEN Becomes(t, QuitNextFrame) ELSE Goto(t, "failed")

StopRefused(t) ==
    LET s == task[t].srv
    IN  /\ At(t, "stop")
        /\ \/ registry[s] = None /\ UNCHANGED stopReq
           \/ registry[s] # None /\ mem[s] = None /\ stopReq' = stopReq \cup {registry[s].n}
        /\ StopFails(t)
        /\ UNCHANGED <<mem, db, logs, registry, java, timers, startLock, opLock, quitIds, count>>

StopRequest(t) ==
    LET s == task[t].srv
    IN  /\ At(t, "stop")
        /\ registry[s] # None
        /\ mem[s] # None
        /\ stopReq' = stopReq \cup {registry[s].n}
        /\ Becomes(t, Saves([task[t] EXCEPT !.n = registry[s].n],
                            [mem[s] EXCEPT !.status = "stopping"], "stopWrite"))
        /\ UNCHANGED <<mem, db, logs, registry, java, timers, startLock, opLock, quitIds, count>>

(* "stop\n" reaches Java and the 60 second timer is spawned. *)
StopWritten(t) ==
    LET n == task[t].n
    IN  /\ At(t, "stopWrite")
        /\ Alive(n)
        /\ timers[n] < MaxTimers
        /\ timers' = [timers EXCEPT ![n] = @ + 1]
        /\ IF t = Quit
           THEN Becomes(t, QuitNextFrame) /\ UNCHANGED <<opLock, startLock>>
           ELSE IF task[t].op = "restart"
           THEN Goto(t, "awaitExit") /\ UNCHANGED <<opLock, startLock>>
           ELSE Return(t[2])
        /\ UNCHANGED <<mem, db, logs, registry, java, stopReq, quitIds, count>>

(* Java has exited or closed its stdin: the write fails and no timer runs. *)
StopWriteFails(t) ==
    /\ At(t, "stopWrite")
    /\ StopFails(t)
    /\ UNCHANGED allButTask

(* The timer looks up whatever process the server has by then. *)
TimerFires(n) ==
    LET s == java[n].srv
    IN  /\ timers[n] > 0
        /\ At(Timer(n), "idle")
        /\ timers' = [timers EXCEPT ![n] = @ - 1]
        /\ IF registry[s] # None /\ mem[s] # None
              /\ mem[s].status \in {"stopping", "restarting"}
              /\ ~ mem[s].overdue
           THEN Becomes(Timer(n), Saves([Idle EXCEPT !.srv = s, !.n = n],
                                        [mem[s] EXCEPT !.overdue = TRUE], "idle"))
           ELSE UNCHANGED task
        /\ UNCHANGED <<mem, db, logs, registry, java, stopReq, startLock, opLock, quitIds, count>>

ForceStop(c) ==
    LET s == task[Cmd(c)].srv
    IN  /\ At(Cmd(c), "forceStop")
        /\ java' = IF registry[s] = None THEN java ELSE Killed(registry[s].n)
        /\ Return(c)
        /\ UNCHANGED <<mem, db, logs, registry, stopReq, timers, quitIds, count>>

(* Restarting is saved before anyone looks whether a process exists. *)
Restart(c) ==
    LET s == task[Cmd(c)].srv
    IN  /\ At(Cmd(c), "restart")
        /\ IF mem[s] = None THEN Goto(Cmd(c), "failed")
           ELSE SaveThen(Cmd(c), [mem[s] EXCEPT !.status = "restarting"], "stop")
        /\ UNCHANGED allButTask

(* wait_for_exit: the entry is gone, or the deadline passes first. *)
WaitOver(c, label, next) ==
    /\ At(Cmd(c), label)
    /\ Goto(Cmd(c), IF registry[task[Cmd(c)].srv] = None THEN next ELSE "failed")
    /\ UNCHANGED allButTask
AwaitExit(c) == WaitOver(c, "awaitExit", "start")

-----------------------------------------------------------------------------
(* remove_server *)

Remove(c) ==
    LET s == task[Cmd(c)].srv
    IN  /\ At(Cmd(c), "remove")
        /\ IF mem[s] # None /\ registry[s] = None
           THEN Goto(Cmd(c), "removeRow") /\ UNCHANGED java
           ELSE IF mem[s] # None /\ mem[s].status = "crashed"
           THEN Goto(Cmd(c), "removeWait") /\ java' = Killed(registry[s].n)
           ELSE Goto(Cmd(c), "failed") /\ UNCHANGED java
        /\ UNCHANGED <<mem, db, logs, registry, stopReq, timers, startLock, opLock,
                       quitIds, count>>
RemoveWait(c) == WaitOver(c, "removeWait", "removeRow")

RemoveRow(c) ==
    LET s == task[Cmd(c)].srv
    IN  /\ At(Cmd(c), "removeRow")
        /\ db' = [db EXCEPT ![s] = None]
        /\ logs' = [logs EXCEPT ![s] = {}]
        /\ Goto(Cmd(c), "removeMem")
        /\ UNCHANGED <<mem, registry, java, stopReq, timers, startLock, opLock, quitIds, count>>

(* The Recycle Bin refuses the folder, or it is unsafe to move. *)
RecycleFails(c) ==
    /\ At(Cmd(c), "removeRow")
    /\ Goto(Cmd(c), "failed")
    /\ UNCHANGED allButTask

RemoveMem(c) ==
    /\ At(Cmd(c), "removeMem")
    /\ mem' = [mem EXCEPT ![task[Cmd(c)].srv] = None]
    /\ Return(c)
    /\ UNCHANGED <<db, logs, registry, java, stopReq, timers, quitIds, count>>

-----------------------------------------------------------------------------
(* Record edits that take no lock: save_settings (a port, or a field outside
   the model), dismiss_alert, and the clones check_updates and list_databases
   write back. *)
Edited(row) ==
    {row} \cup {[row EXCEPT !.port = p] : p \in Ports}
          \cup {[row EXCEPT !.overdue = FALSE]}

Edit(s) ==
    /\ At(Editor(s), "idle")
    /\ count.edit < MaxEdits
    /\ mem[s] # None
    /\ count' = [count EXCEPT !.edit = @ + 1]
    /\ \E row \in Edited(mem[s]) :
          Becomes(Editor(s), Saves([Idle EXCEPT !.srv = s], row, "idle"))
    /\ UNCHANGED <<mem, db, logs, registry, java, stopReq, timers, startLock, opLock, quitIds>>

EditFails(s) ==
    /\ At(Editor(s), "failed")
    /\ Finish(Editor(s))
    /\ UNCHANGED allButTask

-----------------------------------------------------------------------------
(* Java itself: it begins to listen on its port, and it may exit at any time. *)
JavaListens(n) ==
    /\ java[n].st = "up"
    /\ PortIsFree(java[n].port)
    /\ java' = [java EXCEPT ![n].st = "listening"]
    /\ UNCHANGED <<mem, db, logs, registry, stopReq, timers, startLock, opLock, task,
                   quitIds, count>>

JavaExits(n) ==
    /\ Alive(n)
    /\ java' = Killed(n)
    /\ UNCHANGED <<mem, db, logs, registry, stopReq, timers, startLock, opLock, task,
                   quitIds, count>>

-----------------------------------------------------------------------------
(* The console reader: handle_line and fail_startup. *)

ReadyLine(n) ==
    LET s == task[Reader(n)].srv
    IN  /\ At(Reader(n), "read")
        /\ mem[s] # None
        /\ mem[s].status \in {"starting", "restarting"}
        /\ SaveThen(Reader(n), [mem[s] EXCEPT !.status = "running"], "read")
        /\ UNCHANGED allButTask

FatalLine(n) ==
    LET s == task[Reader(n)].srv
    IN  /\ At(Reader(n), "read")
        /\ mem[s] # None
        /\ mem[s].status = "starting"
        /\ SaveThen(Reader(n), [mem[s] EXCEPT !.status = "crashed"], "kill")
        /\ UNCHANGED allButTask

(* Any line that changes the player count writes the whole record back. *)
PlayerLine(n) ==
    LET s == task[Reader(n)].srv
    IN  /\ At(Reader(n), "read")
        /\ mem[s] # None
        /\ count.edit < MaxEdits
        /\ count' = [count EXCEPT !.edit = @ + 1]
        /\ SaveThen(Reader(n), mem[s], "read")
        /\ UNCHANGED <<mem, db, logs, registry, java, stopReq, timers, startLock, opLock,
                       quitIds>>

(* force_stop by server id: whatever process is registered by now. *)
ReaderKills(n) ==
    LET s == task[Reader(n)].srv
    IN  /\ At(Reader(n), "kill")
        /\ java' = IF registry[s] = None THEN java ELSE Killed(registry[s].n)
        /\ Goto(Reader(n), "read")
        /\ UNCHANGED <<mem, db, logs, registry, stopReq, timers, startLock, opLock,
                       quitIds, count>>

ReaderEnds(n) ==
    /\ At(Reader(n), "read")
    /\ ~ Alive(n)
    /\ Finish(Reader(n))
    /\ UNCHANGED allButTask

-----------------------------------------------------------------------------
(* The readiness probe.  It asks for the server's entry, not its session's. *)

ProbeConnects(n) ==
    LET p == java[n].port
    IN  /\ At(Probe(n), "probe")
        /\ registry[task[Probe(n)].srv] # None
        /\ ~ PortIsFree(p)
        /\ Goto(Probe(n), "hit")
        /\ UNCHANGED allButTask

ProbeReports(n) ==
    LET s == task[Probe(n)].srv
    IN  /\ At(Probe(n), "hit")
        /\ IF mem[s] # None /\ mem[s].status \in {"starting", "restarting"}
           THEN SaveThen(Probe(n), [mem[s] EXCEPT !.status = "running"], "idle")
           ELSE Finish(Probe(n))
        /\ UNCHANGED allButTask

(* The entry is gone, or 120 seconds have passed. *)
ProbeGivesUp(n) ==
    /\ At(Probe(n), "probe")
    /\ Finish(Probe(n))
    /\ UNCHANGED allButTask

-----------------------------------------------------------------------------
(* The exit monitor. *)

MonitorSeesExit(n) ==
    /\ At(Monitor(n), "watch")
    /\ ~ Alive(n)
    /\ Goto(Monitor(n), "join")
    /\ UNCHANGED allButTask

\* Variant: the readers are left to themselves.
MonitorJoinsNobody(n) ==
    /\ At(Monitor(n), "join")
    /\ Goto(Monitor(n), "verdict")
    /\ UNCHANGED allButTask

\* Variant: the entry is removed as soon as Java is gone.
MonitorJoinsAndUnregisters(n) ==
    /\ At(Monitor(n), "join")
    /\ task' = [task EXCEPT ![Monitor(n)].at = "verdict", ![Reader(n)] = Idle]
    /\ registry' = [registry EXCEPT ![task[Monitor(n)].srv] = None]
    /\ UNCHANGED <<mem, db, logs, java, stopReq, timers, startLock, opLock, quitIds, count>>

(* The readers have ended, or are aborted wherever they are after 5 seconds. *)
MonitorJoins(n) ==
    /\ At(Monitor(n), "join")
    /\ task' = [task EXCEPT ![Monitor(n)].at = "verdict", ![Reader(n)] = Idle]
    /\ UNCHANGED allButTask

Graceful(n, row) == n \in stopReq \/ row.status \in {"stopping", "restarting"}

(* The terminal record is published before the slower bookkeeping. *)
MonitorVerdict(n) ==
    LET s == task[Monitor(n)].srv
        ok == Graceful(n, mem[s])
    IN  /\ At(Monitor(n), "verdict")
        /\ IF mem[s] = None THEN Goto(Monitor(n), "unregister")
           ELSE Becomes(Monitor(n),
                    Saves([task[Monitor(n)] EXCEPT !.op = IF ok THEN "clean-stop" ELSE "crashed"],
                          [mem[s] EXCEPT !.status = IF ok THEN "stopped" ELSE "crashed",
                                         !.overdue = FALSE],
                          IF s \in Ephemeral THEN "unregister" ELSE "log"))
        /\ UNCHANGED allButTask

MonitorLogs(n) ==
    LET f == task[Monitor(n)]
    IN  /\ At(Monitor(n), "log")
        /\ logs' = [logs EXCEPT ![f.srv] = @ \cup {<<n, f.op>>}]
        /\ Goto(Monitor(n), "disk")
        /\ UNCHANGED <<mem, db, registry, java, stopReq, timers, startLock, opLock,
                       quitIds, count>>

MonitorMeasuresDisk(n) ==
    LET s == task[Monitor(n)].srv
    IN  /\ At(Monitor(n), "disk")
        /\ IF mem[s] = None THEN Goto(Monitor(n), "unregister")
           ELSE SaveThen(Monitor(n), mem[s], "unregister")
        /\ UNCHANGED allButTask

(* A quick server is deleted, row and folder, after its entry is gone. *)
MonitorUnregisters(n) ==
    LET f == task[Monitor(n)]
    IN  /\ At(Monitor(n), "unregister")
        /\ registry' = [registry EXCEPT ![f.srv] = None]
        /\ IF f.srv \in Ephemeral /\ f.op \in Outcome
           THEN Goto(Monitor(n), "ephRow") ELSE Finish(Monitor(n))
        /\ UNCHANGED <<mem, db, logs, java, stopReq, timers, startLock, opLock, quitIds, count>>

EphemeralRow(n) ==
    LET s == task[Monitor(n)].srv
    IN  /\ At(Monitor(n), "ephRow")
        /\ db' = [db EXCEPT ![s] = None]
        /\ logs' = [logs EXCEPT ![s] = {}]
        /\ Goto(Monitor(n), "ephMem")
        /\ UNCHANGED <<mem, registry, java, stopReq, timers, startLock, opLock, quitIds, count>>

EphemeralMem(n) ==
    /\ At(Monitor(n), "ephMem")
    /\ mem' = [mem EXCEPT ![task[Monitor(n)].srv] = None]
    /\ Finish(Monitor(n))
    /\ UNCHANGED <<db, logs, registry, java, stopReq, timers, startLock, opLock, quitIds, count>>

-----------------------------------------------------------------------------
(* quit_application(force = false), the end of the application, and the next
   launch. *)

QuitBegins ==
    /\ At(Quit, "idle")
    /\ count.quit < MaxQuits
    /\ count' = [count EXCEPT !.quit = @ + 1]
    /\ quitIds' = {s \in Servers : registry[s] # None}
    /\ Becomes(Quit, QuitNextFrame)
    /\ UNCHANGED <<mem, db, logs, registry, java, stopReq, timers, startLock, opLock>>

QuitStops(s) ==
    /\ At(Quit, "quitNext")
    /\ s \in quitIds
    /\ quitIds' = quitIds \ {s}
    /\ Becomes(Quit, [task[Quit] EXCEPT !.at = "stop", !.srv = s])
    /\ UNCHANGED <<mem, db, logs, registry, java, stopReq, timers, startLock, opLock, count>>

(* stop_all ignores the error of a single stop. *)
QuitStopFailed ==
    /\ At(Quit, "failed")
    /\ Becomes(Quit, QuitNextFrame)
    /\ UNCHANGED allButTask

QuitWaits ==
    /\ At(Quit, "quitNext")
    /\ quitIds = {}
    /\ Goto(Quit, "quitWait")
    /\ UNCHANGED allButTask

\* Variant: quitting does not wait for the servers it stopped.
QuitSeesAnything ==
    /\ At(Quit, "quitWait")
    /\ Goto(Quit, "exit")
    /\ UNCHANGED allButTask

(* stop_all returns and the application exits; a start may go on in between. *)
QuitSeesEmpty ==
    /\ At(Quit, "quitWait")
    /\ \A s \in Servers : registry[s] = None
    /\ Goto(Quit, "exit")
    /\ UNCHANGED allButTask

QuitGivesUp ==
    /\ At(Quit, "quitWait")
    /\ Finish(Quit)
    /\ UNCHANGED allButTask

(* The application ends, by quit_application or by dying: every task is gone,
   and the job object takes the Java processes assigned to it along.  The next
   launch loads the rows, drops quick servers and settles every status. *)
Loaded(row) ==
    [row EXCEPT !.status = IF @ = "crashed" THEN @ ELSE "stopped",
                !.overdue = FALSE]
NextLaunch ==
    /\ mem' = [s \in Servers |-> IF db[s] = None \/ s \in Ephemeral THEN None ELSE Loaded(db[s])]
    /\ db' = mem'
    /\ logs' = [s \in Servers |-> IF s \in Ephemeral THEN {} ELSE logs[s]]
    /\ registry' = [s \in Servers |-> None]
    /\ java' = [n \in Sessions |->
                  IF java[n].inJob /\ Alive(n) THEN [java[n] EXCEPT !.st = "dead"] ELSE java[n]]
    /\ timers' = [n \in Sessions |-> 0]
    /\ startLock' = None
    /\ opLock' = [s \in Servers |-> None]
    /\ task' = [t \in Tasks |-> Idle]
    /\ quitIds' = {}
    /\ count.launch < MaxLaunches
    /\ count' = [count EXCEPT !.launch = @ + 1]
    /\ UNCHANGED stopReq

QuitExits == At(Quit, "exit") /\ NextLaunch
AppDies == NextLaunch

-----------------------------------------------------------------------------
CommandStep(c) ==
    \/ \E s \in Servers, op \in {"start", "stop", "forceStop", "restart", "remove"} :
          BeginCommand(c, s, op)
    \/ StartAccepted(c) \/ StartRefused(c) \/ StartSpawn(c) \/ SpawnFails(c)
    \/ AssignJob(c) \/ JobAssignFails(c) \/ Register(c) \/ Started(c) \/ ForceStop(c) \/ Restart(c) \/ AwaitExit(c)
    \/ Remove(c) \/ RemoveWait(c) \/ RemoveRow(c) \/ RecycleFails(c) \/ RemoveMem(c)
    \/ CommandFails(c)
StopStep(t) == StopRefused(t) \/ StopRequest(t) \/ StopWritten(t) \/ StopWriteFails(t)
SaveStep(t) == SaveDb(t) \/ SaveDbFails(t) \/ SaveMem(t)
ReaderStep(n) ==
    ReadyLine(n) \/ FatalLine(n) \/ PlayerLine(n) \/ ReaderKills(n) \/ ReaderEnds(n)
MonitorStep(n) ==
    \/ MonitorSeesExit(n) \/ MonitorJoins(n) \/ MonitorVerdict(n) \/ MonitorLogs(n)
    \/ MonitorMeasuresDisk(n) \/ MonitorUnregisters(n) \/ EphemeralRow(n) \/ EphemeralMem(n)
ProbeStep(n) == ProbeConnects(n) \/ ProbeReports(n) \/ ProbeGivesUp(n)
QuitStep ==
    \/ QuitBegins \/ (\E s \in Servers : QuitStops(s)) \/ QuitStopFailed \/ QuitWaits
    \/ QuitGivesUp \/ QuitSeesEmpty \/ QuitExits

Next ==
    \/ \E c \in Clients : CommandStep(c)
    \/ \E t \in Tasks : SaveStep(t) \/ StopStep(t)
    \/ \E s \in Servers : Edit(s) \/ EditFails(s)
    \/ \E n \in Sessions :
          \/ JavaListens(n) \/ JavaExits(n) \/ ReaderStep(n) \/ MonitorStep(n)
          \/ ProbeStep(n) \/ TimerFires(n)
    \/ QuitStep
    \/ AppDies

Spec == Init /\ [][Next]_vars

(* The runtime keeps running the tasks that can go on; users, Java and
   failures are free. *)
GoesOn(t) == SaveDb(t) \/ SaveMem(t) \/ StopStep(t)
CommandGoesOn(c) ==
    \/ GoesOn(Cmd(c)) \/ StartSpawn(c) \/ SpawnFails(c) \/ AssignJob(c) \/ JobAssignFails(c)
    \/ Register(c) \/ Started(c) \/ ForceStop(c) \/ Restart(c) \/ AwaitExit(c) \/ Remove(c) \/ RemoveWait(c)
    \/ RemoveRow(c) \/ RecycleFails(c) \/ RemoveMem(c) \/ CommandFails(c)
Fairness ==
    /\ \A c \in Clients :
          /\ SF_vars(StartAccepted(c) \/ StartRefused(c))   \* the mutex is FIFO
          /\ WF_vars(CommandGoesOn(c))
    /\ \A n \in Sessions :
          /\ WF_vars(MonitorStep(n) \/ GoesOn(Monitor(n)))
          /\ WF_vars(ReaderKills(n) \/ GoesOn(Reader(n)))
FairSpec == Spec /\ Fairness

-----------------------------------------------------------------------------
(* Safety *)

\* Java runs in the job object: it dies with the application.
LooksAfter(n) == java[n].inJob /\ Alive(n)

\* A start has spawned the session and waits for the registry.
HasSpawned(c, n) == At(Cmd(c), "insert") /\ task[Cmd(c)].n = n

\* Two servers in the registry never hold the same port, so a second server
\* cannot be started on a port the first has reserved (process.rs, start:
\* "Serialize startup so the process registry can reserve a port").
PortsReserved ==
    \A s, o \in Servers :
        s # o /\ registry[s] # None /\ registry[o] # None => registry[s].port # registry[o].port

\* A server never has two Java processes that Nooki looks after, whatever
\* starts, restarts, crashes and removals overlap.
OneJavaPerServer ==
    \A m, n \in Sessions :
        /\ LooksAfter(m) /\ LooksAfter(n)
        /\ java[m].srv = java[n].srv
        => m = n

\* Until its bookkeeping is done a monitor's session stays the registered one
\* (process.rs: "Keep the entry until all exit bookkeeping is done").
MonitorOwnsEntry ==
    \A n \in Sessions :
        LET f == task[Monitor(n)]
        IN  f.at \notin {"idle", "ephRow", "ephMem"} =>
                registry[f.srv] # None /\ registry[f.srv].n = n

\* A session row is never written for a server whose row is gone, so removing
\* a server leaves no log sessions behind.
LogsHaveServer == \A s \in Servers : logs[s] # {} => db[s] # None

\* fail_startup kills by server id; the process it finds is the one whose
\* console printed the fatal line, never a later session's.
FatalLineKillsOwnSession ==
    \A n \in Sessions :
        LET e == registry[task[Reader(n)].srv]
        IN  At(Reader(n), "kill") /\ e # None => e.n = n

\* When an orderly quit has waited, the job object is left with no Java process but
\* one whose start has spawned it and has still to register it: every server that
\* was registered has ended, whatever stops, exits and failing writes it met
\* (README: "it saves each world and stops your servers safely first").
QuitWaitsForServers ==
    [][QuitSeesEmpty =>
        \A n \in Sessions : LooksAfter(n) => \E c \in Clients : HasSpawned(c, n)]_vars

-----------------------------------------------------------------------------
(* Why the safety properties hold: the inductive invariant.  The operation
   lock makes a server's command the only one, the start lock makes the command
   that starts a session the only one, and a monitor's entry stays until the
   monitor itself removes it. *)

Saving(t) == task[t].at \in {"saveDb", "saveMem"}
Starting(c) ==
    \/ task[Cmd(c)].at \in {"spawn", "assign", "insert", "started"}
    \/ Saving(Cmd(c)) /\ task[Cmd(c)].then = "started"
Begins(c) == Starting(c) /\ task[Cmd(c)].at \notin {"spawn", "assign", "insert"}
Watches(n) == task[Monitor(n)].at \notin {"idle", "ephRow", "ephMem"}

AfterSave(t) == CASE t[1] = "cmd" -> {"started", "stop", "stopWrite"}
                  [] t[1] = "monitor" -> {"log", "unregister"}
                  [] t[1] = "quit" -> {"stopWrite"}
                  [] OTHER -> {"idle", "read", "kill"}

\* A task is at a label of its kind, at work it has a server, and when it saves
\* it has a record to save.
FrameOK(t, frame) ==
    /\ frame \in Frame
    /\ frame.at \in LabelsOf(t)
    /\ frame.at \notin {"idle", "quitNext", "quitWait", "exit"} => frame.srv \in Servers
    /\ frame.at \in {"saveDb", "saveMem"} => frame.row \in Row /\ frame.then \in AfterSave(t)
FramesOK == \A t \in Tasks : FrameOK(t, task[t])

\* Sessions are numbered in the order Java was spawned.
SessionsNumbered ==
    /\ \A n \in Sessions :
          IF n <= count.session
          THEN java[n].srv \in Servers
          ELSE java[n].st = "none" /\ timers[n] = 0 /\ At(Monitor(n), "idle")
    /\ \A s \in Servers : registry[s] # None => registry[s].n <= count.session

\* A command at work holds its server's operation lock, and the start lock too
\* from the moment it is free to spawn Java until its session is recorded.
LocksHeld ==
    \A c \in Clients :
        /\ ~ At(Cmd(c), "idle") => opLock[task[Cmd(c)].srv] = c
        /\ Starting(c) => startLock = c

\* What start checked under the lock is still so when it spawns Java, and its
\* session stays the registered one until its monitor runs.
StartKeepsChecks ==
    \A c \in Clients :
        LET f == task[Cmd(c)]
        IN  /\ f.at \in {"spawn", "assign", "insert"} =>
                 /\ f.row \in Row
                 /\ registry[f.srv] = None
                 /\ \A o \in Servers : registry[o] # None => registry[o].port # f.row.port
            /\ f.at = "spawn" => count.session < MaxSessions
            /\ Starting(c) /\ f.at # "spawn" =>
                 /\ f.n \in Sessions /\ f.n <= count.session
                 /\ java[f.n].srv = f.srv
                 /\ At(Monitor(f.n), "idle")
            /\ Begins(c) => registry[f.srv] # None /\ registry[f.srv].n = f.n

\* A row is removed only while nothing runs, and a watched server has its row.
RowsKept ==
    /\ \A c \in Clients :
          /\ task[Cmd(c)].at \in {"removeRow", "removeMem"} => registry[task[Cmd(c)].srv] = None
          /\ Starting(c) /\ task[Cmd(c)].at \in {"saveMem", "started"}
                /\ task[Cmd(c)].srv \notin Ephemeral => db[task[Cmd(c)].srv] # None
    /\ \A n \in Sessions :
          LET f == task[Monitor(n)]
          IN  /\ Watches(n) /\ f.srv \notin Ephemeral => db[f.srv] # None
              /\ f.at \in {"ephRow", "ephMem"} => f.srv \in Ephemeral
              /\ f.at = "log" \/ (Saving(Monitor(n)) /\ f.then = "log") =>
                    f.srv \notin Ephemeral /\ f.op \in Outcome

IInv ==
    /\ TypeOK /\ FramesOK /\ SessionsNumbered /\ LocksHeld
    /\ StartKeepsChecks /\ RowsKept /\ PortsReserved /\ MonitorOwnsEntry /\ LogsHaveServer

(* What holds of sessions beside IInv: each rests on a session's monitor outliving
   what it watches. *)

\* The Java processes Nooki looks after are the registered ones, and the one a start
\* has spawned and is about to register.
JavaIsRegistered ==
    \A n \in Sessions : LooksAfter(n) =>
        \/ LET e == registry[java[n].srv] IN e # None /\ e.n = n
        \/ \E c \in Clients : HasSpawned(c, n)

\* A monitor goes on from its watch only when its session's Java is dead.
WatchedTillExit ==
    \A n \in Sessions : task[Monitor(n)].at \notin {"idle", "watch"} => ~ Alive(n)

\* A reader at work has a monitor of its server that has still to join it.
ReaderIsJoined ==
    \A n \in Sessions : ~ At(Reader(n), "idle") =>
        /\ task[Monitor(n)].at \in {"watch", "join"}
        /\ task[Reader(n)].srv = task[Monitor(n)].srv

\* Only a process that was spawned is in the job object, and a start puts its own there
\* once.
JobsAreSpawned ==
    /\ \A n \in Sessions : java[n].inJob => n <= count.session
    /\ \A c \in Clients : At(Cmd(c), "assign") => ~ java[task[Cmd(c)].n].inJob

SessionInv == JavaIsRegistered /\ WatchedTillExit /\ ReaderIsJoined /\ JobsAreSpawned

\* A lock that is taken has its command at work, on that server: no path through a
\* command, a failing one either, returns with a lock.
LocksHaveHolders ==
    /\ startLock # None => ~ At(Cmd(startLock), "idle")
    /\ \A s \in Servers : opLock[s] # None =>
          ~ At(Cmd(opLock[s]), "idle") /\ task[Cmd(opLock[s])].srv = s

\* While no write has failed every entry has somebody who will take it away: the
\* monitor of its session, or the start that is about to begin one.
EntriesAreWatched ==
    count.dbFailure = 0 =>
        \A s \in Servers : registry[s] # None =>
            \/ Watches(registry[s].n)
            \/ \E c \in Clients : Begins(c) /\ task[Cmd(c)].n = registry[s].n

(* What the process manager promises, by the processes it looks after. *)
Life == INSTANCE ServerLife WITH
            entry <- registry,
            live <- {n \in Sessions : LooksAfter(n)},
            starting <- {n \in Sessions : \E c \in Clients : HasSpawned(c, n)},
            used <- {n \in Sessions : java[n].inJob}
\* The process manager keeps its promise: a server has one process at most, a
\* process a port of its own, and an entry goes only when its Java has ended.
ServerLifeSpec == Life!Spec

-----------------------------------------------------------------------------
(* Liveness *)

Registered(n) == \E s \in Servers : registry[s] # None /\ registry[s].n = n

\* A watched session whose Java process is gone leaves the registry, also when
\* writes to the database fail on the way.
ExitIsNoticed ==
    \A n \in Sessions :
        (At(Monitor(n), "watch") /\ ~ Alive(n)) ~> ~ Registered(n)

\* A command gives its locks back: no start, restart or removal blocks the
\* server, or every other start, for good.
HoldsNothing(c) == startLock # c /\ \A s \in Servers : opLock[s] # c
LocksAreReleased == \A c \in Clients : ~ HoldsNothing(c) ~> HoldsNothing(c)
=============================================================================
