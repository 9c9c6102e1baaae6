----------------------- MODULE ServerLifecycle_proofs -----------------------
(***************************************************************************)
(* The safety of ServerLifecycle for every set of servers, ports and       *)
(* clients and every bound: IInv is an inductive invariant, SessionInv is  *)
(* one beside it, and the process manager implements ServerLife.           *)
(***************************************************************************)
EXTENDS ServerLifecycle, TLAPS

-----------------------------------------------------------------------------
(* Tasks and their frames. *)

(* A task's name tells its kind and whose it is. *)
LEMMA TaskNames ==
    /\ \A c \in Clients : Cmd(c) \in Tasks
    /\ \A s \in Servers : Editor(s) \in Tasks
    /\ \A n \in Sessions : /\ Reader(n) \in Tasks /\ Monitor(n) \in Tasks
                           /\ Probe(n) \in Tasks /\ Timer(n) \in Tasks
    /\ Quit \in Tasks
    /\ \A c, d : Cmd(c) = Cmd(d) => c = d
    /\ \A n, m : Monitor(n) = Monitor(m) => n = m
BY DEF Tasks, Cmd, Editor, Reader, Monitor, Probe, Timer, Quit

LEMMA TaskKinds ==
    /\ \A c, n : Cmd(c) # Monitor(n)
    /\ \A x, n : /\ Cmd(n) # Reader(x) /\ Cmd(n) # Probe(x) /\ Cmd(n) # Timer(x) /\ Cmd(n) # Editor(x)
                 /\ Cmd(n) # Quit
                 /\ Monitor(n) # Reader(x) /\ Monitor(n) # Probe(x) /\ Monitor(n) # Timer(x)
                 /\ Monitor(n) # Editor(x) /\ Monitor(n) # Quit
    /\ \A x : Reader(x) # Quit /\ Probe(x) # Quit /\ Timer(x) # Quit /\ Editor(x) # Quit
BY DEF Cmd, Editor, Reader, Monitor, Probe, Timer, Quit

LEMMA TaskLabels ==
    /\ \A c : LabelsOf(Cmd(c)) = CmdLabels /\ AfterSave(Cmd(c)) = {"started", "stop", "stopWrite"}
    /\ \A n : LabelsOf(Monitor(n)) = MonitorLabels /\ AfterSave(Monitor(n)) = {"log", "unregister"}
    /\ LabelsOf(Quit) = QuitLabels /\ AfterSave(Quit) = {"stopWrite"}
    /\ \A x : /\ LabelsOf(Reader(x)) = HelperLabels /\ LabelsOf(Probe(x)) = HelperLabels
              /\ LabelsOf(Timer(x)) = HelperLabels /\ LabelsOf(Editor(x)) = HelperLabels
              /\ AfterSave(Reader(x)) = {"idle", "read", "kill"}
              /\ AfterSave(Probe(x)) = {"idle", "read", "kill"}
              /\ AfterSave(Timer(x)) = {"idle", "read", "kill"}
              /\ AfterSave(Editor(x)) = {"idle", "read", "kill"}
BY DEF LabelsOf, AfterSave, Cmd, Editor, Reader, Monitor, Probe, Timer, Quit

(* Whatever its kind, a task can save, go on after a save and rest. *)
LEMMA CommonLabels ==
    ASSUME NEW t \in Tasks
    PROVE  /\ {"idle", "saveDb", "saveMem"} \subseteq LabelsOf(t)
           /\ LabelsOf(t) \subseteq Labels
           /\ AfterSave(t) \subseteq LabelsOf(t) \ {"saveDb", "saveMem", "quitNext", "quitWait", "exit"}
           /\ Propagates(t) => "failed" \in LabelsOf(t)
           /\ ~ Propagates(t) => \A c : t # Cmd(c)
           /\ Propagates(t) => \A n : t # Monitor(n)
BY DEF LabelsOf, AfterSave, Propagates, Cmd, Monitor, Labels,
       CmdLabels, MonitorLabels, QuitLabels, HelperLabels, SaveLabels

LEMMA IdleFrame == \A t \in Tasks : FrameOK(t, Idle)
<1> SUFFICES ASSUME NEW t \in Tasks PROVE FrameOK(t, Idle)
    OBVIOUS
<1> "idle" \in LabelsOf(t) /\ "idle" \in Labels BY CommonLabels
<1> QED BY DEF FrameOK, Idle, Frame

(* One task moves, every other keeps its frame. *)
LEMMA Moves ==
    ASSUME FramesOK, task \in [Tasks -> Frame],
           NEW t \in Tasks, NEW frame, FrameOK(t, frame), Becomes(t, frame)
    PROVE  /\ task' \in [Tasks -> Frame] /\ FramesOK'
           /\ task'[t] = frame
           /\ \A u \in Tasks : u # t => task'[u] = task[u]
<1>1. frame \in Frame BY DEF FrameOK
<1>2. task' = [task EXCEPT ![t] = frame] BY DEF Becomes
<1>3. \A u \in Tasks : FrameOK(u, task'[u]) BY <1>2 DEF FramesOK
<1> QED BY <1>1, <1>2, <1>3 DEF FramesOK, FrameOK

(* The frames a task moves to: another label, a save, the end of a save. *)
LEMMA GoesTo ==
    ASSUME NEW t \in Tasks, NEW f, FrameOK(t, f), NEW l \in LabelsOf(t) \ {"saveDb", "saveMem"},
           f.srv \in Servers
    PROVE  LET g == [f EXCEPT !.at = l]
           IN  /\ FrameOK(t, g) /\ g.at = l /\ g.srv = f.srv /\ g.n = f.n /\ g.op = f.op
               /\ g.row = f.row /\ g.then = f.then
BY CommonLabels DEF FrameOK, Frame

LEMMA SavesFrame ==
    ASSUME NEW t \in Tasks, NEW f \in Frame, f.srv \in Servers, NEW row \in Row,
           NEW l \in AfterSave(t)
    PROVE  LET g == Saves(f, row, l)
           IN  /\ FrameOK(t, g) /\ g.at = "saveDb" /\ g.srv = f.srv /\ g.n = f.n /\ g.op = f.op
               /\ g.row = row /\ g.then = l
BY CommonLabels DEF FrameOK, Frame, Saves

LEMMA ResumedFrame ==
    ASSUME NEW t \in Tasks, NEW f, FrameOK(t, f), f.at \in {"saveDb", "saveMem"}
    PROVE  LET g == Resumed(f)
           IN  /\ FrameOK(t, g) /\ g.at = f.then
               /\ f.then # "idle" => g.srv = f.srv /\ g.n = f.n /\ g.op = f.op /\ g.then = "idle"
<1>1. "idle" \in LabelsOf(t) /\ "idle" \in Labels
    BY CommonLabels
<1>2. CASE f.then = "idle" BY <1>2, IdleFrame DEF Resumed, Idle
<1>3. CASE f.then # "idle" BY <1>1, <1>3, CommonLabels DEF FrameOK, Frame, Resumed
<1> QED BY <1>2, <1>3

-----------------------------------------------------------------------------
(* What a step leaves alone.  The rest of the invariant looks at the frames of
   commands and monitors only, so most steps fall under one of the lemmas of
   this section. *)

CmdsKept == \A c \in Clients : task'[Cmd(c)] = task[Cmd(c)]
MonitorsKept == \A n \in Sessions : task'[Monitor(n)] = task[Monitor(n)]
RowsStay == \A s \in Servers : db[s] # None => db'[s] # None
SharedKept == UNCHANGED <<logs, registry, startLock, opLock>> /\ count'.session = count.session
JavaKept ==
    \A n \in Sessions :
        /\ n <= count.session => java'[n].srv = java[n].srv
        /\ n > count.session => java'[n].st = "none" /\ timers'[n] = 0
Rest ==
    /\ SessionsNumbered /\ LocksHeld /\ StartKeepsChecks /\ RowsKept
    /\ PortsReserved /\ MonitorOwnsEntry /\ LogsHaveServer

(* What the invariant says of every command and every monitor. *)
LEMMA AtWork ==
    ASSUME IInv
    PROVE  /\ count.session \in Nat
           /\ task \in [Tasks -> Frame] /\ FramesOK
           /\ \A c \in Clients : /\ task[Cmd(c)] \in Frame /\ FrameOK(Cmd(c), task[Cmd(c)])
                                 /\ task[Cmd(c)].at \in CmdLabels
                                 /\ ~ At(Cmd(c), "idle") => task[Cmd(c)].srv \in Servers
           /\ \A n \in Sessions : /\ task[Monitor(n)] \in Frame /\ FrameOK(Monitor(n), task[Monitor(n)])
                                  /\ task[Monitor(n)].at \in MonitorLabels
                                  /\ ~ At(Monitor(n), "idle") => task[Monitor(n)].srv \in Servers
<1> USE TaskNames, TaskLabels DEF IInv
<1>1. count.session \in Nat BY BoundsAssumption DEF TypeOK
<1>2. task \in [Tasks -> Frame] /\ FramesOK BY DEF TypeOK
<1>3. ASSUME NEW c \in Clients
      PROVE  /\ task[Cmd(c)] \in Frame /\ FrameOK(Cmd(c), task[Cmd(c)])
             /\ task[Cmd(c)].at \in CmdLabels
             /\ ~ At(Cmd(c), "idle") => task[Cmd(c)].srv \in Servers
    BY <1>2 DEF FramesOK, FrameOK, At, CmdLabels, SaveLabels
<1>4. ASSUME NEW n \in Sessions
      PROVE  /\ task[Monitor(n)] \in Frame /\ FrameOK(Monitor(n), task[Monitor(n)])
             /\ task[Monitor(n)].at \in MonitorLabels
             /\ ~ At(Monitor(n), "idle") => task[Monitor(n)].srv \in Servers
    BY <1>2 DEF FramesOK, FrameOK, At, MonitorLabels
<1> QED BY <1>1, <1>2, <1>3, <1>4

(* A reader, probe, timer, editor or quit moves. *)
LEMMA Bystander ==
    ASSUME IInv, CmdsKept, MonitorsKept, RowsStay, SharedKept, JavaKept
    PROVE  Rest'
<1> USE AtWork DEF IInv, CmdsKept, MonitorsKept, SharedKept
<1>1. SessionsNumbered' BY DEF SessionsNumbered, JavaKept, At, Sessions
<1>2. LocksHeld' BY DEF LocksHeld, Starting, Saving, At
<1>3. StartKeepsChecks' BY DEF StartKeepsChecks, Begins, Starting, Saving, At, JavaKept
<1>4. RowsKept' BY DEF RowsKept, RowsStay, Starting, Saving, Watches, At
<1>5. PortsReserved' BY DEF PortsReserved
<1>6. MonitorOwnsEntry' BY DEF MonitorOwnsEntry
<1>7. LogsHaveServer' BY DEF LogsHaveServer, RowsStay
<1> QED BY <1>1, <1>2, <1>3, <1>4, <1>5, <1>6, <1>7 DEF Rest

OtherCmdsKept(c) == \A d \in Clients : d # c => task'[Cmd(d)] = task[Cmd(d)]
OtherMonitorsKept(n) == \A m \in Sessions : m # n => task'[Monitor(m)] = task[Monitor(m)]

(* A command that is not starting a session moves on. *)
LEMMA CommandMoves ==
    ASSUME IInv, NEW c \in Clients, OtherCmdsKept(c), MonitorsKept, RowsStay, SharedKept, JavaKept,
           ~ At(Cmd(c), "idle"), ~ Starting(c)', task'[Cmd(c)].srv = task[Cmd(c)].srv,
           task'[Cmd(c)].at \in {"removeRow", "removeMem"} => registry[task[Cmd(c)].srv] = None
    PROVE  Rest'
<1> USE AtWork DEF IInv, OtherCmdsKept, MonitorsKept, SharedKept
<1>1. SessionsNumbered' BY DEF SessionsNumbered, JavaKept, At, Sessions
<1>2. LocksHeld' BY DEF LocksHeld, Starting, Saving, At
<1>3. StartKeepsChecks' BY DEF StartKeepsChecks, Begins, Starting, Saving, At, JavaKept
<1>4. RowsKept' BY DEF RowsKept, RowsStay, Starting, Saving, Watches, At
<1>5. PortsReserved' BY DEF PortsReserved
<1>6. MonitorOwnsEntry' BY DEF MonitorOwnsEntry
<1>7. LogsHaveServer' BY DEF LogsHaveServer, RowsStay
<1> QED BY <1>1, <1>2, <1>3, <1>4, <1>5, <1>6, <1>7 DEF Rest

(* A command returns. *)
LEMMA CommandReturns ==
    ASSUME IInv, NEW c \in Clients, OtherCmdsKept(c), MonitorsKept, RowsStay, JavaKept,
           ~ At(Cmd(c), "idle"), task'[Cmd(c)].at = "idle",
           UNCHANGED <<logs, registry>>, count'.session = count.session,
           opLock' = [opLock EXCEPT ![task[Cmd(c)].srv] = None],
           startLock' = IF startLock = c THEN None ELSE startLock
    PROVE  Rest'
<1> USE AtWork, SetsAssumption DEF IInv, OtherCmdsKept, MonitorsKept
<1>1. SessionsNumbered' BY DEF SessionsNumbered, JavaKept, At, Sessions
<1>2. LocksHeld' BY DEF LocksHeld, Starting, Saving, At, TypeOK
<1>3. StartKeepsChecks' BY DEF StartKeepsChecks, Begins, Starting, Saving, At, JavaKept
<1>4. RowsKept' BY DEF RowsKept, RowsStay, Starting, Saving, Watches, At
<1>5. PortsReserved' BY DEF PortsReserved
<1>6. MonitorOwnsEntry' BY DEF MonitorOwnsEntry
<1>7. LogsHaveServer' BY DEF LogsHaveServer, RowsStay
<1> QED BY <1>1, <1>2, <1>3, <1>4, <1>5, <1>6, <1>7 DEF Rest

(* A monitor that keeps its entry moves on. *)
LEMMA MonitorMoves ==
    ASSUME IInv, NEW n \in Sessions, OtherMonitorsKept(n), CmdsKept, RowsStay, SharedKept, JavaKept,
           Watches(n), Watches(n)', task'[Monitor(n)].srv = task[Monitor(n)].srv,
           task'[Monitor(n)].at = "log" \/ (Saving(Monitor(n))' /\ task'[Monitor(n)].then = "log") =>
               task[Monitor(n)].srv \notin Ephemeral /\ task'[Monitor(n)].op \in Outcome
    PROVE  Rest'
<1> USE AtWork DEF IInv, OtherMonitorsKept, CmdsKept, SharedKept
<1>1. SessionsNumbered' BY DEF SessionsNumbered, JavaKept, At, Sessions, Watches
<1>2. LocksHeld' BY DEF LocksHeld, Starting, Saving, At
<1>3. StartKeepsChecks' BY DEF StartKeepsChecks, Begins, Starting, Saving, At, JavaKept, Watches
<1>4. RowsKept' BY DEF RowsKept, RowsStay, Starting, Saving, Watches, At
<1>5. PortsReserved' BY DEF PortsReserved
<1>6. MonitorOwnsEntry' BY DEF MonitorOwnsEntry, Watches
<1>7. LogsHaveServer' BY DEF LogsHaveServer, RowsStay
<1> QED BY <1>1, <1>2, <1>3, <1>4, <1>5, <1>6, <1>7 DEF Rest

(* A command records the session it has started. *)
LEMMA StartMoves ==
    ASSUME IInv, NEW c \in Clients, OtherCmdsKept(c), MonitorsKept, RowsStay, SharedKept, JavaKept,
           Begins(c), Begins(c)',
           task'[Cmd(c)].srv = task[Cmd(c)].srv, task'[Cmd(c)].n = task[Cmd(c)].n,
           task'[Cmd(c)].at \in {"saveMem", "started"} /\ task[Cmd(c)].srv \notin Ephemeral =>
               db'[task[Cmd(c)].srv] # None
    PROVE  Rest'
<1> USE AtWork DEF IInv, OtherCmdsKept, MonitorsKept, SharedKept
<1>1. SessionsNumbered' BY DEF SessionsNumbered, JavaKept, At, Sessions
<1>2. LocksHeld' BY DEF LocksHeld, Begins, Starting, Saving, At
<1>3. StartKeepsChecks' BY DEF StartKeepsChecks, Begins, Starting, Saving, At, JavaKept
<1>4. RowsKept' BY DEF RowsKept, RowsStay, Begins, Starting, Saving, Watches, At
<1>5. PortsReserved' BY DEF PortsReserved
<1>6. MonitorOwnsEntry' BY DEF MonitorOwnsEntry
<1>7. LogsHaveServer' BY DEF LogsHaveServer, RowsStay
<1> QED BY <1>1, <1>2, <1>3, <1>4, <1>5, <1>6, <1>7 DEF Rest

-----------------------------------------------------------------------------
(* Steps every task shares. *)

LEMMA OnlyTaskTyped ==
    ASSUME TypeOK, task' \in [Tasks -> Frame], UNCHANGED allButTask PROVE TypeOK'
BY DEF TypeOK, allButTask

(* Every other command and monitor keeps its frame when t moves. *)
LEMMA OthersKept ==
    ASSUME NEW t \in Tasks, \A u \in Tasks : u # t => task'[u] = task[u]
    PROVE  /\ \A c \in Clients : t = Cmd(c) => OtherCmdsKept(c) /\ MonitorsKept
           /\ \A n \in Sessions : t = Monitor(n) => OtherMonitorsKept(n) /\ CmdsKept
           /\ (\A c \in Clients : t # Cmd(c)) => CmdsKept
           /\ (\A n \in Sessions : t # Monitor(n)) => MonitorsKept
BY TaskNames, TaskKinds DEF OtherCmdsKept, OtherMonitorsKept, CmdsKept, MonitorsKept

(* save_server, whoever saves: from the database to memory, or to the error, or
   on to what follows. *)
LEMMA SaveStepKeeps ==
    ASSUME IInv, NEW t \in Tasks, Saving(t), NEW g, FrameOK(t, g), Becomes(t, g),
           \/ g.at = "saveMem" /\ g.then = task[t].then /\ db'[task[t].srv] # None
           \/ g.at = "failed" /\ Propagates(t)
           \/ g.at = task[t].then /\ (Propagates(t) => At(t, "saveMem")),
           g.at # "idle" => g.srv = task[t].srv /\ g.n = task[t].n /\ g.op = task[t].op,
           RowsStay, SharedKept, JavaKept,
           task' \in [Tasks -> Frame] => TypeOK'
    PROVE  IInv'
<1> DEFINE f == task[t]
<1>1. FrameOK(t, f) /\ f.at \in {"saveDb", "saveMem"} /\ f.srv \in Servers /\ f.then \in AfterSave(t)
    BY AtWork DEF FramesOK, FrameOK, Saving
<1>2. /\ task' \in [Tasks -> Frame] /\ FramesOK' /\ task'[t] = g
      /\ \A u \in Tasks : u # t => task'[u] = task[u]
    BY Moves, AtWork
<1>3. SUFFICES Rest'
    BY <1>2 DEF IInv, Rest
<1>4. CASE \E c \in Clients : t = Cmd(c)
    <2> PICK c \in Clients : t = Cmd(c) BY <1>4
    <2>1. OtherCmdsKept(c) /\ MonitorsKept BY <1>2, OthersKept
    <2>2. Propagates(t) /\ f.then \in {"started", "stop", "stopWrite"}
        BY <1>1, TaskLabels, CommonLabels
    <2>3. CASE f.then = "started" /\ g.at # "failed"
        <3>1. Begins(c) /\ Begins(c)'
            BY <1>1, <1>2, <2>2, <2>3 DEF Begins, Starting, Saving, At
        <3>2. g.at \in {"saveMem", "started"} /\ f.srv \notin Ephemeral => db'[f.srv] # None
            BY <1>1, <2>2, <2>3, <3>1 DEF IInv, RowsKept, RowsStay, Begins, At
        <3> QED BY <1>1, <1>2, <2>1, <2>2, <2>3, <3>1, <3>2, StartMoves
    <2>4. CASE f.then # "started" \/ g.at = "failed"
        BY <1>1, <1>2, <2>1, <2>2, <2>4, CommandMoves DEF Starting, Saving, At
    <2> QED BY <2>3, <2>4
<1>5. CASE \E n \in Sessions : t = Monitor(n)
    <2> PICK n \in Sessions : t = Monitor(n) BY <1>5
    <2>1. OtherMonitorsKept(n) /\ CmdsKept BY <1>2, OthersKept
    <2>2. ~ Propagates(t) /\ f.then \in {"log", "unregister"}
        BY <1>1, TaskLabels, CommonLabels
    <2>3. f.then = "log" => f.srv \notin Ephemeral /\ f.op \in Outcome
        BY DEF IInv, RowsKept
    <2>4. Watches(n) /\ Watches(n)' /\ g.srv = f.srv /\ g.op = f.op
        BY <1>1, <1>2, <2>2 DEF Watches
    <2> QED BY <1>2, <2>1, <2>2, <2>3, <2>4, MonitorMoves DEF Saving
<1>6. CASE (\A c \in Clients : t # Cmd(c)) /\ (\A n \in Sessions : t # Monitor(n))
    BY <1>2, <1>6, OthersKept, Bystander
<1> QED BY <1>4, <1>5, <1>6

LEMMA SaveDbKeeps == ASSUME IInv, NEW t \in Tasks, SaveDb(t) PROVE IInv'
<1> DEFINE f == task[t]
           g == [f EXCEPT !.at = "saveMem"]
<1>1. f.at = "saveDb" /\ FrameOK(t, f) /\ f.row \in Row /\ f.row # None /\ f.srv \in Servers
    BY AtWork, NoneAssumption DEF FramesOK, FrameOK, SaveDb, At
<1>2. FrameOK(t, g) /\ g.at = "saveMem" /\ g.srv = f.srv /\ g.n = f.n /\ g.op = f.op /\ g.then = f.then
    BY <1>1, CommonLabels DEF FrameOK, Frame
<1>3. RowsStay /\ SharedKept /\ JavaKept /\ db'[f.srv] # None
    BY <1>1 DEF SaveDb, RowsStay, SharedKept, JavaKept, IInv, TypeOK, SessionsNumbered, Sessions
<1>4. task' \in [Tasks -> Frame] => TypeOK'
    BY <1>1 DEF SaveDb, IInv, TypeOK
<1> QED BY <1>1, <1>2, <1>3, <1>4, SaveStepKeeps DEF SaveDb, Goto, Saving

LEMMA SaveDbFailsKeeps == ASSUME IInv, NEW t \in Tasks, SaveDbFails(t) PROVE IInv'
<1> DEFINE f == task[t]
<1>1. f.at = "saveDb" /\ FrameOK(t, f) /\ f.srv \in Servers
    BY AtWork DEF FramesOK, FrameOK, SaveDbFails, At
<1>2. RowsStay /\ SharedKept /\ JavaKept
    BY DEF SaveDbFails, RowsStay, SharedKept, JavaKept, IInv, TypeOK, SessionsNumbered, Sessions
<1>3. task' \in [Tasks -> Frame] => TypeOK'
    BY BoundsAssumption DEF SaveDbFails, IInv, TypeOK
<1>4. CASE Propagates(t)
    <2>1. "failed" \in LabelsOf(t) \ {"saveDb", "saveMem"} BY <1>4, CommonLabels
    <2> DEFINE g == [f EXCEPT !.at = "failed"]
    <2>2. FrameOK(t, g) /\ g.at = "failed" /\ g.srv = f.srv /\ g.n = f.n /\ g.op = f.op
        BY <1>1, <2>1, GoesTo
    <2> QED BY <1>1, <1>2, <1>3, <1>4, <2>2, SaveStepKeeps DEF SaveDbFails, Goto, Saving
<1>5. CASE ~ Propagates(t)
    <2> DEFINE g == Resumed(f)
    <2>1. FrameOK(t, g) /\ g.at = f.then /\ (g.at # "idle" => g.srv = f.srv /\ g.n = f.n /\ g.op = f.op)
        BY <1>1, ResumedFrame
    <2> QED BY <1>1, <1>2, <1>3, <1>5, <2>1, SaveStepKeeps DEF SaveDbFails, Saving
<1> QED BY <1>4, <1>5

LEMMA SaveMemKeeps == ASSUME IInv, NEW t \in Tasks, SaveMem(t) PROVE IInv'
<1> DEFINE f == task[t]
           g == Resumed(f)
<1>1. f.at = "saveMem" /\ FrameOK(t, f) /\ f.srv \in Servers /\ f.row \in Row
    BY AtWork DEF FramesOK, FrameOK, SaveMem, At
<1>2. RowsStay /\ SharedKept /\ JavaKept
    BY DEF SaveMem, RowsStay, SharedKept, JavaKept, IInv, TypeOK, SessionsNumbered, Sessions
<1>3. task' \in [Tasks -> Frame] => TypeOK'
    BY <1>1 DEF SaveMem, IInv, TypeOK
<1>4. FrameOK(t, g) /\ g.at = f.then /\ (g.at # "idle" => g.srv = f.srv /\ g.n = f.n /\ g.op = f.op)
    BY <1>1, ResumedFrame
<1> QED BY <1>1, <1>2, <1>3, <1>4, SaveStepKeeps DEF SaveMem, Saving, At

(* A task goes to another label; a command does not start a session by it and a
   monitor keeps its entry. *)
LEMMA PlainMoveKeeps ==
    ASSUME IInv, NEW t \in Tasks, NEW g, FrameOK(t, g), Becomes(t, g),
           RowsStay, SharedKept, JavaKept, task' \in [Tasks -> Frame] => TypeOK',
           \A c \in Clients : t = Cmd(c) =>
               /\ ~ At(t, "idle") /\ g.srv = task[t].srv
               /\ g.at \notin {"spawn", "assign", "insert", "started"}
               /\ g.at \in {"saveDb", "saveMem"} => g.then # "started"
               /\ g.at \in {"removeRow", "removeMem"} => registry[g.srv] = None,
           \A n \in Sessions : t = Monitor(n) =>
               /\ Watches(n) /\ g.at \notin {"idle", "ephRow", "ephMem"} /\ g.srv = task[t].srv
               /\ g.at = "log" \/ (g.at \in {"saveDb", "saveMem"} /\ g.then = "log") =>
                     g.srv \notin Ephemeral /\ g.op \in Outcome
    PROVE  IInv'
<1>1. /\ task' \in [Tasks -> Frame] /\ FramesOK' /\ task'[t] = g
      /\ \A u \in Tasks : u # t => task'[u] = task[u]
    BY Moves, AtWork
<1>2. SUFFICES Rest'
    BY <1>1 DEF IInv, Rest
<1>3. CASE \E c \in Clients : t = Cmd(c)
    <2> PICK c \in Clients : t = Cmd(c) BY <1>3
    <2>1. OtherCmdsKept(c) /\ MonitorsKept BY <1>1, OthersKept
    <2> QED BY <1>1, <2>1, CommandMoves DEF Starting, Saving, At
<1>4. CASE \E n \in Sessions : t = Monitor(n)
    <2> PICK n \in Sessions : t = Monitor(n) BY <1>4
    <2>1. OtherMonitorsKept(n) /\ CmdsKept BY <1>1, OthersKept
    <2> QED BY <1>1, <2>1, MonitorMoves DEF Watches, Saving
<1>5. CASE (\A c \in Clients : t # Cmd(c)) /\ (\A n \in Sessions : t # Monitor(n))
    BY <1>1, <1>5, OthersKept, Bystander
<1> QED BY <1>3, <1>4, <1>5

(* A command drops its locks. *)
LEMMA ReturnKeeps ==
    ASSUME IInv, NEW c \in Clients, ~ At(Cmd(c), "idle"), Return(c), RowsStay, JavaKept,
           UNCHANGED <<logs, registry>>, count'.session = count.session,
           (/\ task' \in [Tasks -> Frame]
            /\ opLock' \in [Servers -> Clients \cup {None}]
            /\ startLock' \in Clients \cup {None}) => TypeOK'
    PROVE  IInv'
<1>1. /\ task' \in [Tasks -> Frame] /\ FramesOK' /\ task'[Cmd(c)] = Idle
      /\ \A u \in Tasks : u # Cmd(c) => task'[u] = task[u]
    BY Moves, AtWork, IdleFrame, TaskNames DEF Return, Finish
<1>2. TypeOK'
    BY <1>1 DEF Return, IInv, TypeOK
<1>3. OtherCmdsKept(c) /\ MonitorsKept /\ task'[Cmd(c)].at = "idle"
    BY <1>1, OthersKept, TaskNames DEF Idle
<1>4. Rest'
    BY <1>3, CommandReturns DEF Return
<1> QED BY <1>1, <1>2, <1>4 DEF IInv, Rest

-----------------------------------------------------------------------------
(* Stopping a session. *)

LEMMA StopperKinds ==
    ASSUME IInv, NEW t \in Tasks, task[t].at \in {"stop", "stopWrite"}
    PROVE  /\ t = Quit \/ \E c \in Clients : t = Cmd(c)
           /\ \A n : t # Monitor(n)
           /\ FrameOK(t, task[t]) /\ task[t] \in Frame /\ task[t].srv \in Servers
           /\ {"failed", "stopWrite"} \subseteq LabelsOf(t) /\ "stopWrite" \in AfterSave(t)
<1>1. FrameOK(t, task[t]) BY AtWork DEF FramesOK
<1>2. t = Quit \/ \E c \in Clients : t = Cmd(c)
    BY <1>1 DEF FrameOK, LabelsOf, Tasks, Cmd, Editor, Reader, Monitor, Probe, Timer, Quit,
                MonitorLabels, HelperLabels, SaveLabels
<1> QED BY <1>1, <1>2, TaskKinds, TaskLabels DEF FrameOK, CmdLabels, QuitLabels, SaveLabels

LEMMA QuitNextOK == FrameOK(Quit, QuitNextFrame) /\ QuitNextFrame.at = "quitNext"
BY TaskLabels DEF FrameOK, Frame, QuitNextFrame, Idle, QuitLabels, SaveLabels, Labels

LEMMA StopFailsKeeps ==
    ASSUME IInv, NEW t \in Tasks, task[t].at \in {"stop", "stopWrite"}, StopFails(t),
           RowsStay, SharedKept, JavaKept, task' \in [Tasks -> Frame] => TypeOK'
    PROVE  IInv'
<1> USE StopperKinds
<1>1. CASE t = Quit
    BY <1>1, QuitNextOK, TaskKinds, PlainMoveKeeps DEF StopFails
<1>2. CASE t # Quit
    <2> DEFINE g == [task[t] EXCEPT !.at = "failed"]
    <2>1. FrameOK(t, g) /\ g.at = "failed" /\ g.srv = task[t].srv
        BY GoesTo
    <2> QED BY <1>2, <2>1, PlainMoveKeeps DEF StopFails, Goto, At
<1> QED BY <1>1, <1>2

LEMMA StopStepKeeps == ASSUME IInv, NEW t \in Tasks, StopStep(t) PROVE IInv'
<1> USE StopperKinds
<1>1. UNCHANGED <<java, timers>> => JavaKept
    BY AtWork DEF JavaKept, IInv, SessionsNumbered, Sessions
<1>2. CASE StopRefused(t)
    <2>1. RowsStay /\ SharedKept /\ UNCHANGED <<java, timers>> /\ (task' \in [Tasks -> Frame] => TypeOK')
        BY <1>2, NoneAssumption DEF StopRefused, RowsStay, SharedKept, IInv, TypeOK, At, Entry
    <2> QED BY <1>1, <1>2, <2>1, StopFailsKeeps DEF StopRefused, At
<1>3. CASE StopWriteFails(t)
    <2>1. RowsStay /\ SharedKept /\ UNCHANGED <<java, timers>> /\ (task' \in [Tasks -> Frame] => TypeOK')
        BY <1>3, OnlyTaskTyped DEF StopWriteFails, RowsStay, SharedKept, IInv, allButTask
    <2> QED BY <1>1, <1>3, <2>1, StopFailsKeeps DEF StopWriteFails, At
<1>4. CASE StopRequest(t)
    <2> DEFINE s == task[t].srv
               f == [task[t] EXCEPT !.n = registry[s].n]
               row == [mem[s] EXCEPT !.status = "stopping"]
               g == Saves(f, row, "stopWrite")
    <2>1. task[t].at = "stop" /\ registry[s] \in Entry /\ mem[s] \in Row
        BY <1>4 DEF StopRequest, At, IInv, TypeOK
    <2>2. f \in Frame /\ f.srv = s /\ s \in Servers /\ row \in Row /\ "stopWrite" \in AfterSave(t)
        BY <2>1 DEF Frame, Entry, Row, Status
    <2> HIDE DEF f, row, s
    <2>3. FrameOK(t, g) /\ g.at = "saveDb" /\ g.srv = s /\ g.then = "stopWrite"
        BY <2>1, <2>2, SavesFrame
    <2>4. RowsStay /\ SharedKept /\ UNCHANGED <<java, timers>> /\ (task' \in [Tasks -> Frame] => TypeOK')
        BY <1>4, <2>1 DEF StopRequest, RowsStay, SharedKept, IInv, TypeOK, Entry
    <2> QED BY <1>1, <1>4, <2>1, <2>3, <2>4, PlainMoveKeeps DEF StopRequest, At, f, row, s
<1>5. CASE StopWritten(t)
    <2>1. RowsStay BY <1>5 DEF StopWritten, RowsStay
    <2>2. task[t].at = "stopWrite" BY <1>5 DEF StopWritten, At
    <2> DEFINE n == task[t].n
    <2>6. timers' \in [Sessions -> 0..MaxTimers] /\ JavaKept
        <3>1. timers \in [Sessions -> 0..MaxTimers] /\ Alive(n) /\ timers[n] < MaxTimers
              /\ timers' = [timers EXCEPT ![n] = @ + 1] /\ java' = java
            BY <1>5 DEF StopWritten, IInv, TypeOK
        <3>2. n \in Sessions => timers[n] + 1 \in 0..MaxTimers
            BY <3>1, BoundsAssumption
        <3>3. n \in Sessions => n <= count.session
            BY <3>1, AtWork DEF IInv, SessionsNumbered, Alive, Sessions
        <3>4. timers' \in [Sessions -> 0..MaxTimers]
            BY <3>1, <3>2
        <3> QED BY <3>1, <3>3, <3>4, AtWork DEF JavaKept, IInv, SessionsNumbered, Sessions
    <2>3. CASE t = Quit
        <3>1. SharedKept /\ (task' \in [Tasks -> Frame] => TypeOK')
            BY <1>5, <2>6, <2>3 DEF StopWritten, SharedKept, IInv, TypeOK
        <3> QED BY <1>5, <2>1, <2>6, <2>2, <2>3, <3>1, QuitNextOK, TaskKinds, PlainMoveKeeps DEF StopWritten
    <2>4. CASE t # Quit /\ task[t].op = "restart"
        <3> DEFINE g == [task[t] EXCEPT !.at = "awaitExit"]
        <3>1. SharedKept /\ (task' \in [Tasks -> Frame] => TypeOK')
            BY <1>5, <2>6, <2>4 DEF StopWritten, SharedKept, IInv, TypeOK
        <3>2. FrameOK(t, g) /\ g.at = "awaitExit" /\ g.srv = task[t].srv
            <4>1. "awaitExit" \in LabelsOf(t) \ {"saveDb", "saveMem"} BY <2>2, <2>4, TaskLabels DEF CmdLabels
            <4> QED BY <2>2, <4>1, GoesTo
        <3> QED BY <1>5, <2>1, <2>6, <2>2, <2>4, <3>1, <3>2, PlainMoveKeeps DEF StopWritten, Goto, At
    <2>5. CASE t # Quit /\ task[t].op # "restart"
        <3> PICK c \in Clients : t = Cmd(c) BY <2>2, <2>5
        <3>1. Cmd(c)[2] = c BY DEF Cmd
        <3>2. Return(c) BY <1>5, <2>5, <3>1 DEF StopWritten
        <3>3. (/\ task' \in [Tasks -> Frame]
               /\ opLock' \in [Servers -> Clients \cup {None}]
               /\ startLock' \in Clients \cup {None}) => TypeOK'
            BY <1>5, <2>6 DEF StopWritten, IInv, TypeOK
        <3> QED BY <1>5, <2>1, <2>6, <2>2, <3>2, <3>3, ReturnKeeps DEF StopWritten, At
    <2> QED BY <2>3, <2>4, <2>5
<1> QED BY <1>2, <1>3, <1>4, <1>5 DEF StopStep

-----------------------------------------------------------------------------
(* Commands. *)

LEMMA BeginCommandKeeps ==
    ASSUME IInv, NEW c \in Clients, NEW s \in Servers,
           NEW op \in {"start", "stop", "forceStop", "restart", "remove"}, BeginCommand(c, s, op)
    PROVE  IInv'
<1> DEFINE g == [Idle EXCEPT !.at = op, !.srv = s, !.op = op]
<1>1. FrameOK(Cmd(c), g) /\ g.at = op /\ g.srv = s
    <2>1. op \in LabelsOf(Cmd(c)) /\ op \in Labels
        BY TaskLabels, TaskNames, CommonLabels DEF CmdLabels
    <2>2. Idle \in Frame
        BY IdleFrame, TaskNames DEF FrameOK
    <2>3. g \in Frame /\ g.at = op /\ g.srv = s
        BY <2>1, <2>2 DEF Frame
    <2> QED BY <2>1, <2>3 DEF FrameOK
<1>2. /\ task' \in [Tasks -> Frame] /\ FramesOK' /\ task'[Cmd(c)] = g
      /\ \A u \in Tasks : u # Cmd(c) => task'[u] = task[u]
    BY <1>1, Moves, AtWork, TaskNames DEF BeginCommand
<1>3. OtherCmdsKept(c) /\ MonitorsKept
    BY <1>2, OthersKept, TaskNames
<1>4. At(Cmd(c), "idle") /\ opLock[s] = None /\ opLock' = [opLock EXCEPT ![s] = c]
      /\ UNCHANGED <<mem, db, logs, registry, java, stopReq, timers, startLock, quitIds>>
      /\ count'.session = count.session
    BY DEF BeginCommand, IInv, TypeOK
<1>5. TypeOK'
    BY <1>2, BoundsAssumption DEF BeginCommand, IInv, TypeOK
<1> HIDE DEF g
<1> USE AtWork, SetsAssumption DEF IInv, OtherCmdsKept, MonitorsKept
<1>6. SessionsNumbered' BY <1>3, <1>4 DEF SessionsNumbered, At
<1>7. LocksHeld'
    <2> SUFFICES ASSUME NEW d \in Clients
                 PROVE  (~ At(Cmd(d), "idle") => opLock[task[Cmd(d)].srv] = d)' /\ (Starting(d) => startLock = d)'
        BY DEF LocksHeld
    <2>1. CASE d = c BY <1>1, <1>2, <1>4, <2>1 DEF TypeOK, Starting, Saving
    <2>2. CASE d # c BY <1>3, <1>4, <2>2 DEF LocksHeld, Starting, Saving, At, TypeOK
    <2> QED BY <2>1, <2>2
<1>8. StartKeepsChecks' BY <1>1, <1>2, <1>3, <1>4 DEF StartKeepsChecks, Begins, Starting, Saving, At
<1>9. RowsKept' BY <1>1, <1>2, <1>3, <1>4 DEF RowsKept, Starting, Saving, Watches
<1>10. PortsReserved' /\ MonitorOwnsEntry' /\ LogsHaveServer'
    BY <1>3, <1>4 DEF PortsReserved, MonitorOwnsEntry, LogsHaveServer
<1> QED BY <1>2, <1>5, <1>6, <1>7, <1>8, <1>9, <1>10

LEMMA StartAcceptedKeeps == ASSUME IInv, NEW c \in Clients, StartAccepted(c) PROVE IInv'
<1> DEFINE s == task[Cmd(c)].srv
           g == [task[Cmd(c)] EXCEPT !.at = "spawn", !.row = mem[s]]
<1>1. task[Cmd(c)].at = "start" /\ s \in Servers /\ mem[s] \in Row
    BY AtWork DEF StartAccepted, Startable, At, IInv, TypeOK
<1>2. FrameOK(Cmd(c), g) /\ g.at = "spawn" /\ g.srv = s /\ g.row = mem[s]
    <2>1. "spawn" \in LabelsOf(Cmd(c)) /\ "spawn" \in Labels
        BY TaskLabels, TaskNames, CommonLabels DEF CmdLabels
    <2>2. g \in Frame /\ g.at = "spawn" /\ g.srv = s /\ g.row = mem[s]
        BY <1>1, <2>1, AtWork DEF Frame
    <2> QED BY <1>1, <2>1, <2>2 DEF FrameOK
<1>3. /\ task' \in [Tasks -> Frame] /\ FramesOK' /\ task'[Cmd(c)] = g
      /\ \A u \in Tasks : u # Cmd(c) => task'[u] = task[u]
    BY <1>2, Moves, AtWork, TaskNames DEF StartAccepted
<1>4. OtherCmdsKept(c) /\ MonitorsKept
    BY <1>3, OthersKept, TaskNames
<1>5. /\ startLock = None /\ startLock' = c /\ count.session < MaxSessions /\ registry[s] = None
      /\ \A o \in Servers : registry[o] # None => registry[o].port # mem[s].port
      /\ UNCHANGED <<mem, db, logs, registry, java, stopReq, timers, opLock, quitIds, count>>
    BY DEF StartAccepted, Startable
<1>6. TypeOK'
    BY <1>3, <1>5 DEF IInv, TypeOK
<1> HIDE DEF g, s
<1> USE AtWork, SetsAssumption DEF IInv, OtherCmdsKept, MonitorsKept
<1>7. SessionsNumbered' BY <1>4, <1>5 DEF SessionsNumbered, At
<1>8. LocksHeld' BY <1>1, <1>2, <1>3, <1>4, <1>5 DEF LocksHeld, Starting, Saving, At, s
<1>9. StartKeepsChecks'
    <2>1. \A d \in Clients : d # c => ~ Starting(d)
        BY <1>5 DEF LocksHeld
    <2> QED BY <1>1, <1>2, <1>3, <1>4, <1>5, <2>1 DEF StartKeepsChecks, Begins, Starting, Saving, At
<1>10. RowsKept' BY <1>1, <1>2, <1>3, <1>4, <1>5 DEF RowsKept, Starting, Saving, Watches
<1>11. PortsReserved' /\ MonitorOwnsEntry' /\ LogsHaveServer'
    BY <1>4, <1>5 DEF PortsReserved, MonitorOwnsEntry, LogsHaveServer
<1> QED BY <1>3, <1>6, <1>7, <1>8, <1>9, <1>10, <1>11

LEMMA SpawnNumbered ==
    ASSUME IInv, NEW s \in Servers, NEW p, count.session < MaxSessions, MonitorsKept,
           java' = Spawned(s, p), count'.session = NewSession, UNCHANGED timers,
           \A o \in Servers : registry'[o] # None => registry'[o].n <= NewSession
    PROVE  SessionsNumbered'
<1> USE AtWork DEF IInv
<1> SUFFICES ASSUME NEW n \in Sessions
             PROVE  IF n <= NewSession THEN java'[n].srv \in Servers
                    ELSE java'[n].st = "none" /\ timers'[n] = 0 /\ At(Monitor(n), "idle")'
    BY DEF SessionsNumbered
<1>1. CASE n = NewSession BY <1>1, BoundsAssumption DEF Spawned, TypeOK, Sessions
<1>2. CASE n # NewSession
    <2>1. java'[n] = java[n] /\ timers'[n] = timers[n] /\ task'[Monitor(n)] = task[Monitor(n)]
        BY <1>2 DEF Spawned, TypeOK, MonitorsKept
    <2>2. n <= NewSession <=> n <= count.session
        BY <1>2 DEF NewSession, Sessions
    <2> QED BY <2>1, <2>2 DEF SessionsNumbered, At
<1> QED BY <1>1, <1>2

LEMMA StartSpawnKeeps == ASSUME IInv, NEW c \in Clients, StartSpawn(c) PROVE IInv'
<1> DEFINE f == task[Cmd(c)]
           s == f.srv
           g == [f EXCEPT !.at = "assign", !.n = NewSession]
<1>1. /\ f.at = "spawn" /\ f \in Frame /\ s \in Servers /\ f.row \in Row /\ f.row.port \in Ports
      /\ count.session \in Nat /\ count.session < MaxSessions /\ NewSession \in Sessions
      /\ registry[s] = None
      /\ \A o \in Servers : registry[o] # None => registry[o].port # f.row.port
    <2>1. f.at = "spawn" BY DEF StartSpawn, At
    <2>2. f.row \in Row /\ count.session < MaxSessions /\ registry[s] = None
          /\ \A o \in Servers : registry[o] # None => registry[o].port # f.row.port
        BY <2>1 DEF IInv, StartKeepsChecks
    <2> QED BY <2>1, <2>2, AtWork, BoundsAssumption DEF At, Row, NewSession, Sessions
<1>2. FrameOK(Cmd(c), g) /\ g.at = "assign" /\ g.srv = s /\ g.n = NewSession /\ g.row = f.row
    <2>1. "assign" \in LabelsOf(Cmd(c)) /\ "assign" \in Labels
        BY TaskLabels, TaskNames, CommonLabels DEF CmdLabels
    <2>2. g \in Frame /\ g.at = "assign" /\ g.srv = s /\ g.n = NewSession /\ g.row = f.row
        BY <1>1, <2>1 DEF Frame
    <2> QED BY <1>1, <2>1, <2>2 DEF FrameOK
<1>3. /\ task' \in [Tasks -> Frame] /\ FramesOK' /\ task'[Cmd(c)] = g
      /\ \A u \in Tasks : u # Cmd(c) => task'[u] = task[u]
    BY <1>2, Moves, AtWork, TaskNames DEF StartSpawn
<1>4. OtherCmdsKept(c) /\ MonitorsKept
    BY <1>3, OthersKept, TaskNames
<1>5. /\ java' = [java EXCEPT ![NewSession] =
                    [st |-> "up", srv |-> s, port |-> f.row.port, inJob |-> FALSE]]
      /\ count' = [count EXCEPT !.session = NewSession]
      /\ UNCHANGED <<mem, db, logs, registry, stopReq, timers, startLock, opLock, quitIds>>
    BY DEF StartSpawn, Spawned, NewSession
<1>6. TypeOK'
    <2>1. java' \in [Sessions -> Process]
        BY <1>1, <1>5 DEF IInv, TypeOK, Process
    <2>2. NewSession \in 0..MaxSessions
        BY <1>1 DEF Sessions
    <2>3. count' \in [session : 0..MaxSessions, command : 0..MaxCommands, edit : 0..MaxEdits,
                      quit : 0..MaxQuits, dbFailure : 0..MaxDbFailures, launch : 0..MaxLaunches]
        BY <1>5, <2>2 DEF IInv, TypeOK
    <2> QED BY <1>3, <1>5, <2>1, <2>3 DEF IInv, TypeOK
<1>7. count'.session = NewSession /\ java'[NewSession].srv = s
    BY <1>1, <1>5 DEF IInv, TypeOK
<1>8. At(Monitor(NewSession), "idle") /\ startLock = c
    BY <1>1, AtWork DEF IInv, SessionsNumbered, LocksHeld, Starting, NewSession
<1>9. \A d \in Clients : d # c => ~ Starting(d)
    BY <1>8 DEF IInv, LocksHeld
<1> HIDE DEF g
<1> USE AtWork, SetsAssumption DEF IInv, OtherCmdsKept, MonitorsKept
<1>10. SessionsNumbered'
    <2>1. \A o \in Servers : registry'[o] # None => registry'[o].n <= NewSession
        BY <1>1, <1>5 DEF SessionsNumbered, NewSession, TypeOK, Entry, Sessions
    <2> QED BY <1>1, <1>4, <1>5, <1>7, <2>1, SpawnNumbered DEF Spawned
<1>11. LocksHeld' BY <1>1, <1>2, <1>3, <1>4, <1>5 DEF LocksHeld, Starting, Saving, At
<1>12. StartKeepsChecks'
    BY <1>1, <1>2, <1>3, <1>4, <1>5, <1>7, <1>8, <1>9 DEF StartKeepsChecks, Begins, Starting, Saving, At, NewSession
<1>13. RowsKept'
    BY <1>1, <1>2, <1>3, <1>4, <1>5 DEF RowsKept, Starting, Saving, Watches, At
<1>14. PortsReserved' /\ MonitorOwnsEntry' /\ LogsHaveServer'
    BY <1>4, <1>5 DEF PortsReserved, MonitorOwnsEntry, LogsHaveServer
<1> QED BY <1>3, <1>6, <1>10, <1>11, <1>12, <1>13, <1>14

(* What a start knows of the Java it has spawned and not yet registered. *)
LEMMA SpawnedFrame ==
    ASSUME IInv, NEW c \in Clients, task[Cmd(c)].at \in {"assign", "insert"}
    PROVE  LET f == task[Cmd(c)]
           IN  /\ f \in Frame /\ FrameOK(Cmd(c), f) /\ f.srv \in Servers /\ f.row \in Row
               /\ f.row.port \in Ports /\ f.n \in Sessions /\ f.n <= count.session
               /\ java[f.n].srv = f.srv /\ At(Monitor(f.n), "idle") /\ registry[f.srv] = None
               /\ \A o \in Servers : registry[o] # None => registry[o].port # f.row.port
               /\ startLock = c /\ \A d \in Clients : d # c => ~ Starting(d)
<1> DEFINE f == task[Cmd(c)]
<1>1. f \in Frame /\ FrameOK(Cmd(c), f) /\ f.srv \in Servers
    BY AtWork DEF At
<1>2. Starting(c) BY DEF Starting
<1>3. /\ f.row \in Row /\ f.n \in Sessions /\ f.n <= count.session
      /\ java[f.n].srv = f.srv /\ At(Monitor(f.n), "idle") /\ registry[f.srv] = None
      /\ \A o \in Servers : registry[o] # None => registry[o].port # f.row.port
    BY <1>2 DEF IInv, StartKeepsChecks
<1>4. startLock = c /\ \A d \in Clients : d # c => ~ Starting(d)
    BY <1>2 DEF IInv, LocksHeld
<1> QED BY <1>1, <1>3, <1>4 DEF Row

LEMMA AssignJobKeeps == ASSUME IInv, NEW c \in Clients, AssignJob(c) PROVE IInv'
<1> DEFINE f == task[Cmd(c)]
           g == [f EXCEPT !.at = "insert"]
<1>1. /\ f.at = "assign" /\ f \in Frame /\ FrameOK(Cmd(c), f) /\ f.srv \in Servers /\ f.row \in Row
      /\ f.n \in Sessions /\ f.n <= count.session
      /\ java[f.n].srv = f.srv /\ At(Monitor(f.n), "idle") /\ registry[f.srv] = None
      /\ \A o \in Servers : registry[o] # None => registry[o].port # f.row.port
      /\ startLock = c /\ \A d \in Clients : d # c => ~ Starting(d)
    BY SpawnedFrame DEF AssignJob, At
<1>2. FrameOK(Cmd(c), g) /\ g.at = "insert" /\ g.srv = f.srv /\ g.n = f.n /\ g.row = f.row
    <2>1. "insert" \in LabelsOf(Cmd(c)) \ {"saveDb", "saveMem"} BY TaskLabels DEF CmdLabels
    <2> QED BY <1>1, <2>1, GoesTo, TaskNames
<1>3. Becomes(Cmd(c), g) BY DEF AssignJob, Goto
<1> HIDE DEF g
<1>4. /\ task' \in [Tasks -> Frame] /\ FramesOK' /\ task'[Cmd(c)] = g
      /\ \A u \in Tasks : u # Cmd(c) => task'[u] = task[u]
    BY <1>2, <1>3, Moves, AtWork, TaskNames
<1>5. OtherCmdsKept(c) /\ MonitorsKept
    BY <1>4, OthersKept, TaskNames
<1>6. /\ java' = [java EXCEPT ![f.n].inJob = TRUE]
      /\ UNCHANGED <<mem, db, logs, registry, stopReq, timers, startLock, opLock, quitIds, count>>
    BY DEF AssignJob
<1>7. java' \in [Sessions -> Process] /\ \A n \in Sessions : java'[n].srv = java[n].srv /\ java'[n].st = java[n].st
    <2> DEFINE k == f.n
               j == [java[k] EXCEPT !.inJob = TRUE]
    <2>1. java' = [java EXCEPT ![k] = j] BY <1>6
    <2>2. java \in [Sessions -> Process] /\ k \in Sessions BY <1>1 DEF IInv, TypeOK
    <2>3. j \in Process /\ j.srv = java[k].srv /\ j.st = java[k].st BY <2>2 DEF Process
    <2> HIDE DEF j, k
    <2> QED BY <2>1, <2>2, <2>3
<1>8. TypeOK' BY <1>4, <1>6, <1>7 DEF IInv, TypeOK
<1> USE AtWork, SetsAssumption DEF IInv, OtherCmdsKept, MonitorsKept
<1>9. SessionsNumbered' BY <1>5, <1>6, <1>7 DEF SessionsNumbered, At
<1>10. LocksHeld' BY <1>1, <1>2, <1>4, <1>5, <1>6 DEF LocksHeld, Starting, Saving, At
<1>11. StartKeepsChecks'
    BY <1>1, <1>2, <1>4, <1>5, <1>6, <1>7 DEF StartKeepsChecks, Begins, Starting, Saving, At
<1>12. RowsKept' BY <1>1, <1>2, <1>4, <1>5, <1>6 DEF RowsKept, Starting, Saving, Watches, At
<1>13. PortsReserved' /\ MonitorOwnsEntry' /\ LogsHaveServer'
    BY <1>5, <1>6 DEF PortsReserved, MonitorOwnsEntry, LogsHaveServer
<1> QED BY <1>4, <1>8, <1>9, <1>10, <1>11, <1>12, <1>13

LEMMA RegisterKeeps == ASSUME IInv, NEW c \in Clients, Register(c) PROVE IInv'
<1> DEFINE f == task[Cmd(c)]
           s == f.srv
           row == [f.row EXCEPT !.status = "starting", !.overdue = FALSE]
           e == [n |-> f.n, port |-> f.row.port]
           g == Saves(f, row, "started")
<1>1. /\ f.at = "insert" /\ f \in Frame /\ s \in Servers /\ f.row \in Row /\ f.row.port \in Ports
      /\ f.n \in Sessions /\ f.n <= count.session
      /\ java[f.n].srv = s /\ At(Monitor(f.n), "idle") /\ registry[s] = None
      /\ \A o \in Servers : registry[o] # None => registry[o].port # f.row.port
      /\ startLock = c /\ \A d \in Clients : d # c => ~ Starting(d)
    BY SpawnedFrame DEF Register, At
<1>2. FrameOK(Cmd(c), g) /\ g.at = "saveDb" /\ g.srv = s /\ g.n = f.n /\ g.then = "started"
    <2>1. row \in Row /\ "started" \in AfterSave(Cmd(c))
        BY <1>1, TaskLabels DEF Row, Status
    <2> HIDE DEF row
    <2> QED BY <1>1, <2>1, SavesFrame, TaskNames
<1>3. /\ task' \in [Tasks -> Frame] /\ FramesOK' /\ task'[Cmd(c)] = g
      /\ \A u \in Tasks : u # Cmd(c) => task'[u] = task[u]
    BY <1>2, Moves, AtWork, TaskNames DEF Register, SaveThen
<1>4. OtherCmdsKept(c) /\ MonitorsKept
    BY <1>3, OthersKept, TaskNames
<1>5. /\ registry' = [registry EXCEPT ![s] = e]
      /\ UNCHANGED <<mem, db, logs, java, stopReq, timers, startLock, opLock, quitIds, count>>
    BY DEF Register
<1>6. e \in Entry /\ e # None /\ e.n = f.n /\ e.port = f.row.port
    BY <1>1, NoneAssumption DEF Entry
<1> HIDE DEF g, e
<1>7. /\ \A o \in Servers : o # s => registry'[o] = registry[o]
      /\ registry'[s] = e /\ registry' \in [Servers -> Entry \cup {None}]
    BY <1>1, <1>5, <1>6 DEF IInv, TypeOK
<1>8. TypeOK' BY <1>3, <1>5, <1>7 DEF IInv, TypeOK
<1> USE AtWork, SetsAssumption DEF IInv, OtherCmdsKept, MonitorsKept
<1>9. SessionsNumbered' BY <1>1, <1>4, <1>5, <1>6, <1>7 DEF SessionsNumbered, At
<1>10. LocksHeld' BY <1>1, <1>2, <1>3, <1>4, <1>5 DEF LocksHeld, Starting, Saving, At
<1>11. StartKeepsChecks'
    BY <1>1, <1>2, <1>3, <1>4, <1>5, <1>6, <1>7 DEF StartKeepsChecks, Begins, Starting, Saving, At
<1>12. \A d \in Clients : d # c /\ ~ At(Cmd(d), "idle") => task[Cmd(d)].srv # s
    BY <1>1 DEF LocksHeld, At
<1>13. RowsKept'
    BY <1>1, <1>2, <1>3, <1>4, <1>5, <1>7, <1>12 DEF RowsKept, Starting, Saving, Watches, At
<1>14. PortsReserved' BY <1>1, <1>6, <1>7 DEF PortsReserved
<1>15. MonitorOwnsEntry' BY <1>1, <1>4, <1>7 DEF MonitorOwnsEntry, At
<1>16. LogsHaveServer' BY <1>5 DEF LogsHaveServer
<1> QED BY <1>3, <1>8, <1>9, <1>10, <1>11, <1>13, <1>14, <1>15, <1>16

LEMMA StartedKeeps == ASSUME IInv, NEW c \in Clients, Started(c) PROVE IInv'
<1> DEFINE s == task[Cmd(c)].srv
           k == task[Cmd(c)].n
           Begin(l) == [Idle EXCEPT !.at = l, !.srv = s, !.n = k]
<1>1. /\ task[Cmd(c)].at = "started" /\ Starting(c) /\ s \in Servers
      /\ k \in Sessions /\ k <= count.session /\ registry[s] # None /\ registry[s].n = k
      /\ At(Monitor(k), "idle")
    BY AtWork DEF Started, At, Starting, Begins, IInv, StartKeepsChecks
<1>2. \A l \in {"watch", "read", "probe"} :
          /\ Begin(l) \in Frame /\ Begin(l).at = l /\ Begin(l).srv = s
          /\ Begin(l).n = k
    BY <1>1 DEF Frame, Idle, Labels, MonitorLabels, HelperLabels
<1>3. /\ FrameOK(Monitor(k), Begin("watch")) /\ FrameOK(Reader(k), Begin("read"))
      /\ FrameOK(Probe(k), Begin("probe"))
    BY <1>1, <1>2, TaskLabels DEF FrameOK, MonitorLabels, HelperLabels
<1>4. /\ task' = [task EXCEPT ![Cmd(c)] = Idle, ![Monitor(k)] = Begin("watch"),
                              ![Reader(k)] = Begin("read"), ![Probe(k)] = Begin("probe")]
      /\ startLock' = None /\ opLock' = [opLock EXCEPT ![s] = None]
      /\ UNCHANGED <<mem, db, logs, registry, java, stopReq, timers, quitIds, count>>
    BY DEF Started
<1>5. startLock = c BY <1>1 DEF IInv, LocksHeld
<1> HIDE DEF Begin
<1>6. /\ task' \in [Tasks -> Frame] /\ FramesOK'
      /\ task'[Cmd(c)] = Idle /\ task'[Monitor(k)] = Begin("watch")
      /\ OtherCmdsKept(c) /\ OtherMonitorsKept(k)
    <2>1. Idle \in Frame BY IdleFrame, TaskNames DEF FrameOK
    <2>2. task' \in [Tasks -> Frame] BY <1>2, <1>4, <2>1, AtWork
    <2>3. /\ task'[Cmd(c)] = Idle /\ task'[Monitor(k)] = Begin("watch")
          /\ OtherCmdsKept(c) /\ OtherMonitorsKept(k)
        BY <1>1, <1>4, AtWork, TaskNames, TaskKinds DEF OtherCmdsKept, OtherMonitorsKept
    <2>4. \A u \in Tasks : FrameOK(u, task'[u])
        BY <1>3, <1>4, AtWork, IdleFrame DEF FramesOK
    <2> QED BY <2>2, <2>3, <2>4 DEF FramesOK
<1>7. TypeOK' BY <1>4, <1>6 DEF IInv, TypeOK
<1>8. task'[Cmd(c)].at = "idle" /\ task'[Monitor(k)].at = "watch" /\ task'[Monitor(k)].srv = s
    BY <1>2, <1>6 DEF Idle
<1> USE AtWork, SetsAssumption DEF IInv, OtherCmdsKept, OtherMonitorsKept
<1>9. \A d \in Clients : d # c => ~ Starting(d)
    BY <1>5 DEF LocksHeld
<1>10. SessionsNumbered'
    <2>1. \A n \in Sessions : ~ (n <= count.session) => task'[Monitor(n)] = task[Monitor(n)]
        BY <1>1, <1>6
    <2> QED BY <1>4, <2>1 DEF SessionsNumbered, At
<1>11. LocksHeld'
    <2> SUFFICES ASSUME NEW d \in Clients, d # c
                 PROVE  (~ At(Cmd(d), "idle") => opLock[task[Cmd(d)].srv] = d)' /\ ~ Starting(d)'
        BY <1>8 DEF LocksHeld, Starting, Saving, At
    <2>1. task'[Cmd(d)] = task[Cmd(d)] BY <1>6
    <2>2. ~ Starting(d)' BY <1>9, <2>1 DEF Starting, Saving
    <2>3. ~ At(Cmd(d), "idle") => task[Cmd(d)].srv # s
        BY <1>1 DEF LocksHeld, At
    <2> QED BY <1>4, <2>1, <2>2, <2>3 DEF LocksHeld, At, TypeOK
<1>12. StartKeepsChecks' BY <1>6, <1>8, <1>9 DEF StartKeepsChecks, Begins, Starting, Saving, At
<1>13. RowsKept' BY <1>1, <1>4, <1>6, <1>8 DEF RowsKept, Starting, Saving, Watches
<1>14. MonitorOwnsEntry' BY <1>1, <1>4, <1>6, <1>8 DEF MonitorOwnsEntry
<1>15. PortsReserved' /\ LogsHaveServer' BY <1>4 DEF PortsReserved, LogsHaveServer
<1> QED BY <1>6, <1>7, <1>10, <1>11, <1>12, <1>13, <1>14, <1>15

(* The other actions of a command: it returns, or it only goes to another label. *)
LEMMA JavaUntouched == ASSUME IInv, UNCHANGED <<java, timers>> PROVE JavaKept
BY AtWork DEF JavaKept, IInv, SessionsNumbered, Sessions

LEMMA KillKeepsJava ==
    ASSUME IInv, NEW s \in Servers, registry[s] # None, java' = Killed(registry[s].n), UNCHANGED timers
    PROVE  /\ JavaKept
           /\ java' \in [Sessions -> Process]
<1>1. registry[s].n \in Sessions /\ registry[s].n <= count.session
    BY DEF IInv, TypeOK, Entry, SessionsNumbered
<1>2. /\ java \in [Sessions -> Process] /\ count.session \in Nat
      /\ \A n \in Sessions : n > count.session => java[n].st = "none" /\ timers[n] = 0
    BY AtWork DEF IInv, TypeOK, SessionsNumbered, Sessions
<1>3. java' = [java EXCEPT ![registry[s].n] = [java[registry[s].n] EXCEPT !.st = "dead"]]
    BY DEF Killed
<1>4. [java[registry[s].n] EXCEPT !.st = "dead"] \in Process
      /\ [java[registry[s].n] EXCEPT !.st = "dead"].srv = java[registry[s].n].srv
    BY <1>1, <1>2 DEF Process
<1>5. java' \in [Sessions -> Process]
    BY <1>2, <1>3, <1>4
<1>6. JavaKept
    BY <1>1, <1>2, <1>3, <1>4 DEF JavaKept, Sessions
<1> QED BY <1>5, <1>6

LEMMA CommandReturnsKeeps ==
    ASSUME IInv, NEW c \in Clients,
           \/ StartRefused(c) \/ SpawnFails(c) \/ JobAssignFails(c) \/ ForceStop(c) \/ RemoveMem(c)
           \/ CommandFails(c)
    PROVE  IInv'
<1> USE DEF StartRefused, SpawnFails, JobAssignFails, ForceStop, RemoveMem, CommandFails
<1>1. ~ At(Cmd(c), "idle") /\ Return(c) /\ RowsStay /\ count' = count /\ UNCHANGED <<logs, registry>>
    BY DEF At, RowsStay
<1>2. CASE ForceStop(c)
    <2>1. task[Cmd(c)].srv \in Servers BY <1>1, AtWork
    <2>2. JavaKept /\ java' \in [Sessions -> Process]
        <3>1. CASE registry[task[Cmd(c)].srv] = None
            BY <1>2, <3>1, JavaUntouched DEF IInv, TypeOK
        <3>2. CASE registry[task[Cmd(c)].srv] # None
            BY <1>2, <2>1, <3>2, KillKeepsJava
        <3> QED BY <3>1, <3>2
    <2>3. (/\ task' \in [Tasks -> Frame]
           /\ opLock' \in [Servers -> Clients \cup {None}]
           /\ startLock' \in Clients \cup {None}) => TypeOK'
        BY <1>2, <2>2 DEF IInv, TypeOK
    <2> QED BY <1>1, <2>2, <2>3, ReturnKeeps
<1>3. CASE ~ ForceStop(c)
    <2>1. JavaKept BY <1>3, JavaUntouched
    <2>2. (/\ task' \in [Tasks -> Frame]
           /\ opLock' \in [Servers -> Clients \cup {None}]
           /\ startLock' \in Clients \cup {None}) => TypeOK'
        BY <1>3 DEF IInv, TypeOK
    <2> QED BY <1>1, <2>1, <2>2, ReturnKeeps
<1> QED BY <1>2, <1>3

LEMMA CommandPlainKeeps ==
    ASSUME IInv, NEW c \in Clients, NEW g, FrameOK(Cmd(c), g), Becomes(Cmd(c), g),
           ~ At(Cmd(c), "idle"), g.srv = task[Cmd(c)].srv, g.at \notin {"spawn", "assign", "insert", "started"},
           g.at \in {"saveDb", "saveMem"} => g.then # "started",
           g.at \in {"removeRow", "removeMem"} => registry[g.srv] = None,
           RowsStay, SharedKept, JavaKept, task' \in [Tasks -> Frame] => TypeOK'
    PROVE  IInv'
<1>1. Cmd(c) \in Tasks /\ \A n \in Sessions : Cmd(c) # Monitor(n)
    BY TaskNames, TaskKinds
<1> QED BY <1>1, PlainMoveKeeps

LEMMA CommandGoesKeeps ==
    ASSUME IInv, NEW c \in Clients, NEW l \in CmdLabels \ {"idle", "spawn", "assign", "insert", "started", "saveDb", "saveMem"},
           ~ At(Cmd(c), "idle"), Goto(Cmd(c), l),
           l \in {"removeRow", "removeMem"} => registry[task[Cmd(c)].srv] = None,
           RowsStay, SharedKept, JavaKept, task' \in [Tasks -> Frame] => TypeOK'
    PROVE  IInv'
<1> DEFINE g == [task[Cmd(c)] EXCEPT !.at = l]
<1>1. FrameOK(Cmd(c), g) /\ g.at = l /\ g.srv = task[Cmd(c)].srv
    BY AtWork, GoesTo, TaskNames, TaskLabels
<1>2. Becomes(Cmd(c), g) BY DEF Goto
<1> HIDE DEF g
<1> QED BY <1>1, <1>2, CommandPlainKeeps

LEMMA CommandMovesKeeps ==
    ASSUME IInv, NEW c \in Clients,
           Restart(c) \/ AwaitExit(c) \/ Remove(c) \/ RemoveWait(c) \/ RecycleFails(c)
    PROVE  IInv'
<1> DEFINE s == task[Cmd(c)].srv
<1>1. ~ At(Cmd(c), "idle") /\ s \in Servers /\ RowsStay /\ SharedKept
      /\ UNCHANGED <<mem, db, stopReq, timers, quitIds, count>>
    BY AtWork DEF Restart, AwaitExit, Remove, RemoveWait, RecycleFails, WaitOver, At, RowsStay,
                  SharedKept, allButTask
<1>2. JavaKept /\ java' \in [Sessions -> Process]
    BY <1>1, KillKeepsJava, JavaUntouched
       DEF Restart, AwaitExit, Remove, RemoveWait, RecycleFails, WaitOver, IInv, TypeOK, allButTask
<1>3. task' \in [Tasks -> Frame] => TypeOK'
    BY <1>1, <1>2 DEF SharedKept, IInv, TypeOK
<1>4. CASE Restart(c) /\ mem[s] # None
    <2> DEFINE row == [mem[s] EXCEPT !.status = "restarting"]
               g == Saves(task[Cmd(c)], row, "stop")
    <2>1. row \in Row BY <1>1, <1>4 DEF IInv, TypeOK, Row, Status
    <2> HIDE DEF row
    <2>2. FrameOK(Cmd(c), g) /\ g.at = "saveDb" /\ g.srv = s /\ g.then = "stop"
        BY <1>1, <2>1, AtWork, SavesFrame, TaskNames, TaskLabels
    <2>3. Becomes(Cmd(c), g) BY <1>4 DEF Restart, SaveThen, row
    <2> HIDE DEF g
    <2>4. RowsStay /\ SharedKept /\ JavaKept /\ ~ At(Cmd(c), "idle") BY <1>1, <1>2
    <2> QED BY <1>3, <2>2, <2>3, <2>4, CommandPlainKeeps
<1>5. CASE ~ (Restart(c) /\ mem[s] # None)
    <2>1. \E l \in {"failed", "start", "removeWait", "removeRow"} :
             Goto(Cmd(c), l) /\ (l = "removeRow" => registry[s] = None)
        <3>1. CASE Restart(c) BY <1>5, <3>1 DEF Restart
        <3>2. CASE AwaitExit(c) BY <3>2 DEF AwaitExit, WaitOver
        <3>3. CASE RemoveWait(c) BY <3>3 DEF RemoveWait, WaitOver
        <3>4. CASE Remove(c) BY <3>4 DEF Remove
        <3>5. CASE RecycleFails(c) BY <3>5 DEF RecycleFails
        <3> QED BY <3>1, <3>2, <3>3, <3>4, <3>5
    <2> QED BY <1>1, <1>2, <1>3, <2>1, CommandGoesKeeps DEF CmdLabels, SaveLabels
<1> QED BY <1>4, <1>5

LEMMA RemoveRowKeeps == ASSUME IInv, NEW c \in Clients, RemoveRow(c) PROVE IInv'
<1> DEFINE s == task[Cmd(c)].srv
           g == [task[Cmd(c)] EXCEPT !.at = "removeMem"]
<1>1. task[Cmd(c)].at = "removeRow" /\ s \in Servers /\ registry[s] = None /\ opLock[s] = c
    <2>1. task[Cmd(c)].at = "removeRow" BY DEF RemoveRow, At
    <2> QED BY <2>1, AtWork DEF At, IInv, RowsKept, LocksHeld
<1>2. FrameOK(Cmd(c), g) /\ g.at = "removeMem" /\ g.srv = s
    <2>1. "removeMem" \in LabelsOf(Cmd(c)) \ {"saveDb", "saveMem"} BY TaskLabels DEF CmdLabels
    <2> QED BY <1>1, <2>1, AtWork, GoesTo, TaskNames
<1>3. /\ task' \in [Tasks -> Frame] /\ FramesOK' /\ task'[Cmd(c)] = g
      /\ \A u \in Tasks : u # Cmd(c) => task'[u] = task[u]
    BY <1>2, Moves, AtWork, TaskNames DEF RemoveRow, Goto
<1>4. OtherCmdsKept(c) /\ MonitorsKept
    BY <1>3, OthersKept, TaskNames
<1>5. /\ db' = [db EXCEPT ![s] = None] /\ logs' = [logs EXCEPT ![s] = {}]
      /\ UNCHANGED <<mem, registry, java, stopReq, timers, startLock, opLock, quitIds, count>>
    BY DEF RemoveRow
<1>6. TypeOK' BY <1>3, <1>5 DEF IInv, TypeOK
<1> HIDE DEF g
<1> USE AtWork DEF IInv, OtherCmdsKept, MonitorsKept
<1>7. SessionsNumbered' BY <1>4, <1>5 DEF SessionsNumbered, At
<1>8. LocksHeld' BY <1>1, <1>2, <1>3, <1>4, <1>5 DEF LocksHeld, Starting, Saving, At
<1>9. StartKeepsChecks' BY <1>1, <1>2, <1>3, <1>4, <1>5 DEF StartKeepsChecks, Begins, Starting, Saving, At
<1>10. \A d \in Clients : Starting(d) => d # c /\ task[Cmd(d)].srv # s
    BY <1>1 DEF LocksHeld, Starting, Saving, At
<1>11. \A n \in Sessions : Watches(n) => task[Monitor(n)].srv # s
    BY <1>1 DEF MonitorOwnsEntry, Watches
<1>12. RowsKept'
    <2>1. \A o \in Servers : o # s => db'[o] = db[o] BY <1>5 DEF TypeOK
    <2>2. \A d \in Clients : Starting(d)' => Starting(d) /\ d # c
        BY <1>2, <1>3, <1>4 DEF Starting, Saving
    <2>3. \A d \in Clients :
            /\ (task[Cmd(d)].at \in {"removeRow", "removeMem"} => registry[task[Cmd(d)].srv] = None)'
            /\ (Starting(d) /\ task[Cmd(d)].at \in {"saveMem", "started"}
                  /\ task[Cmd(d)].srv \notin Ephemeral => db[task[Cmd(d)].srv] # None)'
        BY <1>1, <1>2, <1>3, <1>4, <1>5, <1>10, <2>1, <2>2 DEF RowsKept, At, Starting, Saving
    <2>4. \A n \in Sessions : Watches(n)' /\ task'[Monitor(n)].srv \notin Ephemeral =>
              db'[task'[Monitor(n)].srv] # None
        BY <1>4, <1>11, <2>1 DEF RowsKept, Watches, At
    <2> QED BY <1>4, <2>3, <2>4 DEF RowsKept, Watches, Saving
<1>13. PortsReserved' /\ MonitorOwnsEntry' BY <1>4, <1>5 DEF PortsReserved, MonitorOwnsEntry
<1>14. LogsHaveServer' BY <1>1, <1>5 DEF LogsHaveServer, TypeOK
<1> QED BY <1>3, <1>6, <1>7, <1>8, <1>9, <1>12, <1>13, <1>14

-----------------------------------------------------------------------------
(* Java, the readers, probes, timers and editors. *)

LEMMA HelperKeeps ==
    ASSUME IInv, NEW t \in Tasks, \A c \in Clients : t # Cmd(c), \A n \in Sessions : t # Monitor(n),
           NEW g, FrameOK(t, g), Becomes(t, g),
           RowsStay, SharedKept, JavaKept, task' \in [Tasks -> Frame] => TypeOK'
    PROVE  IInv'
BY PlainMoveKeeps

(* No frame moves. *)
LEMMA NoMoveKeeps ==
    ASSUME IInv, UNCHANGED task, RowsStay, SharedKept, JavaKept, TypeOK' PROVE IInv'
<1>1. CmdsKept /\ MonitorsKept BY DEF CmdsKept, MonitorsKept
<1>2. FramesOK' BY DEF IInv, FramesOK
<1> QED BY <1>1, <1>2, Bystander DEF IInv, Rest

LEMMA JavaStepKeeps ==
    ASSUME IInv, NEW n \in Sessions, JavaListens(n) \/ JavaExits(n) PROVE IInv'
<1>1. RowsStay /\ SharedKept /\ UNCHANGED task
    BY DEF JavaListens, JavaExits, RowsStay, SharedKept
<1>2. \E st \in {"listening", "dead"} : java' = [java EXCEPT ![n] = [java[n] EXCEPT !.st = st]]
    BY DEF JavaListens, JavaExits, Killed
<1>3. java \in [Sessions -> Process] /\ java[n].st # "none"
    BY DEF JavaListens, JavaExits, Alive, IInv, TypeOK
<1>4. java' \in [Sessions -> Process] /\ \A m \in Sessions : java'[m].srv = java[m].srv /\ (m # n => java'[m] = java[m])
    BY <1>2, <1>3 DEF Process
<1>5. JavaKept
    BY <1>3, <1>4, AtWork DEF JavaListens, JavaExits, JavaKept, IInv, SessionsNumbered, Sessions
<1>6. TypeOK'
    BY <1>4 DEF JavaListens, JavaExits, IInv, TypeOK
<1> QED BY <1>1, <1>5, <1>6, NoMoveKeeps

LEMMA EditKeeps == ASSUME IInv, NEW s \in Servers, Edit(s) \/ EditFails(s) PROVE IInv'
<1>1. /\ Editor(s) \in Tasks /\ \A c \in Clients : Editor(s) # Cmd(c)
      /\ \A n \in Sessions : Editor(s) # Monitor(n)
    BY TaskNames, TaskKinds
<1>2. RowsStay /\ SharedKept /\ JavaKept /\ (task' \in [Tasks -> Frame] => TypeOK')
    <2>1. RowsStay /\ SharedKept BY DEF Edit, EditFails, RowsStay, SharedKept, IInv, TypeOK, allButTask
    <2>2. JavaKept BY JavaUntouched DEF Edit, EditFails, allButTask
    <2>3. count' \in [session : 0..MaxSessions, command : 0..MaxCommands, edit : 0..MaxEdits,
                      quit : 0..MaxQuits, dbFailure : 0..MaxDbFailures, launch : 0..MaxLaunches]
        BY BoundsAssumption DEF Edit, EditFails, IInv, TypeOK, allButTask
    <2>4. task' \in [Tasks -> Frame] => TypeOK'
        BY <2>3 DEF Edit, EditFails, IInv, TypeOK, allButTask
    <2> QED BY <2>1, <2>2, <2>4
<1>3. CASE EditFails(s)
    BY <1>1, <1>2, <1>3, IdleFrame, HelperKeeps DEF EditFails, Finish
<1>4. CASE Edit(s)
    <2>1. mem[s] \in Row BY <1>4 DEF Edit, IInv, TypeOK
    <2> PICK row \in Edited(mem[s]) : Becomes(Editor(s), Saves([Idle EXCEPT !.srv = s], row, "idle"))
        BY <1>4 DEF Edit
    <2>2. row \in Row BY <2>1 DEF Edited, Row
    <2> DEFINE h == [Idle EXCEPT !.srv = s]
    <2>3. h \in Frame /\ h.srv = s BY IdleFrame, <1>1 DEF FrameOK, Frame
    <2> HIDE DEF h
    <2>4. FrameOK(Editor(s), Saves(h, row, "idle"))
        BY <1>1, <2>2, <2>3, SavesFrame, TaskLabels
    <2> QED BY <1>1, <1>2, <2>4, HelperKeeps DEF h
<1> QED BY <1>3, <1>4

LEMMA TimerKeeps == ASSUME IInv, NEW n \in Sessions, TimerFires(n) PROVE IInv'
<1> DEFINE s == java[n].srv
           h == [Idle EXCEPT !.srv = s, !.n = n]
           row == [mem[s] EXCEPT !.overdue = TRUE]
<1>1. timers \in [Sessions -> 0..MaxTimers] /\ timers[n] > 0 /\ timers' = [timers EXCEPT ![n] = @ - 1]
    BY DEF TimerFires, IInv, TypeOK
<1>2. s \in Servers BY <1>1 DEF IInv, SessionsNumbered
<1>3. timers' \in [Sessions -> 0..MaxTimers] BY <1>1, BoundsAssumption
<1>4. RowsStay /\ SharedKept /\ UNCHANGED java
    BY DEF TimerFires, RowsStay, SharedKept
<1>5. JavaKept
    <2>1. n <= count.session BY <1>1, AtWork DEF IInv, SessionsNumbered, Sessions
    <2> QED BY <1>1, <1>4, <2>1, AtWork DEF JavaKept, IInv, SessionsNumbered, Sessions
<1>6. task' \in [Tasks -> Frame] => TypeOK'
    BY <1>3 DEF TimerFires, IInv, TypeOK
<1>7. CASE UNCHANGED task
    BY <1>4, <1>5, <1>6, <1>7, AtWork, NoMoveKeeps
<1>8. CASE mem[s] # None /\ Becomes(Timer(n), Saves(h, row, "idle"))
    <2>1. h \in Frame /\ h.srv = s /\ row \in Row
        <3>1. Idle \in Frame BY IdleFrame, TaskNames DEF FrameOK
        <3>2. mem[s] \in Row BY <1>2, <1>8 DEF IInv, TypeOK
        <3>3. h \in Frame /\ h.srv = s BY <1>2, <3>1 DEF Frame
        <3> QED BY <3>2, <3>3 DEF Row
    <2>2. /\ Timer(n) \in Tasks /\ \A c \in Clients : Timer(n) # Cmd(c)
          /\ \A m \in Sessions : Timer(n) # Monitor(m) /\ "idle" \in AfterSave(Timer(n))
        BY TaskNames, TaskKinds, TaskLabels
    <2> HIDE DEF h, row, s
    <2>3. FrameOK(Timer(n), Saves(h, row, "idle"))
        BY <1>2, <2>1, <2>2, SavesFrame, TaskLabels
    <2> QED BY <1>4, <1>5, <1>6, <1>8, <2>2, <2>3, HelperKeeps
<1> QED BY <1>7, <1>8 DEF TimerFires

(* A reader or probe hands a clone to save_server, or goes to another label. *)
LEMMA HelperSavesKeeps ==
    ASSUME IInv, NEW t \in Tasks, \A c \in Clients : t # Cmd(c), \A n \in Sessions : t # Monitor(n),
           ~ At(t, "idle"), ~ At(t, "quitNext"), ~ At(t, "quitWait"), ~ At(t, "exit"),
           NEW row \in Row, NEW l \in AfterSave(t), SaveThen(t, row, l),
           RowsStay, SharedKept, JavaKept, task' \in [Tasks -> Frame] => TypeOK'
    PROVE  IInv'
<1>1. task[t] \in Frame /\ task[t].srv \in Servers
    BY AtWork DEF FramesOK, FrameOK, At
<1> DEFINE g == Saves(task[t], row, l)
<1>2. FrameOK(t, g) BY <1>1, SavesFrame
<1>3. Becomes(t, g) BY DEF SaveThen
<1> HIDE DEF g
<1> QED BY <1>2, <1>3, HelperKeeps

LEMMA HelperGoesKeeps ==
    ASSUME IInv, NEW t \in Tasks, \A c \in Clients : t # Cmd(c), \A n \in Sessions : t # Monitor(n),
           ~ At(t, "idle"), ~ At(t, "quitNext"), ~ At(t, "quitWait"), ~ At(t, "exit"),
           NEW l \in LabelsOf(t) \ {"saveDb", "saveMem"}, Goto(t, l),
           RowsStay, SharedKept, JavaKept, task' \in [Tasks -> Frame] => TypeOK'
    PROVE  IInv'
<1>1. FrameOK(t, task[t]) /\ task[t].srv \in Servers
    BY AtWork DEF FramesOK, FrameOK, At
<1> DEFINE g == [task[t] EXCEPT !.at = l]
<1>2. FrameOK(t, g) BY <1>1, GoesTo
<1>3. Becomes(t, g) BY DEF Goto
<1> HIDE DEF g
<1> QED BY <1>2, <1>3, HelperKeeps

(* Only the task function changes. *)
LEMMA OnlyTaskKeeps ==
    ASSUME IInv, UNCHANGED allButTask
    PROVE  RowsStay /\ SharedKept /\ JavaKept /\ (task' \in [Tasks -> Frame] => TypeOK')
<1>1. RowsStay /\ SharedKept BY DEF RowsStay, SharedKept, allButTask
<1>2. JavaKept BY JavaUntouched DEF allButTask
<1>3. TypeOK BY DEF IInv
<1> QED BY <1>1, <1>2, <1>3, OnlyTaskTyped

LEMMA ReaderKeeps == ASSUME IInv, NEW n \in Sessions, ReaderStep(n) PROVE IInv'
<1> DEFINE t == Reader(n)
           s == task[t].srv
<1>1. /\ t \in Tasks /\ \A c \in Clients : t # Cmd(c)
      /\ \A m \in Sessions : t # Monitor(m) /\ "read" \in AfterSave(t) /\ "kill" \in AfterSave(t)
      /\ "read" \in LabelsOf(t) \ {"saveDb", "saveMem"}
    BY TaskNames, TaskKinds, TaskLabels DEF HelperLabels
<1>2. task[t].at \in {"read", "kill"}
    BY DEF ReaderStep, ReadyLine, FatalLine, PlayerLine, ReaderKills, ReaderEnds, At
<1>3. s \in Servers /\ ~ At(t, "idle") /\ ~ At(t, "quitNext") /\ ~ At(t, "quitWait") /\ ~ At(t, "exit")
    BY <1>1, <1>2, AtWork DEF FramesOK, FrameOK, At
<1>4. CASE ReadyLine(n) \/ FatalLine(n)
    <2>1. mem[s] \in Row BY <1>3, <1>4 DEF ReadyLine, FatalLine, IInv, TypeOK
    <2>2. \A st \in Status : [mem[s] EXCEPT !.status = st] \in Row
        BY <2>1 DEF Row
    <2>3. \E st \in Status, l \in {"read", "kill"} : SaveThen(t, [mem[s] EXCEPT !.status = st], l)
        BY <1>4 DEF ReadyLine, FatalLine, Status
    <2>4. UNCHANGED allButTask BY <1>4 DEF ReadyLine, FatalLine
    <2> HIDE DEF t, s
    <2> QED BY <1>1, <1>3, <2>2, <2>3, <2>4, OnlyTaskKeeps, HelperSavesKeeps
<1>5. CASE PlayerLine(n)
    <2>1. mem[s] \in Row BY <1>3, <1>5 DEF PlayerLine, IInv, TypeOK
    <2>2. RowsStay /\ SharedKept BY <1>5 DEF PlayerLine, RowsStay, SharedKept, IInv, TypeOK
    <2>3. JavaKept BY <1>5, JavaUntouched DEF PlayerLine
    <2>4. count' \in [session : 0..MaxSessions, command : 0..MaxCommands, edit : 0..MaxEdits,
                      quit : 0..MaxQuits, dbFailure : 0..MaxDbFailures, launch : 0..MaxLaunches]
        BY <1>5, BoundsAssumption DEF PlayerLine, IInv, TypeOK
    <2>5. task' \in [Tasks -> Frame] => TypeOK'
        BY <1>5, <2>4 DEF PlayerLine, IInv, TypeOK
    <2>6. SaveThen(t, mem[s], "read") BY <1>5 DEF PlayerLine
    <2> HIDE DEF t, s
    <2> QED BY <1>1, <1>3, <2>1, <2>2, <2>3, <2>5, <2>6, HelperSavesKeeps
<1>6. CASE ReaderKills(n)
    <2>1. RowsStay /\ SharedKept BY <1>6 DEF ReaderKills, RowsStay, SharedKept
    <2>2. JavaKept /\ java' \in [Sessions -> Process]
        <3>1. CASE registry[s] = None
            BY <1>6, <3>1, JavaUntouched DEF ReaderKills, IInv, TypeOK
        <3>2. CASE registry[s] # None
            BY <1>3, <1>6, <3>2, KillKeepsJava DEF ReaderKills
        <3> QED BY <3>1, <3>2
    <2>3. task' \in [Tasks -> Frame] => TypeOK'
        BY <1>6, <2>2 DEF ReaderKills, IInv, TypeOK
    <2>4. Goto(t, "read") BY <1>6 DEF ReaderKills
    <2> HIDE DEF t, s
    <2> QED BY <1>1, <1>3, <2>1, <2>2, <2>3, <2>4, HelperGoesKeeps
<1>7. CASE ReaderEnds(n)
    <2>1. Becomes(t, Idle) /\ UNCHANGED allButTask BY <1>7 DEF ReaderEnds, Finish
    <2> HIDE DEF t, s
    <2> QED BY <1>1, <2>1, IdleFrame, OnlyTaskKeeps, HelperKeeps
<1> QED BY <1>4, <1>5, <1>6, <1>7 DEF ReaderStep

LEMMA ProbeKeeps == ASSUME IInv, NEW n \in Sessions, ProbeStep(n) PROVE IInv'
<1> DEFINE t == Probe(n)
           s == task[t].srv
<1>1. /\ t \in Tasks /\ \A c \in Clients : t # Cmd(c)
      /\ \A m \in Sessions : t # Monitor(m) /\ "idle" \in AfterSave(t)
      /\ "hit" \in LabelsOf(t) \ {"saveDb", "saveMem"}
    BY TaskNames, TaskKinds, TaskLabels DEF HelperLabels
<1>2. task[t].at \in {"probe", "hit"}
    BY DEF ProbeStep, ProbeConnects, ProbeReports, ProbeGivesUp, At
<1>3. s \in Servers /\ ~ At(t, "idle") /\ ~ At(t, "quitNext") /\ ~ At(t, "quitWait") /\ ~ At(t, "exit")
    BY <1>1, <1>2, AtWork DEF FramesOK, FrameOK, At
<1>4. UNCHANGED allButTask
    BY DEF ProbeStep, ProbeConnects, ProbeReports, ProbeGivesUp
<1>5. CASE Goto(t, "hit")
    <2> HIDE DEF t, s
    <2> QED BY <1>1, <1>3, <1>4, <1>5, OnlyTaskKeeps, HelperGoesKeeps
<1>6. CASE Finish(t)
    <2> HIDE DEF t, s
    <2> QED BY <1>1, <1>4, <1>6, IdleFrame, OnlyTaskKeeps, HelperKeeps DEF Finish
<1>7. CASE mem[s] # None /\ SaveThen(t, [mem[s] EXCEPT !.status = "running"], "idle")
    <2>1. mem[s] \in Row BY <1>3, <1>7 DEF IInv, TypeOK
    <2>2. [mem[s] EXCEPT !.status = "running"] \in Row
        BY <2>1 DEF Row, Status
    <2> HIDE DEF t, s
    <2> QED BY <1>1, <1>3, <1>4, <1>7, <2>2, OnlyTaskKeeps, HelperSavesKeeps
<1> QED BY <1>5, <1>6, <1>7 DEF ProbeStep, ProbeConnects, ProbeReports, ProbeGivesUp

-----------------------------------------------------------------------------
(* The exit monitor. *)

LEMMA MonitorFrame ==
    ASSUME IInv, NEW n \in Sessions, ~ At(Monitor(n), "idle")
    PROVE  /\ Monitor(n) \in Tasks /\ \A c \in Clients : Monitor(n) # Cmd(c)
           /\ \A m \in Sessions : Monitor(n) = Monitor(m) => m = n
           /\ FrameOK(Monitor(n), task[Monitor(n)]) /\ task[Monitor(n)] \in Frame
           /\ task[Monitor(n)].srv \in Servers
           /\ LabelsOf(Monitor(n)) = MonitorLabels
           /\ AfterSave(Monitor(n)) = {"log", "unregister"}
<1>1. Monitor(n) \in Tasks /\ \A c \in Clients : Monitor(n) # Cmd(c)
    BY TaskNames, TaskKinds
<1>2. \A m \in Sessions : Monitor(n) = Monitor(m) => m = n
    BY TaskNames
<1> QED BY <1>1, <1>2, AtWork, TaskLabels

(* A monitor goes to another label of its bookkeeping. *)
LEMMA MonitorGoesKeeps ==
    ASSUME IInv, NEW n \in Sessions, Watches(n), NEW l \in {"join", "verdict", "disk", "unregister"},
           Goto(Monitor(n), l), UNCHANGED allButTask
    PROVE  IInv'
<1> DEFINE t == Monitor(n)
           g == [task[t] EXCEPT !.at = l]
<1>1. ~ At(t, "idle") BY DEF Watches, At
<1>2. l \in LabelsOf(t) \ {"saveDb", "saveMem"}
    BY <1>1, MonitorFrame DEF MonitorLabels
<1>3. FrameOK(t, g) /\ g.at = l /\ g.srv = task[t].srv
    BY <1>1, <1>2, MonitorFrame, GoesTo
<1>4. Becomes(t, g) BY DEF Goto
<1>5. t \in Tasks /\ (\A c \in Clients : t # Cmd(c)) /\ \A m \in Sessions : t = Monitor(m) => m = n
    BY <1>1, MonitorFrame
<1> HIDE DEF g, t
<1> QED BY <1>3, <1>4, <1>5, OnlyTaskKeeps, PlainMoveKeeps

(* A monitor hands a clone to save_server. *)
LEMMA MonitorSavesKeeps ==
    ASSUME IInv, NEW n \in Sessions, Watches(n), NEW f \in Frame, f.srv = task[Monitor(n)].srv,
           NEW row \in Row, NEW l \in {"log", "unregister"},
           l = "log" => f.srv \notin Ephemeral /\ f.op \in Outcome,
           Becomes(Monitor(n), Saves(f, row, l)), UNCHANGED allButTask
    PROVE  IInv'
<1> DEFINE t == Monitor(n)
           g == Saves(f, row, l)
<1>1. ~ At(t, "idle") BY DEF Watches, At
<1>2. f.srv \in Servers /\ l \in AfterSave(t)
    BY <1>1, MonitorFrame
<1>3. FrameOK(t, g) /\ g.at = "saveDb" /\ g.srv = task[t].srv /\ g.op = f.op /\ g.then = l
    BY <1>1, <1>2, MonitorFrame, SavesFrame
<1>4. t \in Tasks /\ (\A c \in Clients : t # Cmd(c)) /\ \A m \in Sessions : t = Monitor(m) => m = n
    BY <1>1, MonitorFrame
<1> HIDE DEF g
<1>5. Becomes(t, g) BY DEF g
<1> HIDE DEF t
<1> QED BY <1>3, <1>4, <1>5, OnlyTaskKeeps, PlainMoveKeeps DEF t

LEMMA MonitorVerdictKeeps == ASSUME IInv, NEW n \in Sessions, MonitorVerdict(n) PROVE IInv'
<1> DEFINE t == Monitor(n)
           s == task[t].srv
           ok == Graceful(n, mem[s])
           f == [task[t] EXCEPT !.op = IF ok THEN "clean-stop" ELSE "crashed"]
           row == [mem[s] EXCEPT !.status = IF ok THEN "stopped" ELSE "crashed", !.overdue = FALSE]
<1>1. Watches(n) /\ ~ At(t, "idle") BY DEF MonitorVerdict, Watches, At
<1>2. s \in Servers /\ task[t] \in Frame BY <1>1, MonitorFrame
<1>3. UNCHANGED allButTask BY DEF MonitorVerdict
<1>4. CASE mem[s] = None
    <2>1. Goto(t, "unregister") BY <1>4 DEF MonitorVerdict
    <2> QED BY <1>1, <1>3, <2>1, MonitorGoesKeeps
<1>5. CASE mem[s] # None
    <2>1. mem[s] \in Row BY <1>2, <1>5 DEF IInv, TypeOK
    <2>2. row \in Row BY <2>1 DEF Row, Status
    <2>3. f \in Frame /\ f.srv = s /\ f.op \in Outcome BY <1>2 DEF Frame, Outcome
    <2>4. Becomes(t, Saves(f, row, IF s \in Ephemeral THEN "unregister" ELSE "log"))
        BY <1>5 DEF MonitorVerdict
    <2> HIDE DEF f, row
    <2> QED BY <1>1, <1>3, <2>2, <2>3, <2>4, MonitorSavesKeeps
<1> QED BY <1>4, <1>5

LEMMA MonitorDiskKeeps == ASSUME IInv, NEW n \in Sessions, MonitorMeasuresDisk(n) PROVE IInv'
<1> DEFINE t == Monitor(n)
           s == task[t].srv
<1>1. Watches(n) /\ ~ At(t, "idle") BY DEF MonitorMeasuresDisk, Watches, At
<1>2. s \in Servers /\ task[t] \in Frame BY <1>1, MonitorFrame
<1>3. UNCHANGED allButTask BY DEF MonitorMeasuresDisk
<1>4. CASE mem[s] = None
    BY <1>1, <1>3, <1>4, MonitorGoesKeeps DEF MonitorMeasuresDisk
<1>5. CASE mem[s] # None
    <2>1. mem[s] \in Row BY <1>2, <1>5 DEF IInv, TypeOK
    <2>2. Becomes(t, Saves(task[t], mem[s], "unregister"))
        BY <1>5 DEF MonitorMeasuresDisk, SaveThen
    <2> QED BY <1>1, <1>2, <1>3, <2>1, <2>2, MonitorSavesKeeps
<1> QED BY <1>4, <1>5

(* Joining the readers moves two tasks: the reader ends wherever it is. *)
LEMMA MonitorJoinsKeeps == ASSUME IInv, NEW n \in Sessions, MonitorJoins(n) PROVE IInv'
<1> DEFINE g == [task[Monitor(n)] EXCEPT !.at = "verdict"]
<1>1. Watches(n) /\ ~ At(Monitor(n), "idle") BY DEF MonitorJoins, Watches, At
<1>2. Monitor(n) # Reader(n) /\ Reader(n) \in Tasks /\ Monitor(n) \in Tasks
      /\ (\A c \in Clients : Cmd(c) # Reader(n) /\ Cmd(c) # Monitor(n))
      /\ \A m \in Sessions : Monitor(m) # Reader(n) /\ (m # n => Monitor(m) # Monitor(n))
    BY TaskNames, TaskKinds
<1>3. FrameOK(Monitor(n), g) /\ g.at = "verdict" /\ g.srv = task[Monitor(n)].srv
    <2>1. "verdict" \in LabelsOf(Monitor(n)) \ {"saveDb", "saveMem"}
        BY <1>1, MonitorFrame DEF MonitorLabels
    <2> QED BY <1>1, <2>1, MonitorFrame, GoesTo
<1>4. task' = [task EXCEPT ![Monitor(n)] = g, ![Reader(n)] = Idle]
    BY DEF MonitorJoins
<1>5. task \in [Tasks -> Frame] /\ FrameOK(Reader(n), Idle)
    BY <1>2, AtWork, IdleFrame
<1> HIDE DEF g
<1>6. /\ task' \in [Tasks -> Frame] /\ task'[Monitor(n)] = g
      /\ \A u \in Tasks : u # Monitor(n) /\ u # Reader(n) => task'[u] = task[u]
      /\ task'[Reader(n)] = Idle
    BY <1>2, <1>3, <1>4, <1>5 DEF FrameOK
<1>7. FramesOK'
    <2>1. \A u \in Tasks : FrameOK(u, task'[u])
        BY <1>3, <1>5, <1>6, AtWork DEF FramesOK
    <2> QED BY <2>1 DEF FramesOK, FrameOK
<1>8. OtherMonitorsKept(n) /\ CmdsKept
    BY <1>2, <1>6, TaskNames DEF OtherMonitorsKept, CmdsKept
<1>9. RowsStay /\ SharedKept /\ JavaKept /\ TypeOK'
    BY <1>6, OnlyTaskKeeps DEF MonitorJoins
<1>10. Rest'
    BY <1>1, <1>3, <1>6, <1>8, <1>9, MonitorMoves DEF Watches, Saving
<1> QED BY <1>6, <1>7, <1>9, <1>10 DEF IInv, Rest

LEMMA MonitorLogsKeeps == ASSUME IInv, NEW n \in Sessions, MonitorLogs(n) PROVE IInv'
<1> DEFINE f == task[Monitor(n)]
           g == [f EXCEPT !.at = "disk"]
<1>1. f.at = "log" /\ Watches(n) /\ ~ At(Monitor(n), "idle") BY DEF MonitorLogs, Watches, At
<1>2. f.srv \in Servers /\ f.srv \notin Ephemeral /\ f.op \in Outcome /\ db[f.srv] # None
    BY <1>1, MonitorFrame DEF IInv, RowsKept
<1>3. FrameOK(Monitor(n), g) /\ g.at = "disk" /\ g.srv = f.srv
    <2>1. "disk" \in LabelsOf(Monitor(n)) \ {"saveDb", "saveMem"}
        BY <1>1, MonitorFrame DEF MonitorLabels
    <2> QED BY <1>1, <1>2, <2>1, MonitorFrame, GoesTo
<1>4. /\ task' \in [Tasks -> Frame] /\ FramesOK' /\ task'[Monitor(n)] = g
      /\ \A u \in Tasks : u # Monitor(n) => task'[u] = task[u]
    BY <1>1, <1>3, Moves, AtWork, MonitorFrame DEF MonitorLogs, Goto
<1>5. OtherMonitorsKept(n) /\ CmdsKept
    BY <1>1, <1>4, MonitorFrame, OthersKept
<1>6. /\ logs' = [logs EXCEPT ![f.srv] = @ \cup {<<n, f.op>>}]
      /\ UNCHANGED <<mem, db, registry, java, stopReq, timers, startLock, opLock, quitIds, count>>
    BY DEF MonitorLogs
<1>7. TypeOK'
    <2>1. logs \in [Servers -> SUBSET (Sessions \X Outcome)] /\ <<n, f.op>> \in Sessions \X Outcome
        BY <1>2 DEF IInv, TypeOK
    <2>2. logs' \in [Servers -> SUBSET (Sessions \X Outcome)]
        BY <1>2, <1>6, <2>1
    <2> QED BY <1>4, <1>6, <2>2 DEF IInv, TypeOK
<1> HIDE DEF g, f
<1> USE AtWork DEF IInv, OtherMonitorsKept, CmdsKept
<1>8. SessionsNumbered' BY <1>1, <1>3, <1>4, <1>5, <1>6 DEF SessionsNumbered, At, f
<1>9. LocksHeld' BY <1>5, <1>6 DEF LocksHeld, Starting, Saving, At
<1>10. StartKeepsChecks' BY <1>1, <1>3, <1>4, <1>5, <1>6 DEF StartKeepsChecks, Begins, Starting, Saving, At, f
<1>11. RowsKept' BY <1>1, <1>2, <1>3, <1>4, <1>5, <1>6 DEF RowsKept, Starting, Saving, Watches, f
<1>12. PortsReserved' BY <1>6 DEF PortsReserved
<1>13. MonitorOwnsEntry' BY <1>1, <1>3, <1>4, <1>5, <1>6 DEF MonitorOwnsEntry, f
<1>14. LogsHaveServer' BY <1>2, <1>6 DEF LogsHaveServer, TypeOK
<1> QED BY <1>4, <1>7, <1>8, <1>9, <1>10, <1>11, <1>12, <1>13, <1>14

(* A monitor gives its entry up, or has given it up: what it removes from then
   on belongs to a quick server. *)
LEMMA MonitorLeaves ==
    ASSUME IInv, NEW n \in Sessions, ~ At(Monitor(n), "idle"), NEW s \in Servers,
           s = task[Monitor(n)].srv, OtherMonitorsKept(n), CmdsKept,
           UNCHANGED <<java, timers, startLock, opLock, count>>,
           task'[Monitor(n)].at \in {"idle", "ephRow", "ephMem"},
           task'[Monitor(n)].at # "idle" => task'[Monitor(n)].srv \in Ephemeral,
           \A o \in Servers : registry'[o] = registry[o] \/ (o = s /\ Watches(n) /\ registry'[o] = None),
           \A o \in Servers : \/ db'[o] = db[o] /\ logs'[o] = logs[o]
                              \/ o \in Ephemeral /\ logs'[o] = {}
    PROVE  Rest'
<1> USE AtWork, SetsAssumption DEF IInv, OtherMonitorsKept, CmdsKept
<1>1. SessionsNumbered' BY DEF SessionsNumbered, At
<1>2. LocksHeld' BY DEF LocksHeld, Starting, Saving, At
<1>3. Watches(n) => registry[s] # None /\ registry[s].n = n
    BY DEF MonitorOwnsEntry, Watches
<1>4. \A c \in Clients : Starting(c) /\ task[Cmd(c)].at # "spawn" => task[Cmd(c)].n # n
    BY DEF StartKeepsChecks, Starting, Saving, At
<1>5. StartKeepsChecks'
    <2> SUFFICES ASSUME NEW c \in Clients
                 PROVE  LET f == task[Cmd(c)]
                        IN  /\ f.at \in {"spawn", "assign", "insert"} =>
                                 /\ f.row \in Row
                                 /\ registry'[f.srv] = None
                                 /\ \A o \in Servers : registry'[o] # None => registry'[o].port # f.row.port
                            /\ f.at = "spawn" => count.session < MaxSessions
                            /\ Starting(c) /\ f.at # "spawn" =>
                                 /\ f.n \in Sessions /\ f.n <= count.session
                                 /\ java[f.n].srv = f.srv
                                 /\ task'[Monitor(f.n)].at = "idle"
                            /\ Begins(c) => registry'[f.srv] # None /\ registry'[f.srv].n = f.n
        BY DEF StartKeepsChecks, Begins, Starting, Saving, At
    <2> DEFINE f == task[Cmd(c)]
    <2>1. f.at \in {"spawn", "assign", "insert"} =>
              /\ f.row \in Row /\ registry[f.srv] = None /\ f.srv \in Servers
              /\ \A o \in Servers : registry[o] # None => registry[o].port # f.row.port
        BY DEF StartKeepsChecks, At
    <2>2. Starting(c) /\ f.at # "spawn" =>
              /\ f.n \in Sessions /\ f.n <= count.session /\ java[f.n].srv = f.srv
              /\ task'[Monitor(f.n)].at = "idle"
        BY <1>4 DEF StartKeepsChecks, At
    <2>3. Begins(c) => registry[f.srv] # None /\ registry[f.srv].n = f.n /\ f.n # n /\ f.srv \in Servers
        BY <1>4 DEF StartKeepsChecks, Begins, Starting, Saving, At
    <2>4. f.at = "spawn" => count.session < MaxSessions
        BY DEF StartKeepsChecks
    <2> QED BY <1>3, <2>1, <2>2, <2>3, <2>4
<1>6. RowsKept'
    <2>1. \A o \in Servers : o \notin Ephemeral => db'[o] = db[o]
        OBVIOUS
    <2>2. \A c \in Clients :
            /\ (task[Cmd(c)].at \in {"removeRow", "removeMem"} => registry[task[Cmd(c)].srv] = None)'
            /\ (Starting(c) /\ task[Cmd(c)].at \in {"saveMem", "started"}
                  /\ task[Cmd(c)].srv \notin Ephemeral => db[task[Cmd(c)].srv] # None)'
        BY <2>1 DEF RowsKept, Starting, Saving, At
    <2>3. \A m \in Sessions : m # n =>
            LET f == task[Monitor(m)]
            IN  /\ Watches(m) /\ f.srv \notin Ephemeral => db'[f.srv] # None
                /\ f.at \in {"ephRow", "ephMem"} => f.srv \in Ephemeral
                /\ f.at = "log" \/ (Saving(Monitor(m)) /\ f.then = "log") =>
                      f.srv \notin Ephemeral /\ f.op \in Outcome
        BY <2>1 DEF RowsKept, Watches, At
    <2> QED BY <2>2, <2>3 DEF RowsKept, Watches, Saving
<1>7. PortsReserved' BY DEF PortsReserved
<1>8. MonitorOwnsEntry'
    <2> SUFFICES ASSUME NEW m \in Sessions, task'[Monitor(m)].at \notin {"idle", "ephRow", "ephMem"}
                 PROVE  registry'[task'[Monitor(m)].srv] # None /\ registry'[task'[Monitor(m)].srv].n = m
        BY DEF MonitorOwnsEntry
    <2>1. m # n /\ task'[Monitor(m)] = task[Monitor(m)] OBVIOUS
    <2>2. /\ task[Monitor(m)].srv \in Servers /\ registry[task[Monitor(m)].srv] # None
          /\ registry[task[Monitor(m)].srv].n = m
        BY <2>1 DEF MonitorOwnsEntry, At
    <2> QED BY <1>3, <2>1, <2>2
<1>9. LogsHaveServer' BY DEF LogsHaveServer
<1> QED BY <1>1, <1>2, <1>5, <1>6, <1>7, <1>8, <1>9 DEF Rest

LEMMA MonitorUnregistersKeeps == ASSUME IInv, NEW n \in Sessions, MonitorUnregisters(n) PROVE IInv'
<1> DEFINE t == Monitor(n)
           s == task[t].srv
           g == [task[t] EXCEPT !.at = "ephRow"]
<1>1. Watches(n) /\ ~ At(t, "idle") BY DEF MonitorUnregisters, Watches, At
<1>2. s \in Servers /\ t \in Tasks /\ FrameOK(t, Idle) BY <1>1, MonitorFrame, IdleFrame
<1>3. FrameOK(t, g) /\ g.at = "ephRow" /\ g.srv = s
    <2>1. "ephRow" \in LabelsOf(t) \ {"saveDb", "saveMem"}
        BY <1>1, MonitorFrame DEF MonitorLabels
    <2> QED BY <1>1, <2>1, MonitorFrame, GoesTo
<1>4. PICK h : Becomes(t, h) /\ (h = Idle \/ (h = g /\ s \in Ephemeral))
    BY DEF MonitorUnregisters, Goto, Finish
<1> HIDE DEF g, s
<1>5. FrameOK(t, h) /\ h.at \in {"idle", "ephRow"} /\ (h.at # "idle" => h.srv \in Ephemeral)
    <2>1. Idle.at = "idle" BY DEF Idle
    <2> QED BY <1>2, <1>3, <1>4, <2>1
<1> USE DEF s
<1>6. /\ task' \in [Tasks -> Frame] /\ FramesOK' /\ task'[t] = h
      /\ \A u \in Tasks : u # t => task'[u] = task[u]
    BY <1>2, <1>4, <1>5, Moves, AtWork
<1>7. OtherMonitorsKept(n) /\ CmdsKept
    BY <1>2, <1>6, OthersKept
<1>8. /\ registry' = [registry EXCEPT ![s] = None]
      /\ UNCHANGED <<mem, db, logs, java, stopReq, timers, startLock, opLock, quitIds, count>>
    BY DEF MonitorUnregisters
<1>9. TypeOK' BY <1>6, <1>8 DEF IInv, TypeOK
<1>10. \A o \in Servers : registry'[o] = registry[o] \/ (o = s /\ Watches(n) /\ registry'[o] = None)
    BY <1>1, <1>8 DEF IInv, TypeOK
<1> HIDE DEF g
<1>11. Rest' BY <1>1, <1>2, <1>5, <1>6, <1>7, <1>8, <1>10, MonitorLeaves
<1> QED BY <1>6, <1>9, <1>11 DEF IInv, Rest

LEMMA EphemeralKeeps ==
    ASSUME IInv, NEW n \in Sessions, EphemeralRow(n) \/ EphemeralMem(n) PROVE IInv'
<1> DEFINE t == Monitor(n)
           s == task[t].srv
           g == [task[t] EXCEPT !.at = "ephMem"]
<1>1. ~ At(t, "idle") /\ task[t].at \in {"ephRow", "ephMem"}
    BY DEF EphemeralRow, EphemeralMem, At
<1>2. s \in Servers /\ s \in Ephemeral /\ t \in Tasks /\ FrameOK(t, Idle)
    BY <1>1, MonitorFrame, IdleFrame DEF IInv, RowsKept
<1>3. FrameOK(t, g) /\ g.at = "ephMem" /\ g.srv = s
    <2>1. "ephMem" \in LabelsOf(t) \ {"saveDb", "saveMem"}
        BY <1>1, MonitorFrame DEF MonitorLabels
    <2> QED BY <1>1, <2>1, MonitorFrame, GoesTo
<1>4. PICK h \in {g, Idle} : Becomes(t, h)
    BY DEF EphemeralRow, EphemeralMem, Goto, Finish
<1> HIDE DEF g, s
<1>5. FrameOK(t, h) /\ h.at \in {"idle", "ephMem"} /\ (h.at # "idle" => h.srv \in Ephemeral)
    <2>1. Idle.at = "idle" BY DEF Idle
    <2> QED BY <1>2, <1>3, <1>4, <2>1
<1> USE DEF s
<1>6. /\ task' \in [Tasks -> Frame] /\ FramesOK' /\ task'[t] = h
      /\ \A u \in Tasks : u # t => task'[u] = task[u]
    BY <1>2, <1>4, <1>5, Moves, AtWork
<1>7. OtherMonitorsKept(n) /\ CmdsKept
    BY <1>2, <1>6, OthersKept
<1>8. UNCHANGED <<registry, java, stopReq, timers, startLock, opLock, quitIds, count>>
    BY DEF EphemeralRow, EphemeralMem
<1>9. /\ db' \in [Servers -> Row \cup {None}] /\ mem' \in [Servers -> Row \cup {None}]
      /\ logs' \in [Servers -> SUBSET (Sessions \X Outcome)]
      /\ \A o \in Servers : \/ db'[o] = db[o] /\ logs'[o] = logs[o]
                            \/ o \in Ephemeral /\ logs'[o] = {}
    <2>1. CASE EphemeralRow(n) BY <1>2, <2>1 DEF EphemeralRow, IInv, TypeOK
    <2>2. CASE EphemeralMem(n) BY <2>2 DEF EphemeralMem, IInv, TypeOK
    <2> QED BY <2>1, <2>2
<1>10. TypeOK' BY <1>6, <1>8, <1>9 DEF IInv, TypeOK
<1> HIDE DEF g
<1>11. Rest' BY <1>1, <1>2, <1>5, <1>6, <1>7, <1>8, <1>9, MonitorLeaves
<1> QED BY <1>6, <1>10, <1>11 DEF IInv, Rest

LEMMA MonitorSeesExitKeeps == ASSUME IInv, NEW n \in Sessions, MonitorSeesExit(n) PROVE IInv'
<1>1. Watches(n) /\ Goto(Monitor(n), "join") /\ UNCHANGED allButTask
    BY DEF MonitorSeesExit, Watches, At
<1> QED BY <1>1, MonitorGoesKeeps

-----------------------------------------------------------------------------
(* Quitting, and the next launch. *)

(* The steps of quitting but the exit itself. *)
QuitMoves ==
    \/ QuitBegins \/ (\E s \in Servers : QuitStops(s)) \/ QuitStopFailed \/ QuitWaits
    \/ QuitSeesEmpty \/ QuitGivesUp

LEMMA QuitStepsKeep ==
    ASSUME IInv, QuitMoves
    PROVE  IInv'
<1>1. /\ Quit \in Tasks /\ \A c \in Clients : Quit # Cmd(c)
      /\ \A n \in Sessions : Quit # Monitor(n)
    BY TaskNames, TaskKinds
<1>2. UNCHANGED <<mem, db, logs, registry, java, stopReq, timers, startLock, opLock>>
      /\ quitIds' \subseteq Servers /\ count'.session = count.session
    BY DEF QuitMoves, QuitBegins, QuitStops, QuitStopFailed, QuitWaits, QuitGivesUp, QuitSeesEmpty, allButTask, IInv, TypeOK
<1>3. RowsStay /\ SharedKept /\ JavaKept
    BY <1>2, JavaUntouched DEF RowsStay, SharedKept
<1>4. count' \in [session : 0..MaxSessions, command : 0..MaxCommands, edit : 0..MaxEdits,
                  quit : 0..MaxQuits, dbFailure : 0..MaxDbFailures, launch : 0..MaxLaunches]
    <2>1. CASE QuitBegins BY <2>1, BoundsAssumption DEF QuitBegins, IInv, TypeOK
    <2>2. CASE ~ QuitBegins
        <3>1. UNCHANGED count
            BY <2>2 DEF QuitMoves, QuitStops, QuitStopFailed, QuitWaits, QuitGivesUp, QuitSeesEmpty, allButTask
        <3> QED BY <3>1 DEF IInv, TypeOK
    <2> QED BY <2>1, <2>2
<1>5. task' \in [Tasks -> Frame] => TypeOK'
    BY <1>2, <1>4 DEF IInv, TypeOK
<1>6. \E g : FrameOK(Quit, g) /\ Becomes(Quit, g)
    <2>1. FrameOK(Quit, task[Quit]) /\ task[Quit] \in Frame BY <1>1, AtWork DEF FramesOK
    <2>2. CASE QuitBegins \/ QuitStopFailed
        BY <2>2, QuitNextOK DEF QuitBegins, QuitStopFailed
    <2>3. CASE QuitGivesUp
        BY <1>1, <2>3, IdleFrame DEF QuitGivesUp, Finish
    <2>4. CASE QuitWaits \/ QuitSeesEmpty
        <3> PICK l \in {"quitWait", "exit"} : Goto(Quit, l)
            BY <2>4 DEF QuitWaits, QuitSeesEmpty
        <3> DEFINE g == [task[Quit] EXCEPT !.at = l]
        <3>1. l \in LabelsOf(Quit) /\ l \in Labels BY TaskLabels DEF QuitLabels, Labels
        <3>2. g \in Frame /\ g.at = l BY <2>1, <3>1 DEF Frame
        <3>3. FrameOK(Quit, g) BY <3>1, <3>2 DEF FrameOK
        <3> QED BY <3>3 DEF Goto
    <2>5. CASE \E s \in Servers : QuitStops(s)
        <3> PICK s \in Servers : QuitStops(s) BY <2>5
        <3> DEFINE g == [task[Quit] EXCEPT !.at = "stop", !.srv = s]
        <3>1. "stop" \in LabelsOf(Quit) /\ "stop" \in Labels BY TaskLabels DEF QuitLabels, Labels
        <3>2. g \in Frame /\ g.at = "stop" /\ g.srv = s BY <2>1, <3>1 DEF Frame
        <3>3. FrameOK(Quit, g) BY <3>1, <3>2 DEF FrameOK
        <3> QED BY <3>3 DEF QuitStops
    <2> QED BY <2>2, <2>3, <2>4, <2>5 DEF QuitMoves
<1> QED BY <1>1, <1>3, <1>5, <1>6, HelperKeeps

LEMMA NextLaunchKeeps == ASSUME IInv, NextLaunch PROVE IInv'
<1> USE AtWork DEF IInv
<1>1. /\ mem' = [s \in Servers |-> IF db[s] = None \/ s \in Ephemeral THEN None ELSE Loaded(db[s])]
      /\ db' = mem' /\ logs' = [s \in Servers |-> IF s \in Ephemeral THEN {} ELSE logs[s]]
      /\ registry' = [s \in Servers |-> None]
      /\ java' = [n \in Sessions |->
                    IF java[n].inJob /\ Alive(n) THEN [java[n] EXCEPT !.st = "dead"] ELSE java[n]]
      /\ timers' = [n \in Sessions |-> 0] /\ startLock' = None
      /\ opLock' = [s \in Servers |-> None] /\ task' = [t \in Tasks |-> Idle] /\ quitIds' = {}
      /\ count.launch < MaxLaunches /\ count' = [count EXCEPT !.launch = @ + 1] /\ stopReq' = stopReq
    BY DEF NextLaunch
<1>2. \A t \in Tasks : task'[t] = Idle /\ FrameOK(t, task'[t])
    BY <1>1, IdleFrame
<1>3. task' \in [Tasks -> Frame] /\ FramesOK'
    <2>1. Idle \in Frame BY IdleFrame, TaskNames DEF FrameOK
    <2> QED BY <1>1, <1>2, <2>1 DEF FramesOK, FrameOK
<1>4. TypeOK'
    <2>1. mem' \in [Servers -> Row \cup {None}]
        <3>1. \A r \in Row : Loaded(r) \in Row BY DEF Loaded, Row, Status
        <3> QED BY <1>1, <3>1 DEF TypeOK
    <2>2. java' \in [Sessions -> Process]
        <3>1. \A n \in Sessions : java[n] \in Process BY DEF TypeOK
        <3>2. \A r \in Process : [r EXCEPT !.st = "dead"] \in Process BY DEF Process
        <3> QED BY <1>1, <3>1, <3>2
    <2>3. count' \in [session : 0..MaxSessions, command : 0..MaxCommands, edit : 0..MaxEdits,
                      quit : 0..MaxQuits, dbFailure : 0..MaxDbFailures, launch : 0..MaxLaunches]
        BY <1>1, BoundsAssumption DEF TypeOK
    <2>4. timers' \in [Sessions -> 0..MaxTimers] BY <1>1, BoundsAssumption
    <2>5. logs' \in [Servers -> SUBSET (Sessions \X Outcome)] BY <1>1 DEF TypeOK
    <2> QED BY <1>1, <1>3, <2>1, <2>2, <2>3, <2>4, <2>5 DEF TypeOK
<1>5. /\ \A c \in Clients : task'[Cmd(c)] = Idle
      /\ \A n \in Sessions : task'[Monitor(n)] = Idle
    BY <1>2, TaskNames
<1>6. SessionsNumbered'
    <2>1. count'.session = count.session BY <1>1 DEF TypeOK
    <2>2. \A n \in Sessions : java'[n].srv = java[n].srv
        BY <1>1 DEF TypeOK, Process
    <2>3. \A n \in Sessions : ~ (n <= count.session) => java'[n].st = "none"
        <3> SUFFICES ASSUME NEW n \in Sessions, ~ (n <= count.session) PROVE java'[n].st = "none"
            OBVIOUS
        <3>1. java[n].st = "none" BY DEF SessionsNumbered
        <3> QED BY <1>1, <3>1 DEF Alive
    <2> QED BY <1>1, <1>5, <2>1, <2>2, <2>3 DEF SessionsNumbered, At, Idle
<1>7. LocksHeld' BY <1>5 DEF LocksHeld, Starting, Saving, At, Idle
<1>8. StartKeepsChecks' BY <1>5 DEF StartKeepsChecks, Begins, Starting, Saving, At, Idle
<1>9. RowsKept' BY <1>5 DEF RowsKept, Starting, Saving, Watches, Idle
<1>10. PortsReserved' BY <1>1 DEF PortsReserved
<1>11. MonitorOwnsEntry' BY <1>5 DEF MonitorOwnsEntry, Idle
<1>12. LogsHaveServer'
    <2>1. \A r \in Row : Loaded(r) \in Row BY DEF Loaded, Row, Status
    <2> QED BY <1>1, <2>1, NoneAssumption DEF LogsHaveServer, TypeOK
<1> QED BY <1>3, <1>4, <1>6, <1>7, <1>8, <1>9, <1>10, <1>11, <1>12

-----------------------------------------------------------------------------
(* The invariant holds at the start and every step keeps it. *)

LEMMA InitOK == Init => IInv
<1> SUFFICES ASSUME Init PROVE IInv
    OBVIOUS
<1> USE DEF Init
<1>1. \A t \in Tasks : task[t] = Idle /\ FrameOK(t, task[t])
    BY IdleFrame
<1>2. /\ \A c \in Clients : task[Cmd(c)] = Idle
      /\ \A n \in Sessions : task[Monitor(n)] = Idle
    BY <1>1, TaskNames
<1>3. TypeOK
    <2>1. task \in [Tasks -> Frame]
        <3>1. Idle \in Frame BY IdleFrame, TaskNames DEF FrameOK
        <3> QED BY <3>1
    <2>2. NoJava \in Process BY DEF NoJava, Process
    <2>3. db \in [Servers -> Row \cup {None}] BY DEF InitialRows
    <2> QED BY <2>1, <2>2, <2>3, BoundsAssumption DEF TypeOK
<1>4. FramesOK BY <1>1 DEF FramesOK
<1>5. SessionsNumbered
    <2>1. count.session = 0 /\ \A n \in Sessions : ~ (n <= 0) BY DEF Sessions
    <2>2. \A n \in Sessions : java[n].st = "none" /\ timers[n] = 0 BY DEF NoJava
    <2>3. \A n \in Sessions : At(Monitor(n), "idle") BY <1>2 DEF At, Idle
    <2>4. \A s \in Servers : registry[s] = None OBVIOUS
    <2> QED BY ONLY <2>1, <2>2, <2>3, <2>4 DEF SessionsNumbered
<1>6. LocksHeld BY <1>2 DEF LocksHeld, Starting, Saving, At, Idle
<1>7. StartKeepsChecks BY <1>2 DEF StartKeepsChecks, Begins, Starting, Saving, At, Idle
<1>8. RowsKept BY <1>2 DEF RowsKept, Starting, Saving, Watches, Idle
<1>9. PortsReserved /\ LogsHaveServer BY DEF PortsReserved, LogsHaveServer
<1>10. MonitorOwnsEntry BY <1>2 DEF MonitorOwnsEntry, Idle
<1> QED BY <1>3, <1>4, <1>5, <1>6, <1>7, <1>8, <1>9, <1>10 DEF IInv

LEMMA CommandKeeps == ASSUME IInv, NEW c \in Clients, CommandStep(c) PROVE IInv'
<1>1. CASE \E s \in Servers, op \in {"start", "stop", "forceStop", "restart", "remove"} :
              BeginCommand(c, s, op)
    BY <1>1, BeginCommandKeeps
<1>2. CASE StartAccepted(c) BY <1>2, StartAcceptedKeeps
<1>3. CASE \/ StartRefused(c) \/ SpawnFails(c) \/ JobAssignFails(c) \/ ForceStop(c) \/ RemoveMem(c)
           \/ CommandFails(c)
    BY <1>3, CommandReturnsKeeps
<1>4. CASE StartSpawn(c) BY <1>4, StartSpawnKeeps
<1>5. CASE AssignJob(c) \/ Register(c) BY <1>5, AssignJobKeeps, RegisterKeeps
<1>6. CASE Started(c) BY <1>6, StartedKeeps
<1>7. CASE Restart(c) \/ AwaitExit(c) \/ Remove(c) \/ RemoveWait(c) \/ RecycleFails(c)
    BY <1>7, CommandMovesKeeps
<1>8. CASE RemoveRow(c) BY <1>8, RemoveRowKeeps
<1> QED BY <1>1, <1>2, <1>3, <1>4, <1>5, <1>6, <1>7, <1>8 DEF CommandStep

LEMMA MonitorKeeps == ASSUME IInv, NEW n \in Sessions, MonitorStep(n) PROVE IInv'
<1>1. CASE MonitorSeesExit(n) BY <1>1, MonitorSeesExitKeeps
<1>2. CASE MonitorJoins(n) BY <1>2, MonitorJoinsKeeps
<1>3. CASE MonitorVerdict(n) BY <1>3, MonitorVerdictKeeps
<1>4. CASE MonitorLogs(n) BY <1>4, MonitorLogsKeeps
<1>5. CASE MonitorMeasuresDisk(n) BY <1>5, MonitorDiskKeeps
<1>6. CASE MonitorUnregisters(n) BY <1>6, MonitorUnregistersKeeps
<1>7. CASE EphemeralRow(n) \/ EphemeralMem(n) BY <1>7, EphemeralKeeps
<1> QED BY <1>1, <1>2, <1>3, <1>4, <1>5, <1>6, <1>7 DEF MonitorStep

LEMMA StutterKeeps == IInv /\ UNCHANGED vars => IInv'
<1> SUFFICES ASSUME IInv, UNCHANGED vars PROVE IInv'
    OBVIOUS
<1>1. UNCHANGED allButTask /\ UNCHANGED task BY DEF vars, allButTask
<1>2. task' \in [Tasks -> Frame] BY <1>1, AtWork
<1> QED BY <1>1, <1>2, OnlyTaskKeeps, NoMoveKeeps

LEMMA StepOK == IInv /\ [Next]_vars => IInv'
<1> SUFFICES ASSUME IInv, [Next]_vars PROVE IInv'
    OBVIOUS
<1>1. CASE \E c \in Clients : CommandStep(c) BY <1>1, CommandKeeps
<1>2. CASE \E t \in Tasks : SaveStep(t)
    BY <1>2, SaveDbKeeps, SaveDbFailsKeeps, SaveMemKeeps DEF SaveStep
<1>3. CASE \E t \in Tasks : StopStep(t) BY <1>3, StopStepKeeps
<1>4. CASE \E s \in Servers : Edit(s) \/ EditFails(s) BY <1>4, EditKeeps
<1>5. CASE \E n \in Sessions : JavaListens(n) \/ JavaExits(n) BY <1>5, JavaStepKeeps
<1>6. CASE \E n \in Sessions : ReaderStep(n) BY <1>6, ReaderKeeps
<1>7. CASE \E n \in Sessions : MonitorStep(n) BY <1>7, MonitorKeeps
<1>8. CASE \E n \in Sessions : ProbeStep(n) BY <1>8, ProbeKeeps
<1>9. CASE \E n \in Sessions : TimerFires(n) BY <1>9, TimerKeeps
<1>10. CASE QuitMoves
    BY <1>10, QuitStepsKeep
<1>11. CASE QuitExits \/ AppDies BY <1>11, NextLaunchKeeps DEF QuitExits, AppDies
<1>12. CASE UNCHANGED vars BY <1>12, StutterKeeps
<1> QED BY <1>1, <1>2, <1>3, <1>4, <1>5, <1>6, <1>7, <1>8, <1>9, <1>10, <1>11, <1>12 DEF Next, QuitStep, QuitMoves

(* IInv is an invariant of the specification, for every set of servers, ports
   and clients and every bound. *)
THEOREM Invariance == Spec => []IInv
BY InitOK, StepOK, PTL DEF Spec

(* Every reachable state is well typed. *)
THEOREM TypeCorrect == Spec => []TypeOK
<1>1. IInv => TypeOK BY DEF IInv
<1> QED BY <1>1, Invariance, PTL

(* start reserves its port: no two registered servers share one (process.rs,
   start: the check under start_lock and the insert after the spawn). *)
THEOREM PortsAreReserved == Spec => []PortsReserved
<1>1. IInv => PortsReserved BY DEF IInv
<1> QED BY <1>1, Invariance, PTL

(* A monitor owns the entry it will remove until it removes it (process.rs,
   spawn_monitor: "Keep the entry until all exit bookkeeping is done"). *)
THEOREM MonitorOwnsItsEntry == Spec => []MonitorOwnsEntry
<1>1. IInv => MonitorOwnsEntry BY DEF IInv
<1> QED BY <1>1, Invariance, PTL

(* Removing a server leaves no log sessions of it behind, whatever its monitor
   and the removal overlap (commands.rs, remove_server; db.rs, delete_server). *)
THEOREM LogsKeepTheirServer == Spec => []LogsHaveServer
<1>1. IInv => LogsHaveServer BY DEF IInv
<1> QED BY <1>1, Invariance, PTL

-----------------------------------------------------------------------------
(* Sessions.  Most steps let every session be: one Java dies or begins to listen
   at most, no reader begins, and no monitor begins, sees an exit or joins. *)

LEMMA ReaderNames ==
    /\ \A n, m : Reader(n) = Reader(m) => n = m
    /\ \A x, n : /\ Reader(n) # Editor(x) /\ Reader(n) # Probe(x) /\ Reader(n) # Timer(x)
                 /\ Reader(n) # Monitor(x) /\ Reader(n) # Cmd(x) /\ Reader(n) # Quit
BY DEF Cmd, Editor, Reader, Monitor, Probe, Timer, Quit

JavaStaysOrDies ==
    \/ UNCHANGED java
    \/ \E n \in Sessions : java' = Killed(n)
    \/ \E n \in Sessions : java[n].st = "up" /\ java' = [java EXCEPT ![n].st = "listening"]
ReaderGoesOn(n) ==
    ~ At(Reader(n), "idle")' => ~ At(Reader(n), "idle") /\ task'[Reader(n)].srv = task[Reader(n)].srv
MonitorGoesOn(n) ==
    /\ task[Monitor(n)].at \in {"watch", "join"} =>
          task'[Monitor(n)].at = task[Monitor(n)].at /\ task'[Monitor(n)].srv = task[Monitor(n)].srv
    /\ task'[Monitor(n)].at \notin {"idle", "watch"} => task[Monitor(n)].at \notin {"idle", "watch"}
SpawnGoesOn(c) ==
    /\ At(Cmd(c), "insert") \/ At(Cmd(c), "insert")' => task'[Cmd(c)] = task[Cmd(c)]
    /\ At(Cmd(c), "assign")' => task'[Cmd(c)] = task[Cmd(c)]
SessionsGoOn ==
    /\ UNCHANGED registry /\ JavaStaysOrDies
    /\ \A n \in Sessions : ReaderGoesOn(n) /\ MonitorGoesOn(n)
    /\ \A c \in Clients : SpawnGoesOn(c)

(* One task moves; a reader or a monitor stays in its part of the session, and a
   command has no Java in its hands. *)
LEMMA MoveGoesOn ==
    ASSUME IInv, NEW t \in Tasks, NEW g, Becomes(t, g), UNCHANGED registry, JavaStaysOrDies,
           \A n \in Sessions : t = Reader(n) => ~ At(t, "idle") /\ (g.at = "idle" \/ g.srv = task[t].srv),
           \A n \in Sessions : t = Monitor(n) => task[t].at \notin {"idle", "watch", "join"},
           \A c \in Clients : t = Cmd(c) => ~ At(t, "insert") /\ g.at \notin {"assign", "insert"}
    PROVE  SessionsGoOn
<1>1. task'[t] = g /\ \A u \in Tasks : u # t => task'[u] = task[u]
    BY AtWork DEF Becomes
<1>2. ASSUME NEW n \in Sessions PROVE ReaderGoesOn(n)
    <2>1. Reader(n) \in Tasks BY TaskNames
    <2>2. CASE Reader(n) = t BY <1>1, <2>2 DEF ReaderGoesOn, At
    <2>3. CASE Reader(n) # t BY <1>1, <2>1, <2>3 DEF ReaderGoesOn, At
    <2> QED BY <2>2, <2>3
<1>3. ASSUME NEW n \in Sessions PROVE MonitorGoesOn(n)
    <2>1. Monitor(n) \in Tasks BY TaskNames
    <2>2. CASE Monitor(n) = t BY <1>1, <2>2 DEF MonitorGoesOn
    <2>3. CASE Monitor(n) # t BY <1>1, <2>1, <2>3 DEF MonitorGoesOn
    <2> QED BY <2>2, <2>3
<1>4. ASSUME NEW c \in Clients PROVE SpawnGoesOn(c)
    <2>1. Cmd(c) \in Tasks BY TaskNames
    <2>2. CASE Cmd(c) = t BY <1>1, <2>2 DEF SpawnGoesOn, At
    <2>3. CASE Cmd(c) # t BY <1>1, <2>1, <2>3 DEF SpawnGoesOn
    <2> QED BY <2>2, <2>3
<1> QED BY <1>2, <1>3, <1>4 DEF SessionsGoOn

(* A task that is none of these moves. *)
LEMMA OtherMoveGoesOn ==
    ASSUME IInv, NEW t \in Tasks, NEW g, Becomes(t, g), UNCHANGED registry, JavaStaysOrDies,
           \A n : t # Reader(n) /\ t # Monitor(n) /\ t # Cmd(n)
    PROVE  SessionsGoOn
BY MoveGoesOn

LEMMA CommandMoveGoesOn ==
    ASSUME IInv, NEW c \in Clients, NEW g, Becomes(Cmd(c), g), UNCHANGED registry, JavaStaysOrDies,
           ~ At(Cmd(c), "insert"), g.at \notin {"assign", "insert"}
    PROVE  SessionsGoOn
BY MoveGoesOn, TaskNames, TaskKinds

LEMMA NoMoveGoesOn ==
    ASSUME UNCHANGED <<task, registry>>, JavaStaysOrDies PROVE SessionsGoOn
BY DEF SessionsGoOn, ReaderGoesOn, MonitorGoesOn, SpawnGoesOn, At

(* force_stop kills the registered session, if there is one. *)
LEMMA KillStaysOrDies ==
    ASSUME IInv, NEW s \in Servers, registry[s] # None, java' = Killed(registry[s].n)
    PROVE  JavaStaysOrDies
BY DEF IInv, TypeOK, Entry, JavaStaysOrDies

LEMMA SavesGoOn == ASSUME IInv, NEW t \in Tasks, SaveStep(t) PROVE SessionsGoOn
<1> DEFINE f == task[t]
<1>1. f \in Frame /\ FrameOK(t, f) /\ f.at \in {"saveDb", "saveMem"}
    BY AtWork DEF SaveStep, SaveDb, SaveDbFails, SaveMem, At, FramesOK
<1>2. UNCHANGED registry /\ JavaStaysOrDies
    BY DEF SaveStep, SaveDb, SaveDbFails, SaveMem, JavaStaysOrDies
<1>3. PICK g : Becomes(t, g) /\ g \in {[f EXCEPT !.at = "saveMem"], [f EXCEPT !.at = "failed"], Resumed(f)}
    BY DEF SaveStep, SaveDb, SaveDbFails, SaveMem, Goto
<1>4. (g.at = "idle" \/ g.srv = f.srv) /\ g.at \in {"saveMem", "failed"} \cup AfterSave(t)
    <2>1. CASE g \in {[f EXCEPT !.at = "saveMem"], [f EXCEPT !.at = "failed"]}
        BY <1>1, <2>1 DEF Frame
    <2>2. CASE g = Resumed(f)
        <3>1. f.then \in AfterSave(t) BY <1>1 DEF FrameOK
        <3> QED BY <1>1, <2>2, <3>1, ResumedFrame
    <2> QED BY <1>3, <2>1, <2>2
<1>5. \A c \in Clients : t = Cmd(c) => g.at \notin {"assign", "insert"}
    BY <1>4, TaskLabels
<1> HIDE DEF f
<1> QED BY <1>1, <1>2, <1>3, <1>4, <1>5, MoveGoesOn DEF At, f

LEMMA StopsGoOn == ASSUME IInv, NEW t \in Tasks, StopStep(t) PROVE SessionsGoOn
<1>1. task[t].at \in {"stop", "stopWrite"}
    BY DEF StopStep, StopRefused, StopRequest, StopWritten, StopWriteFails, At
<1>2. UNCHANGED registry /\ JavaStaysOrDies
    BY DEF StopStep, StopRefused, StopRequest, StopWritten, StopWriteFails, allButTask, JavaStaysOrDies
<1>3. CASE t = Quit
    <2>1. \E g : Becomes(t, g)
        BY <1>3 DEF StopStep, StopRefused, StopRequest, StopWritten, StopWriteFails, StopFails
    <2> QED BY <1>2, <1>3, <2>1, TaskKinds, OtherMoveGoesOn
<1>4. CASE t # Quit
    <2> PICK c \in Clients : t = Cmd(c) BY <1>1, <1>4, StopperKinds
    <2>1. t[2] = c /\ task[t] \in Frame BY AtWork DEF Cmd
    <2>2. \A l : [task[t] EXCEPT !.at = l].at = l BY <2>1 DEF Frame
    <2>3. \A n, row : Saves([task[t] EXCEPT !.n = n], row, "stopWrite").at = "saveDb"
        BY <2>1 DEF Frame, Saves
    <2>4. \E g : Becomes(t, g) /\ g.at \in {"failed", "awaitExit", "idle", "saveDb"}
        <3>1. CASE StopRefused(t) \/ StopWriteFails(t)
            BY <1>4, <2>2, <3>1 DEF StopRefused, StopWriteFails, StopFails, Goto
        <3>2. CASE StopRequest(t) BY <2>3, <3>2 DEF StopRequest
        <3>3. CASE StopWritten(t) /\ task[t].op = "restart"
            BY <1>4, <2>2, <3>3 DEF StopWritten, Goto
        <3>4. CASE StopWritten(t) /\ task[t].op # "restart"
            <4>1. Return(c) BY <1>4, <2>1, <3>4 DEF StopWritten
            <4> QED BY <4>1 DEF Return, Finish, Idle
        <3> QED BY <3>1, <3>2, <3>3, <3>4 DEF StopStep
    <2> QED BY <1>1, <1>2, <2>4, CommandMoveGoesOn DEF At
<1> QED BY <1>3, <1>4

LEMMA CommandsGoOn ==
    ASSUME IInv, NEW c \in Clients, CommandStep(c),
           ~ StartSpawn(c), ~ AssignJob(c), ~ Register(c), ~ Started(c)
    PROVE  SessionsGoOn
<1> DEFINE f == task[Cmd(c)]
<1>1. f \in Frame /\ Idle.at = "idle" BY AtWork DEF Idle
<1>2. CASE \E s \in Servers, op \in {"start", "stop", "forceStop", "restart", "remove"} :
              BeginCommand(c, s, op)
    <2> PICK s \in Servers, op \in {"start", "stop", "forceStop", "restart", "remove"} :
              BeginCommand(c, s, op)
        BY <1>2
    <2>1. UNCHANGED registry /\ JavaStaysOrDies /\ At(Cmd(c), "idle")
          /\ Becomes(Cmd(c), [Idle EXCEPT !.at = op, !.srv = s, !.op = op])
        BY DEF BeginCommand, JavaStaysOrDies
    <2>2. [Idle EXCEPT !.at = op, !.srv = s, !.op = op].at = op BY DEF Idle
    <2> QED BY <2>1, <2>2, CommandMoveGoesOn DEF At
<1>3. CASE StartRefused(c) \/ SpawnFails(c) \/ JobAssignFails(c) \/ RemoveMem(c) \/ CommandFails(c)
    <2>1. UNCHANGED registry /\ JavaStaysOrDies /\ Becomes(Cmd(c), Idle) /\ ~ At(Cmd(c), "insert")
        BY <1>3 DEF StartRefused, SpawnFails, JobAssignFails, RemoveMem, CommandFails, Return, Finish,
                    JavaStaysOrDies, At
    <2> QED BY <1>1, <2>1, CommandMoveGoesOn
<1>4. CASE StartAccepted(c)
    <2>1. UNCHANGED registry /\ JavaStaysOrDies /\ ~ At(Cmd(c), "insert")
          /\ \E row : Becomes(Cmd(c), [f EXCEPT !.at = "spawn", !.row = row])
        BY <1>4 DEF StartAccepted, JavaStaysOrDies, At
    <2>2. \A row : [f EXCEPT !.at = "spawn", !.row = row].at = "spawn" BY <1>1 DEF Frame
    <2> QED BY <2>1, <2>2, CommandMoveGoesOn
<1>5. \A l : [f EXCEPT !.at = l].at = l BY <1>1 DEF Frame
<1>6. CASE AwaitExit(c) \/ RemoveWait(c) \/ RemoveRow(c) \/ RecycleFails(c) \/ (Restart(c) /\ Goto(Cmd(c), "failed"))
    <2>1. UNCHANGED registry /\ JavaStaysOrDies /\ ~ At(Cmd(c), "insert")
          /\ \E l \in {"start", "failed", "removeRow", "removeMem"} : Becomes(Cmd(c), [f EXCEPT !.at = l])
        BY <1>6 DEF Restart, AwaitExit, RemoveWait, WaitOver, RemoveRow, RecycleFails, Goto, At,
                    allButTask, JavaStaysOrDies
    <2> QED BY <1>5, <2>1, CommandMoveGoesOn
<1>7. CASE Restart(c) /\ ~ Goto(Cmd(c), "failed")
    <2>1. UNCHANGED registry /\ JavaStaysOrDies /\ ~ At(Cmd(c), "insert")
          /\ \E row : Becomes(Cmd(c), Saves(f, row, "stop"))
        BY <1>7 DEF Restart, SaveThen, At, allButTask, JavaStaysOrDies
    <2>2. \A row : Saves(f, row, "stop").at = "saveDb" BY <1>1 DEF Frame, Saves
    <2> QED BY <2>1, <2>2, CommandMoveGoesOn
<1>8. CASE ForceStop(c) \/ Remove(c)
    <2> DEFINE s == f.srv
    <2>1. s \in Servers /\ ~ At(Cmd(c), "insert") BY <1>8, AtWork DEF ForceStop, Remove, At
    <2>2. UNCHANGED registry
          /\ (Becomes(Cmd(c), Idle)
              \/ \E l \in {"removeRow", "removeWait", "failed"} : Becomes(Cmd(c), [f EXCEPT !.at = l]))
        BY <1>8 DEF ForceStop, Remove, Return, Finish, Goto
    <2>3. UNCHANGED java \/ (registry[s] # None /\ java' = Killed(registry[s].n))
        BY <1>8 DEF ForceStop, Remove
    <2>4. JavaStaysOrDies BY <2>1, <2>3, KillStaysOrDies DEF JavaStaysOrDies
    <2> QED BY <1>1, <1>5, <2>1, <2>2, <2>4, CommandMoveGoesOn
<1> QED BY <1>2, <1>3, <1>4, <1>6, <1>7, <1>8 DEF CommandStep

LEMMA HelpersGoOn ==
    ASSUME IInv,
           \/ \E s \in Servers : Edit(s) \/ EditFails(s)
           \/ \E n \in Sessions : ProbeStep(n) \/ TimerFires(n) \/ JavaListens(n) \/ JavaExits(n)
           \/ QuitMoves
           \/ UNCHANGED vars
    PROVE  SessionsGoOn
<1>1. CASE \E s \in Servers : Edit(s) \/ EditFails(s)
    <2> PICK s \in Servers : Edit(s) \/ EditFails(s) BY <1>1
    <2>1. UNCHANGED registry /\ JavaStaysOrDies /\ \E g : Becomes(Editor(s), g)
        BY DEF Edit, EditFails, Finish, allButTask, JavaStaysOrDies
    <2> QED BY <2>1, TaskNames, TaskKinds, ReaderNames, OtherMoveGoesOn
<1>2. CASE \E n \in Sessions : ProbeStep(n)
    <2> PICK n \in Sessions : ProbeStep(n) BY <1>2
    <2>1. UNCHANGED registry /\ JavaStaysOrDies /\ \E g : Becomes(Probe(n), g)
        BY DEF ProbeStep, ProbeConnects, ProbeReports, ProbeGivesUp, Finish, Goto, SaveThen, allButTask,
               JavaStaysOrDies
    <2> QED BY <2>1, TaskNames, TaskKinds, ReaderNames, OtherMoveGoesOn
<1>3. CASE \E n \in Sessions : TimerFires(n)
    <2> PICK n \in Sessions : TimerFires(n) BY <1>3
    <2>1. UNCHANGED registry /\ JavaStaysOrDies BY DEF TimerFires, JavaStaysOrDies
    <2>2. UNCHANGED task \/ \E g : Becomes(Timer(n), g) BY DEF TimerFires
    <2>3. Timer(n) \in Tasks /\ \A m : Timer(n) # Reader(m) /\ Timer(n) # Monitor(m) /\ Timer(n) # Cmd(m)
        BY TaskNames, TaskKinds, ReaderNames
    <2> QED BY <2>1, <2>2, <2>3, NoMoveGoesOn, OtherMoveGoesOn
<1>4. CASE \E n \in Sessions : JavaListens(n) \/ JavaExits(n)
    <2>1. UNCHANGED <<task, registry>> /\ JavaStaysOrDies
        BY <1>4 DEF JavaListens, JavaExits, JavaStaysOrDies
    <2> QED BY <2>1, NoMoveGoesOn
<1>5. CASE QuitMoves
    <2>1. UNCHANGED registry /\ JavaStaysOrDies /\ \E g : Becomes(Quit, g)
        BY <1>5 DEF QuitMoves, QuitBegins, QuitStops, QuitStopFailed, QuitWaits, QuitGivesUp, QuitSeesEmpty, Finish, Goto, allButTask,
                    JavaStaysOrDies
    <2> QED BY <2>1, TaskNames, TaskKinds, OtherMoveGoesOn
<1>6. CASE UNCHANGED vars BY <1>6, NoMoveGoesOn DEF vars, JavaStaysOrDies
<1> QED BY <1>1, <1>2, <1>3, <1>4, <1>5, <1>6

LEMMA ReadersGoOn == ASSUME IInv, NEW n \in Sessions, ReaderStep(n) PROVE SessionsGoOn
<1> DEFINE t == Reader(n)
           f == task[t]
<1>1. t \in Tasks /\ \A m : t # Monitor(m) /\ t # Cmd(m) BY TaskNames, TaskKinds
<1>2. f.at \in {"read", "kill"}
    BY DEF ReaderStep, ReadyLine, FatalLine, PlayerLine, ReaderKills, ReaderEnds, At
<1>3. f \in Frame /\ f.srv \in Servers BY <1>1, <1>2, AtWork DEF FramesOK, FrameOK
<1>4. UNCHANGED registry BY DEF ReaderStep, ReadyLine, FatalLine, PlayerLine, ReaderKills, ReaderEnds, allButTask
<1>5. JavaStaysOrDies
    <2>1. UNCHANGED java \/ (registry[f.srv] # None /\ java' = Killed(registry[f.srv].n))
        BY DEF ReaderStep, ReadyLine, FatalLine, PlayerLine, ReaderKills, ReaderEnds, allButTask
    <2> QED BY <1>3, <2>1, KillStaysOrDies DEF JavaStaysOrDies
<1>6. \E g : Becomes(t, g) /\ (g.at = "idle" \/ g.srv = f.srv)
    <2>1. CASE ReadyLine(n) \/ FatalLine(n) \/ PlayerLine(n)
        <3>1. \E row, l : Becomes(t, Saves(f, row, l))
            BY <2>1 DEF ReadyLine, FatalLine, PlayerLine, SaveThen
        <3>2. \A row, l : Saves(f, row, l).srv = f.srv BY <1>3 DEF Saves, Frame
        <3> QED BY <3>1, <3>2
    <2>2. CASE ReaderKills(n)
        <3>1. Becomes(t, [f EXCEPT !.at = "read"]) BY <2>2 DEF ReaderKills, Goto
        <3>2. [f EXCEPT !.at = "read"].srv = f.srv BY <1>3 DEF Frame
        <3> QED BY <3>1, <3>2
    <2>3. CASE ReaderEnds(n) BY <2>3 DEF ReaderEnds, Finish, Idle
    <2> QED BY <2>1, <2>2, <2>3 DEF ReaderStep
<1> QED BY <1>1, <1>2, <1>4, <1>5, <1>6, MoveGoesOn DEF At

LEMMA MonitorsGoOn ==
    ASSUME IInv, NEW n \in Sessions, MonitorStep(n),
           ~ MonitorSeesExit(n), ~ MonitorJoins(n), ~ MonitorUnregisters(n)
    PROVE  SessionsGoOn
<1> DEFINE t == Monitor(n)
<1>1. t \in Tasks /\ (\A m : t # Reader(m) /\ t # Cmd(m)) /\ \A m \in Sessions : t = Monitor(m) => m = n
    BY TaskNames, TaskKinds
<1>2. task[t].at \in {"verdict", "log", "disk", "ephRow", "ephMem"}
    BY DEF MonitorStep, MonitorVerdict, MonitorLogs, MonitorMeasuresDisk, EphemeralRow, EphemeralMem, At
<1>3. UNCHANGED registry /\ JavaStaysOrDies /\ \E g : Becomes(t, g)
    BY DEF MonitorStep, MonitorVerdict, MonitorLogs, MonitorMeasuresDisk, EphemeralRow, EphemeralMem,
           Goto, SaveThen, Finish, allButTask, JavaStaysOrDies
<1> HIDE DEF t
<1> QED BY <1>1, <1>2, <1>3, MoveGoesOn

(* What a step does to sessions: nothing, or it is one of the few that begin one, see
   its Java gone, join its reader, take its entry away or end them all. *)
LEMMA StepKinds ==
    ASSUME IInv, [Next]_vars
    PROVE  \/ SessionsGoOn
           \/ \E c \in Clients : StartSpawn(c) \/ AssignJob(c) \/ Register(c) \/ Started(c)
           \/ \E n \in Sessions : MonitorSeesExit(n) \/ MonitorJoins(n) \/ MonitorUnregisters(n)
           \/ NextLaunch
<1>1. CASE \E c \in Clients : CommandStep(c) BY <1>1, CommandsGoOn
<1>2. CASE \E t \in Tasks : SaveStep(t) \/ StopStep(t) BY <1>2, SavesGoOn, StopsGoOn
<1>3. CASE \E n \in Sessions : ReaderStep(n) BY <1>3, ReadersGoOn
<1>4. CASE \E n \in Sessions : MonitorStep(n) BY <1>4, MonitorsGoOn
<1>5. CASE QuitStep \/ AppDies \/ UNCHANGED vars
    BY <1>5, HelpersGoOn DEF QuitStep, QuitMoves, QuitExits, AppDies
<1>6. CASE \/ \E s \in Servers : Edit(s) \/ EditFails(s)
           \/ \E n \in Sessions : ProbeStep(n) \/ TimerFires(n) \/ JavaListens(n) \/ JavaExits(n)
    BY <1>6, HelpersGoOn
<1> QED BY <1>1, <1>2, <1>3, <1>4, <1>5, <1>6 DEF Next

(* Neither the failing writes nor the sessions are ever counted down. *)
LEMMA CountsGrow ==
    ASSUME TypeOK, [Next]_vars
    PROVE  count.dbFailure <= count'.dbFailure /\ count.session <= count'.session
<1>1. \/ UNCHANGED count
      \/ count' = [count EXCEPT !.session = @ + 1]
      \/ count' = [count EXCEPT !.command = @ + 1]
      \/ count' = [count EXCEPT !.edit = @ + 1]
      \/ count' = [count EXCEPT !.quit = @ + 1]
      \/ count' = [count EXCEPT !.launch = @ + 1]
      \/ count' = [count EXCEPT !.dbFailure = @ + 1]
    <2>1. CASE \E c \in Clients : CommandStep(c)
        BY <2>1 DEF CommandStep, BeginCommand, StartAccepted, StartRefused, StartSpawn, SpawnFails,
           AssignJob, JobAssignFails, Register, Started, ForceStop, Restart, AwaitExit, Remove, RemoveWait, WaitOver, RemoveRow,
           RecycleFails, RemoveMem, CommandFails, allButTask
    <2>2. CASE \E t \in Tasks : SaveStep(t) \/ StopStep(t)
        BY <2>2 DEF SaveStep, SaveDb, SaveDbFails, SaveMem, StopStep, StopRefused, StopRequest, StopWritten,
           StopWriteFails, allButTask
    <2>3. CASE \E s \in Servers : Edit(s) \/ EditFails(s) BY <2>3 DEF Edit, EditFails, allButTask
    <2>4. CASE \E n \in Sessions : JavaListens(n) \/ JavaExits(n) \/ ReaderStep(n) \/ ProbeStep(n) \/ TimerFires(n)
        BY <2>4 DEF JavaListens, JavaExits, ReaderStep, ReadyLine, FatalLine, PlayerLine, ReaderKills, ReaderEnds,
           ProbeStep, ProbeConnects, ProbeReports, ProbeGivesUp, TimerFires, allButTask
    <2>5. CASE \E n \in Sessions : MonitorStep(n)
        BY <2>5 DEF MonitorStep, MonitorSeesExit, MonitorJoins, MonitorVerdict, MonitorLogs, MonitorMeasuresDisk,
           MonitorUnregisters, EphemeralRow, EphemeralMem, allButTask
    <2>6. CASE QuitStep \/ AppDies
        BY <2>6 DEF QuitStep, QuitBegins, QuitStops, QuitStopFailed, QuitWaits, QuitGivesUp, QuitSeesEmpty, QuitExits, AppDies,
           NextLaunch, allButTask
    <2>7. CASE UNCHANGED vars BY <2>7 DEF vars
    <2> QED BY <2>1, <2>2, <2>3, <2>4, <2>5, <2>6, <2>7 DEF Next
<1>2. count.dbFailure \in Nat /\ count.session \in Nat BY BoundsAssumption DEF TypeOK
<1> QED BY <1>1, <1>2 DEF TypeOK

(* A session that goes on keeps its Java's server and never wakes it again. *)
LEMMA JavaOnlyDies ==
    ASSUME TypeOK, JavaStaysOrDies, NEW n \in Sessions
    PROVE  /\ java'[n].srv = java[n].srv /\ java'[n].inJob = java[n].inJob
           /\ Alive(n)' => Alive(n)
           /\ java[n].st # "none" => java'[n].st # "none"
<1>1. \A m \in Sessions : java[m] \in Process BY DEF TypeOK
<1>2. CASE UNCHANGED java BY <1>2 DEF Alive
<1>3. CASE \E m \in Sessions : java' = Killed(m)
    <2> PICK m \in Sessions : java' = Killed(m) BY <1>3
    <2>1. java' = [java EXCEPT ![m] = [java[m] EXCEPT !.st = "dead"]] BY DEF Killed
    <2> QED BY <1>1, <2>1 DEF Process, Alive, TypeOK
<1>4. CASE \E m \in Sessions : java[m].st = "up" /\ java' = [java EXCEPT ![m].st = "listening"]
    <2> PICK m \in Sessions : java[m].st = "up" /\ java' = [java EXCEPT ![m].st = "listening"] BY <1>4
    <2>1. java' = [java EXCEPT ![m] = [java[m] EXCEPT !.st = "listening"]] OBVIOUS
    <2> QED BY <1>1, <2>1 DEF Process, Alive, TypeOK
<1> QED BY <1>2, <1>3, <1>4 DEF JavaStaysOrDies

LEMMA SessionsGoOnKeeps ==
    ASSUME IInv, SessionInv, SessionsGoOn, count.session <= count'.session, count'.session \in Nat
    PROVE  SessionInv'
<1>1. TypeOK /\ JavaStaysOrDies /\ registry' = registry BY DEF IInv, SessionsGoOn
<1>2. JavaIsRegistered'
    <2> SUFFICES ASSUME NEW n \in Sessions, LooksAfter(n)',
                        ~ (registry'[java'[n].srv] # None /\ registry'[java'[n].srv].n = n)
                 PROVE  \E c \in Clients : HasSpawned(c, n)'
        BY DEF JavaIsRegistered
    <2>1. LooksAfter(n) /\ java'[n].srv = java[n].srv BY <1>1, JavaOnlyDies DEF LooksAfter
    <2>2. PICK c \in Clients : HasSpawned(c, n)
        BY <1>1, <2>1 DEF SessionInv, JavaIsRegistered
    <2> QED BY <2>2 DEF SessionsGoOn, SpawnGoesOn, HasSpawned, At
<1>3. WatchedTillExit' BY <1>1, JavaOnlyDies DEF SessionInv, SessionsGoOn, WatchedTillExit, MonitorGoesOn
<1>4. ReaderIsJoined' BY DEF SessionInv, SessionsGoOn, ReaderIsJoined, ReaderGoesOn, MonitorGoesOn, At
<1>5. JobsAreSpawned'
    <2>1. ASSUME NEW n \in Sessions, java'[n].inJob PROVE n <= count'.session
        <3>1. n <= count.session BY <1>1, <2>1, JavaOnlyDies DEF SessionInv, JobsAreSpawned
        <3>2. n \in Nat /\ count.session \in Nat BY AtWork DEF Sessions
        <3> QED BY <3>1, <3>2
    <2>2. ASSUME NEW c \in Clients, At(Cmd(c), "assign")' PROVE ~ java'[task'[Cmd(c)].n].inJob
        <3>1. task'[Cmd(c)] = task[Cmd(c)] /\ At(Cmd(c), "assign")
            BY <2>2 DEF SessionsGoOn, SpawnGoesOn, At
        <3>2. task[Cmd(c)].n \in Sessions BY <3>1, SpawnedFrame DEF At
        <3> QED BY <1>1, <3>1, <3>2, JavaOnlyDies DEF SessionInv, JobsAreSpawned
    <2> QED BY <2>1, <2>2 DEF JobsAreSpawned
<1> QED BY <1>2, <1>3, <1>4, <1>5 DEF SessionInv

(* Java is spawned: its session is a new one, which nobody watches yet. *)
LEMMA SpawnIsFresh ==
    ASSUME IInv, NEW c \in Clients, StartSpawn(c)
    PROVE  LET f == task[Cmd(c)]
               k == NewSession
           IN  /\ At(Cmd(c), "spawn") /\ f.srv \in Servers /\ UNCHANGED registry
               /\ k \in Sessions /\ ~ (k <= count.session)
               /\ java[k].st = "none" /\ At(Monitor(k), "idle")
               /\ ~ java'[k].inJob
               /\ \A n \in Sessions : n # k => java'[n] = java[n]
               /\ count'.session = k
               /\ task'[Cmd(c)].at = "assign" /\ task'[Cmd(c)].n = k
<1> DEFINE f == task[Cmd(c)]
           k == NewSession
           g == [f EXCEPT !.at = "assign", !.n = k]
           j == [st |-> "up", srv |-> f.srv, port |-> f.row.port, inJob |-> FALSE]
<1>1. At(Cmd(c), "spawn") BY DEF StartSpawn
<1>2. f.srv \in Servers /\ count.session \in Nat /\ f \in Frame /\ count.session < MaxSessions
    BY <1>1, AtWork DEF At, IInv, StartKeepsChecks
<1>3. k \in Sessions /\ ~ (k <= count.session)
    BY <1>2, BoundsAssumption DEF NewSession, Sessions
<1>4. java[k].st = "none" /\ At(Monitor(k), "idle") BY <1>3 DEF IInv, SessionsNumbered
<1>5. Becomes(Cmd(c), g) /\ java' = [java EXCEPT ![k] = j] /\ UNCHANGED registry
      /\ count' = [count EXCEPT !.session = @ + 1]
    BY DEF StartSpawn, Spawned
<1>6. g.at = "assign" /\ g.n = k /\ ~ j.inJob BY <1>2 DEF Frame
<1>7. count'.session = k BY <1>5 DEF NewSession, IInv, TypeOK
<1> HIDE DEF g, j, k, f
<1>8. task'[Cmd(c)] = g BY <1>5, AtWork, TaskNames DEF Becomes
<1>9. java'[k] = j /\ \A n \in Sessions : n # k => java'[n] = java[n]
    BY <1>3, <1>5 DEF IInv, TypeOK
<1> QED BY <1>1, <1>2, <1>3, <1>4, <1>5, <1>6, <1>7, <1>8, <1>9 DEF f, k, j

(* A start that moves leaves the sessions' tasks and the other commands alone, and no
   other start is under way. *)
LEMMA StartMovesAlone ==
    ASSUME IInv, NEW c \in Clients, StartSpawn(c) \/ AssignJob(c) \/ Register(c)
    PROVE  /\ OtherCmdsKept(c) /\ MonitorsKept
           /\ \A n \in Sessions : task'[Reader(n)] = task[Reader(n)]
           /\ \A d \in Clients : d # c => ~ Starting(d) /\ ~ Starting(d)'
<1>1. Starting(c) BY DEF StartSpawn, AssignJob, Register, Starting, At
<1>2. \E g : Becomes(Cmd(c), g) BY DEF StartSpawn, AssignJob, Register, Goto, SaveThen
<1>3. \A u \in Tasks : u # Cmd(c) => task'[u] = task[u]
    BY <1>2, AtWork, TaskNames DEF Becomes
<1>4. OtherCmdsKept(c) /\ MonitorsKept BY <1>3, OthersKept, TaskNames
<1>5. \A d \in Clients : d # c => ~ Starting(d) BY <1>1 DEF IInv, LocksHeld
<1> QED BY <1>3, <1>4, <1>5, TaskNames, TaskKinds DEF OtherCmdsKept, Starting, Saving

LEMMA SpawnKeepsSessions ==
    ASSUME IInv, SessionInv, NEW c \in Clients, StartSpawn(c) PROVE SessionInv'
<1> DEFINE k == NewSession
<1>1. /\ At(Cmd(c), "spawn") /\ UNCHANGED registry /\ k \in Sessions /\ ~ (k <= count.session)
      /\ At(Monitor(k), "idle") /\ ~ java'[k].inJob
      /\ \A n \in Sessions : n # k => java'[n] = java[n]
      /\ count'.session = k /\ task'[Cmd(c)].n = k
    BY SpawnIsFresh
<1>2. /\ \A d \in Clients : d # c => task'[Cmd(d)] = task[Cmd(d)] /\ ~ Starting(d)'
      /\ \A n \in Sessions : task'[Reader(n)] = task[Reader(n)] /\ task'[Monitor(n)] = task[Monitor(n)]
    BY StartMovesAlone DEF OtherCmdsKept, MonitorsKept
<1>3. count.session \in Nat /\ k = count.session + 1 BY AtWork DEF NewSession
<1> HIDE DEF k
<1>4. JavaIsRegistered'
    <2> SUFFICES ASSUME NEW n \in Sessions, LooksAfter(n)'
                 PROVE  \/ registry[java'[n].srv] # None /\ registry[java'[n].srv].n = n
                        \/ \E d \in Clients : HasSpawned(d, n)'
        BY <1>1 DEF JavaIsRegistered
    <2>1. n # k /\ LooksAfter(n) /\ java'[n] = java[n] BY <1>1 DEF LooksAfter, Alive
    <2>2. CASE registry[java[n].srv] # None /\ registry[java[n].srv].n = n BY <2>1, <2>2
    <2>3. CASE \E d \in Clients : HasSpawned(d, n)
        BY <1>1, <1>2, <2>3 DEF HasSpawned, At
    <2> QED BY <2>1, <2>2, <2>3 DEF SessionInv, JavaIsRegistered
<1>5. WatchedTillExit'
    BY <1>1, <1>2 DEF SessionInv, WatchedTillExit, At, Alive
<1>6. ReaderIsJoined' BY <1>2 DEF SessionInv, ReaderIsJoined, At
<1>7. JobsAreSpawned'
    <2>1. \A n \in Sessions : java'[n].inJob => n <= count'.session
        BY <1>1, <1>3 DEF SessionInv, JobsAreSpawned, Sessions
    <2>2. \A d \in Clients : At(Cmd(d), "assign")' => ~ java'[task'[Cmd(d)].n].inJob
        BY <1>1, <1>2 DEF Starting, At
    <2> QED BY <2>1, <2>2 DEF JobsAreSpawned
<1> QED BY <1>4, <1>5, <1>6, <1>7 DEF SessionInv

(* Its process is put into the job object. *)
LEMMA AssignIsInJob ==
    ASSUME IInv, NEW c \in Clients, AssignJob(c)
    PROVE  LET k == task[Cmd(c)].n
           IN  /\ At(Cmd(c), "assign") /\ k \in Sessions /\ k <= count.session
               /\ UNCHANGED <<registry, count>>
               /\ java'[k].inJob /\ java'[k].srv = java[k].srv /\ java'[k].st = java[k].st
               /\ \A n \in Sessions : n # k => java'[n] = java[n]
               /\ At(Cmd(c), "insert")' /\ task'[Cmd(c)].n = k
<1> DEFINE f == task[Cmd(c)]
           k == f.n
           j == [java[k] EXCEPT !.inJob = TRUE]
           g == [f EXCEPT !.at = "insert"]
<1>1. At(Cmd(c), "assign") BY DEF AssignJob
<1>2. k \in Sessions /\ k <= count.session /\ f \in Frame BY <1>1, SpawnedFrame DEF At
<1>3. java' = [java EXCEPT ![k] = j] /\ Becomes(Cmd(c), g) /\ UNCHANGED <<registry, count>>
    BY DEF AssignJob, Goto
<1>4. java \in [Sessions -> Process] BY DEF IInv, TypeOK
<1>5. j.inJob /\ j.srv = java[k].srv /\ j.st = java[k].st BY <1>2, <1>4 DEF Process
<1>6. g.at = "insert" /\ g.n = k BY <1>2 DEF Frame
<1> HIDE DEF f, k, j, g
<1>7. java'[k] = j /\ \A n \in Sessions : n # k => java'[n] = java[n]
    BY <1>2, <1>3, <1>4
<1>8. task'[Cmd(c)] = g BY <1>3, AtWork, TaskNames DEF Becomes
<1> QED BY <1>1, <1>2, <1>3, <1>5, <1>6, <1>7, <1>8 DEF At, f, k

LEMMA AssignKeepsSessions ==
    ASSUME IInv, SessionInv, NEW c \in Clients, AssignJob(c) PROVE SessionInv'
<1> DEFINE k == task[Cmd(c)].n
<1>1. /\ At(Cmd(c), "assign") /\ k \in Sessions /\ k <= count.session /\ UNCHANGED <<registry, count>>
      /\ java'[k].srv = java[k].srv /\ java'[k].st = java[k].st
      /\ \A n \in Sessions : n # k => java'[n] = java[n]
      /\ At(Cmd(c), "insert")' /\ task'[Cmd(c)].n = k
    BY AssignIsInJob
<1>2. /\ \A d \in Clients : d # c => task'[Cmd(d)] = task[Cmd(d)] /\ ~ Starting(d)'
      /\ \A n \in Sessions : task'[Reader(n)] = task[Reader(n)] /\ task'[Monitor(n)] = task[Monitor(n)]
    BY StartMovesAlone DEF OtherCmdsKept, MonitorsKept
<1> HIDE DEF k
<1>3. JavaIsRegistered'
    <2> SUFFICES ASSUME NEW n \in Sessions, LooksAfter(n)'
                 PROVE  \/ registry[java'[n].srv] # None /\ registry[java'[n].srv].n = n
                        \/ \E d \in Clients : HasSpawned(d, n)'
        BY <1>1 DEF JavaIsRegistered
    <2>1. CASE n = k BY <1>1, <2>1 DEF HasSpawned
    <2>2. CASE n # k
        <3>1. LooksAfter(n) /\ java'[n] = java[n] BY <1>1, <2>2 DEF LooksAfter, Alive
        <3>2. CASE registry[java[n].srv] # None /\ registry[java[n].srv].n = n BY <3>1, <3>2
        <3>3. CASE \E d \in Clients : HasSpawned(d, n)
            BY <1>1, <1>2, <3>3 DEF HasSpawned, At
        <3> QED BY <3>1, <3>2, <3>3 DEF SessionInv, JavaIsRegistered
    <2> QED BY <2>1, <2>2
<1>4. WatchedTillExit'
    BY <1>1, <1>2 DEF SessionInv, WatchedTillExit, Alive
<1>5. ReaderIsJoined' BY <1>2 DEF SessionInv, ReaderIsJoined, At
<1>6. JobsAreSpawned'
    <2>1. \A n \in Sessions : java'[n].inJob => n <= count'.session
        BY <1>1 DEF SessionInv, JobsAreSpawned
    <2>2. \A d \in Clients : ~ At(Cmd(d), "assign")'
        BY <1>1, <1>2 DEF Starting, At
    <2> QED BY <2>1, <2>2 DEF JobsAreSpawned
<1> QED BY <1>3, <1>4, <1>5, <1>6 DEF SessionInv

(* Its process gets the entry of its server. *)
LEMMA RegisterEnters ==
    ASSUME IInv, NEW c \in Clients, Register(c)
    PROVE  LET f == task[Cmd(c)]
               p == f.row.port
           IN  /\ HasSpawned(c, f.n) /\ f.srv \in Servers /\ f.n \in Sessions /\ p \in Ports
               /\ java[f.n].srv = f.srv /\ registry[f.srv] = None /\ UNCHANGED <<java, count>>
               /\ \A o \in Servers : registry[o] # None => registry[o].port # p
               /\ registry' = [registry EXCEPT ![f.srv] = [n |-> f.n, port |-> p]]
               /\ registry'[f.srv] # None /\ registry'[f.srv].n = f.n
               /\ \A o \in Servers : o # f.srv => registry'[o] = registry[o]
               /\ task'[Cmd(c)].at = "saveDb" /\ task'[Cmd(c)].then = "started"
               /\ task'[Cmd(c)].n = f.n /\ task'[Cmd(c)].srv = f.srv
<1> DEFINE f == task[Cmd(c)]
           p == f.row.port
           e == [n |-> f.n, port |-> p]
<1>1. At(Cmd(c), "insert") BY DEF Register
<1>2. /\ f.srv \in Servers /\ f.n \in Sessions /\ p \in Ports /\ java[f.n].srv = f.srv /\ f \in Frame
      /\ registry[f.srv] = None /\ \A o \in Servers : registry[o] # None => registry[o].port # p
    BY <1>1, SpawnedFrame DEF At
<1>3. registry' = [registry EXCEPT ![f.srv] = e] /\ UNCHANGED <<java, count>>
      /\ \E row : Becomes(Cmd(c), Saves(f, row, "started"))
    BY DEF Register, SaveThen
<1>4. PICK row : Becomes(Cmd(c), Saves(f, row, "started")) BY <1>3
<1> DEFINE g == Saves(f, row, "started")
<1>5. g.at = "saveDb" /\ g.then = "started" /\ g.n = f.n /\ g.srv = f.srv
    BY <1>2 DEF Saves, Frame
<1>6. e # None /\ e.n = f.n BY <1>2, NoneAssumption DEF Entry
<1> HIDE DEF g, e
<1>7. task'[Cmd(c)] = g BY <1>4, AtWork, TaskNames DEF Becomes, g
<1>8. registry'[f.srv] = e /\ \A o \in Servers : o # f.srv => registry'[o] = registry[o]
    BY <1>2, <1>3 DEF IInv, TypeOK
<1> QED BY <1>1, <1>2, <1>3, <1>5, <1>6, <1>7, <1>8 DEF HasSpawned, e

LEMMA RegisterKeepsSessions ==
    ASSUME IInv, SessionInv, NEW c \in Clients, Register(c) PROVE SessionInv'
<1> DEFINE s == task[Cmd(c)].srv
           k == task[Cmd(c)].n
<1>1. /\ HasSpawned(c, k) /\ java[k].srv = s /\ registry[s] = None /\ UNCHANGED <<java, count>>
      /\ registry'[s] # None /\ registry'[s].n = k
      /\ \A o \in Servers : o # s => registry'[o] = registry[o]
      /\ task'[Cmd(c)].at = "saveDb"
    BY RegisterEnters
<1>2. /\ \A d \in Clients : d # c => ~ Starting(d) /\ ~ Starting(d)'
      /\ \A n \in Sessions : task'[Reader(n)] = task[Reader(n)] /\ task'[Monitor(n)] = task[Monitor(n)]
    BY StartMovesAlone DEF MonitorsKept
<1>3. \A n : n # k => \A d \in Clients : ~ HasSpawned(d, n)
    BY <1>2 DEF HasSpawned, Starting, At
<1> HIDE DEF s, k
<1>4. JavaIsRegistered'
    <2> SUFFICES ASSUME NEW n \in Sessions, LooksAfter(n)'
                 PROVE  registry'[java[n].srv] # None /\ registry'[java[n].srv].n = n
        BY <1>1 DEF JavaIsRegistered
    <2>1. CASE n = k BY <1>1, <2>1
    <2>2. CASE n # k
        <3>1. LooksAfter(n) BY <1>1 DEF LooksAfter, Alive
        <3>2. registry[java[n].srv] # None /\ registry[java[n].srv].n = n
            BY <1>3, <2>2, <3>1 DEF SessionInv, JavaIsRegistered
        <3>3. java[n].srv \in Servers
            <4>1. java[n].st # "none" BY <3>1 DEF LooksAfter, Alive
            <4> QED BY <4>1 DEF IInv, SessionsNumbered
        <3> QED BY <1>1, <3>2, <3>3
    <2> QED BY <2>1, <2>2
<1>5. WatchedTillExit' BY <1>1, <1>2 DEF SessionInv, WatchedTillExit, Alive
<1>6. ReaderIsJoined' BY <1>2 DEF SessionInv, ReaderIsJoined, At
<1>7. JobsAreSpawned'
    BY <1>1, <1>2 DEF SessionInv, JobsAreSpawned, Starting, At
<1> QED BY <1>4, <1>5, <1>6, <1>7 DEF SessionInv

(* Its monitor and its reader begin together. *)
LEMMA StartedFrames ==
    ASSUME IInv, NEW c \in Clients, Started(c)
    PROVE  LET k == task[Cmd(c)].n
           IN  /\ At(Cmd(c), "started") /\ k \in Sessions
               /\ At(Cmd(c), "idle")' /\ OtherCmdsKept(c)
               /\ task'[Monitor(k)].at = "watch" /\ OtherMonitorsKept(k)
<1> DEFINE s == task[Cmd(c)].srv
           k == task[Cmd(c)].n
           Begin(l) == [Idle EXCEPT !.at = l, !.srv = s, !.n = k]
<1>1. k \in Sessions /\ At(Cmd(c), "started")
    BY DEF Started, At, Starting, Begins, IInv, StartKeepsChecks
<1>2. task' = [task EXCEPT ![Cmd(c)] = Idle, ![Monitor(k)] = Begin("watch"),
                           ![Reader(k)] = Begin("read"), ![Probe(k)] = Begin("probe")]
    BY DEF Started
<1>3. Begin("watch").at = "watch" /\ Idle.at = "idle" BY DEF Idle
<1> HIDE DEF s, k, Begin
<1>4. /\ task'[Monitor(k)] = Begin("watch") /\ task'[Cmd(c)] = Idle
      /\ \A n \in Sessions : n # k => task'[Monitor(n)] = task[Monitor(n)]
      /\ \A d \in Clients : d # c => task'[Cmd(d)] = task[Cmd(d)]
    BY <1>1, <1>2, AtWork, TaskNames, TaskKinds, ReaderNames
<1> QED BY <1>1, <1>3, <1>4 DEF At, OtherCmdsKept, OtherMonitorsKept, k

LEMMA StartedKeepsSessions ==
    ASSUME IInv, SessionInv, NEW c \in Clients, Started(c) PROVE SessionInv'
<1> DEFINE s == task[Cmd(c)].srv
           k == task[Cmd(c)].n
           Begin(l) == [Idle EXCEPT !.at = l, !.srv = s, !.n = k]
<1>1. /\ k \in Sessions /\ At(Monitor(k), "idle") /\ UNCHANGED <<registry, java, count>>
      /\ At(Cmd(c), "started")
    BY AtWork DEF Started, At, Starting, Begins, IInv, StartKeepsChecks
<1>2. task' = [task EXCEPT ![Cmd(c)] = Idle, ![Monitor(k)] = Begin("watch"),
                           ![Reader(k)] = Begin("read"), ![Probe(k)] = Begin("probe")]
    BY DEF Started
<1>3. Idle.at = "idle" /\ \A l : Begin(l).at = l /\ Begin(l).srv = s BY DEF Idle
<1> HIDE DEF s, k, Begin
<1>4. /\ task'[Monitor(k)] = Begin("watch") /\ task'[Reader(k)] = Begin("read")
      /\ \A n \in Sessions : n # k => task'[Monitor(n)] = task[Monitor(n)]
                                      /\ task'[Reader(n)] = task[Reader(n)]
      /\ task'[Cmd(c)] = Idle /\ \A d \in Clients : d # c => task'[Cmd(d)] = task[Cmd(d)]
    BY <1>1, <1>2, AtWork, TaskNames, TaskKinds, ReaderNames
<1>5. \A d \in Clients : /\ At(Cmd(d), "assign")' => d # c /\ At(Cmd(d), "assign")
                          /\ \A n : HasSpawned(d, n) <=> HasSpawned(d, n)'
    <2> TAKE d \in Clients
    <2>1. CASE d = c BY <1>1, <1>3, <1>4, <2>1 DEF HasSpawned, At
    <2>2. CASE d # c BY <1>4, <2>2 DEF HasSpawned, At
    <2> QED BY <2>1, <2>2
<1>6. JavaIsRegistered'
    <2> SUFFICES ASSUME NEW n \in Sessions, LooksAfter(n)'
                 PROVE  \/ registry'[java'[n].srv] # None /\ registry'[java'[n].srv].n = n
                        \/ \E d \in Clients : HasSpawned(d, n)'
        BY DEF JavaIsRegistered
    <2>1. LooksAfter(n) BY <1>1 DEF LooksAfter, Alive
    <2>2. CASE registry[java[n].srv] # None /\ registry[java[n].srv].n = n BY <1>1, <2>2
    <2>3. ASSUME NEW d \in Clients, HasSpawned(d, n) PROVE HasSpawned(d, n)'
        BY <1>1, <1>4, <2>3 DEF HasSpawned, At
    <2> QED BY <2>1, <2>2, <2>3 DEF SessionInv, JavaIsRegistered
<1>7. WatchedTillExit'
    BY <1>1, <1>3, <1>4 DEF SessionInv, WatchedTillExit, Alive
<1>8. ReaderIsJoined'
    BY <1>3, <1>4 DEF SessionInv, ReaderIsJoined, At
<1>9. JobsAreSpawned' BY <1>1, <1>4, <1>5 DEF SessionInv, JobsAreSpawned
<1> QED BY <1>6, <1>7, <1>8, <1>9 DEF SessionInv

(* A monitor sees the exit, joins the reader and takes the entry away. *)
LEMMA MonitorKeepsSessions ==
    ASSUME IInv, SessionInv, NEW n \in Sessions,
           MonitorSeesExit(n) \/ MonitorJoins(n) \/ MonitorUnregisters(n)
    PROVE  SessionInv'
<1> DEFINE f == task[Monitor(n)]
<1>1. f \in Frame /\ ~ At(Monitor(n), "idle") /\ f.srv \in Servers /\ UNCHANGED <<java, count>>
    <2>1. ~ At(Monitor(n), "idle") BY DEF MonitorSeesExit, MonitorJoins, MonitorUnregisters, At
    <2> QED BY <2>1, AtWork DEF MonitorSeesExit, MonitorJoins, MonitorUnregisters, allButTask
<1>0. CmdsKept
    <2>1. CASE MonitorJoins(n)
        <3>1. task' = [task EXCEPT ![Monitor(n)].at = "verdict", ![Reader(n)] = Idle]
            BY <2>1 DEF MonitorJoins
        <3> QED BY <3>1, AtWork, TaskNames, TaskKinds DEF CmdsKept
    <2>2. CASE MonitorSeesExit(n) \/ MonitorUnregisters(n)
        <3>1. \E g : Becomes(Monitor(n), g)
            BY <2>2 DEF MonitorSeesExit, MonitorUnregisters, Goto, Finish
        <3> QED BY <3>1, AtWork, TaskNames, TaskKinds DEF Becomes, CmdsKept
    <2> QED BY <2>1, <2>2
<1>2. ~ Alive(n) BY DEF MonitorSeesExit, MonitorJoins, MonitorUnregisters, SessionInv, WatchedTillExit, At
<1>3. \A m \in Sessions : m # n => task'[Monitor(m)] = task[Monitor(m)] /\ task'[Reader(m)] = task[Reader(m)]
    <2>1. CASE MonitorJoins(n)
        <3>1. task' = [task EXCEPT ![Monitor(n)].at = "verdict", ![Reader(n)] = Idle]
            BY <2>1 DEF MonitorJoins
        <3> QED BY <3>1, AtWork, TaskNames, TaskKinds, ReaderNames
    <2>2. CASE MonitorSeesExit(n) \/ MonitorUnregisters(n)
        <3>1. \E g : Becomes(Monitor(n), g)
            BY <2>2 DEF MonitorSeesExit, MonitorUnregisters, Goto, Finish
        <3> QED BY <3>1, AtWork, TaskNames, TaskKinds, ReaderNames DEF Becomes
    <2> QED BY <2>1, <2>2
<1>4. \/ At(Reader(n), "idle")'
      \/ /\ task'[Reader(n)] = task[Reader(n)] /\ At(Monitor(n), "watch")
         /\ task'[Monitor(n)].at = "join" /\ task'[Monitor(n)].srv = f.srv
    <2>1. Monitor(n) \in Tasks /\ Reader(n) \in Tasks /\ Monitor(n) # Reader(n)
        BY TaskNames, TaskKinds
    <2>2. CASE MonitorSeesExit(n)
        <3>1. At(Monitor(n), "watch") /\ task' = [task EXCEPT ![Monitor(n)] = [f EXCEPT !.at = "join"]]
            BY <2>2 DEF MonitorSeesExit, Goto, Becomes
        <3> QED BY <1>1, <2>1, <3>1, AtWork DEF Frame
    <2>3. CASE MonitorJoins(n)
        <3>1. task' = [task EXCEPT ![Monitor(n)].at = "verdict", ![Reader(n)] = Idle]
            BY <2>3 DEF MonitorJoins
        <3> QED BY <2>1, <3>1, AtWork DEF At, Idle
    <2>4. CASE MonitorUnregisters(n)
        <3>1. At(Reader(n), "idle")
            BY <2>4 DEF MonitorUnregisters, SessionInv, ReaderIsJoined, At
        <3>2. \E g : Becomes(Monitor(n), g) BY <2>4 DEF MonitorUnregisters, Goto, Finish
        <3> QED BY <2>1, <3>1, <3>2, AtWork DEF Becomes, At
    <2> QED BY <2>2, <2>3, <2>4
<1>5. registry' = registry \/ (registry[f.srv].n = n /\ registry' = [registry EXCEPT ![f.srv] = None])
    <2>1. CASE MonitorUnregisters(n)
        <3>1. registry[f.srv].n = n BY <2>1 DEF MonitorUnregisters, IInv, MonitorOwnsEntry, At
        <3> QED BY <2>1, <3>1 DEF MonitorUnregisters
    <2>2. CASE ~ MonitorUnregisters(n) BY <2>2 DEF MonitorSeesExit, MonitorJoins, allButTask
    <2> QED BY <2>1, <2>2
<1> HIDE DEF f
<1>6. JavaIsRegistered'
    <2> SUFFICES ASSUME NEW m \in Sessions, LooksAfter(m)'
                 PROVE  \/ registry'[java'[m].srv] # None /\ registry'[java'[m].srv].n = m
                        \/ \E c \in Clients : HasSpawned(c, m)'
        BY DEF JavaIsRegistered
    <2>1. LooksAfter(m) /\ java'[m] = java[m] BY <1>1 DEF LooksAfter, Alive
    <2>2. m # n BY <1>2, <2>1 DEF LooksAfter
    <2>3. CASE registry[java[m].srv] # None /\ registry[java[m].srv].n = m
        <3>1. java[m].srv \in Servers
            <4>1. java[m].st # "none" BY <2>1 DEF LooksAfter, Alive
            <4> QED BY <4>1 DEF IInv, SessionsNumbered
        <3>2. registry'[java[m].srv] = registry[java[m].srv]
            BY <1>1, <1>5, <2>2, <2>3, <3>1 DEF IInv, TypeOK
        <3> QED BY <2>1, <2>3, <3>2
    <2>4. CASE \E c \in Clients : HasSpawned(c, m)
        BY <1>0, <2>4 DEF CmdsKept, HasSpawned, At
    <2> QED BY <2>1, <2>3, <2>4 DEF SessionInv, JavaIsRegistered
<1>7. WatchedTillExit'
    BY <1>1, <1>2, <1>3 DEF SessionInv, WatchedTillExit, Alive
<1>8. ReaderIsJoined'
    BY <1>3, <1>4 DEF SessionInv, ReaderIsJoined, At, f
<1>9. JobsAreSpawned' BY <1>0, <1>1 DEF SessionInv, JobsAreSpawned, CmdsKept, At
<1> QED BY <1>6, <1>7, <1>8, <1>9 DEF SessionInv

LEMMA LaunchKeepsSessions == ASSUME IInv, SessionInv, NextLaunch PROVE SessionInv'
<1>1. /\ java' = [n \in Sessions |->
                   IF java[n].inJob /\ Alive(n) THEN [java[n] EXCEPT !.st = "dead"] ELSE java[n]]
      /\ task' = [t \in Tasks |-> Idle] /\ count' = [count EXCEPT !.launch = @ + 1]
    BY DEF NextLaunch
<1>2. \A n \in Sessions : java[n] \in Process BY DEF IInv, TypeOK
<1>3. \A n \in Sessions : ~ LooksAfter(n)' /\ java'[n].inJob = java[n].inJob
    BY <1>1, <1>2 DEF LooksAfter, Alive, Process
<1>4. /\ \A n \in Sessions : task'[Monitor(n)].at = "idle" /\ task'[Reader(n)].at = "idle"
      /\ \A c \in Clients : task'[Cmd(c)].at = "idle"
    BY <1>1, TaskNames DEF Idle
<1>5. count'.session = count.session BY <1>1 DEF IInv, TypeOK
<1>6. JobsAreSpawned' BY <1>3, <1>4, <1>5 DEF SessionInv, JobsAreSpawned, At
<1> QED BY <1>3, <1>4, <1>6 DEF SessionInv, JavaIsRegistered, WatchedTillExit, ReaderIsJoined, At

LEMMA SessionStepOK == IInv /\ SessionInv /\ [Next]_vars => SessionInv'
<1> SUFFICES ASSUME IInv, SessionInv, [Next]_vars PROVE SessionInv'
    OBVIOUS
<1>1. count.session <= count'.session /\ count'.session \in Nat
    BY CountsGrow, StepOK, BoundsAssumption DEF IInv, TypeOK
<1> QED BY <1>1, StepKinds, SessionsGoOnKeeps, SpawnKeepsSessions, AssignKeepsSessions,
           RegisterKeepsSessions, StartedKeepsSessions, MonitorKeepsSessions, LaunchKeepsSessions

LEMMA SessionInitOK == Init => SessionInv
<1> SUFFICES ASSUME Init PROVE SessionInv
    OBVIOUS
<1>1. /\ \A n \in Sessions : task[Monitor(n)].at = "idle" /\ task[Reader(n)].at = "idle" /\ ~ java[n].inJob
      /\ \A c \in Clients : task[Cmd(c)].at = "idle"
    BY TaskNames DEF Init, Idle, NoJava
<1> QED BY <1>1 DEF SessionInv, JavaIsRegistered, WatchedTillExit, ReaderIsJoined, JobsAreSpawned, LooksAfter, At

-----------------------------------------------------------------------------
(* What follows for the program. *)

(* SessionInv is an invariant too: Java in the job object is registered or in the hands
   of a start that is about to, a monitor ends its watch when its Java has, a reader at
   work has yet to be joined (process.rs, start and spawn_monitor). *)
THEOREM SessionInvariance == Spec => []SessionInv
BY Invariance, SessionInitOK, SessionStepOK, PTL DEF Spec

(* A server never has two Java processes that Nooki looks after (process.rs: start
   refuses a registered server, the monitor's entry goes last). *)
THEOREM OneJava == Spec => []OneJavaPerServer
<1>1. ASSUME IInv, SessionInv, NEW m \in Sessions, NEW n \in Sessions,
             LooksAfter(m), LooksAfter(n), java[m].srv = java[n].srv
      PROVE  m = n
    <2>1. ASSUME NEW k \in Sessions, NEW c \in Clients, HasSpawned(c, k)
          PROVE  registry[java[k].srv] = None /\ Starting(c)
        <3>1. At(Cmd(c), "insert") /\ k = task[Cmd(c)].n BY <2>1 DEF HasSpawned
        <3>2. java[k].srv = task[Cmd(c)].srv /\ registry[task[Cmd(c)].srv] = None
            BY <1>1, <2>1, <3>1, SpawnedFrame DEF At
        <3> QED BY <3>1, <3>2 DEF Starting, At
    <2>2. CASE registry[java[m].srv] # None
        BY <1>1, <2>1, <2>2 DEF SessionInv, JavaIsRegistered
    <2>3. CASE registry[java[m].srv] = None
        <3>1. PICK c \in Clients, d \in Clients : HasSpawned(c, m) /\ HasSpawned(d, n)
            BY <1>1, <2>3 DEF SessionInv, JavaIsRegistered
        <3>2. c = d BY <1>1, <2>1, <3>1 DEF IInv, LocksHeld
        <3> QED BY <3>1, <3>2 DEF HasSpawned
    <2> QED BY <2>2, <2>3
<1>2. IInv /\ SessionInv => OneJavaPerServer BY <1>1 DEF OneJavaPerServer
<1> QED BY <1>2, Invariance, SessionInvariance, PTL

(* fail_startup kills the process whose console it read, although it looks for it by
   the server's id (process.rs, fail_startup): the monitor joins the reader first. *)
THEOREM FatalLinesKillTheirOwn == Spec => []FatalLineKillsOwnSession
<1>1. IInv /\ SessionInv => FatalLineKillsOwnSession
    BY DEF SessionInv, ReaderIsJoined, IInv, MonitorOwnsEntry, FatalLineKillsOwnSession, At
<1> QED BY <1>1, Invariance, SessionInvariance, PTL

(* When quit_application has waited for the registry to empty, the job object holds no
   Java process but one that a start has spawned and not yet registered (process.rs,
   stop_all; commands.rs, quit_application). *)
THEOREM QuitWaitsForAll == Spec => QuitWaitsForServers
<1>1. ASSUME IInv, SessionInv, QuitSeesEmpty, NEW n \in Sessions, LooksAfter(n)
      PROVE  \E c \in Clients : HasSpawned(c, n)
    <2>1. java[n].srv \in Servers BY <1>1 DEF LooksAfter, Alive, IInv, SessionsNumbered
    <2>2. registry[java[n].srv] = None BY <1>1, <2>1 DEF QuitSeesEmpty
    <2> QED BY <1>1, <2>2 DEF SessionInv, JavaIsRegistered
<1>2. IInv /\ SessionInv /\ [Next]_vars =>
        [QuitSeesEmpty =>
            \A n \in Sessions : LooksAfter(n) => \E c \in Clients : HasSpawned(c, n)]_vars
    BY <1>1
<1> QED BY <1>2, Invariance, SessionInvariance, PTL DEF Spec, QuitWaitsForServers

-----------------------------------------------------------------------------
(* The process manager implements ServerLife: every step is a launch, an entry, an exit,
   an entry that goes, the end of all, or nothing it speaks of. *)

Fresh == {n \in Sessions : \E c \in Clients : HasSpawned(c, n)}
Living == {n \in Sessions : LooksAfter(n)}
Spawns == {n \in Sessions : java[n].inJob}

LEMMA LifeStutters ==
    ASSUME UNCHANGED <<registry, Fresh, Living, Spawns>> PROVE [Life!Next]_(Life!vars)
BY DEF Life!vars, Fresh, Living, Spawns

LEMMA LifeInit == Init => Life!Init
<1> SUFFICES ASSUME Init PROVE Life!Init
    OBVIOUS
<1>1. (\A n \in Sessions : ~ java[n].inJob) /\ \A c \in Clients : task[Cmd(c)].at = "idle"
    BY TaskNames DEF Init, NoJava, Idle
<1> QED BY <1>1 DEF Init, Life!Init, LooksAfter, HasSpawned, At

LEMMA LifeGoesOn == ASSUME IInv, SessionsGoOn PROVE [Life!Next]_(Life!vars)
<1> USE DEF IInv, SessionsGoOn
<1>1. Spawns' = Spawns BY JavaOnlyDies DEF Spawns
<1>2. Fresh' = Fresh BY DEF Fresh, HasSpawned, SpawnGoesOn, At
<1>3. \A n \in Sessions : java[n] \in Process BY DEF TypeOK
<1>4. CASE Living' = Living BY <1>1, <1>2, <1>4, LifeStutters
<1>5. CASE Living' # Living
    <2>1. PICK n \in Sessions : java' = Killed(n) \/ (java[n].st = "up" /\ java' = [java EXCEPT ![n].st = "listening"])
        BY <1>5 DEF JavaStaysOrDies, Living, LooksAfter, Alive
    <2>2. \A m \in Sessions : m # n => (LooksAfter(m)' <=> LooksAfter(m))
        BY <2>1 DEF Killed, LooksAfter, Alive, TypeOK
    <2>3. LooksAfter(n)' => LooksAfter(n) BY JavaOnlyDies DEF LooksAfter
    <2>4. n \in Living /\ Living' = Living \ {n}
        BY <1>5, <2>2, <2>3 DEF Living
    <2>5. Life!Exit(n) BY <1>1, <1>2, <2>4 DEF Life!Exit, Fresh, Living, Spawns
    <2> QED BY <2>5 DEF Life!Next
<1> QED BY <1>4, <1>5

(* Java that is not in the job object yet is nothing ServerLife speaks of. *)
LEMMA LifeSpawns ==
    ASSUME IInv, SessionInv, NEW c \in Clients, StartSpawn(c) PROVE [Life!Next]_(Life!vars)
<1> DEFINE k == NewSession
<1>1. /\ At(Cmd(c), "spawn") /\ UNCHANGED registry /\ k \in Sessions /\ ~ (k <= count.session)
      /\ ~ java'[k].inJob /\ \A n \in Sessions : n # k => java'[n] = java[n]
      /\ task'[Cmd(c)].at = "assign"
    BY SpawnIsFresh
<1>2. \A d \in Clients : d # c => task'[Cmd(d)] = task[Cmd(d)]
    BY StartMovesAlone DEF OtherCmdsKept
<1>3. ~ java[k].inJob BY <1>1 DEF SessionInv, JobsAreSpawned
<1> HIDE DEF k
<1>4. Living' = Living /\ Spawns' = Spawns
    BY <1>1, <1>3 DEF Living, Spawns, LooksAfter, Alive
<1>5. \A d \in Clients, n \in Sessions : HasSpawned(d, n)' <=> HasSpawned(d, n)
    BY <1>1, <1>2 DEF HasSpawned, At
<1>6. Fresh' = Fresh BY <1>5 DEF Fresh
<1> QED BY <1>1, <1>4, <1>6, LifeStutters

(* It enters the job object, dead already perhaps. *)
LEMMA LifeLaunches ==
    ASSUME IInv, SessionInv, NEW c \in Clients, AssignJob(c) PROVE [Life!Next]_(Life!vars)
<1> DEFINE k == task[Cmd(c)].n
<1>1. /\ At(Cmd(c), "assign") /\ k \in Sessions /\ UNCHANGED registry
      /\ java'[k].inJob /\ java'[k].st = java[k].st
      /\ \A n \in Sessions : n # k => java'[n] = java[n]
      /\ At(Cmd(c), "insert")' /\ task'[Cmd(c)].n = k
    BY AssignIsInJob
<1>2. \A d \in Clients : d # c => ~ At(Cmd(d), "insert") /\ ~ At(Cmd(d), "insert")'
    BY StartMovesAlone DEF Starting, At
<1>3. ~ java[k].inJob BY <1>1 DEF SessionInv, JobsAreSpawned
<1> HIDE DEF k
<1>4. Fresh = {} BY <1>1, <1>2 DEF Fresh, HasSpawned, At
<1>5. Fresh' = {k} BY <1>1, <1>2 DEF Fresh, HasSpawned
<1>6. k \notin Spawns /\ Spawns' = Spawns \cup {k} BY <1>1, <1>3 DEF Spawns
<1>7. Living' \in {Living, Living \cup {k}}
    <2>1. \A n \in Sessions : n # k => (LooksAfter(n)' <=> LooksAfter(n))
        BY <1>1 DEF LooksAfter, Alive
    <2>2. ~ LooksAfter(k) BY <1>3 DEF LooksAfter
    <2>3. CASE LooksAfter(k)' BY <1>1, <2>1, <2>2, <2>3 DEF Living
    <2>4. CASE ~ LooksAfter(k)' BY <1>1, <2>1, <2>2, <2>4 DEF Living
    <2> QED BY <2>3, <2>4
<1>8. PICK n \in Sessions : n = k BY <1>1
<1>9. Life!Launch(n) BY <1>1, <1>4, <1>5, <1>6, <1>7, <1>8 DEF Life!Launch, Fresh, Living, Spawns
<1> QED BY <1>9 DEF Life!Next

(* It gets its entry. *)
LEMMA LifeEnters ==
    ASSUME IInv, SessionInv, NEW c \in Clients, Register(c) PROVE [Life!Next]_(Life!vars)
<1> DEFINE s == task[Cmd(c)].srv
           k == task[Cmd(c)].n
           p == task[Cmd(c)].row.port
<1>1. /\ HasSpawned(c, k) /\ s \in Servers /\ k \in Sessions /\ p \in Ports /\ registry[s] = None
      /\ UNCHANGED java /\ \A o \in Servers : registry[o] # None => registry[o].port # p
      /\ registry' = [registry EXCEPT ![s] = [n |-> k, port |-> p]]
      /\ task'[Cmd(c)].at = "saveDb"
    BY RegisterEnters
<1>2. \A d \in Clients : d # c => ~ At(Cmd(d), "insert") /\ ~ At(Cmd(d), "insert")'
    BY StartMovesAlone DEF Starting, At
<1> HIDE DEF s, k, p
<1>3. Fresh = {k} BY <1>1, <1>2 DEF Fresh, HasSpawned
<1>4. Fresh' = {} BY <1>1, <1>2 DEF Fresh, HasSpawned, At
<1>5. Living' = Living /\ Spawns' = Spawns BY <1>1 DEF Living, Spawns, LooksAfter, Alive
<1>6. PICK o \in Servers, n \in Sessions, q \in Ports : o = s /\ n = k /\ q = p
    BY <1>1
<1>7. Life!Enter(o, n, q)
    BY <1>1, <1>3, <1>4, <1>5, <1>6 DEF Life!Enter, Fresh, Living, Spawns
<1> QED BY <1>7 DEF Life!Next

LEMMA LifeForgets ==
    ASSUME IInv, SessionInv, NEW n \in Sessions, MonitorUnregisters(n)
    PROVE  [Life!Next]_(Life!vars)
<1> DEFINE s == task[Monitor(n)].srv
<1>1. s \in Servers /\ registry[s] # None /\ registry[s].n = n /\ ~ Alive(n)
    BY AtWork DEF MonitorUnregisters, At, IInv, MonitorOwnsEntry, SessionInv, WatchedTillExit
<1>2. registry' = [registry EXCEPT ![s] = None] /\ java' = java BY DEF MonitorUnregisters
<1>3. Fresh' = Fresh
    <2>1. \E g : Becomes(Monitor(n), g) BY DEF MonitorUnregisters, Goto, Finish
    <2>2. \A c \in Clients : task'[Cmd(c)] = task[Cmd(c)]
        BY <2>1, AtWork, TaskNames, TaskKinds DEF Becomes
    <2> QED BY <2>2 DEF Fresh, HasSpawned, At
<1>4. Living' = Living /\ Spawns' = Spawns BY <1>2 DEF Living, Spawns, LooksAfter, Alive
<1>5. n \notin Living BY <1>1 DEF Living, LooksAfter
<1>6. PICK o \in Servers : o = s BY <1>1
<1>7. Life!Forget(o) BY <1>1, <1>2, <1>3, <1>4, <1>5, <1>6 DEF Life!Forget, Fresh, Living, Spawns
<1> QED BY <1>7 DEF Life!Next

LEMMA LifeEnds == ASSUME IInv, NextLaunch PROVE [Life!Next]_(Life!vars)
<1>1. /\ java' = [n \in Sessions |->
                   IF java[n].inJob /\ Alive(n) THEN [java[n] EXCEPT !.st = "dead"] ELSE java[n]]
      /\ registry' = [s \in Servers |-> None] /\ task' = [t \in Tasks |-> Idle]
    BY DEF NextLaunch
<1>2. \A n \in Sessions : java[n] \in Process BY DEF IInv, TypeOK
<1>3. \A n \in Sessions : ~ LooksAfter(n)' /\ (java'[n].inJob = java[n].inJob)
    BY <1>1, <1>2 DEF LooksAfter, Alive, Process
<1>4. Living' = {} /\ Spawns' = Spawns BY <1>3 DEF Living, Spawns
<1>5. \A c \in Clients : task'[Cmd(c)].at = "idle" BY <1>1, TaskNames DEF Idle
<1>6. Fresh' = {} BY <1>5 DEF Fresh, HasSpawned, At
<1>7. Life!End BY <1>1, <1>4, <1>6 DEF Life!End, Fresh, Living, Spawns
<1> QED BY <1>7 DEF Life!Next

(* A monitor and a reader begin, a monitor goes on: nothing ServerLife speaks of. *)
LEMMA LifeWatches ==
    ASSUME IInv, \/ \E c \in Clients : Started(c)
                 \/ \E n \in Sessions : MonitorSeesExit(n) \/ MonitorJoins(n)
    PROVE  [Life!Next]_(Life!vars)
<1>1. UNCHANGED <<registry, java>>
    BY DEF Started, MonitorSeesExit, MonitorJoins, allButTask
<1>2. Living' = Living /\ Spawns' = Spawns BY <1>1 DEF Living, Spawns, LooksAfter, Alive
<1>3. \A d \in Clients, n \in Sessions : HasSpawned(d, n)' <=> HasSpawned(d, n)
    <2>1. CASE \E c \in Clients : Started(c)
        <3> PICK c \in Clients : Started(c) BY <2>1
        <3>1. At(Cmd(c), "started") /\ At(Cmd(c), "idle")' /\ OtherCmdsKept(c) BY StartedFrames
        <3> TAKE d \in Clients, n \in Sessions
        <3>2. CASE d = c BY <3>1, <3>2 DEF HasSpawned, At
        <3>3. CASE d # c BY <3>1, <3>3 DEF OtherCmdsKept, HasSpawned, At
        <3> QED BY <3>2, <3>3
    <2>2. CASE \E n \in Sessions : MonitorSeesExit(n) \/ MonitorJoins(n)
        <3> PICK n \in Sessions : MonitorSeesExit(n) \/ MonitorJoins(n) BY <2>2
        <3>1. \/ \E g : task' = [task EXCEPT ![Monitor(n)] = g]
              \/ task' = [task EXCEPT ![Monitor(n)].at = "verdict", ![Reader(n)] = Idle]
            BY DEF MonitorSeesExit, MonitorJoins, Goto, Becomes
        <3>2. \A c \in Clients : task'[Cmd(c)] = task[Cmd(c)]
            BY <3>1, AtWork, TaskNames, TaskKinds
        <3> QED BY <3>2 DEF HasSpawned, At
    <2> QED BY <2>1, <2>2
<1>4. Fresh' = Fresh BY <1>3 DEF Fresh
<1> QED BY <1>1, <1>2, <1>4, LifeStutters

LEMMA LifeStep == IInv /\ SessionInv /\ [Next]_vars => [Life!Next]_(Life!vars)
<1> SUFFICES ASSUME IInv, SessionInv, [Next]_vars PROVE [Life!Next]_(Life!vars)
    OBVIOUS
<1> QED BY StepKinds, LifeGoesOn, LifeSpawns, LifeLaunches, LifeEnters, LifeWatches, LifeForgets, LifeEnds

(* ProcessManager keeps the promise ServerLife states: one process at a time enters the
   job object, under a new session; it gets its entry only while its server has none and
   no other entry has its port, and its entry goes only after its Java (process.rs, start
   and spawn_monitor). *)
THEOREM ImplementsServerLife == Spec => ServerLifeSpec
<1>1. IInv /\ SessionInv /\ [Next]_vars => [Life!Next]_(Life!vars)
    BY LifeStep
<1> QED BY <1>1, LifeInit, Invariance, SessionInvariance, PTL DEF Spec, ServerLifeSpec, Life!Spec

(* What ServerLife promises follows from its own steps, and so for the program. *)
LEMMA KnownInit == Life!Init => Life!Known
BY DEF Life!Init, Life!Known

LEMMA KnownStep == Life!Known /\ [Life!Next]_(Life!vars) => Life!Known'
<1> SUFFICES ASSUME Life!Known, [Life!Next]_(Life!vars) PROVE Life!Known'
    OBVIOUS
<1> DEFINE K == /\ registry = [s \in Servers |-> registry[s]]
                /\ Fresh \subseteq Spawns
                /\ \A s \in Servers : registry[s] # None => registry[s].n \in Spawns \ Fresh
                /\ \A s, o \in Servers :
                      registry[s] # None /\ registry[o] # None /\ registry[s].n = registry[o].n => s = o
                /\ \A n \in Living : n \in Fresh \/ \E s \in Servers : registry[s] # None /\ registry[s].n = n
<1>1. K BY DEF Life!Known, Fresh, Living, Spawns
<1> SUFFICES K'
    BY DEF Life!Known, Fresh, Living, Spawns
<1>2. CASE \E n \in Sessions : Life!Launch(n)
    <2> PICK n \in Sessions : Life!Launch(n) BY <1>2
    <2>1. /\ Fresh = {} /\ n \notin Spawns /\ Fresh' = {n} /\ Spawns' = Spawns \cup {n}
          /\ Living' \subseteq Living \cup {n} /\ registry' = registry
        BY DEF Life!Launch, Fresh, Living, Spawns
    <2> QED BY <1>1, <2>1
<1>3. CASE \E s \in Servers, n \in Sessions, p \in Ports : Life!Enter(s, n, p)
    <2> PICK s \in Servers, n \in Sessions, p \in Ports : Life!Enter(s, n, p) BY <1>3
    <2> DEFINE e == [n |-> n, port |-> p]
    <2>1. /\ Fresh = {n} /\ registry[s] = None /\ registry' = [registry EXCEPT ![s] = e]
          /\ Fresh' = {} /\ Living' = Living /\ Spawns' = Spawns
        BY DEF Life!Enter, Fresh, Living, Spawns
    <2>2. e.n = n /\ e # None BY NoneAssumption DEF Entry
    <2> HIDE DEF e
    <2>3. registry' = [o \in Servers |-> IF o = s THEN e ELSE registry[o]]
        BY <1>1, <2>1
    <2>4. \A o \in Servers : registry[o] # None => registry[o].n # n BY <1>1, <2>1
    <2> QED BY <1>1, <2>1, <2>2, <2>3, <2>4
<1>4. CASE \E n \in Sessions : Life!Exit(n)
    <2>1. Living' \subseteq Living /\ registry' = registry /\ Spawns' = Spawns /\ Fresh' = Fresh
        BY <1>4 DEF Life!Exit, Fresh, Living, Spawns
    <2> QED BY <1>1, <2>1
<1>5. CASE \E s \in Servers : Life!Forget(s)
    <2> PICK s \in Servers : Life!Forget(s) BY <1>5
    <2>1. /\ registry[s] # None /\ registry[s].n \notin Living
          /\ registry' = [registry EXCEPT ![s] = None]
          /\ Living' = Living /\ Spawns' = Spawns /\ Fresh' = Fresh
        BY DEF Life!Forget, Fresh, Living, Spawns
    <2>2. registry' = [o \in Servers |-> IF o = s THEN None ELSE registry[o]]
        BY <1>1, <2>1
    <2> QED BY <1>1, <2>1, <2>2
<1>6. CASE Life!End
    <2>1. Fresh' = {} /\ Living' = {} /\ registry' = [s \in Servers |-> None]
        BY <1>6 DEF Life!End, Fresh, Living
    <2> QED BY <2>1
<1>7. CASE UNCHANGED Life!vars
    <2>1. Living' = Living /\ registry' = registry /\ Spawns' = Spawns /\ Fresh' = Fresh
        BY <1>7 DEF Life!vars, Fresh, Living, Spawns
    <2> QED BY <1>1, <2>1
<1> QED BY <1>2, <1>3, <1>4, <1>5, <1>6, <1>7 DEF Life!Next

(* Every Java process in the job object is the one entry of one server, or the one a start
   has spawned and is about to enter: once it is entered force_stop, stop_all and
   fail_startup, which find a process by its server's id, find it and no other
   (process.rs, processes). *)
THEOREM JavaIsKnown == Spec => []Life!Known
<1>1. ServerLifeSpec => []Life!Known
    BY KnownInit, KnownStep, PTL DEF ServerLifeSpec, Life!Spec
<1> QED BY <1>1, ImplementsServerLife, PTL

-----------------------------------------------------------------------------
(* Locks and entries.  Most steps leave both as they are: a command at work stays at
   work on its server, and who is to take an entry away still is. *)

CommandGoesOnOrFails(c) ==
    /\ ~ At(Cmd(c), "idle") => ~ At(Cmd(c), "idle")' /\ task'[Cmd(c)].srv = task[Cmd(c)].srv
    /\ Begins(c) => (Begins(c)' /\ task'[Cmd(c)].n = task[Cmd(c)].n) \/ count'.dbFailure # 0
WatchesOn(n) == Watches(n) => Watches(n)'
Onwards ==
    /\ UNCHANGED <<registry, startLock, opLock>>
    /\ \A c \in Clients : CommandGoesOnOrFails(c)
    /\ \A n \in Sessions : WatchesOn(n)
Leaves(c) ==
    /\ ~ At(Cmd(c), "idle") /\ ~ Begins(c) /\ Return(c)
    /\ UNCHANGED registry /\ OtherCmdsKept(c) /\ MonitorsKept

(* A task that is neither a command nor a monitor moves, or none does. *)
LEMMA KeptIsOnwards ==
    ASSUME UNCHANGED <<registry, startLock, opLock>>, CmdsKept, MonitorsKept PROVE Onwards
BY DEF Onwards, CmdsKept, MonitorsKept, CommandGoesOnOrFails, WatchesOn, Begins, Starting, Saving, Watches, At

LEMMA HelperIsOnwards ==
    ASSUME IInv, UNCHANGED <<registry, startLock, opLock>>, NEW t \in Tasks, NEW g, Becomes(t, g),
           \A c : t # Cmd(c), \A n : t # Monitor(n)
    PROVE  Onwards
<1>1. \A u \in Tasks : u # t => task'[u] = task[u] BY AtWork DEF Becomes
<1> QED BY <1>1, OthersKept, KeptIsOnwards

(* A command that is not about to begin a session moves on. *)
LEMMA CommandIsOnwards ==
    ASSUME IInv, UNCHANGED <<registry, startLock, opLock>>, NEW c \in Clients, NEW g, Becomes(Cmd(c), g),
           ~ Begins(c), g.at # "idle", g.srv = task[Cmd(c)].srv
    PROVE  Onwards
<1>1. task'[Cmd(c)] = g /\ \A u \in Tasks : u # Cmd(c) => task'[u] = task[u]
    BY AtWork, TaskNames DEF Becomes
<1>2. OtherCmdsKept(c) /\ MonitorsKept BY <1>1, OthersKept, TaskNames
<1>3. ASSUME NEW d \in Clients PROVE CommandGoesOnOrFails(d)
    <2>1. CASE d = c BY <1>1, <2>1 DEF CommandGoesOnOrFails, At
    <2>2. CASE d # c
        BY <1>2, <2>2 DEF OtherCmdsKept, CommandGoesOnOrFails, Begins, Starting, Saving, At
    <2> QED BY <2>1, <2>2
<1> QED BY <1>2, <1>3 DEF Onwards, MonitorsKept, WatchesOn, Watches

(* A monitor that keeps its entry moves on. *)
LEMMA MonitorIsOnwards ==
    ASSUME IInv, UNCHANGED <<registry, startLock, opLock>>, NEW n \in Sessions, NEW g,
           Becomes(Monitor(n), g), Watches(n) => g.at \notin {"idle", "ephRow", "ephMem"}
    PROVE  Onwards
<1>1. task'[Monitor(n)] = g /\ \A u \in Tasks : u # Monitor(n) => task'[u] = task[u]
    BY AtWork, TaskNames DEF Becomes
<1>2. OtherMonitorsKept(n) /\ CmdsKept BY <1>1, OthersKept, TaskNames
<1>3. ASSUME NEW m \in Sessions PROVE WatchesOn(m)
    <2>1. CASE m = n BY <1>1, <2>1 DEF WatchesOn, Watches
    <2>2. CASE m # n BY <1>2, <2>2 DEF OtherMonitorsKept, WatchesOn, Watches
    <2> QED BY <2>1, <2>2
<1> QED BY <1>2, <1>3 DEF Onwards, CmdsKept, CommandGoesOnOrFails, Begins, Starting, Saving, At

LEMMA ReturnLeaves ==
    ASSUME IInv, NEW c \in Clients, ~ At(Cmd(c), "idle"), ~ Begins(c), Return(c), UNCHANGED registry
    PROVE  Leaves(c)
<1>1. \A u \in Tasks : u # Cmd(c) => task'[u] = task[u]
    BY AtWork, TaskNames DEF Return, Finish, Becomes
<1> QED BY <1>1, OthersKept, TaskNames DEF Leaves

LEMMA SaveIsOnwards == ASSUME IInv, NEW t \in Tasks, SaveStep(t) PROVE Onwards
<1> DEFINE f == task[t]
<1>1. /\ FrameOK(t, f) /\ f \in Frame /\ f.at \in {"saveDb", "saveMem"} /\ f.then \in AfterSave(t)
      /\ f.srv \in Servers
    <2>1. f.at \in {"saveDb", "saveMem"} BY DEF SaveStep, SaveDb, SaveDbFails, SaveMem, At
    <2>2. FrameOK(t, f) BY AtWork DEF FramesOK
    <2> QED BY <2>1, <2>2 DEF FrameOK
<1>2. UNCHANGED <<registry, startLock, opLock>>
    BY DEF SaveStep, SaveDb, SaveDbFails, SaveMem
<1>3. PICK g : /\ Becomes(t, g)
               /\ \/ g = [f EXCEPT !.at = "saveMem"] 
                  \/ g = [f EXCEPT !.at = "failed"] /\ Propagates(t) /\ count'.dbFailure # 0
                  \/ g = Resumed(f) /\ (Propagates(t) => At(t, "saveMem"))
    <2>1. CASE SaveDb(t) BY <2>1 DEF SaveDb, Goto
    <2>2. CASE SaveDbFails(t)
        <3>1. count'.dbFailure # 0 BY <2>2, BoundsAssumption DEF SaveDbFails, IInv, TypeOK
        <3> QED BY <2>2, <3>1 DEF SaveDbFails, Goto
    <2>3. CASE SaveMem(t) BY <2>3 DEF SaveMem
    <2> QED BY <2>1, <2>2, <2>3 DEF SaveStep
<1>4. CASE \A c : t # Cmd(c)
    <2>1. CASE \A n : t # Monitor(n) BY <1>2, <1>3, <1>4, <2>1, HelperIsOnwards
    <2>2. CASE \E n \in Sessions : t = Monitor(n)
        <3> PICK n \in Sessions : t = Monitor(n) BY <2>2
        <3>1. f.then \in {"log", "unregister"} /\ ~ Propagates(t) BY <1>1, TaskLabels, CommonLabels
        <3>2. g.at \in {"saveMem", "log", "unregister"}
            <4>1. CASE g = [f EXCEPT !.at = "saveMem"] BY <1>1, <4>1 DEF Frame
            <4>2. CASE g = Resumed(f) BY <1>1, <3>1, <4>2, ResumedFrame
            <4> QED BY <1>3, <3>1, <4>1, <4>2
        <3> HIDE DEF f
        <3> QED BY <1>2, <1>3, <3>2, MonitorIsOnwards
    <2>3. (\A n : t # Monitor(n)) \/ \E n \in Sessions : t = Monitor(n)
        BY DEF Tasks, Cmd, Editor, Reader, Monitor, Probe, Timer, Quit
    <2> QED BY <2>1, <2>2, <2>3
<1>5. CASE \E c \in Clients : t = Cmd(c)
    <2> PICK c \in Clients : t = Cmd(c) BY <1>5
    <2>1. f.then \in {"started", "stop", "stopWrite"} /\ Propagates(t) BY <1>1, TaskLabels, CommonLabels
    <2>2. /\ g.at \in {"saveMem", "failed", "started", "stop", "stopWrite"}
          /\ g.srv = f.srv /\ g.n = f.n
          /\ f.then = "started" =>
                g.at = "started" \/ (g.at = "saveMem" /\ g.then = "started") \/ count'.dbFailure # 0
        <3>1. CASE g = [f EXCEPT !.at = "saveMem"] BY <1>1, <3>1 DEF Frame
        <3>2. CASE g = [f EXCEPT !.at = "failed"] /\ count'.dbFailure # 0 BY <1>1, <3>2 DEF Frame
        <3>3. CASE g = Resumed(f) BY <1>1, <2>1, <3>3, ResumedFrame
        <3> QED BY <1>3, <3>1, <3>2, <3>3
    <2>3. task'[t] = g /\ OtherCmdsKept(c) /\ MonitorsKept
        <3>1. task'[t] = g /\ \A u \in Tasks : u # t => task'[u] = task[u] BY <1>3, AtWork DEF Becomes
        <3> QED BY <3>1, OthersKept
    <2>4. Begins(c) => f.then = "started" BY <1>1 DEF Begins, Starting, Saving, At
    <2>5. ASSUME NEW d \in Clients PROVE CommandGoesOnOrFails(d)
        <3>1. CASE d = c BY <2>2, <2>3, <2>4, <3>1 DEF CommandGoesOnOrFails, Begins, Starting, Saving, At
        <3>2. CASE d # c
            BY <2>3, <3>2 DEF OtherCmdsKept, CommandGoesOnOrFails, Begins, Starting, Saving, At
        <3> QED BY <3>1, <3>2
    <2> QED BY <1>2, <2>3, <2>5 DEF Onwards, MonitorsKept, WatchesOn, Watches
<1>6. (\A c : t # Cmd(c)) \/ \E c \in Clients : t = Cmd(c)
    BY DEF Tasks, Cmd, Editor, Reader, Monitor, Probe, Timer, Quit
<1> QED BY <1>4, <1>5, <1>6

LEMMA StopIsOnwards ==
    ASSUME IInv, NEW t \in Tasks, StopStep(t) PROVE Onwards \/ \E c \in Clients : Leaves(c)
<1>1. task[t].at \in {"stop", "stopWrite"} /\ UNCHANGED registry
    BY DEF StopStep, StopRefused, StopRequest, StopWritten, StopWriteFails, At, allButTask
<1>2. CASE t = Quit
    <2>1. UNCHANGED <<startLock, opLock>> /\ \E g : Becomes(t, g)
        BY <1>2 DEF StopStep, StopRefused, StopRequest, StopWritten, StopWriteFails, StopFails, allButTask
    <2> QED BY <1>1, <1>2, <2>1, TaskKinds, HelperIsOnwards
<1>3. CASE \E c \in Clients : t = Cmd(c)
    <2> PICK c \in Clients : t = Cmd(c) BY <1>3
    <2>1. /\ t # Quit /\ t[2] = c /\ task[t] \in Frame /\ ~ Begins(c) /\ ~ At(t, "idle")
        BY <1>1, TaskKinds, AtWork DEF Begins, Starting, Saving, At, Cmd
    <2>2. CASE StopWritten(t) /\ task[t].op # "restart"
        <3>1. Return(c) BY <2>1, <2>2 DEF StopWritten
        <3> QED BY <1>1, <2>1, <3>1, ReturnLeaves
    <2>3. CASE StopRefused(t) \/ StopWriteFails(t) \/ (StopWritten(t) /\ task[t].op = "restart")
        <3>1. UNCHANGED <<startLock, opLock>> /\ \E l \in {"failed", "awaitExit"} : Goto(t, l)
            BY <2>1, <2>3 DEF StopRefused, StopWriteFails, StopWritten, StopFails, allButTask
        <3>2. PICK l \in {"failed", "awaitExit"} : Becomes(t, [task[t] EXCEPT !.at = l])
            BY <3>1 DEF Goto
        <3> DEFINE g == [task[t] EXCEPT !.at = l]
        <3>3. g.at # "idle" /\ g.srv = task[t].srv BY <2>1 DEF Frame
        <3> HIDE DEF g
        <3>4. Becomes(t, g) BY <3>2 DEF g
        <3> QED BY <1>1, <2>1, <3>1, <3>3, <3>4, CommandIsOnwards
    <2>4. CASE StopRequest(t)
        <3>1. UNCHANGED <<startLock, opLock>> BY <2>4 DEF StopRequest
        <3>2. \E m, row : Becomes(t, Saves([task[t] EXCEPT !.n = m], row, "stopWrite"))
            BY <2>4 DEF StopRequest
        <3>3. PICK m, row : Becomes(t, Saves([task[t] EXCEPT !.n = m], row, "stopWrite")) BY <3>2
        <3> DEFINE g == Saves([task[t] EXCEPT !.n = m], row, "stopWrite")
        <3>4. g.at = "saveDb" /\ g.srv = task[t].srv BY <2>1 DEF Frame, Saves
        <3> HIDE DEF g
        <3>5. Becomes(t, g) BY <3>3 DEF g
        <3> QED BY <1>1, <2>1, <3>1, <3>4, <3>5, CommandIsOnwards
    <2> QED BY <2>2, <2>3, <2>4 DEF StopStep
<1> QED BY <1>1, <1>2, <1>3, StopperKinds

LEMMA CommandKinds ==
    ASSUME IInv, NEW c \in Clients, CommandStep(c)
    PROVE  \/ Onwards \/ Leaves(c) \/ Register(c) \/ StartAccepted(c) \/ Started(c)
           \/ \E s \in Servers, op \in {"start", "stop", "forceStop", "restart", "remove"} :
                 BeginCommand(c, s, op)
<1> DEFINE f == task[Cmd(c)]
<1>1. f \in Frame BY AtWork
<1>2. CASE StartRefused(c) \/ SpawnFails(c) \/ JobAssignFails(c) \/ ForceStop(c) \/ RemoveMem(c) \/ CommandFails(c)
    <2>1. f.at \in {"start", "spawn", "assign", "forceStop", "removeMem", "failed"} /\ UNCHANGED registry /\ Return(c)
        BY <1>2 DEF StartRefused, SpawnFails, JobAssignFails, ForceStop, RemoveMem, CommandFails, At
    <2>2. ~ At(Cmd(c), "idle") /\ ~ Begins(c) BY <2>1 DEF Begins, Starting, Saving, At
    <2> QED BY <2>1, <2>2, ReturnLeaves
<1>3. CASE AwaitExit(c) \/ Remove(c) \/ RemoveWait(c) \/ RemoveRow(c) \/ RecycleFails(c)
           \/ (Restart(c) /\ Goto(Cmd(c), "failed"))
    <2>1. /\ f.at \in {"awaitExit", "remove", "removeWait", "removeRow", "restart"}
          /\ UNCHANGED <<registry, startLock, opLock>>
          /\ \E l \in {"start", "failed", "removeRow", "removeWait", "removeMem"} : Goto(Cmd(c), l)
        BY <1>3 DEF AwaitExit, Remove, RemoveWait, RemoveRow, RecycleFails, Restart, WaitOver, At, allButTask
    <2>2. PICK l \in {"start", "failed", "removeRow", "removeWait", "removeMem"} :
                Becomes(Cmd(c), [f EXCEPT !.at = l])
        BY <2>1 DEF Goto
    <2> DEFINE g == [f EXCEPT !.at = l]
    <2>3. g.at # "idle" /\ g.srv = f.srv BY <1>1 DEF Frame
    <2>4. ~ Begins(c) BY <2>1 DEF Begins, Starting, Saving, At
    <2> HIDE DEF g
    <2>5. Becomes(Cmd(c), g) BY <2>2 DEF g
    <2> QED BY <2>1, <2>3, <2>4, <2>5, CommandIsOnwards
<1>4. CASE Restart(c) /\ ~ Goto(Cmd(c), "failed")
    <2>1. f.at = "restart" /\ UNCHANGED <<registry, startLock, opLock>>
          /\ \E row : Becomes(Cmd(c), Saves(f, row, "stop"))
        BY <1>4 DEF Restart, SaveThen, At, allButTask
    <2>2. PICK row : Becomes(Cmd(c), Saves(f, row, "stop")) BY <2>1
    <2> DEFINE g == Saves(f, row, "stop")
    <2>3. g.at = "saveDb" /\ g.srv = f.srv BY <1>1 DEF Frame, Saves
    <2>4. ~ Begins(c) BY <2>1 DEF Begins, Starting, Saving, At
    <2> HIDE DEF g
    <2>5. Becomes(Cmd(c), g) BY <2>2 DEF g
    <2> QED BY <2>1, <2>3, <2>4, <2>5, CommandIsOnwards
<1>5. CASE StartSpawn(c) \/ AssignJob(c)
    <2>1. /\ f.at \in {"spawn", "assign"} /\ UNCHANGED <<registry, startLock, opLock>>
          /\ \/ Becomes(Cmd(c), [f EXCEPT !.at = "assign", !.n = NewSession])
             \/ Becomes(Cmd(c), [f EXCEPT !.at = "insert"])
        BY <1>5 DEF StartSpawn, AssignJob, Goto, At
    <2>2. /\ [f EXCEPT !.at = "assign", !.n = NewSession].at = "assign"
          /\ [f EXCEPT !.at = "assign", !.n = NewSession].srv = f.srv
          /\ [f EXCEPT !.at = "insert"].at = "insert" /\ [f EXCEPT !.at = "insert"].srv = f.srv
        BY <1>1 DEF Frame
    <2>3. PICK g : Becomes(Cmd(c), g) /\ g.at # "idle" /\ g.srv = f.srv BY <2>1, <2>2
    <2>4. ~ Begins(c) BY <2>1 DEF Begins, Starting, Saving, At
    <2> QED BY <2>1, <2>3, <2>4, CommandIsOnwards
<1> QED BY <1>2, <1>3, <1>4, <1>5 DEF CommandStep

LEMMA OthersAreOnwards ==
    ASSUME IInv,
           \/ \E s \in Servers : Edit(s) \/ EditFails(s)
           \/ \E n \in Sessions : ReaderStep(n) \/ ProbeStep(n) \/ TimerFires(n) \/ JavaListens(n) \/ JavaExits(n)
           \/ QuitMoves
           \/ UNCHANGED vars
    PROVE  Onwards
<1>1. CASE \E s \in Servers : Edit(s) \/ EditFails(s)
    <2> PICK s \in Servers : Edit(s) \/ EditFails(s) BY <1>1
    <2>1. UNCHANGED <<registry, startLock, opLock>> /\ \E g : Becomes(Editor(s), g)
        BY DEF Edit, EditFails, Finish, allButTask
    <2> QED BY <2>1, TaskNames, TaskKinds, HelperIsOnwards
<1>2. CASE \E n \in Sessions : ProbeStep(n)
    <2> PICK n \in Sessions : ProbeStep(n) BY <1>2
    <2>1. UNCHANGED <<registry, startLock, opLock>> /\ \E g : Becomes(Probe(n), g)
        BY DEF ProbeStep, ProbeConnects, ProbeReports, ProbeGivesUp, Finish, Goto, SaveThen, allButTask
    <2> QED BY <2>1, TaskNames, TaskKinds, HelperIsOnwards
<1>3. CASE \E n \in Sessions : ReaderStep(n)
    <2> PICK n \in Sessions : ReaderStep(n) BY <1>3
    <2>1. UNCHANGED <<registry, startLock, opLock>> /\ \E g : Becomes(Reader(n), g)
        BY DEF ReaderStep, ReadyLine, FatalLine, PlayerLine, ReaderKills, ReaderEnds, Finish, Goto, SaveThen,
               allButTask
    <2> QED BY <2>1, TaskNames, TaskKinds, HelperIsOnwards
<1>4. CASE \E n \in Sessions : TimerFires(n)
    <2> PICK n \in Sessions : TimerFires(n) BY <1>4
    <2>1. UNCHANGED <<registry, startLock, opLock>> /\ (UNCHANGED task \/ \E g : Becomes(Timer(n), g))
        BY DEF TimerFires
    <2>2. Timer(n) \in Tasks /\ (\A c : Timer(n) # Cmd(c)) /\ \A m : Timer(n) # Monitor(m)
        BY TaskNames, TaskKinds
    <2> QED BY <2>1, <2>2, HelperIsOnwards, KeptIsOnwards DEF CmdsKept, MonitorsKept
<1>5. CASE (\E n \in Sessions : JavaListens(n) \/ JavaExits(n)) \/ UNCHANGED vars
    <2>1. UNCHANGED <<task, registry, startLock, opLock>>
        BY <1>5 DEF JavaListens, JavaExits, vars
    <2> QED BY <2>1, KeptIsOnwards DEF CmdsKept, MonitorsKept
<1>6. CASE QuitMoves
    <2>1. UNCHANGED <<registry, startLock, opLock>> /\ \E g : Becomes(Quit, g)
        BY <1>6 DEF QuitMoves, QuitBegins, QuitStops, QuitStopFailed, QuitWaits, QuitGivesUp, QuitSeesEmpty, Finish, Goto, allButTask
    <2> QED BY <2>1, TaskNames, TaskKinds, HelperIsOnwards
<1> QED BY <1>1, <1>2, <1>3, <1>4, <1>5, <1>6

LEMMA MonitorsAreOnwards ==
    ASSUME IInv, NEW n \in Sessions, MonitorStep(n), ~ MonitorUnregisters(n) PROVE Onwards
<1> DEFINE t == Monitor(n)
           f == task[t]
<1>1. f \in Frame /\ UNCHANGED <<registry, startLock, opLock>>
    BY AtWork DEF MonitorStep, MonitorSeesExit, MonitorJoins, MonitorVerdict, MonitorLogs, MonitorMeasuresDisk,
                  EphemeralRow, EphemeralMem, allButTask
<1>2. CASE MonitorJoins(n)
    <2>1. task' = [task EXCEPT ![t].at = "verdict", ![Reader(n)] = Idle]
        BY <1>2 DEF MonitorJoins
    <2>2. /\ Reader(n) \in Tasks /\ t \in Tasks /\ t # Reader(n)
          /\ \A c : Cmd(c) # Reader(n) /\ Cmd(c) # t
          /\ \A m \in Sessions : Monitor(m) # Reader(n) /\ (m # n => Monitor(m) # t)
        BY TaskNames, TaskKinds
    <2>3. CmdsKept /\ task'[t].at = "verdict" /\ \A m \in Sessions : m # n => task'[Monitor(m)] = task[Monitor(m)]
        BY <1>1, <2>1, <2>2, AtWork, TaskNames DEF CmdsKept, Frame
    <2>4. \A m \in Sessions : WatchesOn(m)
        BY <2>3 DEF WatchesOn, Watches
    <2> QED BY <1>1, <2>3, <2>4 DEF Onwards, CmdsKept, CommandGoesOnOrFails, Begins, Starting, Saving, At
<1>3. CASE EphemeralRow(n) \/ EphemeralMem(n)
    <2>1. ~ Watches(n) /\ \E g : Becomes(t, g)
        BY <1>3 DEF EphemeralRow, EphemeralMem, Watches, At, Goto, Finish
    <2> QED BY <1>1, <2>1, MonitorIsOnwards
<1>4. CASE MonitorSeesExit(n) \/ MonitorVerdict(n) \/ MonitorLogs(n) \/ MonitorMeasuresDisk(n)
    <2>1. \/ \E l \in {"join", "disk", "unregister"} : Becomes(t, [f EXCEPT !.at = l])
          \/ \E op, row, l : Becomes(t, Saves([f EXCEPT !.op = op], row, l))
          \/ \E row, l : Becomes(t, Saves(f, row, l))
        BY <1>4 DEF MonitorSeesExit, MonitorVerdict, MonitorLogs, MonitorMeasuresDisk, Goto, SaveThen
    <2>2. \A l \in {"join", "disk", "unregister"} : [f EXCEPT !.at = l].at \notin {"idle", "ephRow", "ephMem"}
        BY <1>1 DEF Frame
    <2>3. \A row, l : Saves(f, row, l).at \notin {"idle", "ephRow", "ephMem"}
        BY <1>1 DEF Frame, Saves
    <2>4. \A op, row, l : Saves([f EXCEPT !.op = op], row, l).at \notin {"idle", "ephRow", "ephMem"}
        BY <1>1 DEF Frame, Saves
    <2>5. \E g : Becomes(t, g) /\ g.at \notin {"idle", "ephRow", "ephMem"}
        BY <2>1, <2>2, <2>3, <2>4
    <2> QED BY <1>1, <2>5, MonitorIsOnwards
<1> QED BY <1>2, <1>3, <1>4 DEF MonitorStep

(* What a step does to locks and to entries. *)
LEMMA LockKinds ==
    ASSUME IInv, [Next]_vars
    PROVE  \/ Onwards \/ NextLaunch
           \/ \E n \in Sessions : MonitorUnregisters(n)
           \/ \E c \in Clients :
                 \/ Leaves(c) \/ Register(c) \/ StartAccepted(c) \/ Started(c)
                 \/ \E s \in Servers, op \in {"start", "stop", "forceStop", "restart", "remove"} :
                       BeginCommand(c, s, op)
<1>1. CASE \E c \in Clients : CommandStep(c) BY <1>1, CommandKinds
<1>2. CASE \E t \in Tasks : SaveStep(t) \/ StopStep(t) BY <1>2, SaveIsOnwards, StopIsOnwards
<1>3. CASE \E n \in Sessions : MonitorStep(n) BY <1>3, MonitorsAreOnwards
<1>4. CASE QuitStep \/ AppDies \/ UNCHANGED vars
    BY <1>4, OthersAreOnwards DEF QuitStep, QuitMoves, QuitExits, AppDies
<1>5. CASE \/ \E s \in Servers : Edit(s) \/ EditFails(s)
           \/ \E n \in Sessions : ReaderStep(n) \/ ProbeStep(n) \/ TimerFires(n) \/ JavaListens(n) \/ JavaExits(n)
    BY <1>5, OthersAreOnwards
<1> QED BY <1>1, <1>2, <1>3, <1>4, <1>5 DEF Next

(* How the rest move a command: the others and the monitors keep their frames. *)
LEMMA CommandFrames ==
    ASSUME IInv, NEW c \in Clients
    PROVE  /\ StartAccepted(c) =>
                 /\ At(Cmd(c), "start") /\ OtherCmdsKept(c) /\ MonitorsKept
                 /\ task'[Cmd(c)].at = "spawn" /\ task'[Cmd(c)].srv = task[Cmd(c)].srv
           /\ \A s \in Servers, op \in {"start", "stop", "forceStop", "restart", "remove"} :
                 BeginCommand(c, s, op) =>
                     /\ At(Cmd(c), "idle") /\ OtherCmdsKept(c) /\ MonitorsKept
                     /\ task'[Cmd(c)].at = op /\ task'[Cmd(c)].srv = s
<1> DEFINE f == task[Cmd(c)]
<1>1. f \in Frame BY AtWork
<1>2. ASSUME NEW g, Becomes(Cmd(c), g)
      PROVE  task'[Cmd(c)] = g /\ OtherCmdsKept(c) /\ MonitorsKept
    <2>1. task'[Cmd(c)] = g /\ \A u \in Tasks : u # Cmd(c) => task'[u] = task[u]
        BY <1>2, AtWork, TaskNames DEF Becomes
    <2> QED BY <2>1, OthersKept, TaskNames
<1>4. ASSUME StartAccepted(c)
      PROVE  /\ At(Cmd(c), "start") /\ OtherCmdsKept(c) /\ MonitorsKept
             /\ task'[Cmd(c)].at = "spawn" /\ task'[Cmd(c)].srv = f.srv
    <2>1. PICK row : Becomes(Cmd(c), [f EXCEPT !.at = "spawn", !.row = row])
        BY <1>4 DEF StartAccepted
    <2> DEFINE g == [f EXCEPT !.at = "spawn", !.row = row]
    <2>2. g.at = "spawn" /\ g.srv = f.srv BY <1>1 DEF Frame
    <2>3. At(Cmd(c), "start") BY <1>4 DEF StartAccepted
    <2> HIDE DEF g
    <2>4. Becomes(Cmd(c), g) BY <2>1 DEF g
    <2> QED BY <1>2, <2>2, <2>3, <2>4
<1>5. ASSUME NEW s \in Servers, NEW op \in {"start", "stop", "forceStop", "restart", "remove"},
             BeginCommand(c, s, op)
      PROVE  /\ At(Cmd(c), "idle") /\ OtherCmdsKept(c) /\ MonitorsKept
             /\ task'[Cmd(c)].at = op /\ task'[Cmd(c)].srv = s
    <2> DEFINE g == [Idle EXCEPT !.at = op, !.srv = s, !.op = op]
    <2>1. g.at = op /\ g.srv = s BY DEF Idle
    <2>2. Becomes(Cmd(c), g) /\ At(Cmd(c), "idle") BY <1>5 DEF BeginCommand
    <2> HIDE DEF g
    <2> QED BY <1>2, <2>1, <2>2
<1> QED BY <1>4, <1>5

LEMMA LocksStep == IInv /\ LocksHaveHolders /\ [Next]_vars => LocksHaveHolders'
<1> SUFFICES ASSUME IInv, LocksHaveHolders, [Next]_vars PROVE LocksHaveHolders'
    OBVIOUS
<1>0. startLock \in Clients \cup {None} /\ opLock \in [Servers -> Clients \cup {None}]
    BY DEF IInv, TypeOK
<1>1. CASE Onwards BY <1>0, <1>1 DEF Onwards, CommandGoesOnOrFails, LocksHaveHolders, At
<1>2. CASE NextLaunch BY <1>2 DEF NextLaunch, LocksHaveHolders
<1>3. CASE \E n \in Sessions : MonitorUnregisters(n)
    <2> PICK n \in Sessions : MonitorUnregisters(n) BY <1>3
    <2>1. UNCHANGED <<startLock, opLock>> /\ \E g : Becomes(Monitor(n), g)
        BY DEF MonitorUnregisters, Goto, Finish
    <2>2. CmdsKept BY <2>1, AtWork, TaskNames, TaskKinds DEF Becomes, CmdsKept
    <2> QED BY <1>0, <2>1, <2>2 DEF LocksHaveHolders, CmdsKept, At
<1>4. ASSUME NEW c \in Clients, Leaves(c) PROVE LocksHaveHolders'
    <2>1. /\ opLock' = [opLock EXCEPT ![task[Cmd(c)].srv] = None]
          /\ startLock' = IF startLock = c THEN None ELSE startLock
          /\ OtherCmdsKept(c)
        BY <1>4 DEF Leaves, Return
    <2>2. startLock' # None => startLock' \in Clients /\ startLock' # c /\ startLock' = startLock
        BY <1>0, <2>1
    <2>3. \A s \in Servers : opLock'[s] # None =>
              opLock'[s] = opLock[s] /\ opLock[s] \in Clients /\ opLock[s] # c
        BY <1>0, <2>1 DEF LocksHaveHolders
    <2> QED BY <2>1, <2>2, <2>3 DEF LocksHaveHolders, OtherCmdsKept, At
<1>5. ASSUME NEW c \in Clients, Register(c) PROVE LocksHaveHolders'
    <2>1. OtherCmdsKept(c) /\ task'[Cmd(c)].at # "idle" /\ task'[Cmd(c)].srv = task[Cmd(c)].srv
        BY <1>5, RegisterEnters, StartMovesAlone
    <2>2. UNCHANGED <<startLock, opLock>> BY <1>5 DEF Register
    <2>3. \A d \in Clients : task[Cmd(d)].at # "idle" =>
              task'[Cmd(d)].at # "idle" /\ task'[Cmd(d)].srv = task[Cmd(d)].srv
        BY <2>1 DEF OtherCmdsKept
    <2>4. startLock # None => task[Cmd(startLock)].at # "idle" /\ startLock \in Clients
        BY <1>0 DEF LocksHaveHolders, At
    <2>5. \A s \in Servers : opLock[s] # None =>
              task[Cmd(opLock[s])].at # "idle" /\ task[Cmd(opLock[s])].srv = s /\ opLock[s] \in Clients
        BY <1>0 DEF LocksHaveHolders, At
    <2> QED BY <2>2, <2>3, <2>4, <2>5 DEF LocksHaveHolders, At
<1>6. ASSUME NEW c \in Clients, StartAccepted(c) PROVE LocksHaveHolders'
    <2>1. OtherCmdsKept(c) /\ task'[Cmd(c)].at # "idle" /\ task'[Cmd(c)].srv = task[Cmd(c)].srv
        BY <1>6, CommandFrames
    <2>2. startLock' = c /\ opLock' = opLock BY <1>6 DEF StartAccepted
    <2>3. \A d \in Clients : task[Cmd(d)].at # "idle" =>
              task'[Cmd(d)].at # "idle" /\ task'[Cmd(d)].srv = task[Cmd(d)].srv
        BY <2>1 DEF OtherCmdsKept
    <2>5. \A s \in Servers : opLock[s] # None =>
              task[Cmd(opLock[s])].at # "idle" /\ task[Cmd(opLock[s])].srv = s /\ opLock[s] \in Clients
        BY <1>0 DEF LocksHaveHolders, At
    <2> QED BY <2>1, <2>2, <2>3, <2>5 DEF LocksHaveHolders, At
<1>7. ASSUME NEW c \in Clients, Started(c) PROVE LocksHaveHolders'
    <2>1. opLock' = [opLock EXCEPT ![task[Cmd(c)].srv] = None] /\ startLock' = None
        BY <1>7 DEF Started
    <2>2. \A s \in Servers : opLock'[s] # None =>
              opLock'[s] = opLock[s] /\ opLock[s] \in Clients /\ opLock[s] # c
        BY <1>0, <2>1 DEF LocksHaveHolders
    <2>3. OtherCmdsKept(c) BY <1>7, StartedFrames
    <2> QED BY <2>1, <2>2, <2>3 DEF LocksHaveHolders, OtherCmdsKept, At
<1>8. ASSUME NEW c \in Clients, NEW s \in Servers,
             NEW op \in {"start", "stop", "forceStop", "restart", "remove"}, BeginCommand(c, s, op)
      PROVE  LocksHaveHolders'
    <2>1. /\ At(Cmd(c), "idle") /\ OtherCmdsKept(c) /\ task'[Cmd(c)].at = op /\ task'[Cmd(c)].srv = s
        BY <1>8, CommandFrames
    <2>2. opLock' = [opLock EXCEPT ![s] = c] /\ startLock' = startLock
        BY <1>8 DEF BeginCommand
    <2>3. startLock # c /\ \A o \in Servers : opLock[o] # c
        BY <2>1, SetsAssumption DEF LocksHaveHolders
    <2>4. startLock' # None => startLock' \in Clients /\ startLock' # c
        BY <1>0, <2>2, <2>3
    <2>5. \A o \in Servers : o # s /\ opLock'[o] # None =>
              opLock'[o] = opLock[o] /\ opLock[o] \in Clients /\ opLock[o] # c
        BY <1>0, <2>2, <2>3
    <2>6. opLock'[s] = c BY <1>0, <2>2
    <2> QED BY <2>1, <2>2, <2>4, <2>5, <2>6 DEF LocksHaveHolders, OtherCmdsKept, At
<1> QED BY <1>1, <1>2, <1>3, <1>4, <1>5, <1>6, <1>7, <1>8, LockKinds

LEMMA EntriesStep ==
    IInv /\ Life!Known /\ EntriesAreWatched /\ [Next]_vars => EntriesAreWatched'
<1> SUFFICES ASSUME IInv, Life!Known, EntriesAreWatched, [Next]_vars, count'.dbFailure = 0,
                    NEW s \in Servers, registry'[s] # None
             PROVE  \/ Watches(registry[s].n)'
                    \/ \E c \in Clients : (Begins(c) /\ task[Cmd(c)].n = registry[s].n)'
    BY DEF EntriesAreWatched
<1>1. registry[s] # None =>
        \/ Watches(registry[s].n)
        \/ \E c \in Clients : Begins(c) /\ task[Cmd(c)].n = registry[s].n
    <2>1. count.dbFailure = 0
        <3>1. count.dbFailure <= count'.dbFailure BY CountsGrow DEF IInv
        <3>2. count.dbFailure \in Nat BY BoundsAssumption DEF IInv, TypeOK
        <3> QED BY <3>1, <3>2
    <2> QED BY <2>1 DEF EntriesAreWatched
<1>2. registry[s] # None => registry[s].n \in Sessions BY DEF IInv, TypeOK, Entry
<1>3. CASE Onwards BY <1>1, <1>2, <1>3 DEF Onwards, CommandGoesOnOrFails, WatchesOn
<1>4. CASE NextLaunch BY <1>4 DEF NextLaunch
<1>5. CASE \E n \in Sessions : MonitorUnregisters(n)
    <2> PICK n \in Sessions : MonitorUnregisters(n) BY <1>5
    <2> DEFINE o == task[Monitor(n)].srv
    <2>1. o \in Servers /\ registry[o] # None /\ registry[o].n = n
        BY AtWork DEF MonitorUnregisters, At, IInv, MonitorOwnsEntry
    <2>2. registry' = [registry EXCEPT ![o] = None] /\ \E g : Becomes(Monitor(n), g)
        BY DEF MonitorUnregisters, Goto, Finish
    <2>3. s # o /\ registry'[s] = registry[s] BY <2>1, <2>2 DEF IInv, TypeOK
    <2>4. registry[s].n # n BY <2>1, <2>3 DEF Life!Known
    <2>5. CmdsKept /\ OtherMonitorsKept(n)
        BY <2>2, AtWork, TaskNames, TaskKinds DEF Becomes, CmdsKept, OtherMonitorsKept
    <2> QED BY <1>1, <1>2, <2>3, <2>4, <2>5
            DEF CmdsKept, OtherMonitorsKept, Begins, Starting, Saving, Watches, At
<1>6. ASSUME NEW c \in Clients, ~ Begins(c), OtherCmdsKept(c), MonitorsKept, registry'[s] = registry[s]
      PROVE  \/ Watches(registry[s].n)'
             \/ \E d \in Clients : (Begins(d) /\ task[Cmd(d)].n = registry[s].n)'
    BY <1>1, <1>2, <1>6 DEF OtherCmdsKept, MonitorsKept, Begins, Starting, Saving, Watches, At
<1>7. CASE \E c \in Clients : Leaves(c) BY <1>6, <1>7 DEF Leaves
<1>8. ASSUME NEW c \in Clients, StartAccepted(c)
      PROVE  \/ Watches(registry[s].n)'
             \/ \E d \in Clients : (Begins(d) /\ task[Cmd(d)].n = registry[s].n)'
    <2>1. ~ Begins(c) BY <1>8, CommandFrames DEF Begins, Starting, Saving, At
    <2>2. registry' = registry BY <1>8 DEF StartAccepted
    <2> QED BY <1>6, <1>8, <2>1, <2>2, CommandFrames
<1>9. ASSUME NEW c \in Clients, NEW o \in Servers,
             NEW op \in {"start", "stop", "forceStop", "restart", "remove"}, BeginCommand(c, o, op)
      PROVE  \/ Watches(registry[s].n)'
             \/ \E d \in Clients : (Begins(d) /\ task[Cmd(d)].n = registry[s].n)'
    <2>1. At(Cmd(c), "idle") /\ OtherCmdsKept(c) /\ MonitorsKept BY <1>9, CommandFrames
    <2>2. ~ Begins(c) BY <2>1 DEF Begins, Starting, Saving, At
    <2>3. registry' = registry BY <1>9 DEF BeginCommand
    <2> QED BY <1>6, <2>1, <2>2, <2>3
<1>10. ASSUME NEW c \in Clients, Register(c)
      PROVE  \/ Watches(registry[s].n)'
             \/ \E d \in Clients : (Begins(d) /\ task[Cmd(d)].n = registry[s].n)'
    <2> DEFINE o == task[Cmd(c)].srv
               k == task[Cmd(c)].n
    <2>1. /\ HasSpawned(c, k) /\ registry'[o].n = k /\ (s # o => registry'[s] = registry[s])
          /\ task'[Cmd(c)].at = "saveDb" /\ task'[Cmd(c)].then = "started" /\ task'[Cmd(c)].n = k
        BY <1>10, RegisterEnters
    <2>2. OtherCmdsKept(c) /\ MonitorsKept BY <1>10, StartMovesAlone
    <2>3. ~ Begins(c) BY <2>1 DEF HasSpawned, Begins, At
    <2>4. Begins(c)' BY <2>1 DEF Begins, Starting, Saving
    <2> HIDE DEF o, k
    <2>5. CASE s = o BY <2>1, <2>4, <2>5
    <2>6. CASE s # o BY <1>6, <2>1, <2>2, <2>3, <2>6
    <2> QED BY <2>5, <2>6
<1>11. ASSUME NEW c \in Clients, Started(c)
      PROVE  \/ Watches(registry[s].n)'
             \/ \E d \in Clients : (Begins(d) /\ task[Cmd(d)].n = registry[s].n)'
    <2> DEFINE k == task[Cmd(c)].n
    <2>1. registry' = registry BY <1>11 DEF Started
    <2>2. task'[Monitor(k)].at = "watch" /\ OtherCmdsKept(c) /\ OtherMonitorsKept(k)
        BY <1>11, StartedFrames
    <2> HIDE DEF k
    <2>3. CASE registry[s].n = k
        <3>1. registry'[s].n = k BY <2>1, <2>3
        <3> QED BY <2>2, <3>1 DEF Watches, At
    <2>4. CASE registry[s].n # k /\ Watches(registry[s].n)
        BY <1>2, <2>1, <2>2, <2>4 DEF OtherMonitorsKept, Watches
    <2>5. CASE registry[s].n # k /\ \E d \in Clients : Begins(d) /\ task[Cmd(d)].n = registry[s].n
        <3> PICK d \in Clients : Begins(d) /\ task[Cmd(d)].n = registry[s].n BY <2>5
        <3>1. d # c BY <2>5 DEF k
        <3> QED BY <2>1, <2>2, <3>1 DEF OtherCmdsKept, Begins, Starting, Saving, At
    <2> QED BY <1>1, <2>1, <2>3, <2>4, <2>5
<1> QED BY <1>3, <1>4, <1>5, <1>7, <1>8, <1>9, <1>10, <1>11, LockKinds

(* Every lock that is taken has a command at work which will give it back, whatever
   fails on its way (commands.rs, server_action and remove_server; process.rs, start:
   the guards are dropped on every return). *)
THEOREM LocksAreHeldAtWork == Spec => []LocksHaveHolders
<1>1. Init => LocksHaveHolders BY DEF Init, LocksHaveHolders
<1> QED BY <1>1, LocksStep, Invariance, PTL DEF Spec

(* No entry of the registry is left behind while the database takes every write: a
   monitor or a start has it in its hands (process.rs, start and spawn_monitor). *)
THEOREM NoEntryIsLeft == Spec => []EntriesAreWatched
<1>1. Init => EntriesAreWatched BY DEF Init, EntriesAreWatched
<1> QED BY <1>1, EntriesStep, Invariance, JavaIsKnown, PTL DEF Spec
=============================================================================
