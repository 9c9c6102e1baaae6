------------------------- MODULE MCServerLifecycle -------------------------
(* Instances of ServerLifecycle for TLC. *)
EXTENDS ServerLifecycle, TLC

Client == CHOOSE c \in Clients : TRUE
(* Scenarios: a run explores the behaviours that fit one of them. *)
Spent(command, edit, quit, dbFailure, launch) ==
    /\ count.command <= command /\ count.edit <= edit /\ count.quit <= quit
    /\ count.dbFailure <= dbFailure /\ count.launch <= launch

(* What can go wrong beside the commands of one session. *)
Faults ==
    \/ Spent(1, 1, 0, 1, 0)     \* a write fails beside an edit
    \/ Spent(2, 0, 0, 1, 0)     \* or beside two commands
    \/ Spent(1, 1, 0, 0, 1)     \* the application dies beside an edit
    \/ Spent(1, 0, 0, 1, 1)     \* or after a write that failed
    \/ Spent(2, 0, 0, 0, 1)     \* or beside two commands
    \/ /\ Spent(2, 0, 1, 0, 0)  \* the user quits while a second command is at work
       /\ count.quit = 0 \/ count.command <= 1 \/ ~ At(Cmd(Client), "idle")
    \/ Spent(1, 0, 1, 0, 1)     \* and launches again
    \/ Spent(1, 0, 1, 1, 0)     \* a write fails while the user quits

(* Two sessions in a row under any two commands and a third that starts, stops or
   kills, or one session that meets the faults. *)
InARow ==
    /\ Spent(3, 0, 0, 0, 0)
    /\ count.command = 3 => task[Cmd(Client)].op \in {"none", "start", "stop", "forceStop"}
Scenarios == InARow \/ (count.session <= 1 /\ Faults)

(* Two clients contend for one session; one server's only client meets a failing
   write; two sessions are up. *)
Server == CHOOSE s \in Servers : TRUE
Alone ==
    /\ \A c \in Clients \ {Client} : At(Cmd(c), "idle")
    /\ \A s \in Servers \ {Server} : opLock[s] = None /\ At(Editor(s), "idle")
    /\ \A n \in Sessions : java[n].srv \in {None, Server}
Progress ==
    \/ count.session <= 1 /\ Spent(2, 0, 0, 0, 0)
    \/ count.session <= 1 /\ Alone /\ Spent(2, 0, 0, 1, 0)
    \/ Spent(2, 0, 0, 0, 0) /\ \A n \in Sessions : java[n].st \in {"none", "up"}
=============================================================================
