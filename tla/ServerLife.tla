----------------------------- MODULE ServerLife -----------------------------
(***************************************************************************)
(* What ProcessManager promises of the processes in its job object,        *)
(* whatever commands, exits, failing writes and crashes of the application *)
(* overlap: a server has at most one process, a process has a port that no *)
(* other has, one that has ended never comes back, and none is forgotten   *)
(* while it lives.                                                         *)
(***************************************************************************)
CONSTANTS Servers, Sessions, Ports, None

VARIABLES
    entry,     \* of each server: its session and port, or None
    starting,  \* the session that has a process and no entry yet
    live,      \* the sessions whose process lives
    used       \* the sessions there have ever been

vars == <<entry, starting, live, used>>

Init ==
    /\ entry = [s \in Servers |-> None]
    /\ starting = {}
    /\ live = {}
    /\ used = {}

(* One start at a time, over all servers; the process may end at once. *)
Launch(n) ==
    /\ starting = {} /\ n \notin used
    /\ starting' = {n}
    /\ live' \in {live, live \cup {n}}
    /\ used' = used \cup {n}
    /\ UNCHANGED entry

Enter(s, n, p) ==
    /\ starting = {n} /\ entry[s] = None
    /\ \A o \in Servers : entry[o] # None => entry[o].port # p
    /\ entry' = [entry EXCEPT ![s] = [n |-> n, port |-> p]]
    /\ starting' = {}
    /\ UNCHANGED <<live, used>>

Exit(n) ==
    /\ n \in live
    /\ live' = live \ {n}
    /\ UNCHANGED <<entry, starting, used>>

Forget(s) ==
    /\ entry[s] # None /\ entry[s].n \notin live
    /\ entry' = [entry EXCEPT ![s] = None]
    /\ UNCHANGED <<starting, live, used>>

(* The application ends, and every process with it. *)
End ==
    /\ entry' = [s \in Servers |-> None]
    /\ starting' = {}
    /\ live' = {}
    /\ UNCHANGED used

Next ==
    \/ \E n \in Sessions : Launch(n) \/ Exit(n)
    \/ \E s \in Servers, n \in Sessions, p \in Ports : Enter(s, n, p)
    \/ \E s \in Servers : Forget(s)
    \/ End

Spec == Init /\ [][Next]_vars

\* A session is one server's, and every living process is a server's or the one a
\* start is about to enter: whoever looks for a process by its server finds it once
\* it is entered, and finds no other.
Known ==
    /\ entry = [s \in Servers |-> entry[s]]
    /\ starting \subseteq used
    /\ \A s \in Servers : entry[s] # None => entry[s].n \in used \ starting
    /\ \A s, o \in Servers :
          entry[s] # None /\ entry[o] # None /\ entry[s].n = entry[o].n => s = o
    /\ \A n \in live : n \in starting \/ \E s \in Servers : entry[s] # None /\ entry[s].n = n
=============================================================================
