---------------------------- MODULE PlayerSlots ----------------------------
(***************************************************************************)
(* What the relay promises the players of a shared server, whatever its    *)
(* handlers, the installation and the clock do: a player is let in once,   *)
(* into one of the Max places of a session, keeps that place until it is   *)
(* through, and plays through one tunnel, which was dialled for it alone   *)
(* and is never used again.                                                *)
(***************************************************************************)
EXTENDS Naturals, FiniteSets

CONSTANTS Players, Sessions, Dials, Max, None

VARIABLES
    stage,   \* of each player
    slot,    \* the session each player has a place in, or None
    tunnel,  \* the data connection each player plays through, or None
    secret,  \* of each data connection: the player it was dialled for, or None
    shut     \* data connections that were closed

vars == <<stage, slot, tunnel, secret, shut>>

Init ==
    /\ stage = [p \in Players |-> "new"]
    /\ slot = [p \in Players |-> None]
    /\ tunnel = [p \in Players |-> None]
    /\ secret = [d \in Dials |-> None]
    /\ shut = {}

Passes(p, from, to) == stage[p] = from /\ stage' = [stage EXCEPT ![p] = to]

LetIn(p, s) ==
    /\ Passes(p, "new", "waits")
    /\ Cardinality({q \in Players : slot[q] = s}) < Max
    /\ slot' = [slot EXCEPT ![p] = s]
    /\ UNCHANGED <<tunnel, secret, shut>>
TurnAway(p) == Passes(p, "new", "gone") /\ UNCHANGED <<slot, tunnel, secret, shut>>

Dial(d, p) ==
    /\ secret[d] = None
    /\ secret' = [secret EXCEPT ![d] = p]
    /\ UNCHANGED <<stage, slot, tunnel, shut>>
Shut(d) ==
    /\ \A p \in Players : tunnel[p] # d
    /\ shut' = shut \cup {d}
    /\ UNCHANGED <<stage, slot, tunnel, secret>>

Connect(p, d) ==
    /\ Passes(p, "waits", "plays")
    /\ secret[d] = p /\ d \notin shut
    /\ tunnel' = [tunnel EXCEPT ![p] = d]
    /\ UNCHANGED <<slot, secret, shut>>
GiveUp(p) == Passes(p, "waits", "leaves") /\ UNCHANGED <<slot, tunnel, secret, shut>>
HangUp(p) ==
    /\ Passes(p, "plays", "leaves")
    /\ shut' = shut \cup {tunnel[p]}
    /\ tunnel' = [tunnel EXCEPT ![p] = None]
    /\ UNCHANGED <<slot, secret>>
Leave(p) ==
    /\ Passes(p, "leaves", "gone")
    /\ slot' = [slot EXCEPT ![p] = None]
    /\ UNCHANGED <<tunnel, secret, shut>>

Next ==
    \/ \E p \in Players, s \in Sessions : LetIn(p, s)
    \/ \E p \in Players : TurnAway(p) \/ GiveUp(p) \/ HangUp(p) \/ Leave(p)
    \/ \E p \in Players, d \in Dials : Dial(d, p) \/ Connect(p, d)
    \/ \E d \in Dials : Shut(d)

Spec == Init /\ [][Next]_vars
=============================================================================
