---------------------------- MODULE RelayTunnel ----------------------------
(***************************************************************************)
(* Players of a shared server (relay/main.go, handlePlayer, data and       *)
(* expirePending; src-tauri/src/sharing.rs, bridge_player).                *)
(*                                                                         *)
(* A player's handler counts itself in the route's session, lists a        *)
(* pending connection, tells the session's installation about it and       *)
(* waits.  The installation dials back with the connection's secret, and   *)
(* the data handler hands its socket to the waiting player.  Handlers run  *)
(* concurrently; the claim and the clean-up share a mutex, the count is    *)
(* atomic, everything else interleaves.                                    *)
(***************************************************************************)
EXTENDS Naturals, FiniteSets

CONSTANTS
    Players,    \* connections of players, each with its own id and token
    Sessions,   \* control sessions of the host, in the order they register
    Dials,      \* data requests
    Max,        \* maxConnections
    None

ASSUME PlayersAssumption == IsFiniteSet(Players) /\ None \notin Players \cup Sessions \cup Dials
ASSUME MaxAssumption == Max \in Nat

VARIABLES
    route,      \* byHost of the host: a session or None
    active,     \* controlSession.active
    handler,    \* of each player: where handlePlayer is, its session and its tunnel
    byID,       \* players with a pending connection
    expired,    \* players whose pending connection is older than dataConnectTimeout
    incoming,   \* players whose message is on its way to the installation
    ready,      \* pendingConnection.ready of each player: a socket or None
    dial        \* of each data request: where it is, and the player it names

vars == <<route, active, handler, byID, expired, incoming, ready, dial>>
table == <<byID, expired>>

Points == {"away", "found", "refused", "admitted", "listed", "waiting", "proxying", "leaving",
           "unlisted", "gone"}
Handler == [at : Points, session : Sessions \cup {None}, tunnel : Dials \cup {None}]
Dial == [at : {"idle", "dialled", "accepting", "open", "closed"}, player : Players \cup {None}]

TypeOK ==
    /\ route \in Sessions \cup {None}
    /\ active \in [Sessions -> Nat]
    /\ handler \in [Players -> Handler]
    /\ byID \subseteq Players /\ expired \subseteq Players /\ incoming \subseteq Players
    /\ ready \in [Players -> Dials \cup {None}]
    /\ dial \in [Dials -> Dial]

Init ==
    /\ route = None
    /\ active = [s \in Sessions |-> 0]
    /\ handler = [p \in Players |-> [at |-> "away", session |-> None, tunnel |-> None]]
    /\ byID = {} /\ expired = {} /\ incoming = {}
    /\ ready = [p \in Players |-> None]
    /\ dial = [d \in Dials |-> [at |-> "idle", player |-> None]]

At(p, l) == handler[p].at = l
Goto(p, l) == handler' = [handler EXCEPT ![p].at = l]
Return(p) == handler' = [handler EXCEPT ![p].at = "gone", ![p].session = None]

-----------------------------------------------------------------------------
(* The control session, as far as a player sees it (RelayRoutes has the rest): it takes
   the host's route once, over the session that has it, and leaves it when it ends.
   Whether its socket still works only shows when a message is sent. *)

Route(s) ==
    /\ s # route /\ active[s] = 0 /\ \A p \in Players : handler[p].session # s
    /\ route' = s
    /\ UNCHANGED <<active, handler, table, incoming, ready, dial>>

Unroute ==
    /\ route # None
    /\ route' = None
    /\ UNCHANGED <<active, handler, table, incoming, ready, dial>>

-----------------------------------------------------------------------------
(* handlePlayer.  A player whose handshake is not read is never counted. *)

Arrive(p) ==
    /\ At(p, "away")
    /\ handler' = [handler EXCEPT ![p] = [at |-> IF route = None THEN "gone" ELSE "found",
                                          session |-> route, tunnel |-> None]]
    /\ UNCHANGED <<route, active, table, incoming, ready, dial>>

Session(p) == handler[p].session

\* Variant: the limit is compared with the count before this player.
AdmitOneMore(n) == IF n > Max + 1 THEN "refused" ELSE "admitted"

Admission(n) == IF n > Max THEN "refused" ELSE "admitted"

Count(p) ==
    /\ At(p, "found")
    /\ active' = [active EXCEPT ![Session(p)] = @ + 1]
    /\ Goto(p, Admission(active'[Session(p)]))
    /\ UNCHANGED <<route, table, incoming, ready, dial>>

Refuse(p) ==
    /\ At(p, "refused")
    /\ active' = [active EXCEPT ![Session(p)] = @ - 1]
    /\ Return(p)
    /\ UNCHANGED <<route, table, incoming, ready, dial>>

List(p) ==
    /\ At(p, "admitted")
    /\ byID' = byID \cup {p}
    /\ Goto(p, "listed")
    /\ UNCHANGED <<route, active, expired, incoming, ready, dial>>

Send(p) ==
    /\ At(p, "listed")
    /\ incoming' = incoming \cup {p}
    /\ Goto(p, "waiting")
    /\ UNCHANGED <<route, active, table, ready, dial>>

\* Variant: the clean-up is deferred after the message is sent.
SendFailsListed(p) ==
    /\ At(p, "listed")
    /\ Goto(p, "unlisted")
    /\ UNCHANGED <<route, active, table, incoming, ready, dial>>

(* A write that is cut off by its deadline may have arrived all the same. *)
SendFails(p) ==
    /\ At(p, "listed")
    /\ incoming' \in {incoming, incoming \cup {p}}
    /\ Goto(p, "leaving")
    /\ UNCHANGED <<route, active, table, ready, dial>>

TakeTunnel(p) ==
    /\ At(p, "waiting") /\ ready[p] # None
    /\ handler' = [handler EXCEPT ![p].at = "proxying", ![p].tunnel = ready[p]]
    /\ ready' = [ready EXCEPT ![p] = None]
    /\ UNCHANGED <<route, active, table, incoming, dial>>

\* Variant: once its connection is claimed, the player waits for the tunnel without limit.
TimesOutUnclaimed(p) ==
    /\ At(p, "waiting") /\ p \in expired \cap byID
    /\ Goto(p, "leaving")
    /\ UNCHANGED <<route, active, table, incoming, ready, dial>>

(* The player's clock starts after the pending connection's; when a socket is ready
   as well, select takes either. *)
TimesOut(p) ==
    /\ At(p, "waiting") /\ p \in expired
    /\ Goto(p, "leaving")
    /\ UNCHANGED <<route, active, table, incoming, ready, dial>>

(* One direction of the proxy ends, and the tunnel is closed. *)
ProxyEnds(p) ==
    /\ At(p, "proxying")
    /\ dial' = [dial EXCEPT ![handler[p].tunnel].at = "closed"]
    /\ handler' = [handler EXCEPT ![p].at = "leaving", ![p].tunnel = None]
    /\ UNCHANGED <<route, active, table, incoming, ready>>

Unlist(p) ==
    /\ At(p, "leaving")
    /\ byID' = byID \ {p}
    /\ Goto(p, "unlisted")
    /\ UNCHANGED <<route, active, expired, incoming, ready, dial>>

Release(p) ==
    /\ At(p, "unlisted")
    /\ active' = [active EXCEPT ![Session(p)] = @ - 1]
    /\ Return(p)
    /\ UNCHANGED <<route, table, incoming, ready, dial>>

-----------------------------------------------------------------------------
(* Time, as long as the age of a pending connection is looked at, and expirePending. *)

Expire(p) ==
    /\ p \in byID \/ At(p, "waiting")
    /\ p \notin expired
    /\ expired' = expired \cup {p}
    /\ UNCHANGED <<route, active, handler, byID, incoming, ready, dial>>

Sweep ==
    /\ byID \cap expired # {}
    /\ byID' = byID \ expired
    /\ UNCHANGED <<route, active, handler, expired, incoming, ready, dial>>

-----------------------------------------------------------------------------
(* data.  The installation dials for a message; the same secret may come in more than
   once. *)

DialledBy(p) == {d \in Dials : dial[d].player = p}

DialBack(d, p) ==
    /\ dial[d].at = "idle"
    /\ p \in incoming \/ DialledBy(p) # {}
    /\ incoming' = incoming \ {p}
    /\ dial' = [dial EXCEPT ![d] = [at |-> "dialled", player |-> p]]
    /\ UNCHANGED <<route, active, handler, table, ready>>

(* The message is lost with the control socket, or the installation does not reach its
   own Minecraft server. *)
MissesMessage(p) ==
    /\ p \in incoming
    /\ incoming' = incoming \ {p}
    /\ UNCHANGED <<route, active, handler, table, ready, dial>>

\* Variant: a claim leaves the connection in the table.
ClaimListed(d) ==
    /\ dial[d].at = "dialled" /\ dial[d].player \in byID \ expired
    /\ dial' = [dial EXCEPT ![d].at = "accepting"]
    /\ UNCHANGED <<route, active, handler, table, incoming, ready>>

Claim(d) ==
    LET p == dial[d].player IN
    /\ dial[d].at = "dialled" /\ p \in byID \ expired
    /\ byID' = byID \ {p}
    /\ dial' = [dial EXCEPT ![d].at = "accepting"]
    /\ UNCHANGED <<route, active, handler, expired, incoming, ready>>

ClaimExpired(d) ==
    /\ dial[d].at = "dialled" /\ dial[d].player \notin byID \ expired
    /\ dial' = [dial EXCEPT ![d].at = "closed"]
    /\ UNCHANGED <<route, active, handler, table, incoming, ready>>

HandOver(d) ==
    LET p == dial[d].player IN
    /\ dial[d].at = "accepting"
    /\ IF ready[p] = None
       THEN ready' = [ready EXCEPT ![p] = d] /\ dial' = [dial EXCEPT ![d].at = "open"]
       ELSE dial' = [dial EXCEPT ![d].at = "closed"] /\ UNCHANGED ready
    /\ UNCHANGED <<route, active, handler, table, incoming>>

AcceptFails(d) ==
    /\ dial[d].at = "accepting"
    /\ dial' = [dial EXCEPT ![d].at = "closed"]
    /\ UNCHANGED <<route, active, handler, table, incoming, ready>>

-----------------------------------------------------------------------------
HandlerStep(p) ==
    \/ Count(p) \/ Refuse(p) \/ List(p) \/ Send(p) \/ SendFails(p)
    \/ TakeTunnel(p) \/ TimesOut(p) \/ Unlist(p) \/ Release(p)
DialStep(d) == Claim(d) \/ ClaimExpired(d) \/ HandOver(d) \/ AcceptFails(d)

Next ==
    \/ \E s \in Sessions : Route(s)
    \/ Unroute
    \/ \E p \in Players :
          \/ Arrive(p) \/ HandlerStep(p) \/ ProxyEnds(p) \/ Expire(p) \/ MissesMessage(p)
    \/ \E d \in Dials : DialStep(d)
    \/ \E d \in Dials, p \in Players : DialBack(d, p)
    \/ Sweep

Spec == Init /\ [][Next]_vars

(* Go runs every handler, writes have deadlines, and the clock advances.  Nothing is
   assumed of players, installations and sockets. *)
FairSpec ==
    /\ Spec
    /\ \A p \in Players : WF_vars(HandlerStep(p)) /\ WF_vars(Expire(p))
    /\ \A d \in Dials : WF_vars(DialStep(d))

-----------------------------------------------------------------------------
(* Players whose session counts them, and those of them it admitted. *)
Counted(s) == {p \in Players : handler[p].session = s /\ ~At(p, "found")}
Admitted(s) == {p \in Counted(s) : ~At(p, "refused")}

(* Data requests that claimed a player's connection and were not closed. *)
Claimed(p) == {d \in Dials : dial[d].player = p /\ dial[d].at \in {"accepting", "open"}}

CountIsExact == \A s \in Sessions : active[s] = Cardinality(Counted(s))

SessionIsKnown ==
    \A p \in Players : handler[p].session = None <=> handler[p].at \in {"away", "gone"}

DialIsKnown == \A d \in Dials : dial[d].at = "idle" <=> dial[d].player = None

ListedAreWaited ==
    \A p \in byID : handler[p].at \in {"listed", "waiting", "leaving"} /\ Claimed(p) = {}

ClaimIsUnique ==
    \A p \in Players :
        /\ \A d, e \in Claimed(p) : d = e
        /\ handler[p].at \in {"away", "found", "refused", "admitted"} => Claimed(p) = {}

TunnelIsClaimed ==
    \A p \in Players :
        /\ ready[p] # None => ready[p] \in Claimed(p) /\ dial[ready[p]].at = "open"
        /\ At(p, "proxying") <=> handler[p].tunnel # None
        /\ At(p, "proxying") =>
              /\ handler[p].tunnel \in Claimed(p) /\ dial[handler[p].tunnel].at = "open"
              /\ ready[p] = None

(* The counter is the number of handlers that will take one off it, and a tunnel is a
   data request that claimed the player's connection: the atomics, the mutex and the
   channel of handlePlayer and data agree whatever the interleaving. *)
IInv ==
    /\ TypeOK
    /\ CountIsExact
    /\ SessionIsKnown
    /\ DialIsKnown
    /\ ListedAreWaited
    /\ ClaimIsUnique
    /\ TunnelIsClaimed

(* What players and data connections look like from outside the relay. *)
Stage(p) == CASE handler[p].at \in {"away", "found", "refused"} -> "new"
              [] handler[p].at \in {"admitted", "listed", "waiting"} -> "waits"
              [] handler[p].at = "proxying" -> "plays"
              [] handler[p].at \in {"leaving", "unlisted"} -> "leaves"
              [] OTHER -> "gone"
Slot(p) == IF Stage(p) = "new" THEN None ELSE Session(p)

Slots == INSTANCE PlayerSlots WITH
    stage <- [p \in Players |-> Stage(p)],
    slot <- [p \in Players |-> Slot(p)],
    tunnel <- [p \in Players |-> handler[p].tunnel],
    secret <- [d \in Dials |-> dial[d].player],
    shut <- {d \in Dials : dial[d].at = "closed"}

(* The handlers, though they count before they compare, race for the table and may both
   time out and be handed a socket, do no more than PlayerSlots lets them: a player has
   one of Max places once, and one tunnel that was dialled for it (handlePlayer, data). *)
SlotsSpec == Slots!Spec

(* A session never carries more than maxConnections players, though the count is taken
   before it is compared and handlers race for the last place. *)
LimitHolds == \A s \in Sessions : Cardinality(Admitted(s)) <= Max

(* A player's bytes go through a tunnel that was dialled for that player, and its secret
   opens no other: a second request with it is not left open in a channel nobody reads. *)
TunnelIsOwn ==
    \A p \in Players : At(p, "proxying") => Claimed(p) = {handler[p].tunnel}

(* A handler that returned left nothing behind: no pending connection, and no place
   taken in a session nobody plays on. *)
NothingIsLeft ==
    /\ \A p \in Players : At(p, "gone") => p \notin byID
    /\ \A s \in Sessions :
          (\A p \in Players : handler[p].session = s => At(p, "found")) => active[s] = 0

(* A player that found the route is soon connected to the server or let go, whatever
   the installation does and however the claim and the time-out race. *)
SlotIsReturned ==
    \A p \in Players : At(p, "found") ~> handler[p].at \in {"proxying", "gone"}
=============================================================================
