---------------------------- MODULE RelayRoutes ----------------------------
(***************************************************************************)
(* The control plane of the relay (relay/main.go): which connection a      *)
(* public host name leads to, and who owns a vanity name.                  *)
(*                                                                         *)
(* Every control connection is a goroutine.  It claims its vanity name     *)
(* under one lock, registers its route under another, closes the socket of *)
(* the session it replaced outside both, and unregisters when its own      *)
(* socket has failed.  Between any two of these steps other connections    *)
(* run.                                                                    *)
(***************************************************************************)
EXTENDS Naturals, FiniteSets

CONSTANTS
    Conns,       \* control connections
    Devices,     \* installations, by their public key
    Servers,     \* server ids
    Tokens,      \* route tokens, one for every start of a server
    Names,       \* vanity names
    None,        \* no connection, no owner, no name
    MaxCrashes   \* bound: restarts of the relay

ASSUME NoneAssumption == None \notin Conns \cup Names \cup (Devices \X Servers)
ASSUME NamesAssumption == Names \cap (Devices \X Servers \X Tokens) = {}
ASSUME CrashesAssumption == MaxCrashes \in Nat

VARIABLES
    byHost,         \* host -> the connection players are sent to
    byDevice,       \* device -> its registered connection
    vanityByName,   \* name -> owner
    vanityByOwner,  \* owner -> name
    vanityFile,     \* the reservations on disk
    conn,           \* every connection: step, share and the session it replaced
    open,           \* connections whose socket is still open
    crashes         \* restarts so far

vars == <<byHost, byDevice, vanityByName, vanityByOwner, vanityFile, conn, open, crashes>>
routes == <<byHost, byDevice>>
reservations == <<vanityByName, vanityByOwner, vanityFile>>

Owner == Devices \X Servers
Share == [device : Devices, server : Servers, token : Tokens, vanity : Names \cup {None}]
Steps == {"new", "claim", "register", "evict", "ready", "serving", "leave", "done"}
Conn == [at : Steps, share : Share \cup {None}, old : Conns \cup {None}]
Host == Names \cup (Devices \X Servers \X Tokens)

routeHost(share) ==
    IF share.vanity # None THEN share.vanity ELSE <<share.device, share.server, share.token>>
routeOwner(share) == <<share.device, share.server>>

TypeOK ==
    /\ byHost \in [Host -> Conns \cup {None}]
    /\ byDevice \in [Devices -> Conns \cup {None}]
    /\ vanityByName \in [Names -> Owner \cup {None}]
    /\ vanityByOwner \in [Owner -> Names \cup {None}]
    /\ vanityFile \in [Names -> Owner \cup {None}]
    /\ conn \in [Conns -> Conn]
    /\ open \subseteq Conns
    /\ crashes \in 0..MaxCrashes

NewConn == [at |-> "new", share |-> None, old |-> None]

Init ==
    /\ byHost = [h \in Host |-> None]
    /\ byDevice = [d \in Devices |-> None]
    /\ vanityByName = [v \in Names |-> None]
    /\ vanityByOwner = [o \in Owner |-> None]
    /\ vanityFile = [v \in Names |-> None]
    /\ conn = [c \in Conns |-> NewConn]
    /\ open = {}
    /\ crashes = 0

-----------------------------------------------------------------------------
At(c, l) == conn[c].at = l
Goto(c, l) == conn' = [conn EXCEPT ![c].at = l]

(* The socket is accepted and the client has proved its identity. *)
Connect(c, share) ==
    /\ At(c, "new")
    /\ conn' = [conn EXCEPT ![c] = [at |-> "claim", share |-> share, old |-> None]]
    /\ open' = open \cup {c}
    /\ UNCHANGED <<byHost, byDevice, vanityByName, vanityByOwner, vanityFile, crashes>>

(* The client goes away, or the network between them does. *)
Disconnect(c) ==
    /\ c \in open
    /\ open' = open \ {c}
    /\ UNCHANGED <<byHost, byDevice, vanityByName, vanityByOwner, vanityFile, conn, crashes>>

(* The handler returns before it has registered anything. *)
Refuse(c) ==
    /\ Goto(c, "done")
    /\ open' = open \ {c}

-----------------------------------------------------------------------------
(* claimVanity, under the vanity lock. *)

Taken(owner, name) == name # None /\ vanityByName[name] \notin {None, owner}

(* What claiming name makes of the two maps. *)
NamesAfter(owner, name) ==
    [v \in Names |-> CASE v = name -> owner
                       [] v = vanityByOwner[owner] /\ v # name -> None
                       [] OTHER -> vanityByName[v]]
OwnersAfter(owner, name) == [vanityByOwner EXCEPT ![owner] = name]

ClaimRefused(c) ==
    /\ At(c, "claim")
    /\ Taken(routeOwner(conn[c].share), conn[c].share.vanity)
    /\ Refuse(c)
    /\ UNCHANGED <<byHost, byDevice, vanityByName, vanityByOwner, vanityFile, crashes>>

Claim(c) ==
    LET name == conn[c].share.vanity
        owner == routeOwner(conn[c].share)
    IN  /\ At(c, "claim")
        /\ ~ Taken(owner, name)
        /\ IF vanityByOwner[owner] = name
           THEN UNCHANGED <<vanityByName, vanityByOwner, vanityFile>>
           ELSE /\ vanityByName' = NamesAfter(owner, name)
                /\ vanityByOwner' = OwnersAfter(owner, name)
                /\ vanityFile' = vanityByName'
        /\ Goto(c, "register")
        /\ UNCHANGED <<byHost, byDevice, open, crashes>>

\* Variant: the failed write is not undone in memory.
ClaimNotUndone(c) ==
    LET name == conn[c].share.vanity
        owner == routeOwner(conn[c].share)
    IN  /\ At(c, "claim")
        /\ ~ Taken(owner, name)
        /\ vanityByOwner[owner] # name
        /\ vanityByName' = NamesAfter(owner, name)
        /\ vanityByOwner' = OwnersAfter(owner, name)
        /\ Refuse(c)
        /\ UNCHANGED <<byHost, byDevice, vanityFile, crashes>>

(* The write fails: both maps are put back and the connection is refused. *)
ClaimNotSaved(c) ==
    LET name == conn[c].share.vanity
        owner == routeOwner(conn[c].share)
        previous == vanityByOwner[owner]
    IN  /\ At(c, "claim")
        /\ ~ Taken(owner, name)
        /\ previous # name
        /\ vanityByName' = [v \in Names |-> CASE v = previous -> owner
                                              [] v = name /\ v # previous -> None
                                              [] OTHER -> vanityByName[v]]
        /\ vanityByOwner' = [vanityByOwner EXCEPT ![owner] = previous]
        /\ Refuse(c)
        /\ UNCHANGED <<byHost, byDevice, vanityFile, crashes>>

-----------------------------------------------------------------------------
(* registerRoute, under the routes lock. *)

SlotTaken(c) ==
    LET active == byDevice[conn[c].share.device]
    IN  active # None /\ conn[active].share.server # conn[c].share.server

RegisterRefused(c) ==
    /\ At(c, "register")
    /\ SlotTaken(c)
    /\ Refuse(c)
    /\ UNCHANGED <<byHost, byDevice, vanityByName, vanityByOwner, vanityFile, crashes>>

(* The session c replaces: its installation's own, or else the host's. *)
Replaced(c) ==
    LET active == byDevice[conn[c].share.device]
    IN  IF active # None THEN active ELSE byHost[routeHost(conn[c].share)]

\* Variant: the slot of the installation is not looked at.
RegisterAnyServer(c) ==
    LET host == routeHost(conn[c].share)
        old == byHost[host]
    IN  /\ At(c, "register")
        /\ byHost' = [byHost EXCEPT ![host] = c]
        /\ byDevice' = [byDevice EXCEPT ![conn[c].share.device] = c]
        /\ conn' = [conn EXCEPT ![c].at = "evict", ![c].old = old]
        /\ UNCHANGED <<vanityByName, vanityByOwner, vanityFile, open, crashes>>

(* The route of the replaced session is deleted by its host name, whoever the
   name leads to by now. *)
Register(c) ==
    LET share == conn[c].share
        old == Replaced(c)
    IN  /\ At(c, "register")
        /\ ~ SlotTaken(c)
        /\ byHost' = [h \in Host |->
                         CASE h = routeHost(share) -> c
                           [] old # None /\ h = routeHost(conn[old].share) /\ h # routeHost(share) -> None
                           [] OTHER -> byHost[h]]
        /\ byDevice' = [byDevice EXCEPT ![share.device] = c]
        /\ conn' = [conn EXCEPT ![c].at = "evict", ![c].old = old]
        /\ UNCHANGED <<vanityByName, vanityByOwner, vanityFile, open, crashes>>

(* The replaced session's socket is closed with a policy violation. *)
Evict(c) ==
    /\ At(c, "evict")
    /\ open' = open \ {conn[c].old}
    /\ Goto(c, "ready")
    /\ UNCHANGED <<byHost, byDevice, vanityByName, vanityByOwner, vanityFile, crashes>>

(* The client learns its address; from then on the handler only reads. *)
SendReady(c) ==
    /\ At(c, "ready")
    /\ Goto(c, IF c \in open THEN "serving" ELSE "leave")
    /\ UNCHANGED <<byHost, byDevice, vanityByName, vanityByOwner, vanityFile, open, crashes>>

ReadFails(c) ==
    /\ At(c, "serving")
    /\ c \notin open
    /\ Goto(c, "leave")
    /\ UNCHANGED <<byHost, byDevice, vanityByName, vanityByOwner, vanityFile, open, crashes>>

\* Variant: a leaving session takes its host's route along, whose ever it is.
UnregisterHost(c) ==
    LET share == conn[c].share
    IN  /\ At(c, "leave")
        /\ byHost' = [byHost EXCEPT ![routeHost(share)] = None]
        /\ UNCHANGED byDevice
        /\ Goto(c, "done")
        /\ UNCHANGED <<vanityByName, vanityByOwner, vanityFile, open, crashes>>

Unregister(c) ==
    LET share == conn[c].share
    IN  /\ At(c, "leave")
        /\ byHost' = [byHost EXCEPT ![routeHost(share)] = IF @ = c THEN None ELSE @]
        /\ byDevice' = [byDevice EXCEPT ![share.device] = IF @ = c THEN None ELSE @]
        /\ Goto(c, "done")
        /\ UNCHANGED <<vanityByName, vanityByOwner, vanityFile, open, crashes>>

-----------------------------------------------------------------------------
(* The relay is restarted: connections and routes are gone, the reservations
   are read back. *)
Restart ==
    /\ crashes < MaxCrashes
    /\ crashes' = crashes + 1
    /\ byHost' = [h \in Host |-> None]
    /\ byDevice' = [d \in Devices |-> None]
    /\ vanityByName' = vanityFile
    /\ vanityByOwner' = [o \in Owner |->
           IF \E v \in Names : vanityFile[v] = o THEN CHOOSE v \in Names : vanityFile[v] = o ELSE None]
    /\ conn' = [c \in Conns |-> IF At(c, "new") THEN conn[c] ELSE [conn[c] EXCEPT !.at = "done"]]
    /\ open' = {}
    /\ UNCHANGED vanityFile

Handler(c) ==
    \/ ClaimRefused(c) \/ Claim(c) \/ ClaimNotSaved(c) \/ RegisterRefused(c) \/ Register(c)
    \/ Evict(c) \/ SendReady(c) \/ ReadFails(c) \/ Unregister(c)

Next ==
    \/ \E c \in Conns : Handler(c) \/ Disconnect(c) \/ (\E share \in Share : Connect(c, share))
    \/ Restart

Spec == Init /\ [][Next]_vars

(* Goroutines run; clients, the network and restarts are free. *)
FairSpec == Spec /\ \A c \in Conns : WF_vars(Handler(c))

-----------------------------------------------------------------------------
Registered == {"evict", "ready", "serving", "leave"}

\* relay/README: the relay "permits one relayed Minecraft server per
\* installation at a time", however its connections come, go and overlap.
OneServerPerInstallation ==
    \A g, h \in Host :
        byHost[g] # None /\ byHost[h] # None
            /\ conn[byHost[g]].share.device = conn[byHost[h]].share.device
        => g = h

\* A host never leads to a connection whose handler has returned, nor to one
\* that told its client another address.
RoutesAreAlive ==
    \A h \in Host :
        LET c == byHost[h]
        IN  c # None => conn[c].at \in Registered /\ routeHost(conn[c].share) = h

\* The two maps of reservations are each other's inverse, also after a failed
\* write: no owner holds two names and no name two owners.
ReservationsAgree ==
    \A v \in Names, o \in Owner : vanityByName[v] = o <=> vanityByOwner[o] = v

\* What the relay grants is on disk: a restart forgets no reservation and brings
\* no released one back.
ReservationsPersisted == vanityFile = vanityByName

\* A device's slot is freed: a connection that has lost its socket does not keep
\* its installation from relaying another server for good.
SlotIsFreed ==
    \A c \in Conns :
        LET HoldsSlot == \E d \in Devices : byDevice[d] = c
        IN  (HoldsSlot /\ c \notin open) ~> ~ HoldsSlot

\* relay/README: vanity labels "are reserved to the installation/server
\* identity".  A session that serves the name its owner has reserved is the one
\* players reach under that name, unless it is about to be closed.
VanityReachesItsOwner ==
    \A c \in Conns :
        LET share == conn[c].share
        IN  At(c, "serving") /\ c \in open /\ share.vanity # None
              /\ vanityByName[share.vanity] = routeOwner(share)
              /\ (\A e \in Conns : At(e, "evict") => conn[e].old # c)
            => byHost[share.vanity] = c

(* Why: a host's session is its device's session, so a device has one host. *)
RoutesOK ==
    /\ \A h \in Host : byHost[h] # None => byDevice[conn[byHost[h]].share.device] = byHost[h]
    /\ \A d \in Devices :
          LET c == byDevice[d]
          IN  c # None => conn[c].at \in Registered /\ conn[c].share.device = d
    /\ \A c \in Conns : conn[c].at \notin {"new", "done"} => conn[c].share \in Share

IInv ==
    /\ TypeOK /\ RoutesAreAlive /\ RoutesOK /\ ReservationsAgree /\ ReservationsPersisted
=============================================================================
