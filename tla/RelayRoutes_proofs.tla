------------------------- MODULE RelayRoutes_proofs -------------------------
(***************************************************************************)
(* The safety of RelayRoutes for every set of connections, installations,  *)
(* servers and names: IInv is an inductive invariant.                      *)
(***************************************************************************)
EXTENDS RelayRoutes, TLAPS

LEMMA HostTyped == \A share \in Share : routeHost(share) \in Host /\ routeOwner(share) \in Owner
BY NoneAssumption DEF Share, Host, Owner, routeHost, routeOwner

LEMMA ConnTyped ==
    ASSUME TypeOK, NEW c \in Conns, NEW l \in Steps
    PROVE  [conn EXCEPT ![c].at = l] \in [Conns -> Conn]
BY DEF TypeOK, Conn

(* A connection past its authentication has a share. *)
LEMMA ShareTyped ==
    ASSUME IInv, NEW c \in Conns, conn[c].at \notin {"new", "done"}
    PROVE  /\ conn[c].share \in Share
           /\ conn[c].share.device \in Devices
           /\ routeHost(conn[c].share) \in Host
           /\ routeOwner(conn[c].share) \in Owner
           /\ conn[c].share.vanity \in Names \cup {None}
<1>1. conn[c].share \in Share BY DEF IInv, RoutesOK
<1> QED BY <1>1, HostTyped DEF Share

-----------------------------------------------------------------------------
(* The routes, when only connections that hold no route, or the steps of one *)
(* that keeps its route, change.                                             *)
LEMMA MovedKeepsRoutes ==
    ASSUME IInv, UNCHANGED routes, NEW c \in Conns, NEW l \in Steps,
           Goto(c, l), conn[c].at \notin {"new", "done"}, conn[c].at \in Registered => l \in Registered
    PROVE  RoutesAreAlive' /\ RoutesOK'
<1>1. \A x \in Conns : conn'[x].share = conn[x].share /\ (x # c => conn'[x] = conn[x])
    BY DEF Goto, IInv, TypeOK, Conn
<1>2. conn'[c].at = l BY DEF Goto, IInv, TypeOK, Conn
<1>3. \A x \in Conns : conn[x].at \in Registered => conn'[x].at \in Registered
    BY <1>1, <1>2
<1>4. /\ byHost \in [Host -> Conns \cup {None}]
      /\ byDevice \in [Devices -> Conns \cup {None}]
      /\ byHost' = byHost /\ byDevice' = byDevice
    BY DEF IInv, TypeOK, routes
<1>5. RoutesAreAlive'
  <2> SUFFICES ASSUME NEW h \in Host, byHost[h] # None
               PROVE  /\ conn'[byHost[h]].at \in Registered
                      /\ routeHost(conn'[byHost[h]].share) = h
      BY <1>4 DEF RoutesAreAlive
  <2> QED BY <1>1, <1>3, <1>4 DEF IInv, RoutesAreAlive
<1>6. /\ \A h \in Host : byHost'[h] # None => byDevice'[conn'[byHost'[h]].share.device] = byHost'[h]
      /\ \A d \in Devices :
            byDevice'[d] # None => /\ conn'[byDevice'[d]].at \in Registered
                                   /\ conn'[byDevice'[d]].share.device = d
    BY <1>1, <1>3, <1>4 DEF IInv, RoutesOK
<1>7. \A x \in Conns : conn'[x].at \notin {"new", "done"} => conn'[x].share \in Share
    BY <1>1, <1>2 DEF IInv, RoutesOK, Registered
<1> QED BY <1>5, <1>6, <1>7 DEF RoutesOK

(* The names, when they are left alone. *)
LEMMA SameNames ==
    ASSUME IInv, UNCHANGED reservations
    PROVE  ReservationsAgree' /\ ReservationsPersisted'
BY DEF IInv, ReservationsAgree, ReservationsPersisted, reservations

-----------------------------------------------------------------------------
LEMMA InitOK == Init => IInv
<1> SUFFICES ASSUME Init PROVE IInv
    OBVIOUS
<1>1. TypeOK
  <2>1. NewConn \in Conn BY DEF NewConn, Conn, Steps
  <2>2. crashes \in 0..MaxCrashes BY CrashesAssumption DEF Init
  <2> QED BY <2>1, <2>2 DEF Init, TypeOK
<1>2. RoutesAreAlive BY DEF Init, RoutesAreAlive
<1>3. RoutesOK BY DEF Init, RoutesOK, NewConn
<1>4. ReservationsAgree BY NoneAssumption DEF Init, ReservationsAgree, Owner
<1>5. ReservationsPersisted BY DEF Init, ReservationsPersisted
<1> QED BY <1>1, <1>2, <1>3, <1>4, <1>5 DEF IInv

(* The steps that only move a handler on, close sockets or refuse. *)
LEMMA MoveOK ==
    ASSUME IInv, UNCHANGED <<byHost, byDevice, vanityByName, vanityByOwner, vanityFile, crashes>>,
           NEW c \in Conns, NEW l \in Steps,
           Goto(c, l), conn[c].at \notin {"new", "done"}, conn[c].at \in Registered => l \in Registered,
           open' \subseteq Conns
    PROVE  IInv'
<1>1. TypeOK' BY ConnTyped DEF IInv, TypeOK, Goto
<1>2. RoutesAreAlive' /\ RoutesOK' BY MovedKeepsRoutes DEF routes
<1>3. ReservationsAgree' /\ ReservationsPersisted' BY SameNames DEF reservations
<1> QED BY <1>1, <1>2, <1>3 DEF IInv

LEMMA ConnectOK == ASSUME IInv, NEW c \in Conns, NEW share \in Share, Connect(c, share) PROVE IInv'
<1>1. /\ conn \in [Conns -> Conn]
      /\ conn' = [conn EXCEPT ![c] = [at |-> "claim", share |-> share, old |-> None]]
      /\ conn[c].at = "new"
    BY DEF IInv, TypeOK, Connect, At
<1>2. [at |-> "claim", share |-> share, old |-> None] \in Conn BY DEF Conn, Steps
<1>3. TypeOK' BY <1>1, <1>2 DEF IInv, TypeOK, Connect
<1>4. \A x \in Conns : x # c => conn'[x] = conn[x] BY <1>1
<1>5. /\ \A h \in Host : byHost[h] # c
      /\ \A d \in Devices : byDevice[d] # c
    BY <1>1, NoneAssumption DEF IInv, RoutesAreAlive, RoutesOK, Registered
<1>6. byHost' = byHost /\ byDevice' = byDevice BY DEF Connect
<1>7. /\ \A h \in Host : byHost[h] # None => byHost[h] \in Conns /\ conn'[byHost[h]] = conn[byHost[h]]
      /\ \A d \in Devices : byDevice[d] # None => byDevice[d] \in Conns /\ conn'[byDevice[d]] = conn[byDevice[d]]
    BY <1>4, <1>5 DEF IInv, TypeOK
<1>8. RoutesAreAlive' BY <1>6, <1>7 DEF IInv, RoutesAreAlive
<1>9. RoutesOK'
  <2>1. \A x \in Conns : conn'[x].at \notin {"new", "done"} => conn'[x].share \in Share
      BY <1>1, <1>4 DEF IInv, RoutesOK
  <2> QED BY <1>6, <1>7, <2>1 DEF IInv, RoutesOK
<1>10. ReservationsAgree' /\ ReservationsPersisted' BY SameNames DEF Connect, reservations
<1> QED BY <1>3, <1>8, <1>9, <1>10 DEF IInv

-----------------------------------------------------------------------------
(* An owner's previous name is no other name's owner's. *)
LEMMA ClaimOK == ASSUME IInv, NEW c \in Conns, Claim(c) PROVE IInv'
<1> DEFINE name == conn[c].share.vanity
           owner == routeOwner(conn[c].share)
<1>0. conn[c].at = "claim" BY DEF Claim, At
<1>1. owner \in Owner /\ name \in Names \cup {None} BY <1>0, ShareTyped
<1>2. /\ vanityByName \in [Names -> Owner \cup {None}]
      /\ vanityByOwner \in [Owner -> Names \cup {None}]
      /\ vanityFile = vanityByName
    BY DEF IInv, TypeOK, ReservationsPersisted
<1>3. \A v \in Names, o \in Owner : vanityByName[v] = o <=> vanityByOwner[o] = v
    BY DEF IInv, ReservationsAgree
<1>4. name \in Names => vanityByName[name] \in {None, owner}
    BY <1>1, NoneAssumption DEF Claim, Taken
<1>5. None \notin Names /\ None \notin Owner BY NoneAssumption DEF Owner
<1>6. Goto(c, "register") /\ UNCHANGED routes /\ open' = open /\ crashes' = crashes
    BY DEF Claim, routes
<1>7. /\ vanityByName' \in [Names -> Owner \cup {None}]
      /\ vanityByOwner' \in [Owner -> Names \cup {None}]
      /\ vanityFile' = vanityByName'
      /\ \A v \in Names, o \in Owner : vanityByName'[v] = o <=> vanityByOwner'[o] = v
  <2>1. CASE vanityByOwner[owner] = name
      BY <2>1, <1>2, <1>3 DEF Claim
  <2>2. CASE vanityByOwner[owner] # name
    <3>1. /\ vanityByName' = [v \in Names |-> CASE v = name -> owner
                                               [] v = vanityByOwner[owner] /\ v # name -> None
                                               [] OTHER -> vanityByName[v]]
          /\ vanityByOwner' = [vanityByOwner EXCEPT ![owner] = name]
          /\ vanityFile' = vanityByName'
        BY <2>2 DEF Claim, NamesAfter, OwnersAfter
    <3> HIDE DEF name, owner
    <3>2. vanityByName' \in [Names -> Owner \cup {None}] /\ vanityByOwner' \in [Owner -> Names \cup {None}]
        BY <3>1, <1>1, <1>2
    <3>3. ASSUME NEW v \in Names, NEW o \in Owner PROVE vanityByName'[v] = o <=> vanityByOwner'[o] = v
      <4>1. vanityByOwner'[o] = IF o = owner THEN name ELSE vanityByOwner[o] BY <3>1, <1>1, <1>2
      <4>2. vanityByName'[v] = IF v = name THEN owner
                               ELSE IF v = vanityByOwner[owner] THEN None ELSE vanityByName[v]
          BY <3>1
      <4>3. CASE v = name
          BY <4>1, <4>2, <4>3, <1>1, <1>3, <1>4, <1>5
      <4>4. CASE v # name
          BY <4>1, <4>2, <4>4, <1>1, <1>3, <1>5
      <4> QED BY <4>3, <4>4
    <3> QED BY <3>1, <3>2, <3>3
  <2> QED BY <2>1, <2>2
<1>8. TypeOK' BY <1>2, <1>6, <1>7, ConnTyped DEF IInv, TypeOK, Goto, routes, Steps
<1>9. RoutesAreAlive' /\ RoutesOK'
    BY <1>0, <1>6, MovedKeepsRoutes DEF Registered, Steps
<1>10. ReservationsAgree' /\ ReservationsPersisted'
    BY <1>7 DEF ReservationsAgree, ReservationsPersisted
<1> QED BY <1>8, <1>9, <1>10 DEF IInv

(* A write that fails leaves both maps as they were. *)
LEMMA ClaimNotSavedOK == ASSUME IInv, NEW c \in Conns, ClaimNotSaved(c) PROVE IInv'
<1> DEFINE name == conn[c].share.vanity
           owner == routeOwner(conn[c].share)
           previous == vanityByOwner[owner]
<1>0. conn[c].at = "claim" BY DEF ClaimNotSaved, At
<1>1. owner \in Owner /\ name \in Names \cup {None} BY <1>0, ShareTyped
<1>2. /\ vanityByName \in [Names -> Owner \cup {None}]
      /\ vanityByOwner \in [Owner -> Names \cup {None}]
    BY DEF IInv, TypeOK
<1>3. \A v \in Names, o \in Owner : vanityByName[v] = o <=> vanityByOwner[o] = v
    BY DEF IInv, ReservationsAgree
<1>4. name \in Names => vanityByName[name] \in {None, owner}
    BY <1>1, NoneAssumption DEF ClaimNotSaved, Taken
<1>5. None \notin Names /\ None \notin Owner BY NoneAssumption DEF Owner
<1>6. previous # name BY DEF ClaimNotSaved
<1>7. vanityByName' = vanityByName
  <2>1. vanityByName' = [v \in Names |-> CASE v = previous -> owner
                                           [] v = name /\ v # previous -> None
                                           [] OTHER -> vanityByName[v]]
      BY DEF ClaimNotSaved
  <2> HIDE DEF name, owner
  <2>2. \A v \in Names : vanityByName'[v] = vanityByName[v]
      BY <2>1, <1>1, <1>3, <1>4, <1>5, <1>6
  <2> QED BY <2>1, <2>2, <1>2
<1>8. vanityByOwner' = vanityByOwner
  <2>1. vanityByOwner' = [vanityByOwner EXCEPT ![owner] = vanityByOwner[owner]] BY DEF ClaimNotSaved
  <2> QED BY <2>1, <1>1, <1>2
<1>9. Goto(c, "done") /\ open' \subseteq Conns BY DEF ClaimNotSaved, Refuse, IInv, TypeOK
<1> QED BY <1>0, <1>7, <1>8, <1>9, MoveOK DEF ClaimNotSaved, Registered, Steps

-----------------------------------------------------------------------------
LEMMA RegisterOK == ASSUME IInv, NEW c \in Conns, Register(c) PROVE IInv'
<1> DEFINE share == conn[c].share
           host == routeHost(share)
           old == Replaced(c)
<1>0. conn[c].at = "register" /\ conn \in [Conns -> Conn] BY DEF Register, At, IInv, TypeOK
<1>1. share \in Share /\ share.device \in Devices /\ host \in Host BY <1>0, ShareTyped
<1>2. /\ byHost \in [Host -> Conns \cup {None}]
      /\ byDevice \in [Devices -> Conns \cup {None}]
      /\ None \notin Conns
    BY NoneAssumption DEF IInv, TypeOK
<1>3. /\ byHost' = [h \in Host |->
                     CASE h = host -> c
                       [] old # None /\ h = routeHost(conn[old].share) /\ h # host -> None
                       [] OTHER -> byHost[h]]
      /\ byDevice' = [byDevice EXCEPT ![share.device] = c]
      /\ conn' = [conn EXCEPT ![c].at = "evict", ![c].old = old]
      /\ UNCHANGED <<vanityByName, vanityByOwner, vanityFile, open, crashes>>
    BY DEF Register
<1>4. old \in Conns \cup {None} BY <1>1, <1>2 DEF Replaced
<1>5. byDevice[share.device] # None => old = byDevice[share.device] BY DEF Replaced
<1> HIDE DEF share, host, old
<1>6. \A r \in Conn : LET q == [r EXCEPT !.at = "evict", !.old = old]
                    IN  q \in Conn /\ q.share = r.share /\ q.at = "evict"
    BY <1>4 DEF Conn, Steps
<1>7. conn[c] \in Conn /\ conn' = [conn EXCEPT ![c] = [conn[c] EXCEPT !.at = "evict", !.old = old]]
    BY <1>0, <1>3
<1>8. TypeOK'
  <2>1. conn' \in [Conns -> Conn] BY <1>0, <1>6, <1>7
  <2>2. byHost' \in [Host -> Conns \cup {None}] /\ byDevice' \in [Devices -> Conns \cup {None}]
      BY <1>1, <1>2, <1>3
  <2> QED BY <2>1, <2>2, <1>3 DEF IInv, TypeOK
<1>9. /\ \A x \in Conns : conn'[x].share = conn[x].share /\ (x # c => conn'[x] = conn[x])
      /\ conn'[c].at = "evict"
  <2>1. conn'[c] = [conn[c] EXCEPT !.at = "evict", !.old = old] BY <1>0, <1>7
  <2>2. \A x \in Conns : x # c => conn'[x] = conn[x] BY <1>0, <1>7
  <2> QED BY <2>1, <2>2, <1>6, <1>7
<1>10. \A h \in Host : byHost'[h] # None =>
          \/ h = host /\ byHost'[h] = c
          \/ h # host /\ byHost'[h] = byHost[h] /\ byHost[h] \in Conns
             /\ (old # None => h # routeHost(conn[old].share))
    BY <1>2, <1>3
<1>11. /\ \A h \in Host : byHost[h] # None => /\ conn[byHost[h]].at \in Registered
                                              /\ routeHost(conn[byHost[h]].share) = h
       /\ \A h \in Host : byHost[h] # None => byDevice[conn[byHost[h]].share.device] = byHost[h]
       /\ \A d \in Devices : byDevice[d] # None => /\ conn[byDevice[d]].at \in Registered
                                                   /\ conn[byDevice[d]].share.device = d
    BY DEF IInv, RoutesAreAlive, RoutesOK
<1>12. RoutesAreAlive'
  <2> SUFFICES ASSUME NEW h \in Host, byHost'[h] # None
               PROVE  conn'[byHost'[h]].at \in Registered /\ routeHost(conn'[byHost'[h]].share) = h
      BY DEF RoutesAreAlive
  <2>1. CASE h = host /\ byHost'[h] = c
      BY <2>1, <1>9 DEF Registered, host, share
  <2>2. CASE byHost'[h] = byHost[h] /\ byHost[h] \in Conns
    <3>1. conn[byHost[h]].at \in Registered /\ routeHost(conn[byHost[h]].share) = h
        BY <2>2, <1>2, <1>11
    <3>2. byHost[h] # c BY <3>1, <1>0 DEF Registered
    <3> QED BY <2>2, <3>1, <3>2, <1>9
  <2> QED BY <2>1, <2>2, <1>10
<1>13. \A h \in Host : byHost'[h] # None => byDevice'[conn'[byHost'[h]].share.device] = byHost'[h]
  <2> SUFFICES ASSUME NEW h \in Host, byHost'[h] # None
               PROVE  byDevice'[conn'[byHost'[h]].share.device] = byHost'[h]
      OBVIOUS
  <2>1. CASE h = host /\ byHost'[h] = c
      BY <2>1, <1>1, <1>2, <1>3, <1>9 DEF share
  <2>2. CASE /\ byHost'[h] = byHost[h] /\ byHost[h] \in Conns
             /\ old # None => h # routeHost(conn[old].share)
    <3>1. byDevice[conn[byHost[h]].share.device] = byHost[h] BY <2>2, <1>2, <1>11
    <3>2. conn[byHost[h]].share.device # share.device
        BY <2>2, <3>1, <1>2, <1>5, <1>11
    <3>3. conn'[byHost[h]].share = conn[byHost[h]].share BY <2>2, <1>9
    <3> QED BY <2>2, <3>1, <3>2, <3>3, <1>2, <1>3
  <2> QED BY <2>1, <2>2, <1>10
<1>14. \A d \in Devices : byDevice'[d] # None => /\ conn'[byDevice'[d]].at \in Registered
                                                 /\ conn'[byDevice'[d]].share.device = d
  <2> SUFFICES ASSUME NEW d \in Devices, byDevice'[d] # None
               PROVE  conn'[byDevice'[d]].at \in Registered /\ conn'[byDevice'[d]].share.device = d
      OBVIOUS
  <2>1. CASE d = share.device
      BY <2>1, <1>1, <1>2, <1>3, <1>9 DEF Registered, share
  <2>2. CASE d # share.device
    <3>1. byDevice'[d] = byDevice[d] /\ byDevice[d] \in Conns BY <2>2, <1>2, <1>3
    <3>2. conn[byDevice[d]].at \in Registered /\ conn[byDevice[d]].share.device = d
        BY <3>1, <1>2, <1>11
    <3>3. byDevice[d] # c BY <3>2, <1>0 DEF Registered
    <3> QED BY <3>1, <3>2, <3>3, <1>9
  <2> QED BY <2>1, <2>2
<1>15. \A x \in Conns : conn'[x].at \notin {"new", "done"} => conn'[x].share \in Share
    BY <1>1, <1>9 DEF IInv, RoutesOK, share
<1>16. RoutesOK' BY <1>13, <1>14, <1>15 DEF RoutesOK
<1>17. ReservationsAgree' /\ ReservationsPersisted' BY <1>3, SameNames DEF reservations
<1> QED BY <1>8, <1>12, <1>16, <1>17 DEF IInv

LEMMA UnregisterOK == ASSUME IInv, NEW c \in Conns, Unregister(c) PROVE IInv'
<1> DEFINE share == conn[c].share
           host == routeHost(share)
<1>0. conn[c].at = "leave" /\ conn \in [Conns -> Conn] BY DEF Unregister, At, IInv, TypeOK
<1>1. share \in Share /\ share.device \in Devices /\ host \in Host BY <1>0, ShareTyped
<1>2. /\ byHost \in [Host -> Conns \cup {None}]
      /\ byDevice \in [Devices -> Conns \cup {None}]
      /\ None \notin Conns
    BY NoneAssumption DEF IInv, TypeOK
<1>3. /\ byHost' = [byHost EXCEPT ![host] = IF byHost[host] = c THEN None ELSE byHost[host]]
      /\ byDevice' = [byDevice EXCEPT ![share.device] =
                         IF byDevice[share.device] = c THEN None ELSE byDevice[share.device]]
      /\ conn' = [conn EXCEPT ![c].at = "done"]
      /\ UNCHANGED <<vanityByName, vanityByOwner, vanityFile, open, crashes>>
    BY DEF Unregister, Goto
<1> HIDE DEF share, host
<1>4. TypeOK'
  <2>1. conn' \in [Conns -> Conn] BY <1>3, ConnTyped DEF IInv, Steps
  <2>2. byHost' \in [Host -> Conns \cup {None}] /\ byDevice' \in [Devices -> Conns \cup {None}]
      BY <1>1, <1>2, <1>3
  <2> QED BY <2>1, <2>2, <1>3 DEF IInv, TypeOK
<1>5. /\ \A x \in Conns : conn'[x].share = conn[x].share /\ (x # c => conn'[x] = conn[x])
      /\ conn'[c].at = "done"
    BY <1>0, <1>3 DEF Conn
<1>6. /\ \A h \in Host : byHost[h] # None => /\ conn[byHost[h]].at \in Registered
                                             /\ routeHost(conn[byHost[h]].share) = h
      /\ \A h \in Host : byHost[h] # None => byDevice[conn[byHost[h]].share.device] = byHost[h]
      /\ \A d \in Devices : byDevice[d] # None => /\ conn[byDevice[d]].at \in Registered
                                                  /\ conn[byDevice[d]].share.device = d
    BY DEF IInv, RoutesAreAlive, RoutesOK
<1>7. \A h \in Host : byHost'[h] # None => byHost'[h] = byHost[h] /\ byHost[h] \in Conns /\ byHost[h] # c
  <2> SUFFICES ASSUME NEW h \in Host, byHost'[h] # None
               PROVE  byHost'[h] = byHost[h] /\ byHost[h] \in Conns /\ byHost[h] # c
      OBVIOUS
  <2>1. byHost'[h] = byHost[h] /\ byHost[h] \in Conns BY <1>1, <1>2, <1>3
  <2>2. ASSUME byHost[h] = c PROVE FALSE
    <3>1. h = host BY <2>1, <2>2, <1>2, <1>6 DEF host, share
    <3> QED BY <3>1, <2>1, <2>2, <1>1, <1>2, <1>3
  <2> QED BY <2>1, <2>2
<1>8. \A d \in Devices : byDevice'[d] # None =>
          byDevice'[d] = byDevice[d] /\ byDevice[d] \in Conns /\ byDevice[d] # c
  <2> SUFFICES ASSUME NEW d \in Devices, byDevice'[d] # None
               PROVE  byDevice'[d] = byDevice[d] /\ byDevice[d] \in Conns /\ byDevice[d] # c
      OBVIOUS
  <2>1. byDevice'[d] = byDevice[d] /\ byDevice[d] \in Conns BY <1>1, <1>2, <1>3
  <2>2. ASSUME byDevice[d] = c PROVE FALSE
    <3>1. d = share.device BY <2>1, <2>2, <1>2, <1>6 DEF share
    <3> QED BY <3>1, <2>1, <2>2, <1>1, <1>2, <1>3
  <2> QED BY <2>1, <2>2
<1>9. RoutesAreAlive'
  <2> SUFFICES ASSUME NEW h \in Host, byHost'[h] # None
               PROVE  conn'[byHost'[h]].at \in Registered /\ routeHost(conn'[byHost'[h]].share) = h
      BY DEF RoutesAreAlive
  <2> QED BY <1>2, <1>5, <1>6, <1>7
<1>10. RoutesOK'
  <2>1. ASSUME NEW h \in Host, byHost'[h] # None
        PROVE  byDevice'[conn'[byHost'[h]].share.device] = byHost'[h]
    <3>1. byHost'[h] = byHost[h] /\ byHost[h] \in Conns /\ byHost[h] # c BY <2>1, <1>7
    <3>2. byDevice[conn[byHost[h]].share.device] = byHost[h] BY <3>1, <1>2, <1>6
    <3>3. conn'[byHost[h]].share = conn[byHost[h]].share BY <3>1, <1>5
    <3> QED BY <3>1, <3>2, <3>3, <1>1, <1>2, <1>3
  <2>2. ASSUME NEW d \in Devices, byDevice'[d] # None
        PROVE  conn'[byDevice'[d]].at \in Registered /\ conn'[byDevice'[d]].share.device = d
      BY <2>2, <1>2, <1>5, <1>6, <1>8
  <2>3. \A x \in Conns : conn'[x].at \notin {"new", "done"} => conn'[x].share \in Share
      BY <1>5 DEF IInv, RoutesOK
  <2> QED BY <2>1, <2>2, <2>3 DEF RoutesOK
<1>11. ReservationsAgree' /\ ReservationsPersisted' BY <1>3, SameNames DEF reservations
<1> QED BY <1>4, <1>9, <1>10, <1>11 DEF IInv

(* The reservations read back are the ones that were held. *)
LEMMA RestartOK == ASSUME IInv, Restart PROVE IInv'
<1>1. /\ vanityByName \in [Names -> Owner \cup {None}]
      /\ vanityFile = vanityByName
      /\ \A v \in Names, o \in Owner : vanityByName[v] = o <=> vanityByOwner[o] = v
    BY DEF IInv, TypeOK, ReservationsPersisted, ReservationsAgree
<1>2. /\ vanityByName' = vanityFile /\ vanityFile' = vanityFile
      /\ vanityByOwner' = [o \in Owner |->
             IF \E v \in Names : vanityFile[v] = o THEN CHOOSE v \in Names : vanityFile[v] = o ELSE None]
    BY DEF Restart
<1>3. vanityByOwner' \in [Owner -> Names \cup {None}] BY <1>2
<1>4. None \notin Names BY NoneAssumption
<1>5. \A v \in Names, o \in Owner : vanityByName'[v] = o <=> vanityByOwner'[o] = v
    BY <1>1, <1>2, <1>4
<1>6. /\ conn \in [Conns -> Conn]
      /\ conn' = [c \in Conns |-> IF conn[c].at = "new" THEN conn[c] ELSE [conn[c] EXCEPT !.at = "done"]]
      /\ byHost' = [h \in Host |-> None] /\ byDevice' = [d \in Devices |-> None]
      /\ open' = {} /\ crashes < MaxCrashes /\ crashes' = crashes + 1
    BY DEF Restart, IInv, TypeOK, At
<1>7. TypeOK'
  <2>1. conn' \in [Conns -> Conn] BY <1>6 DEF Conn, Steps
  <2>2. crashes' \in 0..MaxCrashes BY <1>6, CrashesAssumption DEF IInv, TypeOK
  <2> QED BY <2>1, <2>2, <1>1, <1>2, <1>3, <1>6 DEF TypeOK
<1>8. RoutesAreAlive' BY <1>6 DEF RoutesAreAlive
<1>9. RoutesOK' BY <1>6 DEF RoutesOK, Conn
<1>10. ReservationsAgree' /\ ReservationsPersisted'
    BY <1>1, <1>2, <1>5 DEF ReservationsAgree, ReservationsPersisted
<1> QED BY <1>7, <1>8, <1>9, <1>10 DEF IInv

-----------------------------------------------------------------------------
LEMMA HandlerOK == ASSUME IInv, NEW c \in Conns, Handler(c) PROVE IInv'
<1>1. CASE ClaimRefused(c)
    BY <1>1, MoveOK DEF ClaimRefused, Refuse, At, Registered, Steps, IInv, TypeOK
<1>2. CASE Claim(c) BY <1>2, ClaimOK
<1>3. CASE ClaimNotSaved(c) BY <1>3, ClaimNotSavedOK
<1>4. CASE RegisterRefused(c)
    BY <1>4, MoveOK DEF RegisterRefused, Refuse, At, Registered, Steps, IInv, TypeOK
<1>5. CASE Register(c) BY <1>5, RegisterOK
<1>6. CASE Evict(c)
    BY <1>6, MoveOK DEF Evict, At, Registered, Steps, IInv, TypeOK
<1>7. CASE SendReady(c)
    BY <1>7, MoveOK DEF SendReady, At, Registered, Steps, IInv, TypeOK
<1>8. CASE ReadFails(c)
    BY <1>8, MoveOK DEF ReadFails, At, Registered, Steps, IInv, TypeOK
<1>9. CASE Unregister(c) BY <1>9, UnregisterOK
<1> QED BY <1>1, <1>2, <1>3, <1>4, <1>5, <1>6, <1>7, <1>8, <1>9 DEF Handler

LEMMA SameOK ==
    ASSUME IInv, open' \subseteq Conns,
           UNCHANGED <<byHost, byDevice, vanityByName, vanityByOwner, vanityFile, conn, crashes>>
    PROVE  IInv'
<1>1. TypeOK' BY DEF IInv, TypeOK
<1>2. RoutesAreAlive' /\ RoutesOK' BY DEF IInv, RoutesAreAlive, RoutesOK
<1>3. ReservationsAgree' /\ ReservationsPersisted' BY SameNames DEF reservations
<1> QED BY <1>1, <1>2, <1>3 DEF IInv

LEMMA StepOK == IInv /\ [Next]_vars => IInv'
<1> SUFFICES ASSUME IInv, [Next]_vars PROVE IInv'
    OBVIOUS
<1>1. ASSUME NEW c \in Conns, Handler(c) PROVE IInv' BY <1>1, HandlerOK
<1>2. ASSUME NEW c \in Conns, Disconnect(c) PROVE IInv'
    BY <1>2, SameOK DEF Disconnect, IInv, TypeOK
<1>3. ASSUME NEW c \in Conns, NEW share \in Share, Connect(c, share) PROVE IInv' BY <1>3, ConnectOK
<1>4. CASE Restart BY <1>4, RestartOK
<1>5. CASE UNCHANGED vars BY <1>5, SameOK DEF vars, IInv, TypeOK
<1> QED BY <1>1, <1>2, <1>3, <1>4, <1>5 DEF Next

\* The inductive invariant holds in every reachable state of the relay's
\* control plane, restarts of the relay included.
THEOREM RelayInvariance == Spec => []IInv
<1> QED BY InitOK, StepOK, PTL DEF Spec

\* A device's host is its slot's, so no installation has two routed servers.
THEOREM OneServer == Spec => []OneServerPerInstallation
<1>1. IInv => OneServerPerInstallation
  <2> SUFFICES ASSUME IInv, NEW g \in Host, NEW h \in Host, byHost[g] # None, byHost[h] # None,
                      conn[byHost[g]].share.device = conn[byHost[h]].share.device
               PROVE  g = h
      BY DEF OneServerPerInstallation
  <2>1. byHost[g] = byHost[h] BY DEF IInv, RoutesOK
  <2> QED BY <2>1 DEF IInv, RoutesAreAlive
<1> QED BY <1>1, RelayInvariance, PTL

\* No host name leads to a handler that has returned.
THEOREM LiveRoutes == Spec => []RoutesAreAlive
<1>1. IInv => RoutesAreAlive BY DEF IInv
<1> QED BY <1>1, RelayInvariance, PTL

\* No name has two owners and no owner two names, also when a write fails or
\* the reservations are read back after a restart.
THEOREM NamesAgree == Spec => []ReservationsAgree
<1>1. IInv => ReservationsAgree BY DEF IInv
<1> QED BY <1>1, RelayInvariance, PTL

\* What the relay has in memory is what it would read back.
THEOREM NamesPersist == Spec => []ReservationsPersisted
<1>1. IInv => ReservationsPersisted BY DEF IInv
<1> QED BY <1>1, RelayInvariance, PTL
=============================================================================
