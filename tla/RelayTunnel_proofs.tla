------------------------- MODULE RelayTunnel_proofs -------------------------
(* For any number of players, sessions and data requests: the inductive invariant of
   RelayTunnel, and what follows from it. *)
EXTENDS RelayTunnel, FiniteSetTheorems, TLAPS

(* The constants are told apart from None. *)
LEMMA NoneIsNew == None \notin Players /\ None \notin Sessions /\ None \notin Dials
  BY PlayersAssumption

(* The counted players of a session, and those it admitted, are finitely many. *)
LEMMA CountedFinite ==
    \A s : IsFiniteSet(Counted(s)) /\ IsFiniteSet(Admitted(s)) /\ Admitted(s) \subseteq Counted(s)
  BY PlayersAssumption, FS_Subset DEF Counted, Admitted

-----------------------------------------------------------------------------
(* The counter. *)

(* A step that counts nobody differently leaves the counter exact. *)
LEMMA SameCount ==
    ASSUME TypeOK, CountIsExact, active' = active,
           \A s \in Sessions : Counted(s)' = Counted(s)
    PROVE  CountIsExact'
  BY DEF CountIsExact

(* One more player is counted, and the counter is one more. *)
LEMMA OneMore ==
    ASSUME TypeOK, CountIsExact, NEW p, NEW s \in Sessions,
           active' = [active EXCEPT ![s] = @ + 1],
           p \notin Counted(s), Counted(s)' = Counted(s) \cup {p},
           \A t \in Sessions \ {s} : Counted(t)' = Counted(t)
    PROVE  CountIsExact'
  <1>1. Cardinality(Counted(s) \cup {p}) = Cardinality(Counted(s)) + 1
    BY CountedFinite, FS_AddElement
  <1> QED BY <1>1 DEF CountIsExact, TypeOK

(* One player less is counted, and the counter is one less. *)
LEMMA OneLess ==
    ASSUME TypeOK, CountIsExact, NEW s \in Sessions, NEW p \in Counted(s),
           active' = [active EXCEPT ![s] = @ - 1],
           Counted(s)' = Counted(s) \ {p},
           \A t \in Sessions \ {s} : Counted(t)' = Counted(t)
    PROVE  CountIsExact' /\ active'[s] \in Nat
  <1>1. Cardinality(Counted(s) \ {p}) = Cardinality(Counted(s)) - 1
    BY CountedFinite, FS_RemoveElement
  <1>2. Cardinality(Counted(s) \ {p}) \in Nat
    BY CountedFinite, FS_Subset, FS_CardinalityType
  <1> QED BY <1>1, <1>2 DEF CountIsExact, TypeOK

(* Nobody new is admitted, and the limit holds on. *)
LEMMA FewerAdmitted ==
    ASSUME LimitHolds, \A s \in Sessions : Admitted(s)' \subseteq Admitted(s)
    PROVE  LimitHolds'
  <1> SUFFICES ASSUME NEW s \in Sessions PROVE (Cardinality(Admitted(s)) <= Max)'
    BY DEF LimitHolds
  <1>1. /\ Cardinality(Admitted(s)') <= Cardinality(Admitted(s))
        /\ Cardinality(Admitted(s)') \in Nat /\ Cardinality(Admitted(s)) \in Nat
    BY CountedFinite, FS_Subset, FS_CardinalityType
  <1> QED BY <1>1, MaxAssumption DEF LimitHolds

(* A handler that returns takes one off its session's counter, and is the only one no
   longer counted. *)
LEMMA ReturnsPlace ==
    ASSUME TypeOK, CountIsExact, SessionIsKnown, NEW p \in Players, Return(p),
           handler[p].at \in {"refused", "unlisted"},
           active' = [active EXCEPT ![Session(p)] = @ - 1]
    PROVE  /\ CountIsExact' /\ active' \in [Sessions -> Nat]
           /\ \A s \in Sessions : Admitted(s)' \subseteq Admitted(s)
  <1>1. PICK s \in Sessions : handler[p].session = s
    BY DEF SessionIsKnown, TypeOK, Handler
  <1>2. /\ handler'[p].session = None /\ handler'[p].at = "gone"
        /\ \A q \in Players \ {p} : handler'[q] = handler[q]
    BY DEF Return, TypeOK, Handler
  <1>3. /\ p \in Counted(s) /\ Counted(s)' = Counted(s) \ {p}
        /\ \A t \in Sessions \ {s} : Counted(t)' = Counted(t)
    BY <1>1, <1>2, NoneIsNew DEF Counted, At
  <1>4. active' = [active EXCEPT ![s] = @ - 1]
    BY <1>1 DEF Session
  <1>5. CountIsExact' /\ active'[s] \in Nat
    BY <1>3, <1>4, OneLess
  <1>6. active' \in [Sessions -> Nat]
    BY <1>4, <1>5 DEF TypeOK
  <1>7. \A t \in Sessions : Admitted(t)' \subseteq Admitted(t)
    BY <1>2, NoneIsNew DEF Admitted, Counted, At
  <1> QED BY <1>5, <1>6, <1>7

(* A handler that goes on is counted, and admitted, as before. *)
LEMMA GoesOn ==
    ASSUME TypeOK, CountIsExact, LimitHolds, NEW p \in Players, active' = active,
           \A q \in Players \ {p} : handler'[q] = handler[q],
           handler'[p].session = handler[p].session,
           handler[p].at \notin {"found", "refused"}, handler'[p].at \notin {"found", "refused"}
    PROVE  CountIsExact' /\ LimitHolds'
  <1>1. \A s \in Sessions : Counted(s)' = Counted(s)
    BY DEF Counted, At
  <1>2. \A s \in Sessions : Admitted(s)' = Admitted(s)
    BY <1>1 DEF Admitted, At, Counted
  <1> QED BY <1>1, <1>2, SameCount, FewerAdmitted

(* Nothing that a step of no handler changes is counted. *)
LEMMA NobodyMoves ==
    ASSUME TypeOK, CountIsExact, LimitHolds, active' = active, handler' = handler
    PROVE  CountIsExact' /\ LimitHolds'
  <1>1. \A s \in Sessions : Counted(s)' = Counted(s) /\ Admitted(s)' = Admitted(s)
    BY DEF Counted, Admitted, At
  <1> QED BY <1>1, SameCount, FewerAdmitted

(* The player that found the route counts itself, and is refused over the limit. *)
LEMMA CountKeeps ==
    ASSUME IInv, LimitHolds, NEW p \in Players, Count(p)
    PROVE  CountIsExact' /\ LimitHolds' /\ TypeOK'
  <1> USE DEF IInv
  <1>1. PICK s \in Sessions : handler[p].session = s
    BY DEF Count, At, SessionIsKnown, TypeOK, Handler
  <1>2. active' = [active EXCEPT ![s] = @ + 1] /\ active'[s] = active[s] + 1
    BY <1>1 DEF Count, Session, TypeOK
  <1>3. /\ handler[p].at = "found" /\ handler'[p].session = s
        /\ handler'[p].at = Admission(active'[s])
        /\ \A q \in Players \ {p} : handler'[q] = handler[q]
    BY <1>1 DEF Count, Session, At, Goto, TypeOK, Handler
  <1>4. Admission(active'[s]) \in {"refused", "admitted"}
    BY DEF Admission
  <1>5. /\ p \notin Counted(s) /\ Counted(s)' = Counted(s) \cup {p}
        /\ \A t \in Sessions \ {s} : Counted(t)' = Counted(t)
    BY <1>1, <1>3, <1>4 DEF Counted, At
  <1>6. CountIsExact'
    BY <1>2, <1>5, OneMore
  <1>7. \A t \in Sessions \ {s} : Admitted(t)' \subseteq Admitted(t)
    BY <1>3, <1>5 DEF Admitted, Counted, At
  <1>8. LimitHolds'
    <2>1. CASE handler'[p].at = "refused"
      <3>1. Admitted(s)' \subseteq Admitted(s)
        BY <1>3, <2>1 DEF Admitted, Counted, At
      <3> QED BY <1>7, <3>1, FewerAdmitted
    <2>2. CASE handler'[p].at = "admitted"
      <3>1. active'[s] <= Max
        BY <1>2, <1>3, <2>2, MaxAssumption DEF Admission, TypeOK
      <3>2. Cardinality(Counted(s)') <= Max
        BY <1>6, <3>1 DEF CountIsExact
      <3>3. Admitted(s)' \subseteq Counted(s)' /\ IsFiniteSet(Counted(s)')
        BY PlayersAssumption, FS_Subset DEF Counted, Admitted
      <3>4. /\ Cardinality(Admitted(s)') <= Cardinality(Counted(s)')
            /\ Cardinality(Admitted(s)') \in Nat /\ Cardinality(Counted(s)') \in Nat
        BY <3>3, FS_Subset, FS_CardinalityType
      <3>5. Cardinality(Admitted(s)') <= Max
        BY <3>2, <3>4, MaxAssumption
      <3>6. \A t \in Sessions \ {s} : Cardinality(Admitted(t)') <= Max
        <4> SUFFICES ASSUME NEW t \in Sessions \ {s} PROVE Cardinality(Admitted(t)') <= Max
          OBVIOUS
        <4>1. Admitted(t)' \subseteq Admitted(t) /\ IsFiniteSet(Admitted(t))
          BY <1>7, CountedFinite
        <4>2. /\ Cardinality(Admitted(t)') <= Cardinality(Admitted(t))
              /\ Cardinality(Admitted(t)') \in Nat /\ Cardinality(Admitted(t)) \in Nat
          BY <4>1, FS_Subset, FS_CardinalityType
        <4> QED BY <4>2, MaxAssumption DEF LimitHolds
      <3> QED BY <3>5, <3>6 DEF LimitHolds
    <2> QED BY <1>3, <1>4, <2>1, <2>2
  <1>9. TypeOK'
    <2>1. handler' = [handler EXCEPT ![p].at = Admission(active'[s])]
      BY <1>1 DEF Count, Session, Goto
    <2>2. handler' \in [Players -> Handler]
      BY <1>4, <2>1 DEF TypeOK, Handler, Points
    <2>3. active' \in [Sessions -> Nat]
      BY <1>2 DEF TypeOK
    <2> QED BY <2>2, <2>3 DEF TypeOK, Count, table
  <1> QED BY <1>6, <1>8, <1>9

-----------------------------------------------------------------------------
(* The tables and the tunnels. *)

(* Each step, for the parts of the invariant that are not the counter. *)
Tables == SessionIsKnown /\ DialIsKnown /\ ListedAreWaited /\ ClaimIsUnique /\ TunnelIsClaimed

(* A handler that neither lists, takes a tunnel nor ends one. *)
LEMMA TablesKept ==
    ASSUME IInv, NEW p \in Players, byID' = byID, ready' = ready, dial' = dial,
           \A q \in Players \ {p} : handler'[q] = handler[q],
           handler'[p].tunnel = handler[p].tunnel,
           handler[p].at # "proxying", handler'[p].at # "proxying",
           p \in byID => handler'[p].at \in {"listed", "waiting", "leaving"},
           handler'[p].at \in {"away", "found", "refused", "admitted"}
               => handler[p].at \in {"away", "found", "refused", "admitted"},
           handler'[p].session = None <=> handler'[p].at \in {"away", "gone"}
    PROVE  Tables'
  <1> USE DEF IInv
  <1>1. \A q \in Players : Claimed(q)' = Claimed(q)
    BY DEF Claimed
  <1>2. SessionIsKnown' /\ DialIsKnown'
    BY DEF SessionIsKnown, DialIsKnown, TypeOK
  <1>3. ListedAreWaited'
    BY <1>1 DEF ListedAreWaited, TypeOK
  <1>4. ClaimIsUnique'
    BY <1>1 DEF ClaimIsUnique, TypeOK
  <1>5. TunnelIsClaimed'
    BY <1>1 DEF TunnelIsClaimed, At, TypeOK
  <1> QED BY <1>2, <1>3, <1>4, <1>5 DEF Tables

(* A data request that is made, or closed before it was handed over. *)
LEMMA DialKept ==
    ASSUME IInv, NEW d \in Dials, handler' = handler, ready' = ready, byID' \subseteq byID,
           dial' \in [Dials -> Dial], \A e \in Dials \ {d} : dial'[e] = dial[e],
           dial[d].at \in {"idle", "dialled", "accepting"},
           dial'[d].at \in {"dialled", "closed"}, dial'[d].player \in Players
    PROVE  Tables'
  <1> USE DEF IInv
  <1>1. \A q \in Players : Claimed(q)' \subseteq Claimed(q) /\ Claimed(q) \subseteq Claimed(q)' \cup {d}
    BY DEF Claimed
  <1>2. SessionIsKnown' /\ DialIsKnown'
    BY NoneIsNew DEF SessionIsKnown, DialIsKnown, TypeOK
  <1>3. ListedAreWaited'
    BY <1>1 DEF ListedAreWaited, TypeOK
  <1>4. ClaimIsUnique'
    BY <1>1 DEF ClaimIsUnique
  <1>5. \A q \in Players :
           /\ ready[q] # None => ready[q] # d /\ ready[q] \in Dials
           /\ At(q, "proxying") => handler[q].tunnel # d /\ handler[q].tunnel \in Dials
    BY DEF TunnelIsClaimed, TypeOK, Handler
  <1>6. TunnelIsClaimed'
    BY <1>1, <1>5 DEF TunnelIsClaimed, At
  <1> QED BY <1>2, <1>3, <1>4, <1>6 DEF Tables

LEMMA CountTables == ASSUME IInv, NEW p \in Players, Count(p) PROVE Tables'
  <1>1. handler[p].at = "found" /\ handler[p].session # None
    BY DEF Count, At, IInv, SessionIsKnown
  <1>2. /\ handler'[p].at \in {"refused", "admitted"} /\ handler'[p].session = handler[p].session
        /\ handler'[p].tunnel = handler[p].tunnel
        /\ \A q \in Players \ {p} : handler'[q] = handler[q]
    BY DEF Count, Goto, Admission, IInv, TypeOK, Handler
  <1>3. p \notin byID
    BY <1>1 DEF IInv, ListedAreWaited
  <1> QED BY <1>1, <1>2, <1>3, TablesKept DEF Count, table

(* The steps of a handler that go on without a tunnel. *)
LEMMA HandlerKeeps ==
    ASSUME IInv, LimitHolds, NEW p \in Players,
           Arrive(p) \/ Send(p) \/ SendFails(p) \/ TimesOut(p)
    PROVE  IInv' /\ LimitHolds'
  <1> USE DEF IInv
  <1>1. /\ active' = active /\ byID' = byID /\ ready' = ready /\ dial' = dial
        /\ \A q \in Players \ {p} : handler'[q] = handler[q]
        /\ handler'[p].tunnel = handler[p].tunnel
        /\ handler[p].at \in {"away", "listed", "waiting"}
    BY DEF Arrive, Send, SendFails, TimesOut, Goto, At, TypeOK, Handler, table, TunnelIsClaimed
  <1>2. \/ /\ handler[p].at = "away"
           /\ handler'[p].at \in {"gone", "found"}
           /\ handler'[p].session = None <=> handler'[p].at = "gone"
        \/ /\ handler[p].at # "away"
           /\ handler'[p].at \in {"waiting", "leaving"}
           /\ handler'[p].session = handler[p].session
    BY DEF Arrive, Send, SendFails, TimesOut, Goto, At, TypeOK, Handler
  <1>3. TypeOK'
    BY DEF Arrive, Send, SendFails, TimesOut, Goto, At, TypeOK, Handler, Points, table
  <1>4. p \in byID => handler[p].at # "away"
    BY DEF ListedAreWaited
  <1>5. Tables'
    BY <1>1, <1>2, <1>4, TablesKept DEF SessionIsKnown
  <1>6. CountIsExact' /\ LimitHolds'
    <2>1. CASE handler[p].at # "away"
      BY <1>1, <1>2, <2>1, GoesOn
    <2>2. CASE handler[p].at = "away"
      <3>1. \A s \in Sessions : Counted(s)' = Counted(s) /\ Admitted(s)' = Admitted(s)
        BY <1>1, <1>2, <2>2, NoneIsNew DEF Counted, Admitted, At, SessionIsKnown
      <3> QED BY <1>1, <3>1, SameCount, FewerAdmitted
    <2> QED BY <2>1, <2>2
  <1> QED BY <1>3, <1>5, <1>6 DEF Tables

(* Listing, taking and ending a tunnel, and taking the connection off the list. *)
LEMMA ListKeeps ==
    ASSUME IInv, LimitHolds, NEW p \in Players, List(p) PROVE IInv' /\ LimitHolds'
  <1> USE DEF IInv
  <1>1. /\ handler[p].at = "admitted" /\ handler'[p].at = "listed"
        /\ handler'[p].session = handler[p].session /\ handler'[p].tunnel = handler[p].tunnel
        /\ \A q \in Players \ {p} : handler'[q] = handler[q]
    BY DEF List, At, Goto, TypeOK, Handler
  <1>2. \A q \in Players : Claimed(q)' = Claimed(q)
    BY DEF List, Claimed
  <1>3. TypeOK'
    BY DEF List, Goto, TypeOK, Handler, Points
  <1>4. CountIsExact' /\ LimitHolds'
    BY <1>1, GoesOn DEF List
  <1>5. SessionIsKnown' /\ DialIsKnown'
    BY <1>1 DEF List, SessionIsKnown, DialIsKnown
  <1>6. ListedAreWaited' /\ ClaimIsUnique'
    BY <1>1, <1>2 DEF List, ListedAreWaited, ClaimIsUnique, TypeOK
  <1>7. TunnelIsClaimed'
    BY <1>1, <1>2 DEF List, TunnelIsClaimed, At
  <1> QED BY <1>3, <1>4, <1>5, <1>6, <1>7

LEMMA TakeTunnelKeeps ==
    ASSUME IInv, LimitHolds, NEW p \in Players, TakeTunnel(p) PROVE IInv' /\ LimitHolds'
  <1> USE DEF IInv
  <1>1. /\ handler[p].at = "waiting" /\ handler'[p].at = "proxying"
        /\ handler'[p].session = handler[p].session /\ handler'[p].tunnel = ready[p]
        /\ \A q \in Players \ {p} : handler'[q] = handler[q]
    BY DEF TakeTunnel, At, TypeOK, Handler
  <1>2. \A q \in Players : Claimed(q)' = Claimed(q)
    BY DEF TakeTunnel, Claimed
  <1>3. ready[p] \in Dials /\ ready[p] \in Claimed(p) /\ ready[p] # None
    BY DEF TakeTunnel, TypeOK, TunnelIsClaimed
  <1>4. TypeOK'
    BY <1>3 DEF TakeTunnel, TypeOK, Handler, Points, table
  <1>5. CountIsExact' /\ LimitHolds'
    BY <1>1, GoesOn DEF TakeTunnel
  <1>6. SessionIsKnown' /\ DialIsKnown'
    <2>1. SessionIsKnown' BY <1>1 DEF SessionIsKnown
    <2>2. DialIsKnown' BY DEF TakeTunnel, DialIsKnown
    <2> QED BY <2>1, <2>2
  <1>7. ListedAreWaited' /\ ClaimIsUnique'
    BY <1>1, <1>2, <1>3 DEF TakeTunnel, ListedAreWaited, ClaimIsUnique, TypeOK, table
  <1>8. TunnelIsClaimed'
    BY <1>1, <1>2, <1>3 DEF TakeTunnel, TunnelIsClaimed, At, TypeOK
  <1> QED BY <1>4, <1>5, <1>6, <1>7, <1>8

LEMMA ProxyEndsKeeps ==
    ASSUME IInv, LimitHolds, NEW p \in Players, ProxyEnds(p) PROVE IInv' /\ LimitHolds'
  <1> USE DEF IInv
  <1>1. PICK d \in Dials : handler[p].tunnel = d /\ d \in Claimed(p)
    BY DEF ProxyEnds, At, TypeOK, Handler, TunnelIsClaimed
  <1>2. /\ handler[p].at = "proxying" /\ handler'[p].at = "leaving"
        /\ handler'[p].session = handler[p].session /\ handler'[p].tunnel = None
        /\ \A q \in Players \ {p} : handler'[q] = handler[q]
    BY DEF ProxyEnds, At, TypeOK, Handler
  <1>3. dial' = [dial EXCEPT ![d].at = "closed"]
    BY <1>1 DEF ProxyEnds
  <1>4. dial[d].player = p /\ dial' \in [Dials -> Dial]
    BY <1>1, <1>3 DEF Claimed, TypeOK, Dial
  <1>5. /\ Claimed(p)' = Claimed(p) \ {d}
        /\ \A q \in Players \ {p} : Claimed(q)' = Claimed(q)
    BY <1>3, <1>4 DEF Claimed, TypeOK, Dial
  <1>6. TypeOK'
    <2>1. [handler[p] EXCEPT !.at = "leaving", !.tunnel = None] \in Handler
      BY DEF TypeOK, Handler, Points
    <2>2. handler' \in [Players -> Handler]
      BY <2>1 DEF ProxyEnds, TypeOK
    <2> QED BY <1>4, <2>2 DEF ProxyEnds, TypeOK, table
  <1>7. CountIsExact' /\ LimitHolds'
    BY <1>2, GoesOn DEF ProxyEnds
  <1>8. SessionIsKnown' /\ DialIsKnown'
    <2>1. SessionIsKnown'
      BY <1>2 DEF SessionIsKnown
    <2>2. /\ dial'[d].player = p /\ dial'[d].at = "closed"
          /\ \A e \in Dials \ {d} : dial'[e] = dial[e]
      BY <1>3, <1>4 DEF TypeOK, Dial
    <2> QED BY <2>1, <2>2, NoneIsNew DEF DialIsKnown
  <1>9. ListedAreWaited' /\ ClaimIsUnique'
    BY <1>2, <1>5 DEF ProxyEnds, ListedAreWaited, ClaimIsUnique, TypeOK, table
  <1>10. \A q \in Players \ {p} : d \notin Claimed(q)
    BY <1>4 DEF Claimed
  <1>11. ready[p] = None
    BY <1>2 DEF TunnelIsClaimed, At
  <1>12. \A e \in Dials \ {d} : dial'[e] = dial[e]
    BY <1>3 DEF TypeOK
  <1>13. \A q \in Players \ {p} : (ready'[q] = ready[q]) /\ (ready'[p] = None)
    BY <1>11 DEF ProxyEnds
  <1>14. TunnelIsClaimed'
    <2> SUFFICES ASSUME NEW q \in Players
                 PROVE  /\ ready'[q] # None => ready'[q] \in Claimed(q)' /\ dial'[ready'[q]].at = "open"
                        /\ handler'[q].at = "proxying" <=> handler'[q].tunnel # None
                        /\ handler'[q].at = "proxying" =>
                              /\ handler'[q].tunnel \in Claimed(q)'
                              /\ dial'[handler'[q].tunnel].at = "open"
                              /\ ready'[q] = None
      BY DEF TunnelIsClaimed, At
    <2>1. CASE q = p
      BY <1>2, <1>11, <2>1 DEF ProxyEnds
    <2>2. CASE q # p
      <3>1. /\ ready[q] # None => ready[q] \in Claimed(q) /\ ready[q] \in Dials \ {d} /\ dial[ready[q]].at = "open"
            /\ handler[q].at = "proxying" <=> handler[q].tunnel # None
            /\ handler[q].at = "proxying" =>
                  /\ handler[q].tunnel \in Claimed(q) /\ handler[q].tunnel \in Dials \ {d}
                  /\ dial[handler[q].tunnel].at = "open" /\ ready[q] = None
        BY <1>10, <2>2 DEF TunnelIsClaimed, At, Claimed
      <3>2. handler'[q] = handler[q] /\ Claimed(q)' = Claimed(q) /\ ready'[q] = ready[q]
        BY <1>2, <1>5, <2>2 DEF ProxyEnds
      <3> QED BY <1>12, <3>1, <3>2
    <2> QED BY <2>1, <2>2
  <1> QED BY <1>6, <1>7, <1>8, <1>9, <1>14

LEMMA UnlistKeeps ==
    ASSUME IInv, LimitHolds, NEW p \in Players, Unlist(p) PROVE IInv' /\ LimitHolds'
  <1> USE DEF IInv
  <1>1. /\ handler[p].at = "leaving" /\ handler'[p].at = "unlisted"
        /\ handler'[p].session = handler[p].session /\ handler'[p].tunnel = handler[p].tunnel
        /\ \A q \in Players \ {p} : handler'[q] = handler[q]
    BY DEF Unlist, At, Goto, TypeOK, Handler
  <1>2. \A q \in Players : Claimed(q)' = Claimed(q)
    BY DEF Unlist, Claimed
  <1>3. TypeOK'
    BY DEF Unlist, Goto, TypeOK, Handler, Points
  <1>4. CountIsExact' /\ LimitHolds'
    BY <1>1, GoesOn DEF Unlist
  <1>5. SessionIsKnown' /\ DialIsKnown'
    BY <1>1 DEF Unlist, SessionIsKnown, DialIsKnown
  <1>6. ListedAreWaited' /\ ClaimIsUnique'
    BY <1>1, <1>2 DEF Unlist, ListedAreWaited, ClaimIsUnique, TypeOK
  <1>7. TunnelIsClaimed'
    BY <1>1, <1>2 DEF Unlist, TunnelIsClaimed, At
  <1> QED BY <1>3, <1>4, <1>5, <1>6, <1>7

(* A handler that returns. *)
LEMMA ReturnKeeps ==
    ASSUME IInv, LimitHolds, NEW p \in Players, Refuse(p) \/ Release(p)
    PROVE  IInv' /\ LimitHolds'
  <1> USE DEF IInv
  <1>1. /\ handler[p].at \in {"refused", "unlisted"} /\ Return(p)
        /\ active' = [active EXCEPT ![Session(p)] = @ - 1]
        /\ UNCHANGED <<route, table, incoming, ready, dial>>
    BY DEF Refuse, Release, At
  <1>2. /\ CountIsExact' /\ active' \in [Sessions -> Nat]
        /\ \A s \in Sessions : Admitted(s)' \subseteq Admitted(s)
    BY <1>1, ReturnsPlace
  <1>3. LimitHolds'
    BY <1>2, FewerAdmitted
  <1>4. /\ handler'[p].session = None /\ handler'[p].at = "gone"
        /\ handler'[p].tunnel = handler[p].tunnel
        /\ \A q \in Players \ {p} : handler'[q] = handler[q]
        /\ handler' \in [Players -> Handler]
    BY <1>1 DEF Return, TypeOK, Handler, Points
  <1>5. TypeOK'
    BY <1>1, <1>2, <1>4 DEF TypeOK, table
  <1>6. p \notin byID
    BY <1>1 DEF ListedAreWaited
  <1>7. Tables'
    BY <1>1, <1>4, <1>6, TablesKept DEF table
  <1> QED BY <1>2, <1>3, <1>5, <1>7 DEF Tables

(* The steps of a data request. *)
LEMMA DialKeeps ==
    ASSUME IInv, LimitHolds, NEW d \in Dials,
           \/ ClaimExpired(d) \/ AcceptFails(d)
           \/ \E p \in Players : DialBack(d, p)
    PROVE  IInv' /\ LimitHolds'
  <1> USE DEF IInv
  <1>1. /\ handler' = handler /\ active' = active /\ ready' = ready /\ byID' = byID
        /\ route' = route /\ expired' = expired /\ incoming' \subseteq incoming
    BY DEF ClaimExpired, AcceptFails, DialBack, table
  <1>2. /\ dial' \in [Dials -> Dial] /\ \A e \in Dials \ {d} : dial'[e] = dial[e]
        /\ dial[d].at \in {"idle", "dialled", "accepting"}
        /\ dial'[d].at \in {"dialled", "closed"} /\ dial'[d].player \in Players
    BY DEF ClaimExpired, AcceptFails, DialBack, DialIsKnown, TypeOK, Dial
  <1>3. Tables'
    BY <1>1, <1>2, DialKept
  <1>4. TypeOK'
    BY <1>1, <1>2 DEF TypeOK
  <1> QED BY <1>1, <1>3, <1>4, NobodyMoves DEF Tables

LEMMA ClaimKeeps ==
    ASSUME IInv, LimitHolds, NEW d \in Dials, Claim(d) PROVE IInv' /\ LimitHolds'
  <1> USE DEF IInv
  <1>1. PICK p \in Players : dial[d].player = p /\ p \in byID /\ dial[d].at = "dialled"
    BY DEF Claim, TypeOK
  <1>2. /\ byID' = byID \ {p} /\ handler' = handler /\ ready' = ready /\ active' = active
        /\ route' = route /\ expired' = expired /\ incoming' = incoming
        /\ dial' \in [Dials -> Dial] /\ \A e \in Dials \ {d} : dial'[e] = dial[e]
        /\ dial'[d].player = p /\ dial'[d].at = "accepting"
    BY <1>1 DEF Claim, TypeOK, Dial
  <1>3. /\ Claimed(p) = {} /\ Claimed(p)' = {d}
        /\ \A q \in Players \ {p} : Claimed(q)' = Claimed(q)
    BY <1>1, <1>2 DEF Claimed, ListedAreWaited
  <1>4. handler[p].at \in {"listed", "waiting", "leaving"}
    BY <1>1 DEF ListedAreWaited
  <1>5. TypeOK'
    BY <1>2 DEF TypeOK
  <1>6. SessionIsKnown' /\ DialIsKnown'
    BY <1>2, NoneIsNew DEF SessionIsKnown, DialIsKnown
  <1>7. ListedAreWaited' /\ ClaimIsUnique'
    BY <1>2, <1>3, <1>4 DEF ListedAreWaited, ClaimIsUnique, TypeOK
  <1>8. \A q \in Players : ready[q] # d /\ handler[q].at = "proxying" => handler[q].tunnel # d
    BY <1>1 DEF TunnelIsClaimed, At, Claimed
  <1>9. \A q \in Players : ready[q] # None => ready[q] # d
    BY <1>1 DEF TunnelIsClaimed, Claimed
  <1>10. TunnelIsClaimed'
    <2> SUFFICES ASSUME NEW q \in Players
                 PROVE  /\ ready[q] # None => ready[q] \in Claimed(q)' /\ dial'[ready[q]].at = "open"
                        /\ handler[q].at = "proxying" <=> handler[q].tunnel # None
                        /\ handler[q].at = "proxying" =>
                              /\ handler[q].tunnel \in Claimed(q)'
                              /\ dial'[handler[q].tunnel].at = "open"
                              /\ ready[q] = None
      BY <1>2 DEF TunnelIsClaimed, At
    <2>1. /\ ready[q] # None => ready[q] \in Claimed(q) /\ ready[q] \in Dials \ {d} /\ dial[ready[q]].at = "open"
          /\ handler[q].at = "proxying" <=> handler[q].tunnel # None
          /\ handler[q].at = "proxying" =>
                /\ handler[q].tunnel \in Claimed(q) /\ handler[q].tunnel \in Dials \ {d}
                /\ dial[handler[q].tunnel].at = "open" /\ ready[q] = None
      BY <1>1 DEF TunnelIsClaimed, At, Claimed
    <2> QED BY <1>2, <1>3, <2>1
  <1> QED BY <1>2, <1>5, <1>6, <1>7, <1>10, NobodyMoves

LEMMA HandOverKeeps ==
    ASSUME IInv, LimitHolds, NEW d \in Dials, HandOver(d) PROVE IInv' /\ LimitHolds'
  <1> USE DEF IInv
  <1>1. PICK p \in Players : dial[d].player = p /\ dial[d].at = "accepting"
    BY DEF HandOver, DialIsKnown, TypeOK, Dial
  <1>2. Claimed(p) = {d} /\ \A q \in Players \ {p} : d \notin Claimed(q)
    BY <1>1 DEF Claimed, ClaimIsUnique
  <1>3. ready[p] = None /\ handler[p].at # "proxying"
    BY <1>1, <1>2 DEF TunnelIsClaimed, At
  <1>4. /\ ready' = [ready EXCEPT ![p] = d] /\ dial' = [dial EXCEPT ![d].at = "open"]
        /\ UNCHANGED <<route, active, handler, table, incoming>>
    BY <1>1, <1>3 DEF HandOver
  <1>5. /\ dial' \in [Dials -> Dial] /\ \A e \in Dials \ {d} : dial'[e] = dial[e]
        /\ dial'[d].player = p /\ dial'[d].at = "open"
        /\ ready'[p] = d /\ \A q \in Players \ {p} : ready'[q] = ready[q]
    BY <1>1, <1>4 DEF TypeOK, Dial
  <1>6. \A q \in Players : Claimed(q)' = Claimed(q)
    BY <1>1, <1>5 DEF Claimed
  <1>7. TypeOK'
    BY <1>4, <1>5 DEF TypeOK, table
  <1>8. SessionIsKnown' /\ DialIsKnown'
    BY <1>4, <1>5, NoneIsNew DEF SessionIsKnown, DialIsKnown
  <1>9. ListedAreWaited' /\ ClaimIsUnique'
    BY <1>4, <1>6 DEF ListedAreWaited, ClaimIsUnique, TypeOK, table
  <1>10. TunnelIsClaimed'
    <2> SUFFICES ASSUME NEW q \in Players
                 PROVE  /\ ready'[q] # None => ready'[q] \in Claimed(q)' /\ dial'[ready'[q]].at = "open"
                        /\ handler[q].at = "proxying" <=> handler[q].tunnel # None
                        /\ handler[q].at = "proxying" =>
                              /\ handler[q].tunnel \in Claimed(q)'
                              /\ dial'[handler[q].tunnel].at = "open"
                              /\ ready'[q] = None
      BY <1>4 DEF TunnelIsClaimed, At
    <2>1. CASE q = p
      BY <1>2, <1>3, <1>5, <1>6, <2>1 DEF TunnelIsClaimed, At
    <2>2. CASE q # p
      BY <1>2, <1>4, <1>5, <1>6, <2>2 DEF TunnelIsClaimed, At, Claimed
    <2> QED BY <2>1, <2>2
  <1> QED BY <1>4, <1>7, <1>8, <1>9, <1>10, NobodyMoves

(* Routes, messages and the clean-up. *)
LEMMA SweepKeeps ==
    ASSUME IInv, LimitHolds,
           \/ \E s \in Sessions : Route(s)
           \/ Unroute \/ Sweep
           \/ \E p \in Players : Expire(p) \/ MissesMessage(p)
    PROVE  IInv' /\ LimitHolds'
  <1> USE DEF IInv
  <1>1. /\ active' = active /\ handler' = handler /\ ready' = ready /\ dial' = dial
        /\ byID' \subseteq byID
    BY DEF Route, Unroute, Sweep, Expire, MissesMessage, table
  <1>2. TypeOK'
    BY <1>1 DEF Route, Unroute, Sweep, Expire, MissesMessage, table, TypeOK
  <1>3. \A q \in Players : Claimed(q)' = Claimed(q)
    BY <1>1 DEF Claimed
  <1>4. SessionIsKnown' /\ DialIsKnown' /\ ClaimIsUnique' /\ TunnelIsClaimed'
    BY <1>1, <1>3 DEF SessionIsKnown, DialIsKnown, ClaimIsUnique, TunnelIsClaimed, At
  <1>5. ListedAreWaited'
    BY <1>1, <1>3 DEF ListedAreWaited, TypeOK
  <1> QED BY <1>1, <1>2, <1>4, <1>5, NobodyMoves

-----------------------------------------------------------------------------
LEMMA Initially == Init => IInv /\ LimitHolds
  <1> SUFFICES ASSUME Init PROVE IInv /\ LimitHolds
    OBVIOUS
  <1>1. TypeOK
    BY DEF Init, TypeOK, Handler, Dial, Points
  <1>2. /\ \A s \in Sessions : Counted(s) = {} /\ Admitted(s) = {}
        /\ \A p \in Players : Claimed(p) = {}
    BY NoneIsNew DEF Init, Counted, Admitted, Claimed
  <1>3. CountIsExact /\ LimitHolds
    BY <1>2, FS_EmptySet, MaxAssumption DEF CountIsExact, LimitHolds, Init
  <1>4. SessionIsKnown /\ DialIsKnown /\ ListedAreWaited /\ ClaimIsUnique /\ TunnelIsClaimed
    BY <1>2 DEF Init, SessionIsKnown, DialIsKnown, ListedAreWaited, ClaimIsUnique, TunnelIsClaimed, At
  <1> QED BY <1>1, <1>3, <1>4 DEF IInv

LEMMA StepKeeps == IInv /\ LimitHolds /\ [Next]_vars => IInv' /\ LimitHolds'
  <1> SUFFICES ASSUME IInv, LimitHolds, [Next]_vars PROVE IInv' /\ LimitHolds'
    OBVIOUS
  <1>1. ASSUME NEW p \in Players, HandlerStep(p) PROVE IInv' /\ LimitHolds'
    <2>1. ASSUME Count(p) PROVE IInv' /\ LimitHolds'
      BY <2>1, CountKeeps, CountTables DEF IInv, Tables
    <2> QED BY <1>1, <2>1, HandlerKeeps, ListKeeps, TakeTunnelKeeps, UnlistKeeps, ReturnKeeps
            DEF HandlerStep
  <1>2. ASSUME NEW d \in Dials, DialStep(d) PROVE IInv' /\ LimitHolds'
    BY <1>2, ClaimKeeps, HandOverKeeps, DialKeeps DEF DialStep
  <1>3. CASE UNCHANGED vars
    <2>1. \A q \in Players : Claimed(q)' = Claimed(q)
      BY <1>3 DEF vars, Claimed
    <2>2. Tables' /\ TypeOK'
      BY <1>3, <2>1 DEF vars, table, IInv, Tables, TypeOK, SessionIsKnown, DialIsKnown,
                        ListedAreWaited, ClaimIsUnique, TunnelIsClaimed, At
    <2> QED BY <1>3, <2>2, NobodyMoves DEF vars, IInv, Tables
  <1>4. CASE Next
    BY <1>1, <1>2, <1>4, HandlerKeeps, ProxyEndsKeeps, DialKeeps, SweepKeeps DEF Next
  <1> QED BY <1>3, <1>4

(* The counter of a session is the number of handlers that will take one off it, and
   claims, tunnels and pending connections agree, whatever the interleaving of
   handlePlayer, data and expirePending. *)
THEOREM TunnelInvariance == Spec => [](IInv /\ LimitHolds)
  BY Initially, StepKeeps, PTL DEF Spec

(* A session never carries more than maxConnections players. *)
THEOREM LimitIsKept == Spec => []LimitHolds
  BY TunnelInvariance, PTL

(* A player's tunnel is its own, and its secret opens no other. *)
THEOREM TunnelsAreOwn == Spec => []TunnelIsOwn
  <1>1. IInv => TunnelIsOwn
    BY DEF IInv, TunnelIsOwn, TunnelIsClaimed, ClaimIsUnique
  <1> QED BY <1>1, TunnelInvariance, PTL

(* A handler that returned left no pending connection and no place taken. *)
THEOREM NothingStays == Spec => []NothingIsLeft
  <1>1. IInv => NothingIsLeft
    <2> SUFFICES ASSUME IInv PROVE NothingIsLeft
      OBVIOUS
    <2>1. \A p \in Players : At(p, "gone") => p \notin byID
      BY DEF IInv, ListedAreWaited, At
    <2>2. ASSUME NEW s \in Sessions, \A p \in Players : handler[p].session = s => At(p, "found")
          PROVE  active[s] = 0
      <3>1. Counted(s) = {}
        BY <2>2 DEF Counted
      <3> QED BY <3>1, FS_EmptySet DEF IInv, CountIsExact
    <2> QED BY <2>1, <2>2 DEF NothingIsLeft
  <1> QED BY <1>1, TunnelInvariance, PTL

-----------------------------------------------------------------------------
(* PlayerSlots is implemented. *)

(* One player's handler moves. *)
LEMMA OneMoves ==
    ASSUME NEW p \in Players, \A q \in Players \ {p} : handler'[q] = handler[q]
    PROVE  /\ [q \in Players |-> Stage(q)]' = [[q \in Players |-> Stage(q)] EXCEPT ![p] = Stage(p)']
           /\ [q \in Players |-> Slot(q)]' = [[q \in Players |-> Slot(q)] EXCEPT ![p] = Slot(p)']
           /\ [q \in Players |-> handler[q].tunnel]' =
                  [[q \in Players |-> handler[q].tunnel] EXCEPT ![p] = handler'[p].tunnel]
  <1>1. \A q \in Players \ {p} : Stage(q)' = Stage(q) /\ Slot(q)' = Slot(q)
    BY DEF Stage, Slot, Session
  <1> QED BY <1>1

(* Nothing changes for a player whose stage, place and tunnel stay. *)
LEMMA StaysWhole ==
    ASSUME NEW p \in Players, \A q \in Players \ {p} : handler'[q] = handler[q],
           Stage(p)' = Stage(p), Slot(p)' = Slot(p), handler'[p].tunnel = handler[p].tunnel
    PROVE  UNCHANGED <<[q \in Players |-> Stage(q)], [q \in Players |-> Slot(q)],
                       [q \in Players |-> handler[q].tunnel]>>
  <1>1. \A q \in Players : Stage(q)' = Stage(q) /\ Slot(q)' = Slot(q) /\ handler'[q].tunnel = handler[q].tunnel
    BY DEF Stage, Slot, Session
  <1> QED BY <1>1

LEMMA HandlersStay ==
    ASSUME handler' = handler
    PROVE  UNCHANGED <<[q \in Players |-> Stage(q)], [q \in Players |-> Slot(q)],
                       [q \in Players |-> handler[q].tunnel]>>
  BY DEF Stage, Slot, Session

LEMMA DialsStay ==
    ASSUME dial' = dial
    PROVE  UNCHANGED <<[d \in Dials |-> dial[d].player], {d \in Dials : dial[d].at = "closed"}>>
  OBVIOUS

(* The abstract specification counts as this one does. *)
LEMMA SameCardinality == \A S : Slots!Cardinality(S) = Cardinality(S)
  BY DEF Slots!Cardinality, Cardinality, Slots!IsFiniteSet, IsFiniteSet

(* A place in a session belongs to a player the session admitted. *)
LEMMA SlotsAreAdmitted ==
    ASSUME IInv, NEW s \in Sessions
    PROVE  {q \in Players : [r \in Players |-> Slot(r)][q] = s} = Admitted(s)
  <1>1. \A q \in Players : Slot(q) = s <=> q \in Admitted(s)
    BY NoneIsNew DEF Slot, Stage, Session, Admitted, Counted, At, IInv, SessionIsKnown, TypeOK, Handler, Points
  <1>2. Admitted(s) \subseteq Players BY DEF Admitted, Counted
  <1> QED BY <1>1, <1>2

(* The handler moves within a stage. *)
LEMMA MovesWithin ==
    ASSUME IInv, NEW p \in Players, Send(p) \/ List(p) \/ Unlist(p)
    PROVE  UNCHANGED Slots!vars
  <1>1. /\ dial' = dial /\ \A q \in Players \ {p} : handler'[q] = handler[q]
        /\ handler'[p].session = handler[p].session /\ handler'[p].tunnel = handler[p].tunnel
        /\ \/ handler[p].at = "listed" /\ handler'[p].at = "waiting"
           \/ handler[p].at = "admitted" /\ handler'[p].at = "listed"
           \/ handler[p].at = "leaving" /\ handler'[p].at = "unlisted"
    BY DEF Send, List, Unlist, At, Goto, IInv, TypeOK, Handler
  <1>2. Stage(p)' = Stage(p) /\ Slot(p)' = Slot(p)
    BY <1>1 DEF Stage, Slot, Session
  <1> QED BY <1>1, <1>2, StaysWhole, DialsStay DEF Slots!vars

LEMMA ArriveRefines ==
    ASSUME IInv, NEW p \in Players, Arrive(p)
    PROVE  Slots!TurnAway(p) \/ UNCHANGED Slots!vars
  <1>1. /\ dial' = dial /\ \A q \in Players \ {p} : handler'[q] = handler[q]
        /\ handler[p].at = "away" /\ handler'[p].at \in {"gone", "found"}
        /\ handler'[p].at = "gone" => handler'[p].session = None
        /\ handler[p].tunnel = None /\ handler'[p].tunnel = None
    BY DEF Arrive, At, IInv, TypeOK, Handler, TunnelIsClaimed
  <1>2. Stage(p) = "new" /\ Slot(p) = None /\ Slot(p)' = None
    BY <1>1 DEF Stage, Slot, Session
  <1>3. CASE handler'[p].at = "found"
    <2>1. Stage(p)' = Stage(p) BY <1>2, <1>3 DEF Stage
    <2> QED BY <1>1, <1>2, <2>1, StaysWhole, DialsStay DEF Slots!vars
  <1>4. CASE handler'[p].at = "gone"
    <2>1. Stage(p)' = "gone" BY <1>4 DEF Stage
    <2>2. UNCHANGED <<[q \in Players |-> Slot(q)], [q \in Players |-> handler[q].tunnel]>>
      BY <1>1, <1>2, OneMoves
    <2> QED BY <1>1, <1>2, <2>1, <2>2, OneMoves, DialsStay DEF Slots!TurnAway, Slots!Passes
  <1> QED BY <1>1, <1>3, <1>4

(* Counting: the place is free when the handler finds that it did not pass the limit. *)
LEMMA CountRefines ==
    ASSUME IInv, LimitHolds, NEW p \in Players, Count(p)
    PROVE  (\E s \in Sessions : Slots!LetIn(p, s)) \/ UNCHANGED Slots!vars
  <1> USE DEF IInv
  <1>1. PICK s \in Sessions : handler[p].session = s
    BY DEF Count, At, SessionIsKnown, TypeOK, Handler
  <1>2. /\ dial' = dial /\ \A q \in Players \ {p} : handler'[q] = handler[q]
        /\ handler[p].at = "found" /\ handler'[p].session = s
        /\ handler'[p].tunnel = handler[p].tunnel
        /\ handler'[p].at = Admission(active[s] + 1)
    BY <1>1 DEF Count, Session, At, Goto, TypeOK, Handler
  <1>3. Stage(p) = "new" /\ Slot(p) = None
    BY <1>2 DEF Stage, Slot
  <1>4. CASE handler'[p].at = "refused"
    <2>1. Stage(p)' = Stage(p) /\ Slot(p)' = Slot(p)
      BY <1>3, <1>4 DEF Stage, Slot
    <2> QED BY <1>2, <2>1, StaysWhole, DialsStay DEF Slots!vars
  <1>5. CASE handler'[p].at = "admitted"
    <2>1. Stage(p)' = "waits" /\ Slot(p)' = s
      BY <1>2, <1>5 DEF Stage, Slot, Session
    <2>2. active[s] \in Nat /\ active[s] < Max
      BY <1>2, <1>5, MaxAssumption DEF Admission, TypeOK
    <2>3. /\ Cardinality(Admitted(s)) <= Cardinality(Counted(s))
          /\ Cardinality(Admitted(s)) \in Nat /\ Cardinality(Counted(s)) \in Nat
      BY CountedFinite, FS_Subset, FS_CardinalityType
    <2>4. Cardinality(Admitted(s)) < Max
      BY <2>2, <2>3, MaxAssumption DEF CountIsExact
    <2>5. Slots!Cardinality({q \in Players : [r \in Players |-> Slot(r)][q] = s}) < Max
      BY <2>4, SlotsAreAdmitted, SameCardinality
    <2>6. UNCHANGED <<[q \in Players |-> handler[q].tunnel], [d \in Dials |-> dial[d].player],
                      {d \in Dials : dial[d].at = "closed"}>>
      BY <1>2, DialsStay
    <2>7. /\ [q \in Players |-> Stage(q)]' = [[q \in Players |-> Stage(q)] EXCEPT ![p] = "waits"]
          /\ [q \in Players |-> Slot(q)]' = [[q \in Players |-> Slot(q)] EXCEPT ![p] = s]
      BY <1>2, <2>1, OneMoves
    <2>8. Slots!Passes(p, "new", "waits")
      BY <1>3, <2>7 DEF Slots!Passes
    <2>9. Slots!LetIn(p, s)
      BY <2>5, <2>6, <2>7, <2>8, Zenon DEF Slots!LetIn
    <2> QED BY <2>9
  <1> QED BY <1>2, <1>4, <1>5 DEF Admission

LEMMA LeavesRefine ==
    ASSUME IInv, NEW p \in Players
    PROVE  /\ Refuse(p) => Slots!TurnAway(p)
           /\ Release(p) => Slots!Leave(p)
           /\ SendFails(p) \/ TimesOut(p) => Slots!GiveUp(p)
  <1> USE DEF IInv
  <1>1. ASSUME Refuse(p) PROVE Slots!TurnAway(p)
    <2>1. /\ dial' = dial /\ \A q \in Players \ {p} : handler'[q] = handler[q]
          /\ handler[p].at = "refused" /\ handler'[p].at = "gone" /\ handler'[p].session = None
          /\ handler'[p].tunnel = handler[p].tunnel
      BY <1>1 DEF Refuse, Return, At, TypeOK, Handler
    <2>2. Stage(p) = "new" /\ Stage(p)' = "gone" /\ Slot(p)' = Slot(p)
      BY <2>1 DEF Stage, Slot, Session
    <2>3. UNCHANGED <<[q \in Players |-> Slot(q)], [q \in Players |-> handler[q].tunnel]>>
      BY <2>1, <2>2, OneMoves
    <2> QED BY <2>1, <2>2, <2>3, OneMoves, DialsStay DEF Slots!TurnAway, Slots!Passes
  <1>2. ASSUME Release(p) PROVE Slots!Leave(p)
    <2>1. /\ dial' = dial /\ \A q \in Players \ {p} : handler'[q] = handler[q]
          /\ handler[p].at = "unlisted" /\ handler'[p].at = "gone" /\ handler'[p].session = None
          /\ handler'[p].tunnel = handler[p].tunnel
      BY <1>2 DEF Release, Return, At, TypeOK, Handler
    <2>2. Stage(p) = "leaves" /\ Stage(p)' = "gone" /\ Slot(p)' = None
      BY <2>1 DEF Stage, Slot, Session
    <2>3. UNCHANGED [q \in Players |-> handler[q].tunnel]
      BY <2>1
    <2> QED BY <2>1, <2>2, <2>3, OneMoves, DialsStay DEF Slots!Leave, Slots!Passes
  <1>3. ASSUME SendFails(p) \/ TimesOut(p) PROVE Slots!GiveUp(p)
    <2>1. /\ dial' = dial /\ \A q \in Players \ {p} : handler'[q] = handler[q]
          /\ handler[p].at \in {"listed", "waiting"} /\ handler'[p].at = "leaving"
          /\ handler'[p].session = handler[p].session /\ handler'[p].tunnel = handler[p].tunnel
      BY <1>3 DEF SendFails, TimesOut, At, Goto, TypeOK, Handler
    <2>2. Stage(p) = "waits" /\ Stage(p)' = "leaves" /\ Slot(p)' = Slot(p)
      BY <2>1 DEF Stage, Slot, Session
    <2>3. UNCHANGED <<[q \in Players |-> Slot(q)], [q \in Players |-> handler[q].tunnel]>>
      BY <2>1, <2>2, OneMoves
    <2> QED BY <2>1, <2>2, <2>3, OneMoves, DialsStay DEF Slots!GiveUp, Slots!Passes
  <1> QED BY <1>1, <1>2, <1>3

(* The socket in a player's channel was dialled for it and is open. *)
LEMMA TakeTunnelRefines ==
    ASSUME IInv, NEW p \in Players, TakeTunnel(p)
    PROVE  \E d \in Dials : Slots!Connect(p, d)
  <1> USE DEF IInv
  <1>1. PICK d \in Dials : d = ready[p] /\ d \in Claimed(p) /\ dial[d].at = "open"
    BY DEF TakeTunnel, TypeOK, TunnelIsClaimed
  <1>2. /\ dial' = dial /\ \A q \in Players \ {p} : handler'[q] = handler[q]
        /\ handler[p].at = "waiting" /\ handler'[p].at = "proxying" /\ handler'[p].tunnel = d
        /\ handler'[p].session = handler[p].session
    BY <1>1 DEF TakeTunnel, At, TypeOK, Handler
  <1>3. Stage(p) = "waits" /\ Stage(p)' = "plays" /\ Slot(p)' = Slot(p)
    BY <1>2 DEF Stage, Slot, Session
  <1>4. UNCHANGED [q \in Players |-> Slot(q)]
    BY <1>2, <1>3, OneMoves
  <1>5. dial[d].player = p BY <1>1 DEF Claimed
  <1>6. Slots!Connect(p, d)
    BY <1>1, <1>2, <1>3, <1>4, <1>5, OneMoves, DialsStay DEF Slots!Connect, Slots!Passes
  <1> QED BY <1>6

LEMMA ProxyEndsRefines ==
    ASSUME IInv, NEW p \in Players, ProxyEnds(p) PROVE Slots!HangUp(p)
  <1> USE DEF IInv
  <1>1. PICK d \in Dials : handler[p].tunnel = d /\ d \in Claimed(p)
    BY DEF ProxyEnds, At, TypeOK, Handler, TunnelIsClaimed
  <1>2. /\ handler[p].at = "proxying" /\ handler'[p].at = "leaving"
        /\ handler'[p].session = handler[p].session /\ handler'[p].tunnel = None
        /\ \A q \in Players \ {p} : handler'[q] = handler[q]
    BY DEF ProxyEnds, At, TypeOK, Handler
  <1>3. dial' = [dial EXCEPT ![d].at = "closed"]
    BY <1>1 DEF ProxyEnds
  <1>4. /\ dial'[d].at = "closed" /\ dial'[d].player = dial[d].player
        /\ \A e \in Dials \ {d} : dial'[e] = dial[e]
    BY <1>3 DEF TypeOK, Dial
  <1>5. {e \in Dials : dial[e].at = "closed"}' = {e \in Dials : dial[e].at = "closed"} \cup {d}
    BY <1>4
  <1>6. UNCHANGED [e \in Dials |-> dial[e].player]
    BY <1>4
  <1>7. Stage(p) = "plays" /\ Stage(p)' = "leaves" /\ Slot(p)' = Slot(p)
    BY <1>2 DEF Stage, Slot, Session
  <1>8. UNCHANGED [q \in Players |-> Slot(q)]
    BY <1>2, <1>7, OneMoves
  <1>9. [q \in Players |-> handler[q].tunnel][p] = d
    BY <1>1
  <1> QED BY <1>2, <1>5, <1>6, <1>7, <1>8, <1>9, OneMoves DEF Slots!HangUp, Slots!Passes

(* A data request: dialled once, and closed only while it is no player's tunnel. *)
LEMMA DialRefines ==
    ASSUME IInv, NEW d \in Dials, NEW p \in Players, DialBack(d, p) PROVE Slots!Dial(d, p)
  <1> USE DEF IInv
  <1>1. /\ dial' = [dial EXCEPT ![d] = [at |-> "dialled", player |-> p]] /\ handler' = handler
        /\ dial[d].at = "idle"
    BY DEF DialBack
  <1>2. /\ dial'[d].at = "dialled" /\ dial'[d].player = p /\ dial[d].player = None
        /\ \A e \in Dials \ {d} : dial'[e] = dial[e]
    BY <1>1 DEF TypeOK, DialIsKnown
  <1>3. [e \in Dials |-> dial[e].player]' = [[e \in Dials |-> dial[e].player] EXCEPT ![d] = p]
    BY <1>2
  <1>4. UNCHANGED {e \in Dials : dial[e].at = "closed"}
    BY <1>1, <1>2
  <1> QED BY <1>1, <1>2, <1>3, <1>4, HandlersStay DEF Slots!Dial

LEMMA DialStepRefines ==
    ASSUME IInv, NEW d \in Dials, DialStep(d)
    PROVE  Slots!Shut(d) \/ UNCHANGED Slots!vars
  <1> USE DEF IInv
  <1>1. /\ handler' = handler /\ dial[d].at \in {"dialled", "accepting"}
        /\ \E l \in {"accepting", "open", "closed"} : dial' = [dial EXCEPT ![d].at = l]
    BY DEF DialStep, Claim, ClaimExpired, HandOver, AcceptFails
  <1>2. /\ dial'[d].at \in {"accepting", "open", "closed"} /\ dial'[d].player = dial[d].player
        /\ \A e \in Dials \ {d} : dial'[e] = dial[e]
    BY <1>1 DEF TypeOK, Dial
  <1>3. UNCHANGED [e \in Dials |-> dial[e].player]
    BY <1>2
  <1>4. CASE dial'[d].at = "closed"
    <2>1. {e \in Dials : dial[e].at = "closed"}' = {e \in Dials : dial[e].at = "closed"} \cup {d}
      BY <1>2, <1>4
    <2>2. \A p \in Players : handler[p].tunnel # d
      BY <1>1, NoneIsNew DEF TunnelIsClaimed
    <2>3. \A p \in Players : [q \in Players |-> handler[q].tunnel][p] # d
      BY <2>2
    <2> QED BY <1>1, <1>3, <2>1, <2>3, HandlersStay DEF Slots!Shut
  <1>5. CASE dial'[d].at # "closed"
    <2>1. UNCHANGED {e \in Dials : dial[e].at = "closed"}
      BY <1>1, <1>2, <1>5
    <2> QED BY <1>1, <1>3, <2>1, HandlersStay DEF Slots!vars
  <1> QED BY <1>4, <1>5

LEMMA SlotsInit == Init => Slots!Init
  <1> SUFFICES ASSUME Init PROVE Slots!Init
    OBVIOUS
  <1>1. \A p \in Players : Stage(p) = "new" /\ Slot(p) = None /\ handler[p].tunnel = None
    BY DEF Init, Stage, Slot
  <1>2. \A d \in Dials : dial[d].player = None /\ dial[d].at # "closed"
    BY DEF Init
  <1> QED BY <1>1, <1>2 DEF Slots!Init

LEMMA SlotsStep == IInv /\ LimitHolds /\ [Next]_vars => [Slots!Next]_(Slots!vars)
  <1> SUFFICES ASSUME IInv, LimitHolds, [Next]_vars PROVE Slots!Next \/ UNCHANGED Slots!vars
    OBVIOUS
  <1>1. ASSUME NEW p \in Players, Arrive(p) \/ HandlerStep(p) \/ ProxyEnds(p)
        PROVE  Slots!Next \/ UNCHANGED Slots!vars
    BY <1>1, ArriveRefines, CountRefines, LeavesRefine, MovesWithin, TakeTunnelRefines, ProxyEndsRefines
       DEF HandlerStep, Slots!Next
  <1>2. ASSUME NEW d \in Dials, DialStep(d) \/ \E p \in Players : DialBack(d, p)
        PROVE  Slots!Next \/ UNCHANGED Slots!vars
    BY <1>2, DialRefines, DialStepRefines DEF Slots!Next
  <1>3. ASSUME \/ \E s \in Sessions : Route(s)
               \/ Unroute \/ Sweep \/ UNCHANGED vars
               \/ \E p \in Players : Expire(p) \/ MissesMessage(p)
        PROVE  UNCHANGED Slots!vars
    <2>1. handler' = handler /\ dial' = dial
      BY <1>3 DEF Route, Unroute, Sweep, Expire, MissesMessage, vars
    <2> QED BY <2>1, HandlersStay, DialsStay DEF Slots!vars
  <1> QED BY <1>1, <1>2, <1>3 DEF Next

(* The relay implements PlayerSlots: a handler that counted itself before it looked at
   the limit lets its player into a free place or not at all, and the socket it takes
   from its channel was dialled for its player and is nobody else's. *)
THEOREM ImplementsPlayerSlots == Spec => SlotsSpec
  <1>1. Spec => Slots!Init BY SlotsInit, PTL DEF Spec
  <1>2. Spec => [][Slots!Next]_(Slots!vars) BY SlotsStep, TunnelInvariance, PTL DEF Spec
  <1> QED BY <1>1, <1>2, PTL DEF SlotsSpec, Slots!Spec
=============================================================================
