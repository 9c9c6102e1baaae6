-------------------------- MODULE Databases_proofs --------------------------
(***************************************************************************)
(* Proofs about Databases: the invariants that say what a creation leaves, *)
(* and that no data are lost unasked, hold for any number of databases and *)
(* calls.                                                                  *)
(***************************************************************************)
EXTENDS Databases, TLAPS

(* The parts of the invariant, to be carried one by one. *)
LEMMA Kept ==
    ASSUME MakerInv', VolumeInv' PROVE DataIsKept'
BY DEF MakerInv, VolumeInv, DataIsKept, Listed

LEMMA InitInv == Init => IInv
<1> SUFFICES ASSUME Init PROVE IInv OBVIOUS
<1>1. TypeOK
  BY DEF Init, TypeOK, States, Statuses, Labels, Results, CallTypes, Idle, Steps
<1>2. MakerInv /\ VolumeInv /\ RollbackIsComplete /\ DataIsKept
  BY DEF Init, MakerInv, VolumeInv, RollbackIsComplete, DataIsKept, Listed
<1>3. CallInv /\ LockInv /\ RowInv
  BY DEF Init, CallInv, LockInv, RowInv, Idle
<1> QED BY <1>1, <1>2, <1>3 DEF IInv

(* The steps of a creation. *)
LEMMA AskInv ==
    ASSUME IInv, NEW d \in Dbs, Ask(d) PROVE IInv'
<1> USE DEF IInv, Ask, vars, docker, rows, makers, Goes, Proceed, Return, Cut, Still
<1>1. TypeOK'
  BY DEF TypeOK, States, Statuses, Labels, Results, CallTypes, Steps, Idle, Listed, Seen
<1>2. MakerInv'
  BY DEF TypeOK, MakerInv, CallInv, Listed
<1>3. CallInv'
  BY NoneAssumption DEF TypeOK, CallInv, CallTypes, Idle, MakerInv, Listed
<1>4. LockInv'
  BY CallsAssumption DEF TypeOK, LockInv, CallTypes, Idle
<1>5. RowInv'
  BY CallsAssumption, NoneAssumption DEF TypeOK, RowInv, MakerInv, CallInv, LockInv, CallTypes, Idle
<1>6. VolumeInv'
  BY DEF TypeOK, VolumeInv, MakerInv, CallInv
<1>7. RollbackIsComplete'
  BY DEF TypeOK, RollbackIsComplete, MakerInv, CallInv
<1> QED BY <1>1, <1>2, <1>3, <1>4, <1>5, <1>6, <1>7, Kept

LEMMA EnterMakerInv ==
    ASSUME IInv, NEW d \in Dbs, EnterMaker(d) PROVE IInv'
<1> USE DEF IInv, EnterMaker, vars, docker, rows, makers, Goes, Proceed, Return, Cut, Still
<1>1. TypeOK'
  BY DEF TypeOK, States, Statuses, Labels, Results, CallTypes, Steps, Idle, Listed, Seen
<1>2. MakerInv'
  BY DEF TypeOK, MakerInv, CallInv, Listed
<1>3. CallInv'
  BY NoneAssumption DEF TypeOK, CallInv, CallTypes, Idle, MakerInv, Listed
<1>4. LockInv'
  BY CallsAssumption DEF TypeOK, LockInv, CallTypes, Idle
<1>5. RowInv'
  BY CallsAssumption, NoneAssumption DEF TypeOK, RowInv, MakerInv, CallInv, LockInv, CallTypes, Idle
<1>6. VolumeInv'
  BY DEF TypeOK, VolumeInv, MakerInv, CallInv
<1>7. RollbackIsComplete'
  BY DEF TypeOK, RollbackIsComplete, MakerInv, CallInv
<1> QED BY <1>1, <1>2, <1>3, <1>4, <1>5, <1>6, <1>7, Kept

LEMMA CancelInv ==
    ASSUME IInv, NEW d \in Dbs, Cancel(d) PROVE IInv'
<1> USE DEF IInv, Cancel, vars, docker, rows, makers, Goes, Proceed, Return, Cut, Still
<1>1. TypeOK'
  BY DEF TypeOK, States, Statuses, Labels, Results, CallTypes, Steps, Idle, Listed, Seen
<1>2. MakerInv'
  BY DEF TypeOK, MakerInv, CallInv, Listed
<1>3. CallInv'
  BY NoneAssumption DEF TypeOK, CallInv, CallTypes, Idle, MakerInv, Listed
<1>4. LockInv'
  BY CallsAssumption DEF TypeOK, LockInv, CallTypes, Idle
<1>5. RowInv'
  BY CallsAssumption, NoneAssumption DEF TypeOK, RowInv, MakerInv, CallInv, LockInv, CallTypes, Idle
<1>6. VolumeInv'
  BY DEF TypeOK, VolumeInv, MakerInv, CallInv
<1>7. RollbackIsComplete'
  BY DEF TypeOK, RollbackIsComplete, MakerInv, CallInv
<1> QED BY <1>1, <1>2, <1>3, <1>4, <1>5, <1>6, <1>7, Kept

LEMMA PullInv ==
    ASSUME IInv, NEW d \in Dbs, Pull(d) PROVE IInv'
<1> USE DEF IInv, Pull, vars, docker, rows, makers, Goes, Proceed, Return, Cut, Still
<1>1. TypeOK'
  BY DEF TypeOK, States, Statuses, Labels, Results, CallTypes, Steps, Idle, Listed, Seen
<1>2. MakerInv'
  BY DEF TypeOK, MakerInv, CallInv, Listed
<1>3. CallInv'
  BY NoneAssumption DEF TypeOK, CallInv, CallTypes, Idle, MakerInv, Listed
<1>4. LockInv'
  BY CallsAssumption DEF TypeOK, LockInv, CallTypes, Idle
<1>5. RowInv'
  BY CallsAssumption, NoneAssumption DEF TypeOK, RowInv, MakerInv, CallInv, LockInv, CallTypes, Idle
<1>6. VolumeInv'
  BY DEF TypeOK, VolumeInv, MakerInv, CallInv
<1>7. RollbackIsComplete'
  BY DEF TypeOK, RollbackIsComplete, MakerInv, CallInv
<1> QED BY <1>1, <1>2, <1>3, <1>4, <1>5, <1>6, <1>7, Kept

LEMMA PullFailsInv ==
    ASSUME IInv, NEW d \in Dbs, PullFails(d) PROVE IInv'
<1> USE DEF IInv, PullFails, vars, docker, rows, makers, Goes, Proceed, Return, Cut, Still
<1>1. TypeOK'
  BY DEF TypeOK, States, Statuses, Labels, Results, CallTypes, Steps, Idle, Listed, Seen
<1>2. MakerInv'
  BY DEF TypeOK, MakerInv, CallInv, Listed
<1>3. CallInv'
  BY NoneAssumption DEF TypeOK, CallInv, CallTypes, Idle, MakerInv, Listed
<1>4. LockInv'
  BY CallsAssumption DEF TypeOK, LockInv, CallTypes, Idle
<1>5. RowInv'
  BY CallsAssumption, NoneAssumption DEF TypeOK, RowInv, MakerInv, CallInv, LockInv, CallTypes, Idle
<1>6. VolumeInv'
  BY DEF TypeOK, VolumeInv, MakerInv, CallInv
<1>7. RollbackIsComplete'
  BY DEF TypeOK, RollbackIsComplete, MakerInv, CallInv
<1> QED BY <1>1, <1>2, <1>3, <1>4, <1>5, <1>6, <1>7, Kept

LEMMA VolumeStepInv ==
    ASSUME IInv, NEW d \in Dbs, Volume(d) PROVE IInv'
<1> USE DEF IInv, Volume, vars, docker, rows, makers, Goes, Proceed, Return, Cut, Still
<1>1. TypeOK'
  BY DEF TypeOK, States, Statuses, Labels, Results, CallTypes, Steps, Idle, Listed, Seen
<1>2. MakerInv'
  BY DEF TypeOK, MakerInv, CallInv, Listed
<1>3. CallInv'
  BY NoneAssumption DEF TypeOK, CallInv, CallTypes, Idle, MakerInv, Listed
<1>4. LockInv'
  BY CallsAssumption DEF TypeOK, LockInv, CallTypes, Idle
<1>5. RowInv'
  BY CallsAssumption, NoneAssumption DEF TypeOK, RowInv, MakerInv, CallInv, LockInv, CallTypes, Idle
<1>6. VolumeInv'
  BY DEF TypeOK, VolumeInv, MakerInv, CallInv
<1>7. RollbackIsComplete'
  BY DEF TypeOK, RollbackIsComplete, MakerInv, CallInv
<1> QED BY <1>1, <1>2, <1>3, <1>4, <1>5, <1>6, <1>7, Kept

LEMMA VolumeFailsInv ==
    ASSUME IInv, NEW d \in Dbs, VolumeFails(d) PROVE IInv'
<1> USE DEF IInv, VolumeFails, vars, docker, rows, makers, Goes, Proceed, Return, Cut, Still
<1>1. TypeOK'
  BY DEF TypeOK, States, Statuses, Labels, Results, CallTypes, Steps, Idle, Listed, Seen
<1>2. MakerInv'
  BY DEF TypeOK, MakerInv, CallInv, Listed
<1>3. CallInv'
  BY NoneAssumption DEF TypeOK, CallInv, CallTypes, Idle, MakerInv, Listed
<1>4. LockInv'
  BY CallsAssumption DEF TypeOK, LockInv, CallTypes, Idle
<1>5. RowInv'
  BY CallsAssumption, NoneAssumption DEF TypeOK, RowInv, MakerInv, CallInv, LockInv, CallTypes, Idle
<1>6. VolumeInv'
  BY DEF TypeOK, VolumeInv, MakerInv, CallInv
<1>7. RollbackIsComplete'
  BY DEF TypeOK, RollbackIsComplete, MakerInv, CallInv
<1> QED BY <1>1, <1>2, <1>3, <1>4, <1>5, <1>6, <1>7, Kept

LEMMA ContainerInv ==
    ASSUME IInv, NEW d \in Dbs, Container(d) PROVE IInv'
<1> USE DEF IInv, Container, vars, docker, rows, makers, Goes, Proceed, Return, Cut, Still
<1>1. TypeOK'
  BY DEF TypeOK, States, Statuses, Labels, Results, CallTypes, Steps, Idle, Listed, Seen
<1>2. MakerInv'
  BY DEF TypeOK, MakerInv, CallInv, Listed
<1>3. CallInv'
  BY NoneAssumption DEF TypeOK, CallInv, CallTypes, Idle, MakerInv, Listed
<1>4. LockInv'
  BY CallsAssumption DEF TypeOK, LockInv, CallTypes, Idle
<1>5. RowInv'
  BY CallsAssumption, NoneAssumption DEF TypeOK, RowInv, MakerInv, CallInv, LockInv, CallTypes, Idle
<1>6. VolumeInv'
  BY DEF TypeOK, VolumeInv, MakerInv, CallInv
<1>7. RollbackIsComplete'
  BY DEF TypeOK, RollbackIsComplete, MakerInv, CallInv
<1> QED BY <1>1, <1>2, <1>3, <1>4, <1>5, <1>6, <1>7, Kept

LEMMA StartInv ==
    ASSUME IInv, NEW d \in Dbs, Start(d) PROVE IInv'
<1> USE DEF IInv, Start, vars, docker, rows, makers, Goes, Proceed, Return, Cut, Still
<1>1. TypeOK'
  BY DEF TypeOK, States, Statuses, Labels, Results, CallTypes, Steps, Idle, Listed, Seen
<1>2. MakerInv'
  BY DEF TypeOK, MakerInv, CallInv, Listed
<1>3. CallInv'
  BY NoneAssumption DEF TypeOK, CallInv, CallTypes, Idle, MakerInv, Listed
<1>4. LockInv'
  BY CallsAssumption DEF TypeOK, LockInv, CallTypes, Idle
<1>5. RowInv'
  BY CallsAssumption, NoneAssumption DEF TypeOK, RowInv, MakerInv, CallInv, LockInv, CallTypes, Idle
<1>6. VolumeInv'
  BY DEF TypeOK, VolumeInv, MakerInv, CallInv
<1>7. RollbackIsComplete'
  BY DEF TypeOK, RollbackIsComplete, MakerInv, CallInv
<1> QED BY <1>1, <1>2, <1>3, <1>4, <1>5, <1>6, <1>7, Kept

LEMMA ReadyInv ==
    ASSUME IInv, NEW d \in Dbs, Ready(d) PROVE IInv'
<1> USE DEF IInv, Ready, vars, docker, rows, makers, Goes, Proceed, Return, Cut, Still
<1>1. TypeOK'
  BY DEF TypeOK, States, Statuses, Labels, Results, CallTypes, Steps, Idle, Listed, Seen
<1>2. MakerInv'
  BY DEF TypeOK, MakerInv, CallInv, Listed
<1>3. CallInv'
  BY NoneAssumption DEF TypeOK, CallInv, CallTypes, Idle, MakerInv, Listed
<1>4. LockInv'
  BY CallsAssumption DEF TypeOK, LockInv, CallTypes, Idle
<1>5. RowInv'
  BY CallsAssumption, NoneAssumption DEF TypeOK, RowInv, MakerInv, CallInv, LockInv, CallTypes, Idle
<1>6. VolumeInv'
  BY DEF TypeOK, VolumeInv, MakerInv, CallInv
<1>7. RollbackIsComplete'
  BY DEF TypeOK, RollbackIsComplete, MakerInv, CallInv
<1> QED BY <1>1, <1>2, <1>3, <1>4, <1>5, <1>6, <1>7, Kept

LEMMA FailsInv ==
    ASSUME IInv, NEW d \in Dbs, Fails(d) PROVE IInv'
<1> USE DEF IInv, Fails, vars, docker, rows, makers, Goes, Proceed, Return, Cut, Still
<1>1. TypeOK'
  BY DEF TypeOK, States, Statuses, Labels, Results, CallTypes, Steps, Idle, Listed, Seen
<1>2. MakerInv'
  BY DEF TypeOK, MakerInv, CallInv, Listed
<1>3. CallInv'
  BY NoneAssumption DEF TypeOK, CallInv, CallTypes, Idle, MakerInv, Listed
<1>4. LockInv'
  BY CallsAssumption DEF TypeOK, LockInv, CallTypes, Idle
<1>5. RowInv'
  BY CallsAssumption, NoneAssumption DEF TypeOK, RowInv, MakerInv, CallInv, LockInv, CallTypes, Idle
<1>6. VolumeInv'
  BY DEF TypeOK, VolumeInv, MakerInv, CallInv
<1>7. RollbackIsComplete'
  BY DEF TypeOK, RollbackIsComplete, MakerInv, CallInv
<1> QED BY <1>1, <1>2, <1>3, <1>4, <1>5, <1>6, <1>7, Kept

LEMMA NotReadyInv ==
    ASSUME IInv, NEW d \in Dbs, NotReady(d) PROVE IInv'
<1> USE DEF IInv, NotReady, vars, docker, rows, makers, Goes, Proceed, Return, Cut, Still
<1>1. TypeOK'
  BY DEF TypeOK, States, Statuses, Labels, Results, CallTypes, Steps, Idle, Listed, Seen
<1>2. MakerInv'
  BY DEF TypeOK, MakerInv, CallInv, Listed
<1>3. CallInv'
  BY NoneAssumption DEF TypeOK, CallInv, CallTypes, Idle, MakerInv, Listed
<1>4. LockInv'
  BY CallsAssumption DEF TypeOK, LockInv, CallTypes, Idle
<1>5. RowInv'
  BY CallsAssumption, NoneAssumption DEF TypeOK, RowInv, MakerInv, CallInv, LockInv, CallTypes, Idle
<1>6. VolumeInv'
  BY DEF TypeOK, VolumeInv, MakerInv, CallInv
<1>7. RollbackIsComplete'
  BY DEF TypeOK, RollbackIsComplete, MakerInv, CallInv
<1> QED BY <1>1, <1>2, <1>3, <1>4, <1>5, <1>6, <1>7, Kept

LEMMA LogsInv ==
    ASSUME IInv, NEW d \in Dbs, Logs(d) PROVE IInv'
<1> USE DEF IInv, Logs, vars, docker, rows, makers, Goes, Proceed, Return, Cut, Still
<1>1. TypeOK'
  BY DEF TypeOK, States, Statuses, Labels, Results, CallTypes, Steps, Idle, Listed, Seen
<1>2. MakerInv'
  BY DEF TypeOK, MakerInv, CallInv, Listed
<1>3. CallInv'
  BY NoneAssumption DEF TypeOK, CallInv, CallTypes, Idle, MakerInv, Listed
<1>4. LockInv'
  BY CallsAssumption DEF TypeOK, LockInv, CallTypes, Idle
<1>5. RowInv'
  BY CallsAssumption, NoneAssumption DEF TypeOK, RowInv, MakerInv, CallInv, LockInv, CallTypes, Idle
<1>6. VolumeInv'
  BY DEF TypeOK, VolumeInv, MakerInv, CallInv
<1>7. RollbackIsComplete'
  BY DEF TypeOK, RollbackIsComplete, MakerInv, CallInv
<1> QED BY <1>1, <1>2, <1>3, <1>4, <1>5, <1>6, <1>7, Kept

LEMMA UndoInv ==
    ASSUME IInv, NEW d \in Dbs, Undo(d) PROVE IInv'
<1> USE DEF IInv, Undo, vars, docker, rows, makers, Goes, Proceed, Return, Cut, Still
<1>1. TypeOK'
  BY DEF TypeOK, States, Statuses, Labels, Results, CallTypes, Steps, Idle, Listed, Seen
<1>2. MakerInv'
  BY DEF TypeOK, MakerInv, CallInv, Listed
<1>3. CallInv'
  BY NoneAssumption DEF TypeOK, CallInv, CallTypes, Idle, MakerInv, Listed
<1>4. LockInv'
  BY CallsAssumption DEF TypeOK, LockInv, CallTypes, Idle
<1>5. RowInv'
  BY CallsAssumption, NoneAssumption DEF TypeOK, RowInv, MakerInv, CallInv, LockInv, CallTypes, Idle
<1>6. VolumeInv'
  BY DEF TypeOK, VolumeInv, MakerInv, CallInv
<1>7. RollbackIsComplete'
  BY DEF TypeOK, RollbackIsComplete, MakerInv, CallInv
<1> QED BY <1>1, <1>2, <1>3, <1>4, <1>5, <1>6, <1>7, Kept

LEMMA EmptyInv ==
    ASSUME IInv, NEW d \in Dbs, Empty(d) PROVE IInv'
<1> USE DEF IInv, Empty, vars, docker, rows, makers, Goes, Proceed, Return, Cut, Still
<1>1. TypeOK'
  BY DEF TypeOK, States, Statuses, Labels, Results, CallTypes, Steps, Idle, Listed, Seen
<1>2. MakerInv'
  BY DEF TypeOK, MakerInv, CallInv, Listed
<1>3. CallInv'
  BY NoneAssumption DEF TypeOK, CallInv, CallTypes, Idle, MakerInv, Listed
<1>4. LockInv'
  BY CallsAssumption DEF TypeOK, LockInv, CallTypes, Idle
<1>5. RowInv'
  BY CallsAssumption, NoneAssumption DEF TypeOK, RowInv, MakerInv, CallInv, LockInv, CallTypes, Idle
<1>6. VolumeInv'
  BY DEF TypeOK, VolumeInv, MakerInv, CallInv
<1>7. RollbackIsComplete'
  BY DEF TypeOK, RollbackIsComplete, MakerInv, CallInv
<1> QED BY <1>1, <1>2, <1>3, <1>4, <1>5, <1>6, <1>7, Kept

LEMMA SaveInv ==
    ASSUME IInv, NEW d \in Dbs, Save(d) PROVE IInv'
<1> USE DEF IInv, Save, vars, docker, rows, makers, Goes, Proceed, Return, Cut, Still
<1>1. TypeOK'
  BY DEF TypeOK, States, Statuses, Labels, Results, CallTypes, Steps, Idle, Listed, Seen
<1>2. MakerInv'
  BY DEF TypeOK, MakerInv, CallInv, Listed
<1>3. CallInv'
  BY NoneAssumption DEF TypeOK, CallInv, CallTypes, Idle, MakerInv, Listed
<1>4. LockInv'
  BY CallsAssumption DEF TypeOK, LockInv, CallTypes, Idle
<1>5. RowInv'
  <2>1. lock = d /\ \A c \in Calls : call[c].step \notin {"mark", "forget"}
    BY CallsAssumption DEF LockInv
  <2>2. "running" # None BY NoneAssumption DEF Statuses
  <2> QED BY <2>1, <2>2 DEF TypeOK, RowInv
<1>6. VolumeInv'
  BY DEF TypeOK, VolumeInv, MakerInv, CallInv
<1>7. RollbackIsComplete'
  BY DEF TypeOK, RollbackIsComplete, MakerInv, CallInv
<1> QED BY <1>1, <1>2, <1>3, <1>4, <1>5, <1>6, <1>7, Kept

LEMMA SaveFailsInv ==
    ASSUME IInv, NEW d \in Dbs, SaveFails(d) PROVE IInv'
<1> USE DEF IInv, SaveFails, vars, docker, rows, makers, Goes, Proceed, Return, Cut, Still
<1>1. TypeOK'
  BY DEF TypeOK, States, Statuses, Labels, Results, CallTypes, Steps, Idle, Listed, Seen
<1>2. MakerInv'
  BY DEF TypeOK, MakerInv, CallInv, Listed
<1>3. CallInv'
  BY NoneAssumption DEF TypeOK, CallInv, CallTypes, Idle, MakerInv, Listed
<1>4. LockInv'
  BY CallsAssumption DEF TypeOK, LockInv, CallTypes, Idle
<1>5. RowInv'
  BY CallsAssumption, NoneAssumption DEF TypeOK, RowInv, MakerInv, CallInv, LockInv, CallTypes, Idle
<1>6. VolumeInv'
  BY DEF TypeOK, VolumeInv, MakerInv, CallInv
<1>7. RollbackIsComplete'
  BY DEF TypeOK, RollbackIsComplete, MakerInv, CallInv
<1> QED BY <1>1, <1>2, <1>3, <1>4, <1>5, <1>6, <1>7, Kept

(* The other calls. *)
LEMMA ListInv ==
    ASSUME IInv, NEW c \in Calls, List(c) PROVE IInv'
<1> USE DEF IInv, List, Begin, Moves, Leaves, vars, docker, rows, makers, Goes, Proceed, Return, Cut, Still
<1>1. TypeOK'
  BY DEF TypeOK, States, Statuses, Labels, Results, CallTypes, Steps, Idle, Listed, Seen
<1>2. MakerInv'
  BY DEF TypeOK, MakerInv, CallInv, Listed
<1>3. CallInv'
  BY NoneAssumption DEF TypeOK, CallInv, CallTypes, Idle, MakerInv, Listed
<1>4. LockInv'
  BY CallsAssumption DEF TypeOK, LockInv, CallTypes, Idle
<1>5. RowInv'
  BY CallsAssumption, NoneAssumption DEF TypeOK, RowInv, MakerInv, CallInv, LockInv, CallTypes, Idle
<1>6. VolumeInv'
  BY DEF TypeOK, VolumeInv, MakerInv, CallInv
<1>7. RollbackIsComplete'
  BY DEF TypeOK, RollbackIsComplete, MakerInv, CallInv
<1> QED BY <1>1, <1>2, <1>3, <1>4, <1>5, <1>6, <1>7, Kept

LEMMA LookInv ==
    ASSUME IInv, NEW c \in Calls, Look(c) PROVE IInv'
<1> USE DEF IInv, Look, Begin, Moves, Leaves, vars, docker, rows, makers, Goes, Proceed, Return, Cut, Still
<1>a. PICK d \in call[c].todo, status \in Statuses :
        call' = [call EXCEPT ![c] = [kind |-> "list", step |-> "store", db |-> d,
                                     todo |-> call[c].todo \ {d}, saw |-> status]]
  OBVIOUS
<1> DEFINE r == [kind |-> "list", step |-> "store", db |-> d, todo |-> call[c].todo \ {d}, saw |-> status]
<1>b. call[c] \in CallTypes /\ d \in Dbs
  <2>1. call[c] \in CallTypes BY DEF TypeOK
  <2> QED BY <2>1 DEF CallTypes
<1>c. r \in CallTypes
  BY <1>b DEF CallTypes, Steps
<1>e. /\ r.db = d /\ r.todo = call[c].todo \ {d} /\ r.saw = status
      /\ r.kind = "list" /\ r.step = "store"
  OBVIOUS
<1>f. call[c].kind = "list" /\ end[d] = "ok"
  BY DEF CallInv
<1>g. call' = [call EXCEPT ![c] = r]
  BY <1>a
<1> HIDE DEF r
<1>h. call'[c] = r /\ \A b \in Calls \ {c} : call'[b] = call[b]
  BY <1>g DEF TypeOK
<1>1. TypeOK' BY <1>c, <1>g DEF TypeOK
<1>2. MakerInv'
  BY DEF TypeOK, MakerInv, CallInv, Listed
<1>3. CallInv'
  BY <1>b, <1>e, <1>f, <1>h, NoneAssumption, CallsAssumption DEF CallInv
<1>4. LockInv'
  BY <1>e, <1>h DEF LockInv
<1>5. RowInv'
  BY <1>e, <1>h DEF RowInv
<1>6. VolumeInv'
  BY DEF TypeOK, VolumeInv, MakerInv, CallInv
<1>7. RollbackIsComplete'
  BY DEF TypeOK, RollbackIsComplete, MakerInv, CallInv
<1> QED BY <1>1, <1>2, <1>3, <1>4, <1>5, <1>6, <1>7, Kept

LEMMA StoreInv ==
    ASSUME IInv, NEW c \in Calls, Store(c) PROVE IInv'
<1> USE DEF IInv, Store, Begin, Moves, Leaves, vars, docker, rows, makers, Goes, Proceed, Return, Cut, Still
<1>a. row' \in [Dbs -> Statuses \cup {None}]
  BY DEF TypeOK, CallTypes
<1>b. call[c].todo = {} => TypeOK'
  BY <1>a DEF TypeOK, CallTypes, Steps, Idle
<1>c. call[c].todo # {} => TypeOK'
  BY <1>a DEF TypeOK, CallTypes, Steps
<1>1. TypeOK' BY <1>b, <1>c
<1>2. MakerInv'
  BY DEF TypeOK, MakerInv, CallInv, Listed
<1>3. CallInv'
  BY NoneAssumption DEF TypeOK, CallInv, CallTypes, Idle, MakerInv, Listed
<1>4. LockInv'
  BY CallsAssumption DEF TypeOK, LockInv, CallTypes, Idle
<1>5. RowInv'
  BY CallsAssumption, NoneAssumption DEF TypeOK, RowInv, MakerInv, CallInv, LockInv, CallTypes, Idle
<1>6. VolumeInv'
  BY DEF TypeOK, VolumeInv, MakerInv, CallInv
<1>7. RollbackIsComplete'
  BY DEF TypeOK, RollbackIsComplete, MakerInv, CallInv
<1> QED BY <1>1, <1>2, <1>3, <1>4, <1>5, <1>6, <1>7, Kept

LEMMA StoreFailsInv ==
    ASSUME IInv, NEW c \in Calls, StoreFails(c) PROVE IInv'
<1> USE DEF IInv, StoreFails, Begin, Moves, Leaves, vars, docker, rows, makers, Goes, Proceed, Return, Cut, Still
<1>1. TypeOK'
  BY DEF TypeOK, States, Statuses, Labels, Results, CallTypes, Steps, Idle, Listed, Seen
<1>2. MakerInv'
  BY DEF TypeOK, MakerInv, CallInv, Listed
<1>3. CallInv'
  BY NoneAssumption DEF TypeOK, CallInv, CallTypes, Idle, MakerInv, Listed
<1>4. LockInv'
  BY CallsAssumption DEF TypeOK, LockInv, CallTypes, Idle
<1>5. RowInv'
  BY CallsAssumption, NoneAssumption DEF TypeOK, RowInv, MakerInv, CallInv, LockInv, CallTypes, Idle
<1>6. VolumeInv'
  BY DEF TypeOK, VolumeInv, MakerInv, CallInv
<1>7. RollbackIsComplete'
  BY DEF TypeOK, RollbackIsComplete, MakerInv, CallInv
<1> QED BY <1>1, <1>2, <1>3, <1>4, <1>5, <1>6, <1>7, Kept

LEMMA EnterCallInv ==
    ASSUME IInv, NEW c \in Calls, EnterCall(c) PROVE IInv'
<1> USE DEF IInv, EnterCall, Begin, Moves, Leaves, vars, docker, rows, makers, Goes, Proceed, Return, Cut, Still
<1>1. TypeOK'
  BY DEF TypeOK, States, Statuses, Labels, Results, CallTypes, Steps, Idle, Listed, Seen
<1>2. MakerInv'
  BY DEF TypeOK, MakerInv, CallInv, Listed
<1>3. CallInv'
  BY NoneAssumption DEF TypeOK, CallInv, CallTypes, Idle, MakerInv, Listed
<1>4. LockInv'
  BY CallsAssumption DEF TypeOK, LockInv, CallTypes, Idle
<1>5. RowInv'
  BY CallsAssumption, NoneAssumption DEF TypeOK, RowInv, MakerInv, CallInv, LockInv, CallTypes, Idle
<1>6. VolumeInv'
  BY DEF TypeOK, VolumeInv, MakerInv, CallInv
<1>7. RollbackIsComplete'
  BY DEF TypeOK, RollbackIsComplete, MakerInv, CallInv
<1> QED BY <1>1, <1>2, <1>3, <1>4, <1>5, <1>6, <1>7, Kept

LEMMA VerbInv ==
    ASSUME IInv, NEW c \in Calls, Verb(c) PROVE IInv'
<1> USE DEF IInv, Verb, Begin, Moves, Leaves, vars, docker, rows, makers, Goes, Proceed, Return, Cut, Still
<1>a. container' \in [Dbs -> States]
  BY DEF TypeOK, States
<1>b. call' \in [Calls -> CallTypes]
  BY DEF TypeOK, CallTypes, Steps
<1>1. TypeOK'
  BY <1>a, <1>b DEF TypeOK
<1>2. MakerInv'
  BY DEF TypeOK, MakerInv, CallInv, Listed
<1>3. CallInv'
  BY NoneAssumption DEF TypeOK, CallInv, CallTypes, Idle, MakerInv, Listed
<1>4. LockInv'
  BY CallsAssumption DEF TypeOK, LockInv, CallTypes, Idle
<1>5. RowInv'
  BY CallsAssumption, NoneAssumption DEF TypeOK, RowInv, MakerInv, CallInv, LockInv, CallTypes, Idle
<1>6. VolumeInv'
  BY DEF TypeOK, VolumeInv, MakerInv, CallInv
<1>7. RollbackIsComplete'
  BY DEF TypeOK, RollbackIsComplete, MakerInv, CallInv
<1> QED BY <1>1, <1>2, <1>3, <1>4, <1>5, <1>6, <1>7, Kept

LEMMA VerbFailsInv ==
    ASSUME IInv, NEW c \in Calls, VerbFails(c) PROVE IInv'
<1> USE DEF IInv, VerbFails, Begin, Moves, Leaves, vars, docker, rows, makers, Goes, Proceed, Return, Cut, Still
<1>1. TypeOK'
  BY DEF TypeOK, States, Statuses, Labels, Results, CallTypes, Steps, Idle, Listed, Seen
<1>2. MakerInv'
  BY DEF TypeOK, MakerInv, CallInv, Listed
<1>3. CallInv'
  BY NoneAssumption DEF TypeOK, CallInv, CallTypes, Idle, MakerInv, Listed
<1>4. LockInv'
  BY CallsAssumption DEF TypeOK, LockInv, CallTypes, Idle
<1>5. RowInv'
  BY CallsAssumption, NoneAssumption DEF TypeOK, RowInv, MakerInv, CallInv, LockInv, CallTypes, Idle
<1>6. VolumeInv'
  BY DEF TypeOK, VolumeInv, MakerInv, CallInv
<1>7. RollbackIsComplete'
  BY DEF TypeOK, RollbackIsComplete, MakerInv, CallInv
<1> QED BY <1>1, <1>2, <1>3, <1>4, <1>5, <1>6, <1>7, Kept

LEMMA MarkInv ==
    ASSUME IInv, NEW c \in Calls, Mark(c) PROVE IInv'
<1> USE DEF IInv, Mark, Begin, Moves, Leaves, vars, docker, rows, makers, Goes, Proceed, Return, Cut, Still
<1>1. TypeOK'
  BY DEF TypeOK, States, Statuses, Labels, Results, CallTypes, Steps, Idle, Listed, Seen
<1>2. MakerInv'
  BY DEF TypeOK, MakerInv, CallInv, Listed
<1>3. CallInv'
  BY NoneAssumption DEF TypeOK, CallInv, CallTypes, Idle, MakerInv, Listed
<1>4. LockInv'
  BY CallsAssumption DEF TypeOK, LockInv, CallTypes, Idle
<1>5. RowInv'
  <2>1. lock = c /\ \A b \in Calls \ {c} : call[b].step \notin {"mark", "forget"} /\ call'[b] = call[b]
    BY CallsAssumption DEF LockInv, TypeOK
  <2>2. call'[c] = Idle BY DEF TypeOK
  <2>3. "running" # None /\ "stopped" # None BY NoneAssumption DEF Statuses
  <2>4. \A d \in Dbs : row[d] # None => row'[d] # None BY <2>3 DEF TypeOK
  <2> QED BY <2>1, <2>2, <2>4 DEF TypeOK, RowInv, Idle
<1>6. VolumeInv'
  BY DEF TypeOK, VolumeInv, MakerInv, CallInv
<1>7. RollbackIsComplete'
  BY DEF TypeOK, RollbackIsComplete, MakerInv, CallInv
<1> QED BY <1>1, <1>2, <1>3, <1>4, <1>5, <1>6, <1>7, Kept

LEMMA RmInv ==
    ASSUME IInv, NEW c \in Calls, Rm(c) PROVE IInv'
<1> USE DEF IInv, Rm, Begin, Moves, Leaves, vars, docker, rows, makers, Goes, Proceed, Return, Cut, Still
<1>1. TypeOK'
  BY DEF TypeOK, States, Statuses, Labels, Results, CallTypes, Steps, Idle, Listed, Seen
<1>2. MakerInv'
  BY DEF TypeOK, MakerInv, CallInv, Listed
<1>3. CallInv'
  BY NoneAssumption DEF TypeOK, CallInv, CallTypes, Idle, MakerInv, Listed
<1>4. LockInv'
  BY CallsAssumption DEF TypeOK, LockInv, CallTypes, Idle
<1>5. RowInv'
  BY CallsAssumption, NoneAssumption DEF TypeOK, RowInv, MakerInv, CallInv, LockInv, CallTypes, Idle
<1>6. VolumeInv'
  BY DEF TypeOK, VolumeInv, MakerInv, CallInv
<1>7. RollbackIsComplete'
  BY DEF TypeOK, RollbackIsComplete, MakerInv, CallInv
<1> QED BY <1>1, <1>2, <1>3, <1>4, <1>5, <1>6, <1>7, Kept

LEMMA WipeInv ==
    ASSUME IInv, NEW c \in Calls, Wipe(c) PROVE IInv'
<1> USE DEF IInv, Wipe, Begin, Moves, Leaves, vars, docker, rows, makers, Goes, Proceed, Return, Cut, Still
<1>1. TypeOK'
  BY DEF TypeOK, States, Statuses, Labels, Results, CallTypes, Steps, Idle, Listed, Seen
<1>2. MakerInv'
  BY DEF TypeOK, MakerInv, CallInv, Listed
<1>3. CallInv'
  BY NoneAssumption DEF TypeOK, CallInv, CallTypes, Idle, MakerInv, Listed
<1>4. LockInv'
  BY CallsAssumption DEF TypeOK, LockInv, CallTypes, Idle
<1>5. RowInv'
  BY CallsAssumption, NoneAssumption DEF TypeOK, RowInv, MakerInv, CallInv, LockInv, CallTypes, Idle
<1>6. VolumeInv'
  BY DEF TypeOK, VolumeInv, MakerInv, CallInv
<1>7. RollbackIsComplete'
  BY DEF TypeOK, RollbackIsComplete, MakerInv, CallInv
<1> QED BY <1>1, <1>2, <1>3, <1>4, <1>5, <1>6, <1>7, Kept

LEMMA WipeFailsInv ==
    ASSUME IInv, NEW c \in Calls, WipeFails(c) PROVE IInv'
<1> USE DEF IInv, WipeFails, Begin, Moves, Leaves, vars, docker, rows, makers, Goes, Proceed, Return, Cut, Still
<1>1. TypeOK'
  BY DEF TypeOK, States, Statuses, Labels, Results, CallTypes, Steps, Idle, Listed, Seen
<1>2. MakerInv'
  BY DEF TypeOK, MakerInv, CallInv, Listed
<1>3. CallInv'
  BY NoneAssumption DEF TypeOK, CallInv, CallTypes, Idle, MakerInv, Listed
<1>4. LockInv'
  BY CallsAssumption DEF TypeOK, LockInv, CallTypes, Idle
<1>5. RowInv'
  BY CallsAssumption, NoneAssumption DEF TypeOK, RowInv, MakerInv, CallInv, LockInv, CallTypes, Idle
<1>6. VolumeInv'
  BY DEF TypeOK, VolumeInv, MakerInv, CallInv
<1>7. RollbackIsComplete'
  BY DEF TypeOK, RollbackIsComplete, MakerInv, CallInv
<1> QED BY <1>1, <1>2, <1>3, <1>4, <1>5, <1>6, <1>7, Kept

LEMMA ForgetInv ==
    ASSUME IInv, NEW c \in Calls, Forget(c) PROVE IInv'
<1> USE DEF IInv, Forget, Begin, Moves, Leaves, vars, docker, rows, makers, Goes, Proceed, Return, Cut, Still
<1>1. TypeOK'
  BY DEF TypeOK, States, Statuses, Labels, Results, CallTypes, Steps, Idle, Listed, Seen
<1>2. MakerInv'
  BY DEF TypeOK, MakerInv, CallInv, Listed
<1>3. CallInv'
  BY NoneAssumption DEF TypeOK, CallInv, CallTypes, Idle, MakerInv, Listed
<1>4. LockInv'
  BY CallsAssumption DEF TypeOK, LockInv, CallTypes, Idle
<1>5. RowInv'
  BY CallsAssumption, NoneAssumption DEF TypeOK, RowInv, MakerInv, CallInv, LockInv, CallTypes, Idle
<1>6. VolumeInv'
  BY DEF TypeOK, VolumeInv, MakerInv, CallInv
<1>7. RollbackIsComplete'
  BY DEF TypeOK, RollbackIsComplete, MakerInv, CallInv
<1> QED BY <1>1, <1>2, <1>3, <1>4, <1>5, <1>6, <1>7, Kept

LEMMA RemoveInv ==
    ASSUME IInv, NEW c \in Calls, Remove(c) PROVE IInv'
<1> USE DEF IInv, Remove, Begin, Moves, Leaves, vars, docker, rows, makers, Goes, Proceed, Return, Cut, Still
<1>1. TypeOK'
  BY DEF TypeOK, States, Statuses, Labels, Results, CallTypes, Steps, Idle, Listed, Seen
<1>2. MakerInv'
  BY DEF TypeOK, MakerInv, CallInv, Listed
<1>3. CallInv'
  BY NoneAssumption DEF TypeOK, CallInv, CallTypes, Idle, MakerInv, Listed
<1>4. LockInv'
  BY CallsAssumption DEF TypeOK, LockInv, CallTypes, Idle
<1>5. RowInv'
  BY CallsAssumption, NoneAssumption DEF TypeOK, RowInv, MakerInv, CallInv, LockInv, CallTypes, Idle
<1>6. VolumeInv'
  BY DEF TypeOK, VolumeInv, MakerInv, CallInv
<1>7. RollbackIsComplete'
  BY DEF TypeOK, RollbackIsComplete, MakerInv, CallInv
<1> QED BY <1>1, <1>2, <1>3, <1>4, <1>5, <1>6, <1>7, Kept

LEMMA RemovedInv ==
    ASSUME IInv, NEW c \in Calls, Removed(c) PROVE IInv'
<1> USE DEF IInv, Removed, Begin, Moves, Leaves, vars, docker, rows, makers, Goes, Proceed, Return, Cut, Still
<1>1. TypeOK'
  BY DEF TypeOK, States, Statuses, Labels, Results, CallTypes, Steps, Idle, Listed, Seen
<1>2. MakerInv'
  BY DEF TypeOK, MakerInv, CallInv, Listed
<1>3. CallInv'
  BY NoneAssumption DEF TypeOK, CallInv, CallTypes, Idle, MakerInv, Listed
<1>4. LockInv'
  BY CallsAssumption DEF TypeOK, LockInv, CallTypes, Idle
<1>5. RowInv'
  BY CallsAssumption, NoneAssumption DEF TypeOK, RowInv, MakerInv, CallInv, LockInv, CallTypes, Idle
<1>6. VolumeInv'
  BY DEF TypeOK, VolumeInv, MakerInv, CallInv
<1>7. RollbackIsComplete'
  BY DEF TypeOK, RollbackIsComplete, MakerInv, CallInv
<1> QED BY <1>1, <1>2, <1>3, <1>4, <1>5, <1>6, <1>7, Kept

LEMMA ActInv ==
    ASSUME IInv, NEW c \in Calls, NEW kind, NEW d \in Dbs, Act(c, kind, d) PROVE IInv'
<1> USE DEF IInv, Act, Begin, vars, docker, rows, makers, Goes, Proceed, Return, Cut, Still
<1>1. TypeOK'
  BY DEF TypeOK, States, Statuses, Labels, Results, CallTypes, Steps, Idle, Listed, Seen
<1>2. MakerInv'
  BY DEF TypeOK, MakerInv, CallInv, Listed
<1>a. end[d] = "ok" /\ end' = end /\ doomed \subseteq doomed' /\ (kind = "delete" => d \in doomed')
  BY DEF TypeOK, MakerInv, Listed
<1>b. call'[c] = [kind |-> kind, step |-> "queue", db |-> d, todo |-> {}, saw |-> None]
      /\ \A b \in Calls \ {c} : call'[b] = call[b]
  BY DEF TypeOK
<1>c. /\ call'[c].db = d /\ call'[c].todo = {} /\ call'[c].kind = kind /\ call'[c].step = "queue"
  BY <1>b
<1>d. \A b \in Calls \ {c} : call'[b] = call[b] BY <1>b
<1>3. CallInv'
  BY <1>a, <1>c, <1>d, CallsAssumption DEF CallInv
<1>4. LockInv'
  BY CallsAssumption DEF TypeOK, LockInv, CallTypes, Idle
<1>5. RowInv'
  BY CallsAssumption, NoneAssumption DEF TypeOK, RowInv, MakerInv, CallInv, LockInv, CallTypes, Idle
<1>6. VolumeInv'
  BY DEF TypeOK, VolumeInv, MakerInv, CallInv
<1>7. RollbackIsComplete'
  BY DEF TypeOK, RollbackIsComplete, MakerInv, CallInv
<1> QED BY <1>1, <1>2, <1>3, <1>4, <1>5, <1>6, <1>7, Kept

LEMMA HangInv ==
    ASSUME IInv, Hang PROVE IInv'
<1> USE DEF IInv, Hang, vars, docker, rows, makers, Goes, Proceed, Return, Cut, Still
<1>1. TypeOK'
  BY DEF TypeOK, States, Statuses, Labels, Results, CallTypes, Steps, Idle, Listed, Seen
<1>2. MakerInv'
  BY DEF TypeOK, MakerInv, CallInv, Listed
<1>3. CallInv'
  BY NoneAssumption DEF TypeOK, CallInv, CallTypes, Idle, MakerInv, Listed
<1>4. LockInv'
  BY CallsAssumption DEF TypeOK, LockInv, CallTypes, Idle
<1>5. RowInv'
  BY CallsAssumption, NoneAssumption DEF TypeOK, RowInv, MakerInv, CallInv, LockInv, CallTypes, Idle
<1>6. VolumeInv'
  BY DEF TypeOK, VolumeInv, MakerInv
<1>7. RollbackIsComplete'
  BY DEF TypeOK, RollbackIsComplete, MakerInv, CallInv
<1> QED BY <1>1, <1>2, <1>3, <1>4, <1>5, <1>6, <1>7, Kept

LEMMA CrashInv ==
    ASSUME IInv, Crash PROVE IInv'
<1> USE DEF IInv, Crash, vars, docker, rows, makers, Goes, Proceed, Return, Cut, Still
<1>1. TypeOK'
  BY DEF TypeOK, States, Statuses, Labels, Results, CallTypes, Steps, Idle, Listed, Seen
<1>2. MakerInv'
  BY DEF TypeOK, MakerInv, CallInv, Listed
<1>3. CallInv'
  BY NoneAssumption DEF TypeOK, CallInv, CallTypes, Idle, MakerInv, Listed
<1>4. LockInv'
  BY CallsAssumption DEF TypeOK, LockInv, CallTypes, Idle
<1>5. RowInv'
  BY CallsAssumption, NoneAssumption DEF TypeOK, RowInv, MakerInv, CallInv, LockInv, CallTypes, Idle
<1>6. VolumeInv'
  BY DEF TypeOK, VolumeInv, MakerInv
<1>7. RollbackIsComplete'
  BY DEF TypeOK, RollbackIsComplete, MakerInv, CallInv
<1> QED BY <1>1, <1>2, <1>3, <1>4, <1>5, <1>6, <1>7, Kept

LEMMA StutterInv == IInv /\ UNCHANGED vars => IInv'
<1> SUFFICES ASSUME IInv, UNCHANGED vars PROVE IInv' OBVIOUS
<1> USE DEF vars, docker, rows, makers, IInv
<1>1. TypeOK' BY DEF TypeOK
<1>2. MakerInv' /\ CallInv' /\ LockInv' /\ RowInv' BY DEF MakerInv, CallInv, LockInv, RowInv
<1>3. VolumeInv' /\ RollbackIsComplete' BY DEF VolumeInv, RollbackIsComplete
<1> QED BY <1>1, <1>2, <1>3, Kept

LEMMA StepInv == IInv /\ [Next]_vars => IInv'
<1> SUFFICES ASSUME IInv, [Next]_vars PROVE IInv' OBVIOUS
<1>1. CASE Window
  BY <1>1, AskInv, CancelInv, ListInv, RemoveInv, ActInv DEF Window
<1>2. ASSUME NEW d \in Dbs, EnterMaker(d) \/ Works(d) PROVE IInv'
  BY <1>2, EnterMakerInv, PullInv, PullFailsInv, VolumeStepInv, VolumeFailsInv, ContainerInv, StartInv, ReadyInv, NotReadyInv, LogsInv,
     FailsInv, UndoInv, EmptyInv, SaveInv, SaveFailsInv DEF Works
<1>3. ASSUME NEW c \in Calls, EnterCall(c) \/ Serves(c) PROVE IInv'
  BY <1>3, EnterCallInv, LookInv, StoreInv, StoreFailsInv, VerbInv, VerbFailsInv, MarkInv, RmInv, WipeInv,
     WipeFailsInv, ForgetInv, RemovedInv DEF Serves
<1> QED BY <1>1, <1>2, <1>3, HangInv, CrashInv, StutterInv DEF Next

(* The inductive invariant of Databases. *)
THEOREM Invariant == Spec => []IInv
BY InitInv, StepInv, PTL DEF Spec

(* The data of a listed database are lost only by a deletion the user asked
   for (databases.rs create, delete_database). *)
THEOREM DataAreKept == Spec => []DataIsKept
<1>1. IInv => DataIsKept BY DEF IInv
<1> QED BY <1>1, Invariant, PTL

(* A creation that fails leaves nothing in Docker, unless Docker refuses
   (databases.rs create). *)
THEOREM RollbackLeavesNothing == Spec => []RollbackIsComplete
<1>1. IInv => RollbackIsComplete BY DEF IInv
<1> QED BY <1>1, Invariant, PTL

(* A deleted database comes back only by a listing that had loaded it
   (databases.rs list_databases, database_action). *)
THEOREM DeletedStaysDeleted == Spec => NothingComesBack
<1> DEFINE Back == \A d \in Dbs : row[d] = None /\ row'[d] # None =>
                      \/ at[d] = "save"
                      \/ \E c \in Calls : call[c].kind = "list" /\ call[c].db = d
<1>1. IInv /\ [Next]_vars => [Back]_vars
  <2> SUFFICES ASSUME IInv, Next, NEW d \in Dbs, row[d] = None, row'[d] # None
               PROVE  \/ at[d] = "save"
                      \/ \E c \in Calls : call[c].kind = "list" /\ call[c].db = d
    BY DEF Back
  <2> USE DEF rows, docker, makers, Still, Proceed, Return, Begin
  <2>1. row' # row OBVIOUS
  <2>2. ASSUME NEW e \in Dbs, Works(e) PROVE at[d] = "save"
    <3>1. row' = [row EXCEPT ![e] = "running"] /\ at[e] = "save"
      BY <2>1, <2>2 DEF Works, Pull, PullFails, Volume, VolumeFails, Container, Start, Ready, NotReady, Logs, Fails,
                        Undo, Empty, Save, SaveFails
    <3> QED BY <3>1 DEF IInv, TypeOK
  <2>3. ASSUME NEW c \in Calls, Serves(c) PROVE call[c].kind = "list" /\ call[c].db = d
    <3>1. Store(c) \/ Mark(c) \/ Forget(c)
      BY <2>1, <2>3 DEF Serves, Look, StoreFails, Verb, VerbFails, Rm, Wipe, WipeFails, Removed
    <3>2. CASE Store(c) BY <3>2 DEF Store, IInv, TypeOK, CallInv
    <3>3. CASE Mark(c)
      <4>1. row[call[c].db] # None BY <3>3 DEF Mark, IInv, RowInv
      <4>2. row'[d] = row[d] BY <3>3, <4>1 DEF Mark, IInv, TypeOK
      <4> QED BY <4>2
    <3>4. CASE Forget(c) BY <3>4 DEF Forget, IInv, TypeOK
    <3> QED BY <3>1, <3>2, <3>3, <3>4
  <2>4. ~ (Window \/ Hang \/ Crash)
    BY <2>1 DEF Window, Hang, Crash, Ask, Cancel, List, Remove, Act
  <2>5. ASSUME NEW e \in Dbs, EnterMaker(e) PROVE FALSE BY <2>1, <2>5 DEF EnterMaker
  <2>6. ASSUME NEW c \in Calls, EnterCall(c) PROVE FALSE BY <2>1, <2>6 DEF EnterCall
  <2> QED BY <2>2, <2>3, <2>4, <2>5, <2>6 DEF Next
<1> QED BY <1>1, Invariant, PTL DEF Spec, NothingComesBack
=============================================================================
