-------------------------- MODULE Backups_proofs --------------------------
(***************************************************************************)
(* The safety of Backups for every set of worlds and parts, every number   *)
(* of kept backups and every bound: IInv is an inductive invariant.        *)
(***************************************************************************)
EXTENDS Backups, FiniteSetTheorems, TLAPS

LEMMA NothingTyped == Nothing \in Data BY DEF Nothing, Data

LEMMA SubsetsTyped ==
    ASSUME NEW data \in Data
    PROVE  LevelRoots(data) \subseteq Roots /\ backup_roots(data) \subseteq Roots /\ Holds(data) \subseteq Roots
BY DEF LevelRoots, backup_roots, Holds, Roots

(* An archive has the copied content of every root its walk has reached. *)
LEMMA ArchiveTyped ==
    ASSUME NEW snap \in Data, NEW lost
    PROVE  Archive(snap, lost) \in Data /\ \A r \in Roots \ lost : Archive(snap, lost)[r] = snap[r]
BY DEF Archive, Data, Content

(* What the steps write is an operation. *)
LEMMA Typed ==
    ASSUME NEW o \in Operation
    PROVE  /\ \A l \in Labels : [o EXCEPT !.at = l] \in Operation
           /\ \A l \in Labels, result \in Results : [o EXCEPT !.at = l, !.result = result] \in Operation
           /\ \A l \in Labels, todo \in SUBSET Roots : [o EXCEPT !.at = l, !.todo = todo] \in Operation
           /\ \A l \in Labels, todo \in SUBSET Roots, result \in Results :
                 [o EXCEPT !.at = l, !.todo = todo, !.result = result] \in Operation
           /\ \A l \in Labels, i \in Ids : [o EXCEPT !.at = l, !.id = i] \in Operation
           /\ \A l \in Labels, i \in Ids : [o EXCEPT !.at = l, !.target = i] \in Operation
           /\ \A l \in Labels, old \in SUBSET Ids : [o EXCEPT !.at = l, !.old = old] \in Operation
           /\ \A l \in Labels, r \in Roots : [o EXCEPT !.at = l, !.cur = r] \in Operation
           /\ \A todo \in SUBSET Roots : [o EXCEPT !.todo = todo] \in Operation
           /\ \A l \in Labels, lost \in SUBSET Roots : [o EXCEPT !.at = l, !.lost = lost] \in Operation
BY DEF Operation

LEMMA NoOperationTyped == NoOperation \in Operation
BY NothingTyped DEF NoOperation, Operation, Labels, Results, Kinds, Roots

LEMMA MovesTyped ==
    ASSUME TypeOK
    PROVE  /\ \A l \in Labels : Goto(l) => op' \in Operation
           /\ \A result \in Results : Ends(result) => op' \in Operation
<1>1. "done" \in Labels /\ op \in Operation BY DEF Labels, TypeOK
<1>2. \A l \in Labels : [op EXCEPT !.at = l] \in Operation BY <1>1 DEF Operation
<1>3. \A result \in Results : [op EXCEPT !.at = "done", !.result = result] \in Operation
    BY <1>1 DEF Operation
<1> QED BY <1>2, <1>3 DEF Goto, Ends

LEMMA Fields ==
    ASSUME TypeOK
    PROVE  /\ op.todo \in SUBSET Roots /\ op.old \in SUBSET Ids /\ op.cur \in Roots
           /\ op.snap \in Data /\ op.want \in Data /\ op.before \in Data
           /\ op.id \in Ids \cup {0} /\ op.target \in Ids \cup {0}
           /\ op.kind \in Kinds /\ op.roots \in SUBSET Roots /\ op.at \in Labels
BY DEF TypeOK, Operation

-----------------------------------------------------------------------------
(* The initial states. *)
LEMMA InitOK == Init => IInv
<1> SUFFICES ASSUME Init PROVE IInv
    OBVIOUS
<1> USE DEF Init
<1>1. /\ op.at = "idle" /\ op.kind = "manual" /\ ~ op.running
      /\ db = {} /\ mem = {} /\ saving
    BY DEF NoOperation
<1>2. TypeOK
  <2>1. \A w \in Worlds : Fresh(w) \in Data BY BoundsAssumption DEF Fresh, Data, Content
  <2>2. del \in Deletion BY BoundsAssumption DEF Deletion
  <2> QED BY <2>1, <2>2, NoOperationTyped, NothingTyped, BoundsAssumption DEF TypeOK, Kinds
<1>3. SavingOK BY <1>1 DEF SavingOK
<1>4. RestoreOK BY <1>1 DEF RestoreOK, Replacing, Retaining
<1>5. ArchiveOK BY <1>1 DEF ArchiveOK
<1>6. TargetOK BY <1>1 DEF TargetOK
<1>7. SafetyOK BY <1>1 DEF SafetyOK
<1>8. ListedAreComplete BY <1>1 DEF ListedAreComplete
<1>9. RollbackOK /\ RolledBackIsOld BY <1>1 DEF RollbackOK, RolledBack, RolledBackIsOld
<1>10. NewestOK BY <1>1 DEF NewestOK
<1> QED BY <1>2, <1>3, <1>4, <1>5, <1>6, <1>7, <1>8, <1>9, <1>10 DEF IInv

-----------------------------------------------------------------------------
(* Every step writes what the types allow.                                   *)
LEMMA TypeStep == ASSUME TypeOK, ArchiveOK, TargetOK, Next PROVE TypeOK'
<1> USE DEF TypeOK, lists, java
<1>1. CASE ServerStarts
    BY <1>1, BoundsAssumption DEF ServerStarts
<1>2. CASE PlayersBuild
    BY <1>2, BoundsAssumption DEF PlayersBuild
<1>3. CASE Autosave
    BY <1>3, SubsetsTyped DEF Autosave
<1>4. CASE ServerStops
    BY <1>4, SubsetsTyped DEF ServerStops
<1>5. CASE JavaExits BY <1>5 DEF JavaExits
<1>6. CASE DeleteRow
  <2>1. del' \in Deletion BY <1>6 DEF DeleteRow, Deletion, DeleteReturns
  <2> QED BY <1>6, <2>1 DEF DeleteRow
<1>7. CASE DeleteMem
  <2>1. del' \in Deletion BY <1>7 DEF DeleteMem, Deletion, DeleteReturns
  <2> QED BY <1>7, <2>1 DEF DeleteMem
<1>8. CASE AppDies
  <2>1. del' \in Deletion BY <1>8 DEF AppDies, Deletion, DeleteReturns
  <2>2. kinds' \in [Ids -> Kinds] BY <1>8 DEF AppDies, Kinds
  <2> QED BY <1>8, <2>1, <2>2, NoOperationTyped, NothingTyped DEF AppDies
<1>9. CASE Return
    BY <1>9, NoOperationTyped DEF Return
<1>10. ASSUME NEW r \in Roots, JavaWrites(r) PROVE TypeOK'
    BY <1>10 DEF JavaWrites, Data, Content
<1>11. ASSUME NEW r \in Roots, RemoveRoot(r) PROVE TypeOK'
    BY <1>11 DEF RemoveRoot, Data
<1>12. ASSUME NEW w \in Worlds, EditLevel(w) PROVE TypeOK'
    BY <1>12 DEF EditLevel, Data, Content
<1>13. ASSUME NEW kind \in Kinds, BackupBegins(kind) PROVE TypeOK'
  <2>1. \A running \in BOOLEAN :
           [NoOperation EXCEPT !.at = "saveOff", !.kind = kind, !.running = running] \in Operation
      BY NoOperationTyped DEF Operation, Labels
  <2>2. (runner # "off") \in BOOLEAN OBVIOUS
  <2>3. op' \in Operation BY <1>13, <2>1, <2>2 DEF BackupBegins
  <2> QED BY <1>13, <2>3 DEF BackupBegins
<1>14. ASSUME NEW i \in Ids, RestoreBegins(i) PROVE TypeOK'
  <2>1. op' \in Operation BY <1>14, NoOperationTyped DEF RestoreBegins, Operation, Labels, Kinds
  <2> QED BY <1>14, <2>1 DEF RestoreBegins
<1>15. ASSUME NEW i \in Ids, DeleteFile(i) PROVE TypeOK'
  <2>1. del' \in Deletion BY <1>15, BoundsAssumption DEF DeleteFile, Deletion, DeleteReturns
  <2> QED BY <1>15, <2>1 DEF DeleteFile
<1>16. CASE BackupStep
  <2>1. CASE SendSaveOff
    <3>1. op' \in Operation BY <2>1, MovesTyped DEF SendSaveOff, Labels, Results
    <3> QED BY <2>1, <3>1 DEF SendSaveOff, Goto, Ends
  <2>2. CASE SendFlush
    <3>1. op' \in Operation BY <2>2, MovesTyped DEF SendFlush, Labels, Results
    <3> QED BY <2>2, <3>1, SubsetsTyped DEF SendFlush
  <2>3. CASE ListRoots
    <3>1. op' \in Operation BY <2>3, NothingTyped, SubsetsTyped DEF ListRoots, TypeOK, Operation, Labels
    <3> QED BY <2>3, <3>1 DEF ListRoots
  <2>4. CASE CopyEnds
    <3>1. op' \in Operation BY <2>4, MovesTyped DEF CopyEnds, Labels
    <3> QED BY <2>4, <3>1 DEF CopyEnds
  <2>5. CASE SendSaveOn
    <3>1. op' \in Operation BY <2>5, MovesTyped DEF SendSaveOn, Labels
    <3> QED BY <2>5, <3>1 DEF SendSaveOn
  <2>6. CASE ZipBegins
    <3>1. next + 1 \in Ids BY <2>6, BoundsAssumption DEF ZipBegins, Ids
    <3>2. op' \in Operation BY <2>6, <3>1, Typed DEF ZipBegins, TypeOK, Labels
    <3>3. op.kind \in Kinds BY Fields
    <3> QED BY <2>6, <3>1, <3>2, <3>3, BoundsAssumption DEF ZipBegins, Ids
  <2>7. CASE ZipEnds
    <3>1. PICK lost \in SUBSET Holds(op.snap) :
             /\ files' = [files EXCEPT ![op.id] = Archive(op.snap, lost)]
             /\ op' = [op EXCEPT !.at = "row", !.lost = lost]
        BY <2>7 DEF ZipEnds
    <3>2. "row" \in Labels /\ lost \in SUBSET Roots BY DEF Labels, Holds
    <3>3. op' \in Operation BY <3>1, <3>2, Typed
    <3>4. Archive(op.snap, lost) \in Data BY ArchiveTyped, Fields
    <3> QED BY <2>7, <3>1, <3>3, <3>4 DEF ZipEnds
  <2>8. CASE SaveRow
    <3>1. op' \in Operation BY <2>8, MovesTyped DEF SaveRow, Labels
    <3>2. op.id \in 1..next BY <2>8 DEF SaveRow, At, ArchiveOK
    <3>3. op.id \in Ids BY <3>2, BoundsAssumption DEF Ids
    <3> QED BY <2>8, <3>1, <3>3 DEF SaveRow
  <2>9. CASE SaveRowFails
    <3>1. op' \in Operation BY <2>9, MovesTyped DEF SaveRowFails, Results
    <3> QED BY <2>9, <3>1 DEF SaveRowFails
  <2>10. CASE ListBackup
    <3>1. op' \in Operation BY <2>10, MovesTyped DEF ListBackup, Labels
    <3>2. op.id \in 1..next BY <2>10 DEF ListBackup, At, ArchiveOK
    <3>3. op.id \in Ids BY <3>2, BoundsAssumption DEF Ids
    <3> QED BY <2>10, <3>1, <3>3 DEF ListBackup
  <2>11. CASE RecordActivity
    <3>1. op' \in Operation BY <2>11, MovesTyped DEF RecordActivity, Labels, Results
    <3> QED BY <2>11, <3>1 DEF RecordActivity
  <2>12. ASSUME NEW r \in Roots, CopyRoot(r) PROVE TypeOK'
    <3>1. [op.snap EXCEPT ![r] = folder[r]] \in Data BY Fields DEF Data
    <3>2. op.todo \ {r} \in SUBSET Roots BY Fields
    <3>3. \A snap \in Data, todo \in SUBSET Roots : [op EXCEPT !.snap = snap, !.todo = todo] \in Operation
        BY DEF Operation
    <3>4. op' = [op EXCEPT !.snap = [op.snap EXCEPT ![r] = folder[r]], !.todo = op.todo \ {r}]
        BY <2>12 DEF CopyRoot, Operation
    <3>5. op' \in Operation BY <3>1, <3>2, <3>3, <3>4
    <3> QED BY <2>12, <3>5 DEF CopyRoot
  <2>13. ASSUME NEW error \in Errors, CopyStops(error) PROVE TypeOK'
    <3>1. op' \in Operation BY <2>13, Typed DEF CopyStops, TypeOK, Labels, Results, Errors
    <3> QED BY <2>13, <3>1 DEF CopyStops
  <2>14. ASSUME NEW error \in Errors, ZipStops(error) PROVE TypeOK'
    <3>1. op' \in Operation BY <2>14, MovesTyped DEF ZipStops, Results, Errors
    <3> QED BY <2>14, <3>1, Fields DEF ZipStops
  <2> QED BY <1>16, <2>1, <2>2, <2>3, <2>4, <2>5, <2>6, <2>7, <2>8, <2>9, <2>10, <2>11, <2>12,
                    <2>13, <2>14 DEF BackupStep
<1>17. CASE RetainStep
  <2>1. CASE Retain
    <3>1. PICK old \in SUBSET Scheduled : op' = [op EXCEPT !.at = "retainNext", !.old = old]
        BY <2>1 DEF Retain
    <3>2. "retainNext" \in Labels /\ old \in SUBSET Ids BY DEF Labels, Scheduled
    <3>3. op' \in Operation BY <3>1, <3>2, Typed
    <3> QED BY <2>1, <3>3 DEF Retain
  <2>2. CASE RetainDb
    <3>1. op' \in Operation BY <2>2, MovesTyped DEF RetainDb, Labels, Results
    <3> QED BY <2>2, <3>1 DEF RetainDb
  <2>3. CASE RetainMem
    <3>1. op' \in Operation BY <2>3, Typed, Fields DEF RetainMem, TypeOK, Labels
    <3> QED BY <2>3, <3>1 DEF RetainMem
  <2>4. CASE RetainEnds
    <3>1. op' \in Operation BY <2>4, MovesTyped DEF RetainEnds, Results
    <3> QED BY <2>4, <3>1 DEF RetainEnds
  <2>5. ASSUME NEW i \in Ids, RetainNext(i) PROVE TypeOK'
    <3>1. CASE op' = [op EXCEPT !.at = "retainDb", !.target = i]
      <4>0. "retainDb" \in Labels BY DEF Labels
      <4>1. op' \in Operation BY <3>1, <4>0, Typed
      <4> QED BY <2>5, <4>1 DEF RetainNext
    <3>2. CASE Ends("failed")
      <4>1. op' \in Operation BY <3>2, MovesTyped DEF Results
      <4> QED BY <2>5, <4>1 DEF RetainNext
    <3> QED BY <2>5, <3>1, <3>2 DEF RetainNext
  <2> QED BY <1>17, <2>1, <2>2, <2>3, <2>4, <2>5 DEF RetainStep
<1>18. CASE RestoreStep
  <2>1. CASE Extract
    <3> DEFINE want == files[op.target]
               roots == Holds(want) \cup backup_roots(folder)
    <3>1. op.target \in Ids BY <2>1 DEF Extract, TargetOK, At
    <3>2. want \in Data BY <2>1, <3>1 DEF Extract, Readable
    <3>3. roots \in SUBSET Roots BY <3>2, SubsetsTyped
    <3>4. op' = [op EXCEPT !.at = "replace", !.want = want, !.roots = roots, !.todo = roots]
        BY <2>1 DEF Extract
    <3>5. op' \in Operation BY <3>2, <3>3, <3>4 DEF Operation, Labels
    <3> QED BY <2>1, <3>5, NothingTyped DEF Extract
  <2>2. CASE CopyBack
    <3>1. op' \in Operation BY <2>2, Typed, Fields DEF CopyBack, TypeOK, Labels
    <3> QED BY <2>2, <3>1, Fields DEF CopyBack, Data
  <2>3. CASE UndoDeleted
    <3>1. op' \in Operation BY <2>3, MovesTyped DEF UndoDeleted, Labels
    <3> QED BY <2>3, <3>1 DEF UndoDeleted
  <2>4. CASE UndoEnds
    <3>1. op' \in Operation BY <2>4, MovesTyped DEF UndoEnds, Labels
    <3> QED BY <2>4, <3>1 DEF UndoEnds
  <2>5. CASE UndoFails
    <3>1. op' \in Operation BY <2>5, MovesTyped DEF UndoFails, Labels
    <3> QED BY <2>5, <3>1 DEF UndoFails
  <2>6. CASE ReplaceEnds
    <3>1. op' \in Operation BY <2>6, MovesTyped DEF ReplaceEnds, Labels
    <3> QED BY <2>6, <3>1, NothingTyped DEF ReplaceEnds
  <2>7. CASE Settle
    <3>1. op' \in Operation BY <2>7, MovesTyped DEF Settle, Results
    <3> QED BY <2>7, <3>1 DEF Settle
  <2>8. ASSUME NEW r \in Roots, MoveAway(r) PROVE TypeOK'
    <3>1. op' \in Operation BY <2>8, Typed DEF MoveAway, TypeOK, Labels
    <3> QED BY <2>8, <3>1 DEF MoveAway, Data
  <2>9. ASSUME NEW r \in Roots, UndoDelete(r) PROVE TypeOK'
    <3>1. op' \in Operation BY <2>9, Typed, Fields DEF UndoDelete, TypeOK
    <3> QED BY <2>9, <3>1 DEF UndoDelete, Data
  <2>10. ASSUME NEW r \in Roots, UndoMove(r) PROVE TypeOK'
    BY <2>10 DEF UndoMove, Data
  <2>11. ASSUME NEW error \in Errors, ExtractFails(error) PROVE TypeOK'
    <3>1. op' \in Operation BY <2>11, MovesTyped DEF ExtractFails, Results, Errors
    <3> QED BY <2>11, <3>1 DEF ExtractFails
  <2>12. ASSUME NEW error \in Errors, ReplaceStops(error) PROVE TypeOK'
    <3>1. op' \in Operation BY <2>12, Typed, Fields DEF ReplaceStops, TypeOK, Labels, Results, Errors
    <3> QED BY <2>12, <3>1 DEF ReplaceStops
  <2>13. ASSUME NEW error \in Errors, CopyBackStops(error) PROVE TypeOK'
    <3>1. op' \in Operation BY <2>13, Typed, Fields DEF CopyBackStops, TypeOK, Labels, Results, Errors
    <3> QED BY <2>13, <3>1 DEF CopyBackStops, Data, Content
  <2> QED BY <1>18, <2>1, <2>2, <2>3, <2>4, <2>5, <2>6, <2>7, <2>8, <2>9, <2>10, <2>11, <2>12,
                    <2>13 DEF RestoreStep
<1> QED BY <1>1, <1>2, <1>3, <1>4, <1>5, <1>6, <1>7, <1>8, <1>9, <1>10, <1>11, <1>12, <1>13,
           <1>14, <1>15, <1>16, <1>17, <1>18 DEF Next, OperationStep
-----------------------------------------------------------------------------
(* Saving is switched on again by every way out of the copy.                 *)
LEMMA SavingStep == ASSUME TypeOK, SavingOK, Next PROVE SavingOK'
<1> USE DEF SavingOK, TypeOK, Operation, Copying, lists, java, At, Goto, Ends
<1>1. CASE ServerStarts \/ PlayersBuild \/ Autosave \/ ServerStops \/ JavaExits
    BY <1>1 DEF ServerStarts, PlayersBuild, Autosave, ServerStops, JavaExits
<1>2. CASE DeleteRow \/ DeleteMem \/ AppDies
    BY <1>2 DEF DeleteRow, DeleteMem, AppDies
<1>3. CASE \/ \E r \in Roots : JavaWrites(r) \/ RemoveRoot(r)
           \/ \E w \in Worlds : EditLevel(w)
           \/ \E kind \in Kinds : BackupBegins(kind)
           \/ \E i \in Ids : RestoreBegins(i) \/ DeleteFile(i)
    BY <1>3 DEF JavaWrites, RemoveRoot, EditLevel, BackupBegins, RestoreBegins, DeleteFile, NoOperation
<1>4. CASE BackupStep
    BY <1>4 DEF BackupStep, SendSaveOff, SendFlush, ListRoots, CopyEnds, SendSaveOn, ZipBegins,
                ZipEnds, SaveRow, SaveRowFails, ListBackup, RecordActivity, CopyRoot, CopyStops,
                ZipStops
<1>5. CASE RetainStep
    BY <1>5 DEF RetainStep, Retain, RetainDb, RetainMem, RetainEnds, RetainNext
<1>6. CASE RestoreStep
    BY <1>6 DEF RestoreStep, Extract, CopyBack, UndoDeleted, UndoEnds, UndoFails, ReplaceEnds,
                Settle, MoveAway, UndoDelete, UndoMove, ExtractFails, ReplaceStops, CopyBackStops
<1>7. CASE Return BY <1>7 DEF Return, NoOperation
<1> QED BY <1>1, <1>2, <1>3, <1>4, <1>5, <1>6, <1>7 DEF Next, OperationStep
-----------------------------------------------------------------------------
(* A restore keeps the server off.                                           *)
LEMMA RestoreStepOK == ASSUME TypeOK, RestoreOK, Next PROVE RestoreOK'
<1> USE DEF RestoreOK, TypeOK, Operation, Replacing, Retaining, lists, java, At, Goto, Ends
<1>1. CASE ServerStarts BY <1>1 DEF ServerStarts
<1>2. CASE PlayersBuild BY <1>2 DEF PlayersBuild
<1>3. CASE Autosave BY <1>3 DEF Autosave
<1>4. CASE ServerStops BY <1>4 DEF ServerStops
<1>5. CASE JavaExits BY <1>5 DEF JavaExits
<1>6. CASE DeleteRow BY <1>6 DEF DeleteRow
<1>7. CASE DeleteMem BY <1>7 DEF DeleteMem
<1>8. CASE AppDies BY <1>8 DEF AppDies, NoOperation
<1>9. CASE Return BY <1>9 DEF Return, NoOperation
<1>10. ASSUME NEW r \in Roots, JavaWrites(r) PROVE RestoreOK' BY <1>10 DEF JavaWrites
<1>11. ASSUME NEW r \in Roots, RemoveRoot(r) PROVE RestoreOK' BY <1>11 DEF RemoveRoot
<1>12. ASSUME NEW w \in Worlds, EditLevel(w) PROVE RestoreOK' BY <1>12 DEF EditLevel
<1>13. ASSUME NEW kind \in Kinds, BackupBegins(kind) PROVE RestoreOK'
    BY <1>13 DEF BackupBegins, NoOperation
<1>14. ASSUME NEW i \in Ids, RestoreBegins(i) PROVE RestoreOK'
    BY <1>14 DEF RestoreBegins, NoOperation
<1>15. ASSUME NEW i \in Ids, DeleteFile(i) PROVE RestoreOK' BY <1>15 DEF DeleteFile
<1>16. CASE BackupStep
  <2>1. CASE SendSaveOff BY <2>1 DEF SendSaveOff
  <2>2. CASE SendFlush BY <2>2 DEF SendFlush
  <2>3. CASE ListRoots BY <2>3 DEF ListRoots
  <2>4. CASE CopyEnds BY <2>4 DEF CopyEnds
  <2>5. CASE SendSaveOn BY <2>5 DEF SendSaveOn
  <2>6. CASE ZipBegins BY <2>6 DEF ZipBegins
  <2>7. CASE ZipEnds BY <2>7 DEF ZipEnds
  <2>8. CASE SaveRow BY <2>8 DEF SaveRow
  <2>9. CASE SaveRowFails BY <2>9 DEF SaveRowFails
  <2>10. CASE ListBackup BY <2>10 DEF ListBackup
  <2>11. CASE RecordActivity
    <3>1. CASE Ends("failed") BY <2>11, <3>1 DEF RecordActivity
    <3>0. CASE Ends("ok") BY <2>11, <3>0 DEF RecordActivity
    <3>2. CASE op.kind = "safety" /\ Goto("extract") BY <2>11, <3>2 DEF RecordActivity
    <3>3. CASE op.kind # "safety" /\ Goto("retain") BY <2>11, <3>3 DEF RecordActivity
    <3> QED BY <2>11, <3>0, <3>1, <3>2, <3>3 DEF RecordActivity
  <2>12. ASSUME NEW r \in Roots, CopyRoot(r) PROVE RestoreOK' BY <2>12 DEF CopyRoot
  <2>13. ASSUME NEW error \in Errors, CopyStops(error) PROVE RestoreOK' BY <2>13 DEF CopyStops
  <2>14. ASSUME NEW error \in Errors, ZipStops(error) PROVE RestoreOK' BY <2>14 DEF ZipStops
  <2> QED BY <1>16, <2>1, <2>2, <2>3, <2>4, <2>5, <2>6, <2>7, <2>8, <2>9, <2>10, <2>11, <2>12,
                    <2>13, <2>14 DEF BackupStep
<1>17. CASE RetainStep
  <2>1. CASE Retain BY <2>1 DEF Retain
  <2>2. CASE RetainDb BY <2>2 DEF RetainDb
  <2>3. CASE RetainMem BY <2>3 DEF RetainMem
  <2>4. CASE RetainEnds BY <2>4 DEF RetainEnds
  <2>5. ASSUME NEW i \in Ids, RetainNext(i) PROVE RestoreOK' BY <2>5 DEF RetainNext
  <2> QED BY <1>17, <2>1, <2>2, <2>3, <2>4, <2>5 DEF RetainStep
<1>18. CASE RestoreStep
  <2>1. CASE Extract BY <2>1 DEF Extract
  <2>2. CASE CopyBack BY <2>2 DEF CopyBack
  <2>3. CASE UndoDeleted BY <2>3 DEF UndoDeleted
  <2>4. CASE UndoEnds BY <2>4 DEF UndoEnds
  <2>5. CASE UndoFails BY <2>5 DEF UndoFails
  <2>6. CASE ReplaceEnds BY <2>6 DEF ReplaceEnds
  <2>7. CASE Settle BY <2>7 DEF Settle
  <2>8. ASSUME NEW r \in Roots, MoveAway(r) PROVE RestoreOK' BY <2>8 DEF MoveAway
  <2>9. ASSUME NEW r \in Roots, UndoDelete(r) PROVE RestoreOK' BY <2>9 DEF UndoDelete
  <2>10. ASSUME NEW r \in Roots, UndoMove(r) PROVE RestoreOK' BY <2>10 DEF UndoMove
  <2>11. ASSUME NEW error \in Errors, ExtractFails(error) PROVE RestoreOK'
      BY <2>11 DEF ExtractFails
  <2>12. ASSUME NEW error \in Errors, ReplaceStops(error) PROVE RestoreOK'
      BY <2>12 DEF ReplaceStops
  <2>13. ASSUME NEW error \in Errors, CopyBackStops(error) PROVE RestoreOK'
      BY <2>13 DEF CopyBackStops
  <2> QED BY <1>18, <2>1, <2>2, <2>3, <2>4, <2>5, <2>6, <2>7, <2>8, <2>9, <2>10, <2>11, <2>12,
                    <2>13 DEF RestoreStep
<1> QED BY <1>1, <1>2, <1>3, <1>4, <1>5, <1>6, <1>7, <1>8, <1>9, <1>10, <1>11, <1>12, <1>13,
           <1>14, <1>15, <1>16, <1>17, <1>18 DEF Next, OperationStep
-----------------------------------------------------------------------------
(* What is listed is complete.                                               *)
LEMMA ArchiveStep == ASSUME TypeOK, ArchiveOK, ListedAreComplete, Next PROVE ArchiveOK' /\ ListedAreComplete'
<1> USE DEF ArchiveOK, ListedAreComplete, TypeOK, Operation, lists, java, At, Goto, Ends, Ids
<1>1. CASE ServerStarts BY <1>1 DEF ServerStarts
<1>2. CASE PlayersBuild BY <1>2 DEF PlayersBuild
<1>3. CASE Autosave BY <1>3 DEF Autosave
<1>4. CASE ServerStops BY <1>4 DEF ServerStops
<1>5. CASE JavaExits BY <1>5 DEF JavaExits
<1>6. CASE DeleteRow BY <1>6 DEF DeleteRow
<1>7. CASE DeleteMem BY <1>7 DEF DeleteMem
<1>8. CASE AppDies BY <1>8 DEF AppDies, NoOperation
<1>9. CASE Return BY <1>9 DEF Return, NoOperation
<1>10. ASSUME NEW r \in Roots, JavaWrites(r) PROVE ArchiveOK' /\ ListedAreComplete'
    BY <1>10 DEF JavaWrites
<1>11. ASSUME NEW r \in Roots, RemoveRoot(r) PROVE ArchiveOK' /\ ListedAreComplete'
    BY <1>11 DEF RemoveRoot
<1>12. ASSUME NEW w \in Worlds, EditLevel(w) PROVE ArchiveOK' /\ ListedAreComplete'
    BY <1>12 DEF EditLevel
<1>13. ASSUME NEW kind \in Kinds, BackupBegins(kind) PROVE ArchiveOK' /\ ListedAreComplete'
    BY <1>13 DEF BackupBegins, NoOperation
<1>14. ASSUME NEW i \in Ids, RestoreBegins(i) PROVE ArchiveOK' /\ ListedAreComplete'
    BY <1>14 DEF RestoreBegins, NoOperation
<1>15. ASSUME NEW i \in Ids, DeleteFile(i) PROVE ArchiveOK' /\ ListedAreComplete'
  <2>1. files' \in {files, [files EXCEPT ![i] = Deleted]} /\ UNCHANGED <<db, mem, next, op>>
      BY <1>15 DEF DeleteFile
  <2>2. CASE files' = files BY <2>1, <2>2
  <2>3. CASE files' = [files EXCEPT ![i] = Deleted] BY <2>1, <2>3, ArchivesAssumption
  <2> QED BY <2>1, <2>2, <2>3
<1>16. CASE BackupStep
  <2>1. CASE SendSaveOff
    <3>1. CASE Goto("roots") BY <2>1, <3>1 DEF SendSaveOff
    <3>2. CASE Goto("flush") BY <2>1, <3>2 DEF SendSaveOff
    <3>3. CASE Ends("failed") BY <2>1, <3>3 DEF SendSaveOff
    <3>4. Goto("roots") \/ Goto("flush") \/ Ends("failed") BY <2>1 DEF SendSaveOff
    <3> QED BY <3>1, <3>2, <3>3, <3>4
  <2>2. CASE SendFlush
    <3>1. UNCHANGED <<files, db, mem, next>> /\ op'.at \in {"roots", "done"} BY <2>2 DEF SendFlush
    <3> QED BY <3>1
  <2>3. CASE ListRoots BY <2>3 DEF ListRoots
  <2>4. CASE CopyEnds BY <2>4 DEF CopyEnds
  <2>5. CASE SendSaveOn BY <2>5 DEF SendSaveOn
  <2>6. CASE ZipBegins
    <3>1. next + 1 \in 1..MaxBackups /\ next + 1 \notin db \cup mem
        BY <2>6, BoundsAssumption DEF ZipBegins
    <3>2. /\ files' = [files EXCEPT ![next + 1] = Partial] /\ UNCHANGED <<db, mem>> /\ next' = next + 1
          /\ op'.at = "zipping" /\ op'.id = next + 1
        BY <2>6 DEF ZipBegins
    <3>3. ListedAreComplete' BY <3>1, <3>2
    <3>4. ArchiveOK' BY <3>1, <3>2, BoundsAssumption
    <3> QED BY <3>3, <3>4
  <2>7. CASE ZipEnds
    <3>1. /\ op.id = next /\ next \in 1..MaxBackups /\ next \notin db \cup mem
          /\ op.snap \in Data
        BY <2>7 DEF ZipEnds
    <3>2. PICK lost \in SUBSET Holds(op.snap) :
             /\ files' = [files EXCEPT ![op.id] = Archive(op.snap, lost)]
             /\ op' = [op EXCEPT !.at = "row", !.lost = lost]
        BY <2>7 DEF ZipEnds
    <3>3. Archive(op.snap, lost) \notin {None, Partial} BY <3>1, ArchiveTyped, ArchivesAssumption
    <3>4. UNCHANGED <<db, mem, next>> /\ op'.at = "row" /\ op'.id = next
        BY <2>7, <3>1, <3>2 DEF ZipEnds
    <3> QED BY <3>1, <3>2, <3>3, <3>4
  <2>8. CASE SaveRow BY <2>8 DEF SaveRow
  <2>9. CASE SaveRowFails BY <2>9 DEF SaveRowFails
  <2>10. CASE ListBackup BY <2>10 DEF ListBackup
  <2>11. CASE RecordActivity
    <3>1. CASE Ends("failed") \/ Ends("ok") BY <2>11, <3>1 DEF RecordActivity
    <3>2. CASE Goto("extract") BY <2>11, <3>2 DEF RecordActivity
    <3>3. CASE Goto("retain") BY <2>11, <3>3 DEF RecordActivity
    <3> QED BY <2>11, <3>1, <3>2, <3>3 DEF RecordActivity
  <2>12. ASSUME NEW r \in Roots, CopyRoot(r) PROVE ArchiveOK' /\ ListedAreComplete'
      BY <2>12 DEF CopyRoot
  <2>13. ASSUME NEW error \in Errors, CopyStops(error) PROVE ArchiveOK' /\ ListedAreComplete'
      BY <2>13 DEF CopyStops
  <2>14. ASSUME NEW error \in Errors, ZipStops(error) PROVE ArchiveOK' /\ ListedAreComplete'
      BY <2>14 DEF ZipStops
  <2> QED BY <1>16, <2>1, <2>2, <2>3, <2>4, <2>5, <2>6, <2>7, <2>8, <2>9, <2>10, <2>11, <2>12,
                    <2>13, <2>14 DEF BackupStep
<1>17. CASE RetainStep
  <2>1. CASE Retain BY <2>1 DEF Retain
  <2>2. CASE RetainDb BY <2>2 DEF RetainDb
  <2>3. CASE RetainMem BY <2>3 DEF RetainMem
  <2>4. CASE RetainEnds BY <2>4 DEF RetainEnds
  <2>5. ASSUME NEW i \in Ids, RetainNext(i) PROVE ArchiveOK' /\ ListedAreComplete'
    <3>1. CASE files' = [files EXCEPT ![i] = Deleted] /\ op' = [op EXCEPT !.at = "retainDb", !.target = i]
      <4>1. /\ files' = [files EXCEPT ![i] = Deleted] /\ UNCHANGED <<db, mem, next>>
            /\ op'.at = "retainDb"
          BY <2>5, <3>1 DEF RetainNext
      <4> QED BY <4>1, ArchivesAssumption
    <3>2. CASE UNCHANGED files /\ Ends("failed")
      <4>1. UNCHANGED <<files, db, mem, next>> /\ op'.at = "done" BY <2>5, <3>2 DEF RetainNext
      <4> QED BY <4>1
    <3> QED BY <2>5, <3>1, <3>2 DEF RetainNext
  <2> QED BY <1>17, <2>1, <2>2, <2>3, <2>4, <2>5 DEF RetainStep
<1>18. CASE RestoreStep
  <2>1. CASE Extract BY <2>1 DEF Extract
  <2>2. CASE CopyBack BY <2>2 DEF CopyBack
  <2>3. CASE UndoDeleted BY <2>3 DEF UndoDeleted
  <2>4. CASE UndoEnds BY <2>4 DEF UndoEnds
  <2>5. CASE UndoFails BY <2>5 DEF UndoFails
  <2>6. CASE ReplaceEnds BY <2>6 DEF ReplaceEnds
  <2>7. CASE Settle BY <2>7 DEF Settle
  <2>8. ASSUME NEW r \in Roots, MoveAway(r) PROVE ArchiveOK' /\ ListedAreComplete'
      BY <2>8 DEF MoveAway
  <2>9. ASSUME NEW r \in Roots, UndoDelete(r) PROVE ArchiveOK' /\ ListedAreComplete'
      BY <2>9 DEF UndoDelete
  <2>10. ASSUME NEW r \in Roots, UndoMove(r) PROVE ArchiveOK' /\ ListedAreComplete'
      BY <2>10 DEF UndoMove
  <2>11. ASSUME NEW error \in Errors, ExtractFails(error) PROVE ArchiveOK' /\ ListedAreComplete'
      BY <2>11 DEF ExtractFails
  <2>12. ASSUME NEW error \in Errors, ReplaceStops(error) PROVE ArchiveOK' /\ ListedAreComplete'
      BY <2>12 DEF ReplaceStops
  <2>13. ASSUME NEW error \in Errors, CopyBackStops(error) PROVE ArchiveOK' /\ ListedAreComplete'
      BY <2>13 DEF CopyBackStops
  <2> QED BY <1>18, <2>1, <2>2, <2>3, <2>4, <2>5, <2>6, <2>7, <2>8, <2>9, <2>10, <2>11, <2>12,
                    <2>13 DEF RestoreStep
<1> QED BY <1>1, <1>2, <1>3, <1>4, <1>5, <1>6, <1>7, <1>8, <1>9, <1>10, <1>11, <1>12, <1>13,
           <1>14, <1>15, <1>16, <1>17, <1>18 DEF Next, OperationStep
-----------------------------------------------------------------------------
(* A restore knows its backup.                                               *)
LEMMA TargetStep == ASSUME TypeOK, TargetOK, Next PROVE TargetOK'
<1> USE DEF TargetOK, TypeOK, Operation, lists, java, At, Goto, Ends
<1>1. CASE ServerStarts BY <1>1 DEF ServerStarts
<1>2. CASE PlayersBuild BY <1>2 DEF PlayersBuild
<1>3. CASE Autosave BY <1>3 DEF Autosave
<1>4. CASE ServerStops BY <1>4 DEF ServerStops
<1>5. CASE JavaExits BY <1>5 DEF JavaExits
<1>6. CASE DeleteRow BY <1>6 DEF DeleteRow
<1>7. CASE DeleteMem BY <1>7 DEF DeleteMem
<1>8. CASE AppDies BY <1>8 DEF AppDies, NoOperation
<1>9. CASE Return BY <1>9 DEF Return, NoOperation
<1>10. ASSUME NEW r \in Roots, JavaWrites(r) PROVE TargetOK' BY <1>10 DEF JavaWrites
<1>11. ASSUME NEW r \in Roots, RemoveRoot(r) PROVE TargetOK' BY <1>11 DEF RemoveRoot
<1>12. ASSUME NEW w \in Worlds, EditLevel(w) PROVE TargetOK' BY <1>12 DEF EditLevel
<1>13. ASSUME NEW kind \in Kinds, BackupBegins(kind) PROVE TargetOK'
    BY <1>13 DEF BackupBegins, NoOperation
<1>14. ASSUME NEW i \in Ids, RestoreBegins(i) PROVE TargetOK'
    BY <1>14 DEF RestoreBegins, NoOperation
<1>15. ASSUME NEW i \in Ids, DeleteFile(i) PROVE TargetOK' BY <1>15 DEF DeleteFile
<1>16. CASE BackupStep
  <2>1. CASE SendSaveOff
    <3>1. CASE Goto("roots") BY <2>1, <3>1 DEF SendSaveOff
    <3>2. CASE Goto("flush") BY <2>1, <3>2 DEF SendSaveOff
    <3>3. CASE Ends("failed") BY <2>1, <3>3 DEF SendSaveOff
    <3> QED BY <2>1, <3>1, <3>2, <3>3 DEF SendSaveOff
  <2>2. CASE SendFlush BY <2>2 DEF SendFlush
  <2>3. CASE ListRoots BY <2>3 DEF ListRoots
  <2>4. CASE CopyEnds BY <2>4 DEF CopyEnds
  <2>5. CASE SendSaveOn BY <2>5 DEF SendSaveOn
  <2>6. CASE ZipBegins BY <2>6 DEF ZipBegins
  <2>7. CASE ZipEnds BY <2>7 DEF ZipEnds
  <2>8. CASE SaveRow BY <2>8 DEF SaveRow
  <2>9. CASE SaveRowFails BY <2>9 DEF SaveRowFails
  <2>10. CASE ListBackup BY <2>10 DEF ListBackup
  <2>11. CASE RecordActivity
    <3>1. CASE Ends("failed") BY <2>11, <3>1 DEF RecordActivity
    <3>0. CASE Ends("ok") BY <2>11, <3>0 DEF RecordActivity
    <3>2. CASE op.kind = "safety" /\ Goto("extract") BY <2>11, <3>2 DEF RecordActivity
    <3>3. CASE op.kind # "safety" /\ Goto("retain") BY <2>11, <3>3 DEF RecordActivity
    <3> QED BY <2>11, <3>0, <3>1, <3>2, <3>3 DEF RecordActivity
  <2>12. ASSUME NEW r \in Roots, CopyRoot(r) PROVE TargetOK' BY <2>12 DEF CopyRoot
  <2>13. ASSUME NEW error \in Errors, CopyStops(error) PROVE TargetOK' BY <2>13 DEF CopyStops
  <2>14. ASSUME NEW error \in Errors, ZipStops(error) PROVE TargetOK' BY <2>14 DEF ZipStops
  <2> QED BY <1>16, <2>1, <2>2, <2>3, <2>4, <2>5, <2>6, <2>7, <2>8, <2>9, <2>10, <2>11, <2>12,
                    <2>13, <2>14 DEF BackupStep
<1>17. CASE RetainStep
  <2>1. CASE Retain BY <2>1 DEF Retain
  <2>2. CASE RetainDb BY <2>2 DEF RetainDb
  <2>3. CASE RetainMem BY <2>3 DEF RetainMem
  <2>4. CASE RetainEnds BY <2>4 DEF RetainEnds
  <2>5. ASSUME NEW i \in Ids, RetainNext(i) PROVE TargetOK'
    <3>1. CASE i \in mem /\ op' = [op EXCEPT !.at = "retainDb", !.target = i] BY <3>1
    <3>2. CASE Ends("failed") BY <3>2
    <3> QED BY <2>5, <3>1, <3>2 DEF RetainNext
  <2> QED BY <1>17, <2>1, <2>2, <2>3, <2>4, <2>5 DEF RetainStep
<1>18. CASE RestoreStep
  <2>1. CASE Extract BY <2>1 DEF Extract
  <2>2. CASE CopyBack BY <2>2 DEF CopyBack
  <2>3. CASE UndoDeleted BY <2>3 DEF UndoDeleted
  <2>4. CASE UndoEnds BY <2>4 DEF UndoEnds
  <2>5. CASE UndoFails BY <2>5 DEF UndoFails
  <2>6. CASE ReplaceEnds BY <2>6 DEF ReplaceEnds
  <2>7. CASE Settle BY <2>7 DEF Settle
  <2>8. ASSUME NEW r \in Roots, MoveAway(r) PROVE TargetOK' BY <2>8 DEF MoveAway
  <2>9. ASSUME NEW r \in Roots, UndoDelete(r) PROVE TargetOK' BY <2>9 DEF UndoDelete
  <2>10. ASSUME NEW r \in Roots, UndoMove(r) PROVE TargetOK' BY <2>10 DEF UndoMove
  <2>11. ASSUME NEW error \in Errors, ExtractFails(error) PROVE TargetOK'
      BY <2>11 DEF ExtractFails
  <2>12. ASSUME NEW error \in Errors, ReplaceStops(error) PROVE TargetOK'
      BY <2>12 DEF ReplaceStops
  <2>13. ASSUME NEW error \in Errors, CopyBackStops(error) PROVE TargetOK'
      BY <2>13 DEF CopyBackStops
  <2> QED BY <1>18, <2>1, <2>2, <2>3, <2>4, <2>5, <2>6, <2>7, <2>8, <2>9, <2>10, <2>11, <2>12,
                    <2>13 DEF RestoreStep
<1> QED BY <1>1, <1>2, <1>3, <1>4, <1>5, <1>6, <1>7, <1>8, <1>9, <1>10, <1>11, <1>12, <1>13,
           <1>14, <1>15, <1>16, <1>17, <1>18 DEF Next, OperationStep
-----------------------------------------------------------------------------
(* The safety backup is complete before the folder is touched.               *)
LEMMA SafetyStep == ASSUME TypeOK, RestoreOK, ArchiveOK, SafetyOK, Next PROVE SafetyOK'
<1> USE DEF SafetyOK, Copied, Zipped, Untouched, Archived, Replacing, RestoreOK, TypeOK, Operation,
            lists, java, At, Goto, Ends
<1>1. CASE ServerStarts BY <1>1 DEF ServerStarts
<1>2. CASE PlayersBuild BY <1>2 DEF PlayersBuild
<1>3. CASE Autosave BY <1>3 DEF Autosave
<1>4. CASE ServerStops BY <1>4 DEF ServerStops
<1>5. CASE JavaExits BY <1>5 DEF JavaExits
<1>6. CASE DeleteRow BY <1>6 DEF DeleteRow
<1>7. CASE DeleteMem BY <1>7 DEF DeleteMem
<1>8. CASE AppDies BY <1>8 DEF AppDies, NoOperation
<1>9. CASE Return BY <1>9 DEF Return, NoOperation
<1>10. ASSUME NEW r \in Roots, JavaWrites(r) PROVE SafetyOK' BY <1>10 DEF JavaWrites
<1>11. ASSUME NEW r \in Roots, RemoveRoot(r) PROVE SafetyOK' BY <1>11 DEF RemoveRoot
<1>12. ASSUME NEW w \in Worlds, EditLevel(w) PROVE SafetyOK' BY <1>12 DEF EditLevel
<1>13. ASSUME NEW kind \in Kinds, BackupBegins(kind) PROVE SafetyOK'
    BY <1>13 DEF BackupBegins, NoOperation
<1>14. ASSUME NEW i \in Ids, RestoreBegins(i) PROVE SafetyOK'
    BY <1>14 DEF RestoreBegins, NoOperation
<1>15. ASSUME NEW i \in Ids, DeleteFile(i) PROVE SafetyOK' BY <1>15 DEF DeleteFile
<1>16. CASE BackupStep
  <2>1. CASE SendSaveOff BY <2>1 DEF SendSaveOff
  <2>2. CASE SendFlush
    <3>1. CASE op.kind = "safety" /\ Ends("failed") BY <2>2, <3>1 DEF SendFlush
    <3>2. CASE op.kind = "safety" /\ Goto("roots") BY <2>2, <3>2 DEF SendFlush
    <3>3. CASE op.kind # "safety" BY <2>2, <3>3 DEF SendFlush
    <3> QED BY <2>2, <3>1, <3>2, <3>3 DEF SendFlush
  <2>3. CASE ListRoots BY <2>3 DEF ListRoots
  <2>4. CASE CopyEnds BY <2>4 DEF CopyEnds
  <2>5. CASE SendSaveOn BY <2>5 DEF SendSaveOn
  <2>6. CASE ZipBegins BY <2>6 DEF ZipBegins
  <2>7. CASE ZipEnds
    <3>1. PICK lost \in SUBSET Holds(op.snap) :
             /\ files' = [files EXCEPT ![op.id] = Archive(op.snap, lost)]
             /\ op' = [op EXCEPT !.at = "row", !.lost = lost]
        BY <2>7 DEF ZipEnds
    <3>2. /\ op'.at = "row" /\ op'.id = op.id /\ op'.kind = op.kind /\ op'.before = op.before
          /\ op'.lost = lost /\ folder' = folder /\ op.at = "zipping"
        BY <2>7, <3>1 DEF ZipEnds
    <3>3. op.id \in Ids /\ op.id # 0 BY <3>2 DEF ArchiveOK, Ids
    <3>4. files'[op.id] = Archive(op.snap, lost) BY <3>1, <3>3
    <3>5. backup_roots(op.before) \subseteq Roots /\ op.snap \in Data BY SubsetsTyped, Fields
    <3>6. op.kind = "safety" => \A r \in backup_roots(op.before) \ lost : files'[op.id][r] = op.before[r]
        BY <3>2, <3>4, <3>5, ArchiveTyped
    <3> QED BY <3>2, <3>3, <3>6
  <2>8. CASE SaveRow BY <2>8 DEF SaveRow
  <2>9. CASE SaveRowFails BY <2>9 DEF SaveRowFails
  <2>10. CASE ListBackup BY <2>10 DEF ListBackup
  <2>11. CASE RecordActivity
    <3>1. CASE Ends("failed") \/ Ends("ok")
      <4>1. op'.at = "done" BY <3>1
      <4> QED BY <4>1
    <3>2. CASE op.kind = "safety" /\ Goto("extract") BY <2>11, <3>2 DEF RecordActivity
    <3>3. CASE op.kind # "safety" /\ Goto("retain") BY <2>11, <3>3 DEF RecordActivity
    <3> QED BY <2>11, <3>1, <3>2, <3>3 DEF RecordActivity
  <2>12. ASSUME NEW r \in Roots, CopyRoot(r) PROVE SafetyOK'
    <3>1. /\ op'.at = "copy" /\ op'.kind = op.kind /\ op'.before = op.before /\ folder' = folder
          /\ op'.todo = op.todo \ {r} /\ op'.snap = [op.snap EXCEPT ![r] = folder[r]]
        BY <2>12 DEF CopyRoot
    <3>2. op.snap \in Data BY DEF TypeOK
    <3>3. \A s \in Roots : op'.snap[s] = IF s = r THEN folder[r] ELSE op.snap[s] BY <3>1, <3>2 DEF Data
    <3>4. backup_roots(op.before) \subseteq Roots BY SubsetsTyped
    <3> QED BY <2>12, <3>1, <3>3, <3>4 DEF CopyRoot
  <2>13. ASSUME NEW error \in Errors, CopyStops(error) PROVE SafetyOK'
    <3>1. /\ op'.at = "saveOn" /\ op'.result = error /\ op'.kind = op.kind
          /\ op'.before = op.before /\ folder' = folder
        BY <2>13 DEF CopyStops
    <3>2. error # "none" BY DEF Errors
    <3> QED BY <2>13, <3>1, <3>2 DEF CopyStops
  <2>14. ASSUME NEW error \in Errors, ZipStops(error) PROVE SafetyOK' BY <2>14 DEF ZipStops
  <2> QED BY <1>16, <2>1, <2>2, <2>3, <2>4, <2>5, <2>6, <2>7, <2>8, <2>9, <2>10, <2>11, <2>12,
                    <2>13, <2>14 DEF BackupStep
<1>17. CASE RetainStep
  <2>1. CASE Retain BY <2>1 DEF Retain
  <2>2. CASE RetainDb
    <3> SUFFICES op'.kind # "safety" OBVIOUS
    <3> QED BY <2>2 DEF RetainDb, Retaining
  <2>3. CASE RetainMem BY <2>3 DEF RetainMem
  <2>4. CASE RetainEnds BY <2>4 DEF RetainEnds
  <2>5. ASSUME NEW i \in Ids, RetainNext(i) PROVE SafetyOK'
    <3> SUFFICES op'.kind # "safety" OBVIOUS
    <3> QED BY <2>5 DEF RetainNext, Retaining
  <2> QED BY <1>17, <2>1, <2>2, <2>3, <2>4, <2>5 DEF RetainStep
<1>18. CASE RestoreStep
  <2>1. CASE Extract BY <2>1 DEF Extract
  <2>2. CASE CopyBack BY <2>2 DEF CopyBack
  <2>3. CASE UndoDeleted BY <2>3 DEF UndoDeleted
  <2>4. CASE UndoEnds BY <2>4 DEF UndoEnds
  <2>5. CASE UndoFails BY <2>5 DEF UndoFails
  <2>6. CASE ReplaceEnds BY <2>6 DEF ReplaceEnds
  <2>7. CASE Settle BY <2>7 DEF Settle
  <2>8. ASSUME NEW r \in Roots, MoveAway(r) PROVE SafetyOK' BY <2>8 DEF MoveAway
  <2>9. ASSUME NEW r \in Roots, UndoDelete(r) PROVE SafetyOK' BY <2>9 DEF UndoDelete
  <2>10. ASSUME NEW r \in Roots, UndoMove(r) PROVE SafetyOK' BY <2>10 DEF UndoMove
  <2>11. ASSUME NEW error \in Errors, ExtractFails(error) PROVE SafetyOK'
      BY <2>11 DEF ExtractFails
  <2>12. ASSUME NEW error \in Errors, ReplaceStops(error) PROVE SafetyOK'
      BY <2>12 DEF ReplaceStops
  <2>13. ASSUME NEW error \in Errors, CopyBackStops(error) PROVE SafetyOK'
      BY <2>13 DEF CopyBackStops
  <2> QED BY <1>18, <2>1, <2>2, <2>3, <2>4, <2>5, <2>6, <2>7, <2>8, <2>9, <2>10, <2>11, <2>12,
                    <2>13 DEF RestoreStep
<1> QED BY <1>1, <1>2, <1>3, <1>4, <1>5, <1>6, <1>7, <1>8, <1>9, <1>10, <1>11, <1>12, <1>13,
           <1>14, <1>15, <1>16, <1>17, <1>18 DEF Next, OperationStep
-----------------------------------------------------------------------------
(* Each root is the old one, or set aside, or the archive's.                 *)
LEMMA RollbackStep == ASSUME TypeOK, RestoreOK, SafetyOK, RollbackOK, RolledBackIsOld, Next PROVE RollbackOK' /\ RolledBackIsOld'
<1> USE DEF RollbackOK, RolledBack, RolledBackIsOld, Replacing, RestoreOK, TypeOK, Operation, lists, java,
            At, Goto, Ends
<1>1. CASE ServerStarts BY <1>1 DEF ServerStarts
<1>2. CASE PlayersBuild BY <1>2 DEF PlayersBuild
<1>3. CASE Autosave BY <1>3 DEF Autosave
<1>4. CASE ServerStops BY <1>4 DEF ServerStops
<1>5. CASE JavaExits BY <1>5 DEF JavaExits
<1>6. CASE DeleteRow BY <1>6 DEF DeleteRow
<1>7. CASE DeleteMem BY <1>7 DEF DeleteMem
<1>8. CASE AppDies BY <1>8 DEF AppDies, NoOperation
<1>9. CASE Return BY <1>9 DEF Return, NoOperation
<1>10. ASSUME NEW r \in Roots, JavaWrites(r) PROVE RollbackOK' /\ RolledBackIsOld'
    BY <1>10 DEF JavaWrites
<1>11. ASSUME NEW r \in Roots, RemoveRoot(r) PROVE RollbackOK' /\ RolledBackIsOld'
    BY <1>11 DEF RemoveRoot
<1>12. ASSUME NEW w \in Worlds, EditLevel(w) PROVE RollbackOK' /\ RolledBackIsOld'
    BY <1>12 DEF EditLevel
<1>13. ASSUME NEW kind \in Kinds, BackupBegins(kind) PROVE RollbackOK' /\ RolledBackIsOld'
    BY <1>13 DEF BackupBegins, NoOperation
<1>14. ASSUME NEW i \in Ids, RestoreBegins(i) PROVE RollbackOK' /\ RolledBackIsOld'
    BY <1>14 DEF RestoreBegins, NoOperation
<1>15. ASSUME NEW i \in Ids, DeleteFile(i) PROVE RollbackOK' /\ RolledBackIsOld'
    BY <1>15 DEF DeleteFile
<1>16. CASE BackupStep
  <2>1. CASE SendSaveOff
    <3>1. op.kind = "safety" => folder = op.before BY <2>1 DEF SendSaveOff, SafetyOK, Untouched
    <3>2. folder' = folder BY <2>1 DEF SendSaveOff
    <3>3. CASE Goto("roots") BY <3>1, <3>2, <3>3
    <3>4. CASE Goto("flush") BY <3>1, <3>2, <3>4
    <3>5. CASE Ends("failed")
      <4>1. op'.at = "done" /\ op'.kind = op.kind /\ op'.before = op.before BY <3>5
      <4> QED BY <3>1, <3>2, <4>1
    <3> QED BY <2>1, <3>3, <3>4, <3>5 DEF SendSaveOff
  <2>2. CASE SendFlush BY <2>2 DEF SendFlush
  <2>3. CASE ListRoots BY <2>3 DEF ListRoots
  <2>4. CASE CopyEnds BY <2>4 DEF CopyEnds
  <2>5. CASE SendSaveOn
    <3>1. op.kind = "safety" => folder = op.before BY <2>5 DEF SendSaveOn, SafetyOK, Untouched
    <3>2. folder' = folder /\ op'.kind = op.kind /\ op'.before = op.before BY <2>5 DEF SendSaveOn
    <3>3. op'.at \notin Replacing BY <2>5 DEF SendSaveOn
    <3> QED BY <3>1, <3>2, <3>3
  <2>6. CASE ZipBegins BY <2>6 DEF ZipBegins
  <2>7. CASE ZipEnds BY <2>7 DEF ZipEnds
  <2>8. CASE SaveRow BY <2>8 DEF SaveRow
  <2>9. CASE SaveRowFails
    <3>1. op.kind = "safety" => folder = op.before BY <2>9 DEF SaveRowFails, SafetyOK, Untouched
    <3>2. folder' = folder /\ op'.kind = op.kind /\ op'.before = op.before BY <2>9 DEF SaveRowFails
    <3>3. op'.at \notin Replacing BY <2>9 DEF SaveRowFails
    <3> QED BY <3>1, <3>2, <3>3
  <2>10. CASE ListBackup BY <2>10 DEF ListBackup
  <2>11. CASE RecordActivity
    <3>1. op.kind = "safety" => folder = op.before BY <2>11 DEF RecordActivity, SafetyOK, Untouched
    <3>2. folder' = folder BY <2>11 DEF RecordActivity
    <3>3. CASE Goto("extract") BY <3>1, <3>2, <3>3
    <3>4. CASE Goto("retain") BY <3>1, <3>2, <3>4
    <3>5. CASE Ends("failed") \/ Ends("ok")
      <4>1. op'.at = "done" /\ op'.kind = op.kind /\ op'.before = op.before BY <3>5
      <4> QED BY <3>1, <3>2, <4>1
    <3> QED BY <2>11, <3>3, <3>4, <3>5 DEF RecordActivity
  <2>12. ASSUME NEW r \in Roots, CopyRoot(r) PROVE RollbackOK' /\ RolledBackIsOld'
      BY <2>12 DEF CopyRoot
  <2>13. ASSUME NEW error \in Errors, CopyStops(error) PROVE RollbackOK' /\ RolledBackIsOld'
      BY <2>13 DEF CopyStops
  <2>14. ASSUME NEW error \in Errors, ZipStops(error) PROVE RollbackOK' /\ RolledBackIsOld'
    <3>1. op.kind = "safety" => folder = op.before BY <2>14 DEF ZipStops, SafetyOK, Untouched
    <3>2. folder' = folder /\ op'.kind = op.kind /\ op'.before = op.before BY <2>14 DEF ZipStops
    <3>3. op'.at \notin Replacing BY <2>14 DEF ZipStops
    <3> QED BY <3>1, <3>2, <3>3
  <2> QED BY <1>16, <2>1, <2>2, <2>3, <2>4, <2>5, <2>6, <2>7, <2>8, <2>9, <2>10, <2>11, <2>12,
                    <2>13, <2>14 DEF BackupStep
<1>17. CASE RetainStep
  <2>1. CASE Retain BY <2>1 DEF Retain
  <2>2. CASE RetainDb
    <3> SUFFICES op'.kind # "safety" OBVIOUS
    <3> QED BY <2>2 DEF RetainDb, Retaining
  <2>3. CASE RetainMem BY <2>3 DEF RetainMem
  <2>4. CASE RetainEnds
    <3> SUFFICES op'.kind # "safety" OBVIOUS
    <3> QED BY <2>4 DEF RetainEnds, Retaining
  <2>5. ASSUME NEW i \in Ids, RetainNext(i) PROVE RollbackOK' /\ RolledBackIsOld'
    <3> SUFFICES op'.kind # "safety" OBVIOUS
    <3> QED BY <2>5 DEF RetainNext, Retaining
  <2> QED BY <1>17, <2>1, <2>2, <2>3, <2>4, <2>5 DEF RetainStep
<1>18. CASE RestoreStep
  <2>1. CASE Extract
    <3>1. op.kind = "safety" => folder = op.before BY <2>1 DEF Extract, SafetyOK, Untouched
    <3>2. /\ folder' = folder /\ rollback' = Nothing
          /\ op'.at = "replace" /\ op'.kind = op.kind /\ op'.before = op.before
          /\ op'.todo = op'.roots
        BY <2>1 DEF Extract
    <3>3. \A r \in Roots : rollback'[r] = None BY <3>2 DEF Nothing
    <3> QED BY <3>1, <3>2, <3>3
  <2>2. CASE CopyBack
    <3>1. /\ op'.at = "replace" /\ op'.todo = op.todo \ {op.cur} /\ op'.roots = op.roots
          /\ op'.kind = op.kind /\ op'.before = op.before /\ rollback' = rollback
        BY <2>2 DEF CopyBack
    <3>2. \A r \in Roots : r # op.cur => folder'[r] = folder[r] BY <2>2 DEF CopyBack, Data
    <3>3. op.cur \in op.roots BY <2>2 DEF CopyBack
    <3> QED BY <2>2, <3>1, <3>2, <3>3 DEF CopyBack
  <2>3. CASE UndoDeleted BY <2>3 DEF UndoDeleted
  <2>4. CASE UndoEnds BY <2>4 DEF UndoEnds
  <2>5. CASE UndoFails BY <2>5 DEF UndoFails
  <2>6. CASE ReplaceEnds BY <2>6 DEF ReplaceEnds
  <2>7. CASE Settle
    <3>1. PICK result \in {"ok", "replaced"} : Ends(result) BY <2>7 DEF Settle
    <3>2. op'.at = "done" /\ op'.result = result BY <3>1
    <3> QED BY <3>2 DEF Errors
  <2>8. ASSUME NEW r \in Roots, MoveAway(r) PROVE RollbackOK' /\ RolledBackIsOld'
      BY <2>8 DEF MoveAway
  <2>9. ASSUME NEW r \in Roots, UndoDelete(r) PROVE RollbackOK' /\ RolledBackIsOld'
    <3>1. /\ op'.at = "undoDelete" /\ op'.todo = op.todo \ {r}
          /\ op'.kind = op.kind /\ op'.before = op.before /\ rollback' = rollback
        BY <2>9 DEF UndoDelete
    <3>2. \A s \in Roots : folder'[s] = IF s = r THEN None ELSE folder[s] BY <2>9 DEF UndoDelete, Data
    <3> QED BY <2>9, <3>1, <3>2 DEF UndoDelete
  <2>10. ASSUME NEW r \in Roots, UndoMove(r) PROVE RollbackOK' /\ RolledBackIsOld'
      BY <2>10 DEF UndoMove
  <2>11. ASSUME NEW error \in Errors, ExtractFails(error) PROVE RollbackOK' /\ RolledBackIsOld'
    <3>1. op.kind = "safety" => folder = op.before BY <2>11 DEF ExtractFails, SafetyOK, Untouched
    <3>2. folder' = folder /\ op'.kind = op.kind /\ op'.before = op.before BY <2>11 DEF ExtractFails
    <3>3. op'.at \notin Replacing BY <2>11 DEF ExtractFails
    <3> QED BY <3>1, <3>2, <3>3
  <2>12. ASSUME NEW error \in Errors, ReplaceStops(error) PROVE RollbackOK' /\ RolledBackIsOld'
      BY <2>12 DEF ReplaceStops
  <2>13. ASSUME NEW error \in Errors, CopyBackStops(error) PROVE RollbackOK' /\ RolledBackIsOld'
    <3>1. /\ op'.at = "undoDelete" /\ op'.todo = op.roots
          /\ op'.kind = op.kind /\ op'.before = op.before /\ rollback' = rollback
        BY <2>13 DEF CopyBackStops
    <3>2. \A s \in Roots : s # op.cur => folder'[s] = folder[s] BY <2>13 DEF CopyBackStops, Data
    <3>3. op.cur \in op.roots BY <2>13 DEF CopyBackStops
    <3> QED BY <2>13, <3>1, <3>2, <3>3 DEF CopyBackStops
  <2> QED BY <1>18, <2>1, <2>2, <2>3, <2>4, <2>5, <2>6, <2>7, <2>8, <2>9, <2>10, <2>11, <2>12,
                    <2>13 DEF RestoreStep
<1> QED BY <1>1, <1>2, <1>3, <1>4, <1>5, <1>6, <1>7, <1>8, <1>9, <1>10, <1>11, <1>12, <1>13,
           <1>14, <1>15, <1>16, <1>17, <1>18 DEF Next, OperationStep
-----------------------------------------------------------------------------
(* Retention leaves the newest backup alone.                                 *)
LEMMA NewestStep == ASSUME TypeOK, ArchiveOK, NewestOK, Next PROVE NewestOK'
<1> USE DEF NewestOK, ClockWasSetBack, ArchiveOK, TypeOK, Operation, lists, java, At, Goto, Ends
<1>1. CASE ServerStarts BY <1>1 DEF ServerStarts
<1>2. CASE PlayersBuild BY <1>2 DEF PlayersBuild
<1>3. CASE Autosave BY <1>3 DEF Autosave
<1>4. CASE ServerStops BY <1>4 DEF ServerStops
<1>5. CASE JavaExits BY <1>5 DEF JavaExits
<1>6. CASE DeleteRow BY <1>6 DEF DeleteRow
<1>7. CASE DeleteMem BY <1>7 DEF DeleteMem
<1>8. CASE AppDies BY <1>8 DEF AppDies, NoOperation
<1>9. CASE Return BY <1>9 DEF Return, NoOperation
<1>10. ASSUME NEW r \in Roots, JavaWrites(r) PROVE NewestOK' BY <1>10 DEF JavaWrites
<1>11. ASSUME NEW r \in Roots, RemoveRoot(r) PROVE NewestOK' BY <1>11 DEF RemoveRoot
<1>12. ASSUME NEW w \in Worlds, EditLevel(w) PROVE NewestOK' BY <1>12 DEF EditLevel
<1>13. ASSUME NEW kind \in Kinds, BackupBegins(kind) PROVE NewestOK'
    BY <1>13 DEF BackupBegins, NoOperation
<1>14. ASSUME NEW i \in Ids, RestoreBegins(i) PROVE NewestOK'
    BY <1>14 DEF RestoreBegins, NoOperation
<1>15. ASSUME NEW i \in Ids, DeleteFile(i) PROVE NewestOK' BY <1>15 DEF DeleteFile
<1>16. CASE BackupStep
  <2>1. CASE SendSaveOff
    <3>1. CASE Goto("roots") BY <2>1, <3>1 DEF SendSaveOff
    <3>2. CASE Goto("flush") BY <2>1, <3>2 DEF SendSaveOff
    <3>3. CASE Ends("failed") BY <2>1, <3>3 DEF SendSaveOff
    <3> QED BY <2>1, <3>1, <3>2, <3>3 DEF SendSaveOff
  <2>2. CASE SendFlush BY <2>2 DEF SendFlush
  <2>3. CASE ListRoots BY <2>3 DEF ListRoots
  <2>4. CASE CopyEnds BY <2>4 DEF CopyEnds
  <2>5. CASE SendSaveOn BY <2>5 DEF SendSaveOn
  <2>6. CASE ZipBegins BY <2>6 DEF ZipBegins
  <2>7. CASE ZipEnds BY <2>7 DEF ZipEnds
  <2>8. CASE SaveRow BY <2>8 DEF SaveRow
  <2>9. CASE SaveRowFails BY <2>9 DEF SaveRowFails
  <2>10. CASE ListBackup BY <2>10 DEF ListBackup
  <2>11. CASE RecordActivity
    <3>1. CASE Ends("failed") \/ Ends("ok") BY <2>11, <3>1 DEF RecordActivity
    <3>2. CASE Goto("extract") BY <2>11, <3>2 DEF RecordActivity
    <3>3. CASE Goto("retain") BY <2>11, <3>3 DEF RecordActivity
    <3> QED BY <2>11, <3>1, <3>2, <3>3 DEF RecordActivity
  <2>12. ASSUME NEW r \in Roots, CopyRoot(r) PROVE NewestOK' BY <2>12 DEF CopyRoot
  <2>13. ASSUME NEW error \in Errors, CopyStops(error) PROVE NewestOK' BY <2>13 DEF CopyStops
  <2>14. ASSUME NEW error \in Errors, ZipStops(error) PROVE NewestOK' BY <2>14 DEF ZipStops
  <2> QED BY <1>16, <2>1, <2>2, <2>3, <2>4, <2>5, <2>6, <2>7, <2>8, <2>9, <2>10, <2>11, <2>12,
                    <2>13, <2>14 DEF BackupStep
<1>17. CASE RetainStep
  <2>1. CASE Retain
    <3>0. PICK old \in SUBSET Scheduled :
             Oldest(old, Keep) /\ op' = [op EXCEPT !.at = "retainNext", !.old = old]
        BY <2>1 DEF Retain
    <3>1. /\ op'.at = "retainNext" /\ op'.id = op.id
          /\ op'.old = old /\ made' = made
        BY <2>1, <3>0 DEF Retain
    <3>2. op.id = next /\ Scheduled \subseteq 1..next BY <2>1 DEF Retain, Scheduled
    <3>3. ASSUME op.id \in old PROVE \E j \in 1..(op.id - 1) : made[j] >= made[op.id]
      <4>1. Cardinality(Scheduled \ old) = Keep BY <3>0, <3>3 DEF Oldest
      <4>2. Scheduled \ old # {} BY <4>1, FS_EmptySet, KeepAssumption
      <4>3. PICK j \in Scheduled \ old : TRUE BY <4>2
      <4>4. j \in 1..(op.id - 1) BY <3>2, <3>3, <4>3, BoundsAssumption
      <4>5. made[op.id] <= made[j] BY <3>0, <3>3, <4>3 DEF Oldest
      <4>6. made[j] \in Nat /\ made[op.id] \in Nat
          BY <3>0, <3>3, <4>3, BoundsAssumption DEF Scheduled, Times
      <4> QED BY <4>4, <4>5, <4>6
    <3> QED BY <3>1, <3>3
  <2>2. CASE RetainDb BY <2>2 DEF RetainDb
  <2>3. CASE RetainMem BY <2>3 DEF RetainMem
  <2>4. CASE RetainEnds BY <2>4 DEF RetainEnds
  <2>5. ASSUME NEW i \in Ids, RetainNext(i) PROVE NewestOK'
    <3>1. CASE op' = [op EXCEPT !.at = "retainDb", !.target = i] BY <2>5, <3>1 DEF RetainNext
    <3>2. CASE Ends("failed") BY <3>2
    <3> QED BY <2>5, <3>1, <3>2 DEF RetainNext
  <2> QED BY <1>17, <2>1, <2>2, <2>3, <2>4, <2>5 DEF RetainStep
<1>18. CASE RestoreStep
  <2>1. CASE Extract BY <2>1 DEF Extract
  <2>2. CASE CopyBack BY <2>2 DEF CopyBack
  <2>3. CASE UndoDeleted BY <2>3 DEF UndoDeleted
  <2>4. CASE UndoEnds BY <2>4 DEF UndoEnds
  <2>5. CASE UndoFails BY <2>5 DEF UndoFails
  <2>6. CASE ReplaceEnds BY <2>6 DEF ReplaceEnds
  <2>7. CASE Settle BY <2>7 DEF Settle
  <2>8. ASSUME NEW r \in Roots, MoveAway(r) PROVE NewestOK' BY <2>8 DEF MoveAway
  <2>9. ASSUME NEW r \in Roots, UndoDelete(r) PROVE NewestOK' BY <2>9 DEF UndoDelete
  <2>10. ASSUME NEW r \in Roots, UndoMove(r) PROVE NewestOK' BY <2>10 DEF UndoMove
  <2>11. ASSUME NEW error \in Errors, ExtractFails(error) PROVE NewestOK'
      BY <2>11 DEF ExtractFails
  <2>12. ASSUME NEW error \in Errors, ReplaceStops(error) PROVE NewestOK'
      BY <2>12 DEF ReplaceStops
  <2>13. ASSUME NEW error \in Errors, CopyBackStops(error) PROVE NewestOK'
      BY <2>13 DEF CopyBackStops
  <2> QED BY <1>18, <2>1, <2>2, <2>3, <2>4, <2>5, <2>6, <2>7, <2>8, <2>9, <2>10, <2>11, <2>12,
                    <2>13 DEF RestoreStep
<1> QED BY <1>1, <1>2, <1>3, <1>4, <1>5, <1>6, <1>7, <1>8, <1>9, <1>10, <1>11, <1>12, <1>13,
           <1>14, <1>15, <1>16, <1>17, <1>18 DEF Next, OperationStep
-----------------------------------------------------------------------------
(* All of it, for every step and every behaviour. *)
LEMMA StepOK == IInv /\ [Next]_vars => IInv'
<1> SUFFICES ASSUME IInv, [Next]_vars PROVE IInv'
    OBVIOUS
<1>1. CASE Next
  <2>1. TypeOK' BY <1>1, TypeStep DEF IInv
  <2>2. SavingOK' BY <1>1, SavingStep DEF IInv
  <2>3. RestoreOK' BY <1>1, RestoreStepOK DEF IInv
  <2>4. ArchiveOK' /\ ListedAreComplete' BY <1>1, ArchiveStep DEF IInv
  <2>5. TargetOK' BY <1>1, TargetStep DEF IInv
  <2>6. SafetyOK' BY <1>1, SafetyStep DEF IInv
  <2>7. RollbackOK' /\ RolledBackIsOld' BY <1>1, RollbackStep DEF IInv
  <2>8. NewestOK' BY <1>1, NewestStep DEF IInv
  <2> QED BY <2>1, <2>2, <2>3, <2>4, <2>5, <2>6, <2>7, <2>8 DEF IInv
<1>2. CASE UNCHANGED vars
  <2> USE <1>2 DEF vars
  <2>1. TypeOK' BY DEF IInv, TypeOK
  <2>2. SavingOK' BY DEF IInv, SavingOK
  <2>3. RestoreOK' BY DEF IInv, RestoreOK
  <2>4. ArchiveOK' /\ ListedAreComplete' BY DEF IInv, ArchiveOK, ListedAreComplete
  <2>5. TargetOK' BY DEF IInv, TargetOK
  <2>6. SafetyOK' BY DEF IInv, SafetyOK, Copied, Zipped
  <2>7. RollbackOK' /\ RolledBackIsOld' BY DEF IInv, RollbackOK, RolledBack, RolledBackIsOld
  <2>8. NewestOK' BY DEF IInv, NewestOK, ClockWasSetBack
  <2> QED BY <2>1, <2>2, <2>3, <2>4, <2>5, <2>6, <2>7, <2>8 DEF IInv
<1> QED BY <1>1, <1>2

\* The inductive invariant holds in every state of create_backup, restore_backup,
\* delete_backup and the server around them.
THEOREM BackupInvariance == Spec => []IInv
BY InitOK, StepOK, PTL DEF Spec

\* create_backup, however it ends, has sent save-on to a server that still runs.
THEOREM SavingReturns == Spec => []AutosaveComesBack
<1>1. IInv => AutosaveComesBack BY DEF IInv, SavingOK, AutosaveComesBack, Copying
<1> QED BY <1>1, BackupInvariance, PTL

\* restore_backup has the folder for itself: no Java process runs meanwhile.
THEOREM RestoreAlone == Spec => []RestoreRunsAlone
<1>1. IInv => RestoreRunsAlone BY DEF IInv, RestoreOK, RestoreRunsAlone, Replacing
<1> QED BY <1>1, BackupInvariance, PTL

\* restore_backup touches the folder only when the safety backup holds the
\* played world as the restore found it.
THEOREM SafetyFirst == Spec => []PlayedWorldIsSafe
<1>1. IInv => PlayedWorldIsSafe
    BY DEF IInv, RestoreOK, SafetyOK, Zipped, Archived, PlayedWorldIsSafe, Replacing
<1> QED BY <1>1, BackupInvariance, PTL

\* The backups the window lists, also after a crash, are complete archives.
THEOREM CompleteList == Spec => []ListedAreComplete
BY BackupInvariance, PTL DEF IInv

\* rollback_roots, when it comes to its end, leaves no root of the archive in
\* the folder.
THEOREM RollbackIsClean == Spec => []RolledBackIsOld
BY BackupInvariance, PTL DEF IInv

\* apply_retention deletes only backups that are not the one just made.
THEOREM NewestSurvives == Spec => NewestIsKept
<1>1. IInv /\ [Next]_vars => [op.at = "retainNext" /\ op'.at = "retainDb" =>
                                    op'.target # op.id \/ ClockWasSetBack(op.id)]_vars
  <2> SUFFICES ASSUME IInv, Next, op.at = "retainNext", op'.at = "retainDb"
               PROVE  op'.target # op.id \/ ClockWasSetBack(op.id)
      BY DEF vars
  <2>1. op.id \notin op.old \/ ClockWasSetBack(op.id) BY DEF IInv, NewestOK
  <2>2. op.at = "retainNext" /\ op'.at = "retainDb" => \E i \in op.old : op'.target = i
    <3> USE DEF TypeOK, Operation, IInv, At, Goto, Ends, lists, java
    <3>1. CASE ~ RetainStep
      <4>1. op'.at # "retainDb"
        <5>1. CASE BackupStep
          BY <5>1 DEF BackupStep, SendSaveOff, SendFlush, ListRoots, CopyEnds, SendSaveOn, ZipBegins,
                ZipEnds, SaveRow, SaveRowFails, ListBackup, RecordActivity, CopyRoot, CopyStops, ZipStops
        <5>2. CASE RestoreStep \/ Return
          BY <5>2 DEF RestoreStep, Extract, CopyBack, UndoDeleted, UndoEnds, UndoFails, ReplaceEnds, Settle,
                MoveAway, UndoDelete, UndoMove, ExtractFails, ReplaceStops, CopyBackStops, Return, NoOperation
        <5>3. CASE ~ OperationStep
          BY <5>3 DEF Next, ServerStarts, PlayersBuild, Autosave, ServerStops, JavaExits, JavaWrites, RemoveRoot,
                EditLevel, BackupBegins, RestoreBegins, DeleteFile, DeleteRow, DeleteMem, AppDies, NoOperation
        <5> QED BY <3>1, <5>1, <5>2, <5>3 DEF OperationStep
      <4> QED BY <4>1
    <3>2. CASE RetainStep
      BY <3>2 DEF RetainStep, Retain, RetainDb, RetainMem, RetainEnds, RetainNext
    <3> QED BY <3>1, <3>2
  <2> QED BY <2>1, <2>2
<1> QED BY <1>1, BackupInvariance, PTL DEF Spec, NewestIsKept
===========================================================================
