-------------------------- MODULE Creation_proofs --------------------------
(***************************************************************************)
(* Proofs about Creation: what is registered is whole and was checked, and *)
(* what was there is not overwritten, for any number of tasks, names,      *)
(* folders and files.                                                      *)
(***************************************************************************)
EXTENDS Creation, TLAPS

(* The pieces a staging folder holds at each step, and those a kind needs. *)
LEMMA FilledIs ==
    \A l \in Labels : \A x : x \in Filled[l] <=>
        \/ l = "world" /\ x = "dir"
        \/ l = "jar" /\ x \in {"dir", "world"}
        \/ l = "loader" /\ x \in {"dir", "world", "jar"}
        \/ l = "overlay" /\ x \in {"dir", "world", "jar", "loader"}
        \/ l = "settings" /\ x \in Pieces \ {"settings"}
        \/ l \in {"commit", "copy", "copying"} /\ x \in Pieces
BY DEF Filled, Labels, Pieces

LEMMA NeededIs ==
    \A t \in Tasks : \A x : x \in Needed(t) <=>
        \/ x \in {"dir", "jar", "settings"}
        \/ x = "world" /\ Kind(t) = "quick"
        \/ x = "pack" /\ IsPack(t)
        \/ x = "loader" /\ plan[t].loader
BY DEF Needed

LEMMA CommittedIsFilled ==
    ASSUME TypeOK, StagingInv, NEW t \in Tasks, at[t] = "commit" \/ at[t] = "copy" \/ at[t] = "copying"
    PROVE  Needed(t) \subseteq staging[t]
<1>1. at[t] \in Labels
  BY DEF TypeOK
<1>2. Needed(t) \subseteq Pieces
  BY NeededIs DEF Pieces
<1>3. Pieces \subseteq Filled[at[t]]
  BY <1>1, FilledIs
<1>4. Needed(t) \cap Filled[at[t]] \subseteq staging[t]
  BY DEF StagingInv
<1> QED BY <1>2, <1>3, <1>4

(* What a removal whose error is dropped leaves. *)
LEMMA ClearedIs ==
    ASSUME TypeOK, NEW t \in Tasks, NEW S \in Cleared(t)
    PROVE  /\ S \in [Tasks -> SUBSET Pieces]
           /\ S[t] # {} => plan[t].held
           /\ \A s \in Tasks \ {t} : S[s] = staging[s]
<1>1. PICK left \in {{}, staging[t] \cap {"dir"}} :
        S = [staging EXCEPT ![t] = left] /\ (left # {} => plan[t].held)
  BY DEF Cleared
<1> QED BY <1>1 DEF TypeOK

LEMMA WithoutIs ==
    ASSUME NEW set, NEW t \in Tasks, NEW S \in Without(set, t)
    PROVE  /\ S \subseteq set /\ set \ {t} \subseteq S
           /\ t \in S => plan[t].held
BY DEF Without

(* What a task that returns leaves. *)
Finished(t) ==
    /\ staging' \in [Tasks -> SUBSET Pieces]
    /\ IF at[t] \in Filling THEN staging'[t] # {} => plan[t].held ELSE staging' = staging
    /\ \A s \in Tasks \ {t} : staging'[s] = staging[s]
    /\ room' \subseteq room /\ room \ {t} \subseteq room'
    /\ t \in room' => plan[t].held
LEMMA FinishIs ==
    ASSUME TypeOK, NEW t \in Tasks, NEW result, Finish(t, result)
    PROVE  Finished(t)
<1>1. staging' \in (IF at[t] \in Filling THEN Cleared(t) ELSE {staging}) /\ room' \in Without(room, t)
  BY DEF Finish
<1>2. CASE at[t] \in Filling BY <1>1, <1>2, ClearedIs, WithoutIs DEF Finished
<1>3. CASE at[t] \notin Filling BY <1>1, <1>3, WithoutIs DEF Finished, TypeOK
<1> QED BY <1>2, <1>3

LEMMA FinishStaging ==
    ASSUME TypeOK, StagingInv, LeftInv, NEW t \in Tasks, at[t] # "done", NEW result, Finish(t, result)
    PROVE  StagingInv'
<1> USE DEF TypeOK
<1>0. Finished(t) BY FinishIs
<1>1. /\ at' = [at EXCEPT ![t] = "done"] /\ plan' = plan
      /\ end' = [end EXCEPT ![t] = result]
  BY DEF Finish, Goes
<1>2. ASSUME NEW s \in Tasks \ {t}
      PROVE  /\ (Needed(s) \cap Filled[at[s]] \subseteq staging[s])'
             /\ (staging[s] # {} => at[s] \in Filling \/ end[s] = "lost" \/ plan[s].held)'
  <2>1. /\ Needed(s)' = Needed(s) /\ at'[s] = at[s] /\ staging'[s] = staging[s]
        /\ end'[s] = end[s] /\ plan'[s] = plan[s]
    BY <1>0, <1>1 DEF Needed, Kind, IsPack, Finished
  <2> QED BY <2>1 DEF StagingInv
<1>3. /\ (Needed(t) \cap Filled[at[t]] \subseteq staging[t])'
      /\ (staging[t] # {} => at[t] \in Filling \/ end[t] = "lost" \/ plan[t].held)'
  <2>1. at'[t] = "done" /\ plan'[t] = plan[t] BY <1>1
  <2>2. \A x : x \notin Filled["done"] BY FilledIs DEF Labels
  <2>3. staging'[t] # {} => plan[t].held
    <3>1. CASE at[t] \in Filling BY <1>0, <3>1 DEF Finished
    <3>2. CASE at[t] \notin Filling
      <4>1. staging' = staging BY <1>0, <3>2 DEF Finished
      <4>3. end[t] # "lost" \/ at[t] = "done" BY DEF LeftInv
      <4> QED BY <3>2, <4>1, <4>3 DEF StagingInv
    <3> QED BY <3>1, <3>2
  <2> QED BY <2>1, <2>2, <2>3
<1> QED BY <1>2, <1>3 DEF StagingInv

LEMMA FinishLeft ==
    ASSUME TypeOK, StagingInv, LeftInv, NEW t \in Tasks, NEW result, Finish(t, result),
           result \in Results \ {"none"}, archive' \subseteq archive,
           t \in archive' => result \in {"failed", "lost"} \/ plan[t].held
    PROVE  LeftInv'
<1>0. Finished(t) BY FinishIs
<1>1. /\ at' = [at EXCEPT ![t] = "done"] /\ plan' = plan
      /\ end' = [end EXCEPT ![t] = result]
  BY DEF Finish, Goes
<1> QED BY <1>0, <1>1 DEF TypeOK, LeftInv, Finished, Labels, Active

LEMMA InitInv == Init => IInv
<1> SUFFICES ASSUME Init PROVE IInv OBVIOUS
<1>0. AName \in Names /\ NoPlan \in Plans /\ NoPlan.kind = "new"
  BY FoldersAssumption DEF AName, NoPlan, Plans, Kinds, Homes
<1>1. TypeOK BY <1>0, FoldersAssumption DEF Init, TypeOK, Labels, Active, Results, Pieces, Homes
<1>2. StagingInv /\ LeftInv
  BY FilledIs DEF Init, StagingInv, LeftInv, Labels, Active, Filling
<1>3. HomeInv BY <1>0, FoldersAssumption DEF Init, HomeInv, Homes, Filling
<1>4. PackInv BY <1>0 DEF Init, PackInv, Active, Kind
<1>5. QuickInv BY <1>0, FoldersAssumption DEF Init, QuickInv, Active, Kind, Quick
<1>6. OneQuickServer BY DEF Init, OneQuickServer
<1> QED BY <1>1, <1>2, <1>3, <1>4, <1>5, <1>6 DEF IInv

(* A call begins. *)
LEMMA AsksInv ==
    ASSUME IInv, NEW t \in Tasks, NEW p \in Plans, Asks(t, p),
           IF p.kind = "quick" THEN p.home = t ELSE p.home \in Folders
    PROVE  IInv'
<1> USE DEF IInv, Asks, Goes, disk, tables, tasks, around
<1>a. plan'[t] = p /\ \A s \in Tasks \ {t} : plan'[s] = plan[s] BY DEF TypeOK
<1>b. at'[t] = First(p.kind) /\ at[t] = "idle" /\ \A s \in Tasks \ {t} : at'[s] = at[s] BY DEF TypeOK
<1>c. /\ First(p.kind) \in {"manifest", "metadata", "inspect", "validate"}
      /\ p.kind = "modrinth" <=> First(p.kind) = "manifest"
  BY DEF First, Plans, Kinds
<1>d. \A s \in Tasks \ {t} : Needed(s)' = Needed(s) BY <1>a DEF Needed, Kind, IsPack
<1>1. TypeOK'
  BY <1>c DEF TypeOK, Labels, Plans
<1>2. StagingInv'
  BY <1>a, <1>b, <1>c, <1>d, FilledIs DEF TypeOK, StagingInv, LeftInv, Labels, Active, Filling
<1>3. LeftInv'
  BY <1>b, <1>c DEF TypeOK, LeftInv, Labels, Active
<1>4. HomeInv'
  BY <1>a, <1>b, <1>c, <1>d, FoldersAssumption
     DEF TypeOK, HomeInv, LeftInv, Filling, Labels, Active, Kind, Home, Late, Homes, Plans
<1>5. PackInv'
  BY <1>a, <1>b, <1>c DEF TypeOK, PackInv, LeftInv, HomeInv, Labels, Active, Kind, Late
<1>6. QuickInv'
  BY <1>a, <1>b, <1>c, FoldersAssumption
     DEF TypeOK, QuickInv, QuickIsFree, LeftInv, HomeInv, Labels, Active, Kind, Quick, Late
<1>7. OneQuickServer'
  <2>1. t \notin record' BY <1>b DEF HomeInv, Late
  <2>2. \A s \in Tasks \ {t} : Kind(s)' = Kind(s) BY <1>a DEF Kind
  <2> QED BY <2>1, <2>2 DEF OneQuickServer, Quick
<1> QED BY <1>1, <1>2, <1>3, <1>4, <1>5, <1>6, <1>7

LEMMA AskInv ==
    ASSUME IInv, NEW t \in Tasks, Ask(t) PROVE IInv'
<1>1. PICK kind \in Kinds, name \in Names : \E home \in HomesOf(t, kind, name),
         loader \in IF kind \in {"new", "modrinth", "curse"} THEN BOOLEAN ELSE {FALSE},
         files \in IF kind = "modrinth" THEN SUBSET Files ELSE {{}}, held \in BOOLEAN :
      \E bare \in SUBSET files :
        Asks(t, [loader |-> loader, files |-> files, held |-> held, bare |-> bare,
                 kind |-> kind, name |-> name, home |-> home])
  BY DEF Ask
<1>2. PICK home \in HomesOf(t, kind, name), loader \in BOOLEAN, files \in SUBSET Files, held \in BOOLEAN :
      \E bare \in SUBSET files :
        Asks(t, [loader |-> loader, files |-> files, held |-> held, bare |-> bare,
                 kind |-> kind, name |-> name, home |-> home])
  BY <1>1
<1>7. PICK bare \in SUBSET Files :
        Asks(t, [loader |-> loader, files |-> files, held |-> held, bare |-> bare,
                 kind |-> kind, name |-> name, home |-> home])
  BY <1>2
<1> DEFINE p == [loader |-> loader, files |-> files, held |-> held, bare |-> bare,
                 kind |-> kind, name |-> name, home |-> home]
<1>3. IF kind = "quick" THEN home = t ELSE home \in Folders
  BY FoldersAssumption DEF HomesOf, Kinds
<1>4. p \in Plans BY <1>3 DEF Plans, Homes
<1>5. IF p.kind = "quick" THEN p.home = t ELSE p.home \in Folders BY <1>3
<1>6. Asks(t, p) BY <1>7
<1> HIDE DEF p
<1> QED BY <1>4, <1>5, <1>6, AsksInv


LEMMA CancelInv ==
    ASSUME IInv, NEW t \in Tasks, Cancel(t) PROVE IInv'
<1> USE DEF IInv, Cancel, Goes, Proceed, Passes, Finish, Adds, disk, tables, tasks, around
<1>1. TypeOK'
  BY DEF TypeOK, Labels, Active, Results, Pieces, Homes, Kind, Home, IsPack
<1>2. StagingInv'
  <2>1. \A s \in Tasks : Needed(s)' = Needed(s) BY DEF Needed, Kind, IsPack
  <2> QED BY <2>1, FilledIs DEF TypeOK, StagingInv, LeftInv, Labels, Active, Filling
<1>3. LeftInv'
  BY DEF TypeOK, LeftInv, PackInv, Labels, Active, Results, Kind, IsPack
<1>4. HomeInv'
  BY DEF TypeOK, HomeInv, LeftInv, Filling, Labels, Active, Needed, Kind, Home, IsPack, Late, Homes
<1>5. PackInv'
  BY DEF TypeOK, PackInv, LeftInv, HomeInv, Labels, Active, Results, Kind
<1>6. QuickInv'
  BY FoldersAssumption DEF TypeOK, QuickInv, LeftInv, HomeInv, Labels, Active, Results, Kind, Quick
<1>7. OneQuickServer'
  BY FoldersAssumption DEF TypeOK, OneQuickServer, QuickInv, HomeInv, LeftInv, Labels, Active, Kind, Quick
<1> QED BY <1>1, <1>2, <1>3, <1>4, <1>5, <1>6, <1>7

LEMMA StopsCancelledInv ==
    ASSUME IInv, NEW t \in Tasks, StopsCancelled(t) PROVE IInv'
<1> USE DEF IInv, StopsCancelled, Goes, Proceed, Passes, Finish, Adds, disk, tables, tasks, around, Polls
<1>0. Finished(t) BY FinishIs
<1>z. archive' \subseteq archive /\ archive \ {t} \subseteq archive' /\ (t \in archive' => plan[t].held)
  BY WithoutIs
<1>1. TypeOK'
  BY <1>0, <1>z DEF Finished, TypeOK, Labels, Active, Results, Pieces, Homes, Kind, Home, IsPack
<1>2. StagingInv' BY FinishStaging
<1>3. LeftInv'
  BY <1>0, <1>z DEF Finished, TypeOK, LeftInv, PackInv, Labels, Active, Results, Kind, IsPack
<1>4. HomeInv'
  BY DEF TypeOK, HomeInv, LeftInv, Filling, Labels, Active, Needed, Kind, Home, IsPack, Late, Homes
<1>5. PackInv'
  BY DEF TypeOK, PackInv, LeftInv, HomeInv, Labels, Active, Results, Kind
<1>6. QuickInv'
  BY FoldersAssumption DEF TypeOK, QuickInv, LeftInv, HomeInv, Labels, Active, Results, Kind, Quick
<1>7. OneQuickServer'
  BY FoldersAssumption DEF TypeOK, OneQuickServer, QuickInv, HomeInv, LeftInv, Labels, Active, Kind, Quick
<1> QED BY <1>1, <1>2, <1>3, <1>4, <1>5, <1>6, <1>7

LEMMA FailsInv ==
    ASSUME IInv, NEW t \in Tasks, Fails(t) PROVE IInv'
<1> USE DEF IInv, Fails, Goes, Proceed, Passes, Finish, Adds, disk, tables, tasks, around, Fallible
<1>0. Finished(t) BY FinishIs
<1>1. TypeOK'
  BY <1>0 DEF Finished, TypeOK, Labels, Active, Results, Pieces, Homes, Kind, Home, IsPack
<1>2. StagingInv' BY FinishStaging DEF Active
<1>3. LeftInv'
  BY <1>0 DEF Finished, TypeOK, LeftInv, PackInv, Labels, Active, Results, Kind, IsPack
<1>4. HomeInv'
  BY DEF TypeOK, HomeInv, LeftInv, Filling, Labels, Active, Needed, Kind, Home, IsPack, Late, Homes
<1>5. PackInv'
  BY DEF TypeOK, PackInv, LeftInv, HomeInv, Labels, Active, Results, Kind
<1>6. QuickInv'
  BY FoldersAssumption DEF TypeOK, QuickInv, LeftInv, HomeInv, Labels, Active, Results, Kind, Quick
<1>7. OneQuickServer'
  BY FoldersAssumption DEF TypeOK, OneQuickServer, QuickInv, HomeInv, LeftInv, Labels, Active, Kind, Quick
<1> QED BY <1>1, <1>2, <1>3, <1>4, <1>5, <1>6, <1>7

LEMMA StallInv ==
    ASSUME IInv, NEW t \in Tasks, Stall(t) PROVE IInv'
<1> USE DEF IInv, Stall, Goes, Proceed, Passes, Finish, Adds, disk, tables, tasks, around, Transfers
<1>1. TypeOK'
  BY DEF TypeOK, Labels, Active, Results, Pieces, Homes, Kind, Home, IsPack
<1>2. StagingInv'
  <2>1. \A s \in Tasks : Needed(s)' = Needed(s) BY DEF Needed, Kind, IsPack
  <2> QED BY <2>1, FilledIs DEF TypeOK, StagingInv, LeftInv, Labels, Active, Filling
<1>3. LeftInv'
  BY DEF TypeOK, LeftInv, PackInv, Labels, Active, Results, Kind, IsPack
<1>4. HomeInv'
  BY DEF TypeOK, HomeInv, LeftInv, Filling, Labels, Active, Needed, Kind, Home, IsPack, Late, Homes
<1>5. PackInv'
  BY DEF TypeOK, PackInv, LeftInv, HomeInv, Labels, Active, Results, Kind
<1>6. QuickInv'
  BY FoldersAssumption DEF TypeOK, QuickInv, LeftInv, HomeInv, Labels, Active, Results, Kind, Quick
<1>7. OneQuickServer'
  BY FoldersAssumption DEF TypeOK, OneQuickServer, QuickInv, HomeInv, LeftInv, Labels, Active, Kind, Quick
<1> QED BY <1>1, <1>2, <1>3, <1>4, <1>5, <1>6, <1>7

LEMMA ResumeInv ==
    ASSUME IInv, NEW t \in Tasks, Resume(t) PROVE IInv'
<1> USE DEF IInv, Resume, Goes, Proceed, Passes, Finish, Adds, disk, tables, tasks, around
<1>1. TypeOK'
  BY DEF TypeOK, Labels, Active, Results, Pieces, Homes, Kind, Home, IsPack
<1>2. StagingInv'
  <2>1. \A s \in Tasks : Needed(s)' = Needed(s) BY DEF Needed, Kind, IsPack
  <2> QED BY <2>1, FilledIs DEF TypeOK, StagingInv, LeftInv, Labels, Active, Filling
<1>3. LeftInv'
  BY DEF TypeOK, LeftInv, PackInv, Labels, Active, Results, Kind, IsPack
<1>4. HomeInv'
  BY DEF TypeOK, HomeInv, LeftInv, Filling, Labels, Active, Needed, Kind, Home, IsPack, Late, Homes
<1>5. PackInv'
  BY DEF TypeOK, PackInv, LeftInv, HomeInv, Labels, Active, Results, Kind
<1>6. QuickInv'
  BY FoldersAssumption DEF TypeOK, QuickInv, LeftInv, HomeInv, Labels, Active, Results, Kind, Quick
<1>7. OneQuickServer'
  BY FoldersAssumption DEF TypeOK, OneQuickServer, QuickInv, HomeInv, LeftInv, Labels, Active, Kind, Quick
<1> QED BY <1>1, <1>2, <1>3, <1>4, <1>5, <1>6, <1>7

LEMMA MetadataInv ==
    ASSUME IInv, NEW t \in Tasks, Metadata(t) PROVE IInv'
<1> USE DEF IInv, Metadata, Goes, Proceed, Passes, Finish, Adds, disk, tables, tasks, around
<1>1. TypeOK'
  BY DEF TypeOK, Labels, Active, Results, Pieces, Homes, Kind, Home, IsPack
<1>2. StagingInv'
  <2>1. \A s \in Tasks : Needed(s)' = Needed(s) BY DEF Needed, Kind, IsPack
  <2> QED BY <2>1, FilledIs DEF TypeOK, StagingInv, LeftInv, Labels, Active, Filling
<1>3. LeftInv'
  BY DEF TypeOK, LeftInv, PackInv, Labels, Active, Results, Kind, IsPack
<1>4. HomeInv'
  BY DEF TypeOK, HomeInv, LeftInv, Filling, Labels, Active, Needed, Kind, Home, IsPack, Late, Homes
<1>5. PackInv'
  BY DEF TypeOK, PackInv, LeftInv, HomeInv, Labels, Active, Results, Kind
<1>6. QuickInv'
  BY FoldersAssumption DEF TypeOK, QuickInv, LeftInv, HomeInv, Labels, Active, Results, Kind, Quick
<1>7. OneQuickServer'
  BY FoldersAssumption DEF TypeOK, OneQuickServer, QuickInv, HomeInv, LeftInv, Labels, Active, Kind, Quick
<1> QED BY <1>1, <1>2, <1>3, <1>4, <1>5, <1>6, <1>7

LEMMA ServerPackInv ==
    ASSUME IInv, NEW t \in Tasks, ServerPack(t) PROVE IInv'
<1> USE DEF IInv, ServerPack, Goes, Proceed, Passes, Finish, Adds, disk, tables, tasks, around
<1>1. TypeOK'
  BY DEF TypeOK, Labels, Active, Results, Pieces, Homes, Kind, Home, IsPack
<1>2. StagingInv'
  <2>1. \A s \in Tasks : Needed(s)' = Needed(s) BY DEF Needed, Kind, IsPack
  <2> QED BY <2>1, FilledIs DEF TypeOK, StagingInv, LeftInv, Labels, Active, Filling
<1>3. LeftInv'
  BY DEF TypeOK, LeftInv, PackInv, Labels, Active, Results, Kind, IsPack
<1>4. HomeInv'
  BY DEF TypeOK, HomeInv, LeftInv, Filling, Labels, Active, Needed, Kind, Home, IsPack, Late, Homes
<1>5. PackInv'
  BY DEF TypeOK, PackInv, LeftInv, HomeInv, Labels, Active, Results, Kind
<1>6. QuickInv'
  BY FoldersAssumption DEF TypeOK, QuickInv, LeftInv, HomeInv, Labels, Active, Results, Kind, Quick
<1>7. OneQuickServer'
  BY FoldersAssumption DEF TypeOK, OneQuickServer, QuickInv, HomeInv, LeftInv, Labels, Active, Kind, Quick
<1> QED BY <1>1, <1>2, <1>3, <1>4, <1>5, <1>6, <1>7

LEMMA ManifestInv ==
    ASSUME IInv, NEW t \in Tasks, Manifest(t) PROVE IInv'
<1> USE DEF IInv, Manifest, Goes, Proceed, Passes, Finish, Adds, disk, tables, tasks, around
<1>1. TypeOK'
  BY DEF TypeOK, Labels, Active, Results, Pieces, Homes, Kind, Home, IsPack
<1>2. StagingInv'
  <2>1. \A s \in Tasks : Needed(s)' = Needed(s) BY DEF Needed, Kind, IsPack
  <2> QED BY <2>1, FilledIs DEF TypeOK, StagingInv, LeftInv, Labels, Active, Filling
<1>3. LeftInv'
  BY DEF TypeOK, LeftInv, PackInv, Labels, Active, Results, Kind, IsPack
<1>4. HomeInv'
  BY DEF TypeOK, HomeInv, LeftInv, Filling, Labels, Active, Needed, Kind, Home, IsPack, Late, Homes
<1>5. PackInv'
  BY DEF TypeOK, PackInv, LeftInv, HomeInv, Labels, Active, Results, Kind
<1>6. QuickInv'
  BY FoldersAssumption DEF TypeOK, QuickInv, LeftInv, HomeInv, Labels, Active, Results, Kind, Quick
<1>7. OneQuickServer'
  BY FoldersAssumption DEF TypeOK, OneQuickServer, QuickInv, HomeInv, LeftInv, Labels, Active, Kind, Quick
<1> QED BY <1>1, <1>2, <1>3, <1>4, <1>5, <1>6, <1>7

LEMMA FetchesEndInv ==
    ASSUME IInv, NEW t \in Tasks, FetchesEnd(t) PROVE IInv'
<1> USE DEF IInv, FetchesEnd, Goes, Proceed, Passes, Finish, Adds, disk, tables, tasks, around, JobsEnd, Settled
<1>1. TypeOK'
  <2>1. CASE err[t] = "none"
    BY <2>1 DEF TypeOK, Labels, Active, Results, Pieces, Homes, Kind, Home, IsPack
  <2>2. CASE err[t] # "none"
    <3>1. err[t] \in Results BY DEF TypeOK, Results
    <3>2. Finished(t) BY <2>2, FinishIs
    <3> QED BY <2>2, <3>1, <3>2 DEF Finished, TypeOK, Labels, Active, Results, Pieces, Homes, Kind, Home, IsPack
  <2> QED BY <2>1, <2>2
<1>2. StagingInv'
  <2>1. \A s \in Tasks : Needed(s)' = Needed(s) BY DEF Needed, Kind, IsPack
  <2>2. CASE err[t] = "none"
    BY <2>1, <2>2, FilledIs DEF TypeOK, StagingInv, LeftInv, Labels, Active, Filling
  <2>3. CASE err[t] # "none"
    BY <2>3, FinishStaging
  <2> QED BY <2>2, <2>3
<1>3. LeftInv'
  <2>1. CASE err[t] = "none"
    BY <2>1 DEF TypeOK, LeftInv, PackInv, Labels, Active, Results, Kind, IsPack
  <2>2. CASE err[t] # "none"
    <3>1. Finish(t, err[t]) /\ archive' = archive BY <2>2
    <3>2. err[t] \in Results \ {"none"} BY <2>2 DEF TypeOK, Results
    <3>3. t \in archive => plan[t].held BY DEF LeftInv
    <3> HIDE DEF Finish
    <3> QED BY <3>1, <3>2, <3>3, FinishLeft
  <2> QED BY <2>1, <2>2
<1>4. HomeInv'
  BY DEF TypeOK, HomeInv, LeftInv, Filling, Labels, Active, Needed, Kind, Home, IsPack, Late, Homes
<1>5. PackInv'
  BY DEF TypeOK, PackInv, LeftInv, HomeInv, Labels, Active, Results, Kind
<1>6. QuickInv'
  <2>1. /\ at[t] = "fetch" /\ UNCHANGED <<plan, record, running>>
        /\ \/ at' = [at EXCEPT ![t] = "verify"] /\ lock' = lock
           \/ at' = [at EXCEPT ![t] = "done"] /\ lock' = IF lock = t THEN None ELSE lock
    OBVIOUS
  <2> HIDE DEF FetchesEnd, Proceed, Finish, JobsEnd, IInv
  <2>2. TypeOK /\ QuickInv BY DEF IInv
  <2>3. \A s \in Tasks : (lock' = s) <=> Kind(s) = "quick" /\ at'[s] \in Active
    <3>1. \A s \in Tasks : (lock = s) <=> Kind(s) = "quick" /\ at[s] \in Active BY <2>2 DEF QuickInv
    <3>2. CASE at' = [at EXCEPT ![t] = "verify"] /\ lock' = lock
      BY <3>1, <3>2, <2>1, <2>2 DEF TypeOK, Labels, Active
    <3>3. CASE at' = [at EXCEPT ![t] = "done"] /\ lock' = IF lock = t THEN None ELSE lock
      BY <3>1, <3>3, <2>1, <2>2, FoldersAssumption DEF TypeOK, Active
    <3> QED BY <2>1, <3>2, <3>3
  <2>4. lock' \in {lock, None} BY <2>1
  <2> QED BY <2>1, <2>2, <2>3, <2>4 DEF TypeOK, QuickInv, Kind, Quick
<1>7. OneQuickServer'
  BY FoldersAssumption DEF TypeOK, OneQuickServer, QuickInv, HomeInv, LeftInv, Labels, Active, Kind, Quick
<1> QED BY <1>1, <1>2, <1>3, <1>4, <1>5, <1>6, <1>7

LEMMA ChecksEndInv ==
    ASSUME IInv, NEW t \in Tasks, ChecksEnd(t) PROVE IInv'
<1> USE DEF IInv, ChecksEnd, Goes, Proceed, Passes, Finish, Adds, disk, tables, tasks, around, JobsEnd, Settled
<1>1. TypeOK'
  <2>1. CASE err[t] = "none"
    BY <2>1 DEF TypeOK, Labels, Active, Results, Pieces, Homes, Kind, Home, IsPack
  <2>2. CASE err[t] # "none"
    <3>1. err[t] \in Results BY DEF TypeOK, Results
    <3>2. Finished(t) BY <2>2, FinishIs
    <3> QED BY <2>2, <3>1, <3>2 DEF Finished, TypeOK, Labels, Active, Results, Pieces, Homes, Kind, Home, IsPack
  <2> QED BY <2>1, <2>2
<1>2. StagingInv'
  <2>1. \A s \in Tasks : Needed(s)' = Needed(s) BY DEF Needed, Kind, IsPack
  <2>2. CASE err[t] = "none"
    BY <2>1, <2>2, FilledIs DEF TypeOK, StagingInv, LeftInv, Labels, Active, Filling
  <2>3. CASE err[t] # "none"
    BY <2>3, FinishStaging
  <2> QED BY <2>2, <2>3
<1>3. LeftInv'
  <2>1. CASE err[t] = "none"
    BY <2>1 DEF TypeOK, LeftInv, PackInv, Labels, Active, Results, Kind, IsPack
  <2>2. CASE err[t] # "none"
    <3>1. Finish(t, err[t]) /\ archive' = archive BY <2>2
    <3>2. err[t] \in Results \ {"none"} BY <2>2 DEF TypeOK, Results
    <3>3. t \in archive => plan[t].held BY DEF LeftInv
    <3> HIDE DEF Finish
    <3> QED BY <3>1, <3>2, <3>3, FinishLeft
  <2> QED BY <2>1, <2>2
<1>4. HomeInv'
  BY DEF TypeOK, HomeInv, LeftInv, Filling, Labels, Active, Needed, Kind, Home, IsPack, Late, Homes
<1>5. PackInv'
  <2>1. err[t] = "none" => PackInv'
    BY DEF TypeOK, PackInv, LeftInv, HomeInv, Labels, Active, Results, Kind, Plans
  <2>2. err[t] # "none" => PackInv'
    BY DEF TypeOK, PackInv, LeftInv, HomeInv, Labels, Active, Results, Kind
  <2> QED BY <2>1, <2>2
<1>6. QuickInv'
  <2>1. /\ at[t] = "verify" /\ UNCHANGED <<plan, record, running>>
        /\ \/ at' = [at EXCEPT ![t] = "overrides"] /\ lock' = lock
           \/ at' = [at EXCEPT ![t] = "done"] /\ lock' = IF lock = t THEN None ELSE lock
    OBVIOUS
  <2> HIDE DEF ChecksEnd, Proceed, Finish, JobsEnd, IInv
  <2>2. TypeOK /\ QuickInv BY DEF IInv
  <2>3. \A s \in Tasks : (lock' = s) <=> Kind(s) = "quick" /\ at'[s] \in Active
    <3>1. \A s \in Tasks : (lock = s) <=> Kind(s) = "quick" /\ at[s] \in Active BY <2>2 DEF QuickInv
    <3>2. CASE at' = [at EXCEPT ![t] = "overrides"] /\ lock' = lock
      BY <3>1, <3>2, <2>1, <2>2 DEF TypeOK, Labels, Active
    <3>3. CASE at' = [at EXCEPT ![t] = "done"] /\ lock' = IF lock = t THEN None ELSE lock
      BY <3>1, <3>3, <2>1, <2>2, FoldersAssumption DEF TypeOK, Active
    <3> QED BY <2>1, <3>2, <3>3
  <2>4. lock' \in {lock, None} BY <2>1
  <2> QED BY <2>1, <2>2, <2>3, <2>4 DEF TypeOK, QuickInv, Kind, Quick
<1>7. OneQuickServer'
  BY FoldersAssumption DEF TypeOK, OneQuickServer, QuickInv, HomeInv, LeftInv, Labels, Active, Kind, Quick
<1> QED BY <1>1, <1>2, <1>3, <1>4, <1>5, <1>6, <1>7

LEMMA OverridesInv ==
    ASSUME IInv, NEW t \in Tasks, Overrides(t) PROVE IInv'
<1> USE DEF IInv, Overrides, Goes, Proceed, Passes, Finish, Adds, disk, tables, tasks, around
<1>1. TypeOK'
  BY DEF TypeOK, Labels, Active, Results, Pieces, Homes, Kind, Home, IsPack
<1>2. StagingInv'
  <2>1. \A s \in Tasks : Needed(s)' = Needed(s) BY DEF Needed, Kind, IsPack
  <2> QED BY <2>1, FilledIs DEF TypeOK, StagingInv, LeftInv, Labels, Active, Filling
<1>3. LeftInv'
  BY DEF TypeOK, LeftInv, PackInv, Labels, Active, Results, Kind, IsPack
<1>4. HomeInv'
  BY DEF TypeOK, HomeInv, LeftInv, Filling, Labels, Active, Needed, Kind, Home, IsPack, Late, Homes
<1>5. PackInv'
  BY DEF TypeOK, PackInv, LeftInv, HomeInv, Labels, Active, Results, Kind
<1>6. QuickInv'
  BY FoldersAssumption DEF TypeOK, QuickInv, LeftInv, HomeInv, Labels, Active, Results, Kind, Quick
<1>7. OneQuickServer'
  BY FoldersAssumption DEF TypeOK, OneQuickServer, QuickInv, HomeInv, LeftInv, Labels, Active, Kind, Quick
<1> QED BY <1>1, <1>2, <1>3, <1>4, <1>5, <1>6, <1>7

LEMMA ValidateInv ==
    ASSUME IInv, NEW t \in Tasks, Validate(t) PROVE IInv'
<1> USE DEF IInv, Validate, Goes, Proceed, Passes, Finish, Adds, disk, tables, tasks, around
<1>1. TypeOK'
  BY DEF TypeOK, Labels, Active, Results, Pieces, Homes, Kind, Home, IsPack
<1>2. StagingInv'
  <2>1. \A s \in Tasks : Needed(s)' = Needed(s) BY DEF Needed, Kind, IsPack
  <2> QED BY <2>1, FilledIs DEF TypeOK, StagingInv, LeftInv, Labels, Active, Filling
<1>3. LeftInv'
  BY DEF TypeOK, LeftInv, PackInv, Labels, Active, Results, Kind, IsPack
<1>4. HomeInv'
  BY DEF TypeOK, HomeInv, LeftInv, Filling, Labels, Active, Needed, Kind, Home, IsPack, Late, Homes
<1>5. PackInv'
  BY DEF TypeOK, PackInv, LeftInv, HomeInv, Labels, Active, Results, Kind
<1>6. QuickInv'
  BY FoldersAssumption DEF TypeOK, QuickInv, LeftInv, HomeInv, Labels, Active, Results, Kind, Quick
<1>7. OneQuickServer'
  BY FoldersAssumption DEF TypeOK, OneQuickServer, QuickInv, HomeInv, LeftInv, Labels, Active, Kind, Quick
<1> QED BY <1>1, <1>2, <1>3, <1>4, <1>5, <1>6, <1>7

LEMMA InspectInv ==
    ASSUME IInv, NEW t \in Tasks, Inspect(t) PROVE IInv'
<1> USE DEF IInv, Inspect, Goes, Proceed, Passes, Finish, Adds, disk, tables, tasks, around
<1>1. TypeOK'
  BY DEF TypeOK, Labels, Active, Results, Pieces, Homes, Kind, Home, IsPack
<1>2. StagingInv'
  <2>1. \A s \in Tasks : Needed(s)' = Needed(s) BY DEF Needed, Kind, IsPack
  <2> QED BY <2>1, FilledIs DEF TypeOK, StagingInv, LeftInv, Labels, Active, Filling
<1>3. LeftInv'
  BY DEF TypeOK, LeftInv, PackInv, Labels, Active, Results, Kind, IsPack
<1>4. HomeInv'
  BY DEF TypeOK, HomeInv, LeftInv, Filling, Labels, Active, Needed, Kind, Home, IsPack, Late, Homes
<1>5. PackInv'
  BY DEF TypeOK, PackInv, LeftInv, HomeInv, Labels, Active, Results, Kind
<1>6. QuickInv'
  BY FoldersAssumption DEF TypeOK, QuickInv, LeftInv, HomeInv, Labels, Active, Results, Kind, Quick
<1>7. OneQuickServer'
  BY FoldersAssumption DEF TypeOK, OneQuickServer, QuickInv, HomeInv, LeftInv, Labels, Active, Kind, Quick
<1> QED BY <1>1, <1>2, <1>3, <1>4, <1>5, <1>6, <1>7

LEMMA ScanInv ==
    ASSUME IInv, NEW t \in Tasks, Scan(t) PROVE IInv'
<1> USE DEF IInv, Scan, Goes, Proceed, Passes, Finish, Adds, disk, tables, tasks, around
<1>1. TypeOK'
  BY DEF TypeOK, Labels, Active, Results, Pieces, Homes, Kind, Home, IsPack
<1>2. StagingInv'
  <2>1. \A s \in Tasks : Needed(s)' = Needed(s) BY DEF Needed, Kind, IsPack
  <2> QED BY <2>1, FilledIs DEF TypeOK, StagingInv, LeftInv, Labels, Active, Filling
<1>3. LeftInv'
  BY DEF TypeOK, LeftInv, PackInv, Labels, Active, Results, Kind, IsPack
<1>4. HomeInv'
  BY DEF TypeOK, HomeInv, LeftInv, Filling, Labels, Active, Needed, Kind, Home, IsPack, Late, Homes
<1>5. PackInv'
  BY DEF TypeOK, PackInv, LeftInv, HomeInv, Labels, Active, Results, Kind
<1>6. QuickInv'
  BY FoldersAssumption DEF TypeOK, QuickInv, LeftInv, HomeInv, Labels, Active, Results, Kind, Quick
<1>7. OneQuickServer'
  BY FoldersAssumption DEF TypeOK, OneQuickServer, QuickInv, HomeInv, LeftInv, Labels, Active, Kind, Quick
<1> QED BY <1>1, <1>2, <1>3, <1>4, <1>5, <1>6, <1>7

LEMMA ResolveInv ==
    ASSUME IInv, NEW t \in Tasks, Resolve(t) PROVE IInv'
<1> USE DEF IInv, Resolve, Goes, Proceed, Passes, Finish, Adds, disk, tables, tasks, around, AfterJava
<1>1. TypeOK'
  BY DEF TypeOK, Labels, Active, Results, Pieces, Homes, Kind, Home, IsPack
<1>2. StagingInv'
  <2>1. \A s \in Tasks : Needed(s)' = Needed(s) BY DEF Needed, Kind, IsPack
  <2> QED BY <2>1, FilledIs DEF TypeOK, StagingInv, LeftInv, Labels, Active, Filling
<1>3. LeftInv'
  BY DEF TypeOK, LeftInv, PackInv, Labels, Active, Results, Kind, IsPack
<1>4. HomeInv'
  BY DEF TypeOK, HomeInv, LeftInv, Filling, Labels, Active, Needed, Kind, Home, IsPack, Late, Homes
<1>5. PackInv'
  BY DEF TypeOK, PackInv, LeftInv, HomeInv, Labels, Active, Results, Kind
<1>6. QuickInv'
  BY FoldersAssumption DEF TypeOK, QuickInv, LeftInv, HomeInv, Labels, Active, Results, Kind, Quick
<1>7. OneQuickServer'
  BY FoldersAssumption DEF TypeOK, OneQuickServer, QuickInv, HomeInv, LeftInv, Labels, Active, Kind, Quick
<1> QED BY <1>1, <1>2, <1>3, <1>4, <1>5, <1>6, <1>7

LEMMA OpenArchiveInv ==
    ASSUME IInv, NEW t \in Tasks, OpenArchive(t) PROVE IInv'
<1> USE DEF IInv, OpenArchive, Goes, Proceed, Passes, Finish, Adds, disk, tables, tasks, around
<1>1. TypeOK'
  BY DEF TypeOK, Labels, Active, Results, Pieces, Homes, Kind, Home, IsPack
<1>2. StagingInv'
  <2>1. \A s \in Tasks : Needed(s)' = Needed(s) BY DEF Needed, Kind, IsPack
  <2> QED BY <2>1, FilledIs DEF TypeOK, StagingInv, LeftInv, Labels, Active, Filling
<1>3. LeftInv'
  BY DEF TypeOK, LeftInv, PackInv, Labels, Active, Results, Kind, IsPack
<1>4. HomeInv'
  BY DEF TypeOK, HomeInv, LeftInv, Filling, Labels, Active, Needed, Kind, Home, IsPack, Late, Homes
<1>5. PackInv'
  BY DEF TypeOK, PackInv, LeftInv, HomeInv, Labels, Active, Results, Kind
<1>6. QuickInv'
  BY FoldersAssumption DEF TypeOK, QuickInv, LeftInv, HomeInv, Labels, Active, Results, Kind, Quick
<1>7. OneQuickServer'
  BY FoldersAssumption DEF TypeOK, OneQuickServer, QuickInv, HomeInv, LeftInv, Labels, Active, Kind, Quick
<1> QED BY <1>1, <1>2, <1>3, <1>4, <1>5, <1>6, <1>7

LEMMA InstallJavaInv ==
    ASSUME IInv, NEW t \in Tasks, InstallJava(t) PROVE IInv'
<1> USE DEF IInv, InstallJava, Goes, Proceed, Passes, Finish, Adds, disk, tables, tasks, around, AfterJava
<1>z. archive' \subseteq archive /\ archive \ {t} \subseteq archive' /\ (t \in archive' => plan[t].held)
  BY WithoutIs
<1>1. TypeOK'
  BY <1>z DEF TypeOK, Labels, Active, Results, Pieces, Homes, Kind, Home, IsPack
<1>2. StagingInv'
  <2>1. \A s \in Tasks : Needed(s)' = Needed(s) BY DEF Needed, Kind, IsPack
  <2> QED BY <2>1, FilledIs DEF TypeOK, StagingInv, LeftInv, Labels, Active, Filling
<1>3. LeftInv'
  BY <1>z DEF TypeOK, LeftInv, PackInv, Labels, Active, Results, Kind, IsPack
<1>4. HomeInv'
  BY DEF TypeOK, HomeInv, LeftInv, Filling, Labels, Active, Needed, Kind, Home, IsPack, Late, Homes
<1>5. PackInv'
  BY DEF TypeOK, PackInv, LeftInv, HomeInv, Labels, Active, Results, Kind
<1>6. QuickInv'
  BY FoldersAssumption DEF TypeOK, QuickInv, LeftInv, HomeInv, Labels, Active, Results, Kind, Quick
<1>7. OneQuickServer'
  BY FoldersAssumption DEF TypeOK, OneQuickServer, QuickInv, HomeInv, LeftInv, Labels, Active, Kind, Quick
<1> QED BY <1>1, <1>2, <1>3, <1>4, <1>5, <1>6, <1>7

LEMMA JavaFailsInv ==
    ASSUME IInv, NEW t \in Tasks, JavaFails(t) PROVE IInv'
<1> USE DEF IInv, JavaFails, Goes, Proceed, Passes, Finish, Adds, disk, tables, tasks, around
<1>0. Finished(t) BY FinishIs
<1>1. TypeOK'
  BY <1>0 DEF Finished, TypeOK, Labels, Active, Results, Pieces, Homes, Kind, Home, IsPack
<1>2. StagingInv' BY FinishStaging
<1>3. LeftInv'
  BY <1>0 DEF Finished, TypeOK, LeftInv, PackInv, Labels, Active, Results, Kind, IsPack
<1>4. HomeInv'
  BY DEF TypeOK, HomeInv, LeftInv, Filling, Labels, Active, Needed, Kind, Home, IsPack, Late, Homes
<1>5. PackInv'
  BY DEF TypeOK, PackInv, LeftInv, HomeInv, Labels, Active, Results, Kind
<1>6. QuickInv'
  BY FoldersAssumption DEF TypeOK, QuickInv, LeftInv, HomeInv, Labels, Active, Results, Kind, Quick
<1>7. OneQuickServer'
  BY FoldersAssumption DEF TypeOK, OneQuickServer, QuickInv, HomeInv, LeftInv, Labels, Active, Kind, Quick
<1> QED BY <1>1, <1>2, <1>3, <1>4, <1>5, <1>6, <1>7

LEMMA PlaceInv ==
    ASSUME IInv, NEW t \in Tasks, Place(t) PROVE IInv'
<1> USE DEF IInv, Place, Goes, Proceed, Passes, Finish, Adds, disk, tables, tasks, around
<1>1. TypeOK'
  BY DEF TypeOK, Labels, Active, Results, Pieces, Homes, Kind, Home, IsPack
<1>2. StagingInv'
  <2>1. \A s \in Tasks : Needed(s)' = Needed(s) BY DEF Needed, Kind, IsPack
  <2> QED BY <2>1, FilledIs, NeededIs DEF TypeOK, StagingInv, LeftInv, Labels, Active, Filling
<1>3. LeftInv'
  BY DEF TypeOK, LeftInv, PackInv, Labels, Active, Results, Kind, IsPack
<1>4. HomeInv'
  BY DEF TypeOK, HomeInv, LeftInv, Filling, Labels, Active, Needed, Kind, Home, IsPack, Late, Homes
<1>5. PackInv'
  BY DEF TypeOK, PackInv, LeftInv, HomeInv, Labels, Active, Results, Kind
<1>6. QuickInv'
  BY FoldersAssumption DEF TypeOK, QuickInv, LeftInv, HomeInv, Labels, Active, Results, Kind, Quick
<1>7. OneQuickServer'
  BY FoldersAssumption DEF TypeOK, OneQuickServer, QuickInv, HomeInv, LeftInv, Labels, Active, Kind, Quick
<1> QED BY <1>1, <1>2, <1>3, <1>4, <1>5, <1>6, <1>7

LEMMA WorldInv ==
    ASSUME IInv, NEW t \in Tasks, World(t) PROVE IInv'
<1> USE DEF IInv, World, Goes, Proceed, Passes, Finish, Adds, disk, tables, tasks, around
<1>1. TypeOK'
  BY DEF TypeOK, Labels, Active, Results, Pieces, Homes, Kind, Home, IsPack
<1>2. StagingInv'
  <2>1. \A s \in Tasks : Needed(s)' = Needed(s) BY DEF Needed, Kind, IsPack
  <2> QED BY <2>1, FilledIs, NeededIs DEF TypeOK, StagingInv, LeftInv, Labels, Active, Filling
<1>3. LeftInv'
  BY DEF TypeOK, LeftInv, PackInv, Labels, Active, Results, Kind, IsPack
<1>4. HomeInv'
  BY DEF TypeOK, HomeInv, LeftInv, Filling, Labels, Active, Needed, Kind, Home, IsPack, Late, Homes
<1>5. PackInv'
  BY DEF TypeOK, PackInv, LeftInv, HomeInv, Labels, Active, Results, Kind
<1>6. QuickInv'
  BY FoldersAssumption DEF TypeOK, QuickInv, LeftInv, HomeInv, Labels, Active, Results, Kind, Quick
<1>7. OneQuickServer'
  BY FoldersAssumption DEF TypeOK, OneQuickServer, QuickInv, HomeInv, LeftInv, Labels, Active, Kind, Quick
<1> QED BY <1>1, <1>2, <1>3, <1>4, <1>5, <1>6, <1>7

LEMMA JarInv ==
    ASSUME IInv, NEW t \in Tasks, Jar(t) PROVE IInv'
<1> USE DEF IInv, Jar, Goes, Proceed, Passes, Finish, Adds, disk, tables, tasks, around, AfterLoader, IsPack
<1>1. TypeOK'
  BY DEF TypeOK, Labels, Active, Results, Pieces, Homes, Kind, Home, IsPack
<1>2. StagingInv'
  <2>1. \A s \in Tasks : Needed(s)' = Needed(s) BY DEF Needed, Kind, IsPack
  <2> QED BY <2>1, FilledIs, NeededIs DEF TypeOK, StagingInv, LeftInv, Labels, Active, Filling
<1>3. LeftInv'
  BY DEF TypeOK, LeftInv, PackInv, Labels, Active, Results, Kind, IsPack
<1>4. HomeInv'
  BY DEF TypeOK, HomeInv, LeftInv, Filling, Labels, Active, Needed, Kind, Home, IsPack, Late, Homes
<1>5. PackInv'
  BY DEF TypeOK, PackInv, LeftInv, HomeInv, Labels, Active, Results, Kind
<1>6. QuickInv'
  BY FoldersAssumption DEF TypeOK, QuickInv, LeftInv, HomeInv, Labels, Active, Results, Kind, Quick
<1>7. OneQuickServer'
  BY FoldersAssumption DEF TypeOK, OneQuickServer, QuickInv, HomeInv, LeftInv, Labels, Active, Kind, Quick
<1> QED BY <1>1, <1>2, <1>3, <1>4, <1>5, <1>6, <1>7

LEMMA LoaderInv ==
    ASSUME IInv, NEW t \in Tasks, Loader(t) PROVE IInv'
<1> USE DEF IInv, Loader, Goes, Proceed, Passes, Finish, Adds, disk, tables, tasks, around, AfterLoader
<1>1. TypeOK'
  BY DEF TypeOK, Labels, Active, Results, Pieces, Homes, Kind, Home, IsPack
<1>2. StagingInv'
  <2>1. \A s \in Tasks : Needed(s)' = Needed(s) BY DEF Needed, Kind, IsPack
  <2> QED BY <2>1, FilledIs, NeededIs DEF TypeOK, StagingInv, LeftInv, Labels, Active, Filling
<1>3. LeftInv'
  BY DEF TypeOK, LeftInv, PackInv, Labels, Active, Results, Kind, IsPack
<1>4. HomeInv'
  BY DEF TypeOK, HomeInv, LeftInv, Filling, Labels, Active, Needed, Kind, Home, IsPack, Late, Homes
<1>5. PackInv'
  BY DEF TypeOK, PackInv, LeftInv, HomeInv, Labels, Active, Results, Kind
<1>6. QuickInv'
  BY FoldersAssumption DEF TypeOK, QuickInv, LeftInv, HomeInv, Labels, Active, Results, Kind, Quick
<1>7. OneQuickServer'
  BY FoldersAssumption DEF TypeOK, OneQuickServer, QuickInv, HomeInv, LeftInv, Labels, Active, Kind, Quick
<1> QED BY <1>1, <1>2, <1>3, <1>4, <1>5, <1>6, <1>7

LEMMA OverlayInv ==
    ASSUME IInv, NEW t \in Tasks, Overlay(t) PROVE IInv'
<1> USE DEF IInv, Overlay, Goes, Proceed, Passes, Finish, Adds, disk, tables, tasks, around
<1>1. TypeOK'
  BY DEF TypeOK, Labels, Active, Results, Pieces, Homes, Kind, Home, IsPack
<1>2. StagingInv'
  <2>1. \A s \in Tasks : Needed(s)' = Needed(s) BY DEF Needed, Kind, IsPack
  <2> QED BY <2>1, FilledIs, NeededIs DEF TypeOK, StagingInv, LeftInv, Labels, Active, Filling
<1>3. LeftInv'
  BY DEF TypeOK, LeftInv, PackInv, Labels, Active, Results, Kind, IsPack
<1>4. HomeInv'
  BY DEF TypeOK, HomeInv, LeftInv, Filling, Labels, Active, Needed, Kind, Home, IsPack, Late, Homes
<1>5. PackInv'
  BY DEF TypeOK, PackInv, LeftInv, HomeInv, Labels, Active, Results, Kind
<1>6. QuickInv'
  BY FoldersAssumption DEF TypeOK, QuickInv, LeftInv, HomeInv, Labels, Active, Results, Kind, Quick
<1>7. OneQuickServer'
  BY FoldersAssumption DEF TypeOK, OneQuickServer, QuickInv, HomeInv, LeftInv, Labels, Active, Kind, Quick
<1> QED BY <1>1, <1>2, <1>3, <1>4, <1>5, <1>6, <1>7

LEMMA SettingsInv ==
    ASSUME IInv, NEW t \in Tasks, Settings(t) PROVE IInv'
<1> USE DEF IInv, Settings, Goes, Proceed, Passes, Finish, Adds, disk, tables, tasks, around
<1>1. TypeOK'
  BY DEF TypeOK, Labels, Active, Results, Pieces, Homes, Kind, Home, IsPack
<1>2. StagingInv'
  <2>1. \A s \in Tasks : Needed(s)' = Needed(s) BY DEF Needed, Kind, IsPack
  <2> QED BY <2>1, FilledIs, NeededIs DEF TypeOK, StagingInv, LeftInv, Labels, Active, Filling
<1>3. LeftInv'
  BY DEF TypeOK, LeftInv, PackInv, Labels, Active, Results, Kind, IsPack
<1>4. HomeInv'
  BY DEF TypeOK, HomeInv, LeftInv, Filling, Labels, Active, Needed, Kind, Home, IsPack, Late, Homes
<1>5. PackInv'
  BY DEF TypeOK, PackInv, LeftInv, HomeInv, Labels, Active, Results, Kind
<1>6. QuickInv'
  BY FoldersAssumption DEF TypeOK, QuickInv, LeftInv, HomeInv, Labels, Active, Results, Kind, Quick
<1>7. OneQuickServer'
  BY FoldersAssumption DEF TypeOK, OneQuickServer, QuickInv, HomeInv, LeftInv, Labels, Active, Kind, Quick
<1> QED BY <1>1, <1>2, <1>3, <1>4, <1>5, <1>6, <1>7

LEMMA RenameInv ==
    ASSUME IInv, NEW t \in Tasks, Rename(t) PROVE IInv'
<1> USE DEF IInv, Rename, Goes, Proceed, Passes, Finish, Adds, disk, tables, tasks, around
<1>1. TypeOK'
  BY DEF TypeOK, Labels, Active, Results, Pieces, Homes, Kind, Home, IsPack
<1>2. StagingInv'
  <2>1. \A s \in Tasks : Needed(s)' = Needed(s) BY DEF Needed, Kind, IsPack
  <2> QED BY <2>1, FilledIs DEF TypeOK, StagingInv, LeftInv, Labels, Active, Filling
<1>3. LeftInv'
  BY DEF TypeOK, LeftInv, PackInv, Labels, Active, Results, Kind, IsPack
<1>4. HomeInv'
  <2>1. \A s \in Tasks : Needed(s)' = Needed(s) BY DEF Needed, Kind, IsPack
  <2>2. at[t] = "commit" \/ at[t] = "copying" => Needed(t) \subseteq staging[t]
    BY CommittedIsFilled
  <2>3. Home(t) \in Homes BY DEF TypeOK, Home, Plans
  <2> QED BY <2>1, <2>2, <2>3, FoldersAssumption DEF TypeOK, HomeInv, LeftInv, Filling, Labels, Active, Kind, Home, Late, Homes, Plans
<1>5. PackInv'
  BY DEF TypeOK, PackInv, LeftInv, HomeInv, Labels, Active, Results, Kind
<1>6. QuickInv'
  BY FoldersAssumption DEF TypeOK, QuickInv, LeftInv, HomeInv, Labels, Active, Results, Kind, Quick
<1>7. OneQuickServer'
  BY FoldersAssumption DEF TypeOK, OneQuickServer, QuickInv, HomeInv, LeftInv, Labels, Active, Kind, Quick
<1> QED BY <1>1, <1>2, <1>3, <1>4, <1>5, <1>6, <1>7

LEMMA BlockedInv ==
    ASSUME IInv, NEW t \in Tasks, Blocked(t) PROVE IInv'
<1> USE DEF IInv, Blocked, Goes, Proceed, Passes, Finish, Adds, disk, tables, tasks, around
<1>1. TypeOK'
  BY DEF TypeOK, Labels, Active, Results, Pieces, Homes, Kind, Home, IsPack
<1>2. StagingInv'
  <2>1. \A s \in Tasks : Needed(s)' = Needed(s) BY DEF Needed, Kind, IsPack
  <2> QED BY <2>1, FilledIs DEF TypeOK, StagingInv, LeftInv, Labels, Active, Filling
<1>3. LeftInv'
  BY DEF TypeOK, LeftInv, PackInv, Labels, Active, Results, Kind, IsPack
<1>4. HomeInv'
  BY FoldersAssumption DEF TypeOK, HomeInv, LeftInv, QuickInv, Quick, Filling, Labels, Active, Needed, Kind, Home, IsPack, Late, Homes, Plans
<1>5. PackInv'
  BY DEF TypeOK, PackInv, LeftInv, HomeInv, Labels, Active, Results, Kind
<1>6. QuickInv'
  BY FoldersAssumption DEF TypeOK, QuickInv, LeftInv, HomeInv, Labels, Active, Results, Kind, Quick
<1>7. OneQuickServer'
  BY FoldersAssumption DEF TypeOK, OneQuickServer, QuickInv, HomeInv, LeftInv, Labels, Active, Kind, Quick
<1> QED BY <1>1, <1>2, <1>3, <1>4, <1>5, <1>6, <1>7

LEMMA CopyInv ==
    ASSUME IInv, NEW t \in Tasks, Copy(t) PROVE IInv'
<1> USE DEF IInv, Copy, Goes, Proceed, Passes, Finish, Adds, disk, tables, tasks, around
<1>1. TypeOK'
  BY DEF TypeOK, Labels, Active, Results, Pieces, Homes, Kind, Home, IsPack
<1>2. StagingInv'
  <2>1. \A s \in Tasks : Needed(s)' = Needed(s) BY DEF Needed, Kind, IsPack
  <2> QED BY <2>1, FilledIs DEF TypeOK, StagingInv, LeftInv, Labels, Active, Filling
<1>3. LeftInv'
  BY DEF TypeOK, LeftInv, PackInv, Labels, Active, Results, Kind, IsPack
<1>4. HomeInv'
  <2>1. \A s \in Tasks : Needed(s)' = Needed(s) BY DEF Needed, Kind, IsPack
  <2>2. Home(t) \in Homes BY DEF TypeOK, Home, Plans
  <2> QED BY <2>1, <2>2, FoldersAssumption DEF TypeOK, HomeInv, LeftInv, Filling, Labels, Active, Kind, Home, Late, Homes, Plans
<1>5. PackInv'
  BY DEF TypeOK, PackInv, LeftInv, HomeInv, Labels, Active, Results, Kind
<1>6. QuickInv'
  BY FoldersAssumption DEF TypeOK, QuickInv, LeftInv, HomeInv, Labels, Active, Results, Kind, Quick
<1>7. OneQuickServer'
  BY FoldersAssumption DEF TypeOK, OneQuickServer, QuickInv, HomeInv, LeftInv, Labels, Active, Kind, Quick
<1> QED BY <1>1, <1>2, <1>3, <1>4, <1>5, <1>6, <1>7

LEMMA CopyEndsInv ==
    ASSUME IInv, NEW t \in Tasks, CopyEnds(t) PROVE IInv'
<1> USE DEF IInv, CopyEnds, Goes, Proceed, Passes, Finish, Adds, disk, tables, tasks, around
<1>z. /\ staging' \in [Tasks -> SUBSET Pieces]
      /\ staging'[t] # {} => plan[t].held
      /\ \A s \in Tasks \ {t} : staging'[s] = staging[s]
  BY ClearedIs
<1>1. TypeOK'
  BY <1>z DEF TypeOK, Labels, Active, Results, Pieces, Homes, Kind, Home, IsPack
<1>2. StagingInv'
  <2>1. \A s \in Tasks : Needed(s)' = Needed(s) BY DEF Needed, Kind, IsPack
  <2> QED BY <1>z, <2>1, FilledIs DEF TypeOK, StagingInv, LeftInv, Labels, Active, Filling
<1>3. LeftInv'
  BY <1>z DEF TypeOK, LeftInv, PackInv, Labels, Active, Results, Kind, IsPack
<1>4. HomeInv'
  <2>1. \A s \in Tasks : Needed(s)' = Needed(s) BY DEF Needed, Kind, IsPack
  <2>2. at[t] = "commit" \/ at[t] = "copying" => Needed(t) \subseteq staging[t]
    BY CommittedIsFilled
  <2>3. Home(t) \in Homes BY DEF TypeOK, Home, Plans
  <2> QED BY <2>1, <2>2, <2>3, FoldersAssumption DEF TypeOK, HomeInv, LeftInv, Filling, Labels, Active, Kind, Home, Late, Homes, Plans
<1>5. PackInv'
  BY DEF TypeOK, PackInv, LeftInv, HomeInv, Labels, Active, Results, Kind
<1>6. QuickInv'
  BY FoldersAssumption DEF TypeOK, QuickInv, LeftInv, HomeInv, Labels, Active, Results, Kind, Quick
<1>7. OneQuickServer'
  BY FoldersAssumption DEF TypeOK, OneQuickServer, QuickInv, HomeInv, LeftInv, Labels, Active, Kind, Quick
<1> QED BY <1>1, <1>2, <1>3, <1>4, <1>5, <1>6, <1>7

LEMMA CopyFailsInv ==
    ASSUME IInv, NEW t \in Tasks, CopyFails(t) PROVE IInv'
<1> USE DEF IInv, CopyFails, Goes, Proceed, Passes, Finish, Gone, Adds, disk, tables, tasks, around
<1>0. Finished(t) BY FinishIs
<1>1. TypeOK'
  BY <1>0 DEF Finished, TypeOK, Labels, Active, Results, Pieces, Homes, Kind, Home, IsPack
<1>2. StagingInv' BY FinishStaging
<1>3. LeftInv'
  BY <1>0 DEF Finished, TypeOK, LeftInv, PackInv, Labels, Active, Results, Kind, IsPack
<1>4. HomeInv'
  <2>1. \A s \in Tasks : Needed(s)' = Needed(s) BY DEF Needed, Kind, IsPack
  <2>2. Home(t) \in Homes BY DEF TypeOK, Home, Plans
  <2> QED BY <2>1, <2>2, FoldersAssumption DEF TypeOK, HomeInv, LeftInv, Filling, Labels, Active, Kind, Home, Late, Homes, Plans
<1>5. PackInv'
  BY DEF TypeOK, PackInv, LeftInv, HomeInv, Labels, Active, Results, Kind
<1>6. QuickInv'
  BY FoldersAssumption DEF TypeOK, QuickInv, LeftInv, HomeInv, Labels, Active, Results, Kind, Quick
<1>7. OneQuickServer'
  BY FoldersAssumption DEF TypeOK, OneQuickServer, QuickInv, HomeInv, LeftInv, Labels, Active, Kind, Quick
<1> QED BY <1>1, <1>2, <1>3, <1>4, <1>5, <1>6, <1>7

LEMMA AdoptInv ==
    ASSUME IInv, NEW t \in Tasks, Adopt(t) PROVE IInv'
<1> USE DEF IInv, Adopt, Goes, Proceed, Passes, Finish, Adds, disk, tables, tasks, around
<1>1. TypeOK'
  BY DEF TypeOK, Labels, Active, Results, Pieces, Homes, Kind, Home, IsPack
<1>2. StagingInv'
  <2>1. \A s \in Tasks : Needed(s)' = Needed(s) BY DEF Needed, Kind, IsPack
  <2> QED BY <2>1, FilledIs DEF TypeOK, StagingInv, LeftInv, Labels, Active, Filling
<1>3. LeftInv'
  BY DEF TypeOK, LeftInv, PackInv, Labels, Active, Results, Kind, IsPack
<1>4. HomeInv'
  BY FoldersAssumption DEF TypeOK, HomeInv, LeftInv, QuickInv, Quick, Filling, Labels, Active, Needed, Kind, Home, IsPack, Late, Homes, Plans
<1>5. PackInv'
  BY DEF TypeOK, PackInv, LeftInv, HomeInv, Labels, Active, Results, Kind
<1>6. QuickInv'
  BY FoldersAssumption DEF TypeOK, QuickInv, LeftInv, HomeInv, Labels, Active, Results, Kind, Quick
<1>7. OneQuickServer'
  BY FoldersAssumption DEF TypeOK, OneQuickServer, QuickInv, HomeInv, LeftInv, Labels, Active, Kind, Quick
<1> QED BY <1>1, <1>2, <1>3, <1>4, <1>5, <1>6, <1>7

LEMMA RegisterInv ==
    ASSUME IInv, NEW t \in Tasks, Register(t) PROVE IInv'
<1> USE DEF IInv, Register, Goes, Proceed, Passes, Finish, Adds, disk, tables, tasks, around
<1>1. TypeOK'
  BY DEF TypeOK, Labels, Active, Results, Pieces, Homes, Kind, Home, IsPack, Plans
<1>2. StagingInv'
  <2>1. \A s \in Tasks : Needed(s)' = Needed(s) BY DEF Needed, Kind, IsPack
  <2> QED BY <2>1, FilledIs DEF TypeOK, StagingInv, LeftInv, Labels, Active, Filling
<1>3. LeftInv'
  BY DEF TypeOK, LeftInv, PackInv, Labels, Active, Results, Kind, IsPack
<1>4. HomeInv'
  BY DEF TypeOK, HomeInv, LeftInv, Filling, Labels, Active, Needed, Kind, Home, IsPack, Late, Homes
<1>5. PackInv'
  BY DEF TypeOK, PackInv, LeftInv, HomeInv, Labels, Active, Results, Kind
<1>6. QuickInv'
  BY FoldersAssumption DEF TypeOK, QuickInv, LeftInv, HomeInv, Labels, Active, Results, Kind, Quick
<1>7. OneQuickServer'
  BY FoldersAssumption DEF TypeOK, OneQuickServer, QuickInv, HomeInv, LeftInv, Labels, Active, Kind, Quick
<1> QED BY <1>1, <1>2, <1>3, <1>4, <1>5, <1>6, <1>7

LEMMA RegisterFailsInv ==
    ASSUME IInv, NEW t \in Tasks, RegisterFails(t) PROVE IInv'
<1> USE DEF IInv, RegisterFails, Goes, Proceed, Passes, Finish, Adds, disk, tables, tasks, around
<1>0. Finished(t) BY FinishIs
<1>1. TypeOK'
  BY <1>0 DEF Finished, TypeOK, Labels, Active, Results, Pieces, Homes, Kind, Home, IsPack
<1>2. StagingInv' BY FinishStaging
<1>3. LeftInv'
  BY <1>0 DEF Finished, TypeOK, LeftInv, PackInv, Labels, Active, Results, Kind, IsPack
<1>4. HomeInv'
  BY DEF TypeOK, HomeInv, LeftInv, Filling, Labels, Active, Needed, Kind, Home, IsPack, Late, Homes
<1>5. PackInv'
  BY DEF TypeOK, PackInv, LeftInv, HomeInv, Labels, Active, Results, Kind
<1>6. QuickInv'
  BY FoldersAssumption DEF TypeOK, QuickInv, LeftInv, HomeInv, Labels, Active, Results, Kind, Quick
<1>7. OneQuickServer'
  BY FoldersAssumption DEF TypeOK, OneQuickServer, QuickInv, HomeInv, LeftInv, Labels, Active, Kind, Quick
<1> QED BY <1>1, <1>2, <1>3, <1>4, <1>5, <1>6, <1>7

LEMMA ScheduleInv ==
    ASSUME IInv, NEW t \in Tasks, Schedule(t) PROVE IInv'
<1> USE DEF IInv, Schedule, Goes, Proceed, Passes, Finish, Adds, disk, tables, tasks, around
<1>0. Finished(t) BY FinishIs
<1>1. TypeOK'
  BY <1>0 DEF Finished, TypeOK, Labels, Active, Results, Pieces, Homes, Kind, Home, IsPack
<1>2. StagingInv' BY FinishStaging
<1>3. LeftInv'
  BY <1>0 DEF Finished, TypeOK, LeftInv, PackInv, Labels, Active, Results, Kind, IsPack
<1>4. HomeInv'
  BY DEF TypeOK, HomeInv, LeftInv, Filling, Labels, Active, Needed, Kind, Home, IsPack, Late, Homes
<1>5. PackInv'
  BY DEF TypeOK, PackInv, LeftInv, HomeInv, Labels, Active, Results, Kind
<1>6. QuickInv'
  BY FoldersAssumption DEF TypeOK, QuickInv, LeftInv, HomeInv, Labels, Active, Results, Kind, Quick
<1>7. OneQuickServer'
  BY FoldersAssumption DEF TypeOK, OneQuickServer, QuickInv, HomeInv, LeftInv, Labels, Active, Kind, Quick
<1> QED BY <1>1, <1>2, <1>3, <1>4, <1>5, <1>6, <1>7

LEMMA StartInv ==
    ASSUME IInv, NEW t \in Tasks, Start(t) PROVE IInv'
<1> USE DEF IInv, Start, Goes, Proceed, Passes, Finish, Adds, disk, tables, tasks, around
<1>1. TypeOK'
  BY DEF TypeOK, Labels, Active, Results, Pieces, Homes, Kind, Home, IsPack
<1>2. StagingInv'
  <2>1. \A s \in Tasks : Needed(s)' = Needed(s) BY DEF Needed, Kind, IsPack
  <2> QED BY <2>1, FilledIs DEF TypeOK, StagingInv, LeftInv, Labels, Active, Filling
<1>3. LeftInv'
  BY DEF TypeOK, LeftInv, PackInv, Labels, Active, Results, Kind, IsPack
<1>4. HomeInv'
  BY DEF TypeOK, HomeInv, LeftInv, Filling, Labels, Active, Needed, Kind, Home, IsPack, Late, Homes
<1>5. PackInv'
  BY DEF TypeOK, PackInv, LeftInv, HomeInv, Labels, Active, Results, Kind
<1>6. QuickInv'
  BY FoldersAssumption DEF TypeOK, QuickInv, LeftInv, HomeInv, Labels, Active, Results, Kind, Quick
<1>7. OneQuickServer'
  BY FoldersAssumption DEF TypeOK, OneQuickServer, QuickInv, HomeInv, LeftInv, Labels, Active, Kind, Quick
<1> QED BY <1>1, <1>2, <1>3, <1>4, <1>5, <1>6, <1>7

LEMMA StartFailsInv ==
    ASSUME IInv, NEW t \in Tasks, StartFails(t) PROVE IInv'
<1> USE DEF IInv, StartFails, Goes, Proceed, Passes, Finish, Gone, Adds, disk, tables, tasks, around, Vanishes
<1>0. Finished(t) BY FinishIs
<1>1. TypeOK'
  BY <1>0 DEF Finished, TypeOK, Labels, Active, Results, Pieces, Homes, Kind, Home, IsPack
<1>2. StagingInv' BY FinishStaging
<1>3. LeftInv'
  BY <1>0 DEF Finished, TypeOK, LeftInv, PackInv, Labels, Active, Results, Kind, IsPack
<1>4. HomeInv'
  BY FoldersAssumption DEF TypeOK, HomeInv, LeftInv, QuickInv, Quick, Filling, Labels, Active, Needed, Kind, Home, IsPack, Late, Homes, Plans
<1>5. PackInv'
  BY DEF TypeOK, PackInv, LeftInv, HomeInv, Labels, Active, Results, Kind
<1>6. QuickInv'
  BY FoldersAssumption DEF TypeOK, QuickInv, LeftInv, HomeInv, Labels, Active, Results, Kind, Quick
<1>7. OneQuickServer'
  BY FoldersAssumption DEF TypeOK, OneQuickServer, QuickInv, HomeInv, LeftInv, Labels, Active, Kind, Quick
<1> QED BY <1>1, <1>2, <1>3, <1>4, <1>5, <1>6, <1>7

LEMMA ReportInv ==
    ASSUME IInv, NEW t \in Tasks, Report(t) PROVE IInv'
<1> USE DEF IInv, Report, Goes, Proceed, Passes, Finish, Adds, disk, tables, tasks, around
<1>0. Finished(t) BY FinishIs
<1>1. TypeOK'
  BY <1>0 DEF Finished, TypeOK, Labels, Active, Results, Pieces, Homes, Kind, Home, IsPack
<1>2. StagingInv' BY FinishStaging
<1>3. LeftInv'
  BY <1>0 DEF Finished, TypeOK, LeftInv, PackInv, Labels, Active, Results, Kind, IsPack
<1>4. HomeInv'
  BY DEF TypeOK, HomeInv, LeftInv, Filling, Labels, Active, Needed, Kind, Home, IsPack, Late, Homes
<1>5. PackInv'
  BY DEF TypeOK, PackInv, LeftInv, HomeInv, Labels, Active, Results, Kind
<1>6. QuickInv'
  BY FoldersAssumption DEF TypeOK, QuickInv, LeftInv, HomeInv, Labels, Active, Results, Kind, Quick
<1>7. OneQuickServer'
  BY FoldersAssumption DEF TypeOK, OneQuickServer, QuickInv, HomeInv, LeftInv, Labels, Active, Kind, Quick
<1> QED BY <1>1, <1>2, <1>3, <1>4, <1>5, <1>6, <1>7

LEMMA QuickEndsInv ==
    ASSUME IInv, NEW t \in Tasks, QuickEnds(t) PROVE IInv'
<1> USE DEF IInv, QuickEnds, Goes, Proceed, Passes, Finish, Gone, Adds, disk, tables, tasks, around, Vanishes
<1>1. TypeOK'
  BY DEF TypeOK, Labels, Active, Results, Pieces, Homes, Kind, Home, IsPack
<1>2. StagingInv'
  <2>1. \A s \in Tasks : Needed(s)' = Needed(s) BY DEF Needed, Kind, IsPack
  <2> QED BY <2>1, FilledIs DEF TypeOK, StagingInv, LeftInv, Labels, Active, Filling
<1>3. LeftInv'
  BY DEF TypeOK, LeftInv, PackInv, Labels, Active, Results, Kind, IsPack
<1>4. HomeInv'
  <2>1. \A s \in Tasks : Needed(s)' = Needed(s) BY DEF Needed, Kind, IsPack
  <2>2. Kind(t) = "quick" /\ at[t] \in {"started", "done"} BY DEF QuickInv, Quick
  <2> QED BY <2>1, <2>2, FoldersAssumption DEF TypeOK, HomeInv, LeftInv, Filling, Labels, Active, Kind, Home, Late, Homes, Plans
<1>5. PackInv'
  BY DEF TypeOK, PackInv, LeftInv, HomeInv, Labels, Active, Results, Kind
<1>6. QuickInv'
  BY FoldersAssumption DEF TypeOK, QuickInv, LeftInv, HomeInv, Labels, Active, Results, Kind, Quick
<1>7. OneQuickServer'
  BY FoldersAssumption DEF TypeOK, OneQuickServer, QuickInv, HomeInv, LeftInv, Labels, Active, Kind, Quick
<1> QED BY <1>1, <1>2, <1>3, <1>4, <1>5, <1>6, <1>7

LEMMA RemoveInv ==
    ASSUME IInv, NEW t \in Tasks, Remove(t) PROVE IInv'
<1> USE DEF IInv, Remove, Goes, Proceed, Passes, Finish, Adds, disk, tables, tasks, around
<1>1. TypeOK'
  BY DEF TypeOK, Labels, Active, Results, Pieces, Homes, Kind, Home, IsPack
<1>2. StagingInv'
  <2>1. \A s \in Tasks : Needed(s)' = Needed(s) BY DEF Needed, Kind, IsPack
  <2> QED BY <2>1, FilledIs DEF TypeOK, StagingInv, LeftInv, Labels, Active, Filling
<1>3. LeftInv'
  BY DEF TypeOK, LeftInv, PackInv, Labels, Active, Results, Kind, IsPack
<1>4. HomeInv'
  BY DEF TypeOK, HomeInv, LeftInv, Filling, Labels, Active, Needed, Kind, Home, IsPack, Late, Homes
<1>5. PackInv'
  BY DEF TypeOK, PackInv, LeftInv, HomeInv, Labels, Active, Results, Kind
<1>6. QuickInv'
  BY FoldersAssumption DEF TypeOK, QuickInv, LeftInv, HomeInv, Labels, Active, Results, Kind, Quick
<1>7. OneQuickServer'
  BY FoldersAssumption DEF TypeOK, OneQuickServer, QuickInv, HomeInv, LeftInv, Labels, Active, Kind, Quick
<1> QED BY <1>1, <1>2, <1>3, <1>4, <1>5, <1>6, <1>7

LEMMA RecycleInv ==
    ASSUME IInv, NEW t \in Tasks, Recycle(t) PROVE IInv'
<1> USE DEF IInv, Recycle, Goes, Proceed, Passes, Finish, Adds, disk, tables, tasks, around
<1>1. TypeOK'
  BY DEF TypeOK, Labels, Active, Results, Pieces, Homes, Kind, Home, IsPack
<1>2. StagingInv'
  <2>1. \A s \in Tasks : Needed(s)' = Needed(s) BY DEF Needed, Kind, IsPack
  <2> QED BY <2>1, FilledIs DEF TypeOK, StagingInv, LeftInv, Labels, Active, Filling
<1>3. LeftInv'
  BY DEF TypeOK, LeftInv, PackInv, Labels, Active, Results, Kind, IsPack
<1>4. HomeInv'
  <2>1. \A s \in Tasks : Needed(s)' = Needed(s) BY DEF Needed, Kind, IsPack
  <2>2. Home(t) \in Homes BY DEF TypeOK, Home, Plans
  <2> QED BY <2>1, <2>2, FoldersAssumption DEF TypeOK, HomeInv, LeftInv, Filling, Labels, Active, Kind, Home, Late, Homes, Plans
<1>5. PackInv'
  BY DEF TypeOK, PackInv, LeftInv, HomeInv, Labels, Active, Results, Kind
<1>6. QuickInv'
  BY FoldersAssumption DEF TypeOK, QuickInv, LeftInv, HomeInv, Labels, Active, Results, Kind, Quick
<1>7. OneQuickServer'
  BY FoldersAssumption DEF TypeOK, OneQuickServer, QuickInv, HomeInv, LeftInv, Labels, Active, Kind, Quick
<1> QED BY <1>1, <1>2, <1>3, <1>4, <1>5, <1>6, <1>7

LEMMA RecycleFailsInv ==
    ASSUME IInv, NEW t \in Tasks, RecycleFails(t) PROVE IInv'
<1> USE DEF IInv, RecycleFails, Goes, Proceed, Passes, Finish, Adds, disk, tables, tasks, around
<1>1. TypeOK'
  BY DEF TypeOK, Labels, Active, Results, Pieces, Homes, Kind, Home, IsPack
<1>2. StagingInv'
  <2>1. \A s \in Tasks : Needed(s)' = Needed(s) BY DEF Needed, Kind, IsPack
  <2> QED BY <2>1, FilledIs DEF TypeOK, StagingInv, LeftInv, Labels, Active, Filling
<1>3. LeftInv'
  BY DEF TypeOK, LeftInv, PackInv, Labels, Active, Results, Kind, IsPack
<1>4. HomeInv'
  BY DEF TypeOK, HomeInv, LeftInv, Filling, Labels, Active, Needed, Kind, Home, IsPack, Late, Homes
<1>5. PackInv'
  BY DEF TypeOK, PackInv, LeftInv, HomeInv, Labels, Active, Results, Kind
<1>6. QuickInv'
  BY FoldersAssumption DEF TypeOK, QuickInv, LeftInv, HomeInv, Labels, Active, Results, Kind, Quick
<1>7. OneQuickServer'
  BY FoldersAssumption DEF TypeOK, OneQuickServer, QuickInv, HomeInv, LeftInv, Labels, Active, Kind, Quick
<1> QED BY <1>1, <1>2, <1>3, <1>4, <1>5, <1>6, <1>7

LEMMA ForgetInv ==
    ASSUME IInv, NEW t \in Tasks, Forget(t) PROVE IInv'
<1> USE DEF IInv, Forget, Goes, Proceed, Passes, Finish, Adds, disk, tables, tasks, around
<1>1. TypeOK'
  BY DEF TypeOK, Labels, Active, Results, Pieces, Homes, Kind, Home, IsPack
<1>2. StagingInv'
  <2>1. \A s \in Tasks : Needed(s)' = Needed(s) BY DEF Needed, Kind, IsPack
  <2> QED BY <2>1, FilledIs DEF TypeOK, StagingInv, LeftInv, Labels, Active, Filling
<1>3. LeftInv'
  BY DEF TypeOK, LeftInv, PackInv, Labels, Active, Results, Kind, IsPack
<1>4. HomeInv'
  BY DEF TypeOK, HomeInv, LeftInv, Filling, Labels, Active, Needed, Kind, Home, IsPack, Late, Homes
<1>5. PackInv'
  BY DEF TypeOK, PackInv, LeftInv, HomeInv, Labels, Active, Results, Kind
<1>6. QuickInv'
  BY FoldersAssumption DEF TypeOK, QuickInv, LeftInv, HomeInv, Labels, Active, Results, Kind, Quick
<1>7. OneQuickServer'
  BY FoldersAssumption DEF TypeOK, OneQuickServer, QuickInv, HomeInv, LeftInv, Labels, Active, Kind, Quick
<1> QED BY <1>1, <1>2, <1>3, <1>4, <1>5, <1>6, <1>7

LEMMA FetchedInv ==
    ASSUME IInv, NEW t \in Tasks, NEW f \in Files, Fetched(t, f) PROVE IInv'
<1> USE DEF IInv, Fetched, Goes, Proceed, Passes, Finish, Adds, disk, tables, tasks, around, JobEnds
<1>1. TypeOK'
  BY DEF TypeOK, Labels, Active, Results, Pieces, Homes, Kind, Home, IsPack
<1>2. StagingInv'
  <2>1. \A s \in Tasks : Needed(s)' = Needed(s) BY DEF Needed, Kind, IsPack
  <2> QED BY <2>1, FilledIs DEF TypeOK, StagingInv, LeftInv, Labels, Active, Filling
<1>3. LeftInv'
  BY DEF TypeOK, LeftInv, PackInv, Labels, Active, Results, Kind, IsPack
<1>4. HomeInv'
  BY DEF TypeOK, HomeInv, LeftInv, Filling, Labels, Active, Needed, Kind, Home, IsPack, Late, Homes
<1>5. PackInv'
  BY DEF TypeOK, PackInv, LeftInv, HomeInv, Labels, Active, Results, Kind
<1>6. QuickInv'
  BY FoldersAssumption DEF TypeOK, QuickInv, LeftInv, HomeInv, Labels, Active, Results, Kind, Quick
<1>7. OneQuickServer'
  BY FoldersAssumption DEF TypeOK, OneQuickServer, QuickInv, HomeInv, LeftInv, Labels, Active, Kind, Quick
<1> QED BY <1>1, <1>2, <1>3, <1>4, <1>5, <1>6, <1>7

LEMMA VerifiedInv ==
    ASSUME IInv, NEW t \in Tasks, NEW f \in Files, Verified(t, f) PROVE IInv'
<1> USE DEF IInv, Verified, Goes, Proceed, Passes, Finish, Adds, disk, tables, tasks, around, JobEnds
<1>1. TypeOK'
  BY DEF TypeOK, Labels, Active, Results, Pieces, Homes, Kind, Home, IsPack
<1>2. StagingInv'
  <2>1. \A s \in Tasks : Needed(s)' = Needed(s) BY DEF Needed, Kind, IsPack
  <2> QED BY <2>1, FilledIs DEF TypeOK, StagingInv, LeftInv, Labels, Active, Filling
<1>3. LeftInv'
  BY DEF TypeOK, LeftInv, PackInv, Labels, Active, Results, Kind, IsPack
<1>4. HomeInv'
  BY DEF TypeOK, HomeInv, LeftInv, Filling, Labels, Active, Needed, Kind, Home, IsPack, Late, Homes
<1>5. PackInv'
  BY DEF TypeOK, PackInv, LeftInv, HomeInv, Labels, Active, Results, Kind
<1>6. QuickInv'
  BY FoldersAssumption DEF TypeOK, QuickInv, LeftInv, HomeInv, Labels, Active, Results, Kind, Quick
<1>7. OneQuickServer'
  BY FoldersAssumption DEF TypeOK, OneQuickServer, QuickInv, HomeInv, LeftInv, Labels, Active, Kind, Quick
<1> QED BY <1>1, <1>2, <1>3, <1>4, <1>5, <1>6, <1>7

LEMMA AcceptedInv ==
    ASSUME IInv, NEW t \in Tasks, NEW f \in Files, Accepted(t, f) PROVE IInv'
<1> USE DEF IInv, Accepted, Goes, Proceed, Passes, Finish, Adds, disk, tables, tasks, around, JobEnds
<1>1. TypeOK'
  BY DEF TypeOK, Labels, Active, Results, Pieces, Homes, Kind, Home, IsPack
<1>2. StagingInv'
  <2>1. \A s \in Tasks : Needed(s)' = Needed(s) BY DEF Needed, Kind, IsPack
  <2> QED BY <2>1, FilledIs DEF TypeOK, StagingInv, LeftInv, Labels, Active, Filling
<1>3. LeftInv'
  BY DEF TypeOK, LeftInv, PackInv, Labels, Active, Results, Kind, IsPack
<1>4. HomeInv'
  BY DEF TypeOK, HomeInv, LeftInv, Filling, Labels, Active, Needed, Kind, Home, IsPack, Late, Homes
<1>5. PackInv'
  BY DEF TypeOK, PackInv, LeftInv, HomeInv, Labels, Active, Results, Kind
<1>6. QuickInv'
  BY FoldersAssumption DEF TypeOK, QuickInv, LeftInv, HomeInv, Labels, Active, Results, Kind, Quick
<1>7. OneQuickServer'
  BY FoldersAssumption DEF TypeOK, OneQuickServer, QuickInv, HomeInv, LeftInv, Labels, Active, Kind, Quick
<1> QED BY <1>1, <1>2, <1>3, <1>4, <1>5, <1>6, <1>7

LEMMA JobFailsInv ==
    ASSUME IInv, NEW t \in Tasks, NEW f \in Files,
           NEW why \in Causes(t), JobFails(t, f, why) PROVE IInv'
<1> USE DEF IInv, JobFails, Goes, Proceed, Passes, Finish, Adds, disk, tables, tasks, around, Causes
<1>1. TypeOK'
  BY DEF TypeOK, Labels, Active, Results, Pieces, Homes, Kind, Home, IsPack
<1>2. StagingInv'
  <2>1. \A s \in Tasks : Needed(s)' = Needed(s) BY DEF Needed, Kind, IsPack
  <2> QED BY <2>1, FilledIs DEF TypeOK, StagingInv, LeftInv, Labels, Active, Filling
<1>3. LeftInv'
  BY DEF TypeOK, LeftInv, PackInv, Labels, Active, Results, Kind, IsPack
<1>4. HomeInv'
  BY DEF TypeOK, HomeInv, LeftInv, Filling, Labels, Active, Needed, Kind, Home, IsPack, Late, Homes
<1>5. PackInv'
  BY DEF TypeOK, PackInv, LeftInv, HomeInv, Labels, Active, Results, Kind
<1>6. QuickInv'
  BY FoldersAssumption DEF TypeOK, QuickInv, LeftInv, HomeInv, Labels, Active, Results, Kind, Quick
<1>7. OneQuickServer'
  BY FoldersAssumption DEF TypeOK, OneQuickServer, QuickInv, HomeInv, LeftInv, Labels, Active, Kind, Quick
<1> QED BY <1>1, <1>2, <1>3, <1>4, <1>5, <1>6, <1>7

LEMMA CrashInv ==
    ASSUME IInv, Crash PROVE IInv'
<1> USE DEF IInv, Crash, Goes, Proceed, Passes, Finish, Adds, disk, tables, tasks, around
<1>1. TypeOK'
  BY DEF TypeOK, Labels, Active, Results, Pieces, Homes, Kind, Home, IsPack
<1>2. StagingInv'
  <2>1. \A s \in Tasks : Needed(s)' = Needed(s) BY DEF Needed, Kind, IsPack
  <2> QED BY <2>1, FilledIs DEF TypeOK, StagingInv, LeftInv, Labels, Active, Filling
<1>3. LeftInv'
  BY DEF TypeOK, LeftInv, PackInv, Labels, Active, Results, Kind, IsPack
<1>4. HomeInv'
  <2>1. \A s \in Tasks : Needed(s)' = Needed(s) BY DEF Needed, Kind, IsPack
  <2> QED BY <2>1, FoldersAssumption DEF TypeOK, HomeInv, LeftInv, Filling, Labels, Active, Kind, Home, Late, Homes, Plans, Quick
<1>5. PackInv'
  BY DEF TypeOK, PackInv, LeftInv, HomeInv, Labels, Active, Results, Kind
<1>6. QuickInv'
  BY FoldersAssumption DEF TypeOK, QuickInv, LeftInv, HomeInv, Labels, Active, Results, Kind, Quick
<1>7. OneQuickServer'
  BY FoldersAssumption DEF TypeOK, OneQuickServer, QuickInv, HomeInv, LeftInv, Labels, Active, Kind, Quick
<1> QED BY <1>1, <1>2, <1>3, <1>4, <1>5, <1>6, <1>7

LEMMA StutterInv ==
    ASSUME IInv, UNCHANGED vars PROVE IInv'
<1> USE DEF IInv, vars, Goes, Proceed, Passes, Finish, Adds, disk, tables, tasks, around
<1>1. TypeOK'
  BY DEF TypeOK, Labels, Active, Results, Pieces, Homes, Kind, Home, IsPack
<1>2. StagingInv'
  <2>1. \A s \in Tasks : Needed(s)' = Needed(s) BY DEF Needed, Kind, IsPack
  <2> QED BY <2>1, FilledIs DEF TypeOK, StagingInv, LeftInv, Labels, Active, Filling
<1>3. LeftInv'
  BY DEF TypeOK, LeftInv, PackInv, Labels, Active, Results, Kind, IsPack
<1>4. HomeInv'
  BY DEF TypeOK, HomeInv, LeftInv, Filling, Labels, Active, Needed, Kind, Home, IsPack, Late, Homes
<1>5. PackInv'
  BY DEF TypeOK, PackInv, LeftInv, HomeInv, Labels, Active, Results, Kind
<1>6. QuickInv'
  BY FoldersAssumption DEF TypeOK, QuickInv, LeftInv, HomeInv, Labels, Active, Results, Kind, Quick
<1>7. OneQuickServer'
  BY FoldersAssumption DEF TypeOK, OneQuickServer, QuickInv, HomeInv, LeftInv, Labels, Active, Kind, Quick
<1> QED BY <1>1, <1>2, <1>3, <1>4, <1>5, <1>6, <1>7
LEMMA StepInv == IInv /\ [Next]_vars => IInv'
<1> SUFFICES ASSUME IInv, [Next]_vars PROVE IInv' OBVIOUS
<1>1. ASSUME NEW t \in Tasks, PackStep(t) PROVE IInv'
  <2>1. CASE \E f \in Files : Fetched(t, f) \/ Verified(t, f) \/ Accepted(t, f) \/ \E why \in Causes(t) : JobFails(t, f, why)
    BY <2>1, FetchedInv, VerifiedInv, AcceptedInv, JobFailsInv
  <2>2. CASE ~ \E f \in Files : Fetched(t, f) \/ Verified(t, f) \/ Accepted(t, f) \/ \E why \in Causes(t) : JobFails(t, f, why)
    BY <1>1, <2>2, MetadataInv, ServerPackInv, ManifestInv, FetchesEndInv, ChecksEndInv, OverridesInv
       DEF PackStep
  <2> QED BY <2>1, <2>2
<1>2. ASSUME NEW t \in Tasks, PrepareStep(t) PROVE IInv'
  BY <1>2, ValidateInv, InspectInv, ScanInv, ResolveInv, OpenArchiveInv,
     InstallJavaInv, JavaFailsInv DEF PrepareStep
<1>3. ASSUME NEW t \in Tasks, FillStep(t) PROVE IInv'
  BY <1>3, PlaceInv, WorldInv, JarInv, LoaderInv, OverlayInv, SettingsInv DEF
     FillStep
<1>4. ASSUME NEW t \in Tasks, CommitStep(t) PROVE IInv'
  BY <1>4, RenameInv, BlockedInv, CopyInv, CopyEndsInv, CopyFailsInv, AdoptInv,
     RegisterInv, RegisterFailsInv, ScheduleInv, StartInv, StartFailsInv,
     ReportInv DEF CommitStep
<1>5. ASSUME NEW t \in Tasks, Step(t) \/ Window(t) \/ Outside(t) \/ Removal(t) PROVE IInv'
  BY <1>1, <1>2, <1>3, <1>4, <1>5, StopsCancelledInv, FailsInv, AskInv, CancelInv, RemoveInv, StallInv,
     ResumeInv, QuickEndsInv, RecycleInv, RecycleFailsInv, ForgetInv DEF Step, Window, Outside, Removal
<1> QED BY <1>5, CrashInv, StutterInv DEF Next

(* The inductive invariant of Creation. *)
THEOREM Invariant == Spec => []IInv
BY InitInv, StepInv, PTL DEF Spec

(* A created server is registered with the whole folder its own task made
   (commands.rs create_with_overlay, ephemeral.rs create). *)
THEOREM RegisteredAreWhole == Spec => []RegisteredIsWhole
<1>1. IInv => RegisteredIsWhole
  BY DEF IInv, HomeInv, RegisteredIsWhole, TypeOK
<1> QED BY <1>1, Invariant, PTL

(* Every file of a registered modpack was downloaded, and checked where the
   manifest has a checksum for it (modpacks.rs prepare_modrinth_pack). *)
THEOREM PacksAreVerified == Spec => []PackIsVerified
<1>1. IInv => PackIsVerified
  <2> SUFFICES ASSUME IInv, NEW t \in record, Kind(t) = "modrinth", NEW f \in plan[t].files
               PROVE  got[t][f] = IF f \in plan[t].bare THEN "unread" ELSE "checked"
    BY DEF PackIsVerified
  <2>1. t \in Tasks /\ f \in Files BY DEF IInv, TypeOK, Plans
  <2>2. got[t][f] \in {"checked", "unread"} BY <2>1 DEF IInv, PackInv
  <2> QED BY <2>1, <2>2 DEF IInv, PackInv
<1> QED BY <1>1, Invariant, PTL

(* Quick servers exclude each other (ephemeral.rs create). *)
THEOREM QuickServersExclude == Spec => []OneQuickServer
<1>1. IInv => OneQuickServer BY DEF IInv
<1> QED BY <1>1, Invariant, PTL

(* A task that returned left no staging folder or workspace that nothing held,
   and a cancelled one no folder and no row (commands.rs create_with_overlay,
   modpacks.rs install_pack). *)
THEOREM TasksLeaveNothing == Spec => []LeavesNothing
<1>1. IInv => LeavesNothing
  <2> SUFFICES ASSUME IInv, NEW t \in Tasks
               PROVE  /\ end[t] \in {"ok", "failed", "cancelled"} /\ ~ plan[t].held
                            => staging[t] = {} /\ t \notin room
                      /\ end[t] = "cancelled" =>
                            /\ t \in asked /\ row[t] = None /\ (t \in archive => plan[t].held)
                            /\ \A h \in Homes : owner[h] # t
    BY DEF LeavesNothing
  <2>1. end[t] # "none" => at[t] = "done" BY DEF IInv, LeftInv
  <2>2. at[t] = "done" => at[t] \notin Filling \cup Active BY DEF Filling, Active
  <2>3. end[t] \in {"ok", "failed", "cancelled"} /\ ~ plan[t].held => staging[t] = {} /\ t \notin room
    BY <2>1, <2>2 DEF IInv, StagingInv, LeftInv
  <2>4. end[t] = "cancelled" => t \in asked /\ (t \in archive => plan[t].held)
    BY <2>1, <2>2 DEF IInv, LeftInv, PackInv
  <2>5. end[t] = "cancelled" => row[t] = None /\ \A h \in Homes : owner[h] # t
    BY DEF IInv, HomeInv
  <2> QED BY <2>3, <2>4, <2>5
<1> QED BY <1>1, Invariant, PTL

(* What a folder holds changes only by those whose it is (commands.rs
   create_with_overlay, copy_directory_commit, import, remove). *)
THEOREM NothingOverwritten == Spec => NothingIsOverwritten
<1> DEFINE Kept == \A h \in Homes : owner[h] # None /\ (owner'[h] # owner[h] \/ content'[h] # content[h]) =>
                      \/ /\ owner'[h] = None
                         /\ \/ h \in Tasks \cup recycled
                            \/ owner[h] \in Tasks /\ at[owner[h]] = "copying"
                            \/ \E s \in removing : row[s] = h
                      \/ /\ owner'[h] = owner[h]
                         /\ \/ owner[h] \in Tasks /\ at[owner[h]] = "copying" /\ content[h] \subseteq content'[h]
                            \/ h \in recycled
                            \/ /\ content'[h] = content[h] \cup {"eula"}
                               /\ \E t \in Tasks : at[t] = "adopt" /\ Home(t) = h
           Same == owner' = owner /\ content' = content
<1>1. IInv /\ [Next]_vars => [Kept]_vars
  <2> SUFFICES ASSUME IInv, Next PROVE Kept OBVIOUS
  <2> USE DEF disk, tables, tasks, around, Proceed, Finish, Adds, Passes
  <2>1. CASE Same BY <2>1
  <2>2. CASE Crash BY <2>2 DEF Crash, IInv, TypeOK
  <2>3. ASSUME NEW t \in Tasks, Rename(t) \/ Copy(t) PROVE Kept
    BY <2>3 DEF Rename, Copy, IInv, TypeOK
  <2>4. ASSUME NEW t \in Tasks, CopyFails(t) PROVE Kept
    <3>1. Home(t) \notin recycled => owner[Home(t)] = t BY <2>4 DEF CopyFails, IInv, HomeInv
    <3>2. CASE Same BY <3>2
    <3>3. CASE ~ Same
      <4>1. /\ owner' = [owner EXCEPT ![Home(t)] = None]
            /\ content' = [content EXCEPT ![Home(t)] = {}] /\ at[t] = "copying"
        BY <2>4, <3>3 DEF CopyFails, Gone
      <4>2. owner \in [Homes -> Tasks \cup {User, None}] /\ content \in [Homes -> SUBSET Pieces] BY DEF IInv, TypeOK
      <4> QED BY <3>1, <4>1, <4>2
    <3> QED BY <3>2, <3>3
  <2>5. ASSUME NEW t \in Tasks, StartFails(t) \/ QuickEnds(t) PROVE Kept
    <3>1. CASE Same BY <3>1
    <3>2. CASE ~ Same
      <4>1. /\ owner' = [owner EXCEPT ![t] = None] /\ content' = [content EXCEPT ![t] = {}]
        BY <2>5, <3>2 DEF StartFails, QuickEnds, Vanishes, Gone
      <4>2. owner \in [Homes -> Tasks \cup {User, None}] /\ content \in [Homes -> SUBSET Pieces] BY DEF IInv, TypeOK
      <4> QED BY <4>1, <4>2
    <3> QED BY <3>1, <3>2
  <2>6. ASSUME NEW t \in Tasks, Recycle(t) PROVE Kept
    BY <2>6 DEF Recycle, IInv, TypeOK
  <2>c. ASSUME NEW t \in Tasks, CopyEnds(t) PROVE Kept
    <3>1. Home(t) \notin recycled => owner[Home(t)] = t BY <2>c DEF CopyEnds, IInv, HomeInv
    <3>2. /\ owner' = owner /\ at[t] = "copying"
          /\ content' = [content EXCEPT ![Home(t)] = content[Home(t)] \cup staging[t]]
      BY <2>c DEF CopyEnds
    <3>3. content \in [Homes -> SUBSET Pieces] BY DEF IInv, TypeOK
    <3> QED BY <3>1, <3>2, <3>3
  <2>a. ASSUME NEW t \in Tasks, Adopt(t) PROVE Kept
    <3>1. /\ owner' = owner /\ at[t] = "adopt"
          /\ content' = [content EXCEPT ![Home(t)] = content[Home(t)] \cup {"eula"}]
      BY <2>a DEF Adopt
    <3>2. content \in [Homes -> SUBSET Pieces] BY DEF IInv, TypeOK
    <3> QED BY <3>1, <3>2
  <2>7. ASSUME NEW t \in Tasks, PackStep(t) \/ PrepareStep(t) \/ FillStep(t) PROVE Same
    BY <2>7 DEF PackStep, PrepareStep, FillStep, Metadata, ServerPack, Manifest, FetchesEnd, ChecksEnd, Overrides,
                Fetched, Verified, Accepted, JobFails, Validate, Inspect, Scan, Resolve, OpenArchive, InstallJava,
                JavaFails, Place, World, Jar, Loader, Overlay, Settings, JobEnds, JobsEnd
  <2>8. ASSUME NEW t \in Tasks, Window(t) \/ Stall(t) \/ Resume(t) \/ StopsCancelled(t) \/ Fails(t)
                                 \/ RecycleFails(t) \/ Forget(t)
        PROVE Same
    <3>1. Ask(t) => Same
      BY DEF Ask, Asks
    <3> QED BY <2>8, <3>1 DEF Window, Cancel, Remove, Stall, Resume, StopsCancelled, Fails, RecycleFails, Forget
  <2>9. ASSUME NEW t \in Tasks, CommitStep(t), ~ Rename(t), ~ Copy(t), ~ CopyFails(t), ~ StartFails(t),
               ~ CopyEnds(t), ~ Adopt(t)
        PROVE Same
    BY <2>9 DEF CommitStep, Blocked, Register, RegisterFails, Schedule, Start, Report
  <2> HIDE DEF Kept, Same
  <2> QED
    BY <2>1, <2>2, <2>3, <2>4, <2>5, <2>6, <2>7, <2>8, <2>9, <2>a, <2>c DEF Next, Step, Outside, Removal
<1> QED BY <1>1, Invariant, PTL DEF Spec, NothingIsOverwritten
=============================================================================
