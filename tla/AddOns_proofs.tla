--------------------------- MODULE AddOns_proofs ---------------------------
(***************************************************************************)
(* Proofs about AddOns: the invariants hold for any number of jars,        *)
(* projects and calls, and the two rules about steps follow from them.     *)
(***************************************************************************)
EXTENDS AddOns, TLAPS

(* A jar's two names. *)
LEMMA TwinNames ==
    /\ \A n \in Names : Twin(n) \in Names /\ Twin(n) # n /\ n # None
    /\ \A n \in Names : Twin(Twin(n)) = n
    /\ \A n \in Names : Enabled(n) => ~ Enabled(Twin(n))
    /\ \A m, n \in Names : Enabled(m) /\ Enabled(n) => m # Twin(n)
<1>1. \A n \in Names : n[2] \in {"jar", "disabled"} /\ n = <<n[1], n[2]>> /\ n[1] \in Jars
  BY DEF Names
<1>2. \A n \in Names : Twin(n) \in Names /\ Twin(n)[1] = n[1] /\ Twin(n)[2] # n[2] /\ Twin(n)[2] \in {"jar", "disabled"}
  BY <1>1 DEF Twin, Enabled, Names
<1>3. \A n \in Names : Twin(n) # n
  BY <1>2
<1>4. \A n \in Names : Twin(Twin(n)) = n
  BY <1>1, <1>2 DEF Twin, Enabled
<1>5. \A n \in Names : n # None
  BY NamesAssumption
<1> QED BY <1>1, <1>2, <1>3, <1>4, <1>5 DEF Enabled

(* A jar whose name is free is under neither name. *)
LEMMA OneCopyIs == OneCopy <=> \A n \in Names : disk[n] = None \/ disk[Twin(n)] = None
<1>1. \A n \in Names : n = <<n[1], "jar">> \/ n = <<n[1], "disabled">>
  BY DEF Names
<1>2. \A j \in Jars : <<j, "jar">> \in Names /\ <<j, "disabled">> \in Names
  BY DEF Names
<1>3. \A n \in Names : n[1] \in Jars
  BY DEF Names
<1>4. \A j : Twin(<<j, "jar">>) = <<j, "disabled">> /\ Twin(<<j, "disabled">>) = <<j, "jar">>
  BY DEF Twin, Enabled
<1> QED BY <1>1, <1>2, <1>3, <1>4 DEF OneCopy, Single
LEMMA OneCopyIsNext == OneCopy' <=> \A n \in Names : disk'[n] = None \/ disk'[Twin(n)] = None
<1>1. \A n \in Names : n = <<n[1], "jar">> \/ n = <<n[1], "disabled">>
  BY DEF Names
<1>2. \A j \in Jars : <<j, "jar">> \in Names /\ <<j, "disabled">> \in Names
  BY DEF Names
<1>3. \A n \in Names : n[1] \in Jars
  BY DEF Names
<1>4. \A j : Twin(<<j, "jar">>) = <<j, "disabled">> /\ Twin(<<j, "disabled">>) = <<j, "jar">>
  BY DEF Twin, Enabled
<1> QED BY <1>1, <1>2, <1>3, <1>4 DEF OneCopy, Single

(* The call that holds the lock is the only one past it, and unless it is
   between a file and its row every row that counts has its jar. *)
LEMMA Alone ==
    ASSUME IInv, NEW c \in Calls, lock = c
    PROVE  \A d \in Calls \ {c} : call[d].step \in Unlocked
BY DEF IInv, LockInv
LEMMA Settled ==
    ASSUME IInv, NEW c \in Calls, lock = c, call[c].step \notin {"rerow", "unrow"}
    PROVE  /\ \A p \in Projects : row[p] # None /\ row[p] \notin spoilt => disk[row[p]] = p /\ disk[row[p]] # None
           /\ \A n \in Names : disk[n] = None /\ n \in Named => n \in spoilt
<1>1. \A d \in Calls : call[d].step \notin {"rerow", "unrow"}
  BY Alone DEF Unlocked
<1>2. \A p \in Projects : row[p] # None /\ row[p] \notin spoilt => disk[row[p]] = p
  BY <1>1 DEF IInv, RowInv
<1>3. \A p \in Projects : p # None
  BY ProjectsAssumption
<1> QED BY <1>2, <1>3 DEF Named

LEMMA InitInv == Init => IInv
<1> SUFFICES ASSUME Init PROVE IInv OBVIOUS
<1>1. TypeOK
  BY DEF Init, TypeOK, Nothing, CallTypes, Idle, Kinds, Steps
<1>2. LockInv /\ CallInv /\ NamesInv /\ ListInv
  BY ProjectsAssumption DEF Init, LockInv, CallInv, NamesInv, ListInv, Idle, Unlocked, Kinds, KindsAt
<1>3. ServerInv /\ RowInv /\ KeyInv
  BY ProjectsAssumption DEF Init, ServerInv, RowInv, KeyInv, Idle
<1>4. OneCopy /\ StoreInv
  <2>1. Single(Nothing)
    BY DEF Single, Nothing, Names
  <2> QED BY <2>1, ProjectsAssumption DEF Init, OneCopy, StoreInv
<1> QED BY <1>1, <1>2, <1>3, <1>4 DEF IInv

LEMMA FailsInv ==
    ASSUME IInv, NEW c \in Calls, Fails(c) PROVE IInv'
<1> USE DEF IInv, Fails, files, server, store, vars, Step, Leaves, Is, Name, Project, Calm
<1>1. TypeOK'
  <2>1. call' \in [Calls -> CallTypes]
    BY DEF TypeOK, CallTypes, Kinds, Steps, Idle
  <2>2. disk' \in [Names -> Projects \cup {"part", User, None}]
    BY TwinNames DEF TypeOK, CallInv, CallTypes
  <2>3. row' \in [Projects -> Names \cup {None}] /\ spoilt' \in SUBSET Names
    BY TwinNames DEF TypeOK, CallInv, Named
  <2> QED BY <2>1, <2>2, <2>3, ProjectsAssumption DEF TypeOK
<1>2. LockInv'
  BY ProjectsAssumption DEF TypeOK, LockInv, CallTypes, Idle, Unlocked
<1>3. CallInv'
  BY TwinNames DEF TypeOK, CallInv, CallTypes, Idle, Kinds, KindsAt
<1>4. NamesInv'
  BY TwinNames, ProjectsAssumption DEF TypeOK, CallInv, LockInv, NamesInv, ServerInv, RowInv, Unlocked, Free, Named, Files, CallTypes, Idle
<1>5. ListInv'
  BY TwinNames, ProjectsAssumption DEF TypeOK, ListInv, LockInv, Files, Unlocked, CallTypes, Idle
<1>6. ServerInv'
  BY TwinNames, ProjectsAssumption DEF TypeOK, CallInv, LockInv, ServerInv, NamesInv, Unlocked, CallTypes, Idle, Files, Free, Allows
<1>7. RowInv'
  BY TwinNames DEF TypeOK, CallInv, LockInv, RowInv, NamesInv, Unlocked, CallTypes, Idle, Free, Named
<1>8. KeyInv'
  BY TwinNames DEF TypeOK, KeyInv, Named
<1>9. OneCopy'
  BY TwinNames, OneCopyIs, OneCopyIsNext DEF TypeOK, CallInv, LockInv, NamesInv, Unlocked, Free, CallTypes
<1>10. StoreInv'
  BY ProjectsAssumption DEF TypeOK, LockInv, StoreInv, Single, CallTypes, Unlocked, Idle
<1> QED BY <1>1, <1>2, <1>3, <1>4, <1>5, <1>6, <1>7, <1>8, <1>9, <1>10

LEMMA MoveInv ==
    ASSUME IInv, NEW c \in Calls, Move(c) PROVE IInv'
<1> USE DEF IInv, Move, files, server, store, vars, Step, Leaves, Is, Name, Project, Calm
<1>0. call[c].name \in Names /\ Twin(call[c].name) \in Names /\ call[c] \in CallTypes
  BY TwinNames DEF TypeOK, CallInv, KindsAt, CallTypes
<1>a. lock = c /\ \A d \in Calls \ {c} : call[d].step \in Unlocked
  BY Alone DEF LockInv, Unlocked
<1>b. /\ \A p \in Projects : row[p] # None /\ row[p] \notin spoilt => disk[row[p]] = p /\ disk[row[p]] # None
      /\ \A n \in Names : disk[n] = None /\ n \in Named => n \in spoilt
  BY <1>a, Settled
<1>1. TypeOK'
  <2>1. call' \in [Calls -> CallTypes]
    BY <1>0 DEF TypeOK, CallTypes, Kinds, Steps, Idle, Files, Named
  <2>2. disk' \in [Names -> Projects \cup {"part", User, None}]
    BY <1>0 DEF TypeOK
  <2>3. row' \in [Projects -> Names \cup {None}] /\ spoilt' \in SUBSET Names
    BY <1>0 DEF TypeOK
  <2> QED BY <2>1, <2>2, <2>3 DEF TypeOK
<1>2. LockInv'
  BY ProjectsAssumption DEF TypeOK, LockInv, CallTypes, Idle, Unlocked
<1>3. CallInv'
  BY TwinNames DEF TypeOK, CallInv, CallTypes, Idle, Kinds, KindsAt
<1>4. NamesInv'
  <2>1. \A d \in Calls \ {c} : call'[d] = call[d] /\ call[d].step \in Unlocked
    BY <1>a DEF TypeOK
  <2>2. call'[c].step = "rerow" /\ call'[c].name = call[c].name
    BY DEF TypeOK, CallTypes
  <2>3. disk'[call[c].name] = None
    BY <1>0, TwinNames DEF TypeOK
  <2>4. Twin(call[c].name) \in Named => Twin(call[c].name) \in spoilt
    BY <1>0, <1>b
  <2> QED BY <2>1, <2>2, <2>3, <2>4 DEF NamesInv, Unlocked, Named
<1>5. ListInv'
  BY TwinNames, ProjectsAssumption DEF TypeOK, ListInv, LockInv, Files, Unlocked, CallTypes, Idle
<1>6. ServerInv'
  BY TwinNames, ProjectsAssumption DEF TypeOK, CallInv, LockInv, ServerInv, NamesInv, Unlocked, CallTypes, Idle, Files, Free, Allows
<1>7. RowInv'
  <2> SUFFICES ASSUME NEW p \in Projects, row'[p] # None, row'[p] \notin spoilt'
               PROVE  \/ disk'[row'[p]] = p
                      \/ /\ disk'[row'[p]] = None
                         /\ \E d \in Calls :
                              /\ call'[d].step \in {"rerow", "unrow"} /\ call'[d].name = row'[p]
                              /\ call'[d].step = "rerow" => disk'[Twin(row'[p])] \in {p, None}
    BY DEF RowInv
  <2>1. row[p] \in Names /\ disk[row[p]] = p /\ p # None
    BY <1>b, ProjectsAssumption DEF TypeOK
  <2>2. CASE row[p] = call[c].name
    <3>1. /\ call'[c].step = "rerow" /\ call'[c].name = row[p] /\ disk'[row[p]] = None
          /\ disk'[Twin(row[p])] = p
      BY <2>1, <2>2, <1>0, TwinNames DEF TypeOK, CallTypes
    <3> QED BY <3>1
  <2>3. CASE row[p] # call[c].name
    BY <2>1, <2>3, <1>0, TwinNames DEF TypeOK
  <2> QED BY <2>2, <2>3
<1>8. KeyInv'
  BY TwinNames DEF TypeOK, KeyInv, Named
<1>9. OneCopy'
  BY TwinNames, OneCopyIs, OneCopyIsNext DEF TypeOK, CallInv, LockInv, NamesInv, Unlocked, Free, CallTypes
<1>10. StoreInv'
  BY ProjectsAssumption DEF TypeOK, LockInv, StoreInv, Single, CallTypes, Unlocked, Idle
<1> QED BY <1>1, <1>2, <1>3, <1>4, <1>5, <1>6, <1>7, <1>8, <1>9, <1>10

LEMMA StaysInv ==
    ASSUME IInv, NEW c \in Calls, Stays(c) PROVE IInv'
<1> USE DEF IInv, Stays, files, server, store, vars, Step, Leaves, Is, Name, Project, Calm
<1>1. TypeOK'
  <2>1. call' \in [Calls -> CallTypes]
    BY DEF TypeOK, CallTypes, Kinds, Steps, Idle
  <2>2. disk' \in [Names -> Projects \cup {"part", User, None}]
    BY TwinNames DEF TypeOK, CallInv, CallTypes
  <2>3. row' \in [Projects -> Names \cup {None}] /\ spoilt' \in SUBSET Names
    BY TwinNames DEF TypeOK, CallInv, Named
  <2> QED BY <2>1, <2>2, <2>3, ProjectsAssumption DEF TypeOK
<1>2. LockInv'
  BY ProjectsAssumption DEF TypeOK, LockInv, CallTypes, Idle, Unlocked
<1>3. CallInv'
  BY TwinNames DEF TypeOK, CallInv, CallTypes, Idle, Kinds, KindsAt
<1>4. NamesInv'
  BY TwinNames, ProjectsAssumption DEF TypeOK, CallInv, LockInv, NamesInv, ServerInv, RowInv, Unlocked, Free, Named, Files, CallTypes, Idle
<1>5. ListInv'
  BY TwinNames, ProjectsAssumption DEF TypeOK, ListInv, LockInv, Files, Unlocked, CallTypes, Idle
<1>6. ServerInv'
  BY TwinNames, ProjectsAssumption DEF TypeOK, CallInv, LockInv, ServerInv, NamesInv, Unlocked, CallTypes, Idle, Files, Free, Allows
<1>7. RowInv'
  BY TwinNames DEF TypeOK, CallInv, LockInv, RowInv, NamesInv, Unlocked, CallTypes, Idle, Free, Named
<1>8. KeyInv'
  BY TwinNames DEF TypeOK, KeyInv, Named
<1>9. OneCopy'
  BY TwinNames, OneCopyIs, OneCopyIsNext DEF TypeOK, CallInv, LockInv, NamesInv, Unlocked, Free, CallTypes
<1>10. StoreInv'
  BY ProjectsAssumption DEF TypeOK, LockInv, StoreInv, Single, CallTypes, Unlocked, Idle
<1> QED BY <1>1, <1>2, <1>3, <1>4, <1>5, <1>6, <1>7, <1>8, <1>9, <1>10

LEMMA RerowInv ==
    ASSUME IInv, NEW c \in Calls, Rerow(c) PROVE IInv'
<1> USE DEF IInv, Rerow, files, server, store, vars, Step, Leaves, Is, Name, Project, Calm, StillNamed
<1>0. call[c].name \in Names /\ Twin(call[c].name) \in Names /\ call[c] \in CallTypes
  BY TwinNames DEF TypeOK, CallInv, KindsAt, CallTypes
<1>a. lock = c /\ \A d \in Calls \ {c} : call[d].step \in Unlocked
  BY Alone DEF LockInv, Unlocked
<1>1. TypeOK'
  <2>1. call' \in [Calls -> CallTypes]
    BY <1>0 DEF TypeOK, CallTypes, Kinds, Steps, Idle, Files, Named
  <2>2. disk' \in [Names -> Projects \cup {"part", User, None}]
    BY <1>0 DEF TypeOK
  <2>3. row' \in [Projects -> Names \cup {None}] /\ spoilt' \in SUBSET Names
    BY <1>0 DEF TypeOK
  <2> QED BY <2>1, <2>2, <2>3 DEF TypeOK
<1>2. LockInv'
  BY ProjectsAssumption DEF TypeOK, LockInv, CallTypes, Idle, Unlocked
<1>3. CallInv'
  BY TwinNames DEF TypeOK, CallInv, CallTypes, Idle, Kinds, KindsAt
<1>4. NamesInv'
  BY TwinNames, ProjectsAssumption DEF TypeOK, CallInv, LockInv, NamesInv, ServerInv, RowInv, Unlocked, Free, Named, Files, CallTypes, Idle
<1>5. ListInv'
  BY TwinNames, ProjectsAssumption DEF TypeOK, ListInv, LockInv, Files, Unlocked, CallTypes, Idle
<1>6. ServerInv'
  BY TwinNames, ProjectsAssumption DEF TypeOK, CallInv, LockInv, ServerInv, NamesInv, Unlocked, CallTypes, Idle, Files, Free, Allows
<1>7. RowInv'
  <2> SUFFICES ASSUME NEW p \in Projects, row'[p] # None, row'[p] \notin spoilt'
               PROVE  \/ disk'[row'[p]] = p
                      \/ /\ disk'[row'[p]] = None
                         /\ \E d \in Calls :
                              /\ call'[d].step \in {"rerow", "unrow"} /\ call'[d].name = row'[p]
                              /\ call'[d].step = "rerow" => disk'[Twin(row'[p])] \in {p, None}
    BY DEF RowInv
  <2>1. call[c].step = "rerow" /\ disk[call[c].name] = None
    BY DEF NamesInv
  <2>2. CASE row[p] = call[c].name
    <3>1. row'[p] = Twin(row[p]) /\ row[p] \in Named
      BY <2>2, <1>0, TwinNames DEF TypeOK, Named
    <3>2. row[p] \notin spoilt /\ disk[Twin(row[p])] # None
      BY <2>2, <3>1, <1>0
    <3>3. disk[Twin(row[p])] = p
      BY <3>2, <2>1, <2>2, <1>0, <1>a, TwinNames, ProjectsAssumption DEF RowInv, Unlocked
    <3> QED BY <3>1, <3>3
  <2>3. CASE row[p] # call[c].name
    <3>1. row'[p] = row[p] /\ row[p] \notin spoilt
      BY <2>3 DEF TypeOK
    <3> QED BY <3>1, <2>3, <1>a DEF RowInv, Unlocked
  <2> QED BY <2>2, <2>3
<1>8. KeyInv'
  <2> SUFFICES ASSUME NEW p \in Projects, NEW q \in Projects, p # q, row'[p] # None, row'[p] = row'[q] PROVE FALSE
    BY DEF KeyInv
  <2>1. \A r \in Projects : row'[r] = IF row[r] = call[c].name THEN Twin(call[c].name) ELSE row[r]
    BY DEF TypeOK
  <2>2. \A r \in Projects : row[r] # None => row[r] \in Named
    BY DEF Named
  <2>3. row[p] # None => row[p] # row[q]
    BY DEF KeyInv
  <2>4. row[p] # None /\ row[q] # None
    BY <2>1, <1>0, TwinNames
  <2> QED BY <2>1, <2>2, <2>3, <2>4, <1>0
<1>9. OneCopy'
  BY TwinNames, OneCopyIs, OneCopyIsNext DEF TypeOK, CallInv, LockInv, NamesInv, Unlocked, Free, CallTypes
<1>10. StoreInv'
  BY ProjectsAssumption DEF TypeOK, LockInv, StoreInv, Single, CallTypes, Unlocked, Idle
<1> QED BY <1>1, <1>2, <1>3, <1>4, <1>5, <1>6, <1>7, <1>8, <1>9, <1>10

LEMMA RerowFailsInv ==
    ASSUME IInv, NEW c \in Calls, RerowFails(c) PROVE IInv'
<1> USE DEF IInv, RerowFails, files, server, store, vars, Step, Leaves, Is, Name, Project, Calm
<1>0. call[c].name \in Names /\ Twin(call[c].name) \in Names /\ call[c] \in CallTypes
  BY TwinNames DEF TypeOK, CallInv, KindsAt, CallTypes
<1>a. lock = c /\ \A d \in Calls \ {c} : call[d].step \in Unlocked
  BY Alone DEF LockInv, Unlocked
<1>1. TypeOK'
  <2>1. call' \in [Calls -> CallTypes]
    BY DEF TypeOK, CallTypes, Kinds, Steps, Idle
  <2>2. disk' \in [Names -> Projects \cup {"part", User, None}]
    BY TwinNames DEF TypeOK, CallInv, CallTypes
  <2>3. row' \in [Projects -> Names \cup {None}] /\ spoilt' \in SUBSET Names
    BY TwinNames DEF TypeOK, CallInv, Named
  <2> QED BY <2>1, <2>2, <2>3, ProjectsAssumption DEF TypeOK
<1>2. LockInv'
  BY ProjectsAssumption DEF TypeOK, LockInv, CallTypes, Idle, Unlocked
<1>3. CallInv'
  BY TwinNames DEF TypeOK, CallInv, CallTypes, Idle, Kinds, KindsAt
<1>4. NamesInv'
  BY TwinNames, ProjectsAssumption DEF TypeOK, CallInv, LockInv, NamesInv, ServerInv, RowInv, Unlocked, Free, Named, Files, CallTypes, Idle
<1>5. ListInv'
  BY TwinNames, ProjectsAssumption DEF TypeOK, ListInv, LockInv, Files, Unlocked, CallTypes, Idle
<1>6. ServerInv'
  <2>1. call[c].kind = "toggle" /\ loaded = {}
    BY DEF CallInv, KindsAt, ServerInv, Unlocked
  <2> QED BY <2>1, <1>a, ProjectsAssumption DEF TypeOK, ServerInv, LockInv, Idle, Unlocked, CallTypes
<1>7. RowInv'
  <2> SUFFICES ASSUME NEW p \in Projects, row'[p] # None, row'[p] \notin spoilt'
               PROVE  \/ disk'[row'[p]] = p
                      \/ /\ disk'[row'[p]] = None
                         /\ \E d \in Calls :
                              /\ call'[d].step \in {"rerow", "unrow"} /\ call'[d].name = row'[p]
                              /\ call'[d].step = "rerow" => disk'[Twin(row'[p])] \in {p, None}
    BY DEF RowInv
  <2>1. call[c].step = "rerow" /\ disk[call[c].name] = None /\ row'[p] = row[p] /\ row[p] \in Named /\ row[p] \in Names
    BY DEF NamesInv, Named, TypeOK
  <2>2. row[p] \notin spoilt
    BY <2>1
  <2>3. row[p] # call[c].name => disk[row[p]] = p
    BY <2>2, <2>1, <1>a DEF RowInv, Unlocked
  <2>4. row[p] = call[c].name => disk[Twin(row[p])] \in {p, None}
    BY <2>2, <2>1, <1>a, ProjectsAssumption DEF RowInv, Unlocked
  <2>5. row[p] # Twin(call[c].name)
    BY <2>1, <2>2 DEF NamesInv
  <2> QED BY <2>1, <2>3, <2>4, <2>5, <1>0, TwinNames DEF TypeOK
<1>8. KeyInv'
  BY TwinNames DEF TypeOK, KeyInv, Named
<1>9. OneCopy'
  BY TwinNames, OneCopyIs, OneCopyIsNext DEF TypeOK, CallInv, LockInv, NamesInv, Unlocked, Free, CallTypes
<1>10. StoreInv'
  BY ProjectsAssumption DEF TypeOK, LockInv, StoreInv, Single, CallTypes, Unlocked, Idle
<1> QED BY <1>1, <1>2, <1>3, <1>4, <1>5, <1>6, <1>7, <1>8, <1>9, <1>10

LEMMA RecycleInv ==
    ASSUME IInv, NEW c \in Calls, Recycle(c) PROVE IInv'
<1> USE DEF IInv, Recycle, files, server, store, vars, Step, Leaves, Is, Name, Project, Calm
<1>1. TypeOK'
  <2>1. call' \in [Calls -> CallTypes]
    BY DEF TypeOK, CallTypes, Kinds, Steps, Idle
  <2>2. disk' \in [Names -> Projects \cup {"part", User, None}]
    BY DEF TypeOK
  <2>3. row' \in [Projects -> Names \cup {None}] /\ spoilt' \in SUBSET Names
    BY DEF TypeOK, Named
  <2> QED BY <2>1, <2>2, <2>3 DEF TypeOK
<1>2. LockInv'
  BY ProjectsAssumption DEF TypeOK, LockInv, CallTypes, Idle, Unlocked
<1>3. CallInv'
  BY TwinNames DEF TypeOK, CallInv, CallTypes, Idle, Kinds, KindsAt
<1>4. NamesInv'
  BY TwinNames, ProjectsAssumption DEF TypeOK, CallInv, LockInv, NamesInv, ServerInv, RowInv, Unlocked, Free, Named, Files, CallTypes, Idle
<1>5. ListInv'
  BY TwinNames, ProjectsAssumption DEF TypeOK, ListInv, LockInv, Files, Unlocked, CallTypes, Idle
<1>6. ServerInv'
  BY TwinNames, ProjectsAssumption DEF TypeOK, CallInv, LockInv, ServerInv, NamesInv, Unlocked, CallTypes, Idle, Files, Free, Allows
<1>7. RowInv'
  BY TwinNames DEF TypeOK, CallInv, LockInv, RowInv, NamesInv, Unlocked, CallTypes, Idle, Free, Named
<1>8. KeyInv'
  BY TwinNames DEF TypeOK, KeyInv, Named
<1>9. OneCopy'
  BY TwinNames, OneCopyIs, OneCopyIsNext DEF TypeOK, CallInv, LockInv, NamesInv, Unlocked, Free, CallTypes
<1>10. StoreInv'
  BY ProjectsAssumption DEF TypeOK, LockInv, StoreInv, Single, CallTypes, Unlocked, Idle
<1> QED BY <1>1, <1>2, <1>3, <1>4, <1>5, <1>6, <1>7, <1>8, <1>9, <1>10

LEMMA UnrowInv ==
    ASSUME IInv, NEW c \in Calls, Unrow(c) PROVE IInv'
<1> USE DEF IInv, Unrow, files, server, store, vars, Step, Leaves, Is, Name, Project, Calm, Unnamed
<1>1. TypeOK'
  <2>1. call' \in [Calls -> CallTypes]
    BY DEF TypeOK, CallTypes, Kinds, Steps, Idle
  <2>2. disk' \in [Names -> Projects \cup {"part", User, None}]
    BY DEF TypeOK
  <2>3. row' \in [Projects -> Names \cup {None}] /\ spoilt' \in SUBSET Names
    BY DEF TypeOK, Named
  <2> QED BY <2>1, <2>2, <2>3 DEF TypeOK
<1>2. LockInv'
  BY ProjectsAssumption DEF TypeOK, LockInv, CallTypes, Idle, Unlocked
<1>3. CallInv'
  BY TwinNames DEF TypeOK, CallInv, CallTypes, Idle, Kinds, KindsAt
<1>4. NamesInv'
  BY TwinNames, ProjectsAssumption DEF TypeOK, CallInv, LockInv, NamesInv, ServerInv, RowInv, Unlocked, Free, Named, Files, CallTypes, Idle
<1>5. ListInv'
  BY TwinNames, ProjectsAssumption DEF TypeOK, ListInv, LockInv, Files, Unlocked, CallTypes, Idle
<1>6. ServerInv'
  BY TwinNames, ProjectsAssumption DEF TypeOK, CallInv, LockInv, ServerInv, NamesInv, Unlocked, CallTypes, Idle, Files, Free, Allows
<1>7. RowInv'
  BY TwinNames DEF TypeOK, CallInv, LockInv, RowInv, NamesInv, Unlocked, CallTypes, Idle, Free, Named
<1>8. KeyInv'
  BY TwinNames DEF TypeOK, KeyInv, Named
<1>9. OneCopy'
  BY TwinNames, OneCopyIs, OneCopyIsNext DEF TypeOK, CallInv, LockInv, NamesInv, Unlocked, Free, CallTypes
<1>10. StoreInv'
  BY ProjectsAssumption DEF TypeOK, LockInv, StoreInv, Single, CallTypes, Unlocked, Idle
<1> QED BY <1>1, <1>2, <1>3, <1>4, <1>5, <1>6, <1>7, <1>8, <1>9, <1>10

LEMMA UnrowFailsInv ==
    ASSUME IInv, NEW c \in Calls, UnrowFails(c) PROVE IInv'
<1> USE DEF IInv, UnrowFails, files, server, store, vars, Step, Leaves, Is, Name, Project, Calm
<1>1. TypeOK'
  <2>1. call' \in [Calls -> CallTypes]
    BY DEF TypeOK, CallTypes, Kinds, Steps, Idle
  <2>2. disk' \in [Names -> Projects \cup {"part", User, None}]
    BY TwinNames DEF TypeOK, CallInv, CallTypes
  <2>3. row' \in [Projects -> Names \cup {None}] /\ spoilt' \in SUBSET Names
    BY TwinNames DEF TypeOK, CallInv, Named
  <2> QED BY <2>1, <2>2, <2>3, ProjectsAssumption DEF TypeOK
<1>2. LockInv'
  BY ProjectsAssumption DEF TypeOK, LockInv, CallTypes, Idle, Unlocked
<1>3. CallInv'
  BY TwinNames DEF TypeOK, CallInv, CallTypes, Idle, Kinds, KindsAt
<1>4. NamesInv'
  BY TwinNames, ProjectsAssumption DEF TypeOK, CallInv, LockInv, NamesInv, ServerInv, RowInv, Unlocked, Free, Named, Files, CallTypes, Idle
<1>5. ListInv'
  BY TwinNames, ProjectsAssumption DEF TypeOK, ListInv, LockInv, Files, Unlocked, CallTypes, Idle
<1>6. ServerInv'
  BY TwinNames, ProjectsAssumption DEF TypeOK, CallInv, LockInv, ServerInv, NamesInv, Unlocked, CallTypes, Idle, Files, Free, Allows
<1>7. RowInv'
  BY TwinNames DEF TypeOK, CallInv, LockInv, RowInv, NamesInv, Unlocked, CallTypes, Idle, Free, Named
<1>8. KeyInv'
  BY TwinNames DEF TypeOK, KeyInv, Named
<1>9. OneCopy'
  BY TwinNames, OneCopyIs, OneCopyIsNext DEF TypeOK, CallInv, LockInv, NamesInv, Unlocked, Free, CallTypes
<1>10. StoreInv'
  BY ProjectsAssumption DEF TypeOK, LockInv, StoreInv, Single, CallTypes, Unlocked, Idle
<1> QED BY <1>1, <1>2, <1>3, <1>4, <1>5, <1>6, <1>7, <1>8, <1>9, <1>10

LEMMA LookedInv ==
    ASSUME IInv, NEW c \in Calls, Looked(c) PROVE IInv'
<1> USE DEF IInv, Looked, files, server, store, vars, Step, Leaves, Is, Name, Project, Calm
<1>a. lock = c /\ \A d \in Calls \ {c} : call[d].step \in Unlocked
  BY Alone DEF LockInv, Unlocked
<1>b. /\ \A p \in Projects : row[p] # None /\ row[p] \notin spoilt => disk[row[p]] = p /\ disk[row[p]] # None
      /\ \A n \in Names : disk[n] = None /\ n \in Named => n \in spoilt
  BY <1>a, Settled
<1>1. TypeOK'
  <2>1. call' \in [Calls -> CallTypes]
    BY DEF TypeOK, CallTypes, Kinds, Steps, Idle
  <2>2. disk' \in [Names -> Projects \cup {"part", User, None}]
    BY DEF TypeOK
  <2>3. row' \in [Projects -> Names \cup {None}] /\ spoilt' \in SUBSET Names
    BY DEF TypeOK, Named
  <2> QED BY <2>1, <2>2, <2>3 DEF TypeOK
<1>2. LockInv'
  BY ProjectsAssumption DEF TypeOK, LockInv, CallTypes, Idle, Unlocked
<1>3. CallInv'
  BY TwinNames DEF TypeOK, CallInv, CallTypes, Idle, Kinds, KindsAt
<1>4. NamesInv'
  <2>1. \A d \in Calls \ {c} : call'[d] = call[d] /\ call[d].step \in Unlocked
    BY <1>a DEF TypeOK
  <2>2. call'[c].step = "copy" /\ call'[c].todo = call[c].todo /\ call'[c].made = {}
    BY DEF TypeOK, CallTypes, CallInv
  <2>3. \A n \in call[c].todo : n \in Names /\ Free(n) /\ (n \in Named => n \in spoilt)
    BY <1>b DEF ServerInv, Free, NamesInv, CallInv, TypeOK, CallTypes, Named
  <2> QED BY <2>1, <2>2, <2>3, TwinNames DEF NamesInv, Unlocked, Free, Named, TypeOK, CallInv
<1>5. ListInv'
  BY TwinNames, ProjectsAssumption DEF TypeOK, ListInv, LockInv, Files, Unlocked, CallTypes, Idle
<1>6. ServerInv'
  BY TwinNames, ProjectsAssumption DEF TypeOK, CallInv, LockInv, ServerInv, NamesInv, Unlocked, CallTypes, Idle, Files, Free, Allows
<1>7. RowInv'
  BY TwinNames DEF TypeOK, CallInv, LockInv, RowInv, NamesInv, Unlocked, CallTypes, Idle, Free, Named
<1>8. KeyInv'
  BY TwinNames DEF TypeOK, KeyInv, Named
<1>9. OneCopy'
  BY TwinNames, OneCopyIs, OneCopyIsNext DEF TypeOK, CallInv, LockInv, NamesInv, Unlocked, Free, CallTypes
<1>10. StoreInv'
  BY ProjectsAssumption DEF TypeOK, LockInv, StoreInv, Single, CallTypes, Unlocked, Idle
<1> QED BY <1>1, <1>2, <1>3, <1>4, <1>5, <1>6, <1>7, <1>8, <1>9, <1>10

LEMMA CopyInv ==
    ASSUME IInv, NEW c \in Calls, Copy(c) PROVE IInv'
<1> USE DEF IInv, Copy, files, server, store, vars, Step, Leaves, Is, Name, Project, Calm
<1>a. lock = c /\ \A d \in Calls \ {c} : call[d].step \in Unlocked
  BY Alone DEF LockInv, Unlocked
<1>b. /\ \A p \in Projects : row[p] # None /\ row[p] \notin spoilt => disk[row[p]] = p /\ disk[row[p]] # None
      /\ \A n \in Names : disk[n] = None /\ n \in Named => n \in spoilt
  BY <1>a, Settled
<1>1. TypeOK'
  <2>1. call' \in [Calls -> CallTypes]
    BY DEF TypeOK, CallTypes, Kinds, Steps, Idle
  <2>2. disk' \in [Names -> Projects \cup {"part", User, None}]
    BY TwinNames DEF TypeOK, CallInv, CallTypes
  <2>3. row' \in [Projects -> Names \cup {None}] /\ spoilt' \in SUBSET Names
    BY TwinNames DEF TypeOK, CallInv, Named
  <2> QED BY <2>1, <2>2, <2>3, ProjectsAssumption DEF TypeOK
<1>2. LockInv'
  BY ProjectsAssumption DEF TypeOK, LockInv, CallTypes, Idle, Unlocked
<1>3. CallInv'
  BY TwinNames DEF TypeOK, CallInv, CallTypes, Idle, Kinds, KindsAt
<1>4. NamesInv'
  BY TwinNames, ProjectsAssumption DEF TypeOK, CallInv, LockInv, NamesInv, ServerInv, RowInv, Unlocked, Free, Named, Files, CallTypes, Idle
<1>5. ListInv'
  BY TwinNames, ProjectsAssumption DEF TypeOK, ListInv, LockInv, Files, Unlocked, CallTypes, Idle
<1>6. ServerInv'
  BY TwinNames, ProjectsAssumption DEF TypeOK, CallInv, LockInv, ServerInv, NamesInv, Unlocked, CallTypes, Idle, Files, Free, Allows
<1>7. RowInv'
  <2> SUFFICES ASSUME NEW p \in Projects, row'[p] # None, row'[p] \notin spoilt'
               PROVE  \/ disk'[row'[p]] = p
                      \/ /\ disk'[row'[p]] = None
                         /\ \E d \in Calls :
                              /\ call'[d].step \in {"rerow", "unrow"} /\ call'[d].name = row'[p]
                              /\ call'[d].step = "rerow" => disk'[Twin(row'[p])] \in {p, None}
    BY DEF RowInv
  <2>1. row[p] \in Names /\ disk[row[p]] = p /\ disk[row[p]] # None
    BY <1>b DEF TypeOK
  <2> QED BY <2>1 DEF TypeOK, NamesInv, CallTypes, Free, CallInv, KindsAt
<1>8. KeyInv'
  BY TwinNames DEF TypeOK, KeyInv, Named
<1>9. OneCopy'
  BY TwinNames, OneCopyIs, OneCopyIsNext DEF TypeOK, CallInv, LockInv, NamesInv, Unlocked, Free, CallTypes
<1>10. StoreInv'
  BY ProjectsAssumption DEF TypeOK, LockInv, StoreInv, Single, CallTypes, Unlocked, Idle
<1> QED BY <1>1, <1>2, <1>3, <1>4, <1>5, <1>6, <1>7, <1>8, <1>9, <1>10

LEMMA CopiedInv ==
    ASSUME IInv, NEW c \in Calls, Copied(c) PROVE IInv'
<1> USE DEF IInv, Copied, files, server, store, vars, Step, Leaves, Is, Name, Project, Calm
<1>a. lock = c /\ \A d \in Calls \ {c} : call[d].step \in Unlocked
  BY Alone DEF LockInv, Unlocked
<1>1. TypeOK'
  <2>1. call' \in [Calls -> CallTypes]
    BY TwinNames DEF TypeOK, CallTypes, Kinds, Steps, Idle, CallInv, Files
  <2>2. disk' \in [Names -> Projects \cup {"part", User, None}]
    BY TwinNames DEF TypeOK, CallInv, CallTypes
  <2>3. row' \in [Projects -> Names \cup {None}] /\ spoilt' \in SUBSET Names
    BY TwinNames DEF TypeOK, CallInv, Named
  <2> QED BY <2>1, <2>2, <2>3, ProjectsAssumption DEF TypeOK
<1>2. LockInv'
  BY ProjectsAssumption DEF TypeOK, LockInv, CallTypes, Idle, Unlocked
<1>3. CallInv'
  BY TwinNames DEF TypeOK, CallInv, CallTypes, Idle, Kinds, KindsAt
<1>4. NamesInv'
  <2>1. \A d \in Calls \ {c} : call'[d] = call[d] /\ call[d].step \in Unlocked
    BY <1>a DEF TypeOK
  <2>2. /\ call'[c].step \in {"copy", "report"} /\ call'[c].todo = call[c].todo
        /\ call'[c].made = call[c].made \cup {call[c].name}
    BY DEF TypeOK, CallTypes
  <2>3. /\ call[c].name \in Names /\ call[c].name \notin call[c].todo /\ Enabled(call[c].name)
        /\ \A n \in call[c].todo : n \in Names /\ Enabled(n) /\ n # Twin(call[c].name)
    BY TwinNames DEF CallInv, TypeOK, CallTypes
  <2>4. /\ \A n \in call[c].todo : Free(n) /\ (n \in Named => n \in spoilt)
        /\ call[c].made \cap loaded = {} /\ call[c].made \cap Named \subseteq spoilt
        /\ call[c].name \notin loaded /\ (call[c].name \in Named => call[c].name \in spoilt)
    BY DEF NamesInv
  <2>5. \A n \in call[c].todo : disk'[n] = None /\ disk'[Twin(n)] = None
    BY <2>3, <2>4, TwinNames DEF Free, TypeOK
  <2> QED BY <2>1, <2>2, <2>4, <2>5 DEF NamesInv, Unlocked, Free, Named
<1>5. ListInv'
  BY TwinNames, ProjectsAssumption DEF TypeOK, ListInv, LockInv, Files, Unlocked, CallTypes, Idle
<1>6. ServerInv'
  BY TwinNames, ProjectsAssumption DEF TypeOK, CallInv, LockInv, ServerInv, NamesInv, Unlocked, CallTypes, Idle, Files, Free, Allows
<1>7. RowInv'
  <2> SUFFICES ASSUME NEW p \in Projects, row'[p] # None, row'[p] \notin spoilt' PROVE disk'[row'[p]] = p
    BY DEF RowInv
  <2>1. disk[row[p]] = p /\ row[p] \in Names /\ row[p] \in Named
    BY <1>a, ProjectsAssumption DEF RowInv, Unlocked, TypeOK, Named
  <2>2. call[c].name \in Named => call[c].name \in spoilt
    BY DEF NamesInv
  <2> QED BY <2>1, <2>2 DEF TypeOK
<1>8. KeyInv'
  BY TwinNames DEF TypeOK, KeyInv, Named
<1>9. OneCopy'
  BY TwinNames, OneCopyIs, OneCopyIsNext DEF TypeOK, CallInv, LockInv, NamesInv, Unlocked, Free, CallTypes
<1>10. StoreInv'
  BY ProjectsAssumption DEF TypeOK, LockInv, StoreInv, Single, CallTypes, Unlocked, Idle
<1> QED BY <1>1, <1>2, <1>3, <1>4, <1>5, <1>6, <1>7, <1>8, <1>9, <1>10

LEMMA CopyFailsInv ==
    ASSUME IInv, NEW c \in Calls, CopyFails(c) PROVE IInv'
<1> USE DEF IInv, CopyFails, files, server, store, vars, Step, Leaves, Is, Name, Project, Calm
<1>a. lock = c /\ \A d \in Calls \ {c} : call[d].step \in Unlocked
  BY Alone DEF LockInv, Unlocked
<1>b. /\ \A p \in Projects : row[p] # None /\ row[p] \notin spoilt => disk[row[p]] = p /\ disk[row[p]] # None
      /\ \A n \in Names : disk[n] = None /\ n \in Named => n \in spoilt
  BY <1>a, Settled
<1>1. TypeOK'
  <2>1. call' \in [Calls -> CallTypes]
    BY DEF TypeOK, CallTypes, Kinds, Steps, Idle
  <2>2. disk' \in [Names -> Projects \cup {"part", User, None}]
    BY TwinNames DEF TypeOK, CallInv, CallTypes
  <2>3. row' \in [Projects -> Names \cup {None}] /\ spoilt' \in SUBSET Names
    BY TwinNames DEF TypeOK, CallInv, Named
  <2> QED BY <2>1, <2>2, <2>3, ProjectsAssumption DEF TypeOK
<1>2. LockInv'
  BY ProjectsAssumption DEF TypeOK, LockInv, CallTypes, Idle, Unlocked
<1>3. CallInv'
  BY TwinNames DEF TypeOK, CallInv, CallTypes, Idle, Kinds, KindsAt
<1>4. NamesInv'
  BY TwinNames, ProjectsAssumption DEF TypeOK, CallInv, LockInv, NamesInv, ServerInv, RowInv, Unlocked, Free, Named, Files, CallTypes, Idle
<1>5. ListInv'
  BY TwinNames, ProjectsAssumption DEF TypeOK, ListInv, LockInv, Files, Unlocked, CallTypes, Idle
<1>6. ServerInv'
  BY TwinNames, ProjectsAssumption DEF TypeOK, CallInv, LockInv, ServerInv, NamesInv, Unlocked, CallTypes, Idle, Files, Free, Allows
<1>7. RowInv'
  <2> SUFFICES ASSUME NEW p \in Projects, row'[p] # None, row'[p] \notin spoilt'
               PROVE  \/ disk'[row'[p]] = p
                      \/ /\ disk'[row'[p]] = None
                         /\ \E d \in Calls :
                              /\ call'[d].step \in {"rerow", "unrow"} /\ call'[d].name = row'[p]
                              /\ call'[d].step = "rerow" => disk'[Twin(row'[p])] \in {p, None}
    BY DEF RowInv
  <2>1. row[p] \in Names /\ disk[row[p]] = p /\ row[p] \in Named
    BY <1>b DEF TypeOK, Named
  <2> QED BY <2>1 DEF TypeOK, NamesInv, CallTypes
<1>8. KeyInv'
  BY TwinNames DEF TypeOK, KeyInv, Named
<1>9. OneCopy'
  BY TwinNames, OneCopyIs, OneCopyIsNext DEF TypeOK, CallInv, LockInv, NamesInv, Unlocked, Free, CallTypes
<1>10. StoreInv'
  BY ProjectsAssumption DEF TypeOK, LockInv, StoreInv, Single, CallTypes, Unlocked, Idle
<1> QED BY <1>1, <1>2, <1>3, <1>4, <1>5, <1>6, <1>7, <1>8, <1>9, <1>10

LEMMA FetchInv ==
    ASSUME IInv, NEW c \in Calls, Fetch(c) PROVE IInv'
<1> USE DEF IInv, Fetch, files, server, store, vars, Step, Leaves, Is, Name, Project, Calm
<1>0. call[c].name \in Names /\ Twin(call[c].name) \in Names /\ call[c] \in CallTypes
  BY TwinNames DEF TypeOK, CallInv, KindsAt, CallTypes
<1>s. \A d \in Calls \ {c} : call'[d] = call[d]
  BY DEF TypeOK
<1>a. lock = c /\ \A d \in Calls \ {c} : call[d].step \in Unlocked
  BY Alone DEF LockInv, Unlocked
<1>b. /\ \A p \in Projects : row[p] # None /\ row[p] \notin spoilt => disk[row[p]] = p /\ disk[row[p]] # None
      /\ \A n \in Names : disk[n] = None /\ n \in Named => n \in spoilt
  BY <1>a, Settled
<1>1. TypeOK'
  <2>1. call' \in [Calls -> CallTypes]
    BY DEF TypeOK, CallTypes, Kinds, Steps, Idle
  <2>2. disk' \in [Names -> Projects \cup {"part", User, None}]
    BY TwinNames DEF TypeOK, CallInv, CallTypes
  <2>3. row' \in [Projects -> Names \cup {None}] /\ spoilt' \in SUBSET Names
    BY TwinNames DEF TypeOK, CallInv, Named
  <2> QED BY <2>1, <2>2, <2>3, ProjectsAssumption DEF TypeOK
<1>2. LockInv'
  BY ProjectsAssumption DEF TypeOK, LockInv, CallTypes, Idle, Unlocked
<1>3. CallInv'
  <2>1. /\ call'[c].kind = call[c].kind /\ call'[c].name = call[c].name /\ call'[c].project = call[c].project
        /\ call'[c].todo = call[c].todo /\ call'[c].made = call[c].made /\ call'[c].step \in {"fetch"} /\ call[c].step = "work" /\ call[c].kind = "install"
    BY DEF TypeOK, CallTypes
  <2> QED BY <1>s, <2>1, <1>0 DEF TypeOK, CallInv, KindsAt, CallTypes, Kinds
<1>4. NamesInv'
  <2>1. \A d \in Calls \ {c} : call'[d] = call[d] /\ call[d].step \in Unlocked
    BY <1>a DEF TypeOK
  <2>2. call'[c].step = "fetch" /\ call'[c].name = call[c].name /\ call'[c].todo = {} /\ call'[c].made = {}
    BY DEF TypeOK, CallTypes, CallInv
  <2>3. Free(call[c].name) /\ call[c].name \notin loaded /\ (call[c].name \in Named => call[c].name \in spoilt)
    BY <1>0, <1>b DEF ServerInv, Free, NamesInv, CallInv, TypeOK, CallTypes, Named
  <2> QED BY <2>1, <2>2, <2>3, TwinNames, <1>0 DEF NamesInv, Unlocked, Free, Named, TypeOK, CallInv
<1>5. ListInv'
  BY TwinNames, ProjectsAssumption DEF TypeOK, ListInv, LockInv, Files, Unlocked, CallTypes, Idle
<1>6. ServerInv'
  BY TwinNames, ProjectsAssumption DEF TypeOK, CallInv, LockInv, ServerInv, NamesInv, Unlocked, CallTypes, Idle, Files, Free, Allows
<1>7. RowInv'
  BY TwinNames DEF TypeOK, CallInv, LockInv, RowInv, NamesInv, Unlocked, CallTypes, Idle, Free, Named
<1>8. KeyInv'
  BY TwinNames DEF TypeOK, KeyInv, Named
<1>9. OneCopy'
  BY TwinNames, OneCopyIs, OneCopyIsNext DEF TypeOK, CallInv, LockInv, NamesInv, Unlocked, Free, CallTypes
<1>10. StoreInv'
  BY ProjectsAssumption DEF TypeOK, LockInv, StoreInv, Single, CallTypes, Unlocked, Idle
<1> QED BY <1>1, <1>2, <1>3, <1>4, <1>5, <1>6, <1>7, <1>8, <1>9, <1>10

LEMMA FetchFailsInv ==
    ASSUME IInv, NEW c \in Calls, FetchFails(c) PROVE IInv'
<1> USE DEF IInv, FetchFails, files, server, store, vars, Step, Leaves, Is, Name, Project, Calm
<1>1. TypeOK'
  <2>1. call' \in [Calls -> CallTypes]
    BY DEF TypeOK, CallTypes, Kinds, Steps, Idle
  <2>2. disk' \in [Names -> Projects \cup {"part", User, None}]
    BY TwinNames DEF TypeOK, CallInv, CallTypes
  <2>3. row' \in [Projects -> Names \cup {None}] /\ spoilt' \in SUBSET Names
    BY TwinNames DEF TypeOK, CallInv, Named
  <2> QED BY <2>1, <2>2, <2>3, ProjectsAssumption DEF TypeOK
<1>2. LockInv'
  BY ProjectsAssumption DEF TypeOK, LockInv, CallTypes, Idle, Unlocked
<1>3. CallInv'
  BY TwinNames DEF TypeOK, CallInv, CallTypes, Idle, Kinds, KindsAt
<1>4. NamesInv'
  BY TwinNames, ProjectsAssumption DEF TypeOK, CallInv, LockInv, NamesInv, ServerInv, RowInv, Unlocked, Free, Named, Files, CallTypes, Idle
<1>5. ListInv'
  BY TwinNames, ProjectsAssumption DEF TypeOK, ListInv, LockInv, Files, Unlocked, CallTypes, Idle
<1>6. ServerInv'
  BY TwinNames, ProjectsAssumption DEF TypeOK, CallInv, LockInv, ServerInv, NamesInv, Unlocked, CallTypes, Idle, Files, Free, Allows
<1>7. RowInv'
  BY TwinNames DEF TypeOK, CallInv, LockInv, RowInv, NamesInv, Unlocked, CallTypes, Idle, Free, Named
<1>8. KeyInv'
  BY TwinNames DEF TypeOK, KeyInv, Named
<1>9. OneCopy'
  BY TwinNames, OneCopyIs, OneCopyIsNext DEF TypeOK, CallInv, LockInv, NamesInv, Unlocked, Free, CallTypes
<1>10. StoreInv'
  BY ProjectsAssumption DEF TypeOK, LockInv, StoreInv, Single, CallTypes, Unlocked, Idle
<1> QED BY <1>1, <1>2, <1>3, <1>4, <1>5, <1>6, <1>7, <1>8, <1>9, <1>10

LEMMA PlaceInv ==
    ASSUME IInv, NEW c \in Calls, Place(c) PROVE IInv'
<1> USE DEF IInv, Place, files, server, store, vars, Step, Leaves, Is, Name, Project, Calm
<1>0. call[c].name \in Names /\ Twin(call[c].name) \in Names /\ call[c] \in CallTypes
  BY TwinNames DEF TypeOK, CallInv, KindsAt, CallTypes
<1>p. call[c].project \in Projects
  BY DEF TypeOK, CallInv, KindsAt, CallTypes
<1>a. lock = c /\ \A d \in Calls \ {c} : call[d].step \in Unlocked
  BY Alone DEF LockInv, Unlocked
<1>1. TypeOK'
  <2>1. call' \in [Calls -> CallTypes]
    BY <1>0 DEF TypeOK, CallTypes, Kinds, Steps, Idle, Files, Named
  <2>2. disk' \in [Names -> Projects \cup {"part", User, None}]
    BY <1>0, <1>p DEF TypeOK
  <2>3. row' \in [Projects -> Names \cup {None}] /\ spoilt' \in SUBSET Names
    BY <1>0 DEF TypeOK
  <2> QED BY <2>1, <2>2, <2>3 DEF TypeOK
<1>2. LockInv'
  BY ProjectsAssumption DEF TypeOK, LockInv, CallTypes, Idle, Unlocked
<1>3. CallInv'
  BY TwinNames DEF TypeOK, CallInv, CallTypes, Idle, Kinds, KindsAt
<1>4. NamesInv'
  <2>1. \A d \in Calls \ {c} : call'[d] = call[d] /\ call[d].step \in Unlocked
    BY <1>a DEF TypeOK
  <2>2. /\ call'[c].step = "save" /\ call'[c].name = call[c].name /\ call'[c].project = call[c].project
        /\ call[c].step = "fetch"
    BY DEF TypeOK, CallTypes
  <2>3. /\ disk[Twin(call[c].name)] = None /\ call[c].name \notin loaded
        /\ call[c].name \in Named => call[c].name \in spoilt
    BY <1>0, <2>2 DEF NamesInv, Free, ServerInv
  <2>4. disk'[call[c].name] = call[c].project /\ disk'[Twin(call[c].name)] = None
    BY <1>0, <2>3, TwinNames DEF TypeOK
  <2> QED BY <2>1, <2>2, <2>3, <2>4 DEF NamesInv, Unlocked, Named
<1>5. ListInv'
  BY TwinNames, ProjectsAssumption DEF TypeOK, ListInv, LockInv, Files, Unlocked, CallTypes, Idle
<1>6. ServerInv'
  BY TwinNames, ProjectsAssumption DEF TypeOK, CallInv, LockInv, ServerInv, NamesInv, Unlocked, CallTypes, Idle, Files, Free, Allows
<1>7. RowInv'
  BY TwinNames DEF TypeOK, CallInv, LockInv, RowInv, NamesInv, Unlocked, CallTypes, Idle, Free, Named
<1>8. KeyInv'
  BY TwinNames DEF TypeOK, KeyInv, Named
<1>9. OneCopy'
  BY TwinNames, OneCopyIs, OneCopyIsNext DEF TypeOK, CallInv, LockInv, NamesInv, Unlocked, Free, CallTypes
<1>10. StoreInv'
  BY ProjectsAssumption DEF TypeOK, LockInv, StoreInv, Single, CallTypes, Unlocked, Idle
<1> QED BY <1>1, <1>2, <1>3, <1>4, <1>5, <1>6, <1>7, <1>8, <1>9, <1>10

LEMMA AsksUserInv ==
    ASSUME IInv, NEW c \in Calls, AsksUser(c) PROVE IInv'
<1> USE DEF IInv, AsksUser, files, server, store, vars, Step, Leaves, Is, Name, Project, Calm
<1>1. TypeOK'
  <2>1. call' \in [Calls -> CallTypes]
    BY DEF TypeOK, CallTypes, Kinds, Steps
  <2>2. disk' \in [Names -> Projects \cup {"part", User, None}]
    BY TwinNames DEF TypeOK, CallInv, CallTypes
  <2>3. row' \in [Projects -> Names \cup {None}] /\ spoilt' \in SUBSET Names
    BY TwinNames DEF TypeOK, CallInv, Named
  <2> QED BY <2>1, <2>2, <2>3, ProjectsAssumption DEF TypeOK, CallInv
<1>2. LockInv'
  BY ProjectsAssumption DEF TypeOK, LockInv, CallTypes, Idle, Unlocked
<1>3. CallInv'
  BY TwinNames DEF TypeOK, CallInv, CallTypes, Idle, Kinds, KindsAt
<1>4. NamesInv'
  BY TwinNames, ProjectsAssumption DEF TypeOK, CallInv, LockInv, NamesInv, ServerInv, RowInv, Unlocked, Free, Named, Files, CallTypes, Idle
<1>5. ListInv'
  BY TwinNames, ProjectsAssumption DEF TypeOK, ListInv, LockInv, Files, Unlocked, CallTypes, Idle
<1>6. ServerInv'
  BY TwinNames, ProjectsAssumption DEF TypeOK, CallInv, LockInv, ServerInv, NamesInv, Unlocked, CallTypes, Idle, Files, Free, Allows
<1>7. RowInv'
  BY TwinNames DEF TypeOK, CallInv, LockInv, RowInv, NamesInv, Unlocked, CallTypes, Idle, Free, Named
<1>8. KeyInv'
  BY TwinNames DEF TypeOK, KeyInv, Named
<1>9. OneCopy'
  BY TwinNames, OneCopyIs, OneCopyIsNext DEF TypeOK, CallInv, LockInv, NamesInv, Unlocked, Free, CallTypes
<1>10. StoreInv'
  BY ProjectsAssumption DEF TypeOK, LockInv, StoreInv, Single, CallTypes, Unlocked, Idle
<1> QED BY <1>1, <1>2, <1>3, <1>4, <1>5, <1>6, <1>7, <1>8, <1>9, <1>10

LEMMA FindInv ==
    ASSUME IInv, NEW c \in Calls, Find(c) PROVE IInv'
<1> USE DEF IInv, Find, files, server, store, vars, Step, Leaves, Is, Name, Project, Calm
<1>0. call[c] \in CallTypes
  BY DEF TypeOK
<1>s. \A d \in Calls \ {c} : call'[d] = call[d]
  BY DEF TypeOK
<1>1. TypeOK'
  <2>1. call' \in [Calls -> CallTypes]
    BY <1>0 DEF TypeOK, CallTypes, Kinds, Steps, Idle, Files, Named
  <2>2. disk' \in [Names -> Projects \cup {"part", User, None}]
    BY <1>0 DEF TypeOK
  <2>3. row' \in [Projects -> Names \cup {None}] /\ spoilt' \in SUBSET Names
    BY <1>0 DEF TypeOK
  <2> QED BY <2>1, <2>2, <2>3 DEF TypeOK
<1>2. LockInv'
  BY ProjectsAssumption DEF TypeOK, LockInv, CallTypes, Idle, Unlocked
<1>3. CallInv'
  <2>1. /\ call'[c].kind = call[c].kind /\ call'[c].name = call[c].name /\ call'[c].project = call[c].project
        /\ call'[c].todo = call[c].todo /\ call'[c].made = call[c].made /\ call'[c].step \in {"queue", "look"} /\ call[c].step = "find"
    BY DEF TypeOK, CallTypes
  <2> QED BY <1>s, <2>1, <1>0 DEF TypeOK, CallInv, KindsAt, CallTypes, Kinds
<1>4. NamesInv'
  BY TwinNames, ProjectsAssumption DEF TypeOK, CallInv, LockInv, NamesInv, ServerInv, RowInv, Unlocked, Free, Named, Files, CallTypes, Idle
<1>5. ListInv'
  BY TwinNames, ProjectsAssumption DEF TypeOK, ListInv, LockInv, Files, Unlocked, CallTypes, Idle
<1>6. ServerInv'
  <2>1. call'[c].step \in {"queue", "look"}
    BY DEF TypeOK, CallTypes
  <2> QED BY <1>s, <2>1 DEF ServerInv, Unlocked
<1>7. RowInv'
  BY TwinNames DEF TypeOK, CallInv, LockInv, RowInv, NamesInv, Unlocked, CallTypes, Idle, Free, Named
<1>8. KeyInv'
  BY TwinNames DEF TypeOK, KeyInv, Named
<1>9. OneCopy'
  BY TwinNames, OneCopyIs, OneCopyIsNext DEF TypeOK, CallInv, LockInv, NamesInv, Unlocked, Free, CallTypes
<1>10. StoreInv'
  BY ProjectsAssumption DEF TypeOK, StoreInv, Single, Named
<1> QED BY <1>1, <1>2, <1>3, <1>4, <1>5, <1>6, <1>7, <1>8, <1>9, <1>10

LEMMA InstalledInv ==
    ASSUME IInv, NEW c \in Calls, Installed(c) PROVE IInv'
<1> USE DEF IInv, Installed, files, server, store, vars, Step, Leaves, Is, Name, Project, Calm
<1>1. TypeOK'
  <2>1. call' \in [Calls -> CallTypes]
    BY DEF TypeOK, CallTypes, Kinds, Steps, Idle
  <2>2. disk' \in [Names -> Projects \cup {"part", User, None}]
    BY TwinNames DEF TypeOK, CallInv, CallTypes
  <2>3. row' \in [Projects -> Names \cup {None}] /\ spoilt' \in SUBSET Names
    BY TwinNames DEF TypeOK, CallInv, Named
  <2> QED BY <2>1, <2>2, <2>3, ProjectsAssumption DEF TypeOK
<1>2. LockInv'
  BY ProjectsAssumption DEF TypeOK, LockInv, CallTypes, Idle, Unlocked
<1>3. CallInv'
  BY TwinNames DEF TypeOK, CallInv, CallTypes, Idle, Kinds, KindsAt
<1>4. NamesInv'
  BY TwinNames, ProjectsAssumption DEF TypeOK, CallInv, LockInv, NamesInv, ServerInv, RowInv, Unlocked, Free, Named, Files, CallTypes, Idle
<1>5. ListInv'
  BY TwinNames, ProjectsAssumption DEF TypeOK, ListInv, LockInv, Files, Unlocked, CallTypes, Idle
<1>6. ServerInv'
  BY TwinNames, ProjectsAssumption DEF TypeOK, CallInv, LockInv, ServerInv, NamesInv, Unlocked, CallTypes, Idle, Files, Free, Allows
<1>7. RowInv'
  BY TwinNames DEF TypeOK, CallInv, LockInv, RowInv, NamesInv, Unlocked, CallTypes, Idle, Free, Named
<1>8. KeyInv'
  BY TwinNames DEF TypeOK, KeyInv, Named
<1>9. OneCopy'
  BY TwinNames, OneCopyIs, OneCopyIsNext DEF TypeOK, CallInv, LockInv, NamesInv, Unlocked, Free, CallTypes
<1>10. StoreInv'
  BY ProjectsAssumption DEF TypeOK, LockInv, StoreInv, Single, CallTypes, Unlocked, Idle
<1> QED BY <1>1, <1>2, <1>3, <1>4, <1>5, <1>6, <1>7, <1>8, <1>9, <1>10

LEMMA ImportInv ==
    ASSUME IInv, NEW c \in Calls, Import(c) PROVE IInv'
<1> USE DEF IInv, Import, files, server, store, vars, Step, Leaves, Is, Name, Project, Calm
<1>0. call[c].name \in Names /\ Twin(call[c].name) \in Names /\ call[c] \in CallTypes
  BY TwinNames DEF TypeOK, CallInv, KindsAt, CallTypes
<1>s. \A d \in Calls \ {c} : call'[d] = call[d]
  BY DEF TypeOK
<1>a. lock = c /\ \A d \in Calls \ {c} : call[d].step \in Unlocked
  BY Alone DEF LockInv, Unlocked
<1>b. /\ \A p \in Projects : row[p] # None /\ row[p] \notin spoilt => disk[row[p]] = p /\ disk[row[p]] # None
      /\ \A n \in Names : disk[n] = None /\ n \in Named => n \in spoilt
  BY <1>a, Settled
<1>1. TypeOK'
  <2>1. call' \in [Calls -> CallTypes]
    BY DEF TypeOK, CallTypes, Kinds, Steps
  <2>2. disk' \in [Names -> Projects \cup {"part", User, None}]
    BY TwinNames DEF TypeOK, CallInv, CallTypes
  <2>3. row' \in [Projects -> Names \cup {None}] /\ spoilt' \in SUBSET Names
    BY TwinNames DEF TypeOK, CallInv, Named
  <2> QED BY <2>1, <2>2, <2>3, ProjectsAssumption DEF TypeOK
<1>2. LockInv'
  BY ProjectsAssumption DEF TypeOK, LockInv, CallTypes, Idle, Unlocked
<1>3. CallInv'
  <2>1. /\ call'[c].kind = call[c].kind /\ call'[c].name = call[c].name /\ call'[c].project = call[c].project
        /\ call'[c].todo = call[c].todo /\ call'[c].made = call[c].made /\ call'[c].step \in {"copying"} /\ call[c].step = "work" /\ call[c].kind = "manual"
    BY DEF TypeOK, CallTypes
  <2> QED BY <1>s, <2>1, <1>0 DEF TypeOK, CallInv, KindsAt, CallTypes, Kinds
<1>4. NamesInv'
  <2>1. \A d \in Calls \ {c} : call'[d] = call[d] /\ call[d].step \in Unlocked
    BY <1>a DEF TypeOK
  <2>2. call'[c].step = "copying" /\ call'[c].name = call[c].name /\ call'[c].todo = {} /\ call'[c].made = {}
    BY DEF TypeOK, CallTypes, CallInv
  <2>3. Free(call[c].name) /\ call[c].name \notin loaded /\ (call[c].name \in Named => call[c].name \in spoilt)
    BY <1>0, <1>b DEF ServerInv, Free, NamesInv, CallInv, TypeOK, CallTypes, Named
  <2> QED BY <2>1, <2>2, <2>3, TwinNames, <1>0 DEF NamesInv, Unlocked, Free, Named, TypeOK, CallInv
<1>5. ListInv'
  BY TwinNames, ProjectsAssumption DEF TypeOK, ListInv, LockInv, Files, Unlocked, CallTypes, Idle
<1>6. ServerInv'
  BY TwinNames, ProjectsAssumption DEF TypeOK, CallInv, LockInv, ServerInv, NamesInv, Unlocked, CallTypes, Idle, Files, Free, Allows
<1>7. RowInv'
  <2> SUFFICES ASSUME NEW p \in Projects, row'[p] # None, row'[p] \notin spoilt'
               PROVE  \/ disk'[row'[p]] = p
                      \/ /\ disk'[row'[p]] = None
                         /\ \E d \in Calls :
                              /\ call'[d].step \in {"rerow", "unrow"} /\ call'[d].name = row'[p]
                              /\ call'[d].step = "rerow" => disk'[Twin(row'[p])] \in {p, None}
    BY DEF RowInv
  <2>1. row[p] \in Names /\ disk[row[p]] = p /\ disk[row[p]] # None
    BY <1>b DEF TypeOK
  <2> QED BY <2>1 DEF TypeOK, NamesInv, CallTypes, Free, CallInv, KindsAt
<1>8. KeyInv'
  BY TwinNames DEF TypeOK, KeyInv, Named
<1>9. OneCopy'
  BY TwinNames, OneCopyIs, OneCopyIsNext DEF TypeOK, CallInv, LockInv, NamesInv, Unlocked, Free, CallTypes
<1>10. StoreInv'
  BY ProjectsAssumption DEF TypeOK, LockInv, StoreInv, Single, CallTypes, Unlocked, Idle
<1> QED BY <1>1, <1>2, <1>3, <1>4, <1>5, <1>6, <1>7, <1>8, <1>9, <1>10

LEMMA ImportedInv ==
    ASSUME IInv, NEW c \in Calls, Imported(c) PROVE IInv'
<1> USE DEF IInv, Imported, files, server, store, vars, Step, Leaves, Is, Name, Project, Calm
<1>0. call[c].name \in Names /\ Twin(call[c].name) \in Names /\ call[c] \in CallTypes
  BY TwinNames DEF TypeOK, CallInv, KindsAt, CallTypes
<1>a. lock = c /\ \A d \in Calls \ {c} : call[d].step \in Unlocked
  BY Alone DEF LockInv, Unlocked
<1>b. /\ \A p \in Projects : row[p] # None /\ row[p] \notin spoilt => disk[row[p]] = p /\ disk[row[p]] # None
      /\ \A n \in Names : disk[n] = None /\ n \in Named => n \in spoilt
  BY <1>a, Settled
<1>1. TypeOK'
  <2>1. call' \in [Calls -> CallTypes]
    BY DEF TypeOK, CallTypes, Kinds, Steps, Idle
  <2>2. disk' \in [Names -> Projects \cup {"part", User, None}]
    BY TwinNames DEF TypeOK, CallInv, CallTypes
  <2>3. row' \in [Projects -> Names \cup {None}] /\ spoilt' \in SUBSET Names
    BY TwinNames DEF TypeOK, CallInv, Named
  <2> QED BY <2>1, <2>2, <2>3, ProjectsAssumption DEF TypeOK
<1>2. LockInv'
  BY ProjectsAssumption DEF TypeOK, LockInv, CallTypes, Idle, Unlocked
<1>3. CallInv'
  BY TwinNames DEF TypeOK, CallInv, CallTypes, Idle, Kinds, KindsAt
<1>4. NamesInv'
  <2>1. \A d \in Calls \ {c} : call'[d] = call[d] /\ call[d].step \in Unlocked
    BY <1>a DEF TypeOK
  <2>2. call'[c].step = "save" /\ call'[c].kind = "manual" /\ call'[c].name = call[c].name
    BY DEF TypeOK, CallTypes
  <2>3. /\ disk[Twin(call[c].name)] = None /\ call[c].name \notin loaded
        /\ call[c].name \in Named => call[c].name \in spoilt
    BY DEF NamesInv
  <2>4. disk'[Twin(call[c].name)] = None
    BY <1>0, <2>3, TwinNames DEF TypeOK
  <2> QED BY <2>1, <2>2, <2>3, <2>4 DEF NamesInv, Unlocked, Named
<1>5. ListInv'
  BY TwinNames, ProjectsAssumption DEF TypeOK, ListInv, LockInv, Files, Unlocked, CallTypes, Idle
<1>6. ServerInv'
  BY TwinNames, ProjectsAssumption DEF TypeOK, CallInv, LockInv, ServerInv, NamesInv, Unlocked, CallTypes, Idle, Files, Free, Allows
<1>7. RowInv'
  <2> SUFFICES ASSUME NEW p \in Projects, row'[p] # None, row'[p] \notin spoilt'
               PROVE  \/ disk'[row'[p]] = p
                      \/ /\ disk'[row'[p]] = None
                         /\ \E d \in Calls :
                              /\ call'[d].step \in {"rerow", "unrow"} /\ call'[d].name = row'[p]
                              /\ call'[d].step = "rerow" => disk'[Twin(row'[p])] \in {p, None}
    BY DEF RowInv
  <2>1. row[p] \in Names /\ disk[row[p]] = p /\ row[p] \in Named
    BY <1>b DEF TypeOK, Named
  <2> QED BY <2>1 DEF TypeOK, NamesInv, CallTypes
<1>8. KeyInv'
  BY TwinNames DEF TypeOK, KeyInv, Named
<1>9. OneCopy'
  BY TwinNames, OneCopyIs, OneCopyIsNext DEF TypeOK, CallInv, LockInv, NamesInv, Unlocked, Free, CallTypes
<1>10. StoreInv'
  BY ProjectsAssumption DEF TypeOK, LockInv, StoreInv, Single, CallTypes, Unlocked, Idle
<1> QED BY <1>1, <1>2, <1>3, <1>4, <1>5, <1>6, <1>7, <1>8, <1>9, <1>10

LEMMA SaveInv ==
    ASSUME IInv, NEW c \in Calls, Save(c) PROVE IInv'
<1> USE DEF IInv, Save, files, server, store, vars, Step, Leaves, Is, Name, Project, Calm, StillNamed
<1>0. call[c].name \in Names /\ Twin(call[c].name) \in Names /\ call[c] \in CallTypes
  BY TwinNames DEF TypeOK, CallInv, KindsAt, CallTypes
<1>1. TypeOK'
  <2>1. call' \in [Calls -> CallTypes]
    BY <1>0 DEF TypeOK, CallTypes, Kinds, Steps, Idle, Files, Named
  <2>2. disk' \in [Names -> Projects \cup {"part", User, None}]
    BY <1>0 DEF TypeOK
  <2>3. row' \in [Projects -> Names \cup {None}] /\ spoilt' \in SUBSET Names
    BY <1>0 DEF TypeOK
  <2> QED BY <2>1, <2>2, <2>3 DEF TypeOK
<1>2. LockInv'
  BY ProjectsAssumption DEF TypeOK, LockInv, CallTypes, Idle, Unlocked
<1>3. CallInv'
  BY TwinNames DEF TypeOK, CallInv, CallTypes, Idle, Kinds, KindsAt
<1>4. NamesInv'
  BY TwinNames, ProjectsAssumption DEF TypeOK, CallInv, LockInv, NamesInv, ServerInv, RowInv, Unlocked, Free, Named, Files, CallTypes, Idle
<1>5. ListInv'
  BY TwinNames, ProjectsAssumption DEF TypeOK, ListInv, LockInv, Files, Unlocked, CallTypes, Idle
<1>6. ServerInv'
  BY TwinNames, ProjectsAssumption DEF TypeOK, CallInv, LockInv, ServerInv, NamesInv, Unlocked, CallTypes, Idle, Files, Free, Allows
<1>7. RowInv'
  <2> SUFFICES ASSUME NEW p \in Projects, row'[p] # None, row'[p] \notin spoilt' PROVE disk'[row'[p]] = p
    BY DEF RowInv
  <2>1. lock = c /\ call[c].kind \in {"install", "manual"}
    BY DEF LockInv, Unlocked, CallInv, KindsAt
  <2>2. CASE p = call[c].project
    <3>1. row'[p] = call[c].name
      BY <2>2 DEF TypeOK
    <3>2. ~ Doubtful(c)
      BY <3>1
    <3>3. disk[call[c].name] # None /\ (call[c].kind = "manual" => disk[call[c].name] = p)
      BY <2>2, <3>2 DEF Doubtful
    <3> QED BY <2>1, <2>2, <3>1, <3>3 DEF NamesInv
  <2>3. CASE p # call[c].project
    <3>1. row'[p] = row[p] /\ row[p] # call[c].name
      BY <2>3 DEF TypeOK
    <3>2. row[p] \notin spoilt
      BY <3>1
    <3> QED BY <2>1, <3>1, <3>2, Settled
  <2> QED BY <2>2, <2>3
<1>8. KeyInv'
  BY TwinNames DEF TypeOK, KeyInv, Named
<1>9. OneCopy'
  BY TwinNames, OneCopyIs, OneCopyIsNext DEF TypeOK, CallInv, LockInv, NamesInv, Unlocked, Free, CallTypes
<1>10. StoreInv'
  BY ProjectsAssumption DEF TypeOK, LockInv, StoreInv, Single, CallTypes, Unlocked, Idle
<1> QED BY <1>1, <1>2, <1>3, <1>4, <1>5, <1>6, <1>7, <1>8, <1>9, <1>10

LEMMA SaveFailsInv ==
    ASSUME IInv, NEW c \in Calls, SaveFails(c) PROVE IInv'
<1> USE DEF IInv, SaveFails, files, server, store, vars, Step, Leaves, Is, Name, Project, Calm
<1>1. TypeOK'
  <2>1. call' \in [Calls -> CallTypes]
    BY DEF TypeOK, CallTypes, Kinds, Steps, Idle
  <2>2. disk' \in [Names -> Projects \cup {"part", User, None}]
    BY TwinNames DEF TypeOK, CallInv, CallTypes
  <2>3. row' \in [Projects -> Names \cup {None}] /\ spoilt' \in SUBSET Names
    BY TwinNames DEF TypeOK, CallInv, Named
  <2> QED BY <2>1, <2>2, <2>3, ProjectsAssumption DEF TypeOK
<1>2. LockInv'
  BY ProjectsAssumption DEF TypeOK, LockInv, CallTypes, Idle, Unlocked
<1>3. CallInv'
  BY TwinNames DEF TypeOK, CallInv, CallTypes, Idle, Kinds, KindsAt
<1>4. NamesInv'
  BY TwinNames, ProjectsAssumption DEF TypeOK, CallInv, LockInv, NamesInv, ServerInv, RowInv, Unlocked, Free, Named, Files, CallTypes, Idle
<1>5. ListInv'
  BY TwinNames, ProjectsAssumption DEF TypeOK, ListInv, LockInv, Files, Unlocked, CallTypes, Idle
<1>6. ServerInv'
  BY TwinNames, ProjectsAssumption DEF TypeOK, CallInv, LockInv, ServerInv, NamesInv, Unlocked, CallTypes, Idle, Files, Free, Allows
<1>7. RowInv'
  BY TwinNames DEF TypeOK, CallInv, LockInv, RowInv, NamesInv, Unlocked, CallTypes, Idle, Free, Named
<1>8. KeyInv'
  BY TwinNames DEF TypeOK, KeyInv, Named
<1>9. OneCopy'
  BY TwinNames, OneCopyIs, OneCopyIsNext DEF TypeOK, CallInv, LockInv, NamesInv, Unlocked, Free, CallTypes
<1>10. StoreInv'
  BY ProjectsAssumption DEF TypeOK, LockInv, StoreInv, Single, CallTypes, Unlocked, Idle
<1> QED BY <1>1, <1>2, <1>3, <1>4, <1>5, <1>6, <1>7, <1>8, <1>9, <1>10

LEMMA ReportInv ==
    ASSUME IInv, NEW c \in Calls, Report(c) PROVE IInv'
<1> USE DEF IInv, Report, files, server, store, vars, Step, Leaves, Is, Name, Project, Calm
<1>1. TypeOK'
  <2>1. call[c] \in CallTypes
    BY DEF TypeOK
  <2>2. [call[c] EXCEPT !.step = "look"] \in CallTypes
    BY <2>1 DEF CallTypes, Steps
  <2>3. call' \in [Calls -> CallTypes]
    BY <2>2 DEF TypeOK
  <2> QED BY <2>3 DEF TypeOK
<1>2. LockInv'
  BY ProjectsAssumption DEF TypeOK, LockInv, CallTypes, Idle, Unlocked
<1>3. CallInv'
  BY TwinNames DEF TypeOK, CallInv, CallTypes, Idle, Kinds, KindsAt
<1>4. NamesInv'
  BY TwinNames, ProjectsAssumption DEF TypeOK, CallInv, LockInv, NamesInv, ServerInv, RowInv, Unlocked, Free, Named, Files, CallTypes, Idle
<1>5. ListInv'
  BY TwinNames, ProjectsAssumption DEF TypeOK, ListInv, LockInv, Files, Unlocked, CallTypes, Idle
<1>6. ServerInv'
  BY TwinNames, ProjectsAssumption DEF TypeOK, CallInv, LockInv, ServerInv, NamesInv, Unlocked, CallTypes, Idle, Files, Free, Allows
<1>7. RowInv'
  BY TwinNames DEF TypeOK, CallInv, LockInv, RowInv, NamesInv, Unlocked, CallTypes, Idle, Free, Named
<1>8. KeyInv'
  BY TwinNames DEF TypeOK, KeyInv, Named
<1>9. OneCopy'
  BY TwinNames, OneCopyIs, OneCopyIsNext DEF TypeOK, CallInv, LockInv, NamesInv, Unlocked, Free, CallTypes
<1>10. StoreInv'
  BY ProjectsAssumption DEF TypeOK, LockInv, StoreInv, Single, CallTypes, Unlocked, Idle
<1> QED BY <1>1, <1>2, <1>3, <1>4, <1>5, <1>6, <1>7, <1>8, <1>9, <1>10

LEMMA ReportFailsInv ==
    ASSUME IInv, NEW c \in Calls, ReportFails(c) PROVE IInv'
<1> USE DEF IInv, ReportFails, files, server, store, vars, Step, Leaves, Is, Name, Project, Calm
<1>1. TypeOK'
  <2>1. call' \in [Calls -> CallTypes]
    BY DEF TypeOK, CallTypes, Kinds, Steps, Idle
  <2>2. disk' \in [Names -> Projects \cup {"part", User, None}]
    BY TwinNames DEF TypeOK, CallInv, CallTypes
  <2>3. row' \in [Projects -> Names \cup {None}] /\ spoilt' \in SUBSET Names
    BY TwinNames DEF TypeOK, CallInv, Named
  <2> QED BY <2>1, <2>2, <2>3, ProjectsAssumption DEF TypeOK
<1>2. LockInv'
  BY ProjectsAssumption DEF TypeOK, LockInv, CallTypes, Idle, Unlocked
<1>3. CallInv'
  BY TwinNames DEF TypeOK, CallInv, CallTypes, Idle, Kinds, KindsAt
<1>4. NamesInv'
  BY TwinNames, ProjectsAssumption DEF TypeOK, CallInv, LockInv, NamesInv, ServerInv, RowInv, Unlocked, Free, Named, Files, CallTypes, Idle
<1>5. ListInv'
  BY TwinNames, ProjectsAssumption DEF TypeOK, ListInv, LockInv, Files, Unlocked, CallTypes, Idle
<1>6. ServerInv'
  BY TwinNames, ProjectsAssumption DEF TypeOK, CallInv, LockInv, ServerInv, NamesInv, Unlocked, CallTypes, Idle, Files, Free, Allows
<1>7. RowInv'
  BY TwinNames DEF TypeOK, CallInv, LockInv, RowInv, NamesInv, Unlocked, CallTypes, Idle, Free, Named
<1>8. KeyInv'
  BY TwinNames DEF TypeOK, KeyInv, Named
<1>9. OneCopy'
  BY TwinNames, OneCopyIs, OneCopyIsNext DEF TypeOK, CallInv, LockInv, NamesInv, Unlocked, Free, CallTypes
<1>10. StoreInv'
  BY ProjectsAssumption DEF TypeOK, LockInv, StoreInv, Single, CallTypes, Unlocked, Idle
<1> QED BY <1>1, <1>2, <1>3, <1>4, <1>5, <1>6, <1>7, <1>8, <1>9, <1>10

LEMMA LookInv ==
    ASSUME IInv, NEW c \in Calls, Look(c) PROVE IInv'
<1> USE DEF IInv, Look, files, server, store, vars, Step, Leaves, Is, Name, Project, Calm
<1>0. call[c] \in CallTypes
  BY DEF TypeOK
<1>1. TypeOK'
  <2>1. call' \in [Calls -> CallTypes]
    BY <1>0 DEF TypeOK, CallTypes, Kinds, Steps, Idle, Files, Named
  <2>2. disk' \in [Names -> Projects \cup {"part", User, None}]
    BY <1>0 DEF TypeOK
  <2>3. row' \in [Projects -> Names \cup {None}] /\ spoilt' \in SUBSET Names
    BY <1>0 DEF TypeOK
  <2> QED BY <2>1, <2>2, <2>3 DEF TypeOK
<1>2. LockInv'
  BY ProjectsAssumption DEF TypeOK, LockInv, CallTypes, Idle, Unlocked
<1>3. CallInv'
  BY TwinNames DEF TypeOK, CallInv, CallTypes, Idle, Kinds, KindsAt
<1>4. NamesInv'
  BY TwinNames, ProjectsAssumption DEF TypeOK, CallInv, LockInv, NamesInv, ServerInv, RowInv, Unlocked, Free, Named, Files, CallTypes, Idle
<1>5. ListInv'
  BY TwinNames, ProjectsAssumption DEF TypeOK, ListInv, LockInv, Files, Unlocked, CallTypes, Idle
<1>6. ServerInv'
  BY TwinNames, ProjectsAssumption DEF TypeOK, CallInv, LockInv, ServerInv, NamesInv, Unlocked, CallTypes, Idle, Files, Free, Allows
<1>7. RowInv'
  BY TwinNames DEF TypeOK, CallInv, LockInv, RowInv, NamesInv, Unlocked, CallTypes, Idle, Free, Named
<1>8. KeyInv'
  BY TwinNames DEF TypeOK, KeyInv, Named
<1>9. OneCopy'
  BY TwinNames, OneCopyIs, OneCopyIsNext DEF TypeOK, CallInv, LockInv, NamesInv, Unlocked, Free, CallTypes
<1>10. StoreInv'
  BY ProjectsAssumption DEF TypeOK, StoreInv, Single, Named
<1> QED BY <1>1, <1>2, <1>3, <1>4, <1>5, <1>6, <1>7, <1>8, <1>9, <1>10

LEMMA LoadInv ==
    ASSUME IInv, NEW c \in Calls, Load(c) PROVE IInv'
<1> USE DEF IInv, Load, files, server, store, vars, Step, Leaves, Is, Name, Project, Calm
<1>0. call[c] \in CallTypes
  BY DEF TypeOK
<1>n. Named \subseteq Names
  BY DEF TypeOK, Named
<1>1. TypeOK'
  <2>1. call' \in [Calls -> CallTypes]
    BY <1>0, <1>n DEF TypeOK, CallTypes, Kinds, Steps, Idle
  <2>2. disk' \in [Names -> Projects \cup {"part", User, None}]
    BY <1>0 DEF TypeOK
  <2>3. row' \in [Projects -> Names \cup {None}] /\ spoilt' \in SUBSET Names
    BY <1>0 DEF TypeOK
  <2> QED BY <2>1, <2>2, <2>3 DEF TypeOK
<1>2. LockInv'
  BY ProjectsAssumption DEF TypeOK, LockInv, CallTypes, Idle, Unlocked
<1>3. CallInv'
  BY TwinNames DEF TypeOK, CallInv, CallTypes, Idle, Kinds, KindsAt
<1>4. NamesInv'
  BY TwinNames, ProjectsAssumption DEF TypeOK, CallInv, LockInv, NamesInv, ServerInv, RowInv, Unlocked, Free, Named, Files, CallTypes, Idle
<1>5. ListInv'
  BY TwinNames, ProjectsAssumption DEF TypeOK, ListInv, LockInv, Files, Unlocked, CallTypes, Idle
<1>6. ServerInv'
  BY TwinNames, ProjectsAssumption DEF TypeOK, CallInv, LockInv, ServerInv, NamesInv, Unlocked, CallTypes, Idle, Files, Free, Allows
<1>7. RowInv'
  BY TwinNames DEF TypeOK, CallInv, LockInv, RowInv, NamesInv, Unlocked, CallTypes, Idle, Free, Named
<1>8. KeyInv'
  BY TwinNames DEF TypeOK, KeyInv, Named
<1>9. OneCopy'
  BY TwinNames, OneCopyIs, OneCopyIsNext DEF TypeOK, CallInv, LockInv, NamesInv, Unlocked, Free, CallTypes
<1>10. StoreInv'
  BY ProjectsAssumption DEF TypeOK, StoreInv, Single, Named
<1> QED BY <1>1, <1>2, <1>3, <1>4, <1>5, <1>6, <1>7, <1>8, <1>9, <1>10

LEMMA PurgeInv ==
    ASSUME IInv, NEW c \in Calls, Purge(c) PROVE IInv'
<1> USE DEF IInv, Purge, files, server, store, vars, Step, Leaves, Is, Name, Project, Calm, Unnamed
<1>1. TypeOK'
  <2>1. call' \in [Calls -> CallTypes]
    BY DEF TypeOK, CallTypes, Kinds, Steps, Idle
  <2>2. disk' \in [Names -> Projects \cup {"part", User, None}]
    BY DEF TypeOK
  <2>3. row' \in [Projects -> Names \cup {None}] /\ spoilt' \in SUBSET Names
    BY DEF TypeOK, Named
  <2> QED BY <2>1, <2>2, <2>3 DEF TypeOK
<1>2. LockInv'
  BY ProjectsAssumption DEF TypeOK, LockInv, CallTypes, Idle, Unlocked
<1>3. CallInv'
  BY TwinNames DEF TypeOK, CallInv, CallTypes, Idle, Kinds, KindsAt
<1>4. NamesInv'
  BY TwinNames, ProjectsAssumption DEF TypeOK, CallInv, LockInv, NamesInv, ServerInv, RowInv, Unlocked, Free, Named, Files, CallTypes, Idle
<1>5. ListInv'
  BY TwinNames, ProjectsAssumption DEF TypeOK, ListInv, LockInv, Files, Unlocked, CallTypes, Idle
<1>6. ServerInv'
  BY TwinNames, ProjectsAssumption DEF TypeOK, CallInv, LockInv, ServerInv, NamesInv, Unlocked, CallTypes, Idle, Files, Free, Allows
<1>7. RowInv'
  BY TwinNames DEF TypeOK, CallInv, LockInv, RowInv, NamesInv, Unlocked, CallTypes, Idle, Free, Named
<1>8. KeyInv'
  BY TwinNames DEF TypeOK, KeyInv, Named
<1>9. OneCopy'
  BY TwinNames, OneCopyIs, OneCopyIsNext DEF TypeOK, CallInv, LockInv, NamesInv, Unlocked, Free, CallTypes
<1>10. StoreInv'
  <2>1. PICK n \in call[c].todo : row' = [p \in Projects |-> IF row[p] = n THEN None ELSE row[p]] /\ spoilt' = spoilt \ {n}
    BY DEF Unnamed
  <2>2. \A p \in Projects : row'[p] # None => row'[p] = row[p] /\ row'[p] # n
    BY <2>1
  <2> QED BY <2>1, <2>2 DEF StoreInv, Single, Named
<1> QED BY <1>1, <1>2, <1>3, <1>4, <1>5, <1>6, <1>7, <1>8, <1>9, <1>10

LEMMA ListFailsInv ==
    ASSUME IInv, NEW c \in Calls, ListFails(c) PROVE IInv'
<1> USE DEF IInv, ListFails, files, server, store, vars, Step, Leaves, Is, Name, Project, Calm
<1>1. TypeOK'
  <2>1. call' \in [Calls -> CallTypes]
    BY DEF TypeOK, CallTypes, Kinds, Steps, Idle
  <2>2. disk' \in [Names -> Projects \cup {"part", User, None}]
    BY TwinNames DEF TypeOK, CallInv, CallTypes
  <2>3. row' \in [Projects -> Names \cup {None}] /\ spoilt' \in SUBSET Names
    BY TwinNames DEF TypeOK, CallInv, Named
  <2> QED BY <2>1, <2>2, <2>3, ProjectsAssumption DEF TypeOK
<1>2. LockInv'
  BY ProjectsAssumption DEF TypeOK, LockInv, CallTypes, Idle, Unlocked
<1>3. CallInv'
  BY TwinNames DEF TypeOK, CallInv, CallTypes, Idle, Kinds, KindsAt
<1>4. NamesInv'
  BY TwinNames, ProjectsAssumption DEF TypeOK, CallInv, LockInv, NamesInv, ServerInv, RowInv, Unlocked, Free, Named, Files, CallTypes, Idle
<1>5. ListInv'
  BY TwinNames, ProjectsAssumption DEF TypeOK, ListInv, LockInv, Files, Unlocked, CallTypes, Idle
<1>6. ServerInv'
  BY TwinNames, ProjectsAssumption DEF TypeOK, CallInv, LockInv, ServerInv, NamesInv, Unlocked, CallTypes, Idle, Files, Free, Allows
<1>7. RowInv'
  BY TwinNames DEF TypeOK, CallInv, LockInv, RowInv, NamesInv, Unlocked, CallTypes, Idle, Free, Named
<1>8. KeyInv'
  BY TwinNames DEF TypeOK, KeyInv, Named
<1>9. OneCopy'
  BY TwinNames, OneCopyIs, OneCopyIsNext DEF TypeOK, CallInv, LockInv, NamesInv, Unlocked, Free, CallTypes
<1>10. StoreInv'
  BY ProjectsAssumption DEF TypeOK, StoreInv, Single, Named
<1> QED BY <1>1, <1>2, <1>3, <1>4, <1>5, <1>6, <1>7, <1>8, <1>9, <1>10

LEMMA DoneInv ==
    ASSUME IInv, NEW c \in Calls, Done(c) PROVE IInv'
<1> USE DEF IInv, Done, files, server, store, vars, Step, Leaves, Is, Name, Project, Calm
<1>1. TypeOK'
  <2>1. call' \in [Calls -> CallTypes]
    BY DEF TypeOK, CallTypes, Kinds, Steps, Idle
  <2>2. disk' \in [Names -> Projects \cup {"part", User, None}]
    BY TwinNames DEF TypeOK, CallInv, CallTypes
  <2>3. row' \in [Projects -> Names \cup {None}] /\ spoilt' \in SUBSET Names
    BY TwinNames DEF TypeOK, CallInv, Named
  <2> QED BY <2>1, <2>2, <2>3, ProjectsAssumption DEF TypeOK
<1>2. LockInv'
  BY ProjectsAssumption DEF TypeOK, LockInv, CallTypes, Idle, Unlocked
<1>3. CallInv'
  BY TwinNames DEF TypeOK, CallInv, CallTypes, Idle, Kinds, KindsAt
<1>4. NamesInv'
  BY TwinNames, ProjectsAssumption DEF TypeOK, CallInv, LockInv, NamesInv, ServerInv, RowInv, Unlocked, Free, Named, Files, CallTypes, Idle
<1>5. ListInv'
  BY TwinNames, ProjectsAssumption DEF TypeOK, ListInv, LockInv, Files, Unlocked, CallTypes, Idle
<1>6. ServerInv'
  BY TwinNames, ProjectsAssumption DEF TypeOK, CallInv, LockInv, ServerInv, NamesInv, Unlocked, CallTypes, Idle, Files, Free, Allows
<1>7. RowInv'
  BY TwinNames DEF TypeOK, CallInv, LockInv, RowInv, NamesInv, Unlocked, CallTypes, Idle, Free, Named
<1>8. KeyInv'
  BY TwinNames DEF TypeOK, KeyInv, Named
<1>9. OneCopy'
  BY TwinNames, OneCopyIs, OneCopyIsNext DEF TypeOK, CallInv, LockInv, NamesInv, Unlocked, Free, CallTypes
<1>10. StoreInv'
  BY ProjectsAssumption DEF TypeOK, StoreInv, Single, Named
<1> QED BY <1>1, <1>2, <1>3, <1>4, <1>5, <1>6, <1>7, <1>8, <1>9, <1>10

LEMMA EnterInv ==
    ASSUME IInv, NEW c \in Calls, Enter(c) PROVE IInv'
<1> USE DEF IInv, Enter, files, server, store, vars, Step, Leaves, Is, Name, Project, Calm
<1>1. TypeOK'
  <2>1. call' \in [Calls -> CallTypes]
    BY DEF TypeOK, CallTypes, Kinds, Steps, Idle
  <2>2. disk' \in [Names -> Projects \cup {"part", User, None}]
    BY TwinNames DEF TypeOK, CallInv, CallTypes
  <2>3. row' \in [Projects -> Names \cup {None}] /\ spoilt' \in SUBSET Names
    BY TwinNames DEF TypeOK, CallInv, Named
  <2> QED BY <2>1, <2>2, <2>3, ProjectsAssumption DEF TypeOK
<1>2. LockInv'
  BY ProjectsAssumption DEF TypeOK, LockInv, CallTypes, Idle, Unlocked
<1>3. CallInv'
  BY TwinNames DEF TypeOK, CallInv, CallTypes, Idle, Kinds, KindsAt
<1>4. NamesInv'
  BY TwinNames, ProjectsAssumption DEF TypeOK, CallInv, LockInv, NamesInv, ServerInv, RowInv, Unlocked, Free, Named, Files, CallTypes, Idle
<1>5. ListInv'
  BY TwinNames, ProjectsAssumption DEF TypeOK, ListInv, LockInv, Files, Unlocked, CallTypes, Idle
<1>6. ServerInv'
  BY TwinNames, ProjectsAssumption DEF TypeOK, CallInv, LockInv, ServerInv, NamesInv, Unlocked, CallTypes, Idle, Files, Free, Allows
<1>7. RowInv'
  BY TwinNames DEF TypeOK, CallInv, LockInv, RowInv, NamesInv, Unlocked, CallTypes, Idle, Free, Named
<1>8. KeyInv'
  BY TwinNames DEF TypeOK, KeyInv, Named
<1>9. OneCopy'
  BY TwinNames, OneCopyIs, OneCopyIsNext DEF TypeOK, CallInv, LockInv, NamesInv, Unlocked, Free, CallTypes
<1>10. StoreInv'
  BY ProjectsAssumption DEF TypeOK, LockInv, StoreInv, Single, CallTypes, Unlocked, Idle
<1> QED BY <1>1, <1>2, <1>3, <1>4, <1>5, <1>6, <1>7, <1>8, <1>9, <1>10

LEMMA RefusedInv ==
    ASSUME IInv, NEW c \in Calls, Refused(c) PROVE IInv'
<1> USE DEF IInv, Refused, files, server, store, vars, Step, Leaves, Is, Name, Project, Calm
<1>1. TypeOK'
  <2>1. call' \in [Calls -> CallTypes]
    BY DEF TypeOK, CallTypes, Kinds, Steps, Idle
  <2>2. disk' \in [Names -> Projects \cup {"part", User, None}]
    BY TwinNames DEF TypeOK, CallInv, CallTypes
  <2>3. row' \in [Projects -> Names \cup {None}] /\ spoilt' \in SUBSET Names
    BY TwinNames DEF TypeOK, CallInv, Named
  <2> QED BY <2>1, <2>2, <2>3, ProjectsAssumption DEF TypeOK
<1>2. LockInv'
  BY ProjectsAssumption DEF TypeOK, LockInv, CallTypes, Idle, Unlocked
<1>3. CallInv'
  BY TwinNames DEF TypeOK, CallInv, CallTypes, Idle, Kinds, KindsAt
<1>4. NamesInv'
  BY TwinNames, ProjectsAssumption DEF TypeOK, CallInv, LockInv, NamesInv, ServerInv, RowInv, Unlocked, Free, Named, Files, CallTypes, Idle
<1>5. ListInv'
  BY TwinNames, ProjectsAssumption DEF TypeOK, ListInv, LockInv, Files, Unlocked, CallTypes, Idle
<1>6. ServerInv'
  BY TwinNames, ProjectsAssumption DEF TypeOK, CallInv, LockInv, ServerInv, NamesInv, Unlocked, CallTypes, Idle, Files, Free, Allows
<1>7. RowInv'
  BY TwinNames DEF TypeOK, CallInv, LockInv, RowInv, NamesInv, Unlocked, CallTypes, Idle, Free, Named
<1>8. KeyInv'
  BY TwinNames DEF TypeOK, KeyInv, Named
<1>9. OneCopy'
  BY TwinNames, OneCopyIs, OneCopyIsNext DEF TypeOK, CallInv, LockInv, NamesInv, Unlocked, Free, CallTypes
<1>10. StoreInv'
  BY ProjectsAssumption DEF TypeOK, LockInv, StoreInv, Single, CallTypes, Unlocked, Idle
<1> QED BY <1>1, <1>2, <1>3, <1>4, <1>5, <1>6, <1>7, <1>8, <1>9, <1>10

LEMMA AskInv ==
    ASSUME IInv, NEW c \in Calls, Ask(c) PROVE IInv'
<1> USE DEF IInv, Ask, files, server, store, vars, Step, Leaves, Is, Name, Project, Calm, Begin
<1>a. PICK kind \in Kinds, step \in {"look", "queue", "find"}, n \in Names \cup {None}, p \in Projects \cup {None},
            names \in SUBSET Names :
        /\ Begin(c, kind, step, n, p, names)
        /\ kind \in {"toggle", "delete", "install", "manual"} => n \in Names
        /\ kind \in {"install", "manual"} => p \in Projects /\ Enabled(n)
        /\ kind = "manual" \/ step # "find"
        /\ \A m \in names : Enabled(m)
        /\ kind # "add" => names = {}
  BY DEF Kinds, Files, TypeOK, CallInv
<1>s. /\ \A d \in Calls \ {c} : call'[d] = call[d]
      /\ call'[c] = [kind |-> kind, step |-> step, name |-> n, project |-> p, todo |-> names, made |-> {}, seen |-> {}]
  BY <1>a DEF TypeOK
<1>1. TypeOK'
  <2>1. call' \in [Calls -> CallTypes]
    BY TwinNames DEF TypeOK, CallTypes, Kinds, Steps, Idle, CallInv, Files
  <2>2. disk' \in [Names -> Projects \cup {"part", User, None}]
    BY TwinNames DEF TypeOK, CallInv, CallTypes
  <2>3. row' \in [Projects -> Names \cup {None}] /\ spoilt' \in SUBSET Names
    BY TwinNames DEF TypeOK, CallInv, Named
  <2> QED BY <2>1, <2>2, <2>3, ProjectsAssumption DEF TypeOK
<1>2. LockInv'
  BY ProjectsAssumption DEF TypeOK, LockInv, CallTypes, Idle, Unlocked
<1>3. CallInv'
  BY <1>a, <1>s DEF CallInv, KindsAt, Kinds
<1>4. NamesInv'
  BY TwinNames, ProjectsAssumption DEF TypeOK, CallInv, LockInv, NamesInv, ServerInv, RowInv, Unlocked, Free, Named, Files, CallTypes, Idle
<1>5. ListInv'
  BY TwinNames, ProjectsAssumption DEF TypeOK, ListInv, LockInv, Files, Unlocked, CallTypes, Idle
<1>6. ServerInv'
  BY TwinNames, ProjectsAssumption DEF TypeOK, CallInv, LockInv, ServerInv, NamesInv, Unlocked, CallTypes, Idle, Files, Free, Allows
<1>7. RowInv'
  BY TwinNames DEF TypeOK, CallInv, LockInv, RowInv, NamesInv, Unlocked, CallTypes, Idle, Free, Named
<1>8. KeyInv'
  BY TwinNames DEF TypeOK, KeyInv, Named
<1>9. OneCopy'
  BY TwinNames, OneCopyIs, OneCopyIsNext DEF TypeOK, CallInv, LockInv, NamesInv, Unlocked, Free, CallTypes
<1>10. StoreInv'
  BY ProjectsAssumption DEF TypeOK, StoreInv, Single, Named
<1> QED BY <1>1, <1>2, <1>3, <1>4, <1>5, <1>6, <1>7, <1>8, <1>9, <1>10

LEMMA CancelManualInv ==
    ASSUME IInv, CancelManual PROVE IInv'
<1> USE DEF IInv, CancelManual, files, server, store, vars, Step, Leaves, Is, Name, Project, Calm
<1>1. TypeOK'
  <2>1. call' \in [Calls -> CallTypes]
    BY DEF TypeOK, CallTypes, Kinds, Steps, Idle
  <2>2. disk' \in [Names -> Projects \cup {"part", User, None}]
    BY TwinNames DEF TypeOK, CallInv, CallTypes
  <2>3. row' \in [Projects -> Names \cup {None}] /\ spoilt' \in SUBSET Names
    BY TwinNames DEF TypeOK, CallInv, Named
  <2> QED BY <2>1, <2>2, <2>3, ProjectsAssumption DEF TypeOK
<1>2. LockInv'
  BY ProjectsAssumption DEF TypeOK, LockInv, CallTypes, Idle, Unlocked
<1>3. CallInv'
  BY TwinNames DEF TypeOK, CallInv, CallTypes, Idle, Kinds, KindsAt
<1>4. NamesInv'
  BY TwinNames, ProjectsAssumption DEF TypeOK, CallInv, LockInv, NamesInv, ServerInv, RowInv, Unlocked, Free, Named, Files, CallTypes, Idle
<1>5. ListInv'
  BY TwinNames, ProjectsAssumption DEF TypeOK, ListInv, LockInv, Files, Unlocked, CallTypes, Idle
<1>6. ServerInv'
  BY TwinNames, ProjectsAssumption DEF TypeOK, CallInv, LockInv, ServerInv, NamesInv, Unlocked, CallTypes, Idle, Files, Free, Allows
<1>7. RowInv'
  BY TwinNames DEF TypeOK, CallInv, LockInv, RowInv, NamesInv, Unlocked, CallTypes, Idle, Free, Named
<1>8. KeyInv'
  BY TwinNames DEF TypeOK, KeyInv, Named
<1>9. OneCopy'
  BY TwinNames, OneCopyIs, OneCopyIsNext DEF TypeOK, CallInv, LockInv, NamesInv, Unlocked, Free, CallTypes
<1>10. StoreInv'
  BY ProjectsAssumption DEF TypeOK, StoreInv, Single, Named
<1> QED BY <1>1, <1>2, <1>3, <1>4, <1>5, <1>6, <1>7, <1>8, <1>9, <1>10

LEMMA LaunchInv ==
    ASSUME IInv, Launch PROVE IInv'
<1> USE DEF IInv, Launch, files, server, store, vars, Step, Leaves, Is, Name, Project, Calm
<1>1. TypeOK'
  <2>1. call' \in [Calls -> CallTypes]
    BY DEF TypeOK, CallTypes, Kinds, Steps, Idle
  <2>2. disk' \in [Names -> Projects \cup {"part", User, None}]
    BY TwinNames DEF TypeOK, CallInv, CallTypes
  <2>3. row' \in [Projects -> Names \cup {None}] /\ spoilt' \in SUBSET Names
    BY TwinNames DEF TypeOK, CallInv, Named
  <2> QED BY <2>1, <2>2, <2>3, ProjectsAssumption DEF TypeOK, Files
<1>2. LockInv'
  BY ProjectsAssumption DEF TypeOK, LockInv, CallTypes, Idle, Unlocked
<1>3. CallInv'
  BY TwinNames DEF TypeOK, CallInv, CallTypes, Idle, Kinds, KindsAt
<1>4. NamesInv'
  BY TwinNames, ProjectsAssumption DEF TypeOK, CallInv, LockInv, NamesInv, ServerInv, RowInv, Unlocked, Free, Named, Files, CallTypes, Idle
<1>5. ListInv'
  BY TwinNames, ProjectsAssumption DEF TypeOK, ListInv, LockInv, Files, Unlocked, CallTypes, Idle
<1>6. ServerInv'
  BY TwinNames, ProjectsAssumption DEF TypeOK, CallInv, LockInv, ServerInv, NamesInv, Unlocked, CallTypes, Idle, Files, Free, Allows
<1>7. RowInv'
  BY TwinNames DEF TypeOK, CallInv, LockInv, RowInv, NamesInv, Unlocked, CallTypes, Idle, Free, Named
<1>8. KeyInv'
  BY TwinNames DEF TypeOK, KeyInv, Named
<1>9. OneCopy'
  BY TwinNames, OneCopyIs, OneCopyIsNext DEF TypeOK, CallInv, LockInv, NamesInv, Unlocked, Free, CallTypes
<1>10. StoreInv'
  BY ProjectsAssumption DEF TypeOK, LockInv, StoreInv, Single, CallTypes, Unlocked, Idle
<1> QED BY <1>1, <1>2, <1>3, <1>4, <1>5, <1>6, <1>7, <1>8, <1>9, <1>10

LEMMA ReadyInv ==
    ASSUME IInv, Ready PROVE IInv'
<1> USE DEF IInv, Ready, files, server, store, vars, Step, Leaves, Is, Name, Project, Calm
<1>1. TypeOK'
  <2>1. call' \in [Calls -> CallTypes]
    BY DEF TypeOK, CallTypes, Kinds, Steps, Idle
  <2>2. disk' \in [Names -> Projects \cup {"part", User, None}]
    BY TwinNames DEF TypeOK, CallInv, CallTypes
  <2>3. row' \in [Projects -> Names \cup {None}] /\ spoilt' \in SUBSET Names
    BY TwinNames DEF TypeOK, CallInv, Named
  <2> QED BY <2>1, <2>2, <2>3, ProjectsAssumption DEF TypeOK
<1>2. LockInv'
  BY ProjectsAssumption DEF TypeOK, LockInv, CallTypes, Idle, Unlocked
<1>3. CallInv'
  BY TwinNames DEF TypeOK, CallInv, CallTypes, Idle, Kinds, KindsAt
<1>4. NamesInv'
  BY TwinNames, ProjectsAssumption DEF TypeOK, CallInv, LockInv, NamesInv, ServerInv, RowInv, Unlocked, Free, Named, Files, CallTypes, Idle
<1>5. ListInv'
  BY TwinNames, ProjectsAssumption DEF TypeOK, ListInv, LockInv, Files, Unlocked, CallTypes, Idle
<1>6. ServerInv'
  BY TwinNames, ProjectsAssumption DEF TypeOK, CallInv, LockInv, ServerInv, NamesInv, Unlocked, CallTypes, Idle, Files, Free, Allows
<1>7. RowInv'
  BY TwinNames DEF TypeOK, CallInv, LockInv, RowInv, NamesInv, Unlocked, CallTypes, Idle, Free, Named
<1>8. KeyInv'
  BY TwinNames DEF TypeOK, KeyInv, Named
<1>9. OneCopy'
  BY TwinNames, OneCopyIs, OneCopyIsNext DEF TypeOK, CallInv, LockInv, NamesInv, Unlocked, Free, CallTypes
<1>10. StoreInv'
  BY ProjectsAssumption DEF TypeOK, StoreInv, Single, Named
<1> QED BY <1>1, <1>2, <1>3, <1>4, <1>5, <1>6, <1>7, <1>8, <1>9, <1>10

LEMMA StopInv ==
    ASSUME IInv, Stop PROVE IInv'
<1> USE DEF IInv, Stop, files, server, store, vars, Step, Leaves, Is, Name, Project, Calm
<1>1. TypeOK'
  <2>1. call' \in [Calls -> CallTypes]
    BY DEF TypeOK, CallTypes, Kinds, Steps, Idle
  <2>2. disk' \in [Names -> Projects \cup {"part", User, None}]
    BY TwinNames DEF TypeOK, CallInv, CallTypes
  <2>3. row' \in [Projects -> Names \cup {None}] /\ spoilt' \in SUBSET Names
    BY TwinNames DEF TypeOK, CallInv, Named
  <2> QED BY <2>1, <2>2, <2>3, ProjectsAssumption DEF TypeOK
<1>2. LockInv'
  BY ProjectsAssumption DEF TypeOK, LockInv, CallTypes, Idle, Unlocked
<1>3. CallInv'
  BY TwinNames DEF TypeOK, CallInv, CallTypes, Idle, Kinds, KindsAt
<1>4. NamesInv'
  BY TwinNames, ProjectsAssumption DEF TypeOK, CallInv, LockInv, NamesInv, ServerInv, RowInv, Unlocked, Free, Named, Files, CallTypes, Idle
<1>5. ListInv'
  BY TwinNames, ProjectsAssumption DEF TypeOK, ListInv, LockInv, Files, Unlocked, CallTypes, Idle
<1>6. ServerInv'
  BY TwinNames, ProjectsAssumption DEF TypeOK, CallInv, LockInv, ServerInv, NamesInv, Unlocked, CallTypes, Idle, Files, Free, Allows
<1>7. RowInv'
  BY TwinNames DEF TypeOK, CallInv, LockInv, RowInv, NamesInv, Unlocked, CallTypes, Idle, Free, Named
<1>8. KeyInv'
  BY TwinNames DEF TypeOK, KeyInv, Named
<1>9. OneCopy'
  BY TwinNames, OneCopyIs, OneCopyIsNext DEF TypeOK, CallInv, LockInv, NamesInv, Unlocked, Free, CallTypes
<1>10. StoreInv'
  BY ProjectsAssumption DEF TypeOK, LockInv, StoreInv, Single, CallTypes, Unlocked, Idle
<1> QED BY <1>1, <1>2, <1>3, <1>4, <1>5, <1>6, <1>7, <1>8, <1>9, <1>10

LEMMA ExitInv ==
    ASSUME IInv, Exit PROVE IInv'
<1> USE DEF IInv, Exit, files, server, store, vars, Step, Leaves, Is, Name, Project, Calm
<1>1. TypeOK'
  <2>1. call' \in [Calls -> CallTypes]
    BY DEF TypeOK, CallTypes, Kinds, Steps, Idle
  <2>2. disk' \in [Names -> Projects \cup {"part", User, None}]
    BY TwinNames DEF TypeOK, CallInv, CallTypes
  <2>3. row' \in [Projects -> Names \cup {None}] /\ spoilt' \in SUBSET Names
    BY TwinNames DEF TypeOK, CallInv, Named
  <2> QED BY <2>1, <2>2, <2>3, ProjectsAssumption DEF TypeOK
<1>2. LockInv'
  BY ProjectsAssumption DEF TypeOK, LockInv, CallTypes, Idle, Unlocked
<1>3. CallInv'
  BY TwinNames DEF TypeOK, CallInv, CallTypes, Idle, Kinds, KindsAt
<1>4. NamesInv'
  BY TwinNames, ProjectsAssumption DEF TypeOK, CallInv, LockInv, NamesInv, ServerInv, RowInv, Unlocked, Free, Named, Files, CallTypes, Idle
<1>5. ListInv'
  BY TwinNames, ProjectsAssumption DEF TypeOK, ListInv, LockInv, Files, Unlocked, CallTypes, Idle
<1>6. ServerInv'
  BY TwinNames, ProjectsAssumption DEF TypeOK, CallInv, LockInv, ServerInv, NamesInv, Unlocked, CallTypes, Idle, Files, Free, Allows
<1>7. RowInv'
  BY TwinNames DEF TypeOK, CallInv, LockInv, RowInv, NamesInv, Unlocked, CallTypes, Idle, Free, Named
<1>8. KeyInv'
  BY TwinNames DEF TypeOK, KeyInv, Named
<1>9. OneCopy'
  BY TwinNames, OneCopyIs, OneCopyIsNext DEF TypeOK, CallInv, LockInv, NamesInv, Unlocked, Free, CallTypes
<1>10. StoreInv'
  BY ProjectsAssumption DEF TypeOK, StoreInv, Single, Named
<1> QED BY <1>1, <1>2, <1>3, <1>4, <1>5, <1>6, <1>7, <1>8, <1>9, <1>10

LEMMA CrashInv ==
    ASSUME IInv, Crash PROVE IInv'
<1> USE DEF IInv, Crash, files, server, store, vars, Step, Leaves, Is, Name, Project, Calm
<1>1. TypeOK'
  <2>1. call' \in [Calls -> CallTypes]
    BY DEF TypeOK, CallTypes, Kinds, Steps, Idle
  <2>2. disk' \in [Names -> Projects \cup {"part", User, None}]
    BY DEF TypeOK
  <2>3. row' \in [Projects -> Names \cup {None}] /\ spoilt' \in SUBSET Names
    BY DEF TypeOK, Named
  <2> QED BY <2>1, <2>2, <2>3 DEF TypeOK, Nothing
<1>2. LockInv'
  BY ProjectsAssumption DEF TypeOK, LockInv, CallTypes, Idle, Unlocked
<1>3. CallInv'
  BY TwinNames DEF TypeOK, CallInv, CallTypes, Idle, Kinds, KindsAt
<1>4. NamesInv'
  BY TwinNames, ProjectsAssumption DEF TypeOK, CallInv, LockInv, NamesInv, ServerInv, RowInv, Unlocked, Free, Named, Files, CallTypes, Idle
<1>5. ListInv'
  BY TwinNames, ProjectsAssumption DEF TypeOK, ListInv, LockInv, Files, Unlocked, CallTypes, Idle
<1>6. ServerInv'
  BY TwinNames, ProjectsAssumption DEF TypeOK, CallInv, LockInv, ServerInv, NamesInv, Unlocked, CallTypes, Idle, Files, Free, Allows
<1>7. RowInv'
  <2> SUFFICES ASSUME NEW p \in Projects, row[p] # None, row[p] \notin spoilt' PROVE disk[row[p]] = p
    BY DEF RowInv
  <2>1. row[p] \in Named /\ row[p] \in Files /\ row[p] \notin spoilt
    BY DEF Named, TypeOK
  <2> QED BY <2>1 DEF RowInv, Files
<1>8. KeyInv'
  BY TwinNames DEF TypeOK, KeyInv, Named
<1>9. OneCopy'
  BY TwinNames, OneCopyIs, OneCopyIsNext DEF TypeOK, CallInv, LockInv, NamesInv, Unlocked, Free, CallTypes
<1>10. StoreInv'
  BY ProjectsAssumption DEF StoreInv, Single, Nothing, Names
<1> QED BY <1>1, <1>2, <1>3, <1>4, <1>5, <1>6, <1>7, <1>8, <1>9, <1>10

LEMMA VanishInv ==
    ASSUME IInv, NEW n \in Names, Vanish(n) PROVE IInv'
<1> USE DEF IInv, Vanish, files, server, store, vars, Step, Leaves, Is, Name, Project, Calm
<1>1. TypeOK'
  <2>1. call' \in [Calls -> CallTypes]
    BY DEF TypeOK, CallTypes, Kinds, Steps, Idle
  <2>2. disk' \in [Names -> Projects \cup {"part", User, None}]
    BY TwinNames DEF TypeOK, CallInv, CallTypes
  <2>3. row' \in [Projects -> Names \cup {None}] /\ spoilt' \in SUBSET Names
    BY TwinNames DEF TypeOK, CallInv, Named
  <2> QED BY <2>1, <2>2, <2>3, ProjectsAssumption DEF TypeOK
<1>2. LockInv'
  BY ProjectsAssumption DEF TypeOK, LockInv, CallTypes, Idle, Unlocked
<1>3. CallInv'
  BY TwinNames DEF TypeOK, CallInv, CallTypes, Idle, Kinds, KindsAt
<1>4. NamesInv'
  BY TwinNames, ProjectsAssumption DEF TypeOK, CallInv, LockInv, NamesInv, ServerInv, RowInv, Unlocked, Free, Named, Files, CallTypes, Idle
<1>5. ListInv'
  BY TwinNames, ProjectsAssumption DEF TypeOK, ListInv, LockInv, Files, Unlocked, CallTypes, Idle
<1>6. ServerInv'
  BY TwinNames, ProjectsAssumption DEF TypeOK, CallInv, LockInv, ServerInv, NamesInv, Unlocked, CallTypes, Idle, Files, Free, Allows
<1>7. RowInv'
  BY TwinNames DEF TypeOK, CallInv, LockInv, RowInv, NamesInv, Unlocked, CallTypes, Idle, Free, Named
<1>8. KeyInv'
  BY TwinNames DEF TypeOK, KeyInv, Named
<1>9. OneCopy'
  BY TwinNames, OneCopyIs, OneCopyIsNext DEF TypeOK, CallInv, LockInv, NamesInv, Unlocked, Free, CallTypes
<1>10. StoreInv'
  BY ProjectsAssumption DEF TypeOK, StoreInv, Single, Named
<1> QED BY <1>1, <1>2, <1>3, <1>4, <1>5, <1>6, <1>7, <1>8, <1>9, <1>10

LEMMA BackupInv ==
    ASSUME IInv, Backup PROVE IInv'
<1> USE DEF IInv, Backup, files, server, store, vars
<1>a. \A c \in Calls : call[c].step \in Unlocked
  BY ProjectsAssumption DEF LockInv
<1>1. TypeOK'
  BY DEF TypeOK, Files
<1>2. LockInv'
  BY <1>a, ProjectsAssumption DEF LockInv, Unlocked
<1>3. CallInv'
  BY DEF CallInv, Name, Project
<1>4. NamesInv'
  BY <1>a DEF NamesInv, Unlocked, Name, Project, Free, Named
<1>5. ListInv'
  BY ProjectsAssumption DEF ListInv, Files
<1>6. ServerInv'
  BY <1>a, ProjectsAssumption DEF ServerInv
<1>7. RowInv'
  BY DEF RowInv, Name
<1>8. KeyInv'
  BY DEF KeyInv
<1>9. OneCopy'
  BY DEF OneCopy, Single
<1>10. StoreInv'
  <2>1. \A n \in Names : saved'[n] # None => disk[n] # None
    OBVIOUS
  <2>2. Single(saved)'
    BY <2>1 DEF OneCopy, Single, Names
  <2> QED BY <2>2, ProjectsAssumption DEF StoreInv, Single
<1> QED BY <1>1, <1>2, <1>3, <1>4, <1>5, <1>6, <1>7, <1>8, <1>9, <1>10

LEMMA DisplaceInv ==
    ASSUME IInv, Displace PROVE IInv'
<1> USE DEF IInv, Displace, files, server, store, vars
<1>a. \A c \in Calls : call[c].step \in Unlocked
  BY ProjectsAssumption DEF LockInv
<1>n. Single(Nothing)
  BY DEF Single, Nothing, Names
<1>r. \A p \in Projects : row[p] # None => row[p] \in spoilt'
  BY DEF Named
<1>1. TypeOK'
  BY DEF TypeOK, Nothing, Named
<1>2. LockInv'
  BY <1>a, ProjectsAssumption DEF LockInv, Unlocked
<1>3. CallInv'
  BY DEF CallInv, Name, Project
<1>4. NamesInv'
  BY <1>a DEF NamesInv, Unlocked
<1>5. ListInv'
  BY ProjectsAssumption DEF ListInv, Files
<1>6. ServerInv'
  BY <1>a, ProjectsAssumption DEF ServerInv
<1>7. RowInv'
  BY <1>r DEF RowInv, Named
<1>8. KeyInv'
  BY DEF KeyInv
<1>9. OneCopy'
  BY <1>n DEF OneCopy
<1>10. StoreInv'
  BY <1>n DEF StoreInv, OneCopy, Single, Nothing, Named
<1> QED BY <1>1, <1>2, <1>3, <1>4, <1>5, <1>6, <1>7, <1>8, <1>9, <1>10

LEMMA CopyBackInv ==
    ASSUME IInv, NEW n \in Names, CopyBack(n) PROVE IInv'
<1> USE DEF IInv, CopyBack, files, server, store, vars
<1>a. \A c \in Calls : call[c].step \in Unlocked
  BY ProjectsAssumption DEF LockInv
<1>r. \A p \in Projects : row[p] # None => row[p] \in spoilt
  BY DEF StoreInv, Named
<1>1. TypeOK'
  BY DEF TypeOK
<1>2. LockInv'
  BY <1>a, ProjectsAssumption DEF LockInv, Unlocked
<1>3. CallInv'
  BY DEF CallInv, Name, Project
<1>4. NamesInv'
  BY <1>a DEF NamesInv, Unlocked
<1>5. ListInv'
  BY ProjectsAssumption DEF ListInv, Files
<1>6. ServerInv'
  BY <1>a DEF ServerInv
<1>7. RowInv'
  BY <1>r DEF RowInv
<1>8. KeyInv'
  BY DEF KeyInv
<1>9. OneCopy'
  BY DEF OneCopy, StoreInv, Single, TypeOK, Names
<1>10. StoreInv'
  BY DEF StoreInv, Single, TypeOK, Named
<1> QED BY <1>1, <1>2, <1>3, <1>4, <1>5, <1>6, <1>7, <1>8, <1>9, <1>10

LEMMA RestoresInv ==
    ASSUME IInv, Restores PROVE IInv'
<1> USE DEF IInv, Restores, files, server, store, vars
<1>a. \A c \in Calls : call[c].step \in Unlocked
  BY ProjectsAssumption DEF LockInv
<1>r. \A p \in Projects : row[p] # None => row[p] \in spoilt
  BY DEF StoreInv, Named
<1>n. Single(Nothing)
  BY DEF Single, Nothing, Names
<1>1. TypeOK'
  BY DEF TypeOK, Nothing
<1>2. LockInv'
  BY <1>a, ProjectsAssumption DEF LockInv, Unlocked
<1>3. CallInv'
  BY DEF CallInv, Name, Project
<1>4. NamesInv'
  BY <1>a DEF NamesInv, Unlocked
<1>5. ListInv'
  BY ProjectsAssumption DEF ListInv, Files
<1>6. ServerInv'
  BY <1>a, ProjectsAssumption DEF ServerInv
<1>7. RowInv'
  BY <1>r DEF RowInv
<1>8. KeyInv'
  BY DEF KeyInv
<1>9. OneCopy'
  BY DEF OneCopy, StoreInv, Single, TypeOK, Names
<1>10. StoreInv'
  BY ProjectsAssumption, <1>n DEF StoreInv, Single
<1> QED BY <1>1, <1>2, <1>3, <1>4, <1>5, <1>6, <1>7, <1>8, <1>9, <1>10

(* The invariant is inductive: one step per action. *)
LEMMA Inductive == IInv /\ [Next]_vars => IInv'
<1> SUFFICES ASSUME IInv, [Next]_vars PROVE IInv' OBVIOUS
<1>1. CASE Around
  BY <1>1, CancelManualInv, LaunchInv, ReadyInv, StopInv, ExitInv, CrashInv, VanishInv, BackupInv, DisplaceInv,
     CopyBackInv, RestoresInv DEF Around
<1>2. ASSUME NEW c \in Calls, Edits(c) PROVE IInv'
  BY <1>2, FailsInv, MoveInv, StaysInv, RerowInv, RerowFailsInv, RecycleInv, UnrowInv, UnrowFailsInv,
     LookedInv, CopyInv, CopiedInv, CopyFailsInv DEF Edits
<1>3. ASSUME NEW c \in Calls, Installs(c) PROVE IInv'
  BY <1>3, FetchInv, FetchFailsInv, PlaceInv, AsksUserInv, FindInv, InstalledInv, ImportInv, ImportedInv,
     SaveInv, SaveFailsInv, ReportInv, ReportFailsInv DEF Installs
<1>4. ASSUME NEW c \in Calls, Lists(c) PROVE IInv'
  BY <1>4, LookInv, LoadInv, PurgeInv, ListFailsInv, DoneInv DEF Lists
<1>5. ASSUME NEW c \in Calls, Ask(c) \/ Enters(c) PROVE IInv'
  BY <1>5, AskInv, EnterInv, RefusedInv DEF Enters
<1>6. CASE UNCHANGED vars
  BY <1>6 DEF IInv, TypeOK, LockInv, CallInv, NamesInv, ListInv, ServerInv, RowInv, KeyInv, OneCopy, StoreInv,
     vars, files, server, store, Name, Project, Files, Named, Free, Single
<1> QED BY <1>1, <1>2, <1>3, <1>4, <1>5, <1>6 DEF Next, Works

(* The invariant holds in every reachable state. *)
THEOREM Invariant == Spec => []IInv
<1> QED BY InitInv, Inductive, PTL DEF Spec

(* No jar is ever there twice, enabled and disabled (mods.rs set_mod_enabled,
   install_downloaded_mod, copy_mod_files). *)
THEOREM OneCopyOfEach == Spec => []OneCopy
<1>1. IInv => OneCopy BY DEF IInv
<1> QED BY <1>1, Invariant, PTL

(* A row that counts speaks of the jar of its project: no call, whatever fails
   in it, gives it another project's (mods.rs finish_install, db.rs
   save_mod_metadata, rename_mod_metadata_file). *)
THEOREM RowsAreOfJars == Spec => []RowIsOfJar
<1>1. IInv => RowIsOfJar BY DEF IInv, RowInv, RowIsOfJar
<1> QED BY <1>1, Invariant, PTL

(* Calls that change a jar: which are under way when Java has opened some. *)
LEMMA StepKeeps ==
    ASSUME IInv, NEW c \in Calls, Works(c)
    PROVE  \A n \in loaded : disk'[n] = disk[n]
<1> USE DEF IInv, files, server, Step, Leaves, Is, Name, Project, Calm
<1>0. \A n \in loaded : n \in Names /\ disk[n] # None
  BY DEF TypeOK, ServerInv
<1>1. CASE Move(c) \/ Recycle(c) \/ RerowFails(c)
  <2>1. call[c].kind \in {"toggle", "delete"} /\ call[c].step \notin Unlocked
    BY <1>1 DEF Move, Recycle, RerowFails, CallInv, KindsAt, Unlocked
  <2>2. loaded = {}
    BY <2>1 DEF ServerInv
  <2> QED BY <2>2
<1>2. CASE Copy(c) \/ Import(c) \/ Place(c)
  <2>1. PICK n, x : n \in Names /\ disk' = [disk EXCEPT ![n] = x] /\ disk[n] = None
    <3>1. CASE Copy(c)
      BY <3>1 DEF Copy, TypeOK, CallTypes, NamesInv, Free
    <3>2. CASE Import(c)
      BY <3>2 DEF Import, TypeOK, CallInv, NamesInv, Free
    <3>3. CASE Place(c)
      BY <3>3 DEF Place, TypeOK, CallInv, KindsAt, NamesInv, Free
    <3> QED BY <1>2, <3>1, <3>2, <3>3
  <2> QED BY <1>0, <2>1 DEF TypeOK
<1>3. CASE Copied(c) \/ CopyFails(c) \/ Imported(c) \/ SaveFails(c)
  <2>1. call[c].step \in {"copying", "save"}
    BY <1>3 DEF Copied, CopyFails, Imported, SaveFails
  <2>2. call[c].name \notin loaded /\ (call[c].step = "copying" => call[c].made \cap loaded = {})
    BY <2>1 DEF NamesInv
  <2> QED BY <1>0, <1>3, <2>2 DEF Copied, CopyFails, Imported, SaveFails, TypeOK
<1>4. CASE UNCHANGED disk
  BY <1>4
<1> QED BY <1>1, <1>2, <1>3, <1>4 DEF Works, Edits, Installs, Lists, Fails, Stays, Rerow, Unrow, UnrowFails, Looked,
             Fetch, FetchFails, AsksUser, Find, Installed, Save, Report, ReportFails, Look, Load, Purge, ListFails, Done

(* The jars Java opened stay as they are while it runs (mods.rs
   editable_modded_server, commands.rs server_action). *)
THEOREM JarsStayForJava == Spec => JavaKeepsItsJars
<1>1. ASSUME IInv, Next PROVE \A n \in loaded \cap loaded' : disk'[n] = disk[n]
  <2>1. CASE \E c \in Calls : Works(c)
    BY <1>1, <2>1, StepKeeps
  <2>2. CASE Around
    <3>1. CASE Displace \/ Restores \/ \E n \in Names : CopyBack(n)
      BY <1>1, <3>1 DEF Displace, Restores, CopyBack, IInv, ServerInv
    <3> QED BY <1>1, <2>2, <3>1 DEF Around, CancelManual, Launch, Ready, Stop, Exit, Crash, Vanish, Backup, files, IInv,
            TypeOK
  <2>3. CASE \E c \in Calls : Ask(c) \/ Enters(c)
    BY <2>3 DEF Ask, Begin, Enters, Enter, Refused, files
  <2> QED BY <1>1, <2>1, <2>2, <2>3 DEF Next
<1>2. IInv /\ [Next]_vars => [\A n \in loaded \cap loaded' : disk'[n] = disk[n]]_vars
  BY <1>1
<1> QED BY <1>2, Invariant, PTL DEF Spec, JavaKeepsItsJars

(* Rows of jars that are there are deleted only by a listing without the lock
   that read the folder too early (mods.rs list_for_server). *)
THEOREM RowsStayWithJars == Spec => RowsFollowJars
<1> DEFINE Good == \A p \in Projects : row[p] # None /\ row'[p] = None /\ disk[row[p]] # None =>
                      \E c \in Calls : lock # c /\ call[c].step = "purge" /\ row[p] \in call[c].todo \ call[c].seen
<1>1. ASSUME IInv, Next PROVE Good
  <2> USE DEF files, Step, Calm
  <2>1. ASSUME NEW c \in Calls, Rerow(c) \/ Save(c) PROVE Good
    <3>1. Name(c) \in Names
      BY <1>1, <2>1 DEF Rerow, Save, IInv, CallInv, KindsAt
    <3>2. \A p \in Projects : row'[p] \in {row[p], Name(c), Twin(Name(c))}
      BY <2>1, <1>1 DEF Rerow, Save, IInv, TypeOK
    <3> QED BY <3>1, <3>2, TwinNames
  <2>2. ASSUME NEW c \in Calls, Unrow(c) PROVE Good
    <3>1. disk[Name(c)] = None
      BY <1>1, <2>2 DEF Unrow, IInv, NamesInv
    <3>2. \A p \in Projects : row'[p] = IF row[p] = Name(c) THEN None ELSE row[p]
      BY <2>2 DEF Unrow, Unnamed
    <3> QED BY <3>1, <3>2
  <2>3. ASSUME NEW c \in Calls, Purge(c) PROVE Good
    <3>1. PICK n \in call[c].todo : row' = Unnamed(n)
      BY <2>3 DEF Purge
    <3>2. \A p \in Projects : row'[p] = IF row[p] = n THEN None ELSE row[p]
      BY <3>1 DEF Unnamed
    <3>3. call[c].step = "purge" /\ n \notin call[c].seen /\ n \in Names
      BY <2>3, <1>1 DEF Purge, IInv, ListInv, TypeOK, CallTypes
    <3>4. lock = c => disk[n] = None
      BY <1>1, <3>3 DEF IInv, ListInv, Files
    <3> QED BY <3>1, <3>2, <3>3, <3>4
  <2>4. CASE UNCHANGED row
    BY <2>4
  <2>5. CASE Around
    BY <2>5, <2>4 DEF Around, CancelManual, Launch, Ready, Stop, Exit, Crash, Vanish, Backup, Displace,
       Restores, CopyBack
  <2>6. ASSUME NEW c \in Calls, Ask(c) \/ Enters(c) PROVE Good
    BY <2>6, <2>4 DEF Ask, Begin, Enters, Enter, Refused
  <2>7. ASSUME NEW c \in Calls, Works(c) PROVE Good
    BY <2>7, <2>1, <2>2, <2>3, <2>4 DEF Works, Edits, Installs, Lists, Fails, Move, Stays, RerowFails, Recycle,
       UnrowFails, Looked, Copy, Copied, CopyFails, Fetch, FetchFails, Place, AsksUser, Find, Installed, Import,
       Imported, SaveFails, Report, ReportFails, Look, Load, ListFails, Done
  <2> QED BY <1>1, <2>5, <2>6, <2>7 DEF Next
<1>2. IInv /\ [Next]_vars => [Good]_vars
  BY <1>1
<1> QED BY <1>2, Invariant, PTL DEF Spec, RowsFollowJars
=============================================================================
