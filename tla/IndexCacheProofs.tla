-------------------------- MODULE IndexCacheProofs --------------------------
(***************************************************************************)
(* Theorems about IndexCache, for every set of charts, clients and         *)
(* refreshers, every combination of flags and every bound.                 *)
(***************************************************************************)
EXTENDS IndexCache, FiniteSetTheorems, TLAPS

(* TypeOK made inductive: an event is there whenever one is being sent or  *)
(* handled.                                                                *)
TypeInv ==
    /\ TypeOK
    /\ \A p \in Clients :
           pc[p] \in {"put", "build", "send"} => req[p] \in Event
    /\ lpc \in {"look", "apply", "install"} => lreq \in Event

(* There is an address to reset pointers to.                               *)
LEMMA NowhereType == Nowhere \in IndexIds
<1>1. IndexIds # {}
  <2>1. Cardinality(Clients) \in Nat
    BY IndexIdsAssumption, FS_CardinalityType
  <2>2. Cardinality({}) = 0
    BY FS_EmptySet
  <2>3. QED
    BY <2>1, <2>2, IndexIdsAssumption
<1>2. QED
  BY <1>1 DEF Nowhere

LEMMA UnusedType == Unused \in Snapshot
BY DEF Unused, Empty, Snapshot, EntryMap

(* The server starts from a well-formed index.                             *)
LEMMA BootedType ==
  ASSUME NEW sf \in Snapshot \cup {None}, NEW s \in ObjectList, clock \in Nat
  PROVE  Booted(sf, s) \in Snapshot
<1>1. NewRepositoryIndex(sf) \in Snapshot
  BY DEF NewRepositoryIndex, Regenerated, Empty, Snapshot, EntryMap
<1>2. ASSUME NEW e \in EntryMap
      PROVE  Reconciled(e, s) \in EntryMap
  BY DEF Reconciled, EntryMap, Version, ObjectList, Stamp,
         ChartVersionFromStorageObject
<1>3. QED
  BY <1>1, <1>2 DEF Booted, Regenerated, Snapshot

LEMMA TypeInit == Init => TypeInv
<1>1. ASSUME Init PROVE TypeInv
  <2>1. storage \in ObjectList /\ clock \in Nat
    BY <1>1 DEF Init, ObjectList, Stamp
  <2>2. Booted(None, storage) \in Snapshot
    BY <2>1, BootedType
  <2>3. /\ known \in BOOLEAN
        /\ saves \in SUBSET Snapshot
        /\ entries \in EntryMap
        /\ heap \in [IndexIds -> Snapshot]
    BY <1>1, <2>2, UnusedType, FlagAssumption DEF Init, Snapshot
  <2>4. /\ repoIndex \in IndexIds
        /\ lptr \in IndexIds
        /\ ptr \in [Clients -> IndexIds]
    BY <1>1, NowhereType DEF Init
  <2>5. /\ pc \in [Procs -> ClientPC \cup RefresherPC]
        /\ list \in [Procs -> ObjectList \cup {None, Failed}]
        /\ todo \in [Procs -> Diffs]
        /\ req \in [Clients -> Event \cup {None}]
        /\ since \in [Clients -> Nat]
    BY <1>1 DEF Init, ClientPC, RefresherPC, NoDiff, Diffs
  <2>6. /\ \A p \in Clients : pc[p] = "idle"
        /\ lpc = "receive"
    BY <1>1 DEF Init, Procs
  <2>7. /\ statefile = None /\ restarts = 0 /\ torn = FALSE /\ lock = Nobody
        /\ waiters = {} /\ events = <<>> /\ lreq = None
    BY <1>1 DEF Init
  <2>8. events \in Seq(Event) /\ waiters \in SUBSET Procs /\ restarts \in Nat
    BY <2>7
  <2>9. QED
    BY <2>1, <2>3, <2>4, <2>5, <2>6, <2>7, <2>8 DEF TypeInv, TypeOK
<1>2. QED
  BY <1>1

(* What the changes of a diff make of the entries.                         *)
LEMMA EntryTypes ==
  ASSUME NEW e \in EntryMap, NEW c \in Charts, NEW stamp \in Stamp
  PROVE  LET v == ChartVersionFromStorageObject(stamp)
         IN  /\ RemoveEntry(e, c) \in EntryMap
             /\ UpdateEntry(e, c, v) \in EntryMap
             /\ AddEntry(e, c, v) \in EntryMap
<1>1. ChartVersionFromStorageObject(stamp) \in Version
  BY DEF ChartVersionFromStorageObject, Version
<1>2. QED
  BY <1>1 DEF RemoveEntry, UpdateEntry, AddEntry, EntryMap

(* What is left of a diff is a diff.                                       *)
LEMMA DiffTypes ==
  ASSUME NEW d \in Diffs, NEW c
  PROVE  /\ [d EXCEPT !.removed = @ \ {c}] \in Diffs
         /\ [d EXCEPT !.updated = @ \ {c}] \in Diffs
         /\ [d EXCEPT !.added = @ \ {c}] \in Diffs
BY DEF Diffs

(* A GET goes on to render or to marshal what it was answered with.        *)
LEMMA AnswerTypes ==
  ASSUME pc \in [Procs -> ClientPC \cup RefresherPC],
         ptr \in [Clients -> IndexIds], repoIndex \in IndexIds,
         NEW p \in Clients, Answer(p)
  PROVE  /\ pc' \in [Procs -> ClientPC \cup RefresherPC]
         /\ ptr' \in [Clients -> IndexIds]
         /\ \A q \in Clients :
                pc'[q] \in {"put", "build", "send"} => pc'[q] = pc[q]
<1>1. CASE Goto(p, "render") /\ ptr' = [ptr EXCEPT ![p] = repoIndex]
  BY <1>1 DEF Goto, Procs, ClientPC
<1>2. CASE Goto(p, "marshal") /\ UNCHANGED ptr
  BY <1>2 DEF Goto, Procs, ClientPC
<1>3. QED
  BY <1>1, <1>2 DEF Answer

LEMMA TypeStep == TypeInv /\ [Next]_vars => TypeInv'
<1> SUFFICES ASSUME TypeInv, [Next]_vars
             PROVE  TypeInv'
  OBVIOUS
<1> USE DEF TypeInv, TypeOK, ClientPC, RefresherPC, Goto, Procs,
            worldVars, diskVars, indexVars, listenerVars, procVars
<1>1. ASSUME NEW p \in Clients, GetIndexFileStart(p)
      PROVE  TypeInv'
  BY <1>1 DEF GetIndexFileStart, Snapshot
<1>2. ASSUME NEW p \in Clients, NEW c \in Charts, UploadChartPackage(p, c)
      PROVE  TypeInv'
  BY <1>2 DEF UploadChartPackage, Event, Stamp
<1>3. ASSUME NEW p \in Clients, NEW c \in Charts, DeleteChartVersion(p, c)
      PROVE  TypeInv'
  BY <1>3 DEF DeleteChartVersion, Event, Stamp, ObjectList
<1>4. ASSUME NEW p \in Refreshers, RebuildIndexForTenant(p)
      PROVE  TypeInv'
  BY <1>4 DEF RebuildIndexForTenant, JoinFetch
<1>5. ASSUME NEW p \in Procs, FetchChartsInStorage(p)
      PROVE  TypeInv'
  BY <1>5 DEF FetchChartsInStorage
<1>6. ASSUME NEW p \in Procs, FlushFetchers(p)
      PROVE  TypeInv'
  BY <1>6 DEF FlushFetchers
<1>7. ASSUME NEW p \in Procs, NEW c \in Charts, RemoveIndexObject(p, c)
      PROVE  TypeInv'
  <2>1. entries' \in EntryMap
    BY <1>7, EntryTypes DEF RemoveIndexObject, Stamp
  <2>2. todo' \in [Procs -> Diffs]
    <3> DEFINE d == [todo[p] EXCEPT !.removed = @ \ {c}]
    <3>1. d \in Diffs
      BY DiffTypes
    <3>2. todo' = [todo EXCEPT ![p] = d]
      BY <1>7 DEF RemoveIndexObject
    <3> HIDE DEF d
    <3>3. QED
      BY <3>1, <3>2
  <2>3. QED
    BY <1>7, <2>1, <2>2 DEF RemoveIndexObject
<1>8. ASSUME NEW p \in Procs, NEW c \in Charts, UpdateIndexObject(p, c)
      PROVE  TypeInv'
  <2>1. entries' \in EntryMap
    BY <1>8, EntryTypes DEF UpdateIndexObject, ObjectList
  <2>2. todo' \in [Procs -> Diffs]
    <3> DEFINE d == [todo[p] EXCEPT !.updated = @ \ {c}]
    <3>1. d \in Diffs
      BY DiffTypes
    <3>2. todo' = [todo EXCEPT ![p] = d]
      BY <1>8 DEF UpdateIndexObject
    <3> HIDE DEF d
    <3>3. QED
      BY <3>1, <3>2
  <2>3. QED
    BY <1>8, <2>1, <2>2 DEF UpdateIndexObject
<1>9. ASSUME NEW p \in Procs, NEW c \in Charts, AddIndexObject(p, c)
      PROVE  TypeInv'
  <2>1. entries' \in EntryMap
    BY <1>9, EntryTypes DEF AddIndexObject, ObjectList
  <2>2. todo' \in [Procs -> Diffs]
    <3> DEFINE d == [todo[p] EXCEPT !.added = @ \ {c}]
    <3>1. d \in Diffs
      BY DiffTypes
    <3>2. todo' = [todo EXCEPT ![p] = d]
      BY <1>9 DEF AddIndexObject
    <3> HIDE DEF d
    <3>3. QED
      BY <3>1, <3>2
  <2>3. QED
    BY <1>9, <2>1, <2>2 DEF AddIndexObject
<1>10. ASSUME NEW p \in Procs, RegenerateFail(p)
       PROVE  TypeInv'
  BY <1>10 DEF RegenerateFail, NoDiff, Diffs
<1>11. ASSUME NEW p \in Procs, RegenerateDone(p)
       PROVE  TypeInv'
  <2>1. Regenerated(entries) \in Snapshot
    BY DEF Regenerated, Snapshot
  <2>2. heap' \in [IndexIds -> Snapshot] /\ repoIndex' \in IndexIds
    BY <1>11, <2>1, UnusedType DEF RegenerateDone, Publish, Collect, FreeIds
  <2>3. saves' \in SUBSET Snapshot
    BY <1>11, <2>1 DEF RegenerateDone, Saved
  <2>4. /\ pc' \in [Procs -> ClientPC \cup RefresherPC]
        /\ ptr' \in [Clients -> IndexIds]
        /\ \A q \in Clients :
               pc'[q] \in {"put", "build", "send"} => pc'[q] = pc[q]
    BY <1>11, <2>2 DEF RegenerateDone
  <2>5. QED
    BY <1>11, <2>2, <2>3, <2>4 DEF RegenerateDone
<1>12. ASSUME NEW p \in Clients, GetIndexFileFast(p)
       PROVE  TypeInv'
  <2>1. /\ pc' \in [Procs -> ClientPC \cup RefresherPC]
        /\ ptr' \in [Clients -> IndexIds]
        /\ \A q \in Clients :
               pc'[q] \in {"put", "build", "send"} => pc'[q] = pc[q]
    BY <1>12, AnswerTypes DEF GetIndexFileFast
  <2>2. QED
    BY <1>12, <2>1 DEF GetIndexFileFast
<1>13. ASSUME NEW p \in Clients, GetIndexFileLock(p)
       PROVE  TypeInv'
  BY <1>13 DEF GetIndexFileLock, JoinFetch
<1>14. ASSUME NEW p \in Clients, GetIndexFileListError(p)
       PROVE  TypeInv'
  BY <1>14 DEF GetIndexFileListError
<1>15. ASSUME NEW p \in Clients, GetIndexFileNoChange(p)
       PROVE  TypeInv'
  <2>0. Answer(p)
    BY <1>15 DEF GetIndexFileNoChange
  <2>1. /\ pc' \in [Procs -> ClientPC \cup RefresherPC]
        /\ ptr' \in [Clients -> IndexIds]
        /\ \A q \in Clients :
               pc'[q] \in {"put", "build", "send"} => pc'[q] = pc[q]
    BY <2>0, AnswerTypes
  <2>2. list' \in [Procs -> ObjectList \cup {None, Failed}]
    BY <1>15 DEF GetIndexFileNoChange
  <2>3. lock' \in Procs \cup {Listener, Nobody}
    BY <1>15 DEF GetIndexFileNoChange
  <2>4. QED
    BY <1>15, <2>1, <2>2, <2>3 DEF GetIndexFileNoChange
<1>16. ASSUME NEW p \in Clients, GetIndexFileChange(p)
       PROVE  TypeInv'
  BY <1>16 DEF GetIndexFileChange, Diffs, GetObjectSliceDiff, Indexed, Stored
<1>17. ASSUME NEW p \in Clients, Render(p)
       PROVE  TypeInv'
  BY <1>17, NowhereType
  DEF Render, Collect, Snapshot, Regenerated, Unused, Empty, EntryMap
<1>18. ASSUME NEW p \in Clients, Marshal(p)
       PROVE  TypeInv'
  BY <1>18 DEF Marshal
<1>19. ASSUME NEW p \in Clients, PutObject(p)
       PROVE  TypeInv'
  <2> DEFINE stamp == clock + 1
             e     == [req[p] EXCEPT !.digest = stamp]
  <2>1. stamp \in Nat /\ req[p] \in Event
    BY <1>19 DEF PutObject
  <2>2. e \in Event
    BY <2>1 DEF Event, Stamp
  <2>3. /\ clock' = stamp
        /\ storage' = [storage EXCEPT ![req[p].chart] = stamp]
        /\ req' = [req EXCEPT ![p] = e]
        /\ pc' = [pc EXCEPT ![p] = "build"]
    BY <1>19 DEF PutObject
  <2>4. UNCHANGED <<statefile, saves, restarts, indexVars, lock, waiters,
                    listenerVars, list, todo, ptr, since>>
    BY <1>19 DEF PutObject
  <2> HIDE DEF stamp, e
  <2>5. storage' \in ObjectList /\ clock' \in Nat
    BY <2>1, <2>3 DEF ObjectList, Stamp
  <2>6. QED
    BY <2>2, <2>3, <2>4, <2>5
<1>20. ASSUME NEW p \in Clients, PutObjectError(p)
       PROVE  TypeInv'
  BY <1>20 DEF PutObjectError
<1>21. ASSUME NEW p \in Clients, BuildEvent(p)
       PROVE  TypeInv'
  <2> DEFINE e == [req[p] EXCEPT !.created = clock]
  <2>1. req[p] \in Event /\ pc[p] = "build"
    BY <1>21 DEF BuildEvent
  <2>2. e \in Event
    BY <2>1 DEF Event, Stamp
  <2>3. /\ req' = [req EXCEPT ![p] = e]
        /\ pc' = [pc EXCEPT ![p] = "send"]
    BY <1>21 DEF BuildEvent
  <2>4. UNCHANGED <<worldVars, indexVars, lock, waiters, listenerVars, list,
                    todo, ptr, since>>
    BY <1>21 DEF BuildEvent
  <2> HIDE DEF e
  <2>5. QED
    BY <2>2, <2>3, <2>4
<1>22. ASSUME NEW p \in Clients, EmitEvent(p)
       PROVE  TypeInv'
  BY <1>22 DEF EmitEvent
<1>23. ASSUME NEW p \in Clients, HandOver(p)
       PROVE  TypeInv'
  BY <1>23 DEF HandOver
<1>24. ASSUME NEW p \in Refreshers, RefreshListError(p)
       PROVE  TypeInv'
  BY <1>24 DEF RefreshListError
<1>25. ASSUME NEW p \in Refreshers, RefreshNoChange(p)
       PROVE  TypeInv'
  BY <1>25 DEF RefreshNoChange
<1>26. ASSUME NEW p \in Refreshers, RefreshChange(p)
       PROVE  TypeInv'
  BY <1>26 DEF RefreshChange, Diffs, GetObjectSliceDiff, Indexed, Stored
<1>27. ASSUME NEW p \in Refreshers, RefreshLock(p)
       PROVE  TypeInv'
  BY <1>27 DEF RefreshLock
<1>28. ASSUME ReceiveEvent
       PROVE  TypeInv'
  BY <1>28 DEF ReceiveEvent
<1>29. ASSUME LookUpIndex
       PROVE  TypeInv'
  BY <1>29 DEF LookUpIndex
<1>30. ASSUME ApplyEvent
       PROVE  TypeInv'
  BY <1>30
  DEF ApplyEvent, UpdateEntry, AddEntry, RemoveEntry, Event, EntryMap,
      Version, Stamp
<1>31. ASSUME InstallIndex
       PROVE  TypeInv'
  BY <1>31, NowhereType
  DEF InstallIndex, Collect, Snapshot, Regenerated, Unused, Empty, EntryMap
<1>32. ASSUME SpawnSave
       PROVE  TypeInv'
  BY <1>32 DEF SpawnSave, Saved
<1>33. ASSUME NEW snap \in saves, SaveStatefile(snap)
       PROVE  TypeInv'
  BY <1>33 DEF SaveStatefile
<1>34. ASSUME NEW c \in Charts, ManualPut(c)
       PROVE  TypeInv'
  BY <1>34 DEF ManualPut, ObjectList, Stamp
<1>35. ASSUME NEW c \in Charts, ManualDelete(c)
       PROVE  TypeInv'
  BY <1>35 DEF ManualDelete, ObjectList, Stamp
<1>36. ASSUME Restart
       PROVE  TypeInv'
  <2> DEFINE snap == Booted(statefile, storage)
  <2>1. snap \in Snapshot
    BY BootedType
  <2> HIDE DEF snap
  <2>2. PICK ps \in {{snap}, {}} : FreshMemory(snap, ps)
    BY <1>36 DEF Restart, snap
  <2>3. /\ known' \in BOOLEAN
        /\ saves' \in SUBSET Snapshot
        /\ entries' \in EntryMap
        /\ heap' \in [IndexIds -> Snapshot]
    BY <2>1, <2>2, UnusedType, FlagAssumption DEF FreshMemory, Snapshot
  <2>4. /\ repoIndex' \in IndexIds
        /\ lptr' \in IndexIds
        /\ ptr' \in [Clients -> IndexIds]
    BY <2>2, NowhereType DEF FreshMemory
  <2>5. /\ pc' \in [Procs -> ClientPC \cup RefresherPC]
        /\ list' \in [Procs -> ObjectList \cup {None, Failed}]
        /\ todo' \in [Procs -> Diffs]
        /\ req' \in [Clients -> Event \cup {None}]
        /\ since' \in [Clients -> Nat]
    BY <2>2 DEF FreshMemory, NoDiff, Diffs
  <2>6. /\ \A p \in Clients : pc'[p] = "idle"
        /\ lpc' = "receive"
    BY <2>2 DEF FreshMemory
  <2>7. /\ torn' = FALSE /\ lock' = Nobody /\ waiters' = {}
        /\ events' = <<>> /\ lreq' = None
    BY <2>2 DEF FreshMemory
  <2>8. restarts' \in Nat /\ UNCHANGED <<storage, clock, statefile>>
    BY <1>36 DEF Restart
  <2>9. events' \in Seq(Event) /\ waiters' \in SUBSET Procs
    BY <2>7
  <2>10. QED
    BY <2>3, <2>4, <2>5, <2>6, <2>7, <2>8, <2>9
<1>37. CASE UNCHANGED vars
  BY <1>37 DEF vars
<1>38. QED
  BY <1>1, <1>2, <1>3, <1>4, <1>5, <1>6, <1>7, <1>8, <1>9, <1>10,
     <1>11, <1>12, <1>13, <1>14, <1>15, <1>16, <1>17, <1>18, <1>19,
     <1>20, <1>21, <1>22, <1>23, <1>24, <1>25, <1>26, <1>27, <1>28,
     <1>29, <1>30, <1>31, <1>32, <1>33, <1>34, <1>35, <1>36, <1>37
  DEF Next, RequestStart, Progress, RegenerateStep,
     GetIndexFileStep, UploadStep, RefreshStep, ListenerStep, Procs

(* Every variable keeps its type, whatever the instance.                   *)
THEOREM TypeCorrect == Spec => []TypeOK
<1>1. TypeInv => TypeOK
  BY DEF TypeInv
<1>2. QED
  BY <1>1, TypeInit, TypeStep, PTL DEF Spec
-----------------------------------------------------------------------------
(* One goroutine lists and those that wait, wait for it.                   *)

LEMMA OneListerInit == Init => OneLister
BY DEF Init, OneLister, Listers

(* Who asks for the list becomes the one that lists, or waits for it.      *)
LEMMA JoinOneLister ==
  ASSUME OneLister, NEW p \in Procs, pc[p] \notin {"list", "wait", "flush"},
         pc \in [Procs -> ClientPC \cup RefresherPC], JoinFetch(p)
  PROVE  OneLister'
<1> USE DEF OneLister, Listers, JoinFetch, Goto
<1>1. CASE waiters = {}
  <2>1. waiters' = {p} /\ pc' = [pc EXCEPT ![p] = "list"]
    BY <1>1
  <2>2. \A q \in Procs : pc[q] \notin {"list", "wait", "flush"}
    BY <1>1
  <2>3. QED
    BY <2>1, <2>2
<1>2. CASE waiters # {}
  <2>1. waiters' = waiters \cup {p} /\ pc' = [pc EXCEPT ![p] = "wait"]
    BY <1>2
  <2>2. Listers' = Listers
    BY <2>1
  <2>3. QED
    BY <1>2, <2>1, <2>2
<1>3. QED
  BY <1>1, <1>2

LEMMA OneListerStep == TypeInv /\ OneLister /\ [Next]_vars => OneLister'
<1> SUFFICES ASSUME TypeInv, OneLister, [Next]_vars
             PROVE  OneLister'
  OBVIOUS
<1> USE DEF TypeInv, TypeOK, OneLister, Listers, Goto, Procs,
            worldVars, diskVars, indexVars, listenerVars, procVars
<1>1. ASSUME NEW p \in Clients, GetIndexFileStart(p)
      PROVE  OneLister'
  BY <1>1 DEF GetIndexFileStart
<1>2. ASSUME NEW p \in Clients, NEW c \in Charts, UploadChartPackage(p, c)
      PROVE  OneLister'
  BY <1>2 DEF UploadChartPackage
<1>3. ASSUME NEW p \in Clients, NEW c \in Charts, DeleteChartVersion(p, c)
      PROVE  OneLister'
  BY <1>3 DEF DeleteChartVersion
<1>4. ASSUME NEW p \in Refreshers, RebuildIndexForTenant(p)
      PROVE  OneLister'
  BY <1>4, JoinOneLister DEF RebuildIndexForTenant
<1>5. ASSUME NEW p \in Procs, FetchChartsInStorage(p)
      PROVE  OneLister'
  BY <1>5 DEF FetchChartsInStorage
<1>6. ASSUME NEW p \in Procs, FlushFetchers(p)
      PROVE  OneLister'
  BY <1>6 DEF FlushFetchers
<1>7. ASSUME NEW p \in Procs, NEW c \in Charts, RemoveIndexObject(p, c)
      PROVE  OneLister'
  BY <1>7 DEF RemoveIndexObject
<1>8. ASSUME NEW p \in Procs, NEW c \in Charts, UpdateIndexObject(p, c)
      PROVE  OneLister'
  BY <1>8 DEF UpdateIndexObject
<1>9. ASSUME NEW p \in Procs, NEW c \in Charts, AddIndexObject(p, c)
      PROVE  OneLister'
  BY <1>9 DEF AddIndexObject
<1>10. ASSUME NEW p \in Procs, RegenerateFail(p)
       PROVE  OneLister'
  BY <1>10 DEF RegenerateFail
<1>11. ASSUME NEW p \in Procs, RegenerateDone(p)
       PROVE  OneLister'
  BY <1>11 DEF RegenerateDone
<1>12. ASSUME NEW p \in Clients, GetIndexFileFast(p)
       PROVE  OneLister'
  BY <1>12 DEF GetIndexFileFast, Answer
<1>13. ASSUME NEW p \in Clients, GetIndexFileLock(p)
       PROVE  OneLister'
  BY <1>13, JoinOneLister DEF GetIndexFileLock
<1>14. ASSUME NEW p \in Clients, GetIndexFileListError(p)
       PROVE  OneLister'
  BY <1>14 DEF GetIndexFileListError
<1>15. ASSUME NEW p \in Clients, GetIndexFileNoChange(p)
       PROVE  OneLister'
  BY <1>15 DEF GetIndexFileNoChange, Answer
<1>16. ASSUME NEW p \in Clients, GetIndexFileChange(p)
       PROVE  OneLister'
  BY <1>16 DEF GetIndexFileChange
<1>17. ASSUME NEW p \in Clients, Render(p)
       PROVE  OneLister'
  BY <1>17 DEF Render
<1>18. ASSUME NEW p \in Clients, Marshal(p)
       PROVE  OneLister'
  BY <1>18 DEF Marshal
<1>19. ASSUME NEW p \in Clients, PutObject(p)
       PROVE  OneLister'
  BY <1>19 DEF PutObject
<1>20. ASSUME NEW p \in Clients, PutObjectError(p)
       PROVE  OneLister'
  BY <1>20 DEF PutObjectError
<1>21. ASSUME NEW p \in Clients, BuildEvent(p)
       PROVE  OneLister'
  BY <1>21 DEF BuildEvent
<1>22. ASSUME NEW p \in Clients, EmitEvent(p)
       PROVE  OneLister'
  BY <1>22 DEF EmitEvent
<1>23. ASSUME NEW p \in Clients, HandOver(p)
       PROVE  OneLister'
  BY <1>23 DEF HandOver
<1>24. ASSUME NEW p \in Refreshers, RefreshListError(p)
       PROVE  OneLister'
  BY <1>24 DEF RefreshListError
<1>25. ASSUME NEW p \in Refreshers, RefreshNoChange(p)
       PROVE  OneLister'
  BY <1>25 DEF RefreshNoChange
<1>26. ASSUME NEW p \in Refreshers, RefreshChange(p)
       PROVE  OneLister'
  BY <1>26 DEF RefreshChange
<1>27. ASSUME NEW p \in Refreshers, RefreshLock(p)
       PROVE  OneLister'
  BY <1>27 DEF RefreshLock
<1>28. ASSUME ReceiveEvent
       PROVE  OneLister'
  BY <1>28 DEF ReceiveEvent
<1>29. ASSUME LookUpIndex
       PROVE  OneLister'
  BY <1>29 DEF LookUpIndex
<1>30. ASSUME ApplyEvent
       PROVE  OneLister'
  BY <1>30 DEF ApplyEvent
<1>31. ASSUME InstallIndex
       PROVE  OneLister'
  BY <1>31 DEF InstallIndex
<1>32. ASSUME SpawnSave
       PROVE  OneLister'
  BY <1>32 DEF SpawnSave
<1>33. ASSUME NEW snap \in saves, SaveStatefile(snap)
       PROVE  OneLister'
  BY <1>33 DEF SaveStatefile
<1>34. ASSUME NEW c \in Charts, ManualPut(c)
       PROVE  OneLister'
  BY <1>34 DEF ManualPut
<1>35. ASSUME NEW c \in Charts, ManualDelete(c)
       PROVE  OneLister'
  BY <1>35 DEF ManualDelete
<1>36. ASSUME Restart
       PROVE  OneLister'
  BY <1>36 DEF Restart, FreshMemory
<1>37. CASE UNCHANGED vars
  BY <1>37 DEF vars
<1>38. QED
  BY <1>1, <1>2, <1>3, <1>4, <1>5, <1>6, <1>7, <1>8, <1>9, <1>10,
     <1>11, <1>12, <1>13, <1>14, <1>15, <1>16, <1>17, <1>18, <1>19,
     <1>20, <1>21, <1>22, <1>23, <1>24, <1>25, <1>26, <1>27, <1>28,
     <1>29, <1>30, <1>31, <1>32, <1>33, <1>34, <1>35, <1>36, <1>37
  DEF Next, RequestStart, Progress, RegenerateStep,
     GetIndexFileStep, UploadStep, RefreshStep, ListenerStep, Procs

(* Whoever asks for the chart list while it is being fetched is answered   *)
(* by exactly one fetch.                                                   *)
THEOREM SingleFetch == Spec => []OneLister
BY TypeInit, TypeStep, OneListerInit, OneListerStep, PTL DEF Spec
-----------------------------------------------------------------------------
(* Who holds RepoLock, by program counter.                                 *)
LockOwner ==
    /\ \A p \in Clients :
          pc[p] \in {"list", "wait", "flush", "diff", "work"} <=> lock = p
    /\ \A p \in Refreshers : pc[p] = "work" <=> lock = p
    /\ lpc = "install" <=> lock = Listener

LEMMA LockOwnerInit == Init => LockOwner
BY ProcAssumption DEF Init, LockOwner, Procs

LEMMA LockOwnerStep ==
  TypeInv /\ OneLister /\ LockOwner /\ [Next]_vars => LockOwner'
<1> SUFFICES ASSUME TypeInv, OneLister, LockOwner, [Next]_vars
             PROVE  LockOwner'
  OBVIOUS
<1> USE ProcAssumption
    DEF TypeInv, TypeOK, LockOwner, Goto, Free, Procs,
        worldVars, diskVars, indexVars, listenerVars, procVars
<1>1. ASSUME NEW p \in Clients, GetIndexFileStart(p)
      PROVE  LockOwner'
  BY <1>1 DEF GetIndexFileStart
<1>2. ASSUME NEW p \in Clients, NEW c \in Charts, UploadChartPackage(p, c)
      PROVE  LockOwner'
  BY <1>2 DEF UploadChartPackage
<1>3. ASSUME NEW p \in Clients, NEW c \in Charts, DeleteChartVersion(p, c)
      PROVE  LockOwner'
  BY <1>3 DEF DeleteChartVersion
<1>4. ASSUME NEW p \in Refreshers, RebuildIndexForTenant(p)
      PROVE  LockOwner'
  BY <1>4 DEF RebuildIndexForTenant, JoinFetch
<1>5. ASSUME NEW p \in Procs, FetchChartsInStorage(p)
      PROVE  LockOwner'
  BY <1>5 DEF FetchChartsInStorage
<1>6. ASSUME NEW p \in Procs, FlushFetchers(p)
      PROVE  LockOwner'
  <2>1. \A q \in waiters : pc[q] \in {"list", "wait", "flush"}
    BY DEF OneLister, Listers
  <2>2. \A q \in Procs : pc'[q] = IF q \in waiters THEN "diff" ELSE pc[q]
    BY <1>6 DEF FlushFetchers
  <2>3. lock' = lock /\ lpc' = lpc
    BY <1>6 DEF FlushFetchers
  <2>4. QED
    BY <2>1, <2>2, <2>3
<1>7. ASSUME NEW p \in Procs, NEW c \in Charts, RemoveIndexObject(p, c)
      PROVE  LockOwner'
  BY <1>7 DEF RemoveIndexObject
<1>8. ASSUME NEW p \in Procs, NEW c \in Charts, UpdateIndexObject(p, c)
      PROVE  LockOwner'
  BY <1>8 DEF UpdateIndexObject
<1>9. ASSUME NEW p \in Procs, NEW c \in Charts, AddIndexObject(p, c)
      PROVE  LockOwner'
  BY <1>9 DEF AddIndexObject
<1>10. ASSUME NEW p \in Procs, RegenerateFail(p)
       PROVE  LockOwner'
  BY <1>10 DEF RegenerateFail
<1>11. ASSUME NEW p \in Procs, RegenerateDone(p)
       PROVE  LockOwner'
  <2>1. pc[p] = "work" /\ lock' = Nobody /\ lpc' = lpc
    BY <1>11 DEF RegenerateDone
  <2>2. \E l \in {"render", "marshal", "idle"} : pc' = [pc EXCEPT ![p] = l]
    BY <1>11 DEF RegenerateDone
  <2>3. lock = p
    BY <2>1
  <2>4. QED
    BY <2>1, <2>2, <2>3, ProcAssumption
<1>12. ASSUME NEW p \in Clients, GetIndexFileFast(p)
       PROVE  LockOwner'
  BY <1>12 DEF GetIndexFileFast, Answer
<1>13. ASSUME NEW p \in Clients, GetIndexFileLock(p)
       PROVE  LockOwner'
  BY <1>13 DEF GetIndexFileLock, JoinFetch
<1>14. ASSUME NEW p \in Clients, GetIndexFileListError(p)
       PROVE  LockOwner'
  BY <1>14 DEF GetIndexFileListError
<1>15. ASSUME NEW p \in Clients, GetIndexFileNoChange(p)
       PROVE  LockOwner'
  BY <1>15 DEF GetIndexFileNoChange, Answer
<1>16. ASSUME NEW p \in Clients, GetIndexFileChange(p)
       PROVE  LockOwner'
  BY <1>16 DEF GetIndexFileChange
<1>17. ASSUME NEW p \in Clients, Render(p)
       PROVE  LockOwner'
  BY <1>17 DEF Render
<1>18. ASSUME NEW p \in Clients, Marshal(p)
       PROVE  LockOwner'
  BY <1>18 DEF Marshal
<1>19. ASSUME NEW p \in Clients, PutObject(p)
       PROVE  LockOwner'
  BY <1>19 DEF PutObject
<1>20. ASSUME NEW p \in Clients, PutObjectError(p)
       PROVE  LockOwner'
  BY <1>20 DEF PutObjectError
<1>21. ASSUME NEW p \in Clients, BuildEvent(p)
       PROVE  LockOwner'
  BY <1>21 DEF BuildEvent
<1>22. ASSUME NEW p \in Clients, EmitEvent(p)
       PROVE  LockOwner'
  BY <1>22 DEF EmitEvent
<1>23. ASSUME NEW p \in Clients, HandOver(p)
       PROVE  LockOwner'
  BY <1>23 DEF HandOver
<1>24. ASSUME NEW p \in Refreshers, RefreshListError(p)
       PROVE  LockOwner'
  BY <1>24 DEF RefreshListError
<1>25. ASSUME NEW p \in Refreshers, RefreshNoChange(p)
       PROVE  LockOwner'
  BY <1>25 DEF RefreshNoChange
<1>26. ASSUME NEW p \in Refreshers, RefreshChange(p)
       PROVE  LockOwner'
  BY <1>26 DEF RefreshChange
<1>27. ASSUME NEW p \in Refreshers, RefreshLock(p)
       PROVE  LockOwner'
  BY <1>27 DEF RefreshLock
<1>28. ASSUME ReceiveEvent
       PROVE  LockOwner'
  BY <1>28 DEF ReceiveEvent
<1>29. ASSUME LookUpIndex
       PROVE  LockOwner'
  BY <1>29 DEF LookUpIndex
<1>30. ASSUME ApplyEvent
       PROVE  LockOwner'
  BY <1>30 DEF ApplyEvent
<1>31. ASSUME InstallIndex
       PROVE  LockOwner'
  BY <1>31 DEF InstallIndex
<1>32. ASSUME SpawnSave
       PROVE  LockOwner'
  BY <1>32 DEF SpawnSave
<1>33. ASSUME NEW snap \in saves, SaveStatefile(snap)
       PROVE  LockOwner'
  BY <1>33 DEF SaveStatefile
<1>34. ASSUME NEW c \in Charts, ManualPut(c)
       PROVE  LockOwner'
  BY <1>34 DEF ManualPut
<1>35. ASSUME NEW c \in Charts, ManualDelete(c)
       PROVE  LockOwner'
  BY <1>35 DEF ManualDelete
<1>36. ASSUME Restart
       PROVE  LockOwner'
  BY <1>36 DEF Restart, FreshMemory
<1>37. CASE UNCHANGED vars
  BY <1>37 DEF vars
<1>38. QED
  BY <1>1, <1>2, <1>3, <1>4, <1>5, <1>6, <1>7, <1>8, <1>9, <1>10,
     <1>11, <1>12, <1>13, <1>14, <1>15, <1>16, <1>17, <1>18, <1>19,
     <1>20, <1>21, <1>22, <1>23, <1>24, <1>25, <1>26, <1>27, <1>28,
     <1>29, <1>30, <1>31, <1>32, <1>33, <1>34, <1>35, <1>36, <1>37
  DEF Next, RequestStart, Progress, RegenerateStep,
     GetIndexFileStep, UploadStep, RefreshStep, ListenerStep, Procs

(* The shared entries are only changed under RepoLock.                     *)
THEOREM WritersExclusive == Spec => []MutatorsHoldLock
<1>1. LockOwner => MutatorsHoldLock
  BY DEF LockOwner, MutatorsHoldLock, Mutators, Procs
<1>2. QED
  BY <1>1, TypeInit, TypeStep, OneListerInit, OneListerStep,
     LockOwnerInit, LockOwnerStep, PTL DEF Spec
-----------------------------------------------------------------------------
(* The published bytes.                                                    *)
RawInv == ~torn /\ Mutators = {} => heap[repoIndex].raw = entries

LEMMA RawInit == Init => RawInv
BY NowhereType DEF Init, RawInv

LEMMA RawStep == TypeInv /\ OneLister /\ RawInv /\ [Next]_vars => RawInv'
<1> SUFFICES ASSUME TypeInv, OneLister, RawInv, [Next]_vars
             PROVE  RawInv'
  OBVIOUS
<1> USE DEF TypeInv, TypeOK, RawInv, Mutators, Goto, Procs,
            worldVars, diskVars, indexVars, listenerVars, procVars
<1>1. ASSUME NEW p \in Clients, GetIndexFileStart(p)
      PROVE  RawInv'
  BY <1>1 DEF GetIndexFileStart
<1>2. ASSUME NEW p \in Clients, NEW c \in Charts, UploadChartPackage(p, c)
      PROVE  RawInv'
  BY <1>2 DEF UploadChartPackage
<1>3. ASSUME NEW p \in Clients, NEW c \in Charts, DeleteChartVersion(p, c)
      PROVE  RawInv'
  BY <1>3 DEF DeleteChartVersion
<1>4. ASSUME NEW p \in Refreshers, RebuildIndexForTenant(p)
      PROVE  RawInv'
  BY <1>4 DEF RebuildIndexForTenant, JoinFetch
<1>5. ASSUME NEW p \in Procs, FetchChartsInStorage(p)
      PROVE  RawInv'
  BY <1>5 DEF FetchChartsInStorage
<1>6. ASSUME NEW p \in Procs, FlushFetchers(p)
      PROVE  RawInv'
  BY <1>6 DEF FlushFetchers, OneLister, Listers
<1>7. ASSUME NEW p \in Procs, NEW c \in Charts, RemoveIndexObject(p, c)
      PROVE  RawInv'
  BY <1>7 DEF RemoveIndexObject
<1>8. ASSUME NEW p \in Procs, NEW c \in Charts, UpdateIndexObject(p, c)
      PROVE  RawInv'
  BY <1>8 DEF UpdateIndexObject
<1>9. ASSUME NEW p \in Procs, NEW c \in Charts, AddIndexObject(p, c)
      PROVE  RawInv'
  BY <1>9 DEF AddIndexObject
<1>10. ASSUME NEW p \in Procs, RegenerateFail(p)
       PROVE  RawInv'
  BY <1>10 DEF RegenerateFail
<1>11. ASSUME NEW p \in Procs, RegenerateDone(p)
       PROVE  RawInv'
  BY <1>11 DEF RegenerateDone, Publish, Collect, Regenerated, FreeIds
<1>12. ASSUME NEW p \in Clients, GetIndexFileFast(p)
       PROVE  RawInv'
  BY <1>12 DEF GetIndexFileFast, Answer
<1>13. ASSUME NEW p \in Clients, GetIndexFileLock(p)
       PROVE  RawInv'
  BY <1>13 DEF GetIndexFileLock, JoinFetch
<1>14. ASSUME NEW p \in Clients, GetIndexFileListError(p)
       PROVE  RawInv'
  BY <1>14 DEF GetIndexFileListError
<1>15. ASSUME NEW p \in Clients, GetIndexFileNoChange(p)
       PROVE  RawInv'
  BY <1>15 DEF GetIndexFileNoChange, Answer
<1>16. ASSUME NEW p \in Clients, GetIndexFileChange(p)
       PROVE  RawInv'
  BY <1>16 DEF GetIndexFileChange
<1>17. ASSUME NEW p \in Clients, Render(p)
       PROVE  RawInv'
  BY <1>17 DEF Render, Collect, HeldBy
<1>18. ASSUME NEW p \in Clients, Marshal(p)
       PROVE  RawInv'
  BY <1>18 DEF Marshal
<1>19. ASSUME NEW p \in Clients, PutObject(p)
       PROVE  RawInv'
  BY <1>19 DEF PutObject
<1>20. ASSUME NEW p \in Clients, PutObjectError(p)
       PROVE  RawInv'
  BY <1>20 DEF PutObjectError
<1>21. ASSUME NEW p \in Clients, BuildEvent(p)
       PROVE  RawInv'
  BY <1>21 DEF BuildEvent
<1>22. ASSUME NEW p \in Clients, EmitEvent(p)
       PROVE  RawInv'
  BY <1>22 DEF EmitEvent
<1>23. ASSUME NEW p \in Clients, HandOver(p)
       PROVE  RawInv'
  BY <1>23 DEF HandOver
<1>24. ASSUME NEW p \in Refreshers, RefreshListError(p)
       PROVE  RawInv'
  BY <1>24 DEF RefreshListError
<1>25. ASSUME NEW p \in Refreshers, RefreshNoChange(p)
       PROVE  RawInv'
  BY <1>25 DEF RefreshNoChange
<1>26. ASSUME NEW p \in Refreshers, RefreshChange(p)
       PROVE  RawInv'
  BY <1>26 DEF RefreshChange
<1>27. ASSUME NEW p \in Refreshers, RefreshLock(p)
       PROVE  RawInv'
  BY <1>27 DEF RefreshLock
<1>28. ASSUME ReceiveEvent
       PROVE  RawInv'
  BY <1>28 DEF ReceiveEvent
<1>29. ASSUME LookUpIndex
       PROVE  RawInv'
  BY <1>29 DEF LookUpIndex
<1>30. ASSUME ApplyEvent
       PROVE  RawInv'
  BY <1>30 DEF ApplyEvent
<1>31. ASSUME InstallIndex
       PROVE  RawInv'
  BY <1>31 DEF InstallIndex, Collect, HeldBy, Regenerated
<1>32. ASSUME SpawnSave
       PROVE  RawInv'
  BY <1>32 DEF SpawnSave
<1>33. ASSUME NEW snap \in saves, SaveStatefile(snap)
       PROVE  RawInv'
  BY <1>33 DEF SaveStatefile
<1>34. ASSUME NEW c \in Charts, ManualPut(c)
       PROVE  RawInv'
  BY <1>34 DEF ManualPut
<1>35. ASSUME NEW c \in Charts, ManualDelete(c)
       PROVE  RawInv'
  BY <1>35 DEF ManualDelete
<1>36. ASSUME Restart
       PROVE  RawInv'
  BY <1>36, NowhereType DEF Restart, FreshMemory
<1>37. CASE UNCHANGED vars
  BY <1>37 DEF vars
<1>38. QED
  BY <1>1, <1>2, <1>3, <1>4, <1>5, <1>6, <1>7, <1>8, <1>9, <1>10,
     <1>11, <1>12, <1>13, <1>14, <1>15, <1>16, <1>17, <1>18, <1>19,
     <1>20, <1>21, <1>22, <1>23, <1>24, <1>25, <1>26, <1>27, <1>28,
     <1>29, <1>30, <1>31, <1>32, <1>33, <1>34, <1>35, <1>36, <1>37
  DEF Next, RequestStart, Progress, RegenerateStep,
     GetIndexFileStep, UploadStep, RefreshStep, ListenerStep, Procs

(* GET /index.yaml and the API agree whenever RepoLock is free, unless the *)
(* last regeneration gave up half-way.                                     *)
THEOREM RawIsFaithful == Spec => []RawMatchesEntries
<1>1. RawInv /\ LockOwner /\ TypeInv => RawMatchesEntries
  BY ProcAssumption
  DEF RawInv, LockOwner, RawMatchesEntries, Mutators, Procs
<1>2. QED
  BY <1>1, TypeInit, TypeStep, OneListerInit, OneListerStep,
     LockOwnerInit, LockOwnerStep, RawInit, RawStep, PTL DEF Spec
-----------------------------------------------------------------------------
(* Generation times.  Nothing is dated later than now.                     *)
GenInv ==
    /\ \A i \in IndexIds : heap[i].gen <= clock
    /\ statefile # None => statefile.gen <= clock
    /\ \A snap \in saves : snap.gen <= clock

LEMMA BootedGen ==
  ASSUME NEW sf \in Snapshot \cup {None}, NEW s, clock \in Nat,
         sf # None => sf.gen <= clock
  PROVE  Booted(sf, s).gen <= clock
BY DEF Booted, NewRepositoryIndex, Regenerated, Snapshot

LEMMA GenInit == Init => GenInv
<1> SUFFICES ASSUME Init PROVE GenInv
  OBVIOUS
<1>1. clock \in Nat /\ statefile = None
  BY DEF Init
<1>2. Booted(None, storage).gen <= clock
  BY <1>1, BootedGen
<1>3. QED
  BY <1>1, <1>2 DEF Init, GenInv, Unused

LEMMA GenStep == TypeInv /\ GenInv /\ [Next]_vars => GenInv'
<1> SUFFICES ASSUME TypeInv, GenInv, [Next]_vars
             PROVE  GenInv'
  OBVIOUS
<1> USE DEF TypeInv, TypeOK, GenInv, Snapshot, Unused,
            worldVars, diskVars, indexVars, listenerVars, procVars
<1>1. ASSUME NEW p \in Clients, GetIndexFileStart(p)
      PROVE  GenInv'
  BY <1>1 DEF GetIndexFileStart
<1>2. ASSUME NEW p \in Clients, NEW c \in Charts, UploadChartPackage(p, c)
      PROVE  GenInv'
  BY <1>2 DEF UploadChartPackage
<1>3. ASSUME NEW p \in Clients, NEW c \in Charts, DeleteChartVersion(p, c)
      PROVE  GenInv'
  BY <1>3 DEF DeleteChartVersion
<1>4. ASSUME NEW p \in Refreshers, RebuildIndexForTenant(p)
      PROVE  GenInv'
  BY <1>4 DEF RebuildIndexForTenant
<1>5. ASSUME NEW p \in Procs, FetchChartsInStorage(p)
      PROVE  GenInv'
  BY <1>5 DEF FetchChartsInStorage
<1>6. ASSUME NEW p \in Procs, FlushFetchers(p)
      PROVE  GenInv'
  BY <1>6 DEF FlushFetchers
<1>7. ASSUME NEW p \in Procs, NEW c \in Charts, RemoveIndexObject(p, c)
      PROVE  GenInv'
  BY <1>7 DEF RemoveIndexObject
<1>8. ASSUME NEW p \in Procs, NEW c \in Charts, UpdateIndexObject(p, c)
      PROVE  GenInv'
  BY <1>8 DEF UpdateIndexObject
<1>9. ASSUME NEW p \in Procs, NEW c \in Charts, AddIndexObject(p, c)
      PROVE  GenInv'
  BY <1>9 DEF AddIndexObject
<1>10. ASSUME NEW p \in Procs, RegenerateFail(p)
       PROVE  GenInv'
  BY <1>10 DEF RegenerateFail
<1>11. ASSUME NEW p \in Procs, RegenerateDone(p)
       PROVE  GenInv'
  BY <1>11 DEF RegenerateDone, Publish, Collect, Regenerated, Saved
<1>12. ASSUME NEW p \in Clients, GetIndexFileFast(p)
       PROVE  GenInv'
  BY <1>12 DEF GetIndexFileFast
<1>13. ASSUME NEW p \in Clients, GetIndexFileLock(p)
       PROVE  GenInv'
  BY <1>13 DEF GetIndexFileLock
<1>14. ASSUME NEW p \in Clients, GetIndexFileListError(p)
       PROVE  GenInv'
  BY <1>14 DEF GetIndexFileListError
<1>15. ASSUME NEW p \in Clients, GetIndexFileNoChange(p)
       PROVE  GenInv'
  BY <1>15 DEF GetIndexFileNoChange
<1>16. ASSUME NEW p \in Clients, GetIndexFileChange(p)
       PROVE  GenInv'
  BY <1>16 DEF GetIndexFileChange
<1>17. ASSUME NEW p \in Clients, Render(p)
       PROVE  GenInv'
  BY <1>17 DEF Render, Collect, HeldBy
<1>18. ASSUME NEW p \in Clients, Marshal(p)
       PROVE  GenInv'
  BY <1>18 DEF Marshal
<1>19. ASSUME NEW p \in Clients, PutObject(p)
       PROVE  GenInv'
  BY <1>19 DEF PutObject
<1>20. ASSUME NEW p \in Clients, PutObjectError(p)
       PROVE  GenInv'
  BY <1>20 DEF PutObjectError
<1>21. ASSUME NEW p \in Clients, BuildEvent(p)
       PROVE  GenInv'
  BY <1>21 DEF BuildEvent
<1>22. ASSUME NEW p \in Clients, EmitEvent(p)
       PROVE  GenInv'
  BY <1>22 DEF EmitEvent
<1>23. ASSUME NEW p \in Clients, HandOver(p)
       PROVE  GenInv'
  BY <1>23 DEF HandOver
<1>24. ASSUME NEW p \in Refreshers, RefreshListError(p)
       PROVE  GenInv'
  BY <1>24 DEF RefreshListError
<1>25. ASSUME NEW p \in Refreshers, RefreshNoChange(p)
       PROVE  GenInv'
  BY <1>25 DEF RefreshNoChange
<1>26. ASSUME NEW p \in Refreshers, RefreshChange(p)
       PROVE  GenInv'
  BY <1>26 DEF RefreshChange
<1>27. ASSUME NEW p \in Refreshers, RefreshLock(p)
       PROVE  GenInv'
  BY <1>27 DEF RefreshLock
<1>28. ASSUME ReceiveEvent
       PROVE  GenInv'
  BY <1>28 DEF ReceiveEvent
<1>29. ASSUME LookUpIndex
       PROVE  GenInv'
  BY <1>29 DEF LookUpIndex
<1>30. ASSUME ApplyEvent
       PROVE  GenInv'
  BY <1>30 DEF ApplyEvent
<1>31. ASSUME InstallIndex
       PROVE  GenInv'
  BY <1>31 DEF InstallIndex, Collect, HeldBy, Regenerated
<1>32. ASSUME SpawnSave
       PROVE  GenInv'
  BY <1>32 DEF SpawnSave, Saved
<1>33. ASSUME NEW snap \in saves, SaveStatefile(snap)
       PROVE  GenInv'
  BY <1>33 DEF SaveStatefile
<1>34. ASSUME NEW c \in Charts, ManualPut(c)
       PROVE  GenInv'
  BY <1>34 DEF ManualPut
<1>35. ASSUME NEW c \in Charts, ManualDelete(c)
       PROVE  GenInv'
  BY <1>35 DEF ManualDelete
<1>36. ASSUME Restart
       PROVE  GenInv'
  <2> DEFINE snap == Booted(statefile, storage)
  <2>1. snap.gen <= clock
    BY BootedGen
  <2> HIDE DEF snap
  <2>2. PICK ps \in {{snap}, {}} : FreshMemory(snap, ps)
    BY <1>36 DEF Restart, snap
  <2>3. clock' = clock /\ statefile' = statefile
    BY <1>36 DEF Restart
  <2>4. QED
    BY <2>1, <2>2, <2>3 DEF FreshMemory
<1>37. CASE UNCHANGED vars
  BY <1>37 DEF vars
<1>38. QED
  BY <1>1, <1>2, <1>3, <1>4, <1>5, <1>6, <1>7, <1>8, <1>9, <1>10,
     <1>11, <1>12, <1>13, <1>14, <1>15, <1>16, <1>17, <1>18, <1>19,
     <1>20, <1>21, <1>22, <1>23, <1>24, <1>25, <1>26, <1>27, <1>28,
     <1>29, <1>30, <1>31, <1>32, <1>33, <1>34, <1>35, <1>36, <1>37
  DEF Next, RequestStart, Progress, RegenerateStep,
     GetIndexFileStep, UploadStep, RefreshStep, ListenerStep, Procs

LEMMA GenMonotoneStep ==
  TypeInv /\ GenInv /\ [Next]_vars
    => restarts' # restarts \/ heap'[repoIndex'].gen >= heap[repoIndex].gen
<1> DEFINE Mono == restarts' # restarts
                     \/ heap'[repoIndex'].gen >= heap[repoIndex].gen
<1> SUFFICES ASSUME TypeInv, GenInv, [Next]_vars
             PROVE  Mono
  OBVIOUS
<1> USE DEF TypeInv, TypeOK, GenInv, Snapshot,
            worldVars, diskVars, indexVars, listenerVars, procVars
<1>1. ASSUME NEW p \in Clients, GetIndexFileStart(p)
      PROVE  Mono
  BY <1>1 DEF GetIndexFileStart
<1>2. ASSUME NEW p \in Clients, NEW c \in Charts, UploadChartPackage(p, c)
      PROVE  Mono
  BY <1>2 DEF UploadChartPackage
<1>3. ASSUME NEW p \in Clients, NEW c \in Charts, DeleteChartVersion(p, c)
      PROVE  Mono
  BY <1>3 DEF DeleteChartVersion
<1>4. ASSUME NEW p \in Refreshers, RebuildIndexForTenant(p)
      PROVE  Mono
  BY <1>4 DEF RebuildIndexForTenant
<1>5. ASSUME NEW p \in Procs, FetchChartsInStorage(p)
      PROVE  Mono
  BY <1>5 DEF FetchChartsInStorage
<1>6. ASSUME NEW p \in Procs, FlushFetchers(p)
      PROVE  Mono
  BY <1>6 DEF FlushFetchers
<1>7. ASSUME NEW p \in Procs, NEW c \in Charts, RemoveIndexObject(p, c)
      PROVE  Mono
  BY <1>7 DEF RemoveIndexObject
<1>8. ASSUME NEW p \in Procs, NEW c \in Charts, UpdateIndexObject(p, c)
      PROVE  Mono
  BY <1>8 DEF UpdateIndexObject
<1>9. ASSUME NEW p \in Procs, NEW c \in Charts, AddIndexObject(p, c)
      PROVE  Mono
  BY <1>9 DEF AddIndexObject
<1>10. ASSUME NEW p \in Procs, RegenerateFail(p)
       PROVE  Mono
  BY <1>10 DEF RegenerateFail
<1>11. ASSUME NEW p \in Procs, RegenerateDone(p)
       PROVE  Mono
  BY <1>11 DEF RegenerateDone, Publish, Collect, Regenerated, FreeIds
<1>12. ASSUME NEW p \in Clients, GetIndexFileFast(p)
       PROVE  Mono
  BY <1>12 DEF GetIndexFileFast
<1>13. ASSUME NEW p \in Clients, GetIndexFileLock(p)
       PROVE  Mono
  BY <1>13 DEF GetIndexFileLock
<1>14. ASSUME NEW p \in Clients, GetIndexFileListError(p)
       PROVE  Mono
  BY <1>14 DEF GetIndexFileListError
<1>15. ASSUME NEW p \in Clients, GetIndexFileNoChange(p)
       PROVE  Mono
  BY <1>15 DEF GetIndexFileNoChange
<1>16. ASSUME NEW p \in Clients, GetIndexFileChange(p)
       PROVE  Mono
  BY <1>16 DEF GetIndexFileChange
<1>17. ASSUME NEW p \in Clients, Render(p)
       PROVE  Mono
  BY <1>17 DEF Render, Collect, HeldBy
<1>18. ASSUME NEW p \in Clients, Marshal(p)
       PROVE  Mono
  BY <1>18 DEF Marshal
<1>19. ASSUME NEW p \in Clients, PutObject(p)
       PROVE  Mono
  BY <1>19 DEF PutObject
<1>20. ASSUME NEW p \in Clients, PutObjectError(p)
       PROVE  Mono
  BY <1>20 DEF PutObjectError
<1>21. ASSUME NEW p \in Clients, BuildEvent(p)
       PROVE  Mono
  BY <1>21 DEF BuildEvent
<1>22. ASSUME NEW p \in Clients, EmitEvent(p)
       PROVE  Mono
  BY <1>22 DEF EmitEvent
<1>23. ASSUME NEW p \in Clients, HandOver(p)
       PROVE  Mono
  BY <1>23 DEF HandOver
<1>24. ASSUME NEW p \in Refreshers, RefreshListError(p)
       PROVE  Mono
  BY <1>24 DEF RefreshListError
<1>25. ASSUME NEW p \in Refreshers, RefreshNoChange(p)
       PROVE  Mono
  BY <1>25 DEF RefreshNoChange
<1>26. ASSUME NEW p \in Refreshers, RefreshChange(p)
       PROVE  Mono
  BY <1>26 DEF RefreshChange
<1>27. ASSUME NEW p \in Refreshers, RefreshLock(p)
       PROVE  Mono
  BY <1>27 DEF RefreshLock
<1>28. ASSUME ReceiveEvent
       PROVE  Mono
  BY <1>28 DEF ReceiveEvent
<1>29. ASSUME LookUpIndex
       PROVE  Mono
  BY <1>29 DEF LookUpIndex
<1>30. ASSUME ApplyEvent
       PROVE  Mono
  BY <1>30 DEF ApplyEvent
<1>31. ASSUME InstallIndex
       PROVE  Mono
  BY <1>31 DEF InstallIndex, Collect, HeldBy, Regenerated
<1>32. ASSUME SpawnSave
       PROVE  Mono
  BY <1>32 DEF SpawnSave
<1>33. ASSUME NEW snap \in saves, SaveStatefile(snap)
       PROVE  Mono
  BY <1>33 DEF SaveStatefile
<1>34. ASSUME NEW c \in Charts, ManualPut(c)
       PROVE  Mono
  BY <1>34 DEF ManualPut
<1>35. ASSUME NEW c \in Charts, ManualDelete(c)
       PROVE  Mono
  BY <1>35 DEF ManualDelete
<1>36. ASSUME Restart
       PROVE  Mono
  BY <1>36 DEF Restart
<1>37. CASE UNCHANGED vars
  BY <1>37 DEF vars
<1>38. QED
  BY <1>1, <1>2, <1>3, <1>4, <1>5, <1>6, <1>7, <1>8, <1>9, <1>10,
     <1>11, <1>12, <1>13, <1>14, <1>15, <1>16, <1>17, <1>18, <1>19,
     <1>20, <1>21, <1>22, <1>23, <1>24, <1>25, <1>26, <1>27, <1>28,
     <1>29, <1>30, <1>31, <1>32, <1>33, <1>34, <1>35, <1>36, <1>37
  DEF Next, RequestStart, Progress, RegenerateStep,
     GetIndexFileStep, UploadStep, RefreshStep, ListenerStep, Procs

(* The published index never goes back to an older generation.             *)
THEOREM GeneratedMonotone == Spec => GeneratedNeverGoesBack
<1>1. TypeInv /\ GenInv /\ [Next]_vars
        => [restarts' = restarts
              => heap'[repoIndex'].gen >= heap[repoIndex].gen]_vars
  BY GenMonotoneStep
<1>2. QED
  BY <1>1, TypeInit, TypeStep, GenInit, GenStep, PTL
  DEF Spec, GeneratedNeverGoesBack
-----------------------------------------------------------------------------
(* What a GET answers with.                                                *)
SinceInv ==
    \A p \in Clients :
        /\ since[p] <= heap[repoIndex].gen
        /\ pc[p] = "render" => since[p] <= heap[ptr[p]].gen

LEMMA SinceInit == Init => SinceInv
<1> SUFFICES ASSUME Init PROVE SinceInv
  OBVIOUS
<1>1. Booted(None, storage) \in Snapshot
  BY BootedType DEF Init, ObjectList, Stamp
<1>2. heap[Nowhere].gen \in Nat
  BY <1>1, NowhereType DEF Init, Snapshot
<1>3. QED
  BY <1>2 DEF Init, SinceInv, Procs

LEMMA SinceStep == TypeInv /\ GenInv /\ SinceInv /\ [Next]_vars => SinceInv'
<1> SUFFICES ASSUME TypeInv, GenInv, SinceInv, [Next]_vars
             PROVE  SinceInv'
  OBVIOUS
<1> USE DEF TypeInv, TypeOK, SinceInv, Snapshot, Goto, Procs,
            worldVars, diskVars, indexVars, listenerVars, procVars
<1>1. ASSUME NEW p \in Clients, GetIndexFileStart(p)
      PROVE  SinceInv'
  BY <1>1 DEF GetIndexFileStart
<1>2. ASSUME NEW p \in Clients, NEW c \in Charts, UploadChartPackage(p, c)
      PROVE  SinceInv'
  BY <1>2 DEF UploadChartPackage
<1>3. ASSUME NEW p \in Clients, NEW c \in Charts, DeleteChartVersion(p, c)
      PROVE  SinceInv'
  BY <1>3 DEF DeleteChartVersion
<1>4. ASSUME NEW p \in Refreshers, RebuildIndexForTenant(p)
      PROVE  SinceInv'
  BY <1>4 DEF RebuildIndexForTenant, JoinFetch
<1>5. ASSUME NEW p \in Procs, FetchChartsInStorage(p)
      PROVE  SinceInv'
  BY <1>5 DEF FetchChartsInStorage
<1>6. ASSUME NEW p \in Procs, FlushFetchers(p)
      PROVE  SinceInv'
  BY <1>6 DEF FlushFetchers
<1>7. ASSUME NEW p \in Procs, NEW c \in Charts, RemoveIndexObject(p, c)
      PROVE  SinceInv'
  BY <1>7 DEF RemoveIndexObject
<1>8. ASSUME NEW p \in Procs, NEW c \in Charts, UpdateIndexObject(p, c)
      PROVE  SinceInv'
  BY <1>8 DEF UpdateIndexObject
<1>9. ASSUME NEW p \in Procs, NEW c \in Charts, AddIndexObject(p, c)
      PROVE  SinceInv'
  BY <1>9 DEF AddIndexObject
<1>10. ASSUME NEW p \in Procs, RegenerateFail(p)
       PROVE  SinceInv'
  BY <1>10 DEF RegenerateFail
<1>11. ASSUME NEW p \in Procs, RegenerateDone(p)
       PROVE  SinceInv'
  BY <1>11
  DEF RegenerateDone, Publish, Collect, Regenerated, FreeIds, HeldBy, GenInv
<1>12. ASSUME NEW p \in Clients, GetIndexFileFast(p)
       PROVE  SinceInv'
  BY <1>12 DEF GetIndexFileFast, Answer
<1>13. ASSUME NEW p \in Clients, GetIndexFileLock(p)
       PROVE  SinceInv'
  BY <1>13 DEF GetIndexFileLock, JoinFetch
<1>14. ASSUME NEW p \in Clients, GetIndexFileListError(p)
       PROVE  SinceInv'
  BY <1>14 DEF GetIndexFileListError
<1>15. ASSUME NEW p \in Clients, GetIndexFileNoChange(p)
       PROVE  SinceInv'
  BY <1>15 DEF GetIndexFileNoChange, Answer
<1>16. ASSUME NEW p \in Clients, GetIndexFileChange(p)
       PROVE  SinceInv'
  BY <1>16 DEF GetIndexFileChange
<1>17. ASSUME NEW p \in Clients, Render(p)
       PROVE  SinceInv'
  BY <1>17 DEF Render, Collect, HeldBy
<1>18. ASSUME NEW p \in Clients, Marshal(p)
       PROVE  SinceInv'
  BY <1>18 DEF Marshal
<1>19. ASSUME NEW p \in Clients, PutObject(p)
       PROVE  SinceInv'
  BY <1>19 DEF PutObject
<1>20. ASSUME NEW p \in Clients, PutObjectError(p)
       PROVE  SinceInv'
  BY <1>20 DEF PutObjectError
<1>21. ASSUME NEW p \in Clients, BuildEvent(p)
       PROVE  SinceInv'
  BY <1>21 DEF BuildEvent
<1>22. ASSUME NEW p \in Clients, EmitEvent(p)
       PROVE  SinceInv'
  BY <1>22 DEF EmitEvent
<1>23. ASSUME NEW p \in Clients, HandOver(p)
       PROVE  SinceInv'
  BY <1>23 DEF HandOver
<1>24. ASSUME NEW p \in Refreshers, RefreshListError(p)
       PROVE  SinceInv'
  BY <1>24 DEF RefreshListError
<1>25. ASSUME NEW p \in Refreshers, RefreshNoChange(p)
       PROVE  SinceInv'
  BY <1>25 DEF RefreshNoChange
<1>26. ASSUME NEW p \in Refreshers, RefreshChange(p)
       PROVE  SinceInv'
  BY <1>26 DEF RefreshChange
<1>27. ASSUME NEW p \in Refreshers, RefreshLock(p)
       PROVE  SinceInv'
  BY <1>27 DEF RefreshLock
<1>28. ASSUME ReceiveEvent
       PROVE  SinceInv'
  BY <1>28 DEF ReceiveEvent
<1>29. ASSUME LookUpIndex
       PROVE  SinceInv'
  BY <1>29 DEF LookUpIndex
<1>30. ASSUME ApplyEvent
       PROVE  SinceInv'
  BY <1>30 DEF ApplyEvent
<1>31. ASSUME InstallIndex
       PROVE  SinceInv'
  BY <1>31 DEF InstallIndex, Collect, HeldBy, Regenerated, GenInv
<1>32. ASSUME SpawnSave
       PROVE  SinceInv'
  BY <1>32 DEF SpawnSave
<1>33. ASSUME NEW snap \in saves, SaveStatefile(snap)
       PROVE  SinceInv'
  BY <1>33 DEF SaveStatefile
<1>34. ASSUME NEW c \in Charts, ManualPut(c)
       PROVE  SinceInv'
  BY <1>34 DEF ManualPut
<1>35. ASSUME NEW c \in Charts, ManualDelete(c)
       PROVE  SinceInv'
  BY <1>35 DEF ManualDelete
<1>36. ASSUME Restart
       PROVE  SinceInv'
  <2>1. heap'[repoIndex'].gen \in Nat
    BY TypeStep
  <2>2. /\ since' = [p \in Clients |-> 0]
        /\ pc' = [p \in Procs |-> "idle"]
    BY <1>36 DEF Restart, FreshMemory
  <2>3. QED
    BY <2>1, <2>2
<1>37. CASE UNCHANGED vars
  BY <1>37 DEF vars
<1>38. QED
  BY <1>1, <1>2, <1>3, <1>4, <1>5, <1>6, <1>7, <1>8, <1>9, <1>10,
     <1>11, <1>12, <1>13, <1>14, <1>15, <1>16, <1>17, <1>18, <1>19,
     <1>20, <1>21, <1>22, <1>23, <1>24, <1>25, <1>26, <1>27, <1>28,
     <1>29, <1>30, <1>31, <1>32, <1>33, <1>34, <1>35, <1>36, <1>37
  DEF Next, RequestStart, Progress, RegenerateStep,
     GetIndexFileStep, UploadStep, RefreshStep, ListenerStep, Procs

(* A GET never answers with an index older than the one that was published *)
(* when it arrived.                                                        *)
THEOREM ReadsAreFresh == Spec => []ReadsNotStale
<1>1. TypeInv /\ SinceInv => ReadsNotStale
  BY DEF TypeInv, TypeOK, SinceInv, ReadsNotStale, Snapshot
<1>2. QED
  BY <1>1, TypeInit, TypeStep, GenInit, GenStep, SinceInit, SinceStep, PTL
  DEF Spec
=============================================================================
