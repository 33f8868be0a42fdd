------------------------- MODULE ChartUploadsProofs -------------------------
(***************************************************************************)
(* Theorems about ChartUploads, for every set of clients and versions and  *)
(* every configuration.                                                    *)
(***************************************************************************)
EXTENDS ChartUploads, FiniteSetTheorems, TLAPS

(* What the steps of one request leave well typed.                         *)
RequestTyped ==
    /\ pc \in [Clients -> Labels]
    /\ route \in [Clients -> Routes]
    /\ op \in [Clients -> {"add", "update", "delete"}]
    /\ parts \in [Clients -> SUBSET Files]
    /\ todo \in [Clients -> SUBSET Files]
    /\ done \in [Clients -> SUBSET Files]
    /\ victim \in [Clients -> Versions \cup {None}]

DiskTyped ==
    /\ storage \in [Files -> [at : Nat, by : Clients \cup {Nobody}]]
    /\ root \in SUBSET Files
    /\ now \in Nat

LEMMA FileTypes ==
  ASSUME NEW v \in Versions
  PROVE  Package(v) \in Files /\ Provenance(v) \in Files
BY DEF Package, Provenance, Files

LEMMA AnswerTypes ==
  ASSUME RequestTyped, NEW p \in Clients, Answer(p)
  PROVE  RequestTyped'
BY DEF RequestTyped, Answer, Goto, Labels, Rest, Routes

LEMMA BeginTypes ==
  ASSUME RequestTyped, NEW p \in Clients, NEW r \in Routes,
         NEW files \in SUBSET Files, NEW label \in Labels,
         Begin(p, r, files, label)
  PROVE  RequestTyped'
BY DEF RequestTyped, Begin, Goto

LEMMA StoredTypes ==
  ASSUME RequestTyped, NEW p \in Clients, NEW f \in Files, FileStored(p, f)
  PROVE  RequestTyped'
<1>1. CASE route[p] = "prov"
  BY <1>1, AnswerTypes DEF FileStored
<1>2. CASE route[p] # "prov"
  BY <1>2 DEF RequestTyped, FileStored, Goto, reqVars, Labels
<1>3. QED
  BY <1>1, <1>2

LEMMA RefusedTypes ==
  ASSUME RequestTyped, NEW p \in Clients, FileRefused(p)
  PROVE  RequestTyped'
<1>1. CASE done[p] = {}
  BY <1>1, AnswerTypes DEF FileRefused
<1>2. CASE done[p] # {}
  BY <1>2 DEF RequestTyped, FileRefused, Goto, reqVars, Labels
<1>3. QED
  BY <1>1, <1>2

LEMMA PutTypes ==
  ASSUME DiskTyped, NEW p \in Clients, NEW f \in Files, PutObject(p, f)
  PROVE  DiskTyped'
<1>1. PICK t \in {now, now + 1} :
          /\ now' = t
          /\ storage' = [storage EXCEPT ![f] = [at |-> t, by |-> Owner(p)]]
          /\ UNCHANGED root
  BY DEF PutObject
<1>2. t \in Nat /\ Owner(p) \in Clients \cup {Nobody}
  BY DEF DiskTyped, Owner
<1>3. QED
  BY <1>1, <1>2 DEF DiskTyped

LEMMA DeleteTypes ==
  ASSUME DiskTyped, NEW f \in Files, DeleteObject(f)
  PROVE  DiskTyped'
BY DEF DiskTyped, DeleteObject, Absent

(* The types are preserved by every step.                                  *)
LEMMA TypeStep ==
  ASSUME TypeOK, [Next]_vars
  PROVE  TypeOK'
<1>0. /\ RequestTyped
      /\ DiskTyped
      /\ \A v \in config.versions : v \in Versions
      /\ \A r \in config.routes : r \in Routes
  BY UploadAssumption DEF TypeOK, RequestTyped, DiskTyped, Config
<1>a. /\ \A r \in Routes : Checked(r) \in Labels
      /\ "exists" \in Labels
  BY DEF Checked, Labels
<1>b. (Fault \/ UNCHANGED faults) => faults' \in Nat
  BY DEF TypeOK, Fault
<1>q. ASSUME RequestTyped', DiskTyped',
             UNCHANGED config, UNCHANGED eventVars, faults' \in Nat,
             lock' \in Clients \cup {Nobody}
      PROVE  TypeOK'
  BY <1>q DEF TypeOK, RequestTyped, DiskTyped, eventVars
<1>c. UNCHANGED lock => lock' \in Clients \cup {Nobody}
  BY DEF TypeOK
<1>d. UNCHANGED diskVars => DiskTyped'
  BY <1>0 DEF DiskTyped, diskVars
<1>e. UNCHANGED <<pc, reqVars, fileVars>> => RequestTyped'
  BY <1>0 DEF RequestTyped, reqVars, fileVars
<1>1. ASSUME NEW p \in Clients, NEW v \in config.versions, PostPackage(p, v)
      PROVE  TypeOK'
  <2>1. "package" \in Routes /\ {Package(v)} \in SUBSET Files
    BY <1>0, FileTypes DEF Routes
  <2>2. RequestTyped'
    BY <1>0, <1>1, <1>a, <2>1, BeginTypes DEF PostPackage
  <2>3. QED
    BY <1>1, <1>b, <1>c, <1>d, <1>q, <2>2 DEF PostPackage, Begin
<1>2. ASSUME NEW p \in Clients, NEW v \in config.versions,
             PostProvenanceFile(p, v)
      PROVE  TypeOK'
  <2> DEFINE label == IF config.overwrite THEN Checked("prov") ELSE "exists"
  <2>1. "prov" \in Routes /\ {Provenance(v)} \in SUBSET Files
    BY <1>0, FileTypes DEF Routes
  <2>2. label \in Labels
    BY <1>a, <2>1
  <2>3. Begin(p, "prov", {Provenance(v)}, label)
    BY <1>2 DEF PostProvenanceFile
  <2> HIDE DEF label
  <2>4. RequestTyped'
    BY <1>0, <2>1, <2>2, <2>3, BeginTypes
  <2>5. QED
    BY <1>b, <1>c, <1>d, <1>q, <2>3, <2>4 DEF Begin
<1>3. ASSUME NEW p \in Clients, NEW v \in config.versions,
             PostPackageAndProvenance(p, v)
      PROVE  TypeOK'
  <2>1. PICK files \in SUBSET {Package(v), Provenance(v)} :
            Begin(p, "form", files, "exists")
    BY <1>3 DEF PostPackageAndProvenance
  <2>2. "form" \in Routes /\ files \in SUBSET Files
    BY <1>0, FileTypes DEF Routes
  <2>3. RequestTyped'
    BY <1>0, <1>a, <2>1, <2>2, BeginTypes
  <2>4. QED
    BY <1>b, <1>c, <1>d, <1>q, <2>1, <2>3 DEF Begin
<1>4. ASSUME NEW p \in Clients, NEW v \in config.versions,
             DeletePackage(p, v)
      PROVE  TypeOK'
  <2>1. Package(v) \in Files
    BY <1>0, FileTypes
  <2>2. RequestTyped'
    BY <1>0, <1>4, <2>1
       DEF DeletePackage, RequestTyped, Goto, Labels, Routes
  <2>3. QED
    BY <1>0, <1>4, <1>b, <1>c, <1>q, <2>1, <2>2, DeleteTypes
       DEF DeletePackage
<1>5. ASSUME NEW p \in Clients, FileExists(p)
      PROVE  TypeOK'
  <2>1. CASE config.overwrite
    <3>1. RequestTyped'
      BY <1>0, <1>5, <1>a, <2>1 DEF FileExists, RequestTyped, Goto
    <3>2. QED
      BY <1>5, <1>b, <1>c, <1>d, <1>q, <3>1 DEF FileExists
  <2>2. CASE ~config.overwrite
    BY <1>0, <1>5, <1>b, <1>c, <1>d, <1>q, <2>2, AnswerTypes DEF FileExists
  <2>3. QED
    BY <2>1, <2>2
<1>6. ASSUME NEW p \in Clients, FileIsNew(p)
      PROVE  TypeOK'
  <2>1. RequestTyped'
    BY <1>0, <1>6, <1>a DEF FileIsNew, RequestTyped, Goto, reqVars
  <2>2. QED
    BY <1>6, <1>b, <1>c, <1>d, <1>q, <2>1 DEF FileIsNew
<1>7. ASSUME NEW p \in Clients, CheckStorageLimit(p)
      PROVE  TypeOK'
  <2>1. CASE LimitReached(p)
    BY <1>0, <1>7, <1>b, <1>c, <1>d, <1>q, <2>1, AnswerTypes
       DEF CheckStorageLimit
  <2>2. CASE ~LimitReached(p)
    <3>1. RequestTyped'
      BY <1>0, <1>7, <2>2
         DEF CheckStorageLimit, RequestTyped, Goto, Labels, reqVars, fileVars
    <3>2. QED
      BY <1>7, <1>b, <1>c, <1>d, <1>q, <3>1 DEF CheckStorageLimit
  <2>3. QED
    BY <2>1, <2>2
<1>8. ASSUME NEW p \in Clients, CheckStorageLimitFails(p)
      PROVE  TypeOK'
  BY <1>0, <1>8, <1>b, <1>c, <1>d, <1>q, AnswerTypes
     DEF CheckStorageLimitFails
<1>9. ASSUME NEW p \in Clients, NEW f \in todo[p], Put(p, f)
      PROVE  TypeOK'
  <2>1. f \in Files
    BY DEF TypeOK
  <2>2. CASE PutObject(p, f) /\ FileStored(p, f) /\ UNCHANGED faults
    BY <1>0, <1>9, <1>b, <1>c, <1>q, <2>1, <2>2, StoredTypes, PutTypes DEF Put
  <2>3. CASE Fault /\ FileRefused(p) /\ UNCHANGED diskVars
    BY <1>0, <1>9, <1>b, <1>c, <1>d, <1>q, <2>3, RefusedTypes DEF Put
  <2>4. QED
    BY <1>9, <2>2, <2>3 DEF Put
<1>10. ASSUME NEW p \in Clients, NEW f \in todo[p],
              PutProvenanceWithLimit(p, f)
       PROVE  TypeOK'
  BY <1>0, <1>10, <1>b, <1>c, <1>d, <1>q, RefusedTypes
     DEF PutProvenanceWithLimit
<1>11. ASSUME NEW p \in Clients, NEW f \in todo[p], Undo(p, f)
       PROVE  TypeOK'
  <2>1. f \in Files
    BY DEF TypeOK
  <2>2. RequestTyped'
    BY <1>0, <1>11 DEF Undo, RequestTyped, Goto, Labels, Rest, reqVars
  <2>3. DiskTyped'
    <3>1. CASE UNCHANGED diskVars
      BY <1>d, <3>1
    <3>2. CASE root' = root \ {f} /\ UNCHANGED <<storage, now>>
      BY <1>0, <3>2 DEF DiskTyped
    <3>3. CASE DeleteObject(f)
      BY <1>0, <2>1, <3>3, DeleteTypes
    <3>4. QED
      BY <1>11, <3>1, <3>2, <3>3 DEF Undo
  <2>4. QED
    BY <1>11, <1>b, <1>c, <1>q, <2>2, <2>3 DEF Undo
<1>12. ASSUME NEW p \in Clients, NEW v \in config.versions,
              CountVersions(p, v)
       PROVE  TypeOK'
  <2>1. CASE Fault /\ FileRefused(p) /\ UNCHANGED lock
    BY <1>0, <1>12, <1>b, <1>c, <1>d, <1>q, <2>1, RefusedTypes
       DEF CountVersions
  <2>2. CASE /\ lock' = p
             /\ IF Cardinality(SameChart(v)) < config.chartLimit
                THEN Goto(p, "write") /\ UNCHANGED victim
                ELSE /\ \E w \in Oldest(SameChart(v)) :
                            victim' = [victim EXCEPT ![p] = w]
                     /\ Goto(p, "evict")
             /\ UNCHANGED <<faults, reqVars, todo, done>>
    <3>1. Oldest(SameChart(v)) \subseteq Versions
      BY DEF Oldest, SameChart, StoredVersions
    <3>2. RequestTyped'
      BY <1>0, <2>2, <3>1 DEF RequestTyped, Goto, Labels, reqVars
    <3>3. QED
      BY <1>12, <1>b, <1>d, <1>q, <2>2, <3>2 DEF CountVersions
  <2>3. QED
    BY <1>12, <2>1, <2>2 DEF CountVersions
<1>13. ASSUME NEW p \in Clients, NEW v \in config.versions,
              WriteWithLimit(p, v)
       PROVE  TypeOK'
  <2>1. Package(v) \in Files
    BY <1>0, FileTypes
  <2>2. RequestTyped'
    BY <1>0, <1>13, <2>1, StoredTypes, RefusedTypes DEF WriteWithLimit
  <2>3. DiskTyped'
    BY <1>0, <1>13, <1>d, <2>1, PutTypes DEF WriteWithLimit
  <2>4. evictions' \in [Versions -> Nat]
    BY <1>13 DEF WriteWithLimit, TypeOK
  <2>5. QED
    BY <1>13, <1>b, <2>2, <2>3, <2>4
       DEF WriteWithLimit, TypeOK, RequestTyped, DiskTyped
<1>14. ASSUME NEW p \in Clients, NEW v \in config.versions,
              DeleteProvenance(p, v)
       PROVE  TypeOK'
  <2>1. Provenance(v) \in Files
    BY <1>0, FileTypes
  <2>2. RequestTyped'
    BY <1>0, <1>14
       DEF DeleteProvenance, RequestTyped, Goto, Labels, reqVars, fileVars
  <2>3. QED
    BY <1>0, <1>14, <1>b, <1>c, <1>d, <1>q, <2>1, <2>2, DeleteTypes
       DEF DeleteProvenance
<1>15. ASSUME NEW p \in Clients, Evict(p)
       PROVE  TypeOK'
  <2>1. Package(victim[p]) \in Files
    BY <1>15 DEF Evict, Stored
  <2>2. RequestTyped'
    BY <1>0, <1>15 DEF Evict, RequestTyped, Goto, Labels, reqVars, fileVars
  <2>3. QED
    BY <1>0, <1>15, <1>b, <1>c, <1>q, <2>1, <2>2, DeleteTypes DEF Evict
<1>u. ASSUME NEW p \in Clients, EvictUnreadable(p)
      PROVE  TypeOK'
  <2>1. Package(victim[p]) \in Files
    BY <1>u DEF EvictUnreadable, Stored
  <2>2. RequestTyped'
    BY <1>0, <1>u, RefusedTypes DEF EvictUnreadable
  <2>3. DiskTyped'
    BY <1>0, <1>u, <2>1, DeleteTypes DEF EvictUnreadable
  <2>4. QED
    BY <1>u, <2>2, <2>3
       DEF EvictUnreadable, Fault, TypeOK, RequestTyped, DiskTyped, eventVars
<1>16. ASSUME NEW p \in Clients, EvictFails(p)
       PROVE  TypeOK'
  BY <1>0, <1>16, <1>b, <1>d, <1>q, RefusedTypes DEF EvictFails
<1>17. ASSUME NEW p \in Clients, EmitEvent(p)
       PROVE  TypeOK'
  <2>1. RequestTyped' /\ DiskTyped'
    BY <1>0, <1>17, <1>d, AnswerTypes DEF EmitEvent
  <2>2. index' \in SUBSET Versions
    BY <1>17 DEF EmitEvent, TypeOK, Announced
  <2>3. QED
    BY <1>17, <2>1, <2>2 DEF EmitEvent, TypeOK, RequestTyped, DiskTyped
<1>18. ASSUME NEW v \in Versions, EmitEviction(v)
       PROVE  TypeOK'
  <2>1. evictions' \in [Versions -> Nat] /\ index' \in SUBSET Versions
    BY <1>18 DEF EmitEviction, TypeOK
  <2>2. QED
    BY <1>18, <2>1
       DEF EmitEviction, TypeOK, diskVars, reqVars, fileVars
<1>g. ASSUME GetIndexFile
      PROVE  TypeOK'
  <2>1. index' \in SUBSET Versions /\ faults' \in Nat
    BY <1>g DEF GetIndexFile, Fault, TypeOK, StoredVersions
  <2>2. QED
    BY <1>g, <2>1
       DEF GetIndexFile, TypeOK, diskVars, reqVars, fileVars
<1>19. CASE UNCHANGED vars
  BY <1>19, <1>b, <1>c, <1>d, <1>e, <1>q DEF vars
<1>20. QED
  BY <1>1, <1>2, <1>3, <1>4, <1>5, <1>6, <1>7, <1>8, <1>9, <1>10, <1>11,
     <1>12, <1>13, <1>14, <1>15, <1>16, <1>17, <1>18, <1>19,
     <1>u, <1>g DEF Next, Request, Check, Store

LEMMA TypeInit == Init => TypeOK
BY UploadAssumption
   DEF Init, TypeOK, Absent, Labels, Rest, Routes, Config

(* Every variable keeps its type.                                          *)
THEOREM TypeCorrect == Spec => []TypeOK
BY TypeInit, TypeStep, PTL DEF Spec
-----------------------------------------------------------------------------
(* A request stores only files it brought, of which one at most is a       *)
(* package, and none on the route for provenance files.                    *)
PartsInv ==
    \A p \in Clients :
        /\ todo[p] \cup done[p] \subseteq parts[p]
        /\ \A v, w \in Versions :
               Package(v) \in parts[p] /\ Package(w) \in parts[p] => v = w
        /\ route[p] = "prov" => \A v \in Versions : Package(v) \notin parts[p]

LEMMA PackageInjective ==
  ASSUME NEW v, NEW w
  PROVE  /\ Package(v) = Package(w) => v = w
         /\ Package(v) # Provenance(w)
BY DEF Package, Provenance

LEMMA PartsInit == Init => PartsInv
BY DEF Init, PartsInv

LEMMA PartsStep ==
  ASSUME TypeOK, PartsInv, [Next]_vars
  PROVE  PartsInv'
<1> USE DEF TypeOK, PartsInv
<1>a. ASSUME NEW p \in Clients, Answer(p)
      PROVE  PartsInv'
  BY <1>a DEF Answer
<1>b. ASSUME NEW p \in Clients, NEW f \in todo[p], FileStored(p, f)
      PROVE  PartsInv'
  BY <1>a, <1>b DEF FileStored, reqVars
<1>c. ASSUME NEW p \in Clients, FileRefused(p)
      PROVE  PartsInv'
  BY <1>a, <1>c DEF FileRefused, reqVars
<1>d. ASSUME NEW p \in Clients, UNCHANGED <<route, parts>>,
             todo' \in [Clients -> SUBSET Files],
             done' \in [Clients -> SUBSET Files],
             \A q \in Clients : /\ todo'[q] \subseteq parts[q]
                                /\ done'[q] \subseteq parts[q]
      PROVE  PartsInv'
  BY <1>d
<1>e. ASSUME UNCHANGED <<route, parts, todo, done>>
      PROVE  PartsInv'
  BY <1>e
<1>0. \A v \in config.versions : v \in Versions
  BY UploadAssumption DEF Config
<1>1. ASSUME NEW p \in Clients, NEW v \in config.versions, PostPackage(p, v)
      PROVE  PartsInv'
  BY <1>1, PackageInjective DEF PostPackage, Begin
<1>2. ASSUME NEW p \in Clients, NEW v \in config.versions,
             PostProvenanceFile(p, v)
      PROVE  PartsInv'
  BY <1>2, PackageInjective DEF PostProvenanceFile, Begin
<1>3. ASSUME NEW p \in Clients, NEW v \in config.versions,
             PostPackageAndProvenance(p, v)
      PROVE  PartsInv'
  <2>1. PICK files \in SUBSET {Package(v), Provenance(v)} :
            Begin(p, "form", files, "exists")
    BY <1>3 DEF PostPackageAndProvenance
  <2>2. QED
    BY <2>1, PackageInjective DEF Begin
<1>4. ASSUME NEW p \in Clients, NEW v \in config.versions,
             DeletePackage(p, v)
      PROVE  PartsInv'
  BY <1>4, PackageInjective DEF DeletePackage
<1>5. ASSUME NEW p \in Clients, FileExists(p)
      PROVE  PartsInv'
  BY <1>5, <1>a DEF FileExists
<1>6. ASSUME NEW p \in Clients, FileIsNew(p)
      PROVE  PartsInv'
  BY <1>6 DEF FileIsNew, reqVars
<1>7. ASSUME NEW p \in Clients, CheckStorageLimit(p)
      PROVE  PartsInv'
  BY <1>7, <1>a, <1>e DEF CheckStorageLimit, reqVars, fileVars
<1>8. ASSUME NEW p \in Clients, CheckStorageLimitFails(p)
      PROVE  PartsInv'
  BY <1>8, <1>a DEF CheckStorageLimitFails
<1>9. ASSUME NEW p \in Clients, NEW f \in todo[p], Put(p, f)
      PROVE  PartsInv'
  BY <1>9, <1>b, <1>c DEF Put
<1>10. ASSUME NEW p \in Clients, NEW f \in todo[p],
              PutProvenanceWithLimit(p, f)
       PROVE  PartsInv'
  BY <1>10, <1>c DEF PutProvenanceWithLimit
<1>11. ASSUME NEW p \in Clients, NEW f \in todo[p], Undo(p, f)
       PROVE  PartsInv'
  BY <1>11 DEF Undo, reqVars
<1>12. ASSUME NEW p \in Clients, NEW v \in config.versions,
              CountVersions(p, v)
       PROVE  PartsInv'
  BY <1>12, <1>c, <1>e DEF CountVersions, reqVars
<1>13. ASSUME NEW p \in Clients, NEW v \in config.versions,
              WriteWithLimit(p, v)
       PROVE  PartsInv'
  BY <1>13, <1>b, <1>c DEF WriteWithLimit
<1>14. ASSUME NEW p \in Clients, NEW v \in config.versions,
              DeleteProvenance(p, v)
       PROVE  PartsInv'
  BY <1>14, <1>e DEF DeleteProvenance, reqVars, fileVars
<1>15. ASSUME NEW p \in Clients, Evict(p)
       PROVE  PartsInv'
  BY <1>15, <1>e DEF Evict, reqVars, fileVars
<1>u. ASSUME NEW p \in Clients, EvictUnreadable(p)
      PROVE  PartsInv'
  BY <1>u, <1>c DEF EvictUnreadable
<1>16. ASSUME NEW p \in Clients, EvictFails(p)
       PROVE  PartsInv'
  BY <1>16, <1>c DEF EvictFails
<1>17. ASSUME NEW p \in Clients, EmitEvent(p)
       PROVE  PartsInv'
  BY <1>17, <1>a DEF EmitEvent
<1>18. ASSUME NEW v \in Versions, EmitEviction(v)
       PROVE  PartsInv'
  BY <1>18, <1>e DEF EmitEviction, reqVars, fileVars
<1>g. CASE GetIndexFile
  BY <1>g, <1>e DEF GetIndexFile, reqVars, fileVars
<1>19. CASE UNCHANGED vars
  BY <1>19, <1>e DEF vars, reqVars, fileVars
<1>20. QED
  BY <1>1, <1>2, <1>3, <1>4, <1>5, <1>6, <1>7, <1>8, <1>9, <1>10, <1>11,
     <1>12, <1>13, <1>14, <1>15, <1>16, <1>17, <1>18, <1>19,
     <1>u, <1>g DEF Next, Request, Check, Store
-----------------------------------------------------------------------------
(* The stored versions of v's chart.                                       *)
Siblings(v) == {w \in StoredVersions : ChartOf[w] = ChartOf[v]}

(* Whoever evicts or writes under the limit holds the mutex: nobody else   *)
(* adds a version meanwhile, so the victim stays an oldest version for as  *)
(* long as it is there, and the room for the new version stays.            *)
EvictInv ==
    \A p \in Clients :
        /\ pc[p] \in {"evict", "write"} => lock = p /\ route[p] # "prov"
        /\ pc[p] = "evict" =>
               /\ victim[p] \in Versions
               /\ \A v \in Versions :
                      Package(v) \in todo[p] =>
                          ChartOf[v] = ChartOf[victim[p]]
               /\ victim[p] \in StoredVersions =>
                      \A w \in Siblings(victim[p]) :
                          storage[Package(victim[p])].at
                              <= storage[Package(w)].at
        /\ pc[p] = "write" =>
               \A v \in Versions :
                   Package(v) \in todo[p] =>
                       Cardinality(Siblings(v)) < config.chartLimit

(* Nobody evicts without a limit.                                          *)
UnderLimit ==
    \A p \in Clients :
        pc[p] \in {"evict", "write"} => config.chartLimit > 0

LimitInv ==
    /\ UnderLimit
    /\ config.chartLimit > 0 =>
           /\ EvictInv
           /\ \A v \in Versions :
                  Cardinality(Siblings(v)) <= config.chartLimit

LEMMA SiblingsFinite ==
  ASSUME NEW v \in Versions
  PROVE  /\ IsFiniteSet(Siblings(v))
         /\ Cardinality(Siblings(v)) \in Nat
<1>1. Siblings(v) \subseteq Versions
  BY DEF Siblings, StoredVersions
<1>2. QED
  BY <1>1, UploadAssumption, FS_Subset, FS_CardinalityType

(* No package is put.                                                      *)
NoPackagePut ==
    \A v \in Versions : storage'[Package(v)] \in {storage[Package(v)], Absent}

LEMMA SiblingsShrink ==
  ASSUME NoPackagePut, NEW v \in Versions
  PROVE  /\ Siblings(v)' \subseteq Siblings(v)
         /\ Cardinality(Siblings(v)') <= Cardinality(Siblings(v))
         /\ Cardinality(Siblings(v)') \in Nat
         /\ \A w \in Siblings(v)' :
                storage'[Package(w)] = storage[Package(w)]
<1>1. /\ Siblings(v)' \subseteq Siblings(v)
      /\ \A w \in Siblings(v)' :
             storage'[Package(w)] = storage[Package(w)]
  BY DEF NoPackagePut, Siblings, StoredVersions, Stored
<1>2. QED
  BY <1>1, SiblingsFinite, FS_Subset, FS_CardinalityType

(* A step that puts no package, and after which nobody has begun to evict  *)
(* or to write, keeps the invariant.                                       *)
LEMMA Shrink ==
  ASSUME TypeOK, LimitInv, NoPackagePut, UNCHANGED config,
         \A q \in Clients :
             pc'[q] \in {"evict", "write"} =>
                 /\ pc'[q] = pc[q]
                 /\ todo'[q] = todo[q]
                 /\ victim'[q] = victim[q]
                 /\ route'[q] = route[q]
                 /\ config.chartLimit > 0 => lock' = q
  PROVE  LimitInv'
<1>u. UnderLimit'
  BY DEF LimitInv, UnderLimit
<1> SUFFICES ASSUME config.chartLimit > 0
             PROVE  LimitInv'
  BY <1>u DEF LimitInv
<1>0. config.chartLimit \in Nat
  BY UploadAssumption DEF TypeOK, Config
<1>1. \A v \in Versions : Cardinality(Siblings(v)') <= config.chartLimit
  BY <1>0, SiblingsShrink, SiblingsFinite DEF LimitInv
<1>2. ASSUME NEW q \in Clients, pc'[q] = "evict"
      PROVE  /\ victim'[q] \in Versions
             /\ \A v \in Versions :
                    Package(v) \in todo'[q] =>
                        ChartOf[v] = ChartOf[victim'[q]]
             /\ victim'[q] \in StoredVersions' =>
                    \A w \in Siblings(victim[q])' :
                        storage'[Package(victim'[q])].at
                            <= storage'[Package(w)].at
  <2>1. /\ pc[q] = "evict"
        /\ victim'[q] = victim[q]
        /\ todo'[q] = todo[q]
        /\ victim[q] \in Versions
    BY <1>2 DEF LimitInv, EvictInv
  <2>2. PICK y \in Versions : y = victim[q]
    BY <2>1
  <2>3. ASSUME y \in StoredVersions', NEW w \in Siblings(y)'
        PROVE  storage'[Package(y)].at <= storage'[Package(w)].at
    <3>1. y \in Siblings(y)'
      BY <2>3 DEF Siblings
    <3>2. /\ y \in Siblings(y)
          /\ w \in Siblings(y)
          /\ storage'[Package(y)] = storage[Package(y)]
          /\ storage'[Package(w)] = storage[Package(w)]
      BY <2>3, <3>1, SiblingsShrink
    <3>3. victim[q] \in StoredVersions /\ Siblings(y) = Siblings(victim[q])
      BY <2>2, <3>2 DEF Siblings
    <3>4. QED
      BY <2>1, <2>2, <3>2, <3>3 DEF LimitInv, EvictInv
  <2>4. \A v \in Versions :
            Package(v) \in todo'[q] => ChartOf[v] = ChartOf[victim'[q]]
    BY <2>1 DEF LimitInv, EvictInv
  <2>5. Siblings(victim[q])' = Siblings(y)'
    BY <2>1, <2>2 DEF Siblings
  <2>6. QED
    BY <2>1, <2>2, <2>3, <2>4, <2>5
<1>3. ASSUME NEW q \in Clients, pc'[q] = "write",
             NEW v \in Versions, Package(v) \in todo'[q]
      PROVE  Cardinality(Siblings(v)') < config.chartLimit
  <2>1. Cardinality(Siblings(v)) < config.chartLimit
    BY <1>3 DEF LimitInv, EvictInv
  <2>2. QED
    BY <1>0, <2>1, SiblingsShrink, SiblingsFinite
<1>4. \A q \in Clients :
          pc'[q] \in {"evict", "write"} => lock' = q /\ route'[q] # "prov"
  <2>1. \A q \in Clients :
            pc[q] \in {"evict", "write"} => lock = q /\ route[q] # "prov"
    BY DEF LimitInv, EvictInv
  <2>2. QED
    BY <2>1
<1>5. EvictInv'
  <2>1. SUFFICES ASSUME NEW q \in Clients
                 PROVE  EvictInv!(q)'
    BY DEF EvictInv
  <2>2. QED
    BY <1>2, <1>3, <1>4
<1>6. QED
  BY <1>1, <1>5, <1>u DEF LimitInv

(* The rest of a step of p that neither begins nor ends an eviction or a   *)
(* write under the limit.                                                  *)
OnlyOf(p) ==
    /\ pc'[p] \notin {"evict", "write"}
    /\ \A q \in Clients \ {p} : /\ pc'[q] = pc[q]
                                /\ todo'[q] = todo[q]
                                /\ victim'[q] = victim[q]
                                /\ route'[q] = route[q]

LEMMA ShrinkOf ==
  ASSUME TypeOK, LimitInv, NoPackagePut, UNCHANGED config,
         NEW p \in Clients, OnlyOf(p), lock' = lock \/ lock = p
  PROVE  LimitInv'
<1>1. ASSUME NEW q \in Clients, pc'[q] \in {"evict", "write"}
      PROVE  /\ pc'[q] = pc[q]
             /\ todo'[q] = todo[q]
             /\ victim'[q] = victim[q]
             /\ route'[q] = route[q]
             /\ config.chartLimit > 0 => lock' = q
  <2>1. q # p
    BY <1>1 DEF OnlyOf
  <2>2. config.chartLimit > 0 => lock = q
    BY <1>1, <2>1 DEF OnlyOf, LimitInv, EvictInv
  <2>3. QED
    BY <2>1, <2>2 DEF OnlyOf
<1>2. QED
  BY <1>1, Shrink

LEMMA AnswerOnly ==
  ASSUME TypeOK, NEW p \in Clients, Answer(p)
  PROVE  OnlyOf(p)
BY DEF TypeOK, OnlyOf, Answer, Goto

LEMMA BeginOnly ==
  ASSUME TypeOK, NEW p \in Clients, NEW r, NEW files, NEW label,
         label \notin {"evict", "write"}, Begin(p, r, files, label)
  PROVE  OnlyOf(p)
BY DEF TypeOK, OnlyOf, Begin, Goto

LEMMA StoredOnly ==
  ASSUME TypeOK, NEW p \in Clients, NEW f, FileStored(p, f)
  PROVE  OnlyOf(p)
BY AnswerOnly DEF TypeOK, OnlyOf, FileStored, Goto, reqVars

LEMMA RefusedOnly ==
  ASSUME TypeOK, NEW p \in Clients, FileRefused(p)
  PROVE  OnlyOf(p)
BY AnswerOnly DEF TypeOK, OnlyOf, FileRefused, Goto, reqVars

LEMMA SameDisk ==
  ASSUME UNCHANGED storage
  PROVE  NoPackagePut
BY DEF NoPackagePut

LEMMA DeletedDisk ==
  ASSUME TypeOK, NEW f \in Files, DeleteObject(f)
  PROVE  NoPackagePut
BY FileTypes DEF TypeOK, NoPackagePut, DeleteObject

LEMMA LimitInit == Init => LimitInv
<1> SUFFICES ASSUME Init
             PROVE  LimitInv
  OBVIOUS
<1>1. \A v \in Versions : Siblings(v) = {}
  BY FileTypes DEF Init, Siblings, StoredVersions, Stored
<1>2. \A v \in Versions : Cardinality(Siblings(v)) = 0
  BY <1>1, FS_EmptySet
<1>3. config.chartLimit \in Nat
  BY UploadAssumption DEF Init, Config
<1>4. QED
  BY <1>2, <1>3 DEF Init, LimitInv, EvictInv, UnderLimit

(* The three steps under the mutex.                                        *)
LEMMA CountStep ==
  ASSUME TypeOK, PartsInv, LimitInv, Guessed = ChartOf,
         NEW p \in Clients, NEW v \in Versions, CountVersions(p, v)
  PROVE  LimitInv'
<1>1. CASE Fault /\ FileRefused(p) /\ UNCHANGED lock
  BY <1>1, RefusedOnly, SameDisk, ShrinkOf DEF CountVersions, diskVars
<1>2. CASE /\ lock' = p
           /\ IF Cardinality(SameChart(v)) < config.chartLimit
              THEN Goto(p, "write") /\ UNCHANGED victim
              ELSE /\ \E w \in Oldest(SameChart(v)) :
                          victim' = [victim EXCEPT ![p] = w]
                   /\ Goto(p, "evict")
           /\ UNCHANGED <<faults, reqVars, todo, done>>
  <2>1. /\ UNCHANGED <<config, storage, route, todo>>
        /\ Limited(p)
        /\ Package(v) \in todo[p]
        /\ lock = Nobody
    BY <1>2 DEF CountVersions, diskVars, reqVars, Free
  <2>2. config.chartLimit > 0 /\ route[p] # "prov"
    BY <2>1 DEF Limited
  <2>3. \A u \in Versions : Siblings(u)' = Siblings(u)
    BY <2>1 DEF Siblings, StoredVersions, Stored
  <2>4. SameChart(v) = Siblings(v)
    BY DEF SameChart, Siblings
  <2>5. \A u \in Versions : Package(u) \in todo[p] => u = v
    BY <2>1 DEF PartsInv
  <2>6. \A q \in Clients \ {p} : pc'[q] \notin {"evict", "write"}
    BY <1>2, <2>1, <2>2, UploadAssumption
       DEF LimitInv, EvictInv, Goto, TypeOK
  <2>u. UnderLimit'
    BY <2>1, <2>2 DEF UnderLimit
  <2>7. CASE Cardinality(SameChart(v)) < config.chartLimit
    <3>1. pc'[p] = "write"
      BY <1>2, <2>7 DEF Goto, TypeOK
    <3>2. \A u \in Versions :
              Package(u) \in todo'[p] =>
                  Cardinality(Siblings(u)') < config'.chartLimit
      BY <2>1, <2>3, <2>4, <2>5, <2>7
    <3>3. EvictInv'
      BY <1>2, <2>1, <2>2, <2>6, <3>1, <3>2 DEF EvictInv
    <3>4. QED
      BY <2>1, <2>3, <2>u, <3>3 DEF LimitInv
  <2>8. CASE ~(Cardinality(SameChart(v)) < config.chartLimit)
    <3>1. pc'[p] = "evict"
      BY <1>2, <2>8 DEF Goto, TypeOK
    <3>2. PICK w \in Oldest(SameChart(v)) :
              victim' = [victim EXCEPT ![p] = w]
      BY <1>2, <2>8
    <3>3. /\ w \in Versions
          /\ ChartOf[w] = ChartOf[v]
          /\ \A x \in Siblings(v) :
                 storage[Package(w)].at <= storage[Package(x)].at
      BY <2>4, <3>2 DEF Oldest, Siblings, StoredVersions
    <3>4. victim'[p] = w
      BY <3>2 DEF TypeOK
    <3>5. Siblings(victim[p])' = Siblings(v)
      BY <2>1, <3>3, <3>4 DEF Siblings, StoredVersions, Stored
    <3>6. /\ victim'[p] \in Versions
          /\ \A u \in Versions :
                 Package(u) \in todo'[p] => ChartOf[u] = ChartOf[victim'[p]]
          /\ \A x \in Siblings(victim[p])' :
                 storage'[Package(victim'[p])].at <= storage'[Package(x)].at
      BY <2>1, <2>5, <3>3, <3>4, <3>5
    <3>7. EvictInv'
      BY <1>2, <2>1, <2>2, <2>6, <3>1, <3>6 DEF EvictInv
    <3>8. QED
      BY <2>1, <2>3, <2>u, <3>7 DEF LimitInv
  <2>9. QED
    BY <2>7, <2>8
<1>3. QED
  BY <1>1, <1>2 DEF CountVersions

LEMMA EvictStep ==
  ASSUME TypeOK, LimitInv, NEW p \in Clients, Evict(p)
  PROVE  LimitInv'
<1>u. config.chartLimit > 0 /\ UnderLimit'
  BY DEF LimitInv, UnderLimit, Evict
<1>0. config.chartLimit \in Nat
  BY UploadAssumption DEF TypeOK, Config
<1>1. /\ UNCHANGED <<config, lock, route, todo, victim>>
      /\ pc[p] = "evict"
      /\ DeleteObject(Package(victim[p]))
      /\ Package(victim[p]) \in Stored
      /\ pc' = [pc EXCEPT ![p] = "write"]
  BY DEF Evict, reqVars, fileVars, Goto
<1>2. PICK x \in Versions : x = victim[p]
  BY <1>1, <1>u DEF LimitInv, EvictInv
<1>3. NoPackagePut
  BY <1>1, <1>2, FileTypes, DeletedDisk
<1>4. \A u \in Versions : Cardinality(Siblings(u)') <= config.chartLimit
  BY <1>0, <1>3, <1>u, SiblingsShrink, SiblingsFinite DEF LimitInv
<1>5. x \in Siblings(x) /\ x \notin StoredVersions'
  BY <1>1, <1>2, FileTypes
     DEF Siblings, StoredVersions, Stored, DeleteObject, TypeOK
<1>6. ASSUME NEW u \in Versions, Package(u) \in todo[p]
      PROVE  Cardinality(Siblings(u)') < config.chartLimit
  <2>1. ChartOf[u] = ChartOf[x]
    BY <1>1, <1>2, <1>6, <1>u DEF LimitInv, EvictInv
  <2>2. Siblings(u)' \in SUBSET (Siblings(x) \ {x})
    <3>1. Siblings(u)' \subseteq Siblings(u)
      BY <1>3, SiblingsShrink
    <3>2. Siblings(u) = Siblings(x)
      BY <2>1 DEF Siblings
    <3>3. x \notin Siblings(u)'
      BY <1>5 DEF Siblings
    <3>4. QED
      BY <3>1, <3>2, <3>3
  <2>3. /\ IsFiniteSet(Siblings(x) \ {x})
        /\ Cardinality(Siblings(x) \ {x}) = Cardinality(Siblings(x)) - 1
    BY <1>5, SiblingsFinite, FS_RemoveElement
  <2>4. Cardinality(Siblings(u)') <= Cardinality(Siblings(x)) - 1
    BY <2>2, <2>3, FS_Subset
  <2>5. Cardinality(Siblings(x)) <= config.chartLimit
    BY <1>u DEF LimitInv
  <2>6. QED
    BY <1>0, <1>3, <2>4, <2>5, SiblingsShrink, SiblingsFinite
<1>7. lock = p /\ route[p] # "prov"
  BY <1>1, <1>u DEF LimitInv, EvictInv
<1>8. \A q \in Clients \ {p} : pc'[q] \notin {"evict", "write"}
  BY <1>1, <1>7, <1>u DEF LimitInv, EvictInv, TypeOK
<1>9. EvictInv'
  BY <1>1, <1>6, <1>7, <1>8 DEF EvictInv, TypeOK
<1>10. QED
  BY <1>1, <1>4, <1>9, <1>u DEF LimitInv

LEMMA WriteStep ==
  ASSUME TypeOK, LimitInv, NEW p \in Clients, NEW v \in Versions,
         WriteWithLimit(p, v)
  PROVE  LimitInv'
<1>0. /\ pc[p] = "write" /\ Package(v) \in todo[p] /\ UNCHANGED config
      /\ config.chartLimit > 0 /\ UnderLimit'
  BY DEF WriteWithLimit, LimitInv, UnderLimit
<1>1. CASE Fault /\ FileRefused(p) /\ UNCHANGED <<diskVars, evictions>>
  <2>1. OnlyOf(p) /\ NoPackagePut
    BY <1>1, RefusedOnly, SameDisk DEF diskVars
  <2>2. lock = p
    BY <1>0 DEF LimitInv, EvictInv
  <2>3. QED
    BY <1>0, <2>1, <2>2, ShrinkOf
<1>2. CASE PutObject(p, Package(v)) /\ FileStored(p, Package(v))
  <2>0. config.chartLimit \in Nat
    BY UploadAssumption DEF TypeOK, Config
  <2>1. OnlyOf(p)
    BY <1>2, StoredOnly
  <2>2. lock = p /\ Cardinality(Siblings(v)) < config.chartLimit
    BY <1>0 DEF LimitInv, EvictInv
  <2>3. \A q \in Clients : pc'[q] \notin {"evict", "write"}
    BY <1>0, <2>1, <2>2 DEF OnlyOf, LimitInv, EvictInv
  <2>4. ASSUME NEW w \in Versions, w # v
        PROVE  storage'[Package(w)] = storage[Package(w)]
    BY <1>2, <2>4, PackageInjective, FileTypes DEF PutObject, TypeOK
  <2>5. ASSUME NEW u \in Versions
        PROVE  Cardinality(Siblings(u)') <= config.chartLimit
    <3>1. CASE ChartOf[u] = ChartOf[v]
      <4>1. Siblings(u)' \in SUBSET (Siblings(v) \cup {v})
        BY <2>4, <3>1 DEF Siblings, StoredVersions, Stored
      <4>2. /\ IsFiniteSet(Siblings(v) \cup {v})
            /\ Cardinality(Siblings(v) \cup {v})
                   <= Cardinality(Siblings(v)) + 1
        <5>1. IsFiniteSet(Siblings(v)) /\ Cardinality(Siblings(v)) \in Nat
          BY SiblingsFinite
        <5>2. /\ IsFiniteSet(Siblings(v) \cup {v})
              /\ \/ Cardinality(Siblings(v) \cup {v})
                       = Cardinality(Siblings(v))
                 \/ Cardinality(Siblings(v) \cup {v})
                       = Cardinality(Siblings(v)) + 1
          BY <5>1, FS_AddElement
        <5>3. QED
          BY <5>1, <5>2
      <4>3. /\ Cardinality(Siblings(u)') <= Cardinality(Siblings(v) \cup {v})
            /\ Cardinality(Siblings(v) \cup {v}) \in Nat
            /\ Cardinality(Siblings(u)') \in Nat
        BY <4>1, <4>2, FS_Subset, FS_CardinalityType
      <4>4. QED
        BY <2>0, <2>2, <4>2, <4>3, SiblingsFinite
    <3>2. CASE ChartOf[u] # ChartOf[v]
      <4>1. Siblings(u)' = Siblings(u)
        BY <2>4, <3>2 DEF Siblings, StoredVersions, Stored
      <4>2. QED
        BY <1>0, <4>1 DEF LimitInv
    <3>3. QED
      BY <3>1, <3>2
  <2>6. EvictInv'
    BY <2>3 DEF EvictInv
  <2>7. QED
    BY <1>0, <2>5, <2>6 DEF LimitInv
<1>3. QED
  BY <1>1, <1>2 DEF WriteWithLimit

LEMMA LimitStep ==
  ASSUME TypeOK, PartsInv, LimitInv, Guessed = ChartOf, [Next]_vars
  PROVE  LimitInv'
<1>0. \A v \in config.versions : v \in Versions
  BY UploadAssumption DEF TypeOK, Config
<1>1. ASSUME NEW p \in Clients, NEW v \in config.versions, PostPackage(p, v)
      PROVE  LimitInv'
  BY <1>1, BeginOnly, SameDisk, ShrinkOf DEF PostPackage, Begin, diskVars
<1>2. ASSUME NEW p \in Clients, NEW v \in config.versions,
             PostProvenanceFile(p, v)
      PROVE  LimitInv'
  <2> DEFINE label == IF config.overwrite THEN Checked("prov") ELSE "exists"
  <2>1. label \notin {"evict", "write"}
    BY DEF Checked
  <2>2. Begin(p, "prov", {Provenance(v)}, label)
    BY <1>2 DEF PostProvenanceFile
  <2> HIDE DEF label
  <2>3. QED
    BY <2>1, <2>2, BeginOnly, SameDisk, ShrinkOf DEF Begin, diskVars
<1>3. ASSUME NEW p \in Clients, NEW v \in config.versions,
             PostPackageAndProvenance(p, v)
      PROVE  LimitInv'
  <2>1. PICK files : Begin(p, "form", files, "exists")
    BY <1>3 DEF PostPackageAndProvenance
  <2>2. QED
    BY <2>1, BeginOnly, SameDisk, ShrinkOf DEF Begin, diskVars
<1>4. ASSUME NEW p \in Clients, NEW v \in config.versions,
             DeletePackage(p, v)
      PROVE  LimitInv'
  <2>1. OnlyOf(p)
    BY <1>4 DEF DeletePackage, OnlyOf, Goto, TypeOK
  <2>2. QED
    BY <1>0, <1>4, <2>1, FileTypes, DeletedDisk, ShrinkOf DEF DeletePackage
<1>5. ASSUME NEW p \in Clients, FileExists(p)
      PROVE  LimitInv'
  <2>1. OnlyOf(p)
    <3>1. CASE config.overwrite
      BY <1>5, <3>1 DEF FileExists, OnlyOf, Goto, Checked, TypeOK
    <3>2. CASE ~config.overwrite
      BY <1>5, <3>2, AnswerOnly DEF FileExists
    <3>3. QED
      BY <3>1, <3>2
  <2>2. QED
    BY <1>5, <2>1, SameDisk, ShrinkOf DEF FileExists, diskVars
<1>6. ASSUME NEW p \in Clients, FileIsNew(p)
      PROVE  LimitInv'
  <2>1. OnlyOf(p)
    BY <1>6 DEF FileIsNew, OnlyOf, Goto, Checked, TypeOK, reqVars
  <2>2. QED
    BY <1>6, <2>1, SameDisk, ShrinkOf DEF FileIsNew, diskVars
<1>7. ASSUME NEW p \in Clients, CheckStorageLimit(p)
      PROVE  LimitInv'
  <2>1. OnlyOf(p)
    <3>1. CASE LimitReached(p)
      BY <1>7, <3>1, AnswerOnly DEF CheckStorageLimit
    <3>2. CASE ~LimitReached(p)
      BY <1>7, <3>2
         DEF CheckStorageLimit, OnlyOf, Goto, TypeOK, reqVars, fileVars
    <3>3. QED
      BY <3>1, <3>2
  <2>2. QED
    BY <1>7, <2>1, SameDisk, ShrinkOf DEF CheckStorageLimit, diskVars
<1>8. ASSUME NEW p \in Clients, CheckStorageLimitFails(p)
      PROVE  LimitInv'
  BY <1>8, AnswerOnly, SameDisk, ShrinkOf DEF CheckStorageLimitFails, diskVars
<1>9. ASSUME NEW p \in Clients, NEW f \in todo[p], Put(p, f)
      PROVE  LimitInv'
  <2>0. UNCHANGED <<config, lock>> /\ ~Limited(p)
    BY <1>9 DEF Put
  <2>1. CASE PutObject(p, f) /\ FileStored(p, f)
    <3>1. CASE config.chartLimit > 0
      <4>1. \A v \in Versions : f # Package(v)
        BY <2>0, <3>1 DEF Limited, PartsInv, TypeOK
      <4>2. NoPackagePut
        BY <2>1, <4>1, FileTypes DEF PutObject, NoPackagePut, TypeOK
      <4>3. QED
        BY <2>0, <2>1, <4>2, StoredOnly, ShrinkOf
    <3>2. CASE ~(config.chartLimit > 0)
      <4>1. OnlyOf(p)
        BY <2>1, StoredOnly
      <4>2. QED
        BY <2>0, <3>2, <4>1 DEF LimitInv, UnderLimit, OnlyOf
    <3>3. QED
      BY <3>1, <3>2
  <2>2. CASE Fault /\ FileRefused(p) /\ UNCHANGED diskVars
    BY <2>0, <2>2, RefusedOnly, SameDisk, ShrinkOf DEF diskVars
  <2>3. QED
    BY <1>9, <2>1, <2>2 DEF Put
<1>10. ASSUME NEW p \in Clients, NEW f \in todo[p],
              PutProvenanceWithLimit(p, f)
       PROVE  LimitInv'
  BY <1>10, RefusedOnly, SameDisk, ShrinkOf
     DEF PutProvenanceWithLimit, diskVars
<1>11. ASSUME NEW p \in Clients, NEW f \in todo[p], Undo(p, f)
       PROVE  LimitInv'
  <2>1. f \in Files
    BY DEF TypeOK
  <2>2. NoPackagePut
    <3>1. UNCHANGED storage \/ DeleteObject(f)
      BY <1>11 DEF Undo, diskVars
    <3>2. QED
      BY <2>1, <3>1, SameDisk, DeletedDisk
  <2>3. OnlyOf(p)
    BY <1>11 DEF Undo, OnlyOf, Goto, TypeOK, reqVars
  <2>4. QED
    BY <1>11, <2>2, <2>3, ShrinkOf DEF Undo
<1>12. ASSUME NEW p \in Clients, NEW v \in config.versions,
              CountVersions(p, v)
       PROVE  LimitInv'
  BY <1>0, <1>12, CountStep
<1>13. ASSUME NEW p \in Clients, NEW v \in config.versions,
              WriteWithLimit(p, v)
       PROVE  LimitInv'
  BY <1>0, <1>13, WriteStep
<1>14. ASSUME NEW p \in Clients, NEW v \in config.versions,
              DeleteProvenance(p, v)
       PROVE  LimitInv'
  <2>1. OnlyOf(p)
    BY <1>14
       DEF DeleteProvenance, OnlyOf, Goto, TypeOK, reqVars, fileVars
  <2>2. NoPackagePut
    BY <1>0, <1>14, FileTypes, SameDisk, DeletedDisk
       DEF DeleteProvenance, diskVars
  <2>3. QED
    BY <1>14, <2>1, <2>2, ShrinkOf DEF DeleteProvenance
<1>15. ASSUME NEW p \in Clients, Evict(p)
       PROVE  LimitInv'
  BY <1>15, EvictStep
<1>u. ASSUME NEW p \in Clients, EvictUnreadable(p)
      PROVE  LimitInv'
  <2>1. Package(victim[p]) \in Files
    BY <1>u DEF EvictUnreadable, Stored
  <2>2. OnlyOf(p) /\ NoPackagePut /\ UNCHANGED config /\ lock' = Nobody
    BY <1>u, <2>1, RefusedOnly, DeletedDisk DEF EvictUnreadable
  <2>3. lock = p \/ ~(config.chartLimit > 0)
    BY <1>u DEF EvictUnreadable, LimitInv, EvictInv
  <2>4. QED
    BY <1>u, <2>2, <2>3, ShrinkOf DEF EvictUnreadable, LimitInv, UnderLimit
<1>16. ASSUME NEW p \in Clients, EvictFails(p)
       PROVE  LimitInv'
  <2>1. OnlyOf(p) /\ NoPackagePut /\ UNCHANGED config
    BY <1>16, RefusedOnly, SameDisk DEF EvictFails, diskVars
  <2>2. lock = p
    BY <1>16 DEF EvictFails, LimitInv, UnderLimit, EvictInv
  <2>3. QED
    BY <2>1, <2>2, ShrinkOf
<1>17. ASSUME NEW p \in Clients, EmitEvent(p)
       PROVE  LimitInv'
  BY <1>17, AnswerOnly, SameDisk, ShrinkOf DEF EmitEvent, diskVars
<1>18. ASSUME NEW v \in Versions, EmitEviction(v)
       PROVE  LimitInv'
  <2>1. /\ NoPackagePut
        /\ UNCHANGED <<config, lock, pc, todo, victim, route>>
    BY <1>18, SameDisk DEF EmitEviction, diskVars, reqVars, fileVars
  <2>2. \A q \in Clients :
            config.chartLimit > 0 /\ pc[q] \in {"evict", "write"} => lock = q
    BY DEF LimitInv, EvictInv
  <2>3. QED
    BY <2>1, <2>2, Shrink
<1>g. CASE GetIndexFile
  <2>1. /\ NoPackagePut
        /\ UNCHANGED <<config, lock, pc, todo, victim, route>>
    BY <1>g, SameDisk DEF GetIndexFile, diskVars, reqVars, fileVars
  <2>2. \A q \in Clients :
            config.chartLimit > 0 /\ pc[q] \in {"evict", "write"} => lock = q
    BY DEF LimitInv, EvictInv
  <2>3. QED
    BY <2>1, <2>2, Shrink
<1>19. CASE UNCHANGED vars
  <2>1. /\ NoPackagePut
        /\ UNCHANGED <<config, lock, pc, todo, victim, route>>
    BY <1>19, SameDisk DEF vars, diskVars, reqVars, fileVars
  <2>2. \A q \in Clients :
            config.chartLimit > 0 /\ pc[q] \in {"evict", "write"} => lock = q
    BY DEF LimitInv, EvictInv
  <2>3. QED
    BY <2>1, <2>2, Shrink
<1>20. QED
  BY <1>1, <1>2, <1>3, <1>4, <1>5, <1>6, <1>7, <1>8, <1>9, <1>10, <1>11,
     <1>12, <1>13, <1>14, <1>15, <1>16, <1>17, <1>18, <1>19,
     <1>u, <1>g DEF Next, Request, Check, Store

(* No chart has more versions than --per-chart-limit allows, provided its  *)
(* file names are understood.                                              *)
THEOREM LimitHolds ==
  ASSUME Guessed = ChartOf
  PROVE  Spec => []ChartLimitKept
<1>1. Init => TypeOK /\ PartsInv /\ LimitInv
  BY TypeInit, PartsInit, LimitInit
<1>2. TypeOK /\ PartsInv /\ LimitInv /\ [Next]_vars
          => (TypeOK /\ PartsInv /\ LimitInv)'
  BY TypeStep, PartsStep, LimitStep
<1>3. LimitInv => ChartLimitKept
  BY DEF LimitInv, ChartLimitKept, Siblings
<1>4. QED
  BY <1>1, <1>2, <1>3, PTL DEF Spec

(* What is evicted is an oldest version still.                             *)
THEOREM EvictionOldest ==
  ASSUME Guessed = ChartOf
  PROVE  Spec => EvictsOldest
<1>1. Init => TypeOK /\ PartsInv /\ LimitInv
  BY TypeInit, PartsInit, LimitInit
<1>2. TypeOK /\ PartsInv /\ LimitInv /\ [Next]_vars
          => (TypeOK /\ PartsInv /\ LimitInv)'
  BY TypeStep, PartsStep, LimitStep
<1>3. LimitInv =>
          \A p \in Clients :
              Evict(p) \/ EvictUnreadable(p) =>
                  \A v \in StoredVersions :
                      ChartOf[v] = ChartOf[victim[p]] =>
                          storage[Package(victim[p])].at
                              <= storage[Package(v)].at
  <2>1. SUFFICES ASSUME LimitInv, NEW p \in Clients,
                        Evict(p) \/ EvictUnreadable(p),
                        NEW v \in StoredVersions,
                        ChartOf[v] = ChartOf[victim[p]]
                 PROVE  storage[Package(victim[p])].at
                            <= storage[Package(v)].at
    OBVIOUS
  <2>2. pc[p] = "evict" /\ Package(victim[p]) \in Stored
    BY <2>1 DEF Evict, EvictUnreadable
  <2>3. config.chartLimit > 0
    BY <2>1, <2>2 DEF LimitInv, UnderLimit
  <2>4. victim[p] \in StoredVersions
    BY <2>1, <2>2, <2>3 DEF LimitInv, EvictInv, StoredVersions
  <2>5. v \in Siblings(victim[p])
    BY <2>1 DEF Siblings
  <2>6. QED
    BY <2>1, <2>2, <2>3, <2>4, <2>5 DEF LimitInv, EvictInv
<1>4. QED
  BY <1>1, <1>2, <1>3, PTL DEF Spec, EvictsOldest
-----------------------------------------------------------------------------
(* The files stored, and those the uploads past their checks will store:   *)
(* what the count of checkStorageLimit is compared with is the former, and *)
(* what it may become the latter.                                          *)
Busy == {"put", "evict", "write"}

InFlight ==
    {f \in Files : \E p \in Clients : pc[p] \in Busy /\ f \in todo[p]}

Claimed == Stored \cup InFlight

Counted == config.maxObjects > 0 /\ "form" \notin config.routes

OneFileEach ==
    \A p \in Clients :
        /\ route[p] # "form"
        /\ \A f, g \in parts[p] : f = g

ClaimInv ==
    Counted =>
        /\ OneFileEach
        /\ Cardinality(Claimed) < config.maxObjects + Cardinality(Clients)

LEMMA ClaimFinite ==
    /\ IsFiniteSet(Files) /\ IsFiniteSet(Stored) /\ IsFiniteSet(Claimed)
    /\ Cardinality(Stored) \in Nat /\ Cardinality(Claimed) \in Nat
    /\ Cardinality(Clients) \in Nat
<1>1. IsFiniteSet({"tgz", "prov"})
  <2>1. IsFiniteSet({"tgz"})
    BY FS_Singleton
  <2>2. IsFiniteSet({"tgz"} \cup {"prov"})
    BY <2>1, FS_AddElement
  <2>3. {"tgz"} \cup {"prov"} = {"tgz", "prov"}
    OBVIOUS
  <2>4. QED
    BY <2>2, <2>3
<1>2. IsFiniteSet(Files)
  BY <1>1, UploadAssumption, FS_Product DEF Files
<1>3. Stored \in SUBSET Files /\ Claimed \in SUBSET Files
  BY DEF Stored, Claimed, InFlight
<1>4. QED
  BY <1>2, <1>3, UploadAssumption, FS_Subset, FS_CardinalityType

(* A step of p that claims no file p had not claimed before.               *)
Calm(p) ==
    /\ \A q \in Clients \ {p} : pc'[q] = pc[q] /\ todo'[q] = todo[q]
    /\ pc'[p] \in Busy => pc[p] \in Busy /\ todo'[p] \subseteq todo[p]
    /\ \A f \in Files :
           storage'[f] # Absent =>
               \/ storage[f] # Absent
               \/ pc[p] \in Busy /\ f \in todo[p]

LEMMA CalmStep ==
  ASSUME TypeOK, ClaimInv, UNCHANGED config, Counted => OneFileEach',
         NEW p \in Clients, Calm(p)
  PROVE  ClaimInv'
<1>1. Claimed' \in SUBSET Claimed
  BY DEF Calm, Claimed, InFlight, Stored
<1>2. Cardinality(Claimed') <= Cardinality(Claimed)
  BY <1>1, ClaimFinite, FS_Subset
<1>3. Cardinality(Claimed') \in Nat
  BY <1>1, ClaimFinite, FS_Subset, FS_CardinalityType
<1>4. Counted' = Counted
  BY DEF Counted
<1>5. ASSUME Counted
      PROVE  Cardinality(Claimed')
                 < config'.maxObjects + Cardinality(Clients)
  <2>1. Cardinality(Claimed) < config.maxObjects + Cardinality(Clients)
    BY <1>5 DEF ClaimInv
  <2>2. config.maxObjects \in Nat
    BY UploadAssumption DEF TypeOK, Config
  <2>3. QED
    BY <1>2, <1>3, <2>1, <2>2, ClaimFinite
<1>6. QED
  BY <1>4, <1>5 DEF ClaimInv

(* An upload passes the check.                                             *)
LEMMA PassStep ==
  ASSUME TypeOK, PartsInv, ClaimInv, NEW p \in Clients,
         CheckStorageLimit(p), ~LimitReached(p)
  PROVE  ClaimInv'
<1>1. /\ UNCHANGED <<config, storage, route, parts, todo>>
      /\ pc' = [pc EXCEPT ![p] = "put"]
  BY DEF CheckStorageLimit, Goto, reqVars, fileVars, diskVars
<1> SUFFICES ASSUME Counted
             PROVE  /\ OneFileEach
                    /\ Cardinality(Claimed')
                           < config.maxObjects + Cardinality(Clients)
  BY <1>1 DEF ClaimInv, Counted, OneFileEach
<1>2. OneFileEach /\ config.maxObjects \in Nat
  BY UploadAssumption DEF ClaimInv, TypeOK, Config
<1>3. Stored' = Stored
  BY <1>1 DEF Stored
<1>4. CASE config.overwrite /\ parts[p] \subseteq Stored
  <2>1. Claimed' \in SUBSET Claimed
    BY <1>1, <1>3, <1>4 DEF Claimed, InFlight, PartsInv, TypeOK
  <2>2. Cardinality(Claimed') <= Cardinality(Claimed)
    BY <2>1, ClaimFinite, FS_Subset
  <2>3. Cardinality(Claimed') \in Nat
    BY <2>1, ClaimFinite, FS_Subset, FS_CardinalityType
  <2>4. Cardinality(Claimed) < config.maxObjects + Cardinality(Clients)
    BY DEF ClaimInv
  <2>5. QED
    BY <1>2, <2>2, <2>3, <2>4, ClaimFinite
<1>5. CASE Cardinality(Stored) < config.maxObjects
  <2> DEFINE g == [q \in Clients |-> CHOOSE f \in Files \cup {None} :
                                         f \in parts'[q] \/ parts'[q] = {}]
             T == {g[q] : q \in Clients}
  <2>1. g \in Surjection(Clients, T)
    BY DEF Surjection
  <2>2. IsFiniteSet(T) /\ Cardinality(T) <= Cardinality(Clients)
    BY <2>1, UploadAssumption, FS_Surjection
  <2>3. InFlight' \subseteq T
    <3>1. SUFFICES ASSUME NEW f \in InFlight'
                   PROVE  f \in T
      OBVIOUS
    <3>2. PICK q \in Clients : f \in todo[q]
      BY <1>1 DEF InFlight
    <3>3. f \in parts'[q] /\ f \in Files
      BY <1>1, <3>2 DEF PartsInv, TypeOK
    <3>4. g[q] \in parts'[q]
      BY <3>3
    <3>5. g[q] = f
      BY <1>1, <1>2, <3>3, <3>4 DEF OneFileEach
    <3>6. QED
      BY <3>5
  <2> HIDE DEF g, T
  <2>4. /\ IsFiniteSet(Stored \cup T)
        /\ Cardinality(Stored \cup T)
               = Cardinality(Stored) + Cardinality(T)
                     - Cardinality(Stored \cap T)
    BY <2>2, ClaimFinite, FS_Union
  <2>5. Cardinality(Stored \cap T) \in Nat /\ Cardinality(T) \in Nat
    <3>1. Stored \cap T \in SUBSET T
      OBVIOUS
    <3>2. IsFiniteSet(Stored \cap T)
      BY <2>2, <3>1, FS_Subset
    <3>3. QED
      BY <2>2, <3>2, FS_CardinalityType
  <2>6. Claimed' \in SUBSET (Stored \cup T)
    BY <1>3, <2>3 DEF Claimed
  <2>7. /\ Cardinality(Claimed') <= Cardinality(Stored \cup T)
        /\ Cardinality(Claimed') \in Nat
    BY <2>4, <2>6, FS_Subset, FS_CardinalityType
  <2>8. QED
    BY <1>2, <1>5, <2>2, <2>4, <2>5, <2>7, ClaimFinite
<1>6. Cardinality(Stored) < config.maxObjects
        \/ (config.overwrite /\ parts[p] \subseteq Stored)
  BY <1>2, ClaimFinite DEF LimitReached
<1>7. QED
  BY <1>2, <1>4, <1>5, <1>6

LEMMA AnswerCalm ==
  ASSUME TypeOK, OneFileEach, NEW p \in Clients, Answer(p)
  PROVE  /\ OneFileEach'
         /\ UNCHANGED storage => Calm(p)
         /\ pc'[p] \notin Busy
         /\ \A q \in Clients \ {p} : pc'[q] = pc[q] /\ todo'[q] = todo[q]
BY DEF TypeOK, OneFileEach, Answer, Goto, Calm, Busy

LEMMA RefusedCalm ==
  ASSUME TypeOK, OneFileEach, NEW p \in Clients, FileRefused(p),
         \A f \in Files : storage'[f] # Absent => storage[f] # Absent
  PROVE  OneFileEach' /\ Calm(p)
<1>1. CASE done[p] = {}
  BY <1>1, AnswerCalm DEF FileRefused, Calm
<1>2. CASE done[p] # {}
  BY <1>2 DEF TypeOK, OneFileEach, FileRefused, Goto, Calm, Busy, reqVars
<1>3. QED
  BY <1>1, <1>2

LEMMA StoredCalm ==
  ASSUME TypeOK, OneFileEach, NEW p \in Clients, NEW f \in todo[p],
         pc[p] \in Busy, PutObject(p, f), FileStored(p, f)
  PROVE  OneFileEach' /\ Calm(p)
<1>1. \A g \in Files : g # f => storage'[g] = storage[g]
  BY DEF PutObject, TypeOK
<1>2. CASE route[p] = "prov"
  BY <1>1, <1>2, AnswerCalm DEF FileStored, Calm
<1>3. CASE route[p] # "prov"
  BY <1>1, <1>3 DEF TypeOK, OneFileEach, FileStored, Goto, Calm, Busy, reqVars
<1>4. QED
  BY <1>2, <1>3

LEMMA ClaimStep ==
  ASSUME TypeOK, PartsInv, ClaimInv, [Next]_vars
  PROVE  ClaimInv'
<1>0. UNCHANGED config /\ \A v \in config.versions : v \in Versions
  BY UploadAssumption
     DEF TypeOK, Config, Next, Request, Check, Store, PostPackage,
         PostProvenanceFile, PostPackageAndProvenance, Begin, DeletePackage,
         FileExists, FileIsNew, CheckStorageLimit, CheckStorageLimitFails,
         Put, PutProvenanceWithLimit, Undo, CountVersions, WriteWithLimit,
         DeleteProvenance, Evict, EvictUnreadable, EvictFails, EmitEvent,
         EmitEviction, GetIndexFile, vars
<1> SUFFICES ASSUME Counted
             PROVE  ClaimInv'
  BY <1>0 DEF ClaimInv, Counted
<1>a. OneFileEach
  BY DEF ClaimInv
<1>b. ASSUME NEW p \in Clients, OneFileEach', Calm(p)
      PROVE  ClaimInv'
  BY <1>0, <1>b, CalmStep
<1>c. config.maxObjects > 0
  BY DEF Counted
<1> USE DEF Busy
<1>1. ASSUME NEW p \in Clients, NEW v \in config.versions, PostPackage(p, v)
      PROVE  ClaimInv'
  <2>1. OneFileEach'
    BY <1>1, <1>a DEF PostPackage, Begin, OneFileEach, TypeOK
  <2>2. Calm(p)
    BY <1>1 DEF PostPackage, Begin, Goto, Calm, TypeOK, diskVars
  <2>3. QED
    BY <1>b, <2>1, <2>2
<1>2. ASSUME NEW p \in Clients, NEW v \in config.versions,
             PostProvenanceFile(p, v)
      PROVE  ClaimInv'
  <2>1. OneFileEach'
    BY <1>2, <1>a DEF PostProvenanceFile, Begin, OneFileEach, TypeOK
  <2>2. Calm(p)
    BY <1>2, <1>c
       DEF PostProvenanceFile, Begin, Goto, Calm, TypeOK, diskVars, Checked
  <2>3. QED
    BY <1>b, <2>1, <2>2
<1>3. ASSUME NEW p \in Clients, NEW v \in config.versions,
             PostPackageAndProvenance(p, v)
      PROVE  ClaimInv'
  BY <1>3 DEF PostPackageAndProvenance, Begin, Counted
<1>4. ASSUME NEW p \in Clients, NEW v \in config.versions,
             DeletePackage(p, v)
      PROVE  ClaimInv'
  <2>1. OneFileEach'
    BY <1>4, <1>a DEF DeletePackage, OneFileEach, TypeOK
  <2>2. Calm(p)
    BY <1>4 DEF DeletePackage, DeleteObject, Goto, Calm, TypeOK
  <2>3. QED
    BY <1>b, <2>1, <2>2
<1>5. ASSUME NEW p \in Clients, FileExists(p)
      PROVE  ClaimInv'
  <2>1. CASE config.overwrite
    <3>1. OneFileEach'
      BY <1>5, <1>a, <2>1 DEF FileExists, OneFileEach
    <3>2. Calm(p)
      BY <1>5, <1>a, <1>c, <2>1
         DEF FileExists, Goto, Checked, Calm, TypeOK, diskVars, OneFileEach
    <3>3. QED
      BY <1>b, <3>1, <3>2
  <2>2. CASE ~config.overwrite
    BY <1>5, <1>a, <1>b, <2>2, AnswerCalm DEF FileExists, diskVars
  <2>3. QED
    BY <2>1, <2>2
<1>6. ASSUME NEW p \in Clients, FileIsNew(p)
      PROVE  ClaimInv'
  <2>1. OneFileEach'
    BY <1>6, <1>a DEF FileIsNew, OneFileEach, reqVars
  <2>2. Calm(p)
    BY <1>6, <1>a, <1>c
       DEF FileIsNew, Goto, Checked, Calm, TypeOK, diskVars, OneFileEach
  <2>3. QED
    BY <1>b, <2>1, <2>2
<1>7. ASSUME NEW p \in Clients, CheckStorageLimit(p)
      PROVE  ClaimInv'
  <2>1. CASE LimitReached(p)
    BY <1>7, <1>a, <1>b, <2>1, AnswerCalm DEF CheckStorageLimit, diskVars
  <2>2. CASE ~LimitReached(p)
    BY <1>7, <2>2, PassStep
  <2>3. QED
    BY <2>1, <2>2
<1>8. ASSUME NEW p \in Clients, CheckStorageLimitFails(p)
      PROVE  ClaimInv'
  BY <1>8, <1>a, <1>b, AnswerCalm DEF CheckStorageLimitFails, diskVars
<1>9. ASSUME NEW p \in Clients, NEW f \in todo[p], Put(p, f)
      PROVE  ClaimInv'
  <2>1. CASE PutObject(p, f) /\ FileStored(p, f)
    BY <1>9, <1>a, <1>b, <2>1, StoredCalm DEF Put
  <2>2. CASE FileRefused(p) /\ UNCHANGED diskVars
    BY <1>a, <1>b, <2>2, RefusedCalm DEF diskVars
  <2>3. QED
    BY <1>9, <2>1, <2>2 DEF Put
<1>10. ASSUME NEW p \in Clients, NEW f \in todo[p],
              PutProvenanceWithLimit(p, f)
       PROVE  ClaimInv'
  BY <1>10, <1>a, <1>b, RefusedCalm DEF PutProvenanceWithLimit, diskVars
<1>11. ASSUME NEW p \in Clients, NEW f \in todo[p], Undo(p, f)
       PROVE  ClaimInv'
  <2>1. OneFileEach'
    BY <1>11, <1>a DEF Undo, OneFileEach, reqVars
  <2>2. \A g \in Files : storage'[g] # Absent => storage[g] # Absent
    BY <1>11 DEF Undo, DeleteObject, TypeOK, diskVars
  <2>3. Calm(p)
    BY <1>11, <2>2 DEF Undo, Goto, Calm, TypeOK
  <2>4. QED
    BY <1>b, <2>1, <2>3
<1>12. ASSUME NEW p \in Clients, NEW v \in config.versions,
              CountVersions(p, v)
       PROVE  ClaimInv'
  <2>0. UNCHANGED storage /\ pc[p] = "put"
    BY <1>12 DEF CountVersions, diskVars
  <2>1. CASE FileRefused(p)
    BY <1>a, <1>b, <2>0, <2>1, RefusedCalm
  <2>2. CASE ~FileRefused(p)
    <3>1. UNCHANGED <<reqVars, todo, done>>
      BY <1>12, <2>2 DEF CountVersions
    <3>2. OneFileEach'
      BY <1>a, <3>1 DEF OneFileEach, reqVars
    <3>3. \A q \in Clients \ {p} : pc'[q] = pc[q]
      BY <1>12, <2>2 DEF CountVersions, Goto, TypeOK
    <3>4. Calm(p)
      BY <2>0, <3>1, <3>3 DEF Calm
    <3>5. QED
      BY <1>b, <3>2, <3>4
  <2>3. QED
    BY <2>1, <2>2
<1>13. ASSUME NEW p \in Clients, NEW v \in config.versions,
              WriteWithLimit(p, v)
       PROVE  ClaimInv'
  <2>1. CASE PutObject(p, Package(v)) /\ FileStored(p, Package(v))
    BY <1>13, <1>a, <1>b, <2>1, StoredCalm DEF WriteWithLimit
  <2>2. CASE FileRefused(p) /\ UNCHANGED diskVars
    BY <1>a, <1>b, <2>2, RefusedCalm DEF diskVars
  <2>3. QED
    BY <1>13, <2>1, <2>2 DEF WriteWithLimit
<1>14. ASSUME NEW p \in Clients, NEW v \in config.versions,
              DeleteProvenance(p, v)
       PROVE  ClaimInv'
  <2>1. OneFileEach'
    BY <1>14, <1>a DEF DeleteProvenance, OneFileEach, reqVars
  <2>2. \A g \in Files : storage'[g] # Absent => storage[g] # Absent
    BY <1>14 DEF DeleteProvenance, DeleteObject, TypeOK, diskVars
  <2>3. Calm(p)
    BY <1>14, <2>2 DEF DeleteProvenance, Goto, Calm, TypeOK, fileVars
  <2>4. QED
    BY <1>b, <2>1, <2>3
<1>15. ASSUME NEW p \in Clients, Evict(p)
       PROVE  ClaimInv'
  <2>1. OneFileEach'
    BY <1>15, <1>a DEF Evict, OneFileEach, reqVars
  <2>2. \A g \in Files : storage'[g] # Absent => storage[g] # Absent
    BY <1>15 DEF Evict, DeleteObject, TypeOK
  <2>3. Calm(p)
    BY <1>15, <2>2 DEF Evict, Goto, Calm, TypeOK, fileVars
  <2>4. QED
    BY <1>b, <2>1, <2>3
<1>u. ASSUME NEW p \in Clients, EvictUnreadable(p)
      PROVE  ClaimInv'
  <2>1. \A g \in Files : storage'[g] # Absent => storage[g] # Absent
    BY <1>u DEF EvictUnreadable, DeleteObject, TypeOK
  <2>2. QED
    BY <1>u, <1>a, <1>b, <2>1, RefusedCalm DEF EvictUnreadable
<1>16. ASSUME NEW p \in Clients, EvictFails(p)
       PROVE  ClaimInv'
  BY <1>16, <1>a, <1>b, RefusedCalm DEF EvictFails, diskVars
<1>17. ASSUME NEW p \in Clients, EmitEvent(p)
       PROVE  ClaimInv'
  BY <1>17, <1>a, <1>b, AnswerCalm DEF EmitEvent, diskVars
<1>18. ASSUME UNCHANGED <<config, storage, pc, route, parts, todo>>
       PROVE  ClaimInv'
  BY <1>18 DEF ClaimInv, Counted, OneFileEach, Claimed, Stored, InFlight
<1>19. ASSUME NEW v \in Versions, EmitEviction(v)
       PROVE  ClaimInv'
  BY <1>18, <1>19 DEF EmitEviction, diskVars, reqVars, fileVars
<1>g. CASE GetIndexFile
  BY <1>18, <1>g DEF GetIndexFile, diskVars, reqVars, fileVars
<1>20. CASE UNCHANGED vars
  BY <1>18, <1>20 DEF vars, diskVars, reqVars, fileVars
<1>21. QED
  BY <1>1, <1>2, <1>3, <1>4, <1>5, <1>6, <1>7, <1>8, <1>9, <1>10, <1>11,
     <1>12, <1>13, <1>14, <1>15, <1>16, <1>17, <1>19, <1>20,
     <1>u, <1>g DEF Next, Request, Check, Store

LEMMA ClaimInit == Init => ClaimInv
<1> SUFFICES ASSUME Init, Counted
             PROVE  ClaimInv
  BY DEF ClaimInv
<1>1. OneFileEach /\ Claimed = {}
  BY DEF Init, OneFileEach, Claimed, Stored, InFlight, Busy
<1>2. Cardinality(Claimed) = 0 /\ config.maxObjects \in Nat
  BY <1>1, FS_EmptySet, UploadAssumption DEF Init, Config
<1>3. QED
  BY <1>1, <1>2, ClaimFinite DEF ClaimInv, Counted

(* Uploads that run at once exceed --max-storage-objects by less than one  *)
(* file for each of them.                                                  *)
THEOREM Overshoot == Spec => []OvershootBounded
<1>1. Init => TypeOK /\ PartsInv /\ ClaimInv
  BY TypeInit, PartsInit, ClaimInit
<1>2. TypeOK /\ PartsInv /\ ClaimInv /\ [Next]_vars
          => (TypeOK /\ PartsInv /\ ClaimInv)'
  BY TypeStep, PartsStep, ClaimStep
<1>3. TypeOK /\ ClaimInv => OvershootBounded
  <2>1. SUFFICES ASSUME TypeOK, ClaimInv, Counted
                 PROVE  Cardinality(Stored)
                            < config.maxObjects + Cardinality(Clients)
    BY DEF OvershootBounded, Counted
  <2>2. Cardinality(Claimed) < config.maxObjects + Cardinality(Clients)
    BY <2>1 DEF ClaimInv
  <2>3. Cardinality(Stored) <= Cardinality(Claimed)
    BY ClaimFinite, FS_Subset DEF Claimed
  <2>4. config.maxObjects \in Nat
    BY <2>1, UploadAssumption DEF TypeOK, Config
  <2>5. QED
    BY <2>2, <2>3, <2>4, ClaimFinite
<1>4. QED
  BY <1>1, <1>2, <1>3, PTL DEF Spec
-----------------------------------------------------------------------------
(* Failures so far that a clean-up has not been one of.                    *)
Excused == faults = 0 \/ (config.chartLimit = 0 /\ faults = 1)

(* While a form's clean-up has met no failure, what it is through with is  *)
(* not the form's any more; without --per-chart-limit nothing is evicted,  *)
(* so that it has begun with a failing call and one more would be its own. *)
CleanUp(p) ==
    /\ pc[p] = "undo" =>
           /\ config.chartLimit = 0 => faults > 0
           /\ Excused => \A f \in done[p] \ todo[p] : storage[f].by # p
    /\ pc[p] = "failed" /\ Excused => \A f \in done[p] : storage[f].by # p
    /\ pc[p] = "evict" => config.chartLimit > 0

CleanUpInv == \A p \in Clients : CleanUp(p)

(* A step of q that changes nothing of the other requests, and files as q  *)
(* does: they become q's form's or nobody's.                               *)
StepOf(q) ==
    /\ UNCHANGED config
    /\ faults' = faults \/ Fault
    /\ \A p \in Clients \ {q} : /\ pc'[p] = pc[p]
                                /\ todo'[p] = todo[p]
                                /\ done'[p] = done[p]
    /\ \A f \in Files :
           storage'[f] = storage[f] \/ storage'[f].by \in {q, Nobody}

LEMMA CleanUpKept ==
  ASSUME TypeOK, CleanUpInv, NEW q \in Clients, StepOf(q), CleanUp(q)'
  PROVE  CleanUpInv'
<1> SUFFICES ASSUME NEW p \in Clients, p # q
             PROVE  CleanUp(p)'
  BY DEF CleanUpInv
<1>1. UNCHANGED <<config, pc[p], todo[p], done[p]>>
  BY DEF StepOf
<1>2. (Excused' => Excused) /\ (faults > 0 => faults' > 0)
  BY DEF StepOf, Excused, Fault, TypeOK
<1>3. ASSUME NEW f \in done[p], storage[f].by # p
      PROVE  storage'[f].by # p
  BY <1>3, UploadAssumption DEF StepOf, TypeOK
<1>4. CleanUp(p)
  BY DEF CleanUpInv
<1>5. QED
  BY <1>1, <1>2, <1>3, <1>4 DEF CleanUp

(* Requests that are not cleaning up owe nothing.                          *)
LEMMA CleanUpElsewhere ==
  ASSUME TypeOK, CleanUpInv, NEW q \in Clients, StepOf(q),
         pc'[q] \notin {"undo", "failed", "evict"}
  PROVE  CleanUpInv'
BY CleanUpKept DEF CleanUp

LEMMA AnswerOf ==
  ASSUME TypeOK, NEW p \in Clients, Answer(p)
  PROVE  /\ pc'[p] \notin {"undo", "failed", "evict"}
         /\ \A q \in Clients \ {p} : /\ pc'[q] = pc[q]
                                     /\ todo'[q] = todo[q]
                                     /\ done'[q] = done[q]
BY DEF TypeOK, Answer, Goto

LEMMA PutOf ==
  ASSUME TypeOK, NEW p \in Clients, NEW f \in Files, PutObject(p, f)
  PROVE  \A g \in Files :
             storage'[g] = storage[g] \/ storage'[g].by \in {p, Nobody}
BY DEF TypeOK, PutObject, Owner

LEMMA DeleteOf ==
  ASSUME TypeOK, NEW f \in Files, DeleteObject(f)
  PROVE  \A g \in Files :
             storage'[g] = storage[g] \/ storage'[g].by = Nobody
BY DEF TypeOK, DeleteObject, Absent

(* A form that is refused has everything to clean up still.                *)
LEMMA CleanUpBegins ==
  ASSUME TypeOK, CleanUpInv, NEW p \in Clients, FileRefused(p),
         UNCHANGED config, faults' = faults \/ Fault,
         \A f \in Files :
             storage'[f] = storage[f] \/ storage'[f].by = Nobody,
         config.chartLimit = 0 => Fault
  PROVE  CleanUpInv'
<1>1. CASE done[p] = {}
  BY <1>1, AnswerOf, CleanUpElsewhere DEF FileRefused, StepOf
<1>2. CASE done[p] # {}
  <2>1. StepOf(p)
    BY <1>2 DEF TypeOK, FileRefused, Goto, StepOf
  <2>2. pc'[p] = "undo" /\ todo'[p] = done'[p]
    BY <1>2 DEF TypeOK, FileRefused, Goto
  <2>3. config'.chartLimit = 0 => faults' > 0
    BY DEF Fault, TypeOK
  <2>4. CleanUp(p)'
    BY <2>2, <2>3 DEF CleanUp
  <2>5. QED
    BY <2>1, <2>4, CleanUpKept
<1>3. QED
  BY <1>1, <1>2

LEMMA CleanUpStored ==
  ASSUME TypeOK, CleanUpInv, NEW p \in Clients, NEW f \in Files,
         PutObject(p, f), FileStored(p, f), UNCHANGED <<config, faults>>
  PROVE  CleanUpInv'
<1>1. CASE route[p] = "prov"
  BY <1>1, AnswerOf, PutOf, CleanUpElsewhere DEF FileStored, StepOf
<1>2. CASE route[p] # "prov"
  <2>1. pc'[p] \notin {"undo", "failed", "evict"}
    BY <1>2 DEF TypeOK, FileStored, Goto
  <2>2. \A q \in Clients \ {p} : /\ pc'[q] = pc[q]
                                 /\ todo'[q] = todo[q]
                                 /\ done'[q] = done[q]
    BY <1>2 DEF TypeOK, FileStored, Goto
  <2>3. QED
    BY <2>1, <2>2, PutOf, CleanUpElsewhere DEF StepOf
<1>3. QED
  BY <1>1, <1>2

(* At depth 0 every call of a clean-up that does not fail deletes a file.  *)
LEMMA CleanUpGoesOn ==
  ASSUME TypeOK, CleanUpInv, ~config.nested,
         NEW p \in Clients, NEW f \in todo[p], Undo(p, f)
  PROVE  CleanUpInv'
<1>0. f \in Files
  BY DEF TypeOK
<1>1. /\ pc[p] = "undo"
      /\ todo'[p] = todo[p] \ {f}
      /\ UNCHANGED <<config, done>>
      /\ pc'[p] = IF todo[p] = {f} THEN "failed" ELSE "undo"
      /\ \A q \in Clients \ {p} : pc'[q] = pc[q] /\ todo'[q] = todo[q]
  BY DEF Undo, Goto, TypeOK
<1>2. CASE Fault /\ UNCHANGED diskVars
  <2>1. StepOf(p)
    BY <1>1, <1>2 DEF StepOf, diskVars
  <2>2. config.chartLimit = 0 => faults > 0
    BY <1>1 DEF CleanUpInv, CleanUp
  <2>3. ~Excused' /\ faults' > 0
    BY <1>1, <1>2, <2>2 DEF Excused, Fault, TypeOK
  <2>4. CleanUp(p)'
    BY <1>1, <2>3 DEF CleanUp
  <2>5. QED
    BY <2>1, <2>4, CleanUpKept
<1>3. CASE UNCHANGED faults /\ DeleteObject(f)
  <2>1. StepOf(p)
    BY <1>0, <1>1, <1>3, DeleteOf DEF StepOf
  <2>2. CleanUp(p)
    BY DEF CleanUpInv
  <2>3. Excused' = Excused
    BY <1>1, <1>3 DEF Excused
  <2>4. ASSUME NEW g \in done[p], g = f \/ storage[g].by # p
        PROVE  storage'[g].by # p
    BY <1>3, <2>4, UploadAssumption DEF DeleteObject, TypeOK, Absent
  <2>5. CleanUp(p)'
    BY <1>1, <1>3, <2>2, <2>3, <2>4 DEF CleanUp
  <2>6. QED
    BY <2>1, <2>5, CleanUpKept
<1>4. QED
  BY <1>2, <1>3 DEF Undo

LEMMA CleanUpStep ==
  ASSUME TypeOK, CleanUpInv, ~config.nested, [Next]_vars
  PROVE  CleanUpInv'
<1>0. \A v \in config.versions : v \in Versions
  BY UploadAssumption DEF TypeOK, Config
<1>q. ASSUME NEW p \in Clients, StepOf(p),
             pc'[p] \notin {"undo", "failed", "evict"}
      PROVE  CleanUpInv'
  BY <1>q, CleanUpElsewhere
<1>s. ASSUME UNCHANGED <<config, storage, faults, pc, todo, done>>
      PROVE  CleanUpInv'
  BY <1>s DEF CleanUpInv, CleanUp, Excused
<1>a. ASSUME NEW p \in Clients, Answer(p), UNCHANGED <<config, storage>>,
             faults' = faults \/ Fault
      PROVE  CleanUpInv'
  BY <1>a, <1>q, AnswerOf DEF StepOf
<1>b. ASSUME NEW p \in Clients, NEW r, NEW files,
             NEW label \in Labels \ {"undo", "failed", "evict"},
             Begin(p, r, files, label)
      PROVE  CleanUpInv'
  BY <1>b, <1>q DEF Begin, Goto, StepOf, TypeOK, diskVars
<1>l. /\ "exists" \in Labels \ {"undo", "failed", "evict"}
      /\ \A r : Checked(r) \in Labels \ {"undo", "failed", "evict"}
  BY DEF Labels, Rest, Checked
<1>1. ASSUME NEW p \in Clients, NEW v \in config.versions, PostPackage(p, v)
      PROVE  CleanUpInv'
  BY <1>1, <1>b, <1>l DEF PostPackage
<1>2. ASSUME NEW p \in Clients, NEW v \in config.versions,
             PostProvenanceFile(p, v)
      PROVE  CleanUpInv'
  <2> DEFINE label == IF config.overwrite THEN Checked("prov") ELSE "exists"
  <2>1. label \in Labels \ {"undo", "failed", "evict"}
    BY <1>l
  <2>2. Begin(p, "prov", {Provenance(v)}, label)
    BY <1>2 DEF PostProvenanceFile
  <2> HIDE DEF label
  <2>3. QED
    BY <1>b, <2>1, <2>2
<1>3. ASSUME NEW p \in Clients, NEW v \in config.versions,
             PostPackageAndProvenance(p, v)
      PROVE  CleanUpInv'
  BY <1>3, <1>b, <1>l DEF PostPackageAndProvenance
<1>4. ASSUME NEW p \in Clients, NEW v \in config.versions,
             DeletePackage(p, v)
      PROVE  CleanUpInv'
  <2>1. /\ pc'[p] = "deleteProv"
        /\ \A q \in Clients \ {p} : /\ pc'[q] = pc[q]
                                    /\ todo'[q] = todo[q]
                                    /\ done'[q] = done[q]
    BY <1>4 DEF DeletePackage, Goto, TypeOK
  <2>2. StepOf(p)
    BY <1>0, <1>4, <2>1, FileTypes, DeleteOf DEF DeletePackage, StepOf
  <2>3. QED
    BY <1>q, <2>1, <2>2
<1>5. ASSUME NEW p \in Clients, FileExists(p)
      PROVE  CleanUpInv'
  <2>1. CASE config.overwrite
    <3>1. StepOf(p)
      BY <1>5, <2>1 DEF FileExists, Goto, StepOf, TypeOK, diskVars
    <3>2. pc'[p] \notin {"undo", "failed", "evict"}
      BY <1>5, <2>1, <1>l DEF FileExists, Goto, TypeOK
    <3>3. QED
      BY <1>q, <3>1, <3>2
  <2>2. CASE ~config.overwrite
    BY <1>5, <1>a, <2>2 DEF FileExists, diskVars
  <2>3. QED
    BY <2>1, <2>2
<1>6. ASSUME NEW p \in Clients, FileIsNew(p)
      PROVE  CleanUpInv'
  <2>1. StepOf(p)
    BY <1>6 DEF FileIsNew, Goto, StepOf, TypeOK, diskVars
  <2>2. pc'[p] \notin {"undo", "failed", "evict"}
    BY <1>6, <1>l DEF FileIsNew, Goto, TypeOK
  <2>3. QED
    BY <1>q, <2>1, <2>2
<1>7. ASSUME NEW p \in Clients, CheckStorageLimit(p)
      PROVE  CleanUpInv'
  <2>1. CASE LimitReached(p)
    BY <1>7, <1>a, <2>1 DEF CheckStorageLimit, diskVars
  <2>2. CASE ~LimitReached(p)
    BY <1>7, <1>q, <2>2
       DEF CheckStorageLimit, Goto, StepOf, TypeOK, diskVars, fileVars
  <2>3. QED
    BY <2>1, <2>2
<1>8. ASSUME NEW p \in Clients, CheckStorageLimitFails(p)
      PROVE  CleanUpInv'
  BY <1>8, <1>a DEF CheckStorageLimitFails, diskVars
<1>9. ASSUME NEW p \in Clients, NEW f \in todo[p], Put(p, f)
      PROVE  CleanUpInv'
  <2>1. f \in Files
    BY DEF TypeOK
  <2>2. CASE PutObject(p, f) /\ FileStored(p, f) /\ UNCHANGED faults
    BY <1>9, <2>1, <2>2, CleanUpStored DEF Put
  <2>3. CASE Fault /\ FileRefused(p) /\ UNCHANGED diskVars
    BY <1>9, <2>3, CleanUpBegins DEF Put, diskVars
  <2>4. QED
    BY <1>9, <2>2, <2>3 DEF Put
<1>10. ASSUME NEW p \in Clients, NEW f \in todo[p],
              PutProvenanceWithLimit(p, f)
       PROVE  CleanUpInv'
  <2>1. config.chartLimit # 0
    BY <1>10, UploadAssumption
       DEF PutProvenanceWithLimit, Limited, TypeOK, Config
  <2>2. QED
    BY <1>10, <2>1, CleanUpBegins DEF PutProvenanceWithLimit, diskVars
<1>11. ASSUME NEW p \in Clients, NEW f \in todo[p], Undo(p, f)
       PROVE  CleanUpInv'
  BY <1>11, CleanUpGoesOn
<1>12. ASSUME NEW p \in Clients, NEW v \in config.versions,
              CountVersions(p, v)
       PROVE  CleanUpInv'
  <2>1. CASE Fault /\ FileRefused(p)
    BY <1>12, <2>1, CleanUpBegins DEF CountVersions, diskVars
  <2>2. CASE /\ \/ Goto(p, "write")
                \/ Goto(p, "evict")
             /\ UNCHANGED <<faults, reqVars, todo, done>>
    <3>1. StepOf(p)
      BY <1>12, <2>2 DEF CountVersions, Goto, StepOf, TypeOK, diskVars
    <3>2. config'.chartLimit > 0
      BY <1>12, UploadAssumption DEF CountVersions, Limited
    <3>3. pc'[p] \notin {"undo", "failed"}
      BY <2>2 DEF Goto, TypeOK
    <3>4. QED
      BY <3>1, <3>2, <3>3, CleanUpKept DEF CleanUp
  <2>3. QED
    BY <1>12, <2>1, <2>2 DEF CountVersions
<1>13. ASSUME NEW p \in Clients, NEW v \in config.versions,
              WriteWithLimit(p, v)
       PROVE  CleanUpInv'
  <2>1. CASE /\ PutObject(p, Package(v)) /\ FileStored(p, Package(v))
             /\ UNCHANGED faults
    BY <1>0, <1>13, <2>1, FileTypes, CleanUpStored DEF WriteWithLimit
  <2>2. CASE Fault /\ FileRefused(p) /\ UNCHANGED diskVars
    BY <1>13, <2>2, CleanUpBegins DEF WriteWithLimit, diskVars
  <2>3. QED
    BY <1>13, <2>1, <2>2 DEF WriteWithLimit
<1>14. ASSUME NEW p \in Clients, NEW v \in config.versions,
              DeleteProvenance(p, v)
       PROVE  CleanUpInv'
  <2>1. \A g \in Files : storage'[g] = storage[g] \/ storage'[g].by = Nobody
    BY <1>0, <1>14, FileTypes, DeleteOf DEF DeleteProvenance, diskVars
  <2>2. StepOf(p)
    BY <1>14, <2>1 DEF DeleteProvenance, Goto, StepOf, TypeOK, fileVars
  <2>3. pc'[p] = "emit"
    BY <1>14 DEF DeleteProvenance, Goto, TypeOK
  <2>4. QED
    BY <1>q, <2>2, <2>3
<1>15. ASSUME NEW p \in Clients, Evict(p)
       PROVE  CleanUpInv'
  <2>1. Package(victim[p]) \in Files
    BY <1>15 DEF Evict, Stored
  <2>2. \A g \in Files : storage'[g] = storage[g] \/ storage'[g].by = Nobody
    BY <1>15, <2>1, DeleteOf DEF Evict
  <2>3. StepOf(p)
    BY <1>15, <2>2 DEF Evict, Goto, StepOf, TypeOK, fileVars
  <2>4. pc'[p] = "write"
    BY <1>15 DEF Evict, Goto, TypeOK
  <2>5. QED
    BY <1>q, <2>3, <2>4
<1>u. ASSUME NEW p \in Clients, EvictUnreadable(p)
      PROVE  CleanUpInv'
  <2>1. Package(victim[p]) \in Files
    BY <1>u DEF EvictUnreadable, Stored
  <2>2. \A g \in Files : storage'[g] = storage[g] \/ storage'[g].by = Nobody
    BY <1>u, <2>1, DeleteOf DEF EvictUnreadable
  <2>3. QED
    BY <1>u, <2>2, CleanUpBegins DEF EvictUnreadable
<1>16. ASSUME NEW p \in Clients, EvictFails(p)
       PROVE  CleanUpInv'
  <2>1. config.chartLimit # 0
    BY <1>16, UploadAssumption
       DEF EvictFails, CleanUpInv, CleanUp, TypeOK, Config
  <2>2. QED
    BY <1>16, <2>1, CleanUpBegins DEF EvictFails, diskVars
<1>17. ASSUME NEW p \in Clients, EmitEvent(p)
       PROVE  CleanUpInv'
  BY <1>17, <1>a DEF EmitEvent, diskVars
<1>18. ASSUME NEW v \in Versions, EmitEviction(v)
       PROVE  CleanUpInv'
  BY <1>18, <1>s DEF EmitEviction, diskVars, fileVars
<1>g. CASE GetIndexFile
  <2>1. faults' = faults \/ Fault
    BY <1>g DEF GetIndexFile
  <2>2. \A p \in Clients : CleanUp(p)'
    BY <1>g, <2>1
    DEF GetIndexFile, diskVars, fileVars, CleanUpInv, CleanUp, Excused,
        Fault, TypeOK
  <2>3. QED
    BY <2>2 DEF CleanUpInv
<1>19. CASE UNCHANGED vars
  BY <1>19, <1>s DEF vars, diskVars, fileVars
<1>20. QED
  BY <1>1, <1>2, <1>3, <1>4, <1>5, <1>6, <1>7, <1>8, <1>9, <1>10, <1>11,
     <1>12, <1>13, <1>14, <1>15, <1>16, <1>17, <1>18, <1>19,
     <1>u, <1>g DEF Next, Request, Check, Store

(* Of a form that failed nothing stays, where the clean-up looks for its   *)
(* files under the names they have: at depth 0.                            *)
THEOREM FormsLeaveNothing ==
  ASSUME \A c \in Configs : ~c.nested
  PROVE  Spec => []FailedFormLeavesNothing
<1>1. Init => TypeOK /\ CleanUpInv
  BY TypeInit DEF Init, CleanUpInv, CleanUp
<1>2. TypeOK /\ CleanUpInv /\ [Next]_vars => (TypeOK /\ CleanUpInv)'
  <2>1. TypeOK => ~config.nested
    BY DEF TypeOK
  <2>2. QED
    BY <2>1, TypeStep, CleanUpStep
<1>3. CleanUpInv => FailedFormLeavesNothing
  BY DEF CleanUpInv, CleanUp, Excused, FailedFormLeavesNothing
<1>4. QED
  BY <1>1, <1>2, <1>3, PTL DEF Spec
=============================================================================
