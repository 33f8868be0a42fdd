---------------------------- MODULE ChartUploads ----------------------------
(***************************************************************************)
(* The routes that change the storage of one tenant: uploads of a package, *)
(* of a provenance file or of both in a form, deletes, and the limits they *)
(* keep: --max-storage-objects and --per-chart-limit, which evicts the     *)
(* oldest version of a chart to make room (multitenant/api.go and          *)
(* handlers.go).                                                           *)
(*                                                                         *)
(* Each storage call is a step.  The index is the set of versions it       *)
(* lists; an event changes it when it is sent, since the listener applies  *)
(* events in the order they were sent, and a GET that scans storage does   *)
(* so in one step (IndexCache has all of them).                            *)
(***************************************************************************)
EXTENDS Naturals, FiniteSets

CONSTANTS Clients,   \* request goroutines
          Versions,  \* chart versions
          ChartOf,   \* ChartOf[v]: the name of v's chart
          Guessed,   \* Guessed[v]: the name read in v's file name
          Configs,   \* server configurations
          Nobody,    \* the mutex is free, or a file is not there
          None,      \* no version
          MaxTime,   \* bound: seconds of the clock
          MaxPending,  \* bound: events of evictions of one version
          MaxFaults  \* bound: failing storage calls

Routes == {"package", "prov", "form", "delete"}

Config == [chartLimit : Nat,         \* --per-chart-limit, 0 for none
           maxObjects : Nat,         \* --max-storage-objects, 0 for none
           overwrite : BOOLEAN,      \* the upload may replace a file
           nested : BOOLEAN,         \* the tenant is below depth 0
           customField : BOOLEAN,    \* forms use --chart-post-form-field-name
           routes : SUBSET Routes,   \* what the clients call
           versions : SUBSET Versions]  \* ... for these versions

ASSUME UploadAssumption ==
    /\ Configs \subseteq Config
    /\ Nobody \notin Clients
    /\ None \notin Versions
    /\ IsFiniteSet(Clients)
    /\ IsFiniteSet(Versions)
    /\ DOMAIN ChartOf = Versions
    /\ DOMAIN Guessed = Versions
    /\ {MaxTime, MaxPending, MaxFaults} \subseteq Nat

Package(v) == <<v, "tgz">>
Provenance(v) == <<v, "prov">>
Files == Versions \X {"tgz", "prov"}

VARIABLES config,     \* the server's configuration
          storage,    \* storage[f]: when f was put, (history) by whose form
          root,       \* files of the same names at the root of the storage
          now,        \* the clock, in seconds
          index,      \* versions the index lists
          evictions,  \* evictions[v]: goroutines about to emit v's eviction
          lock,       \* holder of ChartLimits
          faults,     \* failed storage calls so far
          pc,         \* where each request is
          route,      \* route[p]: what p's request is
          op,         \* op[p]: the event it will emit
          parts,      \* parts[p]: the files it brings
          todo,       \* todo[p]: those to check, to store, or to clean up
          done,       \* done[p]: those stored, or the package deleted
          victim      \* victim[p]: the version p evicts

diskVars  == <<storage, root, now>>
eventVars == <<index, evictions>>
reqVars   == <<route, op, parts>>
fileVars  == <<todo, done, victim>>
vars == <<config, diskVars, eventVars, lock, faults, pc, reqVars, fileVars>>

Absent == [at |-> 0, by |-> Nobody]

Stored == {f \in Files : storage[f] # Absent}

StoredVersions == {v \in Versions : Package(v) \in Stored}

Rest == {"idle", "failed"}

Labels == Rest \cup {"exists", "limit", "put", "evict", "write", "undo",
                    "deleteProv", "emit"}

TypeOK ==
    /\ config \in Configs
    /\ storage \in [Files -> [at : Nat, by : Clients \cup {Nobody}]]
    /\ root \in SUBSET Files
    /\ now \in Nat
    /\ index \in SUBSET Versions
    /\ evictions \in [Versions -> Nat]
    /\ lock \in Clients \cup {Nobody}
    /\ faults \in Nat
    /\ pc \in [Clients -> Labels]
    /\ route \in [Clients -> Routes]
    /\ op \in [Clients -> {"add", "update", "delete"}]
    /\ parts \in [Clients -> SUBSET Files]
    /\ todo \in [Clients -> SUBSET Files]
    /\ done \in [Clients -> SUBSET Files]
    /\ victim \in [Clients -> Versions \cup {None}]

Init ==
    /\ config \in Configs
    /\ storage = [f \in Files |-> Absent]
    /\ root = Files
    /\ now = 1
    /\ index = {}
    /\ evictions = [v \in Versions |-> 0]
    /\ lock = Nobody
    /\ faults = 0
    /\ pc = [p \in Clients |-> "idle"]
    /\ route = [p \in Clients |-> "package"]
    /\ op = [p \in Clients |-> "add"]
    /\ parts = [p \in Clients |-> {}]
    /\ todo = [p \in Clients |-> {}]
    /\ done = [p \in Clients |-> {}]
    /\ victim = [p \in Clients |-> None]
-----------------------------------------------------------------------------
Goto(p, label) == pc' = [pc EXCEPT ![p] = label]

(* A storage call fails.                                                   *)
Fault == faults < MaxFaults /\ faults' = faults + 1

Owner(p) == IF route[p] = "form" THEN p ELSE Nobody

(* PutObject; files put in one second are equally old.                     *)
PutObject(p, f) ==
    \E t \in {now, now + 1} :
        /\ t <= MaxTime
        /\ now' = t
        /\ storage' = [storage EXCEPT ![f] = [at |-> t, by |-> Owner(p)]]
        /\ UNCHANGED root

DeleteObject(f) ==
    /\ storage' = [storage EXCEPT ![f] = Absent]
    /\ UNCHANGED <<root, now>>

(* The request is over; its local variables do not matter any more.        *)
Answer(p) ==
    /\ Goto(p, "idle")
    /\ op' = [op EXCEPT ![p] = "add"]
    /\ parts' = [parts EXCEPT ![p] = {}]
    /\ todo' = [todo EXCEPT ![p] = {}]
    /\ done' = [done EXCEPT ![p] = {}]
    /\ victim' = [victim EXCEPT ![p] = None]
    /\ route' = [route EXCEPT ![p] = "package"]

Begin(p, r, files, label) ==
    /\ pc[p] \in Rest
    /\ r \in config.routes
    /\ Goto(p, label)
    /\ route' = [route EXCEPT ![p] = r]
    /\ op' = [op EXCEPT ![p] = "add"]
    /\ parts' = [parts EXCEPT ![p] = files]
    /\ todo' = [todo EXCEPT ![p] = files]
    /\ done' = [done EXCEPT ![p] = {}]
    /\ UNCHANGED <<config, diskVars, eventVars, lock, faults, victim>>

(* Uploads in a form go on without a look at --max-storage-objects.        *)
Checked(r) == IF r = "form" \/ config.maxObjects = 0 THEN "put" ELSE "limit"

PostPackage(p, v) == Begin(p, "package", {Package(v)}, "exists")

(* A server that overwrites does not look whether the file exists.         *)
PostProvenanceFile(p, v) ==
    Begin(p, "prov", {Provenance(v)},
          IF config.overwrite THEN Checked("prov") ELSE "exists")

(* A form has a chart, a provenance file, or both (of one version here).   *)
PostPackageAndProvenance(p, v) ==
    \E files \in SUBSET {Package(v), Provenance(v)} \ {{}} :
        Begin(p, "form", files, "exists")
-----------------------------------------------------------------------------
(* The form's chart is looked at before its provenance file.               *)
NextToCheck(p) ==
    CHOOSE f \in todo[p] :
        (\E g \in todo[p] : g[2] = "tgz") => f[2] = "tgz"

(* GetObject: a file that exists makes the upload a conflict, or an update *)
(* where overwriting is allowed; either way no other file is looked at.    *)
(* An error of storage is taken for the absence of the file.               *)
FileExists(p) ==
    /\ pc[p] = "exists"
    /\ NextToCheck(p) \in Stored
    /\ IF config.overwrite
       THEN /\ op' = [op EXCEPT ![p] = "update"]
            /\ todo' = [todo EXCEPT ![p] = parts[p]]
            /\ Goto(p, Checked(route[p]))
            /\ UNCHANGED <<route, parts, done, victim>>
       ELSE Answer(p)
    /\ UNCHANGED <<config, diskVars, eventVars, lock, faults>>

FileIsNew(p) ==
    LET left == todo[p] \ {NextToCheck(p)}
    IN  /\ pc[p] = "exists"
        /\ \/ NextToCheck(p) \notin Stored /\ UNCHANGED faults
           \/ Fault
        /\ IF left = {}
           THEN /\ todo' = [todo EXCEPT ![p] = parts[p]]
                /\ Goto(p, Checked(route[p]))
           ELSE /\ todo' = [todo EXCEPT ![p] = left]
                /\ UNCHANGED pc
        /\ UNCHANGED <<config, diskVars, eventVars, lock, reqVars, done,
                       victim>>

(* The count may reach the limit before an upload is refused.              *)
BrokenLimitReached(p) ==
    /\ Cardinality(Stored) > config.maxObjects
    /\ ~(config.overwrite /\ parts[p] \subseteq Stored)

(* An upload beyond the limit may still overwrite a file.                  *)
LimitReached(p) ==
    /\ Cardinality(Stored) >= config.maxObjects
    /\ ~(config.overwrite /\ parts[p] \subseteq Stored)

CheckStorageLimit(p) ==
    /\ pc[p] = "limit"
    /\ IF LimitReached(p)
       THEN Answer(p)
       ELSE Goto(p, "put") /\ UNCHANGED <<reqVars, fileVars>>
    /\ UNCHANGED <<config, diskVars, eventVars, lock, faults>>

CheckStorageLimitFails(p) ==
    /\ pc[p] = "limit"
    /\ Fault
    /\ Answer(p)
    /\ UNCHANGED <<config, diskVars, eventVars, lock>>
-----------------------------------------------------------------------------
(* A file was stored: the next one, the event, or the answer.  An upload   *)
(* of a provenance file emits none.                                        *)
FileStored(p, f) ==
    IF route[p] = "prov" THEN Answer(p)
    ELSE /\ done' = [done EXCEPT ![p] = @ \cup {f}]
         /\ todo' = [todo EXCEPT ![p] = @ \ {f}]
         /\ victim' = [victim EXCEPT ![p] = None]
         /\ Goto(p, IF todo[p] = {f} THEN "emit" ELSE "put")
         /\ UNCHANGED reqVars

(* A file was not stored: a form takes back the files stored before it.    *)
FileRefused(p) ==
    IF done[p] = {} THEN Answer(p)
    ELSE /\ todo' = [todo EXCEPT ![p] = done[p]]
         /\ victim' = [victim EXCEPT ![p] = None]
         /\ Goto(p, "undo")
         /\ UNCHANGED <<reqVars, done>>

(* Provenance files of their own route are not put with PutWithLimit.      *)
Limited(p) == config.chartLimit > 0 /\ route[p] # "prov"

(* PutObject without --per-chart-limit.  A form's files come in the order  *)
(* of a map, which is any.                                                 *)
Put(p, f) ==
    /\ pc[p] = "put"
    /\ ~Limited(p)
    /\ \/ PutObject(p, f) /\ FileStored(p, f) /\ UNCHANGED faults
       \/ Fault /\ FileRefused(p) /\ UNCHANGED diskVars
    /\ UNCHANGED <<config, eventVars, lock>>

(* extractFromChart finds no chart in a provenance file.                   *)
PutProvenanceWithLimit(p, f) ==
    /\ pc[p] = "put"
    /\ Limited(p)
    /\ f[2] = "prov"
    /\ FileRefused(p)
    /\ UNCHANGED <<config, diskVars, eventVars, lock, faults>>

(* PutWithLimit does not wait for the mutex.                               *)
BrokenFree == TRUE

Free == lock = Nobody

(* Stored versions whose file names seem to name v's chart.                *)
SameChart(v) == {w \in StoredVersions : Guessed[w] = ChartOf[v]}

(* The versions are sorted the other way.                                  *)
BrokenOldest(ws) ==
    {w \in ws : \A x \in ws :
        storage[Package(w)].at >= storage[Package(x)].at}

Oldest(ws) ==
    {w \in ws : \A x \in ws :
        storage[Package(w)].at <= storage[Package(x)].at}

(* PutWithLimit locks, lists and counts.  Of several oldest versions the   *)
(* sort may put any first.                                                 *)
CountVersions(p, v) ==
    /\ pc[p] = "put"
    /\ Limited(p)
    /\ Package(v) \in todo[p]
    /\ Free
    /\ \/ /\ lock' = p
          /\ IF Cardinality(SameChart(v)) < config.chartLimit
             THEN Goto(p, "write") /\ UNCHANGED victim
             ELSE /\ \E w \in Oldest(SameChart(v)) :
                         victim' = [victim EXCEPT ![p] = w]
                  /\ Goto(p, "evict")
          /\ UNCHANGED <<faults, reqVars, todo, done>>
       \/ Fault /\ FileRefused(p) /\ UNCHANGED lock
    /\ UNCHANGED <<config, diskVars, eventVars>>

(* GetObject and DeleteObject of the oldest version.  They fail when a     *)
(* delete came between; whether before or after GetObject is the same.     *)
Evict(p) ==
    /\ pc[p] = "evict"
    /\ Package(victim[p]) \in Stored
    /\ DeleteObject(Package(victim[p]))
    /\ Goto(p, "write")
    /\ UNCHANGED <<config, eventVars, lock, faults, reqVars, fileVars>>

(* That what was read is no chart is seen only after it was deleted.       *)
EvictUnreadable(p) ==
    /\ pc[p] = "evict"
    /\ Package(victim[p]) \in Stored
    /\ DeleteObject(Package(victim[p]))
    /\ Fault
    /\ lock' = Nobody
    /\ FileRefused(p)
    /\ UNCHANGED <<config, eventVars>>

EvictFails(p) ==
    /\ pc[p] = "evict"
    /\ \/ Package(victim[p]) \notin Stored /\ UNCHANGED faults
       \/ Fault
    /\ lock' = Nobody
    /\ FileRefused(p)
    /\ UNCHANGED <<config, diskVars, eventVars>>

(* The mutex is free when PutWithLimit returns.  The event of the evicted  *)
(* version is emitted by a goroutine of its own.                           *)
WriteWithLimit(p, v) ==
    /\ pc[p] = "write"
    /\ Package(v) \in todo[p]
    /\ lock' = Nobody
    /\ \/ /\ PutObject(p, Package(v))
          /\ \/ victim[p] = None /\ UNCHANGED evictions
             \/ /\ victim[p] # None
                /\ evictions[victim[p]] < MaxPending
                /\ evictions' = [evictions EXCEPT ![victim[p]] = @ + 1]
          /\ FileStored(p, Package(v))
          /\ UNCHANGED faults
       \/ Fault /\ FileRefused(p) /\ UNCHANGED <<diskVars, evictions>>
    /\ UNCHANGED <<config, index>>

(* A form takes back nothing.                                              *)
BrokenUndo(p, f) ==
    /\ pc[p] = "undo"
    /\ f \in todo[p]
    /\ todo' = [todo EXCEPT ![p] = @ \ {f}]
    /\ Goto(p, IF todo[p] = {f} THEN "failed" ELSE "undo")
    /\ UNCHANGED <<config, diskVars, eventVars, lock, faults, reqVars, done,
                   victim>>

(* The clean-up deletes a file of that name at the root of the storage,    *)
(* which is the tenant's own only at depth 0, and ignores errors.          *)
Undo(p, f) ==
    /\ pc[p] = "undo"
    /\ f \in todo[p]
    /\ \/ Fault /\ UNCHANGED diskVars
       \/ /\ UNCHANGED faults
          /\ IF config.nested
             THEN root' = root \ {f} /\ UNCHANGED <<storage, now>>
             ELSE DeleteObject(f)
    /\ todo' = [todo EXCEPT ![p] = @ \ {f}]
    /\ Goto(p, IF todo[p] = {f} THEN "failed" ELSE "undo")
    /\ UNCHANGED <<config, eventVars, lock, reqVars, done, victim>>
-----------------------------------------------------------------------------
(* deleteChartVersion; a package that cannot be deleted is a 404, which    *)
(* changes nothing.  Backends differ on whether one that is not there can. *)
DeletePackage(p, v) ==
    /\ pc[p] \in Rest
    /\ "delete" \in config.routes
    /\ DeleteObject(Package(v))
    /\ Goto(p, "deleteProv")
    /\ route' = [route EXCEPT ![p] = "delete"]
    /\ op' = [op EXCEPT ![p] = "delete"]
    /\ parts' = [parts EXCEPT ![p] = {Package(v)}]
    /\ todo' = [todo EXCEPT ![p] = {}]
    /\ done' = [done EXCEPT ![p] = {Package(v)}]
    /\ UNCHANGED <<config, eventVars, lock, faults, victim>>

(* Errors are ignored: there may be no provenance file.                    *)
DeleteProvenance(p, v) ==
    /\ pc[p] = "deleteProv"
    /\ Package(v) \in done[p]
    /\ \/ DeleteObject(Provenance(v)) /\ UNCHANGED faults
       \/ Fault /\ UNCHANGED diskVars
    /\ Goto(p, "emit")
    /\ UNCHANGED <<config, eventVars, lock, reqVars, fileVars>>

(* The versions the event names: one, or none when a form brought no chart *)
(* or brought it in a field of another name than "chart".                  *)
Announced(p) ==
    {v \in Versions : /\ Package(v) \in done[p]
                      /\ ~(route[p] = "form" /\ config.customField)}

(* emitEvent, and what the listener makes of it: a version that is updated *)
(* stays listed or unlisted.                                               *)
EmitEvent(p) ==
    /\ pc[p] = "emit"
    /\ index' = CASE op[p] = "add"    -> index \cup Announced(p)
                  [] op[p] = "update" -> index
                  [] op[p] = "delete" -> index \ Announced(p)
    /\ Answer(p)
    /\ UNCHANGED <<config, diskVars, evictions, lock, faults>>

(* go server.emitEvent(deleteChart) of PutWithLimit                        *)
EmitEviction(v) ==
    /\ evictions[v] > 0
    /\ evictions' = [evictions EXCEPT ![v] = @ - 1]
    /\ index' = index \ {v}
    /\ UNCHANGED <<config, diskVars, lock, faults, pc, reqVars, fileVars>>

(* A GET of an index without entries lists storage; a failing download     *)
(* leaves the entries as far as they got.                                  *)
GetIndexFile ==
    /\ index = {}
    /\ \/ index' = StoredVersions /\ UNCHANGED faults
       \/ Fault /\ index' \in SUBSET StoredVersions
    /\ UNCHANGED <<config, diskVars, evictions, lock, pc, reqVars, fileVars>>
-----------------------------------------------------------------------------
Request(p) ==
    \E v \in config.versions :
        \/ PostPackage(p, v)
        \/ PostProvenanceFile(p, v)
        \/ PostPackageAndProvenance(p, v)
        \/ DeletePackage(p, v)

Check(p) ==
    \/ FileExists(p)
    \/ FileIsNew(p)
    \/ CheckStorageLimit(p)
    \/ CheckStorageLimitFails(p)

Store(p) ==
    \/ \E f \in todo[p] : \/ Put(p, f)
                          \/ PutProvenanceWithLimit(p, f)
                          \/ Undo(p, f)
    \/ \E v \in config.versions : \/ CountVersions(p, v)
                                  \/ WriteWithLimit(p, v)
                                  \/ DeleteProvenance(p, v)
    \/ Evict(p)
    \/ EvictUnreadable(p)
    \/ EvictFails(p)

Next ==
    \/ \E p \in Clients : Request(p) \/ Check(p) \/ Store(p) \/ EmitEvent(p)
    \/ \E v \in Versions : EmitEviction(v)
    \/ GetIndexFile

Spec == Init /\ [][Next]_vars
-----------------------------------------------------------------------------
(* No chart ever has more stored versions than --per-chart-limit allows:   *)
(* the list PutWithLimit counted is not outdated by another upload before  *)
(* the file is stored, and failures half-way leave one version less.       *)
ChartLimitKept ==
    config.chartLimit > 0 =>
        \A v \in Versions :
            Cardinality({w \in StoredVersions : ChartOf[w] = ChartOf[v]})
                <= config.chartLimit

(* What is evicted is an oldest version of its chart still at the moment   *)
(* it is deleted, although it was chosen from a list taken before.         *)
EvictsOldest ==
    [][\A p \in Clients :
           Evict(p) \/ EvictUnreadable(p) =>
               \A v \in StoredVersions :
                   ChartOf[v] = ChartOf[victim[p]] =>
                       storage[Package(victim[p])].at
                           <= storage[Package(v)].at]_vars

(* checkStorageLimit counts and the put comes later, without a lock:       *)
(* uploads that run at once exceed --max-storage-objects, but by no more   *)
(* files than there are other uploads, over any number of uploads and      *)
(* deletes.  Forms, which do not count at all, are left aside.             *)
OvershootBounded ==
    config.maxObjects > 0 /\ "form" \notin config.routes =>
        Cardinality(Stored) < config.maxObjects + Cardinality(Clients)

(* "maximum number of objects allowed in storage" (vars.go).               *)
MaxObjectsKept ==
    config.maxObjects > 0 => Cardinality(Stored) <= config.maxObjects

(* "Clean up what's already been saved" (handlers.go): of a form that is   *)
(* answered with an error no file stays, unless the clean-up itself may    *)
(* have failed.  A provenance file is refused under --per-chart-limit      *)
(* without a failing storage call; elsewhere the first failure is what the *)
(* clean-up is for.                                                        *)
FailedFormLeavesNothing ==
    faults = 0 \/ (config.chartLimit = 0 /\ faults = 1) =>
        \A p \in Clients :
            pc[p] = "failed" => \A f \in done[p] : storage[f].by # p

(* "Undo transaction if there is an error" (handlers.go): a form that was  *)
(* to replace a file and failed leaves one of the files it brought, the    *)
(* one that made it an update.                                             *)
FailedUpdateKeepsFile ==
    \A p \in Clients :
        pc[p] = "failed" /\ op[p] = "update" => parts[p] \cap Stored # {}

(* "Both files can also be uploaded at once" (README.md): without a        *)
(* failing storage call no form is undone.                                 *)
OnlyFaultsUndo == faults = 0 => \A p \in Clients : pc[p] # "undo"

(* What a GET that comes next lists.                                       *)
Listed == IF index = {} THEN StoredVersions ELSE index

(* "index.yaml is dynamically generated based on packages found in         *)
(* storage" (README.md): when every request was answered and every event   *)
(* applied, a GET lists what is stored.                                    *)
IndexMatchesStorage ==
    /\ \A p \in Clients : pc[p] \in Rest
    /\ \A v \in Versions : evictions[v] = 0
    => Listed = StoredVersions
=============================================================================
