----------------------------- MODULE IndexCache -----------------------------
(***************************************************************************)
(* The repository index of one tenant of the multitenant server: the       *)
(* cached index.yaml, the requests that read it, the uploads and deletes   *)
(* that change storage and announce it with events, the event listener,    *)
(* the cache-interval timer, the statefile and restarts                    *)
(* (pkg/chartmuseum/server/multitenant: cache.go, index.go, api.go and     *)
(* handlers.go; pkg/repo/index.go).                                        *)
(*                                                                         *)
(* One replica with the internal cache and no storage limits, which are    *)
(* the defaults.  Every Index struct of a tenant shares one IndexFile (the *)
(* worker copies the pointer), so the chart entries are one variable while *)
(* the rendered bytes belong to each struct.  A stored package is a stamp: *)
(* the value of the write clock when it was put, which stands for both its *)
(* content (digest) and its LastModified time.                             *)
(***************************************************************************)
EXTENDS Naturals, FiniteSets, Sequences

CONSTANTS Charts,            \* chart versions, one package file each
          Invalid,           \* those whose file never holds a chart package
          InitialCharts,     \* packages in storage before the first start
          Clients,           \* request goroutines
          Refreshers,        \* goroutines a tick of the timer may start
          IndexIds,          \* addresses for Index structs
          Listener,          \* the event listener, as a holder of RepoLock
          Nobody,            \* RepoLock is free
          None,              \* no entry, no list, no statefile
          Failed,            \* a list that storage answered with an error
          AlwaysRegenerate,  \* --always-regenerate-chart-index
          CanOverwrite,      \* --allow-overwrite, or ?force allowed and given
          UseStatefiles,     \* not --disable-statefiles
          Primed,            \* depth 0: NewMultiTenantServer calls primeCache
          EventCap,          \* capacity of EventChan, which is --index-limit
          Tolerance,         \* --storage-timestamp-tolerance
          Manual,            \* storage is also changed behind the server
          Faults,            \* storage calls may fail
          DeletesAbsent,     \* storage deletes what it has not, as S3 does
          MaxWrites,         \* bound: packages put in storage, ever
          MaxRestarts        \* bound: crashes

Procs == Clients \cup Refreshers

ASSUME FlagAssumption ==
    {AlwaysRegenerate, CanOverwrite, UseStatefiles, Primed, Manual, Faults,
     DeletesAbsent} \subseteq BOOLEAN

ASSUME ProcAssumption ==
    /\ Clients \cap Refreshers = {}
    /\ {Listener, Nobody} \cap Procs = {}
    /\ Listener # Nobody

ASSUME DataAssumption ==
    /\ InitialCharts \subseteq Charts
    /\ Invalid \subseteq Charts
    /\ None # Failed
    /\ {None, Failed} \cap [Charts -> Nat] = {}
    /\ None \notin [digest : Nat, created : Nat]
    /\ None \notin
           [raw : [Charts -> [digest : Nat, created : Nat] \cup {None}],
            gen : Nat]

ASSUME BoundAssumption ==
    {EventCap, Tolerance, MaxWrites, MaxRestarts} \subseteq Nat

(* AddEntry looks for the version in the last five entries of its chart    *)
(* only; up to five versions a chart has no duplicate.                     *)
ASSUME AddEntryWindow == IsFiniteSet(Charts) /\ Cardinality(Charts) <= 5

(* Structs that can be in use at once: the current one, one per client and *)
(* the listener's; one more to publish.                                    *)
ASSUME IndexIdsAssumption ==
    /\ IndexIds \subseteq Nat
    /\ IsFiniteSet(Clients)
    /\ IsFiniteSet(IndexIds)
    /\ Cardinality(IndexIds) >= Cardinality(Clients) + 3

VARIABLES
    storage,    \* storage[c]: stamp of the stored package, 0 when absent
    clock,      \* stamp of the last package put
    statefile,  \* index-cache.yaml in storage
    saves,      \* contents held by running saveStatefile goroutines
    restarts,   \* crashes so far
    known,      \* the tenant is in server.Tenants
    entries,    \* IndexFile.Entries, shared by all Index structs
    heap,       \* heap[i]: Raw of struct i and the "generated" time in it
    repoIndex,  \* entry.RepoIndex
    torn,       \* the last regeneration gave up half-way (history)
    lock,       \* holder of entry.RepoLock
    waiters,    \* owners of tenant.FetchedObjectsChans
    events,     \* EventChan
    lpc, lreq, lptr,  \* listener: program counter, event, local "index"
    pc,         \* program counter of every request or refresh goroutine
    list,       \* list[p]: objects p listed, or received from the lister
    todo,       \* todo[p]: diff p is working through
    req,        \* req[p]: the event p's upload or delete will emit
    ptr,        \* ptr[p]: Index struct getIndexFile returned to p
    since       \* since[p]: "generated" time published when p's GET began

diskVars     == <<storage, clock, statefile>>
indexVars    == <<known, entries, heap, repoIndex, torn>>
listenerVars == <<events, lpc, lreq, lptr>>
procVars     == <<pc, list, todo, req, ptr, since>>
worldVars    == <<diskVars, saves, restarts>>
vars == <<worldVars, indexVars, lock, waiters, listenerVars, procVars>>
-----------------------------------------------------------------------------
(* Data.                                                                   *)

Stamp      == Nat
Version    == [digest : Stamp, created : Stamp]
EntryMap   == [Charts -> Version \cup {None}]
Snapshot   == [raw : EntryMap, gen : Nat]
ObjectList == [Charts -> Stamp]
Diffs      == [removed : SUBSET Charts, updated : SUBSET Charts,
               added : SUBSET Charts]
Event      == [op : {"update", "add", "delete"}, chart : Charts,
               digest : Stamp, created : Stamp]

Empty   == [c \in Charts |-> None]
NoDiff  == [removed |-> {}, updated |-> {}, added |-> {}]

Indexed(e) == {c \in Charts : e[c] # None}
Stored(s)  == {c \in Charts : s[c] # 0}

(* Definitions named Broken... are faults the properties are tried         *)
(* against: each stands in for the definition after it, one at a time.     *)

(* LastModified is not copied.                                             *)
BrokenChartVersion(stamp) == [digest |-> stamp, created |-> None]

(* The version a stored package is indexed as: its digest, and its         *)
(* LastModified as the creation time.                                      *)
ChartVersionFromStorageObject(stamp) == [digest |-> stamp, created |-> stamp]

(* Names are compared, and no dates.                                       *)
BrokenGetObjectSliceDiff(e, l) ==
    [removed |-> Indexed(e) \ Stored(l),
     updated |-> {},
     added   |-> Stored(l) \ Indexed(e)]

(* The storage library's GetObjectSliceDiff between the cached entries and *)
(* a list; an update is seen only beyond the timestamp tolerance.          *)
GetObjectSliceDiff(e, l) ==
    [removed |-> Indexed(e) \ Stored(l),
     updated |-> {c \in Indexed(e) \cap Stored(l) :
                     l[c] > e[c].created + Tolerance},
     added   |-> Stored(l) \ Indexed(e)]

(* An addition finds nothing to add to, an update is taken for a duplicate *)
(* and a removal misses.                                                   *)
BrokenAddEntry(e, c, v)    == IF e[c] = None THEN e ELSE [e EXCEPT ![c] = v]
BrokenUpdateEntry(e, c, v) == e
BrokenRemoveEntry(e, c)    == e

AddEntry(e, c, v)    == [e EXCEPT ![c] = v]
UpdateEntry(e, c, v) == IF e[c] = None THEN e ELSE [e EXCEPT ![c] = v]
RemoveEntry(e, c)    == [e EXCEPT ![c] = None]

(* Index.Regenerate: the bytes of the entries, dated now.                  *)
Regenerated(e) == [raw |-> e, gen |-> clock]

Saved(snap) == IF UseStatefiles THEN saves \cup {snap} ELSE saves
-----------------------------------------------------------------------------
(* Starting: newRepositoryIndex, then primeCache when the depth is 0.      *)

NewRepositoryIndex(sf) ==
    IF UseStatefiles /\ sf # None THEN sf ELSE Regenerated(Empty)

(* What a regeneration from storage s makes of entries e when nothing else *)
(* runs: the way getIndexFile behaves for primeCache.                      *)
Reconciled(e, s) ==
    [c \in Charts |->
        IF c \in GetObjectSliceDiff(e, s).removed THEN None
        ELSE IF c \in (GetObjectSliceDiff(e, s).updated
                          \cup GetObjectSliceDiff(e, s).added) \ Invalid
        THEN ChartVersionFromStorageObject(s[c])
        ELSE e[c]]

PrimeScans(e, s) ==
    /\ Primed
    /\ AlwaysRegenerate \/ Indexed(e) = {}
    /\ GetObjectSliceDiff(e, s) # NoDiff

(* The index the server starts from, given the statefile and the storage.  *)
Booted(sf, s) ==
    LET new == NewRepositoryIndex(sf)
    IN  IF PrimeScans(new.raw, s) THEN Regenerated(Reconciled(new.raw, s))
                                  ELSE new

Unused == [raw |-> Empty, gen |-> 0]

(* The address of the first struct, and of pointers that are not in use.   *)
Nowhere == CHOOSE i \in IndexIds : TRUE

(* All memory is gone and the index is built again, in one struct.         *)
FreshMemory(snap, primeSaves) ==
    /\ saves' = primeSaves
    /\ known' = Primed
    /\ entries' = snap.raw
    /\ heap' = [i \in IndexIds |-> IF i = Nowhere THEN snap ELSE Unused]
    /\ repoIndex' = Nowhere
    /\ torn' = FALSE
    /\ lock' = Nobody
    /\ waiters' = {}
    /\ events' = <<>>
    /\ lpc' = "receive"
    /\ lreq' = None
    /\ lptr' = Nowhere
    /\ pc' = [p \in Procs |-> "idle"]
    /\ list' = [p \in Procs |-> None]
    /\ todo' = [p \in Procs |-> NoDiff]
    /\ req' = [p \in Clients |-> None]
    /\ ptr' = [p \in Clients |-> Nowhere]
    /\ since' = [p \in Clients |-> 0]

Init ==
    /\ storage = [c \in Charts |-> IF c \in InitialCharts THEN 1 ELSE 0]
    /\ clock = 1
    /\ statefile = None
    /\ restarts = 0
    /\ LET snap == Booted(None, storage)
       IN  /\ saves = IF PrimeScans(Empty, storage) /\ UseStatefiles
                      THEN {snap} ELSE {}
           /\ known = Primed
           /\ entries = snap.raw
           /\ heap = [i \in IndexIds |-> IF i = Nowhere THEN snap ELSE Unused]
           /\ repoIndex = Nowhere
           /\ lptr = Nowhere
           /\ ptr = [p \in Clients |-> Nowhere]
    /\ torn = FALSE
    /\ lock = Nobody
    /\ waiters = {}
    /\ events = <<>>
    /\ lpc = "receive"
    /\ lreq = None
    /\ pc = [p \in Procs |-> "idle"]
    /\ list = [p \in Procs |-> None]
    /\ todo = [p \in Procs |-> NoDiff]
    /\ req = [p \in Clients |-> None]
    /\ since = [p \in Clients |-> 0]
-----------------------------------------------------------------------------
(* Index structs somebody points to.  The others are collected, so that    *)
(* their dead content does not tell states apart.                          *)

HeldBy(ps) ==
    {ptr[q] : q \in {r \in ps : pc[r] = "render"}}
      \cup (IF lpc \in {"apply", "install"} THEN {lptr} ELSE {})

Collect(h, live) == [i \in IndexIds |-> IF i \in live THEN h[i] ELSE Unused]

FreeIds == IndexIds \ (HeldBy(Clients) \cup {repoIndex})

(* A newly allocated struct becomes entry.RepoIndex.                       *)
Publish(snap) ==
    \E i \in FreeIds :
        /\ \A j \in FreeIds : i <= j
        /\ heap' = Collect([heap EXCEPT ![i] = snap],
                           HeldBy(Clients) \cup {i})
        /\ repoIndex' = i

Goto(p, label) == pc' = [pc EXCEPT ![p] = label]

(* RepoLock is not waited for.                                             *)
BrokenFree == TRUE

Free == lock = Nobody
-----------------------------------------------------------------------------
(* getChartList: one goroutine lists storage on behalf of all that ask     *)
(* while it does.                                                          *)

(* The slice is looked at before the channel is appended.                  *)
BrokenJoinFetch(p) ==
    /\ waiters' = waiters \cup {p}
    /\ Goto(p, IF waiters = {p} THEN "list" ELSE "wait")

(* Adding a channel to FetchedObjectsChans; the first one is the lister.   *)
JoinFetch(p) ==
    /\ waiters' = waiters \cup {p}
    /\ Goto(p, IF waiters = {} THEN "list" ELSE "wait")

(* fetchChartsInStorage, without the lock: ListObjects is one call.        *)
FetchChartsInStorage(p) ==
    /\ pc[p] = "list"
    /\ \/ list' = [list EXCEPT ![p] = storage]
       \/ Faults /\ list' = [list EXCEPT ![p] = Failed]
    /\ Goto(p, "flush")
    /\ UNCHANGED <<worldVars, indexVars, lock, waiters, listenerVars, todo,
                   req, ptr, since>>

(* The lister sends its answer to every channel, its own included, and     *)
(* empties the slice; the buffered channels make the receives immediate.   *)
FlushFetchers(p) ==
    /\ pc[p] = "flush"
    /\ list' = [q \in Procs |-> IF q \in waiters THEN list[p] ELSE list[q]]
    /\ pc' = [q \in Procs |-> IF q \in waiters THEN "diff" ELSE pc[q]]
    /\ waiters' = {}
    /\ UNCHANGED <<worldVars, indexVars, lock, listenerVars, todo, req, ptr,
                   since>>
-----------------------------------------------------------------------------
(* getIndexFile, for GET /index.yaml and for the API's read routes.        *)

(* initCacheEntry: the tenant and its entry exist from here on.            *)
GetIndexFileStart(p) ==
    /\ pc[p] = "idle"
    /\ known' = TRUE
    /\ since' = [since EXCEPT ![p] = heap[repoIndex].gen]
    /\ Goto(p, "lock")
    /\ UNCHANGED <<worldVars, entries, heap, repoIndex, torn, lock, waiters,
                   listenerVars, list, todo, req, ptr>>

(* The flag is not looked at.                                              *)
BrokenNeedsList == Indexed(entries) = {}

NeedsList == AlwaysRegenerate \/ Indexed(entries) = {}

(* Returning from getIndexFile: the index request will render the struct,  *)
(* an API request will read its entries, both after RepoLock is released.  *)
Answer(p) ==
    \/ Goto(p, "render") /\ ptr' = [ptr EXCEPT ![p] = repoIndex]
    \/ Goto(p, "marshal") /\ UNCHANGED ptr

GetIndexFileFast(p) ==
    /\ pc[p] = "lock"
    /\ Free
    /\ ~NeedsList
    /\ Answer(p)
    /\ UNCHANGED <<worldVars, indexVars, lock, waiters, listenerVars, list,
                   todo, req, since>>

GetIndexFileLock(p) ==
    /\ pc[p] = "lock"
    /\ Free
    /\ NeedsList
    /\ lock' = p
    /\ JoinFetch(p)
    /\ UNCHANGED <<worldVars, indexVars, listenerVars, list, todo, req, ptr,
                   since>>

GetIndexFileListError(p) ==
    /\ pc[p] = "diff"
    /\ list[p] = Failed
    /\ list' = [list EXCEPT ![p] = None]
    /\ since' = [since EXCEPT ![p] = 0]
    /\ lock' = Nobody
    /\ Goto(p, "idle")
    /\ UNCHANGED <<worldVars, indexVars, waiters, listenerVars, todo, req,
                   ptr>>

GetIndexFileNoChange(p) ==
    /\ pc[p] = "diff"
    /\ list[p] # Failed
    /\ GetObjectSliceDiff(entries, list[p]) = NoDiff
    /\ list' = [list EXCEPT ![p] = None]
    /\ lock' = Nobody
    /\ Answer(p)
    /\ UNCHANGED <<worldVars, indexVars, waiters, listenerVars, todo, req,
                   since>>

GetIndexFileChange(p) ==
    /\ pc[p] = "diff"
    /\ list[p] # Failed
    /\ GetObjectSliceDiff(entries, list[p]) # NoDiff
    /\ todo' = [todo EXCEPT ![p] = GetObjectSliceDiff(entries, list[p])]
    /\ list' = [list EXCEPT ![p] = None]
    /\ Goto(p, "work")
    /\ UNCHANGED <<worldVars, indexVars, lock, waiters, listenerVars, req,
                   ptr, since>>

(* c.Data(200, ..., indexFile.Raw), under IndexLock only.                  *)
Render(p) ==
    /\ pc[p] = "render"
    /\ Goto(p, "idle")
    /\ since' = [since EXCEPT ![p] = 0]
    /\ ptr' = [ptr EXCEPT ![p] = Nowhere]
    /\ heap' = Collect(heap, HeldBy(Clients \ {p}) \cup {repoIndex})
    /\ UNCHANGED <<worldVars, known, entries, repoIndex, torn, lock, waiters,
                   listenerVars, list, todo, req>>

(* c.JSON over indexFile.Entries, under no lock.                           *)
Marshal(p) ==
    /\ pc[p] = "marshal"
    /\ Goto(p, "idle")
    /\ since' = [since EXCEPT ![p] = 0]
    /\ UNCHANGED <<worldVars, indexVars, lock, waiters, listenerVars, list,
                   todo, req, ptr>>
-----------------------------------------------------------------------------
(* The timer.  The diff is computed under a read lock that is released     *)
(* before the write lock is taken.                                         *)

(* rebuildIndex starts a goroutine per tenant it knows.                    *)
RebuildIndexForTenant(p) ==
    /\ pc[p] = "idle"
    /\ known
    /\ JoinFetch(p)
    /\ UNCHANGED <<worldVars, indexVars, lock, listenerVars, list, todo, req,
                   ptr, since>>

RefreshListError(p) ==
    /\ pc[p] = "diff"
    /\ list[p] = Failed
    /\ list' = [list EXCEPT ![p] = None]
    /\ Goto(p, "idle")
    /\ UNCHANGED <<worldVars, indexVars, lock, waiters, listenerVars, todo,
                   req, ptr, since>>

RefreshNoChange(p) ==
    /\ pc[p] = "diff"
    /\ list[p] # Failed
    /\ Free
    /\ GetObjectSliceDiff(entries, list[p]) = NoDiff
    /\ list' = [list EXCEPT ![p] = None]
    /\ Goto(p, "idle")
    /\ UNCHANGED <<worldVars, indexVars, lock, waiters, listenerVars, todo,
                   req, ptr, since>>

RefreshChange(p) ==
    /\ pc[p] = "diff"
    /\ list[p] # Failed
    /\ Free
    /\ GetObjectSliceDiff(entries, list[p]) # NoDiff
    /\ todo' = [todo EXCEPT ![p] = GetObjectSliceDiff(entries, list[p])]
    /\ list' = [list EXCEPT ![p] = None]
    /\ Goto(p, "relock")
    /\ UNCHANGED <<worldVars, indexVars, lock, waiters, listenerVars, req,
                   ptr, since>>

RefreshLock(p) ==
    /\ pc[p] = "relock"
    /\ Free
    /\ lock' = p
    /\ Goto(p, "work")
    /\ UNCHANGED <<worldVars, indexVars, waiters, listenerVars, list, todo,
                   req, ptr, since>>
-----------------------------------------------------------------------------
(* regenerateRepositoryIndexWorker, under RepoLock: the removed objects,   *)
(* then the updated ones, then the added ones in whichever order their     *)
(* downloads end; the shared entries change one at a time.                 *)

(* removeIndexObject needs nothing from storage.                           *)
RemoveIndexObject(p, c) ==
    /\ pc[p] = "work"
    /\ c \in todo[p].removed
    /\ entries' = RemoveEntry(entries, c)
    /\ todo' = [todo EXCEPT ![p].removed = @ \ {c}]
    /\ UNCHANGED <<worldVars, known, heap, repoIndex, torn, lock, waiters,
                   listenerVars, pc, list, req, ptr, since>>

(* updateIndexObject and addIndexObjectsAsync read the object as it is     *)
(* now; one that is not a chart package is skipped.                        *)
UpdateIndexObject(p, c) ==
    /\ pc[p] = "work"
    /\ todo[p].removed = {}
    /\ c \in todo[p].updated
    /\ storage[c] # 0
    /\ entries' = IF c \in Invalid THEN entries
                  ELSE UpdateEntry(entries, c,
                           ChartVersionFromStorageObject(storage[c]))
    /\ todo' = [todo EXCEPT ![p].updated = @ \ {c}]
    /\ UNCHANGED <<worldVars, known, heap, repoIndex, torn, lock, waiters,
                   listenerVars, pc, list, req, ptr, since>>

AddIndexObject(p, c) ==
    /\ pc[p] = "work"
    /\ todo[p].removed = {}
    /\ todo[p].updated = {}
    /\ c \in todo[p].added
    /\ storage[c] # 0
    /\ entries' = IF c \in Invalid THEN entries
                  ELSE AddEntry(entries, c,
                           ChartVersionFromStorageObject(storage[c]))
    /\ todo' = [todo EXCEPT ![p].added = @ \ {c}]
    /\ UNCHANGED <<worldVars, known, heap, repoIndex, torn, lock, waiters,
                   listenerVars, pc, list, req, ptr, since>>

(* GetObject fails, because the object was deleted or storage is down: the *)
(* worker returns the error, with the entries as far as it got.            *)
RegenerateFail(p) ==
    /\ pc[p] = "work"
    /\ todo[p].removed = {}
    /\ \E c \in IF todo[p].updated # {} THEN todo[p].updated
                                        ELSE todo[p].added :
          storage[c] = 0 \/ Faults
    /\ torn' = TRUE
    /\ lock' = Nobody
    /\ todo' = [todo EXCEPT ![p] = NoDiff]
    /\ since' = IF p \in Clients THEN [since EXCEPT ![p] = 0] ELSE since
    /\ Goto(p, "idle")
    /\ UNCHANGED <<worldVars, known, entries, heap, repoIndex, waiters,
                   listenerVars, list, req, ptr>>

(* Regenerate the new struct, store it, hand its bytes to a saveStatefile  *)
(* goroutine, unlock.                                                      *)
RegenerateDone(p) ==
    /\ pc[p] = "work"
    /\ todo[p] = NoDiff
    /\ Publish(Regenerated(entries))
    /\ saves' = Saved(Regenerated(entries))
    /\ torn' = FALSE
    /\ lock' = Nobody
    /\ IF p \in Clients
       THEN \/ Goto(p, "render") /\ ptr' = [ptr EXCEPT ![p] = repoIndex']
            \/ Goto(p, "marshal") /\ UNCHANGED ptr
       ELSE Goto(p, "idle") /\ UNCHANGED ptr
    /\ UNCHANGED <<diskVars, restarts, known, entries, waiters, listenerVars,
                   list, todo, req, since>>
-----------------------------------------------------------------------------
(* Uploads and deletes (uploadChartPackage, deleteChartVersion and their   *)
(* handlers): the storage calls, then the event.                           *)

(* Bound: an upload may start while the write clock has room for it.       *)
Room == clock + Cardinality({q \in Clients : pc[q] = "put"}) < MaxWrites

(* GetObject decides between a conflict, an update and an addition; any    *)
(* error of it is taken for absence.                                       *)
UploadChartPackage(p, c) ==
    /\ pc[p] = "idle"
    /\ Room
    /\ c \notin Invalid
    /\ \E found \in {storage[c] # 0} \cup {b \in {FALSE} : Faults} :
          /\ found => CanOverwrite
          /\ req' = [req EXCEPT ![p] =
                        [op |-> IF found THEN "update" ELSE "add",
                         chart |-> c, digest |-> 0, created |-> 0]]
    /\ Goto(p, "put")
    /\ UNCHANGED <<worldVars, indexVars, lock, waiters, listenerVars, list,
                   todo, ptr, since>>

PutObject(p) ==
    /\ pc[p] = "put"
    /\ clock' = clock + 1
    /\ storage' = [storage EXCEPT ![req[p].chart] = clock + 1]
    /\ req' = [req EXCEPT ![p].digest = clock + 1]
    /\ Goto(p, "build")
    /\ UNCHANGED <<statefile, saves, restarts, indexVars, lock, waiters,
                   listenerVars, list, todo, ptr, since>>

PutObjectError(p) ==
    /\ Faults
    /\ pc[p] = "put"
    /\ req' = [req EXCEPT ![p] = None]
    /\ Goto(p, "idle")
    /\ UNCHANGED <<worldVars, indexVars, lock, waiters, listenerVars, list,
                   todo, ptr, since>>

(* The event's chart version is dated time.Now().                          *)
BuildEvent(p) ==
    /\ pc[p] = "build"
    /\ req' = [req EXCEPT ![p].created = clock]
    /\ Goto(p, "send")
    /\ UNCHANGED <<worldVars, indexVars, lock, waiters, listenerVars, list,
                   todo, ptr, since>>

(* A delete that fails answers 404 and changes nothing; whether one of an  *)
(* absent package fails is up to the backend.                              *)
DeleteChartVersion(p, c) ==
    /\ pc[p] = "idle"
    /\ storage[c] # 0 \/ DeletesAbsent
    /\ storage' = [storage EXCEPT ![c] = 0]
    /\ req' = [req EXCEPT ![p] =
                  [op |-> "delete", chart |-> c, digest |-> 0, created |-> 0]]
    /\ Goto(p, "send")
    /\ UNCHANGED <<clock, statefile, saves, restarts, indexVars, lock,
                   waiters, listenerVars, list, todo, ptr, since>>

(* emitEvent on a buffered EventChan, then the reply.                      *)
EmitEvent(p) ==
    /\ pc[p] = "send"
    /\ Len(events) < EventCap
    /\ events' = Append(events, req[p])
    /\ req' = [req EXCEPT ![p] = None]
    /\ Goto(p, "idle")
    /\ UNCHANGED <<worldVars, indexVars, lock, waiters, lpc, lreq, lptr, list,
                   todo, ptr, since>>

(* emitEvent on an unbuffered EventChan: the sender meets the listener.    *)
HandOver(p) ==
    /\ pc[p] = "send"
    /\ EventCap = 0
    /\ lpc = "receive"
    /\ lreq' = req[p]
    /\ lpc' = "look"
    /\ req' = [req EXCEPT ![p] = None]
    /\ Goto(p, "idle")
    /\ UNCHANGED <<worldVars, indexVars, lock, waiters, events, lptr, list,
                   todo, ptr, since>>
-----------------------------------------------------------------------------
(* startEventListener.                                                     *)

ReceiveEvent ==
    /\ lpc = "receive"
    /\ events # <<>>
    /\ lreq' = Head(events)
    /\ events' = Tail(events)
    /\ lpc' = "look"
    /\ UNCHANGED <<worldVars, indexVars, lock, waiters, lptr, procVars>>

(* initCacheEntry, then the index pointer under a read lock it releases.   *)
LookUpIndex ==
    /\ lpc = "look"
    /\ Free
    /\ known' = TRUE
    /\ lptr' = repoIndex
    /\ lpc' = "apply"
    /\ UNCHANGED <<worldVars, entries, heap, repoIndex, torn, lock, waiters,
                   events, lreq, procVars>>

ApplyEvent ==
    /\ lpc = "apply"
    /\ Free
    /\ lock' = Listener
    /\ LET c == lreq.chart
           v == [digest |-> lreq.digest, created |-> lreq.created]
       IN  entries' = CASE lreq.op = "update" -> UpdateEntry(entries, c, v)
                        [] lreq.op = "add"    -> AddEntry(entries, c, v)
                        [] lreq.op = "delete" -> RemoveEntry(entries, c)
    /\ lpc' = "install"
    /\ UNCHANGED <<worldVars, known, heap, repoIndex, torn, waiters, events,
                   lreq, lptr, procVars>>

(* The struct it looked up is published as it is.                          *)
BrokenInstallIndex ==
    /\ lpc = "install"
    /\ heap' = Collect(heap, HeldBy(Clients))
    /\ repoIndex' = lptr
    /\ torn' = FALSE
    /\ lock' = Nobody
    /\ lreq' = None
    /\ lptr' = Nowhere
    /\ lpc' = IF UseStatefiles THEN "stat" ELSE "receive"
    /\ UNCHANGED <<worldVars, known, entries, waiters, events, procVars>>

(* Regenerate into the struct it looked up, publish that one, unlock.      *)
InstallIndex ==
    /\ lpc = "install"
    /\ heap' = Collect([heap EXCEPT ![lptr] = Regenerated(entries)],
                       HeldBy(Clients))
    /\ repoIndex' = lptr
    /\ torn' = FALSE
    /\ lock' = Nobody
    /\ lreq' = None
    /\ lptr' = Nowhere
    /\ lpc' = IF UseStatefiles THEN "stat" ELSE "receive"
    /\ UNCHANGED <<worldVars, known, entries, waiters, events, procVars>>

(* The saveStatefile goroutine gets whatever index is current by now.      *)
SpawnSave ==
    /\ lpc = "stat"
    /\ saves' = Saved(heap[repoIndex])
    /\ lpc' = "receive"
    /\ UNCHANGED <<diskVars, restarts, indexVars, lock, waiters, events, lreq,
                   lptr, procVars>>

(* The goroutines of saveStatefile write in any order; an error is logged. *)
SaveStatefile(snap) ==
    /\ snap \in saves
    /\ \/ statefile' = snap
       \/ Faults /\ UNCHANGED statefile
    /\ saves' = saves \ {snap}
    /\ UNCHANGED <<storage, clock, restarts, indexVars, lock, waiters,
                   listenerVars, procVars>>
-----------------------------------------------------------------------------
(* The world outside the server.                                           *)

ManualPut(c) ==
    /\ Manual
    /\ Room
    /\ clock' = clock + 1
    /\ storage' = [storage EXCEPT ![c] = clock + 1]
    /\ UNCHANGED <<statefile, saves, restarts, indexVars, lock, waiters,
                   listenerVars, procVars>>

ManualDelete(c) ==
    /\ Manual
    /\ storage[c] # 0
    /\ storage' = [storage EXCEPT ![c] = 0]
    /\ UNCHANGED <<clock, statefile, saves, restarts, indexVars, lock,
                   waiters, listenerVars, procVars>>

(* The process dies, with whatever it was doing, and is started again.     *)
Restart ==
    /\ restarts < MaxRestarts
    /\ restarts' = restarts + 1
    /\ LET snap == Booted(statefile, storage)
           scans == PrimeScans(NewRepositoryIndex(statefile).raw, storage)
       IN  FreshMemory(snap, IF scans /\ UseStatefiles THEN {snap} ELSE {})
    /\ UNCHANGED diskVars
-----------------------------------------------------------------------------
RequestStart(p) ==
    \/ GetIndexFileStart(p)
    \/ \E c \in Charts : UploadChartPackage(p, c) \/ DeleteChartVersion(p, c)

GetIndexFileStep(p) ==
    \/ GetIndexFileFast(p)
    \/ GetIndexFileLock(p)
    \/ GetIndexFileListError(p)
    \/ GetIndexFileNoChange(p)
    \/ GetIndexFileChange(p)
    \/ Render(p)
    \/ Marshal(p)

UploadStep(p) ==
    \/ PutObject(p)
    \/ PutObjectError(p)
    \/ BuildEvent(p)
    \/ EmitEvent(p)
    \/ HandOver(p)

RefreshStep(p) ==
    \/ RefreshListError(p)
    \/ RefreshNoChange(p)
    \/ RefreshChange(p)
    \/ RefreshLock(p)

RegenerateStep(p) ==
    \/ \E c \in Charts : \/ RemoveIndexObject(p, c)
                         \/ UpdateIndexObject(p, c)
                         \/ AddIndexObject(p, c)
    \/ RegenerateFail(p)
    \/ RegenerateDone(p)

(* What a goroutine that is running does next.                             *)
Progress(p) ==
    \/ FetchChartsInStorage(p)
    \/ FlushFetchers(p)
    \/ RegenerateStep(p)
    \/ p \in Clients /\ (GetIndexFileStep(p) \/ UploadStep(p))
    \/ p \in Refreshers /\ RefreshStep(p)

ListenerStep ==
    \/ ReceiveEvent
    \/ LookUpIndex
    \/ ApplyEvent
    \/ InstallIndex
    \/ SpawnSave

Next ==
    \/ \E p \in Clients : RequestStart(p)
    \/ \E p \in Refreshers : RebuildIndexForTenant(p)
    \/ \E p \in Procs : Progress(p)
    \/ ListenerStep
    \/ \E snap \in saves : SaveStatefile(snap)
    \/ \E c \in Charts : ManualPut(c) \/ ManualDelete(c)
    \/ Restart

Spec == Init /\ [][Next]_vars

(* Running goroutines proceed; mutexes and channels serve their waiters in *)
(* order, so a step that is enabled again and again is taken.  The ticker  *)
(* never stops.  Nothing makes a client send a request.                    *)
Fairness ==
    /\ \A p \in Procs : SF_vars(Progress(p))
    /\ SF_vars(ListenerStep)
    /\ \A p \in Refreshers : WF_vars(RebuildIndexForTenant(p))
    /\ WF_vars(\E snap \in saves : SaveStatefile(snap))

FairSpec == Spec /\ Fairness
-----------------------------------------------------------------------------
ClientPC == {"idle", "lock", "list", "wait", "flush", "diff", "work",
             "render", "marshal", "put", "build", "send"}
RefresherPC == {"idle", "list", "wait", "flush", "diff", "relock", "work"}

(* The types of all variables (server.go:45-128, cache.go:55-81).          *)
TypeOK ==
    /\ storage \in ObjectList
    /\ clock \in Nat
    /\ statefile \in Snapshot \cup {None}
    /\ saves \in SUBSET Snapshot
    /\ restarts \in Nat
    /\ known \in BOOLEAN
    /\ entries \in EntryMap
    /\ heap \in [IndexIds -> Snapshot]
    /\ repoIndex \in IndexIds
    /\ torn \in BOOLEAN
    /\ lock \in Procs \cup {Listener, Nobody}
    /\ waiters \in SUBSET Procs
    /\ events \in Seq(Event)
    /\ lpc \in {"receive", "look", "apply", "install", "stat"}
    /\ lreq \in Event \cup {None}
    /\ lptr \in IndexIds
    /\ pc \in [Procs -> ClientPC \cup RefresherPC]
    /\ list \in [Procs -> ObjectList \cup {None, Failed}]
    /\ todo \in [Procs -> Diffs]
    /\ req \in [Clients -> Event \cup {None}]
    /\ ptr \in [Clients -> IndexIds]
    /\ since \in [Clients -> Nat]

(* Whoever changes the shared entries holds RepoLock, so at most one       *)
(* goroutine is between its first change and its regeneration.             *)
Mutators == {p \in Procs : pc[p] = "work"}
              \cup (IF lpc = "install" THEN {Listener} ELSE {})

MutatorsHoldLock == \A m \in Mutators : lock = m

(* Whenever RepoLock is free, the bytes GET /index.yaml serves render      *)
(* exactly the entries the API serves, unless the last regeneration gave   *)
(* up half-way (which leaves changed entries behind old bytes).            *)
RawMatchesEntries == lock = Nobody /\ ~torn => heap[repoIndex].raw = entries

(* GET /index.yaml, which renders after the lock is released and whose     *)
(* struct may have been replaced since, never answers with an index        *)
(* generated before the one published when the request arrived.            *)
ReadsNotStale ==
    \A p \in Clients : pc[p] = "render" => heap[ptr[p]].gen >= since[p]

(* The published index never steps back to an older generation, although   *)
(* the listener publishes a pointer it read before taking the lock.  Only  *)
(* a restart may (it trusts the statefile).                                *)
GeneratedNeverGoesBack ==
    [][restarts' = restarts =>
           heap'[repoIndex'].gen >= heap[repoIndex].gen]_vars

(* Whoever waits for a list waits for exactly one goroutine that is        *)
(* listing and will answer.                                                *)
Listers == {p \in Procs : pc[p] \in {"list", "flush"}}

OneLister ==
    /\ waiters = Listers \cup {p \in Procs : pc[p] = "wait"}
    /\ \A p, q \in Listers : p = q
    /\ waiters # {} => Listers # {}

(* Nothing is running and nothing is pending.                              *)
Quiescent ==
    /\ lock = Nobody
    /\ \A p \in Procs : pc[p] = "idle"
    /\ events = <<>>
    /\ lpc = "receive"

(* The server was never started from a statefile, which may be older than  *)
(* storage (NewRepositoryIndex): it writes none, or was not started again, *)
(* or none has been written yet.                                           *)
NoStatefileRead == ~UseStatefiles \/ restarts = 0 \/ statefile = None

(* When nothing is pending, the index lists exactly the stored packages,   *)
(* each with its stored content (README.md, "Notes on index.yaml"), unless *)
(* the server may have been started from an old statefile.                 *)
IndexMatchesStorage ==
    Quiescent /\ known /\ NoStatefileRead =>
        /\ Indexed(entries) = Stored(storage) \ Invalid
        /\ \A c \in Indexed(entries) : entries[c].digest = storage[c]
        /\ heap[repoIndex].raw = entries

(* Every request is answered, every refresh ends (RepoLock is held through *)
(* listing and downloading, handlers block on EventChan, readers wait for  *)
(* another goroutine's list): whatever a goroutine is at, it comes to rest. *)
RequestsComplete == \A p \in Procs : []<>(pc[p] = "idle")

(* With the timer on, once uploads and deletes cease the entries come to   *)
(* list exactly the stored charts, whatever order events were applied in.  *)
EntriesConverge ==
    <>[](known => Indexed(entries) = Stored(storage) \ Invalid)

(* ... and so do the bytes GET /index.yaml serves.                         *)
RawConverges ==
    <>[](known => Indexed(heap[repoIndex].raw) = Stored(storage) \ Invalid)
=============================================================================
