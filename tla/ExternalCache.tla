---------------------------- MODULE ExternalCache ----------------------------
(***************************************************************************)
(* The repository index kept in Redis, for one tenant of depth 0 and any   *)
(* number of replicas of the server (cache.go, index.go and server.go of   *)
(* the multitenant package; pkg/cache/store.go and redis.go).              *)
(*                                                                         *)
(* Every request, refresh and event unmarshals an entry of its own, with a *)
(* RepoLock of its own: nothing but Redis itself and the tenant's slices   *)
(* of channels is shared, and of those RegeneratedIndexesChans has no      *)
(* lock.  Its accesses are interleaved one by one; what a race may tear    *)
(* besides is not modelled.                                                *)
(*                                                                         *)
(* An index is the set of charts it lists: contents, dates and statefiles  *)
(* are in IndexCache, which also takes a regeneration object by object.    *)
(***************************************************************************)
EXTENDS Naturals, Sequences, FiniteSets

CONSTANTS Charts,            \* chart versions
          InitialCharts,     \* those in storage before the first start
          Replicas,          \* servers with the same storage and Redis
          Clients,           \* request goroutines
          Refreshers,        \* goroutines that ticks of the timers start
          Listeners,         \* the event listeners, one for every replica
          Home,              \* Home[p]: the replica the goroutine p runs in
          None,              \* nothing in Redis, no entry, no holder
          Failed,            \* an error in place of an entry or a list
          AlwaysRegenerate,  \* --always-regenerate-chart-index
          MaxUnrest          \* bound: uploads and deletes, failing calls of
                             \* Redis and storage, and crashes, together

Procs == Clients \cup Refreshers \cup Listeners

ASSUME ProcAssumption ==
    /\ Home \in [Procs -> Replicas]
    /\ Clients \cap Refreshers = {}
    /\ (Clients \cup Refreshers) \cap Listeners = {}
    /\ None \notin Procs

Entry == [entries : SUBSET Charts, raw : SUBSET Charts]

ASSUME DataAssumption ==
    /\ InitialCharts \subseteq Charts
    /\ None # Failed
    /\ {None, Failed} \cap Entry = {}
    /\ \A S \in SUBSET Charts : S \notin {None, Failed}
    /\ AlwaysRegenerate \in BOOLEAN

Event == [op : {"update", "add", "delete"}, chart : Charts]

VARIABLES
    storage,    \* charts in storage
    cache,      \* the entry in Redis
    keyLock,    \* keyLock[r]: holder of TenantCacheKeyLock
    fetchers,   \* fetchers[r]: owners of FetchedObjectsChans
    chans,      \* chans[r]: RegeneratedIndexesChans, by their goroutines
    pc,
    entry,      \* entry[p]: the cacheEntry p has unmarshalled
    list,       \* list[p]: the list p got from the lister
    seen,       \* seen[p]: chans as p read it, less what it has sent to
    result,     \* result[p]: what is in the channel p waits on
    req,        \* req[p]: the event p sends or handles
    unrest,     \* (bound) changes, faults and crashes so far
    raced,      \* (history) accesses of one RegeneratedIndexesChans met
    disturbed   \* (history) something failed, crashed or met another

outside == <<storage, cache, unrest>>
shared  == <<keyLock, fetchers, chans>>
local   == <<entry, list, seen, result, req>>
history == <<raced, disturbed>>
vars == <<outside, shared, pc, local, history>>
-----------------------------------------------------------------------------
Listed(e) == IF e = None THEN {} ELSE e.entries

(* Index.Regenerate renders the entries.                                   *)
Regenerated(S) == [entries |-> S, raw |-> S]

At(p, labels) == pc[p] \in labels

(* The listener ends with its first event.                                 *)
BrokenRest(p) == "idle"

Rest(p) == IF p \in Listeners THEN "receive" ELSE "idle"

Quiet == \A p \in Procs : pc[p] = Rest(p)

Goto(p, label) == pc' = [pc EXCEPT ![p] = label]

KeyFree(p) == keyLock[Home[p]] = None

Unrest == unrest < MaxUnrest /\ unrest' = unrest + 1

(* One more call that fails.                                               *)
Fault == Unrest /\ disturbed' = TRUE

(* The goroutine ends, or receives the next event.                         *)
Finish(p) ==
    /\ Goto(p, Rest(p))
    /\ entry' = [entry EXCEPT ![p] = None]
    /\ list' = [list EXCEPT ![p] = None]
    /\ seen' = [seen EXCEPT ![p] = <<>>]
    /\ req' = [req EXCEPT ![p] = None]

(* primeCache has put the index in Redis, unless that failed.              *)
Init ==
    /\ storage = InitialCharts
    /\ cache \in {None, Regenerated(storage)}
    /\ keyLock = [r \in Replicas |-> None]
    /\ fetchers = [r \in Replicas |-> {}]
    /\ chans = [r \in Replicas |-> <<>>]
    /\ pc = [p \in Procs |-> Rest(p)]
    /\ entry = [p \in Procs |-> None]
    /\ list = [p \in Procs |-> None]
    /\ seen = [p \in Procs |-> <<>>]
    /\ result = [p \in Procs |-> None]
    /\ req = [p \in Procs |-> None]
    /\ unrest = 0
    /\ raced = FALSE
    /\ disturbed = (Listed(cache) # storage)
-----------------------------------------------------------------------------
(* A request is a goroutine of its own: the name of one whose channel was  *)
(* left in the slice is not used again.                                    *)
Starts(p) ==
    /\ pc[p] = "idle"
    /\ \A i \in DOMAIN chans[Home[p]] : chans[Home[p]][i] # p
    /\ disturbed' = (disturbed \/ ~Quiet)

GetIndexFile(p) ==
    /\ Starts(p)
    /\ Goto(p, "get")
    /\ UNCHANGED <<outside, shared, local, raced>>

(* rebuildIndex waits for the lock and starts a goroutine for the tenant.  *)
RebuildIndexForTenant(p) ==
    /\ Starts(p)
    /\ KeyFree(p)
    /\ Goto(p, "get")
    /\ UNCHANGED <<outside, shared, local, raced>>

Change(p, op, c) ==
    /\ Starts(p)
    /\ Unrest
    /\ req' = [req EXCEPT ![p] = [op |-> op, chart |-> c]]
    /\ Goto(p, "send")
    /\ UNCHANGED <<cache, shared, entry, list, seen, result, raced>>

UploadChartPackage(p, c) ==
    /\ storage' = storage \cup {c}
    /\ Change(p, IF c \in storage THEN "update" ELSE "add", c)

DeleteChartVersion(p, c) ==
    /\ c \in storage
    /\ storage' = storage \ {c}
    /\ Change(p, "delete", c)

(* emitEvent: the sender meets the listener of its replica.                *)
EmitEvent(p, l) ==
    /\ At(p, {"send"})
    /\ At(l, {"receive"})
    /\ Home[p] = Home[l]
    /\ pc' = [pc EXCEPT ![p] = "idle", ![l] = "get"]
    /\ req' = [req EXCEPT ![p] = None, ![l] = req[p]]
    /\ UNCHANGED <<outside, shared, entry, list, seen, result, history>>
-----------------------------------------------------------------------------
(* initCacheEntry holds TenantCacheKeyLock while it talks to Redis; an     *)
(* error of Get is taken for a missing key.                                *)

InitCacheEntry(p) ==
    /\ At(p, {"get"})
    /\ KeyFree(p)
    /\ cache # None
    /\ entry' = [entry EXCEPT ![p] = cache]
    /\ Goto(p, "look")
    /\ UNCHANGED <<outside, shared, list, seen, result, req, history>>

NewRepositoryIndex(p) ==
    /\ At(p, {"get"})
    /\ KeyFree(p)
    /\ \/ cache = None /\ UNCHANGED <<unrest, disturbed>>
       \/ cache # None /\ Fault
    /\ keyLock' = [keyLock EXCEPT ![Home[p]] = p]
    /\ entry' = [entry EXCEPT ![p] = Regenerated({})]
    /\ Goto(p, "new")
    /\ UNCHANGED <<storage, cache, fetchers, chans, list, seen, result, req,
                   raced>>

(* An error of Set is logged, here and in saveCacheEntry.                  *)
Set(p) ==
    \/ cache' = entry[p] /\ UNCHANGED <<unrest, disturbed>>
    \/ Fault /\ UNCHANGED cache

(* The lock is kept when Set fails.                                        *)
BrokenSetNewEntry(p) ==
    /\ At(p, {"new"})
    /\ Set(p)
    /\ IF cache' = entry[p]
       THEN keyLock' = [keyLock EXCEPT ![Home[p]] = None]
       ELSE UNCHANGED keyLock
    /\ Goto(p, "look")
    /\ UNCHANGED <<storage, fetchers, chans, local, raced>>

SetNewEntry(p) ==
    /\ At(p, {"new"})
    /\ Set(p)
    /\ keyLock' = [keyLock EXCEPT ![Home[p]] = None]
    /\ Goto(p, "look")
    /\ UNCHANGED <<storage, fetchers, chans, local, raced>>
-----------------------------------------------------------------------------
(* getIndexFile and refreshCacheEntry.                                     *)

(* The timer trusts an index that lists something.                         *)
BrokenNeedsList(p) == AlwaysRegenerate \/ entry[p].entries = {}

NeedsList(p) ==
    p \in Refreshers \/ AlwaysRegenerate \/ entry[p].entries = {}

AnswerCached(p) ==
    /\ p \in Clients
    /\ At(p, {"look"})
    /\ ~NeedsList(p)
    /\ Finish(p)
    /\ UNCHANGED <<outside, shared, result, history>>

GetChartList(p) ==
    /\ p \notin Listeners
    /\ At(p, {"look"})
    /\ NeedsList(p)
    /\ KeyFree(p)
    /\ fetchers' = [fetchers EXCEPT ![Home[p]] = @ \cup {p}]
    /\ Goto(p, IF fetchers[Home[p]] = {} THEN "list" ELSE "wait")
    /\ UNCHANGED <<outside, keyLock, chans, local, history>>

FetchChartsInStorage(p) ==
    /\ At(p, {"list"})
    /\ \/ /\ list' = [list EXCEPT ![p] = storage]
          /\ UNCHANGED <<unrest, disturbed>>
       \/ Fault /\ list' = [list EXCEPT ![p] = Failed]
    /\ Goto(p, "flush")
    /\ UNCHANGED <<storage, cache, shared, entry, seen, result, req, raced>>

FlushFetchers(p) ==
    LET r == Home[p]
    IN  /\ At(p, {"flush"})
        /\ list' = [q \in Procs |->
                       IF q \in fetchers[r] THEN list[p] ELSE list[q]]
        /\ pc' = [q \in Procs |->
                     IF q \in fetchers[r] THEN "diff" ELSE pc[q]]
        /\ fetchers' = [fetchers EXCEPT ![r] = {}]
        /\ UNCHANGED <<outside, keyLock, chans, entry, seen, result, req,
                       history>>

(* A list that failed, or that is what the entry has.                      *)
NothingToDo(p) ==
    /\ At(p, {"diff"})
    /\ list[p] \in {Failed, entry[p].entries}
    /\ Finish(p)
    /\ UNCHANGED <<outside, shared, result, history>>
-----------------------------------------------------------------------------
(* regenerateRepositoryIndex: the slice is read, stored with one channel   *)
(* more, and read again for its length.                                    *)

ReadChans(p) ==
    /\ At(p, {"diff"})
    /\ list[p] \notin {Failed, entry[p].entries}
    /\ seen' = [seen EXCEPT ![p] = chans[Home[p]]]
    /\ Goto(p, "append")
    /\ UNCHANGED <<outside, shared, entry, list, result, req, history>>

(* Others that rely on the slice staying as it is.                         *)
Relying(p) ==
    {q \in Procs \ {p} : Home[q] = Home[p] /\ At(q, {"length", "send all"})}

AppendChan(p) ==
    LET r == Home[p]
    IN  /\ At(p, {"append"})
        /\ chans' = [chans EXCEPT ![r] = Append(seen[p], p)]
        /\ raced' = (raced \/ chans[r] # seen[p] \/ Relying(p) # {})
        /\ seen' = [seen EXCEPT ![p] = <<>>]
        /\ Goto(p, "length")
        /\ UNCHANGED <<outside, keyLock, fetchers, entry, list, result, req,
                       disturbed>>

(* The first goroutine regenerates, the others take its result: their own  *)
(* entry and list are of no more use.                                      *)
Lead(p) == Goto(p, "work") /\ UNCHANGED <<entry, list>>

Follow(p) ==
    /\ Goto(p, "await")
    /\ entry' = [entry EXCEPT ![p] = None]
    /\ list' = [list EXCEPT ![p] = None]

(* The slice is looked at before the channel is appended.                  *)
BrokenCheckLength(p) ==
    /\ At(p, {"length"})
    /\ IF Len(chans[Home[p]]) = 2 THEN Lead(p) ELSE Follow(p)
    /\ UNCHANGED <<outside, shared, seen, result, req, history>>

CheckLength(p) ==
    /\ At(p, {"length"})
    /\ IF Len(chans[Home[p]]) = 1 THEN Lead(p) ELSE Follow(p)
    /\ UNCHANGED <<outside, shared, seen, result, req, history>>

(* The range over the slice takes it as it is now.                         *)
RangeChans(p) ==
    /\ seen' = [seen EXCEPT ![p] = chans[Home[p]]]
    /\ Goto(p, "send all")

(* regenerateRepositoryIndexWorker, as far as saveCacheEntry.              *)
Work(p) ==
    /\ At(p, {"work"})
    /\ list[p] \ entry[p].entries \subseteq storage
    /\ entry' = [entry EXCEPT ![p] = Regenerated(list[p])]
    /\ list' = [list EXCEPT ![p] = None]
    /\ Goto(p, "save")
    /\ UNCHANGED <<outside, shared, seen, result, req, history>>

Unreadable(p) ==
    \/ ~(list[p] \ entry[p].entries \subseteq storage)
       /\ UNCHANGED <<unrest, disturbed>>
    \/ list[p] \ entry[p].entries # {} /\ Fault

(* What was changed before the error is saved.                             *)
BrokenWorkFails(p) ==
    /\ At(p, {"work"})
    /\ Unreadable(p)
    /\ \E failed \in list[p] \ entry[p].entries :
           cache' = [entry[p] EXCEPT !.entries = list[p] \ {failed}]
    /\ entry' = [entry EXCEPT ![p] = Failed]
    /\ list' = [list EXCEPT ![p] = None]
    /\ RangeChans(p)
    /\ UNCHANGED <<storage, shared, result, req, raced>>

(* An added object is gone or cannot be read.  The entry is left with some *)
(* of the changes, and nobody uses it again.                               *)
WorkFails(p) ==
    /\ At(p, {"work"})
    /\ Unreadable(p)
    /\ entry' = [entry EXCEPT ![p] = Failed]
    /\ list' = [list EXCEPT ![p] = None]
    /\ RangeChans(p)
    /\ UNCHANGED <<storage, cache, shared, result, req, raced>>

SaveCacheEntry(p) ==
    /\ At(p, {"save"})
    /\ p \notin Listeners
    /\ Set(p)
    /\ RangeChans(p)
    /\ UNCHANGED <<storage, shared, entry, list, result, req, raced>>

(* A channel holds one result; a second one would have to wait.            *)
SendResult(p) ==
    /\ At(p, {"send all"})
    /\ seen[p] # <<>>
    /\ result[Head(seen[p])] = None
    /\ result' = [result EXCEPT ![Head(seen[p])] = entry[p]]
    /\ seen' = [seen EXCEPT ![p] = Tail(@)]
    /\ UNCHANGED <<outside, shared, pc, entry, list, req, history>>

ClearChans(p) ==
    /\ At(p, {"send all"})
    /\ seen[p] = <<>>
    /\ chans' = [chans EXCEPT ![Home[p]] = <<>>]
    /\ entry' = [entry EXCEPT ![p] = None]
    /\ Goto(p, "await")
    /\ UNCHANGED <<outside, keyLock, fetchers, list, seen, result, req,
                   history>>

(* entry.RepoIndex = ir.index, which is the answer, or an error.           *)
ReceiveResult(p) ==
    /\ At(p, {"await"})
    /\ result[p] # None
    /\ result' = [result EXCEPT ![p] = None]
    /\ Finish(p)
    /\ UNCHANGED <<outside, shared, history>>
-----------------------------------------------------------------------------
(* startEventListener, after initCacheEntry.                               *)

(* A deletion misses.                                                      *)
BrokenApplyEvent(p) ==
    LET e == req[p]
        S == entry[p].entries
    IN  /\ p \in Listeners
        /\ At(p, {"look"})
        /\ KeyFree(p)
        /\ entry' = [entry EXCEPT ![p] =
               Regenerated(IF e.op = "add" THEN S \cup {e.chart} ELSE S)]
        /\ Goto(p, "save")
        /\ UNCHANGED <<outside, shared, list, seen, result, req, history>>

(* An update of a chart that is not listed changes nothing.                *)
ApplyEvent(p) ==
    LET e == req[p]
        S == entry[p].entries
    IN  /\ p \in Listeners
        /\ At(p, {"look"})
        /\ KeyFree(p)
        /\ entry' = [entry EXCEPT ![p] = Regenerated(
               CASE e.op = "add"    -> S \cup {e.chart}
                 [] e.op = "delete" -> S \ {e.chart}
                 [] e.op = "update" -> S)]
        /\ Goto(p, "save")
        /\ UNCHANGED <<outside, shared, list, seen, result, req, history>>

(* The event is gone, whether or not its index was saved.                  *)
SaveEventEntry(p) ==
    /\ At(p, {"save"})
    /\ p \in Listeners
    /\ Set(p)
    /\ Finish(p)
    /\ UNCHANGED <<storage, shared, result, raced>>
-----------------------------------------------------------------------------
(* A replica dies and is started again: its memory is gone, what is in     *)
(* Redis stays, and primeCache asks for the index.                         *)
Restart(r, primer) ==
    LET Here(q) == Home[q] = r
    IN  /\ Unrest
        /\ primer \in Clients
        /\ Here(primer)
        /\ keyLock' = [keyLock EXCEPT ![r] = None]
        /\ fetchers' = [fetchers EXCEPT ![r] = {}]
        /\ chans' = [chans EXCEPT ![r] = <<>>]
        /\ pc' = [q \in Procs |-> IF q = primer THEN "get"
                                  ELSE IF Here(q) THEN Rest(q) ELSE pc[q]]
        /\ entry' = [q \in Procs |-> IF Here(q) THEN None ELSE entry[q]]
        /\ list' = [q \in Procs |-> IF Here(q) THEN None ELSE list[q]]
        /\ seen' = [q \in Procs |-> IF Here(q) THEN <<>> ELSE seen[q]]
        /\ result' = [q \in Procs |-> IF Here(q) THEN None ELSE result[q]]
        /\ req' = [q \in Procs |-> IF Here(q) THEN None ELSE req[q]]
        /\ disturbed' = (disturbed \/ ~Quiet)
        /\ UNCHANGED <<storage, cache, raced>>
-----------------------------------------------------------------------------
Progress(p) ==
    \/ \E l \in Listeners : EmitEvent(p, l)
    \/ InitCacheEntry(p) \/ NewRepositoryIndex(p) \/ SetNewEntry(p)
    \/ AnswerCached(p) \/ GetChartList(p) \/ FetchChartsInStorage(p)
    \/ FlushFetchers(p) \/ NothingToDo(p)
    \/ ReadChans(p) \/ AppendChan(p) \/ CheckLength(p)
    \/ Work(p) \/ WorkFails(p) \/ SaveCacheEntry(p)
    \/ SendResult(p) \/ ClearChans(p) \/ ReceiveResult(p)
    \/ ApplyEvent(p) \/ SaveEventEntry(p)

Next ==
    \/ \E p \in Clients :
          \/ GetIndexFile(p)
          \/ \E c \in Charts : UploadChartPackage(p, c)
                               \/ DeleteChartVersion(p, c)
    \/ \E p \in Refreshers : RebuildIndexForTenant(p)
    \/ \E p \in Procs : Progress(p)
    \/ \E r \in Replicas, p \in Clients : Restart(r, p)

Spec == Init /\ [][Next]_vars

(* Running goroutines proceed and mutexes serve their waiters in order.    *)
(* The tickers never stop.  Nothing makes a client send a request.         *)
Fairness ==
    /\ \A p \in Procs : SF_vars(Progress(p))
    /\ \A p \in Refreshers : SF_vars(RebuildIndexForTenant(p))

FairSpec == Spec /\ Fairness
-----------------------------------------------------------------------------
ClientPC == {"idle", "send", "get", "new", "look", "list", "wait", "flush",
             "diff", "append", "length", "work", "save", "send all", "await"}
ListenerPC == {"receive", "get", "new", "look", "save"}

TypeOK ==
    /\ storage \subseteq Charts
    /\ cache \in Entry \cup {None}
    /\ keyLock \in [Replicas -> Procs \cup {None}]
    /\ fetchers \in [Replicas -> SUBSET Procs]
    /\ chans \in [Replicas -> Seq(Procs \ Listeners)]
    /\ \A p \in Procs :
           pc[p] \in IF p \in Listeners THEN ListenerPC ELSE ClientPC
    /\ entry \in [Procs -> Entry \cup {None, Failed}]
    /\ list \in [Procs -> {None, Failed} \cup SUBSET Charts]
    /\ seen \in [Procs -> Seq(Procs \ Listeners)]
    /\ result \in [Procs -> Entry \cup {None, Failed}]
    /\ req \in [Procs -> Event \cup {None}]
    /\ unrest \in Nat
    /\ raced \in BOOLEAN
    /\ disturbed \in BOOLEAN

(* A regeneration that fails leaves nothing behind, as it does with the    *)
(* internal cache: in Redis, and in every answer, index.yaml is rendered   *)
(* from the entries beside it.                                             *)
RawMatchesEntries ==
    /\ cache # None => cache.raw = cache.entries
    /\ \A p \in Procs :
           result[p] \notin {None, Failed} => result[p].raw = result[p].entries

(* While no two goroutines of a replica meet in RegeneratedIndexesChans,   *)
(* whoever waits for the regeneration of another has its result or is on   *)
(* the list of one that is still at it.                                    *)
OnTheList(p, s) == \E i \in DOMAIN s : s[i] = p

Serves(q, p) ==
    /\ Home[q] = Home[p]
    /\ \/ At(q, {"work", "save"}) /\ OnTheList(p, chans[Home[p]])
       \/ At(q, {"send all"}) /\ OnTheList(p, seen[q])

EveryWaiterServed ==
    ~raced => \A p \in Procs :
        pc[p] = "await" /\ result[p] = None =>
            \E q \in Procs \ Listeners : Serves(q, p)

(* Used by one client at a time, at whichever replica, while nothing       *)
(* fails, the index in Redis lists what is in storage once the event of    *)
(* the last upload or delete is handled.                                   *)
UndisturbedIndexMatches ==
    Quiet /\ ~disturbed => Listed(cache) = storage

(* Nothing but that race, and no failure of Redis, keeps a request or a    *)
(* refresh from its end.                                                   *)
RequestsComplete ==
    \A p \in Procs : <>raced \/ []<>(pc[p] = Rest(p))

(* With timers, the index in Redis comes to list what is in storage,       *)
(* whatever was overwritten on the way: by replicas that read it before    *)
(* another's change, by the empty index after a Get that failed, or with   *)
(* what a crash forgot.                                                    *)
CacheConverges == <>raced \/ <>[](Listed(cache) = storage)
=============================================================================
