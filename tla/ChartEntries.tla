---------------------------- MODULE ChartEntries ----------------------------
(***************************************************************************)
(* The entries of one chart in an Index, as the slice they are: AddEntry,  *)
(* UpdateEntry, RemoveEntry and Regenerate of pkg/repo/index.go, called by *)
(* the event listener and by regenerations under RepoLock, and the gauge   *)
(* of its versions (pkg/repo/metrics.go).                                  *)
(***************************************************************************)
EXTENDS Integers, Sequences, FiniteSets

CONSTANTS Versions,  \* versions of the chart
          Rank,      \* Rank[v]: where v stands in the order of versions
          Stamps,    \* what tells two packages of a version apart
          None,
          Window,    \* entries AddEntry looks at, from the last: 5
          MaxEntries \* bound: entries of the chart at once

ASSUME VersionAssumption ==
    /\ IsFiniteSet(Versions)
    /\ Rank \in [Versions -> Int]
    /\ None \notin Stamps

ASSUME WindowAssumption == {Window, MaxEntries} \subseteq Nat

ChartVersion == [version : Versions, stamp : Stamps]

Operation == [kind : {"add", "update", "remove"}, version : Versions,
              stamp : Stamps]

VARIABLES entries,  \* index.Entries[name]
          busy,     \* a regeneration holds RepoLock
          torn,     \* (history) the last regeneration gave up half-way
          gauge,    \* chart_versions_served_total
          op,       \* (history) the last operation
          crowded   \* (history) a listed version was added to a chart of
                    \* more versions than AddEntry looks at

vars == <<entries, busy, torn, gauge, op, crowded>>

(* Indexes of the entries of a version.                                    *)
Of(s, v) == {i \in DOMAIN s : s[i].version = v}

(* The versions that have an entry.                                        *)
Shown(s) == {s[i].version : i \in DOMAIN s}

First(S) == CHOOSE i \in S : \A j \in S : i <= j
Last(S)  == CHOOSE i \in S : \A j \in S : i >= j
-----------------------------------------------------------------------------
(* One entry fewer is looked at.                                           *)
BrokenAddEntry(s, cv) ==
    LET near == {i \in Of(s, cv.version) : i > Len(s) - Window + 1}
    IN  IF near = {} THEN Append(s, cv) ELSE [s EXCEPT ![Last(near)] = cv]

(* The last entries are searched, from the end, for one to replace.        *)
AddEntry(s, cv) ==
    LET near == {i \in Of(s, cv.version) : i > Len(s) - Window}
    IN  IF near = {} THEN Append(s, cv) ELSE [s EXCEPT ![Last(near)] = cv]

(* An update of a version that is not there adds it.                       *)
BrokenUpdateEntry(s, cv) ==
    LET of == Of(s, cv.version)
    IN  IF of = {} THEN Append(s, cv) ELSE [s EXCEPT ![First(of)] = cv]

UpdateEntry(s, cv) ==
    LET of == Of(s, cv.version)
    IN  IF of = {} THEN s ELSE [s EXCEPT ![First(of)] = cv]

(* The slot is emptied and stays.                                          *)
BrokenRemoveEntry(s, v) ==
    LET of == Of(s, v)
    IN  IF of = {} THEN s ELSE [s EXCEPT ![First(of)] = None]

(* append(entries[:i], entries[i+1:]...)                                   *)
RemoveEntry(s, v) ==
    LET of == Of(s, v)
    IN  IF of = {} THEN s
        ELSE [j \in 1..(Len(s) - 1) |->
                 IF j < First(of) THEN s[j] ELSE s[j + 1]]

Apply(o, s) ==
    LET cv == [version |-> o.version, stamp |-> o.stamp]
    IN  CASE o.kind = "add"    -> AddEntry(s, cv)
          [] o.kind = "update" -> UpdateEntry(s, cv)
          [] o.kind = "remove" -> RemoveEntry(s, o.version)

NewestFirst(s) ==
    \A i, j \in DOMAIN s :
        i < j => Rank[s[i].version] >= Rank[s[j].version]

(* As many versions as AddEntry looks at.                                  *)
Few == {S \in SUBSET Versions : Cardinality(S) <= Window}

(* An addition whose version may have its entry out of AddEntry's sight.   *)
Crowds(o, s) ==
    /\ o.kind = "add"
    /\ o.version \in Shown(s)
    /\ Shown(s) \notin Few

(* One of the calls above, and what it makes of entries s.                 *)
Operate(o) ==
    /\ op' = o
    /\ crowded' = (crowded \/ Crowds(o, entries))
    /\ Len(Apply(o, entries)) <= MaxEntries

Injective(f) == \A i, j \in DOMAIN f : f[i] = f[j] => i = j

(* sort.Sort is not stable: any order of versions that rank the same.      *)
SortEntries(s) ==
    {t \in {[i \in DOMAIN s |-> s[f[i]]] :
               f \in {g \in [DOMAIN s -> DOMAIN s] : Injective(g)}} :
     NewestFirst(t)}
-----------------------------------------------------------------------------
Init ==
    /\ entries = <<>>
    /\ busy = FALSE
    /\ torn = FALSE
    /\ gauge = 0
    /\ op = None
    /\ crowded = FALSE

(* Nothing is sorted.                                                      *)
BrokenRegenerate(s) ==
    /\ entries' = s
    /\ gauge' = Len(s)
    /\ torn' = FALSE

(* index.Regenerate, of entries s: sorting, rendering, updateMetrics.      *)
Regenerate(s) ==
    /\ entries' \in SortEntries(s)
    /\ gauge' = Len(s)
    /\ torn' = FALSE

(* startEventListener: one operation, then Regenerate.                     *)
HandleEvent(o) ==
    /\ ~busy
    /\ Operate(o)
    /\ Regenerate(Apply(o, entries))
    /\ UNCHANGED busy

(* regenerateRepositoryIndexWorker: the operations of a diff one by one,   *)
(* then Regenerate, or an error before it.                                 *)
BeginRegeneration ==
    /\ ~busy
    /\ busy' = TRUE
    /\ UNCHANGED <<entries, torn, gauge, op, crowded>>

IndexObject(o) ==
    /\ busy
    /\ Operate(o)
    /\ entries' = Apply(o, entries)
    /\ UNCHANGED <<busy, torn, gauge>>

EndRegeneration ==
    /\ busy
    /\ Regenerate(entries)
    /\ busy' = FALSE
    /\ UNCHANGED <<op, crowded>>

RegenerationFails ==
    /\ busy
    /\ busy' = FALSE
    /\ torn' = TRUE
    /\ UNCHANGED <<entries, gauge, op, crowded>>

Next ==
    \/ \E o \in Operation : HandleEvent(o) \/ IndexObject(o)
    \/ BeginRegeneration
    \/ EndRegeneration
    \/ RegenerationFails

Spec == Init /\ [][Next]_vars
-----------------------------------------------------------------------------
TypeOK ==
    /\ entries \in Seq(ChartVersion)
    /\ busy \in BOOLEAN
    /\ torn \in BOOLEAN
    /\ gauge \in Nat
    /\ op \in Operation \cup {None}
    /\ crowded \in BOOLEAN

(* AddEntry looks at the last entries only, new versions go to the end and *)
(* sorting moves them to the front; still no version is listed twice, as   *)
(* long as none that is listed is added to a chart of more versions than   *)
(* AddEntry looks at (pkg/repo/index.go, AddEntry).                        *)
NoDuplicates ==
    ~crowded =>
        \A i, j \in DOMAIN entries :
            entries[i].version = entries[j].version => i = j

(* A finished regeneration leaves the newest version first, which is what  *)
(* "latest" finds, and counts every version once, as long as none can have *)
(* been listed twice (Regenerate and updateMetrics).                       *)
PublishedInOrder ==
    ~busy /\ ~torn =>
        /\ NewestFirst(entries)
        /\ ~crowded => gauge = Cardinality(Shown(entries))

(* "Total number of chart versions available" (README.md, "Prometheus      *)
(* Metrics"): the gauge counts versions.  It counts entries, and AddEntry  *)
(* may give a version a second one.                                        *)
GaugeCountsVersions ==
    ~busy /\ ~torn => gauge = Cardinality(Shown(entries))

(* Every call changes what the index has of the version it names, and of   *)
(* no other, as it would change a map; and when a version may have been    *)
(* listed twice, it still leaves the others listed or not as they were.    *)
MapOf(s) ==
    [v \in Versions |->
        IF Of(s, v) = {} THEN None ELSE s[First(Of(s, v))].stamp]

Promise == INSTANCE VersionMap WITH map <- MapOf(entries)

PromiseKept == Promise!Spec
=============================================================================
