# A TLA+ model of ChartMuseum

ChartMuseum serves Helm chart packages (`.tgz` files) from an object storage
and an index of them, `index.yaml`. The program is small; what is hard about it
is that storage is the truth, the index is a cache of it, and request
goroutines, an event listener, a timer and the storage itself all move at the
same time. This directory models first how the index follows storage, what a
reader may be shown meanwhile, and what is left after failures and restarts,
in the memory of one server and in Redis; then uploads and their limits; then
the way of a request from its URL to its answer.

Paths below are relative to `src/`; `MT` is
`pkg/chartmuseum/server/multitenant`.

## Inventory

| Component | State it keeps | Operations | Interacts with |
|---|---|---|---|
| Repository index (`MT/index.go`, `pkg/repo/index.go`, `pkg/repo/metrics.go`) | per tenant a `cacheEntry`: `RepoIndex` (a pointer to an `Index`: the shared `IndexFile.Entries`, and `Raw`, the rendered bytes) under `RepoLock` | `getIndexFile`, `Regenerate`, `AddEntry`, `UpdateEntry`, `RemoveEntry` | storage (list, get), listener, timer |
| Index cache (`MT/cache.go`) | `Tenants`: `FetchedObjectsChans`, `RegeneratedIndexesChans`; internal (`sync.Map`) or external (Redis) store; `Limiter` | `initCacheEntry`, `getChartList`, `regenerateRepositoryIndex(Worker)`, `addIndexObjectsAsync`, `saveCacheEntry` | index, storage |
| Event listener (`MT/cache.go:507`) | `EventChan` (capacity `--index-limit`), one goroutine for all tenants | `emitEvent`, `startEventListener` | uploads and deletes send to it, it changes the index |
| Timer (`MT/cache.go:484`) | none | `rebuildIndex`, one `refreshCacheEntry` goroutine per tenant and tick | index, storage |
| Statefile (`index-cache.yaml`) | one object in storage | `saveStatefile` (a goroutine per regeneration), `newRepositoryIndex` | start, storage |
| Uploads and deletes (`MT/api.go`, `MT/handlers.go`) | none but storage; `ChartLimits` mutex | `uploadChartPackage`, `PutWithLimit`, `checkStorageLimit`, `deleteChartVersion`, the multipart transaction, `uploadProvenanceFile` | storage, then `emitEvent` |
| Chart versions (`pkg/repo/chart.go`) | none | conversions between packages, objects and index entries; parsing of file names | index, uploads |
| Read routes (`MT/handlers.go`, `MT/api.go`) | none | `GET /index.yaml`, `GET /api/charts...`, pagination, versions by constraint | index |
| Storage routes, artifacthub (`MT/storage.go`, `MT/artifacthub.go`) | none | packages, provenance files, templates, values: one storage read each | storage, index |
| Router (`pkg/chartmuseum/router`, `MT/routes.go`) | none after start | `match`: path to route, tenant and parameters; `rootHandler`: authorization, dispatch | every handler |
| Storage backend (`github.com/chartmuseum/storage`, external) | the objects | list, get, put, delete, `GetObjectSliceDiff` | everything |
| Redis store (`pkg/cache`) | the serialised entries | get, set, delete | index cache |
| Metrics, logging, configuration | none that matters | | |

Hard behaviours, with what makes each component correct (the hazards in
`PROJECT.json` give the line of each):

* **Index.** The entries change one at a time, long before the bytes are
  rendered, and every `Index` struct of a tenant shares them. Correct: whoever
  changes them holds `RepoLock`; bytes and entries agree whenever it is free;
  the published index never goes back in time; at rest it lists what is stored.
* **List sharing.** One goroutine lists for all that ask meanwhile. Correct:
  exactly one lists, nobody waits for an answer that does not come, and the list
  is not older than the request it answers.
* **Uploads, deletes, events.** Storage call and event are two steps. Correct:
  the order of events does not matter in the end; no upload is lost or silently
  replaced; limits are kept.
* **Downloads.** A semaphore shared by all tenants. Correct: it bounds the
  downloads and every slot comes back.
* **Redis.** Every goroutine works on a copy of the index of its own; the last
  one to save wins, and a failing read looks like an empty cache. Correct: nobody
  waits for ever for a regeneration, what is saved is consistent in itself, and
  the next list of storage repairs what was overwritten.
* **Routing.** Tenants, charts and files may be named like parts of a route, a
  tenant has any number of segments, and routes are told apart by the order they
  are tried in. Correct: a URL reaches the route it was made for, with its
  tenant and parameters, and its client is judged by that tenant.
* **Answers.** A page, a version or a file is found through the index. Correct:
  pages are slices, and templates are those of the version that was asked for.
* **Failures.** Storage calls fail half-way through a regeneration, a
  transaction or an eviction; the process dies between any two steps. Correct:
  what is served stays consistent, and a later scan repairs it.

## Modules

| Module | Models |
|---|---|
| `IndexCache` | one tenant's index, from storage to the bytes served: requests, listener, timer, statefile, restarts |
| `IndexReads` | `IndexCache` with a history variable, to say how fresh a read is |
| `IndexLimiter` | `addIndexObjectsAsync`: the download goroutines of all tenants and the `Limiter` they share |
| `AddIndexObjects` | what a call of `addIndexObjectsAsync` promises: the abstract specification `IndexLimiter` implements and `IndexCache` relies on |
| `ChartUploads` | the requests that change one tenant's storage, with the two limits, evictions and the form transaction |
| `ExternalCache` | the index in Redis: goroutines with copies, the unlocked list of channels, failing calls, crashes, replicas |
| `ChartEntries` | the versions of one chart in an index, as the slice they are: `AddEntry`, `UpdateEntry`, `RemoveEntry`, sorting, the gauge |
| `VersionMap` | the map such a slice promises to be: the abstract specification `ChartEntries` implements and `IndexCache` relies on |
| `ChartNames` | what name and version are read in the name of a package file |
| `Router` | from method and URL to route, tenant and parameters; admission |
| `ChartReads` | what the reading routes answer, given an index and the files in storage |
| `Requests` | a request from `rootHandler` to its answer: `Router` and `ChartReads` composed |
| `IndexCacheProofs`, `IndexReadsProofs`, `IndexLimiterProofs`, `ChartUploadsProofs`, `ExternalCacheProofs`, `ChartEntriesProofs`, `ChartNamesProofs`, `RequestsProofs` | theorems about the modules of those names; `RequestsProofs` has those about `Router` and `ChartReads` too |
| `MCIndexCache`, `MCIndexReads`, `MCIndexLimiter`, `MCChartUploads`, `MCExternalCache`, `MCChartEntries`, `MCRequests` | small instances for TLC |

`IndexCache` and `ChartUploads` meet in the storage and in the events. Each
keeps the other's part as small as its own questions allow: `IndexCache` has
uploads of one package and deletes, each storage call and event a step, and the
whole life of an event; `ChartUploads` has every route that stores or deletes,
and an event changes the set of listed versions when it is sent, since the one
listener applies events in the order they were sent. `MCChartUploads` takes from
`ChartNames` what `PutWithLimit` reads in file names. `IndexCache` takes the
entries of an index for a map, which `ChartEntries` shows they are, and
regenerations for calls that add one object after another, which `IndexLimiter`
shows they are. `ExternalCache` has the same handlers as `IndexCache` over
another store; it takes a regeneration for one step and the index for a set of
charts, since what is new there is who overwrites whom. `Requests` takes the
index and the storage of a tenant as they are found: that they change meanwhile
is the matter of `IndexCache`.

### IndexCache

The state of the model and the state of the program:

| Variable | Program |
|---|---|
| `storage`, `clock` | the stored packages of the tenant; each is a *stamp*, the number of the put that stored it, which stands for both its content (digest) and its `LastModified` |
| `statefile`, `saves` | `index-cache.yaml`; the `saveStatefile` goroutines that have not written yet |
| `known` | the tenant is in `server.Tenants` |
| `entries` | `IndexFile.Entries`. One variable, because the worker's new `Index` copies the pointer (`MT/cache.go:155`) |
| `heap`, `repoIndex` | the `Index` structs with their `Raw`, and `entry.RepoIndex` |
| `torn` | history: the last regeneration returned an error |
| `lock` | the holder of `entry.RepoLock` |
| `waiters` | `FetchedObjectsChans` |
| `events` | the buffer of `EventChan` |
| `lpc`, `lreq`, `lptr` | where the listener is, the event it handles, its local `index` |
| `pc`, `list`, `todo`, `req`, `ptr`, `since` | where each request or refresh is; the list it got, the diff it works through, the event it will send, the struct it will render, and (history) the generation published when it began |

One action per step another goroutine can see: each storage call, each lock
acquired or released, each change of the shared entries, each send and receive.
The actions carry the names of the functions. What is merged into one step, and
why nobody can tell:

* taking `RepoLock` and joining the list (`GetIndexFileLock`): what the joining
  touches, `FetchedObjectsLock`, is never held across another wait;
* the sends to the waiters and their receives (`FlushFetchers`): each channel
  has room for the one answer;
* downloading an object and adding its version (`AddIndexObject`): the entries
  are the worker's alone while it holds the lock, so only the moment of the
  download matters;
* `Regenerate`, `entry.RepoIndex = index` and the unlock of a worker
  (`RegenerateDone`): done under the lock. The listener's are two steps
  (`ApplyEvent`, `InstallIndex`) because it regenerates a struct that readers
  may hold;
* `primeCache` at start: nothing else runs yet.

Requests that change nothing and answer an error (404, 409, bad input) are
stutters. An upload takes any error of `GetObject` for the absence of the package
(`api.go:132`), so that with `Faults` a package that exists may be overwritten
and its event be an addition. Whether deleting an absent package is an error is
up to the backend (`DeletesAbsent`): where it is none, the event is sent. `Invalid` charts are files named `.tgz` that are not charts.
`Regenerated` dates an index with the write clock: time is as coarse as what the
properties compare. `RegeneratedIndexesChans` never has two members with the
internal cache, since its users hold `RepoLock`, and is left out.
Structs nobody points to are emptied (`Collect`), so that garbage does not tell
states apart.

Outside this module: limits, provenance files and forms (`ChartUploads`), the
`Limiter` (`IndexLimiter`), the external cache, several tenants (the only state
they share is `EventChan`, the `Limiter` and `TenantCacheKeyLock`),
the concurrent use of the `Entries` map by API readers (undefined in Go; the
step `Marshal` is there, a claim about its answer is not), more than five
versions of a chart (`AddEntryWindow`), where a version may be listed twice: what
becomes of the slice then is in `ChartEntries`, for any number of versions.

### IndexReads

Adds `view[p]`: the storage that p's GET found when it began, dropped as soon as
storage changes or an upload, delete or event is under way. It constrains
nothing. Three properties are about such a GET: that it lists what is stored
(`ReadListsStorage`), that it is behind on a package's content only where the
dates do not show it (`StaleOnlyBehindItsDate`), and that it never is
(`ReadShowsStoredDigests`). The first two are what `--always-regenerate-chart-index`
is for, and hold with it for any number of clients; the third does not.

### IndexLimiter and AddIndexObjects

| Variable | Program |
|---|---|
| `call` | where a call of `addIndexObjectsAsync` is: not begun, in its loop, or what it returned |
| `validCount`, `added` | its local counter; the objects whose versions it gave to `AddEntry` |
| `cancelled` | its context |
| `pc`, `result` | where the goroutine of an object is (waiting for a slot, before the check of the context, downloading, sending, ...); what its download gave |
| `limiter` | the goroutines whose item is in `server.Limiter` |

The constants `Diff` and `TenantOf` say what each call adds and for whom: calls
of one tenant exclude each other, since the caller holds `RepoLock`. The send on
`cvChan` and its receive are one step (`Receive`), as on any unbuffered channel;
so is everything the loop does between two receives, which no other goroutine
sees except the cancellation. A call with nothing to add returns at once and is
left out. `IndexLimit = 0` is a server without a limiter.

`AddIndexObjects` is the sequential promise: every object is taken once, and
added, skipped as no chart, or found to be an error; a call succeeds when none
is left, and one that has returned adds nothing. `PromiseKept` is its `Spec`
under the refinement mapping `left <- Left`: what is left are the objects whose
goroutine has not handed its result over. The step `AddIndexObject` of
`IndexCache`, one object at a time in any order, is this promise used.

### ChartUploads

| Variable | Program |
|---|---|
| `config` | the flags of the server, the depth of the tenant, and the routes the clients use; chosen once |
| `storage` | the tenant's packages and provenance files, each with the second it was put and (history) the form that put it |
| `root` | files at the root of the storage, where the clean-up of a form looks |
| `now` | the storage's clock. It may stay or advance by a second with each put: versions are compared by `LastModified.Unix()` |
| `index` | the versions the index lists |
| `evictions` | goroutines `go server.emitEvent(deleteChart)` of `PutWithLimit` not yet run |
| `lock` | the holder of the mutex `ChartLimits` |
| `faults` | how many storage calls failed so far |
| `pc`, `route`, `op`, `parts`, `todo`, `done`, `victim` | where a request is; its route; its event's `action`; the files it brings; those still to be checked, stored or cleaned up; those stored (`storedFiles`); the version `PutWithLimit` evicts |

Every storage call is a step and may fail, but for two merges: in `PutWithLimit`
taking the mutex and listing (`CountVersions`), and reading and deleting the
evicted version (`Evict`, or `EvictUnreadable` when what was read turns out to be
no chart, which the code finds after the delete). Only a delete can come between, and it has the same
outcome before as between. Failing with an error of the storage and failing
because the file is gone end the same way. The files of a form are those of one
version, stored in any order (`cpFiles` is a map). Both ways to allow
overwriting, the flag and `?force`, are `config.overwrite`. `Guessed` is the
name `PutWithLimit` reads in the name of a file, which need not be the chart's:
the instances take it from `ChartNames`, for a chart named `my-2nd-chart`.

An index that events left empty is listed from storage by the next GET, which
may fail half-way: `GetIndexFile`, one step here. `Listed` is what such a GET
shows.

Left out: files other than packages and provenance files, which
`--max-storage-objects` counts too (the statefile); requests refused for what
they contain; a server killed half-way.

### ExternalCache

| Variable | Program |
|---|---|
| `storage`, `cache` | the packages of the tenant; the entry in Redis, or nothing |
| `keyLock` | the holder of `TenantCacheKeyLock` of a replica |
| `fetchers` | the goroutines whose channels are in `FetchedObjectsChans` |
| `chans` | `RegeneratedIndexesChans`, by the goroutines that wait on its channels |
| `pc`, `entry`, `list`, `req` | where a goroutine is; the `cacheEntry` it has unmarshalled; its list; its event |
| `seen` | the slice of channels as a goroutine read it, before it appends to it or while it sends to its members |
| `result` | what is in the channel a goroutine waits on |
| `raced`, `disturbed` | history, see below |

With Redis, `initCacheEntry` unmarshals an entry for each request, refresh and
event, and with it a `RepoLock` of its own, so the locks of `IndexCache` exclude
nobody. What goroutines of one replica share is `Tenants`: `FetchedObjectsChans`
has a lock, `RegeneratedIndexesChans` has none. Its append is a read and a
write (`ReadChans`, `AppendChan`), and its length and the range over it are read
later (`CheckLength`, `RangeChans`). Go leaves data races undefined; beyond
interleaving these accesses the module does not go. `raced` becomes true when
two of them meet. `disturbed` becomes true when a client or a refresh begins
while another is at work, when a call fails, and when a replica dies at work.

An error of `Get` cannot be told from a missing key (`NewRepositoryIndex`): an
empty index is saved over the one that is there. Redis itself does not lose what
it was given. The entry's dates and digests are left out, as are statefiles;
whether index updates see an overwritten package is `IndexReads`'s question.

### ChartEntries and VersionMap

`entries` is `index.Entries[name]`; `busy` says that a regeneration is under
way, `torn` that the last one gave up before `Regenerate`; `gauge` is
`chart_versions_served_total`. Versions have a `Rank`, which need not tell them
apart: semantic versions that differ in build metadata only compare as equal,
and `sort.Sort` may put them in any order. `Window` is the five of
`index.go:117`. `VersionMap` is the map the slice promises to be, under the
refinement mapping `map <- MapOf(entries)`.

A chart may have any number of versions. With more than `Window`, an `AddEntry`
of a listed version that is not among the last entries (the oldest, once sorted)
appends it a second time. Updates from the listener find their entry
(`UpdateEntry` searches all), so it takes an event that says *add* for a listed
version: two uploads of one version at once, or an event that arrives after a
scan has listed its package. `crowded` becomes true with the first addition that
may do so (`Crowds`: a listed version is added to a chart of more versions than
`Window`); it is set by what the caller does, whether or not the version gets a
second entry. Until then the slice is a map. Afterwards `VersionMap` promises
who is listed, but not which of two packages of a version is shown, and a
removal may leave the other.

### ChartNames

A file name is the sequence of what stands between its hyphens.
`GetExactChartNameVersion` looks from the end for a part that begins with a
digit. An empty part, as in `1.0.0--rc`, makes `chart.go:130` index an empty
string, which panics; `PutWithLimit` reaches it for every file of the tenant
(`api.go:255`), so that one such file fails all uploads under
`--per-chart-limit`. A version such as `1.0.0-rc-1` is read as the name
`chart-1.0.0-rc` and the version `1`, so the limit does not count it.

### Router, ChartReads and Requests

A URL is the sequence of its segments. `Match` translates `match`: the context
path, the two shortcuts (`/health`, `/static`), the depth, which
`--depth-dynamic` takes from the first route whose pattern fits, and the search
for a route. A path that spells a route's pattern, parameters and all
(`IsRepoPath`), gives the tenant and no parameters. `Admission` is what `rootHandler` does before it calls the handler,
with an authorizer that is a password or a set of granted actions on namespaces
(`github.com/chartmuseum/auth`, external). `ChartReads` has one operator per
handler, from the index and the files of the tenant to status, listing and file
of the answer. `Requests` has one action per handler, each guarded by the route
that was found. `GetIndexFileFails` is the index that cannot be had. What
handlers that change storage do to it is in `ChartUploads`; here `Post` and
`DeleteChart` may give any of their answers.

`Longer`, `FileNames` and the other constants say about the strings of an
instance what the code asks of them: which begins with which, which end like
files, how names are sorted, what a version constraint accepts. `MayMean` says
what a client may want of a server: a route of its own, with as many names as
path and depth take, none empty and none that a pattern of the code is written
with (`:repo`); `Url` is the URL the program's README lists for it.

Reading the code this closely shows what the README of the program does not say;
`Shadowed` names what the properties leave aside:

* `/info` and `/artifacthub-repo.yml` are taken by the welcome page at depth 1
  and with `--depth-dynamic`: as a tenant's name they fit its route, which comes
  first;
* with a web template every GET that begins with `/static`, of whatever tenant,
  is a static file;
* a name or version that ends like a file makes a request of the API one that is
  not of the API;
* with `--depth-dynamic` tenants, charts and versions named `charts` or `prov`
  change where the tenant is thought to end;
* a URL need only begin with the letters of the context path: `/cmx/index.yaml`
  passes `/cm`, as the URL `x/index.yaml`, without a first slash;
* with `--chart-url` the first element after a slash of `http://host` is empty,
  so the routes of templates and values answer 500 whatever is asked;
* `offset` without `limit` gives an empty page or, when 0, everything; a sum of
  the two that overflows gives an empty page;
* CORS headers are never set below a context path (`router.go:247` asks
  `checkApiRoute` about the whole path), and the metric label of a request takes
  the first word that equals a parameter for it (`router.go:263`). Neither is
  modelled.

## Runs

| Run | Instance | Shows |
|---|---|---|
| `index_safety` | 2 clients, 1 timer goroutine, 2 charts (1 stored), 1 put, any deletes, failing storage calls, unbuffered events, clients symmetric | `TypeOK`, `MutatorsHoldLock`, `OneLister`, `RawMatchesEntries`, `ReadsNotStale`, `GeneratedNeverGoesBack` hold |
| `index_timer` | 2 clients, 1 timer goroutine, 1 chart, 1 put, any deletes, storage changed by hand; fairness | `RequestsComplete`, `EntriesConverge` hold |
| `index_sequential` | 1 client, 2 files of which 1 is no chart package, 2 puts, any deletes, 2 buffered events, statefiles, 1 crash | `IndexMatchesStorage` holds without a timer |
| `index_scans` | `--always-regenerate-chart-index`; 2 clients (symmetric), a tenant that was not primed, 1 stored chart put once more and deleted at will, storage changed by hand, statefiles, 1 crash anywhere, no timer | `ReadListsStorage`, `StaleOnlyBehindItsDate`, `RawMatchesEntries` hold |
| `index_timer_raw` | 1 client, 1 timer goroutine, 2 charts; fairness | `RawConverges` is violated |
| `limiter_calls` | 2 slots; a call of 3 objects, a later one of the same tenant with 1, one of another tenant with 1; any download fails or is no chart; fairness | `SlotRemains`, `DownloadsLimited`, `PromiseKept`, `CallsReturn` hold |
| `upload_limits` | 2 clients (symmetric), 3 versions of a chart named `my-2nd-chart`, 4 configurations: evictions at a limit of 2 with overwriting, forms at a limit of 1, at most 2 objects with overwriting, forms without limits; deletes in all; 1 failing storage call | `ChartLimitKept`, `EvictsOldest`, `OvershootBounded`, `FailedFormLeavesNothing` hold |
| `upload_undo` | 1 client, forms for a tenant below depth 0, 1 failing storage call | `FailedFormLeavesNothing` is violated |
| `upload_index` | 1 client, limit of 2 versions, overwriting, nothing fails | `IndexMatchesStorage` (of `ChartUploads`) is violated |
| `external_cache` | 1 replica, a client, a timer goroutine and the listener, 2 charts, 2 changes, failing calls or crashes in all; fairness | `TypeOK`, `RawMatchesEntries`, `EveryWaiterServed`, `UndisturbedIndexMatches`, `RequestsComplete`, `CacheConverges` hold |
| `chart_entries` | 3 versions of which 2 rank the same, 2 packages of each, a window of 2, at most 4 entries | `TypeOK`, `NoDuplicates`, `PublishedInOrder`, `PromiseKept` hold |
| `requests` | 9 configurations (depths 0 to 2 and dynamic, context paths of one and two segments, password and token, web template, `--chart-url`), tenants named `api`, `charts`, `statics` and `health`, every route with every meaning, URLs of up to 3 segments nobody meant | `TypeOK`, `AnsweredAsMeant`, `OrderMattersAtTheRootOnly`, `PagesAreSlices`, `PackageOfTheVersion` hold |

**Bounds.** `MaxWrites` counts the puts ever made, the initial packages being
the first; deletes, reads and ticks are not bounded. Deleting an absent package
succeeds (`DeletesAbsent`) in `index_safety`, where storage calls fail too; the
other runs do without to stay small, and have a crash, statefiles, changes by
hand or a timer instead. One chart is all
`index_scans` needs for two clients' events to come in any order. Two clients
are needed to put storage and events in different orders and to have a leader
and a follower of a list; a third client adds a second follower, which is
treated alike. Two charts are needed for a regeneration that fails after its
first change. One refresher goroutine of the timer meets every step of the
requests; overlapping ticks join the same list and then queue on the lock
exactly as two clients do. `Calls` of `IndexLimiter` is the number of calls ever
made, which is why its runs may stop (`CHECK_DEADLOCK FALSE`). Two slots are the
least of which one can be lost and one remain; three objects the least with
which, one slot being lost, two goroutines of the same call still compete for
the other. In `ChartUploads` `MaxTime = 2` gives the versions two ages, so that
some differ and some are equal; `MaxPending` bounds the eviction goroutines of
one version that have not run; uploads and deletes are not bounded. Three
versions and a limit of two make an eviction choose.

`MaxUnrest = 2` of `ExternalCache` counts what disturbs an index: two allow a
change and a failure, two changes, or a failure during the repair of another;
reads and ticks are not bounded. Replicas share Redis alone, goroutines of one
replica share it and more, so one replica with a goroutine of each kind meets
every step of two replicas at the entry. In `ChartEntries` three versions and a
window of two have one version out of `AddEntry`'s sight; `MaxEntries = 4` lets
one be listed twice and the operations go on; the theorems have any number.
`Requests` handles one request at a time, from every configuration and content:
its handlers keep no state between requests. `MaxInt = 7` lets a sum overflow.

**Fairness** (`Fairness` in `IndexCache`). A goroutine that can run does; a
`sync.RWMutex` and Go channels serve their waiters in order, hence strong
fairness for the steps of a running goroutine (`Progress`) and of the listener.
The ticker never stops: weak fairness of `RebuildIndexForTenant`. The goroutines
of `saveStatefile` end. Nothing obliges a client to send a request, and storage
never has to fail.

`Fairness` of `IndexLimiter`: a goroutine that can run does. It is strong
fairness because a slot may come free and be taken again many times while a
goroutine waits; a Go channel serves its senders in the order they came. The
loop of the call receives when there is something to receive (weak fairness).
Storage answers every download, with an error or not. `ChartUploads`,
`ChartEntries` and `Requests` state no liveness.

`Fairness` of `ExternalCache`: running goroutines proceed and the ticker never
stops, both strongly, because `TenantCacheKeyLock` is a mutex that serves its
waiters in order and may be taken many times while one waits. Nothing makes a
client send a request; the number of failures is bounded, since no repair
survives failures that never end.

**What the passing runs say.** The lock discipline holds in every interleaving
(`MutatorsHoldLock`); the pointer the listener read before it locked is harmless
(`GeneratedNeverGoesBack`, `ReadsNotStale`, `RawMatchesEntries`), because it
always renders the shared entries; the list sharing never strands a goroutine
(`OneLister`, `RequestsComplete`), although GETs wait for lists with `RepoLock`
held, and uploads for the listener, which waits for that lock. With the timer
on, whatever order the events came in and whatever was changed in storage by
hand, the entries end up right (`EntriesConverge`). One request at a time, even
without the timer, the events alone keep the index exact (`index_sequential`),
statefiles aside. Where every GET scans storage, two clients whose events come
in any order and whose reads share lists, changes by hand and a statefile of any
age do no harm to a GET that storage stands still for (`index_scans`): it lists
what is stored, and what it misses of an overwrite is what the dates hide.

Calls of `addIndexObjectsAsync` always return and keep their promise. Slots are
lost when calls fail, but never the last one (`SlotRemains`): the goroutine
whose error was received gives its own back. Were cancelled goroutines to
download all the same, all could go, and every tenant's index with them.

The mutex keeps the per-chart limit, whatever fails half-way (`ChartLimitKept`),
and what is evicted is the oldest version even when deletes come between
(`EvictsOldest`). `checkStorageLimit` has no such mutex; that it is exceeded by
fewer files than there are clients (`OvershootBounded`) holds over any number of
uploads.

With Redis the copies make the index consistent in itself even when a
regeneration gives up half-way (`RawMatchesEntries`), which the shared entries
of the internal cache are not (`RawConverges` below): a torn copy is thrown away.
What is lost is lost until the next list: overwritten by another's copy or by the
empty index of a failing `Get`, and put right by the timer (`CacheConverges`).
Everything holds but for `RegeneratedIndexesChans`. Two requests may append to
it at once, so that one's channel is lost and it waits for ever, or a channel is
appended while the leader clears the slice, or stays in it for good: every later
regeneration of the tenant then waits for a leader that there is not.
`EveryWaiterServed`, `RequestsComplete` and `CacheConverges` say so by naming
the race (`raced`), and it is why that run does not check for deadlock: without
`~raced` TLC finds the goroutine that waits for ever. The flag is set by the
accesses themselves, not by their consequences.

The slice of versions is sorted when it is served (`PublishedInOrder`), and a map
(`PromiseKept`, `NoDuplicates`) until a listed version is added to a chart of
more than `AddEntry` looks at. The router finds the route a URL is made for
(`AnsweredAsMeant`), whatever tenants and charts are called, except where
`Shadowed` says, and refuses who may not pass; the order of the routes matters
for the welcome page alone (`OrderMattersAtTheRootOnly`).

**What the violated ones say** (`findings` in `PROJECT.json`):

1. *`RawConverges`.* The worker changes the shared entries first and can fail
   later, on a package deleted since it was listed. `entries` and `Raw` then
   disagree, every later diff is computed from `entries`, sees nothing to do,
   and `index.yaml` stays out of date for ever, timer or not. The API routes,
   which read `entries`, are right meanwhile.
2. *`FailedFormLeavesNothing`* below depth 0. The clean-up leaves out the
   tenant's path.
3. *`IndexMatchesStorage`* of `ChartUploads`. Uploading the oldest version of a
   full chart again evicts it first; the eviction's delete event and the upload's
   update event leave it unlisted in either order. The index has another version,
   so no GET lists storage again.

**Further instances** are beside the runs, each with the one property TLC finds
violated in it. They show where a hypothesis of the passing runs or of the
theorems is needed (module `MCIndexReads`, `MCChartUploads` or `MCChartEntries`):

| Instance | Violates | Because |
|---|---|---|
| `IndexEvents.cfg` | `ReadListsStorage` | without timer and flag, two clients' storage calls and events come in different orders: a stored package stays unlisted |
| `IndexUnprimed.cfg` | `ReadListsStorage` | a tenant that is not primed is uploaded to first, and what it had is hidden |
| `IndexSharedList.cfg` | `ReadListsStorage` | with the flag, a GET joins a timer's list taken before an upload that ended before the GET began |
| `IndexDigests.cfg` | `ReadShowsStoredDigests` | with the flag, the events of two overwrites in the other order leave the older digest with the later date, and no scan sees the change |
| `UploadProvFirst.cfg` | `IndexMatchesStorage` | a form that brings the chart of a provenance file already there sends an update, of a version that is not listed |
| `UploadField.cfg` | `IndexMatchesStorage` | with `--chart-post-form-field-name` the event of a form names no chart |
| `UploadLost.cfg` | `IndexMatchesStorage` | when an evicted version cannot be read or its successor cannot be stored, no event says that it is gone |
| `UploadRollback.cfg` | `FailedUpdateKeepsFile` | the clean-up of a form deletes what it replaced |
| `UploadFormLimited.cfg` | `OnlyFaultsUndo` | with `--per-chart-limit` no form with a provenance file can succeed: `PutWithLimit` reads it as a chart |
| `UploadMisread.cfg` | `ChartLimitKept` | the version `3.0-2nd` is read as the version `2nd` of another chart |
| `UploadForms.cfg` | `MaxObjectsKept` | forms never ask `checkStorageLimit` |
| `ChartDuplicates.cfg` | `GaugeCountsVersions` | a version listed twice is counted twice |

After a restart from a statefile older than storage the index is as old as the
statefile; nothing in the repository says that the two are compared, and
`IndexMatchesStorage` of `IndexCache` asks nothing then (`NoStatefileRead`).

In `IndexCache` two uploads of one version may both find it absent and both be
answered 201 on a server that forbids overwriting. In `IndexLimiter` a download
that was under way when another one's error ended the call sends to a channel
nobody reads from, for ever, and keeps its slot (`Stranded`), although
`cache.go:273` says slots are given back: until a restart all tenants index with
fewer downloads at a time. `README.md:557` of the program says that every request
scans storage; `index.go:47` does so only for an empty index or with
`--always-regenerate-chart-index`.

## Proofs

`IndexCacheProofs` proves, for every set of clients, refreshers and charts, every
flag and every bound:

| Theorem | States |
|---|---|
| `TypeCorrect` | `Spec => []TypeOK` |
| `WritersExclusive` | `Spec => []MutatorsHoldLock` |
| `SingleFetch` | `Spec => []OneLister` |
| `RawIsFaithful` | `Spec => []RawMatchesEntries` |
| `GeneratedMonotone` | `Spec => GeneratedNeverGoesBack` |
| `ReadsAreFresh` | `Spec => []ReadsNotStale` |

They rest on three assumptions of `IndexCache`: `FlagAssumption` (flags are
Boolean), `ProcAssumption` (clients, refreshers, the listener and "nobody" are
different) and `IndexIdsAssumption` (there are addresses enough for the structs
in use). The argument, one invariant on top of another:

* `TypeInv` adds to `TypeOK` that an event is there while one is being sent or
  handled.
* `LockOwner` says which program counters hold `RepoLock`; `MutatorsHoldLock`
  alone is not inductive, since a GET holds the lock from before it lists.
* `OneLister` is inductive together with the types.
* `RawInv`: `RawMatchesEntries` holds while the lock is free, so it must also be
  known what holds while it is not: until a worker has changed something the
  bytes still match, and the listener re-renders whatever it finds.
* `GenInv`: no struct is dated later than the write clock, and the listener's
  pointer is a struct in use. A publication is dated with the clock, hence the
  generations never go back.
* `SinceInv`: the struct a GET will render is dated no earlier than the index
  published when it began.

`IndexLimiterProofs`, for any calls, objects, tenants and limit, from
`LimiterAssumption` (finitely many objects, every call adds some):

| Theorem | States |
|---|---|
| `TypeCorrect` | `Spec => []TypeOK` |
| `SlotNeverLost` | `Spec => []SlotRemains` |
| `DownloadsBounded` | `Spec => []DownloadsLimited` |
| `PromiseImplemented` | `Spec => PromiseKept` |

* `CallInv` ties a call to its goroutines: none before it begins, and its context
  is cancelled when it has returned.
* `SlotInv`: `limiter` is the set of goroutines between taking their slot and
  giving it back, and there are no more of them than slots.
* `StrandedStep`: goroutines are stranded only by the step in which their call
  returns, and then the goroutine whose result ended it holds a slot itself and
  is not stranded. One that takes its slot later finds the call cancelled.
* `CountInv`: `validCount` is the number of results received, so the loop ends
  when, and only when, nothing is left to take. The refinement needs it.

`ChartUploadsProofs`, for any clients, versions, configurations and bounds, from
`UploadAssumption` (finitely many clients and versions, the configurations are
configurations):

| Theorem | States |
|---|---|
| `TypeCorrect` | `Spec => []TypeOK` |
| `LimitHolds` | `Guessed = ChartOf` gives `Spec => []ChartLimitKept` |
| `EvictionOldest` | `Guessed = ChartOf` gives `Spec => EvictsOldest` |
| `Overshoot` | `Spec => []OvershootBounded` |
| `FormsLeaveNothing` | tenants at depth 0 give `Spec => []FailedFormLeavesNothing` |

* `PartsInv`: a request stores and cleans up only files it brought, at most one
  of them a package.
* `LimitInv`: whoever evicts or writes under the limit holds the mutex, so nobody
  else stores a package meanwhile and deletes only make room (`NoPackagePut`);
  a request about to write finds its chart below the limit, and one about to
  evict finds its victim still an oldest version, or gone (`EvictInv`). Without
  `Guessed = ChartOf` the count misses versions and the limit is not kept.
* `ClaimInv`: a file is claimed from the moment its upload passed the check; the
  stored and the claimed files together stay below the limit plus the number of
  clients. The stored ones alone are not inductive, since a put checks nothing.
* `CleanUpInv`: what a form's clean-up is through with is not the form's any more,
  as long as nothing failed but the call that began it. The next step of another
  request cannot make it so again, for files are stored in the name of who
  stores them. Depth 0 is needed: below it the clean-up deletes files at the root
  (finding 2), and the run `upload_undo` shows the theorem fails there.

`ChartEntriesProofs`, for any finite number of versions and any window, from
`VersionAssumption` and `WindowAssumption` (`Window` and `MaxEntries` are
natural numbers):

| Theorem | States |
|---|---|
| `TypeCorrect` | `Spec => []TypeOK` |
| `NoneTwice` | `Spec => []NoDuplicates` |
| `Published` | `Spec => []PublishedInOrder` |
| `PromiseImplemented` | `Spec => PromiseKept` |

* `AddKeeps`, `UpdateKeeps`, `RemoveKeeps`, `SortKeeps`: what each operation does
  to entries without duplicates and to `MapOf`. `AddKeeps` needs that a listed
  version is in sight, which `~Crowds` gives: as many entries as there are
  versions, so the window has them all. This is why `NoDuplicates` and the
  refinement rest on each other: the search from the end finds what the search
  from the start would, as long as there is one entry to find.
* `AddShows`, `UpdateShows`, `RemoveShows`, `SortShows`: with duplicates, what each
  does to the versions shown, which is what is left of the promise.
* `CountEntries`: the length of the slice, which the gauge is set to, is the
  number of versions.

`ChartNamesProofs`, for any names and versions:

| Theorem | States |
|---|---|
| `RightGuess` | a version whose first part alone begins with a digit, without empty parts, is read exactly, whatever the chart's name |
| `WrongGuess` | a version with a later part that begins with a digit or is empty is read otherwise, or the read panics |

Together they say when the assumption `Guessed = ChartOf` of `LimitHolds` is met.

`IndexReadsProofs`, for any charts, storage, events and bounds, from the assumptions
of `IndexCache`:

| Theorem | States |
|---|---|
| `SequentialIndexIsRight` | `SequentialUse(p)` gives `Spec => []IndexMatchesStorage` |
| `SequentialReadsList` | `SequentialUse(p)` gives `ReadsSpec => []ReadListsStorage` |
| `SequentialReadsDigests` | `SequentialUse(p)` gives `ReadsSpec => []ReadShowsStoredDigests` |
| `RegeneratedReadsList` | `Regenerates` gives `ReadsSpec => []ReadListsStorage` |
| `RegeneratedReadsDates` | `Regenerates` gives `ReadsSpec => []StaleOnlyBehindItsDate` |

`SequentialUse(p)`: p is the only client, of a primed tenant, without timer and
statefiles; no storage call fails and nobody changes storage by hand. `Regenerates`:
`--always-regenerate-chart-index` without the timer, and nothing else: any
clients, failures, crashes, statefiles and changes by hand. Each hypothesis
excludes a behaviour shown above in which the property fails: two clients put their
events in the wrong order (`IndexEvents.cfg`, `IndexDigests.cfg`), a tenant that is not
primed loses what it had (`IndexUnprimed.cfg`), an old statefile hides a lost event,
a refresher lets a GET follow a listing older than itself
(`IndexSharedList.cfg`).

* `SequentialInv`: `Queue(p)` is every change of storage the entries have not seen,
  in order: the event the listener handles, those in `EventChan`, the one the
  client will send. `InSync` says the entries are those of storage once the queue
  is applied: per chart, an entry that no event is about is right (`Right`), the
  last event about it says what is stored (`LastHolds`), and a stored chart will
  not be missed by an update that finds no entry (`Kept`). `IndexMatchesStorage`
  alone says nothing while the queue is not empty, and entries can be wrong for
  long meanwhile. Regenerations change entries too, out of the queue's order:
  what they set is what storage holds (`SyncEntry`), so the events that follow
  do no harm.
* `ViewInv`: a GET with nothing pending has a list equal to storage and renders
  entries nobody changes.
* `CleanInv`: what is no chart package is in no index, statefile or event, so
  that a regeneration need not remove it.
* `RegenerateInv`: the list of a GET that nothing disturbs is storage, whoever
  fetched it, or the fetch failed; what is left of its diff makes of the entries
  those of storage (`Covers`), wherever they came from, and what is not in it is
  dated late enough for the diff to pass over it (`Current`).

`ExternalCacheProofs`, for any replicas, clients, refreshers, listeners, charts
and amount of unrest, from `ProcAssumption` and `DataAssumption`:

| Theorem | States |
|---|---|
| `TypeCorrect` | `Spec => []TypeOK` |
| `RawIsFaithful` | `Spec => []RawMatchesEntries` |
| `WaitersServed` | `Spec => []EveryWaiterServed` |
| `UndisturbedIsRight` | `Spec => []UndisturbedIndexMatches` |

* `TypeInv` says also where a goroutine must have an entry, a list or an event.
* `RawInv`: entries in Redis, copies and results in flight all have the bytes of
  their own index.
* `WaitInv`, as long as nothing has raced: a replica has at most one goroutine at
  the regeneration, and at most one between its append and its look at the length
  (`Alone`); the slice of channels is not empty exactly while somebody works for
  it (`SliceHasWorker`); whoever is about to wait is in the slice somebody
  will send to (`OnOwnList`). `EveryWaiterServed` is the part about those who
  wait already (`Served`), which another append or the clearing of the slice
  would break without the rest.
* `UndisturbedInv`: a goroutine alone carries the index from one change to the
  next; `InStep` says for each of its steps what Redis, its copy and its event
  amount to together.

`RequestsProofs`, for any names, depths, context paths, tenants and contents, from
`WordAssumption` (words of the routes' paths do not look like files or begin
like others), `FileAssumption` (of the files' names) and `RequestAssumption` (what
is asked for may be meant):

| Theorem | States |
|---|---|
| `TypeCorrect` | `Spec => []TypeOK` |
| `RequestsReachTheirRoute` | `Spec => []AnsweredAsMeant` |
| `OrderIsNoMatter` | `Spec => []OrderMattersAtTheRootOnly` |
| `PagesFollowEachOther` | `Spec => []PagesAreSlices` |
| `TemplatesOfTheVersion` | `Spec => []PackageOfTheVersion`, unless a segment of `--chart-url` is the name of a package |

* The lemmas about `Router` know a path by its shape (`PathShapes`: one segment, a
  tenant's files, the API) and the routes of a server as a list without repeats
  (`RoutesOnce`). `OneFits`: of the paths without their tenant only one fits what is
  left of a URL. `RawFits`: a path that is the URL itself meets no other but the
  welcome page's. Together, `OneMatches`.
* `BelowShape`, `UrlShape`: the segments of the URL made for a meaning, at any
  depth and below any context path, and that `WithoutContext` takes the context
  away again. `OwnFit`: cut at the depth of its tenant, it fits its own path and
  gives back tenant and parameters.
* `OwnDepth`: the depth is the tenant's. With `--depth-dynamic` it comes from the
  first pattern that fits; `OtherPattern` says that a pattern that fits gives the
  same depth, as long as no name is one of those a pattern looks for (`Shadowed`).
* `TenantFound`, `SingleFound` and `NoShortcut` make `Reached`: the router finds
  route, tenant and parameters as meant.
* `RequestInv` and `AnswerInv` carry this to the answers: a request is one nobody
  meant or the URL of what is meant; a handler has the route that `Match` finds,
  admitted; what it answers is what it computes. The properties alone are not
  inductive, since they speak of answered requests only.
* `PackageOfTheVersion` has a hypothesis because `getChartFileName` takes the
  first segment after a slash of the URL in the index: with `--chart-url` that is a
  segment of the flag, and if that were the name of a package, every version would be
  read in it.

Every invariant and action property a passing run checks is a theorem.
Model-checked only: liveness (`RequestsComplete`, `EntriesConverge`,
`CallsReturn`, `CacheConverges`), which is beyond the prover, as are `ENABLED`
and induction over data; and the violated properties. What a recursive or folded
definition computes does not come up: the sorted names of a page (`Keys`) are
taken by their number only.

## Not modelled

* **Configuration and start** (`cmd/chartmuseum/main.go`, `pkg/config`,
  `pkg/chartmuseum/server.go`). A table of flags and calls that copy them into
  options. What they are set to are the constants and configurations of the
  modules; what start does with the index is in `Init` and `Restart`.
* **Request metrics** (`router/prometheus.go`), **logging**, TLS, timeouts, CORS,
  upload size limits: nothing reads what they leave.
* **The concurrent use of Go maps**: the entries by API readers while a
  regeneration writes, `server.Tenants` by `regenerateRepositoryIndex`
  (`cache.go:133`) while another tenant is new. Undefined in Go; the hazards list
  them without a property.
* **The contents of packages and of provenance files**: unpacking, `Chart.yaml`,
  the YAML and JSON of the index.

## Plan

Done: the index in memory and in Redis, the limiter, uploads, the slices of
versions, file names, routing and answers, with their runs; theorems for every
safety property of the passing runs.

Left:

1. An abstract specification of the index's promise (what is served is what some
   past state of storage and the events since make of it, and never goes back)
   and the refinement by `IndexCache` and `ExternalCache`.
2. That successive pages (`offset`, `offset + limit`, ...) have every name once,
   which needs the order of `Keys` and not only its length.
3. The condition under which `IndexMatchesStorage` of `ChartUploads` holds.
