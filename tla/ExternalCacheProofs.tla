------------------------ MODULE ExternalCacheProofs ------------------------
(***************************************************************************)
(* Theorems about ExternalCache, for any number of replicas and of         *)
(* goroutines in them, every chart and every bound.                        *)
(***************************************************************************)
EXTENDS ExternalCache, SequenceTheorems, TLAPS

(* What the constants and the helpers are, so that the proofs need not     *)
(* expand them.                                                            *)
LEMMA Kinds ==
    /\ Clients \subseteq Procs
    /\ Refreshers \subseteq Procs
    /\ Listeners \subseteq Procs
    /\ Clients \cap Listeners = {}
    /\ Refreshers \cap Listeners = {}
    /\ \A p \in Procs : Home[p] \in Replicas
    /\ None \notin Procs
BY ProcAssumption DEF Procs

LEMMA Entries ==
    /\ None # Failed
    /\ None \notin Entry
    /\ Failed \notin Entry
    /\ \A S \in SUBSET Charts : S # None /\ S # Failed
    /\ \A e \in Entry : e.entries \in SUBSET Charts
    /\ \A S \in SUBSET Charts :
          /\ Regenerated(S) \in Entry
          /\ Regenerated(S).entries = S
          /\ Regenerated(S).raw = S
    /\ {} \in SUBSET Charts
BY DataAssumption DEF Entry, Regenerated

LEMMA AppendList ==
  ASSUME NEW T, NEW s \in Seq(T), NEW x \in T, NEW y
  PROVE  OnTheList(y, Append(s, x)) <=> y = x \/ OnTheList(y, s)
<1>1. DOMAIN s = 1..Len(s) /\ Len(s) \in Nat
  OBVIOUS
<1>2. /\ DOMAIN Append(s, x) = 1..(Len(s) + 1)
      /\ \A i \in 1..Len(s) : Append(s, x)[i] = s[i]
      /\ Append(s, x)[Len(s) + 1] = x
  OBVIOUS
<1>3. QED
  BY <1>1, <1>2 DEF OnTheList

LEMMA TailList ==
  ASSUME NEW T, NEW s \in Seq(T), s # <<>>, NEW y, OnTheList(y, s)
  PROVE  y = Head(s) \/ OnTheList(y, Tail(s))
<1>1. PICK i \in 1..Len(s) : s[i] = y
  BY DEF OnTheList
<1>2. CASE i = 1
  BY <1>1, <1>2
<1>3. CASE i # 1
  <2>1. /\ Tail(s) \in Seq(T)
        /\ Len(Tail(s)) = Len(s) - 1
        /\ \A j \in 1..Len(Tail(s)) : Tail(s)[j] = s[j + 1]
    BY HeadTailProperties
  <2>2. i - 1 \in 1..Len(Tail(s)) /\ Tail(s)[i - 1] = y
    BY <1>1, <1>3, <2>1
  <2>3. DOMAIN Tail(s) = 1..Len(Tail(s))
    BY <2>1
  <2>4. QED
    BY <2>2, <2>3 DEF OnTheList
<1>4. QED
  BY <1>2, <1>3

LEMMA EmptyList == ASSUME NEW y PROVE ~OnTheList(y, <<>>)
BY DEF OnTheList
-----------------------------------------------------------------------------
LEMMA AppendType ==
  ASSUME NEW T, NEW s \in Seq(T), NEW x \in T
  PROVE  Append(s, x) \in Seq(T)
OBVIOUS

LEMMA NoList == \A T : <<>> \in Seq(T)
OBVIOUS

(* What a goroutine has at hand where it needs it, and that whoever waits  *)
(* for a list is where flushing finds it.                                  *)
IsAt(p, label) == label \in IF p \in Listeners THEN ListenerPC ELSE ClientPC

HasEntry(p) ==
    /\ pc[p] \in {"new", "look", "list", "wait", "flush", "diff", "append",
                  "length", "work", "save"} => entry[p] \in Entry
    /\ pc[p] = "send all" => entry[p] \in Entry \cup {Failed}

HasList(p) ==
    /\ pc[p] \in {"flush", "diff"} => list[p] # None
    /\ pc[p] \in {"append", "length", "work"} => list[p] \in SUBSET Charts

HasEvent(p) ==
    /\ pc[p] = "send" => req[p] \in Event
    /\ p \in Listeners /\ pc[p] # "receive" => req[p] \in Event

Has(p) == IsAt(p, pc[p]) /\ HasEntry(p) /\ HasList(p) /\ HasEvent(p)

Fetching(r) ==
    \A q \in fetchers[r] : Home[q] = r /\ pc[q] \in {"list", "wait", "flush"}

Labels == ClientPC \cup ListenerPC

TypeInv ==
    /\ storage \subseteq Charts
    /\ cache \in Entry \cup {None}
    /\ keyLock \in [Replicas -> Procs \cup {None}]
    /\ fetchers \in [Replicas -> SUBSET Procs]
    /\ chans \in [Replicas -> Seq(Procs \ Listeners)]
    /\ pc \in [Procs -> Labels]
    /\ entry \in [Procs -> Entry \cup {None, Failed}]
    /\ list \in [Procs -> {None, Failed} \cup SUBSET Charts]
    /\ seen \in [Procs -> Seq(Procs \ Listeners)]
    /\ result \in [Procs -> Entry \cup {None, Failed}]
    /\ req \in [Procs -> Event \cup {None}]
    /\ unrest \in Nat
    /\ raced \in BOOLEAN
    /\ disturbed \in BOOLEAN
    /\ \A p \in Procs : Has(p)
    /\ \A r \in Replicas : Fetching(r)

LEMMA TypeInit == Init => TypeInv
<1> SUFFICES ASSUME Init
             PROVE  TypeInv
  OBVIOUS
<1> USE Kinds, Entries, DataAssumption DEF Init, Rest
<1>1. cache \in Entry \cup {None}
  OBVIOUS
<1>2. chans \in [Replicas -> Seq(Procs \ Listeners)]
  OBVIOUS
<1>3. seen \in [Procs -> Seq(Procs \ Listeners)]
  OBVIOUS
<1>4. disturbed \in BOOLEAN
  OBVIOUS
<1>5. pc \in [Procs -> Labels]
  BY DEF Labels, ClientPC, ListenerPC
<1>6. \A p \in Procs : Has(p)
  BY DEF Has, IsAt, HasEntry, HasList, HasEvent, ClientPC, ListenerPC
<1>7. \A r \in Replicas : Fetching(r)
  BY DEF Fetching
<1>8. QED
  BY <1>1, <1>2, <1>3, <1>4, <1>5, <1>6, <1>7 DEF TypeInv

LEMMA CountType == TypeInv => unrest \in Nat /\ unrest + 1 \in Nat
BY DEF TypeInv

(* A step in which one goroutine moves on leaves what the others need.     *)
LEMMA Moved ==
  ASSUME TypeInv, NEW p \in Procs, NEW a \in Labels,
         pc' = [pc EXCEPT ![p] = a],
         \A q \in Procs \ {p} : /\ entry'[q] = entry[q]
                                /\ list'[q] = list[q]
                                /\ req'[q] = req[q],
         pc[p] \in {"list", "wait", "flush"}
             => fetchers' = fetchers /\ a \in {"list", "wait", "flush"},
         \A r \in Replicas : \A q \in fetchers'[r] :
             \/ q \in fetchers[r]
             \/ q = p /\ Home[p] = r /\ a \in {"list", "wait"},
         Has(p)'
  PROVE  /\ pc' \in [Procs -> Labels]
         /\ \A q \in Procs : Has(q)'
         /\ \A r \in Replicas : Fetching(r)'
<1>1. pc \in [Procs -> Labels]
  BY DEF TypeInv
<1>2. pc' \in [Procs -> Labels]
  BY <1>1
<1>3. ASSUME NEW q \in Procs \ {p}
      PROVE  Has(q)'
  <2>1. pc'[q] = pc[q]
    BY <1>1
  <2>2. Has(q)
    BY DEF TypeInv
  <2>3. QED
    BY <2>1, <2>2 DEF Has, IsAt, HasEntry, HasList, HasEvent
<1>4. ASSUME NEW r \in Replicas
      PROVE  Fetching(r)'
  <2>1. Fetching(r) /\ fetchers[r] \subseteq Procs
    BY DEF TypeInv
  <2>2. QED
    BY <1>1, <2>1 DEF Fetching
<1>5. QED
  BY <1>2, <1>3, <1>4

(* The types are preserved by every step.                                  *)
LEMMA TypeStep ==
  ASSUME TypeInv, [Next]_vars
  PROVE  TypeInv'
<1>1. ASSUME NEW p \in Clients, GetIndexFile(p)
      PROVE  TypeInv'
  <2>1. /\ pc' = [pc EXCEPT ![p] = "get"]
        /\ pc[p] = "idle"
        /\ disturbed' \in BOOLEAN
        /\ UNCHANGED <<storage, cache, keyLock, fetchers, chans, entry, list,
                       seen, result, req, unrest, raced>>
    BY <1>1 DEF GetIndexFile, Goto, Starts, outside, shared, local, history
  <2>2. Has(p)'
    BY <2>1, Kinds, Entries
       DEF TypeInv, Has, IsAt, HasEntry, HasList, HasEvent, ClientPC,
           ListenerPC
  <2>3. /\ pc' \in [Procs -> Labels]
        /\ \A q \in Procs : Has(q)'
        /\ \A r \in Replicas : Fetching(r)'
    BY <2>1, <2>2, Kinds, Moved DEF Labels, ClientPC, ListenerPC, TypeInv
  <2>4. QED
    BY <2>1, <2>3, Kinds DEF TypeInv
<1>2. ASSUME NEW p \in Refreshers, RebuildIndexForTenant(p)
      PROVE  TypeInv'
  <2>1. /\ pc' = [pc EXCEPT ![p] = "get"]
        /\ pc[p] = "idle"
        /\ disturbed' \in BOOLEAN
        /\ UNCHANGED <<storage, cache, keyLock, fetchers, chans, entry, list,
                       seen, result, req, unrest, raced>>
    BY <1>2
       DEF RebuildIndexForTenant, Goto, Starts, outside, shared, local, history
  <2>2. Has(p)'
    BY <2>1, Kinds, Entries
       DEF TypeInv, Has, IsAt, HasEntry, HasList, HasEvent, ClientPC,
           ListenerPC
  <2>3. /\ pc' \in [Procs -> Labels]
        /\ \A q \in Procs : Has(q)'
        /\ \A r \in Replicas : Fetching(r)'
    BY <2>1, <2>2, Kinds, Moved DEF Labels, ClientPC, ListenerPC, TypeInv
  <2>4. QED
    BY <2>1, <2>3, Kinds DEF TypeInv
<1>3. ASSUME NEW p \in Clients, NEW c \in Charts, UploadChartPackage(p, c)
      PROVE  TypeInv'
  <2>1. /\ pc' = [pc EXCEPT ![p] = "send"]
        /\ pc[p] = "idle"
        /\ storage' = storage \cup {c}
        /\ req' = [req EXCEPT ![p] =
              [op |-> IF c \in storage THEN "update" ELSE "add", chart |-> c]]
        /\ unrest' = unrest + 1
        /\ disturbed' \in BOOLEAN
        /\ UNCHANGED <<cache, keyLock, fetchers, chans, entry, list, seen,
                       result, raced>>
    BY <1>3
       DEF UploadChartPackage, Change, Unrest, Goto, Starts, outside, shared,
           local, history
  <2>2. req'[p] \in Event
    BY <2>1, Kinds, Entries
       DEF TypeInv, Has, HasEntry, HasList, HasEvent, Event
  <2>3. Has(p)'
    BY <2>1, <2>2, Kinds, Entries
       DEF TypeInv, Has, IsAt, HasEntry, HasList, HasEvent, ClientPC,
           ListenerPC
  <2>4. /\ pc' \in [Procs -> Labels]
        /\ \A q \in Procs : Has(q)'
        /\ \A r \in Replicas : Fetching(r)'
    BY <2>1, <2>2, <2>3, Kinds, Moved DEF Labels, ClientPC, ListenerPC, TypeInv
  <2>5. QED
    BY <2>1, <2>2, <2>4, Kinds DEF TypeInv
<1>4. ASSUME NEW p \in Clients, NEW c \in Charts, DeleteChartVersion(p, c)
      PROVE  TypeInv'
  <2>1. /\ pc' = [pc EXCEPT ![p] = "send"]
        /\ pc[p] = "idle"
        /\ storage' = storage \ {c}
        /\ req' = [req EXCEPT ![p] = [op |-> "delete", chart |-> c]]
        /\ unrest' = unrest + 1
        /\ disturbed' \in BOOLEAN
        /\ UNCHANGED <<cache, keyLock, fetchers, chans, entry, list, seen,
                       result, raced>>
    BY <1>4
       DEF DeleteChartVersion, Change, Unrest, Goto, Starts, outside, shared,
           local, history
  <2>2. req'[p] \in Event
    BY <2>1, Kinds, Entries
       DEF TypeInv, Has, HasEntry, HasList, HasEvent, Event
  <2>3. Has(p)'
    BY <2>1, <2>2, Kinds, Entries
       DEF TypeInv, Has, IsAt, HasEntry, HasList, HasEvent, ClientPC,
           ListenerPC
  <2>4. /\ pc' \in [Procs -> Labels]
        /\ \A q \in Procs : Has(q)'
        /\ \A r \in Replicas : Fetching(r)'
    BY <2>1, <2>2, <2>3, Kinds, Moved DEF Labels, ClientPC, ListenerPC, TypeInv
  <2>5. QED
    BY <2>1, <2>2, <2>4, Kinds DEF TypeInv
<1>5. ASSUME NEW p \in Procs, NEW l \in Listeners, EmitEvent(p, l)
      PROVE  TypeInv'
  <2>1. /\ pc' = [pc EXCEPT ![p] = "idle", ![l] = "get"]
        /\ req' = [req EXCEPT ![p] = None, ![l] = req[p]]
        /\ pc[p] = "send"
        /\ pc[l] = "receive"
        /\ UNCHANGED <<storage, cache, keyLock, fetchers, chans, entry, list,
                       seen, result, unrest, raced, disturbed>>
    BY <1>5 DEF EmitEvent, At, outside, shared, history
  <2>2. /\ pc \in [Procs -> Labels]
        /\ req \in [Procs -> Event \cup {None}]
        /\ p # l
        /\ l \in Procs
        /\ req[p] \in Event
        /\ p \notin Listeners
    BY <2>1, Kinds DEF TypeInv, Has, IsAt, HasEvent, ListenerPC
  <2>3. /\ pc' \in [Procs -> Labels]
        /\ pc'[p] = "idle"
        /\ pc'[l] = "get"
        /\ \A q \in Procs \ {p, l} : pc'[q] = pc[q] /\ req'[q] = req[q]
        /\ req'[l] \in Event
        /\ req' \in [Procs -> Event \cup {None}]
    BY <2>1, <2>2 DEF Labels, ClientPC, ListenerPC
  <2>4. \A q \in Procs : Has(q)'
    BY <2>1, <2>2, <2>3 DEF TypeInv, Has, IsAt, HasEntry, HasList, HasEvent,
                            ClientPC, ListenerPC
  <2>5. ASSUME NEW r \in Replicas
        PROVE  Fetching(r)'
    <3>1. Fetching(r) /\ fetchers[r] \subseteq Procs
      BY DEF TypeInv
    <3>2. QED
      BY <3>1, <2>1, <2>3 DEF Fetching
  <2>6. QED
    BY <2>1, <2>3, <2>4, <2>5 DEF TypeInv
<1>6. ASSUME NEW p \in Procs, InitCacheEntry(p)
      PROVE  TypeInv'
  <2>1. /\ pc' = [pc EXCEPT ![p] = "look"]
        /\ pc[p] = "get"
        /\ entry' = [entry EXCEPT ![p] = cache]
        /\ cache # None
        /\ UNCHANGED <<storage, cache, keyLock, fetchers, chans, list, seen,
                       result, req, unrest, raced, disturbed>>
    BY <1>6 DEF InitCacheEntry, Goto, At, outside, shared, local, history
  <2>2. Has(p)'
    BY <2>1, Kinds, Entries
       DEF TypeInv, Has, IsAt, HasEntry, HasList, HasEvent, ClientPC,
           ListenerPC
  <2>3. /\ pc' \in [Procs -> Labels]
        /\ \A q \in Procs : Has(q)'
        /\ \A r \in Replicas : Fetching(r)'
    BY <2>1, <2>2, Kinds, Moved DEF Labels, ClientPC, ListenerPC, TypeInv
  <2>4. QED
    BY <2>1, <2>3, Kinds DEF TypeInv
<1>7. ASSUME NEW p \in Procs, NewRepositoryIndex(p)
      PROVE  TypeInv'
  <2>1. /\ pc' = [pc EXCEPT ![p] = "new"]
        /\ pc[p] = "get"
        /\ entry' = [entry EXCEPT ![p] = Regenerated({})]
        /\ keyLock' = [keyLock EXCEPT ![Home[p]] = p]
        /\ unrest' = unrest \/ unrest' = unrest + 1
        /\ disturbed' = disturbed \/ disturbed' = TRUE
        /\ UNCHANGED <<storage, cache, fetchers, chans, list, seen, result,
                       req, raced>>
    BY <1>7
       DEF NewRepositoryIndex, Fault, Unrest, Goto, At, outside, shared,
           local, history
  <2>2. Regenerated({}) \in Entry
    BY <2>1, Kinds, Entries
       DEF TypeInv, Has, HasEntry, HasList, HasEvent
  <2>3. unrest' \in Nat
    BY <2>1, CountType
  <2>4. disturbed' \in BOOLEAN
    BY <2>1, <2>2, <2>3, Kinds, Entries
       DEF TypeInv, Has, HasEntry, HasList, HasEvent
  <2>5. Has(p)'
    BY <2>1, <2>2, <2>3, <2>4, Kinds, Entries
       DEF TypeInv, Has, IsAt, HasEntry, HasList, HasEvent, ClientPC,
           ListenerPC
  <2>6. /\ pc' \in [Procs -> Labels]
        /\ \A q \in Procs : Has(q)'
        /\ \A r \in Replicas : Fetching(r)'
    BY <2>1, <2>2, <2>3, <2>4, <2>5, Kinds, Moved
       DEF Labels, ClientPC, ListenerPC, TypeInv
  <2>7. QED
    BY <2>1, <2>2, <2>3, <2>4, <2>6, Kinds DEF TypeInv
<1>8. ASSUME NEW p \in Procs, SetNewEntry(p)
      PROVE  TypeInv'
  <2>1. /\ pc' = [pc EXCEPT ![p] = "look"]
        /\ pc[p] = "new"
        /\ keyLock' = [keyLock EXCEPT ![Home[p]] = None]
        /\ cache' \in {cache, entry[p]}
        /\ unrest' = unrest \/ unrest' = unrest + 1
        /\ disturbed' = disturbed \/ disturbed' = TRUE
        /\ UNCHANGED <<storage, fetchers, chans, entry, list, seen, result,
                       req, raced>>
    BY <1>8
       DEF SetNewEntry, Set, Fault, Unrest, Goto, At, outside, shared, local,
           history
  <2>2. entry[p] \in Entry
    BY <2>1, Kinds, Entries
       DEF TypeInv, Has, HasEntry, HasList, HasEvent
  <2>3. unrest' \in Nat
    BY <2>1, CountType
  <2>4. disturbed' \in BOOLEAN
    BY <2>1, <2>2, <2>3, Kinds, Entries
       DEF TypeInv, Has, HasEntry, HasList, HasEvent
  <2>5. Has(p)'
    BY <2>1, <2>2, <2>3, <2>4, Kinds, Entries
       DEF TypeInv, Has, IsAt, HasEntry, HasList, HasEvent, ClientPC,
           ListenerPC
  <2>6. /\ pc' \in [Procs -> Labels]
        /\ \A q \in Procs : Has(q)'
        /\ \A r \in Replicas : Fetching(r)'
    BY <2>1, <2>2, <2>3, <2>4, <2>5, Kinds, Moved
       DEF Labels, ClientPC, ListenerPC, TypeInv
  <2>7. QED
    BY <2>1, <2>2, <2>3, <2>4, <2>6, Kinds DEF TypeInv
<1>9. ASSUME NEW p \in Procs, AnswerCached(p)
      PROVE  TypeInv'
  <2>1. /\ pc' = [pc EXCEPT ![p] = Rest(p)]
        /\ pc[p] = "look"
        /\ entry' = [entry EXCEPT ![p] = None]
        /\ list' = [list EXCEPT ![p] = None]
        /\ seen' = [seen EXCEPT ![p] = <<>>]
        /\ req' = [req EXCEPT ![p] = None]
        /\ UNCHANGED <<storage, cache, keyLock, fetchers, chans, result,
                       unrest, raced, disturbed>>
    BY <1>9
       DEF AnswerCached, Finish, Rest, Goto, At, outside, shared, local,
           history
  <2>2. <<>> \in Seq(Procs \ Listeners)
    BY NoList, Kinds, Entries
       DEF TypeInv, Has, HasEntry, HasList, HasEvent
  <2>3. Has(p)'
    BY <2>1, <2>2, Kinds, Entries
       DEF TypeInv, Has, IsAt, HasEntry, HasList, HasEvent, ClientPC,
           ListenerPC, Rest
  <2>4. /\ pc' \in [Procs -> Labels]
        /\ \A q \in Procs : Has(q)'
        /\ \A r \in Replicas : Fetching(r)'
    BY <2>1, <2>2, <2>3, Kinds, Moved
       DEF Labels, ClientPC, ListenerPC, TypeInv, Rest
  <2>5. QED
    BY <2>1, <2>2, <2>4, Kinds DEF TypeInv
<1>10. ASSUME NEW p \in Procs, GetChartList(p)
      PROVE  TypeInv'
  <2>1. /\ pc' = [pc EXCEPT ![p] =
              IF fetchers[Home[p]] = {} THEN "list" ELSE "wait"]
        /\ pc[p] = "look"
        /\ p \notin Listeners
        /\ fetchers' = [fetchers EXCEPT ![Home[p]] = @ \cup {p}]
        /\ UNCHANGED <<storage, cache, keyLock, chans, entry, list, seen,
                       result, req, unrest, raced, disturbed>>
    BY <1>10 DEF GetChartList, Goto, At, outside, shared, local, history
  <2>2. Has(p)'
    BY <2>1, Kinds, Entries
       DEF TypeInv, Has, IsAt, HasEntry, HasList, HasEvent, ClientPC,
           ListenerPC
  <2>3. /\ pc' \in [Procs -> Labels]
        /\ \A q \in Procs : Has(q)'
        /\ \A r \in Replicas : Fetching(r)'
    BY <2>1, <2>2, Kinds, Moved DEF Labels, ClientPC, ListenerPC, TypeInv
  <2>4. QED
    BY <2>1, <2>3, Kinds DEF TypeInv
<1>11. ASSUME NEW p \in Procs, FetchChartsInStorage(p)
      PROVE  TypeInv'
  <2>1. /\ pc' = [pc EXCEPT ![p] = "flush"]
        /\ pc[p] = "list"
        /\ \E l \in {storage, Failed} : list' = [list EXCEPT ![p] = l]
        /\ unrest' = unrest \/ unrest' = unrest + 1
        /\ disturbed' = disturbed \/ disturbed' = TRUE
        /\ UNCHANGED <<storage, cache, keyLock, fetchers, chans, entry, seen,
                       result, req, raced>>
    BY <1>11
       DEF FetchChartsInStorage, Fault, Unrest, Goto, At, outside, shared,
           local, history
  <2>2. unrest' \in Nat
    BY <2>1, CountType
  <2>3. disturbed' \in BOOLEAN
    BY <2>1, <2>2, Kinds, Entries
       DEF TypeInv, Has, HasEntry, HasList, HasEvent
  <2>4. storage # None /\ Failed # None
    BY <2>1, <2>2, <2>3, Kinds, Entries
       DEF TypeInv, Has, HasEntry, HasList, HasEvent
  <2>5. storage \in SUBSET Charts
    BY <2>1, <2>2, <2>3, <2>4, Kinds, Entries
       DEF TypeInv, Has, HasEntry, HasList, HasEvent
  <2>6. list \in [Procs -> {None, Failed} \cup SUBSET Charts]
    BY <2>1, <2>2, <2>3, <2>4, <2>5, Kinds, Entries
       DEF TypeInv, Has, HasEntry, HasList, HasEvent
  <2>7. list' \in [Procs -> {None, Failed} \cup SUBSET Charts]
    BY <2>1, <2>5, <2>6
  <2>8. Has(p)'
    BY <2>1, <2>2, <2>3, <2>4, <2>5, <2>6, <2>7, Kinds, Entries
       DEF TypeInv, Has, IsAt, HasEntry, HasList, HasEvent, ClientPC,
           ListenerPC
  <2>9. /\ pc' \in [Procs -> Labels]
        /\ \A q \in Procs : Has(q)'
        /\ \A r \in Replicas : Fetching(r)'
    BY <2>1, <2>2, <2>3, <2>4, <2>5, <2>6, <2>7, <2>8, Kinds, Moved
       DEF Labels, ClientPC, ListenerPC, TypeInv
  <2>10. QED
    BY <2>1, <2>2, <2>3, <2>4, <2>5, <2>6, <2>7, <2>9, Kinds DEF TypeInv
<1>12. ASSUME NEW p \in Procs, FlushFetchers(p)
       PROVE  TypeInv'
  <2> DEFINE r == Home[p]
  <2>1. /\ pc[p] = "flush"
        /\ list' = [q \in Procs |->
                       IF q \in fetchers[r] THEN list[p] ELSE list[q]]
        /\ pc' = [q \in Procs |->
                     IF q \in fetchers[r] THEN "diff" ELSE pc[q]]
        /\ fetchers' = [fetchers EXCEPT ![r] = {}]
        /\ UNCHANGED <<storage, cache, keyLock, chans, entry, seen, result,
                       req, unrest, raced, disturbed>>
    BY <1>12 DEF FlushFetchers, At, outside, history
  <2>2. /\ r \in Replicas
        /\ \A q \in Procs : Has(q)
        /\ \A s \in Replicas : Fetching(s)
        /\ list[p] # None
        /\ pc \in [Procs -> Labels]
        /\ list \in [Procs -> {None, Failed} \cup SUBSET Charts]
        /\ fetchers \in [Replicas -> SUBSET Procs]
    BY <2>1, Kinds DEF TypeInv, Has, HasList
  <2>3. /\ pc' \in [Procs -> Labels]
        /\ list' \in [Procs -> {None, Failed} \cup SUBSET Charts]
        /\ fetchers' \in [Replicas -> SUBSET Procs]
    BY <2>1, <2>2 DEF Labels, ClientPC
  <2>4. ASSUME NEW q \in Procs
        PROVE  Has(q)'
    <3>1. CASE q \in fetchers[r]
      <4>1. pc[q] \in {"list", "wait", "flush"} /\ Has(q)
        BY <2>2, <3>1 DEF Fetching
      <4>2. pc'[q] = "diff" /\ list'[q] = list[p]
        BY <2>1, <3>1
      <4>3. QED
        BY <2>1, <2>2, <4>1, <4>2
           DEF Has, IsAt, HasEntry, HasList, HasEvent, ClientPC, ListenerPC
    <3>2. CASE q \notin fetchers[r]
      <4>1. pc'[q] = pc[q] /\ list'[q] = list[q] /\ Has(q)
        BY <2>1, <2>2, <3>2
      <4>2. QED
        BY <2>1, <4>1 DEF Has, IsAt, HasEntry, HasList, HasEvent
    <3>3. QED
      BY <3>1, <3>2
  <2>5. ASSUME NEW s \in Replicas, NEW q \in fetchers'[s]
        PROVE  Home[q] = s /\ pc'[q] \in {"list", "wait", "flush"}
    <3>1. s # r /\ q \in fetchers[s] /\ q \in Procs
      BY <2>1, <2>2, <2>5
    <3>2. Home[q] = s /\ pc[q] \in {"list", "wait", "flush"}
      BY <2>2, <3>1 DEF Fetching
    <3>3. q \notin fetchers[r]
      BY <2>2, <3>1, <3>2 DEF Fetching
    <3>4. QED
      BY <2>1, <3>1, <3>2, <3>3
  <2>6. \A s \in Replicas : Fetching(s)'
    BY <2>5 DEF Fetching
  <2>7. QED
    BY <2>1, <2>3, <2>4, <2>6 DEF TypeInv
<1>13. ASSUME NEW p \in Procs, NothingToDo(p)
      PROVE  TypeInv'
  <2>1. /\ pc' = [pc EXCEPT ![p] = Rest(p)]
        /\ pc[p] = "diff"
        /\ entry' = [entry EXCEPT ![p] = None]
        /\ list' = [list EXCEPT ![p] = None]
        /\ seen' = [seen EXCEPT ![p] = <<>>]
        /\ req' = [req EXCEPT ![p] = None]
        /\ UNCHANGED <<storage, cache, keyLock, fetchers, chans, result,
                       unrest, raced, disturbed>>
    BY <1>13
       DEF NothingToDo, Finish, Rest, Goto, At, outside, shared, local, history
  <2>2. <<>> \in Seq(Procs \ Listeners)
    BY NoList, Kinds, Entries
       DEF TypeInv, Has, HasEntry, HasList, HasEvent
  <2>3. Has(p)'
    BY <2>1, <2>2, Kinds, Entries
       DEF TypeInv, Has, IsAt, HasEntry, HasList, HasEvent, ClientPC,
           ListenerPC, Rest
  <2>4. /\ pc' \in [Procs -> Labels]
        /\ \A q \in Procs : Has(q)'
        /\ \A r \in Replicas : Fetching(r)'
    BY <2>1, <2>2, <2>3, Kinds, Moved
       DEF Labels, ClientPC, ListenerPC, TypeInv, Rest
  <2>5. QED
    BY <2>1, <2>2, <2>4, Kinds DEF TypeInv
<1>14. ASSUME NEW p \in Procs, ReadChans(p)
      PROVE  TypeInv'
  <2>1. /\ pc' = [pc EXCEPT ![p] = "append"]
        /\ pc[p] = "diff"
        /\ seen' = [seen EXCEPT ![p] = chans[Home[p]]]
        /\ list[p] # Failed
        /\ UNCHANGED <<storage, cache, keyLock, fetchers, chans, entry, list,
                       result, req, unrest, raced, disturbed>>
    BY <1>14 DEF ReadChans, Goto, At, outside, shared, local, history
  <2>2. chans[Home[p]] \in Seq(Procs \ Listeners)
    BY <2>1, Kinds, Entries
       DEF TypeInv, Has, HasEntry, HasList, HasEvent
  <2>3. Has(p)'
    BY <2>1, <2>2, Kinds, Entries
       DEF TypeInv, Has, IsAt, HasEntry, HasList, HasEvent, ClientPC,
           ListenerPC
  <2>4. /\ pc' \in [Procs -> Labels]
        /\ \A q \in Procs : Has(q)'
        /\ \A r \in Replicas : Fetching(r)'
    BY <2>1, <2>2, <2>3, Kinds, Moved DEF Labels, ClientPC, ListenerPC, TypeInv
  <2>5. QED
    BY <2>1, <2>2, <2>4, Kinds DEF TypeInv
<1>15. ASSUME NEW p \in Procs, AppendChan(p)
      PROVE  TypeInv'
  <2>1. /\ pc' = [pc EXCEPT ![p] = "length"]
        /\ pc[p] = "append"
        /\ chans' = [chans EXCEPT ![Home[p]] = Append(seen[p], p)]
        /\ seen' = [seen EXCEPT ![p] = <<>>]
        /\ raced' \in BOOLEAN
        /\ UNCHANGED <<storage, cache, keyLock, fetchers, entry, list, result,
                       req, unrest, disturbed>>
    BY <1>15 DEF AppendChan, Goto, At, outside, shared, local, history
  <2>2. <<>> \in Seq(Procs \ Listeners)
    BY NoList, Kinds, Entries
       DEF TypeInv, Has, HasEntry, HasList, HasEvent
  <2>3. p \notin Listeners
    BY <2>1, Kinds, Entries
       DEF TypeInv, Has, HasEntry, HasList, HasEvent, IsAt, ClientPC,
           ListenerPC
  <2>4. seen[p] \in Seq(Procs \ Listeners)
    BY <2>1, <2>2, <2>3, Kinds, Entries
       DEF TypeInv, Has, HasEntry, HasList, HasEvent
  <2>5. Append(seen[p], p) \in Seq(Procs \ Listeners)
    BY AppendType, <2>3, <2>4
  <2>6. Has(p)'
    BY <2>1, <2>2, <2>3, <2>4, <2>5, Kinds, Entries
       DEF TypeInv, Has, IsAt, HasEntry, HasList, HasEvent, ClientPC,
           ListenerPC
  <2>7. /\ pc' \in [Procs -> Labels]
        /\ \A q \in Procs : Has(q)'
        /\ \A r \in Replicas : Fetching(r)'
    BY <2>1, <2>2, <2>3, <2>4, <2>5, <2>6, Kinds, Moved
       DEF Labels, ClientPC, ListenerPC, TypeInv
  <2>8. QED
    BY <2>1, <2>2, <2>3, <2>4, <2>5, <2>7, Kinds DEF TypeInv
<1>16. ASSUME NEW p \in Procs, CheckLength(p)
      PROVE  TypeInv'
  <2>1. /\ pc[p] = "length"
        /\ UNCHANGED <<storage, cache, keyLock, fetchers, chans, seen, result,
                       req, unrest, raced, disturbed>>
        /\ \/ /\ pc' = [pc EXCEPT ![p] = "work"]
              /\ UNCHANGED <<entry, list>>
           \/ /\ pc' = [pc EXCEPT ![p] = "await"]
              /\ entry' = [entry EXCEPT ![p] = None]
              /\ list' = [list EXCEPT ![p] = None]
    BY <1>16 DEF CheckLength, Lead, Follow, Goto, At, outside, shared, history
  <2>2. Has(p)'
    BY <2>1 DEF TypeInv, Has, IsAt, HasEntry, HasList, HasEvent, ClientPC,
                ListenerPC
  <2>3. /\ pc' \in [Procs -> Labels]
        /\ \A q \in Procs : Has(q)'
        /\ \A r \in Replicas : Fetching(r)'
    <3>1. CASE pc' = [pc EXCEPT ![p] = "work"] /\ UNCHANGED <<entry, list>>
      BY <3>1, <2>1, <2>2, Moved DEF Labels, ClientPC, TypeInv
    <3>2. CASE /\ pc' = [pc EXCEPT ![p] = "await"]
               /\ entry' = [entry EXCEPT ![p] = None]
               /\ list' = [list EXCEPT ![p] = None]
      BY <3>2, <2>1, <2>2, Moved DEF Labels, ClientPC, TypeInv
    <3>3. QED
      BY <2>1, <3>1, <3>2
  <2>4. QED
    BY <2>1, <2>3 DEF TypeInv
<1>17. ASSUME NEW p \in Procs, Work(p)
      PROVE  TypeInv'
  <2>1. /\ pc' = [pc EXCEPT ![p] = "save"]
        /\ pc[p] = "work"
        /\ entry' = [entry EXCEPT ![p] = Regenerated(list[p])]
        /\ list' = [list EXCEPT ![p] = None]
        /\ UNCHANGED <<storage, cache, keyLock, fetchers, chans, seen, result,
                       req, unrest, raced, disturbed>>
    BY <1>17 DEF Work, Goto, At, outside, shared, local, history
  <2>2. Regenerated(list[p]) \in Entry
    BY <2>1, Kinds, Entries
       DEF TypeInv, Has, HasEntry, HasList, HasEvent
  <2>3. Has(p)'
    BY <2>1, <2>2, Kinds, Entries
       DEF TypeInv, Has, IsAt, HasEntry, HasList, HasEvent, ClientPC,
           ListenerPC
  <2>4. /\ pc' \in [Procs -> Labels]
        /\ \A q \in Procs : Has(q)'
        /\ \A r \in Replicas : Fetching(r)'
    BY <2>1, <2>2, <2>3, Kinds, Moved DEF Labels, ClientPC, ListenerPC, TypeInv
  <2>5. QED
    BY <2>1, <2>2, <2>4, Kinds DEF TypeInv
<1>18. ASSUME NEW p \in Procs, WorkFails(p)
      PROVE  TypeInv'
  <2>1. /\ pc' = [pc EXCEPT ![p] = "send all"]
        /\ pc[p] = "work"
        /\ entry' = [entry EXCEPT ![p] = Failed]
        /\ list' = [list EXCEPT ![p] = None]
        /\ seen' = [seen EXCEPT ![p] = chans[Home[p]]]
        /\ unrest' = unrest \/ unrest' = unrest + 1
        /\ disturbed' = disturbed \/ disturbed' = TRUE
        /\ UNCHANGED <<storage, cache, keyLock, fetchers, chans, result, req,
                       raced>>
    BY <1>18
       DEF WorkFails, Unreadable, RangeChans, Fault, Unrest, Goto, At,
           outside, shared, local, history
  <2>2. chans[Home[p]] \in Seq(Procs \ Listeners)
    BY <2>1, Kinds, Entries
       DEF TypeInv, Has, HasEntry, HasList, HasEvent
  <2>3. unrest' \in Nat
    BY <2>1, CountType
  <2>4. disturbed' \in BOOLEAN
    BY <2>1, <2>2, <2>3, Kinds, Entries
       DEF TypeInv, Has, HasEntry, HasList, HasEvent
  <2>5. Has(p)'
    BY <2>1, <2>2, <2>3, <2>4, Kinds, Entries
       DEF TypeInv, Has, IsAt, HasEntry, HasList, HasEvent, ClientPC,
           ListenerPC
  <2>6. /\ pc' \in [Procs -> Labels]
        /\ \A q \in Procs : Has(q)'
        /\ \A r \in Replicas : Fetching(r)'
    BY <2>1, <2>2, <2>3, <2>4, <2>5, Kinds, Moved
       DEF Labels, ClientPC, ListenerPC, TypeInv
  <2>7. QED
    BY <2>1, <2>2, <2>3, <2>4, <2>6, Kinds DEF TypeInv
<1>19. ASSUME NEW p \in Procs, SaveCacheEntry(p)
      PROVE  TypeInv'
  <2>1. /\ pc' = [pc EXCEPT ![p] = "send all"]
        /\ pc[p] = "save"
        /\ p \notin Listeners
        /\ cache' = cache \/ cache' = entry[p]
        /\ seen' = [seen EXCEPT ![p] = chans[Home[p]]]
        /\ unrest' = unrest \/ unrest' = unrest + 1
        /\ disturbed' = disturbed \/ disturbed' = TRUE
        /\ UNCHANGED <<storage, keyLock, fetchers, chans, entry, list, result,
                       req, raced>>
    BY <1>19
       DEF SaveCacheEntry, Set, RangeChans, Fault, Unrest, Goto, At, outside,
           shared, local, history
  <2>2. chans[Home[p]] \in Seq(Procs \ Listeners)
    BY <2>1, Kinds, Entries
       DEF TypeInv, Has, HasEntry, HasList, HasEvent
  <2>3. unrest' \in Nat
    BY <2>1, CountType
  <2>4. disturbed' \in BOOLEAN
    BY <2>1, <2>2, <2>3, Kinds, Entries
       DEF TypeInv, Has, HasEntry, HasList, HasEvent
  <2>5. cache' \in Entry \cup {None}
    BY <2>1, <2>2, <2>3, <2>4, Kinds, Entries
       DEF TypeInv, Has, HasEntry, HasList, HasEvent
  <2>6. Has(p)'
    BY <2>1, <2>2, <2>3, <2>4, <2>5, Kinds, Entries
       DEF TypeInv, Has, IsAt, HasEntry, HasList, HasEvent, ClientPC,
           ListenerPC
  <2>7. /\ pc' \in [Procs -> Labels]
        /\ \A q \in Procs : Has(q)'
        /\ \A r \in Replicas : Fetching(r)'
    BY <2>1, <2>2, <2>3, <2>4, <2>5, <2>6, Kinds, Moved
       DEF Labels, ClientPC, ListenerPC, TypeInv
  <2>8. QED
    BY <2>1, <2>2, <2>3, <2>4, <2>5, <2>7, Kinds DEF TypeInv
<1>20. ASSUME NEW p \in Procs, SendResult(p)
       PROVE  TypeInv'
  <2>1. /\ pc[p] = "send all"
        /\ seen[p] # <<>>
        /\ result' = [result EXCEPT ![Head(seen[p])] = entry[p]]
        /\ seen' = [seen EXCEPT ![p] = Tail(seen[p])]
        /\ UNCHANGED <<storage, cache, keyLock, fetchers, chans, pc, entry,
                       list, req, unrest, raced, disturbed>>
    BY <1>20 DEF SendResult, At, outside, shared, history
  <2>2. seen[p] \in Seq(Procs \ Listeners) /\ entry[p] \in Entry \cup {Failed}
    BY <2>1 DEF TypeInv, Has, HasEntry
  <2>3. Tail(seen[p]) \in Seq(Procs \ Listeners)
    BY <2>1, <2>2, HeadTailProperties
  <2>4. \A q \in Procs : Has(q)'
    BY <2>1 DEF TypeInv, Has, IsAt, HasEntry, HasList, HasEvent
  <2>5. \A r \in Replicas : Fetching(r)'
    BY <2>1 DEF TypeInv, Fetching
  <2>6. QED
    BY <2>1, <2>2, <2>3, <2>4, <2>5 DEF TypeInv
<1>21. ASSUME NEW p \in Procs, ClearChans(p)
      PROVE  TypeInv'
  <2>1. /\ pc' = [pc EXCEPT ![p] = "await"]
        /\ pc[p] = "send all"
        /\ chans' = [chans EXCEPT ![Home[p]] = <<>>]
        /\ entry' = [entry EXCEPT ![p] = None]
        /\ UNCHANGED <<storage, cache, keyLock, fetchers, list, seen, result,
                       req, unrest, raced, disturbed>>
    BY <1>21 DEF ClearChans, Goto, At, outside, shared, local, history
  <2>2. <<>> \in Seq(Procs \ Listeners)
    BY NoList, Kinds, Entries
       DEF TypeInv, Has, HasEntry, HasList, HasEvent
  <2>3. Has(p)'
    BY <2>1, <2>2, Kinds, Entries
       DEF TypeInv, Has, IsAt, HasEntry, HasList, HasEvent, ClientPC,
           ListenerPC
  <2>4. /\ pc' \in [Procs -> Labels]
        /\ \A q \in Procs : Has(q)'
        /\ \A r \in Replicas : Fetching(r)'
    BY <2>1, <2>2, <2>3, Kinds, Moved DEF Labels, ClientPC, ListenerPC, TypeInv
  <2>5. QED
    BY <2>1, <2>2, <2>4, Kinds DEF TypeInv
<1>22. ASSUME NEW p \in Procs, ReceiveResult(p)
      PROVE  TypeInv'
  <2>1. /\ pc' = [pc EXCEPT ![p] = Rest(p)]
        /\ pc[p] = "await"
        /\ entry' = [entry EXCEPT ![p] = None]
        /\ list' = [list EXCEPT ![p] = None]
        /\ seen' = [seen EXCEPT ![p] = <<>>]
        /\ req' = [req EXCEPT ![p] = None]
        /\ result' = [result EXCEPT ![p] = None]
        /\ UNCHANGED <<storage, cache, keyLock, fetchers, chans, unrest,
                       raced, disturbed>>
    BY <1>22
       DEF ReceiveResult, Finish, Rest, Goto, At, outside, shared, local,
           history
  <2>2. <<>> \in Seq(Procs \ Listeners)
    BY NoList, Kinds, Entries
       DEF TypeInv, Has, HasEntry, HasList, HasEvent
  <2>3. Has(p)'
    BY <2>1, <2>2, Kinds, Entries
       DEF TypeInv, Has, IsAt, HasEntry, HasList, HasEvent, ClientPC,
           ListenerPC, Rest
  <2>4. /\ pc' \in [Procs -> Labels]
        /\ \A q \in Procs : Has(q)'
        /\ \A r \in Replicas : Fetching(r)'
    BY <2>1, <2>2, <2>3, Kinds, Moved
       DEF Labels, ClientPC, ListenerPC, TypeInv, Rest
  <2>5. QED
    BY <2>1, <2>2, <2>4, Kinds DEF TypeInv
<1>23. ASSUME NEW p \in Procs, ApplyEvent(p)
      PROVE  TypeInv'
  <2> DEFINE e == req[p]
             S == entry[p].entries
             T == CASE e.op = "add"    -> S \cup {e.chart}
                    [] e.op = "delete" -> S \ {e.chart}
                    [] e.op = "update" -> S
  <2>1. /\ pc' = [pc EXCEPT ![p] = "save"]
        /\ pc[p] = "look"
        /\ p \in Listeners
        /\ entry' = [entry EXCEPT ![p] = Regenerated(T)]
        /\ UNCHANGED <<storage, cache, keyLock, fetchers, chans, list, seen,
                       result, req, unrest, raced, disturbed>>
    BY <1>23 DEF ApplyEvent, Goto, At, outside, shared, history
  <2>2. e \in Event /\ S \in SUBSET Charts
    BY <2>1, Entries DEF TypeInv, Has, HasEntry, HasEvent
  <2>3. T \in SUBSET Charts
    BY <2>2 DEF Event
  <2>4. Regenerated(T) \in Entry
    BY <2>3, Entries
  <2> HIDE DEF T
  <2>5. Has(p)'
    BY <2>1, <2>4
       DEF TypeInv, Has, IsAt, HasEntry, HasList, HasEvent, ClientPC,
           ListenerPC
  <2>6. /\ pc' \in [Procs -> Labels]
        /\ \A q \in Procs : Has(q)'
        /\ \A r \in Replicas : Fetching(r)'
    BY <2>1, <2>5, Moved DEF Labels, ClientPC, ListenerPC, TypeInv
  <2>7. QED
    BY <2>1, <2>4, <2>6 DEF TypeInv
<1>24. ASSUME NEW p \in Procs, SaveEventEntry(p)
      PROVE  TypeInv'
  <2>1. /\ pc' = [pc EXCEPT ![p] = Rest(p)]
        /\ pc[p] = "save"
        /\ cache' = cache \/ cache' = entry[p]
        /\ unrest' = unrest \/ unrest' = unrest + 1
        /\ disturbed' = disturbed \/ disturbed' = TRUE
        /\ entry' = [entry EXCEPT ![p] = None]
        /\ list' = [list EXCEPT ![p] = None]
        /\ seen' = [seen EXCEPT ![p] = <<>>]
        /\ req' = [req EXCEPT ![p] = None]
        /\ UNCHANGED <<storage, keyLock, fetchers, chans, result, raced>>
    BY <1>24
       DEF SaveEventEntry, Finish, Rest, Set, Fault, Unrest, Goto, At,
           outside, shared, local, history
  <2>2. <<>> \in Seq(Procs \ Listeners)
    BY NoList, Kinds, Entries
       DEF TypeInv, Has, HasEntry, HasList, HasEvent
  <2>3. unrest' \in Nat
    BY <2>1, CountType
  <2>4. disturbed' \in BOOLEAN
    BY <2>1, <2>2, <2>3, Kinds, Entries
       DEF TypeInv, Has, HasEntry, HasList, HasEvent
  <2>5. cache' \in Entry \cup {None}
    BY <2>1, <2>2, <2>3, <2>4, Kinds, Entries
       DEF TypeInv, Has, HasEntry, HasList, HasEvent
  <2>6. Has(p)'
    BY <2>1, <2>2, <2>3, <2>4, <2>5, Kinds, Entries
       DEF TypeInv, Has, IsAt, HasEntry, HasList, HasEvent, ClientPC,
           ListenerPC, Rest
  <2>7. /\ pc' \in [Procs -> Labels]
        /\ \A q \in Procs : Has(q)'
        /\ \A r \in Replicas : Fetching(r)'
    BY <2>1, <2>2, <2>3, <2>4, <2>5, <2>6, Kinds, Moved
       DEF Labels, ClientPC, ListenerPC, TypeInv, Rest
  <2>8. QED
    BY <2>1, <2>2, <2>3, <2>4, <2>5, <2>7, Kinds DEF TypeInv
<1>25. ASSUME NEW r \in Replicas, NEW primer \in Clients, Restart(r, primer)
       PROVE  TypeInv'
  <2>1. /\ Home[primer] = r
        /\ unrest' = unrest + 1
        /\ keyLock' = [keyLock EXCEPT ![r] = None]
        /\ fetchers' = [fetchers EXCEPT ![r] = {}]
        /\ chans' = [chans EXCEPT ![r] = <<>>]
        /\ pc' = [q \in Procs |-> IF q = primer THEN "get"
                                  ELSE IF Home[q] = r THEN Rest(q) ELSE pc[q]]
        /\ entry' = [q \in Procs |-> IF Home[q] = r THEN None ELSE entry[q]]
        /\ list' = [q \in Procs |-> IF Home[q] = r THEN None ELSE list[q]]
        /\ seen' = [q \in Procs |-> IF Home[q] = r THEN <<>> ELSE seen[q]]
        /\ result' = [q \in Procs |-> IF Home[q] = r THEN None ELSE result[q]]
        /\ req' = [q \in Procs |-> IF Home[q] = r THEN None ELSE req[q]]
        /\ UNCHANGED <<storage, cache, raced>>
    BY <1>25 DEF Restart, Unrest
  <2>2. disturbed' \in BOOLEAN
    BY <1>25 DEF Restart
  <2>3. ASSUME NEW q \in Procs
        PROVE  Has(q)'
    <3>1. CASE q = primer
      BY <2>1, <3>1, Kinds DEF Has, IsAt, HasEntry, HasList, HasEvent, ClientPC
    <3>2. CASE q # primer /\ Home[q] = r
      BY <2>1, <3>2
         DEF Has, IsAt, HasEntry, HasList, HasEvent, Rest, ClientPC, ListenerPC
    <3>3. CASE q # primer /\ Home[q] # r
      <4>1. /\ pc'[q] = pc[q]
            /\ entry'[q] = entry[q]
            /\ list'[q] = list[q]
            /\ req'[q] = req[q]
            /\ Has(q)
        BY <2>1, <3>3 DEF TypeInv
      <4>2. QED
        BY <4>1 DEF Has, IsAt, HasEntry, HasList, HasEvent
    <3>4. QED
      BY <3>1, <3>2, <3>3
  <2>4. ASSUME NEW s \in Replicas, NEW q \in fetchers'[s]
        PROVE  Home[q] = s /\ pc'[q] \in {"list", "wait", "flush"}
    <3>1. s # r /\ q \in fetchers[s] /\ q \in Procs
      BY <2>1, <2>4 DEF TypeInv
    <3>2. Home[q] = s /\ pc[q] \in {"list", "wait", "flush"}
      BY <3>1 DEF TypeInv, Fetching
    <3>3. QED
      BY <2>1, <3>1, <3>2
  <2>5. \A s \in Replicas : Fetching(s)'
    BY <2>4 DEF Fetching
  <2>6. /\ keyLock' \in [Replicas -> Procs \cup {None}]
        /\ fetchers' \in [Replicas -> SUBSET Procs]
        /\ chans' \in [Replicas -> Seq(Procs \ Listeners)]
    BY <2>1, NoList DEF TypeInv
  <2>7. /\ entry' \in [Procs -> Entry \cup {None, Failed}]
        /\ list' \in [Procs -> {None, Failed} \cup SUBSET Charts]
        /\ seen' \in [Procs -> Seq(Procs \ Listeners)]
        /\ result' \in [Procs -> Entry \cup {None, Failed}]
        /\ req' \in [Procs -> Event \cup {None}]
    BY <2>1, NoList DEF TypeInv
  <2>8. pc' \in [Procs -> Labels]
    BY <2>1 DEF TypeInv, Rest, Labels, ClientPC, ListenerPC
  <2>9. unrest' \in Nat
    BY <2>1, CountType
  <2>10. QED
    BY <2>1, <2>2, <2>3, <2>5, <2>6, <2>7, <2>8, <2>9 DEF TypeInv
<1>26. CASE UNCHANGED vars
  BY <1>26 DEF vars, outside, shared, local, history, TypeInv, Has, IsAt,
               HasEntry, HasList, HasEvent, Fetching
<1>27. QED
  BY <1>1, <1>2, <1>3, <1>4, <1>5, <1>6, <1>7, <1>8, <1>9, <1>10, <1>11,
     <1>12, <1>13, <1>14, <1>15, <1>16, <1>17, <1>18, <1>19, <1>20, <1>21,
     <1>22, <1>23, <1>24, <1>25, <1>26 DEF Next, Progress

LEMMA TypeInvOK == TypeInv => TypeOK
BY DEF TypeInv, TypeOK, Has, IsAt

(* Every variable keeps its type, and no action asks an entry, a list or   *)
(* an event that is not there for its parts.                               *)
LEMMA TypeInvariant == Spec => []TypeInv
<1>1. TypeInv /\ [Next]_vars => TypeInv'
  BY TypeStep
<1>2. QED
  BY TypeInit, <1>1, PTL DEF Spec

THEOREM TypeCorrect == Spec => []TypeOK
BY TypeInvariant, TypeInvOK, PTL
-----------------------------------------------------------------------------
(* An entry, wherever it is, has the bytes of its own index.               *)
Rendered(e) == e \in Entry => e.raw = e.entries

RawInv ==
    /\ Rendered(cache)
    /\ \A p \in Procs : Rendered(entry[p]) /\ Rendered(result[p])

LEMMA RenderedEntries ==
    /\ Rendered(None) /\ Rendered(Failed)
    /\ \A S \in SUBSET Charts : Rendered(Regenerated(S))
BY Entries DEF Rendered

LEMMA RawInit == Init => RawInv
BY RenderedEntries, DataAssumption DEF Init, RawInv

LEMMA RawStep ==
  ASSUME TypeInv, RawInv, [Next]_vars
  PROVE  RawInv'
<1> USE RenderedEntries DEF RawInv
<1>0. /\ entry \in [Procs -> Entry \cup {None, Failed}]
      /\ result \in [Procs -> Entry \cup {None, Failed}]
      /\ Clients \subseteq Procs
  BY Kinds DEF TypeInv
<1>1. ASSUME UNCHANGED <<cache, entry, result>>
      PROVE  RawInv'
  BY <1>1
<1>2. ASSUME NEW p \in Procs, UNCHANGED <<cache, result>>,
             NEW e, Rendered(e), entry' = [entry EXCEPT ![p] = e]
      PROVE  RawInv'
  BY <1>0, <1>2
<1>3. ASSUME NEW p \in Clients, GetIndexFile(p)
      PROVE  RawInv'
  BY <1>1, <1>3 DEF GetIndexFile, outside, local
<1>4. ASSUME NEW p \in Refreshers, RebuildIndexForTenant(p)
      PROVE  RawInv'
  BY <1>1, <1>4 DEF RebuildIndexForTenant, outside, local
<1>5. ASSUME NEW p \in Clients, NEW c \in Charts,
             UploadChartPackage(p, c) \/ DeleteChartVersion(p, c)
      PROVE  RawInv'
  BY <1>1, <1>5 DEF UploadChartPackage, DeleteChartVersion, Change
<1>6. ASSUME NEW p \in Procs, NEW l \in Listeners, EmitEvent(p, l)
      PROVE  RawInv'
  BY <1>1, <1>6 DEF EmitEvent, outside
<1>7. ASSUME NEW p \in Procs, InitCacheEntry(p)
      PROVE  RawInv'
  BY <1>2, <1>7 DEF InitCacheEntry, outside
<1>8. ASSUME NEW p \in Procs, NewRepositoryIndex(p)
      PROVE  RawInv'
  <2>1. Rendered(Regenerated({}))
    BY Entries
  <2>2. QED
    BY <1>2, <1>8, <2>1 DEF NewRepositoryIndex
<1>9. ASSUME NEW p \in Procs, SetNewEntry(p)
      PROVE  RawInv'
  BY <1>9 DEF SetNewEntry, Set, local
<1>10. ASSUME NEW p \in Procs, AnswerCached(p) \/ NothingToDo(p)
       PROVE  RawInv'
  BY <1>2, <1>10 DEF AnswerCached, NothingToDo, Finish, outside
<1>11. ASSUME NEW p \in Procs,
              \/ GetChartList(p) \/ FetchChartsInStorage(p)
              \/ FlushFetchers(p) \/ ReadChans(p) \/ AppendChan(p)
       PROVE  RawInv'
  BY <1>1, <1>11 DEF GetChartList, FetchChartsInStorage, FlushFetchers,
                     ReadChans, AppendChan, outside, local
<1>12. ASSUME NEW p \in Procs, CheckLength(p)
       PROVE  RawInv'
  <2>1. UNCHANGED <<cache, result>>
    BY <1>12 DEF CheckLength, outside
  <2>2. entry' = entry \/ entry' = [entry EXCEPT ![p] = None]
    BY <1>12 DEF CheckLength, Lead, Follow
  <2>3. QED
    BY <1>1, <1>2, <2>1, <2>2
<1>13. ASSUME NEW p \in Procs, Work(p)
       PROVE  RawInv'
  <2>1. list[p] \in SUBSET Charts
    BY <1>13 DEF Work, At, TypeInv, Has, HasList
  <2>2. QED
    BY <1>2, <1>13, <2>1 DEF Work, outside
<1>14. ASSUME NEW p \in Procs, WorkFails(p)
       PROVE  RawInv'
  BY <1>2, <1>14 DEF WorkFails
<1>15. ASSUME NEW p \in Procs, SaveCacheEntry(p)
       PROVE  RawInv'
  BY <1>15 DEF SaveCacheEntry, Set
<1>16. ASSUME NEW p \in Procs, SendResult(p)
       PROVE  RawInv'
  BY <1>0, <1>16 DEF SendResult, outside
<1>17. ASSUME NEW p \in Procs, ClearChans(p)
       PROVE  RawInv'
  BY <1>2, <1>17 DEF ClearChans, outside
<1>18. ASSUME NEW p \in Procs, ReceiveResult(p)
       PROVE  RawInv'
  BY <1>0, <1>18 DEF ReceiveResult, Finish, outside
<1>19. ASSUME NEW p \in Procs, ApplyEvent(p)
       PROVE  RawInv'
  <2>1. PICK S : entry' = [entry EXCEPT ![p] = Regenerated(S)]
    BY <1>19 DEF ApplyEvent
  <2>2. Rendered(Regenerated(S))
    BY DEF Rendered, Regenerated
  <2>3. QED
    BY <1>2, <1>19, <2>1, <2>2 DEF ApplyEvent, outside
<1>20. ASSUME NEW p \in Procs, SaveEventEntry(p)
       PROVE  RawInv'
  BY <1>0, <1>20 DEF SaveEventEntry, Finish, Set
<1>21. ASSUME NEW r \in Replicas, NEW primer \in Clients, Restart(r, primer)
       PROVE  RawInv'
  BY <1>21 DEF Restart
<1>22. CASE UNCHANGED vars
  BY <1>1, <1>22 DEF vars, outside, local
<1>23. QED
  BY <1>3, <1>4, <1>5, <1>6, <1>7, <1>8, <1>9, <1>10, <1>11, <1>12, <1>13,
     <1>14, <1>15, <1>16, <1>17, <1>18, <1>19, <1>20, <1>21, <1>22
     DEF Next, Progress

(* Whatever fails or crashes in between, the index in Redis and the index  *)
(* of every answer are rendered from the entries beside them.              *)
THEOREM RawIsFaithful == Spec => []RawMatchesEntries
<1>1. TypeInv /\ RawInv /\ [Next]_vars => RawInv'
  BY RawStep
<1>2. TypeInv /\ RawInv => RawMatchesEntries
  BY DEF TypeInv, RawInv, Rendered, RawMatchesEntries
<1>3. QED
  BY RawInit, TypeInvariant, <1>1, <1>2, PTL DEF Spec
-----------------------------------------------------------------------------
(* The goroutines that RegeneratedIndexesChans is about.                   *)
Callers == Procs \ Listeners

Works(q) == q \in Callers /\ pc[q] \in {"work", "save", "send all"}

(* Before CheckLength it is decided who will have to wait.                 *)
Waits(p) ==
    \/ pc[p] = "await"
    \/ pc[p] = "length" /\ Len(chans[Home[p]]) # 1

Neighbours(p, q) == Home[p] = Home[q]

(* At most one goroutine of a replica is at the regeneration, and at most  *)
(* one is about to look whether it is the first.                           *)
Alone ==
    \A p, q \in Callers : Neighbours(p, q) =>
        /\ Works(p) /\ Works(q) => p = q
        /\ pc[p] = "length" /\ pc[q] = "length" => p = q
        /\ pc[p] = "length" /\ Works(q) => Len(chans[Home[p]]) # 1

(* The slice is there as long as somebody works for it.                    *)
SliceHasWorker ==
    /\ \A q \in Callers : Works(q) => chans[Home[q]] # <<>>
    /\ \A r \in Replicas : chans[r] # <<>> =>
           \E q \in Callers :
               /\ Home[q] = r
               /\ Works(q) \/ (pc[q] = "length" /\ Len(chans[r]) = 1)

(* A goroutine finds itself in the slice it appended to, unless that was   *)
(* cleared, and a worker in the one it will send to.                       *)
OnOwnList ==
    \A p \in Callers :
        /\ pc[p] = "length" /\ chans[Home[p]] # <<>>
               => OnTheList(p, chans[Home[p]])
        /\ pc[p] \in {"work", "save"} => OnTheList(p, chans[Home[p]])
        /\ pc[p] = "send all" => OnTheList(p, seen[p]) \/ result[p] # None

Served ==
    \A p \in Callers : Waits(p) /\ result[p] = None =>
        \E q \in Callers : Serves(q, p)

WaitInv == ~raced => Alone /\ SliceHasWorker /\ OnOwnList /\ Served

LEMMA WaitTypes ==
  ASSUME TypeInv
  PROVE  /\ pc \in [Procs -> Labels]
         /\ chans \in [Replicas -> Seq(Procs \ Listeners)]
         /\ seen \in [Procs -> Seq(Procs \ Listeners)]
         /\ result \in [Procs -> Entry \cup {None, Failed}]
         /\ Callers \subseteq Procs
         /\ \A p \in Procs : Home[p] \in Replicas
         /\ \A p \in Procs : pc[p] = "send all" => p \in Callers
         /\ \A p \in Procs :
               pc[p] \in {"diff", "append", "length", "work", "await"}
                   => p \in Callers
BY Kinds DEF TypeInv, Has, IsAt, ListenerPC, Callers

LEMMA WaitInit == Init => WaitInv
<1> SUFFICES ASSUME Init
             PROVE  Alone /\ SliceHasWorker /\ OnOwnList /\ Served
  BY DEF WaitInv
<1>1. \A p \in Callers : pc[p] = "idle"
  BY DEF Init, Callers, Rest
<1>2. \A r \in Replicas : chans[r] = <<>>
  BY DEF Init
<1>3. QED
  BY <1>1, <1>2
     DEF Alone, SliceHasWorker, OnOwnList, Served, Works, Waits, Neighbours

(* Steps that concern neither the slices nor the goroutines at them.       *)
Concerned == {"length", "work", "save", "send all", "await"}

LEMMA WaitFrame ==
  ASSUME TypeInv, WaitInv, UNCHANGED <<chans, result, raced>>,
         \A q \in Callers :
             \/ pc[q] \notin Concerned /\ pc'[q] \notin Concerned
             \/ pc'[q] = pc[q] /\ seen'[q] = seen[q]
  PROVE  WaitInv'
<1> SUFFICES ASSUME ~raced
             PROVE  Alone' /\ SliceHasWorker' /\ OnOwnList' /\ Served'
  BY DEF WaitInv
<1> USE DEF Concerned
<1>1. Alone /\ SliceHasWorker /\ OnOwnList /\ Served
  BY DEF WaitInv
<1>2. \A q \in Callers : /\ Works(q)' <=> Works(q)
                         /\ pc'[q] = "length" <=> pc[q] = "length"
                         /\ Waits(q)' <=> Waits(q)
  BY DEF Works, Waits
<1>3. Alone'
  BY <1>1, <1>2 DEF Alone, Neighbours
<1>4. SliceHasWorker'
  BY <1>1, <1>2 DEF SliceHasWorker
<1>5. OnOwnList'
  BY <1>1 DEF OnOwnList
<1>6. \A p, q \in Callers : Serves(q, p) => Serves(q, p)'
  BY DEF Serves, At
<1>7. Served'
  BY <1>1, <1>2, <1>6 DEF Served
<1>8. QED
  BY <1>3, <1>4, <1>5, <1>7

LEMMA WaitAppend ==
  ASSUME TypeInv, WaitInv, NEW p \in Procs, AppendChan(p)
  PROVE  WaitInv'
<1> DEFINE r == Home[p]
<1> SUFFICES ASSUME ~raced'
             PROVE  Alone' /\ SliceHasWorker' /\ OnOwnList' /\ Served'
  BY DEF WaitInv
<1>1. /\ ~raced
      /\ seen[p] = chans[r]
      /\ Relying(p) = {}
      /\ chans' = [chans EXCEPT ![r] = Append(chans[r], p)]
      /\ seen' = [seen EXCEPT ![p] = <<>>]
      /\ pc' = [pc EXCEPT ![p] = "length"]
      /\ pc[p] = "append"
      /\ result' = result
  BY DEF AppendChan, Goto, At
<1>2. Alone /\ SliceHasWorker /\ OnOwnList /\ Served
  BY <1>1 DEF WaitInv
<1>3. /\ r \in Replicas
      /\ p \in Callers
      /\ chans[r] \in Seq(Procs \ Listeners)
      /\ Callers \subseteq Procs
      /\ p \in Procs \ Listeners
  BY <1>1, WaitTypes DEF Callers
<1>4. /\ \A q \in Procs :
             OnTheList(q, chans'[r]) <=> q = p \/ OnTheList(q, chans[r])
      /\ chans'[r] # <<>>
      /\ Len(chans'[r]) = Len(chans[r]) + 1
      /\ Len(chans[r]) \in Nat
      /\ Len(chans[r]) = 0 <=> chans[r] = <<>>
      /\ \A s \in Replicas \ {r} : chans'[s] = chans[s]
  <2>1. chans'[r] = Append(chans[r], p)
    BY <1>1, <1>3, WaitTypes
  <2>2. /\ Append(chans[r], p) # <<>>
        /\ Len(Append(chans[r], p)) = Len(chans[r]) + 1
        /\ Len(chans[r]) \in Nat
        /\ Len(chans[r]) = 0 <=> chans[r] = <<>>
    BY <1>3
  <2>3. \A q \in Procs :
            OnTheList(q, Append(chans[r], p))
                <=> q = p \/ OnTheList(q, chans[r])
    BY <1>3, AppendList
  <2>4. \A s \in Replicas \ {r} : chans'[s] = chans[s]
    BY <1>1, WaitTypes
  <2>5. QED
    BY <2>1, <2>2, <2>3, <2>4
<1>5. \A q \in Callers \ {p} :
          /\ pc'[q] = pc[q]
          /\ seen'[q] = seen[q]
          /\ Home[q] = r => pc[q] \notin {"length", "send all"}
  BY <1>1, <1>3, WaitTypes DEF Relying, At
<1>6. pc'[p] = "length" /\ ~Works(p) /\ ~Works(p)'
  BY <1>1, <1>3, WaitTypes DEF Works
<1>7. \A q \in Callers : Works(q)' <=> Works(q)
  BY <1>5, <1>6 DEF Works
<1>8. /\ \A q \in Callers : Works(q) => chans[Home[q]] # <<>>
      /\ \A q \in Callers : Home[q] \in Replicas
  BY <1>2, <1>3, WaitTypes DEF SliceHasWorker
<1>9. ASSUME NEW x \in Callers, NEW y \in Callers, Home[x] = Home[y]
      PROVE  /\ Works(x)' /\ Works(y)' => x = y
             /\ pc'[x] = "length" /\ pc'[y] = "length" => x = y
             /\ pc'[x] = "length" /\ Works(y)' => Len(chans'[Home[x]]) # 1
  <2>1. Works(x)' /\ Works(y)' => x = y
    BY <1>2, <1>7, <1>9 DEF Alone, Neighbours
  <2>2. pc'[x] = "length" /\ pc'[y] = "length" => x = y
    BY <1>2, <1>5, <1>6, <1>9 DEF Alone, Neighbours
  <2>3. CASE Home[x] = r
    BY <2>1, <2>2, <2>3, <1>4, <1>7, <1>8, <1>9
  <2>4. CASE Home[x] # r
    <3>1. chans'[Home[x]] = chans[Home[x]] /\ x # p
      BY <2>4, <1>4, <1>8
    <3>2. pc[x] = "length" /\ Works(y) => Len(chans[Home[x]]) # 1
      BY <1>2, <1>9 DEF Alone, Neighbours
    <3>3. QED
      BY <2>1, <2>2, <3>1, <3>2, <1>5, <1>7
  <2>5. QED
    BY <2>3, <2>4
<1>10. \A s \in Replicas : chans[s] # <<>> =>
           \E q \in Callers :
               /\ Home[q] = s
               /\ Works(q) \/ (pc[q] = "length" /\ Len(chans[s]) = 1)
  BY <1>2 DEF SliceHasWorker
<1>11. SliceHasWorker'
  <2>1. \A q \in Callers : Works(q)' => chans'[Home[q]] # <<>>
    BY <1>4, <1>7, <1>8
  <2>2. ASSUME NEW s \in Replicas, chans'[s] # <<>>
        PROVE  \E q \in Callers :
                   /\ Home[q] = s
                   /\ Works(q)' \/ (pc'[q] = "length" /\ Len(chans'[s]) = 1)
    <3>1. CASE s = r /\ chans[r] = <<>>
      BY <3>1, <1>3, <1>4, <1>6
    <3>2. CASE s = r /\ chans[r] # <<>>
      <4>1. PICK q \in Callers :
                /\ Home[q] = r
                /\ Works(q) \/ (pc[q] = "length" /\ Len(chans[r]) = 1)
        BY <3>2, <1>10
      <4>2. Works(q)
        BY <4>1, <1>1, <1>5
      <4>3. QED
        BY <3>2, <4>1, <4>2, <1>7
    <3>3. CASE s # r
      <4>1. chans'[s] = chans[s]
        BY <3>3, <1>4
      <4>2. PICK q \in Callers :
                /\ Home[q] = s
                /\ Works(q) \/ (pc[q] = "length" /\ Len(chans[s]) = 1)
        BY <2>2, <4>1, <1>10
      <4>3. QED
        BY <3>3, <4>1, <4>2, <1>1, <1>5, <1>7
    <3>4. QED
      BY <3>1, <3>2, <3>3
  <2>3. QED
    BY <2>1, <2>2 DEF SliceHasWorker
<1>12. OnOwnList'
  BY <1>1, <1>2, <1>3, <1>4, <1>5, <1>6, WaitTypes DEF OnOwnList
<1>13. ASSUME NEW q \in Callers, NEW o \in Callers, Serves(o, q)
       PROVE  Serves(o, q)'
  BY <1>13, <1>1, <1>3, <1>4, <1>5, WaitTypes DEF Serves, At
<1>14. ASSUME NEW q \in Callers, Waits(q)', result'[q] = None
       PROVE  \E o \in Callers : Serves(o, q)'
  <2>1. CASE q = p
    <3>1. chans[r] # <<>>
      BY <1>14, <2>1, <1>4, <1>6 DEF Waits
    <3>2. PICK o \in Callers :
              /\ Home[o] = r
              /\ Works(o) \/ (pc[o] = "length" /\ Len(chans[r]) = 1)
      BY <3>1, <1>3, <1>10
    <3>3. pc'[o] \in {"work", "save"} /\ o # p
      BY <3>2, <1>1, <1>5, <1>6 DEF Works
    <3>4. QED
      BY <3>2, <3>3, <2>1, <1>3, <1>4 DEF Serves, At
  <2>2. CASE q # p
    <3>1. Waits(q)
      BY <1>14, <2>2, <1>3, <1>4, <1>5, WaitTypes DEF Waits
    <3>2. QED
      BY <3>1, <1>1, <1>2, <1>13, <1>14 DEF Served
  <2>3. QED
    BY <2>1, <2>2
<1>15. QED
  BY <1>9, <1>11, <1>12, <1>14 DEF Served, Alone, Neighbours

(* A worker moves on to sending: it ranges over the slice as it is, and    *)
(* whoever it would have served it still serves.                           *)
LEMMA WaitRange ==
  ASSUME TypeInv, WaitInv, NEW p \in Callers, pc[p] \in {"work", "save"},
         UNCHANGED <<chans, result, raced>>,
         \/ /\ pc' = [pc EXCEPT ![p] = "save"]
            /\ UNCHANGED seen
         \/ /\ pc' = [pc EXCEPT ![p] = "send all"]
            /\ seen' = [seen EXCEPT ![p] = chans[Home[p]]]
  PROVE  WaitInv'
<1> SUFFICES ASSUME ~raced
             PROVE  Alone' /\ SliceHasWorker' /\ OnOwnList' /\ Served'
  BY DEF WaitInv
<1>1. Alone /\ SliceHasWorker /\ OnOwnList /\ Served
  BY DEF WaitInv
<1>2. /\ pc'[p] \in {"save", "send all"}
      /\ pc'[p] = "send all" => seen'[p] = chans[Home[p]]
      /\ \A q \in Callers \ {p} : pc'[q] = pc[q] /\ seen'[q] = seen[q]
  BY WaitTypes
<1>3. \A q \in Callers : /\ Works(q)' <=> Works(q)
                         /\ pc'[q] = "length" <=> pc[q] = "length"
                         /\ Waits(q)' <=> Waits(q)
  BY <1>2 DEF Works, Waits
<1>4. Alone'
  BY <1>1, <1>3 DEF Alone, Neighbours
<1>5. SliceHasWorker'
  BY <1>1, <1>3 DEF SliceHasWorker
<1>6. OnOwnList'
  BY <1>1, <1>2 DEF OnOwnList
<1>7. \A x, y \in Callers : Serves(y, x) => Serves(y, x)'
  BY <1>2 DEF Serves, At
<1>8. Served'
  BY <1>1, <1>3, <1>7 DEF Served
<1>9. QED
  BY <1>4, <1>5, <1>6, <1>8

LEMMA WaitCheck ==
  ASSUME TypeInv, WaitInv, NEW p \in Procs, CheckLength(p)
  PROVE  WaitInv'
<1> DEFINE r == Home[p]
<1> SUFFICES ASSUME ~raced
             PROVE  Alone' /\ SliceHasWorker' /\ OnOwnList' /\ Served'
  BY DEF WaitInv, CheckLength, history
<1>1. /\ UNCHANGED <<chans, seen, result>>
      /\ pc[p] = "length"
      /\ pc' = [pc EXCEPT ![p] = IF Len(chans[r]) = 1 THEN "work" ELSE "await"]
  BY DEF CheckLength, Lead, Follow, Goto, At, shared
<1>2. Alone /\ SliceHasWorker /\ OnOwnList /\ Served
  BY DEF WaitInv, CheckLength, history
<1>3. r \in Replicas /\ p \in Callers /\ chans[r] \in Seq(Procs \ Listeners)
  BY <1>1, WaitTypes
<1>4. /\ pc'[p] = IF Len(chans[r]) = 1 THEN "work" ELSE "await"
      /\ \A q \in Callers \ {p} : pc'[q] = pc[q]
  BY <1>1, WaitTypes
<1>5. \A q \in Callers \ {p} :
          /\ Works(q)' <=> Works(q)
          /\ pc'[q] = "length" <=> pc[q] = "length"
          /\ Waits(q)' <=> Waits(q)
  BY <1>1, <1>4 DEF Works, Waits
<1>6. \A q \in Callers \ {p} : Home[q] = r =>
          /\ pc[q] # "length"
          /\ Works(q) => Len(chans[r]) # 1
  BY <1>1, <1>2, <1>3 DEF Alone, Neighbours
<1>7. chans[r] = <<>> => Len(chans[r]) = 0
  OBVIOUS
<1>8. \A x, y \in Callers : Serves(y, x) => Serves(y, x)'
  BY <1>1, <1>4 DEF Serves, At
<1>9. CASE Len(chans[r]) = 1
  <2>1. pc'[p] = "work" /\ Works(p)' /\ ~Waits(p)'
    BY <1>3, <1>4, <1>9 DEF Works, Waits
  <2>2. Alone'
    BY <1>2, <1>5, <1>6, <1>9, <2>1, <1>1 DEF Alone, Neighbours
  <2>3. SliceHasWorker'
    BY <1>1, <1>2, <1>3, <1>5, <1>7, <1>9, <2>1 DEF SliceHasWorker
  <2>4. OnTheList(p, chans[r])
    <3>1. chans[r] # <<>>
      BY <1>7, <1>9
    <3>2. QED
      BY <1>1, <1>2, <1>3, <3>1 DEF OnOwnList
  <2>5. OnOwnList'
    BY <1>1, <1>2, <1>4, <2>1, <2>4 DEF OnOwnList
  <2>6. Served'
    BY <1>1, <1>2, <1>5, <1>8, <2>1 DEF Served
  <2>7. QED
    BY <2>2, <2>3, <2>5, <2>6
<1>10. CASE Len(chans[r]) # 1
  <2>1. pc'[p] = "await" /\ ~Works(p)' /\ ~Works(p) /\ Waits(p)
    <3>1. pc'[p] = "await"
      BY <1>4, <1>10
    <3>2. QED
      BY <1>1, <1>10, <3>1 DEF Works, Waits
  <2>2. Alone'
    BY <1>2, <1>5, <2>1, <1>1 DEF Alone, Neighbours
  <2>3. SliceHasWorker'
    <3>1. ASSUME NEW s \in Replicas, chans[s] # <<>>
          PROVE  \E q \in Callers :
                     /\ Home[q] = s
                     /\ Works(q)' \/ (pc'[q] = "length" /\ Len(chans[s]) = 1)
      <4>1. PICK q \in Callers :
                /\ Home[q] = s
                /\ Works(q) \/ (pc[q] = "length" /\ Len(chans[s]) = 1)
        BY <3>1, <1>2 DEF SliceHasWorker
      <4>2. q # p
        BY <4>1, <2>1, <1>10
      <4>3. QED
        BY <4>1, <4>2, <1>5
    <3>2. QED
      BY <3>1, <1>1, <1>2, <1>5, <2>1 DEF SliceHasWorker
  <2>4. OnOwnList'
    BY <1>1, <1>2, <1>4, <2>1 DEF OnOwnList
  <2>5. Served'
    BY <1>1, <1>2, <1>5, <1>8, <2>1 DEF Served
  <2>6. QED
    BY <2>2, <2>3, <2>4, <2>5
<1>11. QED
  BY <1>9, <1>10

LEMMA WaitSend ==
  ASSUME TypeInv, WaitInv, NEW p \in Procs, SendResult(p)
  PROVE  WaitInv'
<1> DEFINE h == Head(seen[p])
<1> SUFFICES ASSUME ~raced
             PROVE  Alone' /\ SliceHasWorker' /\ OnOwnList' /\ Served'
  BY DEF WaitInv, SendResult, history
<1>1. /\ pc[p] = "send all"
      /\ seen[p] # <<>>
      /\ result' = [result EXCEPT ![h] = entry[p]]
      /\ seen' = [seen EXCEPT ![p] = Tail(seen[p])]
      /\ UNCHANGED <<pc, chans>>
  BY DEF SendResult, At, shared
<1>2. Alone /\ SliceHasWorker /\ OnOwnList /\ Served
  BY DEF WaitInv, SendResult, history
<1>3. /\ entry[p] # None
      /\ seen[p] \in Seq(Procs \ Listeners)
      /\ h \in Procs
  <2>1. entry[p] # None
    BY <1>1, Entries DEF TypeInv, Has, HasEntry
  <2>2. seen[p] \in Seq(Procs \ Listeners)
    BY WaitTypes
  <2>3. QED
    BY <1>1, <2>1, <2>2, HeadTailProperties
<1>4. /\ result'[h] # None
      /\ \A q \in Procs : result[q] # None => result'[q] # None
      /\ \A q \in Callers \ {p} : seen'[q] = seen[q]
      /\ seen'[p] = Tail(seen[p])
  BY <1>1, <1>3, WaitTypes
<1>5. \A q \in Procs :
          OnTheList(q, seen[p]) => q = h \/ OnTheList(q, Tail(seen[p]))
  BY <1>1, <1>3, TailList
<1>6. \A q \in Callers : (Works(q)' <=> Works(q)) /\ (Waits(q)' <=> Waits(q))
  BY <1>1 DEF Works, Waits
<1>7. Alone'
  BY <1>1, <1>2, <1>6 DEF Alone, Neighbours
<1>8. SliceHasWorker'
  BY <1>1, <1>2, <1>6 DEF SliceHasWorker
<1>9. OnOwnList'
  BY <1>1, <1>2, <1>4, <1>5, WaitTypes DEF OnOwnList
<1>10. ASSUME NEW x \in Callers, NEW y \in Callers, Serves(y, x), x # h
       PROVE  Serves(y, x)'
  <2>1. CASE y = p
    BY <1>1, <1>4, <1>5, <1>10, <2>1, WaitTypes DEF Serves, At
  <2>2. CASE y # p
    BY <1>1, <1>4, <1>10, <2>2 DEF Serves, At
  <2>3. QED
    BY <2>1, <2>2
<1>11. ASSUME NEW x \in Callers, Waits(x)', result'[x] = None
       PROVE  \E y \in Callers : Serves(y, x)'
  <2>1. Waits(x) /\ result[x] = None /\ x # h
    BY <1>4, <1>6, <1>11, WaitTypes
  <2>2. PICK y \in Callers : Serves(y, x)
    BY <2>1, <1>2 DEF Served
  <2>3. QED
    BY <1>10, <2>1, <2>2
<1>12. QED
  BY <1>7, <1>8, <1>9, <1>11 DEF Served

LEMMA WaitClear ==
  ASSUME TypeInv, WaitInv, NEW p \in Procs, ClearChans(p)
  PROVE  WaitInv'
<1> DEFINE r == Home[p]
<1> SUFFICES ASSUME ~raced
             PROVE  Alone' /\ SliceHasWorker' /\ OnOwnList' /\ Served'
  BY DEF WaitInv, ClearChans, history
<1>1. /\ pc[p] = "send all"
      /\ seen[p] = <<>>
      /\ chans' = [chans EXCEPT ![r] = <<>>]
      /\ pc' = [pc EXCEPT ![p] = "await"]
      /\ UNCHANGED <<seen, result>>
  BY DEF ClearChans, Goto, At
<1>2. Alone /\ SliceHasWorker /\ OnOwnList /\ Served
  BY DEF WaitInv, ClearChans, history
<1>3. /\ r \in Replicas
      /\ p \in Callers
      /\ \A q \in Callers : Home[q] \in Replicas
  BY <1>1, WaitTypes
<1>4. /\ pc'[p] = "await"
      /\ \A q \in Callers \ {p} : pc'[q] = pc[q]
      /\ chans'[r] = <<>>
      /\ \A s \in Replicas \ {r} : chans'[s] = chans[s]
      /\ Len(<<>>) = 0
  BY <1>1, <1>3, WaitTypes
<1>5. Works(p) /\ ~Works(p)'
  BY <1>1, <1>3, <1>4 DEF Works
<1>6. \A q \in Callers \ {p} : Works(q)' <=> Works(q)
  BY <1>4 DEF Works
<1>7. \A q \in Callers \ {p} : Home[q] = r =>
          ~Works(q) /\ (pc[q] = "length" => Len(chans[r]) # 1)
  BY <1>2, <1>3, <1>5 DEF Alone, Neighbours
<1>8. ASSUME NEW x \in Callers, NEW y \in Callers, Home[x] = Home[y]
      PROVE  /\ Works(x)' /\ Works(y)' => x = y
             /\ pc'[x] = "length" /\ pc'[y] = "length" => x = y
             /\ pc'[x] = "length" /\ Works(y)' => Len(chans'[Home[x]]) # 1
  <2>1. Works(x)' /\ Works(y)' => x = y
    BY <1>2, <1>5, <1>6, <1>8 DEF Alone, Neighbours
  <2>2. pc'[x] = "length" /\ pc'[y] = "length" => x = y
    BY <1>2, <1>4, <1>8 DEF Alone, Neighbours
  <2>3. ASSUME pc'[x] = "length", Works(y)'
        PROVE  Len(chans'[Home[x]]) # 1
    <3>1. x # p /\ pc[x] = "length" /\ y # p /\ Works(y)
      BY <2>3, <1>4, <1>5, <1>6
    <3>2. Home[x] # r
      BY <3>1, <1>7, <1>8
    <3>3. chans'[Home[x]] = chans[Home[x]]
      BY <3>2, <1>3, <1>4
    <3>4. Len(chans[Home[x]]) # 1
      BY <3>1, <1>2, <1>8 DEF Alone, Neighbours
    <3>5. QED
      BY <3>3, <3>4
  <2>4. QED
    BY <2>1, <2>2, <2>3
<1>9. SliceHasWorker'
  <2>1. ASSUME NEW q \in Callers, Works(q)'
        PROVE  chans'[Home[q]] # <<>>
    <3>1. q # p /\ Works(q)
      BY <2>1, <1>5, <1>6
    <3>2. chans'[Home[q]] = chans[Home[q]]
      BY <3>1, <1>3, <1>4, <1>7
    <3>3. QED
      BY <3>1, <3>2, <1>2 DEF SliceHasWorker
  <2>2. ASSUME NEW s \in Replicas, chans'[s] # <<>>
        PROVE  \E q \in Callers :
                   /\ Home[q] = s
                   /\ Works(q)' \/ (pc'[q] = "length" /\ Len(chans'[s]) = 1)
    <3>1. s # r /\ chans'[s] = chans[s]
      BY <2>2, <1>4
    <3>2. PICK q \in Callers :
              /\ Home[q] = s
              /\ Works(q) \/ (pc[q] = "length" /\ Len(chans[s]) = 1)
      BY <2>2, <3>1, <1>2 DEF SliceHasWorker
    <3>3. q # p
      BY <3>1, <3>2
    <3>4. QED
      BY <3>1, <3>2, <3>3, <1>4, <1>6
  <2>3. QED
    BY <2>1, <2>2 DEF SliceHasWorker
<1>10. ASSUME NEW q \in Callers
       PROVE  /\ pc'[q] = "length" /\ chans'[Home[q]] # <<>>
                     => OnTheList(q, chans'[Home[q]])
              /\ pc'[q] \in {"work", "save"} => OnTheList(q, chans'[Home[q]])
              /\ pc'[q] = "send all"
                     => OnTheList(q, seen'[q]) \/ result'[q] # None
  <2>1. CASE q = p
    BY <2>1, <1>4
  <2>2. CASE q # p /\ Home[q] = r
    <3>1. ~Works(q) /\ pc'[q] = pc[q]
      BY <2>2, <1>4, <1>7
    <3>2. pc'[q] \notin {"work", "save", "send all"}
      BY <3>1 DEF Works
    <3>3. QED
      BY <2>2, <3>2, <1>4
  <2>3. CASE q # p /\ Home[q] # r
    <3>1. pc'[q] = pc[q] /\ chans'[Home[q]] = chans[Home[q]]
      BY <2>3, <1>3, <1>4
    <3>2. QED
      BY <3>1, <1>1, <1>2 DEF OnOwnList
  <2>4. QED
    BY <2>1, <2>2, <2>3
<1>11. ASSUME NEW x \in Callers, Waits(x)', result'[x] = None
       PROVE  \E y \in Callers : Serves(y, x)'
  <2>1. x # p
    BY <1>1, <1>2, <1>3, <1>11, EmptyList DEF OnOwnList
  <2>2. Waits(x)
    <3>1. CASE Home[x] = r
      BY <3>1, <2>1, <1>4, <1>7, <1>11 DEF Waits
    <3>2. CASE Home[x] # r
      BY <3>2, <2>1, <1>3, <1>4, <1>11 DEF Waits
    <3>3. QED
      BY <3>1, <3>2
  <2>3. PICK y \in Callers : Serves(y, x)
    BY <2>2, <1>1, <1>2, <1>11 DEF Served
  <2>4. y # p
    BY <2>3, <1>1, EmptyList DEF Serves, At
  <2>5. Works(y) /\ Home[y] = Home[x]
    BY <2>3 DEF Serves, At, Works
  <2>6. Home[x] # r
    BY <2>4, <2>5, <1>7
  <2>7. pc'[y] = pc[y] /\ chans'[Home[x]] = chans[Home[x]]
    BY <2>4, <2>6, <1>3, <1>4
  <2>8. QED
    BY <2>3, <2>7, <1>1 DEF Serves, At
<1>12. QED
  BY <1>8, <1>9, <1>10, <1>11 DEF Alone, Neighbours, OnOwnList, Served

LEMMA WaitReceive ==
  ASSUME TypeInv, WaitInv, NEW p \in Procs, ReceiveResult(p)
  PROVE  WaitInv'
<1> SUFFICES ASSUME ~raced
             PROVE  Alone' /\ SliceHasWorker' /\ OnOwnList' /\ Served'
  BY DEF WaitInv, ReceiveResult, history
<1>1. /\ pc[p] = "await"
      /\ pc' = [pc EXCEPT ![p] = Rest(p)]
      /\ result' = [result EXCEPT ![p] = None]
      /\ seen' = [seen EXCEPT ![p] = <<>>]
      /\ UNCHANGED chans
  BY DEF ReceiveResult, Finish, Goto, At, shared
<1>2. Alone /\ SliceHasWorker /\ OnOwnList /\ Served
  BY DEF WaitInv, ReceiveResult, history
<1>3. /\ pc'[p] \in {"idle", "receive"}
      /\ \A q \in Callers \ {p} : /\ pc'[q] = pc[q]
                                  /\ seen'[q] = seen[q]
                                  /\ result'[q] = result[q]
  BY <1>1, WaitTypes DEF Rest
<1>4. /\ \A q \in Callers : /\ Works(q)' <=> Works(q)
                            /\ pc'[q] = "length" <=> pc[q] = "length"
      /\ \A q \in Callers : Waits(q)' => q # p /\ Waits(q)
  BY <1>1, <1>3 DEF Works, Waits
<1>5. Alone'
  BY <1>1, <1>2, <1>4 DEF Alone, Neighbours
<1>6. SliceHasWorker'
  BY <1>1, <1>2, <1>4 DEF SliceHasWorker
<1>7. OnOwnList'
  BY <1>1, <1>2, <1>3 DEF OnOwnList
<1>8. \A x, y \in Callers : Serves(y, x) => Serves(y, x)'
  BY <1>1, <1>3 DEF Serves, At
<1>9. Served'
  BY <1>2, <1>3, <1>4, <1>8 DEF Served
<1>10. QED
  BY <1>5, <1>6, <1>7, <1>9

LEMMA WaitRestart ==
  ASSUME TypeInv, WaitInv, NEW r \in Replicas, NEW primer \in Clients,
         Restart(r, primer)
  PROVE  WaitInv'
<1> SUFFICES ASSUME ~raced
             PROVE  Alone' /\ SliceHasWorker' /\ OnOwnList' /\ Served'
  BY DEF WaitInv, Restart
<1>1. /\ Home[primer] = r
      /\ chans' = [chans EXCEPT ![r] = <<>>]
      /\ pc' = [q \in Procs |-> IF q = primer THEN "get"
                                ELSE IF Home[q] = r THEN Rest(q) ELSE pc[q]]
      /\ seen' = [q \in Procs |-> IF Home[q] = r THEN <<>> ELSE seen[q]]
      /\ result' = [q \in Procs |-> IF Home[q] = r THEN None ELSE result[q]]
  BY DEF Restart
<1>2. Alone /\ SliceHasWorker /\ OnOwnList /\ Served
  BY DEF WaitInv, Restart
<1>3. ASSUME NEW q \in Callers, Home[q] = r
      PROVE  pc'[q] \notin Concerned /\ ~Works(q)' /\ ~Waits(q)'
  BY <1>1, <1>3, WaitTypes DEF Rest, Concerned, Works, Waits
<1>4. ASSUME NEW q \in Callers, Home[q] # r
      PROVE  /\ pc'[q] = pc[q]
             /\ seen'[q] = seen[q]
             /\ result'[q] = result[q]
             /\ chans'[Home[q]] = chans[Home[q]]
             /\ Works(q)' <=> Works(q)
             /\ Waits(q)' <=> Waits(q)
  BY <1>1, <1>4, WaitTypes DEF Works, Waits
<1>5. Alone'
  <2>1. ASSUME NEW x \in Callers, NEW y \in Callers, Home[x] = Home[y]
        PROVE  /\ Works(x)' /\ Works(y)' => x = y
               /\ pc'[x] = "length" /\ pc'[y] = "length" => x = y
               /\ pc'[x] = "length" /\ Works(y)' => Len(chans'[Home[x]]) # 1
    <3>1. CASE Home[x] = r
      BY <3>1, <2>1, <1>3 DEF Concerned
    <3>2. CASE Home[x] # r
      BY <3>2, <2>1, <1>2, <1>4 DEF Alone, Neighbours
    <3>3. QED
      BY <3>1, <3>2
  <2>2. QED
    BY <2>1 DEF Alone, Neighbours
<1>6. \A q \in Callers : Works(q)' => chans'[Home[q]] # <<>>
  BY <1>2, <1>3, <1>4 DEF SliceHasWorker
<1>7. ASSUME NEW s \in Replicas, chans'[s] # <<>>
      PROVE  \E q \in Callers :
                 /\ Home[q] = s
                 /\ Works(q)' \/ (pc'[q] = "length" /\ Len(chans'[s]) = 1)
  <2>1. s # r /\ chans'[s] = chans[s]
    BY <1>1, <1>7, WaitTypes
  <2>2. PICK q \in Callers :
            /\ Home[q] = s
            /\ Works(q) \/ (pc[q] = "length" /\ Len(chans[s]) = 1)
    BY <1>2, <1>7, <2>1 DEF SliceHasWorker
  <2>3. QED
    BY <1>4, <2>1, <2>2
<1>8. OnOwnList'
  BY <1>2, <1>3, <1>4 DEF OnOwnList, Concerned
<1>9. ASSUME NEW x \in Callers, Waits(x)', result'[x] = None
      PROVE  \E y \in Callers : Serves(y, x)'
  <2>1. Home[x] # r
    BY <1>3, <1>9
  <2>2. PICK y \in Callers : Serves(y, x)
    BY <1>2, <1>4, <1>9, <2>1 DEF Served
  <2>3. Home[y] = Home[x]
    BY <2>2 DEF Serves
  <2>4. QED
    BY <1>4, <2>1, <2>2, <2>3 DEF Serves, At
<1>10. QED
  BY <1>5, <1>6, <1>7, <1>8, <1>9 DEF SliceHasWorker, Served

LEMMA WaitFlush ==
  ASSUME TypeInv, WaitInv, NEW p \in Procs, FlushFetchers(p)
  PROVE  WaitInv'
<1>1. /\ UNCHANGED <<chans, result, raced, seen>>
      /\ pc' = [q \in Procs |->
                   IF q \in fetchers[Home[p]] THEN "diff" ELSE pc[q]]
  BY DEF FlushFetchers, history
<1>2. \A q \in fetchers[Home[p]] : pc[q] \in {"list", "wait", "flush"}
  BY Kinds DEF TypeInv, Fetching
<1>3. \A q \in Callers :
          \/ pc[q] \notin Concerned /\ pc'[q] \notin Concerned
          \/ pc'[q] = pc[q] /\ seen'[q] = seen[q]
  BY <1>1, <1>2, WaitTypes DEF Concerned
<1>4. QED
  BY <1>1, <1>3, WaitFrame

LEMMA WaitStep ==
  ASSUME TypeInv, WaitInv, [Next]_vars
  PROVE  WaitInv'
<1>0. /\ pc \in [Procs -> Labels]
      /\ seen \in [Procs -> Seq(Procs \ Listeners)]
      /\ Callers \subseteq Procs
      /\ Clients \subseteq Procs
      /\ Refreshers \subseteq Procs
  BY WaitTypes, Kinds
<1>1. ASSUME NEW p \in Procs, NEW a, a \notin Concerned,
             pc[p] \notin Concerned \/ p \in Listeners,
             pc' = [pc EXCEPT ![p] = a],
             \A q \in Procs \ {p} : seen'[q] = seen[q],
             UNCHANGED <<chans, result, raced>>
      PROVE  WaitInv'
  <2>1. \A q \in Callers :
            \/ pc[q] \notin Concerned /\ pc'[q] \notin Concerned
            \/ pc'[q] = pc[q] /\ seen'[q] = seen[q]
    BY <1>0, <1>1 DEF Callers
  <2>2. QED
    BY <1>1, <2>1, WaitFrame
<1>2. ASSUME NEW p \in Clients, GetIndexFile(p)
      PROVE  WaitInv'
  BY <1>0, <1>1, <1>2
     DEF GetIndexFile, Starts, Goto, shared, local, Concerned
<1>3. ASSUME NEW p \in Refreshers, RebuildIndexForTenant(p)
      PROVE  WaitInv'
  BY <1>0, <1>1, <1>3
     DEF RebuildIndexForTenant, Starts, Goto, shared, local, Concerned
<1>4. ASSUME NEW p \in Clients, NEW c \in Charts,
             UploadChartPackage(p, c) \/ DeleteChartVersion(p, c)
      PROVE  WaitInv'
  BY <1>0, <1>1, <1>4
     DEF UploadChartPackage, DeleteChartVersion, Change, Starts, Goto, shared,
         Concerned
<1>5. ASSUME NEW p \in Procs, NEW l \in Listeners, EmitEvent(p, l)
      PROVE  WaitInv'
  <2>1. /\ pc' = [pc EXCEPT ![p] = "idle", ![l] = "get"]
        /\ pc[p] = "send"
        /\ UNCHANGED <<chans, seen, result, raced>>
    BY <1>5 DEF EmitEvent, At, shared, history
  <2>2. \A q \in Callers :
            \/ pc[q] \notin Concerned /\ pc'[q] \notin Concerned
            \/ pc'[q] = pc[q] /\ seen'[q] = seen[q]
    BY <1>0, <2>1 DEF Callers, Concerned
  <2>3. QED
    BY <2>1, <2>2, WaitFrame
<1>6. ASSUME NEW p \in Procs, InitCacheEntry(p)
      PROVE  WaitInv'
  BY <1>1, <1>6 DEF InitCacheEntry, At, Goto, shared, history, Concerned
<1>7. ASSUME NEW p \in Procs, NewRepositoryIndex(p)
      PROVE  WaitInv'
  BY <1>1, <1>7 DEF NewRepositoryIndex, At, Goto, Concerned
<1>8. ASSUME NEW p \in Procs, SetNewEntry(p)
      PROVE  WaitInv'
  BY <1>1, <1>8 DEF SetNewEntry, At, Goto, local, Concerned
<1>9. ASSUME NEW p \in Procs, AnswerCached(p) \/ NothingToDo(p)
      PROVE  WaitInv'
  <2>1. /\ pc[p] \in {"look", "diff"}
        /\ pc' = [pc EXCEPT ![p] = Rest(p)]
        /\ \A q \in Procs \ {p} : seen'[q] = seen[q]
        /\ UNCHANGED <<chans, result, raced>>
    BY <1>0, <1>9
       DEF AnswerCached, NothingToDo, Finish, At, Goto, shared, history
  <2>2. QED
    BY <1>1, <2>1 DEF Rest, Concerned
<1>10. ASSUME NEW p \in Procs, GetChartList(p)
       PROVE  WaitInv'
  BY <1>1, <1>10 DEF GetChartList, At, Goto, local, history, Concerned
<1>11. ASSUME NEW p \in Procs, FetchChartsInStorage(p)
       PROVE  WaitInv'
  BY <1>1, <1>11 DEF FetchChartsInStorage, At, Goto, shared, Concerned
<1>12. ASSUME NEW p \in Procs, ReadChans(p)
       PROVE  WaitInv'
  <2>1. /\ pc[p] = "diff"
        /\ pc' = [pc EXCEPT ![p] = "append"]
        /\ \A q \in Procs \ {p} : seen'[q] = seen[q]
        /\ UNCHANGED <<chans, result, raced>>
    BY <1>0, <1>12 DEF ReadChans, At, Goto, shared, history
  <2>2. QED
    BY <1>1, <2>1 DEF Concerned
<1>13. ASSUME NEW p \in Procs, Work(p)
       PROVE  WaitInv'
  <2>1. /\ pc[p] = "work"
        /\ pc' = [pc EXCEPT ![p] = "save"]
        /\ UNCHANGED <<chans, result, raced, seen>>
    BY <1>13 DEF Work, At, Goto, shared, history
  <2>2. QED
    BY <2>1, WaitRange, WaitTypes
<1>14. ASSUME NEW p \in Procs, WorkFails(p) \/ SaveCacheEntry(p)
       PROVE  WaitInv'
  <2>1. /\ pc[p] \in {"work", "save"}
        /\ p \in Callers
        /\ pc' = [pc EXCEPT ![p] = "send all"]
        /\ seen' = [seen EXCEPT ![p] = chans[Home[p]]]
        /\ UNCHANGED <<chans, result, raced>>
    BY <1>14, WaitTypes
       DEF WorkFails, SaveCacheEntry, RangeChans, At, Goto, shared, Callers
  <2>2. QED
    BY <2>1, WaitRange
<1>15. ASSUME NEW p \in Procs, ApplyEvent(p)
       PROVE  WaitInv'
  <2>1. /\ p \in Listeners
        /\ pc[p] = "look"
        /\ pc' = [pc EXCEPT ![p] = "save"]
        /\ UNCHANGED <<chans, result, raced, seen>>
    BY <1>15 DEF ApplyEvent, At, Goto, shared, history
  <2>2. \A q \in Callers : pc'[q] = pc[q] /\ seen'[q] = seen[q]
    BY <1>0, <2>1 DEF Callers
  <2>3. QED
    BY <2>1, <2>2, WaitFrame
<1>16. ASSUME NEW p \in Procs, SaveEventEntry(p)
       PROVE  WaitInv'
  <2>1. /\ p \in Listeners
        /\ pc' = [pc EXCEPT ![p] = Rest(p)]
        /\ \A q \in Procs \ {p} : seen'[q] = seen[q]
        /\ UNCHANGED <<chans, result, raced>>
    BY <1>0, <1>16 DEF SaveEventEntry, Finish, At, Goto, shared, history
  <2>2. QED
    BY <1>1, <2>1 DEF Rest, Concerned
<1>17. CASE UNCHANGED vars
  BY <1>17, WaitFrame DEF vars, shared, local, history
<1>18. QED
  BY <1>2, <1>3, <1>4, <1>5, <1>6, <1>7, <1>8, <1>9, <1>10, <1>11, <1>12,
     <1>13, <1>14, <1>15, <1>16, <1>17, WaitFlush, WaitAppend, WaitCheck,
     WaitSend, WaitClear, WaitReceive, WaitRestart
     DEF Next, Progress

(* Without a race of RegeneratedIndexesChans nobody is forgotten: whoever  *)
(* waits for a regeneration has its result, or somebody at it will send    *)
(* it, whatever fails and whichever replica is restarted.                  *)
THEOREM WaitersServed == Spec => []EveryWaiterServed
<1>1. TypeInv /\ WaitInv /\ [Next]_vars => WaitInv'
  BY WaitStep
<1>2. TypeInv /\ WaitInv => EveryWaiterServed
  BY WaitTypes DEF WaitInv, Served, Waits, Callers, EveryWaiterServed
<1>3. QED
  BY WaitInit, TypeInvariant, <1>1, <1>2, PTL DEF Spec
-----------------------------------------------------------------------------
(* What is left to do to the list S when p has come so far.                *)
Applied(e, S) ==
    CASE e.op = "add"    -> S \cup {e.chart}
      [] e.op = "delete" -> S \ {e.chart}
      [] e.op = "update" -> S

(* While nothing disturbs it, a goroutine alone brings the index from one  *)
(* change to the next: what it has, or what is in Redis, lists what is in  *)
(* storage, or will once the event it carries is applied.                  *)
InStep(p) ==
    /\ pc[p] = "send" => Applied(req[p], Listed(cache)) = storage
    /\ p \in Listeners =>
          /\ pc[p] = "get" => Applied(req[p], Listed(cache)) = storage
          /\ pc[p] = "new" =>
                 Listed(cache) = {} /\ entry[p].entries = {}
          /\ pc[p] \in {"new", "look"} =>
                 Applied(req[p], entry[p].entries) = storage
          /\ pc[p] = "save" => entry[p].entries = storage
    /\ p \notin Listeners =>
          /\ pc[p] \notin {"send", "append", "length", "work", "save",
                           "send all", "await"} => Listed(cache) = storage
          /\ pc[p] \notin {"append", "length", "work", "save",
                           "send all", "await"}
          /\ pc[p] \in {"new", "look", "list", "wait", "flush", "diff"} =>
                 entry[p].entries = storage
          /\ pc[p] \in {"flush", "diff"} => list[p] = storage

AtRest(p) == pc[p] = Rest(p)

UndisturbedInv ==
    ~disturbed =>
        /\ \A p, q \in Procs : ~AtRest(p) /\ ~AtRest(q) => p = q
        /\ \A p \in Procs : ~AtRest(p) => InStep(p)
        /\ (\A p \in Procs : AtRest(p)) => Listed(cache) = storage

LEMMA UndisturbedInit == Init => UndisturbedInv
BY DEF Init, UndisturbedInv, AtRest

(* A goroutine alone moves on.                                             *)
LEMMA UndisturbedMove ==
  ASSUME UndisturbedInv, ~disturbed, NEW p \in Procs, ~AtRest(p) \/ Quiet,
         \A q \in Procs \ {p} : pc'[q] = pc[q],
         \/ AtRest(p)' /\ Listed(cache)' = storage'
         \/ ~AtRest(p)' /\ InStep(p)'
  PROVE  UndisturbedInv'
<1>1. \A q \in Procs \ {p} : AtRest(q)
  BY DEF UndisturbedInv, Quiet, AtRest
<1>2. \A q \in Procs \ {p} : AtRest(q)'
  BY <1>1 DEF AtRest, Rest
<1>3. QED
  BY <1>2 DEF UndisturbedInv

(* Nothing is undisturbed again, and whoever is on its way keeps in step.  *)
LEMMA UndisturbedSince == [Next]_vars => (~disturbed' => ~disturbed)
BY DEF Next, Progress, vars, history, GetIndexFile, Starts,
       RebuildIndexForTenant, UploadChartPackage, DeleteChartVersion, Change,
       EmitEvent, InitCacheEntry, NewRepositoryIndex, SetNewEntry, Set, Fault,
       AnswerCached, GetChartList, FetchChartsInStorage, FlushFetchers,
       NothingToDo, ReadChans, AppendChan, CheckLength, Work, WorkFails,
       Unreadable, SaveCacheEntry, SendResult, ClearChans, ReceiveResult,
       ApplyEvent, SaveEventEntry, Restart

LEMMA MoverInStep ==
  ASSUME TypeInv, UndisturbedInv, ~disturbed, NEW p \in Procs,
         pc[p] \notin {"idle", "receive"}
  PROVE  ~AtRest(p) /\ InStep(p) /\ Has(p)
BY DEF TypeInv, UndisturbedInv, AtRest, Rest

LEMMA ListedEntry ==
    /\ \A e \in Entry : Listed(e) = e.entries
    /\ Listed(None) = {}
BY Entries DEF Listed

LEMMA UndisturbedStep ==
  ASSUME TypeInv, UndisturbedInv, [Next]_vars
  PROVE  UndisturbedInv'
<1> SUFFICES ASSUME ~disturbed'
             PROVE  UndisturbedInv'
  BY DEF UndisturbedInv
<1>0. /\ ~disturbed
      /\ pc \in [Procs -> Labels]
      /\ entry \in [Procs -> Entry \cup {None, Failed}]
      /\ list \in [Procs -> {None, Failed} \cup SUBSET Charts]
      /\ req \in [Procs -> Event \cup {None}]
      /\ cache \in Entry \cup {None}
  BY UndisturbedSince DEF TypeInv
<1>1. ASSUME NEW p \in Clients, GetIndexFile(p)
      PROVE  UndisturbedInv'
  <2>1. /\ Quiet
        /\ pc' = [pc EXCEPT ![p] = "get"]
        /\ UNCHANGED <<storage, cache>>
    BY <1>1 DEF GetIndexFile, Starts, Goto, outside
  <2>2. Listed(cache) = storage
    BY <1>0, <2>1 DEF UndisturbedInv, Quiet, AtRest
  <2>3. ~AtRest(p)' /\ InStep(p)'
    BY <1>0, <2>1, <2>2, Kinds DEF AtRest, Rest, InStep
  <2>4. QED
    BY <1>0, <2>1, <2>3, Kinds, UndisturbedMove
<1>2. ASSUME NEW p \in Refreshers, RebuildIndexForTenant(p)
      PROVE  UndisturbedInv'
  <2>1. /\ Quiet
        /\ pc' = [pc EXCEPT ![p] = "get"]
        /\ UNCHANGED <<storage, cache>>
    BY <1>2 DEF RebuildIndexForTenant, Starts, Goto, outside
  <2>2. Listed(cache) = storage
    BY <1>0, <2>1 DEF UndisturbedInv, Quiet, AtRest
  <2>3. ~AtRest(p)' /\ InStep(p)'
    BY <1>0, <2>1, <2>2, Kinds DEF AtRest, Rest, InStep
  <2>4. QED
    BY <1>0, <2>1, <2>3, Kinds, UndisturbedMove
<1>3. ASSUME NEW p \in Clients, NEW c \in Charts,
             UploadChartPackage(p, c) \/ DeleteChartVersion(p, c)
      PROVE  UndisturbedInv'
  <2>1. /\ Quiet
        /\ pc' = [pc EXCEPT ![p] = "send"]
        /\ cache' = cache
    BY <1>3
       DEF UploadChartPackage, DeleteChartVersion, Change, Starts, Goto
  <2>2. Listed(cache) = storage
    BY <1>0, <2>1 DEF UndisturbedInv, Quiet, AtRest
  <2>3. Applied(req'[p], storage) = storage'
    <3>1. CASE UploadChartPackage(p, c)
      <4>1. /\ storage' = storage \cup {c}
            /\ req'[p] = [op |-> IF c \in storage THEN "update" ELSE "add",
                          chart |-> c]
        BY <1>0, <3>1, Kinds DEF UploadChartPackage, Change
      <4>2. CASE c \in storage
        BY <4>1, <4>2 DEF Applied
      <4>3. CASE c \notin storage
        BY <4>1, <4>3 DEF Applied
      <4>4. QED
        BY <4>2, <4>3
    <3>2. CASE DeleteChartVersion(p, c)
      <4>1. /\ storage' = storage \ {c}
            /\ req'[p] = [op |-> "delete", chart |-> c]
        BY <1>0, <3>2, Kinds DEF DeleteChartVersion, Change
      <4>2. QED
        BY <4>1 DEF Applied
    <3>3. QED
      BY <1>3, <3>1, <3>2
  <2>4. ~AtRest(p)' /\ InStep(p)'
    BY <1>0, <2>1, <2>2, <2>3, Kinds DEF AtRest, Rest, InStep
  <2>5. QED
    BY <1>0, <2>1, <2>4, Kinds, UndisturbedMove
<1>4. ASSUME NEW p \in Procs, NEW l \in Listeners, EmitEvent(p, l)
      PROVE  UndisturbedInv'
  <2>1. /\ pc' = [pc EXCEPT ![p] = "idle", ![l] = "get"]
        /\ req' = [req EXCEPT ![p] = None, ![l] = req[p]]
        /\ pc[p] = "send"
        /\ pc[l] = "receive"
        /\ UNCHANGED <<storage, cache>>
    BY <1>4 DEF EmitEvent, At, outside
  <2>2. InStep(p) /\ Has(p) /\ ~AtRest(p)
    BY <1>0, <2>1, MoverInStep
  <2>3. p \notin Listeners /\ l \in Procs /\ p # l
    BY <2>1, <2>2, Kinds DEF Has, IsAt, ListenerPC
  <2>4. \A q \in Procs \ {p} : AtRest(q)
    BY <1>0, <2>2 DEF UndisturbedInv
  <2>5. \A q \in Procs \ {l} : AtRest(q)'
    BY <1>0, <2>1, <2>3, <2>4 DEF AtRest, Rest
  <2>6. pc'[l] = "get" /\ req'[l] = req[p]
    BY <1>0, <2>1, <2>3
  <2>7. ~AtRest(l)' /\ InStep(l)'
    BY <2>1, <2>2, <2>3, <2>6 DEF AtRest, Rest, InStep
  <2>8. QED
    BY <2>3, <2>5, <2>7 DEF UndisturbedInv
<1>5. ASSUME NEW p \in Procs, InitCacheEntry(p)
      PROVE  UndisturbedInv'
  <2>1. /\ pc[p] = "get"
        /\ pc' = [pc EXCEPT ![p] = "look"]
        /\ cache # None
        /\ entry' = [entry EXCEPT ![p] = cache]
        /\ UNCHANGED <<storage, cache, req, list>>
    BY <1>5 DEF InitCacheEntry, At, Goto, outside
  <2>2. InStep(p) /\ ~AtRest(p)
    BY <1>0, <2>1, MoverInStep
  <2>3. Listed(cache) = entry'[p].entries
    BY <1>0, <2>1, ListedEntry
  <2>4. ~AtRest(p)' /\ InStep(p)'
    BY <1>0, <2>1, <2>2, <2>3 DEF AtRest, Rest, InStep
  <2>5. QED
    BY <1>0, <2>1, <2>2, <2>4, UndisturbedMove
<1>6. ASSUME NEW p \in Procs, NewRepositoryIndex(p)
      PROVE  UndisturbedInv'
  <2>1. /\ pc[p] = "get"
        /\ pc' = [pc EXCEPT ![p] = "new"]
        /\ cache = None
        /\ entry' = [entry EXCEPT ![p] = Regenerated({})]
        /\ UNCHANGED <<storage, cache, req, list>>
    BY <1>6 DEF NewRepositoryIndex, At, Goto, Fault
  <2>2. InStep(p) /\ ~AtRest(p)
    BY <1>0, <2>1, MoverInStep
  <2>3. Listed(cache) = {} /\ entry'[p].entries = {}
    BY <1>0, <2>1, ListedEntry, Entries
  <2>4. ~AtRest(p)' /\ InStep(p)'
    BY <1>0, <2>1, <2>2, <2>3 DEF AtRest, Rest, InStep
  <2>5. QED
    BY <1>0, <2>1, <2>2, <2>4, UndisturbedMove
<1>7. ASSUME NEW p \in Procs, SetNewEntry(p)
      PROVE  UndisturbedInv'
  <2>1. /\ pc[p] = "new"
        /\ pc' = [pc EXCEPT ![p] = "look"]
        /\ cache' = entry[p]
        /\ UNCHANGED <<storage, entry, req, list>>
    BY <1>7 DEF SetNewEntry, Set, At, Goto, Fault, local
  <2>2. InStep(p) /\ ~AtRest(p) /\ entry[p] \in Entry
    BY <1>0, <2>1, MoverInStep DEF Has, HasEntry
  <2>3. Listed(cache)' = entry[p].entries
    BY <2>1, <2>2, Entries DEF Listed
  <2>4. ~AtRest(p)' /\ InStep(p)'
    BY <1>0, <2>1, <2>2, <2>3 DEF AtRest, Rest, InStep
  <2>5. QED
    BY <1>0, <2>1, <2>2, <2>4, UndisturbedMove
<1>8. ASSUME NEW p \in Procs, AnswerCached(p) \/ NothingToDo(p)
      PROVE  UndisturbedInv'
  <2>1. /\ pc[p] \in {"look", "diff"}
        /\ p \notin Listeners
        /\ pc' = [pc EXCEPT ![p] = Rest(p)]
        /\ UNCHANGED <<storage, cache>>
    BY <1>8, Kinds, WaitTypes
       DEF AnswerCached, NothingToDo, Finish, At, Goto, outside, Callers
  <2>2. InStep(p) /\ ~AtRest(p)
    BY <1>0, <2>1, MoverInStep
  <2>3. AtRest(p)' /\ Listed(cache)' = storage'
    BY <1>0, <2>1, <2>2 DEF AtRest, Rest, InStep, Listed
  <2>4. QED
    BY <1>0, <2>1, <2>2, <2>3, UndisturbedMove
<1>9. ASSUME NEW p \in Procs, GetChartList(p)
      PROVE  UndisturbedInv'
  <2>1. /\ pc[p] = "look"
        /\ p \notin Listeners
        /\ \E a \in {"list", "wait"} : pc' = [pc EXCEPT ![p] = a]
        /\ UNCHANGED <<storage, cache, entry, list, req>>
    BY <1>9 DEF GetChartList, At, Goto, outside, local
  <2>2. InStep(p) /\ ~AtRest(p)
    BY <1>0, <2>1, MoverInStep
  <2>3. ~AtRest(p)' /\ InStep(p)'
    BY <1>0, <2>1, <2>2 DEF AtRest, Rest, InStep, Listed
  <2>4. QED
    BY <1>0, <2>1, <2>2, <2>3, UndisturbedMove
<1>10. ASSUME NEW p \in Procs, FetchChartsInStorage(p)
       PROVE  UndisturbedInv'
  <2>1. /\ pc[p] = "list"
        /\ pc' = [pc EXCEPT ![p] = "flush"]
        /\ list' = [list EXCEPT ![p] = storage]
        /\ UNCHANGED <<storage, cache, entry, req>>
    BY <1>10 DEF FetchChartsInStorage, At, Goto, Fault
  <2>2. InStep(p) /\ ~AtRest(p) /\ p \notin Listeners
    BY <1>0, <2>1, MoverInStep DEF Has, IsAt, ListenerPC
  <2>3. ~AtRest(p)' /\ InStep(p)'
    BY <1>0, <2>1, <2>2 DEF AtRest, Rest, InStep, Listed
  <2>4. QED
    BY <1>0, <2>1, <2>2, <2>3, UndisturbedMove
<1>11. ASSUME NEW p \in Procs, FlushFetchers(p)
       PROVE  UndisturbedInv'
  <2>1. /\ pc[p] = "flush"
        /\ list' = [q \in Procs |->
                       IF q \in fetchers[Home[p]] THEN list[p] ELSE list[q]]
        /\ pc' = [q \in Procs |->
                     IF q \in fetchers[Home[p]] THEN "diff" ELSE pc[q]]
        /\ UNCHANGED <<storage, cache, entry, req>>
    BY <1>11 DEF FlushFetchers, At, outside
  <2>2. InStep(p) /\ ~AtRest(p) /\ p \notin Listeners
    BY <1>0, <2>1, MoverInStep DEF Has, IsAt, ListenerPC
  <2>3. \A q \in fetchers[Home[p]] :
            q \in Procs /\ pc[q] \in {"list", "wait", "flush"}
    BY Kinds DEF TypeInv, Fetching
  <2>4. \A q \in fetchers[Home[p]] : q = p
    BY <1>0, <2>2, <2>3 DEF UndisturbedInv, AtRest, Rest
  <2>5. \A q \in Procs \ {p} : pc'[q] = pc[q]
    BY <2>1, <2>4
  <2>6. pc'[p] \in {"flush", "diff"} /\ list'[p] = list[p]
    BY <2>1
  <2>7. ~AtRest(p)' /\ InStep(p)'
    BY <2>1, <2>2, <2>6 DEF AtRest, Rest, InStep, Listed
  <2>8. QED
    BY <1>0, <2>2, <2>5, <2>7, UndisturbedMove
<1>12. ASSUME NEW p \in Procs, ReadChans(p)
       PROVE  FALSE
  <2>1. pc[p] = "diff" /\ list[p] # entry[p].entries
    BY <1>12 DEF ReadChans, At
  <2>2. InStep(p) /\ p \notin Listeners
    BY <1>0, <2>1, MoverInStep DEF Has, IsAt, ListenerPC
  <2>3. QED
    BY <2>1, <2>2 DEF InStep
<1>13. ASSUME NEW p \in Procs,
              \/ AppendChan(p) \/ CheckLength(p) \/ Work(p) \/ WorkFails(p)
              \/ SaveCacheEntry(p) \/ SendResult(p) \/ ClearChans(p)
              \/ ReceiveResult(p)
       PROVE  FALSE
  <2>1. /\ pc[p] \in {"append", "length", "work", "save", "send all", "await"}
        /\ pc[p] = "save" => p \notin Listeners
    BY <1>13 DEF AppendChan, CheckLength, Work, WorkFails, SaveCacheEntry,
                 SendResult, ClearChans, ReceiveResult, At
  <2>2. InStep(p) /\ p \notin Listeners
    BY <1>0, <2>1, MoverInStep DEF Has, IsAt, ListenerPC
  <2>3. QED
    BY <2>1, <2>2 DEF InStep
<1>14. ASSUME NEW p \in Procs, ApplyEvent(p)
       PROVE  UndisturbedInv'
  <2>1. /\ pc[p] = "look"
        /\ p \in Listeners
        /\ pc' = [pc EXCEPT ![p] = "save"]
        /\ entry' = [entry EXCEPT ![p] =
                        Regenerated(Applied(req[p], entry[p].entries))]
        /\ UNCHANGED <<storage, cache, req>>
    BY <1>14 DEF ApplyEvent, Applied, At, Goto, outside
  <2>2. InStep(p) /\ ~AtRest(p)
    BY <1>0, <2>1, MoverInStep
  <2>3. entry'[p].entries = storage
    BY <1>0, <2>1, <2>2 DEF InStep, Regenerated
  <2>4. ~AtRest(p)' /\ InStep(p)'
    BY <1>0, <2>1, <2>3 DEF AtRest, Rest, InStep
  <2>5. QED
    BY <1>0, <2>1, <2>2, <2>4, UndisturbedMove
<1>15. ASSUME NEW p \in Procs, SaveEventEntry(p)
       PROVE  UndisturbedInv'
  <2>1. /\ pc[p] = "save"
        /\ p \in Listeners
        /\ pc' = [pc EXCEPT ![p] = Rest(p)]
        /\ cache' = entry[p]
        /\ storage' = storage
    BY <1>15 DEF SaveEventEntry, Finish, Set, Fault, At, Goto
  <2>2. InStep(p) /\ ~AtRest(p) /\ entry[p] \in Entry
    BY <1>0, <2>1, MoverInStep DEF Has, HasEntry
  <2>3. AtRest(p)' /\ Listed(cache)' = storage'
    BY <1>0, <2>1, <2>2, Entries DEF AtRest, Rest, InStep, Listed
  <2>4. QED
    BY <1>0, <2>1, <2>2, <2>3, UndisturbedMove
<1>16. ASSUME NEW r \in Replicas, NEW primer \in Clients, Restart(r, primer)
       PROVE  UndisturbedInv'
  <2>1. /\ Quiet
        /\ pc' = [q \in Procs |-> IF q = primer THEN "get"
                                  ELSE IF Home[q] = r THEN Rest(q) ELSE pc[q]]
        /\ UNCHANGED <<storage, cache>>
    BY <1>16 DEF Restart
  <2>2. Listed(cache) = storage
    BY <1>0, <2>1 DEF UndisturbedInv, Quiet, AtRest
  <2>3. ~AtRest(primer)' /\ InStep(primer)'
    BY <2>1, <2>2, Kinds DEF AtRest, Rest, InStep, Listed
  <2>4. \A q \in Procs \ {primer} : pc'[q] = pc[q]
    BY <2>1 DEF Quiet
  <2>5. QED
    BY <1>0, <2>1, <2>3, <2>4, Kinds, UndisturbedMove
<1>17. CASE UNCHANGED vars
  BY <1>17 DEF vars, outside, local, history, UndisturbedInv, AtRest, Rest,
               InStep, Listed
<1>18. QED
  BY <1>1, <1>2, <1>3, <1>4, <1>5, <1>6, <1>7, <1>8, <1>9, <1>10, <1>11,
     <1>12, <1>13, <1>14, <1>15, <1>16, <1>17 DEF Next, Progress

(* Used by one at a time, at whichever replica, with no failure and no     *)
(* crash under way, the index in Redis is what storage makes of it.        *)
THEOREM UndisturbedIsRight == Spec => []UndisturbedIndexMatches
<1>1. TypeInv /\ UndisturbedInv /\ [Next]_vars => UndisturbedInv'
  BY UndisturbedStep
<1>2. UndisturbedInv => UndisturbedIndexMatches
  BY DEF UndisturbedInv, UndisturbedIndexMatches, Quiet, AtRest
<1>3. QED
  BY UndisturbedInit, TypeInvariant, <1>1, <1>2, PTL DEF Spec
=============================================================================
