-------------------------- MODULE IndexReadsProofs --------------------------
(***************************************************************************)
(* Theorems about what GET /index.yaml answers with: for a client that     *)
(* sends one request at a time, whatever the listener has not got to yet,  *)
(* and for any number of clients of a server that always regenerates.      *)
(***************************************************************************)
EXTENDS IndexReads, IndexCacheProofs, SequenceTheorems
-----------------------------------------------------------------------------
(* One client, no timer, the index built from storage at the start and     *)
(* storage that works and changes through the server only.                 *)
SequentialUse(p) ==
    /\ Clients = {p}
    /\ Refreshers = {}
    /\ Primed
    /\ ~UseStatefiles
    /\ ~Manual
    /\ ~Faults

(* Events not applied yet: the listener's, those of EventChan and the one  *)
(* of the change the client has just made to storage.                      *)
InHand == IF lpc \in {"look", "apply"} THEN <<lreq>> ELSE <<>>

Outgoing(p) ==
    IF pc[p] = "build" THEN <<[req[p] EXCEPT !.created = clock]>>
    ELSE IF pc[p] = "send" THEN <<req[p]>>
    ELSE <<>>

Queue(p) == (InHand \o events) \o Outgoing(p)

On(q, c) == {i \in 1..Len(q) : q[i].chart = c}

(* The entry of c is that of the stored package.                           *)
Right(s, e, c) ==
    /\ e[c] = None <=> (s[c] = 0 \/ c \in Invalid)
    /\ e[c] # None => e[c].digest = s[c]

(* What an event says is what storage holds.                               *)
Holds(event, s) ==
    IF event.op = "delete" THEN s[event.chart] = 0
    ELSE /\ s[event.chart] = event.digest
         /\ s[event.chart] # 0
         /\ event.chart \notin Invalid

LastHolds(q, s, c) ==
    \A i \in On(q, c) : (\A j \in On(q, c) : j <= i) => Holds(q[i], s)

(* A stored chart has an entry by the time its last event is applied, which *)
(* may be an update that finds nothing to update otherwise.                *)
Kept(q, s, e, c) ==
    s[c] # 0 /\ On(q, c) # {} =>
        \/ \E i \in On(q, c) : /\ q[i].op = "add"
                               /\ \A j \in On(q, c) :
                                      j > i => q[j].op # "delete"
        \/ /\ e[c] # None
           /\ \A j \in On(q, c) : q[j].op # "delete"

(* The entries are those of storage s, once the events q are applied.      *)
InSync(q, s, e) ==
    \A c \in Charts : /\ On(q, c) = {} => Right(s, e, c)
                      /\ LastHolds(q, s, c)
                      /\ Kept(q, s, e, c)

SequentialInv(p) ==
    /\ InSync(Queue(p), storage, entries)
    /\ ~torn
    /\ EventCap = 0 => events = <<>>
    /\ pc[p] = "put" =>
           /\ req[p].op = IF storage[req[p].chart] = 0 THEN "add" ELSE "update"
           /\ req[p].chart \notin Invalid
    /\ pc[p] \in {"flush", "diff"} => list[p] = storage
    /\ pc[p] = "work" =>
           /\ todo[p].removed \cap Stored(storage) = {}
           /\ (todo[p].updated \cup todo[p].added) \subseteq Stored(storage)

(* A GET that nothing disturbed reads entries nobody changes.              *)
ViewInv ==
    \A p \in Clients :
        view[p] # None =>
            /\ view[p] = storage
            /\ Undisturbed
            /\ pc[p] = "render" => heap[ptr[p]].raw = entries
-----------------------------------------------------------------------------
(* Applying the first event, and adding one for a change of storage.       *)
Applied(ev, e) ==
    LET v == [digest |-> ev.digest, created |-> ev.created]
    IN  CASE ev.op = "update" -> UpdateEntry(e, ev.chart, v)
          [] ev.op = "add"    -> AddEntry(e, ev.chart, v)
          [] ev.op = "delete" -> RemoveEntry(e, ev.chart)

LEMMA TailOn ==
  ASSUME NEW q \in Seq(Event), q # <<>>, NEW c \in Charts
  PROVE  /\ Tail(q) \in Seq(Event)
         /\ \A i \in On(Tail(q), c) :
                i + 1 \in On(q, c) /\ Tail(q)[i] = q[i + 1]
         /\ \A i \in On(q, c) :
                i # 1 => i - 1 \in On(Tail(q), c) /\ Tail(q)[i - 1] = q[i]
         /\ 1 \in On(q, c) <=> q[1].chart = c
<1>1. /\ Tail(q) \in Seq(Event)
      /\ Len(q) \in Nat
      /\ Len(q) >= 1
      /\ Len(Tail(q)) = Len(q) - 1
      /\ \A i \in 1..Len(Tail(q)) : Tail(q)[i] = q[i + 1]
  BY HeadTailProperties, EmptySeq, LenProperties
<1>2. QED
  BY <1>1 DEF On

LEMMA AppendOn ==
  ASSUME NEW q \in Seq(Event), NEW ev \in Event, NEW c \in Charts
  PROVE  /\ \A i \in On(q, c) : Append(q, ev)[i] = q[i]
         /\ Append(q, ev)[Len(q) + 1] = ev
         /\ On(Append(q, ev), c) =
                IF ev.chart = c THEN On(q, c) \cup {Len(q) + 1} ELSE On(q, c)
         /\ \A i \in On(q, c) : i \in Nat /\ i < Len(q) + 1
<1>1. /\ Append(q, ev) \in Seq(Event)
      /\ Len(q) \in Nat
      /\ Len(Append(q, ev)) = Len(q) + 1
      /\ \A i \in 1..Len(q) : Append(q, ev)[i] = q[i]
      /\ Append(q, ev)[Len(q) + 1] = ev
  BY AppendProperties, LenProperties
<1>2. QED
  BY <1>1 DEF On

(* What is in a queue of events.                                           *)
LEMMA OnEvents ==
  ASSUME NEW q \in Seq(Event), NEW c \in Charts, NEW i \in On(q, c)
  PROVE  /\ i \in Nat /\ i >= 1 /\ q[i] \in Event /\ q[i].chart = c
         /\ q[i].op \in {"update", "add", "delete"}
<1>1. i \in 1..Len(q) /\ Len(q) \in Nat /\ q[i].chart = c
  BY LenProperties DEF On
<1>2. q[i] \in Event
  BY <1>1, ElementOfSeq
<1>3. q[i].op \in {"update", "add", "delete"}
  BY <1>2 DEF Event
<1>4. QED
  BY <1>1, <1>2, <1>3

(* Applying the first event keeps the rest in step.                        *)
LEMMA SyncApply ==
  ASSUME NEW q \in Seq(Event), q # <<>>, NEW s \in ObjectList,
         NEW e \in EntryMap, InSync(q, s, e)
  PROVE  InSync(Tail(q), s, Applied(q[1], e))
<1> DEFINE ev == q[1]
           e2 == Applied(ev, e)
           t  == Tail(q)
<1>0. ASSUME NEW c \in Charts
      PROVE  /\ \A i \in On(t, c) : /\ i \in Nat
                                    /\ i >= 1
                                    /\ i + 1 \in On(q, c)
                                    /\ t[i] = q[i + 1]
             /\ \A i \in On(q, c) : /\ i \in Nat
                                    /\ i >= 1
                                    /\ i # 1 => /\ i - 1 \in On(t, c)
                                               /\ t[i - 1] = q[i]
             /\ 1 \in On(q, c) <=> ev.chart = c
  <2>1. t \in Seq(Event)
    BY TailOn
  <2>2. \A i \in On(t, c) : i \in Nat /\ i >= 1
    BY <2>1, OnEvents
  <2>3. \A i \in On(q, c) : i \in Nat /\ i >= 1
    BY OnEvents
  <2>4. /\ \A i \in On(t, c) : i + 1 \in On(q, c) /\ t[i] = q[i + 1]
        /\ \A i \in On(q, c) :
               i # 1 => i - 1 \in On(t, c) /\ t[i - 1] = q[i]
        /\ 1 \in On(q, c) <=> ev.chart = c
    BY TailOn
  <2> HIDE DEF ev, t
  <2>5. QED
    BY <2>2, <2>3, <2>4
<1>1. ev \in Event
  BY ElementOfSeq, EmptySeq, LenProperties
<1>1a. q[1] = ev
  OBVIOUS
<1> HIDE DEF ev, e2, t
<1>2. \A c \in Charts : e2[c] = IF c # ev.chart THEN e[c]
         ELSE IF ev.op = "delete" \/ (ev.op = "update" /\ e[c] = None)
              THEN None
         ELSE [digest |-> ev.digest, created |-> ev.created]
  BY <1>1 DEF e2, Applied, UpdateEntry, AddEntry, RemoveEntry, Event, EntryMap
<1>3. [digest |-> ev.digest, created |-> ev.created] # None
  BY <1>1, DataAssumption DEF Event, Stamp
<1>4. ASSUME NEW c \in Charts PROVE LastHolds(t, s, c)
  <2> SUFFICES ASSUME NEW i \in On(t, c), \A j \in On(t, c) : j <= i
               PROVE  Holds(t[i], s)
    BY DEF LastHolds
  <2>1. i + 1 \in On(q, c) /\ t[i] = q[i + 1] /\ i \in Nat
    BY <1>0
  <2>2. ASSUME NEW j \in On(q, c) PROVE j <= i + 1
    <3>1. j \in Nat
      BY <1>0
    <3>2. CASE j = 1
      BY <2>1, <3>2
    <3>3. CASE j # 1
      <4>1. j - 1 \in On(t, c)
        BY <3>3, <1>0
      <4>2. j - 1 <= i
        BY <4>1
      <4>3. QED
        BY <4>2, <3>1, <2>1
    <3>4. QED
      BY <3>2, <3>3
  <2>3. Holds(q[i + 1], s)
    BY <2>1, <2>2 DEF InSync, LastHolds
  <2>4. QED
    BY <2>1, <2>3
<1>5. ASSUME NEW c \in Charts, On(t, c) = {} PROVE Right(s, e2, c)
  <2>1. CASE ev.chart # c
    <3>1. On(q, c) = {}
      BY <1>5, <2>1, <1>0
    <3>2. Right(s, e, c)
      BY <3>1 DEF InSync
    <3>3. QED
      BY <1>2, <2>1, <3>2 DEF Right
  <2>2. CASE ev.chart = c
    <3>1. 1 \in On(q, c) /\ \A j \in On(q, c) : j = 1
      BY <1>5, <2>2, <1>0
    <3>2. Holds(ev, s)
      BY <3>1, <1>0, <1>1a DEF InSync, LastHolds
    <3>3. CASE ev.op = "delete"
      BY <1>2, <2>2, <3>2, <3>3 DEF Holds, Right
    <3>4. CASE ev.op # "delete"
      <4>1. s[c] = ev.digest /\ s[c] # 0 /\ c \notin Invalid
        BY <2>2, <3>2, <3>4 DEF Holds
      <4>2. ev.op = "add" \/ e[c] # None
        BY <3>1, <4>1, <1>0, <1>1, <1>1a DEF InSync, Kept, Event
      <4>3. e2[c] = [digest |-> ev.digest, created |-> ev.created]
        BY <1>2, <2>2, <3>4, <4>2
      <4>4. QED
        BY <1>3, <4>1, <4>3 DEF Right
    <3>5. QED
      BY <3>3, <3>4
  <2>3. QED
    BY <2>1, <2>2
<1>6. ASSUME NEW c \in Charts PROVE Kept(t, s, e2, c)
  <2> SUFFICES ASSUME s[c] # 0, On(t, c) # {}
               PROVE  \/ \E i \in On(t, c) : /\ t[i].op = "add"
                                             /\ \A j \in On(t, c) :
                                                 j > i => t[j].op # "delete"
                      \/ /\ e2[c] # None
                         /\ \A j \in On(t, c) : t[j].op # "delete"
    BY DEF Kept
  <2>1. On(q, c) # {}
    BY <1>0
  <2>2. \/ \E i \in On(q, c) : /\ q[i].op = "add"
                               /\ \A j \in On(q, c) :
                                      j > i => q[j].op # "delete"
        \/ /\ e[c] # None
           /\ \A j \in On(q, c) : q[j].op # "delete"
    BY <2>1 DEF InSync, Kept
  <2>3. CASE \E i \in On(q, c) : /\ q[i].op = "add"
                                 /\ \A j \in On(q, c) :
                                        j > i => q[j].op # "delete"
    <3>1. PICK i \in On(q, c) : /\ q[i].op = "add"
                                /\ \A j \in On(q, c) :
                                       j > i => q[j].op # "delete"
      BY <2>3
    <3>2. i \in Nat /\ i >= 1
      BY <1>0
    <3>3. ASSUME NEW j \in On(t, c), j + 1 > i PROVE t[j].op # "delete"
      BY <3>1, <3>3, <1>0
    <3>4. \A j \in On(t, c) : j \in Nat /\ j >= 1
      BY <1>0
    <3>5. CASE i = 1
      <4>1. ev.chart = c /\ ev.op = "add"
        BY <3>1, <3>5, <1>0, <1>1a
      <4>2. e2[c] # None
        BY <1>2, <1>3, <4>1
      <4>3. \A j \in On(t, c) : t[j].op # "delete"
        BY <3>3, <3>4, <3>5
      <4>4. QED
        BY <4>2, <4>3
    <3>6. CASE i # 1
      <4>1. i - 1 \in On(t, c) /\ t[i - 1] = q[i]
        BY <3>6, <1>0
      <4>2. \A j \in On(t, c) : j > i - 1 => t[j].op # "delete"
        BY <3>2, <3>3, <3>4
      <4>3. QED
        BY <3>1, <4>1, <4>2
    <3>7. QED
      BY <3>5, <3>6
  <2>4. CASE e[c] # None /\ \A j \in On(q, c) : q[j].op # "delete"
    <3>1. \A j \in On(t, c) : t[j].op # "delete"
      BY <2>4, <1>0
    <3>2. ev.chart = c => ev.op # "delete"
      BY <2>4, <1>0, <1>1a
    <3>3. e2[c] # None
      BY <1>2, <1>3, <2>4, <3>2
    <3>4. QED
      BY <3>1, <3>3
  <2>5. QED
    BY <2>2, <2>3, <2>4
<1>7. InSync(t, s, e2)
  BY <1>4, <1>5, <1>6 DEF InSync
<1>8. QED
  BY <1>7 DEF e2, ev, t

(* The change of a chart's package, with the event that tells of it.       *)
LEMMA SyncAppend ==
  ASSUME NEW q \in Seq(Event), NEW ev \in Event, NEW e \in EntryMap,
         NEW s \in ObjectList, NEW s2 \in ObjectList, InSync(q, s, e),
         \A c \in Charts : c # ev.chart => s2[c] = s[c],
         Holds(ev, s2),
         ev.op = "update" => s[ev.chart] # 0
  PROVE  InSync(Append(q, ev), s2, e)
<1> DEFINE n == Len(q) + 1
           r == Append(q, ev)
<1>1. ASSUME NEW c \in Charts
      PROVE  /\ \A i \in On(q, c) : r[i] = q[i]
             /\ r[n] = ev
             /\ On(r, c) = IF ev.chart = c THEN On(q, c) \cup {n} ELSE On(q, c)
             /\ \A i \in On(q, c) : i \in Nat /\ i < n
  BY AppendOn
<1>2. n \in Nat
  BY LenProperties
<1> HIDE DEF n, r
<1>3. ASSUME NEW c \in Charts, c # ev.chart
      PROVE  /\ On(r, c) = {} => Right(s2, e, c)
             /\ LastHolds(r, s2, c)
             /\ Kept(r, s2, e, c)
  <2>1. On(r, c) = On(q, c) /\ s2[c] = s[c] /\ \A i \in On(q, c) : r[i] = q[i]
    BY <1>1, <1>3
  <2>2. /\ On(q, c) = {} => Right(s, e, c)
        /\ LastHolds(q, s, c)
        /\ Kept(q, s, e, c)
    BY DEF InSync
  <2>3. On(r, c) = {} => Right(s2, e, c)
    BY <2>1, <2>2 DEF Right
  <2>4. \A i \in On(q, c) : q[i].chart = c
    BY DEF On
  <2>5. LastHolds(r, s2, c)
    BY <2>1, <2>2, <2>4 DEF LastHolds, Holds
  <2>6. Kept(r, s2, e, c)
    BY <2>1, <2>2 DEF Kept
  <2>7. QED
    BY <2>3, <2>5, <2>6
<1>4. ASSUME NEW c \in Charts, c = ev.chart
      PROVE  /\ On(r, c) # {}
             /\ LastHolds(r, s2, c)
             /\ Kept(r, s2, e, c)
  <2>1. n \in On(r, c)
    BY <1>1, <1>4
  <2>2. \A i \in On(r, c) : i = n \/ (i \in On(q, c) /\ i \in Nat /\ i < n)
    BY <1>1, <1>4
  <2>3. ASSUME NEW i \in On(r, c), \A j \in On(r, c) : j <= i
        PROVE  i = n
    <3>1. n <= i
      BY <2>1, <2>3
    <3>2. CASE i \in Nat /\ i < n
      BY <3>1, <3>2, <1>2
    <3>3. QED
      BY <2>2, <3>2
  <2>4. LastHolds(r, s2, c)
    BY <2>3, <1>1 DEF LastHolds
  <2>5. ASSUME ev.op = "delete" PROVE Kept(r, s2, e, c)
    BY <1>4, <2>5 DEF Kept, Holds
  <2>6. ASSUME ev.op = "add" PROVE Kept(r, s2, e, c)
    <3>1. \A j \in On(r, c) : ~(j > n)
      BY <2>2, <1>2
    <3>2. QED
      BY <2>1, <2>6, <3>1, <1>1 DEF Kept
  <2>7. ASSUME ev.op = "update" PROVE Kept(r, s2, e, c)
    <3>1. s[c] # 0 /\ s2[c] # 0 /\ c \notin Invalid
      BY <1>4, <2>7 DEF Holds
    <3>2. /\ On(q, c) = {} => e[c] # None
          /\ Kept(q, s, e, c)
      BY <3>1 DEF InSync, Right
    <3>3. CASE \E i \in On(q, c) : /\ q[i].op = "add"
                                   /\ \A j \in On(q, c) :
                                          j > i => q[j].op # "delete"
      BY <2>2, <2>7, <3>3, <1>1, <1>4 DEF Kept
    <3>4. CASE e[c] # None /\ \A j \in On(q, c) : q[j].op # "delete"
      BY <2>2, <2>7, <3>4, <1>1 DEF Kept
    <3>5. CASE On(q, c) = {}
      BY <2>2, <2>7, <3>2, <3>5, <1>1 DEF Kept
    <3>6. QED
      BY <3>1, <3>2, <3>3, <3>4, <3>5 DEF Kept
  <2>8. QED
    BY <2>1, <2>4, <2>5, <2>6, <2>7 DEF Event
<1>5. InSync(r, s2, e)
  BY <1>3, <1>4 DEF InSync
<1>6. QED
  BY <1>5 DEF r

(* An entry a regeneration removes, or takes from storage.                 *)
LEMMA SyncEntry ==
  ASSUME NEW q \in Seq(Event), NEW s \in ObjectList, NEW e \in EntryMap,
         NEW e2 \in EntryMap, InSync(q, s, e), NEW c \in Charts,
         \A d \in Charts : d # c => e2[d] = e[d],
         \/ e2[c] = e[c]
         \/ s[c] = 0 /\ e2[c] = None
         \/ /\ s[c] # 0 /\ c \notin Invalid
            /\ e2[c] = ChartVersionFromStorageObject(s[c])
  PROVE  InSync(q, s, e2)
<1>1. s[c] \in Nat
  BY DEF ObjectList, Stamp
<1>2. /\ ChartVersionFromStorageObject(s[c]) # None
      /\ ChartVersionFromStorageObject(s[c]).digest = s[c]
  BY <1>1, DataAssumption DEF ChartVersionFromStorageObject
<1>3. ASSUME NEW d \in Charts, d # c \/ e2[c] = e[c]
      PROVE  /\ On(q, d) = {} => Right(s, e2, d)
             /\ LastHolds(q, s, d)
             /\ Kept(q, s, e2, d)
  <2>1. e2[d] = e[d]
    BY <1>3
  <2>2. QED
    BY <2>1 DEF InSync, Right, Kept
<1>4. ASSUME s[c] = 0, e2[c] = None
      PROVE  /\ Right(s, e2, c)
             /\ LastHolds(q, s, c)
             /\ Kept(q, s, e2, c)
  BY <1>4 DEF InSync, Right, Kept
<1>5. ASSUME s[c] # 0, c \notin Invalid,
             e2[c] = ChartVersionFromStorageObject(s[c])
      PROVE  /\ Right(s, e2, c)
             /\ LastHolds(q, s, c)
             /\ Kept(q, s, e2, c)
  <2>1. Right(s, e2, c)
    BY <1>2, <1>5 DEF Right
  <2>2. LastHolds(q, s, c) /\ Kept(q, s, e, c)
    BY DEF InSync
  <2>3. Kept(q, s, e2, c)
    BY <1>2, <1>5, <2>2 DEF Kept
  <2>4. QED
    BY <2>1, <2>2, <2>3
<1>6. QED
  BY <1>3, <1>4, <1>5 DEF InSync

(* The index a server builds from storage when it has no statefile.        *)
LEMMA SyncFresh ==
  ASSUME NEW s \in ObjectList, NEW sf, Primed, ~UseStatefiles
  PROVE  InSync(<<>>, s, Booted(sf, s).raw)
<1> DEFINE e == Booted(sf, s).raw
<1>1. \A c \in Charts : Right(s, e, c)
  <2>1. NewRepositoryIndex(sf).raw = Empty
    BY DEF NewRepositoryIndex, Regenerated
  <2>2. Indexed(Empty) = {}
    BY DEF Indexed, Empty
  <2>3. CASE GetObjectSliceDiff(Empty, s) = NoDiff
    <3>1. e = Empty
      BY <2>1, <2>3 DEF Booted, PrimeScans
    <3>2. Stored(s) = {}
      BY <2>2, <2>3 DEF GetObjectSliceDiff, NoDiff
    <3>3. QED
      BY <3>1, <3>2 DEF Right, Empty, Stored
  <2>4. CASE GetObjectSliceDiff(Empty, s) # NoDiff
    <3>1. e = Reconciled(Empty, s)
      BY <2>1, <2>2, <2>4 DEF Booted, PrimeScans, Regenerated
    <3>2. GetObjectSliceDiff(Empty, s) =
              [removed |-> {}, updated |-> {}, added |-> Stored(s)]
      BY <2>2 DEF GetObjectSliceDiff
    <3>3. \A c \in Charts :
              e[c] = IF c \in Stored(s) \ Invalid
                     THEN ChartVersionFromStorageObject(s[c]) ELSE None
      BY <3>1, <3>2 DEF Reconciled, Empty
    <3>4. \A c \in Charts :
              /\ ChartVersionFromStorageObject(s[c]) # None
              /\ ChartVersionFromStorageObject(s[c]).digest = s[c]
      BY DataAssumption DEF ChartVersionFromStorageObject, ObjectList, Stamp
    <3>5. QED
      BY <3>3, <3>4 DEF Right, Stored
  <2>5. QED
    BY <2>3, <2>4
<1> HIDE DEF e
<1>2. \A c \in Charts : On(<<>>, c) = {}
  BY DEF On
<1>3. InSync(<<>>, s, e)
  BY <1>1, <1>2 DEF InSync, LastHolds, Kept
<1>4. QED
  BY <1>3 DEF e
-----------------------------------------------------------------------------
(* The steps of one client and of the listener.                            *)

LEMMA QueueTypes ==
  ASSUME NEW p, Clients = {p}, TypeInv
  PROVE  /\ InHand \in Seq(Event)
         /\ events \in Seq(Event)
         /\ InHand \o events \in Seq(Event)
         /\ Outgoing(p) \in Seq(Event)
         /\ Queue(p) \in Seq(Event)
<1>1. /\ events \in Seq(Event)
      /\ lpc \in {"look", "apply"} => lreq \in Event
      /\ pc[p] \in {"build", "send"} => req[p] \in Event
      /\ clock \in Nat
    BY DEF TypeInv, TypeOK
<1>2. InHand \in Seq(Event)
  BY <1>1 DEF InHand
<1>3. pc[p] = "build" => [req[p] EXCEPT !.created = clock] \in Event
  BY <1>1 DEF Event, Stamp
<1>4. Outgoing(p) \in Seq(Event)
  BY <1>1, <1>3 DEF Outgoing
<1>5. InHand \o events \in Seq(Event)
  BY <1>1, <1>2, ConcatProperties
<1>6. Queue(p) \in Seq(Event)
  BY <1>4, <1>5, ConcatProperties DEF Queue
<1>7. QED
  BY <1>1, <1>2, <1>4, <1>5, <1>6

(* Nothing the queue is compared with changes.                             *)
LEMMA SequentialFrame ==
  ASSUME NEW p, SequentialInv(p), UNCHANGED <<storage, entries>>,
         torn' => torn,
         Queue(p)' = Queue(p),
         EventCap = 0 => events' = <<>>,
         pc'[p] = "put" => pc[p] = "put" /\ req'[p] = req[p],
         pc'[p] \in {"flush", "diff"} => list'[p] = storage,
         pc'[p] = "work" =>
             /\ todo'[p].removed \cap Stored(storage) = {}
             /\ (todo'[p].updated \cup todo'[p].added)
                    \subseteq Stored(storage)
  PROVE  SequentialInv(p)'
BY DEF SequentialInv

(* A regeneration changes one entry.                                       *)
LEMMA SequentialWork ==
  ASSUME NEW p, SequentialUse(p), TypeInv, SequentialInv(p), TypeInv',
         NEW c \in Charts, pc[p] = "work",
         \A d \in Charts : d # c => entries'[d] = entries[d],
         \/ entries'[c] = entries[c]
         \/ storage[c] = 0 /\ entries'[c] = None
         \/ /\ storage[c] # 0 /\ c \notin Invalid
            /\ entries'[c] = ChartVersionFromStorageObject(storage[c]),
         \E d \in Diffs : /\ todo' = [todo EXCEPT ![p] = d]
                          /\ d.removed \subseteq todo[p].removed
                          /\ d.updated \subseteq todo[p].updated
                          /\ d.added \subseteq todo[p].added,
         UNCHANGED <<storage, clock, torn, events, lpc, lreq, pc, req, list>>
  PROVE  SequentialInv(p)'
<1>1. Queue(p)' = Queue(p)
  BY DEF Queue, InHand, Outgoing
<1>2. /\ storage \in ObjectList /\ entries \in EntryMap
      /\ entries' \in EntryMap /\ Queue(p) \in Seq(Event)
      /\ todo \in [Procs -> Diffs] /\ p \in Procs
  BY QueueTypes DEF SequentialUse, TypeInv, TypeOK, Procs
<1>3. InSync(Queue(p), storage, entries')
  BY <1>2, SyncEntry DEF SequentialInv
<1>4. /\ todo'[p].removed \subseteq todo[p].removed
      /\ todo'[p].updated \subseteq todo[p].updated
      /\ todo'[p].added \subseteq todo[p].added
  BY <1>2
<1>5. QED
  BY <1>1, <1>3, <1>4 DEF SequentialInv

LEMMA SequentialInit ==
  ASSUME NEW p, SequentialUse(p), Init
  PROVE  SequentialInv(p)
<1>1. TypeInv
  BY TypeInit
<1>2. /\ storage \in ObjectList
      /\ entries = Booted(None, storage).raw
      /\ ~torn /\ events = <<>> /\ lpc = "receive"
      /\ p \in Clients /\ pc[p] = "idle"
  BY <1>1 DEF Init, SequentialUse, Procs, TypeInv, TypeOK
<1>3. Queue(p) = <<>>
  BY <1>2 DEF Queue, InHand, Outgoing
<1>4. InSync(<<>>, storage, entries)
  BY <1>2, SyncFresh DEF SequentialUse
<1>5. QED
  BY <1>2, <1>3, <1>4 DEF SequentialInv

LEMMA HeadThenTail ==
  ASSUME NEW q \in Seq(Event), q # <<>>
  PROVE  <<Head(q)>> \o Tail(q) = q
<1>1. Len(q) \in Nat /\ Len(q) >= 1
  BY EmptySeq, LenProperties
<1>2. SubSeq(q, 1, Len(q)) = <<q[1]>> \o SubSeq(q, 2, Len(q))
  BY <1>1, SubSeqRecursiveFirst
<1>3. SubSeq(q, 1, Len(q)) = q /\ SubSeq(q, 2, Len(q)) = Tail(q)
  BY SubSeqFull, TailIsSubSeq
<1>4. QED
  BY <1>2, <1>3

(* The event an upload starts with.                                        *)
LEMMA UploadStarts ==
  ASSUME NEW p \in Clients, NEW c \in Charts,
         req \in [Clients -> Event \cup {None}], UploadChartPackage(p, c)
  PROVE  /\ c \notin Invalid
         /\ req'[p].chart = c
         /\ req'[p].op \in {"add", "update"}
         /\ ~Faults =>
                req'[p].op = (IF storage[c] = 0 THEN "add" ELSE "update")
<1>1. PICK found \in {storage[c] # 0} \cup {b \in {FALSE} : Faults} :
          req' = [req EXCEPT ![p] =
                     [op |-> IF found THEN "update" ELSE "add",
                      chart |-> c, digest |-> 0, created |-> 0]]
  BY DEF UploadChartPackage
<1>2. req'[p] = [op |-> IF found THEN "update" ELSE "add",
                 chart |-> c, digest |-> 0, created |-> 0]
  BY <1>1
<1>3. ~Faults => (found <=> storage[c] # 0)
  BY <1>1
<1>4. c \notin Invalid
  BY DEF UploadChartPackage
<1>5. QED
  BY <1>2, <1>3, <1>4

LEMMA SequentialStep ==
  ASSUME NEW p, SequentialUse(p), TypeInv, OneLister, LockOwner, TypeInv',
         SequentialInv(p), [Next]_vars
  PROVE  SequentialInv(p)'
<1>1. /\ p \in Clients /\ p \in Procs /\ Procs = Clients
      /\ \A q \in Clients : q = p
      /\ pc \in [Procs -> ClientPC \cup RefresherPC]
      /\ list \in [Procs -> ObjectList \cup {None, Failed}]
      /\ todo \in [Procs -> Diffs]
      /\ req \in [Clients -> Event \cup {None}]
      /\ storage \in ObjectList
      /\ entries \in EntryMap
      /\ clock \in Nat
      /\ Queue(p) \in Seq(Event)
  BY QueueTypes DEF SequentialUse, Procs, TypeInv, TypeOK
<1> USE DEF Goto, worldVars, diskVars, indexVars, listenerVars, procVars
<1>2. CASE GetIndexFileStart(p)
  <2>1. pc' = [pc EXCEPT ![p] = "lock"] /\ pc[p] = "idle"
    BY <1>2 DEF GetIndexFileStart
  <2>2. UNCHANGED <<storage, entries, torn, events, lpc, lreq, req, clock>>
    BY <1>2 DEF GetIndexFileStart
  <2>3. pc'[p] = "lock"
    BY <1>1, <2>1
  <2>4. Queue(p)' = Queue(p)
    BY <2>1, <2>2, <2>3 DEF Queue, InHand, Outgoing
  <2>5. QED
    BY <2>2, <2>3, <2>4, SequentialFrame DEF SequentialInv
<1>3. ASSUME NEW c \in Charts, UploadChartPackage(p, c)
      PROVE  SequentialInv(p)'
  <2>1. pc[p] = "idle" /\ pc'[p] = "put"
    BY <1>1, <1>3 DEF UploadChartPackage
  <2>2. UNCHANGED <<storage, entries, torn, events, lpc, lreq, clock>>
    BY <1>3 DEF UploadChartPackage
  <2>3. /\ req'[p].op = IF storage[c] = 0 THEN "add" ELSE "update"
        /\ req'[p].chart = c
        /\ c \notin Invalid
    BY <1>1, <1>3, UploadStarts DEF SequentialUse
  <2>4. Queue(p)' = Queue(p)
    BY <2>1, <2>2 DEF Queue, InHand, Outgoing
  <2>5. QED
    BY <2>1, <2>2, <2>3, <2>4 DEF SequentialInv
<1>4. ASSUME NEW c \in Charts, DeleteChartVersion(p, c)
      PROVE  SequentialInv(p)'
  <2> DEFINE ev == [op |-> "delete", chart |-> c, digest |-> 0, created |-> 0]
  <2>1. pc[p] = "idle" /\ pc'[p] = "send"
    BY <1>1, <1>4 DEF DeleteChartVersion
  <2>2. UNCHANGED <<entries, torn, events, lpc, lreq, clock>>
    BY <1>4 DEF DeleteChartVersion
  <2>3. req'[p] = ev /\ storage' = [storage EXCEPT ![c] = 0]
    BY <1>1, <1>4 DEF DeleteChartVersion
  <2>4. ev \in Event
    BY DEF Event, Stamp
  <2>5. storage' \in ObjectList /\ storage'[c] = 0
        /\ \A d \in Charts : d # c => storage'[d] = storage[d]
    BY <1>1, <2>3 DEF ObjectList, Stamp
  <2>6. Queue(p) = InHand \o events
    <3>1. InHand \o events \in Seq(Event) /\ Outgoing(p) = <<>>
      BY <2>1, QueueTypes DEF Outgoing, SequentialUse
    <3>2. QED
      BY <3>1, ConcatEmptySeq DEF Queue
  <2>7. Queue(p)' = Append(Queue(p), ev)
    <3>1. Queue(p)' = (InHand \o events) \o <<ev>>
      BY <2>1, <2>2, <2>3 DEF Queue, InHand, Outgoing
    <3> HIDE DEF ev
    <3>2. QED
      BY <3>1, <2>4, <2>6, <1>1, AppendIsConcat
  <2>8. Holds(ev, storage') /\ ev.chart = c /\ ev.op # "update"
    BY <2>5 DEF Holds
  <2> HIDE DEF ev
  <2>9. InSync(Append(Queue(p), ev), storage', entries)
    BY <1>1, <2>4, <2>5, <2>8, SyncAppend DEF SequentialInv
  <2>10. QED
    BY <2>1, <2>2, <2>7, <2>9 DEF SequentialInv
<1>5. CASE PutObject(p)
  <2> DEFINE ev == [req[p] EXCEPT !.digest = clock + 1, !.created = clock + 1]
  <2>1. pc[p] = "put" /\ pc'[p] = "build"
    BY <1>1, <1>5 DEF PutObject
  <2>2. UNCHANGED <<entries, torn, events, lpc, lreq>>
    BY <1>5 DEF PutObject
  <2>3. /\ clock' = clock + 1
        /\ storage' = [storage EXCEPT ![req[p].chart] = clock + 1]
        /\ req'[p] = [req[p] EXCEPT !.digest = clock + 1]
    BY <1>1, <1>5 DEF PutObject
  <2>4. req[p] \in Event
    BY <1>1, <2>1 DEF TypeInv
  <2>5. /\ ev \in Event /\ ev.chart = req[p].chart /\ ev.op = req[p].op
        /\ ev.digest = clock + 1 /\ ev.chart \in Charts
    <3>1. clock + 1 \in Nat
      BY <1>1
    <3> DEFINE n == clock + 1
    <3> HIDE DEF n
    <3>2. n \in Nat /\ ev = [req[p] EXCEPT !.digest = n, !.created = n]
      BY <3>1 DEF n
    <3> HIDE DEF ev
    <3>3. /\ ev \in Event /\ ev.chart = req[p].chart /\ ev.op = req[p].op
          /\ ev.digest = n /\ ev.chart \in Charts
      BY <2>4, <3>2 DEF Event, Stamp
    <3>4. QED
      BY <3>3 DEF n
  <2>6. storage' \in ObjectList /\ storage'[ev.chart] = clock + 1
        /\ \A d \in Charts : d # ev.chart => storage'[d] = storage[d]
    BY <1>1, <2>3, <2>5 DEF ObjectList, Stamp
  <2>7. Queue(p) = InHand \o events
    <3>1. InHand \o events \in Seq(Event) /\ Outgoing(p) = <<>>
      BY <2>1, QueueTypes DEF Outgoing, SequentialUse
    <3>2. QED
      BY <3>1, ConcatEmptySeq DEF Queue
  <2>8. Queue(p)' = Append(Queue(p), ev)
    <3>1. [req'[p] EXCEPT !.created = clock'] = ev
      BY <2>3, <2>4 DEF Event
    <3>2. Queue(p)' = (InHand \o events) \o <<ev>>
      BY <3>1, <2>1, <2>2 DEF Queue, InHand, Outgoing
    <3> HIDE DEF ev
    <3>3. QED
      BY <3>2, <2>5, <2>7, <1>1, AppendIsConcat
  <2>9. /\ req[p].op = IF storage[req[p].chart] = 0 THEN "add" ELSE "update"
        /\ req[p].chart \notin Invalid
    BY <2>1 DEF SequentialInv
  <2> HIDE DEF ev
  <2>10. Holds(ev, storage') /\ (ev.op = "update" => storage[ev.chart] # 0)
    BY <1>1, <2>5, <2>6, <2>9 DEF Holds
  <2>11. InSync(Append(Queue(p), ev), storage', entries)
    BY <1>1, <2>5, <2>6, <2>10, SyncAppend DEF SequentialInv
  <2>12. QED
    BY <2>1, <2>2, <2>8, <2>11 DEF SequentialInv
<1>6. CASE BuildEvent(p)
  <2>1. pc[p] = "build" /\ pc'[p] = "send"
    BY <1>1, <1>6 DEF BuildEvent
  <2>2. UNCHANGED <<storage, entries, torn, events, lpc, lreq, clock>>
    BY <1>6 DEF BuildEvent
  <2>3. req'[p] = [req[p] EXCEPT !.created = clock]
    BY <1>1, <1>6 DEF BuildEvent
  <2>4. Queue(p)' = Queue(p)
    BY <2>1, <2>2, <2>3 DEF Queue, InHand, Outgoing
  <2>5. QED
    BY <2>1, <2>2, <2>4, SequentialFrame DEF SequentialInv
<1>7. CASE EmitEvent(p)
  <2>1. pc[p] = "send" /\ pc'[p] = "idle"
    BY <1>1, <1>7 DEF EmitEvent
  <2>2. UNCHANGED <<storage, entries, torn, lpc, lreq>>
    BY <1>7 DEF EmitEvent
  <2>3. events' = Append(events, req[p]) /\ Len(events) < EventCap
    BY <1>7 DEF EmitEvent
  <2>4. req[p] \in Event /\ InHand \in Seq(Event) /\ events \in Seq(Event)
    BY <1>1, <2>1, QueueTypes DEF TypeInv, SequentialUse
  <2>5. Queue(p)' = Queue(p)
    <3>1. Queue(p) = (InHand \o events) \o <<req[p]>>
      BY <2>1 DEF Queue, Outgoing
    <3>2. Queue(p)' = (InHand \o Append(events, req[p])) \o <<>>
      BY <2>1, <2>2, <2>3 DEF Queue, InHand, Outgoing
    <3>3. Append(events, req[p]) = events \o <<req[p]>>
      BY <2>4, AppendIsConcat
    <3>4. /\ <<req[p]>> \in Seq(Event)
          /\ events \o <<req[p]>> \in Seq(Event)
      BY <2>4, ConcatProperties
    <3>5. (InHand \o events) \o <<req[p]>> = InHand \o (events \o <<req[p]>>)
      BY <2>4, <3>4, ConcatAssociative
    <3>6. InHand \o (events \o <<req[p]>>) \in Seq(Event)
      BY <2>4, <3>4, ConcatProperties
    <3>7. QED
      BY <3>1, <3>2, <3>3, <3>5, <3>6, ConcatEmptySeq
  <2>6. EventCap # 0
    <3>1. Len(events) \in Nat /\ EventCap \in Nat
      BY <2>4, LenProperties, BoundAssumption
    <3>2. QED
      BY <2>3, <3>1
  <2>7. QED
    BY <2>1, <2>2, <2>5, <2>6, SequentialFrame
<1>8. CASE HandOver(p)
  <2>1. pc[p] = "send" /\ pc'[p] = "idle"
    BY <1>1, <1>8 DEF HandOver
  <2>2. UNCHANGED <<storage, entries, torn, events>>
    BY <1>8 DEF HandOver
  <2>3. lpc = "receive" /\ lpc' = "look" /\ lreq' = req[p] /\ events = <<>>
    BY <1>8 DEF HandOver, SequentialInv
  <2>4. req[p] \in Event
    BY <1>1, <2>1 DEF TypeInv
  <2>5. Queue(p)' = Queue(p)
    <3>1. Queue(p) = (<<>> \o <<>>) \o <<req[p]>>
      BY <2>1, <2>3 DEF Queue, InHand, Outgoing
    <3>2. Queue(p)' = (<<req[p]>> \o <<>>) \o <<>>
      BY <2>1, <2>2, <2>3 DEF Queue, InHand, Outgoing
    <3>3. <<req[p]>> \in Seq(Event) /\ <<>> \in Seq(Event)
      BY <2>4
    <3>4. QED
      BY <3>1, <3>2, <3>3, ConcatEmptySeq
  <2>6. QED
    BY <2>1, <2>2, <2>5, SequentialFrame DEF SequentialInv
<1>9. CASE ReceiveEvent
  <2>1. UNCHANGED <<storage, entries, torn, pc, req, clock, list, todo>>
    BY <1>9 DEF ReceiveEvent
  <2>2. /\ lpc = "receive" /\ lpc' = "look" /\ events # <<>>
        /\ lreq' = Head(events) /\ events' = Tail(events)
    BY <1>9 DEF ReceiveEvent
  <2>3. events \in Seq(Event)
    BY DEF TypeInv, TypeOK
  <2>4. Head(events) \in Event /\ Tail(events) \in Seq(Event)
    BY <2>2, <2>3, HeadTailProperties
  <2>5. <<Head(events)>> \o Tail(events) = events
    BY <2>2, <2>3, HeadThenTail
  <2>6. Queue(p)' = Queue(p)
    <3>1. Queue(p) = (<<>> \o events) \o Outgoing(p)
      BY <2>2 DEF Queue, InHand
    <3>2. Queue(p)' = (<<Head(events)>> \o Tail(events)) \o Outgoing(p)
      BY <2>1, <2>2 DEF Queue, InHand, Outgoing
    <3>3. QED
      BY <2>3, <2>5, <3>1, <3>2, ConcatEmptySeq
  <2>7. QED
    BY <2>1, <2>2, <2>6, SequentialFrame DEF SequentialInv
<1>10. CASE LookUpIndex
  <2>1. UNCHANGED <<storage, entries, torn, pc, req, clock, list, todo, events,
                    lreq>>
    BY <1>10 DEF LookUpIndex
  <2>2. lpc = "look" /\ lpc' = "apply"
    BY <1>10 DEF LookUpIndex
  <2>3. Queue(p)' = Queue(p)
    BY <2>1, <2>2 DEF Queue, InHand, Outgoing
  <2>4. QED
    BY <2>1, <2>3, SequentialFrame DEF SequentialInv
<1>11. CASE ApplyEvent
  <2>1. UNCHANGED <<storage, torn, pc, req, clock, list, todo, events, lreq>>
    BY <1>11 DEF ApplyEvent
  <2>2. lpc = "apply" /\ lpc' = "install"
    BY <1>11 DEF ApplyEvent
  <2>3. entries' = Applied(lreq, entries)
    BY <1>11 DEF ApplyEvent, Applied
  <2>4. lreq \in Event /\ events \in Seq(Event) /\ Outgoing(p) \in Seq(Event)
    BY <2>2, QueueTypes DEF TypeInv, SequentialUse
  <2>5. Queue(p) = <<lreq>> \o (events \o Outgoing(p))
    <3>1. <<lreq>> \in Seq(Event)
      BY <2>4
    <3>2. QED
      BY <2>2, <2>4, <3>1, ConcatAssociative DEF Queue, InHand
  <2>6. Queue(p)' = events \o Outgoing(p)
    <3>1. Queue(p)' = (<<>> \o events) \o Outgoing(p)
      BY <2>1, <2>2 DEF Queue, InHand, Outgoing
    <3>2. QED
      BY <2>4, <3>1, ConcatEmptySeq
  <2>7. /\ Queue(p) # <<>> /\ Queue(p)[1] = lreq
        /\ Tail(Queue(p)) = Queue(p)'
    <3>1. events \o Outgoing(p) \in Seq(Event)
      BY <2>4, ConcatProperties
    <3> DEFINE r == events \o Outgoing(p)
    <3> HIDE DEF r
    <3>2. /\ <<lreq>> \o r # <<>> /\ (<<lreq>> \o r)[1] = lreq
          /\ Tail(<<lreq>> \o r) = r
      BY <2>4, <3>1 DEF r
    <3>3. QED
      BY <2>5, <2>6, <3>2 DEF r
  <2>8. InSync(Tail(Queue(p)), storage, Applied(lreq, entries))
    BY <1>1, <2>7, SyncApply DEF SequentialInv
  <2>9. QED
    BY <2>1, <2>3, <2>7, <2>8 DEF SequentialInv
<1>12. CASE InstallIndex \/ SpawnSave
  <2>1. UNCHANGED <<storage, entries, pc, req, clock, list, todo, events>>
    BY <1>12 DEF InstallIndex, SpawnSave
  <2>2. torn' => torn
    BY <1>12 DEF InstallIndex, SpawnSave
  <2>3. lpc \notin {"look", "apply"} /\ lpc' \notin {"look", "apply"}
    BY <1>12 DEF InstallIndex, SpawnSave
  <2>4. Queue(p)' = Queue(p)
    BY <2>1, <2>3 DEF Queue, InHand, Outgoing
  <2>5. QED
    BY <2>1, <2>2, <2>4, SequentialFrame DEF SequentialInv
<1>13. ASSUME NEW snap \in saves, SaveStatefile(snap)
       PROVE  SequentialInv(p)'
  <2>1. UNCHANGED <<storage, entries, torn, pc, req, clock, list, todo, events,
                    lpc, lreq>>
    BY <1>13 DEF SaveStatefile
  <2>2. Queue(p)' = Queue(p)
    BY <2>1 DEF Queue, InHand, Outgoing
  <2>3. QED
    BY <2>1, <2>2, SequentialFrame DEF SequentialInv
<1>14. CASE GetIndexFileFast(p) \/ GetIndexFileListError(p)
            \/ GetIndexFileNoChange(p) \/ Render(p) \/ Marshal(p)
  <2>1. UNCHANGED <<storage, entries, torn, req, clock, todo, events, lpc,
                    lreq>>
    BY <1>14
    DEF GetIndexFileFast, GetIndexFileListError, GetIndexFileNoChange,
        Render, Marshal
  <2>2. /\ pc[p] \in {"lock", "diff", "render", "marshal"}
        /\ pc'[p] \in {"render", "marshal", "idle"}
    BY <1>1, <1>14
    DEF GetIndexFileFast, GetIndexFileListError, GetIndexFileNoChange,
        Render, Marshal, Answer
  <2>3. Queue(p)' = Queue(p)
    BY <2>1, <2>2 DEF Queue, InHand, Outgoing
  <2>4. QED
    BY <2>1, <2>2, <2>3, SequentialFrame DEF SequentialInv
<1>15. CASE GetIndexFileLock(p)
  <2>1. UNCHANGED <<storage, entries, torn, req, clock, todo, events, lpc,
                    lreq>>
    BY <1>15 DEF GetIndexFileLock
  <2>2. pc[p] = "lock" /\ pc'[p] \in {"list", "wait"}
    BY <1>1, <1>15 DEF GetIndexFileLock, JoinFetch
  <2>3. Queue(p)' = Queue(p)
    BY <2>1, <2>2 DEF Queue, InHand, Outgoing
  <2>4. QED
    BY <2>1, <2>2, <2>3, SequentialFrame DEF SequentialInv
<1>16. CASE FetchChartsInStorage(p)
  <2>1. UNCHANGED <<storage, entries, torn, req, clock, todo, events, lpc,
                    lreq>>
    BY <1>16 DEF FetchChartsInStorage
  <2>2. pc[p] = "list" /\ pc'[p] = "flush" /\ list'[p] = storage
    BY <1>1, <1>16 DEF FetchChartsInStorage, SequentialUse
  <2>3. Queue(p)' = Queue(p)
    BY <2>1, <2>2 DEF Queue, InHand, Outgoing
  <2>4. QED
    BY <2>1, <2>2, <2>3, SequentialFrame DEF SequentialInv
<1>17. CASE FlushFetchers(p)
  <2>1. UNCHANGED <<storage, entries, torn, req, clock, todo, events, lpc,
                    lreq>>
    BY <1>17 DEF FlushFetchers
  <2>2. pc[p] = "flush" /\ p \in waiters
    BY <1>1, <1>17 DEF FlushFetchers, OneLister, Listers
  <2>3. list'[p] = list[p] /\ pc'[p] = "diff"
    BY <1>1, <1>17, <2>2 DEF FlushFetchers
  <2>4. Queue(p)' = Queue(p)
    BY <2>1, <2>2, <2>3 DEF Queue, InHand, Outgoing
  <2>5. QED
    BY <2>1, <2>2, <2>3, <2>4, SequentialFrame DEF SequentialInv
<1>18. CASE GetIndexFileChange(p)
  <2>1. UNCHANGED <<storage, entries, torn, req, clock, events, lpc, lreq>>
    BY <1>18 DEF GetIndexFileChange
  <2>2. pc[p] = "diff" /\ pc'[p] = "work" /\ list[p] = storage
    BY <1>1, <1>18 DEF GetIndexFileChange, SequentialInv
  <2>3. todo'[p] = GetObjectSliceDiff(entries, storage)
    BY <1>1, <1>18, <2>2 DEF GetIndexFileChange
  <2>4. /\ todo'[p].removed \cap Stored(storage) = {}
        /\ (todo'[p].updated \cup todo'[p].added) \subseteq Stored(storage)
    BY <2>3 DEF GetObjectSliceDiff
  <2>5. Queue(p)' = Queue(p)
    BY <2>1, <2>2 DEF Queue, InHand, Outgoing
  <2>6. QED
    BY <2>1, <2>2, <2>4, <2>5, SequentialFrame DEF SequentialInv
<1>19. ASSUME NEW c \in Charts,
              \/ RemoveIndexObject(p, c)
              \/ UpdateIndexObject(p, c)
              \/ AddIndexObject(p, c)
       PROVE  SequentialInv(p)'
  <2> DEFINE d1 == [todo[p] EXCEPT !.removed = @ \ {c}]
             d2 == [todo[p] EXCEPT !.updated = @ \ {c}]
             d3 == [todo[p] EXCEPT !.added = @ \ {c}]
  <2>1. /\ pc[p] = "work"
        /\ UNCHANGED <<storage, clock, torn, events, lpc, lreq, pc, req, list>>
    BY <1>19 DEF RemoveIndexObject, UpdateIndexObject, AddIndexObject
  <2>2. \A d \in Charts : d # c => entries'[d] = entries[d]
    BY <1>1, <1>19
    DEF RemoveIndexObject, UpdateIndexObject, AddIndexObject,
        RemoveEntry, UpdateEntry, AddEntry, EntryMap
  <2>3. RemoveIndexObject(p, c) => storage[c] = 0
    BY <2>1 DEF RemoveIndexObject, SequentialInv, Stored
  <2>4. \/ entries'[c] = entries[c]
        \/ storage[c] = 0 /\ entries'[c] = None
        \/ /\ storage[c] # 0 /\ c \notin Invalid
           /\ entries'[c] = ChartVersionFromStorageObject(storage[c])
    BY <1>1, <1>19, <2>3
    DEF RemoveIndexObject, UpdateIndexObject, AddIndexObject,
        RemoveEntry, UpdateEntry, AddEntry, EntryMap
  <2>5. \E d \in {d1, d2, d3} : todo' = [todo EXCEPT ![p] = d]
    BY <1>19 DEF RemoveIndexObject, UpdateIndexObject, AddIndexObject
  <2>6. todo[p] \in Diffs
    BY <1>1
  <2>7. \A d \in {d1, d2, d3} : /\ d \in Diffs
                                /\ d.removed \subseteq todo[p].removed
                                /\ d.updated \subseteq todo[p].updated
                                /\ d.added \subseteq todo[p].added
    BY <2>6 DEF Diffs
  <2> HIDE DEF d1, d2, d3
  <2>8. QED
    BY <2>1, <2>2, <2>4, <2>5, <2>7, SequentialWork
<1>20. CASE RegenerateFail(p)
  <2>1. todo[p].updated \cup todo[p].added \subseteq Stored(storage)
    BY <1>20 DEF RegenerateFail, SequentialInv
  <2>2. FALSE
    BY <1>20, <2>1 DEF RegenerateFail, SequentialUse, Stored
  <2>3. QED
    BY <2>2
<1>21. CASE RegenerateDone(p)
  <2>1. UNCHANGED <<storage, entries, req, clock, events, lpc, lreq>>
    BY <1>21 DEF RegenerateDone
  <2>2. /\ torn' => torn
        /\ pc[p] = "work"
        /\ pc'[p] \in {"render", "marshal", "idle"}
    BY <1>1, <1>21 DEF RegenerateDone
  <2>3. Queue(p)' = Queue(p)
    BY <2>1, <2>2 DEF Queue, InHand, Outgoing
  <2>4. QED
    BY <2>1, <2>2, <2>3, SequentialFrame DEF SequentialInv
<1>22. CASE Restart
  <2>1. /\ storage' = storage /\ entries' = Booted(statefile, storage).raw
        /\ torn' = FALSE /\ events' = <<>> /\ lpc' = "receive"
        /\ pc'[p] = "idle"
    BY <1>1, <1>22 DEF Restart, FreshMemory
  <2>2. Queue(p)' = <<>>
    BY <2>1 DEF Queue, InHand, Outgoing
  <2>3. InSync(<<>>, storage, Booted(statefile, storage).raw)
    BY <1>1, SyncFresh DEF SequentialUse
  <2>4. QED
    BY <2>1, <2>2, <2>3 DEF SequentialInv
<1>23. CASE UNCHANGED vars
  <2>1. UNCHANGED <<storage, entries, torn, pc, req, clock, list, todo, events,
                    lpc, lreq>>
    BY <1>23 DEF vars
  <2>2. Queue(p)' = Queue(p)
    BY <2>1 DEF Queue, InHand, Outgoing
  <2>3. QED
    BY <2>1, <2>2, SequentialFrame DEF SequentialInv
<1>24. CASE Next
  <2>1. \/ RequestStart(p)
        \/ Progress(p)
        \/ ListenerStep
        \/ \E snap \in saves : SaveStatefile(snap)
        \/ Restart
    BY <1>1, <1>24 DEF Next, SequentialUse, ManualPut, ManualDelete
  <2>2. CASE RequestStart(p)
    BY <1>2, <1>3, <1>4, <2>2 DEF RequestStart
  <2>3. CASE Progress(p)
    <3>1. ~PutObjectError(p) /\ p \notin Refreshers
      BY DEF PutObjectError, SequentialUse
    <3>2. QED
      BY <1>5, <1>6, <1>7, <1>8, <1>14, <1>15, <1>16, <1>17, <1>18, <1>19,
         <1>20, <1>21, <2>3, <3>1
      DEF Progress, RegenerateStep, GetIndexFileStep, UploadStep
  <2>4. CASE ListenerStep
    BY <1>9, <1>10, <1>11, <1>12, <2>4 DEF ListenerStep
  <2>5. QED
    BY <1>13, <1>22, <2>1, <2>2, <2>3, <2>4
<1>25. QED
  BY <1>23, <1>24

(* What holds of one client's server at any time.                          *)
LEMMA SequentialInvariant ==
  ASSUME NEW p, SequentialUse(p)
  PROVE  Spec => [](/\ TypeInv
                    /\ RawInv
                    /\ SequentialInv(p))
<1> DEFINE Inv == TypeInv /\ OneLister /\ LockOwner /\ RawInv
                    /\ SequentialInv(p)
<1>1. Init => Inv
  BY TypeInit, OneListerInit, LockOwnerInit, RawInit, SequentialInit
<1>2. Inv /\ [Next]_vars => Inv'
  <2> SUFFICES ASSUME Inv, [Next]_vars PROVE Inv'
    OBVIOUS
  <2>1. TypeInv' /\ OneLister' /\ LockOwner' /\ RawInv'
    BY TypeStep, OneListerStep, LockOwnerStep, RawStep
  <2>2. SequentialInv(p)'
    BY <2>1, SequentialStep
  <2>3. QED
    BY <2>1, <2>2
<1>3. QED
  BY <1>1, <1>2, PTL DEF Spec

(* With nothing pending the entries are those of the stored packages.      *)
LEMMA NothingPending ==
  ASSUME NEW p, SequentialUse(p), TypeInv, SequentialInv(p), events = <<>>,
         lpc \in {"receive", "stat"}, pc[p] \notin {"build", "send"}
  PROVE  /\ Indexed(entries) = Stored(storage) \ Invalid
         /\ \A c \in Indexed(entries) : entries[c].digest = storage[c]
<1>1. Queue(p) = <<>>
  BY DEF Queue, InHand, Outgoing
<1>2. \A c \in Charts : On(Queue(p), c) = {}
  BY <1>1 DEF On
<1>3. \A c \in Charts : Right(storage, entries, c)
  BY <1>2 DEF SequentialInv, InSync
<1>4. QED
  BY <1>3 DEF Right, Indexed, Stored

(* One client, no timer, no failures: when everything has come to rest the *)
(* index lists exactly the stored packages, with their digests, and the    *)
(* bytes served are those of the entries, whatever of the uploads and      *)
(* deletes of the client the listener had not got to when a GET listed     *)
(* storage, and whenever the server was started again.                     *)
THEOREM SequentialIndexIsRight ==
  ASSUME NEW p, SequentialUse(p)
  PROVE  Spec => []IndexMatchesStorage
<1>1. TypeInv /\ RawInv /\ SequentialInv(p) => IndexMatchesStorage
  <2> SUFFICES ASSUME TypeInv, RawInv, SequentialInv(p), Quiescent
               PROVE  /\ Indexed(entries) = Stored(storage) \ Invalid
                      /\ \A c \in Indexed(entries) :
                             entries[c].digest = storage[c]
                      /\ heap[repoIndex].raw = entries
    BY DEF IndexMatchesStorage
  <2>1. /\ events = <<>> /\ lpc = "receive" /\ p \in Procs
        /\ \A q \in Procs : pc[q] = "idle"
    BY DEF Quiescent, SequentialUse, Procs
  <2>2. heap[repoIndex].raw = entries
    BY <2>1 DEF RawInv, Mutators, SequentialInv
  <2>3. QED
    BY <2>1, <2>2, NothingPending
<1>2. QED
  BY <1>1, SequentialInvariant, PTL
-----------------------------------------------------------------------------
(* What a GET that nothing disturbs answers with, one client.              *)

(* A request that is about to render renders what is published, or goes on *)
(* with what it had.                                                       *)
LEMMA RenderStep ==
  ASSUME NEW p, SequentialUse(p), TypeInv, Next, Undisturbed,
         pc'[p] = "render"
  PROVE  \/ ptr'[p] = repoIndex'
         \/ pc[p] = "render" /\ UNCHANGED <<heap, ptr, entries>>
<1>1. /\ p \in Clients /\ p \in Procs /\ Procs = Clients
      /\ \A q \in Clients : q = p
      /\ pc \in [Procs -> ClientPC \cup RefresherPC]
      /\ ptr \in [Clients -> IndexIds]
      /\ p \notin Refreshers
  BY DEF SequentialUse, Procs, TypeInv, TypeOK
<1> USE DEF Goto, indexVars, procVars
<1>2. CASE RequestStart(p)
  BY <1>1, <1>2
  DEF RequestStart, GetIndexFileStart, UploadChartPackage, DeleteChartVersion
<1>3. CASE GetIndexFileFast(p)
  BY <1>1, <1>3 DEF GetIndexFileFast, Answer
<1>4. CASE GetIndexFileNoChange(p)
  BY <1>1, <1>4 DEF GetIndexFileNoChange, Answer
<1>5. CASE RegenerateDone(p)
  BY <1>1, <1>5 DEF RegenerateDone
<1>6. CASE \/ GetIndexFileLock(p) \/ GetIndexFileListError(p)
           \/ GetIndexFileChange(p) \/ Render(p) \/ Marshal(p)
  BY <1>1, <1>6
  DEF GetIndexFileLock, JoinFetch, GetIndexFileListError, GetIndexFileChange,
      Render, Marshal
<1>7. CASE UploadStep(p)
  BY <1>1, <1>7
  DEF UploadStep, PutObject, PutObjectError, BuildEvent, EmitEvent, HandOver
<1>8. CASE FetchChartsInStorage(p)
  BY <1>1, <1>8 DEF FetchChartsInStorage
<1>9. CASE FlushFetchers(p)
  <2>1. pc[p] = "flush"
    BY <1>9 DEF FlushFetchers
  <2>2. pc'[p] \in {"diff", "flush"}
    BY <1>1, <1>9, <2>1 DEF FlushFetchers
  <2>3. QED
    BY <2>2
<1>10. ASSUME NEW c \in Charts,
              \/ RemoveIndexObject(p, c)
              \/ UpdateIndexObject(p, c)
              \/ AddIndexObject(p, c)
       PROVE  FALSE
  BY <1>10 DEF RemoveIndexObject, UpdateIndexObject, AddIndexObject
<1>11. CASE RegenerateFail(p)
  BY <1>1, <1>11 DEF RegenerateFail
<1>12. CASE ListenerStep
  <2>1. SpawnSave
    BY <1>12
    DEF ListenerStep, ReceiveEvent, LookUpIndex, ApplyEvent, InstallIndex,
        Undisturbed
  <2>2. QED
    BY <2>1 DEF SpawnSave
<1>13. CASE \E snap \in saves : SaveStatefile(snap)
  BY <1>13 DEF SaveStatefile
<1>14. CASE Restart
  BY <1>1, <1>14 DEF Restart, FreshMemory
<1>15. \/ RequestStart(p)
       \/ Progress(p)
       \/ ListenerStep
       \/ \E snap \in saves : SaveStatefile(snap)
       \/ Restart
  BY <1>1 DEF Next, SequentialUse, ManualPut, ManualDelete
<1>16. QED
  BY <1>1, <1>2, <1>3, <1>4, <1>5, <1>6, <1>7, <1>8, <1>9, <1>10, <1>11,
     <1>12, <1>13, <1>14, <1>15
  DEF Progress, RegenerateStep, GetIndexFileStep

LEMMA ViewInit == InitReads => ViewInv
BY DEF InitReads, ViewInv

LEMMA ViewStep ==
  ASSUME NEW p, SequentialUse(p), TypeInv, SequentialInv(p)', RawInv',
         ViewInv, [NextReads]_<<vars, view>>
  PROVE  ViewInv'
<1>1. p \in Clients /\ Procs = Clients /\ \A q \in Clients : q = p
  BY DEF SequentialUse, Procs
<1>2. CASE NextReads
  <2> SUFFICES ASSUME view'[p] # None
               PROVE  /\ view'[p] = storage'
                      /\ Undisturbed'
                      /\ pc'[p] = "render" => heap'[ptr'[p]].raw = entries'
    BY <1>1 DEF ViewInv
  <2>1. /\ pc'[p] # "idle" /\ storage' = storage /\ Undisturbed'
        /\ view'[p] = IF pc[p] = "idle" /\ Undisturbed THEN storage
                                                        ELSE view[p]
    BY <1>1, <1>2 DEF NextReads
  <2>2. Undisturbed /\ view'[p] = storage
    BY <1>1, <2>1 DEF ViewInv
  <2>3. ASSUME pc'[p] = "render"
        PROVE  heap'[ptr'[p]].raw = entries'
    <3>1. CASE ptr'[p] = repoIndex'
      <4>1. Mutators' = {}
        BY <1>1, <2>1, <2>3 DEF Mutators, Undisturbed
      <4>2. heap'[repoIndex'].raw = entries'
        BY <2>1, <4>1 DEF RawInv, Undisturbed
      <4>3. QED
        BY <3>1, <4>2
    <3>2. CASE pc[p] = "render" /\ UNCHANGED <<heap, ptr, entries>>
      BY <1>1, <2>1, <3>2 DEF ViewInv
    <3>3. QED
      BY <1>2, <2>2, <2>3, <3>1, <3>2, RenderStep DEF NextReads
  <2>4. QED
    BY <2>1, <2>2, <2>3
<1>3. CASE UNCHANGED <<vars, view>>
  BY <1>3
  DEF vars, worldVars, diskVars, indexVars, listenerVars, procVars,
      ViewInv, Undisturbed
<1>4. QED
  BY <1>2, <1>3

LEMMA ViewInvariant ==
  ASSUME NEW p, SequentialUse(p)
  PROVE  ReadsSpec => [](TypeInv /\ SequentialInv(p) /\ ViewInv)
<1>1. ReadsSpec => Spec
  <2>1. InitReads => Init
    BY DEF InitReads
  <2>2. [NextReads]_<<vars, view>> => [Next]_vars
    BY DEF NextReads
  <2>3. QED
    BY <2>1, <2>2, PTL DEF ReadsSpec, Spec
<1>2. ASSUME TypeInv, SequentialInv(p)', RawInv', ViewInv,
             [NextReads]_<<vars, view>>
      PROVE  ViewInv'
  BY <1>2, ViewStep
<1>3. QED
  BY <1>1, <1>2, ViewInit, SequentialInvariant, PTL DEF ReadsSpec

LEMMA ViewedIsRight ==
  ASSUME NEW p, SequentialUse(p), TypeInv, SequentialInv(p), ViewInv,
         view[p] # None, pc[p] = "render"
  PROVE  /\ Indexed(heap[ptr[p]].raw) = Stored(view[p]) \ Invalid
         /\ \A c \in Indexed(heap[ptr[p]].raw) :
                heap[ptr[p]].raw[c].digest = view[p][c]
<1>1. p \in Clients
  BY DEF SequentialUse
<1>2. heap[ptr[p]].raw = entries /\ view[p] = storage /\ Undisturbed
  BY <1>1 DEF ViewInv
<1>3. QED
  BY <1>2, NothingPending DEF Undisturbed

(* One client, no timer, no failures: a GET that begins with nothing       *)
(* pending lists exactly the packages stored.                              *)
THEOREM SequentialReadsList ==
  ASSUME NEW p, SequentialUse(p)
  PROVE  ReadsSpec => []ReadListsStorage
<1>1. TypeInv /\ SequentialInv(p) /\ ViewInv => ReadListsStorage
  BY ViewedIsRight DEF ReadListsStorage, SequentialUse
<1>2. QED
  BY <1>1, ViewInvariant, PTL

(* ... and gives the digest of each.                                       *)
THEOREM SequentialReadsDigests ==
  ASSUME NEW p, SequentialUse(p)
  PROVE  ReadsSpec => []ReadShowsStoredDigests
<1>1. TypeInv /\ SequentialInv(p) /\ ViewInv => ReadShowsStoredDigests
  BY ViewedIsRight DEF ReadShowsStoredDigests, SequentialUse
<1>2. QED
  BY <1>1, ViewInvariant, PTL
-----------------------------------------------------------------------------
(* A server that always regenerates, with any number of clients, faults,   *)
(* statefiles, crashes and storage changed behind it.                      *)
Regenerates == AlwaysRegenerate /\ Refreshers = {}

(* What is no chart package never gets into an index, or into an event     *)
(* that would add it.                                                      *)
Clean(e) == \A c \in Invalid : e[c] = None

Wholesome(ev) == ev.op # "delete" => ev.chart \notin Invalid

CleanInv ==
    /\ Clean(entries)
    /\ \A i \in IndexIds : Clean(heap[i].raw)
    /\ statefile # None => Clean(statefile.raw)
    /\ \A snap \in saves : Clean(snap.raw)
    /\ \A i \in 1..Len(events) : Wholesome(events[i])
    /\ lpc \in {"look", "apply"} => Wholesome(lreq)
    /\ \A p \in Clients :
           pc[p] \in {"put", "build", "send"} => Wholesome(req[p])

(* An entry the comparison of dates is content with.                       *)
Current(v, stamp) == v.digest = stamp \/ v.created + Tolerance >= stamp

(* What a GET may answer with, given what is stored.                       *)
Lists(e, s) ==
    /\ Indexed(e) = Stored(s) \ Invalid
    /\ \A c \in Indexed(e) : Current(e[c], s[c])

(* What is left of a diff makes of the entries those of the packages.      *)
Covers(d) ==
    \A c \in Charts :
        /\ c \in d.removed => storage[c] = 0
        /\ c \in Indexed(entries) \ d.removed => storage[c] # 0
        /\ c \in Stored(storage) \ (Indexed(entries) \cup Invalid) =>
               c \in d.added
        /\ c \in (Indexed(entries) \cap Stored(storage)) \ d.updated =>
               Current(entries[c], storage[c])

RegenerateInv ==
    \A p \in Clients :
        view[p] # None =>
            /\ view[p] = storage
            /\ Undisturbed
            /\ pc[p] \in {"flush", "diff"} => list[p] \in {storage, Failed}
            /\ pc[p] = "work" => Covers(todo[p])
            /\ pc[p] = "render" => Lists(heap[ptr[p]].raw, storage)

LEMMA CleanBooted ==
  ASSUME NEW sf, NEW s, sf # None => Clean(sf.raw)
  PROVE  Clean(Booted(sf, s).raw)
<1>1. Clean(NewRepositoryIndex(sf).raw)
  BY DataAssumption DEF NewRepositoryIndex, Regenerated, Clean, Empty
<1>2. ASSUME NEW e, Clean(e) PROVE Clean(Reconciled(e, s))
  BY <1>2, DataAssumption DEF Clean, Reconciled
<1>3. QED
  BY <1>1, <1>2 DEF Booted, Regenerated

LEMMA CleanUnused == Clean(Unused.raw)
BY DataAssumption DEF Clean, Unused, Empty

LEMMA CleanInit == Init => CleanInv
<1>1. ASSUME Init PROVE CleanInv
  <2>1. Clean(Booted(None, storage).raw)
    BY CleanBooted
  <2>2. /\ Clean(entries)
        /\ \A i \in IndexIds : Clean(heap[i].raw)
        /\ \A snap \in saves : Clean(snap.raw)
    BY <1>1, <2>1, CleanUnused DEF Init
  <2>3. statefile = None /\ events = <<>> /\ lpc = "receive"
        /\ \A p \in Clients : pc[p] = "idle"
    BY <1>1 DEF Init, Procs
  <2>4. QED
    BY <2>2, <2>3 DEF CleanInv
<1>2. QED
  BY <1>1

(* Only what a step moves has to be looked at.                             *)
LEMMA CleanFrame ==
  ASSUME CleanInv, UNCHANGED <<entries, heap, statefile, saves>>,
         \A i \in 1..Len(events') : Wholesome(events'[i]),
         lpc' \in {"look", "apply"} => Wholesome(lreq'),
         \A p \in Clients :
             pc'[p] \in {"put", "build", "send"} => Wholesome(req'[p])
  PROVE  CleanInv'
BY DEF CleanInv, Wholesome, Clean

(* Requests move on while the events stay where they are.                  *)
LEMMA CleanRequest ==
  ASSUME CleanInv, NEW p \in Procs, NEW label,
         pc \in [Procs -> ClientPC \cup RefresherPC],
         pc' = [pc EXCEPT ![p] = label], label \notin {"put", "build", "send"},
         UNCHANGED <<entries, heap, statefile, saves, events, lpc, lreq>>,
         \A q \in Clients : q # p => req'[q] = req[q]
  PROVE  CleanInv'
<1>1. \A q \in Clients : q # p => pc'[q] = pc[q] /\ req'[q] = req[q]
  BY DEF Procs
<1>2. pc'[p] = label
  OBVIOUS
<1>3. \A q \in Clients :
          pc'[q] \in {"put", "build", "send"} => Wholesome(req'[q])
  BY <1>1, <1>2 DEF CleanInv
<1>4. QED
  BY <1>3, CleanFrame DEF CleanInv

(* A regeneration changes an entry to what is no invalid chart's.          *)
LEMMA CleanWork ==
  ASSUME CleanInv, NEW c \in Charts, Clean(entries'),
         UNCHANGED <<heap, statefile, saves, events, lpc, lreq, pc, req>>
  PROVE  CleanInv'
BY DEF CleanInv

LEMMA CleanStep == TypeInv /\ CleanInv /\ [Next]_vars => CleanInv'
<1> SUFFICES ASSUME TypeInv, CleanInv, [Next]_vars
             PROVE  CleanInv'
  OBVIOUS
<1>0. /\ pc \in [Procs -> ClientPC \cup RefresherPC]
      /\ req \in [Clients -> Event \cup {None}]
      /\ entries \in EntryMap
      /\ heap \in [IndexIds -> Snapshot]
      /\ events \in Seq(Event)
      /\ \A p \in Clients : p \in Procs
  BY DEF TypeInv, TypeOK, Procs
<1> USE DEF Goto, worldVars, diskVars, indexVars, listenerVars, procVars
<1>1. ASSUME NEW p \in Clients,
             \/ GetIndexFileStart(p) \/ GetIndexFileFast(p)
             \/ GetIndexFileListError(p) \/ GetIndexFileNoChange(p)
             \/ GetIndexFileChange(p) \/ Marshal(p) \/ GetIndexFileLock(p)
      PROVE  CleanInv'
  <2>1. UNCHANGED <<entries, heap, statefile, saves, events, lpc, lreq, req>>
    BY <1>1
    DEF GetIndexFileStart, GetIndexFileFast, GetIndexFileListError,
        GetIndexFileNoChange, GetIndexFileChange, Marshal, GetIndexFileLock
  <2>2. \E l \in {"lock", "render", "marshal", "idle", "work", "list",
                  "wait"} :
            pc' = [pc EXCEPT ![p] = l]
    BY <1>1
    DEF GetIndexFileStart, GetIndexFileFast, GetIndexFileListError,
        GetIndexFileNoChange, GetIndexFileChange, Marshal, GetIndexFileLock,
        Answer, JoinFetch
  <2>3. QED
    BY <1>0, <2>1, <2>2, CleanRequest
<1>2. ASSUME NEW p \in Refreshers,
             \/ RebuildIndexForTenant(p) \/ RefreshListError(p)
             \/ RefreshNoChange(p) \/ RefreshChange(p) \/ RefreshLock(p)
      PROVE  CleanInv'
  <2>1. UNCHANGED <<entries, heap, statefile, saves, events, lpc, lreq, req>>
    BY <1>2
    DEF RebuildIndexForTenant, RefreshListError, RefreshNoChange,
        RefreshChange, RefreshLock
  <2>2. \E l \in {"idle", "relock", "work", "list", "wait"} :
            pc' = [pc EXCEPT ![p] = l]
    BY <1>2
    DEF RebuildIndexForTenant, RefreshListError, RefreshNoChange,
        RefreshChange, RefreshLock, JoinFetch
  <2>3. p \in Procs
    BY DEF Procs
  <2>4. QED
    BY <1>0, <2>1, <2>2, <2>3, CleanRequest
<1>3. ASSUME NEW p \in Clients, NEW c \in Charts,
             UploadChartPackage(p, c) \/ DeleteChartVersion(p, c)
      PROVE  CleanInv'
  <2>1. UNCHANGED <<entries, heap, statefile, saves, events, lpc, lreq>>
    BY <1>3 DEF UploadChartPackage, DeleteChartVersion
  <2>2. Wholesome(req'[p])
    <3>1. CASE UploadChartPackage(p, c)
      BY <1>0, <3>1, UploadStarts DEF Wholesome
    <3>2. CASE DeleteChartVersion(p, c)
      BY <1>0, <3>2 DEF DeleteChartVersion, Wholesome
    <3>3. QED
      BY <1>3, <3>1, <3>2
  <2>3. \A q \in Clients : q # p => pc'[q] = pc[q] /\ req'[q] = req[q]
    BY <1>0, <1>3 DEF UploadChartPackage, DeleteChartVersion
  <2>4. QED
    BY <2>1, <2>2, <2>3, CleanFrame DEF CleanInv
<1>4. ASSUME NEW p \in Procs, FetchChartsInStorage(p)
      PROVE  CleanInv'
  <2>1. UNCHANGED <<entries, heap, statefile, saves, events, lpc, lreq, req>>
    BY <1>4 DEF FetchChartsInStorage
  <2>2. pc' = [pc EXCEPT ![p] = "flush"]
    BY <1>4 DEF FetchChartsInStorage
  <2>3. QED
    BY <1>0, <2>1, <2>2, CleanRequest
<1>5. ASSUME NEW p \in Procs, FlushFetchers(p)
      PROVE  CleanInv'
  <2>1. UNCHANGED <<entries, heap, statefile, saves, events, lpc, lreq, req>>
    BY <1>5 DEF FlushFetchers
  <2>2. \A q \in Clients : pc'[q] \in {"diff", pc[q]}
    BY <1>0, <1>5 DEF FlushFetchers
  <2>3. QED
    BY <2>1, <2>2, CleanFrame DEF CleanInv
<1>6. ASSUME NEW p \in Procs, NEW c \in Charts,
             \/ RemoveIndexObject(p, c)
             \/ UpdateIndexObject(p, c)
             \/ AddIndexObject(p, c)
      PROVE  CleanInv'
  <2>1. UNCHANGED <<heap, statefile, saves, events, lpc, lreq, pc, req>>
    BY <1>6 DEF RemoveIndexObject, UpdateIndexObject, AddIndexObject
  <2>2. Clean(entries')
    <3>1. \A d \in Charts :
              \/ entries'[d] = entries[d]
              \/ d \notin Invalid
              \/ entries'[d] = None
      BY <1>0, <1>6
      DEF RemoveIndexObject, UpdateIndexObject, AddIndexObject,
          RemoveEntry, UpdateEntry, AddEntry, EntryMap
    <3>2. Clean(entries) /\ Invalid \subseteq Charts
      BY DataAssumption DEF CleanInv
    <3>3. QED
      BY <3>1, <3>2 DEF Clean
  <2>3. QED
    BY <2>1, <2>2, CleanWork
<1>7. ASSUME NEW p \in Procs, RegenerateFail(p)
      PROVE  CleanInv'
  <2>1. UNCHANGED <<entries, heap, statefile, saves, events, lpc, lreq, req>>
    BY <1>7 DEF RegenerateFail
  <2>2. pc' = [pc EXCEPT ![p] = "idle"]
    BY <1>7 DEF RegenerateFail
  <2>3. QED
    BY <1>0, <2>1, <2>2, CleanRequest
<1>8. ASSUME NEW p \in Procs, RegenerateDone(p)
      PROVE  CleanInv'
  <2>1. UNCHANGED <<entries, statefile, events, lpc, lreq, req>>
    BY <1>8 DEF RegenerateDone
  <2>2. Clean(Regenerated(entries).raw)
    BY DEF Regenerated, CleanInv
  <2>3. \A snap \in saves' : Clean(snap.raw)
    BY <1>8, <2>2 DEF RegenerateDone, Saved, CleanInv
  <2>4. \A i \in IndexIds : Clean(heap'[i].raw)
    BY <1>0, <1>8, <2>2, CleanUnused
    DEF RegenerateDone, Publish, Collect, FreeIds, CleanInv
  <2>5. \A q \in Clients : pc'[q] \in {"render", "marshal", "idle", pc[q]}
    BY <1>0, <1>8 DEF RegenerateDone
  <2>6. QED
    BY <2>1, <2>3, <2>4, <2>5 DEF CleanInv
<1>9. ASSUME NEW p \in Clients, Render(p)
      PROVE  CleanInv'
  <2>1. UNCHANGED <<entries, statefile, saves, events, lpc, lreq, req>>
    BY <1>9 DEF Render
  <2>2. \A i \in IndexIds : Clean(heap'[i].raw)
    BY <1>9, CleanUnused DEF Render, Collect, CleanInv
  <2>3. \A q \in Clients : pc'[q] \in {"idle", pc[q]}
    BY <1>0, <1>9 DEF Render
  <2>4. QED
    BY <2>1, <2>2, <2>3 DEF CleanInv
<1>10. ASSUME NEW p \in Clients, PutObject(p) \/ BuildEvent(p)
       PROVE  CleanInv'
  <2>1. UNCHANGED <<entries, heap, statefile, saves, events, lpc, lreq>>
    BY <1>10 DEF PutObject, BuildEvent
  <2>2. pc[p] \in {"put", "build"} /\ req[p] \in Event
    BY <1>10 DEF PutObject, BuildEvent, TypeInv
  <2>3. req'[p].op = req[p].op /\ req'[p].chart = req[p].chart
    BY <1>0, <1>10, <2>2 DEF PutObject, BuildEvent, Event
  <2>4. \A q \in Clients : q # p => pc'[q] = pc[q] /\ req'[q] = req[q]
    BY <1>0, <1>10 DEF PutObject, BuildEvent
  <2>5. Wholesome(req'[p])
    BY <2>2, <2>3 DEF CleanInv, Wholesome
  <2>6. QED
    BY <2>1, <2>4, <2>5, CleanFrame DEF CleanInv
<1>11. ASSUME NEW p \in Clients, PutObjectError(p)
       PROVE  CleanInv'
  <2>1. UNCHANGED <<entries, heap, statefile, saves, events, lpc, lreq>>
    BY <1>11 DEF PutObjectError
  <2>2. /\ pc' = [pc EXCEPT ![p] = "idle"]
        /\ \A q \in Clients : q # p => req'[q] = req[q]
    BY <1>0, <1>11 DEF PutObjectError
  <2>3. QED
    BY <1>0, <2>1, <2>2, CleanRequest
<1>12. ASSUME NEW p \in Clients, EmitEvent(p)
       PROVE  CleanInv'
  <2>1. UNCHANGED <<entries, heap, statefile, saves, lpc, lreq>>
    BY <1>12 DEF EmitEvent
  <2>2. pc[p] = "send" /\ events' = Append(events, req[p])
    BY <1>12 DEF EmitEvent
  <2>3. req[p] \in Event /\ Wholesome(req[p])
    BY <2>2 DEF TypeInv, CleanInv
  <2>4. \A i \in 1..Len(events') : Wholesome(events'[i])
    <3>1. /\ Len(events) \in Nat
          /\ Len(events') = Len(events) + 1
          /\ \A i \in 1..Len(events) : events'[i] = events[i]
          /\ events'[Len(events) + 1] = req[p]
      BY <1>0, <2>2, <2>3, AppendProperties, LenProperties
    <3>2. ASSUME NEW i \in 1..Len(events') PROVE Wholesome(events'[i])
      <4>1. i \in 1..Len(events) \/ i = Len(events) + 1
        BY <3>1
      <4>2. QED
        BY <2>3, <3>1, <4>1 DEF CleanInv
    <3>3. QED
      BY <3>2
  <2>5. \A q \in Clients :
            /\ pc'[q] \in {"idle", pc[q]}
            /\ pc'[q] = "idle" \/ req'[q] = req[q]
    BY <1>0, <1>12 DEF EmitEvent
  <2>6. QED
    BY <2>1, <2>4, <2>5, CleanFrame DEF CleanInv
<1>13. ASSUME NEW p \in Clients, HandOver(p)
       PROVE  CleanInv'
  <2>1. UNCHANGED <<entries, heap, statefile, saves, events>>
    BY <1>13 DEF HandOver
  <2>2. lreq' = req[p] /\ pc[p] = "send"
    BY <1>13 DEF HandOver
  <2>3. \A q \in Clients :
            /\ pc'[q] \in {"idle", pc[q]}
            /\ pc'[q] = "idle" \/ req'[q] = req[q]
    BY <1>0, <1>13 DEF HandOver
  <2>4. QED
    BY <2>1, <2>2, <2>3, CleanFrame DEF CleanInv
<1>14. CASE ReceiveEvent
  <2>1. UNCHANGED <<entries, heap, statefile, saves, pc, req>>
    BY <1>14 DEF ReceiveEvent
  <2>2. /\ events # <<>> /\ lreq' = Head(events)
        /\ events' = Tail(events)
    BY <1>14 DEF ReceiveEvent
  <2>3. /\ Len(events) \in Nat /\ Len(events) >= 1
        /\ Len(events') = Len(events) - 1
        /\ \A i \in 1..Len(events') : events'[i] = events[i + 1]
        /\ lreq' = events[1]
    BY <1>0, <2>2, HeadTailProperties, EmptySeq, LenProperties
  <2>4. \A i \in 1..Len(events') : Wholesome(events'[i])
    BY <2>3 DEF CleanInv
  <2>5. Wholesome(lreq')
    BY <2>3 DEF CleanInv
  <2>6. QED
    BY <2>1, <2>4, <2>5, CleanFrame DEF CleanInv
<1>15. CASE LookUpIndex \/ SpawnSave
  <2>1. UNCHANGED <<entries, heap, statefile, pc, req, events, lreq>>
    BY <1>15 DEF LookUpIndex, SpawnSave
  <2>2. lpc' \in {"look", "apply"} => lpc = "look"
    BY <1>15 DEF LookUpIndex, SpawnSave
  <2>3. \A snap \in saves' : Clean(snap.raw)
    BY <1>0, <1>15 DEF LookUpIndex, SpawnSave, Saved, CleanInv, TypeInv, TypeOK
  <2>4. QED
    BY <2>1, <2>2, <2>3 DEF CleanInv
<1>16. CASE ApplyEvent
  <2>1. UNCHANGED <<heap, statefile, saves, pc, req, events, lreq>>
    BY <1>16 DEF ApplyEvent
  <2>2. lpc = "apply" /\ lpc' = "install" /\ entries' = Applied(lreq, entries)
    BY <1>16 DEF ApplyEvent, Applied
  <2>3. lreq \in Event /\ Wholesome(lreq)
    BY <2>2 DEF TypeInv, CleanInv
  <2>4. Clean(entries')
    <3>1. \A c \in Charts :
              \/ entries'[c] = entries[c]
              \/ c = lreq.chart /\ lreq.op # "delete"
              \/ entries'[c] = None
      BY <1>0, <2>2, <2>3
      DEF Applied, UpdateEntry, AddEntry, RemoveEntry, Event, EntryMap
    <3>2. QED
      <4>1. Clean(entries) /\ Invalid \subseteq Charts
        BY DataAssumption DEF CleanInv
      <4>2. QED
        BY <2>3, <3>1, <4>1 DEF Clean, Wholesome
  <2>5. QED
    BY <2>1, <2>2, <2>4 DEF CleanInv
<1>17. CASE InstallIndex
  <2>1. UNCHANGED <<entries, statefile, saves, pc, req, events>>
    BY <1>17 DEF InstallIndex
  <2>2. lpc' \notin {"look", "apply"}
    BY <1>17 DEF InstallIndex
  <2>3. \A i \in IndexIds : Clean(heap'[i].raw)
    BY <1>0, <1>17, CleanUnused
       DEF InstallIndex, Collect, Regenerated, CleanInv
  <2>4. QED
    BY <2>1, <2>2, <2>3 DEF CleanInv
<1>18. ASSUME NEW snap \in saves, SaveStatefile(snap)
       PROVE  CleanInv'
  <2>1. UNCHANGED <<entries, heap, pc, req, events, lpc, lreq>>
    BY <1>18 DEF SaveStatefile
  <2>2. /\ saves' \subseteq saves
        /\ statefile' = snap \/ statefile' = statefile
    BY <1>18 DEF SaveStatefile
  <2>3. QED
    BY <2>1, <2>2 DEF CleanInv
<1>19. ASSUME NEW c \in Charts, ManualPut(c) \/ ManualDelete(c)
       PROVE  CleanInv'
  <2>1. UNCHANGED <<entries, heap, statefile, saves, pc, req, events, lpc,
                    lreq>>
    BY <1>19 DEF ManualPut, ManualDelete
  <2>2. QED
    BY <2>1 DEF CleanInv
<1>20. CASE Restart
  <2> DEFINE snap == Booted(statefile, storage)
  <2>1. Clean(snap.raw)
    BY CleanBooted DEF CleanInv
  <2> HIDE DEF snap
  <2>2. PICK ps \in {{snap}, {}} : FreshMemory(snap, ps)
    BY <1>20 DEF Restart, snap
  <2>3. statefile' = statefile
    BY <1>20 DEF Restart
  <2>4. /\ entries' = snap.raw /\ saves' = ps /\ events' = <<>>
        /\ lpc' = "receive" /\ \A p \in Clients : pc'[p] = "idle"
    BY <2>2 DEF FreshMemory, Procs
  <2>5. \A i \in IndexIds : Clean(heap'[i].raw)
    BY <2>1, <2>2, CleanUnused DEF FreshMemory
  <2>6. QED
    BY <2>1, <2>3, <2>4, <2>5 DEF CleanInv
<1>21. CASE UNCHANGED vars
  BY <1>21 DEF vars, CleanInv
<1>22. QED
  BY <1>1, <1>2, <1>3, <1>4, <1>5, <1>6, <1>7, <1>8, <1>9, <1>10, <1>11,
     <1>12, <1>13, <1>14, <1>15, <1>16, <1>17, <1>18, <1>19, <1>20, <1>21
  DEF Next, RequestStart, Progress, RegenerateStep,
     GetIndexFileStep, UploadStep, RefreshStep, ListenerStep, Procs

(* What a client has got so far is as it was.                              *)
Untouched(p) ==
    /\ pc'[p] = pc[p]
    /\ list'[p] = list[p]
    /\ todo'[p] = todo[p]
    /\ ptr'[p] = ptr[p]
    /\ pc[p] = "work" => entries' = entries
    /\ pc[p] = "render" => heap'[ptr[p]] = heap[ptr[p]]

(* Another client does not touch it: RepoLock keeps it from the list and   *)
(* the entries, and structs that somebody renders are not written to.      *)
LEMMA Bystander ==
  ASSUME Regenerates, TypeInv, OneLister, LockOwner, NEW p \in Clients,
         NEW q \in Clients, q # p, RequestStart(q) \/ Progress(q)
  PROVE  Untouched(p)
<1>1. /\ Procs = Clients /\ q \notin Refreshers
      /\ pc \in [Procs -> ClientPC \cup RefresherPC]
      /\ list \in [Procs -> ObjectList \cup {None, Failed}]
      /\ todo \in [Procs -> Diffs]
      /\ ptr \in [Clients -> IndexIds]
      /\ heap \in [IndexIds -> Snapshot]
  BY DEF Regenerates, Procs, TypeInv, TypeOK
<1>2. /\ pc[p] \in {"list", "wait", "flush", "diff", "work"} <=> lock = p
      /\ pc[q] \in {"list", "wait", "flush", "diff", "work"} <=> lock = q
  BY DEF LockOwner
<1> USE DEF Goto, worldVars, diskVars, indexVars, listenerVars, procVars,
            Untouched
<1>3. CASE RequestStart(q)
  BY <1>1, <1>3
  DEF RequestStart, GetIndexFileStart, UploadChartPackage, DeleteChartVersion
<1>4. CASE GetIndexFileFast(q) \/ GetIndexFileNoChange(q)
  BY <1>1, <1>4 DEF GetIndexFileFast, GetIndexFileNoChange, Answer
<1>5. CASE GetIndexFileLock(q) \/ GetIndexFileListError(q)
  BY <1>1, <1>5 DEF GetIndexFileLock, JoinFetch, GetIndexFileListError
<1>6. CASE GetIndexFileChange(q) \/ Marshal(q)
  BY <1>1, <1>6 DEF GetIndexFileChange, Marshal
<1>7. CASE Render(q)
  <2>1. /\ pc[p] = "render" => ptr[p] \in HeldBy(Clients \ {q})
        /\ heap' = Collect(heap, HeldBy(Clients \ {q}) \cup {repoIndex})
    BY <1>7 DEF Render, HeldBy
  <2>2. pc[p] = "render" => heap'[ptr[p]] = heap[ptr[p]]
    BY <1>1, <2>1 DEF Collect
  <2>3. QED
    BY <1>1, <1>7, <2>2 DEF Render
<1>8. CASE UploadStep(q)
  BY <1>1, <1>8
  DEF UploadStep, PutObject, PutObjectError, BuildEvent, EmitEvent, HandOver
<1>9. CASE FetchChartsInStorage(q)
  BY <1>1, <1>9 DEF FetchChartsInStorage
<1>10. CASE FlushFetchers(q)
  <2>1. lock = q
    BY <1>2, <1>10 DEF FlushFetchers
  <2>2. p \notin waiters
    BY <1>2, <2>1 DEF OneLister, Listers
  <2>3. QED
    BY <1>1, <1>10, <2>2 DEF FlushFetchers
<1>11. ASSUME NEW c \in Charts,
              \/ RemoveIndexObject(q, c)
              \/ UpdateIndexObject(q, c)
              \/ AddIndexObject(q, c)
       PROVE  Untouched(p)
  <2>1. pc[p] # "work"
    BY <1>2, <1>11 DEF RemoveIndexObject, UpdateIndexObject, AddIndexObject
  <2>2. todo'[p] = todo[p]
    BY <1>1, <1>11 DEF RemoveIndexObject, UpdateIndexObject, AddIndexObject
  <2>3. UNCHANGED <<pc, list, ptr, heap>>
    BY <1>11 DEF RemoveIndexObject, UpdateIndexObject, AddIndexObject
  <2>4. QED
    BY <2>1, <2>2, <2>3
<1>12. CASE RegenerateFail(q)
  BY <1>1, <1>12 DEF RegenerateFail
<1>13. CASE RegenerateDone(q)
  <2>1. UNCHANGED <<entries, list, todo>>
    BY <1>13 DEF RegenerateDone
  <2>2. pc'[p] = pc[p] /\ ptr'[p] = ptr[p]
    BY <1>1, <1>13 DEF RegenerateDone
  <2>3. ASSUME pc[p] = "render" PROVE heap'[ptr[p]] = heap[ptr[p]]
    <3>1. ptr[p] \in HeldBy(Clients) /\ ptr[p] \in IndexIds
      BY <1>1, <2>3 DEF HeldBy
    <3>2. PICK i \in FreeIds :
              heap' = Collect([heap EXCEPT ![i] = Regenerated(entries)],
                              HeldBy(Clients) \cup {i})
      BY <1>13 DEF RegenerateDone, Publish
    <3>3. ptr[p] # i
      BY <3>1 DEF FreeIds
    <3>4. QED
      BY <1>1, <3>1, <3>2, <3>3 DEF Collect
  <2>4. QED
    BY <2>1, <2>2, <2>3
<1>14. QED
  BY <1>1, <1>3, <1>4, <1>5, <1>6, <1>7, <1>8, <1>9, <1>10, <1>11, <1>12,
     <1>13
  DEF Progress, RegenerateStep, GetIndexFileStep

(* The listener and what is outside the server do not touch it either.     *)
LEMMA Surroundings ==
  ASSUME Undisturbed, NEW p \in Clients,
         \/ ListenerStep
         \/ \E snap \in saves : SaveStatefile(snap)
         \/ \E c \in Charts : ManualPut(c) \/ ManualDelete(c)
  PROVE  Untouched(p)
<1>1. CASE ListenerStep
  <2>1. SpawnSave
    BY <1>1
    DEF ListenerStep, ReceiveEvent, LookUpIndex, ApplyEvent, InstallIndex,
        Undisturbed
  <2>2. QED
    BY <2>1 DEF SpawnSave, indexVars, procVars, Untouched
<1>2. CASE \/ \E snap \in saves : SaveStatefile(snap)
           \/ \E c \in Charts : ManualPut(c) \/ ManualDelete(c)
  BY <1>2
  DEF SaveStatefile, ManualPut, ManualDelete, indexVars, procVars, Untouched
<1>3. QED
  BY <1>1, <1>2

(* What a client does for itself.                                          *)
LEMMA OwnStep ==
  ASSUME Regenerates, TypeInv, OneLister, LockOwner, CleanInv,
         RegenerateInv, NEW p \in Clients, RequestStart(p) \/ Progress(p),
         view[p] # None \/ pc[p] = "idle",
         storage' = storage
  PROVE  /\ pc'[p] \in {"flush", "diff"} => list'[p] \in {storage, Failed}
         /\ pc'[p] = "work" => Covers(todo[p])'
         /\ pc'[p] = "render" =>
                /\ ptr'[p] = repoIndex'
                /\ Lists(entries', storage)
                /\ lock' = Nobody
<1>1. /\ Procs = Clients /\ p \notin Refreshers
      /\ pc \in [Procs -> ClientPC \cup RefresherPC]
      /\ list \in [Procs -> ObjectList \cup {None, Failed}]
      /\ todo \in [Procs -> Diffs]
      /\ ptr \in [Clients -> IndexIds]
      /\ entries \in EntryMap
      /\ Clean(entries) /\ Invalid \subseteq Charts
  BY DataAssumption DEF Regenerates, Procs, TypeInv, TypeOK, CleanInv
<1>2. pc[p] # "idle" =>
          /\ pc[p] \in {"flush", "diff"} => list[p] \in {storage, Failed}
          /\ pc[p] = "work" => Covers(todo[p])
  BY DEF RegenerateInv
<1> USE DEF Goto, worldVars, indexVars, procVars
<1>3. CASE RequestStart(p)
  BY <1>1, <1>3
  DEF RequestStart, GetIndexFileStart, UploadChartPackage, DeleteChartVersion
<1>4. CASE GetIndexFileFast(p)
  BY <1>4 DEF GetIndexFileFast, NeedsList, Regenerates
<1>5. CASE GetIndexFileNoChange(p)
  <2>1. /\ pc[p] = "diff" /\ list[p] # Failed /\ UNCHANGED entries
        /\ GetObjectSliceDiff(entries, list[p]) = NoDiff
        /\ repoIndex' = repoIndex /\ lock' = Nobody
    BY <1>5 DEF GetIndexFileNoChange
  <2>2. GetObjectSliceDiff(entries, storage) = NoDiff
    BY <1>2, <2>1
  <2>3. Stored(storage) = Indexed(entries)
    BY <2>2 DEF GetObjectSliceDiff, NoDiff
  <2>4. Indexed(entries) \cap Invalid = {}
    BY <1>1 DEF Clean, Indexed
  <2>5. \/ pc'[p] = "render" /\ ptr'[p] = repoIndex
        \/ pc'[p] = "marshal"
    BY <1>1, <1>5 DEF GetIndexFileNoChange, Answer
  <2>6. \A c \in Indexed(entries) : Current(entries[c], storage[c])
    <3>1. ASSUME NEW c \in Indexed(entries)
          PROVE  Current(entries[c], storage[c])
      <4>1. /\ c \in Charts /\ entries[c] \in Version
            /\ storage[c] \in Nat /\ Tolerance \in Nat
        BY <1>1, BoundAssumption
        DEF Indexed, EntryMap, TypeInv, TypeOK, ObjectList, Stamp
      <4>2. ~(storage[c] > entries[c].created + Tolerance)
        BY <2>2, <2>3, <4>1 DEF GetObjectSliceDiff, NoDiff
      <4>3. QED
        BY <4>1, <4>2 DEF Current, Version, Stamp
    <3>2. QED
      BY <3>1
  <2>7. Lists(entries', storage)
    BY <2>1, <2>3, <2>4, <2>6 DEF Lists
  <2>8. QED
    BY <2>1, <2>5, <2>7
<1>6. CASE GetIndexFileChange(p)
  <2>1. /\ pc[p] = "diff" /\ list[p] = storage /\ UNCHANGED entries
        /\ pc'[p] = "work"
        /\ todo'[p] = GetObjectSliceDiff(entries, list[p])
    BY <1>1, <1>2, <1>6 DEF GetIndexFileChange
  <2>2. Covers(GetObjectSliceDiff(entries, storage))
    <3>1. ASSUME NEW c \in Charts, c \in Indexed(entries),
                 ~(storage[c] > entries[c].created + Tolerance)
          PROVE  Current(entries[c], storage[c])
      <4>1. /\ entries[c] \in Version
            /\ storage[c] \in Nat /\ Tolerance \in Nat
        BY <1>1, <3>1, BoundAssumption
        DEF Indexed, EntryMap, TypeInv, TypeOK, ObjectList, Stamp
      <4>2. QED
        BY <3>1, <4>1 DEF Current, Version, Stamp
    <3>2. QED
      BY <3>1 DEF Covers, GetObjectSliceDiff, Stored, Indexed
  <2>3. Covers(todo[p])'
    BY <2>1, <2>2 DEF Covers, Indexed, Stored
  <2>4. QED
    BY <2>1, <2>3
<1>7. CASE \/ GetIndexFileLock(p) \/ GetIndexFileListError(p)
           \/ Render(p) \/ Marshal(p)
  BY <1>1, <1>7
  DEF GetIndexFileLock, JoinFetch, GetIndexFileListError, Render, Marshal
<1>8. CASE UploadStep(p)
  BY <1>1, <1>8
  DEF UploadStep, PutObject, PutObjectError, BuildEvent, EmitEvent, HandOver
<1>9. CASE FetchChartsInStorage(p)
  BY <1>1, <1>9 DEF FetchChartsInStorage
<1>10. CASE FlushFetchers(p)
  <2>1. pc[p] = "flush" /\ p \in waiters
    BY <1>1, <1>10 DEF FlushFetchers, OneLister, Listers
  <2>2. list'[p] = list[p] /\ pc'[p] = "diff"
    BY <1>1, <1>10, <2>1 DEF FlushFetchers
  <2>3. QED
    BY <1>2, <2>1, <2>2
<1>11. ASSUME NEW c \in Charts,
              \/ RemoveIndexObject(p, c)
              \/ UpdateIndexObject(p, c)
              \/ AddIndexObject(p, c)
       PROVE  pc'[p] = "work" /\ Covers(todo[p])'
  <2>1. pc[p] = "work" /\ pc' = pc /\ Covers(todo[p]) /\ todo[p] \in Diffs
    BY <1>1, <1>2, <1>11
    DEF RemoveIndexObject, UpdateIndexObject, AddIndexObject
  <2>2. \A d \in Charts : d # c => entries'[d] = entries[d]
    BY <1>1, <1>11
    DEF RemoveIndexObject, UpdateIndexObject, AddIndexObject,
        RemoveEntry, UpdateEntry, AddEntry, EntryMap
  <2>3. /\ todo'[p].removed \subseteq todo[p].removed
        /\ todo[p].removed \ {c} \subseteq todo'[p].removed
        /\ todo[p].added \ {c} \subseteq todo'[p].added
        /\ todo[p].updated \ {c} \subseteq todo'[p].updated
    BY <1>1, <1>11, <2>1
    DEF RemoveIndexObject, UpdateIndexObject, AddIndexObject, Diffs
  <2>4. CASE RemoveIndexObject(p, c)
    <3>1. storage[c] = 0 /\ entries'[c] = None
      BY <1>1, <2>1, <2>4 DEF RemoveIndexObject, RemoveEntry, EntryMap, Covers
    <3>2. QED
      BY <2>1, <2>2, <2>3, <3>1 DEF Covers, Indexed, Stored
  <2>5. CASE UpdateIndexObject(p, c)
    <3>1. /\ storage[c] # 0 /\ todo'[p].added = todo[p].added
          /\ entries[c] = None => entries'[c] = None
          /\ entries[c] # None => entries'[c] # None
          /\ entries'[c] # None => Current(entries'[c], storage[c])
      <4>1. storage[c] \in Nat /\ storage[c] # 0
        BY <2>5 DEF UpdateIndexObject, TypeInv, TypeOK, ObjectList, Stamp
      <4>2. ChartVersionFromStorageObject(storage[c]) # None
        BY <4>1, DataAssumption DEF ChartVersionFromStorageObject
      <4>3. todo'[p].added = todo[p].added
        BY <1>1, <2>1, <2>5 DEF UpdateIndexObject, Diffs
      <4>4. Current(ChartVersionFromStorageObject(storage[c]), storage[c])
        BY DEF Current, ChartVersionFromStorageObject
      <4>5. c \in Invalid => entries[c] = None
        BY <1>1 DEF Clean
      <4>6. QED
        BY <1>1, <2>5, <4>1, <4>2, <4>3, <4>4, <4>5
        DEF UpdateIndexObject, UpdateEntry, EntryMap
    <3>2. QED
      BY <2>1, <2>2, <2>3, <3>1 DEF Covers, Indexed, Stored
  <2>6. CASE AddIndexObject(p, c)
    <3>1. /\ storage[c] # 0
          /\ c \in Invalid => entries'[c] = entries[c]
          /\ c \notin Invalid => entries'[c] # None
          /\ entries'[c] # None => Current(entries'[c], storage[c])
      <4>1. storage[c] \in Nat /\ storage[c] # 0
        BY <2>6 DEF AddIndexObject, TypeInv, TypeOK, ObjectList, Stamp
      <4>2. ChartVersionFromStorageObject(storage[c]) # None
        BY <4>1, DataAssumption DEF ChartVersionFromStorageObject
      <4>3. Current(ChartVersionFromStorageObject(storage[c]), storage[c])
        BY DEF Current, ChartVersionFromStorageObject
      <4>4. c \in Invalid => entries[c] = None
        BY <1>1 DEF Clean
      <4>5. QED
        BY <1>1, <2>6, <4>1, <4>2, <4>3, <4>4
        DEF AddIndexObject, AddEntry, EntryMap
    <3>2. QED
      BY <2>1, <2>2, <2>3, <3>1 DEF Covers, Indexed, Stored
  <2>7. QED
    BY <1>11, <2>1, <2>4, <2>5, <2>6
<1>12. CASE RegenerateFail(p)
  BY <1>1, <1>12 DEF RegenerateFail
<1>13. CASE RegenerateDone(p)
  <2>1. /\ pc[p] = "work" /\ todo[p] = NoDiff /\ UNCHANGED entries
        /\ lock' = Nobody
    BY <1>13 DEF RegenerateDone
  <2>2. Covers(NoDiff)
    BY <1>2, <2>1
  <2>3. Lists(entries, storage)
    BY <1>1, <2>2 DEF Lists, Covers, NoDiff, Indexed, Stored, Clean
  <2>4. \/ pc'[p] = "render" /\ ptr'[p] = repoIndex'
        \/ pc'[p] = "marshal"
    BY <1>1, <1>13 DEF RegenerateDone
  <2>5. QED
    BY <2>1, <2>3, <2>4
<1>14. QED
  BY <1>1, <1>3, <1>4, <1>5, <1>6, <1>7, <1>8, <1>9, <1>10, <1>11, <1>12,
     <1>13
  DEF Progress, RegenerateStep, GetIndexFileStep

LEMMA RegenerateReadInit == InitReads => RegenerateInv
BY DEF InitReads, RegenerateInv

LEMMA RegenerateReadStep ==
  ASSUME Regenerates, TypeInv, OneLister, LockOwner, CleanInv, RawInv',
         LockOwner', RegenerateInv, [NextReads]_<<vars, view>>
  PROVE  RegenerateInv'
<1>1. CASE NextReads
  <2> SUFFICES ASSUME NEW p \in Clients, view'[p] # None
               PROVE  /\ view'[p] = storage'
                      /\ Undisturbed'
                      /\ pc'[p] \in {"flush", "diff"} =>
                             list'[p] \in {storage', Failed}
                      /\ pc'[p] = "work" => Covers(todo[p])'
                      /\ pc'[p] = "render" =>
                             Lists(heap'[ptr'[p]].raw, storage')
    BY DEF RegenerateInv
  <2>1. /\ pc'[p] # "idle" /\ storage' = storage /\ Undisturbed'
        /\ view'[p] = IF pc[p] = "idle" /\ Undisturbed THEN storage
                                                        ELSE view[p]
    BY <1>1 DEF NextReads
  <2>2. /\ Undisturbed /\ view'[p] = storage
        /\ view[p] # None \/ pc[p] = "idle"
    BY <2>1 DEF RegenerateInv
  <2>3. \/ RequestStart(p) \/ Progress(p)
        \/ Untouched(p)
    <3>1. Procs = Clients
      BY DEF Regenerates, Procs
    <3>2. ~Restart
      BY <2>1, <3>1 DEF Restart, FreshMemory
    <3>3. \/ \E q \in Clients : RequestStart(q) \/ Progress(q)
          \/ ListenerStep
          \/ \E snap \in saves : SaveStatefile(snap)
          \/ \E c \in Charts : ManualPut(c) \/ ManualDelete(c)
      BY <1>1, <3>1, <3>2 DEF NextReads, Next, Regenerates
    <3>4. QED
      BY <2>2, <3>3, Bystander, Surroundings
  <2>4. CASE RequestStart(p) \/ Progress(p)
    <3>1. /\ pc'[p] \in {"flush", "diff"} => list'[p] \in {storage, Failed}
          /\ pc'[p] = "work" => Covers(todo[p])'
          /\ pc'[p] = "render" =>
                 /\ ptr'[p] = repoIndex'
                 /\ Lists(entries', storage)
                 /\ lock' = Nobody
      BY <2>1, <2>2, <2>4, OwnStep
    <3>2. ASSUME pc'[p] = "render"
          PROVE  Lists(heap'[ptr'[p]].raw, storage)
      <4>1. ~torn'
        BY <2>1 DEF Undisturbed
      <4>2. Mutators' = {}
        BY <3>1, <3>2, ProcAssumption DEF LockOwner, Mutators, Procs
      <4>3. heap'[repoIndex'].raw = entries'
        BY <4>1, <4>2 DEF RawInv
      <4>4. QED
        BY <3>1, <3>2, <4>3
    <3>3. QED
      BY <2>1, <2>2, <3>1, <3>2
  <2>5. CASE Untouched(p)
    <3>1. view[p] # None
      BY <2>1, <2>2, <2>5 DEF Untouched
    <3>2. /\ pc[p] \in {"flush", "diff"} => list[p] \in {storage, Failed}
          /\ pc[p] = "work" => Covers(todo[p])
          /\ pc[p] = "render" => Lists(heap[ptr[p]].raw, storage)
      BY <3>1 DEF RegenerateInv
    <3>3. pc'[p] = "work" => Covers(todo[p])'
      BY <2>1, <2>5, <3>2 DEF Untouched, Covers, Indexed, Stored
    <3>4. pc'[p] = "render" => Lists(heap'[ptr'[p]].raw, storage)
      BY <2>5, <3>2 DEF Untouched
    <3>5. QED
      BY <2>1, <2>2, <2>5, <3>2, <3>3, <3>4 DEF Untouched
  <2>6. QED
    BY <2>3, <2>4, <2>5
<1>2. CASE UNCHANGED <<vars, view>>
  BY <1>2
  DEF vars, worldVars, diskVars, indexVars, listenerVars, procVars,
      RegenerateInv, Undisturbed, Covers, Indexed, Stored
<1>3. QED
  BY <1>1, <1>2

LEMMA RegenerateInvariant ==
  ASSUME Regenerates
  PROVE  ReadsSpec => []RegenerateInv
<1> DEFINE Inv == TypeInv /\ OneLister /\ LockOwner /\ RawInv /\ CleanInv
                    /\ RegenerateInv
<1>1. InitReads => Inv
  BY TypeInit, OneListerInit, LockOwnerInit, RawInit, CleanInit,
     RegenerateReadInit
  DEF InitReads
<1>2. Inv /\ [NextReads]_<<vars, view>> => Inv'
  <2> SUFFICES ASSUME Inv, [NextReads]_<<vars, view>> PROVE Inv'
    OBVIOUS
  <2>1. [Next]_vars
    BY DEF NextReads
  <2>2. TypeInv' /\ OneLister' /\ LockOwner' /\ RawInv' /\ CleanInv'
    BY <2>1, TypeStep, OneListerStep, LockOwnerStep, RawStep, CleanStep
  <2>3. RegenerateInv'
    BY <2>2, RegenerateReadStep
  <2>4. QED
    BY <2>2, <2>3
<1>3. QED
  BY <1>1, <1>2, PTL DEF ReadsSpec

(* --always-regenerate-chart-index without the timer: a GET during which   *)
(* storage stands still and nothing is pending lists exactly the packages  *)
(* stored, whatever the entries were when it began, however many clients   *)
(* ask at once, whichever storage calls fail and whenever the server dies. *)
THEOREM RegeneratedReadsList ==
  ASSUME Regenerates
  PROVE  ReadsSpec => []ReadListsStorage
<1>1. RegenerateInv => ReadListsStorage
  BY DEF RegenerateInv, Lists, ReadListsStorage
<1>2. QED
  BY <1>1, RegenerateInvariant, PTL

(* ... and is behind on the content of one only where the date it has is   *)
(* not older than the package's by more than the tolerance: whatever order *)
(* events were applied in, a scan mends all that its dates tell it to.     *)
THEOREM RegeneratedReadsDates ==
  ASSUME Regenerates
  PROVE  ReadsSpec => []StaleOnlyBehindItsDate
<1>1. RegenerateInv => StaleOnlyBehindItsDate
  BY DEF RegenerateInv, Lists, Current, StaleOnlyBehindItsDate
<1>2. QED
  BY <1>1, RegenerateInvariant, PTL
=============================================================================
