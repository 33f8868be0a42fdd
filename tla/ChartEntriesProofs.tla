------------------------- MODULE ChartEntriesProofs -------------------------
(***************************************************************************)
(* Theorems about ChartEntries, for any number of versions: the slice      *)
(* behaves like a map until a listed version is added to a chart of more   *)
(* versions than AddEntry looks at, and lists the right ones even then.    *)
(***************************************************************************)
EXTENDS ChartEntries, FiniteSetTheorems, WellFoundedInduction, TLAPS

NoDup(s) == \A i, j \in DOMAIN s : s[i].version = s[j].version => i = j

(* There is nothing to choose from a set of one.                           *)
LEMMA OnlyOne ==
  ASSUME NEW i \in Nat
  PROVE  First({i}) = i /\ Last({i}) = i
<1>1. \A S : First(S) = CHOOSE k \in S : \A j \in S : k <= j
  BY DEF First
<1>2. \A S : Last(S) = CHOOSE k \in S : \A j \in S : k >= j
  BY DEF Last
<1>3. First({i}) \in {i} /\ Last({i}) \in {i}
  BY <1>1, <1>2
<1> QED
  BY <1>3

(* The first, or the last, of some positions is one of them.               *)
LEMMA FirstOf ==
  ASSUME NEW S \in SUBSET Nat, S # {}
  PROVE  First(S) \in S
<1> DEFINE R == OpToRel(<, Nat)
<1>1. PICK i \in S : \A j \in S : <<j, i>> \notin R
  <2>1. IsWellFoundedOn(R, Nat)
    BY NatLessThanWellFounded
  <2> HIDE DEF R
  <2> QED
    BY <2>1, WFMin
<1>2. ASSUME NEW j \in S PROVE i <= j
  <2>1. ~(j < i)
    BY <1>1 DEF OpToRel
  <2> QED
    BY <2>1
<1> QED
  BY <1>2 DEF First

LEMMA LastOf ==
  ASSUME NEW n \in Nat, NEW S \in SUBSET (1..n), S # {}
  PROVE  Last(S) \in S
<1> DEFINE T == {n - i : i \in S}
<1>1. T \in SUBSET Nat /\ T # {}
  OBVIOUS
<1>2. PICK k \in T : \A j \in T : k <= j
  <2> DEFINE R == OpToRel(<, Nat)
  <2>1. IsWellFoundedOn(R, Nat)
    BY NatLessThanWellFounded
  <2> HIDE DEF R, T
  <2>2. PICK k \in T : \A j \in T : <<j, k>> \notin R
    BY <1>1, <2>1, WFMin
  <2>3. ASSUME NEW j \in T PROVE k <= j
    <3>1. ~(j < k)
      BY <1>1, <2>2 DEF OpToRel, R
    <3> QED
      BY <1>1, <3>1
  <2> QED
    BY <2>3
<1>3. PICK i \in S : k = n - i
  BY <1>2
<1>4. ASSUME NEW j \in S PROVE i >= j
  <2>1. n - j \in T
    OBVIOUS
  <2>2. n - i <= n - j
    BY <1>2, <1>3, <2>1
  <2>3. i \in 1..n /\ j \in 1..n
    OBVIOUS
  <2> QED
    BY <2>2, <2>3
<1> QED
  BY <1>4 DEF Last

(* A version that is there is there once.                                  *)
LEMMA OfOne ==
  ASSUME NEW s \in Seq(ChartVersion), NoDup(s), NEW i \in DOMAIN s
  PROVE  /\ Of(s, s[i].version) = {i}
         /\ First(Of(s, s[i].version)) = i
         /\ Last(Of(s, s[i].version)) = i
<1>1. Of(s, s[i].version) = {i}
  BY DEF Of, NoDup
<1>2. i \in Nat
  OBVIOUS
<1> QED
  BY <1>1, <1>2, OnlyOne

LEMMA OfNone ==
  ASSUME NEW s \in Seq(ChartVersion), NEW v
  PROVE  Of(s, v) = {} <=> \A i \in DOMAIN s : s[i].version # v
BY DEF Of

(* The map of a slice without duplicates.                                  *)
LEMMA MapAt ==
  ASSUME NEW s \in Seq(ChartVersion), NoDup(s), NEW v \in Versions
  PROVE  /\ \A i \in DOMAIN s :
                s[i].version = v => MapOf(s)[v] = s[i].stamp
         /\ (\A i \in DOMAIN s : s[i].version # v) => MapOf(s)[v] = None
<1>1. ASSUME NEW i \in DOMAIN s, s[i].version = v
      PROVE  MapOf(s)[v] = s[i].stamp
  <2>1. Of(s, v) = {i} /\ First(Of(s, v)) = i
    BY <1>1, OfOne
  <2> QED
    BY <2>1 DEF MapOf
<1>2. ASSUME \A i \in DOMAIN s : s[i].version # v
      PROVE  MapOf(s)[v] = None
  BY <1>2, OfNone DEF MapOf
<1> QED
  BY <1>1, <1>2

(* Without duplicates there are as many versions as entries.               *)
LEMMA CountEntries ==
  ASSUME NEW s \in Seq(ChartVersion), NoDup(s)
  PROVE  Len(s) = Cardinality(Shown(s))
<1> DEFINE f == [i \in 1..Len(s) |-> s[i].version]
           S == Shown(s)
<1>1. DOMAIN s = 1..Len(s) /\ Len(s) \in Nat
  OBVIOUS
<1>2. f \in Bijection(1..Len(s), S)
  <2>1. f \in [1..Len(s) -> S]
    BY <1>1 DEF Shown
  <2>2. \A i, j \in 1..Len(s) : f[i] = f[j] => i = j
    BY <1>1 DEF NoDup
  <2>3. \A v \in S : \E i \in 1..Len(s) : f[i] = v
    BY <1>1 DEF Shown
  <2> QED
    BY <2>1, <2>2, <2>3 DEF Bijection, Injection, IsInjective, Surjection
<1>3. IsFiniteSet(1..Len(s)) /\ Cardinality(1..Len(s)) = Len(s)
  BY <1>1, FS_Interval
<1>4. ExistsBijection(1..Len(s), S)
  BY <1>2 DEF ExistsBijection
<1> HIDE DEF f, S
<1>5. Cardinality(S) = Cardinality(1..Len(s))
  BY <1>3, <1>4, FS_Bijection
<1> QED
  BY <1>3, <1>5 DEF S
-----------------------------------------------------------------------------
(* What each operation leaves: a slice without duplicates that differs     *)
(* from the one before as a map would.                                     *)
Keeps(s, t, m) ==
    /\ t \in Seq(ChartVersion)
    /\ NoDup(t)
    /\ MapOf(t) = m

(* Another entry in the place of one of the same version.                  *)
LEMMA ReplaceEntry ==
  ASSUME NEW s \in Seq(ChartVersion), NoDup(s), NEW i \in DOMAIN s,
         NEW cv \in ChartVersion, s[i].version = cv.version
  PROVE  Keeps(s, [s EXCEPT ![i] = cv],
               [MapOf(s) EXCEPT ![cv.version] = cv.stamp])
<1> DEFINE t == [s EXCEPT ![i] = cv]
<1>1. t \in Seq(ChartVersion) /\ DOMAIN t = DOMAIN s
  OBVIOUS
<1>2. t[i] = cv /\ \A j \in DOMAIN s \ {i} : t[j] = s[j]
  OBVIOUS
<1>2a. \A j \in DOMAIN s : t[j].version = s[j].version
  BY <1>2
<1>3. NoDup(t)
  BY <1>1, <1>2a DEF NoDup
<1>4. cv.version \in Versions
  BY DEF ChartVersion
<1> HIDE DEF t
<1>5. ASSUME NEW v \in Versions
      PROVE  MapOf(t)[v] = [MapOf(s) EXCEPT ![cv.version] = cv.stamp][v]
  <2>1. CASE v = cv.version
    <3>1. MapOf(t)[v] = cv.stamp
      BY <1>1, <1>2, <1>3, <1>2a, <2>1, MapAt
    <3> QED
      BY <2>1, <3>1, <1>4 DEF MapOf
  <2>2. CASE v # cv.version /\ \E j \in DOMAIN s : s[j].version = v
    <3>1. PICK j \in DOMAIN s : s[j].version = v
      BY <2>2
    <3>2. MapOf(s)[v] = s[j].stamp
      BY <3>1, MapAt
    <3>3. t[j] = s[j]
      BY <1>2, <2>2, <3>1
    <3>4. MapOf(t)[v] = s[j].stamp
      BY <1>1, <1>3, <3>1, <3>3, MapAt
    <3> QED
      BY <2>2, <3>2, <3>4 DEF MapOf
  <2>3. CASE v # cv.version /\ \A j \in DOMAIN s : s[j].version # v
    <3>1. MapOf(s)[v] = None
      BY <2>3, MapAt
    <3>2. MapOf(t)[v] = None
      BY <1>1, <1>3, <1>2a, <2>3, MapAt
    <3> QED
      BY <2>3, <3>1, <3>2 DEF MapOf
  <2> QED
    BY <2>1, <2>2, <2>3
<1>6. MapOf(t) = [MapOf(s) EXCEPT ![cv.version] = cv.stamp]
  BY <1>5 DEF MapOf
<1> QED
  BY <1>1, <1>3, <1>6 DEF Keeps, t

(* An entry at the end for a version that was not there.                   *)
LEMMA AppendEntry ==
  ASSUME NEW s \in Seq(ChartVersion), NoDup(s), NEW cv \in ChartVersion,
         \A i \in DOMAIN s : s[i].version # cv.version
  PROVE  Keeps(s, Append(s, cv),
               [MapOf(s) EXCEPT ![cv.version] = cv.stamp])
<1> DEFINE t == Append(s, cv)
           n == Len(s) + 1
<1>1. /\ t \in Seq(ChartVersion)
      /\ DOMAIN t = DOMAIN s \cup {n}
      /\ n \notin DOMAIN s
  OBVIOUS
<1>2. t[n] = cv /\ \A j \in DOMAIN s : t[j] = s[j]
  OBVIOUS
<1> HIDE DEF t, n
<1>3. NoDup(t)
  BY <1>1, <1>2 DEF NoDup
<1>4. cv.version \in Versions
  BY DEF ChartVersion
<1>5. ASSUME NEW v \in Versions
      PROVE  MapOf(t)[v] = [MapOf(s) EXCEPT ![cv.version] = cv.stamp][v]
  <2>1. CASE v = cv.version
    <3>1. MapOf(t)[v] = cv.stamp
      BY <1>1, <1>2, <1>3, <2>1, MapAt
    <3> QED
      BY <2>1, <3>1, <1>4 DEF MapOf
  <2>2. CASE v # cv.version /\ \E j \in DOMAIN s : s[j].version = v
    <3>1. PICK j \in DOMAIN s : s[j].version = v
      BY <2>2
    <3>2. MapOf(s)[v] = s[j].stamp
      BY <3>1, MapAt
    <3>3. j \in DOMAIN t /\ t[j] = s[j]
      BY <1>1, <1>2, <3>1
    <3>4. MapOf(t)[v] = s[j].stamp
      BY <1>1, <1>3, <3>1, <3>3, MapAt
    <3> QED
      BY <2>2, <3>2, <3>4 DEF MapOf
  <2>3. CASE v # cv.version /\ \A j \in DOMAIN s : s[j].version # v
    <3>1. MapOf(s)[v] = None
      BY <2>3, MapAt
    <3>2. \A j \in DOMAIN t : t[j].version # v
      BY <1>1, <1>2, <2>3
    <3>3. MapOf(t)[v] = None
      BY <1>1, <1>3, <3>2, MapAt
    <3> QED
      BY <2>3, <3>1, <3>3 DEF MapOf
  <2> QED
    BY <2>1, <2>2, <2>3
<1>6. MapOf(t) = [MapOf(s) EXCEPT ![cv.version] = cv.stamp]
  BY <1>5 DEF MapOf
<1> QED
  BY <1>1, <1>3, <1>6 DEF Keeps, t

(* If the version is listed, the window shows every entry there is, so     *)
(* that AddEntry replaces it (repo/index.go:110-127).                      *)
LEMMA AddKeeps ==
  ASSUME NEW s \in Seq(ChartVersion), NoDup(s), NEW cv \in ChartVersion,
         cv.version \in Shown(s) => Shown(s) \in Few
  PROVE  Keeps(s, AddEntry(s, cv),
               [MapOf(s) EXCEPT ![cv.version] = cv.stamp])
<1> DEFINE of == Of(s, cv.version)
           near == {i \in of : i > Len(s) - Window}
<1>1. AddEntry(s, cv) = IF near = {} THEN Append(s, cv)
                        ELSE [s EXCEPT ![Last(near)] = cv]
  BY DEF AddEntry
<1>2. CASE of = {}
  BY <1>1, <1>2, OfNone, AppendEntry
<1>3. CASE of # {}
  <2>1. PICK i \in DOMAIN s : s[i].version = cv.version
    BY <1>3 DEF Of
  <2>2. of = {i} /\ Last(of) = i
    BY <2>1, OfOne
  <2>3. Len(s) <= Window
    BY <2>1, CountEntries DEF Shown, Few
  <2>4. near = of
    <3>1. i \in 1..Len(s) /\ Len(s) \in Nat /\ Window \in Nat
      BY WindowAssumption
    <3>2. i > Len(s) - Window
      BY <2>3, <3>1
    <3> QED
      BY <2>2, <3>2
  <2>5. AddEntry(s, cv) = [s EXCEPT ![i] = cv]
    BY <1>1, <1>3, <2>2, <2>4
  <2> QED
    BY <2>1, <2>5, ReplaceEntry
<1> QED
  BY <1>2, <1>3

(* UpdateEntry (repo/index.go:142-152) changes a version that is there.    *)
LEMMA UpdateKeeps ==
  ASSUME NEW s \in Seq(ChartVersion), NoDup(s), NEW cv \in ChartVersion
  PROVE  Keeps(s, UpdateEntry(s, cv),
               IF MapOf(s)[cv.version] = None THEN MapOf(s)
               ELSE [MapOf(s) EXCEPT ![cv.version] = cv.stamp])
<1>1. cv.version \in Versions
  BY DEF ChartVersion
<1>2. CASE Of(s, cv.version) = {}
  <2>1. MapOf(s)[cv.version] = None
    BY <1>1, <1>2 DEF MapOf
  <2> QED
    BY <1>2, <2>1 DEF UpdateEntry, Keeps
<1>3. CASE Of(s, cv.version) # {}
  <2>1. PICK i \in DOMAIN s : s[i].version = cv.version
    BY <1>3 DEF Of
  <2>2. First(Of(s, cv.version)) = i
    BY <2>1, OfOne
  <2>3. MapOf(s)[cv.version] # None
    <3>1. MapOf(s)[cv.version] = s[i].stamp
      BY <1>1, <2>1, MapAt
    <3>2. s[i] \in ChartVersion
      BY <2>1
    <3>3. s[i].stamp \in Stamps
      BY <3>2 DEF ChartVersion
    <3> QED
      BY <3>1, <3>3, VersionAssumption
  <2>4. UpdateEntry(s, cv) = [s EXCEPT ![i] = cv]
    BY <1>3, <2>2 DEF UpdateEntry
  <2> QED
    BY <2>1, <2>3, <2>4, ReplaceEntry
<1> QED
  BY <1>2, <1>3

(* RemoveEntry (repo/index.go:94-107) closes the gap.                      *)
LEMMA RemoveKeeps ==
  ASSUME NEW s \in Seq(ChartVersion), NoDup(s), NEW v \in Versions
  PROVE  Keeps(s, RemoveEntry(s, v), [MapOf(s) EXCEPT ![v] = None])
<1>1. CASE Of(s, v) = {}
  <2>1. MapOf(s)[v] = None
    BY <1>1 DEF MapOf
  <2>2. [MapOf(s) EXCEPT ![v] = None] = MapOf(s)
    BY <2>1 DEF MapOf
  <2> QED
    BY <1>1, <2>2 DEF RemoveEntry, Keeps
<1>2. CASE Of(s, v) # {}
  <2>1. PICK i \in DOMAIN s : s[i].version = v
    BY <1>2 DEF Of
  <2>2. First(Of(s, v)) = i
    BY <2>1, OfOne
  <2> DEFINE n == Len(s) - 1
             t == [j \in 1..n |-> IF j < i THEN s[j] ELSE s[j + 1]]
             old(j) == IF j < i THEN j ELSE j + 1
             new(k) == IF k < i THEN k ELSE k - 1
  <2>3. RemoveEntry(s, v) = t
    BY <1>2, <2>2 DEF RemoveEntry
  <2>4. Len(s) \in Nat /\ i \in 1..Len(s) /\ n \in Nat
    BY <2>1
  <2>5. \A j \in 1..n : old(j) \in DOMAIN s \ {i} /\ t[j] = s[old(j)]
    BY <2>4
  <2>6. \A k \in DOMAIN s \ {i} : new(k) \in 1..n /\ t[new(k)] = s[k]
    BY <2>4
  <2>7. \A j, k \in 1..n : old(j) = old(k) => j = k
    BY <2>4
  <2>8. t \in Seq(ChartVersion) /\ DOMAIN t = 1..n
    <3>1. \A j \in 1..n : t[j] \in ChartVersion
      BY <2>5
    <3> QED
      BY <2>4, <3>1
  <2> HIDE DEF t, old, new, n
  <2>9. NoDup(t)
    <3> SUFFICES ASSUME NEW j \in 1..n, NEW k \in 1..n,
                        t[j].version = t[k].version
                 PROVE  j = k
      BY <2>8 DEF NoDup
    <3>1. old(j) = old(k)
      BY <2>5 DEF NoDup
    <3> QED
      BY <2>7, <3>1
  <2>10. ASSUME NEW w \in Versions
         PROVE  MapOf(t)[w] = [MapOf(s) EXCEPT ![v] = None][w]
    <3>1. CASE w = v
      <4>1. ASSUME NEW j \in 1..n PROVE t[j].version # v
        BY <2>1, <2>5 DEF NoDup
      <4>2. MapOf(t)[v] = None
        BY <2>8, <2>9, <4>1, MapAt
      <4> QED
        BY <3>1, <4>2 DEF MapOf
    <3>2. CASE w # v /\ \E k \in DOMAIN s : s[k].version = w
      <4>1. PICK k \in DOMAIN s : s[k].version = w
        BY <3>2
      <4>2. k # i
        BY <2>1, <3>2, <4>1
      <4>3. new(k) \in DOMAIN t /\ t[new(k)] = s[k]
        BY <2>6, <2>8, <4>2
      <4>4. MapOf(s)[w] = s[k].stamp
        BY <4>1, MapAt
      <4>5. MapOf(t)[w] = t[new(k)].stamp
        <5>1. t[new(k)].version = w
          BY <4>1, <4>3
        <5> QED
          BY <2>8, <2>9, <4>3, <5>1, MapAt
      <4> QED
        BY <3>2, <4>3, <4>4, <4>5 DEF MapOf
    <3>3. CASE w # v /\ \A k \in DOMAIN s : s[k].version # w
      <4>1. MapOf(s)[w] = None
        BY <3>3, MapAt
      <4>2. ASSUME NEW j \in 1..n PROVE t[j].version # w
        BY <2>5, <3>3
      <4>3. MapOf(t)[w] = None
        BY <2>8, <2>9, <4>2, MapAt
      <4> QED
        BY <3>3, <4>1, <4>3 DEF MapOf
    <3> QED
      BY <3>1, <3>2, <3>3
  <2>11. MapOf(t) = [MapOf(s) EXCEPT ![v] = None]
    BY <2>10 DEF MapOf
  <2> QED
    BY <2>3, <2>8, <2>9, <2>11 DEF Keeps
<1> QED
  BY <1>1, <1>2

(* A sorted slice has the entries it had (sort.Sort in repo/index.go:73).  *)
LEMMA Sorted ==
  ASSUME NEW s \in Seq(ChartVersion), NEW t \in SortEntries(s)
  PROVE  /\ t \in Seq(ChartVersion)
         /\ NewestFirst(t)
         /\ Len(t) = Len(s) /\ DOMAIN t = DOMAIN s
         /\ \E f \in [DOMAIN s -> DOMAIN s] :
               /\ Injective(f)
               /\ \A i \in DOMAIN s : t[i] = s[f[i]]
               /\ \A k \in DOMAIN s : \E i \in DOMAIN s : f[i] = k
<1> DEFINE D == DOMAIN s
<1>1. PICK f \in [D -> D] : Injective(f) /\ t = [i \in D |-> s[f[i]]]
  BY DEF SortEntries
<1>2. D = 1..Len(s) /\ Len(s) \in Nat
  OBVIOUS
<1>3. /\ t \in Seq(ChartVersion)
      /\ DOMAIN t = D
      /\ Len(t) = Len(s)
      /\ \A i \in D : t[i] = s[f[i]]
  BY <1>1, <1>2
<1>4. f \in Injection(D, D)
  BY <1>1 DEF Injective, Injection, IsInjective
<1>5. IsFiniteSet(D)
  BY <1>2, FS_Interval
<1> HIDE DEF D
<1>6. f \in Surjection(D, D)
  BY <1>4, <1>5, FS_Injection
<1>7. \A k \in D : \E i \in D : f[i] = k
  BY <1>6 DEF Surjection
<1>8. NewestFirst(t)
  BY DEF SortEntries
<1> QED
  BY <1>1, <1>3, <1>7, <1>8 DEF D

(* ... and, without duplicates, the same map.                              *)
LEMMA SortKeeps ==
  ASSUME NEW s \in Seq(ChartVersion), NoDup(s), NEW t \in SortEntries(s)
  PROVE  Keeps(s, t, MapOf(s))
<1> DEFINE D == DOMAIN s
<1>1. /\ t \in Seq(ChartVersion)
      /\ DOMAIN t = D
  BY Sorted
<1>2. PICK f \in [D -> D] :
        /\ Injective(f)
        /\ \A i \in D : t[i] = s[f[i]]
        /\ \A k \in D : \E i \in D : f[i] = k
  BY Sorted
<1>3. \A i, j \in D : f[i] = f[j] => i = j
  BY <1>2 DEF Injective
<1> HIDE DEF D
<1>4. NoDup(t)
  <2> SUFFICES ASSUME NEW i \in D, NEW j \in D,
                      t[i].version = t[j].version
               PROVE  i = j
    BY <1>1 DEF NoDup
  <2>1. /\ f[i] \in D /\ t[i] = s[f[i]]
        /\ f[j] \in D /\ t[j] = s[f[j]]
    BY <1>2
  <2>2. f[i] = f[j]
    BY <2>1 DEF NoDup, D
  <2> QED
    BY <1>3, <2>2
<1>5. ASSUME NEW v \in Versions PROVE MapOf(t)[v] = MapOf(s)[v]
  <2>1. CASE \E k \in D : s[k].version = v
    <3>1. PICK k \in D : s[k].version = v
      BY <2>1
    <3>2. PICK i \in D : f[i] = k
      BY <1>2
    <3>3. t[i] = s[k]
      BY <1>2, <3>2
    <3>4. MapOf(s)[v] = s[k].stamp
      BY <3>1, MapAt DEF D
    <3>5. MapOf(t)[v] = t[i].stamp
      BY <1>1, <1>4, <3>1, <3>3, MapAt
    <3> QED
      BY <3>3, <3>4, <3>5
  <2>2. CASE \A k \in D : s[k].version # v
    <3>1. MapOf(s)[v] = None
      BY <2>2, MapAt DEF D
    <3>2. \A i \in D : t[i].version # v
      BY <1>2, <2>2
    <3>3. MapOf(t)[v] = None
      BY <1>1, <1>4, <3>2, MapAt
    <3> QED
      BY <3>1, <3>3
  <2> QED
    BY <2>1, <2>2
<1>6. MapOf(t) = MapOf(s)
  BY <1>5 DEF MapOf
<1> QED
  BY <1>1, <1>4, <1>6 DEF Keeps

(* Each call does to the slice what it would do to the map.                *)
LEMMA ApplyKeeps ==
  ASSUME NEW s \in Seq(ChartVersion), NoDup(s), NEW o \in Operation,
         ~Crowds(o, s)
  PROVE  Keeps(s, Apply(o, s), Promise!Effect(MapOf(s), o))
<1> DEFINE cv == [version |-> o.version, stamp |-> o.stamp]
<1>1. /\ o.kind \in {"add", "update", "remove"}
      /\ o.version \in Versions
      /\ cv \in ChartVersion
      /\ cv.version = o.version /\ cv.stamp = o.stamp
  BY DEF Operation, ChartVersion
<1>2. CASE o.kind = "add"
  <2>1. Apply(o, s) = AddEntry(s, cv)
    BY <1>2 DEF Apply
  <2>2. Promise!Effect(MapOf(s), o)
            = [MapOf(s) EXCEPT ![o.version] = o.stamp]
    BY <1>2 DEF Promise!Effect
  <2>3. o.version \in Shown(s) => Shown(s) \in Few
    BY <1>2 DEF Crowds
  <2> QED
    BY <1>1, <2>1, <2>2, <2>3, AddKeeps
<1>3. CASE o.kind = "update"
  <2>1. Apply(o, s) = UpdateEntry(s, cv)
    BY <1>3 DEF Apply
  <2>2. Promise!Effect(MapOf(s), o)
            = IF MapOf(s)[o.version] = None THEN MapOf(s)
              ELSE [MapOf(s) EXCEPT ![o.version] = o.stamp]
    BY <1>3 DEF Promise!Effect
  <2> QED
    BY <1>1, <2>1, <2>2, UpdateKeeps
<1>4. CASE o.kind = "remove"
  <2>1. Apply(o, s) = RemoveEntry(s, o.version)
    BY <1>4 DEF Apply
  <2>2. Promise!Effect(MapOf(s), o)
            = [MapOf(s) EXCEPT ![o.version] = None]
    BY <1>4 DEF Promise!Effect
  <2> QED
    BY <1>1, <2>1, <2>2, RemoveKeeps
<1> QED
  BY <1>1, <1>2, <1>3, <1>4
-----------------------------------------------------------------------------
(* With duplicates too, it is known which versions are listed.             *)
LEMMA SortShows ==
  ASSUME NEW s \in Seq(ChartVersion), NEW t \in SortEntries(s)
  PROVE  Shown(t) = Shown(s)
<1> DEFINE D == DOMAIN s
<1>1. DOMAIN t = D
  BY Sorted
<1>2. PICK f \in [D -> D] :
        /\ \A i \in D : t[i] = s[f[i]]
        /\ \A k \in D : \E i \in D : f[i] = k
  BY Sorted
<1>3. \A i \in D : \E k \in D : t[i] = s[k]
  BY <1>2
<1>4. \A k \in D : \E i \in D : t[i] = s[k]
  BY <1>2
<1>5. Shown(t) \subseteq Shown(s)
  BY <1>1, <1>3 DEF Shown
<1>6. Shown(s) \subseteq Shown(t)
  BY <1>1, <1>4 DEF Shown
<1> QED
  BY <1>5, <1>6

LEMMA ListedShown ==
  ASSUME NEW s \in Seq(ChartVersion)
  PROVE  Promise!Listed(MapOf(s)) = Shown(s)
<1> \A i \in DOMAIN s : s[i] \in ChartVersion
  OBVIOUS
<1>1. Shown(s) \in SUBSET Versions
  BY DEF Shown, ChartVersion
<1>2. ASSUME NEW v \in Versions
      PROVE  MapOf(s)[v] # None <=> v \in Shown(s)
  <2>1. CASE Of(s, v) = {}
    BY <2>1 DEF MapOf, Of, Shown
  <2>2. CASE Of(s, v) # {}
    <3> DEFINE i == First(Of(s, v))
    <3>1. Of(s, v) \in SUBSET Nat
      BY DEF Of
    <3>2. i \in Of(s, v)
      BY <2>2, <3>1, FirstOf
    <3>3. i \in DOMAIN s /\ s[i].version = v
      BY <3>2 DEF Of
    <3>4. s[i].stamp \in Stamps
      BY <3>3 DEF ChartVersion
    <3>5. MapOf(s)[v] = s[i].stamp
      BY <2>2 DEF MapOf
    <3> QED
      BY <3>3, <3>4, <3>5, VersionAssumption DEF Shown
  <2> QED
    BY <2>1, <2>2
<1> QED
  BY <1>1, <1>2 DEF Promise!Listed

LEMMA ReplaceShows ==
  ASSUME NEW s \in Seq(ChartVersion), NEW i \in DOMAIN s,
         NEW cv \in ChartVersion, s[i].version = cv.version
  PROVE  /\ [s EXCEPT ![i] = cv] \in Seq(ChartVersion)
         /\ Shown([s EXCEPT ![i] = cv]) = Shown(s)
<1> DEFINE t == [s EXCEPT ![i] = cv]
<1>1. t \in Seq(ChartVersion) /\ DOMAIN t = DOMAIN s
  OBVIOUS
<1>2. \A j \in DOMAIN s : t[j].version = s[j].version
  OBVIOUS
<1> HIDE DEF t
<1>3. Shown(t) = Shown(s)
  BY <1>1, <1>2 DEF Shown
<1> QED
  BY <1>1, <1>3 DEF t

LEMMA AddShows ==
  ASSUME NEW s \in Seq(ChartVersion), NEW cv \in ChartVersion
  PROVE  /\ AddEntry(s, cv) \in Seq(ChartVersion)
         /\ Shown(AddEntry(s, cv)) = Shown(s) \cup {cv.version}
<1> DEFINE near == {i \in Of(s, cv.version) : i > Len(s) - Window}
<1>1. CASE near = {}
  <2> DEFINE t == Append(s, cv)
             n == Len(s) + 1
  <2>1. AddEntry(s, cv) = t
    BY <1>1 DEF AddEntry
  <2>2. /\ t \in Seq(ChartVersion)
        /\ DOMAIN t = DOMAIN s \cup {n}
        /\ t[n] = cv
        /\ \A j \in DOMAIN s : t[j] = s[j]
    OBVIOUS
  <2> HIDE DEF t, n
  <2>3. Shown(t) = Shown(s) \cup {cv.version}
    BY <2>2 DEF Shown
  <2> QED
    BY <2>1, <2>2, <2>3
<1>2. CASE near # {}
  <2> DEFINE i == Last(near)
  <2>1. Len(s) \in Nat /\ near \in SUBSET (1..Len(s))
    BY DEF Of
  <2>2. i \in near
    BY <1>2, <2>1, LastOf
  <2>3. i \in DOMAIN s /\ s[i].version = cv.version
    BY <2>2 DEF Of
  <2>4. AddEntry(s, cv) = [s EXCEPT ![i] = cv]
    BY <1>2 DEF AddEntry
  <2>5. cv.version \in Shown(s)
    BY <2>3 DEF Shown
  <2> QED
    BY <2>3, <2>4, <2>5, ReplaceShows
<1> QED
  BY <1>1, <1>2

LEMMA UpdateShows ==
  ASSUME NEW s \in Seq(ChartVersion), NEW cv \in ChartVersion
  PROVE  /\ UpdateEntry(s, cv) \in Seq(ChartVersion)
         /\ Shown(UpdateEntry(s, cv)) = Shown(s)
<1> DEFINE i == First(Of(s, cv.version))
<1>1. CASE Of(s, cv.version) = {}
  BY <1>1 DEF UpdateEntry
<1>2. CASE Of(s, cv.version) # {}
  <2>1. Of(s, cv.version) \in SUBSET Nat
    BY DEF Of
  <2>2. i \in DOMAIN s /\ s[i].version = cv.version
    BY <1>2, <2>1, FirstOf DEF Of
  <2>3. UpdateEntry(s, cv) = [s EXCEPT ![i] = cv]
    BY <1>2 DEF UpdateEntry
  <2> QED
    BY <2>2, <2>3, ReplaceShows
<1> QED
  BY <1>1, <1>2

LEMMA RemoveShows ==
  ASSUME NEW s \in Seq(ChartVersion), NEW v \in Versions
  PROVE  /\ RemoveEntry(s, v) \in Seq(ChartVersion)
         /\ Shown(RemoveEntry(s, v)) \in {Shown(s), Shown(s) \ {v}}
<1>1. CASE Of(s, v) = {}
  BY <1>1 DEF RemoveEntry
<1>2. CASE Of(s, v) # {}
  <2> DEFINE i == First(Of(s, v))
             n == Len(s) - 1
             t == [j \in 1..n |-> IF j < i THEN s[j] ELSE s[j + 1]]
             old(j) == IF j < i THEN j ELSE j + 1
             new(k) == IF k < i THEN k ELSE k - 1
  <2>1. Of(s, v) \in SUBSET Nat
    BY DEF Of
  <2>2. i \in DOMAIN s /\ s[i].version = v
    BY <1>2, <2>1, FirstOf DEF Of
  <2>3. RemoveEntry(s, v) = t
    BY <1>2 DEF RemoveEntry
  <2> HIDE DEF i
  <2>4. Len(s) \in Nat /\ i \in 1..Len(s) /\ n \in Nat
    BY <2>2
  <2>5. \A j \in 1..n : old(j) \in DOMAIN s /\ t[j] = s[old(j)]
    BY <2>4
  <2>6. \A k \in DOMAIN s \ {i} : new(k) \in 1..n /\ t[new(k)] = s[k]
    BY <2>4
  <2>7. t \in Seq(ChartVersion) /\ DOMAIN t = 1..n
    <3>1. \A j \in 1..n : t[j] \in ChartVersion
      BY <2>5
    <3> QED
      BY <2>4, <3>1
  <2> HIDE DEF t, old, new, n
  <2>8. Shown(t) \subseteq Shown(s)
    BY <2>5, <2>7 DEF Shown
  <2>9. Shown(s) \ {v} \subseteq Shown(t)
    <3> SUFFICES ASSUME NEW k \in DOMAIN s, s[k].version # v
                 PROVE  s[k].version \in Shown(t)
      BY DEF Shown
    <3>1. k # i
      BY <2>2
    <3> QED
      BY <2>6, <2>7, <3>1 DEF Shown
  <2>10. Shown(t) = Shown(s) \/ Shown(t) = Shown(s) \ {v}
    BY <2>8, <2>9
  <2> QED
    BY <2>3, <2>7, <2>10
<1> QED
  BY <1>1, <1>2

LEMMA ApplyShows ==
  ASSUME NEW s \in Seq(ChartVersion), NEW o \in Operation
  PROVE  /\ Apply(o, s) \in Seq(ChartVersion)
         /\ Shown(Apply(o, s)) \in Promise!MayList(Shown(s), o)
<1> DEFINE cv == [version |-> o.version, stamp |-> o.stamp]
<1>1. /\ o.kind \in {"add", "update", "remove"}
      /\ o.version \in Versions
      /\ cv \in ChartVersion /\ cv.version = o.version
  BY DEF Operation, ChartVersion
<1>2. CASE o.kind = "add"
  <2>1. Apply(o, s) = AddEntry(s, cv)
    BY <1>2 DEF Apply
  <2>2. Promise!MayList(Shown(s), o) = {Shown(s) \cup {o.version}}
    BY <1>2 DEF Promise!MayList
  <2> QED
    BY <1>1, <2>1, <2>2, AddShows
<1>3. CASE o.kind = "update"
  <2>1. Apply(o, s) = UpdateEntry(s, cv)
    BY <1>3 DEF Apply
  <2>2. Promise!MayList(Shown(s), o) = {Shown(s)}
    BY <1>3 DEF Promise!MayList
  <2> QED
    BY <1>1, <2>1, <2>2, UpdateShows
<1>4. CASE o.kind = "remove"
  <2>1. Apply(o, s) = RemoveEntry(s, o.version)
    BY <1>4 DEF Apply
  <2>2. Promise!MayList(Shown(s), o) = {Shown(s), Shown(s) \ {o.version}}
    BY <1>4 DEF Promise!MayList
  <2> QED
    BY <1>1, <2>1, <2>2, RemoveShows
<1> QED
  BY <1>1, <1>2, <1>3, <1>4
-----------------------------------------------------------------------------
Inv == TypeOK /\ NoDuplicates /\ PublishedInOrder

LEMMA InitInv == Init => Inv
<1> SUFFICES ASSUME Init PROVE Inv
  OBVIOUS
<1>1. TypeOK /\ NoDuplicates
  <2>1. entries \in Seq(ChartVersion) /\ DOMAIN entries = {}
    BY DEF Init
  <2>2. /\ busy = FALSE /\ torn = FALSE /\ crowded = FALSE
        /\ gauge = 0 /\ op = None
    BY DEF Init
  <2>3. TypeOK
    BY <2>1, <2>2 DEF TypeOK
  <2> QED
    BY <2>1, <2>3 DEF NoDuplicates
<1>2. Shown(entries) = {}
  BY DEF Init, Shown
<1>3. PublishedInOrder
  BY <1>2, FS_EmptySet DEF Init, PublishedInOrder, NewestFirst
<1> QED
  BY <1>1, <1>3 DEF Inv

(* What an operation makes of the entries.                                 *)
LEMMA OperateInv ==
  ASSUME Inv, NEW o \in Operation, Operate(o)
  PROVE  /\ op' = o /\ crowded' \in BOOLEAN
         /\ Apply(o, entries) \in Seq(ChartVersion)
         /\ Shown(Apply(o, entries))
                \in Promise!MayList(Shown(entries), o)
         /\ ~crowded' => Keeps(entries, Apply(o, entries),
                               Promise!Effect(MapOf(entries), o))
<1>1. entries \in Seq(ChartVersion) /\ crowded \in BOOLEAN
  BY DEF Inv, TypeOK
<1>2. op' = o /\ crowded' = (crowded \/ Crowds(o, entries))
  BY DEF Operate
<1>3. ASSUME ~crowded'
      PROVE  Keeps(entries, Apply(o, entries),
                   Promise!Effect(MapOf(entries), o))
  <2>1. ~crowded /\ ~Crowds(o, entries)
    BY <1>2, <1>3
  <2>2. NoDup(entries)
    BY <2>1 DEF Inv, NoDuplicates, NoDup
  <2> QED
    BY <1>1, <2>1, <2>2, ApplyKeeps
<1>4. crowded' \in BOOLEAN
  BY <1>1, <1>2 DEF Crowds
<1> QED
  BY <1>1, <1>2, <1>3, <1>4, ApplyShows

(* What a finished regeneration of entries s leaves.                       *)
LEMMA RegenerateInv ==
  ASSUME NEW s \in Seq(ChartVersion), ~crowded' => NoDup(s), Regenerate(s)
  PROVE  /\ entries' \in Seq(ChartVersion)
         /\ gauge' \in Nat
         /\ torn' = FALSE
         /\ NoDuplicates'
         /\ PublishedInOrder'
         /\ Shown(entries') = Shown(s)
         /\ ~crowded' => MapOf(entries') = MapOf(s)
<1>1. /\ entries' \in SortEntries(s)
      /\ gauge' = Len(s)
      /\ torn' = FALSE
  BY DEF Regenerate
<1>2. /\ entries' \in Seq(ChartVersion)
      /\ NewestFirst(entries')
      /\ Len(entries') = Len(s)
      /\ Shown(entries') = Shown(s)
  BY <1>1, Sorted, SortShows
<1>3. ASSUME ~crowded'
      PROVE  /\ NoDup(entries')
             /\ MapOf(entries') = MapOf(s)
             /\ gauge' = Cardinality(Shown(entries'))
  <2>1. Keeps(s, entries', MapOf(s))
    BY <1>1, <1>3, SortKeeps
  <2>2. NoDup(entries') /\ MapOf(entries') = MapOf(s)
    BY <2>1 DEF Keeps
  <2>3. gauge' = Cardinality(Shown(entries'))
    BY <1>1, <1>2, <1>3, CountEntries
  <2> QED
    BY <2>2, <2>3
<1>4. PublishedInOrder'
  BY <1>2, <1>3 DEF PublishedInOrder, NewestFirst, Shown
<1>5. NoDuplicates'
  BY <1>3 DEF NoDup, NoDuplicates
<1>6. gauge' \in Nat
  BY <1>1
<1> QED
  BY <1>1, <1>2, <1>3, <1>4, <1>5, <1>6

PromiseVars == <<MapOf(entries), op, crowded>>

(* An operation is one of the map, or one that promises less.              *)
LEMMA OperateStep ==
  ASSUME entries \in Seq(ChartVersion), entries' \in Seq(ChartVersion),
         crowded \in BOOLEAN, NEW o \in Operation, Operate(o),
         Shown(entries') \in Promise!MayList(Shown(entries), o),
         ~crowded' => MapOf(entries') = Promise!Effect(MapOf(entries), o)
  PROVE  Promise!Next
<1>1. /\ op' = o /\ crowded' = (crowded \/ Crowds(o, entries))
      /\ o \in Promise!Operation
  BY DEF Operate, Operation, Promise!Operation
<1>2. /\ Promise!Listed(MapOf(entries)) = Shown(entries)
      /\ Promise!Listed(MapOf(entries')) = Shown(entries')
  BY ListedShown
<1>3. Promise!Crowds(o) <=> Crowds(o, entries)
  <2> DEFINE L == Promise!Listed(MapOf(entries))
  <2>1. Promise!Crowds(o) <=> /\ o.kind = "add"
                              /\ o.version \in L
                              /\ L \notin Few
    BY DEF Promise!Crowds
  <2>2. L = Shown(entries)
    BY <1>2
  <2> HIDE DEF L
  <2> QED
    BY <2>1, <2>2 DEF Crowds
<1>4. MapOf(entries)' = MapOf(entries')
  BY DEF MapOf, Of
<1>5. CASE crowded'
  <2>1. crowded' = TRUE
    BY <1>1, <1>5 DEF Crowds
  <2>2. Promise!OperateCrowded(o)
    <3>1. crowded \/ Promise!Crowds(o)
      BY <1>1, <1>3, <1>5
    <3>2. Promise!Listed(MapOf(entries)')
              \in Promise!MayList(Promise!Listed(MapOf(entries)), o)
      BY <1>2, <1>4
    <3> QED
      BY <1>1, <2>1, <3>1, <3>2 DEF Promise!OperateCrowded
  <2> QED
    BY <1>1, <2>2 DEF Promise!Next
<1>6. CASE ~crowded'
  <2>1. ~crowded /\ ~Promise!Crowds(o)
    BY <1>1, <1>3, <1>6
  <2>2. crowded' = crowded
    BY <1>1, <1>3, <2>1 DEF Crowds
  <2>3. Promise!Operate(o)
    BY <1>1, <1>4, <1>6, <2>1, <2>2 DEF Promise!Operate
  <2> QED
    BY <1>1, <2>3 DEF Promise!Next
<1> QED
  BY <1>5, <1>6

(* Every step keeps the invariant, and is one of the promise or none.      *)
LEMMA StepInv ==
  ASSUME Inv, [Next]_vars
  PROVE  Inv' /\ [Promise!Next]_PromiseVars
<1>1. entries \in Seq(ChartVersion) /\ crowded \in BOOLEAN
  BY DEF Inv, TypeOK
<1>2. MapOf(entries)' = MapOf(entries')
  BY DEF MapOf, Of
<1>3. ASSUME NEW o \in Operation, HandleEvent(o)
      PROVE  Inv' /\ [Promise!Next]_PromiseVars
  <2> DEFINE s == Apply(o, entries)
  <2>1. Operate(o) /\ Regenerate(s) /\ busy' = busy
    BY <1>3 DEF HandleEvent
  <2>2. /\ op' = o /\ crowded' \in BOOLEAN
        /\ s \in Seq(ChartVersion)
        /\ Shown(s) \in Promise!MayList(Shown(entries), o)
        /\ ~crowded' => Keeps(entries, s,
                              Promise!Effect(MapOf(entries), o))
    BY <2>1, OperateInv
  <2> HIDE DEF s
  <2>3. /\ entries' \in Seq(ChartVersion)
        /\ gauge' \in Nat
        /\ torn' = FALSE
        /\ NoDuplicates'
        /\ PublishedInOrder'
        /\ Shown(entries') = Shown(s)
        /\ ~crowded' => MapOf(entries') = MapOf(s)
    BY <2>1, <2>2, RegenerateInv DEF Keeps
  <2>4. TypeOK'
    BY <2>1, <2>2, <2>3 DEF Inv, TypeOK
  <2>5. Promise!Next
    BY <1>1, <2>1, <2>2, <2>3, OperateStep DEF Keeps
  <2> QED
    BY <2>3, <2>4, <2>5 DEF Inv
<1>4. ASSUME NEW o \in Operation, IndexObject(o)
      PROVE  Inv' /\ [Promise!Next]_PromiseVars
  <2>1. /\ Operate(o) /\ entries' = Apply(o, entries)
        /\ busy /\ UNCHANGED <<busy, torn, gauge>>
    BY <1>4 DEF IndexObject
  <2>2. /\ op' = o /\ crowded' \in BOOLEAN
        /\ entries' \in Seq(ChartVersion)
        /\ Shown(entries') \in Promise!MayList(Shown(entries), o)
        /\ ~crowded' => Keeps(entries, entries',
                              Promise!Effect(MapOf(entries), o))
    BY <2>1, OperateInv
  <2>3. TypeOK' /\ NoDuplicates'
    BY <2>1, <2>2 DEF Inv, TypeOK, Keeps, NoDup, NoDuplicates
  <2>4. PublishedInOrder'
    BY <2>1 DEF PublishedInOrder
  <2>5. Promise!Next
    BY <1>1, <2>1, <2>2, OperateStep DEF Keeps
  <2> QED
    BY <2>3, <2>4, <2>5 DEF Inv
<1>5. ASSUME BeginRegeneration
      PROVE  Inv' /\ UNCHANGED PromiseVars
  BY <1>5 DEF BeginRegeneration, Inv, TypeOK, NoDuplicates, PromiseVars,
              PublishedInOrder, MapOf, Of
<1>6. ASSUME EndRegeneration
      PROVE  Inv' /\ [Promise!Next]_PromiseVars
  <2>1. /\ Regenerate(entries) /\ busy' = FALSE
        /\ op' = op /\ crowded' = crowded
    BY <1>6 DEF EndRegeneration
  <2>2. ~crowded' => NoDup(entries)
    BY <2>1 DEF Inv, NoDuplicates, NoDup
  <2>3. /\ entries' \in Seq(ChartVersion)
        /\ gauge' \in Nat
        /\ torn' = FALSE
        /\ NoDuplicates'
        /\ PublishedInOrder'
        /\ Shown(entries') = Shown(entries)
        /\ ~crowded' => MapOf(entries') = MapOf(entries)
    BY <1>1, <2>1, <2>2, RegenerateInv
  <2>4. TypeOK'
    BY <2>1, <2>3 DEF Inv, TypeOK
  <2>5. CASE crowded
    <3>1. Promise!Listed(MapOf(entries)') = Promise!Listed(MapOf(entries))
      BY <1>1, <1>2, <2>3, ListedShown
    <3>2. Promise!Resort
      BY <2>1, <2>5, <3>1 DEF Promise!Resort
    <3> QED
      BY <2>3, <2>4, <3>2 DEF Promise!Next, Inv
  <2>6. CASE ~crowded
    BY <1>2, <2>1, <2>3, <2>4, <2>6 DEF PromiseVars, Inv
  <2> QED
    BY <2>5, <2>6
<1>7. ASSUME RegenerationFails
      PROVE  Inv' /\ UNCHANGED PromiseVars
  BY <1>7 DEF RegenerationFails, Inv, TypeOK, NoDuplicates, PromiseVars,
              PublishedInOrder, MapOf, Of
<1>8. ASSUME UNCHANGED vars
      PROVE  Inv' /\ UNCHANGED PromiseVars
  BY <1>8 DEF vars, Inv, TypeOK, NoDuplicates, PublishedInOrder, Shown,
              NewestFirst, MapOf, Of, PromiseVars
<1> QED
  BY <1>3, <1>4, <1>5, <1>6, <1>7, <1>8 DEF Next

THEOREM Invariant == Spec => []Inv
<1>1. Inv /\ [Next]_vars => Inv'
  BY StepInv
<1> QED
  BY <1>1, InitInv, PTL DEF Spec

(* Every variable keeps its type, for any number of versions.              *)
THEOREM TypeCorrect == Spec => []TypeOK
<1>1. Inv => TypeOK
  BY DEF Inv
<1> QED
  BY <1>1, Invariant, PTL

(* No version is listed twice before a listed version is added to a chart  *)
(* of more versions than AddEntry looks at.                                *)
THEOREM NoneTwice == Spec => []NoDuplicates
<1>1. Inv => NoDuplicates
  BY DEF Inv
<1> QED
  BY <1>1, Invariant, PTL

(* What a finished regeneration publishes is sorted, whatever is listed    *)
(* twice, and rightly counted as long as nothing can be.                   *)
THEOREM Published == Spec => []PublishedInOrder
<1>1. Inv => PublishedInOrder
  BY DEF Inv
<1> QED
  BY <1>1, Invariant, PTL

(* The slice, searched from its end as far as the window goes, implements  *)
(* the map IndexCache takes it for, as far as VersionMap promises one: of  *)
(* any number of versions, until a listed one is added to more than the    *)
(* window shows; from then on the right versions are listed.               *)
THEOREM PromiseImplemented == Spec => PromiseKept
<1>1. Init => Promise!Init
  BY DEF Init, Promise!Init, MapOf, Of
<1>2. Inv /\ [Next]_vars => [Promise!Next]_<<MapOf(entries), op, crowded>>
  BY StepInv DEF PromiseVars
<1> QED
  BY <1>1, <1>2, Invariant, PTL DEF Spec, PromiseKept, Promise!Spec
=============================================================================
