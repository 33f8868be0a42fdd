-------------------------- MODULE ChartNamesProofs --------------------------
(***************************************************************************)
(* When the name and version read in a file name are those it was made of. *)
(***************************************************************************)
EXTENDS ChartNames, SequenceTheorems, FiniteSetTheorems,
        WellFoundedInduction, TLAPS

(* Numbers below a bound have a last one.                                  *)
LEMMA LastExists ==
  ASSUME NEW S \in SUBSET Nat, NEW n \in Nat, S # {}, \A j \in S : j <= n
  PROVE  \E last \in S : \A j \in S : j <= last
<1> DEFINE Above(j) == (j + 1)..n
           T == {Above(j) : j \in S}
           Less == StrictSubsetOrdering(Nat)
<1>1. T \subseteq FiniteSubsetsOf(Nat) /\ T # {}
  <2>1. ASSUME NEW j \in S PROVE Above(j) \in FiniteSubsetsOf(Nat)
    <3>1. IsFiniteSet(Above(j))
      BY FS_Interval
    <3>2. Above(j) \subseteq Nat
      OBVIOUS
    <3> QED
      BY <3>1, <3>2 DEF FiniteSubsetsOf
  <2> QED
    BY <2>1
<1>2. IsWellFoundedOn(Less, FiniteSubsetsOf(Nat))
  BY FS_StrictSubsetOrderingWellFounded
<1>3. PICK X \in T : \A Y \in T : ~(<<Y, X>> \in Less)
  <2> HIDE DEF Less, T
  <2> QED
    BY <1>1, <1>2, WFMin
<1>4. PICK last \in S : X = Above(last)
  OBVIOUS
<1>5. ASSUME NEW j \in S, j > last PROVE FALSE
  <2>1. Above(j) \subseteq Above(last) /\ Above(j) \subseteq Nat
    BY <1>5
  <2>2. j \in Above(last) /\ j \notin Above(j)
    BY <1>5
  <2>3. <<Above(j), Above(last)>> \in Less
    BY <2>1, <2>2, <1>1 DEF StrictSubsetOrdering, FiniteSubsetsOf
  <2> QED
    BY <1>3, <1>4, <2>3
<1> QED
  BY <1>5

(* The last of some numbers below a bound is the number not exceeded.      *)
LEMMA FinalIs ==
  ASSUME NEW S \in SUBSET Nat, NEW i \in S, \A j \in S : j <= i
  PROVE  Final(S) = i
<1>1. /\ Final(S) \in S
      /\ \A j \in S : j <= Final(S)
  BY DEF Final
<1>2. Final(S) \in Nat /\ i \in Nat
  BY <1>1
<1>3. i <= Final(S) /\ Final(S) <= i
  BY <1>1
<1> QED
  BY <1>2, <1>3

(* A file name begins with the parts of the chart's name, and after them   *)
(* come those of its version.                                              *)
LEMMA FilenameParts ==
  ASSUME NEW name \in Seq(Parts), NEW version \in Seq(Parts),
         name # <<>>, version # <<>>
  PROVE  LET path == ChartPackageFilenameFromNameVersion(name, version)
         IN  /\ Len(path) = Len(name) + Len(version)
             /\ \A i \in 1..Len(version) : path[Len(name) + i] = version[i]
             /\ SplitAt(path, Len(name) + 1) = <<name, version>>
             /\ Len(name) \in Nat /\ Len(version) \in Nat
             /\ Len(name) >= 1 /\ Len(version) >= 1
<1> DEFINE path == ChartPackageFilenameFromNameVersion(name, version)
<1>1. /\ Len(path) = Len(name) + Len(version)
      /\ \A i \in 1..Len(version) : path[Len(name) + i] = version[i]
      /\ \A i \in 1..Len(name) : path[i] = name[i]
      /\ path \in Seq(Parts)
  BY DEF ChartPackageFilenameFromNameVersion
<1>2. Len(name) \in Nat /\ Len(version) \in Nat
      /\ Len(name) >= 1 /\ Len(version) >= 1
  BY EmptySeq
<1>3. SubSeq(path, 1, Len(name)) = name
  BY <1>1, <1>2
<1>4. SubSeq(path, Len(name) + 1, Len(path)) = version
  BY <1>1, <1>2
<1>5. SplitAt(path, Len(name) + 1) = <<name, version>>
  BY <1>2, <1>3, <1>4 DEF SplitAt
<1> QED
  BY <1>1, <1>2, <1>5

(* A version whose first part alone begins with a digit is found, whatever *)
(* the parts of the chart's name (chart.go:129).                           *)
THEOREM RightGuess ==
  ASSUME NEW name \in Seq(Parts), NEW version \in Seq(Parts),
         name # <<>>, version # <<>>,
         version[1] \in Numbers,
         \A i \in 2..Len(version) : version[i] \notin Numbers \cup {EmptyPart}
  PROVE  GetExactChartNameVersion(
             ChartPackageFilenameFromNameVersion(name, version))
           = <<name, version>>
<1> DEFINE at == Len(name) + 1
<1> SUFFICES ASSUME NEW path,
                    path = ChartPackageFilenameFromNameVersion(name, version)
             PROVE  GetExactChartNameVersion(path) = <<name, version>>
  OBVIOUS
<1>1. /\ Len(path) = Len(name) + Len(version)
      /\ \A i \in 1..Len(version) : path[Len(name) + i] = version[i]
      /\ SplitAt(path, at) = <<name, version>>
      /\ Len(name) \in Nat /\ Len(version) \in Nat
      /\ Len(name) >= 1 /\ Len(version) >= 1
  BY FilenameParts
<1>2. path[at] = version[1]
  BY <1>1
<1>3. at \in Stops(path)
  BY <1>1, <1>2 DEF Stops
<1>4. ASSUME NEW j \in Stops(path) PROVE j <= at
  <2>1. SUFFICES ASSUME j > at PROVE FALSE
    BY <1>1, <1>3 DEF Stops
  <2>2. PICK k \in 2..Len(version) : j = Len(name) + k
    <3>1. j \in 2..(Len(name) + Len(version))
      BY <1>1 DEF Stops
    <3>2. \A l, m \in Nat : \A n \in 2..(l + m) :
              n > l + 1 => \E k \in 2..m : n = l + k
      <4>1. ASSUME NEW l \in Nat, NEW m \in Nat, NEW n \in 2..(l + m),
                   n > l + 1
            PROVE  n - l \in 2..m /\ n = l + (n - l)
        BY <4>1
      <4> QED
        BY <4>1
    <3> QED
      BY <1>1, <2>1, <3>1, <3>2
  <2>3. path[j] = version[k]
    BY <1>1, <2>2
  <2> QED
    BY <2>2, <2>3 DEF Stops
<1>5. Final(Stops(path)) = at
  BY <1>3, <1>4, FinalIs DEF Stops
<1>6. path[at] # EmptyPart
  BY <1>2, PartsAssumption
<1> QED
  BY <1>1, <1>3, <1>5, <1>6 DEF GetExactChartNameVersion

(* Any later part of the version that begins with a digit, or is empty,    *)
(* makes it another name and version, or a panic.                          *)
THEOREM WrongGuess ==
  ASSUME NEW name \in Seq(Parts), NEW version \in Seq(Parts),
         name # <<>>, version # <<>>,
         NEW i \in 2..Len(version), version[i] \in Numbers \cup {EmptyPart}
  PROVE  GetExactChartNameVersion(
             ChartPackageFilenameFromNameVersion(name, version))
           # <<name, version>>
<1> SUFFICES ASSUME NEW path,
                    path = ChartPackageFilenameFromNameVersion(name, version)
             PROVE  GetExactChartNameVersion(path) # <<name, version>>
  OBVIOUS
<1> DEFINE at == Final(Stops(path))
<1>1. /\ Len(path) = Len(name) + Len(version)
      /\ \A j \in 1..Len(version) : path[Len(name) + j] = version[j]
      /\ Len(name) \in Nat /\ Len(version) \in Nat
      /\ Len(name) >= 1 /\ Len(version) >= 1
      /\ path \in Seq(Parts)
  BY FilenameParts DEF ChartPackageFilenameFromNameVersion
<1>2. Len(name) + i \in Stops(path)
  BY <1>1 DEF Stops
<1>3. PICK last \in Stops(path) : \A j \in Stops(path) : j <= last
  <2>1. Stops(path) \in SUBSET Nat /\ Stops(path) # {}
    BY <1>2 DEF Stops
  <2>2. Len(path) \in Nat /\ \A j \in Stops(path) : j <= Len(path)
    BY <1>1 DEF Stops
  <2> QED
    BY <1>1, <2>1, <2>2, LastExists
<1>4. at = last /\ at > Len(name) + 1
  <2>1. Stops(path) \in SUBSET Nat
    BY DEF Stops
  <2>2. at = last
    BY <1>3, <2>1, FinalIs
  <2>3. Len(name) + i <= last
    BY <1>2, <1>3
  <2> QED
    BY <1>1, <2>1, <2>2, <2>3
<1>5. CASE path[at] = EmptyPart
  BY <1>2, <1>5 DEF GetExactChartNameVersion, Panic
<1>6. CASE path[at] # EmptyPart
  <2>1. GetExactChartNameVersion(path) = SplitAt(path, at)
    BY <1>2, <1>6 DEF GetExactChartNameVersion
  <2>2. at \in 2..Len(path)
    BY <1>3, <1>4 DEF Stops
  <2>3. Len(SubSeq(path, 1, at - 1)) = at - 1
    BY <1>1, <2>2
  <2>4. SubSeq(path, 1, at - 1) # name
    BY <1>1, <1>4, <2>2, <2>3
  <2> QED
    BY <2>1, <2>4 DEF SplitAt
<1> QED
  BY <1>5, <1>6
=============================================================================
