----------------------------- MODULE ChartNames -----------------------------
(***************************************************************************)
(* The name and the version of a chart, read in the name of its file:      *)
(* GetExactChartNameVersion of pkg/repo/chart.go.  A file name is the      *)
(* sequence of its parts between hyphens: that of version 1.0.0-rc.1 of    *)
(* "my-chart" is <<"my", "chart", "1.0.0", "rc.1">>.                       *)
(***************************************************************************)
EXTENDS Integers, Sequences

CONSTANTS Parts,     \* what stands between hyphens
          Numbers,   \* parts that begin with a digit
          EmptyPart  \* what stands between two hyphens in a row

ASSUME PartsAssumption ==
    /\ Numbers \subseteq Parts
    /\ EmptyPart \in Parts \ Numbers

(* Parts the loop stops at; the first character of an empty one is out of  *)
(* range.                                                                  *)
Stops(path) == {i \in 2..Len(path) : path[i] \in Numbers \cup {EmptyPart}}

(* The loop runs from the end.                                             *)
Final(S) == CHOOSE i \in S : \A j \in S : j <= i

Panic == <<>>

SplitAt(path, i) == <<SubSeq(path, 1, i - 1), SubSeq(path, i, Len(path))>>

(* The version begins with the last part that begins with a digit; there   *)
(* being none, it is the last part.                                        *)
GetExactChartNameVersion(path) ==
    LET at == Final(Stops(path))
    IN  IF Stops(path) = {} THEN SplitAt(path, Len(path))
        ELSE IF path[at] = EmptyPart THEN Panic
        ELSE SplitAt(path, at)

(* What the file of a version is called, less its extension.               *)
ChartPackageFilenameFromNameVersion(name, version) == name \o version
=============================================================================
