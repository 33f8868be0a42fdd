----------------------------- MODULE ChartReads -----------------------------
(***************************************************************************)
(* What the routes that read answer with, from the index of the tenant and *)
(* the files it has in storage (multitenant/handlers.go, api.go,           *)
(* storage.go).  An index maps the name of a chart to the versions it      *)
(* lists, newest first.                                                    *)
(***************************************************************************)
EXTENDS Integers, Sequences, FiniteSets

CONSTANTS NamesInOrder,  \* names of charts in the order of sort.Strings
          Prereleases,   \* versions the constraint "*" does not accept
          Accepts,       \* Accepts[v]: versions the constraint v accepts
          FileOf,        \* FileOf[<<name, version>>]: its package
          ObjectNames,   \* names of files that end in "tgz" or "prov"
          Archives,      \* packages Helm can load as a chart
          WithValues,    \* those that have a values.yaml
          MaxInt         \* the largest int

NoFile == ""

ASSUME FileAssumption ==
    /\ NamesInOrder \in Seq(STRING)
    /\ Archives \subseteq ObjectNames
    /\ {NoFile, "charts"} \cap ObjectNames = {}
    /\ MaxInt \in Nat

Nothing == [n \in {} |-> <<>>]

(* The status, the versions of charts and the file of an answer.           *)
Reply(status, listing, file) ==
    [status |-> status, listing |-> listing, file |-> file]

Refusal(status) == Reply(status, Nothing, NoFile)

(* Addition of ints.                                                       *)
Plus(a, b) == IF a + b > MaxInt THEN a + b - 2 * (MaxInt + 1) ELSE a + b
-----------------------------------------------------------------------------
(* The names of the index, sorted: the k-th has k names up to itself.      *)
Keys(index) ==
    LET at == {i \in DOMAIN NamesInOrder : NamesInOrder[i] \in DOMAIN index}
        UpTo(i) == {j \in at : j <= i}
    IN  [k \in 1..Cardinality(at) |->
            NamesInOrder[CHOOSE i \in at : Cardinality(UpTo(i)) = k]]

(* A page that ends after limit charts of the list.                        *)
BrokenGetAllCharts(index, offset, limit) ==
    LET keys == Keys(index)
        end == IF Len(keys) < limit THEN Len(keys) ELSE limit
    IN  IF offset = 0 /\ limit = -1 THEN index
        ELSE [n \in {keys[i] : i \in (offset + 1)..end} |-> index[n]]

(* The whole index, or its names from offset on, limit of them.            *)
GetAllCharts(index, offset, limit) ==
    LET keys == Keys(index)
        end == IF Len(keys) < Plus(offset, limit) THEN Len(keys)
                                                  ELSE Plus(offset, limit)
    IN  IF offset = 0 /\ limit = -1 THEN index
        ELSE [n \in {keys[i] : i \in (offset + 1)..end} |-> index[n]]

(* A query parameter is <<>> or <<n>>; a value that is no number is        *)
(* refused as a negative one is.                                           *)
GetAllChartsRequest(index, offset, limit) ==
    LET o == IF offset = <<>> THEN 0 ELSE offset[1]
        l == IF limit = <<>> THEN -1 ELSE limit[1]
    IN  IF o < 0 \/ (limit # <<>> /\ l <= 0) THEN Refusal(400)
        ELSE Reply(200, GetAllCharts(index, o, l), NoFile)

GetChartRequest(index, name) ==
    IF name \in DOMAIN index
    THEN Reply(200, [n \in {name} |-> index[n]], NoFile)
    ELSE Refusal(404)

(* Get of helm.sh/helm/v3/pkg/repo: the version itself when it is listed,  *)
(* or the first one it accepts as a constraint, if it is one; "" accepts   *)
(* every version that is not a pre-release.                                *)
Get(vs, version) ==
    LET exact == SelectSeq(vs, LAMBDA v : v = version)
        fit == SelectSeq(vs, LAMBDA v :
                   \/ version = "" /\ v \notin Prereleases
                   \/ version \in DOMAIN Accepts /\ v \in Accepts[version])
    IN  IF exact \o fit = <<>> THEN <<>> ELSE <<Head(exact \o fit)>>

(* <<>> or <<v>>; "latest" is no constraint at all.                        *)
GetChartVersion(index, name, version) ==
    IF name \notin DOMAIN index THEN <<>>
    ELSE Get(index[name], IF version = "latest" THEN "" ELSE version)

GetChartVersionRequest(index, name, version) ==
    LET found == GetChartVersion(index, name, version)
    IN  IF found = <<>> THEN Refusal(404)
        ELSE Reply(200, [n \in {name} |-> found], NoFile)

(* HEAD answers with the status alone.                                     *)
Head200(reply) == Reply(reply.status, Nothing, NoFile)
-----------------------------------------------------------------------------
(* An error of storage is taken for the absence of the file.               *)
GetStorageObject(stored, file) ==
    IF file \notin ObjectNames THEN Refusal(500)
    ELSE IF file \notin stored THEN Refusal(404)
    ELSE Reply(200, Nothing, file)

(* The segments of URLs[0]: "charts" and the file, after --chart-url.      *)
UrlOf(chartURL, name, version) ==
    chartURL \o <<"charts", FileOf[<<name, version>>]>>

(* The file of another version than the one described.                     *)
BrokenGetChartFileName(index, chartURL, name, version) ==
    LET found == GetChartVersion(index, name, "latest")
    IN  IF found = <<>> THEN NoFile
        ELSE UrlOf(chartURL, name, found[1])[2]

(* What follows the first slash of the URL, NoFile without a version.      *)
GetChartFileName(index, chartURL, name, version) ==
    LET found == GetChartVersion(index, name, version)
    IN  IF found = <<>> THEN NoFile
        ELSE UrlOf(chartURL, name, found[1])[2]

(* The package of a version, loaded by Helm.                               *)
LoadedPackage(index, stored, chartURL, name, version) ==
    LET file == GetChartFileName(index, chartURL, name, version)
        object == GetStorageObject(stored, file)
    IN  IF GetChartVersion(index, name, version) = <<>> THEN Refusal(404)
        ELSE IF object.status = 200 /\ file \notin Archives THEN Refusal(500)
        ELSE object

TemplatesRequest(index, stored, chartURL, name, version) ==
    LoadedPackage(index, stored, chartURL, name, version)

ValuesRequest(index, stored, chartURL, name, version) ==
    LET loaded == LoadedPackage(index, stored, chartURL, name, version)
    IN  IF loaded.status = 200 /\ loaded.file \notin WithValues
        THEN Refusal(404) ELSE loaded

(* getArtifactHubYml: the tenant has an id of its own.                     *)
ArtifactHubRequest(ids, repo) ==
    IF repo \in ids THEN Reply(200, Nothing, "artifacthub-repo.yml")
    ELSE Refusal(404)
=============================================================================
