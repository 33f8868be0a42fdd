--------------------------- MODULE RequestsProofs ---------------------------
(***************************************************************************)
(* Theorems about Requests and the router, for every configuration, tenant *)
(* and content.                                                            *)
(***************************************************************************)
EXTENDS Requests, SequenceTheorems, FiniteSetTheorems,
        WellFoundedInduction, TLAPS

(* Every path there is.                                                    *)
AllPaths ==
    {RootPath, InfoPath, HealthPath, HubPath, StaticPath, IndexPath,
     FilePath, ListPath, ProvPath, ChartPath, VersionPath, TemplatesPath,
     ValuesPath}

(* Paths of one segment, of a tenant's files, and of the API.              *)
Single(path) ==
    /\ Len(path) = 2
    /\ path[2] \in {Empty, "info", "health", "artifacthub-repo.yml",
                    "static"}

OfFiles(path) ==
    /\ path[2] = ":repo"
    /\ \/ Len(path) = 3 /\ path[3] = "index.yaml"
       \/ Len(path) = 4 /\ path[3] = "charts" /\ path[4] = ":filename"

OfApi(path) ==
    /\ path[2] = "api"
    /\ path[3] = ":repo"
    /\ Len(path) \in 4..7
    /\ path[4] = "charts" \/ (path[4] = "prov" /\ Len(path) = 4)
    /\ Len(path) > 4 => path[5] = ":name"
    /\ Len(path) > 5 => path[6] = ":version"
    /\ Len(path) > 6 => path[7] \in {"templates", "values"}

LEMMA EmptyIsNoWord ==
    Empty \notin {"api", "charts", "prov", "templates", "values", "info",
                  "health", "static", "index.yaml", "artifacthub-repo.yml",
                  ":repo", ":name", ":version", ":filename", "GET", "HEAD",
                  "POST", "DELETE", "pull", "push"}
BY DEF Empty

LEMMA PathShapes ==
  ASSUME NEW path \in AllPaths
  PROVE  /\ path \in Seq(Words \cup Blanks)
         /\ path[1] = Empty
         /\ Single(path) \/ OfFiles(path) \/ OfApi(path)
<1> DEFINE S == Words \cup Blanks
<1>1. /\ {Empty, "api", "charts", "prov", "templates", "values", "info",
          "health", "static", "index.yaml", "artifacthub-repo.yml"}
             \subseteq S
      /\ {":repo", ":name", ":version", ":filename"} \subseteq S
  BY DEF Words, Blanks
<1> HIDE DEF S
<1> USE DEF RootPath, InfoPath, HealthPath, HubPath, StaticPath, IndexPath,
            FilePath, ListPath, ProvPath, ChartPath, VersionPath,
            TemplatesPath, ValuesPath
<1>2. path \in Seq(S)
  <2>1. /\ \A a, b \in S : <<a, b>> \in Seq(S)
        /\ \A a, b, c \in S : <<a, b, c>> \in Seq(S)
        /\ \A a, b, c, d \in S : <<a, b, c, d>> \in Seq(S)
        /\ \A a, b, c, d, e \in S : <<a, b, c, d, e>> \in Seq(S)
        /\ \A a, b, c, d, e, f \in S : <<a, b, c, d, e, f>> \in Seq(S)
        /\ \A a, b, c, d, e, f, g \in S : <<a, b, c, d, e, f, g>> \in Seq(S)
    OBVIOUS
  <2>2. /\ {RootPath, InfoPath, HealthPath, HubPath, StaticPath}
               \subseteq Seq(S)
        /\ IndexPath \in Seq(S)
        /\ {FilePath, ListPath, ProvPath} \subseteq Seq(S)
        /\ ChartPath \in Seq(S)
        /\ VersionPath \in Seq(S)
        /\ {TemplatesPath, ValuesPath} \subseteq Seq(S)
    BY <1>1, <2>1
  <2> HIDE DEF RootPath, InfoPath, HealthPath, HubPath, StaticPath, IndexPath,
               FilePath, ListPath, ProvPath, ChartPath, VersionPath,
               TemplatesPath, ValuesPath
  <2>3. QED
    BY <2>2 DEF AllPaths
<1>3. path[1] = Empty
  BY DEF AllPaths
<1>4. Single(path) \/ OfFiles(path) \/ OfApi(path)
  BY DEF AllPaths, Single, OfFiles, OfApi
<1>5. QED
  BY <1>2, <1>3, <1>4 DEF S

(* A path is known by its shape.                                           *)
LEMMA SamePath ==
  ASSUME NEW p \in AllPaths, NEW r \in AllPaths,
         Len(p) = Len(r), p[2] = r[2],
         Len(p) > 3 => p[4] = r[4],
         Len(p) > 6 => p[7] = r[7]
  PROVE  p = r
<1>1. /\ p \in Seq(Words \cup Blanks) /\ r \in Seq(Words \cup Blanks)
      /\ p[1] = Empty /\ r[1] = Empty
      /\ Single(p) \/ OfFiles(p) \/ OfApi(p)
      /\ Single(r) \/ OfFiles(r) \/ OfApi(r)
  BY PathShapes
<1>2. Len(p) \in 2..7
  <2>1. Single(p) => Len(p) = 2
    BY DEF Single
  <2>2. OfFiles(p) => Len(p) = 3 \/ Len(p) = 4
    BY DEF OfFiles
  <2>3. OfApi(p) => Len(p) \in 4..7
    BY DEF OfApi
  <2> DEFINE n == Len(p)
  <2>4. n = 2 \/ (n = 3 \/ n = 4) \/ n \in 4..7
    BY <1>1, <2>1, <2>2, <2>3, Zenon
  <2> HIDE DEF n
  <2>5. n \in 2..7
    BY <2>4
  <2>6. QED
    BY <2>5 DEF n
<1>3. ASSUME NEW i \in 1..Len(p)
      PROVE  p[i] = r[i]
  <2>1. i \in 1..7
    BY <1>2
  <2>2. i = 1 \/ i = 2 \/ i = 3 \/ i = 4 \/ i = 5 \/ i = 6 \/ i = 7
    BY <2>1
  <2>3. QED
    BY <1>1, <2>2, EmptyIsNoWord DEF Single, OfFiles, OfApi
<1>4. QED
  BY <1>1, <1>3, SeqEqual
-----------------------------------------------------------------------------
(* What a route is made of: its method and its path say what it allows.    *)
ActionOf(method, path) ==
    IF path \in {InfoPath, HealthPath} THEN Empty
    ELSE IF method \in {"POST", "DELETE"} THEN "push" ELSE "pull"

AllRoutes ==
    {Route(method, path, ActionOf(method, path)) :
        method \in {"GET", "HEAD", "POST", "DELETE"}, path \in AllPaths}

LEMMA RouteFields ==
  ASSUME NEW r \in AllRoutes
  PROVE  /\ r.method \in {"GET", "HEAD", "POST", "DELETE"}
         /\ r.path \in AllPaths
         /\ r = Route(r.method, r.path, ActionOf(r.method, r.path))
BY DEF AllRoutes, Route

LEMMA RouteIn ==
  ASSUME NEW path \in AllPaths,
         NEW method \in {"GET", "HEAD", "POST", "DELETE"}
  PROVE  LET r == Route(method, path, ActionOf(method, path))
         IN  r \in AllRoutes /\ r.method = method /\ r.path = path
BY DEF AllRoutes, Route

Once(s) == \A i, j \in 1..Len(s) : s[i] = s[j] => i = j

LEMMA OnceConcat ==
  ASSUME NEW A, NEW B, A \cap B = {},
         NEW s \in Seq(A), NEW t \in Seq(B), Once(s), Once(t)
  PROVE  s \o t \in Seq(A \cup B) /\ Once(s \o t)
<1>1. s \in Seq(A \cup B) /\ t \in Seq(A \cup B)
  BY SeqMonotonic
<1>2. /\ s \o t \in Seq(A \cup B)
      /\ Len(s \o t) = Len(s) + Len(t)
      /\ \A i \in 1..(Len(s) + Len(t)) :
             (s \o t)[i] = IF i <= Len(s) THEN s[i] ELSE t[i - Len(s)]
  BY <1>1, ConcatProperties
<1>3. ASSUME NEW i \in 1..Len(s \o t), NEW j \in 1..Len(s \o t),
             (s \o t)[i] = (s \o t)[j]
      PROVE  i = j
  <2>1. Len(s) \in Nat /\ Len(t) \in Nat
    OBVIOUS
  <2>2. CASE i <= Len(s) /\ j <= Len(s)
    BY <1>2, <1>3, <2>1, <2>2 DEF Once
  <2>3. CASE i > Len(s) /\ j > Len(s)
    <3>1. i - Len(s) \in 1..Len(t) /\ j - Len(s) \in 1..Len(t)
      BY <1>2, <2>1, <2>3
    <3>2. t[i - Len(s)] = t[j - Len(s)]
      BY <1>2, <1>3, <2>1, <2>3
    <3>3. i - Len(s) = j - Len(s)
      BY <3>1, <3>2 DEF Once
    <3>4. QED
      BY <2>1, <3>3
  <2>4. CASE i <= Len(s) /\ j > Len(s)
    <3>1. (s \o t)[i] \in A /\ (s \o t)[j] \in B
      BY <1>2, <2>1, <2>4
    <3>2. QED
      BY <1>3, <3>1
  <2>5. CASE i > Len(s) /\ j <= Len(s)
    <3>1. (s \o t)[j] \in A /\ (s \o t)[i] \in B
      BY <1>2, <2>1, <2>5
    <3>2. QED
      BY <1>3, <3>1
  <2>6. QED
    BY <1>2, <2>1, <2>2, <2>3, <2>4, <2>5
<1>4. QED
  BY <1>2, <1>3 DEF Once

(* The blocks Routes is put together from.                                 *)
InfoSet == {r \in AllRoutes : /\ r.path[2] \in {Empty, "info", "health"}
                             /\ r.method = "GET"}
RepoSet == {r \in AllRoutes : r.path[2] = ":repo"}
HubSet == {r \in AllRoutes : /\ r.path[2] = "artifacthub-repo.yml"
                            /\ r.method = "GET"}
StaticSet == {r \in AllRoutes : r.path[2] = "static" /\ r.method = "GET"}
ApiSet == {r \in AllRoutes : r.path[2] = "api" /\ r.method # "DELETE"}
DeleteSet == {r \in AllRoutes : r.path[2] = "api" /\ r.method = "DELETE"}

LEMMA PathsApart ==
  /\ RootPath[2] = Empty /\ InfoPath[2] = "info" /\ HealthPath[2] = "health"
  /\ HubPath[2] = "artifacthub-repo.yml" /\ StaticPath[2] = "static"
  /\ \A p \in {RootPath, InfoPath, HealthPath, HubPath, StaticPath} :
         Len(p) = 2
  /\ \A p \in {IndexPath, FilePath} : p[2] = ":repo"
  /\ Len(IndexPath) = 3 /\ Len(FilePath) = 4
  /\ \A p \in {ListPath, ProvPath, ChartPath, VersionPath, TemplatesPath,
               ValuesPath} : p[2] = "api"
  /\ Len(ListPath) = 4 /\ Len(ProvPath) = 4 /\ Len(ChartPath) = 5
  /\ Len(VersionPath) = 6 /\ Len(TemplatesPath) = 7 /\ Len(ValuesPath) = 7
  /\ ListPath[4] = "charts" /\ ProvPath[4] = "prov"
  /\ TemplatesPath[7] = "templates" /\ ValuesPath[7] = "values"
BY DEF RootPath, InfoPath, HealthPath, HubPath, StaticPath, IndexPath,
       FilePath, ListPath, ProvPath, ChartPath, VersionPath, TemplatesPath,
       ValuesPath

LEMMA Blocks ==
  /\ ServerInfoRoutes \in Seq(InfoSet) /\ Once(ServerInfoRoutes)
  /\ HelmChartRepositoryRoutes \in Seq(RepoSet)
  /\ Once(HelmChartRepositoryRoutes)
  /\ ArtifactHubRoutes \in Seq(HubSet) /\ Once(ArtifactHubRoutes)
  /\ StaticRoutes \in Seq(StaticSet) /\ Once(StaticRoutes)
  /\ ChartManipulationRoutes \in Seq(ApiSet) /\ Once(ChartManipulationRoutes)
  /\ DeleteRoutes \in Seq(DeleteSet) /\ Once(DeleteRoutes)
<1>0. AllPaths = {RootPath, InfoPath, HealthPath, HubPath, StaticPath,
                  IndexPath, FilePath, ListPath, ProvPath, ChartPath,
                  VersionPath, TemplatesPath, ValuesPath}
  BY DEF AllPaths
<1> USE EmptyIsNoWord, PathsApart
<1>a. ASSUME NEW path \in AllPaths,
             NEW method \in {"GET", "HEAD", "POST", "DELETE"},
             NEW action, action = ActionOf(method, path)
      PROVE  LET r == Route(method, path, action)
             IN  r \in AllRoutes /\ r.method = method /\ r.path = path
  BY <1>a, RouteIn
<1>1. ServerInfoRoutes \in Seq(InfoSet) /\ Once(ServerInfoRoutes)
  <2> DEFINE a == Route("GET", RootPath, "pull")
             b == Route("GET", InfoPath, Empty)
             d == Route("GET", HealthPath, Empty)
  <2>1. a \in InfoSet /\ a.path = RootPath
    BY <1>0, <1>a DEF ActionOf, InfoSet
  <2>2. b \in InfoSet /\ b.path = InfoPath
    BY <1>0, <1>a DEF ActionOf, InfoSet
  <2>3. d \in InfoSet /\ d.path = HealthPath
    BY <1>0, <1>a DEF ActionOf, InfoSet
  <2>4. ServerInfoRoutes = <<a, b, d>>
    BY DEF ServerInfoRoutes
  <2> HIDE DEF a, b, d
  <2>5. a # b /\ a # d /\ b # d
    BY <2>1, <2>2, <2>3
  <2>6. QED
    BY <2>1, <2>2, <2>3, <2>4, <2>5 DEF Once
<1>2. /\ HelmChartRepositoryRoutes \in Seq(RepoSet)
      /\ Once(HelmChartRepositoryRoutes)
  <2> DEFINE a == Route("GET", IndexPath, "pull")
             b == Route("HEAD", IndexPath, "pull")
             d == Route("GET", FilePath, "pull")
  <2>1. a \in RepoSet /\ a.path = IndexPath /\ a.method = "GET"
    BY <1>0, <1>a DEF ActionOf, RepoSet
  <2>2. b \in RepoSet /\ b.path = IndexPath /\ b.method = "HEAD"
    BY <1>0, <1>a DEF ActionOf, RepoSet
  <2>3. d \in RepoSet /\ d.path = FilePath
    BY <1>0, <1>a DEF ActionOf, RepoSet
  <2>4. HelmChartRepositoryRoutes = <<a, b, d>>
    BY DEF HelmChartRepositoryRoutes
  <2> HIDE DEF a, b, d
  <2>5. a # b /\ a # d /\ b # d
    BY <2>1, <2>2, <2>3
  <2>6. QED
    BY <2>1, <2>2, <2>3, <2>4, <2>5 DEF Once
<1>3. ArtifactHubRoutes \in Seq(HubSet) /\ Once(ArtifactHubRoutes)
  <2>1. Route("GET", HubPath, "pull") \in HubSet
    BY <1>0, <1>a DEF ActionOf, HubSet
  <2>2. QED
    BY <2>1 DEF ArtifactHubRoutes, Once
<1>4. StaticRoutes \in Seq(StaticSet) /\ Once(StaticRoutes)
  <2>1. Route("GET", StaticPath, "pull") \in StaticSet
    BY <1>0, <1>a DEF ActionOf, StaticSet
  <2>2. QED
    BY <2>1 DEF StaticRoutes, Once
<1>5. /\ ChartManipulationRoutes \in Seq(ApiSet)
      /\ Once(ChartManipulationRoutes)
  <2> DEFINE r1 == Route("GET", ListPath, "pull")
             r2 == Route("HEAD", ChartPath, "pull")
             r3 == Route("GET", ChartPath, "pull")
             r4 == Route("HEAD", VersionPath, "pull")
             r5 == Route("GET", VersionPath, "pull")
             r6 == Route("GET", TemplatesPath, "pull")
             r7 == Route("GET", ValuesPath, "pull")
             r8 == Route("POST", ListPath, "push")
             r9 == Route("POST", ProvPath, "push")
  <2>a. ASSUME NEW path \in {ListPath, ProvPath, ChartPath, VersionPath,
                             TemplatesPath, ValuesPath},
               NEW method \in {"GET", "HEAD", "POST"},
               NEW action,
               action = IF method = "POST" THEN "push" ELSE "pull"
        PROVE  LET r == Route(method, path, action)
               IN  r \in ApiSet /\ r.method = method /\ r.path = path
    <3>1. action = ActionOf(method, path) /\ path \in AllPaths
      BY <1>0, <2>a DEF ActionOf
    <3>2. QED
      BY <1>a, <3>1 DEF ApiSet
  <2>1. r1 \in ApiSet /\ r1.method = "GET" /\ r1.path = ListPath
    BY <2>a
  <2>2. r2 \in ApiSet /\ r2.method = "HEAD" /\ r2.path = ChartPath
    BY <2>a
  <2>3. r3 \in ApiSet /\ r3.method = "GET" /\ r3.path = ChartPath
    BY <2>a
  <2>4. r4 \in ApiSet /\ r4.method = "HEAD" /\ r4.path = VersionPath
    BY <2>a
  <2>5. r5 \in ApiSet /\ r5.method = "GET" /\ r5.path = VersionPath
    BY <2>a
  <2>6. r6 \in ApiSet /\ r6.method = "GET" /\ r6.path = TemplatesPath
    BY <2>a
  <2>7. r7 \in ApiSet /\ r7.method = "GET" /\ r7.path = ValuesPath
    BY <2>a
  <2>8. r8 \in ApiSet /\ r8.method = "POST" /\ r8.path = ListPath
    BY <2>a
  <2>9. r9 \in ApiSet /\ r9.method = "POST" /\ r9.path = ProvPath
    BY <2>a
  <2>10. ChartManipulationRoutes = <<r1, r2, r3, r4, r5, r6, r7, r8, r9>>
    BY DEF ChartManipulationRoutes
  <2> HIDE DEF r1, r2, r3, r4, r5, r6, r7, r8, r9
  <2>11. /\ ChartManipulationRoutes \in Seq(ApiSet)
         /\ Len(ChartManipulationRoutes) = 9
    BY <2>1, <2>2, <2>3, <2>4, <2>5, <2>6, <2>7, <2>8, <2>9, <2>10
  <2>12. \A i \in 1..9 : i = 1 \/ i = 2 \/ i = 3 \/ i = 4 \/ i = 5 \/ i = 6
                           \/ i = 7 \/ i = 8 \/ i = 9
    OBVIOUS
  <2>13. /\ ListPath # ProvPath /\ TemplatesPath # ValuesPath
         /\ {ListPath, ProvPath} \cap {ChartPath, VersionPath, TemplatesPath,
                                      ValuesPath} = {}
         /\ ChartPath \notin {VersionPath, TemplatesPath, ValuesPath}
         /\ VersionPath \notin {TemplatesPath, ValuesPath}
    OBVIOUS
  <2>14. /\ r1 \notin {r2, r3, r4, r5, r6, r7, r8, r9}
         /\ r2 \notin {r3, r4, r5, r6, r7, r8, r9}
         /\ r3 \notin {r4, r5, r6, r7, r8, r9}
         /\ r4 \notin {r5, r6, r7, r8, r9}
         /\ r5 \notin {r6, r7, r8, r9}
         /\ r6 \notin {r7, r8, r9}
         /\ r7 \notin {r8, r9} /\ r8 # r9
    <3> HIDE PathsApart, EmptyIsNoWord
    <3>1. QED
      BY <2>1, <2>2, <2>3, <2>4, <2>5, <2>6, <2>7, <2>8, <2>9, <2>13
  <2>15. Once(ChartManipulationRoutes)
    BY <2>10, <2>11, <2>12, <2>14 DEF Once
  <2>16. QED
    BY <2>11, <2>15
<1>6. DeleteRoutes \in Seq(DeleteSet) /\ Once(DeleteRoutes)
  <2>1. Route("DELETE", VersionPath, "push") \in DeleteSet
    BY <1>0, <1>a DEF ActionOf, DeleteSet
  <2>2. QED
    BY <2>1 DEF DeleteRoutes, Once
<1>7. QED
  BY <1>1, <1>2, <1>3, <1>4, <1>5, <1>6

(* The routes of a server: each once, "static" with a web template, and    *)
(* those of one segment for GET alone.                                     *)
LEMMA RoutesOnce ==
  ASSUME NEW c
  PROVE  /\ Routes(c) \in Seq(AllRoutes)
         /\ Once(Routes(c))
         /\ \A i \in 1..Len(Routes(c)) :
                LET r == Routes(c)[i]
                IN  /\ r.path[2] = "static" => c.webTemplate
                    /\ r.path[2] \notin {":repo", "api"} => r.method = "GET"
<1> DEFINE If(b, s) == IF b THEN s ELSE <<>>
           s1 == ServerInfoRoutes \o HelmChartRepositoryRoutes
           s2 == s1 \o If(c.artifactHub, ArtifactHubRoutes)
           s3 == s2 \o If(c.webTemplate, StaticRoutes)
           s4 == s3 \o If(c.apiEnabled, ChartManipulationRoutes)
           s5 == s4 \o If(c.apiEnabled /\ ~c.disableDelete, DeleteRoutes)
           T == IF c.webTemplate THEN StaticSet ELSE {}
           U1 == InfoSet \cup RepoSet
           U2 == U1 \cup HubSet
           U3 == U2 \cup T
           U4 == U3 \cup ApiSet
           U5 == U4 \cup DeleteSet
<1>1. Routes(c) = s5
  BY DEF Routes
<1>2. \A S : <<>> \in Seq(S) /\ Once(<<>>)
  BY DEF Once
<1>3. /\ InfoSet \cap RepoSet = {} /\ U1 \cap HubSet = {} /\ U2 \cap T = {}
      /\ U3 \cap ApiSet = {} /\ U4 \cap DeleteSet = {}
  BY EmptyIsNoWord
     DEF InfoSet, RepoSet, HubSet, StaticSet, ApiSet, DeleteSet
<1>4. /\ If(c.artifactHub, ArtifactHubRoutes) \in Seq(HubSet)
      /\ Once(If(c.artifactHub, ArtifactHubRoutes))
      /\ If(c.webTemplate, StaticRoutes) \in Seq(T)
      /\ Once(If(c.webTemplate, StaticRoutes))
      /\ If(c.apiEnabled, ChartManipulationRoutes) \in Seq(ApiSet)
      /\ Once(If(c.apiEnabled, ChartManipulationRoutes))
      /\ If(c.apiEnabled /\ ~c.disableDelete, DeleteRoutes) \in Seq(DeleteSet)
      /\ Once(If(c.apiEnabled /\ ~c.disableDelete, DeleteRoutes))
  BY <1>2, Blocks
<1>5. U5 \subseteq AllRoutes
  BY DEF InfoSet, RepoSet, HubSet, StaticSet, ApiSet, DeleteSet
<1>6. \A r \in U5 :
          /\ r.path[2] = "static" => c.webTemplate
          /\ r.path[2] \notin {":repo", "api"} => r.method = "GET"
  BY EmptyIsNoWord
     DEF InfoSet, RepoSet, HubSet, StaticSet, ApiSet, DeleteSet
<1> HIDE DEF If, T
<1>7. s1 \in Seq(U1) /\ Once(s1)
  BY <1>3, Blocks, OnceConcat
<1>8. s2 \in Seq(U2) /\ Once(s2)
  <2> HIDE DEF s1, U1
  <2>1. QED
    BY <1>3, <1>4, <1>7, OnceConcat
<1>9. s3 \in Seq(U3) /\ Once(s3)
  <2> HIDE DEF s2, U2
  <2>1. QED
    BY <1>3, <1>4, <1>8, OnceConcat
<1>10. s4 \in Seq(U4) /\ Once(s4)
  <2> HIDE DEF s3, U3
  <2>1. QED
    BY <1>3, <1>4, <1>9, OnceConcat
<1>11. s5 \in Seq(U5) /\ Once(s5)
  <2> HIDE DEF s4, U4
  <2>1. QED
    BY <1>3, <1>4, <1>10, OnceConcat
<1> HIDE DEF s5, U5
<1>12. s5 \in Seq(AllRoutes)
  BY <1>5, <1>11, SeqMonotonic
<1>13. \A i \in 1..Len(s5) : s5[i] \in U5
  BY <1>11
<1>14. QED
  BY <1>1, <1>6, <1>11, <1>12, <1>13

(* The first of some positions is one of them.                             *)
LEMMA FirstOf ==
  ASSUME NEW S \in SUBSET Nat, S # {}
  PROVE  First(S) \in S /\ \A j \in S : First(S) <= j
<1> DEFINE R == {ss \in Nat \X Nat : ss[1] < ss[2]}
<1>1. PICK i \in S : \A j \in S : <<j, i>> \notin R
  <2>1. R = OpToRel(<, Nat)
    BY DEF OpToRel
  <2>2. IsWellFoundedOn(R, Nat)
    BY <2>1, NatLessThanWellFounded
  <2> HIDE DEF R
  <2>3. QED
    BY <2>2, WFMin
<1>2. ASSUME NEW j \in S
      PROVE  i <= j
  <2>1. <<j, i>> \notin R
    BY <1>1
  <2>2. i \in Nat /\ j \in Nat /\ <<j, i>> \in Nat \X Nat
    OBVIOUS
  <2>3. ~(j < i)
    BY <2>1, <2>2
  <2>4. QED
    BY <2>2, <2>3
<1>3. QED
  BY <1>2 DEF First

LEMMA FirstIs ==
  ASSUME NEW S \in SUBSET Nat, NEW i \in S, \A j \in S : i <= j
  PROVE  First(S) = i
<1>1. First(S) \in S /\ First(S) <= i
  BY FirstOf
<1>2. i <= First(S) /\ i \in Nat /\ First(S) \in Nat
  BY <1>1
<1>3. QED
  BY <1>1, <1>2
-----------------------------------------------------------------------------
(* A sequence of segments without the one after the first b.               *)
LEMMA Spliced ==
  ASSUME NEW S, NEW s \in Seq(S), NEW b \in 1..(Len(s) - 1),
         NEW w, w = SubSeq(s, 1, b) \o SubSeq(s, b + 2, Len(s))
  PROVE  /\ w \in Seq(S)
         /\ Len(w) = Len(s) - 1
         /\ \A i \in 1..(Len(s) - 1) :
                w[i] = IF i <= b THEN s[i] ELSE s[i + 1]
<1> DEFINE x == SubSeq(s, 1, b)
           y == SubSeq(s, b + 2, Len(s))
<1>0. Len(s) \in Nat /\ b \in Int
  OBVIOUS
<1>1. x \in Seq(S) /\ Len(x) = b /\ \A i \in 1..b : x[i] = s[i]
  <2>1. \A i \in 1..b : s[i] \in S
    BY <1>0
  <2>2. QED
    BY <1>0, <2>1, SubSeqProperties
<1>2. /\ y \in Seq(S)
      /\ Len(y) = Len(s) - b - 1
      /\ \A i \in 1..(Len(s) - b - 1) : y[i] = s[i + b + 1]
  <2>1. \A i \in (b + 2)..Len(s) : s[i] \in S
    BY <1>0
  <2>2. /\ y \in Seq(S)
        /\ Len(y) = IF b + 2 <= Len(s) THEN Len(s) - (b + 2) + 1 ELSE 0
        /\ \A i \in 1..(Len(s) - (b + 2) + 1) : y[i] = s[(b + 2) + i - 1]
    BY <1>0, <2>1, SubSeqProperties
  <2>3. QED
    BY <1>0, <2>2
<1> HIDE DEF x, y
<1>3. /\ w \in Seq(S)
      /\ Len(w) = Len(x) + Len(y)
      /\ \A i \in 1..(Len(x) + Len(y)) :
             w[i] = IF i <= Len(x) THEN x[i] ELSE y[i - Len(x)]
  <2>1. w = x \o y
    BY DEF x, y
  <2>2. QED
    BY <1>1, <1>2, <2>1, ConcatProperties
<1>4. QED
  BY <1>0, <1>1, <1>2, <1>3

LEMMA RepoAt ==
  ASSUME NEW path \in AllPaths
  PROVE  /\ Single(path) => BeforeRepo(path) = Len(path)
         /\ OfFiles(path) => BeforeRepo(path) = 1
         /\ OfApi(path) => BeforeRepo(path) = 2
<1> DEFINE at == {i \in DOMAIN path : path[i] = ":repo"}
<1>1. /\ path \in Seq(Words \cup Blanks)
      /\ path[1] = Empty
  BY PathShapes
<1>2. DOMAIN path = 1..Len(path)
  BY <1>1
<1>3. ASSUME Single(path)
      PROVE  BeforeRepo(path) = Len(path)
  <2>1. \A i \in 1..2 : path[i] # ":repo"
    <3>1. \A i \in 1..2 : i = 1 \/ i = 2
      OBVIOUS
    <3>2. QED
      BY <1>1, <1>3, <3>1, EmptyIsNoWord DEF Single
  <2>2. at = {}
    BY <1>2, <1>3, <2>1 DEF Single
  <2>3. QED
    BY <2>2 DEF BeforeRepo
<1>4. ASSUME OfFiles(path)
      PROVE  BeforeRepo(path) = 1
  <2>1. at \in SUBSET Nat /\ 2 \in at
    BY <1>2, <1>4 DEF OfFiles
  <2>2. \A j \in at : 2 <= j
    BY <1>1, <1>2, EmptyIsNoWord
  <2>3. First(at) = 2
    BY <2>1, <2>2, FirstIs
  <2>4. QED
    BY <2>1, <2>3 DEF BeforeRepo
<1>5. ASSUME OfApi(path)
      PROVE  BeforeRepo(path) = 2
  <2>1. at \in SUBSET Nat /\ 3 \in at
    BY <1>2, <1>5 DEF OfApi
  <2>2. \A j \in at : 3 <= j
    <3>1. \A j \in Nat : 3 <= j \/ j = 2 \/ j = 1 \/ j = 0
      OBVIOUS
    <3>2. QED
      BY <1>1, <1>2, <1>5, <3>1, EmptyIsNoWord DEF OfApi
  <2>3. First(at) = 3
    BY <2>1, <2>2, FirstIs
  <2>4. QED
    BY <2>1, <2>3 DEF BeforeRepo
<1>6. QED
  BY <1>3, <1>4, <1>5

(* A path without the place of the tenant.                                 *)
LEMMA BarePath ==
  ASSUME NEW path \in AllPaths
  PROVE  LET w == WithoutRepo(path)
         IN  /\ w \in Seq(Words \cup Blanks)
             /\ w[1] = Empty
             /\ Single(path) => w = path
             /\ ~Single(path) => Len(w) = Len(path) - 1
             /\ OfFiles(path) => \A i \in 2..Len(w) : w[i] = path[i + 1]
             /\ OfApi(path) => /\ w[2] = "api"
                               /\ \A i \in 3..Len(w) : w[i] = path[i + 1]
<1> DEFINE S == Words \cup Blanks
           b == BeforeRepo(path)
           w == SubSeq(path, 1, b) \o SubSeq(path, b + 2, Len(path))
<1>1. path \in Seq(S) /\ path[1] = Empty /\ Len(path) \in Nat
  BY PathShapes
<1>2. w = WithoutRepo(path)
  BY DEF WithoutRepo
<1> HIDE DEF S, w
<1>3. CASE Single(path)
  <2>1. b = Len(path)
    BY <1>3, RepoAt
  <2>2. SubSeq(path, 1, b) = path
    BY <1>1, <2>1, SubSeqFull
  <2>3. SubSeq(path, b + 2, Len(path)) = <<>>
    BY <1>1, <2>1, SubSeqEmpty
  <2>4. w = path
    BY <1>1, <2>2, <2>3, ConcatEmptySeq DEF w
  <2>5. ~OfFiles(path) /\ ~OfApi(path)
    BY <1>3, EmptyIsNoWord DEF Single, OfFiles, OfApi
  <2>6. QED
    BY <1>1, <1>2, <1>3, <2>4, <2>5 DEF S
<1>4. CASE OfFiles(path)
  <2>1. b = 1 /\ Len(path) \in 3..4
    BY <1>4, RepoAt DEF OfFiles
  <2>2. /\ w \in Seq(S)
        /\ Len(w) = Len(path) - 1
        /\ \A i \in 1..(Len(path) - 1) :
               w[i] = IF i <= b THEN path[i] ELSE path[i + 1]
    <3>1. b \in 1..(Len(path) - 1)
      BY <2>1
    <3>2. QED
      BY <1>1, <3>1, Spliced DEF w
  <2>3. ~Single(path) /\ ~OfApi(path)
    BY <1>4 DEF Single, OfFiles, OfApi
  <2>4. QED
    BY <1>1, <1>2, <2>1, <2>2, <2>3 DEF S
<1>5. CASE OfApi(path)
  <2>1. b = 2 /\ Len(path) \in 4..7
    BY <1>5, RepoAt DEF OfApi
  <2>2. /\ w \in Seq(S)
        /\ Len(w) = Len(path) - 1
        /\ \A i \in 1..(Len(path) - 1) :
               w[i] = IF i <= b THEN path[i] ELSE path[i + 1]
    <3>1. b \in 1..(Len(path) - 1)
      BY <2>1
    <3>2. QED
      BY <1>1, <3>1, Spliced DEF w
  <2>3. ~Single(path) /\ ~OfFiles(path) /\ path[2] = "api"
    BY <1>5 DEF Single, OfFiles, OfApi
  <2>4. QED
    BY <1>1, <1>2, <2>1, <2>2, <2>3 DEF S
<1>6. QED
  BY <1>3, <1>4, <1>5, PathShapes

(* RouteMatches, for a URL whose tenant was taken out.                     *)
Fits(path, q) ==
    LET w == WithoutRepo(path)
    IN  /\ Len(w) = Len(q)
        /\ \A i \in DOMAIN w : IsParam(w[i]) \/ w[i] = q[i]

(* What a URL that fits a path tells of the path.                          *)
LEMMA FitShape ==
  ASSUME NEW path \in AllPaths, NEW q, Fits(path, q)
  PROVE  \/ Single(path) /\ Len(q) = 2 /\ q[2] = path[2]
         \/ OfFiles(path) /\ Len(q) = Len(path) - 1 /\ q[2] = path[3]
         \/ /\ OfApi(path)
            /\ Len(q) = Len(path) - 1
            /\ q[2] = "api"
            /\ q[3] = path[4]
            /\ Len(path) = 7 => q[6] = path[7]
<1> DEFINE w == WithoutRepo(path)
<1>1. /\ w \in Seq(Words \cup Blanks)
      /\ w[1] = Empty
      /\ Single(path) => w = path
      /\ ~Single(path) => Len(w) = Len(path) - 1
      /\ OfFiles(path) => \A i \in 2..Len(w) : w[i] = path[i + 1]
      /\ OfApi(path) => /\ w[2] = "api"
                        /\ \A i \in 3..Len(w) : w[i] = path[i + 1]
  BY BarePath
<1>2. Len(w) = Len(q) /\ \A i \in 1..Len(w) : IsParam(w[i]) \/ w[i] = q[i]
  BY <1>1 DEF Fits
<1> HIDE DEF w
<1>3. \A s \in {Empty, "info", "health", "artifacthub-repo.yml", "static",
                "index.yaml", "charts", "prov", "api", "templates",
                "values"} : ~IsParam(s)
  BY EmptyIsNoWord DEF IsParam, Blanks
<1>4. CASE Single(path)
  <2>1. w = path /\ Len(w) = 2 /\ ~IsParam(path[2])
    BY <1>1, <1>3, <1>4 DEF Single
  <2>2. w[2] = q[2]
    <3>1. 2 \in 1..Len(w)
      BY <2>1
    <3>2. QED
      BY <1>2, <2>1, <3>1
  <2>3. QED
    BY <1>2, <1>4, <2>1, <2>2
<1>5. CASE OfFiles(path)
  <2>0. ~Single(path) /\ Len(path) \in 3..4
    BY <1>5, EmptyIsNoWord DEF OfFiles, Single
  <2>1. Len(w) = Len(path) - 1 /\ 2 \in 1..Len(w)
    BY <1>1, <2>0
  <2>2. w[2] = path[3]
    BY <1>1, <1>5, <2>1
  <2>3. path[3] \in {"index.yaml", "charts"}
    BY <1>5 DEF OfFiles
  <2>4. q[2] = path[3]
    BY <1>2, <1>3, <2>1, <2>2, <2>3
  <2>5. QED
    BY <1>2, <1>5, <2>1, <2>4
<1>6. CASE OfApi(path)
  <2>0. ~Single(path) /\ Len(path) \in 4..7
    BY <1>6, EmptyIsNoWord DEF OfApi, Single
  <2>1. /\ Len(w) = Len(path) - 1
        /\ 2 \in 1..Len(w) /\ 3 \in 1..Len(w)
        /\ Len(path) = 7 => 6 \in 1..Len(w)
    <3>1. Len(w) = Len(path) - 1
      BY <1>1, <2>0
    <3>2. QED
      BY <2>0, <3>1
  <2>2. /\ w[2] = "api" /\ w[3] = path[4]
        /\ Len(path) = 7 => w[6] = path[7]
    BY <1>1, <1>6, <2>1
  <2>3. /\ path[4] \in {"charts", "prov"}
        /\ Len(path) = 7 => path[7] \in {"templates", "values"}
    BY <1>6 DEF OfApi
  <2>4. q[2] = "api" /\ q[3] = path[4]
    BY <1>2, <1>3, <2>1, <2>2, <2>3
  <2>5. Len(path) = 7 => q[6] = path[7]
    BY <1>2, <1>3, <2>1, <2>2, <2>3
  <2>6. QED
    BY <1>2, <1>6, <2>1, <2>4, <2>5
<1>7. QED
  BY <1>4, <1>5, <1>6, PathShapes

(* No URL fits two paths.                                                  *)
LEMMA OneFits ==
  ASSUME NEW p \in AllPaths, NEW r \in AllPaths, NEW q,
         Fits(p, q), Fits(r, q)
  PROVE  p = r
<1>1. Len(p) \in Nat /\ Len(r) \in Nat
  BY PathShapes
<1>2. /\ Len(p) = Len(r) /\ p[2] = r[2]
      /\ Len(p) > 3 => p[4] = r[4]
      /\ Len(p) > 6 => p[7] = r[7]
  BY <1>1, FitShape, EmptyIsNoWord DEF Single, OfFiles, OfApi
<1>3. QED
  BY <1>2, SamePath
-----------------------------------------------------------------------------
(* What is left of a URL without its tenant.                               *)
LEMMA RestOf ==
  ASSUME NEW S, Empty \in S, "api" \in S,
         NEW url \in Seq(S), NEW depth \in Nat,
         TryRepoRoutes(url, depth)
  PROVE  LET s == StartIndex(url)
             q == NoRepoPath(url, depth)
         IN  /\ s \in 1..2
             /\ q \in Seq(S)
             /\ q[1] = Empty
             /\ s = 2 => q[2] = "api"
             /\ Len(url) = s + depth => Len(q) = s + 1 /\ q[s + 1] = Empty
             /\ Len(url) > s + depth =>
                    /\ Len(q) = Len(url) - depth
                    /\ \A i \in (s + 1)..Len(q) : q[i] = url[i + depth]
<1> DEFINE s == StartIndex(url)
           q == NoRepoPath(url, depth)
           x == IF s = 2 THEN <<Empty, "api">> ELSE <<Empty>>
           rest == SubSeq(url, s + depth + 1, Len(url))
           y == IF rest = <<>> THEN <<Empty>> ELSE rest
<1>1. s \in 1..2 /\ s \in Int /\ Len(url) \in Nat
  BY DEF StartIndex
<1>2. q = x \o y
  BY DEF NoRepoPath
<1>3. Len(url) >= s + depth
  BY <1>1 DEF TryRepoRoutes
<1> HIDE DEF s, q
<1>4. /\ x \in Seq(S) /\ Len(x) = s /\ x[1] = Empty
      /\ s = 2 => x[2] = "api"
  BY <1>1
<1>5. /\ rest \in Seq(S)
      /\ Len(rest) = Len(url) - s - depth
      /\ \A i \in 1..Len(rest) : rest[i] = url[s + depth + i]
  <2>1. \A i \in (s + depth + 1)..Len(url) : url[i] \in S
    BY <1>1
  <2>2. /\ rest \in Seq(S)
        /\ Len(rest) = IF s + depth + 1 <= Len(url)
                       THEN Len(url) - (s + depth + 1) + 1 ELSE 0
        /\ \A i \in 1..(Len(url) - (s + depth + 1) + 1) :
               rest[i] = url[(s + depth + 1) + i - 1]
    <3>1. s + depth + 1 \in Int /\ Len(url) \in Int
      BY <1>1
    <3>2. QED
      BY <2>1, <3>1, SubSeqProperties
  <2> HIDE DEF rest
  <2>3. Len(rest) = Len(url) - s - depth
    BY <1>1, <1>3, <2>2
  <2>4. ASSUME NEW i \in 1..Len(rest)
        PROVE  rest[i] = url[s + depth + i]
    <3>1. i \in 1..(Len(url) - (s + depth + 1) + 1)
      BY <1>1, <2>3
    <3>2. (s + depth + 1) + i - 1 = s + depth + i
      BY <1>1
    <3>3. QED
      BY <2>2, <3>1, <3>2
  <2>5. QED
    BY <2>2, <2>3, <2>4
<1> HIDE DEF x, rest
<1>6. y \in Seq(S)
  BY <1>5
<1>7. /\ q \in Seq(S)
      /\ Len(q) = s + Len(y)
      /\ \A i \in 1..(s + Len(y)) :
             q[i] = IF i <= s THEN x[i] ELSE y[i - s]
  <2> HIDE DEF y
  <2>1. QED
    BY <1>2, <1>4, <1>6, ConcatProperties
<1>8. q[1] = Empty /\ (s = 2 => q[2] = "api")
  BY <1>1, <1>4, <1>6, <1>7
<1>9. ASSUME Len(url) = s + depth
      PROVE  Len(q) = s + 1 /\ q[s + 1] = Empty
  <2>1. Len(rest) = 0
    BY <1>1, <1>5, <1>9
  <2>2. y = <<Empty>>
    BY <1>5, <2>1, EmptySeq
  <2>3. QED
    BY <1>1, <1>7, <2>2
<1>10. ASSUME Len(url) > s + depth
       PROVE  /\ Len(q) = Len(url) - depth
              /\ \A i \in (s + 1)..Len(q) : q[i] = url[i + depth]
  <2>1. Len(rest) > 0
    BY <1>1, <1>5, <1>10
  <2>2. y = rest
    BY <2>1
  <2> HIDE DEF y
  <2>3. Len(q) = Len(url) - depth
    <3>1. Len(q) = s + Len(rest)
      BY <1>7, <2>2
    <3>2. QED
      BY <1>1, <1>5, <3>1
  <2>4. ASSUME NEW i \in (s + 1)..Len(q)
        PROVE  q[i] = url[i + depth]
    <3>1. i \in Int /\ i - s \in 1..Len(rest)
      BY <1>1, <1>5, <1>10, <2>3
    <3>2. q[i] = rest[i - s]
      BY <1>1, <1>7, <2>2, <3>1
    <3>3. rest[i - s] = url[s + depth + (i - s)]
      BY <1>5, <3>1
    <3>4. s + depth + (i - s) = i + depth
      BY <1>1, <3>1
    <3>5. QED
      BY <3>2, <3>3, <3>4
  <2>5. QED
    BY <2>3, <2>4
<1>11. QED
  BY <1>1, <1>7, <1>8, <1>9, <1>10 DEF s, q

(* The last segment of a path of the API is not the name of a file.        *)
LEMMA ApiPath ==
  ASSUME NEW path \in AllPaths
  PROVE  /\ OfApi(path) => CheckApiRoute(path)
         /\ ~OfApi(path) => ~CheckApiRoute(path)
<1>1. /\ path \in Seq(Words \cup Blanks)
      /\ path[1] = Empty
      /\ Single(path) \/ OfFiles(path) \/ OfApi(path)
  BY PathShapes
<1>2. ASSUME OfApi(path)
      PROVE  CheckApiRoute(path)
  <2>1. Len(path) = 4 \/ Len(path) = 5 \/ Len(path) = 6 \/ Len(path) = 7
    BY <1>2 DEF OfApi
  <2>2. path[Len(path)] \in {"charts", "prov", ":name", ":version",
                             "templates", "values"}
    BY <1>2, <2>1 DEF OfApi
  <2>3. path[Len(path)] \in Words \cup Blanks /\ path[Len(path)] # "index.yaml"
    BY <2>2 DEF Words, Blanks
  <2>4. path[Len(path)] \notin FileNames
    BY <2>3, WordAssumption
  <2>5. Len(path) >= 3
    BY <2>1
  <2>6. QED
    BY <1>1, <1>2, <2>4, <2>5 DEF CheckApiRoute, OfApi
<1>3. ASSUME ~OfApi(path)
      PROVE  path[2] # "api"
  BY <1>1, <1>3, EmptyIsNoWord DEF Single, OfFiles
<1>4. QED
  BY <1>2, <1>3 DEF CheckApiRoute

LEMMA FitRoot ==
  ASSUME NEW r \in AllPaths, NEW q, Fits(r, q), Len(q) = 2, q[2] = Empty
  PROVE  r = RootPath
<1>1. Single(r) /\ r[2] = Empty
  BY FitShape, EmptyIsNoWord DEF OfFiles, OfApi
<1>2. RootPath \in AllPaths /\ Len(RootPath) = 2 /\ RootPath[2] = Empty
  BY DEF AllPaths, RootPath
<1>3. Len(r) = 2
  BY <1>1 DEF Single
<1>4. QED
  BY <1>1, <1>2, <1>3, SamePath

(* A URL that is a path by letter, its ":repo" too, fits no other path     *)
(* but the root.                                                           *)
LEMMA RawFits ==
  ASSUME NEW p \in AllPaths, NEW r \in AllPaths, NEW depth \in Nat,
         TryRepoRoutes(p, depth), Fits(r, NoRepoPath(p, depth))
  PROVE  r = p \/ (r = RootPath /\ (Single(p) => depth = 1))
<1> DEFINE S == Words \cup Blanks
           q == NoRepoPath(p, depth)
           s == StartIndex(p)
           w == WithoutRepo(p)
<1>1. /\ p \in Seq(S) /\ Len(p) \in Nat
      /\ p[1] = Empty
      /\ Single(p) \/ OfFiles(p) \/ OfApi(p)
  BY PathShapes
<1>2. Empty \in S /\ "api" \in S
  BY DEF Words
<1>3. /\ s \in 1..2
      /\ q \in Seq(S)
      /\ q[1] = Empty
      /\ s = 2 => q[2] = "api"
      /\ Len(p) = s + depth => Len(q) = s + 1 /\ q[s + 1] = Empty
      /\ Len(p) > s + depth =>
             /\ Len(q) = Len(p) - depth
             /\ \A i \in (s + 1)..Len(q) : q[i] = p[i + depth]
  <2> HIDE DEF S
  <2>1. QED
    BY <1>1, <1>2, RestOf
<1>4. Len(p) >= s + depth
  BY <1>3 DEF TryRepoRoutes
<1>5. /\ OfApi(p) => s = 2
      /\ ~OfApi(p) => s = 1
  BY ApiPath DEF StartIndex
<1>6. /\ w \in Seq(S)
      /\ w[1] = Empty
      /\ Single(p) => w = p
      /\ ~Single(p) => Len(w) = Len(p) - 1
      /\ OfFiles(p) => \A i \in 2..Len(w) : w[i] = p[i + 1]
      /\ OfApi(p) => /\ w[2] = "api"
                     /\ \A i \in 3..Len(w) : w[i] = p[i + 1]
  BY BarePath
<1> HIDE DEF s, q, w, S
<1>7. Fits(r, q)
  BY DEF q
<1>8. ASSUME Len(q) = Len(w), \A i \in 1..Len(w) : w[i] = q[i]
      PROVE  r = p
  <2>1. Fits(p, q)
    BY <1>6, <1>8 DEF Fits, w
  <2>2. QED
    BY <1>7, <2>1, OneFits
<1>9. ASSUME Len(q) = 2, q[2] = Empty
      PROVE  r = RootPath
  BY <1>7, <1>9, FitRoot
<1>10. /\ Single(r) => q[2] \in {Empty, "info", "health",
                                 "artifacthub-repo.yml", "static"}
       /\ OfFiles(r) => q[2] \in {"index.yaml", "charts"}
       /\ OfApi(r) => q[2] = "api" /\ q[3] \in {"charts", "prov"}
       /\ Single(r) \/ OfFiles(r) \/ OfApi(r)
  BY <1>7, FitShape, PathShapes, EmptyIsNoWord DEF Single, OfFiles, OfApi
<1>11. CASE Single(p)
  <2>1. s = 1 /\ Len(p) = 2
    BY <1>5, <1>11, EmptyIsNoWord DEF Single, OfApi
  <2>2. depth = 0 \/ depth = 1
    BY <1>4, <2>1
  <2>3. CASE depth = 0
    <3>1. Len(q) = 2 /\ q[2] = p[2]
      BY <1>3, <2>1, <2>3
    <3>2. \A i \in 1..2 : i = 1 \/ i = 2
      OBVIOUS
    <3>3. QED
      BY <1>1, <1>3, <1>6, <1>8, <1>11, <2>1, <3>1, <3>2
  <2>4. CASE depth = 1
    BY <1>3, <1>9, <2>1, <2>4
  <2>5. QED
    BY <2>2, <2>3, <2>4
<1>12. CASE OfFiles(p)
  <2>1. s = 1 /\ Len(p) \in 3..4 /\ ~Single(p)
    BY <1>5, <1>12, EmptyIsNoWord DEF OfFiles, OfApi, Single
  <2>2. depth = 0 \/ depth = 1 \/ depth = Len(p) - 1
          \/ (depth = 2 /\ Len(p) = 4)
    <3>1. Len(p) = 3 \/ Len(p) = 4
      BY <2>1
    <3>2. Len(p) >= 1 + depth
      BY <1>4, <2>1
    <3>3. ASSUME NEW n \in Nat, n = 3 \/ n = 4, n >= 1 + depth
          PROVE  \/ depth = 0 \/ depth = 1 \/ depth = n - 1
                 \/ depth = 2 /\ n = 4
      BY <3>3
    <3>4. QED
      BY <1>1, <3>1, <3>2, <3>3
  <2>3. depth # 0
    <3>1. SUFFICES ASSUME depth = 0
                   PROVE  FALSE
      OBVIOUS
    <3>2. q[2] = ":repo"
      BY <1>3, <1>12, <2>1, <3>1 DEF OfFiles
    <3>3. QED
      BY <1>10, <3>2, EmptyIsNoWord
  <2>4. CASE depth = 1
    <3>1. Len(q) = Len(p) - 1 /\ \A i \in 2..Len(q) : q[i] = p[i + 1]
      <4>1. Len(p) > 1 + 1
        BY <2>1
      <4>2. QED
        BY <1>3, <2>1, <2>4, <4>1
    <3>2. Len(w) = Len(q)
      BY <1>6, <2>1, <3>1
    <3>3. \A i \in 1..Len(w) : i = 1 \/ i \in 2..Len(w)
      BY <1>6
    <3>4. QED
      BY <1>3, <1>6, <1>8, <1>12, <3>1, <3>2, <3>3
  <2>5. CASE depth = Len(p) - 1
    BY <1>3, <1>9, <2>1, <2>5
  <2>6. ~(depth = 2 /\ Len(p) = 4)
    <3>1. SUFFICES ASSUME depth = 2, Len(p) = 4
                   PROVE  FALSE
      OBVIOUS
    <3>2. q[2] = ":filename"
      <4>1. Len(q) = 2 /\ q[2] = p[2 + 2]
        <5>1. Len(p) > s + depth /\ Len(p) - depth = 2 /\ s = 1
          BY <2>1, <3>1
        <5>2. Len(q) = 2
          BY <1>3, <5>1
        <5>3. q[2] = p[2 + depth]
          <6>1. 2 \in (s + 1)..Len(q)
            BY <5>1, <5>2
          <6>2. QED
            BY <1>3, <5>1, <6>1
        <5>4. QED
          BY <3>1, <5>2, <5>3
      <4>2. p[4] = ":filename"
        BY <1>12, <3>1 DEF OfFiles
      <4>3. QED
        BY <4>1, <4>2
    <3>3. QED
      BY <1>10, <3>2, EmptyIsNoWord
  <2>7. QED
    BY <2>2, <2>3, <2>4, <2>5, <2>6
<1>13. CASE OfApi(p)
  <2>1. s = 2 /\ Len(p) \in 4..7 /\ ~Single(p)
    BY <1>5, <1>13, EmptyIsNoWord DEF OfApi, Single
  <2>2. q[3] \in {"charts", "prov"}
    <3>1. q[2] = "api"
      BY <1>3, <2>1
    <3>2. QED
      BY <1>10, <3>1, EmptyIsNoWord
  <2>3. depth + 2 < Len(p)
    <3>1. SUFFICES ASSUME Len(p) = 2 + depth
                   PROVE  FALSE
      BY <1>4, <2>1
    <3>2. q[3] = Empty
      BY <1>3, <2>1, <3>1
    <3>3. QED
      BY <2>2, <3>2, EmptyIsNoWord
  <2>4. Len(q) = Len(p) - depth /\ \A i \in 3..Len(q) : q[i] = p[i + depth]
    BY <1>3, <2>1, <2>3
  <2>5. q[3] = p[3 + depth]
    BY <2>1, <2>3, <2>4
  <2>6. depth # 0
    BY <1>13, <2>2, <2>5, EmptyIsNoWord DEF OfApi
  <2>7. depth = 1
    <3>1. SUFFICES ASSUME depth > 1
                   PROVE  FALSE
      BY <2>6
    <3>2. \/ depth = 2 /\ Len(p) > 4
          \/ depth = 3 /\ Len(p) > 5
          \/ depth = 4 /\ Len(p) > 6
      <4>1. Len(p) = 4 \/ Len(p) = 5 \/ Len(p) = 6 \/ Len(p) = 7
        BY <2>1
      <4>2. ASSUME NEW n \in Nat, n = 4 \/ n = 5 \/ n = 6 \/ n = 7,
                   depth + 2 < n
            PROVE  \/ depth = 2 /\ n > 4
                   \/ depth = 3 /\ n > 5
                   \/ depth = 4 /\ n > 6
        BY <3>1, <4>2
      <4>3. QED
        BY <1>1, <2>3, <4>1, <4>2
    <3>3. q[3] \in {":name", ":version", "templates", "values"}
      BY <1>13, <2>5, <3>2 DEF OfApi
    <3>4. QED
      BY <2>2, <3>3, EmptyIsNoWord
  <2>8. Len(w) = Len(q)
    BY <1>6, <2>1, <2>4, <2>7
  <2>9. \A i \in 1..Len(w) : i = 1 \/ i = 2 \/ i \in 3..Len(w)
    BY <1>6
  <2>10. QED
    BY <1>3, <1>6, <1>8, <1>13, <2>1, <2>4, <2>7, <2>8, <2>9
<1>14. QED
  BY <1>1, <1>11, <1>12, <1>13
-----------------------------------------------------------------------------
(* Whatever comes as a segment of a URL.                                   *)
Segments ==
    STRING \cup Words \cup Blanks \cup {Longer[x] : x \in DOMAIN Longer}

(* Where the parameters of a path are.                                     *)
LEMMA ParamsAt ==
  ASSUME NEW path \in AllPaths
  PROVE  LET n == Len(path)
         IN  /\ Single(path) => Params(path) = {}
             /\ OfFiles(path) => \/ n = 3 /\ Params(path) = {}
                                 \/ n = 4 /\ Params(path) = {4}
             /\ OfApi(path) => \/ n = 4 /\ Params(path) = {}
                               \/ n = 5 /\ Params(path) = {5}
                               \/ n \in {6, 7} /\ Params(path) = {5, 6}
<1>1. /\ path \in Seq(Words \cup Blanks) /\ Len(path) \in Nat
      /\ path[1] = Empty
  BY PathShapes
<1>2. Params(path) = {i \in 1..Len(path) :
                          path[i] \in {":name", ":version", ":filename"}}
  BY <1>1, EmptyIsNoWord DEF Params, Blanks
<1>3. \A i \in 1..7 : i = 1 \/ i = 2 \/ i = 3 \/ i = 4 \/ i = 5 \/ i = 6
                        \/ i = 7
  OBVIOUS
<1>4. ASSUME Single(path)
      PROVE  Params(path) = {}
  <2>1. Len(path) = 2 /\ path[2] \notin {":name", ":version", ":filename"}
    BY <1>4, EmptyIsNoWord DEF Single
  <2>2. \A i \in 1..2 : i = 1 \/ i = 2
    OBVIOUS
  <2>3. QED
    BY <1>1, <1>2, <2>1, <2>2, EmptyIsNoWord
<1>5. ASSUME OfFiles(path)
      PROVE  \/ Len(path) = 3 /\ Params(path) = {}
             \/ Len(path) = 4 /\ Params(path) = {4}
  <2>1. CASE Len(path) = 3
    BY <1>1, <1>2, <1>3, <1>5, <2>1, EmptyIsNoWord DEF OfFiles
  <2>2. CASE Len(path) = 4
    BY <1>1, <1>2, <1>3, <1>5, <2>2, EmptyIsNoWord DEF OfFiles
  <2>3. QED
    BY <1>5, <2>1, <2>2 DEF OfFiles
<1>6. ASSUME OfApi(path)
      PROVE  \/ Len(path) = 4 /\ Params(path) = {}
             \/ Len(path) = 5 /\ Params(path) = {5}
             \/ Len(path) \in {6, 7} /\ Params(path) = {5, 6}
  <2>1. Len(path) \in 4..7
    BY <1>6 DEF OfApi
  <2>2. CASE Len(path) = 4
    BY <1>1, <1>2, <1>3, <1>6, <2>2, EmptyIsNoWord DEF OfApi
  <2>3. CASE Len(path) = 5
    BY <1>1, <1>2, <1>3, <1>6, <2>3, EmptyIsNoWord DEF OfApi
  <2>4. CASE Len(path) = 6
    BY <1>1, <1>2, <1>3, <1>6, <2>4, EmptyIsNoWord DEF OfApi
  <2>5. CASE Len(path) = 7
    BY <1>1, <1>2, <1>3, <1>6, <2>5, EmptyIsNoWord DEF OfApi
  <2>6. Len(path) = 4 \/ Len(path) = 5 \/ Len(path) = 6 \/ Len(path) = 7
    BY <2>1
  <2>7. QED
    BY <2>1, <2>2, <2>3, <2>4, <2>5, <2>6
<1>7. QED
  BY <1>4, <1>5, <1>6

(* What a client may mean, by the shape of the path.                       *)
LEMMA Meant ==
  ASSUME NEW c, NEW m, MayMean(c, m)
  PROVE  LET path == m.route.path
             n == Len(path)
         IN  /\ \E i \in 1..Len(Routes(c)) : m.route = Routes(c)[i]
             /\ m.route \in AllRoutes /\ path \in AllPaths
             /\ m.repo \in Seq(STRING) /\ m.args \in Seq(STRING)
             /\ Single(path) => m.repo = <<>> /\ m.args = <<>>
             /\ OfFiles(path) =>
                    /\ Len(m.args) = n - 3
                    /\ n = 4 => m.args[1] \in FileNames \ {"index.yaml"}
             /\ OfApi(path) =>
                    /\ n = 4 => Len(m.args) = 0
                    /\ n = 5 => Len(m.args) = 1
                    /\ n > 5 => Len(m.args) = 2
             /\ ~Single(path) => c.depthDynamic \/ Len(m.repo) = c.depth
<1> DEFINE path == m.route.path
           L == Len(m.args)
<1>1. /\ \E i \in DOMAIN Routes(c) : m.route = Routes(c)[i]
      /\ m.repo \in Seq(STRING) /\ m.args \in Seq(STRING)
      /\ IF BeforeRepo(path) = Len(path) THEN m.repo = <<>>
         ELSE c.depthDynamic \/ Len(m.repo) = c.depth
      /\ path[Len(path)] = ":filename" =>
             m.args[1] \in FileNames \ {"index.yaml"}
  BY DEF MayMean, Names
<1>2. PICK b \in 0..Len(path) : Params(path) = (b + 1)..(b + L)
  BY DEF MayMean, Fill
<1>3. Routes(c) \in Seq(AllRoutes)
  BY RoutesOnce
<1>4. \E i \in 1..Len(Routes(c)) : m.route = Routes(c)[i]
  BY <1>1, <1>3
<1>5. m.route \in AllRoutes /\ path \in AllPaths
  BY <1>3, <1>4, RouteFields
<1>6. /\ path \in Seq(Words \cup Blanks) /\ Len(path) \in Nat
      /\ path[1] = Empty
      /\ Single(path) \/ OfFiles(path) \/ OfApi(path)
  BY <1>5, PathShapes
<1>8. L \in Nat /\ b \in Nat
  BY <1>1, <1>2, <1>6
<1>9. m.args = <<>> <=> L = 0
  BY <1>1, EmptySeq
<1>10. ASSUME Single(path)
       PROVE  m.repo = <<>> /\ m.args = <<>>
  <2>1. m.repo = <<>>
    BY <1>1, <1>5, <1>10, RepoAt
  <2>2. Params(path) = {}
    BY <1>5, <1>10, ParamsAt
  <2>3. L = 0
    BY <1>2, <1>8, <2>2
  <2>4. QED
    BY <1>9, <2>1, <2>3
<1>11. ASSUME NEW l \in Nat, NEW k \in Nat, Params(path) = (k + 1)..(k + l)
       PROVE  L = l
  <2>1. ASSUME L = 0
        PROVE  l = 0
    <3>1. k + 1 \notin Params(path)
      BY <1>2, <1>8, <2>1
    <3>2. QED
      BY <1>11, <3>1
  <2>2. ASSUME l = 0
        PROVE  L = 0
    <3>1. b + 1 \notin Params(path)
      BY <1>11, <2>2
    <3>2. QED
      BY <1>2, <1>8, <3>1
  <2>3. ASSUME L > 0, l > 0
        PROVE  L = l
    <3>1. b + 1 \in Params(path) /\ b + L \in Params(path)
      BY <1>2, <1>8, <2>3
    <3>2. k + 1 \in Params(path) /\ k + l \in Params(path)
      BY <1>11, <2>3
    <3>3. /\ k + 1 <= b + 1 /\ b + L <= k + l
          /\ b + 1 <= k + 1 /\ k + l <= b + L
      BY <1>2, <1>8, <1>11, <3>1, <3>2
    <3>4. QED
      BY <1>8, <1>11, <3>3
  <2>4. QED
    BY <1>8, <1>11, <2>1, <2>2, <2>3
<1>12. ASSUME OfFiles(path)
       PROVE  /\ L = Len(path) - 3
              /\ Len(path) = 4 => m.args[1] \in FileNames \ {"index.yaml"}
  <2>1. CASE Len(path) = 3
    <3>1. Params(path) = (0 + 1)..(0 + 0)
      BY <1>5, <1>12, <2>1, ParamsAt
    <3>2. L = 0
      BY <1>11, <3>1
    <3>3. QED
      BY <2>1, <3>2
  <2>2. CASE Len(path) = 4
    <3>1. Params(path) = (3 + 1)..(3 + 1)
      BY <1>5, <1>12, <2>2, ParamsAt
    <3>2. L = 1
      BY <1>11, <3>1
    <3>3. QED
      BY <1>1, <1>12, <2>2, <3>2 DEF OfFiles
  <2>3. QED
    BY <1>12, <2>1, <2>2 DEF OfFiles
<1>13. ASSUME OfApi(path)
       PROVE  /\ Len(path) = 4 => L = 0
              /\ Len(path) = 5 => L = 1
              /\ Len(path) > 5 => L = 2
  <2> DEFINE n == Len(path)
  <2>1. \/ n = 4 /\ Params(path) = {}
        \/ n = 5 /\ Params(path) = {5}
        \/ n \in {6, 7} /\ Params(path) = {5, 6}
    BY <1>5, <1>13, ParamsAt
  <2> HIDE DEF n, L
  <2>2. ASSUME n = 4
        PROVE  L = 0
    <3>1. Params(path) = (0 + 1)..(0 + 0)
      BY <2>1, <2>2
    <3>2. QED
      BY <1>11, <3>1
  <2>3. ASSUME n = 5
        PROVE  L = 1
    <3>1. Params(path) = (4 + 1)..(4 + 1)
      BY <2>1, <2>3
    <3>2. QED
      BY <1>11, <3>1
  <2>4. ASSUME n \in {6, 7}
        PROVE  L = 2
    <3>1. Params(path) = {5, 6}
      BY <2>1, <2>4
    <3>2. Params(path) = (4 + 1)..(4 + 2)
      BY <3>1
    <3>3. QED
      BY <1>11, <3>2
  <2>5. /\ n = 4 => L = 0
        /\ n = 5 => L = 1
        /\ n > 5 => L = 2
    BY <2>1, <2>2, <2>3, <2>4
  <2>6. QED
    BY <2>5 DEF n
<1>14. ~Single(path) => c.depthDynamic \/ Len(m.repo) = c.depth
  <2>1. ASSUME ~Single(path)
        PROVE  BeforeRepo(path) # Len(path)
    BY <1>5, <1>6, <2>1, RepoAt DEF OfFiles, OfApi
  <2>2. QED
    BY <1>1, <2>1
<1>15. QED
  BY <1>1, <1>4, <1>5, <1>10, <1>12, <1>13, <1>14

LEMMA SegmentsIn ==
  /\ Seq(STRING) \subseteq Seq(Segments)
  /\ Seq(Words \cup Blanks) \subseteq Seq(Segments)
  /\ Empty \in Segments /\ "api" \in Segments
<1>1. STRING \subseteq Segments /\ Words \cup Blanks \subseteq Segments
  BY DEF Segments
<1>2. Empty \in Words /\ "api" \in Words
  BY DEF Words
<1>3. Seq(STRING) \subseteq Seq(Segments)
  BY <1>1, SeqMonotonic
<1>4. Seq(Words \cup Blanks) \subseteq Seq(Segments)
  BY <1>1, SeqMonotonic
<1>5. QED
  BY <1>1, <1>2, <1>3, <1>4

(* The URL of a meaning, segment by segment.                               *)
LEMMA BelowShape ==
  ASSUME NEW c, NEW m, MayMean(c, m)
  PROVE  LET path == m.route.path
             n == Len(path)
             k == Len(m.repo)
             u == Below(m)
         IN  /\ u \in Seq(Segments)
             /\ u[1] = Empty
             /\ Single(path) => u = path
             /\ OfFiles(path) =>
                    /\ Len(u) = n - 1 + k
                    /\ \A i \in 1..k : u[i + 1] = m.repo[i]
                    /\ u[k + 2] = path[3]
                    /\ n = 4 => u[k + 3] = m.args[1]
             /\ OfApi(path) =>
                    /\ Len(u) = n - 1 + k
                    /\ u[2] = "api"
                    /\ \A i \in 1..k : u[i + 2] = m.repo[i]
                    /\ u[k + 3] = path[4]
                    /\ n > 4 => u[k + 4] = m.args[1]
                    /\ n > 5 => u[k + 5] = m.args[2]
                    /\ n = 7 => u[k + 6] = path[7]
<1> DEFINE path == m.route.path
           n == Len(path)
           k == Len(m.repo)
           b == BeforeRepo(path)
           x == SubSeq(path, 1, b)
           rest == SubSeq(path, b + 2, n)
           ends == {i \in 1..(Len(rest) + 1) :
                       i > Len(rest) \/ IsParam(rest[i])}
           at == First(ends)
           filled == [i \in DOMAIN rest |->
                         IF IsParam(rest[i]) THEN m.args[i - at + 1]
                         ELSE rest[i]]
           u == Below(m)
<1>1. /\ m.route \in AllRoutes /\ path \in AllPaths
      /\ m.repo \in Seq(STRING) /\ m.args \in Seq(STRING)
      /\ Single(path) => m.repo = <<>> /\ m.args = <<>>
      /\ OfFiles(path) =>
             /\ Len(m.args) = n - 3
             /\ n = 4 => m.args[1] \in FileNames \ {"index.yaml"}
      /\ OfApi(path) =>
             /\ n = 4 => Len(m.args) = 0
             /\ n = 5 => Len(m.args) = 1
             /\ n > 5 => Len(m.args) = 2
  BY Meant
<1>2. /\ path \in Seq(Words \cup Blanks) /\ n \in Nat
      /\ path[1] = Empty
      /\ Single(path) \/ OfFiles(path) \/ OfApi(path)
  BY <1>1, PathShapes
<1>3. u = (x \o m.repo) \o filled
  BY DEF Below
<1>4. /\ Single(path) => b = n
      /\ OfFiles(path) => b = 1
      /\ OfApi(path) => b = 2
  BY <1>1, RepoAt
<1>5. /\ \A s \in {Empty, "info", "health", "artifacthub-repo.yml", "static",
                   "index.yaml", "charts", "prov", "api", "templates",
                   "values"} : ~IsParam(s)
      /\ \A s \in {":name", ":version", ":filename"} : IsParam(s)
  BY EmptyIsNoWord DEF IsParam, Blanks
<1>0. /\ Single(path) => n = 2
      /\ OfFiles(path) => n = 3 \/ n = 4
      /\ OfApi(path) => n = 4 \/ n = 5 \/ n = 6 \/ n = 7
      /\ ~(OfFiles(path) /\ OfApi(path))
      /\ ~(Single(path) /\ OfFiles(path)) /\ ~(Single(path) /\ OfApi(path))
  BY EmptyIsNoWord DEF OfFiles, OfApi, Single
<1> HIDE DEF u, b
<1>6. CASE Single(path)
  <2>1. x = path
    BY <1>2, <1>4, <1>6, SubSeqFull
  <2>2. rest = <<>>
    BY <1>2, <1>4, <1>6, SubSeqEmpty
  <2>3. filled = <<>>
    <3> HIDE DEF rest
    <3>0. rest \in Seq(Segments) /\ Len(rest) = 0
      BY <2>2
    <3>1. DOMAIN rest = 1..0
      BY <3>0
    <3>2. filled \in [1..0 -> Segments]
      BY <3>1
    <3> HIDE DEF filled
    <3>3. filled \in Seq(Segments) /\ Len(filled) = 0
      BY <3>2
    <3>4. QED
      BY <3>3, EmptySeq
  <2>4. m.repo = <<>>
    BY <1>1, <1>6
  <2> HIDE DEF x, filled
  <2>5. u = path
    BY <1>2, <1>3, <2>1, <2>3, <2>4, ConcatEmptySeq
  <2>6. QED
    BY <1>0, <1>2, <1>6, <2>5, SegmentsIn DEF u
<1>7. CASE ~Single(path)
  <2> HIDE DEF n
  <2>2. b \in 1..2 /\ b + 2 <= n
    BY <1>0, <1>2, <1>4, <1>7
  <2>3. x \in Seq(Segments) /\ Len(x) = b /\ \A i \in 1..b : x[i] = path[i]
    <3>1. \A i \in 1..b : path[i] \in Words \cup Blanks
      BY <1>2, <2>2 DEF n
    <3>2. /\ x \in Seq(Words \cup Blanks)
          /\ Len(x) = b /\ \A i \in 1..b : x[i] = path[i]
      BY <1>2, <2>2, <3>1, SubSeqProperties DEF n
    <3>3. QED
      BY <3>2, SegmentsIn
  <2>4. /\ rest \in Seq(Words \cup Blanks)
        /\ Len(rest) = n - b - 1
        /\ \A i \in 1..(n - b - 1) : rest[i] = path[b + 1 + i]
    <3>1. \A i \in (b + 2)..n : path[i] \in Words \cup Blanks
      BY <1>2, <2>2 DEF n
    <3>2. /\ rest \in Seq(Words \cup Blanks)
          /\ Len(rest) = IF b + 2 <= n THEN n - (b + 2) + 1 ELSE 0
          /\ \A i \in 1..(n - (b + 2) + 1) : rest[i] = path[(b + 2) + i - 1]
      BY <1>2, <2>2, <3>1, SubSeqProperties DEF n
    <3> HIDE DEF rest
    <3>3. Len(rest) = n - b - 1
      BY <1>2, <2>2, <3>2
    <3>4. ASSUME NEW i \in 1..(n - b - 1)
          PROVE  rest[i] = path[b + 1 + i]
      <4>1. i \in 1..(n - (b + 2) + 1)
        BY <1>2, <2>2
      <4>2. (b + 2) + i - 1 = b + 1 + i
        BY <2>2
      <4>3. QED
        BY <3>2, <4>1, <4>2
    <3>5. QED
      BY <3>2, <3>3, <3>4
  <2> HIDE DEF rest, x
  <2>5. rest[1] = path[b + 2] /\ ~IsParam(rest[1]) /\ Len(rest) >= 1
    <3>1. Len(rest) >= 1 /\ 1 \in 1..(n - b - 1)
      BY <1>2, <2>2, <2>4
    <3>2. rest[1] = path[b + 1 + 1]
      BY <2>4, <3>1
    <3>3. path[b + 2] \in {"index.yaml", "charts", "prov"}
      BY <1>2, <1>4, <1>7 DEF OfFiles, OfApi
    <3>4. QED
      BY <1>5, <2>2, <3>1, <3>2, <3>3
  <2>6. Len(rest) >= 2 => rest[2] = path[b + 3] /\ IsParam(rest[2])
    <3>1. SUFFICES ASSUME Len(rest) >= 2
                   PROVE  rest[2] = path[b + 3] /\ IsParam(rest[2])
      OBVIOUS
    <3>2. 2 \in 1..(n - b - 1) /\ b + 3 <= n
      BY <1>2, <2>2, <2>4, <3>1
    <3>3. rest[2] = path[b + 1 + 2]
      BY <2>4, <3>2
    <3>4. path[b + 3] \in {":filename", ":name"}
      <4>1. CASE OfFiles(path)
        BY <1>0, <1>4, <3>2, <4>1 DEF OfFiles, n
      <4>2. CASE OfApi(path)
        BY <1>0, <1>4, <3>2, <4>2 DEF OfApi, n
      <4>3. QED
        BY <1>2, <1>7, <4>1, <4>2
    <3>5. QED
      BY <1>5, <2>2, <3>3, <3>4
  <2>7. at = 2
    <3>1. 2 \in ends /\ ends \in SUBSET Nat
      BY <2>4, <2>5, <2>6
    <3>2. \A i \in ends : 2 <= i
      BY <2>4, <2>5
    <3> HIDE DEF ends
    <3>3. QED
      BY <3>1, <3>2, FirstIs
  <2> HIDE DEF at
  <2>8. filled = [i \in 1..Len(rest) |->
                     IF IsParam(rest[i]) THEN m.args[i - 1] ELSE rest[i]]
    <3>1. DOMAIN rest = 1..Len(rest)
      BY <2>4
    <3>2. \A i \in 1..Len(rest) : i - at + 1 = i - 1
      BY <2>7
    <3>3. QED
      BY <3>1, <3>2
  <2> HIDE DEF filled
  <2>9. ASSUME NEW i \in 1..Len(rest), IsParam(rest[i])
        PROVE  i - 1 \in 1..Len(m.args)
    <3>1. CASE OfFiles(path)
      <4>1. b = 1 /\ Len(m.args) = n - 3 /\ Len(rest) = n - 2
        BY <1>1, <1>2, <1>4, <2>4, <3>1
      <4>2. i # 1 /\ n \in Nat
        BY <1>2, <2>5, <2>9
      <4>3. CASE n = 3
        BY <4>1, <4>2, <4>3
      <4>4. CASE n = 4
        BY <4>1, <4>2, <4>4
      <4>5. QED
        BY <1>0, <3>1, <4>3, <4>4
    <3>2. CASE OfApi(path)
      <4>1. b = 2 /\ Len(rest) = n - 3
        BY <1>2, <1>4, <2>4, <3>2
      <4>2. i # 1 /\ n \in Nat
        BY <1>2, <2>5, <2>9
      <4>3. i # 4
        <5>1. SUFFICES ASSUME i = 4
                       PROVE  FALSE
          OBVIOUS
        <5>2. n = 7
          BY <1>0, <3>2, <4>1, <5>1
        <5>3. rest[4] = path[7]
          BY <2>4, <4>1, <5>2
        <5>4. QED
          BY <1>5, <2>9, <3>2, <5>1, <5>2, <5>3 DEF OfApi, n
      <4>4. CASE n = 4
        BY <4>1, <4>2, <4>4
      <4>5. CASE n = 5
        <5>1. Len(m.args) = 1
          BY <1>1, <3>2, <4>5
        <5>2. Len(rest) = 2
          BY <4>1, <4>5
        <5>3. QED
          BY <4>2, <5>1, <5>2
      <4>6. CASE n = 6
        <5>1. Len(m.args) = 2
          BY <1>1, <3>2, <4>6
        <5>2. Len(rest) = 3
          BY <4>1, <4>6
        <5>3. QED
          BY <4>2, <5>1, <5>2
      <4>7. CASE n = 7
        <5>1. Len(m.args) = 2
          BY <1>1, <3>2, <4>7
        <5>2. Len(rest) = 4
          BY <4>1, <4>7
        <5>3. QED
          BY <4>2, <4>3, <5>1, <5>2
      <4>8. QED
        BY <1>0, <3>2, <4>4, <4>5, <4>6, <4>7
    <3>3. QED
      BY <1>2, <1>7, <3>1, <3>2
  <2>10. /\ filled \in Seq(Segments)
         /\ Len(filled) = Len(rest)
         /\ \A i \in 1..Len(rest) :
                filled[i] = IF IsParam(rest[i]) THEN m.args[i - 1] ELSE rest[i]
    <3>1. Len(rest) \in Nat
      BY <2>4
    <3>2. ASSUME NEW i \in 1..Len(rest)
          PROVE  (IF IsParam(rest[i]) THEN m.args[i - 1] ELSE rest[i])
                     \in Segments
      BY <1>1, <2>4, <2>9 DEF Segments
    <3>3. filled \in [1..Len(rest) -> Segments]
      BY <2>8, <3>2
    <3>4. filled \in Seq(Segments)
      BY <3>1, <3>3
    <3>5. QED
      BY <2>8, <3>1, <3>3, <3>4
  <2>11. /\ x \o m.repo \in Seq(Segments)
         /\ Len(x \o m.repo) = b + k
         /\ \A i \in 1..(b + k) : (x \o m.repo)[i] =
                IF i <= b THEN path[i] ELSE m.repo[i - b]
    <3>1. m.repo \in Seq(Segments)
      BY <1>1, SegmentsIn
    <3>2. /\ x \o m.repo \in Seq(Segments)
          /\ Len(x \o m.repo) = Len(x) + Len(m.repo)
          /\ \A i \in 1..(Len(x) + Len(m.repo)) : (x \o m.repo)[i] =
                 IF i <= Len(x) THEN x[i] ELSE m.repo[i - Len(x)]
      BY <2>3, <3>1, ConcatProperties
    <3>3. QED
      BY <1>1, <2>2, <2>3, <3>2
  <2>12. k \in Nat /\ b \in Nat /\ Len(rest) \in Nat
    BY <1>1, <2>2, <2>4
  <2>13. /\ u \in Seq(Segments)
         /\ Len(u) = b + k + Len(rest)
         /\ \A i \in 1..b : u[i] = path[i]
         /\ \A i \in 1..k : u[i + b] = m.repo[i]
         /\ \A i \in 1..Len(rest) : u[b + k + i] =
                IF IsParam(rest[i]) THEN m.args[i - 1] ELSE rest[i]
    <3> DEFINE y == x \o m.repo
    <3>1. /\ y \in Seq(Segments) /\ Len(y) = b + k
          /\ \A i \in 1..b : y[i] = path[i]
          /\ \A i \in 1..k : y[i + b] = m.repo[i]
      BY <2>11, <2>12
    <3> HIDE DEF y
    <3>2. /\ u \in Seq(Segments)
          /\ Len(u) = Len(y) + Len(filled)
          /\ \A i \in 1..(Len(y) + Len(filled)) :
                 u[i] = IF i <= Len(y) THEN y[i] ELSE filled[i - Len(y)]
      <4>1. u = y \o filled
        BY <1>3 DEF y
      <4>2. QED
        BY <2>10, <3>1, <4>1, ConcatProperties
    <3> HIDE DEF k
    <3>3. \A i \in 1..(b + k) : u[i] = y[i]
      BY <2>10, <2>12, <3>1, <3>2
    <3>4. \A i \in 1..Len(rest) : u[b + k + i] = filled[i]
      <4>1. TAKE i \in 1..Len(rest)
      <4> DEFINE j == b + k + i
      <4>2. /\ j \in 1..(Len(y) + Len(filled)) /\ ~(j <= Len(y))
            /\ j - Len(y) = i
        BY <2>10, <2>12, <3>1
      <4> HIDE DEF j
      <4>3. u[j] = filled[i]
        BY <3>2, <4>2
      <4>4. QED
        BY <4>3 DEF j
    <3>5. QED
      BY <2>10, <2>12, <3>1, <3>2, <3>3, <3>4
  <2> HIDE DEF k
  <2>14. u[1] = Empty
    BY <1>2, <2>2, <2>13
  <2>15. CASE OfFiles(path)
    <3>1. b = 1 /\ Len(rest) = n - 2
      BY <1>2, <1>4, <2>4, <2>15
    <3>2. Len(u) = n - 1 + k
      BY <1>2, <2>12, <2>13, <3>1
    <3>3. u[k + 2] = path[3]
      <4>1. u[b + k + 1] = rest[1]
        <5>1. 1 \in 1..Len(rest)
          BY <2>5, <2>12
        <5>2. QED
          BY <2>5, <2>13, <5>1
      <4>2. QED
        BY <2>5, <2>12, <3>1, <4>1
    <3>4. n = 4 => u[k + 3] = m.args[1]
      <4>1. SUFFICES ASSUME n = 4
                     PROVE  u[k + 3] = m.args[1]
        OBVIOUS
      <4>2. Len(rest) = 2
        BY <3>1, <4>1
      <4>3. u[b + k + 2] = m.args[2 - 1]
        BY <2>6, <2>13, <4>2
      <4>4. QED
        BY <2>12, <3>1, <4>3
    <3>5. QED
      BY <1>0, <1>7, <2>13, <2>14, <2>15, <3>1, <3>2, <3>3, <3>4
         DEF n, k, u
  <2>16. CASE OfApi(path)
    <3>1. b = 2 /\ Len(rest) = n - 3
      BY <1>2, <1>4, <2>4, <2>16
    <3>2. Len(u) = n - 1 + k
      BY <1>2, <2>12, <2>13, <3>1
    <3>3. u[k + 3] = path[4]
      <4>1. u[b + k + 1] = rest[1]
        <5>1. 1 \in 1..Len(rest)
          BY <2>5, <2>12
        <5>2. QED
          BY <2>5, <2>13, <5>1
      <4>2. QED
        BY <2>5, <2>12, <3>1, <4>1
    <3>4. n > 4 => u[k + 4] = m.args[1]
      <4>1. SUFFICES ASSUME n > 4
                     PROVE  u[k + 4] = m.args[1]
        OBVIOUS
      <4>2. Len(rest) >= 2
        BY <1>0, <2>16, <3>1, <4>1
      <4>3. u[b + k + 2] = m.args[2 - 1]
        BY <2>6, <2>12, <2>13, <4>2
      <4>4. QED
        BY <2>12, <3>1, <4>3
    <3>5. n > 5 => u[k + 5] = m.args[2]
      <4>1. SUFFICES ASSUME n > 5
                     PROVE  u[k + 5] = m.args[2]
        OBVIOUS
      <4>2. Len(rest) >= 3
        BY <1>0, <2>16, <3>1, <4>1
      <4>3. rest[3] = path[6]
        BY <2>4, <2>12, <3>1, <4>2
      <4>4. IsParam(rest[3])
        BY <1>5, <2>16, <4>1, <4>3 DEF OfApi, n
      <4>5. u[b + k + 3] = m.args[3 - 1]
        BY <2>12, <2>13, <4>2, <4>4
      <4>6. QED
        BY <2>12, <3>1, <4>5
    <3>6. n = 7 => u[k + 6] = path[7]
      <4>1. SUFFICES ASSUME n = 7
                     PROVE  u[k + 6] = path[7]
        OBVIOUS
      <4>2. Len(rest) = 4
        BY <3>1, <4>1
      <4>3. rest[4] = path[7]
        BY <2>4, <3>1, <4>1
      <4>4. ~IsParam(rest[4])
        BY <1>5, <2>16, <4>1, <4>3 DEF OfApi, n
      <4>5. u[b + k + 4] = path[7]
        BY <2>13, <4>2, <4>3, <4>4
      <4>6. QED
        BY <2>12, <3>1, <4>5
    <3>7. u[2] = "api"
      BY <2>13, <2>16, <3>1 DEF OfApi
    <3>8. QED
      BY <1>0, <1>7, <2>13, <2>14, <2>16, <3>1, <3>2, <3>3, <3>4, <3>5, <3>6,
         <3>7 DEF n, k, u
  <2>17. QED
    BY <1>2, <1>7, <2>15, <2>16
<1>8. QED
  BY <1>6, <1>7

(* Below the context path a URL is what it would be without it.            *)
LEMMA UrlShape ==
  ASSUME NEW c \in RouterConfig, NEW m, MayMean(c, m)
  PROVE  /\ Url(c, m) \in Seq(Segments)
         /\ InContext(c.contextPath, Url(c, m))
         /\ WithoutContext(c.contextPath, Url(c, m)) = Below(m)
<1> DEFINE u == Below(m)
           ctx == c.contextPath
           n == Len(ctx)
           url == Url(c, m)
           t == Tail(u)
<1>1. u \in Seq(Segments) /\ u[1] = Empty /\ Len(u) \in Nat /\ Len(u) >= 2
  <2> DEFINE path == m.route.path
             l == Len(path)
             k == Len(m.repo)
  <2>0. /\ u \in Seq(Segments)
        /\ u[1] = Empty
        /\ Single(path) => u = path
        /\ OfFiles(path) => Len(u) = l - 1 + k
        /\ OfApi(path) => Len(u) = l - 1 + k
    BY BelowShape
  <2> HIDE DEF u
  <2>1. u \in Seq(Segments) /\ u[1] = Empty /\ Len(u) \in Nat
    BY <2>0
  <2>2. path \in AllPaths /\ k \in Nat
    BY Meant
  <2>a. /\ Single(path) => l = 2
        /\ OfFiles(path) => l \in 3..7
        /\ OfApi(path) => l \in 3..7
        /\ Single(path) \/ OfFiles(path) \/ OfApi(path)
    BY <2>2, PathShapes DEF Single, OfFiles, OfApi
  <2>3. \/ l = 2 /\ Len(u) = l
        \/ l \in 3..7 /\ Len(u) = l - 1 + k
    BY <2>0, <2>a
  <2> HIDE DEF l, k
  <2>4. l \in 3..7 /\ Len(u) = l - 1 + k => Len(u) >= 2
    BY <2>2 DEF k
  <2>5. QED
    BY <2>1, <2>3, <2>4
<1>2. ctx \in Seq(STRING) /\ n \in Nat
  BY DEF RouterConfig
<1>3. url = IF ctx = <<>> THEN u ELSE ctx \o t
  BY DEF Url
<1> HIDE DEF u, url
<1>4. CASE ctx = <<>>
  BY <1>1, <1>3, <1>4 DEF InContext, WithoutContext, u, url
<1>5. CASE ctx # <<>>
  <2>1. n > 0
    BY <1>2, <1>5, EmptySeq
  <2>2. /\ t \in Seq(Segments) /\ Len(t) = Len(u) - 1
        /\ \A i \in 1..(Len(u) - 1) : t[i] = u[i + 1]
    BY <1>1
  <2> HIDE DEF t
  <2>3. /\ url \in Seq(Segments)
        /\ Len(url) = n + Len(t)
        /\ \A i \in 1..(n + Len(t)) :
               url[i] = IF i <= n THEN ctx[i] ELSE t[i - n]
    <3>1. ctx \in Seq(Segments) /\ url = ctx \o t
      BY <1>2, <1>3, <1>5, SegmentsIn
    <3>2. QED
      BY <2>2, <3>1, ConcatProperties
  <2> HIDE DEF n
  <2>4. Len(url) = n + Len(u) - 1 /\ Len(url) > n
    BY <1>1, <1>2, <2>2, <2>3
  <2>5. \A i \in 1..n : url[i] = ctx[i]
    BY <1>1, <1>2, <2>2, <2>3
  <2>6. url[n] = ctx[n]
    BY <1>2, <2>1, <2>5
  <2>7. SubSeq(url, 1, n - 1) = SubSeq(ctx, 1, n - 1)
    <3>1. SubSeq(url, 1, n - 1) = [i \in 1..(n - 1) |-> url[i]]
      BY <1>2, <2>1, <2>4
    <3>2. SubSeq(ctx, 1, n - 1) = [i \in 1..(n - 1) |-> ctx[i]]
      BY <1>2, <2>1
    <3>3. \A i \in 1..(n - 1) : url[i] = ctx[i]
      BY <1>2, <2>5
    <3>4. QED
      BY <3>1, <3>2, <3>3
  <2>8. InContext(ctx, url)
    BY <1>1, <1>2, <2>4, <2>6, <2>7 DEF InContext, BeginsWith, n
  <2>9. url # ctx
    BY <2>4 DEF n
  <2>10. WithoutContext(ctx, url) = u
    <3> DEFINE y == SubSeq(url, n + 1, Len(url))
               w == <<Empty>> \o y
    <3>1. WithoutContext(ctx, url) = w
      BY <1>5, <2>6, <2>9 DEF WithoutContext, n
    <3>2. /\ y \in Seq(Segments) /\ Len(y) = Len(t)
          /\ \A i \in 1..Len(t) : y[i] = t[i]
      <4>0. Len(t) \in Nat /\ Len(url) \in Nat
        BY <2>2, <2>3
      <4>1. \A i \in (n + 1)..Len(url) : url[i] \in Segments
        BY <1>2, <2>3
      <4>2. /\ y \in Seq(Segments)
            /\ Len(y) = IF n + 1 <= Len(url)
                        THEN Len(url) - (n + 1) + 1 ELSE 0
            /\ \A i \in 1..(Len(url) - (n + 1) + 1) :
                   y[i] = url[(n + 1) + i - 1]
        BY <1>2, <4>0, <4>1, SubSeqProperties
      <4> HIDE DEF y
      <4>3. Len(y) = Len(t)
        <5>1. n + 1 <= Len(url) /\ Len(url) - (n + 1) + 1 = Len(t)
          BY <1>2, <2>3, <2>4, <4>0
        <5>2. QED
          BY <4>2, <5>1
      <4>4. ASSUME NEW i \in 1..Len(t)
            PROVE  y[i] = t[i]
        <5> DEFINE j == n + i
        <5>1. /\ (n + 1) + i - 1 = j /\ i \in 1..(Len(url) - (n + 1) + 1)
              /\ j \in 1..(n + Len(t)) /\ ~(j <= n) /\ j - n = i
          BY <1>2, <2>3, <4>0
        <5> HIDE DEF j
        <5>2. url[j] = t[i]
          BY <2>3, <5>1
        <5>3. QED
          BY <4>2, <5>1, <5>2
      <4>5. QED
        BY <4>2, <4>3, <4>4
    <3> HIDE DEF y
    <3>3. /\ w \in Seq(Segments)
          /\ Len(w) = 1 + Len(y)
          /\ \A i \in 1..(1 + Len(y)) :
                 w[i] = IF i <= 1 THEN Empty ELSE y[i - 1]
      <4>1. /\ <<Empty>> \in Seq(Segments) /\ Len(<<Empty>>) = 1
            /\ <<Empty>>[1] = Empty
        BY SegmentsIn
      <4>2. /\ w \in Seq(Segments)
            /\ Len(w) = Len(<<Empty>>) + Len(y)
            /\ \A i \in 1..(Len(<<Empty>>) + Len(y)) :
                   w[i] = IF i <= Len(<<Empty>>) THEN <<Empty>>[i]
                          ELSE y[i - Len(<<Empty>>)]
        BY <3>2, <4>1, ConcatProperties
      <4> HIDE DEF w
      <4>3. \A i \in Nat : i >= 1 /\ i <= 1 => i = 1
        OBVIOUS
      <4>4. QED
        BY <3>2, <4>1, <4>2, <4>3
    <3> HIDE DEF w
    <3>4. Len(w) = Len(u)
      BY <1>1, <2>2, <3>2, <3>3
    <3>5. ASSUME NEW i \in 1..Len(u)
          PROVE  w[i] = u[i]
      <4>1. CASE i = 1
        BY <1>1, <2>2, <3>2, <3>3, <4>1
      <4>2. CASE i # 1
        <5> DEFINE j == i - 1
        <5>1. /\ j \in 1..Len(t) /\ j \in 1..(Len(u) - 1) /\ j + 1 = i
              /\ i \in 1..(1 + Len(y)) /\ ~(i <= 1)
          BY <1>1, <2>2, <3>2, <4>2
        <5>2. w[i] = y[j]
          BY <3>3, <5>1
        <5> HIDE DEF j
        <5>3. y[j] = t[j] /\ t[j] = u[j + 1]
          BY <2>2, <3>2, <5>1
        <5>4. QED
          BY <5>1, <5>2, <5>3
      <4>3. QED
        BY <4>1, <4>2
    <3>6. w = u
      BY <1>1, <3>3, <3>4, <3>5, SeqEqual
    <3>7. QED
      BY <3>1, <3>6
  <2>11. QED
    BY <2>3, <2>8, <2>10 DEF u, url
<1>6. QED
  BY <1>4, <1>5

(* What a URL is below the context path is a URL.                          *)
LEMMA UrlBelow ==
  ASSUME NEW ctx \in Seq(STRING), NEW url \in Seq(Segments),
         InContext(ctx, url)
  PROVE  WithoutContext(ctx, url) \in Seq(Segments)
<1> DEFINE n == Len(ctx)
           head == IF url[n] = ctx[n] THEN Empty
                   ELSE Longer[<<ctx[n], url[n]>>]
           y == SubSeq(url, n + 1, Len(url))
<1>1. CASE ctx = <<>>
  BY <1>1 DEF WithoutContext
<1>2. CASE url = ctx
  <2>1. RootPath \in AllPaths
    BY DEF AllPaths
  <2>2. RootPath \in Seq(Segments)
    BY <2>1, PathShapes, SegmentsIn
  <2>3. QED
    BY <1>2, <2>2 DEF WithoutContext
<1>3. CASE ctx # <<>> /\ url # ctx
  <2>1. BeginsWith(url[n], ctx[n]) /\ Len(url) >= n
    BY <1>3 DEF InContext
  <2>2. head \in Segments
    BY <2>1, SegmentsIn DEF BeginsWith, Segments
  <2>3. n \in Nat /\ Len(url) \in Nat
    OBVIOUS
  <2>4. y \in Seq(Segments)
    <3>1. \A i \in (n + 1)..Len(url) : url[i] \in Segments
      BY <2>3
    <3>2. QED
      BY <2>3, <3>1, SubSeqProperties
  <2>5. WithoutContext(ctx, url) = <<head>> \o y
    BY <1>3 DEF WithoutContext
  <2> HIDE DEF head, y
  <2>6. <<head>> \in Seq(Segments)
    BY <2>2
  <2>7. QED
    BY <2>4, <2>5, <2>6, ConcatProperties
<1>4. QED
  BY <1>1, <1>2, <1>3
-----------------------------------------------------------------------------
(* Two routes for one URL, tenant and method are one, but for the root.    *)
LEMMA OneMatches ==
  ASSUME NEW c, NEW method, NEW url, NEW depth \in Nat,
         NEW i \in Matching(c, method, url, depth),
         NEW j \in Matching(c, method, url, depth)
  PROVE  i = j \/ \E k \in {i, j} : Routes(c)[k].path = RootPath
<1> DEFINE p == Routes(c)[i].path
           r == Routes(c)[j].path
<1>1. Routes(c) \in Seq(AllRoutes) /\ Once(Routes(c))
  BY RoutesOnce
<1>2. /\ i \in 1..Len(Routes(c)) /\ j \in 1..Len(Routes(c))
      /\ Routes(c)[i].method = method /\ Routes(c)[j].method = method
      /\ RouteMatches(Routes(c)[i], url, depth)
      /\ RouteMatches(Routes(c)[j], url, depth)
  BY <1>1 DEF Matching
<1>3. /\ Routes(c)[i] \in AllRoutes /\ p \in AllPaths
      /\ Routes(c)[j] \in AllRoutes /\ r \in AllPaths
  BY <1>1, <1>2, RouteFields
<1>4. ASSUME p = r
      PROVE  i = j
  <2>1. Routes(c)[i] = Routes(c)[j]
    BY <1>2, <1>3, <1>4, RouteFields
  <2>2. QED
    BY <1>1, <1>2, <2>1 DEF Once
<1>5. /\ \/ p = url
         \/ TryRepoRoutes(url, depth) /\ Fits(p, NoRepoPath(url, depth))
      /\ \/ r = url
         \/ TryRepoRoutes(url, depth) /\ Fits(r, NoRepoPath(url, depth))
  BY <1>2 DEF RouteMatches, Fits
<1> HIDE DEF p, r
<1>6. p = r \/ p = RootPath \/ r = RootPath
  <2>1. CASE p = url /\ r = url
    BY <2>1
  <2>2. CASE p = url /\ r # url
    BY <1>3, <1>5, <2>2, RawFits
  <2>3. CASE p # url /\ r = url
    BY <1>3, <1>5, <2>3, RawFits
  <2>4. CASE p # url /\ r # url
    BY <1>3, <1>5, <2>4, OneFits
  <2>5. QED
    BY <2>1, <2>2, <2>3, <2>4
<1>7. QED
  BY <1>4, <1>6 DEF p, r

LEMMA DepthIn ==
  ASSUME NEW c \in RouterConfig, NEW url \in Seq(Segments)
  PROVE  DepthOf(c, url) \in Int
<1> DEFINE routes == Routes(c)
           fit == {i \in DOMAIN routes :
                      /\ (routes[i].path[2] = "api") <=> CheckApiRoute(url)
                      /\ GetDepth(url, routes[i].path) >= 0}
<1>1. routes \in Seq(AllRoutes)
  BY RoutesOnce
<1>2. \A i \in 1..Len(routes) : GetDepth(url, routes[i].path) \in Int
  <2>1. TAKE i \in 1..Len(routes)
  <2>2. routes[i].path \in AllPaths
    BY <1>1, RouteFields
  <2>3. Len(routes[i].path) \in Nat /\ Len(url) \in Nat
    BY <2>2, PathShapes
  <2>4. QED
    BY <2>3 DEF GetDepth
<1>3. fit # {} => First(fit) \in 1..Len(routes)
  <2>1. fit \in SUBSET Nat /\ fit \subseteq 1..Len(routes)
    BY <1>1
  <2> HIDE DEF fit
  <2>2. QED
    BY <2>1, FirstOf
<1>4. \/ DepthOf(c, url) \in {c.depth, -1}
      \/ fit # {} /\ DepthOf(c, url) = GetDepth(url, routes[First(fit)].path)
  <2> DEFINE kind == {i \in DOMAIN routes :
                      (routes[i].path[2] = "api") <=> CheckApiRoute(url)}
             fit2 == {i \in kind : GetDepth(url, routes[i].path) >= 0}
  <2>1. fit2 = fit
    OBVIOUS
  <2>2. DepthOf(c, url) = IF ~c.depthDynamic \/ kind = {} THEN c.depth
                          ELSE IF fit2 = {} THEN -1
                          ELSE GetDepth(url, routes[First(fit2)].path)
    BY DEF DepthOf
  <2> HIDE DEF kind, fit2, fit
  <2> QED
    BY <2>1, <2>2
<1> HIDE DEF fit, routes
<1>5. c.depth \in Int
  BY DEF RouterConfig
<1>6. QED
  BY <1>2, <1>3, <1>4, <1>5
-----------------------------------------------------------------------------
(* No path begins like one of the web template but its own.                *)
LEMMA StaticAlone ==
  /\ \A t \in Words \cup {":repo"} : BeginsWith(t, "static") => t = "static"
  /\ \A p \in AllPaths : CheckStaticRoute(p) <=> p = StaticPath
<1>1. \A t \in Words \cup {":repo"} : BeginsWith(t, "static") => t = "static"
  BY WordAssumption DEF BeginsWith
<1>2. ASSUME NEW p \in AllPaths
      PROVE  CheckStaticRoute(p) <=> p = StaticPath
  <2>1. /\ p[1] = Empty /\ Len(p) >= 2
        /\ p[2] \in Words \cup {":repo"}
    BY PathShapes DEF Single, OfFiles, OfApi, Words
  <2>2. CheckStaticRoute(p) <=> p[2] = "static"
    BY <1>1, <2>1 DEF CheckStaticRoute, BeginsWith
  <2>3. ASSUME p[2] = "static"
        PROVE  p = StaticPath
    <3>1. Len(p) = 2
      BY <2>3, PathShapes, EmptyIsNoWord DEF Single, OfFiles, OfApi
    <3>2. StaticPath \in AllPaths /\ Len(StaticPath) = 2
          /\ StaticPath[2] = "static"
      BY PathsApart DEF AllPaths
    <3>3. QED
      BY <2>3, <3>1, <3>2, SamePath
  <2>4. StaticPath[2] = "static"
    BY PathsApart
  <2>5. QED
    BY <2>2, <2>3, <2>4
<1>3. QED
  BY <1>1, <1>2

(* The route of one segment is found as it is.                             *)
LEMMA SingleFound ==
  ASSUME NEW c \in RouterConfig, NEW m, MayMean(c, m), ~Shadowed(c, m),
         Single(m.route.path)
  PROVE  MatchUrl(c, m.route.method, m.route.path) = Found(m.route, <<>>, <<>>)
<1> DEFINE path == m.route.path
           method == m.route.method
           routes == Routes(c)
           short == Shortcut(c, method, path)
           depth == DepthOf(c, path)
           fit == Matching(c, method, path, depth)
<1>1. /\ \E i \in 1..Len(routes) : m.route = routes[i]
      /\ m.route \in AllRoutes /\ path \in AllPaths
  BY Meant
<1>2. routes \in Seq(AllRoutes)
  BY RoutesOnce
<1>3. PICK i \in 1..Len(routes) : m.route = routes[i]
  BY <1>1
<1>4. method = "GET"
  <2>1. path[2] \notin {":repo", "api"}
    BY EmptyIsNoWord DEF Single
  <2>2. QED
    BY <1>3, <2>1, RoutesOnce
<1>5. ASSUME NEW j \in 1..Len(routes), routes[j].method = method,
             routes[j].path = path
      PROVE  routes[j] = m.route
  <2>1. routes[j] \in AllRoutes
    BY <1>2
  <2>2. QED
    BY <1>1, <1>5, <2>1, RouteFields
<1>6. Len(path) = 2 /\ path[1] = Empty /\ path \in Seq(Words \cup Blanks)
  BY <1>1, PathShapes DEF Single
<1>7. MatchUrl(c, method, path) =
          IF short # {} THEN Found(routes[First(short)], <<>>, <<>>)
          ELSE IF depth < 0 \/ fit = {} THEN NotFound
          ELSE IF routes[First(fit)].path = path
          THEN Found(routes[First(fit)], <<>>, <<>>)
          ELSE IF IsRepoPath(routes[First(fit)], path, depth)
          THEN Found(routes[First(fit)], RepoOf(path, depth), <<>>)
          ELSE Found(routes[First(fit)], RepoOf(path, depth),
                     ArgsOf(routes[First(fit)], path, depth))
  BY DEF MatchUrl
<1>8. \A j \in 1..Len(routes) :
          routes[j] \in AllRoutes /\ routes[j].path \in AllPaths
  BY <1>2, RouteFields
<1>9. DOMAIN routes = 1..Len(routes)
  BY <1>2
<1>10. short = {j \in 1..Len(routes) :
                   \/ path = HealthPath /\ routes[j].path = path
                   \/ path = StaticPath /\ routes[j].path = StaticPath}
  <2> HIDE DEF routes, path
  <2>1. short = {j \in DOMAIN routes :
                    \/ path = HealthPath /\ routes[j].path = path
                    \/ /\ CheckStaticRoute(path)
                       /\ CheckStaticRoute(routes[j].path)}
    BY <1>4 DEF Shortcut, routes, path
  <2>2. CheckStaticRoute(path) <=> path = StaticPath
    BY <1>1, StaticAlone
  <2>3. \A j \in 1..Len(routes) : CheckStaticRoute(routes[j].path) <=>
                                      routes[j].path = StaticPath
    BY <1>8, StaticAlone
  <2>4. QED
    BY <1>9, <2>1, <2>2, <2>3
<1> HIDE DEF short, routes, depth, fit
<1>11. CASE path \in {HealthPath, StaticPath}
  <2>1. i \in short /\ short \in SUBSET Nat
    BY <1>3, <1>10, <1>11
  <2>2. First(short) \in short
    BY <2>1, FirstOf
  <2>3. /\ First(short) \in 1..Len(routes)
        /\ routes[First(short)].path = path
    BY <1>10, <2>2
  <2>4. routes[First(short)].method = method
    <3>1. path[2] \notin {":repo", "api"}
      BY EmptyIsNoWord DEF Single
    <3>2. QED
      BY <1>4, <2>3, <3>1, RoutesOnce DEF routes
  <2>5. routes[First(short)] = m.route
    BY <1>5, <2>3, <2>4
  <2>6. QED
    BY <1>7, <2>1, <2>5
<1>12. CASE path \notin {HealthPath, StaticPath}
  <2>1. short = {}
    BY <1>10, <1>12
  <2>2. path = RootPath \/ (c.depth # 1 /\ ~c.depthDynamic)
    <3>1. BeforeRepo(path) = Len(path)
      BY <1>1, RepoAt
    <3>2. ASSUME path # RootPath
          PROVE  path[2] \in {"info", "artifacthub-repo.yml"}
      <4>1. /\ {RootPath, HealthPath, StaticPath} \subseteq AllPaths
            /\ \A p \in {RootPath, HealthPath, StaticPath} : Len(p) = 2
            /\ RootPath[2] = Empty /\ HealthPath[2] = "health"
            /\ StaticPath[2] = "static"
        BY PathsApart DEF AllPaths
      <4>2. path[2] \notin {Empty, "health", "static"}
        BY <1>1, <1>6, <1>12, <3>2, <4>1, SamePath
      <4>3. QED
        BY <4>2 DEF Single
    <3>3. QED
      BY <1>6, <3>1, <3>2 DEF Shadowed
  <2>3. depth \in Nat
    <3>1. CASE ~c.depthDynamic
      BY <3>1 DEF DepthOf, RouterConfig, depth
    <3>2. CASE c.depthDynamic
      <4>1. path = RootPath
        BY <2>2, <3>2
      <4> DEFINE dfit == {j \in DOMAIN routes :
                      /\ (routes[j].path[2] = "api") <=> CheckApiRoute(path)
                      /\ GetDepth(path, routes[j].path) >= 0}
      <4>2. GetDepth(path, path) = 1
        <5>1. BeforeRepo(path) = 2
          BY <1>1, <1>6, RepoAt
        <5>2. \A j \in 1..2 : j = 1 \/ j = 2
          OBVIOUS
        <5>3. \A j \in 1..2 : IF IsParam(path[j]) THEN path[j] # Empty
                              ELSE path[j] = path[j]
          BY <4>1, <5>2, EmptyIsNoWord, PathsApart, <1>6 DEF IsParam, Blanks
        <5>4. MatchesPattern(path, path)
          <6>1. \A j \in (2 + 2)..2 : FALSE
            OBVIOUS
          <6>2. Len(path) - Len(path) + 1 = 1
            BY <1>6
          <6>3. QED
            BY <1>6, <5>1, <5>3, <6>1, <6>2 DEF MatchesPattern
        <5>5. QED
          BY <1>6, <5>4 DEF GetDepth
      <4>3. ~CheckApiRoute(path) /\ path[2] # "api"
        BY <1>6, EmptyIsNoWord DEF CheckApiRoute, Single
      <4>4. i \in dfit
        BY <1>3, <1>9, <4>2, <4>3
      <4>5. dfit \in SUBSET Nat
        BY <1>9
      <4>6. First(dfit) \in dfit
        <5> HIDE DEF dfit
        <5>1. QED
          BY <4>4, <4>5, FirstOf
      <4>7. depth >= 0
        <5> DEFINE kind == {j \in DOMAIN routes :
                      (routes[j].path[2] = "api") <=> CheckApiRoute(path)}
                   fit2 == {j \in kind : GetDepth(path, routes[j].path) >= 0}
        <5>0. fit2 = dfit /\ kind # {}
          BY <4>4
        <5>1. depth = GetDepth(path, routes[First(dfit)].path)
          <6>1. depth = IF ~c.depthDynamic \/ kind = {} THEN c.depth
                        ELSE IF fit2 = {} THEN -1
                        ELSE GetDepth(path, routes[First(fit2)].path)
            BY DEF DepthOf, depth, routes
          <6> HIDE DEF kind, fit2, dfit
          <6> QED
            BY <3>2, <4>4, <5>0, <6>1
        <5>2. QED
          BY <4>6, <5>1
      <4>8. depth \in Int
        BY <1>6, DepthIn, SegmentsIn DEF depth
      <4>9. QED
        BY <4>7, <4>8
    <3>3. QED
      BY <3>1, <3>2
  <2>4. i \in fit
    BY <1>3, <1>9 DEF fit, Matching, RouteMatches, routes
  <2>5. ASSUME NEW j \in fit
        PROVE  routes[j] = m.route
    <3>1. /\ j \in 1..Len(routes) /\ routes[j].method = method
          /\ RouteMatches(routes[j], path, depth)
      BY <1>9 DEF fit, Matching, routes
    <3>2. routes[j].path = path
      <4>1. CASE routes[j].path = path
        BY <4>1
      <4>2. CASE /\ TryRepoRoutes(path, depth)
                 /\ Fits(routes[j].path, NoRepoPath(path, depth))
        <5>1. \/ routes[j].path = path
              \/ routes[j].path = RootPath /\ depth = 1
          BY <1>1, <1>8, <2>3, <3>1, <4>2, RawFits
        <5>2. path = RootPath \/ depth # 1
          BY <2>2 DEF DepthOf, depth
        <5>3. QED
          BY <5>1, <5>2
      <4>3. QED
        BY <3>1, <4>1, <4>2 DEF RouteMatches, Fits
    <3>3. QED
      BY <1>5, <3>1, <3>2
  <2>6. First(fit) \in fit
    <3>1. fit \in SUBSET Nat
      BY <1>9 DEF fit, Matching, routes
    <3>2. QED
      BY <2>4, <3>1, FirstOf
  <2>7. routes[First(fit)] = m.route
    BY <2>5, <2>6
  <2>8. ~(depth < 0) /\ fit # {}
    BY <2>3, <2>4
  <2> HIDE DEF path, method
  <2>9. MatchUrl(c, method, path) = Found(m.route, <<>>, <<>>)
    BY <1>7, <2>1, <2>7, <2>8 DEF path
  <2>10. QED
    BY <2>9 DEF path, method
<1>13. QED
  BY <1>11, <1>12
-----------------------------------------------------------------------------
(* The URL of a meaning is one of the API's if its route is.               *)
LEMMA BelowApi ==
  ASSUME NEW c, NEW m, MayMean(c, m), ~Shadowed(c, m), ~Single(m.route.path)
  PROVE  CheckApiRoute(Below(m)) <=> OfApi(m.route.path)
<1> DEFINE path == m.route.path
           n == Len(path)
           k == Len(m.repo)
           u == Below(m)
           args == m.args
<1>1. /\ path \in AllPaths /\ k \in Nat /\ Len(args) \in Nat
      /\ OfFiles(path) =>
             /\ Len(args) = n - 3
             /\ n = 4 => args[1] \in FileNames \ {"index.yaml"}
      /\ OfApi(path) =>
             /\ n = 4 => Len(args) = 0
             /\ n = 5 => Len(args) = 1
             /\ n > 5 => Len(args) = 2
  BY Meant
<1>2. /\ u \in Seq(Segments)
      /\ u[1] = Empty
      /\ OfFiles(path) =>
             /\ Len(u) = n - 1 + k
             /\ u[k + 2] = path[3]
             /\ n = 4 => u[k + 3] = args[1]
      /\ OfApi(path) =>
             /\ Len(u) = n - 1 + k
             /\ u[2] = "api"
             /\ u[k + 3] = path[4]
             /\ n > 4 => u[k + 4] = args[1]
             /\ n > 5 => u[k + 5] = args[2]
             /\ n = 7 => u[k + 6] = path[7]
  BY BelowShape
<1>3. /\ OfFiles(path) => n = 3 \/ n = 4
      /\ OfApi(path) => n = 4 \/ n = 5 \/ n = 6 \/ n = 7
      /\ ~(OfFiles(path) /\ OfApi(path))
      /\ OfFiles(path) \/ OfApi(path)
  BY <1>1, PathShapes, EmptyIsNoWord DEF OfFiles, OfApi
<1>4. /\ "index.yaml" \in FileNames
      /\ {"charts", "prov", "templates", "values"} \cap FileNames = {}
  BY WordAssumption, EmptyIsNoWord DEF Words
<1>5. ASSUME OfApi(path), Len(args) > 0
      PROVE  args[Len(args)] \notin FileNames
  <2>1. args # <<>>
    BY <1>5
  <2>2. path[2] = "api"
    BY <1>5 DEF OfApi
  <2>3. QED
    BY <2>1, <2>2 DEF Shadowed
<1>6. /\ OfFiles(path) => /\ path[3] = "index.yaml" \/ n = 4
      /\ OfApi(path) => /\ path[4] \in {"charts", "prov"}
                        /\ n = 7 => path[7] \in {"templates", "values"}
  BY DEF OfFiles, OfApi
<1> HIDE DEF u, n, k, args, path
<1>7. CASE OfFiles(path)
  <2>1. u[Len(u)] \in FileNames
    <3>1. CASE n = 3
      <4>1. Len(u) = k + 2
        BY <1>1, <1>2, <1>7, <3>1
      <4>2. QED
        BY <1>2, <1>4, <1>6, <1>7, <3>1, <4>1
    <3>2. CASE n = 4
      <4>1. Len(u) = k + 3
        BY <1>1, <1>2, <1>7, <3>2
      <4>2. QED
        BY <1>1, <1>2, <1>7, <3>2, <4>1
    <3>3. QED
      BY <1>3, <1>7, <3>1, <3>2
  <2>2. QED
    BY <1>3, <1>7, <2>1 DEF CheckApiRoute, u, path
<1>8. CASE OfApi(path)
  <2>1. u[Len(u)] \notin FileNames
    <3>1. CASE n = 4
      <4>1. Len(u) = k + 3
        BY <1>1, <1>2, <1>8, <3>1
      <4>2. QED
        BY <1>2, <1>4, <1>6, <1>8, <3>1, <4>1
    <3>2. CASE n = 5
      <4>1. Len(u) = k + 4 /\ Len(args) = 1
        BY <1>1, <1>2, <1>8, <3>2
      <4>2. u[k + 4] = args[1]
        BY <1>2, <1>8, <3>2
      <4>3. QED
        BY <1>5, <1>8, <4>1, <4>2
    <3>3. CASE n = 6
      <4>1. Len(u) = k + 5 /\ Len(args) = 2
        BY <1>1, <1>2, <1>8, <3>3
      <4>2. u[k + 5] = args[2]
        BY <1>2, <1>8, <3>3
      <4>3. QED
        BY <1>5, <1>8, <4>1, <4>2
    <3>4. CASE n = 7
      <4>1. Len(u) = k + 6
        BY <1>1, <1>2, <1>8, <3>4
      <4>2. QED
        BY <1>2, <1>4, <1>6, <1>8, <3>4, <4>1
    <3>5. QED
      BY <1>3, <1>8, <3>1, <3>2, <3>3, <3>4
  <2>2. Len(u) >= 3
    BY <1>1, <1>2, <1>3, <1>8
  <2>3. CheckApiRoute(u)
    BY <1>2, <1>8, <2>1, <2>2 DEF CheckApiRoute
  <2>4. QED
    BY <1>8, <2>3 DEF u, path
<1>9. QED
  BY <1>3, <1>7, <1>8 DEF path, u

(* Where the tenant of a meaning stands in its URL, and what is left of    *)
(* the URL without it, beside the path of the route.                       *)
OwnPlace(m) ==
    LET path == m.route.path
        n == Len(path)
        k == Len(m.repo)
        a == Len(m.args)
        u == Below(m)
        s == StartIndex(u)
        q == NoRepoPath(u, k)
        w == WithoutRepo(path)
    IN  /\ s = IF OfApi(path) THEN 2 ELSE 1
        /\ TryRepoRoutes(u, k)
        /\ Len(u) = n - 1 + k
        /\ \A i \in 1..k : u[i + s] = m.repo[i]
        /\ q \in Seq(Segments) /\ Len(q) = n - 1
        /\ w \in Seq(Words \cup Blanks) /\ Len(w) = n - 1
        /\ a \in Nat /\ s + 1 + a <= n - 1
        /\ a = 0 => s + 1 = n - 1
        /\ \A i \in 1..(s + 1) : ~IsParam(w[i]) /\ w[i] = q[i]
        /\ \A i \in 1..a : IsParam(w[s + 1 + i])
                              /\ q[s + 1 + i] = m.args[i]
        /\ \A i \in (s + 2 + a)..(n - 1) : ~IsParam(w[i]) /\ w[i] = q[i]

LEMMA OwnShape ==
  ASSUME NEW c, NEW m, MayMean(c, m), ~Shadowed(c, m), ~Single(m.route.path)
  PROVE  OwnPlace(m)
<1> DEFINE path == m.route.path
           n == Len(path)
           k == Len(m.repo)
           u == Below(m)
           args == m.args
           a == Len(args)
           s == StartIndex(u)
           q == NoRepoPath(u, k)
           w == WithoutRepo(path)
<1>1. /\ path \in AllPaths /\ k \in Nat /\ a \in Nat
      /\ OfFiles(path) =>
             /\ a = n - 3
             /\ n = 4 => args[1] \in FileNames \ {"index.yaml"}
      /\ OfApi(path) =>
             /\ n = 4 => a = 0
             /\ n = 5 => a = 1
             /\ n > 5 => a = 2
  BY Meant
<1>2. /\ u \in Seq(Segments)
      /\ u[1] = Empty
      /\ OfFiles(path) =>
             /\ Len(u) = n - 1 + k
             /\ \A i \in 1..k : u[i + 1] = m.repo[i]
             /\ u[k + 2] = path[3]
             /\ n = 4 => u[k + 3] = args[1]
      /\ OfApi(path) =>
             /\ Len(u) = n - 1 + k
             /\ u[2] = "api"
             /\ \A i \in 1..k : u[i + 2] = m.repo[i]
             /\ u[k + 3] = path[4]
             /\ n > 4 => u[k + 4] = args[1]
             /\ n > 5 => u[k + 5] = args[2]
             /\ n = 7 => u[k + 6] = path[7]
  BY BelowShape
<1>3. /\ OfFiles(path) => n = 3 \/ n = 4
      /\ OfApi(path) => n = 4 \/ n = 5 \/ n = 6 \/ n = 7
      /\ ~(OfFiles(path) /\ OfApi(path))
      /\ OfFiles(path) \/ OfApi(path)
  BY <1>1, PathShapes, EmptyIsNoWord DEF OfFiles, OfApi
<1>4. /\ \A t \in {Empty, "index.yaml", "charts", "prov", "api", "templates",
                   "values"} : ~IsParam(t)
      /\ \A t \in {":name", ":version", ":filename"} : IsParam(t)
  BY EmptyIsNoWord DEF IsParam, Blanks
<1>5. s = IF OfApi(path) THEN 2 ELSE 1
  BY BelowApi DEF StartIndex
<1>6. ASSUME TryRepoRoutes(u, k)
      PROVE
        /\ q \in Seq(Segments)
        /\ q[1] = Empty
        /\ s = 2 => q[2] = "api"
        /\ Len(u) > s + k =>
             /\ Len(q) = Len(u) - k
             /\ \A i \in (s + 1)..Len(q) : q[i] = u[i + k]
  <2>1. u \in Seq(Segments) /\ k \in Nat
    BY <1>1, <1>2
  <2> HIDE DEF u, k
  <2>2. QED
    BY <1>6, <2>1, RestOf, SegmentsIn
<1>7. /\ w \in Seq(Words \cup Blanks)
      /\ w[1] = Empty
      /\ Len(w) = n - 1
      /\ OfFiles(path) => \A i \in 2..Len(w) : w[i] = path[i + 1]
      /\ OfApi(path) => /\ w[2] = "api"
                        /\ \A i \in 3..Len(w) : w[i] = path[i + 1]
  BY <1>1, BarePath
<1>8. /\ OfFiles(path) =>
             /\ path[3] \in {"index.yaml", "charts"}
             /\ n = 4 => path[4] = ":filename"
      /\ OfApi(path) => /\ path[4] \in {"charts", "prov"}
                        /\ n > 4 => path[5] = ":name"
                        /\ n > 5 => path[6] = ":version"
                        /\ n = 7 => path[7] \in {"templates", "values"}
  BY DEF OfFiles, OfApi
<1> DEFINE Goal ==
             /\ s = IF OfApi(path) THEN 2 ELSE 1
             /\ TryRepoRoutes(u, k)
             /\ Len(u) = n - 1 + k
             /\ \A i \in 1..k : u[i + s] = m.repo[i]
             /\ q \in Seq(Segments) /\ Len(q) = n - 1
             /\ w \in Seq(Words \cup Blanks) /\ Len(w) = n - 1
             /\ a \in Nat /\ s + 1 + a <= n - 1
             /\ a = 0 => s + 1 = n - 1
             /\ \A i \in 1..(s + 1) : ~IsParam(w[i]) /\ w[i] = q[i]
             /\ \A i \in 1..a : IsParam(w[s + 1 + i])
                                   /\ q[s + 1 + i] = args[i]
             /\ \A i \in (s + 2 + a)..(n - 1) : ~IsParam(w[i]) /\ w[i] = q[i]
<1>9. Len(u) >= k + s <=> TryRepoRoutes(u, k)
  BY DEF TryRepoRoutes
<1> HIDE DEF w, q, s, a, u, k, n, args, path
<1>10. ASSUME OfFiles(path)
       PROVE  Goal
  <2>1. s = 1 /\ Len(u) = n - 1 + k /\ n \in 3..4 /\ a = n - 3
    BY <1>1, <1>2, <1>3, <1>5, <1>10
  <2>2. Len(u) >= k + s /\ Len(u) > s + k /\ Len(u) - k = n - 1
    BY <1>1, <2>1
  <2>3. /\ q \in Seq(Segments) /\ q[1] = Empty /\ Len(q) = n - 1
        /\ \A i \in 2..(n - 1) : q[i] = u[i + k]
    BY <1>6, <1>9, <2>1, <2>2
  <2>4. q[2] = path[3] /\ w[2] = path[3]
    <3>1. 2 \in 2..(n - 1) /\ 2 + k = k + 2
      BY <1>1, <2>1
    <3>2. QED
      BY <1>2, <1>7, <1>10, <2>1, <2>3, <3>1
  <2>5. ASSUME n = 4
        PROVE  q[3] = args[1] /\ IsParam(w[3])
    <3>1. 3 \in 2..(n - 1) /\ 3 + k = k + 3
      BY <1>1, <2>1, <2>5
    <3>2. q[3] = args[1] /\ w[3] = path[4]
      BY <1>2, <1>7, <1>10, <2>1, <2>3, <2>5, <3>1
    <3>3. QED
      BY <1>4, <1>8, <1>10, <2>5, <3>2
  <2>6. \A i \in 1..(s + 1) : ~IsParam(w[i]) /\ w[i] = q[i]
    <3>1. \A i \in 1..(s + 1) : i = 1 \/ i = 2
      BY <2>1
    <3>2. QED
      BY <1>4, <1>7, <1>8, <1>10, <2>3, <2>4, <3>1
  <2>7. \A i \in 1..a : IsParam(w[s + 1 + i]) /\ q[s + 1 + i] = args[i]
    <3>1. \A i \in 1..a : i = 1 /\ n = 4 /\ s + 1 + i = 3
      BY <2>1
    <3>2. QED
      BY <2>5, <3>1
  <2>8. \A i \in (s + 2 + a)..(n - 1) : FALSE
    BY <2>1
  <2>9. s + 1 + a <= n - 1 /\ (a = 0 => s + 1 = n - 1)
    BY <2>1
  <2>10. \A i \in 1..k : u[i + s] = m.repo[i]
    BY <1>2, <1>10, <2>1
  <2>11. QED
    BY <1>1, <1>5, <1>7, <1>9, <2>1, <2>2, <2>3, <2>6, <2>7, <2>8, <2>9, <2>10
<1>11. ASSUME OfApi(path)
       PROVE  Goal
  <2>1. s = 2 /\ Len(u) = n - 1 + k /\ n \in 4..7
    BY <1>1, <1>2, <1>3, <1>5, <1>11
  <2>2. Len(u) >= k + s /\ Len(u) > s + k /\ Len(u) - k = n - 1
    BY <1>1, <2>1
  <2>3. /\ q \in Seq(Segments) /\ q[1] = Empty /\ Len(q) = n - 1
        /\ q[2] = "api"
        /\ \A i \in 3..(n - 1) : q[i] = u[i + k]
    BY <1>6, <1>9, <2>1, <2>2
  <2>a. \A i \in 3..(n - 1) : w[i] = path[i + 1]
    BY <1>7, <1>11
  <2>4. q[3] = path[4] /\ w[3] = path[4]
    <3>1. 3 \in 3..(n - 1) /\ 3 + k = k + 3
      BY <1>1, <2>1
    <3>2. QED
      BY <1>2, <1>11, <2>3, <2>a, <3>1
  <2>5. ASSUME n > 4
        PROVE  q[4] = args[1] /\ IsParam(w[4])
    <3>1. 4 \in 3..(n - 1) /\ 4 + k = k + 4
      BY <1>1, <2>1, <2>5
    <3>2. q[4] = args[1] /\ w[4] = path[5]
      BY <1>2, <1>11, <2>3, <2>5, <2>a, <3>1
    <3>3. QED
      BY <1>4, <1>8, <1>11, <2>5, <3>2
  <2>6. ASSUME n > 5
        PROVE  q[5] = args[2] /\ IsParam(w[5])
    <3>1. 5 \in 3..(n - 1) /\ 5 + k = k + 5
      BY <1>1, <2>1, <2>6
    <3>2. q[5] = args[2] /\ w[5] = path[6]
      BY <1>2, <1>11, <2>3, <2>6, <2>a, <3>1
    <3>3. QED
      BY <1>4, <1>8, <1>11, <2>6, <3>2
  <2>7. ASSUME n = 7
        PROVE  q[6] = w[6] /\ ~IsParam(w[6])
    <3>1. 6 \in 3..(n - 1) /\ 6 + k = k + 6
      BY <1>1, <2>1, <2>7
    <3>2. q[6] = path[7] /\ w[6] = path[7]
      BY <1>2, <1>11, <2>3, <2>7, <2>a, <3>1
    <3>3. QED
      BY <1>4, <1>8, <1>11, <2>7, <3>2
  <2>8. \A i \in 1..(s + 1) : ~IsParam(w[i]) /\ w[i] = q[i]
    <3>1. \A i \in 1..(s + 1) : i = 1 \/ i = 2 \/ i = 3
      BY <2>1
    <3>2. QED
      BY <1>4, <1>7, <1>8, <1>11, <2>3, <2>4, <3>1
  <2>9. a = 0 \/ (a = 1 /\ n = 5) \/ (a = 2 /\ n = 6) \/ (a = 2 /\ n = 7)
    BY <1>1, <1>3, <1>11
  <2>10. n = 4 => a = 0
    BY <1>1, <1>11
  <2>b. a = 0 => n = 4
    BY <1>1, <1>3, <1>11
  <2>11. \A i \in 1..a : IsParam(w[s + 1 + i]) /\ q[s + 1 + i] = args[i]
    <3>1. \A i \in 1..a : \/ i = 1 /\ n > 4 /\ s + 1 + i = 4
                          \/ i = 2 /\ n > 5 /\ s + 1 + i = 5
      BY <2>1, <2>9
    <3>2. QED
      BY <2>5, <2>6, <3>1
  <2>12. \A i \in (s + 2 + a)..(n - 1) : ~IsParam(w[i]) /\ w[i] = q[i]
    <3>1. \A i \in (s + 2 + a)..(n - 1) : i = 6 /\ n = 7
      BY <2>1, <2>9, <2>b
    <3>2. QED
      BY <2>7, <3>1
  <2>13. s + 1 + a <= n - 1 /\ (a = 0 => s + 1 = n - 1)
    BY <2>1, <2>9, <2>b
  <2>14. \A i \in 1..k : u[i + s] = m.repo[i]
    BY <1>2, <1>11, <2>1
  <2>15. QED
    BY <1>1, <1>5, <1>7, <1>9, <2>1, <2>2, <2>3, <2>8, <2>11, <2>12, <2>13,
       <2>14
<1>12. Goal
  BY <1>3, <1>10, <1>11
<1>13. QED
  BY <1>12 DEF OwnPlace, w, q, s, a, u, k, n, args, path

(* What the router takes out of the URL of a meaning is what was put in.   *)
LEMMA OwnFit ==
  ASSUME NEW c, NEW m, MayMean(c, m), ~Shadowed(c, m), ~Single(m.route.path)
  PROVE  LET k == Len(m.repo)
             u == Below(m)
         IN  /\ TryRepoRoutes(u, k)
             /\ Fits(m.route.path, NoRepoPath(u, k))
             /\ RepoOf(u, k) = m.repo
             /\ ArgsOf(m.route, u, k) = m.args
<1> DEFINE path == m.route.path
           n == Len(path)
           k == Len(m.repo)
           a == Len(m.args)
           u == Below(m)
           s == StartIndex(u)
           q == NoRepoPath(u, k)
           w == WithoutRepo(path)
<1>1. /\ s = IF OfApi(path) THEN 2 ELSE 1
      /\ TryRepoRoutes(u, k)
      /\ Len(u) = n - 1 + k
      /\ \A i \in 1..k : u[i + s] = m.repo[i]
      /\ q \in Seq(Segments) /\ Len(q) = n - 1
      /\ w \in Seq(Words \cup Blanks) /\ Len(w) = n - 1
      /\ a \in Nat /\ s + 1 + a <= n - 1
      /\ a = 0 => s + 1 = n - 1
      /\ \A i \in 1..(s + 1) : ~IsParam(w[i]) /\ w[i] = q[i]
      /\ \A i \in 1..a : IsParam(w[s + 1 + i]) /\ q[s + 1 + i] = m.args[i]
      /\ \A i \in (s + 2 + a)..(n - 1) : ~IsParam(w[i]) /\ w[i] = q[i]
  <2>1. OwnPlace(m)
    BY OwnShape
  <2>2. /\ s = IF OfApi(path) THEN 2 ELSE 1
        /\ TryRepoRoutes(u, k)
        /\ Len(u) = n - 1 + k
        /\ q \in Seq(Segments) /\ Len(q) = n - 1
        /\ w \in Seq(Words \cup Blanks) /\ Len(w) = n - 1
        /\ a \in Nat /\ s + 1 + a <= n - 1
        /\ a = 0 => s + 1 = n - 1
    BY <2>1, Zenon DEF OwnPlace
  <2>3. \A i \in 1..k : u[i + s] = m.repo[i]
    BY <2>1, Zenon DEF OwnPlace
  <2>4. \A i \in 1..(s + 1) : ~IsParam(w[i]) /\ w[i] = q[i]
    BY <2>1, Zenon DEF OwnPlace
  <2>5. \A i \in 1..a : IsParam(w[s + 1 + i]) /\ q[s + 1 + i] = m.args[i]
    BY <2>1, Zenon DEF OwnPlace
  <2>6. \A i \in (s + 2 + a)..(n - 1) : ~IsParam(w[i]) /\ w[i] = q[i]
    BY <2>1, Zenon DEF OwnPlace
  <2>7. QED
    BY <2>2, <2>3, <2>4, <2>5, <2>6, Zenon
<1>2. /\ path \in AllPaths /\ n \in Nat /\ k \in Nat
      /\ m.repo \in Seq(STRING) /\ m.args \in Seq(STRING)
      /\ u \in Seq(Segments)
  <2>1. /\ path \in AllPaths /\ m.repo \in Seq(STRING)
        /\ m.args \in Seq(STRING)
    BY Meant
  <2>2. u \in Seq(Segments)
    BY BelowShape
  <2> HIDE DEF u, path
  <2>3. QED
    BY <2>1, <2>2, PathShapes
<1>3. s \in 1..2
  BY <1>1
<1> HIDE DEF s
<1>4. Fits(path, q)
  <2> HIDE DEF w, q, n, a
  <2>1. ASSUME NEW i \in 1..Len(w)
        PROVE  IsParam(w[i]) \/ w[i] = q[i]
    <3>1. i \in Int /\ n \in Int /\ i <= n - 1
      BY <1>1, <1>2
    <3>2. CASE i <= s + 1
      BY <1>1, <1>3, <3>2
    <3>3. CASE i > s + 1 /\ i < s + 2 + a
      <4> DEFINE j == i - s - 1
      <4>1. j \in 1..a /\ s + 1 + j = i
        BY <1>1, <1>3, <3>1, <3>3
      <4> HIDE DEF j
      <4>2. QED
        BY <1>1, <4>1
    <3>4. CASE i >= s + 2 + a
      <4>1. i \in (s + 2 + a)..(n - 1)
        BY <1>1, <1>3, <3>1, <3>4
      <4>2. QED
        BY <1>1, <4>1
    <3>5. QED
      BY <1>1, <1>3, <3>1, <3>2, <3>3, <3>4
  <2>2. QED
    BY <1>1, <2>1 DEF Fits, w
<1>5. RepoOf(u, k) = m.repo
  <2> DEFINE r == SubSeq(u, s + 1, s + k)
  <2>1. RepoOf(u, k) = r
    BY DEF RepoOf, s
  <2>2. Len(u) \in Nat /\ Len(u) >= s + k
    <3>1. Len(u) >= k + s
      BY <1>1 DEF TryRepoRoutes, s
    <3> HIDE DEF u, k
    <3>2. QED
      BY <1>2, <1>3, <3>1
  <2>3. /\ r \in Seq(Segments)
        /\ Len(r) = IF s + 1 <= s + k THEN s + k - (s + 1) + 1 ELSE 0
        /\ \A i \in 1..(s + k - (s + 1) + 1) : r[i] = u[s + 1 + i - 1]
    <3> HIDE DEF u, k
    <3>1. \A i \in (s + 1)..(s + k) : u[i] \in Segments
      BY <1>2, <1>3, <2>2
    <3>2. QED
      BY <1>2, <1>3, <3>1, SubSeqProperties
  <2> HIDE DEF r, k, u
  <2>4. Len(r) = k
    BY <1>2, <1>3, <2>3
  <2>5. ASSUME NEW i \in 1..k
        PROVE  r[i] = m.repo[i]
    <3>1. i \in 1..(s + k - (s + 1) + 1) /\ s + 1 + i - 1 = i + s
      BY <1>2, <1>3
    <3>2. QED
      BY <1>1, <2>3, <3>1
  <2>6. m.repo \in Seq(Segments) /\ Len(m.repo) = k
    BY <1>2, SegmentsIn DEF k
  <2>7. r = m.repo
    BY <2>3, <2>4, <2>5, <2>6, SeqEqual
  <2>8. QED
    BY <2>1, <2>7
<1>6. ArgsOf(m.route, u, k) = m.args
  <2> DEFINE B == {i \in 1..(Len(w) + 1) : i > Len(w) \/ IsParam(w[i])}
             E == {i \in First(B)..(Len(w) + 1) :
                      i > Len(w) \/ ~IsParam(w[i])}
             r == SubSeq(q, First(B), First(E) - 1)
  <2>1. ArgsOf(m.route, u, k) = r
    BY DEF ArgsOf
  <2> HIDE DEF w, q, n, a, u, k, r
  <2>2. First(B) = s + 2
    <3>1. s + 2 \in B
      <4>0. s + 2 \in 1..(Len(w) + 1)
        BY <1>1, <1>2, <1>3
      <4>1. CASE a = 0
        <5>1. s + 2 > Len(w)
          BY <1>1, <1>2, <1>3, <4>1
        <5>2. QED
          BY <4>0, <5>1
      <4>2. CASE a > 0
        <5>1. 1 \in 1..a /\ s + 1 + 1 = s + 2
          BY <1>1, <1>3, <4>2
        <5>2. IsParam(w[s + 2])
          BY <1>1, <5>1
        <5>3. QED
          BY <4>0, <5>2
      <4>3. QED
        BY <1>1, <4>1, <4>2
    <3>2. B \in SUBSET Nat
      OBVIOUS
    <3>3. ASSUME NEW j \in B
          PROVE  s + 2 <= j
      <4>1. j \in 1..(Len(w) + 1) /\ (j > Len(w) \/ IsParam(w[j]))
        OBVIOUS
      <4>2. j \notin 1..(s + 1)
        <5>1. SUFFICES ASSUME j \in 1..(s + 1)
                       PROVE  FALSE
          OBVIOUS
        <5>2. ~IsParam(w[j]) /\ j <= Len(w)
          BY <1>1, <1>2, <1>3, <5>1
        <5>3. j \in Int /\ Len(w) \in Int
          BY <1>1, <5>1
        <5>4. QED
          BY <4>1, <5>2, <5>3
      <4>3. QED
        BY <1>1, <1>3, <4>1, <4>2
    <3> HIDE DEF B
    <3>4. QED
      BY <3>1, <3>2, <3>3, FirstIs
  <2>3. First(E) = s + 2 + a
    <3> DEFINE e == s + 2 + a
    <3> HIDE DEF B
    <3>0. E = {i \in (s + 2)..(Len(w) + 1) : i > Len(w) \/ ~IsParam(w[i])}
      BY <2>2
    <3> HIDE DEF E
    <3>1. e \in E
      <4>1. e \in (s + 2)..(Len(w) + 1)
        BY <1>1, <1>2, <1>3
      <4>2. ~(e > Len(w)) => e \in (s + 2 + a)..(n - 1)
        BY <1>1, <1>2, <1>3
      <4> HIDE DEF e
      <4>3. QED
        BY <1>1, <3>0, <4>1, <4>2
    <3>2. E \in SUBSET Nat
      BY <1>3, <3>0
    <3>3. ASSUME NEW j \in E
          PROVE  e <= j
      <4>1. j \in (s + 2)..(Len(w) + 1) /\ (j > Len(w) \/ ~IsParam(w[j]))
        BY <3>0
      <4>2. ~(j < e)
        <5>1. SUFFICES ASSUME j < e
                       PROVE  FALSE
          OBVIOUS
        <5> DEFINE i == j - s - 1
        <5>2. /\ i \in 1..a /\ s + 1 + i = j /\ j <= Len(w)
              /\ j \in Int /\ Len(w) \in Int
          BY <1>1, <1>2, <1>3, <4>1, <5>1
        <5> HIDE DEF i
        <5>3. IsParam(w[j])
          BY <1>1, <5>2
        <5>4. QED
          BY <4>1, <5>2, <5>3
      <4>3. QED
        BY <1>1, <1>3, <4>1, <4>2
    <3> HIDE DEF e
    <3>4. First(E) = e
      BY <3>1, <3>2, <3>3, FirstIs
    <3>5. QED
      BY <3>4 DEF e
  <2> HIDE DEF B, E
  <2>4. r = SubSeq(q, s + 2, s + 1 + a)
    <3>1. First(E) - 1 = s + 1 + a
      BY <1>1, <1>3, <2>3
    <3>2. r = SubSeq(q, First(B), First(E) - 1)
      BY DEF r
    <3>3. QED
      BY <2>2, <3>1, <3>2
  <2>5. /\ r \in Seq(Segments)
        /\ Len(r) = IF s + 2 <= s + 1 + a THEN s + 1 + a - (s + 2) + 1 ELSE 0
        /\ \A i \in 1..(s + 1 + a - (s + 2) + 1) : r[i] = q[s + 2 + i - 1]
    <3>1. \A i \in (s + 2)..(s + 1 + a) : q[i] \in Segments
      BY <1>1, <1>2, <1>3
    <3>2. QED
      BY <1>1, <1>3, <2>4, <3>1, SubSeqProperties
  <2>6. Len(r) = a
    BY <1>1, <1>3, <2>5
  <2>7. ASSUME NEW i \in 1..a
        PROVE  r[i] = m.args[i]
    <3>1. i \in 1..(s + 1 + a - (s + 2) + 1) /\ s + 2 + i - 1 = s + 1 + i
      BY <1>1, <1>3
    <3>2. QED
      BY <1>1, <2>5, <3>1
  <2>8. m.args \in Seq(Segments) /\ Len(m.args) = a
    BY <1>2, SegmentsIn DEF a
  <2>9. r = m.args
    BY <2>5, <2>6, <2>7, <2>8, SeqEqual
  <2>10. QED
    BY <2>1, <2>9
<1>7. QED
  BY <1>1, <1>4, <1>5, <1>6
-----------------------------------------------------------------------------
LEMMA NamesOf ==
  ASSUME NEW c, NEW m, MayMean(c, m)
  PROVE  /\ \A i \in 1..Len(m.repo) : m.repo[i] \notin {Empty, ":repo"}
         /\ \A i \in 1..Len(m.args) : m.args[i] \notin {Empty, ":repo"}
<1>1. Names(m.repo) /\ Names(m.args)
  BY DEF MayMean
<1>2. QED
  BY <1>1 DEF Names, Blanks

LEMMA PlainNames ==
  ASSUME NEW c, NEW m, MayMean(c, m), ~Shadowed(c, m), c.depthDynamic
  PROVE  /\ \A i \in 1..Len(m.repo) : m.repo[i] \notin {"charts", "prov"}
         /\ \A i \in 1..Len(m.args) : m.args[i] \notin {"charts", "prov"}
<1> DEFINE names == m.repo \o m.args
           k == Len(m.repo)
           a == Len(m.args)
<1>1. \A i \in DOMAIN names : names[i] \notin {"charts", "prov"}
  BY DEF Shadowed
<1>2. m.repo \in Seq(STRING) /\ m.args \in Seq(STRING)
  BY Meant
<1>3. /\ names \in Seq(STRING)
      /\ Len(names) = k + a
      /\ \A i \in 1..(k + a) :
             names[i] = IF i <= k THEN m.repo[i] ELSE m.args[i - k]
  BY <1>2, ConcatProperties
<1>4. k \in Nat /\ a \in Nat /\ DOMAIN names = 1..(k + a)
  BY <1>2, <1>3
<1> HIDE DEF names, k, a
<1>5. ASSUME NEW i \in 1..k
      PROVE  m.repo[i] \notin {"charts", "prov"}
  <2>1. i \in 1..(k + a) /\ i <= k
    BY <1>4
  <2>2. QED
    BY <1>1, <1>3, <1>4, <2>1
<1>6. ASSUME NEW i \in 1..a
      PROVE  m.args[i] \notin {"charts", "prov"}
  <2> DEFINE j == k + i
  <2>1. j \in 1..(k + a) /\ ~(j <= k) /\ j - k = i
    BY <1>4
  <2> HIDE DEF j
  <2>2. QED
    BY <1>1, <1>3, <1>4, <2>1
<1>7. QED
  BY <1>5, <1>6 DEF k, a

(* The pattern of the route has the right depth for its URL.               *)
LEMMA OwnPattern ==
  ASSUME NEW c, NEW m, MayMean(c, m), ~Single(m.route.path)
  PROVE  GetDepth(Below(m), m.route.path) = Len(m.repo)
<1> DEFINE path == m.route.path
           n == Len(path)
           k == Len(m.repo)
           u == Below(m)
           args == m.args
           b == BeforeRepo(path)
<1>1. /\ path \in AllPaths /\ k \in Nat
      /\ OfFiles(path) => Len(args) = n - 3
      /\ OfApi(path) =>
             /\ n = 4 => Len(args) = 0
             /\ n = 5 => Len(args) = 1
             /\ n > 5 => Len(args) = 2
  BY Meant
<1>2. /\ u \in Seq(Segments)
      /\ u[1] = Empty
      /\ OfFiles(path) =>
             /\ Len(u) = n - 1 + k
             /\ u[k + 2] = path[3]
             /\ n = 4 => u[k + 3] = args[1]
      /\ OfApi(path) =>
             /\ Len(u) = n - 1 + k
             /\ u[2] = "api"
             /\ u[k + 3] = path[4]
             /\ n > 4 => u[k + 4] = args[1]
             /\ n > 5 => u[k + 5] = args[2]
             /\ n = 7 => u[k + 6] = path[7]
  BY BelowShape
<1>3. /\ OfFiles(path) => n = 3 \/ n = 4
      /\ OfApi(path) => n = 4 \/ n = 5 \/ n = 6 \/ n = 7
      /\ ~(OfFiles(path) /\ OfApi(path))
      /\ OfFiles(path) \/ OfApi(path)
      /\ path[1] = Empty
  BY <1>1, PathShapes, EmptyIsNoWord DEF OfFiles, OfApi
<1>4. /\ OfFiles(path) => b = 1
      /\ OfApi(path) => b = 2 /\ path[2] = "api"
  BY <1>1, RepoAt DEF OfApi
<1>5. \A i \in 1..Len(args) : args[i] # Empty
  BY NamesOf
<1>6. /\ OfFiles(path) => /\ path[3] \in {"index.yaml", "charts"}
                          /\ n = 4 => path[4] = ":filename"
      /\ OfApi(path) => /\ path[4] \in {"charts", "prov"}
                        /\ n > 4 => path[5] = ":name"
                        /\ n > 5 => path[6] = ":version"
                        /\ n = 7 => path[7] \in {"templates", "values"}
  BY DEF OfFiles, OfApi
<1>7. /\ \A t \in {Empty, "index.yaml", "charts", "prov", "api", "templates",
                   "values"} : ~IsParam(t)
      /\ \A t \in {":name", ":version", ":filename"} : IsParam(t)
  BY EmptyIsNoWord DEF IsParam, Blanks
<1> DEFINE fits(i, j) == IF IsParam(path[i]) THEN u[j] # Empty
                                             ELSE u[j] = path[i]
<1> HIDE DEF u, k, n, args, path, b
<1>a. /\ OfFiles(path) /\ n = 4 => 1 \in 1..Len(args)
      /\ OfApi(path) /\ n > 4 => 1 \in 1..Len(args)
      /\ OfApi(path) /\ n > 5 => 2 \in 1..Len(args)
  <2>1. ASSUME OfFiles(path), n = 4
        PROVE  1 \in 1..Len(args)
    <3>1. Len(args) = 1
      BY <1>1, <2>1
    <3>2. QED
      BY <3>1
  <2>2. ASSUME OfApi(path), n > 5
        PROVE  1 \in 1..Len(args) /\ 2 \in 1..Len(args)
    <3>1. Len(args) = 2
      BY <1>1, <2>2
    <3>2. QED
      BY <3>1
  <2>3. ASSUME OfApi(path), n > 4
        PROVE  1 \in 1..Len(args)
    <3>1. CASE n = 5
      <4>1. Len(args) = 1
        BY <1>1, <2>3, <3>1
      <4>2. QED
        BY <4>1
    <3>2. CASE n > 5
      BY <2>2, <2>3, <3>2
    <3>3. QED
      BY <1>3, <2>3, <3>1, <3>2
  <2>4. QED
    BY <2>1, <2>2, <2>3
<1>8. Len(u) - n + 1 = k /\ b # n
  BY <1>1, <1>2, <1>3, <1>4
<1>9. \A i \in 1..b : fits(i, i)
  <2>1. \A i \in 1..b : i = 1 \/ (i = 2 /\ OfApi(path))
    BY <1>3, <1>4
  <2>2. QED
    BY <1>2, <1>3, <1>4, <1>7, <2>1
<1>10. ASSUME OfFiles(path), NEW i \in (b + 2)..n
       PROVE  fits(i, i + k - 1)
  <2>1. i = 3 \/ (i = 4 /\ n = 4)
    BY <1>3, <1>4, <1>10
  <2>2. CASE i = 3
    <3>1. i + k - 1 = k + 2
      BY <1>1, <2>2
    <3>2. QED
      BY <1>2, <1>6, <1>7, <1>10, <2>2, <3>1
  <2>3. CASE i = 4 /\ n = 4
    <3>1. i + k - 1 = k + 3
      BY <1>1, <2>3
    <3>2. QED
      BY <1>2, <1>5, <1>6, <1>7, <1>10, <1>a, <2>3, <3>1
  <2>4. QED
    BY <2>1, <2>2, <2>3
<1>11. ASSUME OfApi(path), NEW i \in (b + 2)..n
       PROVE  fits(i, i + k - 1)
  <2>1. i = 4 \/ (i = 5 /\ n > 4) \/ (i = 6 /\ n > 5) \/ (i = 7 /\ n = 7)
    BY <1>3, <1>4, <1>11
  <2>2. CASE i = 4
    <3>1. i + k - 1 = k + 3
      BY <1>1, <2>2
    <3>2. QED
      BY <1>2, <1>6, <1>7, <1>11, <2>2, <3>1
  <2>3. CASE i = 5 /\ n > 4
    <3>1. i + k - 1 = k + 4
      BY <1>1, <2>3
    <3>2. QED
      BY <1>2, <1>5, <1>6, <1>7, <1>11, <1>a, <2>3, <3>1
  <2>4. CASE i = 6 /\ n > 5
    <3>1. i + k - 1 = k + 5
      BY <1>1, <2>4
    <3>2. QED
      BY <1>2, <1>5, <1>6, <1>7, <1>11, <1>a, <2>4, <3>1
  <2>5. CASE i = 7 /\ n = 7
    <3>1. i + k - 1 = k + 6
      BY <1>1, <2>5
    <3>2. QED
      BY <1>2, <1>6, <1>7, <1>11, <2>5, <3>1
  <2>6. QED
    BY <2>1, <2>2, <2>3, <2>4, <2>5
<1>12. MatchesPattern(u, path)
  <2>1. \A i \in (b + 2)..n : fits(i, i + k - 1)
    BY <1>3, <1>10, <1>11
  <2>2. k >= 0
    BY <1>1
  <2>3. QED
    BY <1>8, <1>9, <2>1, <2>2 DEF MatchesPattern, n, b
<1>13. QED
  BY <1>8, <1>12 DEF GetDepth, u, path, n, k

(* So has every other that takes the URL, unless a name is what the router *)
(* looks for.                                                              *)
LEMMA OtherPattern ==
  ASSUME NEW c, NEW m, MayMean(c, m), ~Shadowed(c, m), ~Single(m.route.path),
         c.depthDynamic,
         NEW r \in AllPaths, r[2] = "api" <=> OfApi(m.route.path),
         GetDepth(Below(m), r) >= 0
  PROVE  GetDepth(Below(m), r) = Len(m.repo)
<1> DEFINE path == m.route.path
           n == Len(path)
           k == Len(m.repo)
           u == Below(m)
           args == m.args
           l == Len(r)
           b == BeforeRepo(r)
           d == Len(u) - l + 1
           fits(i, j) == IF IsParam(r[i]) THEN u[j] # Empty
                                          ELSE u[j] = r[i]
<1>1. /\ path \in AllPaths /\ k \in Nat
      /\ OfFiles(path) =>
             /\ Len(args) = n - 3
             /\ n = 4 => args[1] \in FileNames \ {"index.yaml"}
      /\ OfApi(path) =>
             /\ n = 4 => Len(args) = 0
             /\ n = 5 => Len(args) = 1
             /\ n > 5 => Len(args) = 2
  BY Meant
<1>2. /\ u \in Seq(Segments)
      /\ u[1] = Empty
      /\ OfFiles(path) =>
             /\ Len(u) = n - 1 + k
             /\ \A i \in 1..k : u[i + 1] = m.repo[i]
             /\ u[k + 2] = path[3]
             /\ n = 4 => u[k + 3] = args[1]
      /\ OfApi(path) =>
             /\ Len(u) = n - 1 + k
             /\ u[2] = "api"
             /\ \A i \in 1..k : u[i + 2] = m.repo[i]
             /\ u[k + 3] = path[4]
             /\ n > 4 => u[k + 4] = args[1]
             /\ n > 5 => u[k + 5] = args[2]
             /\ n = 7 => u[k + 6] = path[7]
  BY BelowShape
<1>3. /\ OfFiles(path) => n = 3 \/ n = 4
      /\ OfApi(path) => n = 4 \/ n = 5 \/ n = 6 \/ n = 7
      /\ ~(OfFiles(path) /\ OfApi(path))
      /\ OfFiles(path) \/ OfApi(path)
  BY <1>1, PathShapes, EmptyIsNoWord DEF OfFiles, OfApi
<1>4. /\ Single(r) => b = l /\ l = 2 /\ r[2] # "api"
      /\ OfFiles(r) => b = 1 /\ (l = 3 \/ l = 4) /\ r[2] # "api"
      /\ OfApi(r) => /\ b = 2
                     /\ l = 4 \/ l = 5 \/ l = 6 \/ l = 7
                     /\ r[2] = "api"
      /\ Single(r) \/ OfFiles(r) \/ OfApi(r)
  BY PathShapes, RepoAt, EmptyIsNoWord DEF Single, OfFiles, OfApi
<1>5. MatchesPattern(u, r) /\ GetDepth(u, r) = d
  <2>1. ~(-1 >= 0)
    OBVIOUS
  <2>2. QED
    BY <2>1 DEF GetDepth
<1>6. /\ IF b = l THEN d = 1 ELSE d >= 0
      /\ \A i \in 1..b : fits(i, i)
      /\ \A i \in (b + 2)..l : fits(i, i + d - 1)
  BY <1>5 DEF MatchesPattern
<1>7. /\ \A i \in 1..k : m.repo[i] \notin {"charts", "prov"}
      /\ \A i \in 1..Len(args) : args[i] \notin {"charts", "prov"}
  BY PlainNames
<1>8. \A t \in {Empty, "info", "health", "artifacthub-repo.yml", "static",
                "index.yaml", "charts", "prov"} : ~IsParam(t)
  BY EmptyIsNoWord DEF IsParam, Blanks
<1>9. (r[2] = "api") <=> OfApi(path)
  OBVIOUS
<1> HIDE DEF u, k, n, args, path, b, l, d
<1>a. /\ OfFiles(path) /\ n = 4 => 1 \in 1..Len(args)
      /\ OfApi(path) /\ n > 4 => 1 \in 1..Len(args)
      /\ OfApi(path) /\ n > 5 => 2 \in 1..Len(args)
  <2>1. ASSUME OfFiles(path), n = 4
        PROVE  1 \in 1..Len(args)
    <3>1. Len(args) = 1
      BY <1>1, <2>1
    <3>2. QED
      BY <3>1
  <2>2. ASSUME OfApi(path), n > 5
        PROVE  1 \in 1..Len(args) /\ 2 \in 1..Len(args)
    <3>1. Len(args) = 2
      BY <1>1, <2>2
    <3>2. QED
      BY <3>1
  <2>3. ASSUME OfApi(path), n > 4
        PROVE  1 \in 1..Len(args)
    <3>1. CASE n = 5
      <4>1. Len(args) = 1
        BY <1>1, <2>3, <3>1
      <4>2. QED
        BY <4>1
    <3>2. CASE n > 5
      BY <2>2, <2>3, <3>2
    <3>3. QED
      BY <1>3, <2>3, <3>1, <3>2
  <2>4. QED
    BY <2>1, <2>2, <2>3
<1>10. CASE Single(r)
  <2>1. d = 1 /\ u[2] = r[2]
    <3>1. 2 \in 1..b
      BY <1>4, <1>10
    <3>2. ~IsParam(r[2])
      BY <1>8, <1>10 DEF Single
    <3>3. QED
      BY <1>4, <1>6, <1>10, <3>1, <3>2
  <2>2. OfFiles(path)
    BY <1>3, <1>4, <1>9, <1>10
  <2>3. n = 3 /\ k = 0
    <3>1. Len(u) = 2
      <4>1. Len(u) - 2 + 1 = 1 /\ Len(u) \in Nat
        BY <1>2, <1>4, <1>10, <2>1 DEF d
      <4>2. QED
        BY <4>1
    <3>2. CASE n = 3
      BY <1>1, <1>2, <2>2, <3>1, <3>2
    <3>3. CASE n = 4
      BY <1>1, <1>2, <2>2, <3>1, <3>3
    <3>4. QED
      BY <1>3, <2>2, <3>2, <3>3
  <2>4. u[2] = "index.yaml"
    <3>1. k + 2 = 2
      BY <2>3
    <3>2. QED
      BY <1>2, <2>2, <2>3, <3>1 DEF OfFiles, n
  <2>5. QED
    BY <1>10, <2>1, <2>4, EmptyIsNoWord DEF Single
<1>11. CASE OfFiles(r)
  <2>1. OfFiles(path)
    BY <1>3, <1>4, <1>9, <1>11
  <2>2. b = 1 /\ b # l /\ 3 \in (b + 2)..l /\ d >= 0 /\ d = k + n - l
    BY <1>1, <1>2, <1>3, <1>4, <1>6, <1>11, <2>1 DEF d
  <2>3. u[d + 2] = r[3]
    <3>1. d \in Int /\ 3 + d - 1 = d + 2
      BY <1>1, <1>3, <1>4, <1>11, <2>1, <2>2
    <3>2. r[3] \in {"index.yaml", "charts"}
      BY <1>11 DEF OfFiles
    <3>3. QED
      BY <1>6, <1>8, <2>2, <3>1, <3>2
  <2>4. CASE l = n
    <3>1. d = k
      BY <1>1, <1>3, <2>1, <2>2, <2>4
    <3>2. QED
      BY <1>5, <3>1 DEF u, k
  <2>5. CASE l = 3 /\ n = 4
    <3>1. d + 2 = k + 3
      BY <1>1, <2>2, <2>5
    <3>2. r[3] = "index.yaml"
      BY <1>11, <2>5 DEF OfFiles, l
    <3>3. QED
      BY <1>1, <1>2, <2>1, <2>3, <2>5, <3>1, <3>2
  <2>6. CASE l = 4 /\ n = 3
    <3>1. k \in 1..k /\ d + 2 = k + 1
      BY <1>1, <2>2, <2>6
    <3>2. r[3] = "charts"
      BY <1>11, <2>6 DEF OfFiles, l
    <3>3. QED
      BY <1>2, <1>7, <2>1, <2>3, <3>1, <3>2
  <2>7. QED
    BY <1>3, <1>4, <1>11, <2>1, <2>4, <2>5, <2>6
<1>12. CASE OfApi(r)
  <2>1. OfApi(path)
    BY <1>4, <1>9, <1>12
  <2>2. b = 2 /\ b # l /\ 4 \in (b + 2)..l /\ d >= 0 /\ d = k + n - l
    BY <1>1, <1>2, <1>3, <1>4, <1>6, <1>12, <2>1 DEF d
  <2>3. d \in Nat
    BY <1>1, <1>3, <1>4, <1>12, <2>1, <2>2
  <2>4. u[d + 3] \in {"charts", "prov"}
    <3>1. 4 + d - 1 = d + 3
      BY <2>3
    <3>2. r[4] \in {"charts", "prov"}
      BY <1>12 DEF OfApi
    <3>3. QED
      BY <1>6, <1>8, <2>2, <3>1, <3>2
  <2>5. ~(d < k)
    <3>1. SUFFICES ASSUME d < k
                   PROVE  FALSE
      OBVIOUS
    <3>2. d + 1 \in 1..k /\ (d + 1) + 2 = d + 3
      BY <1>1, <2>3, <3>1
    <3>3. QED
      BY <1>2, <1>7, <2>1, <2>4, <3>2
  <2>6. ~(d > k)
    <3>1. SUFFICES ASSUME d > k
                   PROVE  FALSE
      OBVIOUS
    <3>2. \/ d = k + 1 /\ n > 4
          \/ d = k + 2 /\ n > 5
          \/ d = k + 3 /\ n = 7
      BY <1>1, <1>3, <1>4, <1>12, <2>1, <2>2, <3>1
    <3>3. CASE d = k + 1 /\ n > 4
      <4>1. 1 \in 1..Len(args) /\ d + 3 = k + 4
        BY <1>1, <1>a, <2>1, <3>3
      <4>2. QED
        BY <1>2, <1>7, <2>1, <2>4, <3>3, <4>1
    <3>4. CASE d = k + 2 /\ n > 5
      <4>1. 2 \in 1..Len(args) /\ d + 3 = k + 5
        BY <1>1, <1>a, <2>1, <3>4
      <4>2. QED
        BY <1>2, <1>7, <2>1, <2>4, <3>4, <4>1
    <3>5. CASE d = k + 3 /\ n = 7
      <4>1. d + 3 = k + 6
        BY <1>1, <3>5
      <4>2. path[7] \in {"templates", "values"}
        BY <2>1, <3>5 DEF OfApi, n
      <4>3. QED
        BY <1>2, <2>1, <2>4, <3>5, <4>1, <4>2
    <3>6. QED
      BY <3>2, <3>3, <3>4, <3>5
  <2>7. d = k
    BY <1>1, <2>3, <2>5, <2>6
  <2>8. QED
    BY <1>5, <2>7 DEF u, k
<1>13. QED
  BY <1>4, <1>10, <1>11, <1>12

LEMMA OwnDepth ==
  ASSUME NEW c \in RouterConfig, NEW m, MayMean(c, m), ~Shadowed(c, m),
         ~Single(m.route.path)
  PROVE  DepthOf(c, Below(m)) = Len(m.repo)
<1> DEFINE path == m.route.path
           k == Len(m.repo)
           u == Below(m)
           routes == Routes(c)
           fit == {i \in DOMAIN routes :
                      /\ (routes[i].path[2] = "api") <=> CheckApiRoute(u)
                      /\ GetDepth(u, routes[i].path) >= 0}
<1>1. /\ \E i \in 1..Len(routes) : m.route = routes[i]
      /\ path \in AllPaths /\ k \in Nat
      /\ c.depthDynamic \/ k = c.depth
  BY Meant
<1>2. routes \in Seq(AllRoutes)
  BY RoutesOnce
<1>3. /\ ~c.depthDynamic => DepthOf(c, u) = c.depth
      /\ c.depthDynamic /\ fit # {} =>
             DepthOf(c, u) = GetDepth(u, routes[First(fit)].path)
  <2> DEFINE kind == {i \in DOMAIN routes :
                      (routes[i].path[2] = "api") <=> CheckApiRoute(u)}
             fit2 == {i \in kind : GetDepth(u, routes[i].path) >= 0}
  <2>1. fit2 = fit /\ (fit # {} => kind # {})
    OBVIOUS
  <2>2. DepthOf(c, u) = IF ~c.depthDynamic \/ kind = {} THEN c.depth
                        ELSE IF fit2 = {} THEN -1
                        ELSE GetDepth(u, routes[First(fit2)].path)
    BY DEF DepthOf
  <2> HIDE DEF kind, fit2, fit
  <2> QED
    BY <2>1, <2>2
<1>4. CASE ~c.depthDynamic
  BY <1>1, <1>3, <1>4
<1>5. CASE c.depthDynamic
  <2>1. CheckApiRoute(u) <=> OfApi(path)
    BY BelowApi
  <2>2. path[2] = "api" <=> OfApi(path)
    <3>1. OfApi(path) => path[2] = "api"
      BY DEF OfApi
    <3>2. OfFiles(path) => path[2] # "api"
      BY EmptyIsNoWord DEF OfFiles
    <3>3. QED
      BY <1>1, <3>1, <3>2, PathShapes
  <2>3. GetDepth(u, path) = k
    BY OwnPattern
  <2>4. fit # {}
    <3>1. PICK i \in 1..Len(routes) : m.route = routes[i]
      BY <1>1
    <3>2. i \in DOMAIN routes /\ k >= 0
      BY <1>1, <1>2
    <3> HIDE DEF routes, k, u
    <3>3. i \in fit
      BY <2>1, <2>2, <2>3, <3>1, <3>2
    <3>4. QED
      BY <3>3
  <2>5. ASSUME NEW i \in fit
        PROVE  GetDepth(u, routes[i].path) = k
    <3>1. routes[i].path \in AllPaths
      BY <1>2, RouteFields
    <3>2. (routes[i].path[2] = "api") <=> OfApi(path)
      BY <2>1
    <3>3. GetDepth(u, routes[i].path) >= 0
      OBVIOUS
    <3> HIDE DEF routes, fit
    <3>4. QED
      BY <1>5, <3>1, <3>2, <3>3, OtherPattern
  <2>6. First(fit) \in fit
    <3>1. fit \in SUBSET Nat
      BY <1>2
    <3> HIDE DEF fit
    <3>2. QED
      BY <2>4, <3>1, FirstOf
  <2> HIDE DEF fit, routes, u, k
  <2>7. DepthOf(c, u) = k
    BY <1>3, <1>5, <2>4, <2>5, <2>6
  <2>8. QED
    BY <2>7 DEF u, k
<1>6. QED
  BY <1>4, <1>5

(* No path is the URL of a meaning by letter.                              *)
LEMMA BelowIsNoPath ==
  ASSUME NEW c, NEW m, MayMean(c, m), ~Single(m.route.path),
         NEW p \in AllPaths
  PROVE  Below(m) # p
<1> DEFINE path == m.route.path
           n == Len(path)
           k == Len(m.repo)
           u == Below(m)
<1>1. SUFFICES ASSUME u = p
               PROVE  FALSE
  OBVIOUS
<1>2. path \in AllPaths /\ k \in Nat
  BY Meant
<1>3. /\ u \in Seq(Segments)
      /\ u[1] = Empty
      /\ OfFiles(path) =>
             /\ Len(u) = n - 1 + k
             /\ \A i \in 1..k : u[i + 1] = m.repo[i]
             /\ u[k + 2] = path[3]
             /\ n = 4 => u[k + 3] = m.args[1]
      /\ OfApi(path) =>
             /\ Len(u) = n - 1 + k
             /\ u[2] = "api"
             /\ \A i \in 1..k : u[i + 2] = m.repo[i]
             /\ u[k + 3] = path[4]
             /\ n > 4 => u[k + 4] = m.args[1]
             /\ n > 5 => u[k + 5] = m.args[2]
             /\ n = 7 => u[k + 6] = path[7]
  BY BelowShape
<1>4. /\ OfFiles(path) => /\ n = 3 \/ n = 4
                          /\ path[3] \in {"index.yaml", "charts"}
      /\ OfApi(path) => /\ n = 4 \/ n = 5 \/ n = 6 \/ n = 7
                        /\ path[4] \in {"charts", "prov"}
      /\ ~(OfFiles(path) /\ OfApi(path))
      /\ OfFiles(path) \/ OfApi(path)
  BY <1>2, PathShapes, EmptyIsNoWord DEF OfFiles, OfApi
<1>5. /\ Single(p) => Len(p) = 2 /\ p[2] \notin {"index.yaml", "charts"}
      /\ OfFiles(p) => p[2] = ":repo"
      /\ OfApi(p) => p[2] = "api" /\ p[3] = ":repo" /\ Len(p) \in 4..7
      /\ Single(p) \/ OfFiles(p) \/ OfApi(p)
  BY PathShapes, EmptyIsNoWord DEF Single, OfFiles, OfApi
<1>6. \A i \in 1..k : m.repo[i] # ":repo"
  BY NamesOf
<1>7. Len(u) = Len(p)
  BY <1>1
<1>8. u[2] = p[2] /\ u[3] = p[3]
  BY <1>1
<1>9. n = 3 => path[3] = "index.yaml" \/ OfApi(path)
  BY <1>4 DEF OfFiles
<1>10. n = 4 /\ OfFiles(path) => path[3] = "charts"
  BY DEF OfFiles
<1> HIDE DEF u, k, n, path
<1>11. CASE OfFiles(path)
  <2>1. k = 0 => u[2] = path[3]
    BY <1>3, <1>11
  <2>2. k # 0 => u[2] = m.repo[1] /\ 1 \in 1..k
    <3>1. SUFFICES ASSUME k # 0
                   PROVE  u[2] = m.repo[1] /\ 1 \in 1..k
      OBVIOUS
    <3>2. 1 \in 1..k
      BY <1>2, <3>1
    <3>3. u[1 + 1] = m.repo[1]
      BY <1>3, <1>11, <3>2
    <3>4. QED
      BY <3>2, <3>3
  <2>3. k = 1 => u[3] = path[3]
    BY <1>3, <1>11
  <2>4. k > 1 => u[3] = m.repo[2] /\ 2 \in 1..k
    <3>1. SUFFICES ASSUME k > 1
                   PROVE  u[3] = m.repo[2] /\ 2 \in 1..k
      OBVIOUS
    <3>2. 2 \in 1..k
      BY <1>2, <3>1
    <3>3. u[2 + 1] = m.repo[2]
      BY <1>3, <1>11, <3>2
    <3>4. QED
      BY <3>2, <3>3
  <2>5. k = 0 \/ k = 1 \/ k > 1
    BY <1>2
  <2>6. CASE Single(p)
    <3>1. k = 0
      <4>1. n - 1 + k = 2
        BY <1>3, <1>5, <1>7, <1>11, <2>6
      <4>2. CASE n = 3
        BY <1>2, <4>1, <4>2
      <4>3. CASE n = 4
        BY <1>2, <4>1, <4>3
      <4>4. QED
        BY <1>4, <1>11, <4>2, <4>3
    <3>2. QED
      BY <1>4, <1>5, <1>8, <1>11, <2>1, <2>6, <3>1
  <2>7. CASE OfFiles(p)
    BY <1>4, <1>5, <1>6, <1>8, <1>11, <2>1, <2>2, <2>7, EmptyIsNoWord
  <2>8. CASE OfApi(p)
    <3>1. k # 0
      BY <1>4, <1>5, <1>8, <1>11, <2>1, <2>8
    <3>2. u[3] # ":repo"
      BY <1>4, <1>6, <1>11, <2>3, <2>4, <2>5, <3>1, EmptyIsNoWord
    <3>3. QED
      BY <1>5, <1>8, <2>8, <3>2
  <2>9. QED
    BY <1>5, <2>6, <2>7, <2>8
<1>12. CASE OfApi(path)
  <2>1. u[2] = "api"
    BY <1>3, <1>12
  <2>2. k = 0 => u[3] = path[4]
    BY <1>3, <1>12
  <2>3. k # 0 => u[3] = m.repo[1] /\ 1 \in 1..k
    <3>1. SUFFICES ASSUME k # 0
                   PROVE  u[3] = m.repo[1] /\ 1 \in 1..k
      OBVIOUS
    <3>2. 1 \in 1..k
      BY <1>2, <3>1
    <3>3. u[1 + 2] = m.repo[1]
      BY <1>3, <1>12, <3>2
    <3>4. QED
      BY <3>2, <3>3
  <2>4. ~Single(p)
    BY <1>8, <2>1, EmptyIsNoWord DEF Single
  <2>5. ~OfFiles(p)
    BY <1>8, <2>1 DEF OfFiles
  <2>6. u[3] # ":repo"
    BY <1>4, <1>6, <1>12, <2>2, <2>3, EmptyIsNoWord
  <2>7. QED
    BY <1>5, <1>8, <2>4, <2>5, <2>6
<1>13. QED
  BY <1>4, <1>11, <1>12

LEMMA NoShortcut ==
  ASSUME NEW c \in RouterConfig, NEW m, MayMean(c, m), ~Shadowed(c, m),
         ~Single(m.route.path)
  PROVE  Shortcut(c, m.route.method, Below(m)) = {}
<1> DEFINE path == m.route.path
           k == Len(m.repo)
           u == Below(m)
           routes == Routes(c)
<1>1. /\ path \in AllPaths /\ k \in Nat /\ m.repo \in Seq(STRING)
  BY Meant
<1>2. routes \in Seq(AllRoutes)
  BY RoutesOnce
<1>3. u # HealthPath
  <2>1. HealthPath \in AllPaths
    BY DEF AllPaths
  <2>2. QED
    BY <2>1, BelowIsNoPath
<1>4. ASSUME CheckStaticRoute(u), NEW i \in DOMAIN routes,
             CheckStaticRoute(routes[i].path)
      PROVE  FALSE
  <2>1. i \in 1..Len(routes) /\ routes[i].path \in AllPaths
    BY <1>2, RouteFields
  <2>2. routes[i].path = StaticPath
    BY <1>4, <2>1, StaticAlone
  <2>3. c.webTemplate
    BY <2>1, <2>2, PathsApart, RoutesOnce
  <2>4. BeginsWith(u[2], "static")
    BY <1>4 DEF CheckStaticRoute
  <2>5. /\ u \in Seq(Segments)
        /\ u[1] = Empty
        /\ OfFiles(path) =>
               /\ Len(u) = Len(path) - 1 + k
               /\ \A l \in 1..k : u[l + 1] = m.repo[l]
               /\ u[k + 2] = path[3]
               /\ Len(path) = 4 => u[k + 3] = m.args[1]
        /\ OfApi(path) =>
               /\ Len(u) = Len(path) - 1 + k
               /\ u[2] = "api"
               /\ \A l \in 1..k : u[l + 2] = m.repo[l]
               /\ u[k + 3] = path[4]
               /\ Len(path) > 4 => u[k + 4] = m.args[1]
               /\ Len(path) > 5 => u[k + 5] = m.args[2]
               /\ Len(path) = 7 => u[k + 6] = path[7]
    BY BelowShape
  <2>6. \A t \in {"api", "index.yaml", "charts"} : ~BeginsWith(t, "static")
    <3>1. {"api", "index.yaml", "charts"} \subseteq Words
      BY DEF Words
    <3>2. QED
      BY <3>1, StaticAlone
  <2> HIDE DEF u, k
  <2>7. CASE OfApi(path)
    BY <2>4, <2>5, <2>6, <2>7
  <2>8. CASE OfFiles(path)
    <3>1. CASE k = 0
      <4>1. u[2] \in {"index.yaml", "charts"}
        BY <2>5, <2>8, <3>1 DEF OfFiles
      <4>2. QED
        BY <2>4, <2>6, <4>1
    <3>2. CASE k # 0
      <4>1. 1 \in 1..k
        BY <1>1, <3>2
      <4>2. u[1 + 1] = m.repo[1]
        BY <2>5, <2>8, <4>1
      <4>3. m.repo # <<>>
        BY <3>2 DEF k
      <4>4. path[2] = ":repo"
        BY <2>8 DEF OfFiles
      <4>5. BeginsWith(m.repo[1], "static")
        BY <2>4, <4>2
      <4>6. Shadowed(c, m)
        BY <2>3, <4>3, <4>4, <4>5, Zenon DEF Shadowed, path
      <4>7. QED
        BY <4>6
    <3>3. QED
      BY <3>1, <3>2
  <2>9. QED
    BY <1>1, <2>7, <2>8, PathShapes
<1>5. QED
  BY <1>3, <1>4 DEF Shortcut

(* A URL made for a route finds the route, the tenant and the parameters.  *)
(* No name is that of a parameter, so that a URL that is a path by letter  *)
(* has none.                                                               *)
LEMMA ByLetter ==
  ASSUME NEW c, NEW m, MayMean(c, m), ~Shadowed(c, m),
         ~Single(m.route.path),
         IsRepoPath(m.route, Below(m), Len(m.repo))
  PROVE  m.args = <<>>
<1> DEFINE u == Below(m)
           s == StartIndex(u)
           q == NoRepoPath(u, Len(m.repo))
           w == WithoutRepo(m.route.path)
           a == Len(m.args)
<1>1. w = q
  BY DEF IsRepoPath
<1>2. s \in 1..2 /\ a \in Nat /\ m.args \in Seq(STRING)
  BY Meant DEF StartIndex
<1>3. \A i \in 1..a : IsParam(w[s + 1 + i]) /\ q[s + 1 + i] = m.args[i]
  BY OwnShape, Zenon DEF OwnPlace
<1>4. ASSUME a > 0 PROVE FALSE
  <2>1. 1 \in 1..a /\ 1 \in DOMAIN m.args
    BY <1>2, <1>4
  <2>2. m.args[1] \in Blanks
    BY <1>1, <1>3, <2>1 DEF IsParam
  <2>3. Names(m.args)
    BY DEF MayMean
  <2> QED
    BY <2>1, <2>2, <2>3 DEF Names
<1>5. a = 0
  BY <1>2, <1>4
<1> QED
  BY <1>2, <1>5

LEMMA TenantFound ==
  ASSUME NEW c \in RouterConfig, NEW m, MayMean(c, m), ~Shadowed(c, m),
         ~Single(m.route.path)
  PROVE  MatchUrl(c, m.route.method, Below(m)) =
             Found(m.route, m.repo, m.args)
<1> DEFINE path == m.route.path
           method == m.route.method
           k == Len(m.repo)
           u == Below(m)
           routes == Routes(c)
           fit == Matching(c, method, u, k)
<1>1. /\ \E i \in 1..Len(routes) : m.route = routes[i]
      /\ m.route \in AllRoutes /\ path \in AllPaths /\ k \in Nat
  BY Meant
<1>2. routes \in Seq(AllRoutes)
  BY RoutesOnce
<1>3. PICK i \in 1..Len(routes) : m.route = routes[i]
  BY <1>1
<1>4. /\ TryRepoRoutes(u, k)
      /\ Fits(path, NoRepoPath(u, k))
      /\ RepoOf(u, k) = m.repo
      /\ ArgsOf(m.route, u, k) = m.args
  BY OwnFit
<1>5. i \in fit
  BY <1>2, <1>3, <1>4 DEF Matching, RouteMatches, Fits
<1>6. ASSUME NEW j \in fit
      PROVE  j = i
  <2>1. /\ j \in 1..Len(routes)
        /\ RouteMatches(routes[j], u, k)
        /\ routes[j].path \in AllPaths
    BY <1>2, RouteFields DEF Matching
  <2>2. routes[j].path # RootPath
    <3>1. SUFFICES ASSUME routes[j].path = RootPath
                   PROVE  FALSE
      OBVIOUS
    <3>2. u # RootPath
      BY <2>1, <3>1, BelowIsNoPath
    <3>3. Fits(RootPath, NoRepoPath(u, k))
      BY <2>1, <3>1, <3>2 DEF RouteMatches, Fits
    <3>4. path = RootPath
      BY <1>1, <1>4, <2>1, <3>1, <3>3, OneFits
    <3>5. QED
      BY <3>4, PathsApart DEF Single
  <2>3. routes[i].path # RootPath
    BY <1>3, PathsApart DEF Single
  <2> HIDE DEF fit
  <2>4. i = j \/ \E l \in {i, j} : routes[l].path = RootPath
    <3>1. i \in Matching(c, method, u, k) /\ j \in Matching(c, method, u, k)
      BY <1>5 DEF fit
    <3> HIDE DEF u, k, method
    <3>2. QED
      BY <1>1, <3>1, OneMatches
  <2>5. QED
    BY <2>2, <2>3, <2>4
<1>7. First(fit) = i
  <2>1. fit \in SUBSET Nat
    BY <1>2 DEF Matching
  <2> HIDE DEF fit
  <2>2. First(fit) \in fit
    BY <1>5, <2>1, FirstOf
  <2>3. QED
    BY <1>6, <2>2
<1>8. path # u
  BY <1>1, BelowIsNoPath
<1>9. DepthOf(c, u) = k
  BY OwnDepth
<1>10. Shortcut(c, method, u) = {}
  BY NoShortcut
<1>11. ~(k < 0) /\ fit # {}
  BY <1>1, <1>5
<1>12. MatchUrl(c, method, u) =
          IF Shortcut(c, method, u) # {}
          THEN Found(routes[First(Shortcut(c, method, u))], <<>>, <<>>)
          ELSE IF k < 0 \/ fit = {} THEN NotFound
          ELSE IF routes[First(fit)].path = u
          THEN Found(routes[First(fit)], <<>>, <<>>)
          ELSE IF IsRepoPath(routes[First(fit)], u, k)
          THEN Found(routes[First(fit)], RepoOf(u, k), <<>>)
          ELSE Found(routes[First(fit)], RepoOf(u, k),
                     ArgsOf(routes[First(fit)], u, k))
  BY <1>9 DEF MatchUrl
<1>13. IsRepoPath(m.route, u, k) => m.args = <<>>
  BY ByLetter
<1> HIDE DEF fit, u, k, routes, method
<1>14. MatchUrl(c, method, u) = Found(m.route, m.repo, m.args)
  BY <1>3, <1>4, <1>7, <1>8, <1>10, <1>11, <1>12, <1>13
<1>15. QED
  BY <1>14 DEF method, u

(* What the router finds for a URL of the README, below any context path.  *)
LEMMA Reached ==
  ASSUME NEW c \in RouterConfig, NEW m, MayMean(c, m), ~Shadowed(c, m)
  PROVE  Match(c, m.route.method, Url(c, m)) =
             Found(m.route, m.repo, m.args)
<1>1. /\ InContext(c.contextPath, Url(c, m))
      /\ WithoutContext(c.contextPath, Url(c, m)) = Below(m)
  BY UrlShape
<1>2. MatchUrl(c, m.route.method, Below(m)) = Found(m.route, m.repo, m.args)
  <2>1. CASE Single(m.route.path)
    <3>1. Below(m) = m.route.path
      BY <2>1, BelowShape, Zenon
    <3>2. m.repo = <<>> /\ m.args = <<>>
      BY <2>1, Meant
    <3>3. QED
      BY <2>1, <3>1, <3>2, SingleFound
  <2>2. CASE ~Single(m.route.path)
    BY <2>2, TenantFound
  <2>3. QED
    BY <2>1, <2>2
<1>3. QED
  BY <1>1, <1>2 DEF Match
-----------------------------------------------------------------------------
(* What a handler may answer a request with that it was passed.            *)
Handled(reply) ==
    LET path == match.route.path
    IN  /\ reply.status \in {200, 201, 400, 404, 409, 413, 500, 507}
        /\ path = ListPath /\ match.route.method = "GET" =>
               reply \in {Refusal(500),
                          GetAllChartsRequest(OfTenant.index,
                                              request.query.offset,
                                              request.query.limit)}
        /\ path = TemplatesPath =>
               reply \in {Refusal(404),
                          TemplatesRequest(OfTenant.index, OfTenant.stored,
                                           config.chartURL, Arg(1), Arg(2))}
        /\ path = ValuesPath =>
               reply \in {Refusal(404),
                          ValuesRequest(OfTenant.index, OfTenant.stored,
                                        config.chartURL, Arg(1), Arg(2))}

(* A request is one nobody meant, or the one its client means; nothing is  *)
(* left of the one before.                                                 *)
RequestInv ==
    /\ config \in Configs
    /\ content \in Contents
    /\ request.url \in Seq(Segments)
    /\ request.header = meant.header
    /\ request.query = meant.query
    /\ request.query.offset \in Seq(Int) /\ request.query.limit \in Seq(Int)
    /\ request = NoRequest =>
           meant = Unmeant /\ match = NotFound /\ answer = Pending
    /\ meant # Unmeant =>
           /\ meant \in Meanings(config.router)
           /\ request.method = meant.route.method
           /\ request.url = Url(config.router, meant)

(* A handler has the route found for the request, admitted; the answer to  *)
(* one that has none is a refusal.                                         *)
AnswerInv ==
    LET found == Match(config.router, request.method, request.url)
        status == Admission(config.router, request.header, found)
    IN  IF match = NotFound
        THEN answer = Pending \/ (status # 200 /\ answer = Refusal(status))
        ELSE /\ match = found
             /\ status = 200
             /\ answer = Pending \/ Handled(answer)

Handler ==
    \/ ServerInfo \/ StaticFiles \/ ArtifactHub
    \/ GetIndexFile \/ HeadIndexFile \/ GetStorageObjectOf
    \/ GetAllChartsOf \/ GetChart \/ HeadChart
    \/ GetVersion \/ HeadVersion \/ GetTemplates \/ GetValues
    \/ GetIndexFileFails \/ Post \/ DeleteChart

(* Statuses of what the handlers compute.                                  *)
LEMMA Statuses ==
  /\ \A s, l, f : Reply(s, l, f).status = s
  /\ \A index, o, l : GetAllChartsRequest(index, o, l).status \in {200, 400}
  /\ \A index, n : GetChartRequest(index, n).status \in {200, 404}
  /\ \A index, n, v :
         GetChartVersionRequest(index, n, v).status \in {200, 404}
  /\ \A stored, f : GetStorageObject(stored, f).status \in {200, 404, 500}
  /\ \A index, stored, u, n, v :
         /\ TemplatesRequest(index, stored, u, n, v).status
                \in {200, 404, 500}
         /\ ValuesRequest(index, stored, u, n, v).status \in {200, 404, 500}
  /\ \A ids, r : ArtifactHubRequest(ids, r).status \in {200, 404}
<1>1. \A s, l, f : Reply(s, l, f).status = s
  BY DEF Reply
<1>2. \A s : Refusal(s).status = s
  BY <1>1 DEF Refusal
<1>3. \A index, o, l : GetAllChartsRequest(index, o, l).status \in {200, 400}
  BY <1>1, <1>2 DEF GetAllChartsRequest
<1>4. \A index, n : GetChartRequest(index, n).status \in {200, 404}
  BY <1>1, <1>2 DEF GetChartRequest
<1>5. \A index, n, v :
          GetChartVersionRequest(index, n, v).status \in {200, 404}
  BY <1>1, <1>2 DEF GetChartVersionRequest
<1>6. \A stored, f : GetStorageObject(stored, f).status \in {200, 404, 500}
  BY <1>1, <1>2 DEF GetStorageObject
<1>7. \A index, stored, u, n, v :
          LoadedPackage(index, stored, u, n, v).status \in {200, 404, 500}
  BY <1>2, <1>6 DEF LoadedPackage
<1>8. \A index, stored, u, n, v :
          /\ TemplatesRequest(index, stored, u, n, v).status
                 \in {200, 404, 500}
          /\ ValuesRequest(index, stored, u, n, v).status \in {200, 404, 500}
  BY <1>2, <1>7 DEF TemplatesRequest, ValuesRequest
<1>9. \A ids, r : ArtifactHubRequest(ids, r).status \in {200, 404}
  BY <1>1, <1>2 DEF ArtifactHubRequest
<1>10. QED
  BY <1>1, <1>3, <1>4, <1>5, <1>6, <1>8, <1>9

(* A handler gives one answer, to a request that was passed to it.         *)
LEMMA HandlerAnswers ==
  ASSUME Handler
  PROVE  match # NotFound /\ \E reply : Answer(reply) /\ Handled(reply)
<1>1. \A s : Refusal(s).status = s
  BY Statuses DEF Refusal
<1>2. NotFound.route.path = <<>>
  BY DEF NotFound, Found, NoRoute, Route
<1>3. \A path \in AllPaths : path # <<>>
  BY PathShapes, EmptySeq DEF Single, OfFiles, OfApi
<1>4. \A methods, path : Handles(methods, path) /\ path \in AllPaths
                             => match # NotFound
  BY <1>2, <1>3 DEF Handles
<1> DEFINE Goal == match # NotFound
                   /\ \E reply : Answer(reply) /\ Handled(reply)
           Served == {200, 201, 400, 404, 409, 413, 500, 507}
           Others == {RootPath, InfoPath, HealthPath, HubPath, StaticPath,
                      IndexPath, FilePath, ProvPath, ChartPath, VersionPath}
<1>5. /\ \A path \in Others :
             /\ path \in AllPaths
             /\ path \notin {ListPath, TemplatesPath, ValuesPath}
      /\ {ListPath, TemplatesPath, ValuesPath} \subseteq AllPaths
      /\ ListPath \notin {TemplatesPath, ValuesPath}
      /\ TemplatesPath # ValuesPath
  <2>1. Others \subseteq AllPaths
        /\ {ListPath, TemplatesPath, ValuesPath} \subseteq AllPaths
    BY DEF AllPaths
  <2>2. Len(ListPath) = 4 /\ Len(TemplatesPath) = 7 /\ Len(ValuesPath) = 7
        /\ ListPath[2] = "api" /\ ListPath[4] = "charts"
        /\ TemplatesPath[7] = "templates" /\ ValuesPath[7] = "values"
    BY PathsApart
  <2>3. ASSUME NEW path \in Others
        PROVE  path \notin {ListPath, TemplatesPath, ValuesPath}
    <3>1. \/ Len(path) \in {2, 3, 5, 6}
          \/ Len(path) = 4 /\ (path[2] = ":repo" \/ path[4] = "prov")
      BY PathsApart
    <3> HIDE DEF Others
    <3>2. CASE Len(path) \in {2, 3, 5, 6}
      BY <2>2, <3>2
    <3>3. CASE Len(path) = 4 /\ (path[2] = ":repo" \/ path[4] = "prov")
      BY <2>2, <3>3
    <3>4. QED
      BY <3>1, <3>2, <3>3
  <2>4. QED
    BY <2>1, <2>2, <2>3
<1>6. ASSUME NEW methods, NEW path \in Others, NEW reply,
             Handles(methods, path), Answer(reply), reply.status \in Served
      PROVE  Goal
  <2>1. match.route.path = path
    BY <1>6 DEF Handles
  <2>2. match # NotFound
    BY <1>4, <1>5, <1>6
  <2>3. Handled(reply)
    BY <1>5, <1>6, <2>1 DEF Handled
  <2>4. QED
    BY <1>6, <2>2, <2>3
<1> HIDE DEF Goal
<1>7. CASE ServerInfo
  <2> DEFINE reply == Reply(200, Nothing, NoFile)
  <2>1. PICK path \in {RootPath, InfoPath, HealthPath} :
            Handles({"GET"}, path)
    BY <1>7 DEF ServerInfo
  <2>2. path \in Others /\ reply.status \in Served
    BY Statuses
  <2>3. Answer(reply)
    BY <1>7 DEF ServerInfo
  <2> HIDE DEF Others, Served, reply
  <2>4. QED
    BY <1>6, <2>1, <2>2, <2>3 DEF Goal
<1>8. CASE StaticFiles
  <2>1. PICK status \in {200, 404} : Answer(Refusal(status))
    BY <1>8 DEF StaticFiles
  <2>2. StaticPath \in Others /\ Refusal(status).status \in Served
    BY <1>1
  <2>3. Handles({"GET"}, StaticPath)
    BY <1>8 DEF StaticFiles
  <2> HIDE DEF Others, Served
  <2>4. QED
    BY <1>6, <2>1, <2>2, <2>3 DEF Goal
<1>9. CASE ArtifactHub
  <2> DEFINE reply == ArtifactHubRequest(config.artifactHubIds, match.repo)
  <2>1. HubPath \in Others /\ reply.status \in Served
    BY Statuses
  <2>2. Handles({"GET"}, HubPath) /\ Answer(reply)
    BY <1>9 DEF ArtifactHub
  <2> HIDE DEF Others, Served, reply
  <2>3. QED
    BY <1>6, <2>1, <2>2 DEF Goal
<1>10. CASE GetIndexFile
  <2> DEFINE reply == Reply(200, OfTenant.index, "index.yaml")
  <2>1. IndexPath \in Others /\ reply.status \in Served
    BY Statuses
  <2>2. Handles({"GET"}, IndexPath) /\ Answer(reply)
    BY <1>10 DEF GetIndexFile
  <2> HIDE DEF Others, Served, reply
  <2>3. QED
    BY <1>6, <2>1, <2>2 DEF Goal
<1>11. CASE HeadIndexFile
  <2> DEFINE reply == Reply(200, Nothing, NoFile)
  <2>1. IndexPath \in Others /\ reply.status \in Served
    BY Statuses
  <2>2. Handles({"HEAD"}, IndexPath) /\ Answer(reply)
    BY <1>11 DEF HeadIndexFile
  <2> HIDE DEF Others, Served, reply
  <2>3. QED
    BY <1>6, <2>1, <2>2 DEF Goal
<1>12. CASE GetStorageObjectOf
  <2> DEFINE reply == GetStorageObject(OfTenant.stored, Arg(1))
  <2>1. FilePath \in Others /\ reply.status \in Served
    BY Statuses
  <2>2. Handles({"GET"}, FilePath) /\ Answer(reply)
    BY <1>12 DEF GetStorageObjectOf
  <2> HIDE DEF Others, Served, reply
  <2>3. QED
    BY <1>6, <2>1, <2>2 DEF Goal
<1>13. CASE GetChart
  <2> DEFINE reply == GetChartRequest(OfTenant.index, Arg(1))
  <2>1. ChartPath \in Others /\ reply.status \in Served
    BY Statuses
  <2>2. Handles({"GET"}, ChartPath) /\ Answer(reply)
    BY <1>13 DEF GetChart
  <2> HIDE DEF Others, Served, reply
  <2>3. QED
    BY <1>6, <2>1, <2>2 DEF Goal
<1>14. CASE HeadChart
  <2> DEFINE reply == Head200(GetChartRequest(OfTenant.index, Arg(1)))
  <2>1. ChartPath \in Others /\ reply.status \in Served
    BY Statuses DEF Head200
  <2>2. Handles({"HEAD"}, ChartPath) /\ Answer(reply)
    BY <1>14 DEF HeadChart
  <2> HIDE DEF Others, Served, reply
  <2>3. QED
    BY <1>6, <2>1, <2>2 DEF Goal
<1>15. CASE GetVersion
  <2> DEFINE reply == GetChartVersionRequest(OfTenant.index, Arg(1), Arg(2))
  <2>1. VersionPath \in Others /\ reply.status \in Served
    BY Statuses
  <2>2. Handles({"GET"}, VersionPath) /\ Answer(reply)
    BY <1>15 DEF GetVersion
  <2> HIDE DEF Others, Served, reply
  <2>3. QED
    BY <1>6, <2>1, <2>2 DEF Goal
<1>16. CASE HeadVersion
  <2> DEFINE reply == Head200(GetChartVersionRequest(OfTenant.index, Arg(1),
                                                           Arg(2)))
  <2>1. VersionPath \in Others /\ reply.status \in Served
    BY Statuses DEF Head200
  <2>2. Handles({"HEAD"}, VersionPath) /\ Answer(reply)
    BY <1>16 DEF HeadVersion
  <2> HIDE DEF Others, Served, reply
  <2>3. QED
    BY <1>6, <2>1, <2>2 DEF Goal
<1>17. CASE GetAllChartsOf
  <2> DEFINE reply == GetAllChartsRequest(OfTenant.index,
                                          request.query.offset,
                                          request.query.limit)
  <2>1. Handles({"GET"}, ListPath) /\ Answer(reply)
    BY <1>17 DEF GetAllChartsOf
  <2>2. match.route.path = ListPath
    BY <2>1 DEF Handles
  <2>3. reply.status \in Served
    BY Statuses
  <2>4. Handled(reply)
    BY <1>5, <2>2, <2>3 DEF Handled
  <2> HIDE DEF reply
  <2>5. QED
    BY <1>4, <1>5, <2>1, <2>4 DEF Goal
<1>18. CASE GetTemplates
  <2> DEFINE reply == TemplatesRequest(OfTenant.index, OfTenant.stored,
                          config.chartURL, Arg(1), Arg(2))
  <2>1. Handles({"GET"}, TemplatesPath) /\ Answer(reply)
    BY <1>18 DEF GetTemplates
  <2>2. match.route.path = TemplatesPath
    BY <2>1 DEF Handles
  <2>3. reply.status \in Served
    BY Statuses
  <2>4. Handled(reply)
    BY <1>5, <2>2, <2>3 DEF Handled
  <2> HIDE DEF reply
  <2>5. QED
    BY <1>4, <1>5, <2>1, <2>4 DEF Goal
<1>19. CASE GetValues
  <2> DEFINE reply == ValuesRequest(OfTenant.index, OfTenant.stored,
                          config.chartURL, Arg(1), Arg(2))
  <2>1. Handles({"GET"}, ValuesPath) /\ Answer(reply)
    BY <1>19 DEF GetValues
  <2>2. match.route.path = ValuesPath
    BY <2>1 DEF Handles
  <2>3. reply.status \in Served
    BY Statuses
  <2>4. Handled(reply)
    BY <1>5, <2>2, <2>3 DEF Handled
  <2> HIDE DEF reply
  <2>5. QED
    BY <1>4, <1>5, <2>1, <2>4 DEF Goal
<1>20. CASE GetIndexFileFails
  <2> DEFINE path == match.route.path
             status == IF path \in {TemplatesPath, ValuesPath} THEN 404
                       ELSE 500
  <2>1. /\ path \in {IndexPath, ListPath, ChartPath, VersionPath,
                      TemplatesPath, ValuesPath}
        /\ Answer(Refusal(status))
    BY <1>20 DEF GetIndexFileFails, Handles
  <2>2. path \in AllPaths
    BY <1>5, <2>1
  <2>3. match # NotFound
    BY <1>2, <1>3, <2>2
  <2>4. Refusal(status).status \in Served
    BY <1>1
  <2>5. Handled(Refusal(status))
    BY <1>5, <2>4 DEF Handled
  <2> HIDE DEF status
  <2>6. QED
    BY <2>1, <2>3, <2>5 DEF Goal
<1>21. CASE Post
  <2>1. PICK path \in {ListPath, ProvPath} : Handles({"POST"}, path)
    BY <1>21 DEF Post
  <2>2. PICK status \in {201, 400, 409, 413, 500, 507} :
            Answer(Refusal(status))
    BY <1>21 DEF Post
  <2>3. match.route.path = path /\ match.route.method = "POST"
    BY <2>1 DEF Handles
  <2>4. path \in AllPaths /\ path \notin {TemplatesPath, ValuesPath}
    BY <1>5
  <2>5. Refusal(status).status \in Served
    BY <1>1
  <2>6. Handled(Refusal(status))
    BY <2>3, <2>4, <2>5 DEF Handled
  <2>7. QED
    BY <1>4, <2>1, <2>2, <2>4, <2>6 DEF Goal
<1>22. CASE DeleteChart
  <2>1. PICK status \in {200, 404} : Answer(Refusal(status))
    BY <1>22 DEF DeleteChart
  <2>2. VersionPath \in Others /\ Refusal(status).status \in Served
    BY <1>1
  <2>3. Handles({"DELETE"}, VersionPath)
    BY <1>22 DEF DeleteChart
  <2> HIDE DEF Others, Served
  <2>4. QED
    BY <1>6, <2>1, <2>2, <2>3 DEF Goal
<1>23. QED
  BY <1>7, <1>8, <1>9, <1>10, <1>11, <1>12, <1>13, <1>14, <1>15, <1>16,
     <1>17, <1>18, <1>19, <1>20, <1>21, <1>22 DEF Handler

(* Nothing is asked yet.                                                   *)
LEMMA FirstRequest == Init => RequestInv /\ AnswerInv
<1> SUFFICES ASSUME Init
             PROVE  RequestInv /\ AnswerInv
  OBVIOUS
<1>1. config \in Configs /\ content \in Contents
  BY DEF Init
<1>2. /\ request.url = <<>> /\ request.header = NoHeader
      /\ request.query = NoQuery
      /\ meant.header = NoHeader /\ meant.query = NoQuery
  BY DEF Init, NoRequest, Unmeant, Meaning
<1>3. NoQuery.offset \in Seq(Int) /\ NoQuery.limit \in Seq(Int)
  BY DEF NoQuery
<1>4. meant = Unmeant /\ match = NotFound /\ answer = Pending
  BY DEF Init
<1>5. QED
  BY <1>1, <1>2, <1>3, <1>4 DEF RequestInv, AnswerInv

(* Every step keeps both.                                                  *)
LEMMA NextRequest ==
    RequestInv /\ AnswerInv /\ [Next]_vars => RequestInv' /\ AnswerInv'
<1> SUFFICES ASSUME RequestInv, AnswerInv, [Next]_vars
             PROVE  RequestInv' /\ AnswerInv'
  OBVIOUS
<1>1. /\ config \in Configs /\ content \in Contents
      /\ request = NoRequest =>
             meant = Unmeant /\ match = NotFound /\ answer = Pending
  BY DEF RequestInv
<1>2. ASSUME NEW m \in Meanings(config.router), request = NoRequest, Ask(m)
      PROVE  RequestInv' /\ AnswerInv'
  <2>1. MayMean(config.router, m) /\ config.router \in RouterConfig
    BY <1>1, RequestAssumption DEF Config
  <2>2. Url(config.router, m) \in Seq(Segments)
    BY <2>1, UrlShape
  <2>3. /\ request'.url = Url(config.router, m)
        /\ request'.method = m.route.method
        /\ request'.header = m.header /\ request'.query = m.query
        /\ meant' = m
        /\ config' = config /\ content' = content
        /\ match' = match /\ answer' = answer
    BY <1>2 DEF Ask
  <2>4. m.query.offset \in Seq(Int) /\ m.query.limit \in Seq(Int)
    BY <2>1 DEF MayMean
  <2>5. match' = NotFound /\ answer' = Pending
    BY <1>1, <1>2, <2>3
  <2>6. request' # NoRequest
    <3>1. m.route \in AllRoutes
      BY <2>1, Meant
    <3>2. m.route.method # Empty
      BY <3>1, RouteFields, EmptyIsNoWord
    <3>3. QED
      BY <2>3, <3>2 DEF NoRequest
  <2>7. AnswerInv'
    BY <2>5 DEF AnswerInv
  <2>8. RequestInv'
    BY <1>1, <1>2, <2>2, <2>3, <2>4, <2>6 DEF RequestInv
  <2>9. QED
    BY <2>7, <2>8
<1>3. ASSUME NEW u \in StrayUrls(config.router),
             NEW method \in {"GET", "HEAD", "POST", "DELETE"},
             request = NoRequest, Stray(method, u)
      PROVE  RequestInv' /\ AnswerInv'
  <2>1. u \in Seq(Segments)
    BY <1>1, RequestAssumption, SegmentsIn
  <2>2. /\ request'.url = u /\ request'.method = method
        /\ request'.header = NoHeader /\ request'.query = NoQuery
        /\ config' = config /\ content' = content /\ meant' = meant
        /\ match' = match /\ answer' = answer
    BY <1>3 DEF Stray, NoRequest
  <2>3. meant = Unmeant /\ match' = NotFound /\ answer' = Pending
    BY <1>1, <1>3, <2>2
  <2>4. /\ NoQuery.offset \in Seq(Int) /\ NoQuery.limit \in Seq(Int)
        /\ meant.header = NoHeader /\ meant.query = NoQuery
    BY <2>3 DEF NoQuery, Unmeant, Meaning
  <2>5. AnswerInv'
    BY <2>3 DEF AnswerInv
  <2>6. RequestInv'
    BY <1>1, <2>1, <2>2, <2>3, <2>4 DEF RequestInv
  <2>7. QED
    BY <2>5, <2>6
<1>4. CASE Done
  <2>1. /\ request' = NoRequest /\ meant' = Unmeant
        /\ match' = NotFound /\ answer' = Pending
        /\ config' = config /\ content' = content
    BY <1>4 DEF Done
  <2>2. /\ request'.url = <<>> /\ request'.header = NoHeader
        /\ request'.query = NoQuery
        /\ meant'.header = NoHeader /\ meant'.query = NoQuery
    BY <2>1 DEF NoRequest, Unmeant, Meaning
  <2>3. NoQuery.offset \in Seq(Int) /\ NoQuery.limit \in Seq(Int)
    BY DEF NoQuery
  <2>4. QED
    BY <1>1, <2>1, <2>2, <2>3 DEF RequestInv, AnswerInv
<1>5. CASE RootHandler
  <2> DEFINE found == Match(config.router, request.method, request.url)
             status == Admission(config.router, request.header, found)
  <2>1. /\ request # NoRequest /\ match = NotFound /\ answer = Pending
        /\ IF status = 200 THEN match' = found /\ answer' = answer
           ELSE answer' = Refusal(status) /\ match' = match
        /\ config' = config /\ content' = content
        /\ request' = request /\ meant' = meant
    BY <1>5 DEF RootHandler
  <2>2. RequestInv'
    BY <2>1 DEF RequestInv
  <2>3. AnswerInv'
    <3>1. AnswerInv' <=>
              IF match' = NotFound
              THEN \/ answer' = Pending
                   \/ status # 200 /\ answer' = Refusal(status)
              ELSE /\ match' = found
                   /\ status = 200
                   /\ answer' = Pending \/ Handled(answer)'
      BY <2>1 DEF AnswerInv
    <3> HIDE DEF found, status
    <3>2. QED
      BY <2>1, <3>1
  <2>4. QED
    BY <2>2, <2>3
<1>6. CASE Handler
  <2>1. PICK reply : Answer(reply) /\ Handled(reply)
    BY <1>6, HandlerAnswers
  <2>2. /\ match # NotFound /\ answer' = reply
        /\ config' = config /\ content' = content
        /\ request' = request /\ meant' = meant /\ match' = match
    BY <1>6, <2>1, HandlerAnswers DEF Answer
  <2>3. RequestInv'
    BY <2>2 DEF RequestInv
  <2>4. Handled(answer)'
    BY <2>1, <2>2 DEF Handled, OfTenant, Arg
  <2>5. AnswerInv'
    BY <2>2, <2>4 DEF AnswerInv
  <2>6. QED
    BY <2>3, <2>5
<1>7. CASE UNCHANGED vars
  BY <1>7 DEF vars, RequestInv, AnswerInv, Handled, OfTenant, Arg
<1>8. QED
  BY <1>2, <1>3, <1>4, <1>5, <1>6, <1>7 DEF Next, Handler

(* Both hold in every state.                                               *)
LEMMA RequestsInvariant == Spec => [](RequestInv /\ AnswerInv)
BY FirstRequest, NextRequest, PTL DEF Spec
-----------------------------------------------------------------------------
(* The arguments of a route are the segments where its path has parameters.*)
LEMMA Span ==
  ASSUME NEW q \in Seq(Segments), NEW w, Len(w) = Len(q),
         NEW k \in Nat, NEW l \in Nat, k + l <= Len(q),
         \A i \in 1..Len(q) : IsParam(w[i]) <=> i \in (k + 1)..(k + l)
  PROVE  LET b == First({i \in 1..(Len(w) + 1) : i > Len(w) \/ IsParam(w[i])})
             e == First({i \in b..(Len(w) + 1) : i > Len(w) \/ ~IsParam(w[i])})
         IN  Len(SubSeq(q, b, e - 1)) = l
<1> DEFINE B == {i \in 1..(Len(w) + 1) : i > Len(w) \/ IsParam(w[i])}
           E == {i \in First(B)..(Len(w) + 1) : i > Len(w) \/ ~IsParam(w[i])}
           r == Len(SubSeq(q, First(B), First(E) - 1))
<1>0. /\ B = {i \in 1..(Len(w) + 1) : i > Len(w) \/ IsParam(w[i])}
      /\ E = {i \in First(B)..(Len(w) + 1) : i > Len(w) \/ ~IsParam(w[i])}
  OBVIOUS
<1> HIDE DEF B, E
<1> DEFINE n == Len(q)
<1>1. n \in Nat /\ Len(w) = n
  OBVIOUS
<1> HIDE DEF n
<1>2. ASSUME l = 0
      PROVE  r = l
  <2>1. B = {n + 1}
    BY <1>0, <1>1, <1>2 DEF n
  <2>2. First({n + 1}) = n + 1
    BY <1>1, FirstIs
  <2>3. First(B) = n + 1
    BY <2>1, <2>2
  <2>4. E = {n + 1}
    <3>1. E = {i \in (n + 1)..(n + 1) : i > n \/ ~IsParam(w[i])}
      BY <1>0, <1>1, <2>3
    <3>2. (n + 1)..(n + 1) = {n + 1} /\ n + 1 > n
      BY <1>1
    <3>3. QED
      BY <3>1, <3>2
  <2>5. First(E) = n + 1
    BY <2>4, <2>2
  <2>6. First(E) - 1 = n
    BY <1>1, <2>5
  <2>7. Len(SubSeq(q, n + 1, n)) = 0
    BY <1>1 DEF n
  <2>8. QED
    BY <1>2, <2>3, <2>6, <2>7
<1>3. ASSUME l > 0
      PROVE  r = l
  <2>1. First(B) = k + 1
    <3>1. B \in SUBSET Nat /\ k + 1 \in B
      BY <1>0, <1>1, <1>3 DEF n
    <3>2. \A j \in B : k + 1 <= j
      BY <1>0, <1>1, <1>3 DEF n
    <3>3. QED
      BY <3>1, <3>2, FirstIs
  <2>2. E = {i \in (k + 1)..(n + 1) : i > n \/ ~IsParam(w[i])}
    BY <1>0, <1>1, <2>1
  <2>3. First(E) = k + l + 1
    <3>1. E \in SUBSET Nat /\ k + l + 1 \in E
      BY <1>1, <1>3, <2>2 DEF n
    <3>2. \A j \in E : k + l + 1 <= j
      BY <1>1, <1>3, <2>2 DEF n
    <3>3. QED
      BY <3>1, <3>2, FirstIs
  <2>4. First(E) - 1 = k + l
    BY <2>3
  <2>5. Len(SubSeq(q, k + 1, k + l)) = l
    <3>1. k + 1 \in Int /\ k + l \in Int /\ k + 1 <= k + l
      BY <1>3
    <3>2. \A i \in (k + 1)..(k + l) : q[i] \in Segments
      BY <1>1 DEF n
    <3>3. k + l - (k + 1) + 1 = l
      OBVIOUS
    <3>4. QED
      BY <3>1, <3>2, <3>3, SubSeqProperties
  <2>6. QED
    BY <2>1, <2>4, <2>5
<1>4. r = l
  <2> HIDE DEF r
  <2>1. QED
    BY <1>2, <1>3
<1>5. QED
  BY <1>4 DEF B, E

LEMMA ArgsFit ==
  ASSUME NEW route \in AllRoutes, NEW url \in Seq(Segments),
         NEW depth \in Nat, TryRepoRoutes(url, depth),
         Len(WithoutRepo(route.path)) = Len(NoRepoPath(url, depth))
  PROVE  Fill(ArgsOf(route, url, depth), route.path)
<1> DEFINE path == route.path
           w == WithoutRepo(path)
           q == NoRepoPath(url, depth)
           B == {i \in 1..(Len(w) + 1) : i > Len(w) \/ IsParam(w[i])}
           E == {i \in First(B)..(Len(w) + 1) : i > Len(w) \/ ~IsParam(w[i])}
           args == SubSeq(q, First(B), First(E) - 1)
<1>1. args = ArgsOf(route, url, depth)
  BY DEF ArgsOf
<1>2. path \in AllPaths
  BY RouteFields
<1>3. q \in Seq(Segments) /\ Len(w) = Len(q)
  BY RestOf, SegmentsIn
<1>4. /\ path \in Seq(Words \cup Blanks) /\ path[1] = Empty
      /\ Single(path) \/ OfFiles(path) \/ OfApi(path)
  BY <1>2, PathShapes
<1>5. /\ w[1] = Empty
      /\ Single(path) => w = path
      /\ ~Single(path) => Len(w) = Len(path) - 1
      /\ OfFiles(path) => \A i \in 2..Len(w) : w[i] = path[i + 1]
      /\ OfApi(path) => /\ w[2] = "api"
                        /\ \A i \in 3..Len(w) : w[i] = path[i + 1]
  BY <1>2, BarePath
<1> HIDE DEF w, q, B, E
<1> DEFINE n == Len(path)
           N == Len(q)
           Bare(k, l) == /\ k + l <= N
                         /\ \A i \in 1..N :
                                IsParam(w[i]) <=> i \in (k + 1)..(k + l)
           Goal == \E k \in Nat, l \in Nat, b \in 0..n :
                       Bare(k, l) /\ Params(path) = (b + 1)..(b + l)
<1>6. n \in Nat /\ N \in Nat /\ N = Len(w)
  BY <1>3, <1>4
<1>7. ASSUME NEW k \in Nat, NEW l \in Nat, Bare(k, l)
      PROVE  Len(args) = l
  <2>1. k + l <= Len(q) /\ \A i \in 1..Len(q) :
            IsParam(w[i]) <=> i \in (k + 1)..(k + l)
    BY <1>7
  <2>2. Len(SubSeq(q, First(B), First(E) - 1)) = l
    BY <1>3, <2>1, Span DEF B, E
  <2>3. QED
    BY <2>2
<1>8. ASSUME NEW k \in Nat, NEW l \in Nat, NEW b \in 0..n,
             Bare(k, l), Params(path) = (b + 1)..(b + l)
      PROVE  Goal
  BY <1>8
<1> HIDE DEF args, n, N, Bare, Goal
<1>9. ASSUME Single(path)
      PROVE  Goal
  <2>1. n = 2 /\ w = path /\ ~IsParam(path[1]) /\ ~IsParam(path[2])
    BY <1>4, <1>5, <1>9, EmptyIsNoWord DEF Single, IsParam, Blanks, n
  <2>2. N = 2
    BY <1>6, <2>1 DEF n
  <2>3. Params(path) = (0 + 1)..(0 + 0)
    BY <1>2, <1>9, ParamsAt
  <2>4. Bare(0, 0)
    BY <2>1, <2>2 DEF Bare
  <2>5. QED
    BY <1>6, <1>8, <2>3, <2>4
<1>10. ASSUME OfFiles(path)
      PROVE  Goal
  <2>1. ~Single(path)
    BY <1>10, EmptyIsNoWord DEF OfFiles, Single
  <2>2. \/ n = 3 /\ Params(path) = {}
        \/ n = 4 /\ Params(path) = {4}
    BY <1>2, <1>10, ParamsAt DEF n
  <2>3. N = n - 1 /\ w[1] = Empty /\ \A i \in 2..N : w[i] = path[i + 1]
    BY <1>5, <1>6, <1>10, <2>1 DEF n
  <2>4. /\ n = 3 => path[3] = "index.yaml"
        /\ n = 4 => path[3] = "charts" /\ path[4] = ":filename"
    <3>1. \/ n = 3 /\ path[3] = "index.yaml"
          \/ n = 4 /\ path[3] = "charts" /\ path[4] = ":filename"
      BY <1>10 DEF OfFiles, n
    <3>2. QED
      BY <3>1
  <2>5. CASE n = 3
    <3>1. N = 2 /\ w[2] = "index.yaml"
      BY <2>3, <2>4, <2>5
    <3>2. ~IsParam(w[1]) /\ ~IsParam(w[2])
      BY <2>3, <3>1, EmptyIsNoWord DEF IsParam, Blanks
    <3>3. Bare(0, 0)
      BY <3>1, <3>2 DEF Bare
    <3>4. Params(path) = (0 + 1)..(0 + 0)
      BY <2>2, <2>5
    <3>5. QED
      BY <1>6, <1>8, <3>3, <3>4
  <2>6. CASE n = 4
    <3>1. N = 3 /\ w[2] = "charts" /\ w[3] = ":filename"
      BY <2>3, <2>4, <2>6
    <3>2. ~IsParam(w[1]) /\ ~IsParam(w[2]) /\ IsParam(w[3])
      BY <2>3, <3>1, EmptyIsNoWord DEF IsParam, Blanks
    <3>3. Bare(2, 1)
      BY <3>1, <3>2 DEF Bare
    <3>4. Params(path) = (3 + 1)..(3 + 1) /\ 3 \in 0..n
      BY <2>2, <2>6
    <3>5. QED
      BY <1>8, <3>3, <3>4
  <2>7. QED
    BY <2>2, <2>5, <2>6
<1>11. ASSUME OfApi(path)
       PROVE  Goal
  <2>1. ~Single(path)
    BY <1>11, EmptyIsNoWord DEF OfApi, Single
  <2>2. \/ n = 4 /\ Params(path) = {}
        \/ n = 5 /\ Params(path) = {5}
        \/ n \in {6, 7} /\ Params(path) = {5, 6}
    BY <1>2, <1>11, ParamsAt DEF n
  <2>3. /\ N = n - 1 /\ w[1] = Empty /\ w[2] = "api"
        /\ \A i \in 3..N : w[i] = path[i + 1]
    BY <1>5, <1>6, <1>11, <2>1 DEF n
  <2>4. /\ path[4] \in {"charts", "prov"}
        /\ n > 4 => path[5] = ":name"
        /\ n > 5 => path[6] = ":version"
        /\ n > 6 => path[7] \in {"templates", "values"}
    BY <1>11 DEF OfApi, n
  <2>5. n = 4 \/ n = 5 \/ n = 6 \/ n = 7
    BY <2>2
  <2>6. /\ ~IsParam(w[1]) /\ ~IsParam(w[2]) /\ ~IsParam(w[3])
        /\ n > 4 => IsParam(w[4])
        /\ n > 5 => IsParam(w[5])
        /\ n > 6 => ~IsParam(w[6])
    <3>1. /\ w[3] = path[4]
          /\ n > 4 => w[4] = path[5]
          /\ n > 5 => w[5] = path[6]
          /\ n > 6 => w[6] = path[7]
      BY <2>3, <2>5
    <3>2. QED
      BY <2>3, <2>4, <3>1, EmptyIsNoWord DEF IsParam, Blanks
  <2>7. CASE n = 4
    <3>1. Bare(0, 0)
      BY <2>3, <2>6, <2>7 DEF Bare
    <3>2. Params(path) = (0 + 1)..(0 + 0)
      BY <2>2, <2>7
    <3>3. QED
      BY <1>6, <1>8, <3>1, <3>2
  <2>8. CASE n = 5
    <3>1. Bare(3, 1)
      BY <2>3, <2>6, <2>8 DEF Bare
    <3>2. Params(path) = (4 + 1)..(4 + 1) /\ 4 \in 0..n
      BY <2>2, <2>8
    <3>3. QED
      BY <1>8, <3>1, <3>2
  <2>9. CASE n = 6 \/ n = 7
    <3>1. Bare(3, 2)
      <4>1. CASE n = 6
        BY <2>3, <2>6, <4>1 DEF Bare
      <4>2. CASE n = 7
        BY <2>3, <2>6, <4>2 DEF Bare
      <4>3. QED
        BY <2>9, <4>1, <4>2
    <3>2. Params(path) = {5, 6}
      BY <2>2, <2>9
    <3>3. Params(path) = (4 + 1)..(4 + 2) /\ 4 \in 0..n
      BY <2>9, <3>2
    <3>4. QED
      BY <1>8, <3>1, <3>3
  <2>10. QED
    BY <2>5, <2>7, <2>8, <2>9
<1>12. PICK k \in Nat, l \in Nat, b \in 0..n :
           Bare(k, l) /\ Params(path) = (b + 1)..(b + l)
  BY <1>4, <1>9, <1>10, <1>11 DEF Goal
<1>13. Len(args) = l
  BY <1>7, <1>12
<1>14. Fill(args, path)
  BY <1>12, <1>13 DEF Fill, n
<1>15. QED
  BY <1>1, <1>14 DEF path

(* A route found is one of the server's, with a value for each of the      *)
(* parameters of its path, or with none.                                   *)
LEMMA FoundRoute ==
  ASSUME NEW c \in RouterConfig, NEW method, NEW url \in Seq(Segments),
         Match(c, method, url) # NotFound
  PROVE  LET found == Match(c, method, url)
         IN  /\ \E i \in DOMAIN Routes(c) : found.route = Routes(c)[i]
             /\ found.args = <<>> \/ Fill(found.args, found.route.path)
<1> DEFINE routes == Routes(c)
           u == WithoutContext(c.contextPath, url)
           depth == DepthOf(c, u)
           short == Shortcut(c, method, u)
           fit == Matching(c, method, u, depth)
           found == MatchUrl(c, method, u)
           route == routes[First(fit)]
<1>1. Match(c, method, url) = found /\ found # NotFound
  BY DEF Match
<1>2. routes \in Seq(AllRoutes)
  BY RoutesOnce
<1>3. /\ short \in SUBSET Nat /\ short \subseteq DOMAIN routes
      /\ fit \in SUBSET Nat /\ fit \subseteq DOMAIN routes
  BY <1>2 DEF Shortcut, Matching
<1>4. /\ short # {} => First(short) \in DOMAIN routes
      /\ fit # {} => First(fit) \in fit
  <2> HIDE DEF short, fit
  <2>1. QED
    BY <1>3, FirstOf
<1>5. \/ /\ short # {}
         /\ found.route = routes[First(short)] /\ found.args = <<>>
      \/ /\ fit # {} /\ ~(depth < 0) /\ found.route = route
         /\ \/ found.args = <<>>
            \/ route.path # u /\ found.args = ArgsOf(route, u, depth)
  BY <1>1 DEF MatchUrl, Found
<1>6. u \in Seq(Segments)
  <2>1. c.contextPath \in Seq(STRING)
    BY DEF RouterConfig
  <2>2. InContext(c.contextPath, url)
    BY DEF Match
  <2>3. QED
    BY <2>1, <2>2, UrlBelow
<1>7. depth \in Int
  BY <1>6, DepthIn
<1>8. fit # {} => RouteMatches(route, u, depth)
  BY <1>4 DEF Matching
<1> HIDE DEF short, fit, found, depth, u
<1>9. CASE fit # {} /\ route.path # u /\ ~(depth < 0)
  <2>1. /\ TryRepoRoutes(u, depth)
        /\ Len(WithoutRepo(route.path)) = Len(NoRepoPath(u, depth))
    BY <1>8, <1>9 DEF RouteMatches
  <2>2. route \in AllRoutes
    <3> DEFINE i == First(fit)
    <3>1. i \in DOMAIN routes
      BY <1>3, <1>4, <1>9
    <3> HIDE DEF i
    <3>2. routes[i] \in AllRoutes
      BY <1>2, <3>1
    <3>3. QED
      BY <3>2 DEF i
  <2>3. depth \in Nat
    BY <1>7, <1>9
  <2>4. Fill(ArgsOf(route, u, depth), route.path)
    BY <1>6, <2>1, <2>2, <2>3, ArgsFit
  <2>5. QED
    BY <1>1, <1>3, <1>4, <1>5, <2>4
<1>10. CASE ~(fit # {} /\ route.path # u /\ ~(depth < 0))
  BY <1>1, <1>3, <1>4, <1>5, <1>10
<1>11. QED
  BY <1>9, <1>10

(* Every answer has a status the handlers or the router know, and every    *)
(* request that was passed on has a route of the server, with a value for  *)
(* each parameter of its path or for none of them.                         *)
THEOREM TypeCorrect == Spec => []TypeOK
<1>1. RequestInv /\ AnswerInv => TypeOK
  <2> SUFFICES ASSUME RequestInv, AnswerInv
               PROVE  TypeOK
    OBVIOUS
  <2> DEFINE found == Match(config.router, request.method, request.url)
             status == Admission(config.router, request.header, found)
  <2>1. /\ config \in Configs /\ content \in Contents
        /\ request.url \in Seq(Segments)
    BY DEF RequestInv
  <2>2. status \in {200, 401, 404, 500}
    BY DEF Admission
  <2>3. \A s : Refusal(s).status = s
    BY DEF Refusal, Reply
  <2>4. IF match = NotFound
        THEN answer = Pending \/ (status # 200 /\ answer = Refusal(status))
        ELSE match = found /\ (answer = Pending \/ Handled(answer))
    BY DEF AnswerInv
  <2>5. match # NotFound =>
            /\ \E i \in DOMAIN Routes(config.router) :
                   match.route = Routes(config.router)[i]
            /\ match.args = <<>> \/ Fill(match.args, match.route.path)
    <3>1. config.router \in RouterConfig
      BY <2>1, RequestAssumption DEF Config
    <3>2. QED
      BY <2>1, <2>4, <3>1, FoundRoute
  <2>6. Handled(answer) =>
            answer.status \in {200, 201, 400, 404, 409, 413, 500, 507}
    BY DEF Handled
  <2>7. Pending.status = 0
    BY <2>3 DEF Pending
  <2> HIDE DEF status, found
  <2>8. answer.status \in {0, 200, 201, 400, 401, 404, 409, 413, 500, 507}
    BY <2>2, <2>3, <2>4, <2>6, <2>7
  <2>9. QED
    BY <2>1, <2>5, <2>8 DEF TypeOK
<1>2. QED
  BY <1>1, RequestsInvariant, PTL

(* A URL of the README, at any depth and below any context path, is        *)
(* answered by the handler it is for, or refused to who may not.           *)
THEOREM RequestsReachTheirRoute == Spec => []AnsweredAsMeant
<1>1. RequestInv /\ AnswerInv => AnsweredAsMeant
  <2> SUFFICES ASSUME RequestInv, AnswerInv, Answered, meant # Unmeant,
                      ~Shadowed(config.router, meant)
               PROVE  IF Granted(config.router, meant)
                      THEN match = Found(meant.route, meant.repo, meant.args)
                      ELSE answer.status \in {401, 500}
    BY DEF AnsweredAsMeant
  <2> DEFINE c == config.router
             found == Found(meant.route, meant.repo, meant.args)
             status == Admission(c, request.header, found)
  <2>1. /\ config \in Configs /\ meant \in Meanings(c)
        /\ request.method = meant.route.method
        /\ request.url = Url(c, meant)
        /\ request.header = meant.header
    BY DEF RequestInv
  <2>2. c \in RouterConfig /\ MayMean(c, meant)
    BY <2>1, RequestAssumption DEF Config
  <2>3. Match(c, request.method, request.url) = found
    BY <2>1, <2>2, Reached
  <2>4. found # NotFound
    <3>1. meant.route.path \in AllPaths
      BY <2>2, Meant
    <3>2. meant.route.path # <<>>
      BY <3>1, PathShapes, EmptySeq DEF Single, OfFiles, OfApi
    <3>3. NotFound.route.path = <<>> /\ found.route = meant.route
      BY DEF NotFound, Found, NoRoute, Route
    <3>4. QED
      BY <3>2, <3>3
  <2>5. found.route = meant.route /\ found.repo = meant.repo
    BY DEF Found
  <2>6. /\ Granted(c, meant) <=> status = 200
        /\ status \in {200, 401, 500}
    BY <2>1, <2>4, <2>5 DEF Granted, Admission
  <2>7. IF match = NotFound
        THEN answer = Pending \/ (status # 200 /\ answer = Refusal(status))
        ELSE match = found /\ status = 200
    BY <2>3 DEF AnswerInv
  <2>8. answer # Pending /\ \A s : Refusal(s).status = s
    BY DEF Answered, Refusal, Reply
  <2> HIDE DEF c, found, status
  <2>9. IF Granted(c, meant) THEN match = found
        ELSE answer.status \in {401, 500}
    BY <2>4, <2>6, <2>7, <2>8
  <2>10. QED
    BY <2>9 DEF c, found
<1>2. QED
  BY <1>1, RequestsInvariant, PTL

(* The order of the routes decides nothing but for the welcome page,       *)
(* whatever the URL and the depth.                                         *)
THEOREM OrderIsNoMatter == Spec => []OrderMattersAtTheRootOnly
<1>1. RequestInv => OrderMattersAtTheRootOnly
  <2> DEFINE c == config.router
             url == WithoutContext(c.contextPath, request.url)
             d == DepthOf(c, url)
             fit == Matching(c, request.method, url, d)
  <2> SUFFICES ASSUME RequestInv,
                      InContext(c.contextPath, request.url), d >= 0,
                      NEW i \in fit, NEW j \in fit
               PROVE  i = j \/ \E k \in {i, j} : Routes(c)[k].path = RootPath
    BY DEF OrderMattersAtTheRootOnly
  <2>1. c \in RouterConfig /\ request.url \in Seq(Segments)
    BY RequestAssumption DEF RequestInv, Config
  <2>2. c.contextPath \in Seq(STRING)
    BY <2>1 DEF RouterConfig
  <2>3. url \in Seq(Segments)
    BY <2>1, <2>2, UrlBelow
  <2>4. d \in Nat
    <3>1. d \in Int
      BY <2>1, <2>3, DepthIn
    <3> HIDE DEF d
    <3>2. QED
      BY <3>1
  <2> HIDE DEF d, url
  <2>5. QED
    BY <2>4, OneMatches
<1>2. QED
  BY <1>1, RequestsInvariant, PTL
-----------------------------------------------------------------------------
(* A list of names has as many as the index has.                           *)
LEMMA KeysList ==
  ASSUME NEW index
  PROVE  Len(Keys(index)) \in Nat /\ DOMAIN Keys(index) = 1..Len(Keys(index))
<1> DEFINE at == {i \in DOMAIN NamesInOrder :
                     NamesInOrder[i] \in DOMAIN index}
<1>1. DOMAIN NamesInOrder = 1..Len(NamesInOrder) /\ Len(NamesInOrder) \in Nat
  BY FileAssumption
<1>2. IsFiniteSet(at)
  <2>1. IsFiniteSet(1..Len(NamesInOrder))
    BY <1>1, FS_Interval
  <2>2. at \subseteq 1..Len(NamesInOrder)
    BY <1>1
  <2>3. QED
    BY <2>1, <2>2, FS_Subset
<1>3. Cardinality(at) \in Nat
  BY <1>2, FS_CardinalityType
<1> HIDE DEF at
<1>4. Keys(index) =
          [k \in 1..Cardinality(at) |->
              NamesInOrder[CHOOSE i \in at :
                              Cardinality({j \in at : j <= i}) = k]]
  BY DEF Keys, at
<1>5. QED
  BY <1>3, <1>4

(* A page has what follows its offset in the sorted list, as long as the   *)
(* sum of offset and limit is an int.                                      *)
THEOREM PagesFollowEachOther == Spec => []PagesAreSlices
<1>1. RequestInv /\ AnswerInv => PagesAreSlices
  <2> DEFINE q == request.query
             keys == Keys(OfTenant.index)
             o == q.offset[1]
             l == q.limit[1]
             n == Len(keys)
             end == IF n < Plus(o, l) THEN n ELSE Plus(o, l)
  <2> SUFFICES ASSUME RequestInv, AnswerInv, Answered,
                      match.route = Route("GET", ListPath, "pull"),
                      answer.status = 200, q.offset # <<>>, q.limit # <<>>,
                      o + l <= MaxInt
               PROVE  DOMAIN answer.listing =
                          {keys[i] : i \in {j \in DOMAIN keys :
                              j > o /\ j <= o + l}}
    BY DEF PagesAreSlices
  <2>1. match.route.path = ListPath /\ match.route.method = "GET"
    BY DEF Route
  <2>2. match # NotFound
    <3>1. ListPath # <<>>
      BY PathsApart
    <3>2. NotFound.route.path = <<>>
      BY DEF NotFound, Found, NoRoute, Route
    <3>3. QED
      BY <2>1, <3>1, <3>2
  <2>3. answer = GetAllChartsRequest(OfTenant.index, q.offset, q.limit)
    <3>1. Handled(answer)
      BY <2>2 DEF AnswerInv, Answered
    <3>2. answer # Refusal(500)
      BY DEF Refusal, Reply
    <3>3. QED
      BY <2>1, <3>1, <3>2 DEF Handled
  <2>4. o \in Int /\ l \in Int
    <3>1. q.offset \in Seq(Int) /\ q.limit \in Seq(Int)
      BY DEF RequestInv
    <3>2. QED
      BY <3>1
  <2>5. /\ ~(o < 0) /\ ~(l <= 0)
        /\ answer.listing = GetAllCharts(OfTenant.index, o, l)
    BY <2>3 DEF GetAllChartsRequest, Refusal, Reply
  <2>6. DOMAIN answer.listing = {keys[i] : i \in (o + 1)..end}
    BY <2>4, <2>5 DEF GetAllCharts
  <2>7. n \in Nat /\ DOMAIN keys = 1..n
    BY KeysList
  <2>8. Plus(o, l) = o + l
    BY <2>4, FileAssumption DEF Plus
  <2> HIDE DEF n, keys, o, l
  <2>9. (o + 1)..end = {j \in 1..n : j > o /\ j <= o + l}
    BY <2>4, <2>5, <2>7, <2>8
  <2>10. QED
    BY <2>6, <2>7, <2>9
<1>2. QED
  BY <1>1, RequestsInvariant, PTL

(* Where no segment of --chart-url is the name of a package, templates and *)
(* values are those of the version's package; otherwise getChartFileName,  *)
(* that takes the first segment after a slash, can name another.           *)
THEOREM TemplatesOfTheVersion ==
  ASSUME \A c \in Configs : \A i \in DOMAIN c.chartURL :
             c.chartURL[i] \notin ObjectNames
  PROVE  Spec => []PackageOfTheVersion
<1>1. RequestInv /\ AnswerInv => PackageOfTheVersion
  <2> DEFINE n == Arg(1)
             v == Arg(2)
             index == OfTenant.index
             stored == OfTenant.stored
             url == config.chartURL
             found == GetChartVersion(index, n, v)
             file == FileOf[<<n, found[1]>>]
             named == GetChartFileName(index, url, n, v)
             loaded == LoadedPackage(index, stored, url, n, v)
  <2> SUFFICES ASSUME RequestInv, AnswerInv, Answered,
                      match.route.path \in {TemplatesPath, ValuesPath}
               PROVE  /\ answer.status = 200 =>
                             found # <<>> /\ answer.file = file
                      /\ answer.status = 500 /\ url = <<>> =>
                             file \notin Archives
    BY DEF PackageOfTheVersion
  <2>1. match # NotFound
    <3>1. TemplatesPath # <<>> /\ ValuesPath # <<>>
      BY PathsApart
    <3>2. NotFound.route.path = <<>>
      BY DEF NotFound, Found, NoRoute, Route
    <3>3. QED
      BY <3>1, <3>2
  <2>2. Handled(answer)
    BY <2>1 DEF AnswerInv, Answered
  <2>3. answer \in {Refusal(404), loaded}
    BY <2>2 DEF Handled, TemplatesRequest, ValuesRequest
  <2>4. \A s : Refusal(s).status = s
    BY DEF Refusal, Reply
  <2>5. url \in Seq(STRING) /\ \A i \in 1..Len(url) : url[i] \notin ObjectNames
    <3>1. config \in Configs
      BY DEF RequestInv
    <3>2. config \in Config
      BY <3>1, RequestAssumption
    <3>3. url \in Seq(STRING)
      BY <3>2 DEF Config
    <3>4. \A i \in DOMAIN url : url[i] \notin ObjectNames
      BY <3>1
    <3>5. QED
      BY <3>3, <3>4
  <2>6. /\ found # <<>> => named = (url \o <<"charts", file>>)[2]
        /\ found = <<>> => named = NoFile
    BY DEF GetChartFileName, UrlOf
  <2>7. /\ loaded.status = 200 =>
               found # <<>> /\ named \in ObjectNames /\ loaded.file = named
        /\ loaded.status = 500 =>
               /\ found # <<>>
               /\ named \notin ObjectNames \/ named \notin Archives
    BY <2>4 DEF LoadedPackage, GetStorageObject, Reply
  <2> HIDE DEF named, loaded, found
  <2>8. found # <<>> => named = file \/ named \notin ObjectNames
    <3> DEFINE full == url \o <<"charts", file>>
    <3>1. CASE Len(url) >= 2
      <4>1. full[2] = url[2]
        BY <2>5, <3>1
      <4>2. QED
        BY <2>5, <2>6, <3>1, <4>1
    <3>2. CASE Len(url) = 1
      <4>1. full[2] = "charts"
        BY <2>5, <3>2
      <4>2. QED
        BY <2>6, <4>1, FileAssumption
    <3>3. CASE Len(url) = 0
      <4>1. full[2] = file
        BY <2>5, <3>3
      <4>2. QED
        BY <2>6, <4>1
    <3> DEFINE len == Len(url)
    <3>4. len \in Nat
      BY <2>5
    <3>5. /\ len >= 2 => Len(url) >= 2
          /\ len = 1 => Len(url) = 1
          /\ len = 0 => Len(url) = 0
      OBVIOUS
    <3> HIDE DEF len
    <3>6. len >= 2 \/ len = 1 \/ len = 0
      BY <3>4
    <3>7. QED
      BY <3>1, <3>2, <3>3, <3>5, <3>6
  <2>9. found # <<>> /\ url = <<>> => named = file
    BY <2>6
  <2>10. QED
    BY <2>3, <2>4, <2>7, <2>8, <2>9, FileAssumption
<1>2. QED
  BY <1>1, RequestsInvariant, PTL
=============================================================================
