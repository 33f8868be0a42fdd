------------------------------ MODULE Requests ------------------------------
(***************************************************************************)
(* A request from the router to its answer: rootHandler finds the route,   *)
(* asks the authorizer and calls the handler, which reads the index and    *)
(* the storage of the tenant.  Requests share nothing but those two, so    *)
(* one at a time is enough here; IndexCache and ChartUploads have what     *)
(* they do to each other, and what handlers that change storage do.        *)
(***************************************************************************)
EXTENDS Router, ChartReads, FiniteSets

CONSTANTS Configs,    \* configurations of the server
          Tenants,    \* tenants that have charts
          Contents,   \* what the tenants may have: an index, and files
          Meanings(_),  \* Meanings(c): what clients of c want
          StrayUrls(_)  \* StrayUrls(c): URLs they try besides

VARIABLES config,   \* what the server was started with
          content,  \* content[t]: index and files of the tenant t
          request,  \* the request under way
          meant,    \* (history) what its client wants
          match,    \* match[1]: the route found, once rootHandler let it pass
          answer    \* the answer, its status 0 until there is one

vars == <<config, content, request, meant, match, answer>>

Config ==
    [router : RouterConfig,
     chartURL : Seq(STRING),             \* segments of --chart-url
     artifactHubIds : SUBSET Seq(STRING)]  \* tenants that have an id

(* What a client wants: a route, for a tenant, with values for the         *)
(* parameters of its path, the header and the query of the request.        *)
Meaning(route, repo, args, header, query) ==
    [route |-> route, repo |-> repo, args |-> args, header |-> header,
     query |-> query]

NoHeader == [password |-> FALSE, grants |-> {}, unreadable |-> FALSE]
NoQuery == [offset |-> <<>>, limit |-> <<>>]
Unmeant == Meaning(NoRoute, <<>>, <<>>, NoHeader, NoQuery)

(* The URL the README lists for a route, as if there were no context path. *)
Below(m) ==
    LET path == m.route.path
        b == BeforeRepo(path)
        rest == SubSeq(path, b + 2, Len(path))
        at == First({i \in 1..(Len(rest) + 1) :
                        i > Len(rest) \/ IsParam(rest[i])})
        filled == [i \in DOMAIN rest |->
                      IF IsParam(rest[i]) THEN m.args[i - at + 1] ELSE rest[i]]
    IN  SubSeq(path, 1, b) \o m.repo \o filled

Url(c, m) ==
    IF c.contextPath = <<>> THEN Below(m) ELSE c.contextPath \o Tail(Below(m))

(* Names are not empty, and not what a path has in the place of a name.    *)
Names(s) ==
    /\ s \in Seq(STRING)
    /\ \A i \in DOMAIN s : s[i] \notin {Empty} \cup Blanks

Params(path) == {i \in DOMAIN path : path[i] \in Blanks \ {":repo"}}

(* As many values as the path has parameters, which stand together.        *)
Fill(args, path) ==
    \E b \in 0..Len(path) : Params(path) = (b + 1)..(b + Len(args))

(* What a client of c may want: a route of the server, for as many names   *)
(* as its path and the depth take.                                         *)
MayMean(c, m) ==
    LET path == m.route.path
    IN  /\ m = Meaning(m.route, m.repo, m.args, m.header, m.query)
        /\ \E i \in DOMAIN Routes(c) : m.route = Routes(c)[i]
        /\ Names(m.repo) /\ Names(m.args)
        /\ IF BeforeRepo(path) = Len(path) THEN m.repo = <<>>
           ELSE c.depthDynamic \/ Len(m.repo) = c.depth
        /\ Fill(m.args, path)
        /\ path[Len(path)] = ":filename" =>
               m.args[1] \in FileNames \ {"index.yaml"}
        /\ m.query.offset \in Seq(Int) /\ m.query.limit \in Seq(Int)

ASSUME RequestAssumption ==
    /\ Configs \subseteq Config
    /\ \A c \in Configs : \A m \in Meanings(c.router) : MayMean(c.router, m)
    /\ \A c \in Configs : \A u \in StrayUrls(c.router) : u \in Seq(STRING)

NoRequest == [method |-> Empty, url |-> <<>>, header |-> NoHeader,
              query |-> NoQuery]

Pending == Refusal(0)

Init ==
    /\ config \in Configs
    /\ content \in Contents
    /\ request = NoRequest
    /\ meant = Unmeant
    /\ match = NotFound
    /\ answer = Pending

(* The types of the variables; a handler has a value for every parameter   *)
(* of its route (match.go:154-166), or for none when the URL is the path   *)
(* by letter.                                                              *)
TypeOK ==
    /\ config \in Configs
    /\ content \in Contents
    /\ match = NotFound \/
           /\ \E i \in DOMAIN Routes(config.router) :
                 match.route = Routes(config.router)[i]
           /\ match.args = <<>> \/ Fill(match.args, match.route.path)
    /\ answer.status \in {0, 200, 201, 400, 401, 404, 409, 413, 500, 507}
-----------------------------------------------------------------------------
Ask(m) ==
    /\ request' = [method |-> m.route.method, url |-> Url(config.router, m),
                   header |-> m.header, query |-> m.query]
    /\ meant' = m
    /\ UNCHANGED <<config, content, match, answer>>

Stray(method, url) ==
    /\ request' = [NoRequest EXCEPT !.method = method, !.url = url]
    /\ UNCHANGED <<config, content, meant, match, answer>>

(* The answer is sent, the next request may come.                          *)
Done ==
    /\ answer # Pending
    /\ request' = NoRequest
    /\ meant' = Unmeant
    /\ match' = NotFound
    /\ answer' = Pending
    /\ UNCHANGED <<config, content>>

(* rootHandler answers itself, or passes the request to the handler of the *)
(* route it found.                                                         *)
RootHandler ==
    /\ request # NoRequest
    /\ match = NotFound
    /\ answer = Pending
    /\ LET found == Match(config.router, request.method, request.url)
           status == Admission(config.router, request.header, found)
       IN  IF status = 200
           THEN match' = found /\ UNCHANGED answer
           ELSE answer' = Refusal(status) /\ UNCHANGED match
    /\ UNCHANGED <<config, content, request, meant>>

Handles(methods, path) ==
    /\ match.route.path = path
    /\ match.route.method \in methods
    /\ answer = Pending

(* c.Param: a parameter that was not found is empty.                       *)
Arg(i) == IF i \in DOMAIN match.args THEN match.args[i] ELSE Empty

OfTenant ==
    IF match.repo \in Tenants THEN content[match.repo]
    ELSE [index |-> Nothing, stored |-> {}]

Answer(reply) ==
    /\ answer' = reply
    /\ UNCHANGED <<config, content, request, meant, match>>

-----------------------------------------------------------------------------
ServerInfo ==
    /\ \E path \in {RootPath, InfoPath, HealthPath} : Handles({"GET"}, path)
    /\ Answer(Reply(200, Nothing, NoFile))

(* A file of the web template, if it is there.                             *)
StaticFiles ==
    /\ Handles({"GET"}, StaticPath)
    /\ \E status \in {200, 404} : Answer(Refusal(status))

ArtifactHub ==
    /\ Handles({"GET"}, HubPath)
    /\ Answer(ArtifactHubRequest(config.artifactHubIds, match.repo))

(* A HEAD does not look whether there is an index.                         *)
GetIndexFile ==
    /\ Handles({"GET"}, IndexPath)
    /\ Answer(Reply(200, OfTenant.index, "index.yaml"))

HeadIndexFile ==
    /\ Handles({"HEAD"}, IndexPath)
    /\ Answer(Reply(200, Nothing, NoFile))

GetStorageObjectOf ==
    /\ Handles({"GET"}, FilePath)
    /\ Answer(GetStorageObject(OfTenant.stored, Arg(1)))

GetAllChartsOf ==
    /\ Handles({"GET"}, ListPath)
    /\ Answer(GetAllChartsRequest(OfTenant.index, request.query.offset,
                                  request.query.limit))

GetChart ==
    /\ Handles({"GET"}, ChartPath)
    /\ Answer(GetChartRequest(OfTenant.index, Arg(1)))

HeadChart ==
    /\ Handles({"HEAD"}, ChartPath)
    /\ Answer(Head200(GetChartRequest(OfTenant.index, Arg(1))))

GetVersion ==
    /\ Handles({"GET"}, VersionPath)
    /\ Answer(GetChartVersionRequest(OfTenant.index, Arg(1), Arg(2)))

HeadVersion ==
    /\ Handles({"HEAD"}, VersionPath)
    /\ Answer(Head200(GetChartVersionRequest(OfTenant.index, Arg(1),
                                             Arg(2))))

GetTemplates ==
    /\ Handles({"GET"}, TemplatesPath)
    /\ Answer(TemplatesRequest(OfTenant.index, OfTenant.stored,
                               config.chartURL, Arg(1), Arg(2)))

GetValues ==
    /\ Handles({"GET"}, ValuesPath)
    /\ Answer(ValuesRequest(OfTenant.index, OfTenant.stored,
                            config.chartURL, Arg(1), Arg(2)))

(* The index could not be had: storage or the cache failed.                *)
GetIndexFileFails ==
    /\ \/ Handles({"GET"}, IndexPath)
       \/ Handles({"GET"}, ListPath)
       \/ Handles({"GET", "HEAD"}, ChartPath)
       \/ Handles({"GET", "HEAD"}, VersionPath)
       \/ Handles({"GET"}, TemplatesPath)
       \/ Handles({"GET"}, ValuesPath)
    /\ Answer(Refusal(IF match.route.path \in {TemplatesPath, ValuesPath}
                      THEN 404 ELSE 500))

(* What becomes of storage is in ChartUploads: any answer of an upload,    *)
(* that the request is too large, malformed, in conflict or over the limit *)
(* of objects among them, may come here.                                   *)
Post ==
    /\ \E path \in {ListPath, ProvPath} : Handles({"POST"}, path)
    /\ \E status \in {201, 400, 409, 413, 500, 507} : Answer(Refusal(status))

(* A delete answers 404 for every failure of the storage.                  *)
DeleteChart ==
    /\ Handles({"DELETE"}, VersionPath)
    /\ \E status \in {200, 404} : Answer(Refusal(status))

Next ==
    \/ /\ request = NoRequest
       /\ \/ \E m \in Meanings(config.router) : Ask(m)
          \/ \E u \in StrayUrls(config.router) :
                \E method \in {"GET", "HEAD", "POST", "DELETE"} :
                    Stray(method, u)
    \/ Done
    \/ RootHandler
    \/ ServerInfo \/ StaticFiles \/ ArtifactHub
    \/ GetIndexFile \/ HeadIndexFile \/ GetStorageObjectOf
    \/ GetAllChartsOf \/ GetChart \/ HeadChart
    \/ GetVersion \/ HeadVersion \/ GetTemplates \/ GetValues
    \/ GetIndexFileFails \/ Post \/ DeleteChart

Spec == Init /\ [][Next]_vars
-----------------------------------------------------------------------------
Answered == answer # Pending

(* README.md and the flags promise what follows but for these requests:    *)
(* "/info" and "/artifacthub-repo.yml" where they are as long as a tenant, *)
(* which the welcome page takes; paths that begin with "/static" of a      *)
(* server with a web template; parameters of the API that look like files; *)
(* and, with --depth-dynamic, the names the router looks for.              *)
Shadowed(c, m) ==
    LET path == m.route.path
    IN  \/ /\ BeforeRepo(path) = Len(path)
           /\ path[Len(path)] \in {"info", "artifacthub-repo.yml"}
           /\ c.depth = 1 \/ c.depthDynamic
        \/ /\ c.webTemplate
           /\ path[2] = ":repo"
           /\ m.repo # <<>>
           /\ BeginsWith(m.repo[1], "static")
        \/ /\ path[2] = "api"
           /\ m.args # <<>>
           /\ m.args[Len(m.args)] \in FileNames
        \/ /\ c.depthDynamic
           /\ LET names == m.repo \o m.args
              IN  \E i \in DOMAIN names : names[i] \in {"charts", "prov"}

(* The client may do what it means: a look at the server needs no leave,   *)
(* everything else is for the tenant the URL was made for.                 *)
Granted(c, m) ==
    \/ m.route.action = Empty
    \/ c.auth = "none"
    \/ /\ ~m.header.unreadable
       /\ Authorize(c, m.header, m.route.action, Namespace(m.repo))

(* A URL made as README.md lists it, at any depth and below any context    *)
(* path, reaches the route it is for with its tenant and parameters, if    *)
(* the client may; if not it is refused, never handled as another (match   *)
(* and rootHandler).                                                       *)
AnsweredAsMeant ==
    Answered /\ meant # Unmeant /\ ~Shadowed(config.router, meant) =>
        IF Granted(config.router, meant)
        THEN match = Found(meant.route, meant.repo, meant.args)
        ELSE answer.status \in {401, 500}

(* The order in which Routes registers the routes decides nothing, except  *)
(* for what is as long as a tenant: that is the welcome page's too.        *)
OrderMattersAtTheRootOnly ==
    LET c == config.router
        url == WithoutContext(c.contextPath, request.url)
        fit == Matching(c, request.method, url, DepthOf(c, url))
    IN  /\ request # NoRequest
        /\ InContext(c.contextPath, request.url)
        /\ DepthOf(c, url) >= 0
        => \A i, j \in fit :
               \/ i = j
               \/ \E k \in {i, j} : Routes(c)[k].path = RootPath

(* Pages of a list are slices of its sorted names, "skipping the first"    *)
(* offset charts (README.md:543): successive pages miss and repeat none.   *)
PagesAreSlices ==
    LET q == request.query
        keys == Keys(OfTenant.index)
    IN  /\ Answered
        /\ match.route = Route("GET", ListPath, "pull")
        /\ answer.status = 200
        /\ q.offset # <<>>
        /\ q.limit # <<>>
        /\ q.offset[1] + q.limit[1] <= MaxInt
        => DOMAIN answer.listing =
               {keys[i] : i \in {j \in DOMAIN keys :
                   j > q.offset[1] /\ j <= q.offset[1] + q.limit[1]}}

(* The templates and values of a version are read in the package that the  *)
(* description of the version names, and in no other; without --chart-url  *)
(* they are refused with an error only where that package cannot be loaded *)
(* (getChartFileName, getStorageObject).                                   *)
PackageOfTheVersion ==
    LET m == match
        found == GetChartVersion(OfTenant.index, Arg(1), Arg(2))
        file == FileOf[<<Arg(1), found[1]>>]
    IN  Answered /\ m.route.path \in {TemplatesPath, ValuesPath} =>
            /\ answer.status = 200 =>
                   found # <<>> /\ answer.file = file
            /\ answer.status = 500 /\ config.chartURL = <<>> =>
                   file \notin Archives
=============================================================================
