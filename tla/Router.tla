------------------------------- MODULE Router -------------------------------
(***************************************************************************)
(* The router: which route a request is for, which tenant and parameters   *)
(* it names, and whether it may pass (pkg/chartmuseum/router/match.go and  *)
(* router.go, multitenant/routes.go).                                      *)
(*                                                                         *)
(* A URL is the sequence of its segments as strings.Split leaves them:     *)
(* "/api/charts" is <<"", "api", "charts">> and "/" is <<"", "">>.  Paths  *)
(* of routes are sequences likewise; ":repo" stands for the segments of a  *)
(* tenant, as many as the depth says.  A dot in a path stands for itself   *)
(* alone.                                                                  *)
(***************************************************************************)
EXTENDS Integers, Sequences

CONSTANTS FileNames,  \* segments that end in .yaml, .tgz or .prov
          Longer      \* Longer[<<s, t>>]: what follows s in the segment t

(* strings.HasPrefix of two segments.                                      *)
BeginsWith(t, s) == t = s \/ <<s, t>> \in DOMAIN Longer

(* The segment before the first slash of a path.                           *)
Empty == ""

(* Words the paths of routes are written with, and what stands for others. *)
Words == {Empty, "api", "charts", "prov", "templates", "values", "info",
          "health", "static", "index.yaml", "artifacthub-repo.yml"}

Blanks == {":repo", ":name", ":version", ":filename"}

ASSUME WordAssumption ==
    /\ FileNames \cap (Words \cup Blanks) = {"index.yaml"}
    /\ \A t \in Words \cup {":repo"} : <<"static", t>> \notin DOMAIN Longer

IsParam(s) == s \in Blanks

First(S) == CHOOSE i \in S : \A j \in S : i <= j

(* The empty sequence is no context path.                                  *)
RouterConfig ==
    [contextPath : Seq(STRING),
     depth : Nat,
     depthDynamic : BOOLEAN,
     artifactHub : BOOLEAN,     \* --artifact-hub-repo-id is given
     webTemplate : BOOLEAN,     \* --web-template-path is given
     apiEnabled : BOOLEAN,
     disableDelete : BOOLEAN,
     auth : {"none", "basic", "bearer"},
     anonymousGet : BOOLEAN]
-----------------------------------------------------------------------------
Route(method, path, action) ==
    [method |-> method, path |-> path, action |-> action]

RootPath == <<Empty, Empty>>
InfoPath == <<Empty, "info">>
HealthPath == <<Empty, "health">>
HubPath == <<Empty, "artifacthub-repo.yml">>
StaticPath == <<Empty, "static">>
IndexPath == <<Empty, ":repo", "index.yaml">>
FilePath == <<Empty, ":repo", "charts", ":filename">>
ListPath == <<Empty, "api", ":repo", "charts">>
ProvPath == <<Empty, "api", ":repo", "prov">>
ChartPath == <<Empty, "api", ":repo", "charts", ":name">>
VersionPath == <<Empty, "api", ":repo", "charts", ":name", ":version">>
TemplatesPath ==
    <<Empty, "api", ":repo", "charts", ":name", ":version", "templates">>
ValuesPath ==
    <<Empty, "api", ":repo", "charts", ":name", ":version", "values">>

ServerInfoRoutes ==
    <<Route("GET", RootPath, "pull"),
      Route("GET", InfoPath, Empty),
      Route("GET", HealthPath, Empty)>>

HelmChartRepositoryRoutes ==
    <<Route("GET", IndexPath, "pull"),
      Route("HEAD", IndexPath, "pull"),
      Route("GET", FilePath, "pull")>>

ArtifactHubRoutes == <<Route("GET", HubPath, "pull")>>

StaticRoutes == <<Route("GET", StaticPath, "pull")>>

ChartManipulationRoutes ==
    <<Route("GET", ListPath, "pull"),
      Route("HEAD", ChartPath, "pull"),
      Route("GET", ChartPath, "pull"),
      Route("HEAD", VersionPath, "pull"),
      Route("GET", VersionPath, "pull"),
      Route("GET", TemplatesPath, "pull"),
      Route("GET", ValuesPath, "pull"),
      Route("POST", ListPath, "push"),
      Route("POST", ProvPath, "push")>>

DeleteRoutes == <<Route("DELETE", VersionPath, "push")>>

Routes(c) ==
    LET If(b, routes) == IF b THEN routes ELSE <<>>
    IN  ServerInfoRoutes \o HelmChartRepositoryRoutes
        \o If(c.artifactHub, ArtifactHubRoutes)
        \o If(c.webTemplate, StaticRoutes)
        \o If(c.apiEnabled, ChartManipulationRoutes)
        \o If(c.apiEnabled /\ ~c.disableDelete, DeleteRoutes)
-----------------------------------------------------------------------------
(* A URL that only begins with the letters of the context path passes: its *)
(* first segment is what follows them.                                     *)
InContext(ctx, url) ==
    LET n == Len(ctx)
    IN  \/ ctx = <<>>
        \/ /\ Len(url) >= n
           /\ SubSeq(url, 1, n - 1) = SubSeq(ctx, 1, n - 1)
           /\ BeginsWith(url[n], ctx[n])

WithoutContext(ctx, url) ==
    LET n == Len(ctx)
    IN  IF ctx = <<>> THEN url
        ELSE IF url = ctx THEN RootPath
        ELSE <<IF url[n] = ctx[n] THEN Empty ELSE Longer[<<ctx[n], url[n]>>]>>
             \o SubSeq(url, n + 1, Len(url))

CheckStaticRoute(url) ==
    Len(url) >= 2 /\ url[1] = Empty /\ BeginsWith(url[2], "static")

(* Whatever begins with "/api/" is the API's.                              *)
BrokenCheckApiRoute(url) == Len(url) >= 3 /\ url[1] = Empty /\ url[2] = "api"

(* Files of a tenant named "api" are not routes of the API.                *)
CheckApiRoute(url) ==
    /\ Len(url) >= 3
    /\ url[1] = Empty
    /\ url[2] = "api"
    /\ url[Len(url)] \notin FileNames

(* Segments before ":repo", or all of them.                                *)
BeforeRepo(path) ==
    LET at == {i \in DOMAIN path : path[i] = ":repo"}
    IN  IF at = {} THEN Len(path) ELSE First(at) - 1

(* url2pattern: ":repo" takes any number of segments, a parameter one that *)
(* is not empty, and a path without ":repo" matches as it is.              *)
MatchesPattern(url, path) ==
    LET b == BeforeRepo(path)
        n == Len(url) - Len(path) + 1
        Fits(i, j) == IF IsParam(path[i]) THEN url[j] # Empty
                                          ELSE url[j] = path[i]
    IN  /\ IF b = Len(path) THEN n = 1 ELSE n >= 0
        /\ \A i \in 1..b : Fits(i, i)
        /\ \A i \in (b + 2)..Len(path) : Fits(i, i + n - 1)

GetDepth(url, path) ==
    IF MatchesPattern(url, path) THEN Len(url) - Len(path) + 1 ELSE -1

(* With --depth-dynamic the first route whose pattern the URL matches,     *)
(* whatever its method, says how many segments name the tenant, if there   *)
(* are routes of the kind of the URL.                                      *)
DepthOf(c, url) ==
    LET routes == Routes(c)
        kind == {i \in DOMAIN routes :
                    (routes[i].path[2] = "api") <=> CheckApiRoute(url)}
        fit == {i \in kind : GetDepth(url, routes[i].path) >= 0}
    IN  IF ~c.depthDynamic \/ kind = {} THEN c.depth
        ELSE IF fit = {} THEN -1
        ELSE GetDepth(url, routes[First(fit)].path)
-----------------------------------------------------------------------------
(* Segments before those of the tenant, with or without "api".             *)
StartIndex(url) == IF CheckApiRoute(url) THEN 2 ELSE 1

TryRepoRoutes(url, depth) == Len(url) >= depth + StartIndex(url)

RepoOf(url, depth) ==
    SubSeq(url, StartIndex(url) + 1, StartIndex(url) + depth)

(* The URL without its tenant; nothing left is the root.                   *)
NoRepoPath(url, depth) ==
    LET s == StartIndex(url)
        rest == SubSeq(url, s + depth + 1, Len(url))
    IN  (IF s = 2 THEN <<Empty, "api">> ELSE <<Empty>>)
        \o (IF rest = <<>> THEN <<Empty>> ELSE rest)

WithoutRepo(path) ==
    LET b == BeforeRepo(path)
    IN  SubSeq(path, 1, b) \o SubSeq(path, b + 2, Len(path))

(* A path matches a URL that begins like it.                               *)
BrokenRouteMatches(route, url, depth) ==
    \/ route.path = url
    \/ /\ TryRepoRoutes(url, depth)
       /\ LET p == WithoutRepo(route.path)
              q == NoRepoPath(url, depth)
          IN  /\ Len(p) <= Len(q)
              /\ \A i \in DOMAIN p : IsParam(p[i]) \/ p[i] = q[i]

(* The path as it is, or with the tenant's segments in the place of ":repo"*)
(* and any segment in the place of a parameter.                            *)
RouteMatches(route, url, depth) ==
    \/ route.path = url
    \/ /\ TryRepoRoutes(url, depth)
       /\ LET p == WithoutRepo(route.path)
              q == NoRepoPath(url, depth)
          IN  /\ Len(p) = Len(q)
              /\ \A i \in DOMAIN p : IsParam(p[i]) \/ p[i] = q[i]

(* The path with the tenant's segments for ":repo" is the URL as it is.    *)
IsRepoPath(route, url, depth) ==
    /\ BeforeRepo(route.path) = StartIndex(url)
    /\ WithoutRepo(route.path) = NoRepoPath(url, depth)

(* One segment too many.                                                   *)
BrokenArgsOf(route, url, depth) ==
    LET p == WithoutRepo(route.path)
        q == NoRepoPath(url, depth)
        b == First({i \in 1..(Len(p) + 1) : i > Len(p) \/ IsParam(p[i])})
    IN  SubSeq(q, b, Len(q))

(* Values of ":name", ":version" and ":filename", in their order.          *)
ArgsOf(route, url, depth) ==
    LET p == WithoutRepo(route.path)
        q == NoRepoPath(url, depth)
        b == First({i \in 1..(Len(p) + 1) : i > Len(p) \/ IsParam(p[i])})
        e == First({i \in b..(Len(p) + 1) : i > Len(p) \/ ~IsParam(p[i])})
    IN  SubSeq(q, b, e - 1)

NoRoute == Route(Empty, <<>>, Empty)

Found(route, repo, args) == [route |-> route, repo |-> repo, args |-> args]

NotFound == Found(NoRoute, <<>>, <<>>)

Matching(c, method, url, depth) ==
    LET routes == Routes(c)
    IN  {i \in DOMAIN routes : /\ routes[i].method = method
                               /\ RouteMatches(routes[i], url, depth)}

(* Two routes are found before depth and tenants come into it.             *)
Shortcut(c, method, url) ==
    LET routes == Routes(c)
    IN  IF method # "GET" THEN {}
        ELSE {i \in DOMAIN routes :
                 \/ url = HealthPath /\ routes[i].path = url
                 \/ CheckStaticRoute(url) /\ CheckStaticRoute(routes[i].path)}

(* match, for a URL in the context path and without it.                    *)
MatchUrl(c, method, url) ==
    LET routes == Routes(c)
        depth == DepthOf(c, url)
        fit == Matching(c, method, url, depth)
        route == routes[First(fit)]
    IN  IF Shortcut(c, method, url) # {}
        THEN Found(routes[First(Shortcut(c, method, url))], <<>>, <<>>)
        ELSE IF depth < 0 \/ fit = {} THEN NotFound
        ELSE IF route.path = url THEN Found(route, <<>>, <<>>)
        ELSE IF IsRepoPath(route, url, depth)
        THEN Found(route, RepoOf(url, depth), <<>>)
        ELSE Found(route, RepoOf(url, depth), ArgsOf(route, url, depth))

Match(c, method, url) ==
    IF InContext(c.contextPath, url)
    THEN MatchUrl(c, method, WithoutContext(c.contextPath, url))
    ELSE NotFound
-----------------------------------------------------------------------------
(* The namespace of requests that name no tenant.                          *)
Namespace(repo) == IF repo = <<>> THEN <<"repo">> ELSE repo

(* github.com/chartmuseum/auth: the password is good for everything, a     *)
(* token for the actions it grants on a namespace; pulls may be anonymous. *)
Authorize(c, header, action, namespace) ==
    \/ c.anonymousGet /\ action = "pull"
    \/ c.auth = "basic" /\ header.password
    \/ c.auth = "bearer" /\ <<action, namespace>> \in header.grants

(* The status rootHandler answers with before any handler, 200 for none.   *)
Admission(c, header, match) ==
    IF match = NotFound THEN 404
    ELSE IF match.route.action = Empty \/ c.auth = "none" THEN 200
    ELSE IF header.unreadable THEN 500
    ELSE IF Authorize(c, header, match.route.action, Namespace(match.repo))
         THEN 200 ELSE 401
=============================================================================
