----------------------------- MODULE MCRequests -----------------------------
(***************************************************************************)
(* Requests with tenants, charts and files whose names the router could    *)
(* take for something else.                                                *)
(***************************************************************************)
EXTENDS Requests, TLC

MCFileNames ==
    {"index.yaml", "b.yaml", "a-1.1.tgz", "a-1.0.tgz", "a-1.0.tgz.prov",
     "rc.tgz", "other.tgz"}
MCObjectNames == MCFileNames \ {"index.yaml", "b.yaml"}
MCLonger == <<"cm", "cmx">> :> "x" @@ <<"static", "statics">> :> "s"

MCNamesInOrder == <<"a", "b", "charts">>
MCPrereleases == {"2.0-rc"}
MCAccepts ==
    [v \in {"2.0-rc", "1.1", "1.0", "1"} |->
        IF v = "1" THEN {"1.1", "1.0"} ELSE {v}]
MCFileOf ==
    [v \in {"a", "b", "charts"} \X {"2.0-rc", "1.1", "1.0"} |->
        IF v = <<"a", "2.0-rc">> THEN "rc.tgz"
        ELSE IF v = <<"a", "1.1">> THEN "a-1.1.tgz"
        ELSE IF v = <<"a", "1.0">> THEN "a-1.0.tgz" ELSE "other.tgz"]

MCTenants == {<<>>, <<"t1">>}
MCIndex ==
    "a" :> <<"2.0-rc", "1.1", "1.0">> @@ "b" :> <<"1.0">>
    @@ "charts" :> <<"2.0-rc">>
MCContents ==
    LET full == [index |-> MCIndex, stored |-> MCObjectNames \ {"other.tgz"}]
        bare == [index |-> Nothing, stored |-> MCObjectNames]
    IN  {<<>> :> full @@ <<"t1">> :> bare, <<>> :> bare @@ <<"t1">> :> full}
-----------------------------------------------------------------------------
MCPlain ==
    [contextPath |-> <<>>, depth |-> 0, depthDynamic |-> FALSE,
     artifactHub |-> TRUE, webTemplate |-> FALSE, apiEnabled |-> TRUE,
     disableDelete |-> FALSE, auth |-> "none", anonymousGet |-> FALSE]

MCRouters ==
    {MCPlain,
     [MCPlain EXCEPT !.contextPath = <<"", "cm">>, !.webTemplate = TRUE],
     [MCPlain EXCEPT !.depth = 1, !.webTemplate = TRUE],
     [MCPlain EXCEPT !.depth = 1, !.auth = "bearer"],
     [MCPlain EXCEPT !.depth = 2, !.contextPath = <<"", "x", "cm">>,
                     !.disableDelete = TRUE],
     [MCPlain EXCEPT !.depthDynamic = TRUE, !.auth = "bearer",
                     !.anonymousGet = TRUE],
     [MCPlain EXCEPT !.depthDynamic = TRUE, !.contextPath = <<"", "cm">>],
     [MCPlain EXCEPT !.auth = "basic", !.apiEnabled = FALSE]}

MCConfigs ==
    {[router |-> r, chartURL |-> <<>>, artifactHubIds |-> {<<"t1">>}] :
        r \in MCRouters}
    \cup {[router |-> MCPlain, chartURL |-> <<"http:", "", "host">>,
           artifactHubIds |-> {}]}

MCRepos(c) ==
    LET all == {<<>>, <<"t1">>, <<"api">>, <<"charts">>, <<"statics">>,
                <<"health">>, <<"t1", "api">>, <<"api", "t1">>}
    IN  IF c.depthDynamic THEN all ELSE {r \in all : Len(r) = c.depth}

MCArgs(path) ==
    IF ":filename" \in {path[i] : i \in DOMAIN path}
    THEN {<<f>> : f \in {"a-1.0.tgz", "a-1.0.tgz.prov", "other.tgz",
                          "b.yaml"}}
    ELSE IF ":version" \in {path[i] : i \in DOMAIN path}
    THEN {"a", "charts"} \X
             {"1.0", "1", "2.0-rc", "latest", "a-1.1.tgz"}
    ELSE IF ":name" \in {path[i] : i \in DOMAIN path}
    THEN {<<"a">>, <<"charts">>, <<"c">>}
    ELSE {<<>>}

MCHeaders(c, repo) ==
    IF c.auth = "none" THEN {NoHeader}
    ELSE {NoHeader,
          [NoHeader EXCEPT !.password = TRUE],
          [NoHeader EXCEPT !.unreadable = TRUE],
          [NoHeader EXCEPT !.grants = {<<"pull", Namespace(repo)>>}],
          [NoHeader EXCEPT !.grants = {<<"push", Namespace(repo)>>}],
          [NoHeader EXCEPT !.grants = {"pull", "push"} \X {<<"repo">>}]}

MCQueries(path) ==
    IF path # ListPath THEN {NoQuery}
    ELSE [offset : {<<>>, <<-1>>, <<0>>, <<1>>, <<2>>, <<4>>},
          limit : {<<>>, <<0>>, <<1>>, <<2>>, <<MaxInt>>}]

MCMeanings(c) ==
    LET routes == Routes(c)
    IN  UNION {
            UNION {{Meaning(routes[i], repo, args, header, query) :
                       args \in MCArgs(routes[i].path),
                       header \in MCHeaders(c, repo),
                       query \in MCQueries(routes[i].path)} :
                   repo \in IF BeforeRepo(routes[i].path) =
                                   Len(routes[i].path)
                            THEN {<<>>} ELSE MCRepos(c)} :
            i \in DOMAIN routes}

(* URLs of up to four segments, below the context path or beside it, and   *)
(* paths of routes by letter.                                              *)
MCStrayUrls(c) ==
    LET words == {"", "api", "charts", "t1", "index.yaml", "cmx"}
        short == UNION {[1..n -> words] : n \in 1..3}
    IN  {<<"", "api", "charts", ":name">>, <<"", "charts", ":filename">>,
         ChartPath, FilePath}
        \cup
        {u \in {<<"">> \o v : v \in short}
               \cup {c.contextPath \o v : v \in short} : u[1] = ""}
=============================================================================
