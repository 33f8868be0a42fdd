-------------------------- MODULE MCChartUploads --------------------------
(***************************************************************************)
(* ChartUploads with versions of one chart, "my-2nd-chart", read in the    *)
(* names of their files, and the configurations its runs start from.  The  *)
(* fourth version is one whose name is misread.                            *)
(***************************************************************************)
EXTENDS ChartUploads, ChartNames, TLC

CONSTANTS v1, v2, v3, v4

MCName == <<"my", "2nd", "chart">>

MCVersion ==
    (v1 :> <<"1.0">>) @@ (v2 :> <<"2.0", "rc">>) @@ (v3 :> <<"2.0">>)
      @@ (v4 :> <<"3.0", "2nd">>)

MCChartOf == [v \in Versions |-> MCName]

MCGuessed ==
    [v \in Versions |->
        GetExactChartNameVersion(
            ChartPackageFilenameFromNameVersion(MCName, MCVersion[v]))[1]]

MCConfig(cl, mo, ow, routes, versions) ==
    [chartLimit |-> cl, maxObjects |-> mo, overwrite |-> ow,
     nested |-> FALSE, customField |-> FALSE, routes |-> routes,
     versions |-> versions]

(* Evictions; evictions by forms; the limit on files; forms alone.         *)
MCConfigs ==
    {MCConfig(2, 0, TRUE, {"package", "delete"}, {v1, v2, v3}),
     MCConfig(1, 0, FALSE, {"form", "delete"}, {v1, v2}),
     MCConfig(0, 2, TRUE, {"package", "prov", "delete"}, {v1, v2}),
     MCConfig(0, 0, TRUE, {"form", "delete"}, {v1})}

(* A form for a tenant below depth 0.                                      *)
MCNested ==
    {[MCConfig(0, 0, FALSE, {"form", "delete"}, {v1, v2})
        EXCEPT !.nested = TRUE]}

(* A form that overwrites, at depth 0; forms under the limit.              *)
MCOverwrite   == {MCConfig(0, 0, TRUE, {"form"}, {v1})}
MCFormLimited == {MCConfig(2, 0, FALSE, {"form"}, {v1})}

(* Overwriting at the limit; forms beside provenance files, and with a     *)
(* field of another name.                                                  *)
MCOverwriteAtLimit ==
    {MCConfig(2, 0, TRUE, {"package"}, {v1, v2})}
MCFormAfterProv ==
    {MCConfig(0, 0, TRUE, {"package", "prov", "form"}, {v1, v2})}
MCOtherField ==
    {[MCConfig(0, 0, FALSE, {"package", "form"}, {v1, v2})
        EXCEPT !.customField = TRUE]}

(* Versions that are misread; a put that fails after an eviction; forms    *)
(* under the limit on files.                                               *)
MCMisread   == {MCConfig(1, 0, FALSE, {"package"}, {v1, v4})}
MCEvictions == {MCConfig(2, 0, FALSE, {"package"}, {v1, v2, v3})}
MCForms     == {MCConfig(0, 1, FALSE, {"form"}, {v1, v2})}

MCSymmetry == Permutations(Clients)
===========================================================================
