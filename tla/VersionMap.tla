----------------------------- MODULE VersionMap -----------------------------
(***************************************************************************)
(* What a repository index promises of one chart: it has each version once *)
(* or not at all, and an operation changes the version it names and no     *)
(* other.  IndexCache takes its entries for such a map.  The promise ends  *)
(* when a version that is listed is added to a chart of too many: from     *)
(* then on a version may be there twice, an update or removal touches one  *)
(* of the two, and only who is listed is promised.                         *)
(***************************************************************************)
CONSTANTS Versions, Stamps, None,
          Few  \* the sets of versions that are not too many

VARIABLES map,     \* map[v]: what the index has of the version v, or None
          op,      \* the last operation
          crowded  \* a version may be listed twice

Operation == [kind : {"add", "update", "remove"}, version : Versions,
              stamp : Stamps]

Listed(m) == {v \in Versions : m[v] # None}

Effect(m, o) ==
    CASE o.kind = "add" -> [m EXCEPT ![o.version] = o.stamp]
      [] o.kind = "remove" -> [m EXCEPT ![o.version] = None]
      [] o.kind = "update" ->
             IF m[o.version] = None THEN m
             ELSE [m EXCEPT ![o.version] = o.stamp]

(* What may be listed after an operation when versions are listed twice.   *)
MayList(L, o) ==
    CASE o.kind = "add" -> {L \cup {o.version}}
      [] o.kind = "remove" -> {L, L \ {o.version}}
      [] o.kind = "update" -> {L}

Crowds(o) ==
    /\ o.kind = "add"
    /\ o.version \in Listed(map)
    /\ Listed(map) \notin Few

Init ==
    /\ map = [v \in Versions |-> None]
    /\ op = None
    /\ crowded = FALSE

Operate(o) ==
    /\ ~crowded /\ ~Crowds(o)
    /\ op' = o
    /\ map' = Effect(map, o)
    /\ UNCHANGED crowded

OperateCrowded(o) ==
    /\ crowded \/ Crowds(o)
    /\ op' = o
    /\ Listed(map') \in MayList(Listed(map), o)
    /\ crowded' = TRUE

(* Of two entries of a version, sorting may bring the other to the front.  *)
Resort ==
    /\ crowded
    /\ Listed(map') = Listed(map)
    /\ UNCHANGED <<op, crowded>>

Next ==
    \/ \E o \in Operation : Operate(o) \/ OperateCrowded(o)
    \/ Resort

Spec == Init /\ [][Next]_<<map, op, crowded>>
=============================================================================
