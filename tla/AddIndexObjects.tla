--------------------------- MODULE AddIndexObjects ---------------------------
(***************************************************************************)
(* What a regeneration is promised by addIndexObjectsAsync: a call that    *)
(* succeeds has taken every object of the diff once, each was added to the *)
(* index or skipped as no chart package, and a call that has returned adds *)
(* nothing more.  IndexCache relies on it (AddIndexObject).                *)
(***************************************************************************)
CONSTANTS Calls,    \* calls of addIndexObjectsAsync, ever
          Objects,  \* objects of the diffs
          Diff      \* Diff[k]: those call k is asked to add

VARIABLES call,     \* call[k]: not begun, running, or how it returned
          left,     \* left[k]: objects not taken yet
          added     \* added[k]: objects added to the index

vars == <<call, left, added>>

TypeOK ==
    /\ call \in [Calls -> {"none", "running", "ok", "error"}]
    /\ left \in [Calls -> SUBSET Objects]
    /\ added \in [Calls -> SUBSET Objects]

Init ==
    /\ call = [k \in Calls |-> "none"]
    /\ left = Diff
    /\ added = [k \in Calls |-> {}]

Begin(k) ==
    /\ call[k] = "none"
    /\ call' = [call EXCEPT ![k] = "running"]
    /\ UNCHANGED <<left, added>>

Take(k, o) ==
    /\ call[k] = "running"
    /\ o \in left[k]
    /\ left' = [left EXCEPT ![k] = @ \ {o}]

Done(k) == IF left[k] = {} THEN "ok" ELSE "running"

Add(k, o) ==
    /\ Take(k, o)
    /\ added' = [added EXCEPT ![k] = @ \cup {o}]
    /\ call' = [call EXCEPT ![k] = Done(k)']

Skip(k, o) ==
    /\ Take(k, o)
    /\ call' = [call EXCEPT ![k] = Done(k)']
    /\ UNCHANGED added

Fail(k, o) ==
    /\ Take(k, o)
    /\ call' = [call EXCEPT ![k] = "error"]
    /\ UNCHANGED added

Next ==
    \E k \in Calls :
        \/ Begin(k)
        \/ \E o \in Objects : Add(k, o) \/ Skip(k, o) \/ Fail(k, o)

Spec == Init /\ [][Next]_vars
=============================================================================
