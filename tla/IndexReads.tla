----------------------------- MODULE IndexReads -----------------------------
(***************************************************************************)
(* How fresh the index a GET answers with is: IndexCache with, for every   *)
(* client, the storage its request found when it began, forgotten as soon  *)
(* as something else touches storage or the index while the request runs.  *)
(* The history variable changes nothing about what IndexCache does.        *)
(***************************************************************************)
EXTENDS IndexCache

VARIABLE view   \* view[p]: storage when p's GET began, None if disturbed

(* No upload or delete is under way, no event is pending and the last      *)
(* regeneration did not fail: only readers and refreshers are at work.     *)
Undisturbed ==
    /\ ~torn
    /\ events = <<>>
    /\ lpc \in {"receive", "stat"}
    /\ \A q \in Clients : pc[q] \notin {"put", "build", "send"}

InitReads == Init /\ view = [p \in Clients |-> None]

NextReads ==
    /\ Next
    /\ view' = [p \in Clients |->
                   IF pc'[p] = "idle" \/ storage' # storage \/ ~Undisturbed'
                   THEN None
                   ELSE IF pc[p] = "idle" /\ Undisturbed THEN storage
                   ELSE view[p]]

ReadsSpec == InitReads /\ [][NextReads]_<<vars, view>>

(* "index.yaml is dynamically generated based on packages found in         *)
(* storage" (README.md): a GET during which storage stood still lists      *)
(* exactly the packages stored.  --always-regenerate-chart-index is there  *)
(* to make it so, whatever was cached and whoever asks besides.            *)
ReadListsStorage ==
    \A p \in Clients :
        pc[p] = "render" /\ view[p] # None =>
            Indexed(heap[ptr[p]].raw) = Stored(view[p]) \ Invalid

(* ... and what it says of a package is behind the stored content only     *)
(* where its date is not: that is all the comparison of dates lets through *)
(* (GetObjectSliceDiff), whichever event was applied last.                 *)
StaleOnlyBehindItsDate ==
    \A p \in Clients :
        pc[p] = "render" /\ view[p] # None =>
            LET raw == heap[ptr[p]].raw
            IN  \A c \in Indexed(raw) \cap Stored(view[p]) :
                    \/ raw[c].digest = view[p][c]
                    \/ raw[c].created + Tolerance >= view[p][c]

(* "the museum always return the up-to-date chart" (server.go:84): the     *)
(* digest is that of the stored content.                                   *)
ReadShowsStoredDigests ==
    \A p \in Clients :
        pc[p] = "render" /\ view[p] # None =>
            LET raw == heap[ptr[p]].raw
            IN  \A c \in Indexed(raw) \cap Stored(view[p]) :
                    raw[c].digest = view[p][c]
=============================================================================
