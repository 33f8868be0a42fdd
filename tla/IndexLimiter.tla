---------------------------- MODULE IndexLimiter ----------------------------
(***************************************************************************)
(* addIndexObjectsAsync (multitenant/cache.go): one goroutine per object   *)
(* to add downloads it, holding a slot of the server-wide Limiter, and     *)
(* hands the result to the caller over an unbuffered channel.  The first   *)
(* error cancels the downloads that have not begun and ends the call.      *)
(*                                                                         *)
(* Calls of one tenant follow each other, since the caller holds RepoLock; *)
(* those of different tenants share the Limiter.                           *)
(***************************************************************************)
EXTENDS Naturals, FiniteSets

CONSTANTS Calls,      \* bound: calls of addIndexObjectsAsync, ever
          Objects,    \* objects of the diffs
          Diff,       \* Diff[k]: diff.Added, the objects call k is to add
          Tenants,
          TenantOf,   \* TenantOf[k]: the tenant whose index call k adds to
          IndexLimit  \* --index-limit, 0 for none

ASSUME LimiterAssumption ==
    /\ IndexLimit \in Nat
    /\ IsFiniteSet(Objects)
    /\ Diff \in [Calls -> SUBSET Objects \ {{}}]
    /\ TenantOf \in [Calls -> Tenants]

(* A goroutine for each object of each call.                               *)
Workers == {w \in Calls \X Objects : w[2] \in Diff[w[1]]}

VARIABLES call,       \* call[k]: not begun, running, or how it returned
          validCount, \* validCount[k]: results received
          added,      \* added[k]: objects whose version AddEntry was given
          cancelled,  \* cancelled[k]: cancel() was called
          pc,         \* pc[w]: where the goroutine of an object is
          result,     \* result[w]: what became of its download
          limiter     \* goroutines that hold a slot of server.Limiter

callVars == <<call, validCount, added>>
vars == <<callVars, cancelled, pc, result, limiter>>

Results == {"none", "chart", "invalid", "error"}

WorkerPC == {"none", "acquire", "check", "load", "send", "sent", "quit",
             "done", "gone"}

TypeOK ==
    /\ call \in [Calls -> {"none", "running", "ok", "error"}]
    /\ validCount \in [Calls -> Nat]
    /\ added \in [Calls -> SUBSET Objects]
    /\ cancelled \in [Calls -> BOOLEAN]
    /\ pc \in [Workers -> WorkerPC]
    /\ result \in [Workers -> Results]
    /\ limiter \in SUBSET Workers

Init ==
    /\ call = [k \in Calls |-> "none"]
    /\ validCount = [k \in Calls |-> 0]
    /\ added = [k \in Calls |-> {}]
    /\ cancelled = [k \in Calls |-> FALSE]
    /\ pc = [w \in Workers |-> "none"]
    /\ result = [w \in Workers |-> "none"]
    /\ limiter = {}
-----------------------------------------------------------------------------
(* The call starts its goroutines.  A call with nothing to add returns at  *)
(* once and is left out.                                                   *)
AddIndexObjectsAsync(k) ==
    /\ call[k] = "none"
    /\ \A j \in Calls : call[j] = "running" => TenantOf[j] # TenantOf[k]
    /\ call' = [call EXCEPT ![k] = "running"]
    /\ pc' = [w \in Workers |-> IF w[1] = k THEN "acquire" ELSE pc[w]]
    /\ UNCHANGED <<validCount, added, cancelled, result, limiter>>

(* One download too many.                                                  *)
BrokenSlotFree == IndexLimit = 0 \/ Cardinality(limiter) <= IndexLimit

SlotFree == IndexLimit = 0 \/ Cardinality(limiter) < IndexLimit

(* server.Limiter <- struct{}{}                                            *)
Acquire(w) ==
    /\ pc[w] = "acquire"
    /\ SlotFree
    /\ limiter' = IF IndexLimit = 0 THEN limiter ELSE limiter \cup {w}
    /\ pc' = [pc EXCEPT ![w] = "check"]
    /\ UNCHANGED <<callVars, cancelled, result>>

(* The download begins whether or not the call was cancelled.              *)
BrokenCheckDone(w) ==
    /\ pc[w] = "check"
    /\ pc' = [pc EXCEPT ![w] = "load"]
    /\ UNCHANGED <<callVars, cancelled, result, limiter>>

(* select on ctx.Done()                                                    *)
CheckDone(w) ==
    /\ pc[w] = "check"
    /\ pc' = [pc EXCEPT ![w] = IF cancelled[w[1]] THEN "quit" ELSE "load"]
    /\ UNCHANGED <<callVars, cancelled, result, limiter>>

(* getObjectChartVersion and checkInvalidChartPackageError: an error       *)
(* cancels before it is sent.                                              *)
Load(w, r) ==
    /\ pc[w] = "load"
    /\ result' = [result EXCEPT ![w] = r]
    /\ cancelled' = [cancelled EXCEPT ![w[1]] = @ \/ r = "error"]
    /\ pc' = [pc EXCEPT ![w] = "send"]
    /\ UNCHANGED <<callVars, limiter>>

(* The loop ends one result early.                                         *)
BrokenReceivedAll(k) == validCount[k] + 2 >= Cardinality(Diff[k])

(* The result being received is the last one the loop waits for.           *)
ReceivedAll(k) == validCount[k] + 1 = Cardinality(Diff[k])

(* An error is looked at only when it is the last result.                  *)
BrokenEnds(k, r) == r = "error" /\ ReceivedAll(k)

(* The first error ends the call.                                          *)
Ends(k, r) == r = "error"

(* cvRes := <-cvChan meets the goroutine's send; a chart version is added  *)
(* to the index, an error or the last result ends the call, which cancels. *)
Receive(k, o) ==
    LET w == <<k, o>>
    IN  /\ call[k] = "running"
        /\ pc[w] = "send"
        /\ pc' = [pc EXCEPT ![w] = "sent"]
        /\ added' = IF result[w] = "chart"
                    THEN [added EXCEPT ![k] = @ \cup {o}] ELSE added
        /\ validCount' = [validCount EXCEPT ![k] = @ + 1]
        /\ call' = [call EXCEPT ![k] = IF Ends(k, result[w]) THEN "error"
                                       ELSE IF ReceivedAll(k) THEN "ok"
                                       ELSE "running"]
        /\ cancelled' = [cancelled EXCEPT ![k] = @ \/ call'[k] # "running"]
        /\ UNCHANGED <<result, limiter>>

(* The deferred <-server.Limiter, and the goroutine ends.                  *)
Release(w) ==
    /\ pc[w] \in {"sent", "quit"}
    /\ limiter' = limiter \ {w}
    /\ pc' = [pc EXCEPT ![w] = IF @ = "sent" THEN "done" ELSE "gone"]
    /\ UNCHANGED <<callVars, cancelled, result>>
-----------------------------------------------------------------------------
WorkerStep(w) ==
    \/ Acquire(w)
    \/ CheckDone(w)
    \/ \E r \in Results \ {"none"} : Load(w, r)
    \/ Release(w)

Next ==
    \/ \E k \in Calls : AddIndexObjectsAsync(k)
    \/ \E w \in Workers : WorkerStep(w)
    \/ \E k \in Calls : \E o \in Diff[k] : Receive(k, o)

Spec == Init /\ [][Next]_vars

(* Storage answers every download; a full channel serves its senders in    *)
(* the order they came, so a goroutine that waits for slots gets one if    *)
(* they keep becoming free.                                                *)
Fairness ==
    /\ \A w \in Workers : SF_vars(WorkerStep(w))
    /\ \A k \in Calls : WF_vars(\E o \in Diff[k] : Receive(k, o))

FairSpec == Spec /\ Fairness
-----------------------------------------------------------------------------
Returned(k) == call[k] \in {"ok", "error"}

(* Goroutines past the check of a call that has returned: nobody will      *)
(* receive what they send, so they never give their slot back.             *)
Stranded == {w \in Workers : Returned(w[1]) /\ pc[w] \in {"load", "send"}}

(* However many calls fail, one slot is never lost, and with it every      *)
(* tenant's regeneration can go on.                                        *)
SlotRemains == IndexLimit > 0 => Cardinality(Stranded) < IndexLimit

(* The Limiter bounds the downloads of all tenants together.               *)
Downloading == {w \in Workers : pc[w] = "load"}

DownloadsLimited ==
    IndexLimit > 0 => Cardinality(Downloading) <= IndexLimit

(* A call always returns, although it waits for goroutines that wait for   *)
(* slots other calls hold or lost, and although a cancelled goroutine      *)
(* sends no result.  Its caller holds RepoLock meanwhile.                  *)
CallsReturn == \A k \in Calls : []<>(call[k] # "running")

(* What a call leaves to be taken, in the abstract specification.          *)
Left ==
    [k \in Calls |-> {o \in Diff[k] : pc[<<k, o>>] \notin {"sent", "done"}}]

Promise == INSTANCE AddIndexObjects WITH left <- Left

(* A call takes every object once and adds nothing after it returned.      *)
PromiseKept == Promise!Spec
=============================================================================
