------------------------- MODULE IndexLimiterProofs -------------------------
(***************************************************************************)
(* Theorems about IndexLimiter, for every set of calls, every diff and     *)
(* every limit.                                                            *)
(***************************************************************************)
EXTENDS IndexLimiter, FiniteSetTheorems, TLAPS

(* A goroutine is a call and an object of its diff.                        *)
LEMMA WorkerPair ==
  ASSUME NEW w \in Workers
  PROVE  w[1] \in Calls /\ w[2] \in Diff[w[1]] /\ w = <<w[1], w[2]>>
BY DEF Workers

LEMMA PairWorker ==
  ASSUME NEW k \in Calls, NEW o \in Diff[k]
  PROVE  <<k, o>> \in Workers /\ o \in Objects
BY LimiterAssumption DEF Workers

(* The types are preserved by every step.                                  *)
LEMMA TypeStep ==
  ASSUME TypeOK, [Next]_vars
  PROVE  TypeOK'
<1> USE DEF TypeOK
<1>1. ASSUME NEW k \in Calls, AddIndexObjectsAsync(k)
      PROVE  TypeOK'
  BY <1>1 DEF AddIndexObjectsAsync, WorkerPC
<1>2. ASSUME NEW w \in Workers, Acquire(w)
      PROVE  TypeOK'
  BY <1>2 DEF Acquire, callVars, WorkerPC
<1>3. ASSUME NEW w \in Workers, CheckDone(w)
      PROVE  TypeOK'
  BY <1>3 DEF CheckDone, callVars, WorkerPC
<1>4. ASSUME NEW w \in Workers, NEW r \in Results, Load(w, r)
      PROVE  TypeOK'
  <2>1. cancelled' \in [Calls -> BOOLEAN]
    BY <1>4, WorkerPair DEF Load
  <2>2. QED
    BY <1>4, <2>1 DEF Load, callVars, WorkerPC
<1>5. ASSUME NEW w \in Workers, Release(w)
      PROVE  TypeOK'
  BY <1>5 DEF Release, callVars, WorkerPC
<1>6. ASSUME NEW k \in Calls, NEW o \in Diff[k], Receive(k, o)
      PROVE  TypeOK'
  <2>1. <<k, o>> \in Workers /\ o \in Objects
    BY PairWorker
  <2>2. pc' \in [Workers -> WorkerPC]
    BY <1>6, <2>1 DEF Receive, WorkerPC
  <2>3. added' \in [Calls -> SUBSET Objects]
    BY <1>6, <2>1 DEF Receive
  <2>4. /\ validCount' \in [Calls -> Nat]
        /\ call' \in [Calls -> {"none", "running", "ok", "error"}]
    BY <1>6 DEF Receive
  <2>5. cancelled' \in [Calls -> BOOLEAN]
    BY <1>6 DEF Receive
  <2>6. QED
    BY <1>6, <2>2, <2>3, <2>4, <2>5 DEF Receive
<1>7. CASE UNCHANGED vars
  BY <1>7 DEF vars, callVars
<1>8. QED
  BY <1>1, <1>2, <1>3, <1>4, <1>5, <1>6, <1>7 DEF Next, WorkerStep

(* Every variable keeps its type.                                          *)
THEOREM TypeCorrect == Spec => []TypeOK
<1>1. Init => TypeOK
  BY DEF Init, TypeOK, WorkerPC, Results
<1>2. TypeOK /\ [Next]_vars => TypeOK'
  BY TypeStep
<1>3. QED
  BY <1>1, <1>2, PTL DEF Spec
-----------------------------------------------------------------------------
(* A call that has not begun has no goroutines, one that has returned is   *)
(* cancelled, and what is sent has been downloaded.                        *)
CallInv ==
    /\ \A w \in Workers : call[w[1]] = "none" => pc[w] = "none"
    /\ \A k \in Calls : Returned(k) => cancelled[k]
    /\ \A w \in Workers : pc[w] = "send" => result[w] # "none"

LEMMA CallInit == Init => CallInv
BY WorkerPair DEF Init, CallInv, Returned

LEMMA CallStep ==
  ASSUME TypeOK, CallInv, [Next]_vars
  PROVE  CallInv'
<1> USE DEF TypeOK, CallInv, Returned
<1>1. ASSUME NEW k \in Calls, AddIndexObjectsAsync(k)
      PROVE  CallInv'
  BY <1>1, WorkerPair DEF AddIndexObjectsAsync
<1>2. ASSUME NEW w \in Workers, Acquire(w)
      PROVE  CallInv'
  BY <1>2, WorkerPair DEF Acquire, callVars
<1>3. ASSUME NEW w \in Workers, CheckDone(w)
      PROVE  CallInv'
  BY <1>3, WorkerPair DEF CheckDone, callVars
<1>4. ASSUME NEW w \in Workers, NEW r \in Results \ {"none"}, Load(w, r)
      PROVE  CallInv'
  <2>1. \A k \in Calls : cancelled[k] => cancelled'[k]
    BY <1>4 DEF Load
  <2>2. QED
    BY <1>4, <2>1, WorkerPair DEF Load, callVars
<1>5. ASSUME NEW w \in Workers, Release(w)
      PROVE  CallInv'
  BY <1>5, WorkerPair DEF Release, callVars
<1>6. ASSUME NEW k \in Calls, NEW o \in Diff[k], Receive(k, o)
      PROVE  CallInv'
  <2>1. \A j \in Calls : Returned(j)' => cancelled'[j]
    BY <1>6 DEF Receive
  <2>2. \A w \in Workers : call'[w[1]] = "none" => pc'[w] = "none"
    BY <1>6, WorkerPair, PairWorker DEF Receive
  <2>3. \A w \in Workers : pc'[w] = "send" => result'[w] # "none"
    BY <1>6, PairWorker DEF Receive
  <2>4. QED
    BY <2>1, <2>2, <2>3
<1>7. CASE UNCHANGED vars
  BY <1>7 DEF vars, callVars
<1>8. QED
  BY <1>1, <1>2, <1>3, <1>4, <1>5, <1>6, <1>7 DEF Next, WorkerStep

(* With a limit, limiter is the set of goroutines between taking their     *)
(* slot and giving it back, and there are no more of them than slots.      *)
SlotInv ==
    IndexLimit > 0 =>
        /\ \A w \in Workers :
               w \in limiter
                   <=> pc[w] \in {"check", "load", "send", "sent", "quit"}
        /\ IsFiniteSet(limiter)
        /\ Cardinality(limiter) <= IndexLimit

LEMMA SlotInit == Init => SlotInv
BY FS_EmptySet, LimiterAssumption DEF Init, SlotInv

LEMMA SlotStep ==
  ASSUME TypeOK, CallInv, SlotInv, [Next]_vars, IndexLimit > 0
  PROVE  SlotInv'
<1>0. IsFiniteSet(limiter) /\ Cardinality(limiter) \in Nat
  BY FS_CardinalityType DEF SlotInv
<1> USE DEF TypeOK, SlotInv
<1>1. ASSUME NEW k \in Calls, AddIndexObjectsAsync(k)
      PROVE  SlotInv'
  BY <1>1 DEF AddIndexObjectsAsync, CallInv
<1>2. ASSUME NEW w \in Workers, Acquire(w)
      PROVE  SlotInv'
  <2>1. limiter' = limiter \cup {w} /\ Cardinality(limiter) < IndexLimit
    BY <1>2, LimiterAssumption DEF Acquire, SlotFree
  <2>2. w \notin limiter
    BY <1>2 DEF Acquire
  <2>3. /\ IsFiniteSet(limiter \cup {w})
        /\ Cardinality(limiter \cup {w}) = Cardinality(limiter) + 1
    BY <1>0, <2>2, FS_AddElement
  <2>4. Cardinality(limiter') <= IndexLimit
    BY <1>0, <2>1, <2>3, LimiterAssumption
  <2>5. \A v \in Workers :
            v \in limiter'
                <=> pc'[v] \in {"check", "load", "send", "sent", "quit"}
    BY <1>2, <2>1 DEF Acquire
  <2>6. QED
    BY <2>1, <2>3, <2>4, <2>5
<1>3. ASSUME NEW w \in Workers, CheckDone(w)
      PROVE  SlotInv'
  BY <1>3 DEF CheckDone
<1>4. ASSUME NEW w \in Workers, NEW r \in Results, Load(w, r)
      PROVE  SlotInv'
  BY <1>4 DEF Load
<1>5. ASSUME NEW w \in Workers, Release(w)
      PROVE  SlotInv'
  <2>1. limiter' = limiter \ {w}
    BY <1>5 DEF Release
  <2>2. /\ IsFiniteSet(limiter \ {w})
        /\ Cardinality(limiter \ {w})
               \in {Cardinality(limiter) - 1, Cardinality(limiter)}
    BY <1>0, FS_RemoveElement
  <2>3. \A v \in Workers :
            v \in limiter'
                <=> pc'[v] \in {"check", "load", "send", "sent", "quit"}
    BY <1>5, <2>1 DEF Release
  <2>4. Cardinality(limiter') <= IndexLimit
    BY <1>0, <2>1, <2>2, LimiterAssumption
  <2>5. QED
    BY <2>1, <2>2, <2>3, <2>4
<1>6. ASSUME NEW k \in Calls, NEW o \in Diff[k], Receive(k, o)
      PROVE  SlotInv'
  BY <1>6, PairWorker DEF Receive
<1>7. CASE UNCHANGED vars
  BY <1>7 DEF vars
<1>8. QED
  BY <1>1, <1>2, <1>3, <1>4, <1>5, <1>6, <1>7 DEF Next, WorkerStep

LEMMA SlotsFollow == Spec => [](TypeOK /\ CallInv /\ SlotInv)
<1>1. Init => TypeOK /\ CallInv /\ SlotInv
  BY CallInit, SlotInit DEF Init, TypeOK, WorkerPC, Results
<1>2. TypeOK /\ CallInv /\ SlotInv /\ [Next]_vars
          => TypeOK' /\ CallInv' /\ SlotInv'
  <2> SUFFICES ASSUME TypeOK, CallInv, SlotInv, [Next]_vars
               PROVE  TypeOK' /\ CallInv' /\ SlotInv'
    OBVIOUS
  <2>1. SlotInv'
    BY SlotStep DEF SlotInv
  <2>2. QED
    BY <2>1, TypeStep, CallStep
<1>3. QED
  BY <1>1, <1>2, PTL DEF Spec

(* No more downloads run at a time than --index-limit allows.              *)
THEOREM DownloadsBounded == Spec => []DownloadsLimited
<1>1. TypeOK /\ SlotInv => DownloadsLimited
  <2> SUFFICES ASSUME TypeOK, SlotInv, IndexLimit > 0
               PROVE  Cardinality(Downloading) <= IndexLimit
    BY DEF DownloadsLimited
  <2>1. Downloading \in SUBSET limiter
    BY DEF Downloading, SlotInv
  <2>2. QED
    BY <2>1, FS_Subset, FS_CardinalityType, LimiterAssumption
    DEF SlotInv
<1>2. QED
  BY <1>1, SlotsFollow, PTL
-----------------------------------------------------------------------------
(* A goroutine is stranded only when its call returns, and then the        *)
(* goroutine whose result ended the call still has its own slot.  A        *)
(* goroutine that starts later finds its call cancelled.                   *)
LEMMA StrandedStep ==
  ASSUME TypeOK, CallInv, SlotInv, SlotRemains, [Next]_vars, IndexLimit > 0
  PROVE  Cardinality(Stranded') < IndexLimit
<1> DEFINE S == Stranded
<1>1. IsFiniteSet(limiter) /\ IsFiniteSet(S)
  <2>1. S \in SUBSET limiter
    BY DEF Stranded, SlotInv
  <2>2. QED
    BY <2>1, FS_Subset DEF SlotInv
<1>2. ASSUME Stranded' \subseteq S
      PROVE  Cardinality(Stranded') < IndexLimit
  BY <1>1, <1>2, FS_Subset, FS_CardinalityType, LimiterAssumption
  DEF SlotRemains
<1> USE DEF TypeOK, CallInv, Returned, Stranded
<1>3. ASSUME NEW k \in Calls, AddIndexObjectsAsync(k)
      PROVE  Stranded' \subseteq S
  BY <1>3, WorkerPair DEF AddIndexObjectsAsync
<1>4. ASSUME NEW w \in Workers, Acquire(w)
      PROVE  Stranded' \subseteq S
  BY <1>4 DEF Acquire, callVars
<1>5. ASSUME NEW w \in Workers, CheckDone(w)
      PROVE  Stranded' \subseteq S
  BY <1>5, WorkerPair DEF CheckDone, callVars
<1>6. ASSUME NEW w \in Workers, NEW r \in Results, Load(w, r)
      PROVE  Stranded' \subseteq S
  BY <1>6 DEF Load, callVars
<1>7. ASSUME NEW w \in Workers, Release(w)
      PROVE  Stranded' \subseteq S
  BY <1>7 DEF Release, callVars
<1>8. ASSUME NEW k \in Calls, NEW o \in Diff[k], Receive(k, o)
      PROVE  Cardinality(Stranded') < IndexLimit
  <2> DEFINE w == <<k, o>>
  <2>1. w \in Workers /\ w \in limiter
    BY <1>8, PairWorker DEF Receive, SlotInv
  <2>2. Stranded' \in SUBSET (limiter \ {w})
    BY <1>8, <2>1 DEF Receive, SlotInv
  <2> HIDE DEF w
  <2>3. /\ IsFiniteSet(limiter \ {w})
        /\ Cardinality(limiter \ {w}) = Cardinality(limiter) - 1
    BY <1>1, <2>1, FS_RemoveElement
  <2>4. Cardinality(Stranded') <= Cardinality(limiter \ {w})
    BY <2>2, <2>3, FS_Subset
  <2>5. Cardinality(Stranded') \in Nat /\ Cardinality(limiter) \in Nat
    BY <1>1, <2>2, <2>3, FS_Subset, FS_CardinalityType
  <2>6. QED
    BY <2>3, <2>4, <2>5, LimiterAssumption DEF SlotInv
<1>9. CASE UNCHANGED vars
  <2>1. Stranded' \subseteq S
    BY <1>9 DEF vars, callVars
  <2>2. QED
    BY <1>2, <2>1
<1>10. QED
  BY <1>2, <1>3, <1>4, <1>5, <1>6, <1>7, <1>8, <1>9 DEF Next, WorkerStep

(* However many calls fail, for however many tenants, the Limiter keeps a  *)
(* slot that is not lost.                                                  *)
THEOREM SlotNeverLost == Spec => []SlotRemains
<1>1. Init => SlotRemains
  <2> SUFFICES ASSUME Init
               PROVE  Stranded = {}
    BY FS_EmptySet DEF SlotRemains
  <2>1. QED
    BY DEF Init, Stranded
<1>2. TypeOK /\ CallInv /\ SlotInv /\ SlotRemains /\ [Next]_vars
          => SlotRemains'
  BY StrandedStep DEF SlotRemains
<1>3. QED
  BY <1>1, <1>2, SlotsFollow, PTL DEF Spec
-----------------------------------------------------------------------------
(* The loop's counter counts the objects whose results were received.      *)
CountInv ==
    \A k \in Calls : validCount[k] = Cardinality(Diff[k] \ Left[k])

LEMMA DiffFinite ==
  ASSUME NEW k \in Calls
  PROVE  /\ IsFiniteSet(Diff[k])
         /\ Left[k] \in SUBSET Diff[k]
         /\ IsFiniteSet(Diff[k] \ Left[k])
<1>1. Diff[k] \in SUBSET Objects /\ IsFiniteSet(Objects)
  BY LimiterAssumption
<1>2. IsFiniteSet(Diff[k])
  BY <1>1, FS_Subset
<1>3. Left[k] \in SUBSET Diff[k] /\ Diff[k] \ Left[k] \in SUBSET Diff[k]
  BY DEF Left
<1>4. QED
  BY <1>2, <1>3, FS_Subset

(* What every step but a receive leaves to be taken, and what that takes.  *)
LEMMA LeftStep ==
  ASSUME TypeOK, CallInv, [Next]_vars,
         \A k \in Calls : \A o \in Diff[k] : ~Receive(k, o)
  PROVE  Left' = Left
<1> USE DEF TypeOK, Left
<1>1. ASSUME NEW k \in Calls, AddIndexObjectsAsync(k)
      PROVE  Left' = Left
  BY <1>1, PairWorker DEF AddIndexObjectsAsync, CallInv
<1>2. ASSUME NEW w \in Workers, Acquire(w)
      PROVE  Left' = Left
  BY <1>2, PairWorker DEF Acquire
<1>3. ASSUME NEW w \in Workers, CheckDone(w)
      PROVE  Left' = Left
  BY <1>3, PairWorker DEF CheckDone
<1>4. ASSUME NEW w \in Workers, NEW r \in Results, Load(w, r)
      PROVE  Left' = Left
  BY <1>4, PairWorker DEF Load
<1>5. ASSUME NEW w \in Workers, Release(w)
      PROVE  Left' = Left
  BY <1>5, PairWorker DEF Release
<1>6. CASE UNCHANGED vars
  BY <1>6 DEF vars
<1>7. QED
  BY <1>1, <1>2, <1>3, <1>4, <1>5, <1>6 DEF Next, WorkerStep

LEMMA ReceiveLeft ==
  ASSUME TypeOK, NEW k \in Calls, NEW o \in Diff[k], Receive(k, o)
  PROVE  /\ o \in Left[k]
         /\ Left' = [Left EXCEPT ![k] = @ \ {o}]
<1>1. \A j \in Calls : \A x \in Diff[j] :
          pc'[<<j, x>>] = IF j = k /\ x = o THEN "sent" ELSE pc[<<j, x>>]
  BY PairWorker DEF Receive, TypeOK
<1>2. o \in Left[k]
  BY DEF Receive, Left
<1>3. \A j \in Calls : Left'[j] = IF j = k THEN Left[k] \ {o} ELSE Left[j]
  BY <1>1 DEF Left
<1>4. QED
  BY <1>2, <1>3 DEF Left

LEMMA CountStep ==
  ASSUME TypeOK, CallInv, CountInv, [Next]_vars
  PROVE  CountInv'
<1>1. CASE \A k \in Calls : \A o \in Diff[k] : ~Receive(k, o)
  <2>1. Left' = Left
    BY <1>1, LeftStep
  <2>2. validCount' = validCount
    BY <1>1 DEF Next, WorkerStep, AddIndexObjectsAsync, Acquire, CheckDone,
         Load, Release, vars, callVars
  <2>3. QED
    BY <2>1, <2>2 DEF CountInv
<1>2. ASSUME NEW k \in Calls, NEW o \in Diff[k], Receive(k, o)
      PROVE  CountInv'
  <2> DEFINE Taken == Diff[k] \ Left[k]
  <2>1. /\ o \in Left[k]
        /\ Left' = [Left EXCEPT ![k] = @ \ {o}]
    BY <1>2, ReceiveLeft
  <2>2. /\ Left'[k] = Left[k] \ {o}
        /\ \A j \in Calls \ {k} : Left'[j] = Left[j]
    BY <2>1 DEF Left
  <2>3. Diff[k] \ Left'[k] = Taken \cup {o} /\ o \notin Taken
    BY <2>1, <2>2
  <2>4. Cardinality(Taken \cup {o}) = Cardinality(Taken) + 1
    BY <2>3, DiffFinite, FS_AddElement
  <2>5. validCount' = [validCount EXCEPT ![k] = @ + 1]
    BY <1>2 DEF Receive
  <2>6. validCount'[k] = Cardinality(Diff[k] \ Left'[k])
    BY <2>3, <2>4, <2>5 DEF CountInv, TypeOK
  <2>7. \A j \in Calls \ {k} :
            validCount'[j] = Cardinality(Diff[j] \ Left'[j])
    BY <2>2, <2>5 DEF CountInv, TypeOK
  <2>8. QED
    BY <2>6, <2>7 DEF CountInv
<1>3. QED
  BY <1>1, <1>2

(* The loop ends with the result that leaves nothing to be taken.          *)
LEMMA LastResult ==
  ASSUME CountInv, TypeOK, NEW k \in Calls, NEW o \in Diff[k], o \in Left[k]
  PROVE  ReceivedAll(k) <=> Left[k] \ {o} = {}
<1> DEFINE Taken == Diff[k] \ Left[k]
<1>1. IsFiniteSet(Taken) /\ o \notin Taken /\ Taken \cup {o} \subseteq Diff[k]
  BY DiffFinite
<1> DEFINE T == Taken \cup {o}
           D == Diff[k]
<1>2. Cardinality(T) = validCount[k] + 1
  <2>1. Cardinality(Taken) = validCount[k]
    BY DEF CountInv
  <2> HIDE DEF Taken
  <2>2. QED
    BY <1>1, <2>1, FS_AddElement
<1>3. Cardinality(T) = Cardinality(D) <=> T = D
  <2>1. IsFiniteSet(D) /\ T \in SUBSET D
    BY <1>1, DiffFinite
  <2> HIDE DEF T, D
  <2>2. QED
    BY <2>1, FS_Subset
<1>4. Taken \cup {o} = Diff[k] <=> Left[k] \ {o} = {}
  BY DiffFinite
<1>5. QED
  BY <1>2, <1>3, <1>4 DEF ReceivedAll

LEMMA PromiseStep ==
  ASSUME TypeOK, CallInv, CountInv, [Next]_vars
  PROVE  [Promise!Next]_(Promise!vars)
<1>1. CASE \A k \in Calls : \A o \in Diff[k] : ~Receive(k, o)
  <2>1. Left' = Left
    BY <1>1, LeftStep
  <2>2. ASSUME NEW k \in Calls, AddIndexObjectsAsync(k)
        PROVE  Promise!Begin(k)
    BY <2>1, <2>2 DEF AddIndexObjectsAsync, Promise!Begin
  <2>3. ASSUME NEW w \in Workers, WorkerStep(w)
        PROVE  UNCHANGED <<call, added>>
    BY <2>3 DEF WorkerStep, Acquire, CheckDone, Load, Release, callVars
  <2>4. ASSUME UNCHANGED vars
        PROVE  UNCHANGED <<call, added>>
    BY <2>4 DEF vars, callVars
  <2>5. QED
    BY <1>1, <2>1, <2>2, <2>3, <2>4 DEF Next, Promise!Next, Promise!vars
<1>2. ASSUME NEW k \in Calls, NEW o \in Diff[k], Receive(k, o)
      PROVE  Promise!Next
  <2> DEFINE w == <<k, o>>
  <2>1. /\ o \in Left[k]
        /\ Left' = [Left EXCEPT ![k] = @ \ {o}]
        /\ Left'[k] = Left[k] \ {o}
    BY <1>2, ReceiveLeft DEF Left
  <2>2. ReceivedAll(k) <=> Left'[k] = {}
    BY <2>1, LastResult
  <2>3. w \in Workers /\ o \in Objects
    BY PairWorker
  <2>4. Promise!Take(k, o)
    BY <1>2, <2>1 DEF Receive, Promise!Take
  <2>5. Promise!Done(k)' = IF ReceivedAll(k) THEN "ok" ELSE "running"
    BY <2>2 DEF Promise!Done
  <2>6. result[w] \in {"chart", "invalid", "error"}
    BY <1>2, <2>3 DEF Receive, CallInv, TypeOK, Results
  <2>7. CASE result[w] = "error"
    <3>1. Promise!Fail(k, o)
      BY <1>2, <2>4, <2>7 DEF Receive, Ends, Promise!Fail
    <3>2. QED
      BY <2>3, <3>1 DEF Promise!Next
  <2>8. CASE result[w] = "chart"
    <3>1. Promise!Add(k, o)
      BY <1>2, <2>4, <2>5, <2>8 DEF Receive, Ends, Promise!Add
    <3>2. QED
      BY <2>3, <3>1 DEF Promise!Next
  <2>9. CASE result[w] = "invalid"
    <3>1. Promise!Skip(k, o)
      BY <1>2, <2>4, <2>5, <2>9 DEF Receive, Ends, Promise!Skip
    <3>2. QED
      BY <2>3, <3>1 DEF Promise!Next
  <2>10. QED
    BY <2>6, <2>7, <2>8, <2>9
<1>3. QED
  BY <1>1, <1>2

(* Every behaviour of the goroutines is one the regeneration may rely on.  *)
THEOREM PromiseImplemented == Spec => PromiseKept
<1>1. Init => CountInv /\ Promise!Init
  <2> SUFFICES ASSUME Init
               PROVE  CountInv /\ Promise!Init
    OBVIOUS
  <2>1. \A k \in Calls : Left[k] = Diff[k]
    BY PairWorker DEF Init, Left
  <2>2. Left = Diff
    BY <2>1, LimiterAssumption DEF Left
  <2>3. CountInv
    BY <2>1, FS_EmptySet DEF Init, CountInv
  <2>4. QED
    BY <2>2, <2>3 DEF Init, Promise!Init
<1>2. TypeOK /\ CallInv /\ CountInv /\ [Next]_vars => CountInv'
  BY CountStep
<1>3. TypeOK /\ CallInv /\ CountInv /\ [Next]_vars
          => [Promise!Next]_(Promise!vars)
  BY PromiseStep
<1>4. QED
  BY <1>1, <1>2, <1>3, SlotsFollow, PTL DEF Spec, PromiseKept, Promise!Spec
=============================================================================
