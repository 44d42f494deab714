-------------------------- MODULE MapMerge_proofs --------------------------
(***************************************************************************)
(* Theorems about MapMerge, for every number of jobs, workers, splits,     *)
(* retries and losses.                                                     *)
(***************************************************************************)
EXTENDS MapMerge, FiniteSetTheorems, TLAPS

USE DEF headVars, execVars, jobVars, mapVars, fileVars, dataVars, nodeVars, vars

\* The initial values have their types.
LEMMA InitType == Init => TypeOK
<1> SUFFICES ASSUME Init PROVE TypeOK
  OBVIOUS
<1>1. pc \in [Task -> PC] /\ spc \in [Part -> MapPC] /\ runner \in [Worker -> Run]
  BY DEF Init, PC, MapPC, Run, NoRun
<1> QED
  BY <1>1, BoundAssumption DEF Init, TypeOK

\* Writing a status into an entry keeps the type of the registry.
LEMMA MarkType ==
  ASSUME TypeOK, NEW w, NEW status \in {"IDLE", "BUSY"}
  PROVE  Mark(w, status) \in [Worker -> {"ABSENT", "IDLE", "BUSY"}]
  BY DEF TypeOK, Mark

\* A worker that starts a task runs it.
LEMMA StartType ==
  ASSUME TypeOK, NEW w, NEW t \in Task, NEW files \in SUBSET Part, Start(w, t, files)
  PROVE  runner' \in [Worker -> Run]
  BY DEF TypeOK, Start, Run

\* A step of the Head that only moves entries and threads keeps the types.
LEMMA HeadType ==
  ASSUME TypeOK, Removal \/ \E w \in Worker : Replace(w)
  PROVE  TypeOK'
<1>1. ASSUME NEW w \in Spot, Dead(w) PROVE TypeOK'
  BY <1>1, BoundAssumption DEF Dead, TypeOK, Spot, PC
<1>2. ASSUME NEW w \in Spot, Evict(w) PROVE TypeOK'
  BY <1>2, BoundAssumption DEF Evict, TypeOK, Spot
<1>3. ASSUME NEW w \in Spot, Vanish(w) PROVE TypeOK'
  BY <1>3 DEF Vanish, TypeOK, Run, NoRun
<1>4. ASSUME NEW w \in Spot, ScaleInChoose(w) PROVE TypeOK'
  BY <1>4, BoundAssumption DEF ScaleInChoose, TypeOK
<1>5. CASE ScaleInStop
  BY <1>5 DEF ScaleInStop, TypeOK, Run, NoRun
<1>6. CASE ScaleInDrop
  BY <1>6 DEF ScaleInDrop, TypeOK
<1>7. ASSUME NEW w \in Worker, Replace(w) PROVE TypeOK'
  BY <1>7 DEF Replace, TypeOK
<1> QED
  BY <1>1, <1>2, <1>3, <1>4, <1>5, <1>6, <1>7 DEF Removal

\* The steps of an executor thread that runs a task as a whole.
LEMMA ExecutorType ==
  ASSUME TypeOK, NEW t \in Task, ExecutorStep(t)
  PROVE  TypeOK'
<1>1. CASE Undivided(t)
  <2>1. registry' \in [Worker -> {"ABSENT", "IDLE", "BUSY"}]
    BY <1>1, MarkType DEF Undivided
  <2> QED
    BY <1>1, <2>1 DEF Undivided, TypeOK, Goto, PC
<1>2. CASE Assign(t)
  <2>1. runner' \in [Worker -> Run]
    BY <1>2 DEF Assign, TypeOK, Start, Run
  <2> QED
    BY <1>2, <2>1 DEF Assign, TypeOK, Goto, PC
<1>3. CASE Poll(t)
  <2>1. pc' \in [Task -> PC]
    BY <1>3 DEF Poll, TypeOK, Goto, PC
  <2>2. final' \subseteq Part /\ torn' \subseteq Part
    BY <1>3 DEF Poll, TypeOK, Remove
  <2> QED
    BY <1>3, <2>1, <2>2 DEF Poll, TypeOK
<1>4. CASE Release(t)
  <2>1. pc' \in [Task -> PC] /\ own' \in [Task -> Worker \cup {NoWorker}]
    BY <1>4 DEF Release, TypeOK, Goto, PC
  <2>2. registry' \in [Worker -> {"ABSENT", "IDLE", "BUSY"}]
    BY <1>4, MarkType DEF Release
  <2>3. small' \subseteq Job /\ splits' \in [Job -> 0..MaxSplits]
        /\ attempts' \in [Job -> 0..MaxAttempts]
        /\ results' \in [Part -> {"none", "ok", "failed"}]
    BY <1>4, BoundAssumption DEF Release, TypeOK
  <2> QED
    BY <1>4, <2>1, <2>2, <2>3 DEF Release, TypeOK
<1> QED
  BY <1>1, <1>2, <1>3, <1>4 DEF ExecutorStep

\* A plan gives some of the unfinished subtasks to different IDLE workers.
LEMMA PlanType ==
  ASSUME TypeOK, NEW j \in Job, NEW p \in Plans(Pending(j), Idle)
  PROVE  /\ {<<k, p[k]>> : k \in DOMAIN p} \subseteq Index \X Worker
         /\ \A k \in DOMAIN p : k \in Index /\ k <= splits[j] /\ results[<<j, k>>] # "ok"
<1>1. DOMAIN p \subseteq Pending(j) /\ \A k \in DOMAIN p : p[k] \in Idle
  BY DEF Plans
<1>2. splits[j] \in 0..MaxSplits /\ MaxSplits \in Nat
  BY BoundAssumption DEF TypeOK
<1>3. \A k \in Pending(j) : k \in Index /\ k <= splits[j] /\ results[<<j, k>>] # "ok"
  BY <1>2 DEF Pending, Index
<1>4. ASSUME NEW k \in DOMAIN p
      PROVE  /\ <<k, p[k]>> \in Index \X Worker
             /\ k \in Index /\ k <= splits[j] /\ results[<<j, k>>] # "ok"
  BY <1>1, <1>3 DEF Idle
<1> QED
  BY <1>4

\* A job is split into at most MaxSplits subtasks.
LEMMA SplitBound ==
  ASSUME NEW j \in Job
  PROVE  Min({Cardinality(Available(j)), MaxSplits}) \in 0..MaxSplits
<1>1. IsFiniteSet(Available(j))
  BY BoundAssumption, FS_Subset DEF Available
<1>2. Cardinality(Available(j)) \in Nat
  BY <1>1, FS_CardinalityType
<1>3. \A n \in Nat : Min({n, MaxSplits}) \in 0..MaxSplits
  BY BoundAssumption DEF Min
<1> QED
  BY <1>2, <1>3

\* The steps of an executor thread that splits its job.
LEMMA ParentType ==
  ASSUME TypeOK, NEW j \in Job, ParentStep(j)
  PROVE  TypeOK'
<1> USE DEF Goto, PC
<1>1. CASE Split(j)
  <2>1. splits' \in [Job -> 0..MaxSplits]
    BY <1>1, SplitBound DEF Split, TypeOK
  <2> QED
    BY <1>1, <2>1 DEF Split, TypeOK, Task
<1>2. CASE Attempt(j)
  <2>1. plan' \in [Job -> SUBSET (Index \X Worker)]
    BY <1>2, PlanType DEF Attempt, TypeOK
  <2>2. attempts' \in [Job -> 0..MaxAttempts]
    BY <1>2, BoundAssumption DEF Attempt, TypeOK
  <2> QED
    BY <1>2, <2>1, <2>2 DEF Attempt, TypeOK, Task
<1>3. CASE EndAttempts(j)
  BY <1>3 DEF EndAttempts, TypeOK, Task
<1>4. CASE StartMap(j)
  <2>1. PICK a \in plan[j] :
          /\ registry' = Mark(a[2], "BUSY")
          /\ lineage' = [lineage EXCEPT ![<<j, a[1]>>] = a[2]]
          /\ spc' = [spc EXCEPT ![<<j, a[1]>>] = "check"]
          /\ on' = [on EXCEPT ![<<j, a[1]>>] = a[2]]
          /\ plan' = [plan EXCEPT ![j] = @ \ {a}]
    BY <1>4 DEF StartMap
  <2>2. a[1] \in Index /\ a[2] \in Worker
    BY DEF TypeOK
  <2>3. registry' \in [Worker -> {"ABSENT", "IDLE", "BUSY"}]
    BY <2>1, MarkType
  <2>4. lineage' \in [Part -> Worker \cup {NoWorker}] /\ spc' \in [Part -> MapPC]
        /\ on' \in [Part -> Worker \cup {NoWorker}]
        /\ plan' \in [Job -> SUBSET (Index \X Worker)]
    BY <2>1, <2>2 DEF TypeOK, MapPC
  <2> QED
    BY <1>4, <2>3, <2>4 DEF StartMap, TypeOK
<1>5. CASE Join(j)
  BY <1>5 DEF Join, TypeOK, Task
<1>6. CASE Pin(j)
  BY <1>6, MarkType DEF Pin, TypeOK, Task
<1>7. ASSUME NEW w \in OnDemand, Wait(j, w) PROVE TypeOK'
  BY <1>7 DEF Wait, TypeOK, Task
<1>8. CASE MergeAssign(j)
  <2>1. PartsOf(j) \subseteq Part
    BY BoundAssumption DEF PartsOf, TypeOK, Part
  <2>2. runner' \in [Worker -> Run]
    BY <1>8, <2>1, StartType DEF MergeAssign, TypeOK, Task
  <2> QED
    BY <1>8, <2>2 DEF MergeAssign, TypeOK, Task
<1>9. CASE MergePoll(j)
  BY <1>9 DEF MergePoll, TypeOK, Task
<1>10. CASE MergeEnd(j)
  BY <1>10, MarkType DEF MergeEnd, TypeOK, Task
<1>11. CASE Cleanup(j)
  BY <1>11 DEF Cleanup, TypeOK, Task, Remove
<1> QED
  BY <1>1, <1>2, <1>3, <1>4, <1>5, <1>6, <1>7, <1>8, <1>9, <1>10, <1>11 DEF ParentStep

\* The steps of a map thread.
LEMMA MapType ==
  ASSUME TypeOK, NEW s \in Part, MapStep(s)
  PROVE  TypeOK'
<1> USE DEF GotoMap, MapPC, CloseLineage
<1>1. CASE MapCheck(s)
  <2>1. spc' \in [Part -> MapPC] /\ lineage' \in [Part -> Worker \cup {NoWorker}]
    BY <1>1 DEF MapCheck, TypeOK
  <2> QED
    BY <1>1, <2>1 DEF MapCheck, TypeOK
<1>2. CASE MapAssign(s)
  <2>1. runner' \in [Worker -> Run]
    <3>1. CASE UNCHANGED runner
      BY <3>1 DEF TypeOK
    <3>2. CASE Start(on[s], s, {})
      BY <3>2, StartType DEF Task
    <3> QED
      BY <1>2, <3>1, <3>2 DEF MapAssign
  <2>2. spc' \in [Part -> MapPC]
    BY <1>2 DEF MapAssign, TypeOK
  <2>3. lineage' \in [Part -> Worker \cup {NoWorker}]
    BY <1>2 DEF MapAssign, TypeOK
  <2> QED
    BY <1>2, <2>1, <2>2, <2>3 DEF MapAssign, TypeOK
<1>3. CASE MapPoll(s)
  <2>1. spc' \in [Part -> MapPC]
    BY <1>3 DEF MapPoll, TypeOK
  <2>2. lineage' \in [Part -> Worker \cup {NoWorker}]
    BY <1>3 DEF MapPoll, TypeOK
  <2> QED
    BY <1>3, <2>1, <2>2 DEF MapPoll, TypeOK
<1>4. CASE MapEnd(s)
  <2>1. registry' \in [Worker -> {"ABSENT", "IDLE", "BUSY"}]
    BY <1>4, MarkType DEF MapEnd, TypeOK
  <2>2. results' \in [Part -> {"none", "ok", "failed"}]
    BY <1>4 DEF MapEnd, TypeOK
  <2> QED
    BY <1>4, <2>1, <2>2 DEF MapEnd, TypeOK
<1> QED
  BY <1>1, <1>2, <1>3, <1>4 DEF MapStep

\* The end of a run is one of the statuses a runner may have.
LEMMA StatusType ==
  ASSUME TypeOK, NEW w \in Worker, NEW result \in {"SUCCESS", "FAILED"},
         runner' = [runner EXCEPT ![w].status = result]
  PROVE  runner' \in [Worker -> Run]
<1>1. runner[w] \in Run
  BY DEF TypeOK
<1>2. [runner[w] EXCEPT !.status = result] \in Run
  BY <1>1 DEF Run
<1>3. runner' = [runner EXCEPT ![w] = [runner[w] EXCEPT !.status = result]]
  BY DEF TypeOK
<1> QED
  BY <1>2, <1>3 DEF TypeOK

\* The steps of a worker.
LEMMA WorkerType ==
  ASSUME TypeOK, NEW w \in Worker, Trained(w) \/ Averaged(w) \/ Breaks(w)
  PROVE  TypeOK'
<1>1. CASE Trained(w)
  <2>1. runner' \in [Worker -> Run]
    BY <1>1, StatusType DEF Trained
  <2>2. final' \subseteq Part /\ torn' \subseteq Part
    BY <1>1 DEF Trained, TypeOK, Save, SaveFails
  <2> QED
    BY <1>1, <2>1, <2>2 DEF Trained, TypeOK
<1>2. CASE Averaged(w)
  <2>1. PICK result \in {"FAILED", "SUCCESS"} :
          runner' = [runner EXCEPT ![w].status = result]
    BY <1>2 DEF Averaged
  <2>2. runner' \in [Worker -> Run]
    BY <2>1, StatusType
  <2> QED
    BY <1>2, <2>2 DEF Averaged, TypeOK
<1>3. CASE Breaks(w)
  <2>1. runner' \in [Worker -> Run]
    BY <1>3, StatusType DEF Breaks
  <2> QED
    BY <1>3, <2>1 DEF Breaks, TypeOK
<1> QED
  BY <1>1, <1>2, <1>3

\* Every step keeps the types.
LEMMA NextType == TypeOK /\ [Next]_vars => TypeOK'
<1> SUFFICES ASSUME TypeOK, [Next]_vars PROVE TypeOK'
  OBVIOUS
<1>1. ASSUME NEW t \in Task, NEW w \in Worker, Claim(t, w) PROVE TypeOK'
  BY <1>1 DEF Claim, TypeOK, PC
<1>2. CASE UNCHANGED vars
  BY <1>2 DEF TypeOK
<1> QED
  BY <1>1, <1>2, HeadType, ExecutorType, ParentType, MapType, WorkerType DEF Next

\* The variables keep their types, whatever the constants.
THEOREM TypeCorrect == Spec => []TypeOK
  BY InitType, NextType, PTL DEF Spec

(***************************************************************************)
(* The claims.                                                             *)
(***************************************************************************)

\* At the start no thread runs and no worker is claimed.
LEMMA InitClaims == Init => MapInv
<1> SUFFICES ASSUME Init PROVE MapInv
  OBVIOUS
<1>1. ThreadsHold
  BY DEF Init, ThreadsHold, Part, Index, Task
<1>2. NoLeakedClaim
  BY DEF Init, NoLeakedClaim
<1>3. SelectiveRetry
  BY DEF Init, SelectiveRetry
<1> QED
  BY <1>1, <1>2, <1>3 DEF MapInv

\* After a step that starts or ends no thread, and claims no worker, the claims
\* are as good as before.
LEMMA ClaimsStutter ==
  ASSUME MapInv, UNCHANGED <<execVars, splits, results, plan, reducer, mapVars>>,
         \A w \in Worker : registry'[w] = "BUSY" => registry[w] = "BUSY"
  PROVE  MapInv'
  BY DEF MapInv, ThreadsHold, NoLeakedClaim, SelectiveRetry

\* Steps of the Head other than those of task threads.
LEMMA HeadClaims ==
  ASSUME TypeOK, MapInv, Removal \/ \E w \in Worker : Replace(w)
  PROVE  MapInv'
<1>1. ASSUME NEW w \in Spot, Dead(w) PROVE MapInv'
  <2>1. \A x \in Worker : registry'[x] = "BUSY" => registry[x] = "BUSY"
    BY <1>1 DEF Dead, TypeOK
  <2>2. \A t \in Task : pc'[t] = pc[t] \/ (pc[t] = "none" /\ pc'[t] = "queued")
    BY <1>1 DEF Dead, TypeOK
  <2>3. ThreadsHold'
    BY <1>1, <2>2 DEF Dead, MapInv, ThreadsHold, Task
  <2> QED
    BY <1>1, <2>1, <2>3 DEF Dead, MapInv, NoLeakedClaim, SelectiveRetry
<1>2. ASSUME NEW w \in Spot, Evict(w) PROVE MapInv'
  BY <1>2, ClaimsStutter DEF Evict, TypeOK
<1>3. ASSUME NEW w \in Spot, Vanish(w) PROVE MapInv'
  BY <1>3, ClaimsStutter DEF Vanish
<1>4. ASSUME NEW w \in Spot, ScaleInChoose(w) PROVE MapInv'
  BY <1>4, ClaimsStutter DEF ScaleInChoose
<1>5. CASE ScaleInStop
  BY <1>5, ClaimsStutter DEF ScaleInStop
<1>6. CASE ScaleInDrop
  BY <1>6, ClaimsStutter DEF ScaleInDrop, TypeOK
<1>7. ASSUME NEW w \in Worker, Replace(w) PROVE MapInv'
  BY <1>7, ClaimsStutter DEF Replace, TypeOK
<1> QED
  BY <1>1, <1>2, <1>3, <1>4, <1>5, <1>6, <1>7 DEF Removal

\* An executor thread moves on without taking or giving back anything.
LEMMA MoveClaims ==
  ASSUME TypeOK, MapInv, NEW t \in Task, NEW label \in PC,
         pc' = [pc EXCEPT ![t] = label],
         pc[t] \notin {"none", "queued", "done", "claim"},
         label \notin {"none", "queued", "done", "claim"},
         pc[t] \in {"merge", "watch", "merged", "unmerged"}
           => label \in {"merge", "watch", "merged", "unmerged"},
         UNCHANGED <<own, splits, results, plan, reducer, mapVars>>
  PROVE  ThreadsHold'
<1>1. pc'[t] = label /\ \A x \in Task \ {t} : pc'[x] = pc[x]
  BY DEF TypeOK
<1>2. \A x \in Task : pc'[x] \in {"none", "queued", "done"} => own'[x] = NoWorker
  BY <1>1 DEF MapInv, ThreadsHold
<1>3. \A j \in Job : /\ pc'[j] = "claim" <=> pc[j] = "claim"
                     /\ pc[j] \in {"merge", "watch", "merged", "unmerged"}
                          => pc'[j] \in {"merge", "watch", "merged", "unmerged"}
  BY <1>1 DEF Task
<1> QED
  BY <1>2, <1>3 DEF MapInv, ThreadsHold

\* Steps of an executor thread that runs a task as a whole.
LEMMA ExecutorClaims ==
  ASSUME TypeOK, MapInv, NEW t \in Task, ExecutorStep(t)
  PROVE  MapInv'
<1> USE DEF Goto
<1>1. CASE Undivided(t)
  <2>1. ThreadsHold'
    BY <1>1, MoveClaims DEF Undivided, PC
  <2>2. \A w \in Worker : registry'[w] = "BUSY" => registry[w] = "BUSY" \/ w = own[t]
    BY <1>1 DEF Undivided, TypeOK, Mark
  <2>3. NoLeakedClaim'
    BY <1>1, <2>2 DEF Undivided, MapInv, NoLeakedClaim
  <2> QED
    BY <1>1, <2>1, <2>3 DEF Undivided, MapInv, SelectiveRetry
<1>2. CASE Assign(t)
  <2>1. /\ pc[t] = "assign"
        /\ \E label \in {"poll", "failed"} : pc' = [pc EXCEPT ![t] = label]
    BY <1>2 DEF Assign
  <2>2. ThreadsHold'
    BY <1>2, <2>1, MoveClaims DEF Assign, PC
  <2> QED
    BY <1>2, <2>2 DEF Assign, MapInv, NoLeakedClaim, SelectiveRetry
<1>3. CASE Poll(t)
  <2>1. /\ pc[t] = "poll"
        /\ \E label \in {"poll", "ok", "failed"} : pc' = [pc EXCEPT ![t] = label]
    BY <1>3 DEF Poll, TypeOK
  <2>2. ThreadsHold'
    BY <1>3, <2>1, MoveClaims DEF Poll, PC
  <2> QED
    BY <1>3, <2>2 DEF Poll, MapInv, NoLeakedClaim, SelectiveRetry
<1>4. CASE Release(t)
  <2>1. /\ pc[t] \in {"ok", "failed"}
        /\ \E label \in {"queued", "done", "none"} : pc' = [pc EXCEPT ![t] = label]
        /\ own' = [own EXCEPT ![t] = NoWorker]
    BY <1>4 DEF Release
  <2>2. t \in Job => \A k \in Index : spc[<<t, k>>] = "none"
    BY <2>1 DEF MapInv, ThreadsHold
  <2>3. \A x \in Task : pc'[x] \in {"none", "queued", "done"} => own'[x] = NoWorker
    BY <2>1 DEF TypeOK, MapInv, ThreadsHold
  <2>4. \A x \in Job : x # t => splits'[x] = splits[x] /\ pc'[x] = pc[x]
    BY <1>4, <2>1 DEF Release, TypeOK, Task
  <2>5. \A x \in Job : x = t => plan[x] = {} /\ reducer[x] = NoWorker
    BY <2>1 DEF MapInv, ThreadsHold
  <2>6. \A x \in Job, k \in Index : x # t => results'[<<x, k>>] = results[<<x, k>>]
    BY <1>4 DEF Release, TypeOK, Part, Index
  <2>7. \A x \in Job : \A a \in plan[x] : a[1] \in Index
    BY DEF TypeOK
  <2>8. ThreadsHold'
    BY <1>4, <2>2, <2>3, <2>4, <2>5, <2>6, <2>7 DEF Release, MapInv, ThreadsHold
  <2>9. \A w \in Worker : registry'[w] = "BUSY" => registry[w] = "BUSY" /\ w # own[t]
    BY <1>4 DEF Release, TypeOK, Mark, Registered
  <2>10. NoLeakedClaim'
    BY <1>4, <2>9 DEF Release, TypeOK, MapInv, NoLeakedClaim
  <2>11. SelectiveRetry'
    BY <1>4 DEF Release, TypeOK, MapInv, SelectiveRetry
  <2> QED
    BY <2>8, <2>10, <2>11 DEF MapInv
<1> QED
  BY <1>1, <1>2, <1>3, <1>4 DEF ExecutorStep

\* A merge takes its worker.
LEMMA PinClaims ==
  ASSUME TypeOK, MapInv, NEW j \in Job, NEW w \in OnDemand,
         pc[j] \in {"pin", "wait"}, pc' = [pc EXCEPT ![j] = "merge"],
         reducer' = [reducer EXCEPT ![j] = w],
         registry' = Mark(w, "BUSY"),
         UNCHANGED <<own, splits, results, plan, mapVars>>
  PROVE  MapInv'
<1>1. j \in Task /\ \A x \in Job : pc'[x] = "claim" <=> pc[x] = "claim"
  BY DEF TypeOK, Task
<1>2. ThreadsHold'
  BY <1>1 DEF TypeOK, MapInv, ThreadsHold, Task
<1>3. \A x \in Worker : registry'[x] = "BUSY" => registry[x] = "BUSY" \/ x = w
  BY DEF TypeOK, Mark
<1>4. reducer[j] = NoWorker /\ reducer'[j] = w /\ \A x \in Job \ {j} : reducer'[x] = reducer[x]
  BY DEF TypeOK, MapInv, ThreadsHold
<1>5. NoLeakedClaim'
  BY <1>3, <1>4, BoundAssumption DEF MapInv, NoLeakedClaim
<1> QED
  BY <1>2, <1>5 DEF MapInv, SelectiveRetry

\* Steps of an executor thread that splits its job.
LEMMA ParentClaims ==
  ASSUME TypeOK, MapInv, NEW j \in Job, ParentStep(j)
  PROVE  MapInv'
<1> USE DEF Goto
<1> j \in Task
  BY DEF Task
<1>1. CASE Split(j)
  <2>1. \A x \in Job : pc'[x] = "claim" <=> pc[x] = "claim"
    BY <1>1 DEF Split, TypeOK, Task
  <2>2. ThreadsHold'
    BY <1>1, <2>1 DEF Split, TypeOK, MapInv, ThreadsHold, Task
  <2> QED
    BY <1>1, <2>2 DEF Split, MapInv, NoLeakedClaim, SelectiveRetry
<1>2. CASE Attempt(j)
  <2>1. CASE pc' = pc /\ plan' = plan
    BY <1>2, <2>1 DEF Attempt, MapInv, ThreadsHold, NoLeakedClaim, SelectiveRetry
  <2>2. CASE pc' # pc \/ plan' # plan
    <3>1. PICK p \in Plans(Pending(j), Idle) :
            plan' = [plan EXCEPT ![j] = {<<k, p[k]>> : k \in DOMAIN p}]
      BY <1>2, <2>2 DEF Attempt
    <3>2. pc[j] = "attempt" /\ pc' = [pc EXCEPT ![j] = "claim"]
      BY <1>2, <2>2 DEF Attempt
    <3>3. \A a, b \in plan'[j] : a[1] = b[1] => a = b
      BY <3>1 DEF TypeOK
    <3>4. \A a \in plan'[j] : /\ a[1] \in Index /\ a[1] <= splits[j]
                              /\ results[<<j, a[1]>>] # "ok"
      BY <3>1, PlanType DEF TypeOK
    <3>5. \A k \in Index : spc[<<j, k>>] = "none"
      BY <3>2 DEF MapInv, ThreadsHold
    <3>6. /\ pc'[j] = "claim" /\ \A x \in Task \ {j} : pc'[x] = pc[x]
          /\ \A x \in Job \ {j} : plan'[x] = plan[x]
      BY <3>1, <3>2 DEF TypeOK
    <3>7. ThreadsHold'
      BY <1>2, <3>2, <3>3, <3>4, <3>5, <3>6 DEF Attempt, MapInv, ThreadsHold, Task
    <3> QED
      BY <1>2, <3>7 DEF Attempt, MapInv, NoLeakedClaim, SelectiveRetry
  <2> QED
    BY <2>1, <2>2
<1>3. CASE EndAttempts(j)
  <2>1. /\ pc[j] = "attempt"
        /\ \E label \in {"pin", "failed"} : pc' = [pc EXCEPT ![j] = label]
    BY <1>3 DEF EndAttempts
  <2>2. ThreadsHold'
    BY <1>3, <2>1, MoveClaims DEF EndAttempts, PC
  <2> QED
    BY <1>3, <2>2 DEF EndAttempts, MapInv, NoLeakedClaim, SelectiveRetry
<1>4. CASE StartMap(j)
  <2>1. PICK a \in plan[j] :
          /\ registry' = Mark(a[2], "BUSY")
          /\ spc' = [spc EXCEPT ![<<j, a[1]>>] = "check"]
          /\ on' = [on EXCEPT ![<<j, a[1]>>] = a[2]]
          /\ plan' = [plan EXCEPT ![j] = @ \ {a}]
    BY <1>4 DEF StartMap
  <2>2. /\ a[1] \in Index /\ a[2] \in Worker /\ <<j, a[1]>> \in Part
        /\ pc[j] = "claim" /\ a[1] <= splits[j] /\ spc[<<j, a[1]>>] = "none"
        /\ results[<<j, a[1]>>] # "ok" /\ on[<<j, a[1]>>] = NoWorker
    BY <1>4 DEF StartMap, TypeOK, MapInv, ThreadsHold, Part, Index
  <2>3. \A k \in Index, x \in Job :
          <<x, k>> # <<j, a[1]>> => spc'[<<x, k>>] = spc[<<x, k>>]
    BY <2>1 DEF TypeOK, Part, Index
  <2>4. \A x \in Job : plan'[x] \subseteq plan[x]
    BY <2>1 DEF TypeOK
  <2>5. \A b \in plan'[j] : b[1] # a[1]
    BY <2>1 DEF TypeOK, MapInv, ThreadsHold
  <2>6. \A x \in Job : \A b \in plan'[x] : spc'[<<x, b[1]>>] = "none"
    <3>1. ASSUME NEW x \in Job, NEW b \in plan'[x]
          PROVE  spc'[<<x, b[1]>>] = "none"
      <4>1. b \in plan[x] /\ b[1] \in Index /\ spc[<<x, b[1]>>] = "none"
        BY <2>4 DEF TypeOK, MapInv, ThreadsHold
      <4>2. <<x, b[1]>> # <<j, a[1]>>
        BY <2>5
      <4> QED
        BY <2>3, <4>1, <4>2
    <3> QED
      BY <3>1
  <2>7. \A s \in Part : spc'[s] = "none" => on'[s] = NoWorker
    BY <2>1, <2>2 DEF TypeOK, MapInv, ThreadsHold
  <2>8. \A x \in Job, k \in Index : pc[x] # "claim" \/ k > splits[x] => spc'[<<x, k>>] = "none"
    BY <2>2, <2>3 DEF TypeOK, MapInv, ThreadsHold, Index
  <2>9. ThreadsHold'
    BY <1>4, <2>4, <2>6, <2>7, <2>8 DEF StartMap, MapInv, ThreadsHold
  <2>10. \A w \in Worker : registry'[w] = "BUSY" => registry[w] = "BUSY" \/ w = a[2]
    BY <2>1 DEF TypeOK, Mark
  <2>11. \A s \in Part : on[s] # NoWorker => on'[s] = on[s]
    BY <2>1, <2>2 DEF TypeOK
  <2>12. on'[<<j, a[1]>>] = a[2]
    BY <2>1, <2>2 DEF TypeOK
  <2>13. NoLeakedClaim'
    BY <1>4, <2>2, <2>10, <2>11, <2>12, BoundAssumption DEF StartMap, MapInv, NoLeakedClaim
  <2>14. SelectiveRetry'
    BY <1>4, <2>1, <2>2 DEF StartMap, TypeOK, MapInv, SelectiveRetry
  <2> QED
    BY <2>9, <2>13, <2>14 DEF MapInv
<1>5. CASE Join(j)
  <2>1. \A k \in Index : spc[<<j, k>>] = "none"
    <3>1. \A k \in 1..splits[j] : spc[<<j, k>>] = "none"
      BY <1>5 DEF Join, PartsOf
    <3> QED
      BY <3>1, BoundAssumption DEF Index, TypeOK, MapInv, ThreadsHold
  <2>2. \A x \in Task : pc'[x] = IF x = j THEN "attempt" ELSE pc[x]
    BY <1>5 DEF Join, TypeOK
  <2>3. ThreadsHold'
    BY <1>5, <2>1, <2>2 DEF Join, MapInv, ThreadsHold, Task
  <2> QED
    BY <1>5, <2>3 DEF Join, MapInv, NoLeakedClaim, SelectiveRetry
<1>6. CASE Pin(j)
  <2>1. CASE ~(Registered(own[j]) /\ own[j] \in OnDemand)
    <3>1. ThreadsHold'
      BY <1>6, <2>1, MoveClaims DEF Pin, PC
    <3> QED
      BY <1>6, <2>1, <3>1 DEF Pin, MapInv, NoLeakedClaim, SelectiveRetry
  <2>2. CASE Registered(own[j]) /\ own[j] \in OnDemand
    BY <1>6, <2>2, PinClaims DEF Pin
  <2> QED
    BY <2>1, <2>2
<1>7. ASSUME NEW w \in OnDemand, Wait(j, w) PROVE MapInv'
  BY <1>7, PinClaims DEF Wait, Mark, Registered
<1>8. CASE MergeAssign(j)
  <2>1. /\ pc[j] = "merge"
        /\ \E label \in {"watch", "unmerged"} : pc' = [pc EXCEPT ![j] = label]
    BY <1>8 DEF MergeAssign
  <2>2. ThreadsHold'
    BY <1>8, <2>1, MoveClaims DEF MergeAssign, PC
  <2> QED
    BY <1>8, <2>2 DEF MergeAssign, MapInv, NoLeakedClaim, SelectiveRetry
<1>9. CASE MergePoll(j)
  <2>1. /\ pc[j] = "watch"
        /\ \E label \in {"merged", "unmerged"} : pc' = [pc EXCEPT ![j] = label]
    BY <1>9 DEF MergePoll
  <2>2. ThreadsHold'
    BY <1>9, <2>1, MoveClaims DEF MergePoll, PC
  <2> QED
    BY <1>9, <2>2 DEF MergePoll, MapInv, NoLeakedClaim, SelectiveRetry
<1>10. CASE MergeEnd(j)
  <2>1. /\ pc[j] \in {"merged", "unmerged"}
        /\ \E label \in {"cleanup", "failed"} : pc' = [pc EXCEPT ![j] = label]
    BY <1>10 DEF MergeEnd
  <2>2. \A x \in Job : pc'[x] = "claim" <=> pc[x] = "claim"
    BY <2>1 DEF TypeOK
  <2>3. ThreadsHold'
    BY <1>10, <2>1, <2>2 DEF MergeEnd, TypeOK, MapInv, ThreadsHold, Task
  <2>4. \A w \in Worker : registry'[w] = "BUSY" => registry[w] = "BUSY" /\ w # reducer[j]
    BY <1>10 DEF MergeEnd, TypeOK, Mark, Registered
  <2>5. NoLeakedClaim'
    BY <1>10, <2>4 DEF MergeEnd, TypeOK, MapInv, NoLeakedClaim
  <2> QED
    BY <1>10, <2>3, <2>5 DEF MergeEnd, MapInv, SelectiveRetry
<1>11. CASE Cleanup(j)
  <2>1. ThreadsHold'
    BY <1>11, MoveClaims DEF Cleanup, PC
  <2> QED
    BY <1>11, <2>1 DEF Cleanup, MapInv, NoLeakedClaim, SelectiveRetry
<1> QED
  BY <1>1, <1>2, <1>3, <1>4, <1>5, <1>6, <1>7, <1>8, <1>9, <1>10, <1>11 DEF ParentStep

\* Steps of a map thread.
LEMMA MapClaims ==
  ASSUME TypeOK, MapInv, NEW s \in Part, MapStep(s)
  PROVE  MapInv'
<1> USE DEF GotoMap
<1>1. spc[s] # "none"
  BY DEF MapStep, MapCheck, MapAssign, MapPoll, MapEnd
<1>2. PICK j \in Job, k \in Index : s = <<j, k>>
  BY DEF Part, Index
<1>3. s[1] = j
  BY <1>2
<1>4. pc[j] = "claim" /\ ~(k > splits[j]) /\ results[s] # "ok"
  BY <1>1, <1>2 DEF MapInv, ThreadsHold, SelectiveRetry
<1>5. \A x \in Job : \A a \in plan[x] : <<x, a[1]>> # s
  BY <1>1 DEF MapInv, ThreadsHold
<1>6. ASSUME NEW label, spc' = [spc EXCEPT ![s] = label], label # "none",
             UNCHANGED <<registry, execVars, splits, results, plan, reducer, on>>
      PROVE  MapInv'
  <2>1. spc'[s] = label /\ \A r \in Part \ {s} : spc'[r] = spc[r]
    BY <1>6 DEF TypeOK
  <2>2. \A r \in Part : spc'[r] = "none" <=> spc[r] = "none"
    BY <1>1, <1>6, <2>1
  <2>3. \A x \in Job, i \in Index : spc'[<<x, i>>] = "none" <=> spc[<<x, i>>] = "none"
    BY <2>2 DEF Part, Index
  <2>4. \A x \in Job : \A a \in plan[x] : a[1] \in Index
    BY DEF TypeOK
  <2>5. ThreadsHold'
    BY <1>6, <2>2, <2>3, <2>4 DEF MapInv, ThreadsHold
  <2> QED
    BY <1>6, <2>2, <2>5 DEF MapInv, NoLeakedClaim, SelectiveRetry
<1>7. CASE MapCheck(s)
  <2>1. \E label \in {"ok", "assign"} : spc' = [spc EXCEPT ![s] = label]
    BY <1>7 DEF MapCheck
  <2> QED
    BY <1>6, <1>7, <2>1 DEF MapCheck
<1>8. CASE MapAssign(s)
  <2>1. \E label \in {"poll", "failed"} : spc' = [spc EXCEPT ![s] = label]
    BY <1>8 DEF MapAssign
  <2> QED
    BY <1>6, <1>8, <2>1 DEF MapAssign
<1>9. CASE MapPoll(s)
  <2>1. \E label \in {"poll", "ok", "failed"} : spc' = [spc EXCEPT ![s] = label]
    BY <1>9 DEF MapPoll, TypeOK
  <2> QED
    BY <1>6, <1>9, <2>1 DEF MapPoll
<1>10. CASE MapEnd(s)
  <2>1. /\ spc' = [spc EXCEPT ![s] = "none"] /\ on' = [on EXCEPT ![s] = NoWorker]
        /\ results' = [results EXCEPT ![s] = spc[s]]
        /\ UNCHANGED <<pc, own, splits, plan, reducer>>
    BY <1>10 DEF MapEnd
  <2>2. \A r \in Part \ {s} : spc'[r] = spc[r] /\ on'[r] = on[r] /\ results'[r] = results[r]
    BY <2>1 DEF TypeOK
  <2>3. spc'[s] = "none" /\ on'[s] = NoWorker
    BY <2>1 DEF TypeOK
  <2>4. \A r \in Part : spc'[r] # "none" => r # s
    BY <2>3
  <2>5. \A x \in Job, i \in Index : spc[<<x, i>>] = "none" => spc'[<<x, i>>] = "none"
    BY <2>2, <2>3 DEF Part, Index
  <2>6. \A x \in Job : \A a \in plan[x] : results'[<<x, a[1]>>] = results[<<x, a[1]>>]
    BY <1>5, <2>1 DEF TypeOK
  <2>7. \A x \in Job : \A a \in plan[x] : a[1] \in Index
    BY DEF TypeOK
  <2>8. ThreadsHold'
    BY <2>1, <2>2, <2>3, <2>5, <2>6, <2>7 DEF MapInv, ThreadsHold
  <2>9. \A w \in Worker : registry'[w] = "BUSY" =>
          registry[w] = "BUSY" /\ (w = on[s] => own[j] = w)
    BY <1>3, <1>10 DEF MapEnd, TypeOK, Mark, Registered
  <2>10. NoLeakedClaim'
    BY <2>1, <2>2, <2>9 DEF MapInv, NoLeakedClaim, Task
  <2>11. SelectiveRetry'
    BY <2>2, <2>4 DEF MapInv, SelectiveRetry
  <2> QED
    BY <2>8, <2>10, <2>11 DEF MapInv
<1> QED
  BY <1>7, <1>8, <1>9, <1>10 DEF MapStep

\* Every step preserves the invariant: one case per thread.
LEMMA NextClaims == TypeOK /\ MapInv /\ [Next]_vars => MapInv'
<1> SUFFICES ASSUME TypeOK, MapInv, [Next]_vars PROVE MapInv'
  OBVIOUS
<1>1. ASSUME NEW t \in Task, NEW w \in Worker, Claim(t, w) PROVE MapInv'
  <2>1. pc[t] = "queued" /\ own[t] = NoWorker /\ own'[t] = w
    BY <1>1 DEF Claim, TypeOK, MapInv, ThreadsHold
  <2>2. \A x \in Task \ {t} : own'[x] = own[x] /\ pc'[x] = pc[x]
    BY <1>1 DEF Claim, TypeOK
  <2>3. pc'[t] = "spawned"
    BY <1>1 DEF Claim, TypeOK
  <2>4. \A x \in Job : /\ pc'[x] = "claim" <=> pc[x] = "claim"
                       /\ pc[x] \in {"merge", "watch", "merged", "unmerged"} <=>
                          pc'[x] \in {"merge", "watch", "merged", "unmerged"}
    BY <2>1, <2>2, <2>3 DEF Task
  <2>5. \A x \in Task : pc'[x] \in {"none", "queued", "done"} => own'[x] = NoWorker
    BY <2>2, <2>3 DEF MapInv, ThreadsHold
  <2>6. ThreadsHold'
    BY <1>1, <2>4, <2>5 DEF Claim, MapInv, ThreadsHold
  <2>7. \A x \in Worker : registry'[x] = "BUSY" => registry[x] = "BUSY" \/ x = w
    BY <1>1 DEF Claim, TypeOK
  <2>8. NoLeakedClaim'
    BY <1>1, <2>1, <2>2, <2>7, BoundAssumption DEF Claim, MapInv, NoLeakedClaim
  <2> QED
    BY <1>1, <2>6, <2>8 DEF Claim, MapInv, SelectiveRetry
<1>2. ASSUME NEW w \in Worker, Trained(w) \/ Averaged(w) \/ Breaks(w) PROVE MapInv'
  BY <1>2, ClaimsStutter DEF Trained, Averaged, Breaks
<1>3. CASE UNCHANGED vars
  BY <1>3, ClaimsStutter
<1> QED
  BY <1>1, <1>2, <1>3, HeadClaims, ExecutorClaims, ParentClaims, MapClaims DEF Next

\* The inductive invariant of the claims.
THEOREM MapInvariance == Spec => []MapInv
<1>1. TypeOK /\ MapInv /\ [Next]_vars => (TypeOK /\ MapInv)'
  BY NextType, NextClaims
<1>2. Init => TypeOK /\ MapInv
  BY InitType, InitClaims
<1> QED
  BY <1>1, <1>2, PTL DEF Spec

\* Whatever map threads, merges, executors and the scheduler overwrite, and
\* whichever workers are lost, a BUSY entry has a thread that will release it.
THEOREM NoClaimLeaked == Spec => []NoLeakedClaim
<1>1. MapInv => NoLeakedClaim
  BY DEF MapInv
<1> QED
  BY <1>1, MapInvariance, PTL

\* A retry never starts a subtask that has succeeded in this attempt of its job.
THEOREM RetriesAreSelective == Spec => []SelectiveRetry
<1>1. MapInv => SelectiveRetry
  BY DEF MapInv
<1> QED
  BY <1>1, MapInvariance, PTL

(***************************************************************************)
(* What a merge averages, as long as no worker is lost.                    *)
(***************************************************************************)

\* No worker leaves the registry.
NoLosses == MaxLosses = 0

\* No worker fails to save.
AllSave == FullDisk = {}

\* So every entry and every container stays, and no subtask is recovered.
AllThere ==
  /\ losses = 0 /\ victim = NoWorker
  /\ \A w \in Worker : Registered(w) /\ node[w] = "UP"
  /\ \A s \in Part : pc[s] = "none"

\* A map thread has a worker; a worker that trains a subtask is the one its map
\* thread polls; and a thread that is about to assign a subtask has found no final
\* weights.
TrainedOnce ==
  /\ \A s \in Part : spc[s] # "none" => on[s] \in Worker
  /\ \A w \in Worker, s \in Part :
       runner[w].task = s /\ runner[w].status = "RUNNING" => spc[s] = "poll" /\ on[s] = w
  /\ \A s \in Part : spc[s] = "assign" => s \notin final

\* Behind every success of a subtask outside the spot workers are its final
\* weights, until the job has removed them; all of them can be loaded.
Saved ==
  /\ torn = {}
  /\ \A s \in Part :
       \/ pc[s[1]] \in {"ok", "done"}
       \/ s \in final
       \/ /\ spc[s] = "ok" => on[s] \in Spot
          /\ results[s] = "ok" => by[s] \in Spot
          /\ \A w \in Worker :
               runner[w].task = s /\ runner[w].status = "SUCCESS" => w \in Spot

\* A job that merges has seen every subtask succeed.
AllSucceeded ==
  \A j \in Job : pc[j] \in {"pin", "wait", "merge", "watch"} =>
    \A s \in PartsOf(j) : results[s] = "ok"

\* A worker that averages does so for a job that waits for it, over all its subtasks.
MergesAreWatched ==
  \A w \in Worker : runner[w].status = "RUNNING" /\ runner[w].files # {} =>
    \E j \in Job : /\ pc[j] = "watch" /\ reducer[j] = w
                   /\ runner[w].task = j /\ runner[w].files = PartsOf(j)

\* What both results below rest on.
SkipInv == TypeOK /\ MapInv /\ AllThere /\ TrainedOnce

\* What a complete merge rests on, besides.
MergeInv == Saved /\ AllSucceeded /\ MergesAreWatched

\* The steps that are left.
LEMMA ReducedNext ==
  ASSUME NoLosses, TypeOK, AllThere, Next
  PROVE  \/ \E j \in Job, w \in Worker : Claim(j, w)
         \/ \E j \in Job : ExecutorStep(j)
         \/ \E j \in Job : ParentStep(j)
         \/ \E s \in Part : MapStep(s)
         \/ \E w \in Worker : Trained(w) \/ Averaged(w) \/ Breaks(w)
<1>1. ~Removal
  BY DEF NoLosses, AllThere, Removal, Dead, Evict, Vanish, ScaleInChoose, ScaleInStop,
         ScaleInDrop, Spot
<1>2. ~\E w \in Worker : Replace(w)
  BY DEF AllThere, Replace
<1>3. ASSUME NEW t \in Task, \/ ExecutorStep(t) \/ \E w \in Worker : Claim(t, w)
      PROVE  t \in Job
  <2>1. pc[t] # "none"
    BY <1>3 DEF ExecutorStep, Undivided, Assign, Poll, Release, Claim
  <2> QED
    BY <2>1 DEF AllThere, Task
<1> QED
  BY <1>1, <1>2, <1>3 DEF Next

\* A job is not a subtask, and a subtask belongs to a job.
LEMMA JobOrPart ==
  /\ \A j \in Job : j \in Task /\ j \notin Part
  /\ \A s \in Part : s \in Task /\ s \notin Job /\ s[1] \in Job
  BY BoundAssumption DEF Task, Part

\* Writing an entry that is there does not remove any.
LEMMA MarkKeeps ==
  ASSUME TypeOK, AllThere, NEW x, NEW status \in {"IDLE", "BUSY"}
  PROVE  \A w \in Worker : Mark(x, status)[w] # "ABSENT"
  BY DEF TypeOK, AllThere, Mark, Registered

\* Nothing leaves.
LEMMA AllThereKept ==
  ASSUME NoLosses, TypeOK, AllThere, [Next]_vars
  PROVE  AllThere'
<1> USE DEF Goto, GotoMap
<1> HIDE DEF vars
<1>1. ASSUME UNCHANGED <<losses, victim, node>>,
             \A w \in Worker : registry'[w] # "ABSENT",
             NEW j \in Job, \E label : pc' = [pc EXCEPT ![j] = label]
      PROVE  AllThere'
  BY <1>1, JobOrPart DEF TypeOK, AllThere, Registered
<1>2. ASSUME UNCHANGED <<losses, victim, node, pc>>,
             \A w \in Worker : registry'[w] # "ABSENT"
      PROVE  AllThere'
  BY <1>2 DEF AllThere, Registered
<1>3. \A w \in Worker : registry[w] # "ABSENT"
  BY DEF AllThere, Registered
<1>4. ASSUME NEW j \in Job, NEW w \in Worker, Claim(j, w) PROVE AllThere'
  <2>1. \A x \in Worker : registry'[x] # "ABSENT"
    BY <1>3, <1>4 DEF Claim, TypeOK
  <2> QED
    BY <1>1, <1>4, <2>1 DEF Claim
<1>5. ASSUME NEW j \in Job, ExecutorStep(j) PROVE AllThere'
  <2>1. CASE Undivided(j)
    BY <1>1, <2>1, MarkKeeps DEF Undivided
  <2>2. CASE Assign(j)
    BY <1>1, <1>3, <2>2 DEF Assign
  <2>3. CASE Poll(j)
    <3>1. pc' = pc \/ \E label : pc' = [pc EXCEPT ![j] = label]
      BY <2>3 DEF Poll
    <3> QED
      BY <1>1, <1>2, <1>3, <2>3, <3>1 DEF Poll
  <2>4. CASE Release(j)
    BY <1>1, <2>4, MarkKeeps DEF Release
  <2> QED
    BY <1>5, <2>1, <2>2, <2>3, <2>4 DEF ExecutorStep
<1>6. ASSUME NEW j \in Job, ParentStep(j) PROVE AllThere'
  <2>1. UNCHANGED <<losses, victim, node>>
    BY <1>6 DEF ParentStep, Split, Attempt, EndAttempts, StartMap, Join, Pin, Wait,
                MergeAssign, MergePoll, MergeEnd, Cleanup
  <2>2. pc' = pc \/ \E label : pc' = [pc EXCEPT ![j] = label]
    BY <1>6 DEF ParentStep, Split, Attempt, EndAttempts, StartMap, Join, Pin, Wait,
                MergeAssign, MergePoll, MergeEnd, Cleanup
  <2>3. \/ registry' = registry
        \/ \E w \in Worker \cup {NoWorker}, status \in {"IDLE", "BUSY"} :
             registry' = Mark(w, status)
    <3>1. CASE StartMap(j)
      BY <3>1 DEF StartMap, TypeOK
    <3>2. CASE Pin(j)
      BY <3>2, JobOrPart DEF Pin, TypeOK
    <3>3. ASSUME NEW w \in OnDemand, Wait(j, w) PROVE registry' = Mark(w, "BUSY")
      BY <3>3 DEF Wait, Mark, Registered
    <3>4. CASE MergeEnd(j)
      BY <3>4, BoundAssumption DEF MergeEnd, TypeOK
    <3>5. \/ registry' = registry \/ StartMap(j) \/ Pin(j) \/ MergeEnd(j)
          \/ \E w \in OnDemand : Wait(j, w)
      BY <1>6 DEF ParentStep, Split, Attempt, EndAttempts, Join, MergeAssign, MergePoll, Cleanup
    <3> QED
      BY <3>1, <3>2, <3>3, <3>4, <3>5, BoundAssumption
  <2>4. \A w \in Worker : registry'[w] # "ABSENT"
    BY <1>3, <2>3, MarkKeeps
  <2> QED
    BY <1>1, <1>2, <2>1, <2>2, <2>4
<1>7. ASSUME NEW s \in Part, MapStep(s) PROVE AllThere'
  <2>1. registry' = registry \/ registry' = Mark(on[s], "IDLE")
    BY <1>7 DEF MapStep, MapCheck, MapAssign, MapPoll, MapEnd
  <2>2. \A w \in Worker : registry'[w] # "ABSENT"
    BY <1>3, <2>1, MarkKeeps
  <2> QED
    BY <1>2, <1>7, <2>2 DEF MapStep, MapCheck, MapAssign, MapPoll, MapEnd
<1>8. ASSUME NEW w \in Worker, Trained(w) \/ Averaged(w) \/ Breaks(w) PROVE AllThere'
  BY <1>2, <1>3, <1>8 DEF Trained, Averaged, Breaks
<1>9. CASE UNCHANGED vars
  BY <1>2, <1>3, <1>9 DEF vars
<1> QED
  BY <1>4, <1>5, <1>6, <1>7, <1>8, <1>9, ReducedNext

\* A step in which no map thread moves, no worker starts a subtask and no final
\* weights appear.
LEMMA OnceKept ==
  ASSUME TrainedOnce, UNCHANGED mapVars, final' \subseteq final,
         \A w \in Worker : \/ runner'[w] = runner[w]
                           \/ runner'[w].task \notin Part
                           \/ runner'[w].status # "RUNNING"
  PROVE  TrainedOnce'
  BY DEF TrainedOnce

\* A worker that starts a job trains no subtask.
LEMMA StartsJob ==
  ASSUME TypeOK, NEW w, NEW j \in Job, NEW files, Start(w, j, files)
  PROVE  \A x \in Worker : runner'[x] = runner[x] \/ runner'[x].task \notin Part
  BY JobOrPart DEF TypeOK, Start

\* The end of a run: nothing but the status of that worker changes.
LEMMA RunEnds ==
  ASSUME TypeOK, NEW w \in Worker, Trained(w) \/ Averaged(w) \/ Breaks(w)
  PROVE  /\ runner'[w].status \in {"SUCCESS", "FAILED"}
         /\ runner'[w].task = runner[w].task /\ runner'[w].files = runner[w].files
         /\ \A x \in Worker \ {w} : runner'[x] = runner[x]
<1>1. PICK result \in {"SUCCESS", "FAILED"} :
        runner' = [runner EXCEPT ![w].status = result]
  BY DEF Trained, Averaged, Breaks
<1>2. runner[w] \in Run
  BY DEF TypeOK
<1>3. runner'[w] = [runner[w] EXCEPT !.status = result]
  BY <1>1 DEF TypeOK
<1>4. \A x \in Worker \ {w} : runner'[x] = runner[x]
  BY <1>1 DEF TypeOK
<1> QED
  BY <1>2, <1>3, <1>4 DEF Run

\* Training, and looking for finished weights, exclude each other.
LEMMA TrainedOnceKept ==
  ASSUME NoLosses, TypeOK, MapInv, AllThere, TrainedOnce, [Next]_vars
  PROVE  TrainedOnce'
<1> USE DEF GotoMap
<1>1. ASSUME NEW j \in Job, NEW w \in Worker, Claim(j, w) PROVE TrainedOnce'
  BY <1>1, OnceKept DEF Claim
<1>2. ASSUME NEW j \in Job, ExecutorStep(j) PROVE TrainedOnce'
  <2>1. CASE Assign(j)
    <3>1. \A x \in Worker : runner'[x] = runner[x] \/ runner'[x].task \notin Part
      BY <2>1, StartsJob DEF Assign
    <3> QED
      BY <2>1, <3>1, OnceKept DEF Assign
  <2>2. CASE Undivided(j) \/ Poll(j) \/ Release(j)
    BY <2>2, OnceKept DEF Undivided, Poll, Release, Remove
  <2> QED
    BY <1>2, <2>1, <2>2 DEF ExecutorStep
<1>3. ASSUME NEW j \in Job, ParentStep(j) PROVE TrainedOnce'
  <2>1. CASE MergeAssign(j)
    <3>1. \A x \in Worker : runner'[x] = runner[x] \/ runner'[x].task \notin Part
      BY <2>1, StartsJob DEF MergeAssign
    <3> QED
      BY <2>1, <3>1, OnceKept DEF MergeAssign
  <2>2. CASE StartMap(j)
    <3>1. PICK a \in plan[j] :
            /\ spc' = [spc EXCEPT ![<<j, a[1]>>] = "check"]
            /\ on' = [on EXCEPT ![<<j, a[1]>>] = a[2]]
      BY <2>2 DEF StartMap
    <3>2. spc[<<j, a[1]>>] = "none"
      BY DEF MapInv, ThreadsHold
    <3>3. UNCHANGED <<runner, final>>
      BY <2>2 DEF StartMap
    <3>4. \A s \in Part : s # <<j, a[1]>> => spc'[s] = spc[s] /\ on'[s] = on[s]
      BY <3>1 DEF TypeOK
    <3>5. \A s \in Part : s = <<j, a[1]>> => spc'[s] = "check" /\ on'[s] = a[2]
      BY <3>1 DEF TypeOK
    <3>6. a[2] \in Worker
      BY DEF TypeOK
    <3> QED
      BY <3>2, <3>3, <3>4, <3>5, <3>6 DEF TrainedOnce
  <2>3. \/ MergeAssign(j) \/ StartMap(j) \/ UNCHANGED <<mapVars, runner, final>> \/ Cleanup(j)
    BY <1>3 DEF ParentStep, Split, Attempt, EndAttempts, Join, Pin, Wait, MergePoll, MergeEnd
  <2>4. CASE Cleanup(j)
    BY <2>4, OnceKept DEF Cleanup, Remove
  <2> QED
    BY <2>1, <2>2, <2>3, <2>4, OnceKept
<1>4. ASSUME NEW s \in Part, MapStep(s) PROVE TrainedOnce'
  <2>1. on[s] \in Worker \cup {NoWorker}
    BY DEF TypeOK
  <2>2. \A r \in Part \ {s} : spc'[r] = spc[r] /\ on'[r] = on[r]
    BY <1>4 DEF MapStep, MapCheck, MapAssign, MapPoll, MapEnd, TypeOK
  <2>3. final' = final
    BY <1>4 DEF MapStep, MapCheck, MapAssign, MapPoll, MapEnd
  <2> DEFINE OnWorker == \A r \in Part : spc[r] # "none" => on[r] \in Worker
  <2>8. OnWorker'
    <3>1. spc'[s] # "none" => spc[s] # "none" /\ on'[s] = on[s]
      BY <1>4 DEF MapStep, MapCheck, MapAssign, MapPoll, MapEnd, TypeOK
    <3> QED
      BY <2>2, <3>1 DEF TrainedOnce
  <2>4. CASE MapCheck(s)
    <3>1. runner' = runner /\ spc[s] = "check" /\ (spc'[s] = "assign" => s \notin final)
      BY <2>4 DEF MapCheck, TypeOK
    <3> QED
      BY <2>2, <2>3, <2>8, <3>1 DEF TrainedOnce
  <2>5. CASE MapAssign(s)
    <3>1. spc[s] = "assign" /\ on' = on
      BY <2>5 DEF MapAssign
    <3>2. \A w \in Worker : runner[w].task = s => runner[w].status # "RUNNING"
      BY <3>1 DEF TrainedOnce
    <3>3. CASE runner' = runner /\ spc' = [spc EXCEPT ![s] = "failed"]
      <4>1. spc'[s] = "failed"
        BY <3>3 DEF TypeOK
      <4> QED
        BY <2>2, <2>3, <2>8, <3>2, <3>3, <4>1 DEF TrainedOnce
    <3>4. CASE Start(on[s], s, {}) /\ spc' = [spc EXCEPT ![s] = "poll"]
      <4>1. spc'[s] = "poll"
        BY <3>4 DEF TypeOK
      <4>2. \A w \in Worker : IF w = on[s] THEN runner'[w].task = s
                                           ELSE runner'[w] = runner[w]
        BY <3>4 DEF TypeOK, Start
      <4>3. \A w \in Worker, r \in Part :
              runner'[w].task = r /\ runner'[w].status = "RUNNING"
                => spc'[r] = "poll" /\ on'[r] = w
        <5> SUFFICES ASSUME NEW w \in Worker, NEW r \in Part,
                            runner'[w].task = r, runner'[w].status = "RUNNING"
                     PROVE  spc'[r] = "poll" /\ on'[r] = w
          OBVIOUS
        <5>1. CASE w = on[s]
          BY <3>1, <4>1, <4>2, <5>1
        <5>2. CASE w # on[s]
          BY <2>2, <3>1, <3>2, <4>2, <5>2 DEF TrainedOnce
        <5> QED
          BY <5>1, <5>2
      <4>4. \A r \in Part : spc'[r] = "assign" => r \notin final'
        BY <2>2, <2>3, <4>1 DEF TrainedOnce
      <4> QED
        BY <2>8, <4>3, <4>4 DEF TrainedOnce
    <3> QED
      BY <2>5, <3>3, <3>4 DEF MapAssign
  <2>6. CASE MapPoll(s)
    <3>1. spc[s] = "poll" /\ on' = on /\ runner' = runner
      BY <2>6 DEF MapPoll
    <3>2. CASE Answer(on[s], s) \in {"SUCCESS", "FAILED"}
      <4>1. spc'[s] \in {"ok", "failed"}
        BY <2>6, <3>2 DEF MapPoll, TypeOK
      <4>2. on[s] \in Worker => ~(runner[on[s]].task = s /\ runner[on[s]].status = "RUNNING")
        BY <3>2 DEF Answer, AllThere
      <4>3. \A w \in Worker : ~(runner[w].task = s /\ runner[w].status = "RUNNING")
        BY <4>2 DEF TrainedOnce
      <4> QED
        BY <2>2, <2>3, <3>1, <4>1, <4>3 DEF TrainedOnce
    <3>3. CASE Answer(on[s], s) \notin {"SUCCESS", "FAILED"}
      BY <2>3, <2>6, <3>1, <3>3 DEF MapPoll, TrainedOnce
    <3> QED
      BY <3>2, <3>3
  <2>7. CASE MapEnd(s)
    <3>1. spc[s] \in {"ok", "failed"} /\ spc'[s] = "none" /\ runner' = runner
      BY <2>7 DEF MapEnd, TypeOK
    <3>2. \A w \in Worker : ~(runner[w].task = s /\ runner[w].status = "RUNNING")
      BY <3>1 DEF TrainedOnce
    <3> QED
      BY <2>2, <2>3, <3>1, <3>2 DEF TrainedOnce
  <2> QED
    BY <1>4, <2>4, <2>5, <2>6, <2>7 DEF MapStep
<1>5. ASSUME NEW w \in Worker, Trained(w) \/ Averaged(w) \/ Breaks(w) PROVE TrainedOnce'
  <2>1. \A x \in Worker : runner'[x] = runner[x] \/ runner'[x].status # "RUNNING"
    BY <1>5, RunEnds
  <2>2. \A s \in Part : s \in final' => s \in final \/ spc[s] = "poll"
    BY <1>5 DEF Trained, Averaged, Breaks, TrainedOnce, Save, SaveFails
  <2>3. UNCHANGED mapVars
    BY <1>5 DEF Trained, Averaged, Breaks
  <2> QED
    BY <2>1, <2>2, <2>3 DEF TrainedOnce
<1>6. CASE UNCHANGED vars
  BY <1>6, OnceKept
<1> QED
  BY <1>1, <1>2, <1>3, <1>4, <1>5, <1>6, ReducedNext

\* All of it at the start.
LEMMA InitSkip == ASSUME Init PROVE AllThere /\ TrainedOnce /\ MergeInv
<1>1. AllThere
  BY JobOrPart DEF Init, AllThere, Registered
<1>2. TrainedOnce
  BY DEF Init, TrainedOnce, NoRun
<1>3. Saved
  BY DEF Init, Saved, NoRun
<1>4. AllSucceeded
  BY JobOrPart DEF Init, AllSucceeded
<1>5. MergesAreWatched
  BY DEF Init, MergesAreWatched, NoRun
<1> QED
  BY <1>1, <1>2, <1>3, <1>4, <1>5 DEF MergeInv

\* A worker begins to train a subtask only if its weights are not there.
LEMMA SkipStep ==
  ASSUME NoLosses, SkipInv, [Next]_vars, NEW w \in Worker,
         runner'[w].task \in final, runner'[w].status = "RUNNING"
  PROVE  runner[w] = runner'[w]
<1> USE DEF SkipInv
<1> HIDE DEF vars
<1>1. runner'[w].task \in Part
  BY DEF TypeOK
<1>2. ASSUME NEW j \in Job, ExecutorStep(j) PROVE runner[w] = runner'[w]
  <2>1. UNCHANGED runner \/ Start(own[j], j, {})
    BY <1>2 DEF ExecutorStep, Undivided, Assign, Poll, Release, nodeVars
  <2> QED
    BY <1>1, <2>1, StartsJob
<1>3. ASSUME NEW j \in Job, ParentStep(j) PROVE runner[w] = runner'[w]
  <2>1. UNCHANGED runner \/ Start(reducer[j], j, PartsOf(j))
    BY <1>3 DEF ParentStep, Split, Attempt, EndAttempts, StartMap, Join, Pin, Wait,
                MergeAssign, MergePoll, MergeEnd, Cleanup
  <2> QED
    BY <1>1, <2>1, StartsJob
<1>4. ASSUME NEW s \in Part, MapStep(s) PROVE runner[w] = runner'[w]
  <2>1. UNCHANGED runner \/ (spc[s] = "assign" /\ Start(on[s], s, {}))
    BY <1>4 DEF MapStep, MapCheck, MapAssign, MapPoll, MapEnd
  <2>2. CASE spc[s] = "assign" /\ Start(on[s], s, {})
    <3>1. s \notin final
      BY <2>2 DEF TrainedOnce
    <3>2. w = on[s] => runner'[w].task = s
      BY <2>2 DEF Start, TypeOK
    <3> QED
      BY <2>2, <3>1, <3>2 DEF Start, TypeOK
  <2> QED
    BY <2>1, <2>2
<1>5. ASSUME NEW x \in Worker, Trained(x) \/ Averaged(x) \/ Breaks(x)
      PROVE  runner[w] = runner'[w]
  BY <1>5, RunEnds
<1>6. ASSUME NEW j \in Job, NEW x \in Worker, Claim(j, x) PROVE runner[w] = runner'[w]
  BY <1>6 DEF Claim
<1>7. CASE UNCHANGED vars
  BY <1>7 DEF vars
<1> QED
  BY <1>2, <1>3, <1>4, <1>5, <1>6, <1>7, ReducedNext

\* The invariant, for any number of jobs, workers and retries.
LEMMA SkipInvariance == ASSUME NoLosses PROVE Spec => []SkipInv
<1>1. Init => SkipInv
  BY InitType, InitClaims, InitSkip DEF SkipInv
<1>2. SkipInv /\ [Next]_vars => SkipInv'
  BY NextType, NextClaims, AllThereKept, TrainedOnceKept DEF SkipInv
<1> QED
  BY <1>1, <1>2, PTL DEF Spec

\* Skip-Execution (project_proposal.md:290): as long as no worker is lost, a
\* subtask whose final weights exist is not trained again, however map threads,
\* retries and other jobs interleave, and whichever workers fail to save.
THEOREM FinishedIsSkipped == ASSUME NoLosses PROVE Spec => SkipsFinished
<1>1. SkipInv /\ [Next]_vars =>
        [\A w \in Worker : runner'[w].task \in final /\ runner'[w].status = "RUNNING"
                             => runner[w] = runner'[w]]_vars
  BY SkipStep
<1> QED
  BY <1>1, SkipInvariance, PTL DEF Spec, SkipsFinished

(***************************************************************************)
(* Complete merges.                                                        *)
(***************************************************************************)

\* The subtasks of a job are subtasks.
LEMMA PartsType == ASSUME TypeOK, NEW j \in Job PROVE PartsOf(j) \subseteq Part
  BY BoundAssumption DEF PartsOf, TypeOK, Part

\* A step in which nothing succeeds without weights, none are removed but by a
\* job that ends with it, and no job that has ended goes on.
LEMMA SavedKept ==
  ASSUME TypeOK, Saved, torn' = {},
         \A j \in Job : pc[j] \in {"ok", "done"} => pc'[j] \in {"ok", "done"},
         \A s \in Part : s \in final => s \in final' \/ pc'[s[1]] = "ok",
         \A s \in Part :
           spc'[s] = "ok" => \/ spc[s] = "ok" /\ on'[s] = on[s]
                             \/ s \in final'
                             \/ \E w \in Worker : /\ on'[s] = w /\ runner[w].task = s
                                                 /\ runner[w].status = "SUCCESS",
         \A s \in Part :
           results'[s] = "ok" => \/ results[s] = "ok" /\ by'[s] = by[s]
                                 \/ spc[s] = "ok" /\ by'[s] = on[s],
         \A s \in Part, w \in Worker :
           runner'[w].task = s /\ runner'[w].status = "SUCCESS" =>
             \/ s \in final' \/ w \in Spot
             \/ runner[w].task = s /\ runner[w].status = "SUCCESS"
  PROVE  Saved'
<1> SUFFICES ASSUME NEW s \in Part, pc'[s[1]] \notin {"ok", "done"}, s \notin final'
             PROVE  /\ spc'[s] = "ok" => on'[s] \in Spot
                    /\ results'[s] = "ok" => by'[s] \in Spot
                    /\ \A w \in Worker :
                         runner'[w].task = s /\ runner'[w].status = "SUCCESS" => w \in Spot
  BY DEF Saved
<1>1. pc[s[1]] \notin {"ok", "done"} /\ s \notin final
  BY JobOrPart
<1>2. /\ spc[s] = "ok" => on[s] \in Spot
      /\ results[s] = "ok" => by[s] \in Spot
      /\ \A w \in Worker :
           runner[w].task = s /\ runner[w].status = "SUCCESS" => w \in Spot
  BY <1>1 DEF Saved
<1> QED
  BY <1>2

\* What a worker starts has not succeeded.
LEMMA StartsRunning ==
  ASSUME TypeOK, NEW w, NEW t, NEW files, Start(w, t, files)
  PROVE  \A x \in Worker : \/ runner'[x] = runner[x]
                           \/ /\ x = w /\ runner'[x].status = "RUNNING"
                              /\ runner'[x].task = t /\ runner'[x].files = files
  BY DEF TypeOK, Start

\* A thread that moves changes no other.
LEMMA GotoMoves ==
  ASSUME TypeOK, NEW t \in Task, NEW label, Goto(t, label)
  PROVE  pc'[t] = label /\ \A x \in Task \ {t} : pc'[x] = pc[x]
  BY DEF TypeOK, Goto

\* Success means saved weights.
LEMMA SavedStep ==
  ASSUME NoLosses, AllSave, SkipInv, MergeInv, [Next]_vars
  PROVE  Saved'
<1> USE DEF SkipInv, MergeInv
<1> \A j \in Job : j \in Task
  BY JobOrPart
<1>0. torn = {} /\ Sharing = OnDemand
  BY DEF Saved, Sharing
<1>1. ASSUME UNCHANGED <<pc, results, by, mapVars, runner, fileVars>> PROVE Saved'
  BY <1>1 DEF Saved
<1>2. ASSUME NEW j \in Job, NEW w \in Worker, Claim(j, w) PROVE Saved'
  <2>1. \A i \in Job : pc[i] \in {"ok", "done"} => pc'[i] = pc[i]
    BY <1>2 DEF Claim, TypeOK
  <2> QED
    BY <1>0, <1>2, <2>1, SavedKept DEF Claim
<1>3. ASSUME NEW j \in Job, NEW label, Goto(j, label),
             pc[j] \notin {"ok", "done"},
             UNCHANGED <<results, by, mapVars, fileVars>>,
             UNCHANGED runner \/ \E w, t, files : Start(w, t, files)
      PROVE  Saved'
  <2>1. \A i \in Job : pc[i] \in {"ok", "done"} => pc'[i] = pc[i]
    BY <1>3, GotoMoves
  <2>2. \A x \in Worker : runner'[x] = runner[x] \/ runner'[x].status = "RUNNING"
    BY <1>3, StartsRunning
  <2>3. \A s \in Part, x \in Worker :
          runner'[x].task = s /\ runner'[x].status = "SUCCESS" =>
            runner[x].task = s /\ runner[x].status = "SUCCESS"
    BY <2>2
  <2> QED
    BY <1>0, <1>3, <2>1, <2>3, SavedKept
<1>4. ASSUME NEW j \in Job, ExecutorStep(j) PROVE Saved'
  <2>1. CASE Undivided(j)
    BY <1>3, <2>1 DEF Undivided
  <2>2. CASE Assign(j)
    <3>1. pc[j] = "assign" /\ UNCHANGED <<results, by, mapVars, fileVars>>
      BY <2>2 DEF Assign
    <3>2. CASE Accepts(own[j])
      <4>1. Goto(j, "poll") /\ Start(own[j], j, {})
        BY <2>2, <3>2 DEF Assign
      <4> QED
        BY <1>3, <3>1, <4>1
    <3>3. CASE ~Accepts(own[j])
      <4>1. Goto(j, "failed") /\ UNCHANGED runner
        BY <2>2, <3>3 DEF Assign
      <4> QED
        BY <1>3, <3>1, <4>1
    <3> QED
      BY <3>2, <3>3
  <2>3. CASE Poll(j)
    <3>1. UNCHANGED fileVars
      <4>1. final \ {j} = final /\ torn \ {j} = torn
        BY JobOrPart DEF TypeOK
      <4> QED
        BY <2>3, <4>1 DEF Poll, Remove
    <3>2. pc' = pc \/ Goto(j, "ok") \/ Goto(j, "failed")
      BY <2>3 DEF Poll
    <3>3. UNCHANGED <<results, by, mapVars, runner>> /\ pc[j] \notin {"ok", "done"}
      BY <2>3 DEF Poll
    <3> QED
      BY <1>1, <1>3, <3>1, <3>2, <3>3
  <2>4. CASE Release(j)
    <3>1. UNCHANGED <<mapVars, runner, fileVars>>
      BY <2>4 DEF Release
    <3>2. \A s \in Part : results'[s] = "ok" => results[s] = "ok" /\ by'[s] = by[s]
      BY <2>4 DEF Release
    <3>3. pc[j] = "ok" => Goto(j, "done")
      BY <2>4 DEF Release
    <3>4. pc[j] \in {"ok", "failed"} /\ \E label : Goto(j, label)
      BY <2>4 DEF Release
    <3>5. \A i \in Job : pc[i] \in {"ok", "done"} => pc'[i] \in {"ok", "done"}
      BY <3>3, <3>4, GotoMoves
    <3> QED
      BY <1>0, <3>1, <3>2, <3>5, SavedKept
  <2> QED
    BY <1>4, <2>1, <2>2, <2>3, <2>4 DEF ExecutorStep
<1>5. ASSUME NEW j \in Job, ParentStep(j) PROVE Saved'
  <2>1. CASE Split(j)
    BY <1>3, <2>1 DEF Split
  <2>2. CASE Attempt(j)
    <3>1. UNCHANGED <<results, by, mapVars, runner, fileVars>> /\ pc[j] = "attempt"
      BY <2>2 DEF Attempt
    <3>2. pc' = pc \/ Goto(j, "claim")
      BY <2>2 DEF Attempt
    <3> QED
      BY <1>1, <1>3, <3>1, <3>2
  <2>3. CASE EndAttempts(j)
    BY <1>3, <2>3 DEF EndAttempts
  <2>4. CASE StartMap(j)
    <3>1. UNCHANGED <<pc, results, by, runner, fileVars>>
      BY <2>4 DEF StartMap
    <3>2. PICK a \in plan[j] : /\ spc' = [spc EXCEPT ![<<j, a[1]>>] = "check"]
                               /\ on' = [on EXCEPT ![<<j, a[1]>>] = a[2]]
      BY <2>4 DEF StartMap
    <3>3. \A s \in Part : spc'[s] = "ok" => spc[s] = "ok" /\ on'[s] = on[s]
      BY <3>2 DEF TypeOK
    <3> QED
      BY <1>0, <3>1, <3>3, SavedKept
  <2>5. CASE Join(j)
    BY <1>3, <2>5 DEF Join
  <2>6. CASE Pin(j)
    BY <1>3, <2>6 DEF Pin
  <2>7. ASSUME NEW w \in OnDemand, Wait(j, w) PROVE Saved'
    BY <1>3, <2>7 DEF Wait
  <2>8. CASE MergeAssign(j)
    BY <1>3, <2>8 DEF MergeAssign
  <2>9. CASE MergePoll(j)
    BY <1>3, <2>9 DEF MergePoll
  <2>10. CASE MergeEnd(j)
    BY <1>3, <2>10 DEF MergeEnd
  <2>11. CASE Cleanup(j)
    <3>1. UNCHANGED <<results, by, mapVars, runner>> /\ torn' = {}
      BY <1>0, <2>11 DEF Cleanup, Remove
    <3>2. pc'[j] = "ok" /\ \A i \in Job : pc[i] \in {"ok", "done"} => pc'[i] = pc[i]
      BY <2>11, GotoMoves DEF Cleanup
    <3>3. \A s \in Part : s \in final => s \in final' \/ s[1] = j
      BY <2>11 DEF Cleanup, Remove, PartsOf
    <3> QED
      BY <3>1, <3>2, <3>3, SavedKept
  <2> QED
    BY <1>5, <2>1, <2>2, <2>3, <2>4, <2>5, <2>6, <2>7, <2>8, <2>9, <2>10, <2>11 DEF ParentStep
<1>6. ASSUME NEW s \in Part, MapStep(s) PROVE Saved'
  <2>1. UNCHANGED <<pc, fileVars>>
    BY <1>6 DEF MapStep, MapCheck, MapAssign, MapPoll, MapEnd
  <2>2. \A r \in Part \ {s} : 
          spc'[r] = spc[r] /\ results'[r] = results[r] /\ on'[r] = on[r] /\ by'[r] = by[r]
    BY <1>6 DEF MapStep, MapCheck, MapAssign, MapPoll, MapEnd, GotoMap, TypeOK
  <2>3. \A x \in Worker : runner'[x] = runner[x] \/ runner'[x].status = "RUNNING"
    BY <1>6, StartsRunning DEF MapStep, MapCheck, MapAssign, MapPoll, MapEnd
  <2>4. results'[s] = "ok" => \/ results[s] = "ok" /\ by'[s] = by[s]
                              \/ spc[s] = "ok" /\ by'[s] = on[s]
    BY <1>6 DEF MapStep, MapCheck, MapAssign, MapPoll, MapEnd, TypeOK
  <2>5. spc'[s] = "ok" => \/ spc[s] = "ok" /\ on'[s] = on[s]
                          \/ s \in final
                          \/ \E w \in Worker : /\ on'[s] = w /\ runner[w].task = s
                                              /\ runner[w].status = "SUCCESS"
    <3>1. CASE MapCheck(s)
      BY <3>1 DEF MapCheck, GotoMap, TypeOK
    <3>2. CASE MapAssign(s)
      BY <3>2 DEF MapAssign, GotoMap, TypeOK
    <3>3. CASE MapPoll(s)
      <4>1. spc'[s] = "ok" => Answer(on[s], s) = "SUCCESS"
        BY <3>3 DEF MapPoll, GotoMap, TypeOK
      <4>2. spc[s] = "poll"
        BY <3>3 DEF MapPoll
      <4>3. Answer(on[s], s) = "SUCCESS" =>
              runner[on[s]].task = s /\ runner[on[s]].status = "SUCCESS"
        BY DEF Answer
      <4>4. on[s] \in Worker /\ on' = on
        BY <3>3, <4>2 DEF TrainedOnce, MapPoll
      <4> QED
        BY <4>1, <4>3, <4>4
    <3>4. CASE MapEnd(s)
      BY <3>4 DEF MapEnd, GotoMap, TypeOK
    <3> QED
      BY <1>6, <3>1, <3>2, <3>3, <3>4 DEF MapStep
  <2>6. \A r \in Part, x \in Worker :
          runner'[x].task = r /\ runner'[x].status = "SUCCESS" =>
            runner[x].task = r /\ runner[x].status = "SUCCESS"
    BY <2>3
  <2> QED
    BY <1>0, <2>1, <2>2, <2>4, <2>5, <2>6, SavedKept
<1>7. ASSUME NEW w \in Worker, Trained(w) \/ Averaged(w) \/ Breaks(w) PROVE Saved'
  <2>1. UNCHANGED <<pc, results, by, mapVars>> /\ final \subseteq final' /\ torn' = {}
    BY <1>0, <1>7 DEF Trained, Averaged, Breaks, Save, AllSave
  <2>2. runner'[w].task \in Part /\ runner'[w].status = "SUCCESS" =>
          runner'[w].task \in final' \/ w \in Spot
    <3>1. CASE Trained(w)
      BY <1>0, <1>7, <3>1, RunEnds DEF AllSave, Trained, Save, Spot
    <3>2. CASE Averaged(w)
      <4>1. runner[w].task \in Job
        BY <3>2 DEF Averaged, MergesAreWatched
      <4> QED
        BY <1>7, <4>1, RunEnds, JobOrPart
    <3>3. CASE Breaks(w)
      BY <3>3 DEF Breaks, TypeOK
    <3> QED
      BY <1>7, <3>1, <3>2, <3>3
  <2>3. \A s \in Part, x \in Worker :
          runner'[x].task = s /\ runner'[x].status = "SUCCESS" =>
             \/ s \in final' \/ x \in Spot
             \/ runner[x].task = s /\ runner[x].status = "SUCCESS"
    BY <1>7, <2>2, RunEnds
  <2> QED
    BY <2>1, <2>3, SavedKept
<1>8. CASE UNCHANGED vars
  BY <1>1, <1>8
<1> QED
  BY <1>2, <1>4, <1>5, <1>6, <1>7, <1>8, ReducedNext

\* Where a job that merges is.
Merging == {"pin", "wait", "merge", "watch"}

\* A job starts to merge when no subtask is left, and what it has seen stands.
LEMMA AllSucceededStep ==
  ASSUME NoLosses, SkipInv, AllSucceeded, [Next]_vars
  PROVE  AllSucceeded'
<1> USE DEF SkipInv, Merging
<1> \A j \in Job : j \in Task
  BY JobOrPart
<1>1. ASSUME \A j \in Job : pc'[j] \in Merging =>
               /\ pc[j] \in Merging /\ splits'[j] = splits[j]
               /\ \A s \in PartsOf(j) : results'[s] = results[s]
      PROVE  AllSucceeded'
  BY <1>1 DEF AllSucceeded, PartsOf
<1>2. ASSUME NEW j \in Job, NEW w \in Worker, Claim(j, w) PROVE AllSucceeded'
  BY <1>1, <1>2 DEF Claim, TypeOK
<1>3. ASSUME NEW j \in Job, NEW label, Goto(j, label),
             label \in Merging => pc[j] \in Merging,
             UNCHANGED <<results, splits>>
      PROVE  AllSucceeded'
  BY <1>1, <1>3, GotoMoves
<1>4. ASSUME UNCHANGED <<pc, results, splits>> PROVE AllSucceeded'
  BY <1>1, <1>4
<1>5. ASSUME NEW j \in Job, ExecutorStep(j) PROVE AllSucceeded'
  <2>1. CASE Release(j)
    <3>1. /\ pc'[j] \notin Merging
          /\ \A i \in Job \ {j} : pc'[i] = pc[i] /\ splits'[i] = splits[i]
      BY <2>1, GotoMoves DEF Release, TypeOK
    <3>2. \A s \in Part : s[1] # j => results'[s] = results[s]
      BY <2>1 DEF Release, TypeOK
    <3>3. \A i \in Job \ {j} : \A s \in PartsOf(i) : results'[s] = results[s]
      BY <3>2, PartsType DEF PartsOf
    <3> QED
      BY <1>1, <3>1, <3>3
  <2>2. \/ Release(j)
        \/ /\ UNCHANGED <<results, splits>>
           /\ pc' = pc \/ Goto(j, "assign") \/ Goto(j, "poll") \/ Goto(j, "failed") \/ Goto(j, "ok")
    BY <1>5 DEF ExecutorStep, Undivided, Assign, Poll
  <2> QED
    BY <1>3, <1>4, <2>1, <2>2
<1>6. ASSUME NEW j \in Job, ParentStep(j) PROVE AllSucceeded'
  <2>1. CASE Split(j)
    <3>1. /\ pc'[j] = "attempt" /\ results' = results
          /\ \A i \in Job \ {j} : pc'[i] = pc[i] /\ splits'[i] = splits[i]
      BY <2>1, GotoMoves DEF Split, TypeOK
    <3> QED
      BY <1>1, <3>1
  <2>2. CASE Attempt(j)
    <3>1. pc' = pc \/ Goto(j, "claim")
      BY <2>2 DEF Attempt
    <3>2. UNCHANGED <<results, splits>>
      BY <2>2 DEF Attempt
    <3> QED
      BY <1>3, <1>4, <3>1, <3>2
  <2>3. CASE EndAttempts(j)
    <3>1. CASE Pending(j) = {}
      <4>1. \A s \in PartsOf(j) : results[s] = "ok"
        BY <3>1 DEF Pending, PartsOf
      <4>2. UNCHANGED <<results, splits>> /\ \A i \in Job \ {j} : pc'[i] = pc[i]
        BY <2>3, GotoMoves DEF EndAttempts
      <4>3. \A i \in Job : pc'[i] \in Merging =>
              \A s \in PartsOf(i) : results[s] = "ok"
        BY <4>1, <4>2 DEF AllSucceeded
      <4> QED
        BY <4>2, <4>3 DEF AllSucceeded, PartsOf
    <3>2. CASE Pending(j) # {}
      BY <1>3, <2>3, <3>2 DEF EndAttempts
    <3> QED
      BY <3>1, <3>2
  <2>4. CASE StartMap(j)
    BY <1>4, <2>4 DEF StartMap
  <2>5. CASE Join(j)
    BY <1>3, <2>5 DEF Join
  <2>6. CASE Pin(j)
    BY <1>3, <2>6 DEF Pin
  <2>7. ASSUME NEW w \in OnDemand, Wait(j, w) PROVE AllSucceeded'
    BY <1>3, <2>7 DEF Wait
  <2>8. CASE MergeAssign(j)
    BY <1>3, <2>8 DEF MergeAssign
  <2>9. CASE MergePoll(j)
    BY <1>3, <2>9 DEF MergePoll
  <2>10. CASE MergeEnd(j)
    BY <1>3, <2>10 DEF MergeEnd
  <2>11. CASE Cleanup(j)
    BY <1>3, <2>11 DEF Cleanup
  <2> QED
    BY <1>6, <2>1, <2>2, <2>3, <2>4, <2>5, <2>6, <2>7, <2>8, <2>9, <2>10, <2>11 DEF ParentStep
<1>7. ASSUME NEW s \in Part, MapStep(s) PROVE AllSucceeded'
  <2>1. CASE MapEnd(s)
    <3>1. spc[s] # "none"
      BY <2>1 DEF MapEnd
    <3>2. pc[s[1]] = "claim"
      BY <3>1 DEF MapInv, ThreadsHold, Part, Index
    <3>3. \A r \in Part : r # s => results'[r] = results[r]
      BY <2>1 DEF MapEnd, TypeOK
    <3>4. UNCHANGED <<pc, splits>>
      BY <2>1 DEF MapEnd
    <3>5. \A i \in Job : i # s[1] => \A r \in PartsOf(i) : r # s /\ r \in Part
      BY PartsType DEF PartsOf
    <3> QED
      BY <1>1, <3>2, <3>3, <3>4, <3>5
  <2>2. MapEnd(s) \/ UNCHANGED <<pc, results, splits>>
    BY <1>7 DEF MapStep, MapCheck, MapAssign, MapPoll
  <2> QED
    BY <1>4, <2>1, <2>2
<1>8. ASSUME NEW w \in Worker, Trained(w) \/ Averaged(w) \/ Breaks(w) PROVE AllSucceeded'
  BY <1>4, <1>8 DEF Trained, Averaged, Breaks
<1>9. CASE UNCHANGED vars
  BY <1>4, <1>9
<1> QED
  BY <1>2, <1>5, <1>6, <1>7, <1>8, <1>9, ReducedNext

\* A merge is watched from its start to its end.
LEMMA MergesAreWatchedStep ==
  ASSUME NoLosses, SkipInv, MergesAreWatched, [Next]_vars
  PROVE  MergesAreWatched'
<1> USE DEF SkipInv
<1> \A j \in Job : j \in Task
  BY JobOrPart
<1>1. ASSUME \A w \in Worker : \/ runner'[w] = runner[w]
                               \/ runner'[w].status # "RUNNING"
                               \/ runner'[w].files = {},
             \A j \in Job : pc[j] = "watch" =>
               pc'[j] = "watch" /\ reducer'[j] = reducer[j] /\ splits'[j] = splits[j]
      PROVE  MergesAreWatched'
  <2> SUFFICES ASSUME NEW w \in Worker, runner'[w].status = "RUNNING", runner'[w].files # {}
               PROVE  \E j \in Job : /\ pc'[j] = "watch" /\ reducer'[j] = w
                                     /\ runner'[w].task = j /\ runner'[w].files = PartsOf(j)'
    BY DEF MergesAreWatched
  <2>1. runner'[w] = runner[w]
    BY <1>1
  <2>2. PICK j \in Job : /\ pc[j] = "watch" /\ reducer[j] = w
                         /\ runner[w].task = j /\ runner[w].files = PartsOf(j)
    BY <2>1 DEF MergesAreWatched
  <2> QED
    BY <1>1, <2>1, <2>2 DEF PartsOf
<1>2. ASSUME NEW j \in Job, NEW w \in Worker, Claim(j, w) PROVE MergesAreWatched'
  BY <1>1, <1>2 DEF Claim, TypeOK
<1>3. ASSUME NEW j \in Job, pc[j] # "watch", \E label : Goto(j, label),
             \A i \in Job \ {j} : reducer'[i] = reducer[i] /\ splits'[i] = splits[i],
             UNCHANGED runner
      PROVE  MergesAreWatched'
  BY <1>1, <1>3, GotoMoves
<1>4. ASSUME UNCHANGED <<pc, reducer, splits>>,
             \A w \in Worker : \/ runner'[w] = runner[w]
                               \/ runner'[w].status # "RUNNING"
                               \/ runner'[w].files = {}
      PROVE  MergesAreWatched'
  BY <1>1, <1>4
<1>5. ASSUME NEW j \in Job, ExecutorStep(j) PROVE MergesAreWatched'
  <2>1. CASE Undivided(j)
    BY <1>3, <2>1 DEF Undivided
  <2>2. CASE Assign(j)
    <3>1. pc[j] = "assign" /\ UNCHANGED <<reducer, splits>> /\ \E label : Goto(j, label)
      BY <2>2 DEF Assign
    <3>2. \A x \in Worker : runner'[x] = runner[x] \/ runner'[x].files = {}
      BY <2>2, StartsRunning DEF Assign
    <3> QED
      BY <1>1, <3>1, <3>2, GotoMoves
  <2>3. CASE Poll(j)
    <3>1. UNCHANGED <<reducer, splits, runner>> /\ pc[j] = "poll"
      BY <2>3 DEF Poll
    <3>2. pc' = pc \/ Goto(j, "ok") \/ Goto(j, "failed")
      BY <2>3 DEF Poll
    <3> QED
      BY <1>3, <1>4, <3>1, <3>2
  <2>4. CASE Release(j)
    <3>1. \A i \in Job \ {j} : splits'[i] = splits[i]
      BY <2>4 DEF Release, TypeOK
    <3> QED
      BY <1>3, <2>4, <3>1 DEF Release
  <2> QED
    BY <1>5, <2>1, <2>2, <2>3, <2>4 DEF ExecutorStep
<1>6. ASSUME NEW j \in Job, ParentStep(j) PROVE MergesAreWatched'
  <2>1. CASE Split(j)
    <3>1. \A i \in Job \ {j} : splits'[i] = splits[i]
      BY <2>1 DEF Split, TypeOK
    <3> QED
      BY <1>3, <2>1, <3>1 DEF Split
  <2>2. CASE Attempt(j)
    <3>1. pc' = pc \/ Goto(j, "claim")
      BY <2>2 DEF Attempt
    <3>2. UNCHANGED <<reducer, splits, runner>> /\ pc[j] = "attempt"
      BY <2>2 DEF Attempt
    <3> QED
      BY <1>3, <1>4, <3>1, <3>2
  <2>3. CASE EndAttempts(j)
    BY <1>3, <2>3 DEF EndAttempts
  <2>4. CASE StartMap(j)
    BY <1>4, <2>4 DEF StartMap
  <2>5. CASE Join(j)
    BY <1>3, <2>5 DEF Join
  <2>6. CASE Pin(j)
    <3>1. \A i \in Job \ {j} : reducer'[i] = reducer[i]
      BY <2>6 DEF Pin, TypeOK
    <3>2. \E label : Goto(j, label)
      BY <2>6 DEF Pin
    <3> QED
      BY <1>3, <2>6, <3>1, <3>2 DEF Pin
  <2>7. ASSUME NEW w \in OnDemand, Wait(j, w) PROVE MergesAreWatched'
    <3>1. \A i \in Job \ {j} : reducer'[i] = reducer[i]
      BY <2>7 DEF Wait, TypeOK
    <3> QED
      BY <1>3, <2>7, <3>1 DEF Wait
  <2>8. CASE MergeAssign(j)
    <3>1. pc[j] = "merge" /\ UNCHANGED <<reducer, splits>>
      BY <2>8 DEF MergeAssign
    <3>2. CASE Accepts(reducer[j])
      <4>1. Start(reducer[j], j, PartsOf(j)) /\ Goto(j, "watch")
        BY <2>8, <3>2 DEF MergeAssign
      <4>2. pc'[j] = "watch" /\ \A i \in Job \ {j} : pc'[i] = pc[i]
        BY <4>1, GotoMoves
      <4>3. \A x \in Worker : \/ runner'[x] = runner[x]
                              \/ /\ x = reducer[j] /\ runner'[x].task = j
                                 /\ runner'[x].files = PartsOf(j)
        BY <4>1, StartsRunning
      <4>4. PartsOf(j)' = PartsOf(j) /\ \A i \in Job : PartsOf(i)' = PartsOf(i)
        BY <3>1 DEF PartsOf
      <4> QED
        BY <3>1, <4>2, <4>3, <4>4 DEF MergesAreWatched
    <3>3. CASE ~Accepts(reducer[j])
      <4>1. Goto(j, "unmerged") /\ UNCHANGED runner
        BY <2>8, <3>3 DEF MergeAssign
      <4> QED
        BY <1>3, <3>1, <4>1
    <3> QED
      BY <3>2, <3>3
  <2>9. CASE MergePoll(j)
    <3>1. /\ pc[j] = "watch" /\ UNCHANGED <<reducer, splits, runner>>
          /\ Answer(reducer[j], j) \in {"SUCCESS", "FAILED"}
      BY <2>9 DEF MergePoll
    <3>2. \A i \in Job \ {j} : pc'[i] = pc[i]
      BY <2>9, GotoMoves DEF MergePoll
    <3>3. \A w \in Worker : reducer[j] = w /\ runner[w].task = j => runner[w].status # "RUNNING"
      BY <3>1 DEF Answer, AllThere
    <3>4. \A i \in Job : PartsOf(i)' = PartsOf(i)
      BY <3>1 DEF PartsOf
    <3> QED
      BY <3>1, <3>2, <3>3, <3>4 DEF MergesAreWatched
  <2>10. CASE MergeEnd(j)
    <3>1. \A i \in Job \ {j} : reducer'[i] = reducer[i]
      BY <2>10 DEF MergeEnd, TypeOK
    <3> QED
      BY <1>3, <2>10, <3>1 DEF MergeEnd
  <2>11. CASE Cleanup(j)
    BY <1>3, <2>11 DEF Cleanup
  <2> QED
    BY <1>6, <2>1, <2>2, <2>3, <2>4, <2>5, <2>6, <2>7, <2>8, <2>9, <2>10, <2>11 DEF ParentStep
<1>7. ASSUME NEW s \in Part, MapStep(s) PROVE MergesAreWatched'
  <2>1. UNCHANGED <<pc, reducer, splits>>
    BY <1>7 DEF MapStep, MapCheck, MapAssign, MapPoll, MapEnd
  <2>2. \A x \in Worker : runner'[x] = runner[x] \/ runner'[x].files = {}
    BY <1>7, StartsRunning DEF MapStep, MapCheck, MapAssign, MapPoll, MapEnd
  <2> QED
    BY <1>4, <2>1, <2>2
<1>8. ASSUME NEW w \in Worker, Trained(w) \/ Averaged(w) \/ Breaks(w) PROVE MergesAreWatched'
  <2>1. UNCHANGED <<pc, reducer, splits>>
    BY <1>8 DEF Trained, Averaged, Breaks
  <2> QED
    BY <1>4, <1>8, <2>1, RunEnds
<1>9. CASE UNCHANGED vars
  BY <1>4, <1>9
<1> QED
  BY <1>2, <1>5, <1>6, <1>7, <1>8, <1>9, ReducedNext

\* A run that ends with SUCCESS has found the weights of every file it was given.
LEMMA MergeStep ==
  ASSUME NoLosses, SkipInv, MergeInv, [Next]_vars, NEW w \in Worker,
         runner[w].status = "RUNNING", runner'[w].status = "SUCCESS"
  PROVE  \A s \in runner[w].files : by[s] \in Spot \/ s \in final \ torn
<1> USE DEF SkipInv, MergeInv
<1> HIDE DEF vars
<1>1. CASE runner[w].files = {}
  BY <1>1
<1>2. CASE runner[w].files # {}
  <2>1. PICK j \in Job : pc[j] = "watch" /\ runner[w].files = PartsOf(j)
    BY <1>2 DEF MergesAreWatched
  <2>2. \A s \in PartsOf(j) : results[s] = "ok" /\ s \in Part /\ s[1] = j
    BY <2>1, PartsType DEF AllSucceeded, PartsOf
  <2>3. \A s \in PartsOf(j) : by[s] \in Spot \/ s \in final \ torn
    BY <2>1, <2>2 DEF Saved
  <2> QED
    BY <2>1, <2>3
<1> QED
  BY <1>1, <1>2

\* The invariant of complete merges.
LEMMA MergeInvariance == ASSUME NoLosses, AllSave PROVE Spec => [](SkipInv /\ MergeInv)
<1>1. Init => SkipInv /\ MergeInv
  BY InitType, InitClaims, InitSkip DEF SkipInv
<1>2. SkipInv /\ MergeInv /\ [Next]_vars => (SkipInv /\ MergeInv)'
  BY NextType, NextClaims, AllThereKept, TrainedOnceKept, SavedStep, AllSucceededStep,
     MergesAreWatchedStep DEF SkipInv, MergeInv
<1> QED
  BY <1>1, <1>2, PTL DEF Spec

\* As long as no worker is lost and none fails to save, a merge that succeeds has
\* averaged every subtask that did not run on a spot worker, whose volume it does
\* not see, for any number of jobs, workers, splits and retries.
THEOREM MergesAreComplete == ASSUME NoLosses, AllSave PROVE Spec => MergesWhatWasSaved
<1>1. SkipInv /\ MergeInv /\ [Next]_vars =>
        [\A w \in Worker :
           runner[w].status = "RUNNING" /\ runner'[w].status = "SUCCESS"
             => \A s \in runner[w].files : by[s] \in Spot \/ s \in final \ torn]_vars
  BY MergeStep
<1> QED
  BY <1>1, MergeInvariance, PTL DEF Spec, MergesWhatWasSaved

(***************************************************************************)
(* The split implements ForkJoin, with losses and without.                 *)
(***************************************************************************)

\* A job whose merge is still to be placed has seen every subtask succeed.
JoinsComplete == \A j \in Job : pc[j] \in {"pin", "wait"} => Pending(j) = {}

\* A split has a subtask at least.
LEMMA SplitsSome ==
  ASSUME NEW j \in Job, Cardinality(Available(j)) >= 2
  PROVE  Min({Cardinality(Available(j)), MaxSplits}) \in 1..MaxSplits
<1>1. Cardinality(Available(j)) \in Nat
  BY BoundAssumption, FS_Subset, FS_CardinalityType DEF Available
<1>2. \A n \in Nat : n >= 2 => Min({n, MaxSplits}) \in 1..MaxSplits
  BY BoundAssumption DEF Min
<1> QED
  BY <1>1, <1>2

\* The labels and their phases.
LEMMA Phases ==
  /\ PhaseOf("none") = "waiting" /\ PhaseOf("queued") = "waiting"
  /\ PhaseOf("spawned") = "taken" /\ PhaseOf("assign") = "taken" /\ PhaseOf("poll") = "taken"
  /\ PhaseOf("attempt") = "forked" /\ PhaseOf("claim") = "forked"
  /\ PhaseOf("pin") = "forked" /\ PhaseOf("wait") = "forked"
  /\ PhaseOf("merge") = "merging" /\ PhaseOf("watch") = "merging"
  /\ PhaseOf("merged") = "succeeded" /\ PhaseOf("cleanup") = "succeeded"
  /\ PhaseOf("ok") = "succeeded" /\ PhaseOf("done") = "done"
  /\ PhaseOf("unmerged") = "failed" /\ PhaseOf("failed") = "failed"
  BY DEF PhaseOf

\* A thread that moves changes the phase of its own job only; the copy of a
\* subtask changes none.
LEMMA PhaseMoves ==
  ASSUME TypeOK, NEW t \in Task, NEW l, pc' = [pc EXCEPT ![t] = l]
  PROVE  /\ t \in Job => Phase[t] = PhaseOf(pc[t]) /\ Phase' = [Phase EXCEPT ![t] = PhaseOf(l)]
         /\ t \notin Job \/ PhaseOf(l) = PhaseOf(pc[t]) => Phase' = Phase
<1>1. \A j \in Job : pc'[j] = IF j = t THEN l ELSE pc[j]
  BY DEF TypeOK, Task
<1> QED
  BY <1>1 DEF Phase

\* The same for two given phases.
LEMMA PhaseStep ==
  ASSUME TypeOK, NEW j \in Job, NEW l, NEW before, NEW after,
         PhaseOf(pc[j]) = before, PhaseOf(l) = after, pc' = [pc EXCEPT ![j] = l]
  PROVE  Phase[j] = before /\ Phase' = [Phase EXCEPT ![j] = after]
<1>1. j \in Task
  BY JobOrPart
<1> QED
  BY <1>1, PhaseMoves

\* What the abstract state is made of.
LEMMA AbstractStutter ==
  ASSUME Phase' = Phase, UNCHANGED <<splits, attempts, plan, results>>,
         \A s \in Part : spc'[s] = "none" <=> spc[s] = "none"
  PROVE  UNCHANGED Abstract!vars
<1>1. Threads' = Threads
  BY DEF Threads, Part, Index
<1>2. Planned' = Planned /\ Finished' = Finished
  BY DEF Planned, Finished
<1> QED
  BY <1>1, <1>2 DEF Abstract!vars

\* A step of the thread of task t that moves between two labels and touches
\* nothing else of the abstract state.
LEMMA MoveRefines ==
  ASSUME TypeOK, NEW t \in Task, NEW l, pc' = [pc EXCEPT ![t] = l],
         UNCHANGED <<splits, attempts, plan, results, spc>>,
         \/ t \notin Job
         \/ PhaseOf(l) = PhaseOf(pc[t])
         \/ PhaseOf(pc[t]) = "waiting" /\ PhaseOf(l) = "taken"
         \/ PhaseOf(pc[t]) \in {"taken", "merging"} /\ PhaseOf(l) \in {"succeeded", "failed"}
  PROVE  [Abstract!Next]_(Abstract!vars)
<1>1. UNCHANGED <<splits, attempts, Planned, Threads, Finished>>
  BY DEF Planned, Threads, Finished
<1>2. CASE t \notin Job \/ PhaseOf(l) = PhaseOf(pc[t])
  BY <1>1, <1>2, PhaseMoves DEF Abstract!vars
<1>3. CASE t \in Job /\ PhaseOf(pc[t]) = "waiting" /\ PhaseOf(l) = "taken"
  <2>1. Abstract!Take(t)
    BY <1>1, <1>3, PhaseMoves DEF Abstract!Take, Abstract!Enter
  <2> QED
    BY <1>3, <2>1 DEF Abstract!Next
<1>4. CASE t \in Job /\ PhaseOf(pc[t]) \in {"taken", "merging"} /\ PhaseOf(l) = "succeeded"
  <2>1. Abstract!Succeed(t)
    BY <1>1, <1>4, PhaseMoves DEF Abstract!Succeed, Abstract!Enter
  <2> QED
    BY <1>4, <2>1 DEF Abstract!Next
<1>5. CASE t \in Job /\ PhaseOf(pc[t]) \in {"taken", "merging"} /\ PhaseOf(l) = "failed"
  <2>1. Abstract!Fail(t)
    BY <1>1, <1>5, PhaseMoves DEF Abstract!Fail, Abstract!Enter
  <2> QED
    BY <1>5, <2>1 DEF Abstract!Next
<1> QED
  BY <1>2, <1>3, <1>4, <1>5

\* No subtask of a job is planned or runs outside the loop that starts them.
LEMMA QuietOutsideClaim ==
  ASSUME MapInv, NEW j \in Job, pc[j] # "claim"
  PROVE  Planned[j] = {} /\ Threads[j] = {} /\ Abstract!Quiet(j)
<1>1. plan[j] = {} /\ \A k \in Index : spc[<<j, k>>] = "none"
  BY DEF MapInv, ThreadsHold
<1> QED
  BY <1>1 DEF Planned, Threads, Abstract!Quiet

\* Nothing is pending when all parts have finished.
LEMMA PendingComplete ==
  ASSUME TypeOK, NEW j \in Job
  PROVE  Abstract!Complete(j) <=> Pending(j) = {}
<1>1. splits[j] \in 0..MaxSplits /\ 1..splits[j] \subseteq Index
  BY BoundAssumption DEF TypeOK, Index
<1>2. Finished[j] = {k \in Index : results[<<j, k>>] = "ok"}
  BY DEF Finished
<1> QED
  BY <1>1, <1>2 DEF Pending, Abstract!Complete

\* The executor thread, of a job or of the copy of a subtask.
LEMMA ExecutorRefines ==
  ASSUME TypeOK, MapInv, NEW t \in Task, ExecutorStep(t)
  PROVE  [Abstract!Next]_(Abstract!vars)
<1> USE DEF Goto
<1>1. CASE Undivided(t)
  BY <1>1, Phases, MoveRefines DEF Undivided
<1>2. CASE Assign(t)
  <2>1. pc[t] = "assign" /\ UNCHANGED <<splits, attempts, plan, results, spc>>
    BY <1>2 DEF Assign
  <2>2. CASE pc' = [pc EXCEPT ![t] = "poll"]
    BY <2>1, <2>2, Phases, MoveRefines
  <2>3. CASE pc' = [pc EXCEPT ![t] = "failed"]
    BY <2>1, <2>3, Phases, MoveRefines
  <2> QED
    BY <1>2, <2>2, <2>3 DEF Assign
<1>3. CASE Poll(t)
  <2>1. UNCHANGED <<splits, attempts, plan, results, spc>> /\ pc[t] = "poll"
    BY <1>3 DEF Poll
  <2>2. CASE pc' = pc
    <3>1. Phase' = Phase
      BY <2>2 DEF Phase
    <3> QED
      BY <2>1, <3>1, AbstractStutter
  <2>3. ASSUME NEW l \in {"ok", "failed"}, pc' = [pc EXCEPT ![t] = l]
        PROVE  [Abstract!Next]_(Abstract!vars)
    BY <2>1, <2>3, Phases, MoveRefines
  <2> QED
    BY <1>3, <2>2, <2>3 DEF Poll
<1>4. CASE Release(t) /\ t \in Job
  <2>1. /\ pc[t] \in {"ok", "failed"}
        /\ pc' = [pc EXCEPT ![t] = IF pc[t] = "failed" THEN "queued" ELSE "done"]
    BY <1>4 DEF Release
  <2>2. splits' = [splits EXCEPT ![t] = 0] /\ attempts' = [attempts EXCEPT ![t] = 0]
    BY <1>4 DEF Release, TypeOK
  <2>3. UNCHANGED <<Planned, Threads>>
    BY <1>4 DEF Release, Planned, Threads
  <2>4. Finished' = [Finished EXCEPT ![t] = {}]
    <3>1. ASSUME NEW j \in Job, NEW k \in Index
          PROVE  results'[<<j, k>>] = IF j = t THEN "none" ELSE results[<<j, k>>]
      BY <1>4 DEF Release, Part, Index
    <3> QED
      BY <3>1 DEF Finished
  <2>5. CASE pc[t] = "failed"
    <3>1. pc' = [pc EXCEPT ![t] = "queued"]
      BY <2>1, <2>5
    <3>2. Phase[t] = "failed" /\ Phase' = [Phase EXCEPT ![t] = "waiting"]
      <4>1. /\ PhaseOf(pc[t]) = "failed" /\ PhaseOf("queued") = "waiting"
            /\ pc' = [pc EXCEPT ![t] = "queued"] /\ t \in Job
        BY <1>4, <2>5, <3>1, Phases
      <4> QED
        BY <4>1, PhaseStep
    <3>3. Abstract!Leave(t)
      BY <2>2, <2>3, <2>4, <3>2 DEF Abstract!Leave, Abstract!Enter
    <3> QED
      BY <1>4, <3>3 DEF Abstract!Next
  <2>6. CASE pc[t] = "ok"
    <3>1. pc' = [pc EXCEPT ![t] = "done"]
      BY <2>1, <2>6
    <3>2. Phase[t] = "succeeded" /\ Phase' = [Phase EXCEPT ![t] = "done"]
      <4>1. /\ PhaseOf(pc[t]) = "succeeded" /\ PhaseOf("done") = "done"
            /\ pc' = [pc EXCEPT ![t] = "done"] /\ t \in Job
        BY <1>4, <2>6, <3>1, Phases
      <4> QED
        BY <4>1, PhaseStep
    <3>3. Abstract!Leave(t)
      BY <2>2, <2>3, <2>4, <3>2 DEF Abstract!Leave, Abstract!Enter
    <3> QED
      BY <1>4, <3>3 DEF Abstract!Next
  <2> QED
    BY <2>1, <2>5, <2>6
<1>5. CASE Release(t) /\ t \notin Job
  <2>1. \A s \in Part : s[1] # t
    BY <1>5, JobOrPart
  <2>2. splits' = splits /\ attempts' = attempts /\ results' = results
    BY <1>5, <2>1 DEF Release, TypeOK
  <2>3. PICK l : pc' = [pc EXCEPT ![t] = l]
    BY <1>5 DEF Release
  <2> QED
    BY <1>5, <2>2, <2>3, MoveRefines DEF Release
<1> QED
  BY <1>1, <1>2, <1>3, <1>4, <1>5 DEF ExecutorStep

\* One round of the retry loop.
LEMMA AttemptRefines ==
  ASSUME TypeOK, MapInv, NEW j \in Job, Attempt(j)
  PROVE  [Abstract!Next]_(Abstract!vars)
<1>1. /\ pc[j] = "attempt" /\ Pending(j) # {} /\ attempts[j] < MaxAttempts
      /\ attempts' = [attempts EXCEPT ![j] = attempts[j] + 1]
      /\ UNCHANGED <<splits, results, spc>>
  BY DEF Attempt
<1>2. Phase[j] = "forked" /\ Abstract!Quiet(j) /\ ~Abstract!Complete(j)
  BY <1>1, Phases, QuietOutsideClaim, PendingComplete DEF Phase
<1>3. Phase' = Phase
  <2>1. CASE pc' = pc
    BY <2>1 DEF Phase
  <2>2. CASE pc' = [pc EXCEPT ![j] = "claim"]
    <3>1. j \in Task /\ PhaseOf("claim") = PhaseOf(pc[j])
      BY <1>1, Phases, JobOrPart
    <3> QED
      BY <2>2, <3>1, PhaseMoves
  <2> QED
    BY <2>1, <2>2 DEF Attempt, Goto
<1>4. UNCHANGED <<Threads, Finished>>
  BY <1>1 DEF Threads, Finished
<1>5. PICK S \in SUBSET Pending(j) : Planned' = [Planned EXCEPT ![j] = S]
  <2>1. CASE plan' = plan
    <3>1. Planned' = [Planned EXCEPT ![j] = {}]
      BY <1>1, <2>1, QuietOutsideClaim DEF Planned
    <3> QED
      BY <3>1
  <2>2. CASE plan' # plan
    <3>1. PICK p \in Plans(Pending(j), Idle) :
            plan' = [plan EXCEPT ![j] = {<<k, p[k]>> : k \in DOMAIN p}]
      BY <2>2 DEF Attempt
    <3>2. DOMAIN p \subseteq Pending(j)
      BY <3>1 DEF Plans
    <3>3. plan'[j] = {<<k, p[k]>> : k \in DOMAIN p} /\ \A x \in Job \ {j} : plan'[x] = plan[x]
      BY <3>1 DEF TypeOK
    <3>4. {a[1] : a \in plan'[j]} = DOMAIN p
      <4>1. ASSUME NEW a \in plan'[j] PROVE a[1] \in DOMAIN p
        BY <3>3, <4>1
      <4>2. ASSUME NEW k \in DOMAIN p PROVE \E a \in plan'[j] : a[1] = k
        <5>1. <<k, p[k]>> \in plan'[j]
          BY <3>3
        <5> QED
          BY <5>1
      <4> QED
        BY <4>1, <4>2
    <3>5. Planned' = [Planned EXCEPT ![j] = DOMAIN p]
      BY <3>3, <3>4 DEF Planned
    <3> QED
      BY <3>2, <3>5
  <2> QED
    BY <2>1, <2>2
<1>6. S \subseteq 1..splits[j] \ Finished[j] /\ S \in SUBSET (1..MaxSplits)
  <2>1. splits[j] \in 0..MaxSplits
    BY DEF TypeOK
  <2>2. \A k \in Pending(j) : k \in 1..splits[j] /\ k \notin Finished[j] /\ k \in 1..MaxSplits
    BY <2>1, BoundAssumption DEF Pending, Finished
  <2> QED
    BY <2>2
<1>7. Abstract!BeginRound(j, S)
  BY <1>1, <1>2, <1>3, <1>4, <1>5, <1>6 DEF Abstract!BeginRound
<1> QED
  BY <1>6, <1>7 DEF Abstract!Next

\* The start of a map thread.
LEMMA StartRefines ==
  ASSUME TypeOK, MapInv, NEW j \in Job, StartMap(j)
  PROVE  [Abstract!Next]_(Abstract!vars)
<1>1. PICK a \in plan[j] :
        /\ spc' = [spc EXCEPT ![<<j, a[1]>>] = "check"]
        /\ plan' = [plan EXCEPT ![j] = @ \ {a}]
  BY DEF StartMap
<1>2. /\ a[1] \in Index /\ <<j, a[1]>> \in Part
      /\ \A b \in plan[j] : b # a => b[1] # a[1]
  BY DEF TypeOK, Part, Index, MapInv, ThreadsHold
<1>3. Planned' = [Planned EXCEPT ![j] = Planned[j] \ {a[1]}]
  <2>1. plan'[j] = plan[j] \ {a} /\ \A x \in Job \ {j} : plan'[x] = plan[x]
    BY <1>1 DEF TypeOK
  <2>2. {b[1] : b \in plan'[j]} = {b[1] : b \in plan[j]} \ {a[1]}
    BY <1>2, <2>1
  <2> QED
    BY <2>1, <2>2 DEF Planned
<1>4. Threads' = [Threads EXCEPT ![j] = Threads[j] \cup {a[1]}]
  <2>1. \A x \in Job, k \in Index :
          spc'[<<x, k>>] = IF x = j /\ k = a[1] THEN "check" ELSE spc[<<x, k>>]
    BY <1>1, <1>2 DEF TypeOK, Part, Index
  <2>2. {k \in Index : spc'[<<j, k>>] # "none"}
          = {k \in Index : spc[<<j, k>>] # "none"} \cup {a[1]}
    BY <1>2, <2>1
  <2>3. \A x \in Job \ {j} : {k \in Index : spc'[<<x, k>>] # "none"}
                               = {k \in Index : spc[<<x, k>>] # "none"}
    BY <2>1
  <2> QED
    BY <2>2, <2>3 DEF Threads
<1>5. /\ Phase[j] = "forked" /\ a[1] \in Planned[j]
      /\ UNCHANGED <<Phase, splits, attempts, Finished>>
  BY Phases DEF StartMap, Phase, Planned, Finished
<1>6. Abstract!Try(j, a[1])
  BY <1>3, <1>4, <1>5 DEF Abstract!Try
<1> QED
  BY <1>2, <1>6 DEF Abstract!Next, Index

\* The other steps of the thread of a split job.
LEMMA ParentRefines ==
  ASSUME TypeOK, MapInv, JoinsComplete, NEW j \in Job, ParentStep(j)
  PROVE  [Abstract!Next]_(Abstract!vars)
<1> USE DEF Goto
<1> j \in Task
  BY DEF Task
<1>1. CASE Split(j)
  <2>1. PICK n \in 1..MaxSplits : splits' = [splits EXCEPT ![j] = n]
    <3>1. Min({Cardinality(Available(j)), MaxSplits}) \in 1..MaxSplits
      BY <1>1, SplitsSome DEF Split
    <3> QED
      BY <1>1, <3>1 DEF Split
  <2>2. UNCHANGED <<attempts, Planned, Threads, Finished>>
    BY <1>1 DEF Split, Planned, Threads, Finished
  <2>4. pc[j] = "spawned" /\ pc' = [pc EXCEPT ![j] = "attempt"]
    BY <1>1 DEF Split
  <2>5. Phase[j] = "taken" /\ Phase' = [Phase EXCEPT ![j] = "forked"]
    <3>1. /\ PhaseOf(pc[j]) = "taken" /\ PhaseOf("attempt") = "forked"
          /\ pc' = [pc EXCEPT ![j] = "attempt"] /\ j \in Job
      BY <2>4, Phases
    <3> QED
      BY <3>1, PhaseStep
  <2>3. Abstract!Fork(j, n)
    BY <2>1, <2>2, <2>5 DEF Abstract!Fork, Abstract!Enter
  <2> QED
    BY <2>3 DEF Abstract!Next
<1>2. CASE Attempt(j)
  BY <1>2, AttemptRefines
<1>3. CASE EndAttempts(j)
  <2>1. /\ pc[j] = "attempt" /\ Abstract!Quiet(j)
        /\ UNCHANGED <<splits, attempts, plan, results, spc>>
    BY <1>3, QuietOutsideClaim DEF EndAttempts
  <2>2. CASE Pending(j) = {}
    BY <1>3, <2>1, <2>2, Phases, MoveRefines DEF EndAttempts
  <2>3. CASE Pending(j) # {}
    <3>1. pc' = [pc EXCEPT ![j] = "failed"] /\ attempts[j] = MaxAttempts
      BY <1>3, <2>3 DEF EndAttempts
    <3>2. UNCHANGED <<Planned, Threads, Finished>> /\ ~Abstract!Complete(j)
      BY <2>1, <2>3, PendingComplete DEF Planned, Threads, Finished
    <3>3. Phase[j] = "forked" /\ Phase' = [Phase EXCEPT ![j] = "failed"]
      <4>1. /\ PhaseOf(pc[j]) = "forked" /\ PhaseOf("failed") = "failed"
            /\ pc' = [pc EXCEPT ![j] = "failed"] /\ j \in Job
        BY <2>1, <3>1, Phases
      <4> QED
        BY <4>1, PhaseStep
    <3>4. Abstract!Fail(j)
      BY <2>1, <3>1, <3>2, <3>3 DEF Abstract!Fail, Abstract!Enter
    <3> QED
      BY <3>4 DEF Abstract!Next
  <2> QED
    BY <2>2, <2>3
<1>4. CASE StartMap(j)
  BY <1>4, StartRefines
<1>5. CASE Join(j)
  BY <1>5, Phases, MoveRefines DEF Join
<1>6. CASE Pin(j) \/ \E w \in OnDemand : Wait(j, w)
  <2>1. /\ pc[j] \in {"pin", "wait"} /\ UNCHANGED <<splits, attempts, plan, results, spc>>
        /\ pc' = [pc EXCEPT ![j] = "merge"] \/ pc' = [pc EXCEPT ![j] = "wait"]
    BY <1>6 DEF Pin, Wait
  <2>2. CASE pc' = [pc EXCEPT ![j] = "wait"]
    BY <2>1, <2>2, Phases, MoveRefines
  <2>3. CASE pc' = [pc EXCEPT ![j] = "merge"]
    <3>1. Abstract!Quiet(j) /\ Abstract!Complete(j)
      BY <2>1, QuietOutsideClaim, PendingComplete DEF JoinsComplete
    <3>2. UNCHANGED <<Planned, Threads, Finished>>
      BY <2>1 DEF Planned, Threads, Finished
    <3>3. Phase[j] = "forked" /\ Phase' = [Phase EXCEPT ![j] = "merging"]
      <4>1. /\ PhaseOf(pc[j]) = "forked" /\ PhaseOf("merge") = "merging"
            /\ pc' = [pc EXCEPT ![j] = "merge"] /\ j \in Job
        BY <2>1, <2>3, Phases
      <4> QED
        BY <4>1, PhaseStep
    <3>4. Abstract!Merge(j)
      BY <2>1, <3>1, <3>2, <3>3 DEF Abstract!Merge, Abstract!Enter
    <3> QED
      BY <3>4 DEF Abstract!Next
  <2> QED
    BY <2>1, <2>2, <2>3
<1>7. CASE MergeAssign(j)
  <2>1. pc[j] = "merge" /\ UNCHANGED <<splits, attempts, plan, results, spc>>
    BY <1>7 DEF MergeAssign
  <2>2. CASE pc' = [pc EXCEPT ![j] = "watch"]
    BY <2>1, <2>2, Phases, MoveRefines
  <2>3. CASE pc' = [pc EXCEPT ![j] = "unmerged"]
    BY <2>1, <2>3, Phases, MoveRefines
  <2> QED
    BY <1>7, <2>2, <2>3 DEF MergeAssign
<1>8. CASE MergePoll(j)
  <2>1. pc[j] = "watch" /\ UNCHANGED <<splits, attempts, plan, results, spc>>
    BY <1>8 DEF MergePoll
  <2>2. CASE pc' = [pc EXCEPT ![j] = "merged"]
    BY <2>1, <2>2, Phases, MoveRefines
  <2>3. CASE pc' = [pc EXCEPT ![j] = "unmerged"]
    BY <2>1, <2>3, Phases, MoveRefines
  <2> QED
    BY <1>8, <2>2, <2>3 DEF MergePoll
<1>9. CASE MergeEnd(j)
  <2>1. CASE pc[j] = "merged"
    BY <1>9, <2>1, Phases, MoveRefines DEF MergeEnd
  <2>2. CASE pc[j] = "unmerged"
    BY <1>9, <2>2, Phases, MoveRefines DEF MergeEnd
  <2> QED
    BY <1>9, <2>1, <2>2 DEF MergeEnd
<1>10. CASE Cleanup(j)
  BY <1>10, Phases, MoveRefines DEF Cleanup
<1> QED
  BY <1>1, <1>2, <1>3, <1>4, <1>5, <1>6, <1>7, <1>8, <1>9, <1>10 DEF ParentStep

\* A map thread runs, or ends its part.
LEMMA MapRefines ==
  ASSUME TypeOK, MapInv, NEW s \in Part, MapStep(s)
  PROVE  [Abstract!Next]_(Abstract!vars)
<1> USE DEF GotoMap
<1>1. PICK j \in Job, k \in Index : s = <<j, k>>
  BY DEF Part, Index
<1>2. pc[j] = "claim" /\ results[s] # "ok" /\ spc[s] # "none"
  <2>1. spc[s] # "none"
    BY DEF MapStep, MapCheck, MapAssign, MapPoll, MapEnd
  <2> QED
    BY <1>1, <2>1 DEF MapInv, ThreadsHold, SelectiveRetry
<1>3. UNCHANGED <<splits, attempts, plan, Phase, Planned>>
  BY DEF MapStep, MapCheck, MapAssign, MapPoll, MapEnd, Phase, Planned
<1>4. CASE MapCheck(s) \/ MapAssign(s) \/ MapPoll(s)
  <2>1. results' = results
    BY <1>4 DEF MapCheck, MapAssign, MapPoll
  <2>2. \/ spc' = spc
        \/ \E l \in {"ok", "assign", "poll", "failed"} : spc' = [spc EXCEPT ![s] = l]
    BY <1>4 DEF MapCheck, MapAssign, MapPoll
  <2>3. \A r \in Part : spc'[r] = "none" <=> spc[r] = "none"
    BY <1>2, <2>2 DEF TypeOK
  <2> QED
    BY <1>3, <2>1, <2>3, AbstractStutter
<1>5. CASE MapEnd(s)
  <2>1. /\ spc' = [spc EXCEPT ![s] = "none"] /\ results' = [results EXCEPT ![s] = spc[s]]
        /\ spc[s] \in {"ok", "failed"}
    BY <1>5 DEF MapEnd
  <2>2. Threads' = [Threads EXCEPT ![j] = Threads[j] \ {k}]
    <3>1. \A x \in Job, i \in Index :
            spc'[<<x, i>>] = IF x = j /\ i = k THEN "none" ELSE spc[<<x, i>>]
      BY <1>1, <2>1 DEF TypeOK, Part, Index
    <3>2. \A x \in Job : {i \in Index : spc'[<<x, i>>] # "none"}
            = IF x = j THEN {i \in Index : spc[<<x, i>>] # "none"} \ {k}
                       ELSE {i \in Index : spc[<<x, i>>] # "none"}
      BY <3>1
    <3> QED
      BY <3>2 DEF Threads
  <2>3. \A x \in Job, i \in Index :
          results'[<<x, i>>] = IF x = j /\ i = k THEN spc[s] ELSE results[<<x, i>>]
    BY <1>1, <2>1 DEF TypeOK, Part, Index
  <2>4. \/ Finished' = [Finished EXCEPT ![j] = Finished[j] \cup {k}]
        \/ Finished' = Finished
    <3>1. CASE spc[s] = "ok"
      <4>1. {i \in Index : results'[<<j, i>>] = "ok"}
              = {i \in Index : results[<<j, i>>] = "ok"} \cup {k}
        BY <1>1, <2>3, <3>1
      <4>2. \A x \in Job \ {j} : {i \in Index : results'[<<x, i>>] = "ok"}
                                   = {i \in Index : results[<<x, i>>] = "ok"}
        BY <2>3
      <4>3. \A x \in Job : {i \in Index : results'[<<x, i>>] = "ok"}
              = IF x = j THEN {i \in Index : results[<<x, i>>] = "ok"} \cup {k}
                         ELSE {i \in Index : results[<<x, i>>] = "ok"}
        BY <4>1, <4>2
      <4>4. \A x \in Job : Finished'[x] = IF x = j THEN Finished[x] \cup {k} ELSE Finished[x]
        BY <4>3 DEF Finished
      <4> QED
        BY <4>4 DEF Finished
    <3>2. CASE spc[s] = "failed"
      <4>1. \A x \in Job, i \in Index : results'[<<x, i>>] = "ok" <=> results[<<x, i>>] = "ok"
        BY <1>1, <1>2, <2>3, <3>2
      <4>2. \A x \in Job : {i \in Index : results'[<<x, i>>] = "ok"}
                           = {i \in Index : results[<<x, i>>] = "ok"}
        BY <4>1
      <4> QED
        BY <4>2 DEF Finished
    <3> QED
      BY <2>1, <3>1, <3>2
  <2>5. Phase[j] = "forked" /\ k \in Threads[j] \ Finished[j]
    BY <1>1, <1>2, Phases DEF Phase, Threads, Finished
  <2>6. Abstract!EndPart(j, k)
    BY <1>3, <2>2, <2>4, <2>5 DEF Abstract!EndPart
  <2> QED
    BY <2>6 DEF Abstract!Next, Index
<1> QED
  BY <1>4, <1>5 DEF MapStep

\* Every step is one of ForkJoin, or changes none of its variables.
LEMMA JoinRefines ==
  ASSUME TypeOK, MapInv, JoinsComplete, [Next]_vars
  PROVE  [Abstract!Next]_(Abstract!vars)
<1>1. ASSUME NEW t \in Task, NEW w \in Worker, Claim(t, w)
      PROVE  [Abstract!Next]_(Abstract!vars)
  BY <1>1, Phases, MoveRefines DEF Claim
<1>2. CASE Removal \/ \E w \in Worker : Replace(w)
  <2>1. UNCHANGED <<splits, attempts, plan, results, spc>>
    BY <1>2 DEF Removal, Dead, Evict, Vanish, ScaleInChoose, ScaleInStop, ScaleInDrop, Replace
  <2>2. \A j \in Job : pc'[j] = pc[j]
    <3>1. ASSUME NEW w \in Spot, Dead(w) PROVE \A j \in Job : pc'[j] = pc[j]
      BY <3>1, JobOrPart DEF Dead
    <3> QED
      BY <1>2, <3>1 DEF Removal, Evict, Vanish, ScaleInChoose, ScaleInStop, ScaleInDrop, Replace
  <2>3. Phase' = Phase
    BY <2>2 DEF Phase
  <2> QED
    BY <2>1, <2>3, AbstractStutter
<1>3. ASSUME NEW w \in Worker, Trained(w) \/ Averaged(w) \/ Breaks(w)
      PROVE  [Abstract!Next]_(Abstract!vars)
  <2>1. UNCHANGED <<pc, splits, attempts, plan, results, spc>>
    BY <1>3 DEF Trained, Averaged, Breaks
  <2>2. Phase' = Phase
    BY <2>1 DEF Phase
  <2> QED
    BY <2>1, <2>2, AbstractStutter
<1>4. CASE UNCHANGED vars
  <2>1. Phase' = Phase
    BY <1>4 DEF Phase
  <2> QED
    BY <1>4, <2>1, AbstractStutter
<1> QED
  BY <1>1, <1>2, <1>3, <1>4, ExecutorRefines, ParentRefines, MapRefines DEF Next

\* Only the end of the retry loop leads to a merge, and nothing disturbs the
\* results of a job that is past it.
LEMMA JoinsKept ==
  ASSUME TypeOK, MapInv, JoinsComplete, [Next]_vars
  PROVE  JoinsComplete'
<1>1. SUFFICES ASSUME NEW j \in Job, pc'[j] \in {"pin", "wait"} PROVE Pending(j)' = {}
  BY DEF JoinsComplete
<1> USE DEF Goto
<1>2. SUFFICES /\ splits'[j] = splits[j] /\ Pending(j) = {}
               /\ \A k \in Index : results[<<j, k>>] = "ok" => results'[<<j, k>>] = "ok"
  <2>1. 1..splits[j] \subseteq Index
    BY BoundAssumption DEF TypeOK, Index
  <2> QED
    BY <1>2, <2>1 DEF Pending
<1>3. CASE pc'[j] = pc[j] /\ UNCHANGED <<splits, results>>
  BY <1>1, <1>3 DEF JoinsComplete
<1>4. ASSUME NEW t \in Task, NEW w \in Worker, Claim(t, w)
      PROVE  pc'[j] = pc[j] /\ UNCHANGED <<splits, results>>
  BY <1>1, <1>4, JobOrPart DEF Claim, TypeOK
<1>5. CASE Removal \/ (\E w \in Worker : Replace(w) \/ Trained(w) \/ Averaged(w) \/ Breaks(w))
  <2>1. UNCHANGED <<splits, results>>
    BY <1>5 DEF Removal, Dead, Evict, Vanish, ScaleInChoose, ScaleInStop, ScaleInDrop, Replace,
                Trained, Averaged, Breaks
  <2>2. ASSUME NEW w \in Spot, Dead(w) PROVE pc'[j] = pc[j]
    BY <1>1, <2>2, JobOrPart DEF Dead
  <2>3. pc'[j] = pc[j]
    BY <1>5, <2>2 DEF Removal, Evict, Vanish, ScaleInChoose, ScaleInStop, ScaleInDrop, Replace,
                      Trained, Averaged, Breaks
  <2> QED
    BY <1>3, <2>1, <2>3
<1>6. ASSUME NEW t \in Task, ExecutorStep(t)
      PROVE  pc[j] = pc'[j] /\ splits'[j] = splits[j]
             /\ \A k \in Index : results'[<<j, k>>] = results[<<j, k>>]
  <2>1. CASE Undivided(t) \/ Assign(t) \/ Poll(t)
    BY <1>1, <2>1, JobOrPart DEF Undivided, Assign, Poll, TypeOK
  <2>2. CASE Release(t)
    <3>1. t # j
      BY <1>1, <2>2, JobOrPart DEF Release, TypeOK
    <3>2. \A k \in Index : <<j, k>> \in Part
      BY DEF Part, Index
    <3> QED
      BY <2>2, <3>1, <3>2, JobOrPart DEF Release, TypeOK
  <2> QED
    BY <1>6, <2>1, <2>2 DEF ExecutorStep
<1>7. ASSUME NEW x \in Job, x # j, ParentStep(x)
      PROVE  pc[j] = pc'[j] /\ splits'[j] = splits[j] /\ results' = results
  <2>1. CASE Split(x) \/ Attempt(x) \/ EndAttempts(x) \/ StartMap(x) \/ Join(x)
    BY <1>7, <2>1, JobOrPart DEF Split, Attempt, EndAttempts, StartMap, Join, TypeOK
  <2>2. CASE Pin(x) \/ \E w \in OnDemand : Wait(x, w)
    BY <1>7, <2>2, JobOrPart DEF Pin, Wait, TypeOK
  <2>3. CASE MergeAssign(x) \/ MergePoll(x) \/ MergeEnd(x) \/ Cleanup(x)
    BY <1>7, <2>3, JobOrPart DEF MergeAssign, MergePoll, MergeEnd, Cleanup, TypeOK
  <2> QED
    BY <1>7, <2>1, <2>2, <2>3 DEF ParentStep
<1>8. CASE ParentStep(j)
  <2>1. CASE Split(j) \/ Attempt(j) \/ StartMap(j) \/ Join(j)
    BY <1>1, <2>1, JobOrPart DEF Split, Attempt, StartMap, Join, TypeOK
  <2>2. CASE EndAttempts(j)
    BY <1>1, <2>2, JobOrPart DEF EndAttempts, TypeOK
  <2>3. CASE Pin(j) \/ \E w \in OnDemand : Wait(j, w)
    BY <1>1, <2>3, JobOrPart DEF Pin, Wait, TypeOK, JoinsComplete
  <2>4. CASE MergeAssign(j) \/ MergePoll(j) \/ MergeEnd(j) \/ Cleanup(j)
    BY <1>1, <2>4, JobOrPart DEF MergeAssign, MergePoll, MergeEnd, Cleanup, TypeOK
  <2> QED
    BY <1>8, <2>1, <2>2, <2>3, <2>4 DEF ParentStep
<1>9. ASSUME NEW s \in Part, MapStep(s)
      PROVE  pc' = pc /\ splits' = splits
             /\ \A k \in Index : pc[j] # "claim" => results'[<<j, k>>] = results[<<j, k>>]
  <2>1. CASE MapCheck(s) \/ MapAssign(s) \/ MapPoll(s)
    BY <2>1 DEF MapCheck, MapAssign, MapPoll
  <2>2. CASE MapEnd(s)
    <3>1. PICK x \in Job, i \in Index : s = <<x, i>>
      BY DEF Part, Index
    <3>2. pc[x] = "claim"
      BY <2>2, <3>1 DEF MapEnd, MapInv, ThreadsHold
    <3> QED
      BY <2>2, <3>1, <3>2 DEF MapEnd, TypeOK, Part, Index
  <2> QED
    BY <1>9, <2>1, <2>2 DEF MapStep
<1>10. CASE UNCHANGED vars
  BY <1>3, <1>10 DEF vars
<1>11. CASE \E t \in Task : ExecutorStep(t)
  BY <1>1, <1>6, <1>11 DEF JoinsComplete
<1>12. CASE \E x \in Job : ParentStep(x)
  BY <1>1, <1>7, <1>8, <1>12 DEF JoinsComplete
<1>13. CASE \E s \in Part : MapStep(s)
  BY <1>1, <1>9, <1>13 DEF JoinsComplete
<1> QED
  BY <1>3, <1>4, <1>5, <1>10, <1>11, <1>12, <1>13 DEF Next

\* The initial states are those of ForkJoin.
LEMMA InitRefines == Init => Abstract!Init /\ JoinsComplete
<1>1. SUFFICES ASSUME Init PROVE Abstract!Init /\ JoinsComplete
  OBVIOUS
<1>2. \A j \in Job : j \in Task /\ pc[j] = "queued"
  BY <1>1, JobOrPart DEF Init
<1>3. Phase = [j \in Job |-> "waiting"]
  BY <1>2, Phases DEF Phase
<1>4. Planned = [j \in Job |-> {}]
  BY <1>1 DEF Init, Planned
<1>5. \A j \in Job, k \in Index : <<j, k>> \in Part
  BY DEF Part, Index
<1>6. Threads = [j \in Job |-> {}] /\ Finished = [j \in Job |-> {}]
  BY <1>1, <1>5 DEF Init, Threads, Finished
<1>7. JoinsComplete
  BY <1>2 DEF JoinsComplete
<1> QED
  BY <1>1, <1>3, <1>4, <1>6, <1>7 DEF Init, Abstract!Init

\* The split implements ForkJoin for any number of jobs, workers, subtasks and
\* rounds, whichever workers are lost, refuse, break or do not save.
THEOREM SplitRefines == Spec => RefinesForkJoin
<1>1. Spec => []JoinsComplete
  <2>1. TypeOK /\ MapInv /\ JoinsComplete /\ [Next]_vars => JoinsComplete'
    BY JoinsKept
  <2> QED
    BY <2>1, InitRefines, TypeCorrect, MapInvariance, PTL DEF Spec
<1>2. TypeOK /\ MapInv /\ JoinsComplete /\ [Next]_vars => [Abstract!Next]_(Abstract!vars)
  BY JoinRefines
<1> QED
  BY <1>1, <1>2, InitRefines, TypeCorrect, MapInvariance, PTL
     DEF Spec, RefinesForkJoin, Abstract!Spec
=============================================================================
