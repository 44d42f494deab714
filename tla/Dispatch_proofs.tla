-------------------------- MODULE Dispatch_proofs --------------------------
(***************************************************************************)
(* Theorems about Dispatch, for every value of its constants. Each lemma   *)
(* shows that every action preserves one part of the inductive invariant.  *)
(***************************************************************************)
EXTENDS Dispatch, TLAPS

USE DEF gcsVars, schedVars, execVars, evictVars, nodeVars, vars, Charge

(***************************************************************************)
(* The types.                                                              *)
(***************************************************************************)

\* The initial values have their types.
LEMMA InitType == Init => TypeOK
<1> SUFFICES ASSUME Init PROVE TypeOK
  OBVIOUS
<1>1. queue \in Seq(Task) /\ deferred \in Seq(Task) /\ counter \in 0..MaxTask
  BY BoundAssumption, EmptySeq DEF Init
<1>2. node \in [Worker -> NodeState] /\ runner \in [Worker -> Run]
  BY DEF Init, NodeState, Run, NoRun, NoTask
<1>3. pc \in [Task -> ExecutorPC] /\ spc \in SchedulerPC /\ scaling \in BOOLEAN
  BY DEF Init, ExecutorPC, SchedulerPC
<1> QED
  BY <1>1, <1>2, <1>3 DEF Init, TypeOK

\* Stopping a container leaves its state and its runner in their types.
LEMMA StopType ==
  ASSUME TypeOK, NEW w, NEW result \in NodeState, StopContainer(w, result)
  PROVE  node' \in [Worker -> NodeState] /\ runner' \in [Worker -> Run]
  BY DEF TypeOK, StopContainer, NodeState, Run, NoRun, Task, NoTask

\* Every step of every thread keeps the types: one case per action.
LEMMA NextType ==
  ASSUME TypeOK, SchedulerLocals, [Next]_vars
  PROVE  TypeOK'
<1>1. CASE FastTick
  BY <1>1 DEF FastTick, TypeOK, SchedulerPC
<1>2. CASE ScaleTick
  BY <1>2 DEF ScaleTick, TypeOK, SchedulerPC
<1>3. ASSUME NEW D \in SUBSET Spot, CollectDead(D)
      PROVE  TypeOK'
  BY <1>3 DEF CollectDead, TypeOK, SchedulerPC, Drop
<1>4. ASSUME NEW w \in Spot, NEW result \in NodeState, Reap(w, result)
      PROVE  TypeOK'
  BY <1>4, StopType DEF Reap, TypeOK, SchedulerPC
<1>5. ASSUME NEW n \in BatchSizes \cup {0}, Generate(n)
      PROVE  TypeOK'
  <2>1. n \in Nat /\ counter \in Nat /\ counter + n \in 0..MaxTask
    BY <1>5, BoundAssumption DEF Generate, TypeOK
  <2>2. [i \in 1..n |-> counter + i] \in Seq((counter + 1)..(counter + n))
    BY <2>1, BatchSet
  <2>3. (counter + 1)..(counter + n) \subseteq Task
    BY <2>1, BoundAssumption DEF Task
  <2>4. [i \in 1..n |-> counter + i] \in Seq(Task)
    BY <2>2, <2>3, SeqMonotonic
  <2>5. queue' \in Seq(Task)
    BY <2>4, <1>5, ConcatSet DEF Generate, TypeOK
  <2> QED
    BY <1>5, <2>1, <2>5 DEF Generate, TypeOK, SchedulerPC
<1>6. ASSUME NEW W \in SUBSET Spot, Launch(W)
      PROVE  TypeOK'
  BY <1>6 DEF Launch, TypeOK, SchedulerPC, NodeState
<1>7. CASE NoScaling
  BY <1>7 DEF NoScaling, TypeOK, SchedulerPC
<1>8. ASSUME NEW w \in Spot, ScaleInChoose(w)
      PROVE  TypeOK'
  BY <1>8 DEF ScaleInChoose, TypeOK, SchedulerPC
<1>9. ASSUME NEW result \in NodeState, ScaleInStop(result)
      PROVE  TypeOK'
  BY <1>9, StopType DEF ScaleInStop, TypeOK, SchedulerPC
<1>10. CASE ScaleInDrop
  BY <1>10 DEF ScaleInDrop, TypeOK, SchedulerPC, Drop
<1>11. CASE Pick
  <2>1. PICK i \in 1..Len(queue) : hand' = queue[i] /\ queue' = RemoveAt(queue, i)
    BY <1>11 DEF Pick
  <2>2. queue' \in Seq(Task) /\ hand' \in Task
    BY <2>1, RemoveAtElements, ElementOfSeq DEF TypeOK
  <2> QED
    BY <1>11, <2>2 DEF Pick, TypeOK, SchedulerPC
<1>12. CASE EndLoop
  BY <1>12 DEF EndLoop, TypeOK, SchedulerPC
<1>13. ASSUME NEW fit \in FitSets, NEW w \in Worker, Place(fit, w)
      PROVE  TypeOK'
  BY <1>13 DEF Place, TypeOK, SchedulerPC, ExecutorPC, NoTask
<1>14. ASSUME NEW fit \in FitSets, Defer(fit)
      PROVE  TypeOK'
  <2>1. hand \in Task => deferred' \in Seq(Task)
    BY <1>14, AppendSet DEF Defer, TypeOK
  <2>2. hand \in Task
    BY <1>14 DEF Defer, SchedulerLocals, TypeOK
  <2> QED
    BY <1>14, <2>1, <2>2 DEF Defer, TypeOK, SchedulerPC
<1>15. CASE Restore
  <2>1. queue' \in Seq(Task) /\ deferred' \in Seq(Task)
    BY <1>15, ConcatSet, EmptySeq DEF Restore, TypeOK
  <2> QED
    BY <1>15, <2>1 DEF Restore, TypeOK, SchedulerPC
<1>16. ASSUME NEW t \in Task, Begin(t)
      PROVE  TypeOK'
  BY <1>16 DEF Begin, TypeOK, Goto, ExecutorPC
<1>17. ASSUME NEW t \in Task, Assign(t)
      PROVE  TypeOK'
  BY <1>17 DEF Assign, TypeOK, Goto, ExecutorPC, Run, Task, NoTask
<1>18. ASSUME NEW t \in Task, AssignReplyLost(t)
      PROVE  TypeOK'
  BY <1>18 DEF AssignReplyLost, TypeOK, Goto, ExecutorPC, Run, Task, NoTask
<1>19. ASSUME NEW t \in Task, CheckRegistry(t)
      PROVE  TypeOK'
  BY <1>19 DEF CheckRegistry, TypeOK, Goto, ExecutorPC
<1>20. ASSUME NEW t \in Task, Query(t)
      PROVE  TypeOK'
  BY <1>20 DEF Query, TypeOK, Goto, ExecutorPC
<1>21. ASSUME NEW t \in Task, RpcLost(t)
      PROVE  TypeOK'
  BY <1>21 DEF RpcLost, TypeOK, Goto, ExecutorPC
<1>22. ASSUME NEW t \in Task, Release(t)
      PROVE  TypeOK'
  BY <1>22 DEF Release, TypeOK, Goto, ExecutorPC
<1>23. ASSUME NEW t \in Task, Requeue(t)
      PROVE  TypeOK'
  <2>1. queue' \in Seq(Task)
    BY <1>23, AppendSet DEF Requeue, TypeOK
  <2> QED
    BY <1>23, <2>1 DEF Requeue, TypeOK, ExecutorPC, Goto
<1>24. ASSUME NEW W \in SUBSET Spot, EvictSnapshot(W)
      PROVE  TypeOK'
  BY <1>24 DEF EvictSnapshot, TypeOK
<1>25. ASSUME NEW w \in Spot, EvictDrop(w)
      PROVE  TypeOK'
  BY <1>25 DEF EvictDrop, TypeOK, Drop
<1>26. ASSUME NEW result \in NodeState, EvictStop(result)
      PROVE  TypeOK'
  BY <1>26, StopType DEF EvictStop, TypeOK
<1>27. ASSUME NEW w \in Worker, Register(w)
      PROVE  TypeOK'
  BY <1>27 DEF Register, TypeOK, NodeState
<1>28. ASSUME NEW w \in Worker, NEW status \in {"SUCCESS", "FAILED"},
             Finish(w, status)
      PROVE  TypeOK'
  BY <1>28 DEF Finish, TypeOK, Run, Task, NoTask
<1>29. ASSUME NEW w \in Worker, Crash(w)
      PROVE  TypeOK'
  BY <1>29 DEF Crash, TypeOK, NodeState, Run, NoRun, Task, NoTask
<1>30. ASSUME NEW w \in Worker, Leave(w)
      PROVE  TypeOK'
  BY <1>30 DEF Leave, TypeOK, Drop, NodeState, Run, NoRun, Task, NoTask, Spot
<1>31. CASE UNCHANGED vars
  BY <1>31 DEF TypeOK
<1> QED
  BY <1>1, <1>2, <1>3, <1>4, <1>5, <1>6, <1>7, <1>8, <1>9, <1>10, <1>11,
     <1>12, <1>13, <1>14, <1>15, <1>16, <1>17, <1>18, <1>19, <1>20, <1>21,
     <1>22, <1>23, <1>24, <1>25, <1>26, <1>27, <1>28, <1>29, <1>30, <1>31
     DEF Next, SchedulerStep, ExecutorStep, EvictionStep, WorkerStep, Fault

(***************************************************************************)
(* The scheduler thread's locals and the binding of executor threads.      *)
(***************************************************************************)

\* The scheduler thread has a task in hand exactly while it places it.
LEMMA NextLocals ==
  ASSUME TypeOK, SchedulerLocals, [Next]_vars
  PROVE  SchedulerLocals'
<1> USE DEF SchedulerLocals, TypeOK, Task, NoTask
<1>1. CASE SchedulerStep
  <2>1. CASE Pick
    <3>1. PICK i \in 1..Len(queue) : hand' = queue[i]
      BY <2>1 DEF Pick
    <3>2. hand' \in Task
      BY <3>1, ElementOfSeq
    <3> QED
      BY <2>1, <3>2 DEF Pick
  <2>2. CASE \E fit \in FitSets, w \in Worker : Place(fit, w)
    BY <2>2 DEF Place
  <2>3. CASE \E fit \in FitSets : Defer(fit)
    BY <2>3 DEF Defer
  <2>4. CASE FastTick \/ ScaleTick \/ NoScaling \/ EndLoop \/ Restore
    BY <2>4 DEF FastTick, ScaleTick, NoScaling, EndLoop, Restore
  <2>5. CASE \/ \E D \in SUBSET Spot : CollectDead(D)
             \/ \E w \in Spot, result \in NodeState : Reap(w, result)
             \/ \E n \in BatchSizes \cup {0} : Generate(n)
    BY <2>5 DEF CollectDead, Reap, Generate
  <2>6. CASE \/ \E W \in SUBSET Spot : Launch(W)
             \/ \E w \in Spot : ScaleInChoose(w)
             \/ \E result \in NodeState : ScaleInStop(result)
             \/ ScaleInDrop
    BY <2>6 DEF Launch, ScaleInChoose, ScaleInStop, ScaleInDrop
  <2> QED
    BY <1>1, <2>1, <2>2, <2>3, <2>4, <2>5, <2>6 DEF SchedulerStep
<1>2. ASSUME NEW t \in Task, ExecutorStep(t) PROVE SchedulerLocals'
  BY <1>2 DEF ExecutorStep, Begin, Assign, CheckRegistry, Query, Release, Requeue
<1>3. CASE EvictionStep
  BY <1>3 DEF EvictionStep, EvictDrop, EvictStop
<1>4. ASSUME NEW w \in Worker, WorkerStep(w) PROVE SchedulerLocals'
  BY <1>4 DEF WorkerStep, Register, Finish
<1>5. CASE Fault
  BY <1>5 DEF Fault, AssignReplyLost, RpcLost, Finish, Crash, Leave, EvictSnapshot
<1>6. CASE UNCHANGED vars
  BY <1>6
<1> QED
  BY <1>1, <1>2, <1>3, <1>4, <1>5, <1>6 DEF Next

\* The task in the scheduler's hand has no thread.
LEMMA HandIsFree ==
  ASSUME TypeOK, NothingDuplicated, SchedulerLocals, spc = "place"
  PROVE  hand \in Task /\ hand \notin Running
  BY DEF TypeOK, NothingDuplicated, SchedulerLocals, Held

\* A thread is bound to a worker from its start to its finally block.
LEMMA NextBinding ==
  ASSUME TypeOK, NothingDuplicated, SchedulerLocals, ThreadBinding, [Next]_vars
  PROVE  ThreadBinding'
<1> USE DEF ThreadBinding, TypeOK
<1>1. ASSUME NEW fit \in FitSets, NEW w \in Worker, Place(fit, w)
      PROVE  ThreadBinding'
  <2>1. hand \in Task /\ pc[hand] = "none"
    BY <1>1, HandIsFree DEF Place, Running
  <2> QED
    BY <1>1, <2>1, WorkerAssumption DEF Place
<1>2. ASSUME SchedulerStep, ~\E fit \in FitSets, w \in Worker : Place(fit, w)
      PROVE  ThreadBinding'
  <2>1. UNCHANGED <<pc, on>>
    BY <1>2 DEF SchedulerStep, FastTick, ScaleTick, CollectDead, Reap, Generate,
       Launch, NoScaling, ScaleInChoose, ScaleInStop, ScaleInDrop, Pick, EndLoop,
       Defer, Restore
  <2> QED
    BY <2>1
<1>3. ASSUME NEW t \in Task, Begin(t) \/ Assign(t) \/ CheckRegistry(t) \/ Query(t)
      PROVE  ThreadBinding'
  BY <1>3 DEF Begin, Assign, CheckRegistry, Query, Goto
<1>4. ASSUME NEW t \in Task, Release(t) PROVE ThreadBinding'
  BY <1>4 DEF Release, Goto
<1>5. ASSUME NEW t \in Task, Requeue(t) PROVE ThreadBinding'
  BY <1>5 DEF Requeue, Goto
<1>6. ASSUME NEW t \in Task, AssignReplyLost(t) \/ RpcLost(t) PROVE ThreadBinding'
  BY <1>6 DEF AssignReplyLost, RpcLost, Goto
<1>7. CASE EvictionStep
  BY <1>7 DEF EvictionStep, EvictDrop, EvictStop
<1>8. ASSUME NEW w \in Worker, WorkerStep(w) PROVE ThreadBinding'
  BY <1>8 DEF WorkerStep, Register, Finish
<1>9. CASE \/ \E w \in Worker : Finish(w, "FAILED") \/ Crash(w) \/ Leave(w)
           \/ \E W \in SUBSET Spot : EvictSnapshot(W)
  BY <1>9 DEF Finish, Crash, Leave, EvictSnapshot
<1>10. CASE UNCHANGED vars
  BY <1>10
<1> QED
  BY <1>1, <1>2, <1>3, <1>4, <1>5, <1>6, <1>7, <1>8, <1>9, <1>10
  DEF Next, ExecutorStep, Fault

(***************************************************************************)
(* No task is lost and none is in two places.                              *)
(***************************************************************************)

\* A step that moves no task.
LEMMA NoTaskMoves ==
  ASSUME NothingLost, NothingDuplicated, Running' = Running,
         UNCHANGED <<queue, counter, completed, hand, deferred>>
  PROVE  NothingLost' /\ NothingDuplicated'
  BY DEF NothingLost, NothingDuplicated, Queued, Put, Held

\* generate_mock_tasks: the new numbers are in no other place.
LEMMA GenerateAccounting ==
  ASSUME TypeOK, NothingLost, NothingDuplicated,
         NEW n \in BatchSizes \cup {0}, Generate(n)
  PROVE  NothingLost' /\ NothingDuplicated'
<1> DEFINE batch == [i \in 1..n |-> counter + i]
           new   == (counter + 1)..(counter + n)
<1>1. n \in Nat /\ counter \in Nat /\ counter + n <= MaxTask
  BY BoundAssumption DEF Generate, TypeOK
<1>2. batch \in Seq(new) /\ ToSet(batch) = new /\ Distinct(batch)
  BY <1>1, BatchSet
<1>3. batch \in Seq(Task)
  <2>1. new \subseteq Task
    BY <1>1, BoundAssumption DEF Task
  <2> QED
    BY <2>1, <1>2, SeqMonotonic
<1>4. new \cap 1..counter = {} /\ 1..(counter + n) = 1..counter \cup new
  BY <1>1
<1>5. new \cap (Queued \cup Held \cup Put \cup Running \cup completed) = {}
  BY <1>4 DEF NothingLost
<1> HIDE DEF batch, new
<1>6. /\ queue' = queue \o batch /\ counter' = counter + n
      /\ UNCHANGED <<completed, hand, deferred, pc>>
  BY DEF Generate, batch
<1>7. Queued' = Queued \cup new /\ Distinct(queue)'
  BY <1>2, <1>3, <1>5, <1>6, ConcatSet DEF TypeOK, NothingDuplicated, Queued
<1>8. UNCHANGED <<Held, Put, Running, completed>> /\ Distinct(deferred)'
  BY <1>6 DEF Held, Put, Running, NothingDuplicated
<1>9. NothingLost'
  BY <1>4, <1>6, <1>7, <1>8 DEF NothingLost
<1> QED
  BY <1>5, <1>7, <1>8, <1>9 DEF NothingDuplicated

\* get_next_runnable_task moves one task from the queue to the hand.
LEMMA PickAccounting ==
  ASSUME TypeOK, NothingLost, NothingDuplicated, SchedulerLocals, Pick
  PROVE  NothingLost' /\ NothingDuplicated'
<1>1. PICK i \in 1..Len(queue) : hand' = queue[i] /\ queue' = RemoveAt(queue, i)
  BY DEF Pick
<1>2. queue[i] \in Task /\ queue[i] \in Queued
  BY ElementOfSeq, LenProperties DEF TypeOK, Queued, ToSet
<1>3. Queued' = Queued \ {queue[i]} /\ Distinct(queue)'
  BY <1>1, RemoveAtSet DEF TypeOK, NothingDuplicated, Queued
<1>4. Held = {}
  BY DEF Held, SchedulerLocals, Pick
<1>5. Held' = {queue[i]}
  BY <1>1, <1>2, BoundAssumption DEF Held, Task, NoTask
<1>6. UNCHANGED <<counter, completed, deferred, Put, Running>>
  BY DEF Pick, Put, Running
<1>7. NothingLost'
  BY <1>2, <1>3, <1>4, <1>5, <1>6 DEF NothingLost
<1> QED
  BY <1>2, <1>3, <1>5, <1>6, <1>7 DEF NothingDuplicated

\* Starting the executor moves the task from the hand to its thread.
LEMMA PlaceAccounting ==
  ASSUME TypeOK, NothingLost, NothingDuplicated, SchedulerLocals,
         NEW fit \in FitSets, NEW w \in Worker, Place(fit, w)
  PROVE  NothingLost' /\ NothingDuplicated'
<1>1. hand \in Task /\ hand \notin Running
  BY HandIsFree DEF Place
<1>2. Held = {hand} /\ Held' = {}
  BY <1>1, BoundAssumption DEF Held, Place, Task, NoTask
<1>3. Running' = Running \cup {hand}
  BY <1>1 DEF Running, Place, TypeOK
<1>4. UNCHANGED <<queue, counter, completed, deferred, Queued, Put>>
  BY DEF Place, Queued, Put
<1>5. NothingLost'
  BY <1>2, <1>3, <1>4 DEF NothingLost
<1> QED
  BY <1>2, <1>3, <1>4, <1>5 DEF NothingDuplicated

\* Deferring moves the task from the hand to deferred_tasks.
LEMMA DeferAccounting ==
  ASSUME TypeOK, NothingLost, NothingDuplicated, SchedulerLocals,
         NEW fit \in FitSets, Defer(fit)
  PROVE  NothingLost' /\ NothingDuplicated'
<1>1. hand \in Task
  BY HandIsFree DEF Defer
<1>2. Held = {hand} /\ Held' = {}
  BY <1>1, BoundAssumption DEF Held, Defer, Task, NoTask
<1>3. hand \notin Put
  BY <1>2 DEF NothingDuplicated
<1>4. Put' = Put \cup {hand} /\ Distinct(deferred)'
  BY <1>1, <1>3, AppendSet DEF Defer, TypeOK, NothingDuplicated, Put
<1>5. UNCHANGED <<queue, counter, completed, Queued, Running>>
  BY DEF Defer, Queued, Running
<1>6. NothingLost'
  BY <1>2, <1>4, <1>5 DEF NothingLost
<1> QED
  BY <1>2, <1>4, <1>5, <1>6 DEF NothingDuplicated

\* The restored tasks are in the queue and no longer deferred.
LEMMA RestoreAccounting ==
  ASSUME TypeOK, NothingLost, NothingDuplicated, Restore
  PROVE  NothingLost' /\ NothingDuplicated'
<1>1. Queued' = Queued \cup Put /\ Distinct(queue)'
  BY ConcatSet DEF Restore, TypeOK, NothingDuplicated, Queued, Put
<1>2. Put' = {} /\ Distinct(deferred)'
  BY DEF Restore, Put, ToSet, Distinct
<1>3. UNCHANGED <<counter, completed, Held, Running>>
  BY DEF Restore, Held, Running
<1>4. NothingLost'
  BY <1>1, <1>2, <1>3 DEF NothingLost
<1> QED
  BY <1>1, <1>2, <1>3, <1>4 DEF NothingDuplicated

\* The finally block completes the task or leaves it with its thread.
LEMMA ReleaseAccounting ==
  ASSUME TypeOK, NothingLost, NothingDuplicated, NEW t \in Task, Release(t)
  PROVE  NothingLost' /\ NothingDuplicated'
<1>1. t \in Running
  BY DEF Release, Running
<1>2. UNCHANGED <<queue, counter, deferred, Queued, Held, Put>>
  BY DEF Release, Queued, Held, Put
<1>3. CASE pc[t] = "ok"
  <2>1. Running' = Running \ {t} /\ completed' = completed \cup {t}
    BY <1>3 DEF Release, Goto, Running, TypeOK
  <2>2. NothingLost'
    BY <1>1, <1>2, <2>1 DEF NothingLost
  <2> QED
    BY <1>1, <1>2, <2>1, <2>2 DEF NothingDuplicated
<1>4. CASE pc[t] # "ok"
  <2>1. Running' = Running /\ completed' = completed
    BY <1>4 DEF Release, Goto, Running, TypeOK
  <2> QED
    BY <1>2, <2>1, NoTaskMoves DEF Release
<1> QED
  BY <1>3, <1>4

\* The failure path moves the task from its thread to the queue.
LEMMA RequeueAccounting ==
  ASSUME TypeOK, NothingLost, NothingDuplicated, NEW t \in Task, Requeue(t)
  PROVE  NothingLost' /\ NothingDuplicated'
<1>1. t \in Running
  BY DEF Requeue, Running
<1>2. Running' = Running \ {t}
  BY DEF Requeue, Goto, Running, TypeOK
<1>3. t \notin Queued
  BY <1>1 DEF NothingDuplicated
<1>4. Queued' = Queued \cup {t} /\ Distinct(queue)'
  BY <1>3, AppendSet DEF Requeue, TypeOK, NothingDuplicated, Queued
<1>5. UNCHANGED <<counter, completed, deferred, Held, Put>>
  BY DEF Requeue, Held, Put
<1>6. NothingLost'
  BY <1>1, <1>2, <1>4, <1>5 DEF NothingLost
<1> QED
  BY <1>1, <1>2, <1>4, <1>5, <1>6 DEF NothingDuplicated

\* Every step keeps each created task in exactly one place.
LEMMA NextAccounting ==
  ASSUME TypeOK, NothingLost, NothingDuplicated, SchedulerLocals, [Next]_vars
  PROVE  NothingLost' /\ NothingDuplicated'
<1>1. CASE FastTick
  BY <1>1, NoTaskMoves DEF FastTick, Running
<1>2. CASE ScaleTick
  BY <1>2, NoTaskMoves DEF ScaleTick, Running
<1>3. ASSUME NEW D \in SUBSET Spot, CollectDead(D)
      PROVE  NothingLost' /\ NothingDuplicated'
  BY <1>3, NoTaskMoves DEF CollectDead, Running
<1>4. ASSUME NEW w \in Spot, NEW result \in NodeState, Reap(w, result)
      PROVE  NothingLost' /\ NothingDuplicated'
  BY <1>4, NoTaskMoves DEF Reap, Running
<1>5. ASSUME NEW n \in BatchSizes \cup {0}, Generate(n)
      PROVE  NothingLost' /\ NothingDuplicated'
  BY <1>5, GenerateAccounting
<1>6. ASSUME NEW W \in SUBSET Spot, Launch(W)
      PROVE  NothingLost' /\ NothingDuplicated'
  BY <1>6, NoTaskMoves DEF Launch, Running
<1>7. CASE NoScaling
  BY <1>7, NoTaskMoves DEF NoScaling, Running
<1>8. ASSUME NEW w \in Spot, ScaleInChoose(w)
      PROVE  NothingLost' /\ NothingDuplicated'
  BY <1>8, NoTaskMoves DEF ScaleInChoose, Running
<1>9. ASSUME NEW result \in NodeState, ScaleInStop(result)
      PROVE  NothingLost' /\ NothingDuplicated'
  BY <1>9, NoTaskMoves DEF ScaleInStop, Running
<1>10. CASE ScaleInDrop
  BY <1>10, NoTaskMoves DEF ScaleInDrop, Running
<1>11. CASE Pick
  BY <1>11, PickAccounting
<1>12. CASE EndLoop
  BY <1>12, NoTaskMoves DEF EndLoop, Running
<1>13. ASSUME NEW fit \in FitSets, NEW w \in Worker, Place(fit, w)
      PROVE  NothingLost' /\ NothingDuplicated'
  BY <1>13, PlaceAccounting
<1>14. ASSUME NEW fit \in FitSets, Defer(fit)
      PROVE  NothingLost' /\ NothingDuplicated'
  BY <1>14, DeferAccounting
<1>15. CASE Restore
  BY <1>15, RestoreAccounting
<1>16. ASSUME NEW t \in Task, Begin(t)
      PROVE  NothingLost' /\ NothingDuplicated'
  BY <1>16, NoTaskMoves DEF Begin, TypeOK, Running, Goto
<1>17. ASSUME NEW t \in Task, Assign(t)
      PROVE  NothingLost' /\ NothingDuplicated'
  BY <1>17, NoTaskMoves DEF Assign, TypeOK, Running, Goto
<1>18. ASSUME NEW t \in Task, AssignReplyLost(t)
      PROVE  NothingLost' /\ NothingDuplicated'
  BY <1>18, NoTaskMoves DEF AssignReplyLost, TypeOK, Running, Goto
<1>19. ASSUME NEW t \in Task, CheckRegistry(t)
      PROVE  NothingLost' /\ NothingDuplicated'
  BY <1>19, NoTaskMoves DEF CheckRegistry, TypeOK, Running, Goto
<1>20. ASSUME NEW t \in Task, Query(t)
      PROVE  NothingLost' /\ NothingDuplicated'
  BY <1>20, NoTaskMoves DEF Query, TypeOK, Running, Goto
<1>21. ASSUME NEW t \in Task, RpcLost(t)
      PROVE  NothingLost' /\ NothingDuplicated'
  BY <1>21, NoTaskMoves DEF RpcLost, TypeOK, Running, Goto
<1>22. ASSUME NEW t \in Task, Release(t)
      PROVE  NothingLost' /\ NothingDuplicated'
  BY <1>22, ReleaseAccounting
<1>23. ASSUME NEW t \in Task, Requeue(t)
      PROVE  NothingLost' /\ NothingDuplicated'
  BY <1>23, RequeueAccounting
<1>24. ASSUME NEW W \in SUBSET Spot, EvictSnapshot(W)
      PROVE  NothingLost' /\ NothingDuplicated'
  BY <1>24, NoTaskMoves DEF EvictSnapshot, Running
<1>25. ASSUME NEW w \in Spot, EvictDrop(w)
      PROVE  NothingLost' /\ NothingDuplicated'
  BY <1>25, NoTaskMoves DEF EvictDrop, Running
<1>26. ASSUME NEW result \in NodeState, EvictStop(result)
      PROVE  NothingLost' /\ NothingDuplicated'
  BY <1>26, NoTaskMoves DEF EvictStop, Running
<1>27. ASSUME NEW w \in Worker, Register(w)
      PROVE  NothingLost' /\ NothingDuplicated'
  BY <1>27, NoTaskMoves DEF Register, Running
<1>28. ASSUME NEW w \in Worker, NEW status \in {"SUCCESS", "FAILED"},
             Finish(w, status)
      PROVE  NothingLost' /\ NothingDuplicated'
  BY <1>28, NoTaskMoves DEF Finish, Running
<1>29. ASSUME NEW w \in Worker, Crash(w)
      PROVE  NothingLost' /\ NothingDuplicated'
  BY <1>29, NoTaskMoves DEF Crash, Running
<1>30. ASSUME NEW w \in Worker, Leave(w)
      PROVE  NothingLost' /\ NothingDuplicated'
  BY <1>30, NoTaskMoves DEF Leave, Running
<1>31. CASE UNCHANGED vars
  BY <1>31, NoTaskMoves DEF Running
<1> QED
  BY <1>1, <1>2, <1>3, <1>4, <1>5, <1>6, <1>7, <1>8, <1>9, <1>10, <1>11,
     <1>12, <1>13, <1>14, <1>15, <1>16, <1>17, <1>18, <1>19, <1>20, <1>21,
     <1>22, <1>23, <1>24, <1>25, <1>26, <1>27, <1>28, <1>29, <1>30, <1>31
     DEF Next, SchedulerStep, ExecutorStep, EvictionStep, WorkerStep, Fault

(***************************************************************************)
(* The claims on workers.                                                  *)
(***************************************************************************)

\* Behind a claim on a worker there is a thread that will release it.
LEMMA NextNoLeak ==
  ASSUME TypeOK, NothingDuplicated, SchedulerLocals, ThreadBinding, NoLeakedClaim,
         [Next]_vars
  PROVE  NoLeakedClaim'
<1>1. CASE FastTick
  BY <1>1 DEF FastTick, NoLeakedClaim, TypeOK
<1>2. CASE ScaleTick
  BY <1>2 DEF ScaleTick, NoLeakedClaim, TypeOK
<1>3. ASSUME NEW D \in SUBSET Spot, CollectDead(D)
      PROVE  NoLeakedClaim'
  BY <1>3 DEF CollectDead, NoLeakedClaim, TypeOK, Drop, Registered
<1>4. ASSUME NEW w \in Spot, NEW result \in NodeState, Reap(w, result)
      PROVE  NoLeakedClaim'
  BY <1>4 DEF Reap, NoLeakedClaim, TypeOK, StopContainer
<1>5. ASSUME NEW n \in BatchSizes \cup {0}, Generate(n)
      PROVE  NoLeakedClaim'
  BY <1>5 DEF Generate, NoLeakedClaim, TypeOK
<1>6. ASSUME NEW W \in SUBSET Spot, Launch(W)
      PROVE  NoLeakedClaim'
  BY <1>6 DEF Launch, NoLeakedClaim, TypeOK, Registered
<1>7. CASE NoScaling
  BY <1>7 DEF NoScaling, NoLeakedClaim, TypeOK
<1>8. ASSUME NEW w \in Spot, ScaleInChoose(w)
      PROVE  NoLeakedClaim'
  BY <1>8 DEF ScaleInChoose, NoLeakedClaim, TypeOK
<1>9. ASSUME NEW result \in NodeState, ScaleInStop(result)
      PROVE  NoLeakedClaim'
  BY <1>9 DEF ScaleInStop, NoLeakedClaim, TypeOK, StopContainer
<1>10. CASE ScaleInDrop
  BY <1>10 DEF ScaleInDrop, NoLeakedClaim, TypeOK, Drop
<1>11. CASE Pick
  BY <1>11 DEF Pick, NoLeakedClaim, TypeOK
<1>12. CASE EndLoop
  BY <1>12 DEF EndLoop, NoLeakedClaim, TypeOK
<1>13. ASSUME NEW fit \in FitSets, NEW w \in Worker, Place(fit, w)
      PROVE  NoLeakedClaim'
  <2>1. hand \in Task /\ on[hand] = NoWorker
    BY <1>13, HandIsFree DEF Place, Running, ThreadBinding
  <2>2. on'[hand] = w /\ \A t \in Task \ {hand} : on'[t] = on[t]
    BY <1>13, <2>1 DEF Place, TypeOK
  <2>3. ASSUME NEW v \in Worker, registry'[v] = "BUSY"
        PROVE  \E t \in Task : on'[t] = v
    <3>1. CASE v = w
      BY <2>1, <2>2, <3>1
    <3>2. CASE v # w
      <4>1. registry[v] = "BUSY"
        BY <1>13, <2>3, <3>2 DEF Place, TypeOK
      <4> QED
        BY <4>1, <2>1, <2>2, WorkerAssumption DEF NoLeakedClaim
    <3> QED
      BY <3>1, <3>2
  <2> QED
    BY <2>3 DEF NoLeakedClaim
<1>14. ASSUME NEW fit \in FitSets, Defer(fit)
      PROVE  NoLeakedClaim'
  BY <1>14 DEF Defer, NoLeakedClaim, TypeOK
<1>15. CASE Restore
  BY <1>15 DEF Restore, NoLeakedClaim, TypeOK
<1>16. ASSUME NEW t \in Task, Begin(t)
      PROVE  NoLeakedClaim'
  BY <1>16 DEF Begin, NoLeakedClaim, TypeOK, Goto, Registered
<1>17. ASSUME NEW t \in Task, Assign(t)
      PROVE  NoLeakedClaim'
  BY <1>17 DEF Assign, NoLeakedClaim, TypeOK, Goto, Reachable
<1>18. ASSUME NEW t \in Task, AssignReplyLost(t)
      PROVE  NoLeakedClaim'
  BY <1>18 DEF AssignReplyLost, NoLeakedClaim, TypeOK, Goto, Reachable
<1>19. ASSUME NEW t \in Task, CheckRegistry(t)
      PROVE  NoLeakedClaim'
  BY <1>19 DEF CheckRegistry, NoLeakedClaim, TypeOK, Goto, Registered
<1>20. ASSUME NEW t \in Task, Query(t)
      PROVE  NoLeakedClaim'
  BY <1>20 DEF Query, NoLeakedClaim, TypeOK, Goto, Reachable
<1>21. ASSUME NEW t \in Task, RpcLost(t)
      PROVE  NoLeakedClaim'
  BY <1>21 DEF RpcLost, NoLeakedClaim, TypeOK, Goto
<1>22. ASSUME NEW t \in Task, Release(t)
      PROVE  NoLeakedClaim'
  <2>1. registry'[on[t]] # "BUSY" \/ on[t] \notin Worker
    BY <1>22 DEF Release, Registered, TypeOK
  <2>2. ASSUME NEW v \in Worker, registry'[v] = "BUSY"
        PROVE  \E u \in Task : on'[u] = v
    <3>1. v # on[t] /\ registry[v] = "BUSY"
      BY <1>22, <2>1, <2>2 DEF Release, Registered, TypeOK
    <3>2. PICK u \in Task : on[u] = v
      BY <3>1 DEF NoLeakedClaim
    <3> QED
      BY <1>22, <3>1, <3>2 DEF Release, TypeOK
  <2> QED
    BY <2>2 DEF NoLeakedClaim
<1>23. ASSUME NEW t \in Task, Requeue(t)
      PROVE  NoLeakedClaim'
  BY <1>23 DEF Requeue, NoLeakedClaim, TypeOK, Goto
<1>24. ASSUME NEW W \in SUBSET Spot, EvictSnapshot(W)
      PROVE  NoLeakedClaim'
  BY <1>24 DEF EvictSnapshot, NoLeakedClaim, TypeOK, Registered
<1>25. ASSUME NEW w \in Spot, EvictDrop(w)
      PROVE  NoLeakedClaim'
  BY <1>25 DEF EvictDrop, NoLeakedClaim, TypeOK, Drop
<1>26. ASSUME NEW result \in NodeState, EvictStop(result)
      PROVE  NoLeakedClaim'
  BY <1>26 DEF EvictStop, NoLeakedClaim, TypeOK, StopContainer
<1>27. ASSUME NEW w \in Worker, Register(w)
      PROVE  NoLeakedClaim'
  BY <1>27 DEF Register, NoLeakedClaim, TypeOK, Registered, Unbound
<1>28. ASSUME NEW w \in Worker, NEW status \in {"SUCCESS", "FAILED"},
             Finish(w, status)
      PROVE  NoLeakedClaim'
  BY <1>28 DEF Finish, NoLeakedClaim, TypeOK
<1>29. ASSUME NEW w \in Worker, Crash(w)
      PROVE  NoLeakedClaim'
  BY <1>29 DEF Crash, NoLeakedClaim, TypeOK, Reachable
<1>30. ASSUME NEW w \in Worker, Leave(w)
      PROVE  NoLeakedClaim'
  BY <1>30 DEF Leave, NoLeakedClaim, TypeOK, Drop
<1>31. CASE UNCHANGED vars
  BY <1>31 DEF NoLeakedClaim
<1> QED
  BY <1>1, <1>2, <1>3, <1>4, <1>5, <1>6, <1>7, <1>8, <1>9, <1>10, <1>11,
     <1>12, <1>13, <1>14, <1>15, <1>16, <1>17, <1>18, <1>19, <1>20, <1>21,
     <1>22, <1>23, <1>24, <1>25, <1>26, <1>27, <1>28, <1>29, <1>30, <1>31
     DEF Next, SchedulerStep, ExecutorStep, EvictionStep, WorkerStep, Fault

\* A worker serves one thread, and its entry is not IDLE while it does.
LEMMA NextClaim ==
  ASSUME BootOutlastsPoll, TypeOK, NothingDuplicated, SchedulerLocals, ThreadBinding,
         ExclusiveClaim, [Next]_vars
  PROVE  ExclusiveClaim'
<1>1. CASE FastTick
  BY <1>1 DEF FastTick, ExclusiveClaim, TypeOK
<1>2. CASE ScaleTick
  BY <1>2 DEF ScaleTick, ExclusiveClaim, TypeOK
<1>3. ASSUME NEW D \in SUBSET Spot, CollectDead(D)
      PROVE  ExclusiveClaim'
  BY <1>3 DEF CollectDead, ExclusiveClaim, TypeOK, Drop, Registered
<1>4. ASSUME NEW w \in Spot, NEW result \in NodeState, Reap(w, result)
      PROVE  ExclusiveClaim'
  BY <1>4 DEF Reap, ExclusiveClaim, TypeOK, StopContainer
<1>5. ASSUME NEW n \in BatchSizes \cup {0}, Generate(n)
      PROVE  ExclusiveClaim'
  BY <1>5 DEF Generate, ExclusiveClaim, TypeOK
<1>6. ASSUME NEW W \in SUBSET Spot, Launch(W)
      PROVE  ExclusiveClaim'
  BY <1>6 DEF Launch, ExclusiveClaim, TypeOK, Registered
<1>7. CASE NoScaling
  BY <1>7 DEF NoScaling, ExclusiveClaim, TypeOK
<1>8. ASSUME NEW w \in Spot, ScaleInChoose(w)
      PROVE  ExclusiveClaim'
  BY <1>8 DEF ScaleInChoose, ExclusiveClaim, TypeOK
<1>9. ASSUME NEW result \in NodeState, ScaleInStop(result)
      PROVE  ExclusiveClaim'
  BY <1>9 DEF ScaleInStop, ExclusiveClaim, TypeOK, StopContainer
<1>10. CASE ScaleInDrop
  BY <1>10 DEF ScaleInDrop, ExclusiveClaim, TypeOK, Drop
<1>11. CASE Pick
  BY <1>11 DEF Pick, ExclusiveClaim, TypeOK
<1>12. CASE EndLoop
  BY <1>12 DEF EndLoop, ExclusiveClaim, TypeOK
<1>13. ASSUME NEW fit \in FitSets, NEW w \in Worker, Place(fit, w)
      PROVE  ExclusiveClaim'
  <2>1. hand \in Task /\ on[hand] = NoWorker
    BY <1>13, HandIsFree DEF Place, Running, ThreadBinding
  <2>2. on'[hand] = w /\ \A t \in Task \ {hand} : on'[t] = on[t]
    BY <1>13, <2>1 DEF Place, TypeOK
  <2>3. \A t \in Task : on[t] # w
    BY <1>13, WorkerAssumption DEF Place, Candidates, ExclusiveClaim
  <2>4. \A t, u \in Task : on'[t] = on'[u] /\ on'[t] # NoWorker => t = u
    BY <2>2, <2>3 DEF ExclusiveClaim
  <2>5. \A t \in Task : on'[t] # NoWorker => registry'[on'[t]] # "IDLE"
    BY <1>13, <2>2, <2>3 DEF Place, ExclusiveClaim, TypeOK
  <2> QED
    BY <2>4, <2>5 DEF ExclusiveClaim
<1>14. ASSUME NEW fit \in FitSets, Defer(fit)
      PROVE  ExclusiveClaim'
  BY <1>14 DEF Defer, ExclusiveClaim, TypeOK
<1>15. CASE Restore
  BY <1>15 DEF Restore, ExclusiveClaim, TypeOK
<1>16. ASSUME NEW t \in Task, Begin(t)
      PROVE  ExclusiveClaim'
  BY <1>16 DEF Begin, ExclusiveClaim, TypeOK, Goto, Registered
<1>17. ASSUME NEW t \in Task, Assign(t)
      PROVE  ExclusiveClaim'
  BY <1>17 DEF Assign, ExclusiveClaim, TypeOK, Goto, Reachable
<1>18. ASSUME NEW t \in Task, AssignReplyLost(t)
      PROVE  ExclusiveClaim'
  BY <1>18 DEF AssignReplyLost, ExclusiveClaim, TypeOK, Goto, Reachable
<1>19. ASSUME NEW t \in Task, CheckRegistry(t)
      PROVE  ExclusiveClaim'
  BY <1>19 DEF CheckRegistry, ExclusiveClaim, TypeOK, Goto, Registered
<1>20. ASSUME NEW t \in Task, Query(t)
      PROVE  ExclusiveClaim'
  BY <1>20 DEF Query, ExclusiveClaim, TypeOK, Goto, Reachable
<1>21. ASSUME NEW t \in Task, RpcLost(t)
      PROVE  ExclusiveClaim'
  BY <1>21 DEF RpcLost, ExclusiveClaim, TypeOK, Goto
<1>22. ASSUME NEW t \in Task, Release(t)
      PROVE  ExclusiveClaim'
  <2>1. on'[t] = NoWorker /\ \A u \in Task \ {t} : on'[u] = on[u]
    BY <1>22 DEF Release, TypeOK
  <2>2. \A u, v \in Task : on'[u] = on'[v] /\ on'[u] # NoWorker => u = v
    BY <2>1 DEF ExclusiveClaim
  <2>3. \A u \in Task \ {t} : on[u] # NoWorker => on[u] # on[t]
    BY DEF ExclusiveClaim
  <2>4. \A u \in Task : on'[u] # NoWorker => registry'[on'[u]] # "IDLE"
    BY <1>22, <2>1, <2>3 DEF Release, ExclusiveClaim, TypeOK
  <2> QED
    BY <2>2, <2>4 DEF ExclusiveClaim
<1>23. ASSUME NEW t \in Task, Requeue(t)
      PROVE  ExclusiveClaim'
  BY <1>23 DEF Requeue, ExclusiveClaim, TypeOK, Goto
<1>24. ASSUME NEW W \in SUBSET Spot, EvictSnapshot(W)
      PROVE  ExclusiveClaim'
  BY <1>24 DEF EvictSnapshot, ExclusiveClaim, TypeOK, Registered
<1>25. ASSUME NEW w \in Spot, EvictDrop(w)
      PROVE  ExclusiveClaim'
  BY <1>25 DEF EvictDrop, ExclusiveClaim, TypeOK, Drop
<1>26. ASSUME NEW result \in NodeState, EvictStop(result)
      PROVE  ExclusiveClaim'
  BY <1>26 DEF EvictStop, ExclusiveClaim, TypeOK, StopContainer
<1>27. ASSUME NEW w \in Worker, Register(w)
      PROVE  ExclusiveClaim'
  BY <1>27 DEF Register, ExclusiveClaim, TypeOK, Registered, Unbound
<1>28. ASSUME NEW w \in Worker, NEW status \in {"SUCCESS", "FAILED"},
             Finish(w, status)
      PROVE  ExclusiveClaim'
  BY <1>28 DEF Finish, ExclusiveClaim, TypeOK
<1>29. ASSUME NEW w \in Worker, Crash(w)
      PROVE  ExclusiveClaim'
  BY <1>29 DEF Crash, ExclusiveClaim, TypeOK, Reachable
<1>30. ASSUME NEW w \in Worker, Leave(w)
      PROVE  ExclusiveClaim'
  BY <1>30 DEF Leave, ExclusiveClaim, TypeOK, Drop
<1>31. CASE UNCHANGED vars
  BY <1>31 DEF ExclusiveClaim
<1> QED
  BY <1>1, <1>2, <1>3, <1>4, <1>5, <1>6, <1>7, <1>8, <1>9, <1>10, <1>11,
     <1>12, <1>13, <1>14, <1>15, <1>16, <1>17, <1>18, <1>19, <1>20, <1>21,
     <1>22, <1>23, <1>24, <1>25, <1>26, <1>27, <1>28, <1>29, <1>30, <1>31
     DEF Next, SchedulerStep, ExecutorStep, EvictionStep, WorkerStep, Fault

\* A polling thread asks for the task its worker holds.
LEMMA NextPoll ==
  ASSUME BootOutlastsPoll, TypeOK, NothingDuplicated, SchedulerLocals, ThreadBinding,
         ExclusiveClaim, PollFindsTask, [Next]_vars
  PROVE  PollFindsTask'
<1>0. \A t \in Task : pc[t] \in {"poll", "query"} => on[t] \in Worker
  BY DEF TypeOK, ThreadBinding
<1>1. CASE FastTick
  BY <1>1 DEF FastTick, PollFindsTask, TypeOK, Registered, Reachable
<1>2. CASE ScaleTick
  BY <1>2 DEF ScaleTick, PollFindsTask, TypeOK, Registered, Reachable
<1>3. ASSUME NEW D \in SUBSET Spot, CollectDead(D)
      PROVE  PollFindsTask'
  BY <1>3, <1>0 DEF CollectDead, PollFindsTask, TypeOK, Registered, Reachable,
     Drop
<1>4. ASSUME NEW w \in Spot, NEW result \in NodeState, Reap(w, result)
      PROVE  PollFindsTask'
  BY <1>4, <1>0 DEF Reap, PollFindsTask, TypeOK, Registered, Reachable,
     StopContainer
<1>5. ASSUME NEW n \in BatchSizes \cup {0}, Generate(n)
      PROVE  PollFindsTask'
  BY <1>5 DEF Generate, PollFindsTask, TypeOK, Registered, Reachable
<1>6. ASSUME NEW W \in SUBSET Spot, Launch(W)
      PROVE  PollFindsTask'
  BY <1>6, <1>0 DEF Launch, PollFindsTask, TypeOK, Registered, Reachable
<1>7. CASE NoScaling
  BY <1>7 DEF NoScaling, PollFindsTask, TypeOK, Registered, Reachable
<1>8. ASSUME NEW w \in Spot, ScaleInChoose(w)
      PROVE  PollFindsTask'
  BY <1>8 DEF ScaleInChoose, PollFindsTask, TypeOK, Registered, Reachable
<1>9. ASSUME NEW result \in NodeState, ScaleInStop(result)
      PROVE  PollFindsTask'
  BY <1>9, <1>0 DEF ScaleInStop, PollFindsTask, TypeOK, Registered, Reachable,
     StopContainer
<1>10. CASE ScaleInDrop
  BY <1>10, <1>0 DEF ScaleInDrop, PollFindsTask, TypeOK, Registered,
     Reachable, Drop
<1>11. CASE Pick
  BY <1>11 DEF Pick, PollFindsTask, TypeOK, Registered, Reachable
<1>12. CASE EndLoop
  BY <1>12 DEF EndLoop, PollFindsTask, TypeOK, Registered, Reachable
<1>13. ASSUME NEW fit \in FitSets, NEW w \in Worker, Place(fit, w)
      PROVE  PollFindsTask'
  <2>1. hand \in Task
    BY <1>13, HandIsFree DEF Place
  <2>2. pc'[hand] = "spawned" /\ \A t \in Task \ {hand} : pc'[t] = pc[t] /\ on'[t] = on[t]
    BY <1>13, <2>1 DEF Place, TypeOK
  <2>3. ASSUME NEW t \in Task, pc'[t] \in {"poll", "query"},
               registry'[on'[t]] # "ABSENT", node'[on'[t]] \in {"BOOTING", "UP"}
        PROVE  runner'[on'[t]].task = t
    <3>1. t # hand
      BY <2>2, <2>3
    <3>2. on[t] \in Worker
      BY <2>2, <2>3, <3>1 DEF TypeOK, ThreadBinding
    <3>3. registry[on[t]] # "ABSENT"
      BY <1>13, <2>2, <2>3, <3>1, <3>2 DEF Place, TypeOK, Candidates
    <3> QED
      BY <1>13, <2>2, <2>3, <3>1, <3>3 DEF Place, PollFindsTask, Registered,
         Reachable
  <2> QED
    BY <2>3 DEF PollFindsTask, Registered, Reachable
<1>14. ASSUME NEW fit \in FitSets, Defer(fit)
      PROVE  PollFindsTask'
  BY <1>14 DEF Defer, PollFindsTask, TypeOK, Registered, Reachable
<1>15. CASE Restore
  BY <1>15 DEF Restore, PollFindsTask, TypeOK, Registered, Reachable
<1>16. ASSUME NEW t \in Task, Begin(t)
      PROVE  PollFindsTask'
  BY <1>16 DEF Begin, Goto, PollFindsTask, TypeOK, ThreadBinding, Registered,
     Reachable
<1>17. ASSUME NEW t \in Task, Assign(t)
      PROVE  PollFindsTask'
  <2>1. on[t] \in Worker /\ \A u \in Task \ {t} : on[u] # on[t]
    BY <1>17 DEF Assign, ThreadBinding, ExclusiveClaim, TypeOK
  <2> QED
    BY <1>17, <2>1 DEF Assign, Goto, PollFindsTask, TypeOK, Registered,
       Reachable
<1>18. ASSUME NEW t \in Task, AssignReplyLost(t)
      PROVE  PollFindsTask'
  <2>1. on[t] \in Worker /\ \A u \in Task \ {t} : on[u] # on[t]
    BY <1>18 DEF AssignReplyLost, ThreadBinding, ExclusiveClaim, TypeOK
  <2> QED
    BY <1>18, <2>1 DEF AssignReplyLost, Goto, PollFindsTask, TypeOK,
       Registered, Reachable
<1>19. ASSUME NEW t \in Task, CheckRegistry(t)
      PROVE  PollFindsTask'
  BY <1>19 DEF CheckRegistry, PollFindsTask, TypeOK, Registered, Reachable,
     Goto
<1>20. ASSUME NEW t \in Task, Query(t)
      PROVE  PollFindsTask'
  BY <1>20 DEF Query, PollFindsTask, TypeOK, Registered, Reachable, Goto
<1>21. ASSUME NEW t \in Task, RpcLost(t)
      PROVE  PollFindsTask'
  BY <1>21 DEF RpcLost, PollFindsTask, TypeOK, Registered, Reachable, Goto
<1>22. ASSUME NEW t \in Task, Release(t)
      PROVE  PollFindsTask'
  BY <1>22 DEF Release, Goto, PollFindsTask, TypeOK, ThreadBinding,
     Registered, Reachable
<1>23. ASSUME NEW t \in Task, Requeue(t)
      PROVE  PollFindsTask'
  BY <1>23 DEF Requeue, PollFindsTask, TypeOK, Registered, Reachable, Goto
<1>24. ASSUME NEW W \in SUBSET Spot, EvictSnapshot(W)
      PROVE  PollFindsTask'
  BY <1>24, <1>0 DEF EvictSnapshot, PollFindsTask, TypeOK, Registered,
     Reachable
<1>25. ASSUME NEW w \in Spot, EvictDrop(w)
      PROVE  PollFindsTask'
  BY <1>25, <1>0 DEF EvictDrop, PollFindsTask, TypeOK, Registered, Reachable,
     Drop
<1>26. ASSUME NEW result \in NodeState, EvictStop(result)
      PROVE  PollFindsTask'
  BY <1>26, <1>0 DEF EvictStop, PollFindsTask, TypeOK, Registered, Reachable,
     StopContainer
<1>27. ASSUME NEW w \in Worker, Register(w)
      PROVE  PollFindsTask'
  BY <1>27, <1>0 DEF Register, PollFindsTask, TypeOK, Registered, Reachable,
     Unbound
<1>28. ASSUME NEW w \in Worker, NEW status \in {"SUCCESS", "FAILED"},
             Finish(w, status)
      PROVE  PollFindsTask'
  <2>1. \A v \in Worker : runner'[v].task = runner[v].task
    BY <1>28 DEF Finish, TypeOK, Run
  <2> QED
    BY <1>28, <2>1 DEF Finish, PollFindsTask, TypeOK, ThreadBinding,
       Registered, Reachable
<1>29. ASSUME NEW w \in Worker, Crash(w)
      PROVE  PollFindsTask'
  BY <1>29, <1>0 DEF Crash, PollFindsTask, TypeOK, Registered, Reachable
<1>30. ASSUME NEW w \in Worker, Leave(w)
      PROVE  PollFindsTask'
  BY <1>30, <1>0 DEF Leave, PollFindsTask, TypeOK, Registered, Reachable, Drop
<1>31. CASE UNCHANGED vars
  BY <1>31 DEF PollFindsTask, Registered, Reachable
<1> QED
  BY <1>1, <1>2, <1>3, <1>4, <1>5, <1>6, <1>7, <1>8, <1>9, <1>10, <1>11,
     <1>12, <1>13, <1>14, <1>15, <1>16, <1>17, <1>18, <1>19, <1>20, <1>21,
     <1>22, <1>23, <1>24, <1>25, <1>26, <1>27, <1>28, <1>29, <1>30, <1>31
     DEF Next, SchedulerStep, ExecutorStep, EvictionStep, WorkerStep, Fault

(***************************************************************************)
(* The invariants.                                                         *)
(***************************************************************************)

\* Nothing exists initially, so nothing is lost, claimed or polled.
LEMMA InitInv == Init => ClaimInv
<1> SUFFICES ASSUME Init PROVE ClaimInv
  OBVIOUS
<1>1. TypeOK
  BY InitType
<1>2. Queued = {} /\ Put = {} /\ Held = {} /\ Running = {} /\ completed = {}
  BY DEF Init, Queued, Put, Held, Running, ToSet
<1>3. Distinct(queue) /\ Distinct(deferred)
  BY DEF Init, Distinct
<1>4. 1..counter = {}
  BY DEF Init
<1>5. NothingLost /\ NothingDuplicated
  BY <1>2, <1>3, <1>4 DEF NothingLost, NothingDuplicated
<1>6. ThreadBinding /\ SchedulerLocals /\ NoLeakedClaim
  BY DEF Init, ThreadBinding, SchedulerLocals, NoLeakedClaim
<1>7. ExclusiveClaim /\ PollFindsTask
  BY DEF Init, ExclusiveClaim, PollFindsTask
<1> QED
  BY <1>1, <1>5, <1>6, <1>7 DEF ClaimInv, Inv

\* Whatever fails and however the threads interleave, no task is lost or
\* duplicated and no claim is leaked. Inv also carries the thread bindings.
THEOREM Invariance == Spec => []Inv
<1>1. Init => Inv
  BY InitInv DEF ClaimInv
<1>2. Inv /\ [Next]_vars => Inv'
  BY NextType, NextLocals, NextBinding, NextAccounting, NextNoLeak DEF Inv
<1> QED
  BY <1>1, <1>2, PTL DEF Spec

\* The variables keep their types.
THEOREM TypeCorrect == Spec => []TypeOK
<1>1. Inv => TypeOK
  BY DEF Inv
<1> QED
  BY <1>1, Invariance, PTL

\* No created task disappears between the lock regions that move it.
THEOREM NoTaskLost == Spec => []NothingLost
<1>1. Inv => NothingLost
  BY DEF Inv
<1> QED
  BY <1>1, Invariance, PTL

\* No task is queued, run or completed twice.
THEOREM NoTaskDuplicated == Spec => []NothingDuplicated
<1>1. Inv => NothingDuplicated
  BY DEF Inv
<1> QED
  BY <1>1, Invariance, PTL

\* No worker stays BUSY without a thread that will make it IDLE.
THEOREM NoClaimLeaked == Spec => []NoLeakedClaim
<1>1. Inv => NoLeakedClaim
  BY DEF Inv
<1> QED
  BY <1>1, Invariance, PTL

\* If replacements boot slowly enough, claims are exclusive and every poll
\* finds its task.
THEOREM ClaimInvariance == ASSUME BootOutlastsPoll PROVE Spec => []ClaimInv
<1>1. Init => ClaimInv
  BY InitInv
<1>2. Inv /\ Inv' /\ ClaimInv /\ [Next]_vars => ClaimInv'
  BY NextClaim, NextPoll DEF ClaimInv, Inv
<1>3. ClaimInv => Inv
  BY DEF ClaimInv
<1> QED
  BY <1>1, <1>2, <1>3, Invariance, PTL DEF Spec

\* One executor thread per worker, and none on a worker that is IDLE.
THEOREM ClaimsExclusive == ASSUME BootOutlastsPoll PROVE Spec => []ExclusiveClaim
<1>1. ClaimInv => ExclusiveClaim
  BY DEF ClaimInv
<1> QED
  BY <1>1, ClaimInvariance, PTL

\* No polling thread is answered NOT_FOUND by a live, registered worker.
THEOREM PollsFindTasks == ASSUME BootOutlastsPoll PROVE Spec => []PollFindsTask
<1>1. ClaimInv => PollFindsTask
  BY DEF ClaimInv
<1> QED
  BY <1>1, ClaimInvariance, PTL

(***************************************************************************)
(* The order of arrival. Without dependencies a task that never failed has *)
(* been passed by none that came after it.                                 *)
(***************************************************************************)

NoDependencies == \A t \in Task : Deps[t] = {}

\* ArrivalOrder, with the lists apart: the deferred tasks come before the one in
\* hand, and both before the queue.
OrderInv ==
  /\ Ascending(deferred, retried) /\ Ascending(queue, retried)
  /\ Precedes(Put, Held, retried) /\ Precedes(Put, Queued, retried)
  /\ Precedes(Held, Queued, retried)

LEMMA InitOrder == Init => OrderInv
  BY DEF Init, OrderInv, Ascending, Precedes, Put, Held, ToSet

\* A list of tasks is a list of numbers.
LEMMA TaskNumbers ==
  ASSUME TypeOK
  PROVE  /\ queue \in Seq(Int) /\ deferred \in Seq(Int) /\ Task \subseteq Int
         /\ Queued \subseteq Task /\ Put \subseteq Task /\ Held \subseteq Task
<1>1. Task \subseteq Int
  BY DEF Task
<1>2. queue \in Seq(Int) /\ deferred \in Seq(Int)
  BY <1>1, SeqMonotonic DEF TypeOK
<1>3. Queued \subseteq Task /\ Put \subseteq Task
  BY LenProperties, ElementOfSeq DEF TypeOK, Queued, Put, ToSet
<1> QED
  BY <1>1, <1>2, <1>3 DEF TypeOK, Held

\* New tasks have larger numbers than all there are.
LEMMA GenerateOrder ==
  ASSUME Inv, OrderInv, NEW n \in BatchSizes \cup {0}, Generate(n)
  PROVE  OrderInv'
<1> DEFINE batch == [i \in 1..n |-> counter + i]
           new   == (counter + 1)..(counter + n)
<1>1. n \in Nat /\ counter \in Nat
  BY BoundAssumption DEF Generate, Inv, TypeOK
<1>2. batch \in Seq(new) /\ ToSet(batch) = new /\ Len(batch) = n
  BY <1>1, BatchSet, LenProperties
<1>3. batch \in Seq(Int) /\ Ascending(batch, retried)
  <2>1. new \subseteq Int
    OBVIOUS
  <2>2. Ascending(batch, retried)
    BY <1>1, <1>2 DEF Ascending
  <2> QED
    BY <1>2, <2>1, <2>2, SeqMonotonic
<1>4. ASSUME NEW A \in SUBSET (Queued \cup Held \cup Put)
      PROVE  Precedes(A, new, retried)
  <2>1. A \subseteq 1..counter
    BY DEF Inv, NothingLost
  <2> QED
    BY <1>1, <2>1 DEF Precedes
<1> HIDE DEF batch, new
<1>5. /\ queue' = queue \o batch /\ UNCHANGED <<hand, deferred, retried>>
  BY DEF Generate, batch
<1>6. queue \in Seq(Int) /\ queue \in Seq(Task)
  BY TaskNumbers DEF Inv, TypeOK
<1>7. Ascending(queue', retried)
  <2>1. Precedes(ToSet(queue), ToSet(batch), retried)
    BY <1>2, <1>4 DEF Queued
  <2> QED
    BY <1>3, <1>5, <1>6, <2>1, ConcatOrder DEF OrderInv
<1>8. Queued' = Queued \cup new
  BY <1>2, <1>3, <1>5, <1>6, ConcatSet DEF Queued
<1>9. Precedes(Put, new, retried) /\ Precedes(Held, new, retried)
  BY <1>4
<1>10. Put' = Put /\ Held' = Held
  BY <1>5 DEF Put, Held
<1>11. Precedes(Put, Queued', retried) /\ Precedes(Held, Queued', retried)
  BY <1>8, <1>9 DEF OrderInv, Precedes
<1> QED
  BY <1>5, <1>7, <1>10, <1>11 DEF OrderInv

\* The first task of the queue is taken: without dependencies it is runnable.
LEMMA PickOrder ==
  ASSUME NoDependencies, Inv, OrderInv, Pick
  PROVE  OrderInv'
<1>0. queue \in Seq(Int) /\ queue \in Seq(Task) /\ Len(queue) \in Nat
  BY TaskNumbers, LenProperties DEF Inv, TypeOK
<1>1. PICK i \in 1..Len(queue) :
        /\ \A k \in 1..(i-1) : ~Runnable(queue[k])
        /\ hand' = queue[i] /\ queue' = RemoveAt(queue, i)
  BY DEF Pick
<1>2. 1 \in 1..Len(queue) /\ queue[1] \in Task
  BY <1>0, ElementOfSeq
<1>3. Runnable(queue[1])
  BY <1>2 DEF Runnable, NoDependencies
<1>4. i = 1
  BY <1>0, <1>1, <1>3
<1>5. /\ Ascending(queue', retried) /\ Precedes({queue[1]}, ToSet(queue'), retried)
      /\ ToSet(queue') \subseteq ToSet(queue) /\ queue[1] \in ToSet(queue)
  BY <1>0, <1>1, <1>2, <1>4, PopAscending DEF OrderInv
<1>6. UNCHANGED <<deferred, retried>> /\ Held' \subseteq {queue[1]} /\ Put' = Put
  BY <1>1, <1>4 DEF Pick, Held, Put
<1>7. Precedes(Put, Held', retried) /\ Precedes(Put, Queued', retried)
      /\ Precedes(Held', Queued', retried)
  BY <1>5, <1>6 DEF OrderInv, Precedes, Queued
<1> QED
  BY <1>5, <1>6, <1>7 DEF OrderInv

LEMMA PlaceOrder ==
  ASSUME Inv, OrderInv, NEW fit \in FitSets, NEW w \in Worker, Place(fit, w)
  PROVE  OrderInv'
<1>1. UNCHANGED <<queue, deferred, retried>> /\ Held' = {}
  BY DEF Place, Held
<1> QED
  BY <1>1 DEF OrderInv, Precedes, Put, Queued

\* Tasks are deferred in the order in which they were taken.
LEMMA DeferOrder ==
  ASSUME Inv, OrderInv, NEW fit \in FitSets, Defer(fit)
  PROVE  OrderInv'
<1>1. hand \in Task /\ Held = {hand} /\ deferred \in Seq(Int) /\ hand \in Int
  BY TaskNumbers DEF Defer, Inv, SchedulerLocals, TypeOK, Held
<1>2. deferred' = Append(deferred, hand) /\ UNCHANGED <<queue, retried>> /\ Held' = {}
  BY DEF Defer, Held
<1>3. Ascending(deferred', retried)
  BY <1>1, <1>2, AppendOrder DEF OrderInv, Put
<1>4. Put' = Put \cup {hand}
  BY <1>1, <1>2, AppendSet DEF Put
<1>5. Precedes(Put', Queued, retried)
  BY <1>1, <1>4 DEF OrderInv, Precedes
<1> QED
  BY <1>2, <1>3, <1>5 DEF OrderInv, Precedes, Queued

\* insert(0, ...) from the last to the first puts them back where they were.
LEMMA RestoreOrder ==
  ASSUME Inv, OrderInv, Restore
  PROVE  OrderInv'
<1>1. queue \in Seq(Int) /\ deferred \in Seq(Int)
  BY TaskNumbers DEF Inv
<1>2. queue' = deferred \o queue /\ deferred' = <<>> /\ retried' = retried
  BY DEF Restore
<1>3. Held' = {} /\ Put' = {}
  BY <1>2 DEF Restore, Held, Put, ToSet, Inv, SchedulerLocals
<1>4. Ascending(queue', retried)
  BY <1>1, <1>2, ConcatOrder DEF OrderInv, Put, Queued
<1>5. Ascending(deferred', retried)
  BY <1>2 DEF Ascending
<1> QED
  BY <1>2, <1>3, <1>4, <1>5 DEF OrderInv, Precedes

\* A task that failed goes to the end, and its number counts no more.
LEMMA RequeueOrder ==
  ASSUME Inv, OrderInv, NEW t \in Task, Requeue(t)
  PROVE  OrderInv'
<1>1. /\ queue' = Append(queue, t) /\ retried' = retried \cup {t}
      /\ UNCHANGED <<deferred, hand>>
  BY DEF Requeue
<1>2. /\ Ascending(queue, retried') /\ Ascending(deferred, retried')
  BY <1>1 DEF OrderInv, Ascending
<1>3. queue \in Seq(Int) /\ t \in Int
  BY TaskNumbers DEF Inv
<1>4. Ascending(queue', retried')
  <2>1. Precedes(ToSet(queue), {t}, retried')
    BY <1>1 DEF Precedes
  <2> QED
    BY <1>1, <1>2, <1>3, <2>1, AppendOrder
<1>5. Queued' = Queued \cup {t} /\ Put' = Put /\ Held' = Held
  BY <1>1, AppendSet DEF Inv, TypeOK, Queued, Put, Held
<1>6. /\ Precedes(Put, Held, retried') /\ Precedes(Put, Queued', retried')
      /\ Precedes(Held, Queued', retried')
  BY <1>1, <1>5 DEF OrderInv, Precedes
<1> QED
  BY <1>1, <1>2, <1>4, <1>5, <1>6 DEF OrderInv

\* The other steps touch no list.
LEMMA NextOrder ==
  ASSUME NoDependencies, Inv, OrderInv, [Next]_vars
  PROVE  OrderInv'
<1>1. ASSUME UNCHANGED <<queue, hand, deferred, retried>>
      PROVE  OrderInv'
  BY <1>1 DEF OrderInv, Put, Held, Queued
<1>2. ASSUME NEW n \in BatchSizes \cup {0}, Generate(n)
      PROVE  OrderInv'
  BY <1>2, GenerateOrder
<1>3. CASE Pick
  BY <1>3, PickOrder
<1>4. ASSUME NEW fit \in FitSets, NEW w \in Worker, Place(fit, w)
      PROVE  OrderInv'
  BY <1>4, PlaceOrder
<1>5. ASSUME NEW fit \in FitSets, Defer(fit)
      PROVE  OrderInv'
  BY <1>5, DeferOrder
<1>6. CASE Restore
  BY <1>6, RestoreOrder
<1>7. ASSUME NEW t \in Task, Requeue(t)
      PROVE  OrderInv'
  BY <1>7, RequeueOrder
<1>8. CASE \/ FastTick \/ ScaleTick \/ (\E D \in SUBSET Spot : CollectDead(D))
           \/ (\E w \in Spot, result \in NodeState : Reap(w, result))
           \/ (\E W \in SUBSET Spot : Launch(W)) \/ NoScaling
           \/ (\E w \in Spot : ScaleInChoose(w))
           \/ (\E result \in NodeState : ScaleInStop(result))
           \/ ScaleInDrop \/ EndLoop
  BY <1>1, <1>8 DEF FastTick, ScaleTick, CollectDead, Reap, Launch, NoScaling,
     ScaleInChoose, ScaleInStop, ScaleInDrop, EndLoop
<1>9. ASSUME NEW t \in Task,
             \/ Begin(t) \/ Assign(t) \/ AssignReplyLost(t) \/ CheckRegistry(t)
             \/ Query(t) \/ RpcLost(t) \/ Release(t)
      PROVE  OrderInv'
  BY <1>1, <1>9 DEF Begin, Assign, AssignReplyLost, CheckRegistry, Query, RpcLost, Release
<1>10. CASE \/ (\E W \in SUBSET Spot : EvictSnapshot(W)) \/ (\E w \in Spot : EvictDrop(w))
            \/ (\E result \in NodeState : EvictStop(result))
  BY <1>1, <1>10 DEF EvictSnapshot, EvictDrop, EvictStop
<1>11. ASSUME NEW w \in Worker,
              \/ Register(w) \/ Crash(w) \/ Leave(w)
              \/ \E status \in {"SUCCESS", "FAILED"} : Finish(w, status)
       PROVE  OrderInv'
  BY <1>1, <1>11 DEF Register, Crash, Leave, Finish
<1>12. CASE UNCHANGED vars
  BY <1>1, <1>12
<1> QED
  BY <1>2, <1>3, <1>4, <1>5, <1>6, <1>7, <1>8, <1>9, <1>10, <1>11, <1>12
     DEF Next, SchedulerStep, ExecutorStep, EvictionStep, WorkerStep, Fault

\* The three lists, one after the other, are in order.
LEMMA ListsInOrder == ASSUME TypeOK, OrderInv PROVE ArrivalOrder
<1> DEFINE mid  == IF hand = NoTask THEN <<>> ELSE <<hand>>
           head == deferred \o mid
<1>1. queue \in Seq(Int) /\ deferred \in Seq(Int) /\ Held \subseteq Int
  BY TaskNumbers
<1>2. mid \in Seq(Int) /\ ToSet(mid) = Held /\ Ascending(mid, retried)
  <2>1. CASE hand = NoTask
    BY <2>1 DEF Held, ToSet, Ascending
  <2>2. CASE hand # NoTask
    <3>1. hand \in Int /\ Held = {hand}
      BY <1>1, <2>2 DEF Held
    <3> QED
      BY <2>2, <3>1 DEF ToSet, Ascending
  <2> QED
    BY <2>1, <2>2
<1> HIDE DEF mid
<1>3. head \in Seq(Int) /\ ToSet(head) = Put \cup Held /\ Ascending(head, retried)
  BY <1>1, <1>2, ConcatSet, ConcatOrder DEF OrderInv, Put
<1> HIDE DEF head
<1>4. Precedes(ToSet(head), ToSet(queue), retried)
  BY <1>3 DEF OrderInv, Precedes, Queued
<1>5. Ascending(head \o queue, retried)
  BY <1>1, <1>3, <1>4, ConcatOrder DEF OrderInv
<1> QED
  BY <1>5 DEF ArrivalOrder, Ascending, head, mid

\* Backfilling overtakes nobody (static.py 64-67, dynamic.py 119-122,
\* q_learning.py 186-189): without dependencies tasks that never failed are
\* dispatched in the order in which they were created.
THEOREM KeepsArrivalOrder == ASSUME NoDependencies PROVE Spec => []ArrivalOrder
<1>1. Init => Inv /\ OrderInv
  BY InitInv, InitOrder DEF ClaimInv
<1>2. Inv /\ OrderInv /\ [Next]_vars => (Inv /\ OrderInv)'
  BY NextOrder, NextType, NextLocals, NextBinding, NextAccounting, NextNoLeak DEF Inv
<1>3. Inv /\ OrderInv => ArrivalOrder
  BY ListsInOrder DEF Inv
<1> QED
  BY <1>1, <1>2, <1>3, PTL DEF Spec

(***************************************************************************)
(* The dispatcher implements Leases.                                       *)
(***************************************************************************)

\* The lease of a worker somebody is bound to is that task.
LEMMA LeaseOfHolder ==
  ASSUME NEW f, NEW t \in Task, f[t] \in Worker,
         \A u \in Task : f[u] = f[t] => u = t
  PROVE  LeaseOf(f)[f[t]] = t
<1>1. (CHOOSE u \in Task : f[u] = f[t]) = t
  OBVIOUS
<1> QED
  BY <1>1 DEF LeaseOf

\* A worker nobody is bound to has no lease.
LEMMA LeaseOfFree ==
  ASSUME NEW f, NEW w \in Worker, \A t \in Task : f[t] # w
  PROVE  LeaseOf(f)[w] = NoTask
  BY DEF LeaseOf

\* A worker holds nothing, or a task that is bound to it.
LEMMA LeaseRange ==
  ASSUME NEW w \in Worker
  PROVE  Lease[w] = NoTask \/ Lease[w] \in Leased
  BY WorkerAssumption DEF Lease, LeaseOf, Leased

\* The leases depend only on which worker each task is bound to.
LEMMA LeaseExtensional ==
  ASSUME NEW f, NEW g, NEW w \in Worker, NEW x, LeaseOf(g)[w] = x,
         \A v \in Worker \ {w} : LeaseOf(g)[v] = LeaseOf(f)[v]
  PROVE  LeaseOf(g) = [LeaseOf(f) EXCEPT ![w] = x]
<1>1. ASSUME NEW v \in Worker
      PROVE  [LeaseOf(f) EXCEPT ![w] = x][v] = LeaseOf(g)[v]
  <2>1. w \in DOMAIN LeaseOf(f) /\ v \in DOMAIN LeaseOf(f)
    BY DEF LeaseOf
  <2> QED
    BY <2>1
<1> QED
  BY <1>1 DEF LeaseOf

\* generate_mock_tasks is a Submit of Leases.
LEMMA GenerateSubmits ==
  ASSUME Inv, NEW n \in BatchSizes \cup {0}, Generate(n)
  PROVE  Abstract!Next
<1> DEFINE new == (counter + 1)..(counter + n)
<1>1. n \in Nat /\ counter \in Nat /\ counter + n <= MaxTask /\ counter' = counter + n
  BY BoundAssumption DEF Generate, Inv, TypeOK
<1>2. Leased \subseteq Running
  BY DEF Leased, Running, Inv, ThreadBinding
<1>3. Leased \cup completed \subseteq 1..counter
  BY <1>2 DEF Inv, NothingLost
<1>4. new \subseteq Task /\ new \cap 1..counter = {} /\ NoTask \notin new
      /\ 1..counter' = 1..counter \cup new
  BY <1>1, BoundAssumption DEF Task, NoTask
<1>5. new \cap Abstract!Submitted = {}
  BY <1>3, <1>4, LeaseRange DEF Abstract!Submitted, Waiting
<1>6. UNCHANGED <<completed, on, Leased, Lease>>
  BY DEF Generate, Leased, Lease
<1>7. Waiting' = Waiting \cup new
  BY <1>3, <1>4, <1>6 DEF Waiting
<1>8. Abstract!Submit(new)
  BY <1>4, <1>5, <1>6, <1>7 DEF Abstract!Submit
<1> QED
  BY <1>4, <1>8 DEF Abstract!Next

\* The claim of a worker for the task in hand is an Acquire.
LEMMA PlaceAcquires ==
  ASSUME ClaimInv, ClaimInv', NEW fit \in FitSets, NEW w \in Worker, Place(fit, w)
  PROVE  Abstract!Next
<1> USE DEF ClaimInv, Inv
<1>1. hand \in Task /\ hand \notin Running /\ on[hand] = NoWorker
  BY HandIsFree DEF Place, Running, ThreadBinding
<1>2. /\ on'[hand] = w /\ \A t \in Task \ {hand} : on'[t] = on[t]
      /\ UNCHANGED <<counter, completed>>
  BY <1>1 DEF Place, TypeOK
<1>3. hand \in Waiting
  BY <1>1, BoundAssumption
  DEF Waiting, NothingLost, NothingDuplicated, Held, Leased, Task, NoTask
<1>4. Waiting' = Waiting \ {hand}
  BY <1>1, <1>2, WorkerAssumption DEF Waiting, Leased
<1>5. \A t \in Task : on[t] # w
  BY WorkerAssumption DEF Place, Candidates, ExclusiveClaim
<1>6. Lease[w] = NoTask
  BY <1>5, LeaseOfFree DEF Lease
<1>7. LeaseOf(on') = [LeaseOf(on) EXCEPT ![w] = hand]
  <2>1. LeaseOf(on')[w] = hand
    <3>1. \A u \in Task : on'[u] = on'[hand] => u = hand
      BY <1>2, <1>5
    <3> QED
      BY <1>1, <1>2, <3>1, LeaseOfHolder
  <2>2. ASSUME NEW v \in Worker \ {w} PROVE LeaseOf(on')[v] = LeaseOf(on)[v]
    <3>1. CASE \A t \in Task : on[t] # v
      <4>1. \A t \in Task : on'[t] # v
        BY <3>1, <1>2
      <4> QED
        BY <3>1, <4>1, LeaseOfFree
    <3>2. ASSUME NEW t \in Task, on[t] = v PROVE LeaseOf(on')[v] = LeaseOf(on)[v]
      <4>1. on'[t] = v
        BY <3>2, <1>1, <1>2, WorkerAssumption
      <4>2. \A u \in Task : on[u] = on[t] => u = t
        BY <3>2, WorkerAssumption DEF ExclusiveClaim
      <4>3. \A u \in Task : on'[u] = on'[t] => u = t
        BY <4>1, <4>2, <3>2, <1>2
      <4> QED
        BY <3>2, <4>1, <4>2, <4>3, LeaseOfHolder
    <3> QED
      BY <3>1, <3>2
  <2> HIDE DEF ClaimInv, Inv
  <2> QED
    BY <2>1, <2>2, LeaseExtensional
<1>8. Abstract!Acquire(hand, w)
  BY <1>2, <1>3, <1>4, <1>6, <1>7 DEF Abstract!Acquire, Lease
<1> QED
  BY <1>1, <1>8 DEF Abstract!Next

\* The finally block is a Complete or a GiveBack.
LEMMA ReleaseEnds ==
  ASSUME ClaimInv, NEW t \in Task, Release(t)
  PROVE  Abstract!Next
<1> USE DEF ClaimInv, Inv
<1>1. on[t] \in Worker
  BY DEF Release, ThreadBinding, TypeOK
<1>2. /\ on'[t] = NoWorker /\ \A u \in Task \ {t} : on'[u] = on[u]
      /\ UNCHANGED counter
  BY DEF Release, TypeOK
<1>3. \A u \in Task : on[u] = on[t] => u = t
  BY <1>1, WorkerAssumption DEF ExclusiveClaim
<1>4. Lease[on[t]] = t
  BY <1>1, <1>3, LeaseOfHolder DEF Lease
<1>5. t \in 1..counter /\ t \notin completed /\ t # NoTask
  BY DEF Release, Running, NothingLost, NothingDuplicated, Task, NoTask
<1>6. LeaseOf(on') = [LeaseOf(on) EXCEPT ![on[t]] = NoTask]
  <2>1. LeaseOf(on')[on[t]] = NoTask
    BY <1>1, <1>2, <1>3, WorkerAssumption, LeaseOfFree
  <2>2. ASSUME NEW v \in Worker \ {on[t]} PROVE LeaseOf(on')[v] = LeaseOf(on)[v]
    <3>1. CASE \A u \in Task : on[u] # v
      <4>1. \A u \in Task : on'[u] # v
        BY <3>1, <1>2, WorkerAssumption
      <4> QED
        BY <3>1, <4>1, LeaseOfFree
    <3>2. ASSUME NEW u \in Task, on[u] = v PROVE LeaseOf(on')[v] = LeaseOf(on)[v]
      <4>1. on'[u] = v
        BY <3>2, <1>2
      <4>2. \A x \in Task : on[x] = on[u] => x = u
        BY <3>2, WorkerAssumption DEF ExclusiveClaim
      <4>3. \A x \in Task : on'[x] = on'[u] => x = u
        BY <4>1, <4>2, <3>2, <1>2, WorkerAssumption
      <4> QED
        BY <3>2, <4>1, <4>2, <4>3, LeaseOfHolder
    <3> QED
      BY <3>1, <3>2
  <2> QED
    BY <1>1, <2>1, <2>2, LeaseExtensional
<1>7. Leased' = Leased \ {t} /\ t \in Leased
  BY <1>1, <1>2, WorkerAssumption DEF Leased
<1>8. CASE pc[t] = "ok"
  <2>1. completed' = completed \cup {t} /\ Waiting' = Waiting
    BY <1>8, <1>2, <1>7 DEF Release, Waiting
  <2>2. Abstract!Complete(on[t])
    BY <2>1, <1>4, <1>5, <1>6 DEF Abstract!Complete, Lease
  <2> QED
    BY <1>1, <2>2 DEF Abstract!Next
<1>9. CASE pc[t] # "ok"
  <2>1. completed' = completed /\ Waiting' = Waiting \cup {t}
    BY <1>9, <1>2, <1>5, <1>7 DEF Release, Waiting
  <2>2. Abstract!GiveBack(on[t])
    BY <2>1, <1>4, <1>5, <1>6 DEF Abstract!GiveBack, Lease
  <2> QED
    BY <1>1, <2>2 DEF Abstract!Next
<1> QED
  BY <1>8, <1>9

\* A step that neither creates nor completes a task nor binds a thread.
LEMMA NoLeaseMoves ==
  ASSUME UNCHANGED <<counter, completed, on>>
  PROVE  UNCHANGED Abstract!vars
  BY DEF Abstract!vars, Waiting, Leased, Lease

\* Every step is a step of Leases or changes none of its variables.
LEMMA StepRefines ==
  ASSUME ClaimInv, ClaimInv', [Next]_vars
  PROVE  [Abstract!Next]_(Abstract!vars)
<1>1. CASE FastTick
  BY <1>1, NoLeaseMoves DEF FastTick
<1>2. CASE ScaleTick
  BY <1>2, NoLeaseMoves DEF ScaleTick
<1>3. ASSUME NEW D \in SUBSET Spot, CollectDead(D)
      PROVE  [Abstract!Next]_(Abstract!vars)
  BY <1>3, NoLeaseMoves DEF CollectDead
<1>4. ASSUME NEW w \in Spot, NEW result \in NodeState, Reap(w, result)
      PROVE  [Abstract!Next]_(Abstract!vars)
  BY <1>4, NoLeaseMoves DEF Reap
<1>5. ASSUME NEW n \in BatchSizes \cup {0}, Generate(n)
      PROVE  [Abstract!Next]_(Abstract!vars)
  BY <1>5, GenerateSubmits DEF ClaimInv
<1>6. ASSUME NEW W \in SUBSET Spot, Launch(W)
      PROVE  [Abstract!Next]_(Abstract!vars)
  BY <1>6, NoLeaseMoves DEF Launch
<1>7. CASE NoScaling
  BY <1>7, NoLeaseMoves DEF NoScaling
<1>8. ASSUME NEW w \in Spot, ScaleInChoose(w)
      PROVE  [Abstract!Next]_(Abstract!vars)
  BY <1>8, NoLeaseMoves DEF ScaleInChoose
<1>9. ASSUME NEW result \in NodeState, ScaleInStop(result)
      PROVE  [Abstract!Next]_(Abstract!vars)
  BY <1>9, NoLeaseMoves DEF ScaleInStop
<1>10. CASE ScaleInDrop
  BY <1>10, NoLeaseMoves DEF ScaleInDrop
<1>11. CASE Pick
  BY <1>11, NoLeaseMoves DEF Pick
<1>12. CASE EndLoop
  BY <1>12, NoLeaseMoves DEF EndLoop
<1>13. ASSUME NEW fit \in FitSets, NEW w \in Worker, Place(fit, w)
      PROVE  [Abstract!Next]_(Abstract!vars)
  BY <1>13, PlaceAcquires
<1>14. ASSUME NEW fit \in FitSets, Defer(fit)
      PROVE  [Abstract!Next]_(Abstract!vars)
  BY <1>14, NoLeaseMoves DEF Defer
<1>15. CASE Restore
  BY <1>15, NoLeaseMoves DEF Restore
<1>16. ASSUME NEW t \in Task, Begin(t)
      PROVE  [Abstract!Next]_(Abstract!vars)
  BY <1>16, NoLeaseMoves DEF Begin
<1>17. ASSUME NEW t \in Task, Assign(t)
      PROVE  [Abstract!Next]_(Abstract!vars)
  BY <1>17, NoLeaseMoves DEF Assign
<1>18. ASSUME NEW t \in Task, AssignReplyLost(t)
      PROVE  [Abstract!Next]_(Abstract!vars)
  BY <1>18, NoLeaseMoves DEF AssignReplyLost
<1>19. ASSUME NEW t \in Task, CheckRegistry(t)
      PROVE  [Abstract!Next]_(Abstract!vars)
  BY <1>19, NoLeaseMoves DEF CheckRegistry
<1>20. ASSUME NEW t \in Task, Query(t)
      PROVE  [Abstract!Next]_(Abstract!vars)
  BY <1>20, NoLeaseMoves DEF Query
<1>21. ASSUME NEW t \in Task, RpcLost(t)
      PROVE  [Abstract!Next]_(Abstract!vars)
  BY <1>21, NoLeaseMoves DEF RpcLost
<1>22. ASSUME NEW t \in Task, Release(t)
      PROVE  [Abstract!Next]_(Abstract!vars)
  BY <1>22, ReleaseEnds
<1>23. ASSUME NEW t \in Task, Requeue(t)
      PROVE  [Abstract!Next]_(Abstract!vars)
  BY <1>23, NoLeaseMoves DEF Requeue
<1>24. ASSUME NEW W \in SUBSET Spot, EvictSnapshot(W)
      PROVE  [Abstract!Next]_(Abstract!vars)
  BY <1>24, NoLeaseMoves DEF EvictSnapshot
<1>25. ASSUME NEW w \in Spot, EvictDrop(w)
      PROVE  [Abstract!Next]_(Abstract!vars)
  BY <1>25, NoLeaseMoves DEF EvictDrop
<1>26. ASSUME NEW result \in NodeState, EvictStop(result)
      PROVE  [Abstract!Next]_(Abstract!vars)
  BY <1>26, NoLeaseMoves DEF EvictStop
<1>27. ASSUME NEW w \in Worker, Register(w)
      PROVE  [Abstract!Next]_(Abstract!vars)
  BY <1>27, NoLeaseMoves DEF Register
<1>28. ASSUME NEW w \in Worker, NEW status \in {"SUCCESS", "FAILED"},
             Finish(w, status)
      PROVE  [Abstract!Next]_(Abstract!vars)
  BY <1>28, NoLeaseMoves DEF Finish
<1>29. ASSUME NEW w \in Worker, Crash(w)
      PROVE  [Abstract!Next]_(Abstract!vars)
  BY <1>29, NoLeaseMoves DEF Crash
<1>30. ASSUME NEW w \in Worker, Leave(w)
      PROVE  [Abstract!Next]_(Abstract!vars)
  BY <1>30, NoLeaseMoves DEF Leave
<1>31. CASE UNCHANGED vars
  BY <1>31, NoLeaseMoves
<1> QED
  BY <1>1, <1>2, <1>3, <1>4, <1>5, <1>6, <1>7, <1>8, <1>9, <1>10, <1>11,
     <1>12, <1>13, <1>14, <1>15, <1>16, <1>17, <1>18, <1>19, <1>20, <1>21,
     <1>22, <1>23, <1>24, <1>25, <1>26, <1>27, <1>28, <1>29, <1>30, <1>31
     DEF Next, SchedulerStep, ExecutorStep, EvictionStep, WorkerStep, Fault

\* Every behaviour of the threads of the Head is, seen through the leases, a
\* behaviour of Leases.
THEOREM Refinement == ASSUME BootOutlastsPoll PROVE Spec => RefinesLeases
<1>1. Init => Abstract!Init
  <2> SUFFICES ASSUME Init PROVE Abstract!Init
    OBVIOUS
  <2>1. \A t \in Task : on[t] = NoWorker
    BY DEF Init
  <2>2. Lease = [w \in Worker |-> NoTask]
    BY <2>1, WorkerAssumption DEF Lease, LeaseOf
  <2>3. Waiting = {} /\ completed = {}
    BY DEF Init, Waiting
  <2> QED
    BY <2>2, <2>3 DEF Abstract!Init
<1>2. ClaimInv /\ ClaimInv' /\ [Next]_vars => [Abstract!Next]_(Abstract!vars)
  BY StepRefines
<1> QED
  BY <1>1, <1>2, ClaimInvariance, PTL DEF Spec, RefinesLeases, Abstract!Spec
=============================================================================
