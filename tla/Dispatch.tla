------------------------------ MODULE Dispatch ------------------------------
(***************************************************************************)
(* The Head's dispatch of tasks to workers: the scheduler thread           *)
(* (scheduler_daemon.py with the assignment loops of static.py, dynamic.py *)
(* and q_learning.py), the executor threads it spawns (the single-worker   *)
(* branch of run_task_on_worker), the spot eviction thread, the gRPC       *)
(* handlers that add and remove registry entries, and the task slot of     *)
(* every worker process they talk to.                                      *)
(*                                                                         *)
(* Every access made under registry_lock or queue_lock is one step; what   *)
(* the code does between two lock regions, or between two RPCs, is another *)
(* step, so the other threads interleave exactly where the locks let them. *)
(*                                                                         *)
(* The branch that splits a task into map subtasks is not in this module:  *)
(* module MapMerge has it. Here only the scheduler thread claims workers,  *)
(* so nothing is said about a claim made by a map thread, which may fall   *)
(* between the steps of a scale-in (task_executor.py 324-329).             *)
(***************************************************************************)
EXTENDS Integers, Sequences, FiniteSets, SequencesExt, TaskLists

CONSTANTS
  MaxTask,          \* bound: how many tasks generate_mock_tasks ever creates
  BatchSizes,       \* how many tasks one call of generate_mock_tasks may add
  QueueLimit,       \* no task is generated once the queue is this long (25)
  Deps,             \* the "dependencies" field of each task (no code sets it)
  Worker,           \* worker ids, worker-1 and every spot index
  OnDemand,         \* the ids of node type on_demand (worker-1)
  Crashable,        \* workers whose process may exit by itself
  NoWorker,         \* "no worker id"
  Mode,             \* SCHEDULER_MODE
  LoadVaries,       \* do cpu/mem readings ever exclude an IDLE worker?
  BootOutlastsPoll  \* a replacement container takes longer to register than
                    \* an executor takes to notice the entry is gone (1.5 s)

Task   == 1..MaxTask
NoTask == 0

ASSUME BoundAssumption ==
  /\ MaxTask \in Nat \ {0}
  /\ QueueLimit \in Nat \ {0}
  /\ BatchSizes \subseteq Nat
ASSUME DepsAssumption   == Deps \in [Task -> SUBSET Task]
ASSUME WorkerAssumption ==
  /\ OnDemand \subseteq Worker
  /\ Crashable \subseteq Worker
  /\ NoWorker \notin Worker
ASSUME ModeAssumption ==
  /\ Mode \in {"static", "dynamic", "q_learning"}
  /\ LoadVaries \in BOOLEAN
  /\ BootOutlastsPoll \in BOOLEAN

VARIABLES
  \* gcs_state, shared by the threads of the Head
  queue,      \* task_queue
  counter,    \* task_counter, the number of the last task created
  completed,  \* completed_tasks_cache
  registry,   \* worker_registry: "ABSENT" or the status of the entry
  broke,      \* virtual_budget is used up: it only ever falls
  \* the scheduler thread
  spc,        \* where it is in its loop
  scaling,    \* run_scale_decisions, where the assignment loop reads it
  hand,       \* the task popped and not yet placed
  deferred,   \* deferred_tasks
  reaping,    \* dead_workers whose container is still to be removed
  victim,     \* target_worker_id of a scale-in
  \* the executor threads, one per dispatched task
  pc,         \* where the thread of a task is
  on,         \* the worker_id it was started with
  retried,    \* history: tasks put back after a failure
  \* the eviction thread
  evictList,  \* workers of its snapshot still to be evicted
  evicting,   \* the worker whose container it is about to remove
  \* the containers
  node,       \* "NONE", "BOOTING" (unregistered), "UP", "EXITED"
  runner      \* the worker's current_task_id and runner.status

gcsVars   == <<queue, counter, completed>>
schedVars == <<broke, spc, scaling, hand, deferred, reaping, victim>>
execVars  == <<pc, on, retried>>
evictVars == <<evictList, evicting>>
nodeVars  == <<node, runner>>
vars == <<queue, counter, completed, registry, broke, spc, scaling, hand, deferred,
          reaping, victim, pc, on, retried, evictList, evicting, node, runner>>

SchedulerPC == {"tick", "dead", "reap", "generate", "scale", "stopping",
                "dropping", "pick", "place", "restore"}
ExecutorPC  == {"none", "spawned", "assign", "poll", "query", "ok", "failed",
                "requeue"}
NodeState   == {"NONE", "BOOTING", "UP", "EXITED"}
Run         == [task : Task \cup {NoTask},
                status : {"NONE", "RUNNING", "SUCCESS", "FAILED"}]
NoRun       == [task |-> NoTask, status |-> "NONE"]
Spot        == Worker \ OnDemand

(***************************************************************************)
(* Helpers.                                                                *)
(***************************************************************************)

Runnable(t) == Deps[t] \subseteq completed

\* The container answers RPCs: the gRPC server starts before registration.
Reachable(w) == node[w] \in {"BOOTING", "UP"}

Registered(w) == registry[w] # "ABSENT"

\* No executor thread is still bound to the entry of w.
Unbound(w) == \A t \in Task : on[t] # w

\* Leave the registry, whether the entry was there or not.
Drop(W) == registry' = [w \in Worker |-> IF w \in W THEN "ABSENT" ELSE registry[w]]

\* container.stop() and container.remove(), each of which may raise; every
\* caller swallows the exception. A stopped process loses its runner.
StopContainer(w, result) ==
  /\ result \in (IF node[w] = "NONE" THEN {"NONE"} ELSE {"NONE", "EXITED", node[w]})
  /\ node' = [node EXCEPT ![w] = result]
  /\ runner' = [runner EXCEPT ![w] = IF result \in {"BOOTING", "UP"} THEN @ ELSE NoRun]

\* Workers whose metrics a scheduling decision may find below its thresholds.
FitSets == IF LoadVaries THEN SUBSET Worker ELSE {Worker}

\* The IDLE workers the assignment loop would take: static.py sorts on_demand
\* first; dynamic.py takes the least loaded, q_learning.py the chosen type, which
\* is not on_demand once the budget is used up.
Candidates(fit) ==
  LET idle == {w \in fit : registry[w] = "IDLE"}
  IN  CASE Mode = "static" /\ idle \cap OnDemand # {} -> idle \cap OnDemand
        [] Mode = "q_learning" /\ broke -> idle \ OnDemand
        [] OTHER -> idle

Init ==
  /\ queue = <<>> /\ counter = 0 /\ completed = {}
  /\ registry = [w \in Worker |-> "ABSENT"]
  /\ broke = FALSE
  /\ spc = "tick" /\ hand = NoTask /\ deferred = <<>>
  /\ scaling = FALSE /\ reaping = {} /\ victim = NoWorker
  /\ pc = [t \in Task |-> "none"] /\ on = [t \in Task |-> NoWorker]
  /\ retried = {}
  /\ evictList = {} /\ evicting = NoWorker
  /\ node = [w \in Worker |-> IF w \in OnDemand THEN "BOOTING" ELSE "NONE"]
  /\ runner = [w \in Worker |-> NoRun]

(***************************************************************************)
(* The scheduler thread. Every fifth tick also looks for dead workers,     *)
(* generates tasks and takes scaling decisions.                            *)
(***************************************************************************)

\* Every tick charges the budget for the registered workers. Only q_learning.py
\* asks whether anything is left.
Charge == broke' \in {broke, Mode = "q_learning"}

FastTick ==
  /\ spc = "tick" /\ spc' = "pick" /\ scaling' = FALSE /\ Charge
  /\ UNCHANGED <<gcsVars, registry, hand, deferred, reaping, victim, execVars,
                 evictVars, nodeVars>>

ScaleTick ==
  /\ spc = "tick" /\ spc' = "dead" /\ scaling' = (Mode = "q_learning") /\ Charge
  /\ UNCHANGED <<gcsVars, registry, hand, deferred, reaping, victim, execVars,
                 evictVars, nodeVars>>

\* check_and_cleanup_dead_workers: D are the spot entries whose heartbeat is
\* older than 3 s. Heartbeats come every 5 s, so a live worker may be in D.
CollectDead(D) ==
  /\ spc = "dead"
  /\ D \subseteq {w \in Spot : Registered(w)}
  /\ Drop(D)
  /\ reaping' = D
  /\ spc' = IF D = {} THEN "generate" ELSE "reap"
  /\ UNCHANGED <<broke, gcsVars, hand, deferred, scaling, victim, execVars,
                 evictVars, nodeVars>>

\* The loop that removes the container of each dead worker.
Reap(w, result) ==
  /\ spc = "reap" /\ w \in reaping
  /\ StopContainer(w, result)
  /\ reaping' = reaping \ {w}
  /\ spc' = IF reaping = {w} THEN "generate" ELSE "reap"
  /\ UNCHANGED <<broke, gcsVars, registry, hand, deferred, scaling, victim,
                 execVars, evictVars>>

\* Mutant: the number is taken before the counter is incremented.
Generate_OffByOne(n) ==
  /\ spc = "generate"
  /\ n > 0 => Len(queue) < QueueLimit
  /\ counter + n \in 0..MaxTask
  /\ counter' = counter + n
  /\ queue' = queue \o [i \in 1..n |-> counter + i - 1]
  /\ spc' = "scale"
  /\ UNCHANGED <<broke, completed, registry, hand, deferred, scaling, reaping,
                 victim, execVars, evictVars, nodeVars>>

\* generate_mock_tasks: n consecutive numbers, whatever the batch does to
\* the limit the queue was tested against.
Generate(n) ==
  /\ spc = "generate"
  /\ n > 0 => Len(queue) < QueueLimit
  /\ counter + n \in 0..MaxTask
  /\ counter' = counter + n
  /\ queue' = queue \o [i \in 1..n |-> counter + i]
  /\ spc' = "scale"
  /\ UNCHANGED <<broke, completed, registry, hand, deferred, scaling, reaping,
                 victim, execVars, evictVars, nodeVars>>

\* scale_out_worker, once or twice in a row: the ids are free in the registry
\* and on the Docker host. In q_learning.py this is an action of the
\* assignment loop, which it ends. When to scale (loads, queue length, timers,
\* epsilon-greedy choice) is left open, within the ticks that may.
Launch(W) ==
  /\ \/ spc = "scale" /\ Mode # "q_learning" /\ spc' = "pick"
     \/ /\ spc = "pick" /\ Mode = "q_learning" /\ spc' = "restore"
        /\ scaling /\ queue # <<>>
  /\ Cardinality(W) \in {1, 2}
  /\ W \subseteq {w \in Spot : node[w] = "NONE" /\ ~Registered(w)}
  /\ node' = [w \in Worker |-> IF w \in W THEN "BOOTING" ELSE node[w]]
  /\ UNCHANGED <<broke, gcsVars, registry, hand, deferred, scaling, reaping,
                 victim, execVars, evictVars, runner>>

NoScaling ==
  /\ spc = "scale" /\ spc' = "pick"
  /\ UNCHANGED <<broke, gcsVars, registry, hand, deferred, scaling, reaping,
                 victim, execVars, evictVars, nodeVars>>

\* scale_in_specific_worker, in the three steps its lock regions make: choose
\* an IDLE entry, which keeps its status; stop the container; delete the entry.
\* The executor threads of this module claim nothing in between; those of MapMerge
\* do, and its ScaleInStop then takes the worker of a running map thread.
ScaleInChoose(w) ==
  /\ spc = "scale" /\ w \in Spot /\ registry[w] = "IDLE"
  /\ victim' = w /\ spc' = "stopping"
  /\ UNCHANGED <<broke, gcsVars, registry, hand, deferred, scaling, reaping,
                 execVars, evictVars, nodeVars>>

ScaleInStop(result) ==
  /\ spc = "stopping" /\ spc' = "dropping"
  /\ StopContainer(victim, result)
  /\ UNCHANGED <<broke, gcsVars, registry, hand, deferred, scaling, reaping,
                 victim, execVars, evictVars>>

ScaleInDrop ==
  /\ spc = "dropping" /\ spc' = "pick"
  /\ Drop({victim}) /\ victim' = NoWorker
  /\ UNCHANGED <<broke, gcsVars, hand, deferred, scaling, reaping, execVars,
                 evictVars, nodeVars>>

\* get_next_runnable_task, called by every assignment loop: the first task of
\* the queue whose dependencies are in completed_tasks_cache.
Pick ==
  /\ spc = "pick"
  /\ \E i \in 1..Len(queue) :
       /\ Runnable(queue[i])
       /\ \A k \in 1..(i-1) : ~Runnable(queue[k])
       /\ hand' = queue[i]
       /\ queue' = RemoveAt(queue, i)
  /\ spc' = "place"
  /\ UNCHANGED <<broke, counter, completed, registry, deferred, scaling,
                 reaping, victim, execVars, evictVars, nodeVars>>

\* The loop ends: nothing is runnable, or q_learning.py chooses to HOLD (or
\* has only that action left).
EndLoop ==
  /\ spc = "pick"
  /\ Mode = "q_learning" \/ \A i \in 1..Len(queue) : ~Runnable(queue[i])
  /\ spc' = "restore"
  /\ UNCHANGED <<broke, gcsVars, registry, hand, deferred, scaling, reaping,
                 victim, execVars, evictVars, nodeVars>>

\* Mutant: the claim is left to the executor thread's own "BUSY (task)".
Place_NotBusy(fit, w) ==
  /\ spc = "place" /\ w \in Candidates(fit)
  /\ pc' = [pc EXCEPT ![hand] = "spawned"]
  /\ on' = [on EXCEPT ![hand] = w]
  /\ hand' = NoTask /\ spc' = "pick"
  /\ UNCHANGED <<broke, gcsVars, registry, deferred, scaling, reaping, victim,
                 retried, evictVars, nodeVars>>

\* Claim an IDLE worker and start the executor thread, under registry_lock.
Place(fit, w) ==
  /\ spc = "place" /\ w \in Candidates(fit)
  /\ registry' = [registry EXCEPT ![w] = "BUSY"]
  /\ pc' = [pc EXCEPT ![hand] = "spawned"]
  /\ on' = [on EXCEPT ![hand] = w]
  /\ hand' = NoTask /\ spc' = "pick"
  /\ UNCHANGED <<broke, gcsVars, deferred, scaling, reaping, victim, retried,
                 evictVars, nodeVars>>

\* Nobody takes the task. static.py stops at once; the others defer the task
\* and go on with the rest of the queue. The node type q_learning.py chose
\* may have no IDLE worker left while another type has one.
Defer(fit) ==
  /\ spc = "place"
  /\ Mode = "q_learning" \/ Candidates(fit) = {}
  /\ deferred' = Append(deferred, hand)
  /\ hand' = NoTask
  /\ spc' = IF Mode = "static" THEN "restore" ELSE "pick"
  /\ UNCHANGED <<broke, gcsVars, registry, scaling, reaping, victim, execVars,
                 evictVars, nodeVars>>

\* Mutant: deferred_tasks is not emptied.
Restore_KeepsDeferred ==
  /\ spc = "restore" /\ spc' = "tick"
  /\ queue' = deferred \o queue
  /\ UNCHANGED <<broke, counter, completed, registry, hand, deferred, scaling,
                 reaping, victim, execVars, evictVars, nodeVars>>

\* Mutant: insert(0, ...) in list order instead of reversed order.
Restore_Reversed ==
  /\ spc = "restore" /\ spc' = "tick"
  /\ queue' = Reverse(deferred) \o queue
  /\ deferred' = <<>>
  /\ UNCHANGED <<broke, counter, completed, registry, hand, scaling, reaping,
                 victim, execVars, evictVars, nodeVars>>

\* Put the deferred tasks back in front of the queue, in their order.
Restore ==
  /\ spc = "restore" /\ spc' = "tick"
  /\ queue' = deferred \o queue
  /\ deferred' = <<>>
  /\ UNCHANGED <<broke, counter, completed, registry, hand, scaling, reaping,
                 victim, execVars, evictVars, nodeVars>>

(***************************************************************************)
(* The executor thread of task t.                                          *)
(***************************************************************************)

Goto(t, label) == pc' = [pc EXCEPT ![t] = label]

\* Not a map-merge job: mark the entry "BUSY (task)" if it is still there.
Begin(t) ==
  /\ pc[t] = "spawned" /\ Goto(t, "assign")
  /\ registry' = IF Registered(on[t]) THEN [registry EXCEPT ![on[t]] = "BUSY"]
                                      ELSE registry
  /\ UNCHANGED <<gcsVars, schedVars, on, retried, evictVars, nodeVars>>

\* AssignTask, seen from both ends: the worker refuses while its runner is
\* RUNNING, otherwise it starts a new runner; an unreachable worker, or a
\* refusal, ends the attempt.
Assign(t) ==
  LET w == on[t]
      accepted == Reachable(w) /\ runner[w].status # "RUNNING"
  IN  /\ pc[t] = "assign"
      /\ Goto(t, IF accepted THEN "poll" ELSE "failed")
      /\ runner' = IF accepted
                     THEN [runner EXCEPT ![w] = [task |-> t, status |-> "RUNNING"]]
                     ELSE runner
      /\ UNCHANGED <<gcsVars, registry, schedVars, on, retried, evictVars,
                     node>>

\* The reply to AssignTask is lost: the worker runs, the Head sees RpcError.
AssignReplyLost(t) ==
  /\ pc[t] = "assign" /\ Goto(t, "failed")
  /\ Reachable(on[t]) /\ runner[on[t]].status # "RUNNING"
  /\ runner' = [runner EXCEPT ![on[t]] = [task |-> t, status |-> "RUNNING"]]
  /\ UNCHANGED <<gcsVars, registry, schedVars, on, retried, evictVars, node>>

\* Each round of the polling loop first looks whether the entry is there.
CheckRegistry(t) ==
  /\ pc[t] = "poll"
  /\ Goto(t, IF Registered(on[t]) THEN "query" ELSE "failed")
  /\ UNCHANGED <<gcsVars, registry, schedVars, on, retried, evictVars,
                 nodeVars>>

\* Mutant: a FAILED answer does not end the polling.
Query_IgnoresFailed(t) ==
  LET w == on[t]
      status == IF runner[w].task = t THEN runner[w].status ELSE "NOT_FOUND"
  IN  /\ pc[t] = "query"
      /\ Goto(t, IF ~Reachable(w) THEN "failed"
                 ELSE IF status = "SUCCESS" THEN "ok" ELSE "poll")
      /\ UNCHANGED <<gcsVars, registry, schedVars, on, retried, evictVars,
                     nodeVars>>

\* GetTaskStatus. RUNNING and NOT_FOUND (another task, or none) poll again.
Query(t) ==
  LET w == on[t]
      status == IF runner[w].task = t THEN runner[w].status ELSE "NOT_FOUND"
  IN  /\ pc[t] = "query"
      /\ Goto(t, IF ~Reachable(w) THEN "failed"
                 ELSE IF status = "SUCCESS" THEN "ok"
                 ELSE IF status = "FAILED" THEN "failed" ELSE "poll")
      /\ UNCHANGED <<gcsVars, registry, schedVars, on, retried, evictVars,
                     nodeVars>>

\* An RPC of the thread fails although the worker is there.
RpcLost(t) ==
  /\ pc[t] \in {"assign", "query"} /\ Goto(t, "failed")
  /\ UNCHANGED <<gcsVars, registry, schedVars, on, retried, evictVars,
                 nodeVars>>

\* Mutant: only a success gives the worker back.
Release_OnlySuccess(t) ==
  /\ pc[t] \in {"ok", "failed"}
  /\ registry' = IF Registered(on[t]) /\ pc[t] = "ok"
                   THEN [registry EXCEPT ![on[t]] = "IDLE"] ELSE registry
  /\ completed' = IF pc[t] = "ok" THEN completed \cup {t} ELSE completed
  /\ Goto(t, IF pc[t] = "ok" THEN "none" ELSE "requeue")
  /\ on' = [on EXCEPT ![t] = NoWorker]
  /\ UNCHANGED <<queue, counter, schedVars, retried, evictVars, nodeVars>>

\* Mutant: the outcome is recorded as a success either way.
Release_AlwaysCompleted(t) ==
  /\ pc[t] \in {"ok", "failed"}
  /\ registry' = IF Registered(on[t]) THEN [registry EXCEPT ![on[t]] = "IDLE"]
                                      ELSE registry
  /\ completed' = completed \cup {t}
  /\ Goto(t, IF pc[t] = "ok" THEN "none" ELSE "requeue")
  /\ on' = [on EXCEPT ![t] = NoWorker]
  /\ UNCHANGED <<queue, counter, schedVars, retried, evictVars, nodeVars>>

\* The finally block: the entry, if there, becomes IDLE and the outcome is
\* recorded, in one registry_lock region.
Release(t) ==
  /\ pc[t] \in {"ok", "failed"}
  /\ registry' = IF Registered(on[t]) THEN [registry EXCEPT ![on[t]] = "IDLE"]
                                      ELSE registry
  /\ completed' = IF pc[t] = "ok" THEN completed \cup {t} ELSE completed
  /\ Goto(t, IF pc[t] = "ok" THEN "none" ELSE "requeue")
  /\ on' = [on EXCEPT ![t] = NoWorker]
  /\ UNCHANGED <<queue, counter, schedVars, retried, evictVars, nodeVars>>

\* Mutant: a task that failed once before is given up.
Requeue_OnlyOnce(t) ==
  /\ pc[t] = "requeue" /\ Goto(t, "none")
  /\ queue' = IF t \in retried THEN queue ELSE Append(queue, t)
  /\ retried' = retried \cup {t}
  /\ UNCHANGED <<counter, completed, registry, schedVars, on, evictVars,
                 nodeVars>>

\* After a failure the task goes to the back of the queue, however often it
\* has failed before, and the thread ends.
Requeue(t) ==
  /\ pc[t] = "requeue" /\ Goto(t, "none")
  /\ queue' = Append(queue, t)
  /\ retried' = retried \cup {t}
  /\ UNCHANGED <<counter, completed, registry, schedVars, on, evictVars,
                 nodeVars>>

(***************************************************************************)
(* The eviction thread: a snapshot of the spot entries, of which the       *)
(* members of W draw an eviction; then for each of them first the entry is *)
(* deleted and then, outside the lock, the container is removed.           *)
(***************************************************************************)

EvictSnapshot(W) ==
  /\ evictList = {} /\ evicting = NoWorker
  /\ W # {} /\ W \subseteq {w \in Spot : Registered(w)}
  /\ evictList' = W
  /\ UNCHANGED <<gcsVars, registry, schedVars, execVars, evicting, nodeVars>>

EvictDrop(w) ==
  /\ w \in evictList /\ evicting = NoWorker
  /\ Drop({w})
  /\ evictList' = evictList \ {w} /\ evicting' = w
  /\ UNCHANGED <<gcsVars, schedVars, execVars, nodeVars>>

EvictStop(result) ==
  /\ evicting # NoWorker
  /\ StopContainer(evicting, result)
  /\ evicting' = NoWorker
  /\ UNCHANGED <<gcsVars, registry, schedVars, execVars, evictList>>

(***************************************************************************)
(* The worker processes.                                                   *)
(***************************************************************************)

\* RegisterWorker: refused while the id is in the registry. A worker that has
\* been accepted never registers again.
Register(w) ==
  /\ node[w] = "BOOTING" /\ ~Registered(w)
  /\ BootOutlastsPoll => Unbound(w)
  /\ registry' = [registry EXCEPT ![w] = "IDLE"]
  /\ node' = [node EXCEPT ![w] = "UP"]
  /\ UNCHANGED <<gcsVars, schedVars, execVars, evictVars, runner>>

\* The runner thread ends its task.
Finish(w, status) ==
  /\ runner[w].status = "RUNNING"
  /\ runner' = [runner EXCEPT ![w].status = status]
  /\ UNCHANGED <<gcsVars, registry, schedVars, execVars, evictVars, node>>

\* The process dies without telling the Head.
Crash(w) ==
  /\ w \in Crashable /\ Reachable(w)
  /\ node' = [node EXCEPT ![w] = "EXITED"]
  /\ runner' = [runner EXCEPT ![w] = NoRun]
  /\ UNCHANGED <<gcsVars, registry, schedVars, execVars, evictVars>>

\* A KeyboardInterrupt: DeregisterWorker, then the process ends.
Leave(w) ==
  /\ w \in Crashable /\ node[w] = "UP"
  /\ Drop({w})
  /\ node' = [node EXCEPT ![w] = "EXITED"]
  /\ runner' = [runner EXCEPT ![w] = NoRun]
  /\ UNCHANGED <<gcsVars, schedVars, execVars, evictVars>>

(***************************************************************************)
(* The specification.                                                      *)
(***************************************************************************)

SchedulerStep ==
  \/ FastTick \/ ScaleTick
  \/ \E D \in SUBSET Spot : CollectDead(D)
  \/ \E w \in Spot, result \in NodeState : Reap(w, result)
  \/ \E n \in BatchSizes \cup {0} : Generate(n)
  \/ \E W \in SUBSET Spot : Launch(W)
  \/ NoScaling
  \/ \E w \in Spot : ScaleInChoose(w)
  \/ \E result \in NodeState : ScaleInStop(result)
  \/ ScaleInDrop
  \/ Pick \/ EndLoop
  \/ \E fit \in FitSets, w \in Worker : Place(fit, w)
  \/ \E fit \in FitSets : Defer(fit)
  \/ Restore

ExecutorStep(t) ==
  \/ Begin(t) \/ Assign(t) \/ CheckRegistry(t) \/ Query(t) \/ Release(t) \/ Requeue(t)

EvictionStep ==
  \/ \E w \in Spot : EvictDrop(w)
  \/ \E result \in NodeState : EvictStop(result)

WorkerStep(w) == Register(w) \/ Finish(w, "SUCCESS")

\* What a run without failures never does. A live worker whose heartbeat is
\* found too old is as much a failure as a crashed one.
Fault ==
  \/ \E t \in Task : AssignReplyLost(t) \/ RpcLost(t)
  \/ \E w \in Worker : Finish(w, "FAILED") \/ Crash(w) \/ Leave(w)
  \/ \E W \in SUBSET Spot : EvictSnapshot(W)

Next ==
  \/ SchedulerStep
  \/ \E t \in Task : ExecutorStep(t)
  \/ EvictionStep
  \/ \E w \in Worker : WorkerStep(w)
  \/ Fault

Spec == Init /\ [][Next]_vars

(***************************************************************************)
(* Fairness. Every thread keeps running and every runner ends its task.    *)
(* Nothing is assumed of what the scheduler thread chooses to do.          *)
(***************************************************************************)

Fairness ==
  /\ WF_vars(SchedulerStep)
  /\ \A t \in Task : WF_vars(ExecutorStep(t))
  /\ \A w \in Worker : WF_vars(WorkerStep(w))

\* A task fails on a worker that is never evicted, collected or scaled in.
OnDemandFault ==
  \/ \E t \in Task : on[t] \in OnDemand /\ (AssignReplyLost(t) \/ RpcLost(t))
  \/ \E w \in OnDemand : Finish(w, "FAILED")

\* Such failures eventually stop. Spot workers may fail, be evicted and be found
\* DEAD in the middle of a task for ever.
Calm == <>[][~OnDemandFault]_vars

FairSpec == Spec /\ Fairness /\ Calm

(***************************************************************************)
(* Properties.                                                             *)
(***************************************************************************)

\* The types of the variables.
TypeOK ==
  /\ queue \in Seq(Task) /\ deferred \in Seq(Task)
  /\ counter \in 0..MaxTask /\ completed \subseteq Task /\ retried \subseteq Task
  /\ hand \in Task \cup {NoTask}
  /\ registry \in [Worker -> {"ABSENT", "IDLE", "BUSY"}]
  /\ spc \in SchedulerPC /\ scaling \in BOOLEAN /\ broke \in BOOLEAN
  /\ reaping \subseteq Spot /\ evictList \subseteq Spot
  /\ victim \in Spot \cup {NoWorker} /\ evicting \in Spot \cup {NoWorker}
  /\ pc \in [Task -> ExecutorPC] /\ on \in [Task -> Worker \cup {NoWorker}]
  /\ node \in [Worker -> NodeState] /\ runner \in [Worker -> Run]

Queued  == ToSet(queue)
Put     == ToSet(deferred)
Held    == {hand} \ {NoTask}
Running == {t \in Task : pc[t] # "none"}

\* A task that was created is never lost: it waits in the queue, is in the
\* scheduler's hand or among the deferred tasks, has an executor thread, or is
\* completed. The pop, the hand-over to a thread, the failure path and the
\* restoring of deferred tasks are separate lock regions (scheduler_daemon.py
\* 35-57, task_executor.py 785-787).
NothingLost == 1..counter = Queued \cup Held \cup Put \cup Running \cup completed

\* It is in only one of these places, and only once: no task has two threads,
\* and a completed task is not run again.
NothingDuplicated ==
  /\ Distinct(queue) /\ Distinct(deferred)
  /\ Queued \cap (Held \cup Put \cup Running \cup completed) = {}
  /\ Held \cap (Put \cup Running \cup completed) = {}
  /\ Put \cap (Running \cup completed) = {}
  /\ Running \cap completed = {}

\* A worker is never claimed for two tasks, and an entry somebody has claimed
\* is not IDLE: the finally block of one executor (656-658) writes IDLE without
\* asking whose claim it ends. Needs BootOutlastsPoll.
ExclusiveClaim ==
  /\ \A t, u \in Task : on[t] = on[u] /\ on[t] # NoWorker => t = u
  /\ \A t \in Task : on[t] # NoWorker => registry[on[t]] # "IDLE"

\* A claim is not leaked: behind every BUSY entry there is a thread that is
\* going to release it, whatever failed in between.
NoLeakedClaim ==
  \A w \in Worker : registry[w] = "BUSY" => \E t \in Task : on[t] = w

\* A thread that polls a registered, reachable worker asks for the task that
\* worker holds. Otherwise GetTaskStatus answers NOT_FOUND for ever and the
\* polling loop (task_executor.py 580-630) never ends. Needs BootOutlastsPoll.
PollFindsTask ==
  \A t \in Task :
    pc[t] \in {"poll", "query"} /\ Registered(on[t]) /\ Reachable(on[t])
      => runner[on[t]].task = t

\* What the invariants above rest on: a thread is bound to a worker from its
\* start to its finally block, and the scheduler thread has a task in hand
\* exactly between get_next_runnable_task and the placing of that task.
ThreadBinding == \A t \in Task : on[t] = NoWorker <=> pc[t] \in {"none", "requeue"}

SchedulerLocals == hand = NoTask <=> spc # "place"

\* The inductive invariant of Spec, and the part that needs BootOutlastsPoll.
Inv ==
  /\ TypeOK /\ NothingLost /\ NothingDuplicated
  /\ ThreadBinding /\ SchedulerLocals /\ NoLeakedClaim

ClaimInv == Inv /\ ExclusiveClaim /\ PollFindsTask

\* Backfilling keeps arrival order: of two tasks that have never failed, the
\* older is in front, although tasks are popped, deferred and put back while
\* other threads append. Without dependencies only.
ArrivalOrder ==
  LET waiting == deferred \o (IF hand = NoTask THEN <<>> ELSE <<hand>>) \o queue
  IN  \A i, j \in 1..Len(waiting) :
        i < j /\ {waiting[i], waiting[j]} \cap retried = {} => waiting[i] < waiting[j]

\* In static mode, once tasks no longer fail on worker-1 and no task is generated
\* any more (MaxTask), every task is completed, although spot workers may go on
\* failing it: each failure puts it behind those that wait (786), and an IDLE
\* worker-1 is tried first (static.py). Needs an idle worker-1 to be below the
\* threshold of memory (LoadVaries). The other modes promise no such thing.
EveryTaskCompletes == <>[](Mode = "static" => completed = 1..counter)

(***************************************************************************)
(* The abstract view: a lease is what an executor thread holds between the *)
(* claim of its worker and the finally block.                              *)
(***************************************************************************)

Leased == {t \in Task : on[t] # NoWorker}

\* The task each worker is bound to by f, an assignment of workers to tasks.
LeaseOf(f) == [w \in Worker |-> IF \A t \in Task : f[t] # w THEN NoTask
                                ELSE CHOOSE t \in Task : f[t] = w]

Waiting == (1..counter) \ (completed \cup Leased)
Lease   == LeaseOf(on)

Abstract == INSTANCE Leases WITH waiting <- Waiting, lease <- Lease, done <- completed

\* The dispatcher implements Leases: every step of its threads is one of the
\* four steps of a lease, or none. Needs BootOutlastsPoll.
RefinesLeases == Abstract!Spec
=============================================================================
