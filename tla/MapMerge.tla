------------------------------ MODULE MapMerge ------------------------------
(***************************************************************************)
(* A training job split over several workers: the map-merge branch of      *)
(* run_task_on_worker, its map threads, and the recovery of the subtasks   *)
(* of a dead worker (check_and_cleanup_dead_workers). Jobs, recovered      *)
(* subtasks and small jobs compete for the same workers.                   *)
(*                                                                         *)
(* The scheduler thread is what Dispatch details; here it claims an IDLE   *)
(* worker for a queued task in one step, whatever the order of the queue,  *)
(* and the requeue of a failed task is part of its finally block.          *)
(***************************************************************************)
EXTENDS Integers, FiniteSets, FiniteSetsExt

CONSTANTS
  Job,          \* tasks of the queue
  Small,        \* those with fewer than 8 epochs from the start
  MaxSplits,    \* a job is split into at most this many subtasks (3)
  MaxAttempts,  \* max_retries of the selective retry loop (5)
  MaxLosses,    \* bound: how many workers ever leave the registry
  Worker,       \* worker ids
  OnDemand,     \* those of node type on_demand, which are never removed
  Breakable,    \* workers on which a task may fail (OOM, a training error)
  FullDisk,     \* workers on which saving the final weights may fail
  NoWorker,     \* "no worker id"
  NoTask        \* "no task id"

Part == Job \X (1..MaxSplits)    \* the subtasks, <task_id>-map-<k>
Task == Job \cup Part            \* what an executor thread may be started for
Index == 1..MaxSplits

ASSUME BoundAssumption ==
  /\ MaxSplits \in Nat \ {0} /\ MaxAttempts \in Nat \ {0} /\ MaxLosses \in Nat
  /\ Small \subseteq Job /\ OnDemand \subseteq Worker /\ Breakable \subseteq Worker
  /\ FullDisk \subseteq Worker
  /\ NoWorker \notin Worker /\ NoTask \notin Task
  /\ IsFiniteSet(Worker) /\ Job \cap Part = {}

VARIABLES
  registry,   \* worker_registry: "ABSENT", "IDLE" or "BUSY" (also MAP, MERGE)
  victim,     \* the worker scale_in_specific_worker has chosen
  losses,     \* how many entries were removed, for the bound
  pc,         \* where the executor thread of a task is
  own,        \* worker_id of that thread
  splits,     \* num_splits
  small,      \* jobs with fewer than 8 epochs left: they are not split (any more)
  attempts,   \* attempt
  results,    \* map_results: "none", "ok" or "failed" for each subtask
  by,         \* their worker_id
  plan,       \* <<subtask index, worker>> still to be started in this attempt
  reducer,    \* reduce_worker_id
  spc,        \* where the map thread of a subtask is
  on,         \* w_id of the map thread
  lineage,    \* task_lineage: the worker_id of a RUNNING subtask, or NoWorker
  final,      \* subtasks whose data/final_<id>.pt is there and not empty, as
              \* the Head sees it
  torn,       \* those of which it is there but cannot be loaded
  node,       \* "UP" or "GONE", the container of a worker
  runner      \* what the worker process runs

headVars  == <<registry, victim, losses>>
execVars  == <<pc, own>>
jobVars   == <<small, splits, attempts, results, by, plan, reducer>>
mapVars   == <<spc, on>>
fileVars  == <<final, torn>>
dataVars  == <<lineage, final, torn>>
nodeVars  == <<node, runner>>
vars == <<registry, victim, losses, pc, own, small, splits, attempts, results,
          by, plan, reducer, spc, on, lineage, final, torn, node, runner>>

PC      == {"none", "queued", "spawned", "assign", "poll", "attempt", "claim",
            "pin", "wait", "merge", "watch", "merged", "unmerged",
            "cleanup", "ok", "failed", "done"}
MapPC   == {"none", "check", "assign", "poll", "ok", "failed"}
Run     == [task : Task \cup {NoTask}, files : SUBSET Part,
            status : {"NONE", "RUNNING", "SUCCESS", "FAILED"}]
NoRun   == [task |-> NoTask, files |-> {}, status |-> "NONE"]
Spot    == Worker \ OnDemand

\* worker-1 and the Head mount ../data (docker-compose.yml:22, 51), spot containers
\* a volume of their own (cluster_manager.py:239-241): what they save the Head and
\* the merge do not see.
Sharing == OnDemand

(***************************************************************************)
(* Helpers.                                                                *)
(***************************************************************************)

Registered(w) == registry[w] # "ABSENT"
Idle          == {w \in Worker : registry[w] = "IDLE"}
PartsOf(j)    == {<<j, k>> : k \in 1..splits[j]}

\* Mutant: every retry starts all subtasks again.
Pending_All(j) == 1..splits[j]

\* The subtasks a retry has to start.
Pending(j) == {k \in 1..splits[j] : results[<<j, k>>] # "ok"}

\* Write a status into an entry if it is still there.
Mark(w, status) == IF Registered(w) THEN [registry EXCEPT ![w] = status] ELSE registry

\* AssignTask as the worker sees it: refused while a task is RUNNING.
Accepts(w) == node[w] = "UP" /\ runner[w].status # "RUNNING"
Start(w, t, files) ==
  runner' = [runner EXCEPT ![w] = [task |-> t, files |-> files, status |-> "RUNNING"]]

\* One round of a polling loop of w for task t: the registry is looked at
\* first; RUNNING and NOT_FOUND answers leave the loop where it is.
Answer(w, t) ==
  IF ~Registered(w) \/ node[w] = "GONE" THEN "FAILED"
  ELSE IF runner[w].task # t THEN "NOT_FOUND" ELSE runner[w].status

\* A thread that polls w, and would notice that its entry is gone.
Polled(w) ==
  \/ \E t \in Task : own[t] = w /\ pc[t] \in {"spawned", "assign", "poll", "failed", "ok"}
  \/ \E s \in Part : on[s] = w

Init ==
  /\ registry = [w \in Worker |-> "IDLE"] /\ victim = NoWorker /\ losses = 0
  /\ pc = [t \in Task |-> IF t \in Job THEN "queued" ELSE "none"]
  /\ own = [t \in Task |-> NoWorker]
  /\ small = Small /\ splits = [j \in Job |-> 0] /\ attempts = [j \in Job |-> 0]
  /\ results = [s \in Part |-> "none"] /\ by = [s \in Part |-> NoWorker]
  /\ plan = [j \in Job |-> {}]
  /\ reducer = [j \in Job |-> NoWorker]
  /\ spc = [s \in Part |-> "none"] /\ on = [s \in Part |-> NoWorker]
  /\ lineage = [s \in Part |-> NoWorker] /\ final = {} /\ torn = {}
  /\ node = [w \in Worker |-> "UP"] /\ runner = [w \in Worker |-> NoRun]

(***************************************************************************)
(* The rest of the Head: the scheduler thread and the eviction thread.     *)
(***************************************************************************)

\* The scheduler thread claims an IDLE worker for a queued task. It does not
\* while it is removing a worker.
Claim(t, w) ==
  /\ victim = NoWorker
  /\ pc[t] = "queued" /\ registry[w] = "IDLE"
  /\ registry' = [registry EXCEPT ![w] = "BUSY"]
  /\ pc' = [pc EXCEPT ![t] = "spawned"]
  /\ own' = [own EXCEPT ![t] = w]
  /\ UNCHANGED <<victim, losses, jobVars, mapVars, dataVars, nodeVars>>

\* check_and_cleanup_dead_workers for one worker: the entry is deleted and the
\* RUNNING subtasks recorded for it are put into the queue as tasks of their own.
\* Bound: one recovered copy of a subtask at a time.
Dead(w) ==
  LET lost == {s \in Part : lineage[s] = w}
  IN  /\ victim = NoWorker /\ losses < MaxLosses
      /\ w \in Spot /\ Registered(w)
      /\ \A s \in lost : pc[s] = "none"
      /\ registry' = [registry EXCEPT ![w] = "ABSENT"] /\ losses' = losses + 1
      /\ lineage' = [s \in Part |-> IF s \in lost THEN NoWorker ELSE lineage[s]]
      /\ pc' = [t \in Task |-> IF t \in lost THEN "queued" ELSE pc[t]]
      /\ UNCHANGED <<victim, own, jobVars, mapVars, fileVars, nodeVars>>

\* The eviction thread deletes the entry; nothing is recovered.
Evict(w) ==
  /\ losses < MaxLosses /\ w \in Spot /\ Registered(w)
  /\ registry' = [registry EXCEPT ![w] = "ABSENT"] /\ losses' = losses + 1
  /\ UNCHANGED <<victim, execVars, jobVars, mapVars, dataVars, nodeVars>>

\* Its container, or that of a dead worker, is stopped some time later, or
\* never if Docker raises.
Vanish(w) ==
  /\ w \in Spot /\ ~Registered(w) /\ node[w] = "UP"
  /\ node' = [node EXCEPT ![w] = "GONE"]
  /\ runner' = [runner EXCEPT ![w] = NoRun]
  /\ UNCHANGED <<headVars, execVars, jobVars, mapVars, dataVars>>

\* scale_in_specific_worker: choose an IDLE entry under the lock, stop the
\* container, delete the entry.
ScaleInChoose(w) ==
  /\ victim = NoWorker /\ losses < MaxLosses
  /\ w \in Spot /\ registry[w] = "IDLE"
  /\ victim' = w /\ losses' = losses + 1
  /\ UNCHANGED <<registry, execVars, jobVars, mapVars, dataVars, nodeVars>>

ScaleInStop ==
  /\ victim # NoWorker /\ node[victim] = "UP"
  /\ node' = [node EXCEPT ![victim] = "GONE"]
  /\ runner' = [runner EXCEPT ![victim] = NoRun]
  /\ UNCHANGED <<headVars, execVars, jobVars, mapVars, dataVars>>

ScaleInDrop ==
  /\ victim # NoWorker /\ node[victim] = "GONE"
  /\ registry' = [registry EXCEPT ![victim] = "ABSENT"] /\ victim' = NoWorker
  /\ UNCHANGED <<losses, execVars, jobVars, mapVars, dataVars, nodeVars>>

\* scale_out_worker recycles a free id and the new worker registers. A boot
\* outlasts the 1.5 s in which a polling thread notices the loss; the thread
\* of a split job does not look at its own worker's entry at all.
Replace(w) ==
  /\ node[w] = "GONE" /\ ~Registered(w) /\ ~Polled(w)
  /\ registry' = [registry EXCEPT ![w] = "IDLE"]
  /\ node' = [node EXCEPT ![w] = "UP"]
  /\ UNCHANGED <<victim, losses, execVars, jobVars, mapVars, dataVars, runner>>

(***************************************************************************)
(* The executor thread of task t: the decision, and the undivided attempt. *)
(***************************************************************************)

Goto(t, label) == pc' = [pc EXCEPT ![t] = label]

\* The workers a split would count on: the IDLE ones and the thread's own.
Available(t) ==
  {w \in Worker : Registered(w) /\ (w = own[t] \/ registry[w] = "IDLE")}

Split(j) ==
  /\ pc[j] = "spawned" /\ j \in Job \ small /\ Cardinality(Available(j)) >= 2
  /\ splits' = [splits EXCEPT ![j] = Min({Cardinality(Available(j)), MaxSplits})]
  /\ Goto(j, "attempt")
  /\ UNCHANGED <<headVars, own, small, attempts, results, by, plan, reducer, mapVars,
                 dataVars, nodeVars>>

\* Too small, recovered, or too few workers: run it as a whole.
Undivided(t) ==
  /\ pc[t] = "spawned"
  /\ t \in Job \ small => Cardinality(Available(t)) < 2
  /\ registry' = Mark(own[t], "BUSY")
  /\ Goto(t, "assign")
  /\ UNCHANGED <<victim, losses, own, jobVars, mapVars, dataVars, nodeVars>>

Assign(t) ==
  /\ pc[t] = "assign"
  /\ IF Accepts(own[t]) THEN Start(own[t], t, {}) /\ Goto(t, "poll")
                        ELSE UNCHANGED runner /\ Goto(t, "failed")
  /\ UNCHANGED <<headVars, own, jobVars, mapVars, dataVars, node>>

\* Delete the final weights of the tasks in S.
Remove(S) == final' = final \ S /\ torn' = torn \ S

\* On success the final weights of the task are deleted, whoever may still
\* want those of a recovered subtask.
Poll(t) ==
  /\ pc[t] = "poll"
  /\ CASE Answer(own[t], t) = "SUCCESS" -> Goto(t, "ok") /\ Remove({t})
       [] Answer(own[t], t) = "FAILED"  -> Goto(t, "failed") /\ UNCHANGED fileVars
       [] OTHER -> UNCHANGED <<pc, fileVars>>
  /\ UNCHANGED <<headVars, own, jobVars, mapVars, lineage, nodeVars>>

\* The outer finally block, for every kind of attempt. The locals of the
\* thread are gone with it. A job that failed undivided may have a checkpoint
\* that leaves it fewer than 8 epochs (769-782).
Release(t) ==
  /\ pc[t] \in {"ok", "failed"}
  /\ registry' = Mark(own[t], "IDLE")
  /\ own' = [own EXCEPT ![t] = NoWorker]
  /\ Goto(t, IF pc[t] = "failed" THEN "queued" ELSE IF t \in Job THEN "done" ELSE "none")
  /\ \/ UNCHANGED small
     \/ t \in Job /\ pc[t] = "failed" /\ splits[t] = 0 /\ small' = small \cup {t}
  /\ splits' = [j \in Job |-> IF j = t THEN 0 ELSE splits[j]]
  /\ attempts' = [j \in Job |-> IF j = t THEN 0 ELSE attempts[j]]
  /\ results' = [s \in Part |-> IF s[1] = t THEN "none" ELSE results[s]]
  /\ by' = [s \in Part |-> IF s[1] = t THEN NoWorker ELSE by[s]]
  /\ UNCHANGED <<victim, losses, plan, reducer, mapVars, dataVars, nodeVars>>

(***************************************************************************)
(* The split attempt: the selective retry loop.                            *)
(***************************************************************************)

\* Subtasks in order, an on_demand worker first, as many as there are workers.
Plans(pending, idle) ==
  LET n   == Min({Cardinality(pending), Cardinality(idle)})
      dom == {k \in pending : Cardinality({i \in pending : i < k}) < n}
  IN  {p \in [dom -> idle] :
         /\ \A i, k \in dom : p[i] = p[k] => i = k
         /\ idle \cap OnDemand # {} => p[Min(dom)] \in OnDemand}

\* Mutant: the bound of the loop is one too high.
Attempt_OnceMore(j) ==
  /\ pc[j] = "attempt" /\ Pending(j) # {} /\ attempts[j] <= MaxAttempts
  /\ attempts' = [attempts EXCEPT ![j] = @ + 1]
  /\ IF Idle = {} THEN UNCHANGED <<plan, pc>>
     ELSE /\ \E p \in Plans(Pending(j), Idle) :
               plan' = [plan EXCEPT ![j] = {<<k, p[k]>> : k \in DOMAIN p}]
          /\ Goto(j, "claim")
  /\ UNCHANGED <<headVars, own, small, splits, results, by, reducer, mapVars,
                 dataVars, nodeVars>>

\* One round: what is not done yet is planned onto the workers IDLE now.
Attempt(j) ==
  /\ pc[j] = "attempt" /\ Pending(j) # {} /\ attempts[j] < MaxAttempts
  /\ attempts' = [attempts EXCEPT ![j] = @ + 1]
  /\ IF Idle = {} THEN UNCHANGED <<plan, pc>>
     ELSE /\ \E p \in Plans(Pending(j), Idle) :
               plan' = [plan EXCEPT ![j] = {<<k, p[k]>> : k \in DOMAIN p}]
          /\ Goto(j, "claim")
  /\ UNCHANGED <<headVars, own, small, splits, results, by, reducer, mapVars,
                 dataVars, nodeVars>>

\* Mutant: the results are not looked at once the retries are used up.
EndAttempts_AnyResult(j) ==
  /\ pc[j] = "attempt" /\ (Pending(j) = {} \/ attempts[j] = MaxAttempts)
  /\ Goto(j, "pin")
  /\ UNCHANGED <<headVars, own, jobVars, mapVars, dataVars, nodeVars>>

\* The loop ends: everything is done, or the retries are used up.
EndAttempts(j) ==
  /\ pc[j] = "attempt" /\ (Pending(j) = {} \/ attempts[j] = MaxAttempts)
  /\ Goto(j, IF Pending(j) = {} THEN "pin" ELSE "failed")
  /\ UNCHANGED <<headVars, own, jobVars, mapVars, dataVars, nodeVars>>

\* The next planned worker is marked, claimed or not, the lineage is recorded
\* and the map thread is started.
StartMap(j) ==
  /\ pc[j] = "claim"
  /\ \E a \in plan[j] :
       LET s == <<j, a[1]>>   \* <task_id>-map-<sub_idx>
       IN  /\ \A b \in plan[j] : a[1] <= b[1]
           /\ registry' = Mark(a[2], "BUSY")
           /\ lineage' = [lineage EXCEPT ![s] = a[2]]
           /\ spc' = [spc EXCEPT ![s] = "check"]
           /\ on' = [on EXCEPT ![s] = a[2]]
           /\ plan' = [plan EXCEPT ![j] = @ \ {a}]
  /\ UNCHANGED <<victim, losses, execVars, small, splits, attempts, results, by,
                 reducer, fileVars, nodeVars>>

Join(j) ==
  /\ pc[j] = "claim" /\ plan[j] = {}
  /\ \A s \in PartsOf(j) : spc[s] = "none"
  /\ Goto(j, "attempt")
  /\ UNCHANGED <<headVars, own, jobVars, mapVars, dataVars, nodeVars>>

(***************************************************************************)
(* The map thread of subtask s.                                            *)
(***************************************************************************)

GotoMap(s, label) == spc' = [spc EXCEPT ![s] = label]

\* Its status in the lineage is SUCCESS or FAILED from now on.
CloseLineage(s) == lineage' = [lineage EXCEPT ![s] = NoWorker]

\* Mutant: no Skip-Execution.
MapCheck_NoSkip(s) ==
  /\ spc[s] = "check"
  /\ GotoMap(s, "assign")
  /\ UNCHANGED <<headVars, execVars, jobVars, on, dataVars, nodeVars>>

\* Skip-Execution: the final weights are there already.
MapCheck(s) ==
  /\ spc[s] = "check"
  /\ IF s \in final THEN GotoMap(s, "ok") /\ CloseLineage(s)
                    ELSE GotoMap(s, "assign") /\ UNCHANGED lineage
  /\ UNCHANGED <<headVars, execVars, jobVars, on, fileVars, nodeVars>>

\* A refusal ends the attempt without a word in the lineage.
MapAssign(s) ==
  /\ spc[s] = "assign"
  /\ IF Accepts(on[s]) THEN Start(on[s], s, {}) /\ GotoMap(s, "poll")
                       ELSE UNCHANGED runner /\ GotoMap(s, "failed")
  /\ IF node[on[s]] = "GONE" THEN CloseLineage(s) ELSE UNCHANGED lineage
  /\ UNCHANGED <<headVars, execVars, jobVars, on, fileVars, node>>

MapPoll(s) ==
  LET answer == Answer(on[s], s)
  IN  /\ spc[s] = "poll"
      /\ IF answer \in {"SUCCESS", "FAILED"}
           THEN /\ CloseLineage(s)
                /\ GotoMap(s, IF answer = "SUCCESS" THEN "ok" ELSE "failed")
           ELSE UNCHANGED <<spc, lineage>>
      /\ UNCHANGED <<headVars, execVars, jobVars, on, fileVars, nodeVars>>

\* Mutant: a failed map thread keeps its worker.
MapEnd_OnlySuccess(s) ==
  /\ spc[s] \in {"ok", "failed"}
  /\ registry' = IF on[s] # own[s[1]] /\ spc[s] = "ok" THEN Mark(on[s], "IDLE")
                                                       ELSE registry
  /\ results' = [results EXCEPT ![s] = spc[s]] /\ by' = [by EXCEPT ![s] = on[s]]
  /\ GotoMap(s, "none")
  /\ on' = [on EXCEPT ![s] = NoWorker]
  /\ UNCHANGED <<victim, losses, execVars, small, splits, attempts, plan, reducer,
                 dataVars, nodeVars>>

\* The thread's finally block: the worker becomes IDLE, unless it is the
\* job's own, and the result is recorded.
MapEnd(s) ==
  /\ spc[s] \in {"ok", "failed"}
  /\ registry' = IF on[s] # own[s[1]] THEN Mark(on[s], "IDLE") ELSE registry
  /\ results' = [results EXCEPT ![s] = spc[s]] /\ by' = [by EXCEPT ![s] = on[s]]
  /\ GotoMap(s, "none")
  /\ on' = [on EXCEPT ![s] = NoWorker]
  /\ UNCHANGED <<victim, losses, execVars, small, splits, attempts, plan, reducer,
                 dataVars, nodeVars>>

(***************************************************************************)
(* The merge, pinned to an on_demand worker.                               *)
(***************************************************************************)

\* The job's own worker if it is on_demand, whatever its entry says now.
Pin(j) ==
  /\ pc[j] = "pin"
  /\ IF Registered(own[j]) /\ own[j] \in OnDemand
       THEN /\ reducer' = [reducer EXCEPT ![j] = own[j]]
            /\ registry' = Mark(own[j], "BUSY")
            /\ Goto(j, "merge")
       ELSE Goto(j, "wait") /\ UNCHANGED <<reducer, registry>>
  /\ UNCHANGED <<victim, losses, own, small, splits, attempts, results, by, plan,
                 mapVars, dataVars, nodeVars>>

\* Otherwise wait, without limit, for an on_demand worker to be IDLE.
Wait(j, w) ==
  /\ pc[j] = "wait" /\ w \in OnDemand /\ registry[w] = "IDLE"
  /\ reducer' = [reducer EXCEPT ![j] = w]
  /\ registry' = [registry EXCEPT ![w] = "BUSY"]
  /\ Goto(j, "merge")
  /\ UNCHANGED <<victim, losses, own, small, splits, attempts, results, by, plan,
                 mapVars, dataVars, nodeVars>>

MergeAssign(j) ==
  /\ pc[j] = "merge"
  /\ IF Accepts(reducer[j]) THEN Start(reducer[j], j, PartsOf(j)) /\ Goto(j, "watch")
                            ELSE UNCHANGED runner /\ Goto(j, "unmerged")
  /\ UNCHANGED <<headVars, own, jobVars, mapVars, dataVars, node>>

MergePoll(j) ==
  LET answer == Answer(reducer[j], j)
  IN  /\ pc[j] = "watch" /\ answer \in {"SUCCESS", "FAILED"}
      /\ Goto(j, IF answer = "SUCCESS" THEN "merged" ELSE "unmerged")
      /\ UNCHANGED <<headVars, own, jobVars, mapVars, dataVars, nodeVars>>

\* The inner finally block makes the merge's worker IDLE, the job's own one
\* included, before the clean-up and before the outer finally block.
MergeEnd(j) ==
  /\ pc[j] \in {"merged", "unmerged"}
  /\ registry' = Mark(reducer[j], "IDLE")
  /\ reducer' = [reducer EXCEPT ![j] = NoWorker]
  /\ Goto(j, IF pc[j] = "merged" THEN "cleanup" ELSE "failed")
  /\ UNCHANGED <<victim, losses, own, small, splits, attempts, results, by, plan,
                 mapVars, dataVars, nodeVars>>

\* The job's lineage entries and the merged files are removed.
Cleanup(j) ==
  /\ pc[j] = "cleanup" /\ Goto(j, "ok")
  /\ lineage' = [s \in Part |-> IF s[1] = j THEN NoWorker ELSE lineage[s]]
  /\ Remove(PartsOf(j))
  /\ UNCHANGED <<headVars, own, jobVars, mapVars, nodeVars>>

(***************************************************************************)
(* The workers.                                                            *)
(***************************************************************************)

\* The final weights of a subtask are saved where the Head looks for them.
Save(s) == final' = final \cup {s} /\ torn' = torn \ {s}

\* Saving them fails before the file is opened, when it is still empty, or later.
SaveFails(s) ==
  \/ UNCHANGED fileVars
  \/ final' \in {final \ {s}, final \cup {s}} /\ torn' = torn \cup {s}

\* Training ends: the final weights are saved, then the status is set, also if
\* saving failed.
Trained(w) ==
  LET t == runner[w].task
  IN  /\ runner[w].status = "RUNNING" /\ runner[w].files = {}
      /\ runner' = [runner EXCEPT ![w].status = "SUCCESS"]
      /\ IF t \in Part /\ w \in Sharing
           THEN Save(t) \/ (w \in FullDisk /\ SaveFails(t))
           ELSE UNCHANGED fileVars
      /\ UNCHANGED <<headVars, execVars, jobVars, mapVars, lineage, node>>

\* FedAvg over the files that exist; it fails if none does, or if one of them
\* cannot be loaded.
Averaged(w) ==
  LET found == runner[w].files \cap (final \cup torn)
  IN  /\ runner[w].status = "RUNNING" /\ runner[w].files # {}
      /\ runner' = [runner EXCEPT ![w].status =
                      IF found = {} \/ found \cap torn # {} THEN "FAILED" ELSE "SUCCESS"]
      /\ UNCHANGED <<headVars, execVars, jobVars, mapVars, dataVars, node>>

\* Out of memory, or an error while training.
Breaks(w) ==
  /\ w \in Breakable /\ runner[w].status = "RUNNING"
  /\ runner' = [runner EXCEPT ![w].status = "FAILED"]
  /\ UNCHANGED <<headVars, execVars, jobVars, mapVars, dataVars, node>>

(***************************************************************************)
(* The specification.                                                      *)
(***************************************************************************)

ExecutorStep(t) ==
  Undivided(t) \/ Assign(t) \/ Poll(t) \/ Release(t)

ParentStep(j) ==
  \/ Split(j) \/ Attempt(j) \/ EndAttempts(j) \/ StartMap(j) \/ Join(j) \/ Pin(j)
  \/ \E w \in OnDemand : Wait(j, w)
  \/ MergeAssign(j) \/ MergePoll(j) \/ MergeEnd(j) \/ Cleanup(j)

MapStep(s) == MapCheck(s) \/ MapAssign(s) \/ MapPoll(s) \/ MapEnd(s)

Removal ==
  \/ \E w \in Spot : Dead(w) \/ Evict(w) \/ Vanish(w) \/ ScaleInChoose(w)
  \/ ScaleInStop \/ ScaleInDrop

Next ==
  \/ \E t \in Task, w \in Worker : Claim(t, w)
  \/ Removal
  \/ \E w \in Worker : Replace(w)
  \/ \E t \in Task : ExecutorStep(t)
  \/ \E j \in Job : ParentStep(j)
  \/ \E s \in Part : MapStep(s)
  \/ \E w \in Worker : Trained(w) \/ Averaged(w) \/ Breaks(w)

Spec == Init /\ [][Next]_vars

(***************************************************************************)
(* Fairness. Every thread keeps running; the scheduler does not leave a    *)
(* queued task for ever while workers keep becoming IDLE, nor a merge that *)
(* waits miss an IDLE worker for ever; runners end; removed workers are    *)
(* replaced.                                                               *)
(***************************************************************************)

Fairness ==
  /\ \A t \in Task : WF_vars(ExecutorStep(t)) /\ SF_vars(\E w \in Worker : Claim(t, w))
  /\ \A j \in Job : WF_vars(ParentStep(j)) /\ SF_vars(\E w \in OnDemand : Wait(j, w))
  /\ \A s \in Part : WF_vars(MapStep(s))
  /\ \A w \in Worker : WF_vars(Trained(w) \/ Averaged(w)) /\ WF_vars(Replace(w))
  /\ WF_vars(ScaleInStop \/ ScaleInDrop)

\* Tasks eventually stop breaking.
Calm == <>[][\A w \in Worker : ~Breaks(w)]_vars

FairSpec == Spec /\ Fairness /\ Calm

(***************************************************************************)
(* Properties.                                                             *)
(***************************************************************************)

\* The types of the variables.
TypeOK ==
  /\ registry \in [Worker -> {"ABSENT", "IDLE", "BUSY"}]
  /\ victim \in Spot \cup {NoWorker} /\ losses \in 0..MaxLosses
  /\ pc \in [Task -> PC] /\ own \in [Task -> Worker \cup {NoWorker}]
  /\ small \subseteq Job /\ splits \in [Job -> 0..MaxSplits]
  /\ attempts \in [Job -> 0..MaxAttempts]
  /\ results \in [Part -> {"none", "ok", "failed"}]
  /\ by \in [Part -> Worker \cup {NoWorker}]
  /\ plan \in [Job -> SUBSET (Index \X Worker)]
  /\ reducer \in [Job -> OnDemand \cup {NoWorker}]
  /\ spc \in [Part -> MapPC] /\ on \in [Part -> Worker \cup {NoWorker}]
  /\ lineage \in [Part -> Worker \cup {NoWorker}]
  /\ final \subseteq Part /\ torn \subseteq Part
  /\ node \in [Worker -> {"UP", "GONE"}] /\ runner \in [Worker -> Run]

\* Behind a BUSY entry is a thread that will release it, although map threads,
\* merges and finally blocks overwrite each other's claims (327-329, 281, 378,
\* 389, 436, 658 of task_executor.py).
NoLeakedClaim ==
  \A w \in Worker : registry[w] = "BUSY" =>
    \/ \E t \in Task : own[t] = w
    \/ \E s \in Part : on[s] = w
    \/ \E j \in Job : reducer[j] = w

\* Selective Retry (292-302): a map thread runs only for a subtask that has not
\* succeeded yet in this attempt of its job.
SelectiveRetry == \A s \in Part : spc[s] # "none" => results[s] # "ok"

\* What the claims rest on: a thread that is not running holds no worker, map
\* threads run only between the planning and the join of their job, and every
\* planned subtask is unfinished, not running, and planned once.
ThreadsHold ==
  /\ \A t \in Task : pc[t] \in {"none", "queued", "done"} => own[t] = NoWorker
  /\ \A s \in Part : spc[s] = "none" => on[s] = NoWorker
  /\ \A j \in Job :
       pc[j] \notin {"merge", "watch", "merged", "unmerged"} => reducer[j] = NoWorker
  /\ \A j \in Job : pc[j] # "claim" => plan[j] = {}
  /\ \A j \in Job, k \in Index :
       pc[j] # "claim" \/ k > splits[j] => spc[<<j, k>>] = "none"
  /\ \A j \in Job : \A a, b \in plan[j] : a[1] = b[1] => a = b
  /\ \A j \in Job : \A a \in plan[j] :
       spc[<<j, a[1]>>] = "none" /\ results[<<j, a[1]>>] # "ok" /\ a[1] <= splits[j]

\* The inductive invariant.
MapInv == ThreadsHold /\ NoLeakedClaim /\ SelectiveRetry

\* Skip-Execution (project_proposal.md:290): a subtask whose final weights exist
\* is not trained again. Only as long as no worker is lost: a recovered subtask
\* (scheduler_daemon.py 129-137) never looks for them.
SkipsFinished ==
  [][\A w \in Worker :
       runner'[w].task \in final /\ runner'[w].status = "RUNNING"
         => runner[w] = runner'[w]]_vars

\* A merge that ends with SUCCESS has averaged the weights of every subtask but
\* those a spot worker trained, which are in another volume, although failed parts
\* are retried or skipped, several jobs interfere and finished tasks delete their
\* files. Only without losses, and if no worker fails to save its weights.
MergesWhatWasSaved ==
  [][\A w \in Worker :
       runner[w].status = "RUNNING" /\ runner'[w].status = "SUCCESS"
         => \A s \in runner[w].files : by[s] \in Spot \/ s \in final \ torn]_vars

\* project_proposal.md:287: the weights of all the map subtasks are merged. A merge
\* takes the files it finds (gpu_simulator.py 169-176), and those of a spot worker
\* are in a volume that worker-1 does not mount.
MergeAveragesAll ==
  [][\A w \in Worker :
       runner[w].status = "RUNNING" /\ runner'[w].status = "SUCCESS"
         => runner[w].files \subseteq final]_vars

\* project_proposal.md:90: what a worker has lost is noticed by the polling
\* loop. A subtask or a task its worker no longer holds is not polled for ever.
LossIsNoticed ==
  /\ \A s \in Part, w \in Worker :
       (spc[s] = "poll" /\ on[s] = w /\ runner[w].task # s) ~> spc[s] # "poll"
  /\ \A t \in Task, w \in Worker :
       (pc[t] = "poll" /\ own[t] = w /\ runner[w].task # t) ~> pc[t] # "poll"

(***************************************************************************)
(* The abstract view of the jobs. Recovered copies of subtasks are not in  *)
(* it: a job does not wait for them.                                       *)
(***************************************************************************)

PhaseOf(label) ==
  CASE label \in {"spawned", "assign", "poll"}          -> "taken"
    [] label \in {"attempt", "claim", "pin", "wait"}    -> "forked"
    [] label \in {"merge", "watch"}                     -> "merging"
    [] label \in {"merged", "cleanup", "ok"}            -> "succeeded"
    [] label \in {"unmerged", "failed"}                 -> "failed"
    [] label = "done"                                   -> "done"
    [] OTHER                                            -> "waiting"

Phase    == [j \in Job |-> PhaseOf(pc[j])]
Planned  == [j \in Job |-> {a[1] : a \in plan[j]}]
Threads  == [j \in Job |-> {k \in Index : spc[<<j, k>>] # "none"}]
Finished == [j \in Job |-> {k \in Index : results[<<j, k>>] = "ok"}]

Abstract == INSTANCE ForkJoin WITH
  MaxParts <- MaxSplits, MaxRounds <- MaxAttempts, phase <- Phase, parts <- splits,
  round <- attempts, todo <- Planned, active <- Threads, finished <- Finished

\* The split implements ForkJoin, whichever workers are lost, break or refuse: it
\* merges only what has finished in this attempt, fails early only in its merge,
\* and leaves no map thread behind it (task_executor.py 294-393).
RefinesForkJoin == Abstract!Spec
=============================================================================
