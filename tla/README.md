# TLA+ model of WE-MEET / Baby Ray

Baby Ray is a small distributed runtime for training jobs. One **Head** process
keeps a registry of workers and a queue of tasks (the *GCS*, global control
store), schedules tasks, starts and stops spot workers as Docker containers, and
talks to the workers over gRPC. A **worker** runs at most one training task at a
time and sends heartbeats. Some workers (`spot_a`, `spot_b`) may be taken away at
any moment; one (`worker-1`, `on_demand`) is permanent.

This directory holds TLA+ modules of the parts of that program in which order,
failure and timing decide whether it is correct, the TLC runs that check them on
small instances, and TLAPS proofs of the main results for all instances.
Source references are relative to `src/`. `PROJECT.json` maps every definition to
the lines it stands for and lists runs, mutants, findings, hazards and theorems.

    tlc -workers 2 -config MCDispatch_qlearning.cfg MCDispatch.tla
    tlapm Dispatch_proofs.tla

## 1. The system

### Parts, their state and operations

| part | where | state | operations |
|---|---|---|---|
| Dispatch loop | `head/scheduler/scheduler_daemon.py`, `static.py`, `dynamic.py`, `q_learning.py` | locals of the scheduler thread: popped task, deferred tasks, dead workers, timers | generate tasks, find dead workers and recover their subtasks, scale out and in, pop / place / defer / restore |
| Task executor | `head/scheduler/task_executor.py` | one thread per dispatched task; map threads; locals `map_results`, `attempt` | assign and poll one worker, or split, retry selectively, merge, clean up; release the worker; put a failed task back |
| GCS and persistence | `head/state.py` | `worker_registry`, `task_queue`, `completed_tasks_cache`, `task_lineage`, `task_counter`, two locks, `data/gcs_state.json` | save, load |
| Membership | `head/head.py`, `worker/worker.py` | registry entries with `last_heartbeat`; the heartbeat thread of each worker | register, heartbeat, deregister, DEAD verdict, boot and shutdown of the Head |
| Cluster manager | `head/cluster_manager.py` | Docker containers | scale out, scale in, eviction thread, removal of zombies, cgroup resizing |
| Worker task slot | `worker/worker.py` | `current_task_id`, `runner.status` | `AssignTask`, `GetTaskStatus`, `ResizeResources` |
| Training runner | `worker/gpu_simulator.py` | checkpoint and final `.pt` files | train, simulate failures, average weights |
| Q-learning agent | `head/q_learning/agent.py` | Q-table, epsilon, its JSON file | choose, update, save, load |
| Budget | `scheduler_daemon.py`, `common/cost_model.yaml` | `virtual_budget` | charge per tick, mask actions |
| Resource guard | `head/resource_guard.py` | none | read memory and GPU |
| Dashboard | `head/dashboard/server.py` | log ring | status page, `/api/reset` |
| Offline tools | `head/q_learning/pretrain.py`, `scratch/` | | not part of the running cluster |

### How they interact

Every thread of the Head shares the GCS under `registry_lock` and `queue_lock`,
and none holds a lock across an RPC or a Docker call. The scheduler thread claims
an IDLE entry (writes BUSY) and starts an executor thread, which owns the claim
until its `finally` block writes IDLE; map threads and merges claim and free
entries by id as well. Entries disappear under them: the DEAD check (scheduler
thread), the eviction thread and scale-in delete entries, `DeregisterWorker`
(gRPC thread) too. A loss is noticed only by polling: loops look at the registry,
then call `GetTaskStatus`. Files in `data/` are the only channel between map
workers, the merge on `worker-1` and the Head's checks for existing results.

### What is hard, and what makes each part correct

* **Dispatch**: a task is in no shared structure between pop and thread, on every
  failure path it has to be put back exactly once, entries are overwritten by id.
  Correct means: no task lost or duplicated, no claim leaked or shared, every poll
  can be answered, order of arrival kept, every task completed in the end where the mode allows.
* **Map-merge**: jobs plan from a snapshot of IDLE workers and mark them later;
  retries, recovered subtasks and parents work on the same files. Correct means: claims are
  owned, only unfinished subtasks are retried, finished ones are not trained again,
  a merge averages everything its volume holds. That jobs end the code does not promise (section 7).
* **Membership**: verdicts depend on a period, a threshold and the time spent
  between; workers outlive the Head. Correct means: the age of a heartbeat is bounded,
  entries of ended workers go, running spot workers get back in or end.
* **Training**: attempts number their checkpoints from 1, run on after the Head has given
  them up, and read files that are being written. Correct means: a checkpoint holds the
  epochs its number says, and a result was trained for all epochs.
* **Scaling**: the number of spot containers is read once per round and used after Docker
  calls of seconds, while workers crash, leave and are evicted. Correct means: the limit is kept,
  and without load everything is stopped.
* **Q-table**: executors update and save one table without a lock. Correct means: no update
  fails, the file holds what was learnt, exploration ends.
* **Persistence**: saves of many threads interleave, the process may stop
  anywhere, the file may be cut off; a subtask is queued again under its id every time its worker
  is lost. Correct means: drawn ids unique, open tasks not counted as completed, the file up to date when threads are quiet, restarts replay.

The list of hazards, each at its line with the properties that cover it, is in
`PROJECT.json`.

## 2. The modules

    Leases  <--refines--  Dispatch  --uses-->  TaskLists
                             |  "task is dispatched" in detail
                             v
    MapMerge (what a dispatched task becomes)  --an attempt in detail-->  Checkpoint
       |
       +--refines-->  ForkJoin
    Membership (why and when entries go)       Autoscale (why and when containers come and go)
    GcsState (what survives the Head)          QTable (what the agent's mode learns and keeps)

| module | models |
|---|---|
| `TaskLists` | lemmas about the list operations of the code (pop, append, extend at the front) and the order they keep |
| `Leases` | abstract promise of the dispatcher: a task waits, is leased to one worker, or is done |
| `Dispatch` | scheduler thread in its three modes, executor threads of undivided tasks, eviction thread, gRPC handlers, worker slots |
| `MapMerge` | split, selective retry, map threads, merge, clean-up, recovery of subtasks of a dead worker, scale-in and eviction under it |
| `ForkJoin` | abstract promise of a split: parts are tried in rounds, merged when all have finished, given up when the rounds are used up |
| `Checkpoint` | the runner of a task, its files, and what the Head resumes from or skips after a failure |
| `Membership` | registration, heartbeats with their durations, DEAD verdict, removal of containers, departure, restart of the Head |
| `Autoscale` | when the three modes start and stop spot containers, and what Docker, workers and evictions do to the count |
| `GcsState` | saving, loading, crash and boot of the Head, lineage and the recovery of subtasks under their ids, dashboard reset |
| `QTable` | updates, saves and loads of the Q-table, decay of epsilon |

Each of the others has an `MC` module with the instances for TLC, and a `_proofs`
module with its theorems. `Leases`, `ForkJoin` and `TaskLists` need none: the others use them.

### Dispatch

One action is one region under a lock, or what happens between two of them or between
two RPCs; other threads interleave where the locks let them.

| variables | code |
|---|---|
| `queue`, `counter`, `completed`, `registry` | `task_queue`, `task_counter`, `completed_tasks_cache`, `worker_registry` (`ABSENT` = no entry) |
| `spc`, `scaling`, `hand`, `deferred`, `reaping`, `victim` | the scheduler thread: place in its loop, `run_scale_decisions`, popped task, `deferred_tasks`, `dead_workers`, `target_worker_id` |
| `pc[t]`, `on[t]` | the executor thread of task t and its `worker_id` |
| `evictList`, `evicting` | the eviction thread's snapshot |
| `node[w]`, `runner[w]` | container and task slot of a worker |
| `broke` | `virtual_budget` is not above 0; it only falls (`Charge`), and in q_learning mode it takes worker-1 from the candidates |

`FastTick`/`ScaleTick` -> `CollectDead` -> `Reap` -> `Generate` -> `Launch` or
scale-in -> `Pick`, `Place`, `Defer` ... `Restore` is one round of `scheduler_loop`.
`Begin`, `Assign`, `CheckRegistry`, `Query`, `Release`, `Requeue` is
`run_task_on_worker`; `AssignReplyLost` and `RpcLost` are its RPC errors. Loads and the
agent's preferences are free choices (`FitSets`, the choice of w in `Place`).

Only the scheduler thread claims workers here. Map threads do too, and may claim the worker a
scale-in has chosen before it is stopped: that is in MapMerge, which has the scale-in in the same three steps.

### MapMerge

The scheduler thread is one action here (`Claim`), since Dispatch has it in detail.
`pc[j]` follows the executor thread of a job: `Split` or `Undivided`; `Attempt` plans
the pending subtasks onto the workers that are IDLE *now* (`plan`), `StartMap` marks
them one at a time and starts map threads (`spc`, `on`), `Join` waits for them,
`EndAttempts` decides, `Pin`/`Wait` find `worker-1`, `MergeAssign` .. `MergeEnd` merge,
`Cleanup` deletes, `Release` is the outer `finally` with the requeue. `lineage` and
`Dead` give the recovered subtasks, which run as tasks of their own. `final` is the set
of `data/final_<subtask>.pt` files in the Head's directory, where `worker-1` saves and the spot workers do not
(`Sharing`); `torn` are those that are there but cannot be loaded. `FullDisk` are workers whose save may
fail, before the file is opened or in the middle (`SaveFails`): the runner reports SUCCESS all the same,
Skip-Execution takes a torn file for a finished one unless it is empty, and a merge that
finds one fails. `by` is the worker that gave a subtask's result. `small` are jobs a checkpoint has left
with fewer than 8 epochs.

As a `ForkJoin`, a job's phase is read off `pc`, the parts of a round are those in `plan`, active parts have
a map thread, finished ones the result "ok". Claims, losses, refusals, files and the search for
`worker-1` are stutters there: whatever they do, parts that finished are not tried again, and a job
leaves its split only with every part merged or after its last round, with no thread left behind.

### Membership

Time passes in seconds (`Tick`), and not while a call is due. `phase[w]` is the
container and the heartbeat thread, `wait[w]` what that thread still sleeps,
`pending[w]` what the Head still spends on Docker's statistics before it stamps a
heartbeat, `age[w]` the age of `last_heartbeat`, told apart up to `MaxAge`.
`Register`, `Refused`, `Beat`, `BeatLost`, `Stamp` are `heartbeat_sender_loop` with the
handlers it calls, `Check` and `Reap` the DEAD check, `HeadStop` and `HeadBoot` the Head's life.
`interval` is the period, one of `Intervals` for a whole behaviour; `stuck`, which the code does not have,
are the containers the Head failed to remove.

### GcsState

`queue`, `done`, `lineage`, `counter` are the saved fields that tasks depend on, `deferred` the tasks the
scheduler holds between `Pop` and `Restore`, `running` and
`failed` those in the hands of executors, which no field holds. `save_gcs_state` is
`Truncate` then `Write` with both locks held (`writing`), so every other action waits
(`Free`), except `Stop`. `savers` are threads on their way to a save: the scheduler, the
dashboard, executors in the middle of a map-merge (`StartMap`, `EndMap`), at their end (`Complete`,
`Fail`) and after the requeue (`Requeue`). An id is a number of the counter (`Drawn`) or a subtask of one.
`lineage` holds the subtasks that are RUNNING: `StartMap` enters one, in a retry under the same key, and
`Recover` takes some out and queues them under their ids, as often as their worker is found DEAD. So
several copies of a subtask may be open, and one may be open when another has completed the id.
`life` is not in the code: it tells apart tasks that were given the same id, by a restart, a reset or a recovery; `stale` says that the last save failed, and `missed` which tasks
were deferred when the file was written: `Restore` puts them back without a save.

### Checkpoint

One undivided task or one map subtask (`kind`) with up to `Attempts` attempts. Weights are the
number of epochs they were trained; `saved[n]` is the checkpoint with number n, `final` the
final weights, `Torn` a file that is open or was cut off. `head`, `left`, `base` are what the Head
knows: `AssignTask` or `Resume` start an attempt, `GiveUp` ends it for the Head while its runner may
go on, `Reduce` (part of every failure) computes what is left, `Skip` is Skip-Execution, `Replan` a
new split that gives the subtask of the same name another share. `Load`, `Train`, `Save`,
`OpenFinal`, `CloseFinal`, `Break` are `PyTorchActualRunner.run` of each attempt. `cut` and
`changed` are not in the code: they record that an incomplete or missing file was
taken for a complete one, and how often `left` changed.

### Autoscale

`box[s]` is the container of a name `<<type, index>>`, `entry[s]` its status in the registry.
One round of the scheduler thread is `CollectDead`, `Replace` and `Reap`, then `Count`
(`get_current_spot_scale`, with its fall back to the registry when Docker fails), then the
thresholds of the mode: `ScaleOut`, `Launch`, `ScaleIn`, `Choose`, `Stop`, `Drop`, in the other order for
`q_learning`. Queues are seen only as far as the thresholds tell them apart (`Length`). The
resource guard, the failure simulator and Docker may refuse any start; the budget
takes the expensive type from the agent's choice (`Types`). `Exit`, `EvictDrop`, `EvictStop`,
`Claim`, `Release`, `Register` are the other threads and the workers. `low`, `extra`, `leaked` are
not in the code: they name the containers `ScaleLimit` does not count, and why.

### QTable

Executor threads go through `update_q_value` and `save_q_table` in steps of one read or write of
shared data: `LookUp`, `Add`, `Read`, `WriteBack`, `TestRate`, `Decay`, `Store`, `OpenFile`, `Dump`,
`EndDump`, `CloseFile`. A row is the number of updates it holds. `Choose` and `AddChosen` are the
scheduler thread in `choose_action`, `Boot` a restart with `load_q_table`. Where two threads write
the file at once, it ends up as the last one's, a mixture or no JSON (`CloseFile`).

## 3. The runs

All runs end in under five minutes.

| run | instance | shows |
|---|---|---|
| `qlearning` | 2 tasks, worker-1 and a spot, all failures, HOLD, scale-out inside the loop, the budget used up at any moment | no loss, no duplicate, claims, polls, order of arrival, refinement of `Leases` |
| `static` | 2 tasks, worker-1 and a spot that is evicted, found DEAD and scaled in, fair | the inductive invariant; every task completes once worker-1 has stopped failing |
| `pair` | 2 split jobs, worker-1 and a spot, symmetric jobs, training that fails | two map-merges that interfere: claims, skipping, merges of all that was saved |
| `loss` | 1 split job, worker-1 and a spot that is lost once and comes back, saves that fail or are torn | the inductive invariant, claims and selective retry included, and refinement of `ForkJoin` under removal |
| `members` | 1 spot, worker-1, periods of 1 s and 5 s, one restart of the Head, removals that fail, fair | the ages of heartbeats; stale entries go, spot workers get back or end |
| `restart` | 2 numbers, 2 open tasks, up to 2 restarts, resets, failed writes and recoveries | drawn ids unique, open tasks not done, no task in two places, the file up to date when threads are quiet, deferred tasks left aside |
| `resume` | 3 epochs, 3 attempts, both kinds | checkpoints hold their epochs, results are trained in full |
| `scale` | 3 names of 2 types, limit 2, all modes, fair | the limit is kept; without load every container is stopped |
| `learn` | 2 threads, 2 states, 1 restart, failing writes, fair | no update fails, the file holds what was learnt, exploration ends |

The dynamic mode differs from the static one in the order of candidates and in deferring tasks that
nobody takes, where static gives up at the first (`Candidates`, `Defer`), and from q_learning in where it
scales; no run of Dispatch has it, its theorems cover it. It is checked in Autoscale. `CHECK_DEADLOCK FALSE` stands where the system really stops: all jobs
done, attempts used up, or the ids of the model.

Three runs end in a violation, each a disagreement of code and documentation; the text
quoted and the behaviour found are in `PROJECT.json` under `findings`:

| run | what the text says | what the code does |
|---|---|---|
| `merge` | all map weights are merged | those of spot workers are in another volume and are left out; the merge reports SUCCESS |
| `hang` | losses are noticed by polling | NOT_FOUND is polled for ever |
| `forget` | training resumes for the epochs that are left | the second failure subtracts a checkpoint of the first attempt again: a task of three epochs ends with two |

### Bounds

* `MaxTask`, `BatchSizes`, `QueueLimit`: two tasks are enough for one to overtake or
  replace another; two deferred ones show the order in which they are put back. A limit of 2
  stands for 25, batches of 1 and 2 for 1 and 5..8. `LoadVaries` is FALSE in both runs: a worker is always below
  the thresholds of load, or an idle `worker-1` could be passed over for ever; the theorems cover loads that vary. No process
  exits by itself in `static` (`Crashable`); an eviction ends one there. `worker-1` never exits in either
  run: nothing removes its entry then (section 7).
* Two workers give every interleaving of a claim with a removal and a return. In MapMerge
  they also give two jobs that each hold what the other waits for, but at most one subtask of a
  job trains at a time unless the job's own worker became IDLE (section 7). More workers are left
  to the theorems.
* `MaxSplits` 2 for 3, `MaxAttempts` 2 for 5 in `loss`: one retry after a partial success. In `pair` it is 1,
  and what is retried is the whole job. `merge` has a third worker, a spot that holds the job while its
  parts run on the other two.
* `MaxLosses` 1: one removal, at any moment, by any of the three ways, and the return.
* `MaxFaults` 2 in GcsState counts restarts, resets, failed writes and recoveries together: a file may
  outlive a restart after a failed write or a recovery, and one subtask may be recovered twice, which gives two open
  copies of it, or a copy that is open when its id is completed (`MaxParts` 1). `MaxCounter`, `MaxOpen`, `MaxBatch`, `MaxQueue` 2:
  a batch, and two batches with a save between them; no task is added while two are open.
* `Epochs` 3, `Attempts` 3: an attempt that resumes, fails, and is resumed from; three
  epochs tell "one left" from "none left" and "all left".
* `MaxScale` 2 with three names: one name is always beyond the limit, and two may be started at once.
  `Patience` 2 for 3: the timer is started, runs and ends. One name is `Sticky`.
* `Top` 2 and `MaxValue` 2: an update that undoes another one, and one after it; `MaxBoots` 1.
* Membership has the code's durations (`Threshold` 3, `Retry` 3, `Boot` 1, and for `Intervals` the code's
  5 s and the documented 1 s) and `Delay` 2 s for Docker's statistics, and no other
  bounds than `MaxBoots` and `MaxAge`, which is above every age a live member can reach. Seconds are coarser than the real clock, which only makes verdicts
  rarer.

The theorems hold without these bounds (any value of the constants).

### Fairness

* *Dispatch*: every thread keeps running, runners end and containers register (WF); nothing is assumed of what
  the scheduler chooses. `EveryTaskCompletes` is stated for static mode and for the end of task generation,
  which `MaxTask` bounds. `Calm` says that tasks stop failing on `worker-1`: one that fails there for ever is
  never completed. Spot workers may be evicted, found DEAD in the middle of a task and scaled in for ever: a
  failed task goes behind those that wait, and an idle `worker-1` is tried first. In q_learning mode
  no such promise holds: once the budget is used up `ASSIGN_OD` is masked for good (`q_learning.py:117-119`), and
  false DEAD verdicts may take every spot worker away in turn. In dynamic mode the least loaded worker is taken, which
  may be a spot every time.
* *MapMerge*: threads, runners and replacements run (WF); the scheduler and a merge that
  waits for `worker-1` do not miss it for ever (SF); tasks stop breaking. Only the counterexample of `hang`
  needs it: it shows that even so a thread polls for ever.
* *Membership*: time passes, due calls are made, the scheduler checks, a Head that
  stopped is started again (WF). Crashes and departures may go on for ever.
* *Autoscale*: the scheduler and eviction threads run, created workers register (WF), and an
  ended worker is found DEAD by some round (SF: rounds where it is not yet may repeat). `Calm`
  is the premise of the property, no load: tasks come to an end (Dispatch), loads fall, and then nothing is started.
* *QTable*: threads run and tasks keep ending (WF), in training mode for ever.
* *Checkpoint* and *GcsState* state safety only: a task may fail for ever, the Head stay down.

### An assumption about time

`BootOutlastsPoll` (Dispatch) says that a replacement container takes longer to register
than an executor takes to notice that the entry is gone (1.5 s): a container start plus
the worker's own `sleep(1.0)` and imports of PyTorch. `ExclusiveClaim`, `PollFindsTask`
and the refinement need it: `finally` writes IDLE by id, so with a faster
replacement TLC finds an executor freeing a claim of another. The
other results do not use it. MapMerge makes the same assumption in `Replace`.

## 4. The proofs

TLAPS checks every theorem from the definitions and the named assumptions about constants.
In each module an inductive invariant is proved to hold initially and to be
preserved, with a step per action; the properties of the runs follow from it.

* **Dispatch** (`Dispatch_proofs`). `Inv` is inductive: types, the accounting of tasks
  (`NothingLost`, `NothingDuplicated`), the binding of threads to workers
  (`ThreadBinding`: a thread has a worker exactly from start to `finally`), where the
  scheduler has a task in hand (`SchedulerLocals`), and `NoLeakedClaim`. The accounting is not inductive
  without the last three: `Place` and `Release` move tasks between places
  that only these parts tell apart. Lemmas of `TaskLists` say what list operations do to sets of
  tasks. `ClaimInv` adds `ExclusiveClaim` and `PollFindsTask` under `BootOutlastsPoll`.
  `Refinement`: every step is a step of `Leases` or a stutter, with the lease of a worker defined
  as the task whose thread is bound to it. `KeepsArrivalOrder` is about tasks without
  dependencies: `OrderInv` says that the deferred tasks, the one in hand and the queue are each in order of
  arrival and precede one another, tasks that failed left aside; a dependency lets a task be passed
  over in the queue, hence the assumption `NoDependencies`.
* **MapMerge** (`MapMerge_proofs`). `MapInv` is inductive with `TypeOK`: `ThreadsHold` says
  that a thread that does not run holds no worker, that map threads exist only between planning and
  join, and that each planned subtask is unfinished, idle and planned once; without it
  a claim could be forgotten by a thread the invariant does not see. From it
  `NoClaimLeaked` and `RetriesAreSelective`, for any number of jobs, workers and losses.
  Two more are about runs without losses, as the properties are. `FinishedIsSkipped` rests on
  `TrainedOnce`: a worker that trains a subtask is the one its thread polls, so nobody can write the final weights
  between a thread's look for them and its assignment. `MergesAreComplete`, which also assumes
  that no disk fails (`AllSave`), is about the volumes as they are: it leaves out the subtasks a spot worker trained.
  It adds `Saved` (behind every success is a spot worker or the
  weights, until the job has ended), `AllSucceeded` and `MergesAreWatched`.
  `SplitRefines` is about every run, losses included: each action is shown to be a step of `ForkJoin`
  or a stutter. It needs `MapInv` and `JoinsComplete`, that a job which looks for `worker-1` has no
  unfinished part.
* **Checkpoint** (`Checkpoint_proofs`). `CInv`: a runner at epoch e has a model of e epochs at
  least (`RunnersCount`), and of as many more as the checkpoint it started from has (`ModelsResume`);
  the Head's numbers add up to `Epochs` as long as they were changed once (`HeadCounts`), or never for
  a subtask's attempts (`SubtasksCount`). From it `CheckpointsAreSound` and `NothingLeftOut`.
* **Membership** (`Membership_proofs`). `MembershipInv`: for a registered spot worker,
  `age + wait <= interval` while it sleeps and `age + pending <= interval + Delay` during a
  call. `LiveHeartbeats`: a registered worker that runs was heard of within `interval + Delay`. With the code's 5 s
  that is up to 7 s, against a threshold of 3 s: verdicts on live workers come every period (section 7).
* **Autoscale** (`Autoscale_proofs`). `CountCovers`: from `Count` on the count is at least the
  number of containers that run, the excepted ones left aside, until one is stopped; from there
  to `Drop` it may still include that one; and what is ordered fits on top. From it `WithinLimit`.
* **GcsState** (`GcsState_proofs`). `StoreInv` strengthens `UniqueIds` and `OpenIsNotDone`: ids in
  use, those of subtasks in the lineage and of recovered ones included, are not above the counter, also in a file that may
  be loaded; no open task is of a life to come, so that the copies a recovery queues are new ones; and no executor outlives the
  Head or keeps a task deferred. Of recovered copies neither unique ids nor "open is not done" is
  claimed: both are false (section 7), and the copies of one subtask are told apart by their lives. `SavedWhenQuiet` is inductive with it, since every change makes its thread
  a saver, but for `Pop` and `Restore`: what they move is in the file, or was deferred when it was written.
* **QTable** (`QTable_proofs`). `QInv`: types, keys of updates are states, and `RowIsThere`: rows may be
  overwritten with zeros but never go. `TableIsSaved` (`SavedTable`) adds what a save relies on while it
  lasts: a thread that has met nobody is the only one with the file open (`OnlySaver`), it
  starts with nothing copied (`CopyIsEmpty`), every row it has copied since is still that of the table
  if no thread will save again (`CopyIsGood`), and what it leaves behind holds these rows (`FileIsGood`).

Only model-checked, since fairness and ENABLED are out of the prover's reach: the liveness properties
`EveryTaskCompletes`, `StaleEntriesGo`, `SpotsReturn`, `ScalesToZero` and
`EpsilonReachesMin`. Every safety property of a passing run is a theorem.

## 5. Not modelled

* The numbers: what training computes, rewards, what Q-learning converges to, loads and the
  amount of the budget; the text of conclusions, logs and pages. The budget appears as what it
  decides (`Types` of Autoscale, `broke` of Dispatch).
* The resource guard's readings and the failure simulator's draws: free choices where they
  are asked, so that no result depends on them.
* Ports, images and memory limits of containers, and the cgroup resizing, which no
  decision reads.
* Generated gRPC code, neural networks, the status page, and the offline tools, which are separate
  programs.
* Checkpoint and MapMerge meet only in the abstraction: MapMerge knows whether final
  weights exist, Checkpoint what they hold. Likewise Autoscale knows of tasks only that workers are busy.
* The locks themselves: actions under one lock are atomic, and both are always taken in the order
  registry, queue, so they cannot deadlock.

## 6. Plan

Done, in this order: Dispatch with Leases, MapMerge, Membership, GcsState (how tasks and
workers are matched, what a task becomes, time, restarts), then Checkpoint, Autoscale and
QTable, and proofs for each.

Possible next: MapMerge under losses with the files of Checkpoint in one module, to state what a merge
holds when a recovered copy deletes checkpoints (section 7); a
composition of Membership and Dispatch, which would replace the free DEAD verdict of
Dispatch by its cause.

## 7. Other disagreements met while modelling

Behaviours of the model, and of the code, that a document contradicts. They have no run
of their own; each can be seen by following the actions named.

* **Failed tasks go to the back.** `project_proposal.md:30` and
  `proto/grpc_api_specification.md:24` put a failed task at the very front of the queue;
  `task_executor.py:786` appends it (`Requeue` of Dispatch).
* **A job's own worker may become IDLE.** `task_executor.py:152-154` says it stays BUSY during
  the whole map-merge. Another job's map thread that marked it from an older snapshot and
  was refused makes it IDLE at its end (`StartMap`, `MapEnd`).
* **A scale-in may stop a running subtask.** `head/README_Head.md:77-80` says running tasks are
  safe. The entry stays IDLE between the choice under the lock and the stop of the container,
  and a map-merge may take it there (`ScaleInChoose`, `StartMap`, `ScaleInStop` of MapMerge): its
  container is stopped and its entry deleted while the subtask runs. The run `loss` has it; the map thread then
  fails and releases its claim.
* **A recovered subtask is trained again.** `project_proposal.md:290` says the computation is
  skipped if its final file exists; the undivided branch it takes never looks (`Dead`, `Undivided`).
* **Volumes.** `patch_notes/patch_notes.md:525-531` says all nodes share one storage.
  Spot containers mount the named volume `babyray-data` (`cluster_manager.py:239-241`), the Head
  and worker-1 the host's `../data` (`docker/docker-compose.yml:22`, `:51`; `Sharing`). The run `merge` shows a
  merge that succeeds with the weights of worker-1 only. If all the parts ran on spot workers, as they do when
  worker-1 is the job's own worker, the merge finds no file and fails, and the job starts again.
* **A job may never be completed.** Besides NOT_FOUND (run `hang`): merges of two jobs that hold
  worker-1 and wait for it, or whose own workers keep the other's from being IDLE (`Wait`; `task_executor.py:380-392`); a
  torn final file, which every retry skips on and every merge fails to load (`MapCheck`, `Averaged`); the volumes
  above. So MapMerge states no liveness property that should hold.
* **Copies of a recovered subtask.** `state.py:34-35` has ids that are unique. A retry enters a lost subtask
  into the lineage under the same key (`task_executor.py:333-341`), so that a second DEAD verdict queues a second task
  with the same id (`scheduler_daemon.py:128-140`; `StartMap`, `Recover`). The first copy to succeed marks the
  id as completed (`task_executor.py:662`) while the other is open, and deletes the final file and the
  checkpoints both share (`:610-626`; `Poll` of MapMerge), which may be what the parent's merge was to read.
* **A restart replays nothing.** `project_proposal.md:282` promises a transparent replay.
  `head.py:232-239` removes the state file before `load_gcs_state` (242) reads it; and what an
  executor had in hand is in no saved field (`Boot`, `Load`, `Snapshot` of GcsState).
* **Deferred tasks are not saved.** `project_proposal.md:282` has the state saved at every transition.
  The scheduler pops all tasks, defers those nobody takes and puts them back at the front
  (`dynamic.py:118-122`, `q_learning.py:186-189`, `static.py:66-67`) without a save; if an executor saves in
  between, the file lacks them until the next save, after the scheduler's next batch at the latest (`Pop`, `Write`, `Restore`).
* **A reset repeats ids.** `state.py:34-35` calls the ids unique. `/api/reset` sets it to 0
  with executors running (`Reset`, then `Generate`).
* **worker-1 does not get back in.** `project_proposal.md:283` says the registry is restored when
  workers register again. They register once, and the Head acknowledges heartbeats of ids it does
  not know (`head.py:149-162`); only spot containers are removed at boot, so a worker-1 that
  outlives the Head sends heartbeats for ever without being registered (`HeadBoot`, `Stamp`).
* **The period of heartbeats.** `patch_notes/patch_notes.md:100` and `worker/README_Worker.md:36` give 1.0 s,
  matched to the threshold of 3 s; `common/config.py:10` has 5 s, as `project_proposal.md:87-89`, which warns of it: live
  workers are found DEAD every period (`Check` of Membership; what can be said of the ages is `LiveHeartbeats`). Nothing
  is assumed of the verdicts in Dispatch and MapMerge.
* **Exploration at boot.** `project_proposal.md:272` says that loading a table sets epsilon to its minimum. `agent.py:270-273`
  does so only outside training mode, in which the program is shipped (`Boot` of QTable).
* **worker-1, restarted alone, is refused.** Nothing removes its old entry, since only spots are
  found DEAD, and `head.py:82` refuses a known id (`Refused`).
* **The limit of spot containers.** `patch_notes/patch_notes.md:20` speaks of a stable limit. The replacement of
  a dead worker does not look at it (`scheduler_daemon.py:148`, `Replace` of Autoscale). A
  scale-in lowers the count also if the container had ended or was not stopped (`cluster_manager.py:298`,
  `q_learning.py:44`), and the Q-learning step starts containers after that, on a count that
  is too low (`Stop`, `Drop`, `Launch`). If Docker's listing fails the registry is counted, which misses
  containers that boot (`Count`). `resource_guard.py:76` allows 3 on small hosts,
  `scheduler_daemon.py:215` takes at least 5. Replacements also ignore an empty budget.
* **A replacement is stopped instead of the dead.** The replacement is started before the dead
  worker's container is removed by name (`scheduler_daemon.py:148-159`): if that container had ended
  and its name is free again, the new one is removed (`Replace`, then `Reap`).
* **spot_b waits for spot_a.** While a BUSY `spot_a` is registered, an IDLE `spot_b` is not
  reclaimed (`dynamic.py:59`, `q_learning.py:41`; `Victims`).
* **The budget.** `scheduler_technical_specification.md:72` masks actions below 0.7, the code at 0;
  `project_proposal.md:323` says that nothing is charged per tick, `scheduler_daemon.py:226-232` does.
* **The queue limit.** The limit of 25 is tested once per batch, and failed tasks are appended
  without it (`Generate`, `Requeue`).
* **Checkpoints of others.** Skip-Execution takes weights that another worker is still writing, or that
  a smaller share of an earlier split produced (`Skip`, `Replan`). A checkpoint that cannot be read
  is passed over with a line in the log, and only the remaining epochs are trained, from a
  new model (`Load`; `gpu_simulator.py:271-279`). A recovered copy of a subtask deletes, when it
  succeeds, the checkpoints its parent's retry resumes from (`task_executor.py:620`). `FullTraining` leaves these cases
  out by name (`cut`, `changed`).
* **The Q-table is not kept for ever.** `agent.py:243` says so. A row of zeros may overwrite what
  another thread has learnt since the row was looked for (`Add`, `AddChosen`; `agent.py:108`, `:133`),
  and saves that overlap, or meet a new row, leave a torn file, which the next start takes for an empty one (`CloseFile`, `Boot`).
