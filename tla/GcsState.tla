------------------------------ MODULE GcsState ------------------------------
(***************************************************************************)
(* The global control store of the Head: the queue, the cache of completed *)
(* tasks, the lineage and the counter in memory, the file they are saved   *)
(* to, the threads that change and save them, the reset button of the      *)
(* dashboard, and the Head's process, which may end at any moment and boot *)
(* again.                                                                  *)
(*                                                                         *)
(* What executors do with workers is in Dispatch and MapMerge; here an     *)
(* executor thread notes its subtasks in the lineage, and completes its    *)
(* task or puts it back. The scheduler queues a subtask whose worker it    *)
(* declared DEAD as a task of its own, under the subtask's id: that may    *)
(* happen to one subtask again and again.                                  *)
(***************************************************************************)
EXTENDS Naturals, Sequences, FiniteSets, SequencesExt

CONSTANTS
  MaxCounter,    \* bound on task_counter
  MaxOpen,       \* bound on the tasks that wait or are executed at once
  MaxParts,      \* bound on the subtasks of a task
  MaxFaults,     \* bound: restarts, resets, failed writes and recoveries, together
  MaxQueue,      \* generate_mock_tasks adds nothing to a queue of this length (25)
  RemovalFails,  \* whether os.remove of the state file may raise
  MaxBatch,      \* bound on the tasks generated, or recovered, at once
  Torn,          \* a state file that was opened for writing and is incomplete
  Scheduler, Dashboard,  \* the two threads that run no task
  None           \* "no thread", "no file"

Life == 0..MaxFaults
\* Part 0 is an id drawn from the counter, part k the subtask <id>-map-<k> of it.
Name    == [num : 1..MaxCounter, part : 0..MaxParts]
Subtask == {n \in Name : n.part # 0}
\* A task is its id; life, which the code does not have, tells a task from a
\* later one with the same id.
Task == [id : Name, life : Life]
Threads == {Scheduler, Dashboard} \cup Task
Saved   == [queue : Seq(Task), done : SUBSET Name, lineage : SUBSET Subtask,
            counter : 0..MaxCounter]

ASSUME StoreAssumption ==
  /\ MaxCounter \in Nat \ {0} /\ MaxOpen \in Nat /\ MaxParts \in Nat /\ MaxFaults \in Nat
  /\ MaxQueue \in Nat \ {0} /\ MaxBatch \in Nat \ {0}
  /\ RemovalFails \in BOOLEAN
  /\ None \notin Threads /\ Torn # None /\ {None, Torn} \cap Saved = {}
  /\ Scheduler # Dashboard /\ {Scheduler, Dashboard} \cap Task = {}

VARIABLES
  up,        \* whether the Head's process runs
  queue,     \* task_queue
  done,      \* keys of completed_tasks_cache
  lineage,   \* subtasks whose entry in task_lineage is RUNNING
  counter,   \* task_counter
  deferred,  \* deferred_tasks of the scheduler thread, in no saved field
  running,   \* tasks popped by the scheduler, in the hands of an executor thread
  failed,    \* those whose executor has released its worker and will requeue
  savers,    \* threads that are on their way to, or in, save_gcs_state
  writing,   \* the thread that holds both locks in save_gcs_state
  file,      \* data/gcs_state.json: None, Torn, or what was saved
  \* What follows is not in the code.
  stale,     \* the last save failed
  missed,    \* tasks that were deferred when what it holds was written
  reset,     \* the dashboard has reset the store
  faults,
  life       \* counts restarts, resets and recoveries

memVars  == <<queue, done, lineage, counter>>
execVars == <<running, failed>>
saveVars == <<savers, writing, file, stale, missed>>
lifeVars == <<reset, faults, life>>
vars == <<up, queue, done, lineage, counter, deferred, running, failed, savers,
          writing, file, stale, missed, reset, faults, life>>

\* What save_gcs_state writes.
Snapshot == [queue |-> queue, done |-> done, lineage |-> lineage, counter |-> counter]

\* One more fault of those the model counts.
Fault == faults < MaxFaults /\ faults' = faults + 1

\* Tasks that wait or are being executed.
Open == ToSet(queue) \cup ToSet(deferred) \cup running \cup failed

\* The task has an id from the counter: it is not a recovered subtask.
Drawn(t) == t.id.part = 0

\* Both locks are free: nobody is writing the file.
Free == up /\ writing = None

Init ==
  /\ up = TRUE /\ queue = <<>> /\ done = {} /\ lineage = {} /\ counter = 0
  /\ deferred = <<>> /\ running = {} /\ failed = {}
  /\ savers = {} /\ writing = None /\ file = None /\ stale = FALSE /\ missed = {}
  /\ reset = FALSE /\ faults = 0 /\ life = 0

(***************************************************************************)
(* The scheduler and the executor threads.                                 *)
(***************************************************************************)

\* Mutant: an id is drawn before the counter is raised.
Generate_Before(n) ==
  /\ Free /\ Scheduler \notin savers /\ deferred = <<>>
  /\ counter + n <= MaxCounter
  /\ Cardinality(Open) + n <= MaxOpen
  /\ IF Len(queue) < MaxQueue
       THEN /\ counter' = counter + n
            /\ queue' = queue \o [i \in 1..n |-> [id |-> [num |-> counter + i - 1, part |-> 0], life |-> life]]
       ELSE UNCHANGED <<counter, queue>>
  /\ savers' = savers \cup {Scheduler}
  /\ UNCHANGED <<up, done, lineage, deferred, execVars, writing, file, stale, missed,
                 lifeVars>>

\* The next n ids the counter gives.
Batch(n) == [i \in 1..n |-> [id |-> [num |-> counter + i, part |-> 0], life |-> life]]

\* generate_mock_tasks, between two runs of the assignment loop: a batch of ids is
\* drawn and queued under queue_lock; the save comes after the lock is released,
\* even if the queue was full.
Generate(n) ==
  /\ Free /\ Scheduler \notin savers /\ deferred = <<>>
  /\ counter + n <= MaxCounter
  /\ Cardinality(Open) + n <= MaxOpen
  /\ IF Len(queue) < MaxQueue
       THEN /\ counter' = counter + n
            /\ queue' = queue \o Batch(n)
       ELSE UNCHANGED <<counter, queue>>
  /\ savers' = savers \cup {Scheduler}
  /\ UNCHANGED <<up, done, lineage, deferred, execVars, writing, file, stale, missed,
                 lifeVars>>

\* get_next_runnable_task, and what the assignment loop makes of the task: an
\* executor is started, or the task is deferred. Nothing is saved.
Pop(i) ==
  /\ Free /\ Scheduler \notin savers
  /\ i \in 1..Len(queue)
  /\ queue' = RemoveAt(queue, i)
  /\ \/ running' = running \cup {queue[i]} /\ UNCHANGED deferred
     \/ deferred' = Append(deferred, queue[i]) /\ UNCHANGED running
  /\ UNCHANGED <<up, done, lineage, counter, failed, saveVars, lifeVars>>

\* Mutant: the deferred tasks are put back, and kept.
Restore_Kept ==
  /\ Free /\ deferred # <<>>
  /\ queue' = deferred \o queue
  /\ UNCHANGED <<up, done, lineage, counter, deferred, execVars, saveVars, lifeVars>>

\* The end of the assignment loop: the deferred tasks are put back in front, and
\* nothing is saved, although the queue may have been saved without them.
Restore ==
  /\ Free /\ deferred # <<>>
  /\ queue' = deferred \o queue /\ deferred' = <<>>
  /\ UNCHANGED <<up, done, lineage, counter, execVars, saveVars, lifeVars>>

\* A map-merge notes the subtask that it gives to a worker, in a retry under the
\* same key, and saves. A recovered subtask is not split again.
StartMap(t, k) ==
  /\ Free /\ t \in running \ savers /\ Drawn(t)
  /\ lineage' = lineage \cup {[t.id EXCEPT !.part = k]}
  /\ savers' = savers \cup {t}
  /\ UNCHANGED <<up, queue, done, counter, deferred, execVars, writing, file, stale, missed,
                 lifeVars>>

\* Subtasks of t have ended, or t removes the entries of those it has merged; then
\* it saves. Its map threads are joined before the finally block below. One that
\* was refused by its worker leaves its entry RUNNING (task_executor.py:234).
EndMap(t, S) ==
  /\ Free /\ t \in running \ savers /\ Drawn(t)
  /\ S # {} /\ \A n \in S : n.num = t.id.num
  /\ lineage' = lineage \ S
  /\ savers' = savers \cup {t}
  /\ UNCHANGED <<up, queue, done, counter, deferred, execVars, writing, file, stale, missed,
                 lifeVars>>

\* The tasks that stand for recovered subtasks.
Copies(names) == [i \in DOMAIN names |-> [id |-> names[i], life |-> life + 1]]

\* check_and_cleanup_dead_workers, at the start of a run of the scheduler: entries
\* of workers found DEAD are marked FAILED, their subtasks are queued at the end
\* under their own ids, and the store is saved. The marking and the queueing are
\* under different locks; what other threads do between them commutes with either.
Recover(names) ==
  /\ Free /\ Scheduler \notin savers /\ deferred = <<>> /\ Fault
  /\ IsInjective(names) /\ Cardinality(Open) + Len(names) <= MaxOpen
  /\ lineage' = lineage \ ToSet(names)
  /\ queue' = queue \o Copies(names) /\ life' = life + 1
  /\ savers' = savers \cup {Scheduler}
  /\ UNCHANGED <<up, done, counter, deferred, execVars, writing, file, stale, missed, reset>>

\* The finally block of an executor that succeeded.
Complete(t) ==
  /\ Free /\ t \in running \ savers
  /\ running' = running \ {t}
  /\ done' = done \cup {t.id}
  /\ savers' = savers \cup {t}
  /\ UNCHANGED <<up, queue, lineage, counter, deferred, failed, writing, file, stale,
                 missed, lifeVars>>

\* Mutant: the cache is filled whatever the outcome.
Fail_Cached(t) ==
  /\ Free /\ t \in running \ savers
  /\ running' = running \ {t} /\ failed' = failed \cup {t}
  /\ done' = done \cup {t.id}
  /\ savers' = savers \cup {t}
  /\ UNCHANGED <<up, queue, lineage, counter, deferred, writing, file, stale, missed,
                 lifeVars>>

\* The finally block of one that failed.
Fail(t) ==
  /\ Free /\ t \in running \ savers
  /\ running' = running \ {t} /\ failed' = failed \cup {t}
  /\ savers' = savers \cup {t}
  /\ UNCHANGED <<up, memVars, deferred, writing, file, stale, missed, lifeVars>>

\* Mutant: the queue is not saved after the task was put back.
Requeue_NoSave(t) ==
  /\ Free /\ t \in failed /\ t \notin savers
  /\ failed' = failed \ {t}
  /\ queue' = Append(queue, t)
  /\ UNCHANGED <<up, done, lineage, counter, deferred, running, saveVars, lifeVars>>

\* Its end, after the first save: the task is put back and saved once more.
Requeue(t) ==
  /\ Free /\ t \in failed /\ t \notin savers
  /\ failed' = failed \ {t}
  /\ queue' = Append(queue, t)
  /\ savers' = savers \cup {t}
  /\ UNCHANGED <<up, done, lineage, counter, deferred, running, writing, file, stale,
                 missed, lifeVars>>

(***************************************************************************)
(* save_gcs_state: both locks are held from the truncation of the file to  *)
(* its end, so that no thread changes what is written.                     *)
(***************************************************************************)

Truncate(x) ==
  /\ Free /\ x \in savers
  /\ \/ writing' = x /\ file' = Torn /\ missed' = {} /\ UNCHANGED <<savers, stale, faults>>
     \/ /\ Fault /\ stale' = TRUE /\ savers' = savers \ {x}
        /\ UNCHANGED <<writing, file, missed>>
  /\ UNCHANGED <<up, memVars, deferred, execVars, reset, life>>

Write ==
  /\ up /\ writing # None
  /\ \/ /\ file' = Snapshot /\ stale' = FALSE /\ missed' = ToSet(deferred)
        /\ UNCHANGED faults
     \/ Fault /\ stale' = TRUE /\ UNCHANGED <<file, missed>>
  /\ savers' = savers \ {writing} /\ writing' = None
  /\ UNCHANGED <<up, memVars, deferred, execVars, reset, life>>

(***************************************************************************)
(* The dashboard and the Head's process.                                   *)
(***************************************************************************)

\* /api/reset: executors and their tasks are left alone, and so are the deferred
\* ones and the lineage. It is the last fault that the model counts.
Reset ==
  /\ Free /\ Dashboard \notin savers /\ faults < MaxFaults /\ faults' = MaxFaults
  /\ queue' = <<>> /\ done' = {} /\ counter' = 0
  /\ savers' = savers \cup {Dashboard}
  /\ reset' = TRUE /\ life' = life + 1
  /\ UNCHANGED <<up, lineage, deferred, execVars, writing, file, stale, missed>>

\* The process is killed, or stopped by a signal: nothing is saved on the way.
Stop ==
  /\ up /\ up' = FALSE
  /\ queue' = <<>> /\ done' = {} /\ lineage' = {} /\ counter' = 0
  /\ deferred' = <<>> /\ running' = {} /\ failed' = {}
  /\ savers' = {} /\ writing' = None /\ missed' = {}
  /\ UNCHANGED <<file, stale, lifeVars>>

\* Mutant: the counter is not restored.
Load_NoCounter(f) ==
  IF f \in {None, Torn}
    THEN queue' = <<>> /\ done' = {} /\ lineage' = {} /\ counter' = 0
    ELSE queue' = f.queue /\ done' = f.done /\ lineage' = f.lineage /\ counter' = 0

\* load_gcs_state: a missing or unreadable file leaves the store empty.
Load(f) ==
  IF f \in {None, Torn}
    THEN queue' = <<>> /\ done' = {} /\ lineage' = {} /\ counter' = 0
    ELSE queue' = f.queue /\ done' = f.done /\ lineage' = f.lineage /\ counter' = f.counter

\* serve removes the state file before it loads it.
Boot ==
  /\ ~up /\ up' = TRUE /\ Fault
  /\ \/ file' = None
     \/ RemovalFails /\ UNCHANGED file
  /\ Load(file') /\ stale' = FALSE
  /\ life' = life + 1
  /\ UNCHANGED <<deferred, execVars, savers, writing, missed, reset>>

Next ==
  \/ \E n \in 1..MaxBatch : Generate(n)
  \/ (\E i \in 1..Len(queue) : Pop(i)) \/ Restore
  \/ \E k \in 1..MaxBatch : \E names \in [1..k -> lineage] : Recover(names)
  \/ \E t \in running : \/ \E k \in 1..MaxParts : StartMap(t, k)
                       \/ \E S \in SUBSET lineage : EndMap(t, S)
                       \/ Complete(t) \/ Fail(t)
  \/ \E t \in failed : Requeue(t)
  \/ \E x \in savers : Truncate(x)
  \/ Write \/ Reset \/ Stop \/ Boot

Spec == Init /\ [][Next]_vars

(***************************************************************************)
(* Properties.                                                             *)
(***************************************************************************)

\* The types of the variables.
TypeOK ==
  /\ up \in BOOLEAN
  /\ queue \in Seq(Task) /\ done \subseteq Name /\ lineage \subseteq Subtask
  /\ counter \in 0..MaxCounter
  /\ deferred \in Seq(Task) /\ running \subseteq Task /\ failed \subseteq Task
  /\ savers \subseteq Threads /\ writing \in savers \cup {None}
  /\ file \in {None, Torn} \cup Saved
  /\ stale \in BOOLEAN /\ missed \subseteq Task /\ reset \in BOOLEAN
  /\ faults \in 0..MaxFaults /\ life \in 0..faults

\* state.py:34: the counter gives unique ids. Two tasks that are waiting or being
\* executed never have the same id from the counter, restored tasks and restarts
\* included; after a reset they may. Recovered subtasks may share an id at any time,
\* but no task waits twice, and none that waits is with an executor as well.
UniqueIds ==
  ~reset =>
    /\ \A t, u \in Open : Drawn(t) /\ t.id = u.id => t = u
    /\ LET waiting == deferred \o queue
       IN  \A i, k \in 1..Len(waiting) : waiting[i] = waiting[k] => i = k
    /\ (ToSet(queue) \cup ToSet(deferred)) \cap (running \cup failed) = {}
    /\ running \cap failed = {}

\* A task that waits or is being executed is not in the cache of completed tasks,
\* nor is it in any file a restart could load, unless there was a reset or its id is
\* that of a subtask: several recovered copies of one may be open, and the first to
\* succeed puts their id into the cache.
OpenIsNotDone ==
  ~reset =>
    /\ \A t \in Open : Drawn(t) => t.id \notin done
    /\ file \notin {None, Torn} =>
         \A t \in ToSet(file.queue) : /\ Drawn(t) => t.id \notin file.done
                                      /\ t.id.num <= file.counter

\* What a file, or the store, keeps of the tasks in its queue.
InOrder(q, d, c, l) ==
  /\ \A i, k \in 1..Len(q) : q[i] = q[k] => i = k
  /\ \A t, u \in ToSet(q) : Drawn(t) /\ t.id = u.id => t = u
  /\ \A t \in ToSet(q) : /\ Drawn(t) => t.id \notin d
                         /\ t.id.num <= c /\ t.life <= l
  /\ \A n \in d : n.num <= c

\* The strengthening of UniqueIds and OpenIsNotDone: ids in use are not above the
\* counter, subtasks and the file included, no task is of a life to come, and
\* neither executors nor deferred tasks outlive the Head.
StoreInv ==
  /\ TypeOK
  /\ ~up => deferred = <<>> /\ running = {} /\ failed = {}
  /\ ~reset =>
       /\ InOrder(queue, done, counter, life) /\ InOrder(deferred, done, counter, life)
       /\ \A n \in lineage : n.num <= counter
       /\ file \notin {None, Torn} => /\ InOrder(file.queue, file.done, file.counter, life)
                                     /\ \A n \in file.lineage : n.num <= file.counter
       /\ ToSet(queue) \cap ToSet(deferred) = {}
       /\ (ToSet(queue) \cup ToSet(deferred)) \cap (running \cup failed) = {}
       /\ running \cap failed = {}
       /\ \A t, u \in Open : Drawn(t) /\ t.id = u.id => t = u
       /\ \A t \in Open : /\ Drawn(t) => t.id \notin done
                          /\ t.id.num <= counter /\ t.life <= life

\* project_proposal.md:282: the state is saved at every transition. Once the
\* threads on their way to save have done so, the file holds the counter, the
\* cache, the lineage and every task that waits, however their writes were interleaved, resets
\* included; only tasks popped since may still be in its queue. Unless the last
\* of them could not write, and but for the tasks that the scheduler had deferred
\* then: it puts them back without a save (dynamic.py:119-122).
SavedWhenQuiet ==
  up /\ savers = {} /\ ~stale =>
    \/ /\ counter = 0 /\ done = {} /\ lineage = {} /\ queue = <<>> /\ deferred = <<>>
       /\ file \in {None, Torn}
    \/ /\ file \notin {None, Torn} /\ file.counter = counter /\ file.done = done
       /\ file.lineage = lineage
       /\ (ToSet(queue) \cup ToSet(deferred)) \ missed \subseteq ToSet(file.queue)
       /\ ToSet(file.queue) \subseteq Open \cup {t \in Task : t.id \in done}
=============================================================================
