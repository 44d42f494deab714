----------------------------- MODULE Checkpoint -----------------------------
(***************************************************************************)
(* How a training task survives the loss of its worker: the runner numbers *)
(* its checkpoints, the Head resumes from the one with the highest number, *)
(* and a subtask whose final weights exist is not trained at all.          *)
(*                                                                         *)
(* Weights are the number of epochs they have been trained. Attempts run   *)
(* on workers that share the Head's data directory. A worker the Head has  *)
(* given up may train on, and files are visible while they are written.    *)
(***************************************************************************)
EXTENDS Integers, FiniteSetsExt

CONSTANTS
  Epochs,    \* epochs the task was generated, or the subtask planned, with
  Attempts,  \* bound on the attempts to train it
  Kinds,     \* "task": undivided task, "map": map subtask
  Torn,      \* a file that was opened for writing and is incomplete
  None       \* no such file

ASSUME CheckpointAssumption ==
  /\ Epochs \in Nat \ {0} /\ Attempts \in Nat \ {0}
  /\ Kinds \subseteq {"task", "map"}
  /\ Torn \notin Int /\ None \notin Int /\ Torn # None

Attempt == 1..Attempts
Epoch   == 1..Epochs
PC == {"none", "init", "train", "save", "close", "success", "failed"}

VARIABLES
  kind,     \* whether the Head trains an undivided task or a map subtask
  head,     \* the Head: "ready" to assign, "running" an attempt, "done", "skipped"
  current,  \* the attempt it assigned last
  left,     \* task["epochs"], or sub_ep of a map subtask
  base,     \* task["dataset_path"]: number of a checkpoint, 0 for the data set
  saved,    \* data/checkpoint_<id>_epoch_<n>.pt: what each of them holds
  final,    \* data/final_<id>.pt
  pc,       \* the runner of each attempt: where it is,
  todo,     \* its epochs,
  source,   \* its dataset_path,
  epoch,    \* the epochs it has done,
  weights,  \* and its model
  \* What follows is not in the code.
  result,   \* the weights of the attempt, or file, that ended the task
  changed,  \* how often left was changed, counted up to 2
  cut       \* an incomplete or missing file was taken for a complete one

headVars == <<kind, head, current, left, base, result, changed>>
runVars  == <<pc, todo, source, epoch, weights>>
vars == <<kind, head, current, left, base, saved, final, pc, todo, source, epoch,
          weights, result, changed, cut>>

Whole(f) == f \notin {None, Torn}

Init ==
  /\ kind \in Kinds /\ head = "ready" /\ current = 0 /\ left = Epochs /\ base = 0
  /\ saved = [k \in Epoch |-> None] /\ final = None
  /\ pc = [a \in Attempt |-> "none"] /\ todo = [a \in Attempt |-> 0]
  /\ source = [a \in Attempt |-> 0] /\ epoch = [a \in Attempt |-> 0]
  /\ weights = [a \in Attempt |-> 0]
  /\ result = 0 /\ changed = 0 /\ cut = FALSE

(***************************************************************************)
(* The Head.                                                               *)
(***************************************************************************)

\* The scan from n down to 1 for a checkpoint that exists; 0 if there is none.
Last(n) == LET found == {k \in 1..n : saved[k] # None}
           IN  IF found = {} THEN 0 ELSE Max(found)

\* AssignTask: the worker accepts, and its thread is started.
Start(n, b) ==
  /\ current < Attempts /\ current' = current + 1 /\ head' = "running"
  /\ pc'      = [pc EXCEPT ![current + 1] = "init"]
  /\ todo'    = [todo EXCEPT ![current + 1] = n]
  /\ source'  = [source EXCEPT ![current + 1] = b]
  /\ UNCHANGED <<kind, left, base, saved, final, epoch, weights, result, changed, cut>>

AssignTask == kind = "task" /\ head = "ready" /\ Start(left, base)

\* execute_map_subtask: each attempt starts from the planned epochs.
Resume ==
  /\ kind = "map" /\ head = "ready" /\ ~Whole(final)
  /\ LET last == Last(left)
     IN  IF 0 < last /\ last < left THEN Start(left - last, last)
                                    ELSE Start(left, 0)

\* Skip-Execution: the final weights exist and are not empty. While they are
\* being written they may still be empty: then Resume is as possible.
Skip ==
  /\ kind = "map" /\ head = "ready" /\ final # None
  /\ head' = "skipped" /\ result' = (IF Whole(final) THEN final ELSE 0)
  /\ cut' = (cut \/ final = Torn)
  /\ UNCHANGED <<kind, current, left, base, saved, final, runVars, changed>>

\* The polling loop sees SUCCESS. An undivided task deletes its files.
Success ==
  /\ head = "running" /\ pc[current] = "success"
  /\ head' = "done" /\ result' = weights[current]
  /\ IF kind = "task" THEN saved' = [k \in Epoch |-> None] /\ final' = None
                      ELSE UNCHANGED <<saved, final>>
  /\ UNCHANGED <<kind, current, left, base, runVars, changed, cut>>

Change == changed' = IF changed = 2 THEN 2 ELSE changed + 1

\* Mutant: one epoch too few is left.
Reduce_OffByOne ==
  LET last == Last(left)
  IN  IF kind = "task" /\ 0 < last /\ last < left - 1
        THEN left' = left - last - 1 /\ base' = last /\ Change
        ELSE UNCHANGED <<left, base, changed>>

\* Mutant: a checkpoint of the last epoch is resumed from.
Reduce_Zero ==
  LET last == Last(left)
  IN  IF kind = "task" /\ 0 < last
        THEN left' = left - last /\ base' = last /\ Change
        ELSE UNCHANGED <<left, base, changed>>

\* What is left of an undivided task that failed.
Reduce ==
  LET last == Last(left)
  IN  IF kind = "task" /\ 0 < last /\ last < left
        THEN left' = left - last /\ base' = last /\ Change
        ELSE UNCHANGED <<left, base, changed>>

\* The attempt fails for the Head: FAILED is reported, the entry of the worker
\* is gone, or an RPC raises. Unless its worker ended, the runner goes on.
GiveUp ==
  /\ head = "running" /\ head' = "ready" /\ Reduce
  /\ UNCHANGED <<kind, current, saved, final, runVars, result, cut>>

\* The worker refuses, or cannot be reached: the same, without a runner.
Refuse ==
  /\ head = "ready" /\ kind = "task" /\ Reduce
  /\ UNCHANGED <<kind, head, current, saved, final, runVars, result, cut>>

\* The retries are used up, the job fails, and is split again by the workers
\* that are IDLE then: the subtask of the same name gets another share.
Replan(n) ==
  /\ kind = "map" /\ head = "ready" /\ n # left
  /\ left' = n /\ Change
  /\ UNCHANGED <<kind, head, current, base, saved, final, runVars, result, cut>>

(***************************************************************************)
(* The runner of attempt a: PyTorchActualRunner.run.                       *)
(***************************************************************************)

At(a, label) == pc' = [pc EXCEPT ![a] = label]

\* _init_model_and_optimizer: a checkpoint that is not there is passed over, one
\* that cannot be read is reported in the log; both train a new model.
Load(a) ==
  /\ pc[a] = "init" /\ At(a, "train")
  /\ IF source[a] = 0 THEN UNCHANGED <<weights, cut>>
     ELSE LET f == saved[source[a]]
          IN  IF Whole(f) THEN weights' = [weights EXCEPT ![a] = f] /\ UNCHANGED cut
                          ELSE cut' = TRUE /\ UNCHANGED weights
  /\ UNCHANGED <<headVars, saved, final, todo, source, epoch>>

\* Mutant: the checkpoint is saved before the epoch.
Train_After(a) ==
  /\ pc[a] = "train" /\ epoch[a] < todo[a] /\ At(a, "save")
  /\ epoch' = [epoch EXCEPT ![a] = @ + 1]
  /\ weights' = [weights EXCEPT ![a] = IF epoch[a] = 0 THEN @ ELSE @ + 1]
  /\ saved' = [saved EXCEPT ![epoch[a] + 1] = Torn]
  /\ UNCHANGED <<headVars, final, todo, source, cut>>

\* One epoch, and torch.save opens the checkpoint, numbered from 1.
Train(a) ==
  /\ pc[a] = "train" /\ epoch[a] < todo[a] /\ At(a, "save")
  /\ epoch'   = [epoch EXCEPT ![a] = @ + 1]
  /\ weights' = [weights EXCEPT ![a] = @ + 1]
  /\ saved'   = [saved EXCEPT ![epoch[a] + 1] = Torn]
  /\ UNCHANGED <<headVars, final, todo, source, cut>>

Save(a) ==
  /\ pc[a] = "save" /\ At(a, "train")
  /\ saved' = [saved EXCEPT ![epoch[a]] = weights[a]]
  /\ UNCHANGED <<headVars, final, todo, source, epoch, weights, cut>>

\* _save_final_model_and_inference: an error here leaves the status SUCCESS.
OpenFinal(a) ==
  /\ pc[a] = "train" /\ epoch[a] = todo[a]
  /\ \/ At(a, "close") /\ final' = Torn
     \/ At(a, "success") /\ UNCHANGED final
  /\ UNCHANGED <<headVars, saved, todo, source, epoch, weights, cut>>

CloseFinal(a) ==
  /\ pc[a] = "close" /\ At(a, "success")
  /\ final' \in {weights[a], Torn}
  /\ UNCHANGED <<headVars, saved, todo, source, epoch, weights, cut>>

\* Out of memory, an error while training or saving, or the worker ends, also
\* in the middle of a write: the thread and its model are gone.
Break(a) ==
  /\ pc[a] \notin {"none", "failed"} /\ At(a, "failed")
  /\ todo'    = [todo EXCEPT ![a] = 0] /\ source' = [source EXCEPT ![a] = 0]
  /\ epoch'   = [epoch EXCEPT ![a] = 0]
  /\ weights' = [weights EXCEPT ![a] = 0]
  /\ UNCHANGED <<headVars, saved, final, cut>>

Next ==
  \/ AssignTask \/ Resume \/ Skip \/ Success \/ GiveUp \/ Refuse
  \/ \E n \in Epoch : Replan(n)
  \/ \E a \in Attempt :
       Load(a) \/ Train(a) \/ Save(a) \/ OpenFinal(a) \/ CloseFinal(a) \/ Break(a)

Spec == Init /\ [][Next]_vars

(***************************************************************************)
(* Properties.                                                             *)
(***************************************************************************)

\* The types of the variables. Never are no epochs left.
TypeOK ==
  /\ kind \in {"task", "map"} /\ head \in {"ready", "running", "done", "skipped"}
  /\ current \in 0..Attempts /\ left \in Epoch /\ base \in 0..Epochs
  /\ saved \in [Epoch -> Nat \cup {None, Torn}] /\ final \in Nat \cup {None, Torn}
  /\ pc \in [Attempt -> PC] /\ todo \in [Attempt -> 0..Epochs]
  /\ source \in [Attempt -> 0..Epochs] /\ epoch \in [Attempt -> 0..Epochs]
  /\ weights \in [Attempt -> Nat] /\ result \in Nat
  /\ changed \in 0..2 /\ cut \in BOOLEAN

\* What resuming rests on: checkpoint n holds weights that were trained for n
\* epochs at least, whichever attempts wrote the files, and in whatever order,
\* although each attempt numbers its own from 1 (gpu_simulator.py:282-292).
CheckpointsCount == \A k \in Epoch : Whole(saved[k]) => saved[k] >= k

\* task_executor.py:170-205, 767-782: what was done before a failure is not done
\* again and nothing is left out. Weights the Head takes as the result of a map
\* subtask were trained for all its epochs, however many attempts failed, unless
\* an incomplete file was read; weights of another split's subtask may be taken,
\* but only by a skip. Those of an undivided task are, if its epochs were
\* reduced once at most.
FullTraining ==
  \/ cut
  \/ head \in {"ready", "running"}
  \/ kind = "map" /\ result >= left
  \/ kind = "map" /\ head = "skipped" /\ changed > 0
  \/ kind = "task" /\ (result >= Epochs \/ changed = 2)

\* project_proposal.md:291: the newest weights are loaded and training resumes for
\* just the epochs that are left. An undivided task that succeeds was trained for all its
\* epochs, unless an incomplete file was read.
ResumesForTheRest == kind = "task" /\ head = "done" => result >= Epochs \/ cut
=============================================================================
