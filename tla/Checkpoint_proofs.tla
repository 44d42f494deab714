--------------------------- MODULE Checkpoint_proofs ---------------------------
(***************************************************************************)
(* Resuming is sound: for any number of epochs and attempts, whichever     *)
(* attempts of a task wrote its files, no checkpoint holds less than its   *)
(* number promises, and no epoch is left out of a result.                  *)
(***************************************************************************)
EXTENDS Checkpoint, WellFoundedInduction, TLAPS

\* The attempts whose model was trained, or loaded and trained.
Loaded == {"train", "save", "close", "success"}

\* A runner counts its epochs right, and has a model before it trains.
RunnersCount ==
  \A a \in Attempt :
    /\ epoch[a] <= todo[a] /\ epoch[a] <= weights[a]
    /\ pc[a] \in {"none", "init", "failed"} => epoch[a] = 0
    /\ pc[a] = "save" => epoch[a] > 0
    /\ pc[a] \in {"close", "success"} => epoch[a] = todo[a]
    /\ a > current => pc[a] = "none"

\* What a runner was told to resume from is in its model.
ModelsResume ==
  cut \/ \A a \in Attempt : pc[a] \in Loaded => weights[a] >= epoch[a] + source[a]

\* What the Head has left to do and the checkpoint it resumes from make up the
\* epochs of the task, as long as they were changed once at most.
HeadCounts ==
  /\ changed = 0 => left = Epochs
  /\ kind = "task" /\ changed = 0 => base = 0
  /\ kind = "task" /\ changed = 1 => left + base = Epochs
  /\ head = "running" => current \in Attempt
  /\ head = "running" /\ pc[current] # "failed" =>
       /\ kind = "task" => todo[current] = left /\ source[current] = base
       /\ kind = "map" => todo[current] + source[current] = left

\* All attempts at a subtask that was never split anew are at the same epochs.
SubtasksCount ==
  kind = "map" /\ changed = 0 =>
    /\ \A a \in Attempt : pc[a] \notin {"none", "failed"} => todo[a] + source[a] = Epochs
    /\ Whole(final) => cut \/ final >= Epochs

CInv ==
  /\ TypeOK /\ CheckpointsCount /\ RunnersCount /\ ModelsResume
  /\ HeadCounts /\ SubtasksCount /\ FullTraining

\* A set of numbers up to n has a largest element, which Max chooses.
LEMMA MaxIsIn ==
  ASSUME NEW n \in Nat, NEW S \in SUBSET (1..n), S # {}
  PROVE  Max(S) \in S
  <1> DEFINE R == {p \in Nat \X Nat : p[1] < p[2]}
             T == {n - k : k \in S}
  <1>1. IsWellFoundedOn(R, Nat)
    BY NatLessThanWellFounded DEF OpToRel
  <1>2. T \subseteq Nat /\ T # {}
    <2>1. PICK k \in S : TRUE
      OBVIOUS
    <2>2. n - k \in T
      OBVIOUS
    <2>3. \A j \in S : n - j \in Nat
      OBVIOUS
    <2> QED BY <2>2, <2>3
  <1>3. \A x, y \in Nat : y < x => <<y, x>> \in R
    OBVIOUS
  <1> HIDE DEF R
  <1>4. PICK m \in T : \A y \in T : ~ (<<y, m>> \in R)
    BY <1>1, <1>2, WFMin
  <1>5. PICK s \in S : m = n - s
    OBVIOUS
  <1>6. \A k \in S : s >= k
    <2> TAKE k \in S
    <2>1. n - k \in T /\ n - k \in Nat /\ m \in Nat /\ s \in Nat /\ k \in Nat
      BY <1>2
    <2>2. ~ (n - k < m)
      BY <1>3, <1>4, <2>1
    <2> QED BY <1>5, <2>1, <2>2
  <1>7. \E x \in S : \A y \in S : x >= y
    BY <1>6
  <1> QED BY <1>7 DEF Max

\* The scan of the Head returns the number of a checkpoint, or 0.
LEMMA LastType == ASSUME NEW n \in Nat PROVE Last(n) \in 0..n
  <1> DEFINE found == {k \in 1..n : saved[k] # None}
  <1>1. CASE found = {}
    BY <1>1 DEF Last
  <1>2. CASE found # {}
    <2>1. Max(found) \in found
      BY <1>2, MaxIsIn
    <2> QED BY <1>2, <2>1 DEF Last
  <1> QED BY <1>1, <1>2

LEMMA InitC == Init => CInv
  <1> SUFFICES ASSUME Init PROVE CInv
    OBVIOUS
  <1> USE CheckpointAssumption
  <1>1. cut \in BOOLEAN
    BY DEF Init
  <1>2. TypeOK
    BY <1>1 DEF Init, TypeOK, Epoch, Attempt, PC
  <1>3. CheckpointsCount /\ RunnersCount /\ ModelsResume
    BY DEF Init, CheckpointsCount, RunnersCount, ModelsResume, Loaded, Whole, Attempt, Epoch
  <1>4. HeadCounts /\ SubtasksCount /\ FullTraining
    BY DEF Init, HeadCounts, SubtasksCount, FullTraining, Whole, Attempt
  <1> QED BY <1>2, <1>3, <1>4 DEF CInv

(***************************************************************************)
(* The Head.                                                               *)
(***************************************************************************)

\* A new attempt is given what is left, and the checkpoint it starts from.
LEMMA StartKeeps ==
  ASSUME CInv, NEW n \in Epoch, NEW b \in 0..Epochs, head = "ready", Start(n, b),
         kind = "task" => n = left /\ b = base, kind = "map" => n + b = left
  PROVE  CInv'
  <1> USE CheckpointAssumption
  <1> DEFINE c == current + 1
  <1>0. /\ c \in Attempt /\ current \in 0..Attempts /\ current' = c /\ head' = "running"
        /\ n \in 1..Epochs /\ n \in 0..Epochs /\ left \in Nat /\ base \in Nat /\ changed \in 0..2
        /\ UNCHANGED <<kind, left, base, saved, final, epoch, weights, result, changed, cut>>
    BY DEF Start, CInv, TypeOK, Attempt, Epoch
  <1> HIDE DEF c
  <1>1. /\ pc' = [pc EXCEPT ![c] = "init"] /\ todo' = [todo EXCEPT ![c] = n]
        /\ source' = [source EXCEPT ![c] = b]
    BY DEF Start, c
  <1>2. /\ pc'[c] = "init" /\ todo'[c] = n /\ source'[c] = b /\ pc[c] = "none"
        /\ epoch[c] = 0 /\ weights[c] \in Nat
        /\ \A a \in Attempt : a # c => pc'[a] = pc[a] /\ todo'[a] = todo[a] /\ source'[a] = source[a]
    BY <1>0, <1>1 DEF CInv, TypeOK, RunnersCount, c
  <1>3. cut' \in BOOLEAN
    BY <1>0 DEF CInv, TypeOK
  <1>4. TypeOK'
    <2>1. pc' \in [Attempt -> PC]
      BY <1>1 DEF CInv, TypeOK, PC
    <2>2. todo' \in [Attempt -> 0..Epochs] /\ source' \in [Attempt -> 0..Epochs]
      BY <1>0, <1>1 DEF CInv, TypeOK
    <2>3. current' \in 0..Attempts
      BY <1>0 DEF Attempt
    <2> QED BY <1>0, <1>3, <2>1, <2>2, <2>3 DEF CInv, TypeOK
  <1>5. CheckpointsCount'
    BY <1>0 DEF CInv, CheckpointsCount
  <1>6. RunnersCount'
    <2> SUFFICES ASSUME NEW a \in Attempt
                 PROVE  /\ epoch[a] <= todo'[a] /\ epoch[a] <= weights[a]
                        /\ pc'[a] \in {"none", "init", "failed"} => epoch[a] = 0
                        /\ pc'[a] = "save" => epoch[a] > 0
                        /\ pc'[a] \in {"close", "success"} => epoch[a] = todo'[a]
                        /\ a > c => pc'[a] = "none"
      BY <1>0 DEF RunnersCount
    <2>1. CASE a = c
      BY <1>0, <1>2, <2>1 DEF Attempt
    <2>2. CASE a # c
      <3>1. a > c => a > current
        BY <1>0 DEF Attempt, c
      <3> QED BY <1>2, <2>2, <3>1 DEF CInv, RunnersCount
    <2> QED BY <2>1, <2>2
  <1>7. ModelsResume'
    BY <1>0, <1>2 DEF CInv, ModelsResume, Loaded
  <1>8. HeadCounts'
    BY <1>0, <1>2 DEF CInv, HeadCounts
  <1>9. SubtasksCount'
    BY <1>0, <1>2 DEF CInv, SubtasksCount, HeadCounts
  <1>10. FullTraining'
    BY <1>0 DEF FullTraining
  <1> QED BY <1>4, <1>5, <1>6, <1>7, <1>8, <1>9, <1>10 DEF CInv

LEMMA AssignKeeps == ASSUME CInv, AssignTask \/ Resume PROVE CInv'
  <1> USE CheckpointAssumption
  <1>0. left \in Epoch /\ left \in Nat /\ left <= Epochs /\ base \in 0..Epochs /\ head = "ready"
    BY DEF CInv, TypeOK, Epoch, AssignTask, Resume
  <1>1. CASE AssignTask
    BY <1>0, <1>1, StartKeeps DEF AssignTask
  <1>2. CASE Resume
    <2> DEFINE last == Last(left)
    <2>1. last \in 0..left
      BY <1>0, LastType
    <2>2. kind = "map" /\ \/ 0 < last /\ last < left /\ Start(left - last, last)
                          \/ Start(left, 0)
      BY <1>2 DEF Resume
    <2> HIDE DEF last
    <2>3. CASE 0 < last /\ last < left /\ Start(left - last, last)
      <3>1. left - last \in Epoch /\ last \in 0..Epochs /\ (left - last) + last = left
        BY <1>0, <2>1, <2>3 DEF Epoch
      <3> QED BY <1>0, <2>2, <2>3, <3>1, StartKeeps
    <2>4. CASE Start(left, 0)
      BY <1>0, <2>2, <2>4, StartKeeps
    <2> QED BY <2>2, <2>3, <2>4
  <1> QED BY <1>1, <1>2

\* Final weights that are there were trained for all epochs, or are those of
\* another split, or are incomplete.
LEMMA SkipKeeps == ASSUME CInv, Skip PROVE CInv'
  <1> USE CheckpointAssumption
  <1>0. /\ kind = "map" /\ head' = "skipped" /\ final \in Nat \cup {Torn} /\ left \in Nat
        /\ UNCHANGED <<kind, current, left, base, saved, final, pc, todo, source, epoch, weights, changed>>
    BY DEF Skip, runVars, CInv, TypeOK, Epoch
  <1>1. result' \in Nat /\ cut' \in BOOLEAN /\ (cut => cut')
    BY <1>0 DEF Skip, Whole, CInv, TypeOK
  <1>2. TypeOK'
    BY <1>0, <1>1 DEF CInv, TypeOK
  <1>3. CheckpointsCount' /\ RunnersCount'
    BY <1>0 DEF CInv, CheckpointsCount, RunnersCount
  <1>4. ModelsResume' /\ SubtasksCount'
    BY <1>0, <1>1 DEF CInv, ModelsResume, SubtasksCount
  <1>5. HeadCounts'
    BY <1>0 DEF CInv, HeadCounts
  <1>6. FullTraining'
    <2>1. CASE changed > 0
      BY <1>0, <2>1 DEF FullTraining
    <2>2. CASE final = Torn
      BY <2>2 DEF Skip, FullTraining
    <2>3. CASE final # Torn /\ ~(changed > 0)
      <3>1. changed = 0 /\ left = Epochs /\ Whole(final)
        BY <1>0, <2>3 DEF CInv, TypeOK, HeadCounts, Whole
      <3>2. result' = final /\ (cut \/ final >= Epochs)
        BY <1>0, <3>1 DEF Skip, CInv, SubtasksCount
      <3> QED BY <1>0, <1>1, <3>1, <3>2 DEF FullTraining
    <2> QED BY <2>1, <2>2, <2>3
  <1> QED BY <1>2, <1>3, <1>4, <1>5, <1>6 DEF CInv

\* The weights of the attempt that succeeded count the epochs it was given and
\* those of the checkpoint it resumed from.
LEMMA SuccessKeeps == ASSUME CInv, Success PROVE CInv'
  <1> USE CheckpointAssumption
  <1>0. /\ current \in Attempt /\ head = "running" /\ pc[current] = "success"
        /\ head' = "done" /\ result' = weights[current]
        /\ UNCHANGED <<kind, current, left, base, pc, todo, source, epoch, weights, changed, cut>>
    BY DEF Success, runVars, CInv, HeadCounts
  <1>1. /\ saved' \in [Epoch -> Nat \cup {None, Torn}] /\ final' \in {final, None}
        /\ \A k \in Epoch : Whole(saved'[k]) => saved'[k] = saved[k]
    BY DEF Success, CInv, TypeOK, Whole
  <1>2. weights[current] \in Nat /\ cut' \in BOOLEAN
    BY <1>0 DEF CInv, TypeOK
  <1>3. TypeOK'
    BY <1>0, <1>1, <1>2 DEF CInv, TypeOK
  <1>4. CheckpointsCount'
    BY <1>1 DEF CInv, CheckpointsCount
  <1>5. RunnersCount' /\ ModelsResume'
    BY <1>0 DEF CInv, RunnersCount, ModelsResume
  <1>6. HeadCounts'
    BY <1>0 DEF CInv, HeadCounts
  <1>7. SubtasksCount'
    BY <1>0, <1>1 DEF CInv, SubtasksCount, Whole
  <1>8. FullTraining'
    <2>1. /\ epoch[current] = todo[current] /\ (cut \/ weights[current] >= epoch[current] + source[current])
          /\ kind = "task" => todo[current] = left /\ source[current] = base
          /\ kind = "map" => todo[current] + source[current] = left
          /\ kind \in {"task", "map"} /\ changed \in 0..2
          /\ kind = "task" /\ changed # 2 => left + base = Epochs
      BY <1>0 DEF CInv, TypeOK, RunnersCount, ModelsResume, HeadCounts, Loaded, Epoch
    <2> QED BY <1>0, <1>2, <2>1 DEF FullTraining
  <1> QED BY <1>3, <1>4, <1>5, <1>6, <1>7, <1>8 DEF CInv

\* What the Head takes off the epochs it adds to the checkpoint, the first time.
LEMMA ReduceCounts ==
  ASSUME CInv, Reduce
  PROVE  /\ left' \in Epoch /\ base' \in 0..Epochs /\ changed' \in 0..2
         /\ kind = "map" => left' = left /\ changed' = changed
         /\ changed' = 0 => left' = left /\ base' = base /\ changed = 0
         /\ kind = "task" /\ changed' = 1 => left' + base' = Epochs
  <1> USE CheckpointAssumption
  <1>0. left \in Epoch /\ left \in Nat /\ left <= Epochs /\ base \in 0..Epochs /\ changed \in 0..2
    BY DEF CInv, TypeOK, Epoch
  <1> DEFINE last == Last(left)
  <1>1. last \in 0..left
    BY <1>0, LastType
  <1>2. \/ /\ kind = "task" /\ 0 < last /\ last < left /\ left' = left - last /\ base' = last
           /\ changed' = IF changed = 2 THEN 2 ELSE changed + 1
        \/ UNCHANGED <<left, base, changed>>
    BY DEF Reduce, Change
  <1> HIDE DEF last
  <1>3. CASE UNCHANGED <<left, base, changed>>
    BY <1>0, <1>3 DEF CInv, HeadCounts
  <1>4. CASE /\ kind = "task" /\ 0 < last /\ last < left /\ left' = left - last /\ base' = last
             /\ changed' = IF changed = 2 THEN 2 ELSE changed + 1
    <2>1. changed = 0 => left = Epochs
      BY DEF CInv, HeadCounts
    <2>2. left' \in Epoch /\ base' \in 0..Epochs /\ left' + base' = left
      BY <1>0, <1>1, <1>4 DEF Epoch
    <2>3. changed' \in 1..2 /\ (changed' = 1 => changed = 0)
      BY <1>0, <1>4
    <2> QED BY <1>4, <2>1, <2>2, <2>3
  <1> QED BY <1>2, <1>3, <1>4

LEMMA FailureKeeps == ASSUME CInv, GiveUp \/ Refuse PROVE CInv'
  <1> USE CheckpointAssumption
  <1>0. /\ head' = "ready" /\ Reduce
        /\ UNCHANGED <<kind, current, saved, final, pc, todo, source, epoch, weights, result, cut>>
    BY DEF GiveUp, Refuse, runVars
  <1>1. /\ left' \in Epoch /\ base' \in 0..Epochs /\ changed' \in 0..2
        /\ kind = "map" => left' = left /\ changed' = changed
        /\ changed' = 0 => left' = left /\ base' = base /\ changed = 0
        /\ kind = "task" /\ changed' = 1 => left' + base' = Epochs
    BY <1>0, ReduceCounts
  <1>2. cut' \in BOOLEAN
    BY <1>0 DEF CInv, TypeOK
  <1>3. TypeOK'
    BY <1>0, <1>1, <1>2 DEF CInv, TypeOK
  <1>4. CheckpointsCount' /\ RunnersCount' /\ ModelsResume'
    BY <1>0 DEF CInv, CheckpointsCount, RunnersCount, ModelsResume
  <1>5. HeadCounts'
    BY <1>0, <1>1 DEF CInv, HeadCounts
  <1>6. SubtasksCount'
    BY <1>0, <1>1 DEF CInv, SubtasksCount
  <1>7. FullTraining'
    BY <1>0 DEF FullTraining
  <1> QED BY <1>3, <1>4, <1>5, <1>6, <1>7 DEF CInv

LEMMA ReplanKeeps == ASSUME CInv, NEW n \in Epoch, Replan(n) PROVE CInv'
  <1> USE CheckpointAssumption
  <1>0. /\ kind = "map" /\ head = "ready" /\ left' = n
        /\ UNCHANGED <<kind, head, current, base, saved, final, pc, todo, source, epoch, weights, result, cut>>
    BY DEF Replan, runVars
  <1>1. changed' \in 1..2 /\ changed' \in 0..2 /\ changed' # 0
    BY DEF Replan, Change, CInv, TypeOK
  <1>2. cut' \in BOOLEAN
    BY <1>0 DEF CInv, TypeOK
  <1>3. TypeOK'
    BY <1>0, <1>1, <1>2 DEF CInv, TypeOK
  <1>4. CheckpointsCount' /\ RunnersCount' /\ ModelsResume'
    BY <1>0 DEF CInv, CheckpointsCount, RunnersCount, ModelsResume
  <1>5. HeadCounts' /\ SubtasksCount' /\ FullTraining'
    BY <1>0, <1>1 DEF HeadCounts, SubtasksCount, FullTraining
  <1> QED BY <1>3, <1>4, <1>5 DEF CInv

(***************************************************************************)
(* The runner. A step of attempt a leaves the Head alone.                  *)
(***************************************************************************)

\* The parts of the invariant about the Head are kept by every step of a runner
\* that keeps its orders, unless it fails, and writes no poor final weights.
LEMMA HeadUnmoved ==
  ASSUME CInv, NEW a \in Attempt, UNCHANGED headVars, cut => cut',
         \A b \in Attempt : pc'[b] \notin {"none", "failed"} =>
           todo'[b] = todo[b] /\ source'[b] = source[b] /\ pc[b] \notin {"none", "failed"},
         final' = final \/ ~Whole(final') \/
           (kind = "map" /\ changed = 0 => cut' \/ final' >= Epochs),
         \A b \in Attempt : pc[b] = "failed" => pc'[b] = "failed",
         \A b \in Attempt : pc'[b] = "none" => pc[b] = "none" /\ todo'[b] = todo[b] /\ source'[b] = source[b]
  PROVE  HeadCounts' /\ SubtasksCount' /\ FullTraining'
  <1>0. UNCHANGED <<kind, head, current, left, base, result, changed>>
    BY DEF headVars
  <1>1. HeadCounts'
    <2>1. ASSUME head = "running", pc'[current] # "failed"
          PROVE  /\ kind = "task" => todo'[current] = left /\ source'[current] = base
                 /\ kind = "map" => todo'[current] + source'[current] = left
      <3>1. current \in Attempt
        BY <2>1 DEF CInv, HeadCounts
      <3>2. pc[current] # "failed" /\ todo'[current] = todo[current] /\ source'[current] = source[current]
        BY <2>1, <3>1
      <3> QED BY <2>1, <3>2 DEF CInv, HeadCounts
    <2> QED BY <1>0, <2>1 DEF CInv, HeadCounts
  <1>2. SubtasksCount'
    BY <1>0 DEF CInv, SubtasksCount
  <1>3. FullTraining'
    BY <1>0 DEF CInv, FullTraining
  <1> QED BY <1>1, <1>2, <1>3

\* The model that is loaded was trained for as many epochs as its file is numbered.
LEMMA LoadKeeps == ASSUME CInv, NEW a \in Attempt, Load(a) PROVE CInv'
  <1> USE CheckpointAssumption
  <1>0. /\ pc[a] = "init" /\ pc' = [pc EXCEPT ![a] = "train"] /\ UNCHANGED headVars
        /\ UNCHANGED <<kind, head, current, left, base, result, changed>>
        /\ UNCHANGED <<saved, final, todo, source, epoch>>
        /\ epoch[a] = 0 /\ source[a] \in 0..Epochs
    BY DEF Load, At, headVars, CInv, TypeOK, RunnersCount
  <1>1. /\ cut' \in BOOLEAN /\ (cut => cut') /\ weights' \in [Attempt -> Nat]
        /\ \A b \in Attempt : b # a => weights'[b] = weights[b]
        /\ cut' \/ weights'[a] >= source[a]
    <2>1. CASE source[a] = 0
      BY <1>0, <2>1 DEF Load, CInv, TypeOK
    <2>2. CASE source[a] # 0
      <3>1. source[a] \in Epoch
        BY <1>0, <2>2 DEF Epoch
      <3>2. CASE Whole(saved[source[a]])
        <4>1. saved[source[a]] \in Nat /\ saved[source[a]] >= source[a]
          BY <3>1, <3>2 DEF CInv, TypeOK, CheckpointsCount, Whole
        <4>2. weights' = [weights EXCEPT ![a] = saved[source[a]]] /\ cut' = cut
          BY <2>2, <3>2 DEF Load
        <4> QED BY <4>1, <4>2 DEF CInv, TypeOK
      <3>3. CASE ~Whole(saved[source[a]])
        BY <2>2, <3>3 DEF Load, CInv, TypeOK
      <3> QED BY <3>2, <3>3
    <2> QED BY <2>1, <2>2
  <1>2. TypeOK'
    BY <1>0, <1>1 DEF CInv, TypeOK, PC
  <1>3. \A b \in Attempt : pc'[b] = IF b = a THEN "train" ELSE pc[b]
    BY <1>0 DEF CInv, TypeOK
  <1>4. CheckpointsCount'
    BY <1>0 DEF CInv, CheckpointsCount
  <1>5. RunnersCount'
    <2> SUFFICES ASSUME NEW b \in Attempt
                 PROVE  /\ epoch[b] <= todo[b] /\ epoch[b] <= weights'[b]
                        /\ pc'[b] \in {"none", "init", "failed"} => epoch[b] = 0
                        /\ pc'[b] = "save" => epoch[b] > 0
                        /\ pc'[b] \in {"close", "success"} => epoch[b] = todo[b]
                        /\ b > current => pc'[b] = "none"
      BY <1>0 DEF RunnersCount
    <2>0. /\ epoch[b] <= todo[b] /\ epoch[b] <= weights[b] /\ (b > current => pc[b] = "none")
      BY DEF CInv, RunnersCount
    <2>1. CASE b = a
      <3>1. weights'[a] \in Nat
        BY <1>1
      <3> QED BY <1>0, <1>3, <2>0, <2>1, <3>1
    <2>2. CASE b # a
      BY <1>1, <1>3, <2>0, <2>2 DEF CInv, RunnersCount
    <2> QED BY <2>1, <2>2
  <1>6. ModelsResume'
    BY <1>0, <1>1, <1>3 DEF CInv, TypeOK, ModelsResume, Loaded
  <1>7. HeadCounts' /\ SubtasksCount' /\ FullTraining'
    BY <1>0, <1>1, <1>3, HeadUnmoved
  <1> QED BY <1>2, <1>4, <1>5, <1>6, <1>7 DEF CInv

LEMMA TrainKeeps == ASSUME CInv, NEW a \in Attempt, Train(a) PROVE CInv'
  <1> USE CheckpointAssumption
  <1>0. /\ pc[a] = "train" /\ epoch[a] < todo[a] /\ epoch[a] \in Nat /\ todo[a] \in 0..Epochs
        /\ UNCHANGED headVars /\ UNCHANGED <<kind, head, current, left, base, result, changed>>
        /\ UNCHANGED <<final, todo, source, cut>> /\ cut' \in BOOLEAN
    BY DEF Train, headVars, CInv, TypeOK
  <1>1. epoch[a] + 1 \in 0..Epochs /\ weights[a] + 1 \in Nat
    BY <1>0 DEF CInv, TypeOK
  <1>2. /\ pc' \in [Attempt -> PC] /\ epoch' \in [Attempt -> 0..Epochs] /\ weights' \in [Attempt -> Nat]
        /\ saved' \in [Epoch -> Nat \cup {None, Torn}]
    BY <1>0, <1>1 DEF Train, At, CInv, TypeOK, PC
  <1>3. \A b \in Attempt : /\ pc'[b] = IF b = a THEN "save" ELSE pc[b]
                           /\ epoch'[b] = IF b = a THEN epoch[b] + 1 ELSE epoch[b]
                           /\ weights'[b] = IF b = a THEN weights[b] + 1 ELSE weights[b]
    BY DEF Train, At, CInv, TypeOK
  <1>4. \A k \in Epoch : Whole(saved'[k]) => saved'[k] = saved[k] /\ Whole(saved[k])
    BY DEF Train, CInv, TypeOK, Whole
  <1>5. TypeOK'
    BY <1>0, <1>2 DEF CInv, TypeOK
  <1>6. CheckpointsCount'
    BY <1>4 DEF CInv, CheckpointsCount
  <1>7. RunnersCount'
    <2> SUFFICES ASSUME NEW b \in Attempt
                 PROVE  /\ epoch'[b] <= todo[b] /\ epoch'[b] <= weights'[b]
                        /\ pc'[b] \in {"none", "init", "failed"} => epoch'[b] = 0
                        /\ pc'[b] = "save" => epoch'[b] > 0
                        /\ pc'[b] \in {"close", "success"} => epoch'[b] = todo[b]
                        /\ b > current => pc'[b] = "none"
      BY <1>0 DEF RunnersCount
    <2>0. /\ epoch[b] <= todo[b] /\ epoch[b] <= weights[b] /\ (b > current => pc[b] = "none")
          /\ epoch[b] \in Nat /\ todo[b] \in Nat /\ weights[b] \in Nat
      BY DEF CInv, TypeOK, RunnersCount
    <2>1. CASE b = a
      BY <1>0, <1>3, <2>0, <2>1
    <2>2. CASE b # a
      BY <1>3, <2>0, <2>2 DEF CInv, RunnersCount
    <2> QED BY <2>1, <2>2
  <1>8. ModelsResume'
    BY <1>0, <1>3 DEF CInv, TypeOK, ModelsResume, Loaded
  <1>9. HeadCounts' /\ SubtasksCount' /\ FullTraining'
    BY <1>0, <1>3, HeadUnmoved
  <1> QED BY <1>5, <1>6, <1>7, <1>8, <1>9 DEF CInv

\* The checkpoint that is written holds at least the epochs of its number.
LEMMA SaveKeeps == ASSUME CInv, NEW a \in Attempt, Save(a) PROVE CInv'
  <1> USE CheckpointAssumption
  <1>0. /\ pc[a] = "save" /\ pc' = [pc EXCEPT ![a] = "train"]
        /\ saved' = [saved EXCEPT ![epoch[a]] = weights[a]]
        /\ UNCHANGED headVars /\ UNCHANGED <<kind, head, current, left, base, result, changed>>
        /\ UNCHANGED <<final, todo, source, epoch, weights, cut>> /\ cut' \in BOOLEAN
    BY DEF Save, At, headVars, CInv, TypeOK
  <1>1. epoch[a] \in Epoch /\ weights[a] \in Nat /\ weights[a] >= epoch[a]
    BY <1>0 DEF CInv, TypeOK, RunnersCount, Epoch
  <1>2. \A b \in Attempt : pc'[b] = IF b = a THEN "train" ELSE pc[b]
    BY <1>0 DEF CInv, TypeOK
  <1>3. TypeOK'
    BY <1>0, <1>1 DEF CInv, TypeOK, PC
  <1>4. CheckpointsCount'
    BY <1>0, <1>1 DEF CInv, TypeOK, CheckpointsCount
  <1>5. RunnersCount'
    BY <1>0, <1>2 DEF CInv, RunnersCount
  <1>6. ModelsResume'
    BY <1>0, <1>2 DEF CInv, ModelsResume, Loaded
  <1>7. HeadCounts' /\ SubtasksCount' /\ FullTraining'
    BY <1>0, <1>2, HeadUnmoved
  <1> QED BY <1>3, <1>4, <1>5, <1>6, <1>7 DEF CInv

LEMMA FinalKeeps == ASSUME CInv, NEW a \in Attempt, OpenFinal(a) \/ CloseFinal(a) PROVE CInv'
  <1> USE CheckpointAssumption
  <1>0. /\ pc[a] \in {"train", "close"} /\ epoch[a] = todo[a]
        /\ UNCHANGED headVars /\ UNCHANGED <<kind, head, current, left, base, result, changed>>
        /\ UNCHANGED <<saved, todo, source, epoch, weights, cut>> /\ cut' \in BOOLEAN
        /\ final' \in {final, Torn, weights[a]} /\ weights[a] \in Nat
    BY DEF OpenFinal, CloseFinal, headVars, CInv, TypeOK, RunnersCount
  <1>1. pc' = [pc EXCEPT ![a] = "close"] \/ pc' = [pc EXCEPT ![a] = "success"]
    BY DEF OpenFinal, CloseFinal, At
  <1>2. /\ pc'[a] \in {"close", "success"} /\ pc' \in [Attempt -> PC]
        /\ \A b \in Attempt : b # a => pc'[b] = pc[b]
    BY <1>1 DEF CInv, TypeOK, PC
  <1>3. kind = "map" /\ changed = 0 => cut \/ weights[a] >= Epochs
    <2>1. cut \/ weights[a] >= todo[a] + source[a]
      BY <1>0 DEF CInv, ModelsResume, Loaded
    <2>2. kind = "map" /\ changed = 0 => todo[a] + source[a] = Epochs
      BY <1>0 DEF CInv, SubtasksCount
    <2> QED BY <2>1, <2>2
  <1>4. TypeOK'
    BY <1>0, <1>2 DEF CInv, TypeOK
  <1>5. CheckpointsCount'
    BY <1>0 DEF CInv, CheckpointsCount
  <1>6. RunnersCount'
    BY <1>0, <1>2 DEF CInv, RunnersCount
  <1>7. ModelsResume'
    BY <1>0, <1>2 DEF CInv, ModelsResume, Loaded
  <1>8. \/ final' = final \/ ~Whole(final')
        \/ (kind = "map" /\ changed = 0 => cut' \/ final' >= Epochs)
    BY <1>0, <1>3 DEF Whole
  <1>9. HeadCounts' /\ SubtasksCount' /\ FullTraining'
    BY <1>0, <1>2, <1>8, HeadUnmoved
  <1> QED BY <1>4, <1>5, <1>6, <1>7, <1>9 DEF CInv

LEMMA BreakKeeps == ASSUME CInv, NEW a \in Attempt, Break(a) PROVE CInv'
  <1> USE CheckpointAssumption
  <1>0. /\ pc[a] \notin {"none", "failed"}
        /\ UNCHANGED headVars /\ UNCHANGED <<kind, head, current, left, base, result, changed>>
        /\ UNCHANGED <<saved, final, cut>> /\ cut' \in BOOLEAN
    BY DEF Break, headVars, CInv, TypeOK
  <1>1. /\ pc' \in [Attempt -> PC] /\ todo' \in [Attempt -> 0..Epochs] /\ source' \in [Attempt -> 0..Epochs]
        /\ epoch' \in [Attempt -> 0..Epochs] /\ weights' \in [Attempt -> Nat]
    BY DEF Break, At, CInv, TypeOK, PC
  <1>2. /\ pc'[a] = "failed" /\ todo'[a] = 0 /\ epoch'[a] = 0 /\ weights'[a] = 0
        /\ \A b \in Attempt : b # a => /\ pc'[b] = pc[b] /\ todo'[b] = todo[b] /\ source'[b] = source[b]
                                       /\ epoch'[b] = epoch[b] /\ weights'[b] = weights[b]
    BY DEF Break, At, CInv, TypeOK
  <1>3. TypeOK'
    BY <1>0, <1>1 DEF CInv, TypeOK
  <1>4. CheckpointsCount'
    BY <1>0 DEF CInv, CheckpointsCount
  <1>5. RunnersCount'
    BY <1>0, <1>2 DEF CInv, RunnersCount
  <1>6. ModelsResume'
    BY <1>0, <1>2 DEF CInv, ModelsResume, Loaded
  <1>7. HeadCounts' /\ SubtasksCount' /\ FullTraining'
    BY <1>0, <1>2, HeadUnmoved
  <1> QED BY <1>3, <1>4, <1>5, <1>6, <1>7 DEF CInv

LEMMA StepKeeps == CInv /\ [Next]_vars => CInv'
  <1> SUFFICES ASSUME CInv, [Next]_vars PROVE CInv'
    OBVIOUS
  <1>1. CASE AssignTask \/ Resume
    BY <1>1, AssignKeeps
  <1>2. CASE Skip
    BY <1>2, SkipKeeps
  <1>3. CASE Success
    BY <1>3, SuccessKeeps
  <1>4. CASE GiveUp \/ Refuse
    BY <1>4, FailureKeeps
  <1>5. CASE \E n \in Epoch : Replan(n)
    BY <1>5, ReplanKeeps
  <1>6. CASE \E a \in Attempt : Load(a) \/ Train(a) \/ Save(a) \/ OpenFinal(a) \/ CloseFinal(a) \/ Break(a)
    BY <1>6, LoadKeeps, TrainKeeps, SaveKeeps, FinalKeeps, BreakKeeps
  <1>7. CASE UNCHANGED vars
    <2>1. cut' \in BOOLEAN
      BY <1>7 DEF vars, CInv, TypeOK
    <2>2. TypeOK'
      BY <1>7, <2>1 DEF vars, CInv, TypeOK
    <2>3. CheckpointsCount' /\ RunnersCount' /\ ModelsResume'
      BY <1>7 DEF vars, CInv, CheckpointsCount, RunnersCount, ModelsResume
    <2>4. HeadCounts' /\ SubtasksCount' /\ FullTraining'
      BY <1>7 DEF vars, CInv, HeadCounts, SubtasksCount, FullTraining
    <2> QED BY <2>2, <2>3, <2>4 DEF CInv
  <1> QED BY <1>1, <1>2, <1>3, <1>4, <1>5, <1>6, <1>7 DEF Next

\* Every variable keeps its type: a task that failed has an epoch left at least
\* (task_executor.py:776-782).
THEOREM TypeCorrect == Spec => []TypeOK
  <1> QED BY InitC, StepKeeps, PTL DEF Spec, CInv

\* Checkpoint n was trained for n epochs at least (gpu_simulator.py:282-292).
THEOREM CheckpointsAreSound == Spec => []CheckpointsCount
  <1> QED BY InitC, StepKeeps, PTL DEF Spec, CInv

\* Results were trained for all their epochs (task_executor.py:170-205, 767-782),
\* but for the cases FullTraining names.
THEOREM NothingLeftOut == Spec => []FullTraining
  <1> QED BY InitC, StepKeeps, PTL DEF Spec, CInv
=============================================================================
