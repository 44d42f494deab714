------------------------------ MODULE ForkJoin ------------------------------
(***************************************************************************)
(* What a split promises, without workers, claims, threads or files: a job *)
(* that is taken is run as a whole or forked into parts. The parts are     *)
(* tried in rounds, of which there are at most MaxRounds, each part at     *)
(* most once a round and never again after it has finished; a round begins *)
(* when the one before has ended. The parts are merged once all of them    *)
(* have finished, and the job is given up only if the rounds are used up   *)
(* or what it did as a whole, or its merge, fails. It then waits again, as *)
(* if it had never been taken. A job that is done stays done.              *)
(***************************************************************************)
EXTENDS Naturals

CONSTANTS
  Job,
  MaxParts,  \* into how many parts a job may be forked
  MaxRounds

VARIABLES
  phase,     \* "waiting", "taken", "forked", "merging", "succeeded", "failed", "done"
  parts,     \* how many parts a job was forked into
  round,     \* how many rounds it has begun
  todo,      \* parts that this round will try
  active,    \* parts that are being tried
  finished   \* parts that have finished

vars == <<phase, parts, round, todo, active, finished>>

Init ==
  /\ phase = [j \in Job |-> "waiting"] /\ parts = [j \in Job |-> 0]
  /\ round = [j \in Job |-> 0] /\ todo = [j \in Job |-> {}]
  /\ active = [j \in Job |-> {}] /\ finished = [j \in Job |-> {}]

Enter(j, p)  == phase' = [phase EXCEPT ![j] = p]
Quiet(j)     == todo[j] = {} /\ active[j] = {}
Complete(j)  == 1..parts[j] \subseteq finished[j]

Take(j) ==
  /\ phase[j] = "waiting" /\ Enter(j, "taken")
  /\ UNCHANGED <<parts, round, todo, active, finished>>

Fork(j, n) ==
  /\ phase[j] = "taken" /\ Enter(j, "forked")
  /\ parts' = [parts EXCEPT ![j] = n]
  /\ UNCHANGED <<round, todo, active, finished>>

BeginRound(j, S) ==
  /\ phase[j] = "forked" /\ Quiet(j) /\ ~Complete(j) /\ round[j] < MaxRounds
  /\ S \subseteq 1..parts[j] \ finished[j]
  /\ round' = [round EXCEPT ![j] = round[j] + 1]
  /\ todo' = [todo EXCEPT ![j] = S]
  /\ UNCHANGED <<phase, parts, active, finished>>

Try(j, k) ==
  /\ phase[j] = "forked" /\ k \in todo[j]
  /\ todo' = [todo EXCEPT ![j] = todo[j] \ {k}]
  /\ active' = [active EXCEPT ![j] = active[j] \cup {k}]
  /\ UNCHANGED <<phase, parts, round, finished>>

\* A part ends, and has finished or not.
EndPart(j, k) ==
  /\ phase[j] = "forked" /\ k \in active[j] \ finished[j]
  /\ active' = [active EXCEPT ![j] = active[j] \ {k}]
  /\ \/ finished' = [finished EXCEPT ![j] = finished[j] \cup {k}]
     \/ UNCHANGED finished
  /\ UNCHANGED <<phase, parts, round, todo>>

Merge(j) ==
  /\ phase[j] = "forked" /\ Quiet(j) /\ Complete(j) /\ Enter(j, "merging")
  /\ UNCHANGED <<parts, round, todo, active, finished>>

Succeed(j) ==
  /\ phase[j] \in {"taken", "merging"} /\ Enter(j, "succeeded")
  /\ UNCHANGED <<parts, round, todo, active, finished>>

Fail(j) ==
  /\ \/ phase[j] \in {"taken", "merging"}
     \/ phase[j] = "forked" /\ Quiet(j) /\ ~Complete(j) /\ round[j] = MaxRounds
  /\ Enter(j, "failed")
  /\ UNCHANGED <<parts, round, todo, active, finished>>

\* The outcome is recorded, and what the attempt has counted is forgotten.
Leave(j) ==
  /\ \/ phase[j] = "succeeded" /\ Enter(j, "done")
     \/ phase[j] = "failed" /\ Enter(j, "waiting")
  /\ parts' = [parts EXCEPT ![j] = 0] /\ round' = [round EXCEPT ![j] = 0]
  /\ finished' = [finished EXCEPT ![j] = {}]
  /\ UNCHANGED <<todo, active>>

Next ==
  \E j \in Job :
    \/ Take(j) \/ (\E n \in 1..MaxParts : Fork(j, n))
    \/ \E S \in SUBSET (1..MaxParts) : BeginRound(j, S)
    \/ \E k \in 1..MaxParts : Try(j, k) \/ EndPart(j, k)
    \/ Merge(j) \/ Succeed(j) \/ Fail(j) \/ Leave(j)

Spec == Init /\ [][Next]_vars
=============================================================================
