------------------------------- MODULE Leases -------------------------------
(***************************************************************************)
(* What the dispatcher promises, without queues, threads or containers: a  *)
(* task that was submitted waits, or is leased to exactly one worker, or   *)
(* is done; a worker holds one lease at a time; a lease ends with the task *)
(* done or waiting again, and done is final.                               *)
(***************************************************************************)
CONSTANTS Task, Worker, NoTask

VARIABLES
  waiting,  \* tasks that no worker holds
  lease,    \* the task each worker holds, or NoTask
  done      \* tasks completed

vars == <<waiting, lease, done>>

Submitted == waiting \cup done \cup {lease[w] : w \in Worker}

Init ==
  /\ waiting = {} /\ done = {}
  /\ lease = [w \in Worker |-> NoTask]

Submit(S) ==
  /\ S \subseteq Task \ Submitted
  /\ waiting' = waiting \cup S
  /\ UNCHANGED <<lease, done>>

Acquire(t, w) ==
  /\ t \in waiting /\ lease[w] = NoTask
  /\ waiting' = waiting \ {t}
  /\ lease' = [lease EXCEPT ![w] = t]
  /\ UNCHANGED done

Complete(w) ==
  /\ lease[w] # NoTask
  /\ done' = done \cup {lease[w]}
  /\ lease' = [lease EXCEPT ![w] = NoTask]
  /\ UNCHANGED waiting

GiveBack(w) ==
  /\ lease[w] # NoTask
  /\ waiting' = waiting \cup {lease[w]}
  /\ lease' = [lease EXCEPT ![w] = NoTask]
  /\ UNCHANGED done

Next ==
  \/ \E S \in SUBSET Task : Submit(S)
  \/ \E t \in Task, w \in Worker : Acquire(t, w)
  \/ \E w \in Worker : Complete(w) \/ GiveBack(w)

Spec == Init /\ [][Next]_vars
=============================================================================
