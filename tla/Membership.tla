----------------------------- MODULE Membership -----------------------------
(***************************************************************************)
(* Who is a member of the cluster: registration, heartbeats, the verdict   *)
(* that a worker is DEAD, the removal of its container, the departure of a *)
(* worker and the restart of the Head.  Time passes in seconds: a call is  *)
(* made when its timer is zero, and time does not pass while one is due.   *)
(*                                                                         *)
(* What the workers compute is in Dispatch and MapMerge, where a DEAD      *)
(* verdict may come at any moment; here is why and when it comes.          *)
(***************************************************************************)
EXTENDS Integers

CONSTANTS
  Spot,          \* ids of workers that run in containers the Head starts
  OnDemand,      \* worker-1: never found DEAD, its container not the Head's
  Intervals,     \* periods of the heartbeats, one of which the workers have
  Threshold,     \* a worker is DEAD when its heartbeat is older
  Retry,         \* between two attempts to register
  Boot,          \* sleep before the first attempt
  Delay,         \* bound on the time SendHeartbeat spends in Docker's statistics
  MaxAge,        \* bound: heartbeats are told apart up to this age
  MaxBoots,      \* bound: how often the Head stops and starts again
  RemovalFails   \* whether stopping or removing a container may fail

Id == Spot \cup OnDemand

ASSUME MembershipAssumption ==
  /\ Spot \cap OnDemand = {}
  /\ Intervals \subseteq Nat /\ Threshold \in Nat /\ Retry \in Nat \ {0} /\ Boot \in Nat
  /\ Delay \in Nat /\ MaxBoots \in Nat /\ RemovalFails \in BOOLEAN
  /\ MaxAge \in Nat /\ Threshold < MaxAge /\ \A i \in Intervals : i + Delay < MaxAge

VARIABLES
  interval, \* DEFAULT_HEARTBEAT_INTERVAL
  up,       \* whether the Head serves
  boots,    \* how often it has stopped
  members,  \* keys of worker_registry
  age,      \* age of last_heartbeat; 0 of one that is not registered
  phase,    \* the container of a worker and the heartbeat thread in it
  wait,     \* the seconds that thread still sleeps
  pending,  \* the seconds the Head still spends in SendHeartbeat for a worker
  leaving,  \* workers that are ending: DeregisterWorker is done
  doomed,   \* workers found DEAD, whose containers the scheduler removes next
  \* What follows is not in the code.
  stuck     \* containers the Head has failed to remove

headVars   == <<interval, up, boots, doomed, stuck>>
registry   == <<members, age>>
workerVars == <<phase, wait, leaving>>
vars == <<interval, up, boots, members, age, phase, wait, pending, leaving, doomed, stuck>>

Phases == {"none", "exited", "joining", "sleeping", "beating"}
Alive  == {w \in Id : phase[w] \in {"joining", "sleeping", "beating"}}
NoCall == -1

Init ==
  /\ interval \in Intervals /\ up = TRUE /\ boots = 0
  /\ members = {} /\ age = [w \in Id |-> 0]
  /\ phase = [w \in Id |-> IF w \in OnDemand THEN "joining" ELSE "none"]
  /\ wait = [w \in Id |-> IF w \in OnDemand THEN Boot ELSE 0]
  /\ pending = [w \in Id |-> NoCall]
  /\ leaving = {} /\ doomed = {} /\ stuck = {}

(***************************************************************************)
(* Time.                                                                   *)
(***************************************************************************)

Due == {w \in Alive : phase[w] # "beating" /\ wait[w] = 0}
         \cup {w \in Id : pending[w] = 0}

Older(n) == IF n < MaxAge THEN n + 1 ELSE n
Less(n)  == IF n > 0 THEN n - 1 ELSE n

Tick ==
  /\ Due = {}
  /\ age' = [w \in Id |-> IF w \in members THEN Older(age[w]) ELSE 0]
  /\ wait' = [w \in Id |-> Less(wait[w])]
  /\ pending' = [w \in Id |-> Less(pending[w])]
  /\ UNCHANGED <<headVars, members, phase, leaving>>

(***************************************************************************)
(* The heartbeat thread of a worker.                                       *)
(***************************************************************************)

Joining(w)  == w \in Alive /\ phase[w] = "joining"  /\ wait[w] = 0
Sleeping(w) == w \in Alive /\ phase[w] = "sleeping" /\ wait[w] = 0

\* RegisterWorker adds an id that is not there; the first heartbeat follows.
Register(w) ==
  /\ Joining(w) /\ up /\ w \notin members
  /\ members' = members \cup {w} /\ age' = [age EXCEPT ![w] = 0]
  /\ phase' = [phase EXCEPT ![w] = "sleeping"]
  /\ UNCHANGED <<headVars, wait, pending, leaving>>

\* Mutant: a refused worker doubles its pause.
Refused_BackOff(w) ==
  /\ Joining(w) /\ (up => w \in members)
  /\ wait' = [wait EXCEPT ![w] = 2 * Retry]
  /\ UNCHANGED <<headVars, registry, phase, pending, leaving>>

\* A known id is refused and a Head that is down does not answer.
Refused(w) ==
  /\ Joining(w) /\ (up => w \in members)
  /\ wait' = [wait EXCEPT ![w] = Retry]
  /\ UNCHANGED <<headVars, registry, phase, pending, leaving>>

\* SendHeartbeat, up to the statistics of the container.
Beat(w) ==
  /\ Sleeping(w) /\ up /\ pending[w] = NoCall
  /\ \E d \in 0..Delay : pending' = [pending EXCEPT ![w] = d]
  /\ phase' = [phase EXCEPT ![w] = "beating"]
  /\ UNCHANGED <<headVars, registry, wait, leaving>>

\* No Head: the error is printed, and the worker sleeps as after a heartbeat.
BeatLost(w) ==
  /\ Sleeping(w) /\ ~up
  /\ wait' = [wait EXCEPT ![w] = interval]
  /\ UNCHANGED <<headVars, registry, phase, pending, leaving>>

\* A worker that waits for the answer goes to sleep.
Answered(w) ==
  /\ phase' = [phase EXCEPT ![w] = IF @ = "beating" THEN "sleeping" ELSE @]
  /\ wait' = [wait EXCEPT ![w] = IF phase[w] = "beating" THEN interval ELSE @]

\* Mutant: the age is that of the heartbeat before.
Stamp_Late(w) ==
  /\ pending[w] = 0 /\ up
  /\ pending' = [pending EXCEPT ![w] = NoCall]
  /\ Answered(w)
  /\ UNCHANGED <<headVars, registry, leaving>>

\* The rest of SendHeartbeat: a known worker is stamped, an unknown one is
\* acknowledged all the same.  The worker may have ended in the meantime.
Stamp(w) ==
  /\ pending[w] = 0 /\ up
  /\ pending' = [pending EXCEPT ![w] = NoCall]
  /\ age' = IF w \in members THEN [age EXCEPT ![w] = 0] ELSE age
  /\ Answered(w)
  /\ UNCHANGED <<headVars, members, leaving>>

(***************************************************************************)
(* Workers come and go.                                                    *)
(***************************************************************************)

\* The worker is gone; a container that is removed leaves its name free.
EndOf(ws, p) ==
  /\ phase' = [w \in Id |-> IF w \in ws THEN p ELSE phase[w]]
  /\ wait' = [w \in Id |-> IF w \in ws THEN 0 ELSE wait[w]]
  /\ leaving' = leaving \ ws

\* scale_out_worker takes an id with neither an entry nor a container. Bound: not
\* while a heartbeat of its former worker is still with Docker's statistics.
Launch(w) ==
  /\ up /\ doomed = {} /\ w \in Spot \ members
  /\ phase[w] = "none" /\ pending[w] = NoCall
  /\ phase' = [phase EXCEPT ![w] = "joining"]
  /\ wait' = [wait EXCEPT ![w] = Boot] /\ stuck' = stuck \ {w}
  /\ UNCHANGED <<interval, up, boots, doomed, registry, pending, leaving>>

\* The process ends without a word: killed, out of memory, SIGTERM.
Crash(w) ==
  /\ w \in Alive
  /\ EndOf({w}, "exited")
  /\ UNCHANGED <<headVars, registry, pending>>

\* The container of worker-1 is started again, under its id.
Restart(w) ==
  /\ w \in OnDemand /\ phase[w] = "exited" /\ pending[w] = NoCall
  /\ phase' = [phase EXCEPT ![w] = "joining"]
  /\ wait' = [wait EXCEPT ![w] = Boot]
  /\ UNCHANGED <<headVars, registry, pending, leaving>>

\* KeyboardInterrupt: the heartbeat thread is still there while the worker
\* says goodbye, to a Head that may be down.
Leave(w) ==
  /\ w \in Alive \ leaving
  /\ leaving' = leaving \cup {w}
  /\ members' = IF up THEN members \ {w} ELSE members
  /\ age' = IF up THEN [age EXCEPT ![w] = 0] ELSE age
  /\ UNCHANGED <<headVars, phase, wait, pending>>

Exit(w) ==
  /\ w \in leaving
  /\ EndOf({w}, "exited")
  /\ UNCHANGED <<headVars, registry, pending>>

(***************************************************************************)
(* The scheduler and the Head's process.                                   *)
(***************************************************************************)

\* Of those that should go, those that do.
Removed(ws) == IF RemovalFails THEN SUBSET ws ELSE {ws}
Containers  == {w \in Spot : phase[w] # "none"}

Dead == {w \in members \cap Spot : age[w] > Threshold}

\* Mutant: DEAD workers stay in the registry.
Check_Kept ==
  /\ up /\ doomed = {} /\ Dead # {}
  /\ doomed' = Dead
  /\ UNCHANGED <<interval, up, boots, stuck, registry, workerVars, pending>>

\* check_and_cleanup_dead_workers under registry_lock.
Check ==
  /\ up /\ doomed = {} /\ Dead # {}
  /\ members' = members \ Dead
  /\ age' = [w \in Id |-> IF w \in Dead THEN 0 ELSE age[w]]
  /\ doomed' = Dead
  /\ UNCHANGED <<interval, up, boots, stuck, workerVars, pending>>

\* Its end: the containers are stopped and removed.
Reap ==
  /\ doomed # {}
  /\ \E gone \in Removed(doomed) : EndOf(gone, "none") /\ stuck' = stuck \cup (doomed \ gone)
  /\ doomed' = {}
  /\ UNCHANGED <<interval, up, boots, registry, pending>>

\* The Head stops: its registry is gone, calls to it end with an error, and
\* unless it was killed it has removed the spot containers.
HeadStop ==
  /\ up /\ boots < MaxBoots
  /\ up' = FALSE /\ boots' = boots + 1
  /\ members' = {} /\ age' = [w \in Id |-> 0] /\ doomed' = {}
  /\ pending' = [w \in Id |-> NoCall]
  /\ \E gone \in {{}} \cup Removed(Containers) :
       /\ phase' = [w \in Id |-> IF w \in gone THEN "none"
                                 ELSE IF phase[w] = "beating" THEN "sleeping" ELSE phase[w]]
       /\ wait' = [w \in Id |-> IF w \in gone THEN 0
                                ELSE IF phase[w] = "beating" THEN interval ELSE wait[w]]
       /\ leaving' = leaving \ gone
  /\ UNCHANGED <<interval, stuck>>

\* Mutant: serve does not remove the containers of its predecessor.
HeadBoot_NoCleanup ==
  /\ ~up /\ up' = TRUE
  /\ UNCHANGED <<interval, boots, doomed, stuck, registry, workerVars, pending>>

\* serve: cleanup_zombie_containers, then the Head answers.
HeadBoot ==
  /\ ~up /\ up' = TRUE
  /\ \E gone \in Removed(Containers) :
       EndOf(gone, "none") /\ stuck' = stuck \cup (Containers \ gone)
  /\ UNCHANGED <<interval, boots, doomed, registry, pending>>

Heartbeat(w) ==
  Register(w) \/ Refused(w) \/ Beat(w) \/ BeatLost(w) \/ Stamp(w)

Next ==
  \/ Tick \/ Check \/ Reap \/ HeadStop \/ HeadBoot
  \/ \E w \in Id : Heartbeat(w) \/ Launch(w) \/ Crash(w) \/ Restart(w)
                     \/ Leave(w) \/ Exit(w)

Spec == Init /\ [][Next]_vars

\* Time passes, threads that are due run, the scheduler checks every second,
\* and a Head that has stopped is started again.
FairSpec ==
  /\ Spec
  /\ WF_vars(Tick) /\ WF_vars(Check) /\ WF_vars(Reap) /\ WF_vars(HeadBoot)
  /\ \A w \in Id : WF_vars(Heartbeat(w)) /\ WF_vars(Exit(w))

(***************************************************************************)
(* Properties.                                                             *)
(***************************************************************************)

\* The types of the variables.
TypeOK ==
  /\ interval \in Intervals /\ up \in BOOLEAN /\ boots \in 0..MaxBoots
  /\ members \subseteq Id /\ age \in [Id -> 0..MaxAge]
  /\ phase \in [Id -> Phases] /\ wait \in [Id -> Nat]
  /\ \A w \in Id : wait[w] <= interval \/ wait[w] <= Retry \/ wait[w] <= Boot
  /\ pending \in [Id -> (0..Delay) \cup {NoCall}]
  /\ leaving \subseteq Id /\ doomed \subseteq Spot /\ stuck \subseteq Spot

\* What is left of a sleep or a call bounds how old the last heartbeat of a member may
\* be, however often workers and Head come and go: a registered spot worker that runs
\* was heard of within one period and one look at Docker's statistics. With the 5 s
\* of common/config.py that is more than the threshold of 3 s (scheduler_daemon.py
\* 94), so a worker that runs may well be found DEAD.
MembershipInv ==
  /\ TypeOK
  /\ ~up => members = {}
  /\ \A w \in Id : phase[w] = "beating" => pending[w] # NoCall
  /\ \A w \in Spot : phase[w] \in {"joining", "sleeping"} => pending[w] = NoCall
  /\ \A w \in Spot \cap members :
       /\ phase[w] # "joining"
       /\ phase[w] = "sleeping" => age[w] + wait[w] <= interval
       /\ phase[w] = "beating"  => age[w] + pending[w] <= interval + Delay

\* The entry of a spot worker that has ended does not stay in the registry, even
\* when its last heartbeat is stamped after its end.
StaleEntriesGo ==
  \A w \in Spot : (w \in members /\ w \notin Alive) ~> (w \notin members \/ w \in Alive)

\* A spot worker that runs and is not registered, be it new, found DEAD, or left
\* over from an earlier Head, is registered at last or its process ends, unless
\* the Head failed to remove its container (scheduler_daemon.py:162).
SpotsReturn ==
  \A w \in Spot :
    (w \in Alive \ members) ~> (w \in members \/ w \notin Alive \/ w \in stuck)
=============================================================================
