----------------------------- MODULE Autoscale -----------------------------
(***************************************************************************)
(* How many spot containers run: the scheduler thread counts what Docker   *)
(* runs, starts containers for a long queue, one for the subtasks of a     *)
(* dead worker, and stops one when nothing is to be done. Docker, the      *)
(* workers and the eviction thread change what was counted.                *)
(*                                                                         *)
(* Tasks are seen only through the length of the queue, which is whatever  *)
(* Dispatch makes it, and the status of the registered workers.            *)
(***************************************************************************)
EXTENDS Integers, FiniteSets

CONSTANTS
  Modes,        \* SCHEDULER_MODE, one of which the Head is started with
  Names,        \* <<type, index>> of the containers that may exist
  MaxScale,     \* MAX_SPOT_SCALE
  Patience,     \* seconds without load before a worker is stopped (3)
  DockerFails,  \* whether containers.list may fail
  Sticky,       \* containers that Docker may fail to stop
  NoName        \* no container

ASSUME AutoscaleAssumption ==
  /\ Modes \subseteq {"static", "dynamic", "q_learning"}
  /\ Names \subseteq {"spot_a", "spot_b"} \X (Nat \ {0}) /\ IsFiniteSet(Names)
  /\ MaxScale \in Nat \ {0} /\ Patience \in Nat \ {0}
  /\ DockerFails \in BOOLEAN /\ Sticky \subseteq Names /\ NoName \notin Names

\* Length of the queue: empty, below the threshold for one more worker, above
\* it, above the threshold for two (4 and 8, 3 and 8, or 1 and 6).
Length == 0..3
Box == {"none", "created", "running", "stopping", "exited"}
Label == {"tick", "replace", "reap", "out", "launch", "in",
          "choose", "stop", "drop", "return"}

VARIABLES
  mode,    \* SCHEDULER_MODE
  box,     \* container of each name: "stopping" is one the eviction thread is to stop
  entry,   \* status in worker_registry, "absent" if there is no entry
  spc,     \* where the scheduler thread is,
  reaping, \* its dead_workers,
  scale,   \* its spot_scale,
  timer,   \* scale_in_timer or empty_queue_duration, up to Patience,
  quiet,   \* whether it has seen no load,
  order,   \* type and number of the containers it is about to start,
  victim,  \* and its target_worker_id
  \* What follows is not in the code.
  low,     \* spot_scale is a count of the registry, or was lowered for a container
           \* that had already ended
  extra,   \* containers started as a replacement, or on a count that was low
  leaked   \* containers the Head has failed to stop

roundVars == <<reaping, scale, timer, quiet, order, victim, low>>
vars == <<mode, box, entry, spc, reaping, scale, timer, quiet, order,
          victim, low, extra, leaked>>

Running == {s \in Names : box[s] \in {"created", "running", "stopping"}}
Known   == {s \in Names : entry[s] # "absent"}
Type(t) == {s \in Names : s[1] = t}
NoOrder == [type |-> "spot_a", n |-> 0]

Init ==
  /\ mode \in Modes
  /\ box = [s \in Names |-> "none"] /\ entry = [s \in Names |-> "absent"]
  /\ spc = "tick" /\ reaping = {} /\ scale = 0 /\ timer = 0
  /\ quiet = FALSE /\ order = NoOrder /\ victim = NoName
  /\ low = FALSE /\ extra = {} /\ leaked = {}

(***************************************************************************)
(* Docker.                                                                 *)
(***************************************************************************)

\* The lowest index that neither the registry nor Docker knows.
Free(s) ==
  /\ box[s] = "none" /\ entry[s] = "absent"
  /\ \A r \in Type(s[1]) : r[2] < s[2] => box[r] # "none" \/ entry[r] # "absent"

\* scale_out_worker succeeds. It may always be refused instead: no capacity, too
\* little memory, or an error of Docker.
Run(s) == Free(s) /\ box' = [box EXCEPT ![s] = "created"]

Gone(s) ==
  /\ box' = [box EXCEPT ![s] = "none"]
  /\ extra' = extra \ {s} /\ leaked' = leaked \ {s}

\* container.stop and remove, which may fail for a container that runs on.
Remove(s) ==
  \/ Gone(s)
  \/ s \in Sticky \cap Running /\ leaked' = leaked \cup {s} /\ UNCHANGED <<box, extra>>

(***************************************************************************)
(* A round of the scheduler thread.                                        *)
(***************************************************************************)

\* check_and_cleanup_dead_workers: the entries of the workers found DEAD go. If
\* a subtask ran on one of them, it is queued and a replacement is asked for.
CollectDead(dead) ==
  /\ spc = "tick" /\ dead \subseteq Known
  /\ entry' = [s \in Names |-> IF s \in dead THEN "absent" ELSE entry[s]]
  /\ reaping' = dead
  /\ \/ spc' = "reap"
     \/ dead # {} /\ spc' = "replace"
  /\ UNCHANGED <<mode, box, scale, timer, quiet, order, victim, low, extra,
                 leaked>>

\* scale_out_worker("spot_a"), whatever the scale.
Replace ==
  /\ spc = "replace" /\ spc' = "reap"
  /\ \/ \E s \in Type("spot_a") : Run(s) /\ extra' = extra \cup {s}
     \/ UNCHANGED <<box, extra>>
  /\ UNCHANGED <<mode, entry, roundVars, leaked>>

Reap(s) ==
  /\ spc = "reap" /\ s \in reaping /\ reaping' = reaping \ {s} /\ Remove(s)
  /\ UNCHANGED <<mode, entry, spc, scale, timer, quiet, order, victim, low>>

\* get_current_spot_scale.
Count ==
  /\ spc = "reap" /\ reaping = {}
  /\ \/ low' = FALSE /\ scale' = Cardinality(Running)
     \/ DockerFails /\ low' = TRUE /\ scale' = Cardinality(Known)
  /\ spc' = (IF mode = "q_learning" THEN "in" ELSE "out")
  /\ UNCHANGED <<mode, box, entry, reaping, timer, quiet, order, victim, extra, leaked>>

Goto(label) == spc' = label /\ UNCHANGED order

\* What follows a start of containers: Q-learning has already looked for
\* workers to stop, the others look now.
Rest == IF mode = "q_learning" THEN "return" ELSE "in"

Order(t, n) == spc' = "launch" /\ order' = [type |-> t, n |-> n]

\* The type: static has one, dynamic takes it from loads and models, the agent
\* learns it, but may not choose the expensive one when the budget is spent.
Types(broke) ==
  CASE mode = "static"     -> {"spot_a"}
    [] mode = "dynamic"    -> {"spot_a", "spot_b"}
    [] mode = "q_learning" -> {"spot_b"} \cup (IF broke THEN {} ELSE {"spot_a"})

RoomForTwo(queue) == queue = 3 /\ scale < MaxScale - 1

\* Two for a very long queue if there is room for two.
OutTwo(queue) ==
  /\ RoomForTwo(queue) /\ quiet' = FALSE
  /\ \E broke \in BOOLEAN : \E t \in Types(broke) : Order(t, 2)

\* Else one if there is room: for a long queue, or for high loads in the dynamic
\* mode, or if the agent chooses to.
OutOne(queue) ==
  /\ ~RoomForTwo(queue) /\ scale < MaxScale /\ quiet' = FALSE
  /\ queue > 1 \/ mode = "dynamic" \/ (mode = "q_learning" /\ queue > 0)
  /\ \E broke \in BOOLEAN : \E t \in Types(broke) : Order(t, 1)

\* Else none. An empty queue, in the dynamic mode with low loads, is seen here.
OutNone(queue) ==
  /\ mode = "q_learning" \/ scale >= MaxScale \/ queue < 2
  /\ quiet' \in IF mode = "dynamic" THEN {FALSE, queue = 0} ELSE {queue = 0}
  /\ Goto(Rest)

\* Mutant: two containers are started when there is room for one.
ScaleOut_NoRoom ==
  /\ spc = "out"
  /\ \/ scale < MaxScale /\ quiet' = FALSE /\ \E t \in Types(FALSE) : Order(t, 2)
     \/ \E queue \in Length : OutOne(queue) \/ OutNone(queue)
  /\ UNCHANGED <<mode, box, entry, reaping, scale, timer, victim, low, extra, leaked>>

ScaleOut ==
  /\ spc = "out"
  /\ \E queue \in Length : OutTwo(queue) \/ OutOne(queue) \/ OutNone(queue)
  /\ UNCHANGED <<mode, box, entry, reaping, scale, timer, victim, low, extra, leaked>>

Launch ==
  /\ spc = "launch"
  /\ \/ /\ \E s \in Type(order.type) :
             Run(s) /\ extra' = IF low THEN extra \cup {s} ELSE extra
        /\ scale' = scale + 1
     \/ UNCHANGED <<box, scale, extra>>
  /\ IF order.n > 1 THEN Order(order.type, order.n - 1)
                    ELSE spc' = Rest /\ order' = NoOrder
  /\ UNCHANGED <<mode, entry, reaping, timer, quiet, victim, low, leaked>>

\* Where a round goes after the look for workers to stop.
Onward == IF mode = "q_learning" THEN "out" ELSE "return"

\* No load: for Q-learning, some spot worker is IDLE.
NoLoad == IF mode = "q_learning" THEN \E s \in Names : entry[s] = "idle" ELSE quiet

\* Spot-A workers are to be stopped first.
Victims == IF mode = "static" \/ Type("spot_a") \cap Known # {} THEN "spot_a" ELSE "spot_b"

\* The timer runs while there is no load, and starts again at 0.
Tock == timer' = IF ~NoLoad THEN 0 ELSE IF timer < Patience THEN timer + 1 ELSE timer

\* Mutant: the last worker is kept.
ScaleIn_KeepsOne ==
  /\ spc = "in" /\ Tock
  /\ IF NoLoad /\ timer' = Patience /\ scale > 1
       THEN spc' = "choose" /\ order' = [type |-> Victims, n |-> 0]
       ELSE Goto(Onward)
  /\ UNCHANGED <<mode, box, entry, reaping, scale, quiet, victim, low, extra, leaked>>

ScaleIn ==
  /\ spc = "in" /\ Tock
  /\ IF NoLoad /\ timer' = Patience /\ scale > 0
       THEN spc' = "choose" /\ order' = [type |-> Victims, n |-> 0]
       ELSE Goto(Onward)
  /\ UNCHANGED <<mode, box, entry, reaping, scale, quiet, victim, low, extra, leaked>>

\* scale_in_specific_worker takes an IDLE worker of the type, if there is one.
Choose ==
  /\ spc = "choose" /\ order' = NoOrder
  /\ LET idle == {s \in Type(order.type) : entry[s] = "idle"}
     IN  IF idle = {} THEN spc' = Onward /\ UNCHANGED victim
                      ELSE spc' = "stop" /\ victim' \in idle
  /\ UNCHANGED <<mode, box, entry, reaping, scale, timer, quiet, low, extra, leaked>>

Stop ==
  /\ spc = "stop" /\ Goto("drop") /\ Remove(victim)
  /\ low' = (low \/ victim \notin Running)
  /\ UNCHANGED <<mode, entry, reaping, scale, timer, quiet, victim>>

\* Mutant: the worker is taken off the count twice.
Drop_Twice ==
  /\ spc = "drop" /\ Goto(Onward)
  /\ entry' = [entry EXCEPT ![victim] = "absent"]
  /\ scale' = scale - 2 /\ timer' = 0 /\ victim' = NoName
  /\ UNCHANGED <<mode, box, reaping, quiet, low, extra, leaked>>

\* The entry goes and the count is lowered, also if the container runs on.
Drop ==
  /\ spc = "drop" /\ Goto(Onward)
  /\ entry' = [entry EXCEPT ![victim] = "absent"]
  /\ scale' = scale - 1 /\ timer' = 0 /\ victim' = NoName
  /\ UNCHANGED <<mode, box, reaping, quiet, low, extra, leaked>>

\* The scheduler's step returns: what it has counted and seen is forgotten.
Return ==
  /\ spc = "return" /\ Goto("tick")
  /\ scale' = 0 /\ quiet' = FALSE /\ low' = FALSE
  /\ UNCHANGED <<mode, box, entry, reaping, timer, victim, extra, leaked>>

(***************************************************************************)
(* The other threads and the workers.                                      *)
(***************************************************************************)

Register(s) ==
  /\ box[s] = "created" /\ box' = [box EXCEPT ![s] = "running"]
  /\ entry' = [entry EXCEPT ![s] = "idle"]
  /\ UNCHANGED <<mode, spc, roundVars, extra, leaked>>

\* A worker's process ends, registered or not, with or without leaving the
\* registry first; the container stays.
Exit(s) ==
  /\ box[s] \in {"created", "running"} /\ box' = [box EXCEPT ![s] = "exited"]
  /\ entry' \in {entry, [entry EXCEPT ![s] = "absent"]}
  /\ extra' = extra \ {s} /\ leaked' = leaked \ {s}
  /\ UNCHANGED <<mode, spc, roundVars>>

\* The scheduler or a map-merge claims a worker.
Claim(s) ==
  /\ entry[s] = "idle" /\ entry' = [entry EXCEPT ![s] = "busy"]
  /\ UNCHANGED <<mode, box, spc, roundVars, extra, leaked>>

Release(s) ==
  /\ entry[s] = "busy" /\ entry' = [entry EXCEPT ![s] = "idle"]
  /\ UNCHANGED <<mode, box, spc, roundVars, extra, leaked>>

\* The eviction thread: first the entry, then the container. One that has ended
\* by itself is taken away in the same step.
EvictDrop(s) ==
  /\ entry[s] # "absent" /\ entry' = [entry EXCEPT ![s] = "absent"]
  /\ box' = [box EXCEPT ![s] = IF @ = "running" THEN "stopping" ELSE "none"]
  /\ UNCHANGED <<mode, spc, roundVars, extra, leaked>>

EvictStop(s) ==
  /\ box[s] = "stopping"
  /\ \/ Gone(s)
     \/ /\ s \in Sticky /\ leaked' = leaked \cup {s} /\ UNCHANGED extra
        /\ box' = [box EXCEPT ![s] = "running"]
  /\ UNCHANGED <<mode, entry, spc, roundVars>>

SchedulerStep ==
  \/ \E dead \in SUBSET Known : CollectDead(dead)
  \/ Replace \/ (\E s \in Names : Reap(s)) \/ Count
  \/ ScaleOut \/ Launch \/ ScaleIn \/ Choose \/ Stop \/ Drop \/ Return

Next ==
  \/ SchedulerStep
  \/ \E s \in Names :
       \/ Register(s) \/ Exit(s) \/ Claim(s) \/ Release(s)
       \/ EvictDrop(s) \/ EvictStop(s)

Spec == Init /\ [][Next]_vars

(***************************************************************************)
(* Fairness. The scheduler thread and the eviction thread run, workers get *)
(* registered, and those that have ended are found DEAD by some round.     *)
(* Tasks come to an end, which is what Dispatch promises, and loads fall   *)
(* with them: then no more containers are started.                         *)
(***************************************************************************)

Ended == {s \in Known : box[s] = "exited"}

Fairness ==
  /\ WF_vars(SchedulerStep)
  /\ WF_vars(\E s \in Names : Register(s)) /\ WF_vars(\E s \in Names : EvictStop(s))
  /\ SF_vars(Ended # {} /\ CollectDead(Ended))

Calm ==
  /\ <>[](\A s \in Names : entry[s] # "busy")
  /\ <>[][~Replace /\ (ScaleOut => spc' = Rest /\ quiet')]_vars

FairSpec == Spec /\ Fairness /\ Calm

(***************************************************************************)
(* Properties.                                                             *)
(***************************************************************************)

\* The types of the variables. The count is never negative, although scale-ins
\* lower it without looking.
TypeOK ==
  /\ mode \in Modes /\ box \in [Names -> Box]
  /\ entry \in [Names -> {"absent", "idle", "busy"}]
  /\ spc \in Label
  /\ reaping \subseteq Names /\ scale \in Nat /\ timer \in 0..Patience
  /\ quiet \in BOOLEAN /\ order \in [type : {"spot_a", "spot_b"}, n : 0..2]
  /\ victim \in Names \cup {NoName} /\ low \in BOOLEAN
  /\ extra \subseteq Names /\ leaked \subseteq Names

\* get_current_spot_scale and the guards of the three modes keep the number of
\* spot containers within MAX_SPOT_SCALE, two at a time, refusals, crashes and
\* evictions in between included. Not counted are replacements of dead workers, containers
\* the Head failed to stop, and those started while its count was too low.
ScaleLimit == Cardinality(Running \ (extra \cup leaked)) <= MaxScale

\* patch_notes.md:276: without load all spot workers are stopped, the last one too.
\* A container the Head has failed to stop once runs on.
ScalesToZero == <>[](Running \subseteq leaked)
=============================================================================
