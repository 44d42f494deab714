-------------------------- MODULE Membership_proofs --------------------------
(***************************************************************************)
(* The inductive invariant of Membership, and how old the last heartbeat   *)
(* of a running worker may be.                                             *)
(***************************************************************************)
EXTENDS Membership, TLAPS

\* What the threads of the workers keep, action by action: an Alive spot worker
\* that is registered has its last heartbeat within what it sleeps and calls.
LEMMA InitInv == Init => MembershipInv
  <1> USE MembershipAssumption
  <1> SUFFICES ASSUME Init PROVE MembershipInv
    OBVIOUS
  <1>1. TypeOK
    <2>1. phase \in [Id -> Phases] /\ wait \in [Id -> Nat]
      BY DEF Init, Phases
    <2>2. \A w \in Id : wait[w] <= interval \/ wait[w] <= Retry \/ wait[w] <= Boot
      BY DEF Init
    <2>3. age \in [Id -> 0..MaxAge] /\ pending \in [Id -> (0..Delay) \cup {NoCall}]
      BY DEF Init
    <2> QED BY <2>1, <2>2, <2>3 DEF Init, TypeOK
  <1>2. \A w \in Id : phase[w] # "beating" /\ pending[w] = NoCall
    BY DEF Init
  <1>3. members = {} /\ Spot \subseteq Id
    BY DEF Init, Id
  <1> QED BY <1>1, <1>2, <1>3 DEF MembershipInv

\* The passage of a second: what an age gains, a timer loses.
LEMMA TickInv == MembershipInv /\ Tick => MembershipInv'
  <1> USE MembershipAssumption
  <1> SUFFICES ASSUME MembershipInv, Tick PROVE MembershipInv'
    OBVIOUS
  <1>1. TypeOK'
    BY DEF MembershipInv, TypeOK, Tick, Older, Less, NoCall, headVars
  <1>2. \A w \in Id : pending[w] # 0
    BY DEF Tick, Due
  <1>3. \A w \in Id : phase[w] = "sleeping" => wait[w] # 0
    BY DEF Tick, Due, Alive
  <1>0. interval \in Nat /\ interval' = interval
    BY DEF MembershipInv, TypeOK, Tick, headVars
  <1>4. ASSUME NEW w \in Spot \cap members, phase[w] = "sleeping"
        PROVE  age'[w] + wait'[w] <= interval
    <2>1. wait[w] \in Nat /\ wait[w] > 0 /\ age[w] \in Nat
      BY <1>3, <1>4 DEF MembershipInv, TypeOK, Id
    <2>2. wait'[w] = wait[w] - 1 /\ age'[w] <= age[w] + 1 /\ age'[w] \in Nat
      BY <2>1, <1>4 DEF Tick, Older, Less, Id
    <2> QED BY <2>1, <2>2, <1>0, <1>4 DEF MembershipInv
  <1>5. ASSUME NEW w \in Spot \cap members, phase[w] = "beating"
        PROVE  age'[w] + pending'[w] <= interval + Delay
    <2>1. pending[w] \in Nat /\ pending[w] > 0 /\ age[w] \in Nat
      BY <1>2, <1>5 DEF MembershipInv, TypeOK, Id, NoCall
    <2>2. pending'[w] = pending[w] - 1 /\ age'[w] <= age[w] + 1 /\ age'[w] \in Nat
      BY <2>1, <1>5 DEF Tick, Older, Less, Id
    <2> QED BY <2>1, <2>2, <1>0, <1>5 DEF MembershipInv
  <1>6. \A w \in Id : pending[w] # NoCall => pending'[w] # NoCall
    BY <1>2 DEF Tick, Less, NoCall, MembershipInv, TypeOK
  <1>7. \A w \in Id : pending[w] = NoCall => pending'[w] = NoCall
    BY DEF Tick, Less, NoCall
  <1> QED BY <1>1, <1>4, <1>5, <1>6, <1>7 DEF MembershipInv, Tick, headVars, Id

\* The calls of a worker's heartbeat thread.
LEMMA HeartbeatInv ==
  ASSUME MembershipInv, NEW w \in Id, Heartbeat(w) PROVE MembershipInv'
  <1> USE MembershipAssumption
  <1>1. CASE Register(w)
    <2>1. TypeOK'
      BY <1>1 DEF MembershipInv, TypeOK, Register, headVars, Phases
    <2> QED BY <1>1, <2>1
         DEF MembershipInv, TypeOK, Register, Joining, headVars, Id, NoCall
  <1>2. CASE Refused(w)
    <2>1. TypeOK'
      BY <1>2 DEF MembershipInv, TypeOK, Refused, headVars, registry
    <2> QED BY <1>2, <2>1
         DEF MembershipInv, TypeOK, Refused, Joining, headVars, registry, Id
  <1>3. CASE Beat(w)
    <2>1. TypeOK'
      BY <1>3 DEF MembershipInv, TypeOK, Beat, headVars, registry, Phases, NoCall
    <2>2. PICK d \in 0..Delay : pending' = [pending EXCEPT ![w] = d]
      BY <1>3 DEF Beat
    <2>3. w \in Spot \cap members => age[w] <= interval
      BY <1>3 DEF MembershipInv, TypeOK, Beat, Sleeping, Id
    <2> QED BY <1>3, <2>1, <2>2, <2>3
         DEF MembershipInv, TypeOK, Beat, Sleeping, headVars, registry, Id, NoCall
  <1>4. CASE BeatLost(w)
    <2>1. TypeOK'
      BY <1>4 DEF MembershipInv, TypeOK, BeatLost, headVars, registry
    <2> QED BY <1>4, <2>1 DEF MembershipInv, TypeOK, BeatLost, headVars, registry, Id
  <1>5. CASE Stamp(w)
    <2>1. TypeOK'
      BY <1>5 DEF MembershipInv, TypeOK, Stamp, Answered, headVars, Phases, NoCall
    <2>2. \A x \in Id : x # w =>
            phase'[x] = phase[x] /\ wait'[x] = wait[x] /\ age'[x] = age[x]
              /\ pending'[x] = pending[x]
      BY <1>5 DEF MembershipInv, TypeOK, Stamp, Answered
    <2>3. phase'[w] # "beating" /\ pending'[w] = NoCall
      BY <1>5 DEF MembershipInv, TypeOK, Stamp, Answered
    <2>4. w \in Spot \cap members' =>
            phase'[w] # "joining" /\ (phase'[w] = "sleeping" => age'[w] + wait'[w] <= interval)
      BY <1>5 DEF MembershipInv, TypeOK, Stamp, Answered, NoCall, Id
    <2> QED BY <1>5, <2>1, <2>2, <2>3, <2>4 DEF MembershipInv, Stamp, headVars, Id
  <1> QED BY <1>1, <1>2, <1>3, <1>4, <1>5 DEF Heartbeat

\* An action that only ends workers or empties the registry keeps the invariant.
LEMMA EndInv ==
  ASSUME MembershipInv, NEW ws, NEW p \in {"none", "exited"}, EndOf(ws, p),
         UNCHANGED <<interval, up, boots, members, age, pending>>,
         doomed' \subseteq Spot, stuck' \subseteq Spot
  PROVE  MembershipInv'
  <1> USE MembershipAssumption
  <1>1. TypeOK'
    BY DEF MembershipInv, TypeOK, EndOf, Phases
  <1>2. \A w \in Id : phase'[w] # phase[w] => phase'[w] \in {"none", "exited"}
    BY DEF EndOf
  <1>3. \A w \in Id : phase'[w] \notin {"none", "exited"} => wait'[w] = wait[w]
    BY DEF EndOf
  <1> QED BY <1>1, <1>2, <1>3 DEF MembershipInv, Id

\* Workers that start, crash, start again and leave.
LEMMA LifeInv ==
  ASSUME MembershipInv, NEW w \in Id,
         Launch(w) \/ Crash(w) \/ Restart(w) \/ Leave(w) \/ Exit(w)
  PROVE  MembershipInv'
  <1> USE MembershipAssumption
  <1>1. CASE Launch(w)
    <2>1. TypeOK'
      BY <1>1 DEF MembershipInv, TypeOK, Launch, headVars, registry, Phases
    <2> QED BY <1>1, <2>1
         DEF MembershipInv, TypeOK, Launch, headVars, registry, Id
  <1>2. CASE Crash(w)
    BY <1>2, EndInv DEF Crash, headVars, registry, MembershipInv, TypeOK
  <1>3. CASE Restart(w)
    <2>1. TypeOK'
      BY <1>3 DEF MembershipInv, TypeOK, Restart, headVars, registry, Phases
    <2> QED BY <1>3, <2>1
         DEF MembershipInv, TypeOK, Restart, headVars, registry, Id
  <1>4. CASE Leave(w)
    <2>1. TypeOK'
      BY <1>4 DEF MembershipInv, TypeOK, Leave, headVars
    <2> QED BY <1>4, <2>1 DEF MembershipInv, TypeOK, Leave, headVars, Id
  <1>5. CASE Exit(w)
    BY <1>5, EndInv DEF Exit, headVars, registry, MembershipInv, TypeOK
  <1> QED BY <1>1, <1>2, <1>3, <1>4, <1>5

\* The scheduler's check and the Head's own life.
LEMMA HeadInv ==
  ASSUME MembershipInv, Check \/ Reap \/ HeadStop \/ HeadBoot PROVE MembershipInv'
  <1> USE MembershipAssumption
  <1>1. CASE Check
    <2>1. TypeOK'
      BY <1>1 DEF MembershipInv, TypeOK, Check, Dead, workerVars
    <2> QED BY <1>1, <2>1 DEF MembershipInv, TypeOK, Check, Dead, workerVars, Id
  <1>2. CASE Reap
    <2>1. PICK gone : EndOf(gone, "none")
      BY <1>2 DEF Reap
    <2>2. doomed' \subseteq Spot /\ stuck' \subseteq Spot
      BY <1>2 DEF Reap, MembershipInv, TypeOK
    <2> QED BY <1>2, <2>1, <2>2, EndInv DEF Reap, registry
  <1>3. CASE HeadStop
    <2>1. PICK gone :
            /\ phase' = [w \in Id |-> IF w \in gone THEN "none"
                           ELSE IF phase[w] = "beating" THEN "sleeping" ELSE phase[w]]
            /\ wait' = [w \in Id |-> IF w \in gone THEN 0
                           ELSE IF phase[w] = "beating" THEN interval ELSE wait[w]]
            /\ leaving' = leaving \ gone
      BY <1>3 DEF HeadStop
    <2>2. phase' \in [Id -> Phases] /\ \A w \in Id : phase'[w] # "beating"
      BY <2>1 DEF MembershipInv, TypeOK, Phases
    <2>3. wait' \in [Id -> Nat]
          /\ \A w \in Id : wait'[w] <= interval \/ wait'[w] <= Retry \/ wait'[w] <= Boot
      BY <2>1 DEF MembershipInv, TypeOK
    <2>4. TypeOK'
      <3>1. age' \in [Id -> 0..MaxAge]
        BY <1>3 DEF HeadStop
      <3>2. pending' \in [Id -> (0..Delay) \cup {NoCall}]
        BY <1>3 DEF HeadStop
      <3>3. up' \in BOOLEAN
        BY <1>3 DEF HeadStop
      <3>4. boots' \in 0..MaxBoots
        <4>1. boots \in 0..MaxBoots /\ boots < MaxBoots /\ boots' = boots + 1
          BY <1>3 DEF MembershipInv, TypeOK, HeadStop
        <4> QED BY <4>1
      <3> QED BY <1>3, <2>1, <2>2, <2>3, <3>1, <3>2, <3>3, <3>4
           DEF MembershipInv, TypeOK, HeadStop
    <2>5. /\ \A w \in Id : pending'[w] = NoCall
          /\ members' = {} /\ Spot \subseteq Id
      BY <1>3 DEF HeadStop, Id
    <2> QED BY <2>2, <2>4, <2>5 DEF MembershipInv
  <1>4. CASE HeadBoot
    <2>1. PICK gone : EndOf(gone, "none")
      BY <1>4 DEF HeadBoot
    <2>0. stuck' \subseteq Spot
      BY <1>4 DEF MembershipInv, TypeOK, HeadBoot, Containers
    <2>2. TypeOK'
      BY <1>4, <2>0, <2>1 DEF MembershipInv, TypeOK, HeadBoot, EndOf, registry, Phases
    <2>3. \A w \in Id : /\ phase'[w] # phase[w] => phase'[w] = "none"
                        /\ phase'[w] # "none" => wait'[w] = wait[w]
      BY <2>1 DEF EndOf
    <2> QED BY <1>4, <2>2, <2>3 DEF MembershipInv, HeadBoot, registry, Id
  <1> QED BY <1>1, <1>2, <1>3, <1>4

\* The invariant holds for all sets of workers and all durations.
THEOREM MembershipInvariance == Spec => []MembershipInv
  <1>1. MembershipInv /\ [Next]_vars => MembershipInv'
    <2> SUFFICES ASSUME MembershipInv, [Next]_vars PROVE MembershipInv'
      OBVIOUS
    <2>1. CASE Tick
      BY <2>1, TickInv
    <2>2. CASE Check \/ Reap \/ HeadStop \/ HeadBoot
      BY <2>2, HeadInv
    <2>3. ASSUME NEW w \in Id, Heartbeat(w) PROVE MembershipInv'
      BY <2>3, HeartbeatInv
    <2>4. ASSUME NEW w \in Id,
                 Launch(w) \/ Crash(w) \/ Restart(w) \/ Leave(w) \/ Exit(w)
          PROVE  MembershipInv'
      BY <2>4, LifeInv
    <2>5. CASE UNCHANGED vars
      BY <2>5 DEF vars, MembershipInv, TypeOK
    <2> QED BY <2>1, <2>2, <2>3, <2>4, <2>5 DEF Next
  <1> QED BY <1>1, InitInv, PTL DEF Spec

\* Every variable keeps its type.
THEOREM TypeCorrect == Spec => []TypeOK
  <1>1. MembershipInv => TypeOK
    BY DEF MembershipInv
  <1> QED BY <1>1, MembershipInvariance, PTL

\* A registered spot worker whose process runs was heard of within one period of the
\* heartbeats and one look at Docker's statistics. Only a DEAD verdict on an older
\* heartbeat is sure to be right; that of scheduler_daemon.py:94, at 3 s, is not with
\* the 5 s of common/config.py.
THEOREM LiveHeartbeats ==
  Spec => [](\A w \in Spot \cap members \cap Alive : age[w] <= interval + Delay)
  <1> DEFINE Heard == \A w \in Spot \cap members \cap Alive : age[w] <= interval + Delay
  <1>1. MembershipInv => Heard
    <2> SUFFICES ASSUME MembershipInv, NEW w \in Spot \cap members \cap Alive
                 PROVE  age[w] <= interval + Delay
      OBVIOUS
    <2>1. age[w] \in Nat /\ wait[w] \in Nat /\ interval \in Nat
      BY MembershipAssumption DEF MembershipInv, TypeOK, Id
    <2>2. CASE phase[w] = "sleeping"
      BY <2>1, <2>2, MembershipAssumption DEF MembershipInv
    <2>3. CASE phase[w] = "beating"
      <3>1. pending[w] \in Nat
        BY <2>3 DEF MembershipInv, TypeOK, Id, NoCall
      <3> QED BY <2>1, <2>3, <3>1, MembershipAssumption DEF MembershipInv
    <2> QED BY <2>2, <2>3 DEF MembershipInv, Alive
  <1> QED BY <1>1, MembershipInvariance, PTL
=============================================================================
