--------------------------- MODULE GcsState_proofs ---------------------------
(***************************************************************************)
(* The store keeps its order in memory and in the file, and what is saved  *)
(* last is what there is, for any number of tasks, restarts and failures.  *)
(***************************************************************************)
EXTENDS GcsState, TaskLists

\* The types are kept by every step.
LEMMA InitType == Init => TypeOK
  <1> SUFFICES ASSUME Init PROVE TypeOK
    OBVIOUS
  <1>1. <<>> \in Seq(Task)
    OBVIOUS
  <1>2. up \in BOOLEAN /\ stale \in BOOLEAN /\ reset \in BOOLEAN
    BY DEF Init
  <1>3. faults \in 0..MaxFaults /\ life \in 0..faults /\ counter \in 0..MaxCounter
    BY StoreAssumption DEF Init
  <1> QED BY <1>1, <1>2, <1>3 DEF Init, TypeOK

\* The batch that generate_mock_tasks draws.
LEMMA BatchType ==
  ASSUME TypeOK, NEW n \in Nat, counter + n <= MaxCounter
  PROVE  /\ Batch(n) \in Seq(Task) /\ Len(Batch(n)) = n
         /\ \A i \in 1..n : Batch(n)[i] = [id |-> [num |-> counter + i, part |-> 0], life |-> life]
  <1>0. counter \in Nat /\ life \in Life /\ 0 \in 0..MaxParts
    BY StoreAssumption DEF TypeOK, Life
  <1>1. \A i \in 1..n : [num |-> counter + i, part |-> 0] \in Name
    BY <1>0, StoreAssumption DEF Name
  <1>2. \A i \in 1..n : [id |-> [num |-> counter + i, part |-> 0], life |-> life] \in Task
    BY <1>0, <1>1 DEF Task
  <1>3. Batch(n) \in [1..n -> Task]
    BY <1>2 DEF Batch
  <1>4. Batch(n) \in Seq(Task)
    BY <1>3, SeqDef
  <1>5. Len(Batch(n)) = n
    BY <1>3, <1>4, LenProperties
  <1>6. \A i \in 1..n : Batch(n)[i] = [id |-> [num |-> counter + i, part |-> 0], life |-> life]
    BY DEF Batch
  <1> QED BY <1>4, <1>5, <1>6

\* What the scheduler queues for recovered subtasks.
LEMMA CopiesType ==
  ASSUME TypeOK, life < MaxFaults, NEW k \in Nat, NEW names \in [1..k -> lineage]
  PROVE  /\ Copies(names) \in Seq(Task) /\ Len(Copies(names)) = k
         /\ \A i \in 1..k : Copies(names)[i] = [id |-> names[i], life |-> life + 1]
  <1>0. life + 1 \in Life /\ lineage \subseteq Name
    BY StoreAssumption DEF TypeOK, Life, Subtask
  <1>1. DOMAIN names = 1..k /\ \A i \in 1..k : names[i] \in Name
    BY <1>0
  <1>2. \A i \in 1..k : [id |-> names[i], life |-> life + 1] \in Task
    BY <1>0, <1>1 DEF Task
  <1>3. Copies(names) \in [1..k -> Task]
    BY <1>1, <1>2 DEF Copies
  <1>4. Copies(names) \in Seq(Task)
    BY <1>3, SeqDef
  <1>5. Len(Copies(names)) = k
    BY <1>3, <1>4, LenProperties
  <1>6. \A i \in 1..k : Copies(names)[i] = [id |-> names[i], life |-> life + 1]
    BY <1>1 DEF Copies
  <1> QED BY <1>4, <1>5, <1>6

LEMMA MemoryType ==
  ASSUME TypeOK,
         \/ \E n \in 1..MaxBatch : Generate(n)
         \/ (\E i \in 1..Len(queue) : Pop(i)) \/ Restore
         \/ \E t \in running : \/ \E k \in 1..MaxParts : StartMap(t, k)
                              \/ \E S \in SUBSET lineage : EndMap(t, S)
                              \/ Complete(t) \/ Fail(t)
         \/ \E t \in failed : Requeue(t)
  PROVE  TypeOK'
  <1> USE StoreAssumption
  <1>0. writing' \in savers' \cup {None} /\ file' \in {None, Torn} \cup Saved
        /\ reset' \in BOOLEAN /\ faults' \in 0..MaxFaults /\ life' \in 0..faults'
        /\ up' \in BOOLEAN /\ stale' \in BOOLEAN /\ missed' \subseteq Task
    BY DEF TypeOK, Generate, Pop, Restore, StartMap, EndMap, Complete, Fail, Requeue, saveVars, lifeVars, Free
  <1>1. ASSUME NEW n \in 1..MaxBatch, Generate(n) PROVE TypeOK'
    <2>1. counter' \in 0..MaxCounter /\ savers' = savers \cup {Scheduler}
          /\ done' = done /\ running' = running /\ failed' = failed /\ deferred' = deferred
          /\ lineage' = lineage
      BY <1>1 DEF Generate, TypeOK, execVars
    <2>2. queue' \in Seq(Task)
      <3>1. CASE Len(queue) < MaxQueue
        <4>1. n \in Nat /\ counter + n <= MaxCounter /\ queue' = queue \o Batch(n)
          BY <1>1, <3>1 DEF Generate
        <4>2. Batch(n) \in Seq(Task)
          BY <4>1, BatchType
        <4> QED BY <4>1, <4>2, ConcatSet DEF TypeOK
      <3> QED BY <3>1, <1>1 DEF Generate, TypeOK
    <2> QED BY <1>0, <2>1, <2>2 DEF TypeOK, Threads
  <1>2. ASSUME NEW i \in 1..Len(queue), Pop(i) PROVE TypeOK'
    <2>1. queue' \in Seq(Task)
      BY <1>2, RemoveAtElements DEF Pop, TypeOK
    <2>2. queue[i] \in Task
      BY <1>2, ElementOfSeq DEF TypeOK
    <2>3. deferred' \in Seq(Task) /\ running' \subseteq Task
      <3>1. Append(deferred, queue[i]) \in Seq(Task)
        BY <2>2, AppendSet DEF TypeOK
      <3> QED BY <1>2, <2>2, <3>1 DEF Pop, TypeOK
    <2> QED BY <1>0, <1>2, <2>1, <2>3 DEF Pop, TypeOK, saveVars
  <1>3. ASSUME NEW t \in running,
               (\E k \in 1..MaxParts : StartMap(t, k)) \/ (\E S \in SUBSET lineage : EndMap(t, S))
        PROVE TypeOK'
    <2>1. t \in Task
      BY DEF TypeOK
    <2>2. savers' = savers \cup {t} /\ queue' = queue /\ counter' = counter
          /\ deferred' = deferred /\ done' = done /\ running' = running /\ failed' = failed
      BY <1>3 DEF StartMap, EndMap, execVars
    <2>3. lineage' \subseteq Subtask
      <3>1. CASE \E S \in SUBSET lineage : EndMap(t, S)
        BY <3>1 DEF EndMap, TypeOK
      <3>2. ASSUME NEW k \in 1..MaxParts, StartMap(t, k) PROVE lineage' \subseteq Subtask
        <4>1. t.id \in Name /\ k \in 0..MaxParts /\ k # 0
          BY <2>1 DEF Task
        <4>2. [t.id EXCEPT !.part = k] \in Subtask
          BY <4>1 DEF Name, Subtask
        <4> QED BY <3>2, <4>2 DEF StartMap, TypeOK
      <3> QED BY <1>3, <3>1, <3>2
    <2> QED BY <1>0, <2>1, <2>2, <2>3 DEF TypeOK, Threads
  <1>6. ASSUME NEW t \in running, Complete(t) \/ Fail(t) PROVE TypeOK'
    <2>1. t \in Task /\ t.id \in Name
      BY DEF TypeOK, Task
    <2>2. savers' = savers \cup {t} /\ queue' = queue /\ counter' = counter
          /\ deferred' = deferred /\ lineage' = lineage
      BY <1>6 DEF Complete, Fail, memVars
    <2>3. running' \subseteq Task /\ failed' \subseteq Task /\ done' \subseteq Name
      BY <1>6, <2>1 DEF Complete, Fail, memVars, execVars, TypeOK
    <2> QED BY <1>0, <2>1, <2>2, <2>3 DEF TypeOK, Threads
  <1>4. ASSUME NEW t \in failed, Requeue(t) PROVE TypeOK'
    <2>1. t \in Task
      BY DEF TypeOK
    <2>2. queue' \in Seq(Task)
      BY <1>4, <2>1, AppendSet DEF Requeue, TypeOK
    <2> QED BY <1>0, <1>4, <2>1, <2>2 DEF Requeue, TypeOK, Threads
  <1>5. CASE Restore
    <2>1. queue' \in Seq(Task) /\ deferred' \in Seq(Task)
      <3>1. <<>> \in Seq(Task)
        OBVIOUS
      <3>2. deferred \o queue \in Seq(Task)
        BY ConcatSet DEF TypeOK
      <3> QED BY <1>5, <3>1, <3>2 DEF Restore
    <2> QED BY <1>0, <1>5, <2>1 DEF Restore, TypeOK, execVars, saveVars
  <1> QED BY <1>1, <1>2, <1>3, <1>4, <1>5, <1>6

LEMMA RecoverType ==
  ASSUME TypeOK, NEW k \in 1..MaxBatch, NEW names \in [1..k -> lineage], Recover(names)
  PROVE  TypeOK'
  <1> USE StoreAssumption
  <1>1. up' = up /\ done' = done /\ counter' = counter /\ deferred' = deferred /\ reset' = reset
        /\ running' = running /\ failed' = failed /\ writing' = writing /\ file' = file
        /\ stale' = stale /\ missed' = missed /\ savers' = savers \cup {Scheduler}
    BY DEF Recover, execVars
  <1>2. faults' \in 0..MaxFaults /\ life' \in 0..faults' /\ life < MaxFaults
    BY DEF Recover, Fault, TypeOK
  <1>3. Copies(names) \in Seq(Task)
    BY <1>2, CopiesType
  <1>4. queue' \in Seq(Task)
    BY <1>3, ConcatSet DEF Recover, TypeOK
  <1>5. lineage' \subseteq Subtask
    BY DEF Recover, TypeOK
  <1> QED BY <1>1, <1>2, <1>4, <1>5 DEF TypeOK, Threads

LEMMA SaveType ==
  ASSUME TypeOK, Write \/ Reset \/ Stop \/ Boot \/ \E x \in savers : Truncate(x)
  PROVE  TypeOK'
  <1> USE StoreAssumption
  <1>0. <<>> \in Seq(Task)
    OBVIOUS
  <1>1. ASSUME NEW x \in savers, Truncate(x) PROVE TypeOK'
    <2>1. up' \in BOOLEAN /\ stale' \in BOOLEAN /\ reset' \in BOOLEAN
      BY <1>1 DEF Truncate, TypeOK
    <2>2. faults' \in 0..MaxFaults /\ life' \in 0..faults'
      BY <1>1 DEF Truncate, Fault, TypeOK
    <2>3. writing' \in savers' \cup {None} /\ savers' \subseteq savers
          /\ file' \in {None, Torn} \cup Saved /\ missed' \subseteq Task
      BY <1>1 DEF Truncate, Free, TypeOK
    <2> QED BY <1>1, <2>1, <2>2, <2>3 DEF Truncate, TypeOK, memVars, execVars
  <1>2. CASE Write
    <2>1. Snapshot \in Saved
      BY DEF Snapshot, Saved, TypeOK
    <2>2. file' \in {None, Torn} \cup Saved
      BY <1>2, <2>1 DEF Write, TypeOK
    <2>3. up' \in BOOLEAN /\ stale' \in BOOLEAN /\ reset' \in BOOLEAN
      BY <1>2 DEF Write, TypeOK
    <2>4. faults' \in 0..MaxFaults /\ life' \in 0..faults'
      BY <1>2 DEF Write, Fault, TypeOK
    <2>5. missed' \subseteq Task
      BY <1>2, ElementOfSeq, LenProperties DEF Write, TypeOK, ToSet
    <2> QED BY <1>2, <2>2, <2>3, <2>4, <2>5 DEF Write, TypeOK, memVars, execVars
  <1>3. CASE Reset
    <2>1. up' \in BOOLEAN /\ stale' \in BOOLEAN /\ reset' \in BOOLEAN
      BY <1>3 DEF Reset, TypeOK
    <2>2. faults' \in 0..MaxFaults /\ life' \in 0..faults'
      BY <1>3 DEF Reset, TypeOK
    <2>3. savers' \subseteq Threads /\ writing' \in savers' \cup {None}
      BY <1>3 DEF Reset, TypeOK, Threads
    <2> QED BY <1>0, <1>3, <2>1, <2>2, <2>3 DEF Reset, TypeOK, execVars
  <1>4. CASE Stop
    <2>1. up' \in BOOLEAN /\ stale' \in BOOLEAN /\ reset' \in BOOLEAN
      BY <1>4 DEF Stop, TypeOK, lifeVars
    <2> QED BY <1>0, <1>4, <2>1 DEF Stop, TypeOK, lifeVars
  <1>5. CASE Boot
    <2>1. file' \in {None, Torn} \cup Saved
      BY <1>5 DEF Boot, TypeOK
    <2>2. queue' \in Seq(Task) /\ done' \subseteq Name /\ lineage' \subseteq Subtask
          /\ counter' \in 0..MaxCounter
      <3>1. CASE file' \in {None, Torn}
        BY <1>0, <1>5, <3>1 DEF Boot, Load
      <3>2. CASE file' \notin {None, Torn}
        <4>1. file' \in Saved /\ Load(file')
          BY <1>5, <2>1, <3>2 DEF Boot
        <4>2. queue' = file'.queue /\ done' = file'.done /\ lineage' = file'.lineage
              /\ counter' = file'.counter
          BY <3>2, <4>1 DEF Load
        <4> QED BY <4>1, <4>2 DEF Saved
      <3> QED BY <3>1, <3>2
    <2>3. up' \in BOOLEAN /\ stale' \in BOOLEAN /\ reset' \in BOOLEAN
      BY <1>5 DEF Boot, TypeOK
    <2>4. faults' \in 0..MaxFaults /\ life' \in 0..faults'
      BY <1>5 DEF Boot, Fault, TypeOK
    <2> QED BY <1>5, <2>1, <2>2, <2>3, <2>4 DEF Boot, TypeOK, execVars
  <1> QED BY <1>1, <1>2, <1>3, <1>4, <1>5

LEMMA NextType == TypeOK /\ [Next]_vars => TypeOK'
  <1>1. ASSUME TypeOK, UNCHANGED vars PROVE TypeOK'
    BY <1>1 DEF vars, TypeOK
  <1> QED BY <1>1, MemoryType, RecoverType, SaveType DEF Next

\* Every variable keeps its type.
THEOREM TypeCorrect == Spec => []TypeOK
  <1> QED BY InitType, NextType, PTL DEF Spec

(***************************************************************************)
(* What the list operations do to the order of a store.                    *)
(***************************************************************************)

LEMMA EmptyInOrder == ASSUME NEW c, NEW l PROVE InOrder(<<>>, {}, c, l)
  <1>1. Len(<<>>) = 0 /\ ToSet(<<>>) = {}
    BY DEF ToSet
  <1> QED BY <1>1 DEF InOrder

\* Neither the counter nor the life may fall for the order to stay.
LEMMA LaterInOrder ==
  ASSUME NEW q \in Seq(Task), NEW d \in SUBSET Name, NEW c \in Nat, NEW l \in Nat,
         InOrder(q, d, c, l), NEW b \in Nat, NEW m \in Nat, c <= b, l <= m
  PROVE  InOrder(q, d, b, m)
  <1>1. ToSet(q) \subseteq Task
    BY ElementOfSeq, LenProperties DEF ToSet
  <1>2. ASSUME NEW t \in ToSet(q) PROVE t.id.num <= b /\ t.life <= m
    <2>1. t.id.num \in Nat /\ t.life \in Nat
      BY <1>1 DEF Task, Name, Life
    <2>2. t.id.num <= c /\ t.life <= l
      BY DEF InOrder
    <2> QED BY <2>1, <2>2
  <1>3. ASSUME NEW n \in d PROVE n.num <= b
    <2>1. n.num \in Nat /\ n.num <= c
      BY DEF Name, InOrder
    <2> QED BY <2>1
  <1> QED BY <1>2, <1>3 DEF InOrder

LEMMA PoppedInOrder ==
  ASSUME NEW q \in Seq(Task), NEW d, NEW c, NEW l, InOrder(q, d, c, l), NEW i \in 1..Len(q)
  PROVE  /\ InOrder(RemoveAt(q, i), d, c, l)
         /\ ToSet(RemoveAt(q, i)) = ToSet(q) \ {q[i]} /\ q[i] \in ToSet(q)
  <1>1. Distinct(q)
    BY DEF InOrder, Distinct
  <1>2. ToSet(RemoveAt(q, i)) = ToSet(q) \ {q[i]} /\ Distinct(RemoveAt(q, i))
    BY <1>1, RemoveAtSet
  <1>3. q[i] \in ToSet(q)
    BY LenProperties DEF ToSet
  <1> QED BY <1>2, <1>3 DEF InOrder, Distinct

LEMMA AppendedInOrder ==
  ASSUME NEW q \in Seq(Task), NEW d, NEW c, NEW l, InOrder(q, d, c, l), NEW t \in Task,
         t \notin ToSet(q), \A u \in ToSet(q) : Drawn(u) => u.id # t.id,
         Drawn(t) => t.id \notin d, t.id.num <= c, t.life <= l
  PROVE  InOrder(Append(q, t), d, c, l) /\ ToSet(Append(q, t)) = ToSet(q) \cup {t}
  <1>1. Distinct(q)
    BY DEF InOrder, Distinct
  <1>2. ToSet(Append(q, t)) = ToSet(q) \cup {t} /\ Distinct(Append(q, t))
    BY <1>1, AppendSet
  <1>3. \A u, v \in ToSet(q) \cup {t} : Drawn(u) /\ u.id = v.id => u = v
    BY DEF InOrder, Drawn
  <1>4. \A u \in ToSet(q) \cup {t} : (Drawn(u) => u.id \notin d) /\ u.id.num <= c /\ u.life <= l
    BY DEF InOrder
  <1> QED BY <1>2, <1>3, <1>4 DEF InOrder, Distinct

\* Two lists that have no drawn id in common, one after the other.
LEMMA ConcatInOrder ==
  ASSUME NEW p \in Seq(Task), NEW q \in Seq(Task), NEW d, NEW c, NEW l,
         InOrder(p, d, c, l), InOrder(q, d, c, l), ToSet(p) \cap ToSet(q) = {},
         \A t, u \in ToSet(p) \cup ToSet(q) : Drawn(t) /\ t.id = u.id => t = u
  PROVE  InOrder(p \o q, d, c, l) /\ ToSet(p \o q) = ToSet(p) \cup ToSet(q)
  <1>1. Distinct(p) /\ Distinct(q)
    BY DEF InOrder, Distinct
  <1>2. ToSet(p \o q) = ToSet(p) \cup ToSet(q) /\ Distinct(p \o q)
    BY <1>1, ConcatSet
  <1>3. \A t \in ToSet(p \o q) : (Drawn(t) => t.id \notin d) /\ t.id.num <= c /\ t.life <= l
    BY <1>2 DEF InOrder
  <1>4. \A n \in d : n.num <= c
    BY DEF InOrder
  <1> QED BY <1>2, <1>3, <1>4 DEF InOrder, Distinct

\* A batch of new ids: above the counter, and no two the same.
LEMMA BatchInOrder ==
  ASSUME TypeOK, InOrder(queue, done, counter, life), NEW n \in Nat, counter + n <= MaxCounter
  PROVE  /\ InOrder(Batch(n), done, counter + n, life)
         /\ \A t \in ToSet(Batch(n)) : t.id.num \in (counter + 1)..(counter + n) /\ t.life = life
         /\ \A t, u \in ToSet(Batch(n)) : t.id = u.id => t = u
  <1> DEFINE b == Batch(n)
             new(i) == [id |-> [num |-> counter + i, part |-> 0], life |-> life]
  <1> HIDE DEF b
  <1>1. done \subseteq Name /\ counter \in Nat /\ life \in Nat
    BY StoreAssumption DEF TypeOK
  <1>2. b \in Seq(Task) /\ Len(b) = n /\ \A i \in 1..n : b[i] = new(i)
    BY BatchType DEF b
  <1>3. DOMAIN b = 1..n
    BY <1>2, LenProperties
  <1>4. \A i \in 1..n : b[i].id.num = counter + i /\ b[i].life = life
    BY <1>2
  <1>5. ToSet(b) = {b[i] : i \in 1..n}
    BY <1>3 DEF ToSet
  <1>6. \A i, k \in 1..Len(b) : b[i] = b[k] => i = k
    BY <1>1, <1>2, <1>4
  <1>7. \A t \in ToSet(b) : t.id.num \in (counter + 1)..(counter + n) /\ t.life = life
    BY <1>1, <1>4, <1>5
  <1>8. \A t, u \in ToSet(b) : t.id = u.id => t = u
    <2> SUFFICES ASSUME NEW i \in 1..n, NEW k \in 1..n, b[i].id = b[k].id PROVE b[i] = b[k]
      BY <1>5
    <2>1. counter + i = counter + k
      BY <1>4
    <2> QED BY <1>1, <2>1
  <1>9. \A m \in done : m.num <= counter /\ m.num \in Nat
    BY <1>1 DEF InOrder, Name
  <1>10. \A t \in ToSet(b) : t.id \notin done /\ t.id.num <= counter + n /\ t.life <= life
    BY <1>1, <1>7, <1>9
  <1>11. \A m \in done : m.num <= counter + n
    BY <1>1, <1>9
  <1> QED BY <1>6, <1>7, <1>8, <1>10, <1>11 DEF InOrder, b

\* Recovered subtasks: of a later life than every other task, and of no drawn id.
LEMMA CopiesInOrder ==
  ASSUME TypeOK, InOrder(queue, done, counter, life), \A n \in lineage : n.num <= counter,
         life < MaxFaults, NEW k \in Nat, NEW names \in [1..k -> lineage], IsInjective(names)
  PROVE  /\ InOrder(Copies(names), done, counter, life + 1)
         /\ \A t \in ToSet(Copies(names)) : /\ ~Drawn(t) /\ t.life = life + 1
                                            /\ t.id.num <= counter
  <1> DEFINE b == Copies(names)
             new(i) == [id |-> names[i], life |-> life + 1]
  <1> HIDE DEF b
  <1>1. life \in Nat /\ lineage \subseteq Subtask
    BY StoreAssumption DEF TypeOK
  <1>2. b \in Seq(Task) /\ Len(b) = k /\ \A i \in 1..k : b[i] = new(i)
    BY CopiesType DEF b
  <1>3. DOMAIN b = 1..k /\ DOMAIN names = 1..k
    BY <1>2, LenProperties
  <1>4. \A i \in 1..k : b[i].id = names[i] /\ b[i].life = life + 1 /\ names[i] \in lineage
    BY <1>2
  <1>5. ToSet(b) = {b[i] : i \in 1..k}
    BY <1>3 DEF ToSet
  <1>6. \A i, j \in 1..Len(b) : b[i] = b[j] => i = j
    BY <1>2, <1>3, <1>4 DEF IsInjective
  <1>7. \A t \in ToSet(b) : ~Drawn(t) /\ t.life = life + 1 /\ t.id.num <= counter
    <2> SUFFICES ASSUME NEW i \in 1..k
                 PROVE  b[i].id.part # 0 /\ b[i].life = life + 1 /\ b[i].id.num <= counter
      BY <1>5 DEF Drawn
    <2>1. b[i].id \in lineage /\ b[i].life = life + 1
      BY <1>4
    <2>2. b[i].id \in Subtask
      BY <1>1, <2>1
    <2> QED BY <2>1, <2>2 DEF Subtask
  <1>8. \A n \in done : n.num <= counter
    BY DEF InOrder
  <1>9. \A t \in ToSet(b) : (Drawn(t) => t.id \notin done) /\ t.id.num <= counter /\ t.life <= life + 1
    BY <1>1, <1>7
  <1>10. \A t, u \in ToSet(b) : Drawn(t) /\ t.id = u.id => t = u
    BY <1>7
  <1> QED BY <1>6, <1>7, <1>8, <1>9, <1>10 DEF InOrder, b

(***************************************************************************)
(* The order of the store, step by step.                                   *)
(***************************************************************************)

\* The part of StoreInv that holds as long as nobody has reset the store.
Order ==
  /\ InOrder(queue, done, counter, life) /\ InOrder(deferred, done, counter, life)
  /\ \A n \in lineage : n.num <= counter
  /\ file \notin {None, Torn} => /\ InOrder(file.queue, file.done, file.counter, life)
                                /\ \A n \in file.lineage : n.num <= file.counter
  /\ ToSet(queue) \cap ToSet(deferred) = {}
  /\ (ToSet(queue) \cup ToSet(deferred)) \cap (running \cup failed) = {}
  /\ running \cap failed = {}
  /\ \A t, u \in Open : Drawn(t) /\ t.id = u.id => t = u
  /\ \A t \in Open : /\ Drawn(t) => t.id \notin done
                     /\ t.id.num <= counter /\ t.life <= life

LEMMA OpenTasks == TypeOK => /\ Open \subseteq Task /\ ToSet(queue) \subseteq Task
                             /\ ToSet(deferred) \subseteq Task
                             /\ \A t \in Open : t.id \in Name /\ t.id.num \in Nat /\ t.life \in Nat
  <1> SUFFICES ASSUME TypeOK
               PROVE  /\ ToSet(queue) \subseteq Task /\ ToSet(deferred) \subseteq Task
                      /\ running \subseteq Task /\ failed \subseteq Task
    BY StoreAssumption DEF Open, Task, Name, Life
  <1>1. ToSet(queue) \subseteq Task /\ ToSet(deferred) \subseteq Task
    BY ElementOfSeq, LenProperties DEF TypeOK, ToSet
  <1> QED BY <1>1 DEF TypeOK

\* What the file holds stays in order when the life goes on.
LEMMA FileInOrder ==
  ASSUME TypeOK, Order, file \notin {None, Torn}, NEW m \in Nat, life <= m
  PROVE  InOrder(file.queue, file.done, file.counter, m)
  <1>1. file \in Saved
    BY DEF TypeOK
  <1>2. file.queue \in Seq(Task) /\ file.done \in SUBSET Name /\ file.counter \in Nat /\ life \in Nat
    BY <1>1, StoreAssumption DEF Saved, TypeOK
  <1> QED BY <1>2, LaterInOrder DEF Order

LEMMA GenerateOrder ==
  ASSUME TypeOK, Order, NEW n \in 1..MaxBatch, Generate(n)
  PROVE  Order'
  <1> USE StoreAssumption
  <1>a. ToSet(<<>>) = {} /\ Len(<<>>) = 0
    BY DEF ToSet
  <1>0. /\ file' = file /\ running' = running /\ failed' = failed /\ done' = done
        /\ lineage' = lineage /\ life' = life /\ deferred = <<>> /\ deferred' = <<>>
        /\ counter \in Nat /\ life \in Nat /\ n \in Nat /\ counter + n <= MaxCounter
    BY DEF Generate, execVars, lifeVars, TypeOK
  <1>1. CASE Len(queue) < MaxQueue
    <2> DEFINE b == Batch(n)
    <2> HIDE DEF b
    <2>1. queue' = queue \o b /\ counter' = counter + n
      BY <1>1 DEF Generate, b
    <2>2. /\ InOrder(b, done, counter + n, life) /\ b \in Seq(Task)
          /\ \A t \in ToSet(b) : t.id.num \in (counter + 1)..(counter + n) /\ t.life = life
          /\ \A t, u \in ToSet(b) : t.id = u.id => t = u
      BY <1>0, BatchInOrder, BatchType DEF b, Order
    <2>3. InOrder(queue, done, counter + n, life)
      BY <1>0, LaterInOrder DEF Order, TypeOK
    <2>4. \A t \in Open : t.id.num \in Nat /\ t.id.num <= counter
      BY OpenTasks DEF Order
    <2>5. \A t \in ToSet(b) : t.id.num \in Nat /\ t.id.num > counter
      BY <1>0, <2>2
    <2>6. Open \cap ToSet(b) = {} /\ \A t \in Open, u \in ToSet(b) : t.id # u.id
      BY <1>0, <2>4, <2>5
    <2>7. \A t, u \in Open \cup ToSet(b) : Drawn(t) /\ t.id = u.id => t = u
      BY <2>2, <2>6 DEF Order
    <2>8. InOrder(queue \o b, done, counter + n, life) /\ ToSet(queue \o b) = ToSet(queue) \cup ToSet(b)
      <3>1. ToSet(queue) \subseteq Open
        BY DEF Open
      <3> QED BY <2>2, <2>3, <2>6, <2>7, <3>1, ConcatInOrder DEF TypeOK
    <2>9. Open' = Open \cup ToSet(b)
      BY <1>0, <2>1, <2>8 DEF Open
    <2>10. \A t \in Open' : /\ Drawn(t) => t.id \notin done'
                            /\ t.id.num <= counter' /\ t.life <= life'
      <3>1. \A t \in Open : t.id.num <= counter + n
        BY <1>0, <2>4
      <3>2. \A t \in ToSet(b) : (Drawn(t) => t.id \notin done) /\ t.id.num <= counter + n /\ t.life <= life
        BY <2>2 DEF InOrder
      <3> QED BY <1>0, <2>1, <2>9, <3>1, <3>2 DEF Order
    <2>11. InOrder(deferred', done', counter', life')
      <3>1. \A m \in done' : m.num <= counter'
        BY <1>0, <2>1, <2>2 DEF InOrder
      <3> QED BY <1>a, <1>0, <3>1 DEF InOrder
    <2>12. \A m \in lineage' : m.num <= counter'
      <3>1. \A m \in lineage : m.num \in Nat /\ m.num <= counter
        BY DEF Order, TypeOK, Subtask, Name
      <3> QED BY <1>0, <2>1, <3>1
    <2>13. /\ ToSet(queue') \cap ToSet(deferred') = {}
           /\ (ToSet(queue') \cup ToSet(deferred')) \cap (running' \cup failed') = {}
      BY <1>a, <1>0, <2>1, <2>6, <2>8 DEF Order, Open
    <2> QED BY <1>0, <2>1, <2>7, <2>8, <2>9, <2>10, <2>11, <2>12, <2>13 DEF Order
  <1>2. CASE ~(Len(queue) < MaxQueue)
    BY <1>0, <1>2 DEF Generate, Order, Open
  <1> QED BY <1>1, <1>2

LEMMA RecoverOrder ==
  ASSUME TypeOK, Order, NEW k \in 1..MaxBatch, NEW names \in [1..k -> lineage], Recover(names)
  PROVE  Order'
  <1> DEFINE b == Copies(names)
  <1> HIDE DEF b
  <1> USE StoreAssumption
  <1>a. ToSet(<<>>) = {} /\ Len(<<>>) = 0
    BY DEF ToSet
  <1>0. /\ file' = file /\ running' = running /\ failed' = failed /\ done' = done
        /\ counter' = counter /\ lineage' \subseteq lineage /\ life' = life + 1
        /\ deferred = <<>> /\ deferred' = <<>> /\ queue' = queue \o b
        /\ counter \in Nat /\ life \in Nat /\ k \in Nat /\ life < MaxFaults /\ IsInjective(names)
    BY DEF Recover, Fault, execVars, TypeOK, b
  <1>1. /\ InOrder(b, done, counter, life + 1) /\ b \in Seq(Task)
        /\ \A t \in ToSet(b) : ~Drawn(t) /\ t.life = life + 1 /\ t.id.num <= counter
    BY <1>0, CopiesInOrder, CopiesType DEF b, Order
  <1>2. InOrder(queue, done, counter, life + 1)
    <2>1. queue \in Seq(Task) /\ done \in SUBSET Name /\ InOrder(queue, done, counter, life)
      BY DEF Order, TypeOK
    <2>2. life + 1 \in Nat /\ life <= life + 1 /\ counter <= counter
      BY <1>0
    <2> QED BY <1>0, <2>1, <2>2, LaterInOrder
  <1>3. \A t \in Open : t.life \in Nat /\ t.life <= life
    BY OpenTasks DEF Order
  <1>4. Open \cap ToSet(b) = {}
    BY <1>0, <1>1, <1>3
  <1>5. \A t, u \in Open \cup ToSet(b) : Drawn(t) /\ t.id = u.id => t = u
    BY <1>1 DEF Order, Drawn
  <1>6. InOrder(queue \o b, done, counter, life + 1) /\ ToSet(queue \o b) = ToSet(queue) \cup ToSet(b)
    <2>1. ToSet(queue) \subseteq Open
      BY DEF Open
    <2> QED BY <1>1, <1>2, <1>4, <1>5, <2>1, ConcatInOrder DEF TypeOK
  <1>7. Open' = Open \cup ToSet(b)
    BY <1>0, <1>6 DEF Open
  <1>8. \A t \in Open' : /\ Drawn(t) => t.id \notin done'
                         /\ t.id.num <= counter' /\ t.life <= life'
    <2>1. \A t \in Open : t.life <= life + 1
      BY <1>0, <1>3
    <2>2. \A t \in ToSet(b) : ~Drawn(t) /\ t.id.num <= counter /\ t.life <= life + 1
      BY <1>0, <1>1
    <2> QED BY <1>0, <1>7, <2>1, <2>2 DEF Order
  <1>9. InOrder(deferred', done', counter', life')
    <2>1. \A m \in done' : m.num <= counter'
      BY <1>0, <1>1 DEF InOrder
    <2> QED BY <1>a, <1>0, <2>1 DEF InOrder
  <1>10. file' \notin {None, Torn} => /\ InOrder(file'.queue, file'.done, file'.counter, life')
                                      /\ \A n \in file'.lineage : n.num <= file'.counter
    BY <1>0, FileInOrder DEF Order
  <1>11. /\ ToSet(queue') \cap ToSet(deferred') = {}
         /\ (ToSet(queue') \cup ToSet(deferred')) \cap (running' \cup failed') = {}
    BY <1>a, <1>0, <1>4, <1>6 DEF Order, Open
  <1>12. /\ \A m \in lineage' : m.num <= counter'
         /\ running' \cap failed' = {}
         /\ \A t, u \in Open' : Drawn(t) /\ t.id = u.id => t = u
    BY <1>0, <1>5, <1>7 DEF Order
  <1>13. InOrder(queue', done', counter', life')
    BY <1>0, <1>6
  <1> QED BY <1>8, <1>9, <1>10, <1>11, <1>12, <1>13 DEF Order

LEMMA PopOrder ==
  ASSUME TypeOK, Order, NEW i \in 1..Len(queue), Pop(i)
  PROVE  Order'
  <1>1. /\ InOrder(RemoveAt(queue, i), done, counter, life)
        /\ ToSet(RemoveAt(queue, i)) = ToSet(queue) \ {queue[i]} /\ queue[i] \in ToSet(queue)
    BY PoppedInOrder DEF TypeOK, Order
  <1>2. /\ queue' = RemoveAt(queue, i) /\ failed' = failed /\ lineage' = lineage
        /\ done' = done /\ counter' = counter /\ file' = file /\ life' = life
    BY DEF Pop, saveVars, lifeVars
  <1>3. queue[i] \in Task /\ queue[i] \in Open
    BY <1>1, OpenTasks DEF Open
  <1>4. CASE running' = running \cup {queue[i]} /\ deferred' = deferred
    <2>1. Open' = Open
      BY <1>1, <1>2, <1>4 DEF Open
    <2>2. /\ ToSet(queue') \cap ToSet(deferred') = {}
          /\ (ToSet(queue') \cup ToSet(deferred')) \cap (running' \cup failed') = {}
          /\ running' \cap failed' = {}
      BY <1>1, <1>2, <1>4 DEF Order
    <2> QED BY <1>1, <1>2, <1>4, <2>1, <2>2 DEF Order
  <1>5. CASE deferred' = Append(deferred, queue[i]) /\ running' = running
    <2>1. queue[i] \notin ToSet(deferred) /\ \A u \in ToSet(deferred) : Drawn(u) => u.id # queue[i].id
      BY <1>1, <1>3 DEF Order, Open
    <2>2. (Drawn(queue[i]) => queue[i].id \notin done) /\ queue[i].id.num <= counter
          /\ queue[i].life <= life
      BY <1>3 DEF Order
    <2>3. /\ InOrder(Append(deferred, queue[i]), done, counter, life)
          /\ ToSet(Append(deferred, queue[i])) = ToSet(deferred) \cup {queue[i]}
      BY <1>3, <2>1, <2>2, AppendedInOrder DEF TypeOK, Order
    <2>4. Open' = Open
      BY <1>1, <1>2, <1>5, <2>3 DEF Open
    <2>5. /\ ToSet(queue') \cap ToSet(deferred') = {}
          /\ (ToSet(queue') \cup ToSet(deferred')) \cap (running' \cup failed') = {}
          /\ running' \cap failed' = {}
      BY <1>1, <1>2, <1>5, <2>3 DEF Order
    <2> QED BY <1>1, <1>2, <1>5, <2>3, <2>4, <2>5 DEF Order
  <1> QED BY <1>4, <1>5 DEF Pop

LEMMA RestoreOrder ==
  ASSUME TypeOK, Order, Restore
  PROVE  Order'
  <1>1. /\ queue' = deferred \o queue /\ deferred' = <<>> /\ done' = done /\ lineage' = lineage
        /\ counter' = counter /\ running' = running /\ failed' = failed /\ file' = file
        /\ life' = life
    BY DEF Restore, execVars, saveVars, lifeVars
  <1>2. ToSet(deferred') = {} /\ InOrder(deferred', done', counter', life')
    <2>1. ToSet(<<>>) = {} /\ Len(<<>>) = 0
      BY DEF ToSet
    <2> QED BY <1>1, <2>1 DEF Order, InOrder
  <1>3. \A t, u \in ToSet(deferred) \cup ToSet(queue) : Drawn(t) /\ t.id = u.id => t = u
    BY DEF Order, Open
  <1>4. /\ InOrder(deferred \o queue, done, counter, life)
        /\ ToSet(deferred \o queue) = ToSet(deferred) \cup ToSet(queue)
    BY <1>3, ConcatInOrder DEF TypeOK, Order
  <1>5. Open' = Open
    BY <1>1, <1>2, <1>4 DEF Open
  <1> QED BY <1>1, <1>2, <1>4, <1>5 DEF Order

LEMMA ExecutorOrder ==
  ASSUME TypeOK, Order, NEW t \in running,
         \/ \E k \in 1..MaxParts : StartMap(t, k)
         \/ \E S \in SUBSET lineage : EndMap(t, S)
         \/ Complete(t) \/ Fail(t)
  PROVE  Order'
  <1>0. file' = file /\ life' = life /\ counter' = counter /\ deferred' = deferred /\ queue' = queue
    BY DEF StartMap, EndMap, Complete, Fail, lifeVars, memVars
  <1>1. ASSUME NEW k \in 1..MaxParts, StartMap(t, k) PROVE Order'
    <2>1. /\ done' = done /\ running' = running /\ failed' = failed
          /\ lineage' = lineage \cup {[t.id EXCEPT !.part = k]}
      BY <1>1 DEF StartMap, execVars
    <2>2. Open' = Open /\ t \in Open
      BY <1>0, <2>1 DEF Open
    <2>3. [t.id EXCEPT !.part = k].num = t.id.num
      BY <2>2, OpenTasks DEF Name
    <2>4. \A n \in lineage' : n.num <= counter'
      BY <1>0, <2>1, <2>2, <2>3 DEF Order
    <2> QED BY <1>0, <2>1, <2>2, <2>4 DEF Order
  <1>2. ASSUME NEW S \in SUBSET lineage, EndMap(t, S) PROVE Order'
    <2>1. /\ done' = done /\ running' = running /\ failed' = failed
          /\ lineage' \subseteq lineage
      BY <1>2 DEF EndMap, execVars
    <2>2. Open' = Open
      BY <1>0, <2>1 DEF Open
    <2> QED BY <1>0, <2>1, <2>2 DEF Order
  <1>3. CASE Fail(t)
    <2>1. /\ done' = done /\ lineage' = lineage
          /\ running' = running \ {t} /\ failed' = failed \cup {t}
      BY <1>3 DEF Fail, memVars
    <2>2. Open' = Open
      BY <1>0, <2>1 DEF Open
    <2> QED BY <1>0, <2>1, <2>2 DEF Order
  <1>4. CASE Complete(t)
    <2>1. /\ failed' = failed /\ lineage' = lineage
          /\ running' = running \ {t} /\ done' = done \cup {t.id} /\ t \in Open
      BY <1>4 DEF Complete, Open
    <2>2. t \notin failed /\ t \notin ToSet(queue) /\ t \notin ToSet(deferred)
      BY DEF Order
    <2>3. Open' = Open \ {t}
      BY <1>0, <2>1, <2>2 DEF Open
    <2>4. \A u \in Open' : Drawn(u) => u.id # t.id
      BY <2>1, <2>3 DEF Order
    <2>5. ToSet(queue) \subseteq Open' /\ ToSet(deferred) \subseteq Open'
      BY <1>0 DEF Open
    <2>6. t.id.num <= counter
      BY <2>1 DEF Order
    <2>7. InOrder(queue', done', counter', life') /\ InOrder(deferred', done', counter', life')
      BY <1>0, <2>1, <2>4, <2>5, <2>6 DEF InOrder, Order
    <2>8. \A u \in Open' : /\ Drawn(u) => u.id \notin done'
                           /\ u.id.num <= counter' /\ u.life <= life'
      BY <1>0, <2>1, <2>3, <2>4 DEF Order
    <2>9. /\ (ToSet(queue') \cup ToSet(deferred')) \cap (running' \cup failed') = {}
          /\ running' \cap failed' = {}
      BY <1>0, <2>1 DEF Order
    <2> QED BY <1>0, <2>1, <2>3, <2>7, <2>8, <2>9 DEF Order
  <1> QED BY <1>1, <1>2, <1>3, <1>4

LEMMA RequeueOrder ==
  ASSUME TypeOK, Order, NEW t \in failed, Requeue(t)
  PROVE  Order'
  <1>1. /\ queue' = Append(queue, t) /\ failed' = failed \ {t} /\ running' = running
        /\ done' = done /\ counter' = counter /\ file' = file /\ deferred' = deferred
        /\ lineage' = lineage /\ life' = life
    BY DEF Requeue, lifeVars
  <1>2. t \in Task /\ t \in Open /\ t \notin ToSet(queue) /\ t \notin ToSet(deferred)
    BY DEF TypeOK, Open, Order
  <1>3. \A u \in ToSet(queue) : Drawn(u) => u.id # t.id
    BY <1>2 DEF Open, Order
  <1>4. InOrder(Append(queue, t), done, counter, life)
        /\ ToSet(Append(queue, t)) = ToSet(queue) \cup {t}
    <2>1. (Drawn(t) => t.id \notin done) /\ t.id.num <= counter /\ t.life <= life
      BY <1>2 DEF Order
    <2> QED BY <1>2, <1>3, <2>1, AppendedInOrder DEF TypeOK, Order
  <1>5. Open' = Open
    BY <1>1, <1>2, <1>4 DEF Open
  <1>6. /\ ToSet(queue') \cap ToSet(deferred') = {}
        /\ (ToSet(queue') \cup ToSet(deferred')) \cap (running' \cup failed') = {}
        /\ running' \cap failed' = {}
    BY <1>1, <1>2, <1>4 DEF Order
  <1> QED BY <1>1, <1>4, <1>5, <1>6 DEF Order

LEMMA SaveOrder ==
  ASSUME TypeOK, Order, Write \/ \E x \in savers : Truncate(x)
  PROVE  Order'
  <1>1. /\ queue' = queue /\ done' = done /\ counter' = counter /\ lineage' = lineage
        /\ running' = running /\ failed' = failed /\ deferred' = deferred /\ life' = life
    BY DEF Write, Truncate, memVars, execVars
  <1>2. file' \in {file, Torn, Snapshot}
    BY DEF Write, Truncate
  <1>3. Open' = Open
    BY <1>1 DEF Open
  <1>4. file' \notin {None, Torn} => /\ InOrder(file'.queue, file'.done, file'.counter, life')
                                     /\ \A n \in file'.lineage : n.num <= file'.counter
    BY <1>1, <1>2 DEF Snapshot, Order
  <1> QED BY <1>1, <1>3, <1>4 DEF Order

\* The Head's end and its next start.
LEMMA HeadOrder ==
  ASSUME StoreInv, Order, Stop \/ Boot
  PROVE  Order'
  <1>0. TypeOK /\ life \in Nat
    BY StoreAssumption DEF StoreInv, TypeOK
  <1>1. ToSet(<<>>) = {} /\ Len(<<>>) = 0
    BY DEF ToSet
  <1>2. CASE Stop
    <2>1. /\ Open' = {} /\ ToSet(queue') = {} /\ ToSet(deferred') = {} /\ lineage' = {}
          /\ running' = {} /\ failed' = {}
      BY <1>1, <1>2 DEF Stop, Open
    <2>2. InOrder(queue', done', counter', life') /\ InOrder(deferred', done', counter', life')
      BY <1>2, EmptyInOrder DEF Stop
    <2>3. file' = file /\ life' = life
      BY <1>2 DEF Stop, lifeVars
    <2> QED BY <2>1, <2>2, <2>3 DEF Order
  <1>3. CASE Boot
    <2>1. running' = {} /\ failed' = {} /\ deferred' = <<>> /\ life' = life + 1
      BY <1>3 DEF Boot, StoreInv, execVars
    <2>2. file' \in {file, None} /\ Load(file')
      BY <1>3 DEF Boot
    <2>3. file' \notin {None, Torn} => /\ InOrder(file'.queue, file'.done, file'.counter, life')
                                       /\ \A n \in file'.lineage : n.num <= file'.counter
      BY <1>0, <2>1, <2>2, FileInOrder DEF Order
    <2>4. InOrder(queue', done', counter', life') /\ \A n \in lineage' : n.num <= counter'
      <3>1. CASE file' \in {None, Torn}
        BY <2>2, <3>1, EmptyInOrder DEF Load
      <3>2. CASE file' \notin {None, Torn}
        BY <2>2, <2>3, <3>2 DEF Load
      <3> QED BY <3>1, <3>2
    <2>5. Open' = ToSet(queue') /\ ToSet(deferred') = {}
      BY <1>1, <2>1 DEF Open
    <2>6. InOrder(deferred', done', counter', life')
      BY <1>1, <2>1, <2>4 DEF InOrder
    <2>7. /\ \A t, u \in Open' : Drawn(t) /\ t.id = u.id => t = u
          /\ \A t \in Open' : /\ Drawn(t) => t.id \notin done'
                              /\ t.id.num <= counter' /\ t.life <= life'
      BY <2>4, <2>5 DEF InOrder
    <2> QED BY <2>1, <2>3, <2>4, <2>5, <2>6, <2>7 DEF Order
  <1> QED BY <1>2, <1>3

LEMMA InitStore == Init => StoreInv
  <1> SUFFICES ASSUME Init PROVE StoreInv
    OBVIOUS
  <1>1. ToSet(<<>>) = {}
    BY DEF ToSet
  <1>2. Open = {} /\ InOrder(queue, done, counter, life) /\ InOrder(deferred, done, counter, life)
    BY <1>1, EmptyInOrder DEF Init, Open
  <1> QED BY <1>1, <1>2, InitType DEF Init, StoreInv

LEMMA NextStore == StoreInv /\ [Next]_vars => StoreInv'
  <1> SUFFICES ASSUME StoreInv, Next PROVE StoreInv'
    <2>1. ASSUME StoreInv, UNCHANGED vars PROVE StoreInv'
      BY <2>1 DEF vars, StoreInv, TypeOK, Open
    <2> QED BY <2>1
  <1>1. TypeOK /\ TypeOK'
    BY NextType DEF StoreInv
  <1>2. ~up' => deferred' = <<>> /\ running' = {} /\ failed' = {}
    BY DEF Next, StoreInv, Generate, Recover, Pop, Restore, StartMap, EndMap, Complete, Fail, Requeue, Truncate, Write,
           Reset, Stop, Boot, Free
  <1>3. ~reset => Order
    BY DEF StoreInv, Order
  <1>4. ~reset' => ~Reset /\ ~reset
    BY DEF Next, Generate, Recover, Pop, Restore, StartMap, EndMap, Complete, Fail, Requeue, Truncate,
           Write, Reset, Stop, Boot, lifeVars
  <1>5. ~reset' => Order'
    BY <1>1, <1>3, <1>4, GenerateOrder, RecoverOrder, PopOrder, RestoreOrder, ExecutorOrder, RequeueOrder,
       SaveOrder, HeadOrder
       DEF Next
  <1> QED BY <1>1, <1>2, <1>5 DEF StoreInv, Order

\* For any number of tasks, restarts and failed writes: the order of the store.
THEOREM StoreInvariance == Spec => []StoreInv
  <1> QED BY InitStore, NextStore, PTL DEF Spec

\* state.py:34: the counter gives unique ids.
THEOREM IdsAreUnique == Spec => []UniqueIds
  <1>1. StoreInv => UniqueIds
    <2> SUFFICES ASSUME StoreInv, ~reset PROVE UniqueIds
      BY DEF UniqueIds
    <2>1. Distinct(deferred) /\ Distinct(queue) /\ ToSet(deferred) \cap ToSet(queue) = {}
      BY DEF StoreInv, InOrder, Distinct
    <2>2. Distinct(deferred \o queue)
      BY <2>1, ConcatSet DEF StoreInv, TypeOK
    <2> QED BY <2>2 DEF StoreInv, UniqueIds, Distinct
  <1> QED BY <1>1, StoreInvariance, PTL

\* No open task is in the cache that releases the tasks depending on it.
THEOREM OpenTasksAreNotDone == Spec => []OpenIsNotDone
  <1>1. StoreInv => OpenIsNotDone
    BY DEF StoreInv, InOrder, OpenIsNotDone
  <1> QED BY <1>1, StoreInvariance, PTL

(***************************************************************************)
(* What the file holds once nobody is saving.                              *)
(***************************************************************************)

\* Popping a task moves it from the queue to the executors.
LEMMA PoppedIsOpen ==
  ASSUME TypeOK, NEW i \in 1..Len(queue), Pop(i)
  PROVE  /\ ToSet(queue') \cup ToSet(deferred') \subseteq ToSet(queue) \cup ToSet(deferred)
         /\ Open \subseteq Open'
  <1>1. /\ RemoveAt(queue, i) \in Seq(Task) /\ Len(RemoveAt(queue, i)) = Len(queue) - 1
        /\ \A j \in 1..(i - 1) : RemoveAt(queue, i)[j] = queue[j]
        /\ \A j \in i..(Len(queue) - 1) : RemoveAt(queue, i)[j] = queue[j + 1]
    BY RemoveAtElements DEF TypeOK
  <1>2. Len(queue) \in Nat /\ DOMAIN queue = 1..Len(queue) /\ i \in Nat
    BY LenProperties DEF TypeOK
  <1>3. queue' = RemoveAt(queue, i) /\ failed' = failed
    BY DEF Pop
  <1>4. DOMAIN queue' = 1..(Len(queue) - 1)
    BY <1>1, <1>3, LenProperties
  <1>5. ASSUME NEW j \in 1..(Len(queue) - 1) PROVE queue'[j] \in ToSet(queue)
    <2>1. CASE j < i
      BY <2>1, <1>1, <1>2, <1>3 DEF ToSet
    <2>2. CASE j >= i
      <3>1. j + 1 \in 1..Len(queue) /\ queue'[j] = queue[j + 1]
        BY <2>2, <1>1, <1>2, <1>3
      <3> QED BY <3>1, <1>2 DEF ToSet
    <2> QED BY <2>1, <2>2, <1>2
  <1>6. ASSUME NEW k \in 1..Len(queue), k # i PROVE queue[k] \in ToSet(queue')
    <2>1. CASE k < i
      <3>1. k \in 1..(Len(queue) - 1) /\ queue'[k] = queue[k]
        BY <2>1, <1>1, <1>2, <1>3
      <3> QED BY <3>1, <1>4 DEF ToSet
    <2>2. CASE k > i
      <3>1. k - 1 \in 1..(Len(queue) - 1) /\ queue'[k - 1] = queue[k]
        BY <2>2, <1>1, <1>2, <1>3
      <3> QED BY <3>1, <1>4 DEF ToSet
    <2> QED BY <2>1, <2>2, <1>2, <1>6
  <1>7. ToSet(queue') \subseteq ToSet(queue)
    BY <1>4, <1>5 DEF ToSet
  <1>8. ToSet(queue) \subseteq ToSet(queue') \cup {queue[i]}
    BY <1>2, <1>6 DEF ToSet
  <1>9. CASE running' = running \cup {queue[i]} /\ deferred' = deferred
    BY <1>3, <1>7, <1>8, <1>9 DEF Open
  <1>10. CASE deferred' = Append(deferred, queue[i]) /\ running' = running
    <2>1. queue[i] \in Task /\ queue[i] \in ToSet(queue)
      BY <1>2, OpenTasks DEF ToSet
    <2>2. ToSet(Append(deferred, queue[i])) = ToSet(deferred) \cup {queue[i]}
      BY <2>1, AppendSet DEF TypeOK
    <2> QED BY <1>3, <1>7, <1>8, <1>10, <2>1, <2>2 DEF Open
  <1> QED BY <1>9, <1>10 DEF Pop

LEMMA QuietStep == StoreInv /\ SavedWhenQuiet /\ [Next]_vars => SavedWhenQuiet'
  <1> SUFFICES ASSUME StoreInv, SavedWhenQuiet, [Next]_vars, up', savers' = {}, ~stale'
               PROVE  SavedWhenQuiet'
    BY DEF SavedWhenQuiet
  <1> DEFINE Kept  == /\ file \notin {None, Torn} /\ file.counter = counter /\ file.done = done
                      /\ file.lineage = lineage
                      /\ (ToSet(queue) \cup ToSet(deferred)) \ missed \subseteq ToSet(file.queue)
                      /\ ToSet(file.queue) \subseteq Open \cup {t \in Task : t.id \in done}
  <1>0. TypeOK
    BY DEF StoreInv
  <1>1. CASE UNCHANGED vars
    BY <1>1 DEF vars, SavedWhenQuiet, Open
  <1>2. ASSUME NEW i \in 1..Len(queue), Pop(i) PROVE SavedWhenQuiet'
    <2>1. /\ up /\ savers = {} /\ ~stale /\ file' = file /\ missed' = missed
          /\ done' = done /\ lineage' = lineage /\ counter' = counter
      BY <1>2 DEF Pop, saveVars
    <2>2. queue # <<>>
      <3>1. Len(<<>>) = 0
        OBVIOUS
      <3> QED BY <3>1
    <2>3. Kept
      BY <2>1, <2>2 DEF SavedWhenQuiet
    <2>4. Kept'
      BY <1>0, <1>2, <2>1, <2>3, PoppedIsOpen
    <2> QED BY <2>4 DEF SavedWhenQuiet
  <1>3. CASE Write
    <2>1. /\ file' = Snapshot /\ queue' = queue /\ done' = done /\ counter' = counter
          /\ lineage' = lineage
          /\ running' = running /\ failed' = failed
          /\ deferred' = deferred /\ missed' = ToSet(deferred)
      BY <1>3 DEF Write, memVars, execVars
    <2>2. Snapshot \in Saved
      BY <1>0 DEF Snapshot, Saved, TypeOK
    <2>3. file' \notin {None, Torn}
      BY <2>1, <2>2, StoreAssumption
    <2>4. file'.queue = queue /\ file'.done = done /\ file'.lineage = lineage /\ file'.counter = counter
      BY <2>1 DEF Snapshot
    <2>5. Kept'
      BY <2>1, <2>3, <2>4 DEF Open
    <2> QED BY <2>5 DEF SavedWhenQuiet
  <1>4. CASE Boot
    <2>1. Load(file') /\ deferred' = <<>> /\ ToSet(<<>>) = {}
      BY <1>4 DEF Boot, StoreInv, ToSet
    <2>2. CASE file' \in {None, Torn}
      BY <2>1, <2>2 DEF Load, SavedWhenQuiet
    <2>3. CASE file' \notin {None, Torn}
      <3>1. Kept'
        BY <2>1, <2>3 DEF Load, Open
      <3> QED BY <3>1 DEF SavedWhenQuiet
    <2> QED BY <2>2, <2>3
  <1>5. ~Stop /\ ~Reset /\ ~\E x \in savers : Truncate(x)
    BY DEF Stop, Reset, Truncate
  <1>6. /\ ~\E n \in 1..MaxBatch : Generate(n)
        /\ ~\E k \in 1..MaxBatch : \E names \in [1..k -> lineage] : Recover(names)
        /\ ~\E t \in running : \/ \E k \in 1..MaxParts : StartMap(t, k)
                              \/ \E S \in SUBSET lineage : EndMap(t, S)
                              \/ Complete(t) \/ Fail(t)
        /\ ~\E t \in failed : Requeue(t)
    BY DEF Generate, Recover, StartMap, EndMap, Complete, Fail, Requeue
  <1>7. CASE Restore
    <2>1. /\ up /\ savers = {} /\ ~stale /\ file' = file /\ missed' = missed
          /\ done' = done /\ lineage' = lineage /\ counter' = counter
          /\ running' = running /\ failed' = failed
          /\ queue' = deferred \o queue /\ deferred' = <<>> /\ deferred # <<>>
      BY <1>7 DEF Restore, Free, saveVars, execVars
    <2>2. ToSet(queue') = ToSet(deferred) \cup ToSet(queue) /\ ToSet(deferred') = {}
      <3>1. ToSet(deferred \o queue) = ToSet(deferred) \cup ToSet(queue)
        BY <1>0, ConcatSet DEF TypeOK
      <3>2. ToSet(<<>>) = {}
        BY DEF ToSet
      <3> QED BY <2>1, <3>1, <3>2
    <2>3. Kept
      BY <2>1 DEF SavedWhenQuiet
    <2>4. Kept'
      BY <2>1, <2>2, <2>3 DEF Open
    <2> QED BY <2>4 DEF SavedWhenQuiet
  <1> QED BY <1>1, <1>2, <1>3, <1>4, <1>5, <1>6, <1>7 DEF Next

\* project_proposal.md:282: once nobody is saving and the last write did not fail,
\* a restart that reads the file finds the counter, the cache and every waiting task,
\* but for those the scheduler had deferred when the file was written.
THEOREM FileIsUpToDate == Spec => []SavedWhenQuiet
  <1>1. Init => SavedWhenQuiet
    BY DEF Init, SavedWhenQuiet
  <1>2. StoreInv /\ SavedWhenQuiet /\ [Next]_vars => SavedWhenQuiet'
    BY QuietStep
  <1> QED BY <1>1, <1>2, StoreInvariance, PTL DEF Spec
=============================================================================
