---------------------------- MODULE QTable_proofs ----------------------------
(***************************************************************************)
(* Without a lock updates of the Q-table may be lost, but no update fails, *)
(* and the exploration rate stays in its range, for any number of threads  *)
(* and states.                                                             *)
(***************************************************************************)
EXTENDS QTable, TLAPS

\* The part of update_q_value in which the two states are looked for.
Updating == {"look1", "miss1", "read", "look2", "miss2", "write"}

\* From its begin to the assignment an update is about two states of the table.
KeysAreStates == \A t \in Thread : pc[t] \in Updating => key[t] \in State \X State

QInv == TypeOK /\ KeysAreStates /\ RowIsThere

LEMMA TypesOfParts ==
  ASSUME QInv
  PROVE  /\ table \in [State -> Row] /\ pc \in [Thread -> Label]
         /\ 0 \in Row /\ NoRow \in Row /\ 0 # NoRow /\ Empty \in [State -> Row]
         /\ None \notin State
  BY TableAssumption DEF QInv, TypeOK, Row, Empty

\* Init has no thread in an update.
LEMMA InitQ == Init => QInv
  <1> SUFFICES ASSUME Init PROVE QInv
    OBVIOUS
  <1>1. Empty \in [State -> Row]
    BY DEF Empty, Row
  <1>2. TypeOK
    BY <1>1, TableAssumption DEF Init, TypeOK, Label
  <1>3. KeysAreStates /\ RowIsThere
    BY DEF Init, KeysAreStates, RowIsThere, Updating
  <1> QED BY <1>2, <1>3 DEF QInv

\* A row that is added makes no thread lose one.
LEMMA AddRowKeeps ==
  ASSUME QInv, NEW s \in State, NEW p \in [Thread -> Label], AddRow(s, p)
  PROVE  /\ table' \in [State -> Row] /\ pc' \in [Thread -> Label] /\ table'[s] # NoRow
         /\ \A r \in State : table[r] # NoRow => table'[r] # NoRow
         /\ \A t \in Thread : pc'[t] \in Updating => pc'[t] = p[t]
  BY TypesOfParts DEF AddRow, Label, Updating

LEMMA BeginKeeps ==
  ASSUME QInv, NEW t \in Thread, NEW s \in State, NEW n \in State, Begin(t, s, n)
  PROVE  QInv'
  <1> USE TypesOfParts
  <1>1. TypeOK'
    BY DEF Begin, Goto, QInv, TypeOK, Label
  <1>2. KeysAreStates'
    BY DEF Begin, Goto, QInv, TypeOK, KeysAreStates
  <1>3. RowIsThere'
    BY DEF Begin, Goto, QInv, TypeOK, RowIsThere
  <1> QED BY <1>1, <1>2, <1>3 DEF QInv

LEMMA LookUpKeeps ==
  ASSUME QInv, NEW t \in Thread, NEW i \in {1, 2}, LookUp(t, i)
  PROVE  QInv'
  <1> USE TypesOfParts
  <1>0. pc[t] \in Updating /\ (i = 1 => pc[t] = "look1") /\ (i = 2 => pc[t] = "look2")
    BY DEF LookUp, Look, Updating
  <1>1. /\ pc' = [pc EXCEPT ![t] = pc'[t]]
        /\ i = 1 => \/ pc'[t] = "miss1"
                    \/ pc'[t] = "read" /\ table[key[t][1]] # NoRow
        /\ i = 2 => pc'[t] \in {"miss2", "write"}
    BY DEF LookUp, Goto, Miss, Then
  <1>2. TypeOK'
    BY <1>1 DEF LookUp, QInv, TypeOK, Label
  <1>3. KeysAreStates'
    BY <1>0, <1>1 DEF LookUp, QInv, TypeOK, KeysAreStates
  <1>4. RowIsThere'
    BY <1>0, <1>1 DEF LookUp, QInv, TypeOK, RowIsThere
  <1> QED BY <1>2, <1>3, <1>4 DEF QInv

LEMMA AddKeeps ==
  ASSUME QInv, NEW t \in Thread, NEW i \in {1, 2}, Add(t, i)
  PROVE  QInv'
  <1> USE TypesOfParts
  <1> DEFINE p == [pc EXCEPT ![t] = Then[i]]
  <1>0. pc[t] = Miss[i] /\ pc[t] \in Updating
        /\ (i = 1 => pc[t] = "miss1" /\ Then[i] = "read")
        /\ (i = 2 => pc[t] = "miss2" /\ Then[i] = "write")
    BY DEF Add, Miss, Then, Updating
  <1>1. p \in [Thread -> Label] /\ p[t] = Then[i] /\ \A r \in Thread : r # t => p[r] = pc[r]
    BY <1>0 DEF Label
  <1>2. key[t] \in State \X State /\ key[t][i] \in State /\ key[t][1] \in State
    BY <1>0 DEF QInv, KeysAreStates
  <1>3. AddRow(key[t][i], p) /\ UNCHANGED <<epsilon, file, key, value, rate, copy, adding, boots, alone>>
    BY DEF Add
  <1> HIDE DEF p
  <1>4. /\ table' \in [State -> Row] /\ pc' \in [Thread -> Label] /\ table'[key[t][i]] # NoRow
        /\ \A r \in State : table[r] # NoRow => table'[r] # NoRow
        /\ \A r \in Thread : pc'[r] \in Updating => pc'[r] = p[r]
    BY <1>1, <1>2, <1>3, AddRowKeeps
  <1>5. TypeOK'
    BY <1>3, <1>4 DEF QInv, TypeOK
  <1>6. KeysAreStates'
    BY <1>1, <1>2, <1>3, <1>4 DEF QInv, KeysAreStates
  <1>7. ASSUME NEW r \in Thread, pc'[r] \in {"read", "look2", "miss2", "write"}
        PROVE  table'[key'[r][1]] # NoRow
    <2>1. pc'[r] = p[r] /\ key'[r] = key[r]
      BY <1>3, <1>4, <1>7 DEF Updating
    <2>2. CASE r = t
      BY <1>0, <1>2, <1>4, <2>1, <2>2 DEF QInv, RowIsThere
    <2>3. CASE r # t
      <3>1. pc[r] \in {"read", "look2", "miss2", "write"}
        BY <1>1, <1>7, <2>1, <2>3
      <3>2. key[r][1] \in State /\ table[key[r][1]] # NoRow
        BY <3>1 DEF QInv, KeysAreStates, RowIsThere, Updating
      <3> QED BY <1>4, <2>1, <3>2
    <2> QED BY <2>2, <2>3
  <1>8. RowIsThere'
    BY <1>7 DEF RowIsThere
  <1> QED BY <1>5, <1>6, <1>8 DEF QInv

LEMMA ReadKeeps ==
  ASSUME QInv, NEW t \in Thread, Read(t)
  PROVE  QInv'
  <1> USE TypesOfParts
  <1>0. key[t] \in State \X State /\ table[key[t][1]] # NoRow
    BY DEF Read, QInv, KeysAreStates, RowIsThere, Updating
  <1>1. table[key[t][1]] \in 0..MaxValue
    BY <1>0 DEF Row
  <1>2. TypeOK'
    BY <1>1 DEF Read, Goto, QInv, TypeOK, Label
  <1>3. KeysAreStates'
    BY <1>0 DEF Read, Goto, QInv, TypeOK, KeysAreStates
  <1>4. RowIsThere'
    BY <1>0 DEF Read, Goto, QInv, TypeOK, RowIsThere
  <1> QED BY <1>2, <1>3, <1>4 DEF QInv

LEMMA WriteBackKeeps ==
  ASSUME QInv, NEW t \in Thread, WriteBack(t)
  PROVE  QInv'
  <1> USE TypesOfParts
  <1> DEFINE v == IF value[t] < MaxValue THEN value[t] + 1 ELSE MaxValue
  <1>0. key[t] \in State \X State /\ key[t][1] \in State
    BY DEF WriteBack, QInv, KeysAreStates, Updating
  <1>1. v \in 0..MaxValue /\ v \in Row /\ v # NoRow
    BY TableAssumption DEF QInv, TypeOK, Row
  <1>2. table' = [table EXCEPT ![key[t][1]] = v]
    BY DEF WriteBack
  <1> HIDE DEF v
  <1>3. table' \in [State -> Row] /\ \A s \in State : table[s] # NoRow => table'[s] # NoRow
    BY <1>0, <1>1, <1>2
  <1>4. 0 \in 0..MaxValue /\ <<None, None>> \in (State \cup {None}) \X (State \cup {None})
    BY TableAssumption
  <1>5. TypeOK'
    BY <1>3, <1>4 DEF WriteBack, Goto, QInv, TypeOK, Label
  <1>6. /\ \A r \in Thread : r # t => pc'[r] = pc[r] /\ key'[r] = key[r]
        /\ pc'[t] = "test"
    BY DEF WriteBack, Goto, QInv, TypeOK
  <1>7. KeysAreStates'
    BY <1>6 DEF QInv, KeysAreStates, Updating
  <1>8. RowIsThere'
    <2> SUFFICES ASSUME NEW r \in Thread, pc'[r] \in {"read", "look2", "miss2", "write"}
                 PROVE  table'[key'[r][1]] # NoRow
      BY DEF RowIsThere
    <2>1. r # t /\ pc[r] = pc'[r] /\ key'[r] = key[r]
      BY <1>6
    <2>2. key[r][1] \in State /\ table[key[r][1]] # NoRow
      BY <2>1 DEF QInv, KeysAreStates, RowIsThere, Updating
    <2> QED BY <1>3, <2>1, <2>2
  <1> QED BY <1>5, <1>7, <1>8 DEF QInv

\* The decay tests, computes and assigns, and each time a thread may come between.
LEMMA RateKeeps ==
  ASSUME QInv, NEW t \in Thread, TestRate(t) \/ Decay(t) \/ Store(t)
  PROVE  QInv'
  <1> USE TypesOfParts, TableAssumption
  <1>1. TypeOK'
    <2>1. CASE TestRate(t)
      BY <2>1 DEF TestRate, Goto, QInv, TypeOK, Label
    <2>2. CASE Decay(t)
      BY <2>2 DEF Decay, Goto, QInv, TypeOK, Label
    <2>3. CASE Store(t)
      BY <2>3 DEF Store, Goto, QInv, TypeOK, Label
    <2> QED BY <2>1, <2>2, <2>3
  <1>2. /\ pc'[t] \notin Updating /\ \A r \in Thread : r # t => pc'[r] = pc[r]
        /\ key' = key /\ table' = table
    BY DEF TestRate, Decay, Store, Goto, QInv, TypeOK, Updating
  <1>3. KeysAreStates' /\ RowIsThere'
    BY <1>2 DEF QInv, KeysAreStates, RowIsThere, Updating
  <1> QED BY <1>1, <1>3 DEF QInv

LEMMA SaveKeeps ==
  ASSUME QInv, NEW t \in Thread,
         OpenFile(t) \/ (\E s \in State : Dump(t, s)) \/ EndDump(t) \/ CloseFile(t)
  PROVE  QInv'
  <1> USE TypesOfParts, TableAssumption
  <1>1. TypeOK'
    <2>1. CASE OpenFile(t)
      BY <2>1 DEF OpenFile, Goto, QInv, TypeOK, Label
    <2>2. CASE \E s \in State : Dump(t, s)
      BY <2>2 DEF Dump, QInv, TypeOK
    <2>3. CASE EndDump(t)
      BY <2>3 DEF EndDump, Goto, QInv, TypeOK, Label
    <2>4. CASE CloseFile(t)
      <3>1. file' \in [State -> Row] \cup {None, Torn}
        <4>1. CASE file' \in Mixtures(t) /\ Whole(file)
          <5>1. file \in [State -> Row] /\ copy[t] \in [State -> Row]
            BY <4>1 DEF QInv, TypeOK, Whole
          <5> QED BY <4>1, <5>1 DEF Mixtures
        <4> QED BY <2>4, <4>1 DEF CloseFile, QInv, TypeOK
      <3>2. alone' \subseteq Thread \cup {None}
        BY <2>4 DEF CloseFile, QInv, TypeOK
      <3>3. copy' \in [Thread -> [State -> Row]] /\ pc' \in [Thread -> Label]
        BY <2>4 DEF CloseFile, Goto, QInv, TypeOK, Label
      <3> QED BY <2>4, <3>1, <3>2, <3>3 DEF CloseFile, QInv, TypeOK
    <2> QED BY <2>1, <2>2, <2>3, <2>4
  <1>2. /\ pc'[t] \notin Updating /\ \A r \in Thread : r # t => pc'[r] = pc[r]
        /\ key' = key /\ table' = table
    BY DEF OpenFile, Dump, EndDump, CloseFile, Goto, QInv, TypeOK, Updating
  <1>3. KeysAreStates' /\ RowIsThere'
    BY <1>2 DEF QInv, KeysAreStates, RowIsThere, Updating
  <1> QED BY <1>1, <1>3 DEF QInv

\* The scheduler thread adds rows under the feet of the executors.
LEMMA ChoiceKeeps ==
  ASSUME QInv, (\E s \in State : Choose(s)) \/ AddChosen
  PROVE  QInv'
  <1> USE TypesOfParts
  <1>1. CASE \E s \in State : Choose(s)
    <2>1. TypeOK'
      BY <1>1 DEF Choose, QInv, TypeOK
    <2>2. KeysAreStates' /\ RowIsThere'
      BY <1>1 DEF Choose, QInv, KeysAreStates, RowIsThere
    <2> QED BY <2>1, <2>2 DEF QInv
  <1>2. CASE AddChosen
    <2>1. adding \in State /\ AddRow(adding, pc)
      BY <1>2 DEF AddChosen, QInv, TypeOK
    <2>2. /\ table' \in [State -> Row] /\ pc' \in [Thread -> Label]
          /\ \A r \in State : table[r] # NoRow => table'[r] # NoRow
          /\ \A t \in Thread : pc'[t] \in Updating => pc'[t] = pc[t]
      BY <2>1, AddRowKeeps
    <2>3. TypeOK'
      BY <1>2, <2>2 DEF AddChosen, QInv, TypeOK
    <2>4. KeysAreStates'
      BY <1>2, <2>2 DEF AddChosen, QInv, KeysAreStates
    <2>5. RowIsThere'
      <3> SUFFICES ASSUME NEW r \in Thread, pc'[r] \in {"read", "look2", "miss2", "write"}
                   PROVE  table'[key'[r][1]] # NoRow
        BY DEF RowIsThere
      <3>1. pc[r] = pc'[r] /\ key'[r] = key[r]
        BY <1>2, <2>2 DEF AddChosen, Updating
      <3>2. key[r][1] \in State /\ table[key[r][1]] # NoRow
        BY <3>1 DEF QInv, KeysAreStates, RowIsThere, Updating
      <3> QED BY <2>2, <3>1, <3>2
    <2> QED BY <2>3, <2>4, <2>5 DEF QInv
  <1> QED BY <1>1, <1>2

LEMMA BootKeeps == ASSUME QInv, Boot PROVE QInv'
  <1> USE TypesOfParts, TableAssumption
  <1>1. table' \in [State -> Row]
    BY DEF Boot, Whole, QInv, TypeOK
  <1>2. TypeOK'
    BY <1>1 DEF Boot, QInv, TypeOK, Label
  <1>3. KeysAreStates' /\ RowIsThere'
    BY DEF Boot, KeysAreStates, RowIsThere, Updating
  <1> QED BY <1>2, <1>3 DEF QInv

LEMMA StepKeeps == QInv /\ [Next]_vars => QInv'
  <1> SUFFICES ASSUME QInv, [Next]_vars PROVE QInv'
    OBVIOUS
  <1>1. CASE SomeBegin
    BY <1>1, BeginKeeps DEF SomeBegin
  <1>2. ASSUME NEW t \in Thread, Step(t) PROVE QInv'
    BY <1>2, LookUpKeeps, AddKeeps, ReadKeeps, WriteBackKeeps, RateKeeps, SaveKeeps DEF Step
  <1>3. CASE (\E s \in State : Choose(s)) \/ AddChosen
    BY <1>3, ChoiceKeeps
  <1>4. CASE Boot
    BY <1>4, BootKeeps
  <1>5. CASE UNCHANGED vars
    BY <1>5 DEF vars, QInv, TypeOK, KeysAreStates, RowIsThere
  <1> QED BY <1>1, <1>2, <1>3, <1>4, <1>5 DEF Next

\* Whatever the threads interleave, the table, the rate and the file keep their
\* types; the rate stays between its minimum and 1.0 (agent.py:226-231).
THEOREM TypeCorrect == Spec => []TypeOK
  <1> QED BY InitQ, StepKeeps, PTL DEF Spec, QInv

\* No update meets a state whose row is missing (agent.py:150-164).
THEOREM NoUpdateFails == Spec => []RowIsThere
  <1> QED BY InitQ, StepKeeps, PTL DEF Spec, QInv

(***************************************************************************)
(* What save_q_table leaves in the file.                                   *)
(*                                                                         *)
(* A thread that has assigned a value will open the file, so nothing has   *)
(* to hold as long as there is one. Once there is none, a thread that      *)
(* writes the file alone has copied values that are still those of the     *)
(* table: another one that changed a row since would have to save it.      *)
(***************************************************************************)
WillSave  == {t \in Thread : pc[t] \in {"test", "decay", "store", "open"}}
Learnt(s) == table[s] \notin {NoRow, 0}

\* A thread that has met no other is the only one that writes.
OnlySaver == \A t \in Thread : t \in alone => Saving = {t}

\* A save begins with nothing copied.
CopyIsEmpty == \A t \in Thread : t \notin Saving => copy[t] = Empty

\* What it has copied is what was learnt.
CopyIsGood ==
  WillSave = {} => \A t \in Thread : t \in alone => \A s \in State : Learnt(s) =>
    /\ pc[t] = "dump" => copy[t][s] \in {NoRow, table[s]}
    /\ pc[t] = "close" => copy[t][s] = table[s]

\* SavedTable needs no thread to be idle: it is enough that none will save.
FileIsGood ==
  WillSave = {} /\ Saving = {} /\ None \in alone /\ file # Torn =>
    \A s \in State : Learnt(s) => Whole(file) /\ file[s] = table[s]

SaveInv == OnlySaver /\ CopyIsEmpty /\ CopyIsGood /\ FileIsGood

LEMMA InitSave == Init => SaveInv
  <1> SUFFICES ASSUME Init PROVE SaveInv
    OBVIOUS
  <1>1. \A t \in Thread : t \notin alone
    BY TableAssumption DEF Init
  <1>2. \A s \in State : ~Learnt(s)
    BY DEF Init, Learnt, Empty
  <1> QED BY <1>1, <1>2 DEF Init, SaveInv, OnlySaver, CopyIsEmpty, CopyIsGood, FileIsGood

\* A step that begins or ends no save: if afterwards no thread will save, then
\* none would before, and what was learnt has not changed.
LEMMA OutsideSave ==
  ASSUME SaveInv, Saving' = Saving, UNCHANGED <<file, copy, alone>>,
         WillSave' = {} =>
           /\ WillSave = {}
           /\ \A t \in Thread : pc'[t] \in {"dump", "close"} => pc'[t] = pc[t]
           /\ \A s \in State : Learnt(s)' => Learnt(s) /\ table'[s] = table[s]
  PROVE  SaveInv'
  <1>1. OnlySaver' /\ CopyIsEmpty'
    BY DEF SaveInv, OnlySaver, CopyIsEmpty
  <1>2. CopyIsGood'
    <2> SUFFICES ASSUME WillSave' = {}, NEW t \in Thread, t \in alone', NEW s \in State, Learnt(s)'
                 PROVE  /\ pc'[t] = "dump" => copy'[t][s] \in {NoRow, table'[s]}
                        /\ pc'[t] = "close" => copy'[t][s] = table'[s]
      BY DEF CopyIsGood
    <2> QED BY DEF SaveInv, CopyIsGood
  <1>3. FileIsGood'
    <2> SUFFICES ASSUME WillSave' = {}, Saving' = {}, None \in alone', file' # Torn,
                        NEW s \in State, Learnt(s)'
                 PROVE  Whole(file)' /\ file'[s] = table'[s]
      BY DEF FileIsGood
    <2>1. Whole(file) /\ file[s] = table[s]
      BY DEF SaveInv, FileIsGood
    <2> QED BY <2>1 DEF Whole
  <1> QED BY <1>1, <1>2, <1>3 DEF SaveInv

\* A thread that moves between two labels outside the writing of the file.
LEMMA MoveOutside ==
  ASSUME QInv, SaveInv, NEW t \in Thread, NEW l \in Label, Goto(t, l),
         {pc[t], l} \cap {"dump", "close", "fail"} = {},
         UNCHANGED <<table, file, copy, alone>>,
         l \in {"test", "decay", "store", "open"} \/ pc[t] \notin {"test", "decay", "store", "open"}
  PROVE  SaveInv'
  <1>1. /\ pc'[t] = l /\ \A r \in Thread : r # t => pc'[r] = pc[r]
    BY DEF Goto, QInv, TypeOK
  <1>2. Saving' = Saving
    BY <1>1 DEF Saving
  <1>3. WillSave' = {} => WillSave = {}
    BY <1>1 DEF WillSave
  <1>4. \A r \in Thread : pc'[r] \in {"dump", "close"} => pc'[r] = pc[r]
    BY <1>1
  <1>5. \A s \in State : Learnt(s)' => Learnt(s) /\ table'[s] = table[s]
    BY DEF Learnt
  <1> QED BY <1>2, <1>3, <1>4, <1>5, OutsideSave

\* A row of zeros is nothing learnt, and a save that fails is still one.
LEMMA AddRowOutside ==
  ASSUME QInv, SaveInv, NEW s \in State, NEW p \in [Thread -> Label], AddRow(s, p),
         \A t \in Thread : p[t] = pc[t] \/ {p[t], pc[t]} \subseteq Updating,
         UNCHANGED <<file, copy, alone>>
  PROVE  SaveInv'
  <1>1. \A t \in Thread : \/ pc'[t] = pc[t]
                          \/ pc[t] = "dump" /\ pc'[t] = "fail"
                          \/ {pc'[t], pc[t]} \subseteq Updating
    BY DEF AddRow, Updating
  <1>2. Saving' = Saving /\ WillSave' = WillSave
    BY <1>1 DEF Saving, WillSave, Updating
  <1>3. \A t \in Thread : pc'[t] \in {"dump", "close"} => pc'[t] = pc[t]
    BY <1>1 DEF Updating
  <1>4. \A r \in State : Learnt(r)' => Learnt(r) /\ table'[r] = table[r]
    BY TypesOfParts DEF AddRow, Learnt
  <1> QED BY <1>2, <1>3, <1>4, OutsideSave

LEMMA UpdateSaves ==
  ASSUME QInv, SaveInv, NEW t \in Thread,
         \/ \E s, n \in State : Begin(t, s, n)
         \/ \E i \in {1, 2} : LookUp(t, i)
         \/ Read(t) \/ TestRate(t) \/ Decay(t) \/ Store(t)
  PROVE  SaveInv'
  <1>1. CASE \E s, n \in State : Begin(t, s, n)
    BY <1>1, MoveOutside DEF Begin, Label
  <1>2. CASE \E i \in {1, 2} : LookUp(t, i)
    <2> PICK i \in {1, 2} : LookUp(t, i)
      BY <1>2
    <2>1. PICK l \in {"miss1", "read", "miss2", "write"} : Goto(t, l)
      BY DEF LookUp, Miss, Then
    <2>2. pc[t] \in {"look1", "look2"} /\ UNCHANGED <<table, file, copy, alone>>
      BY DEF LookUp, Look
    <2> QED BY <2>1, <2>2, MoveOutside DEF Label
  <1>3. CASE Read(t)
    BY <1>3, MoveOutside DEF Read, Label
  <1>4. CASE TestRate(t)
    BY <1>4, MoveOutside DEF TestRate, Label
  <1>5. CASE Decay(t)
    BY <1>5, MoveOutside DEF Decay, Label
  <1>6. CASE Store(t)
    BY <1>6, MoveOutside DEF Store, Label
  <1> QED BY <1>1, <1>2, <1>3, <1>4, <1>5, <1>6

\* Rows that an executor or the scheduler adds.
LEMMA AddSaves ==
  ASSUME QInv, SaveInv, AddChosen \/ \E t \in Thread : \E i \in {1, 2} : Add(t, i)
  PROVE  SaveInv'
  <1>1. CASE AddChosen
    <2>1. adding \in State /\ pc \in [Thread -> Label]
      BY <1>1 DEF AddChosen, QInv, TypeOK
    <2> QED BY <1>1, <2>1, AddRowOutside DEF AddChosen
  <1>2. ASSUME NEW t \in Thread, NEW i \in {1, 2}, Add(t, i) PROVE SaveInv'
    <2> DEFINE p == [pc EXCEPT ![t] = Then[i]]
    <2>1. pc[t] \in Updating /\ Then[i] \in Updating /\ Then[i] \in Label
      BY <1>2 DEF Add, Miss, Then, Updating, Label
    <2>2. p \in [Thread -> Label] /\ p[t] = Then[i] /\ \A r \in Thread : r # t => p[r] = pc[r]
      BY <2>1, TypesOfParts
    <2>3. key[t][i] \in State
      BY <2>1 DEF QInv, KeysAreStates
    <2>4. AddRow(key[t][i], p) /\ UNCHANGED <<file, copy, alone>>
      BY <1>2 DEF Add
    <2> HIDE DEF p
    <2>5. \A r \in Thread : p[r] = pc[r] \/ {p[r], pc[r]} \subseteq Updating
      BY <2>1, <2>2
    <2> QED BY <2>2, <2>3, <2>4, <2>5, AddRowOutside
  <1> QED BY <1>1, <1>2

\* The thread that has assigned a value will save it.
LEMMA WriteBackSaves ==
  ASSUME QInv, SaveInv, NEW t \in Thread, WriteBack(t)
  PROVE  SaveInv'
  <1>1. pc[t] = "write" /\ pc'[t] = "test" /\ \A r \in Thread : r # t => pc'[r] = pc[r]
    BY DEF WriteBack, Goto, QInv, TypeOK
  <1>2. Saving' = Saving /\ t \in WillSave'
    BY <1>1 DEF Saving, WillSave
  <1> QED BY <1>2, OutsideSave DEF WriteBack

\* A save begins alone, with nothing copied, or it meets another one, and then
\* no thread is alone.
LEMMA OpenSaves ==
  ASSUME QInv, SaveInv, NEW t \in Thread, OpenFile(t)
  PROVE  SaveInv'
  <1>1. pc[t] = "open" /\ pc'[t] = "dump" /\ \A r \in Thread : r # t => pc'[r] = pc[r]
    BY DEF OpenFile, Goto, QInv, TypeOK
  <1>2. t \notin Saving /\ Saving' = Saving \cup {t} /\ None \notin Thread
    BY <1>1, TableAssumption DEF Saving
  <1>3. copy' = copy /\ table' = table /\ copy[t] = Empty
    BY <1>2 DEF OpenFile, SaveInv, CopyIsEmpty
  <1>4. \A r \in Thread : r \in alone' => r = t /\ Saving = {}
    BY <1>2 DEF OpenFile, SaveInv, OnlySaver
  <1>5. OnlySaver' /\ CopyIsEmpty'
    BY <1>2, <1>3, <1>4 DEF SaveInv, OnlySaver, CopyIsEmpty
  <1>6. CopyIsGood'
    BY <1>1, <1>3, <1>4 DEF CopyIsGood, Empty
  <1>7. FileIsGood'
    BY <1>2 DEF FileIsGood
  <1> QED BY <1>5, <1>6, <1>7 DEF SaveInv

LEMMA DumpSaves ==
  ASSUME QInv, SaveInv, NEW t \in Thread, (\E s \in State : Dump(t, s)) \/ EndDump(t)
  PROVE  SaveInv'
  <1>1. /\ pc[t] = "dump" /\ pc'[t] \in {"dump", "close", "fail"}
        /\ \A r \in Thread : r # t => pc'[r] = pc[r] /\ copy'[r] = copy[r]
        /\ table' = table /\ file' = file /\ alone' = alone
    BY DEF Dump, EndDump, Goto, QInv, TypeOK
  <1>2. Saving' = Saving /\ WillSave' = WillSave /\ t \in Saving
    BY <1>1 DEF Saving, WillSave
  <1>3. OnlySaver' /\ CopyIsEmpty'
    BY <1>1, <1>2 DEF SaveInv, OnlySaver, CopyIsEmpty
  <1>4. FileIsGood'
    BY <1>2 DEF FileIsGood
  <1>5. CopyIsGood'
    <2> SUFFICES ASSUME WillSave' = {}, NEW r \in Thread, r \in alone', NEW s \in State, Learnt(s)'
                 PROVE  /\ pc'[r] = "dump" => copy'[r][s] \in {NoRow, table'[s]}
                        /\ pc'[r] = "close" => copy'[r][s] = table'[s]
      BY DEF CopyIsGood
    <2>1. WillSave = {} /\ r \in alone /\ Learnt(s) /\ table[s] # NoRow
      BY <1>1, <1>2 DEF Learnt
    <2>2. r = t
      BY <1>2, <2>1 DEF SaveInv, OnlySaver
    <2>3. copy[t][s] \in {NoRow, table[s]}
      BY <1>1, <2>1, <2>2 DEF SaveInv, CopyIsGood
    <2>4. CASE \E q \in State : Dump(t, q)
      <3> PICK q \in State : Dump(t, q)
        BY <2>4
      <3>1. pc'[t] = "dump" /\ copy[t] \in [State -> Row]
        BY <1>1 DEF Dump, QInv, TypeOK
      <3>2. copy'[t][s] = IF s = q THEN table[q] ELSE copy[t][s]
        BY <3>1 DEF Dump, QInv, TypeOK
      <3> QED BY <1>1, <2>2, <2>3, <3>1, <3>2
    <2>5. CASE EndDump(t)
      <3>1. copy' = copy /\ (pc'[t] = "close" => copy[t][s] # NoRow) /\ pc'[t] # "dump"
        BY <2>1, <2>5 DEF EndDump, Goto, QInv, TypeOK
      <3> QED BY <1>1, <2>2, <2>3, <3>1
    <2> QED BY <2>4, <2>5
  <1> QED BY <1>3, <1>4, <1>5 DEF SaveInv

\* The file is closed with what the thread has copied, if it was alone.
LEMMA CloseSaves ==
  ASSUME QInv, SaveInv, NEW t \in Thread, CloseFile(t)
  PROVE  SaveInv'
  <1>1. /\ pc[t] \in {"close", "fail"} /\ pc'[t] = "idle"
        /\ \A r \in Thread : r # t => pc'[r] = pc[r] /\ copy'[r] = copy[r]
        /\ copy'[t] = Empty /\ table' = table
    BY DEF CloseFile, Goto, QInv, TypeOK
  <1>2. /\ t \in Saving /\ Saving' = Saving \ {t} /\ WillSave' = WillSave
        /\ None \notin Thread
    BY <1>1, TableAssumption DEF Saving, WillSave
  <1>3. CASE t \in alone
    <2>1. Saving' = {} /\ \A r \in Thread : r \notin alone'
      BY <1>2, <1>3 DEF CloseFile, SaveInv, OnlySaver
    <2>2. file' \in {Torn, copy[t]} /\ (pc[t] = "fail" => file' = Torn)
      BY <1>1, <1>3 DEF CloseFile
    <2>3. OnlySaver' /\ CopyIsEmpty' /\ CopyIsGood'
      BY <1>1, <1>2, <2>1 DEF SaveInv, OnlySaver, CopyIsEmpty, CopyIsGood
    <2>4. FileIsGood'
      <3> SUFFICES ASSUME WillSave' = {}, file' # Torn, NEW s \in State, Learnt(s)'
                   PROVE  Whole(file)' /\ file'[s] = table'[s]
        BY DEF FileIsGood
      <3>1. file' = copy[t] /\ pc[t] = "close" /\ Learnt(s)
        BY <1>1, <2>2 DEF Learnt
      <3>2. copy[t][s] = table[s]
        BY <1>2, <1>3, <3>1 DEF SaveInv, CopyIsGood
      <3>3. copy[t] \in [State -> Row]
        BY DEF QInv, TypeOK
      <3>4. copy[t] \notin {None, Torn}
        BY <3>3, TableAssumption DEF Row
      <3> QED BY <1>1, <3>1, <3>2, <3>4 DEF Whole
    <2> QED BY <2>3, <2>4 DEF SaveInv
  <1>4. CASE t \notin alone
    <2>1. None \notin alone' /\ \A r \in Thread : r \in alone' => r \in alone /\ r # t
      BY <1>4 DEF CloseFile
    <2>2. \A r \in Thread : r \notin alone'
      BY <1>2, <2>1 DEF SaveInv, OnlySaver
    <2>3. CopyIsEmpty'
      BY <1>1, <1>2 DEF SaveInv, CopyIsEmpty
    <2> QED BY <2>1, <2>2, <2>3 DEF SaveInv, OnlySaver, CopyIsGood, FileIsGood
  <1> QED BY <1>3, <1>4

LEMMA BootSaves ==
  ASSUME QInv, SaveInv, Boot
  PROVE  SaveInv'
  <1>1. \A t \in Thread : pc'[t] = "idle" /\ copy'[t] = Empty /\ t \notin alone'
    BY TableAssumption DEF Boot
  <1>2. FileIsGood'
    <2> SUFFICES ASSUME NEW s \in State, Learnt(s)'
                 PROVE  Whole(file)' /\ file'[s] = table'[s]
      BY DEF FileIsGood
    <2>1. table' # Empty
      BY DEF Learnt, Empty
    <2> QED BY <2>1 DEF Boot, Whole
  <1> QED BY <1>1, <1>2 DEF SaveInv, OnlySaver, CopyIsEmpty, CopyIsGood

LEMMA StepSaves == QInv /\ SaveInv /\ [Next]_vars => SaveInv'
  <1> SUFFICES ASSUME QInv, SaveInv, [Next]_vars PROVE SaveInv'
    OBVIOUS
  <1>1. CASE SomeBegin
    BY <1>1, UpdateSaves DEF SomeBegin
  <1>2. ASSUME NEW t \in Thread, Step(t) PROVE SaveInv'
    BY <1>2, UpdateSaves, AddSaves, WriteBackSaves, OpenSaves, DumpSaves, CloseSaves DEF Step
  <1>3. CASE \E s \in State : Choose(s)
    <2>1. UNCHANGED <<table, file, pc, copy, alone>>
      BY <1>3 DEF Choose
    <2>2. Saving' = Saving /\ WillSave' = WillSave /\ \A s \in State : Learnt(s)' = Learnt(s)
      BY <2>1 DEF Saving, WillSave, Learnt
    <2> QED BY <2>1, <2>2, OutsideSave
  <1>4. CASE AddChosen
    BY <1>4, AddSaves
  <1>5. CASE Boot
    BY <1>5, BootSaves
  <1>6. CASE UNCHANGED vars
    <2>1. UNCHANGED <<table, file, pc, copy, alone>>
      BY <1>6 DEF vars
    <2>2. Saving' = Saving /\ WillSave' = WillSave /\ \A s \in State : Learnt(s)' = Learnt(s)
      BY <2>1 DEF Saving, WillSave, Learnt
    <2> QED BY <2>1, <2>2, OutsideSave
  <1> QED BY <1>1, <1>2, <1>3, <1>4, <1>5, <1>6 DEF Next

\* However many threads update and save without a lock, the file holds what was
\* learnt once they are idle, if the last save met no other and did not raise
\* (agent.py:242-249, task_executor.py:740).
THEOREM TableIsSaved == Spec => []SavedTable
  <1>1. FileIsGood => SavedTable
    BY DEF FileIsGood, SavedTable, WillSave, Saving, Learnt
  <1> QED BY <1>1, InitQ, InitSave, StepKeeps, StepSaves, PTL DEF Spec, SaveInv
=============================================================================
