------------------------------- MODULE QTable -------------------------------
(***************************************************************************)
(* What the q_learning mode has learnt: the Q-table and the exploration    *)
(* rate in memory and the JSON file they are kept in. In training mode     *)
(* every executor thread updates them when its task ends and saves the     *)
(* table, and the scheduler thread adds rows when it looks for the best    *)
(* action; none of them holds a lock.                                      *)
(*                                                                         *)
(* A row is one number, 0 as long as nothing was learnt: the actions of a  *)
(* state, rewards and values are left out.                                 *)
(***************************************************************************)
EXTENDS Naturals

CONSTANTS
  Thread,    \* executor threads
  State,     \* states of the environment, the keys of the table
  Top,       \* updates that take epsilon from 1.0 to epsilon_min
  MaxValue,  \* bound: up to which the updates of a row are counted
  MaxBoots,  \* bound: how often the Head boots again
  DiskFull,  \* whether writing the file may raise
  NoRow,     \* the state is not in the table
  Torn,      \* a file that was opened for writing, or is no JSON
  None       \* no file, no state

ASSUME TableAssumption ==
  /\ Top \in Nat \ {0} /\ MaxValue \in Nat \ {0} /\ MaxBoots \in Nat
  /\ DiskFull \in BOOLEAN /\ NoRow \notin Nat /\ None \notin State \cup Thread
  /\ Torn # None /\ {Torn, None} \cap [State -> 0..MaxValue \cup {NoRow}] = {}

\* get_q_value is called for the state of the update, then for the next one.
Look == <<"look1", "look2">>
Miss == <<"miss1", "miss2">>
Then == <<"read", "write">>
Label == {"idle", "look1", "miss1", "read", "look2", "miss2", "write", "test",
          "decay", "store", "open", "dump", "close", "fail"}

VARIABLES
  table,    \* agent.q_table
  epsilon,  \* agent.epsilon: updates that are left until it is epsilon_min
  file,     \* q_table.json
  pc,       \* an executor thread in update_q_value and save_q_table,
  key,      \* the state of its update, and the next one,
  value,    \* the value it has read,
  rate,     \* the rate it has computed,
  copy,     \* and the rows json.dump has written so far
  adding,   \* the state choose_action is about to add a row for
  boots,
  \* What follows is not in the code.
  alone     \* threads in save_q_table that have met no other there, and
            \* None if that holds for the one that ended last

vars == <<table, epsilon, file, pc, key, value, rate, copy, adding, boots, alone>>

Row    == 0..MaxValue \cup {NoRow}
Empty  == [s \in State |-> NoRow]
Saving == {t \in Thread : pc[t] \in {"dump", "close", "fail"}}
Whole(f) == f \notin {None, Torn}

Init ==
  /\ table = Empty /\ epsilon = Top /\ file = None
  /\ pc = [t \in Thread |-> "idle"] /\ key = [t \in Thread |-> <<None, None>>]
  /\ value = [t \in Thread |-> 0] /\ rate = [t \in Thread |-> Top]
  /\ copy = [t \in Thread |-> Empty]
  /\ adding = None /\ boots = 0 /\ alone = {None}

Goto(t, label) == pc' = [pc EXCEPT ![t] = label]

(***************************************************************************)
(* update_q_value.                                                         *)
(***************************************************************************)

\* The task of thread t has ended.
Begin(t, s, n) ==
  /\ pc[t] = "idle" /\ Goto(t, "look1") /\ key' = [key EXCEPT ![t] = <<s, n>>]
  /\ UNCHANGED <<table, epsilon, file, value, rate, copy, adding, boots, alone>>

\* Mutant: the row of the state is taken to be there.
LookUp_Trusting(t, i) ==
  /\ pc[t] = Look[i]
  /\ Goto(t, IF table[key[t][i]] = NoRow /\ i = 2 THEN Miss[i] ELSE Then[i])
  /\ UNCHANGED <<table, epsilon, file, key, value, rate, copy, adding, boots, alone>>

LookUp(t, i) ==
  /\ pc[t] = Look[i]
  /\ Goto(t, IF table[key[t][i]] = NoRow THEN Miss[i] ELSE Then[i])
  /\ UNCHANGED <<table, epsilon, file, key, value, rate, copy, adding, boots, alone>>

\* A row of zeros, also if the row has been added, and learnt in, since it was
\* looked for. Others that write the table out raise if it grows meanwhile.
AddRow(s, p) ==
  /\ table' = [table EXCEPT ![s] = 0]
  /\ pc' = [t \in Thread |->
              IF pc[t] = "dump" /\ copy[t] # Empty /\ table[s] = NoRow THEN "fail" ELSE p[t]]

Add(t, i) ==
  /\ pc[t] = Miss[i] /\ AddRow(key[t][i], [pc EXCEPT ![t] = Then[i]])
  /\ UNCHANGED <<epsilon, file, key, value, rate, copy, adding, boots, alone>>

Read(t) ==
  /\ pc[t] = "read" /\ Goto(t, "look2")
  /\ value' = [value EXCEPT ![t] = table[key[t][1]]]
  /\ UNCHANGED <<table, epsilon, file, key, rate, copy, adding, boots, alone>>

\* The Bellman update of the value that was read.
WriteBack(t) ==
  /\ pc[t] = "write" /\ Goto(t, "test")
  /\ table' = [table EXCEPT ![key[t][1]] =
                 IF value[t] < MaxValue THEN value[t] + 1 ELSE MaxValue]
  /\ key'   = [key EXCEPT ![t] = <<None, None>>]
  /\ value' = [value EXCEPT ![t] = 0]
  /\ UNCHANGED <<epsilon, file, rate, copy, adding, boots, alone>>

\* Mutant: the last step of the decay is never made.
TestRate_Early(t) ==
  /\ pc[t] = "test" /\ Goto(t, IF epsilon > 1 THEN "decay" ELSE "open")
  /\ UNCHANGED <<table, epsilon, file, key, value, rate, copy, adding, boots, alone>>

\* Mutant: the table is not saved any more once the rate is at its minimum.
TestRate_NoSave(t) ==
  /\ pc[t] = "test" /\ Goto(t, IF epsilon > 0 THEN "decay" ELSE "idle")
  /\ UNCHANGED <<table, epsilon, file, key, value, rate, copy, adding, boots, alone>>

TestRate(t) ==
  /\ pc[t] = "test" /\ Goto(t, IF epsilon > 0 THEN "decay" ELSE "open")
  /\ UNCHANGED <<table, epsilon, file, key, value, rate, copy, adding, boots, alone>>

\* Mutant: the minimum is tested before, and not applied again.
Decay_NoFloor(t) ==
  /\ pc[t] = "decay" /\ Goto(t, "store")
  /\ rate' = [rate EXCEPT ![t] = epsilon - 1]
  /\ UNCHANGED <<table, epsilon, file, key, value, copy, adding, boots, alone>>

\* max(epsilon_min, epsilon * decay_rate) is computed, and assigned.
Decay(t) ==
  /\ pc[t] = "decay" /\ Goto(t, "store")
  /\ rate' = [rate EXCEPT ![t] = IF epsilon = 0 THEN 0 ELSE epsilon - 1]
  /\ UNCHANGED <<table, epsilon, file, key, value, copy, adding, boots, alone>>

Store(t) ==
  /\ pc[t] = "store" /\ Goto(t, "open")
  /\ epsilon' = rate[t] /\ rate' = [rate EXCEPT ![t] = Top]
  /\ UNCHANGED <<table, file, key, value, copy, adding, boots, alone>>

(***************************************************************************)
(* save_q_table.                                                           *)
(***************************************************************************)

OpenFile(t) ==
  /\ pc[t] = "open" /\ Goto(t, "dump") /\ file' = Torn
  /\ alone' = IF Saving = {} THEN alone \cup {t} ELSE alone \ Saving
  /\ UNCHANGED <<table, epsilon, key, value, rate, copy, adding, boots>>

\* One row after the other is read and written.
Dump(t, s) ==
  /\ pc[t] = "dump" /\ table[s] # NoRow /\ copy[t][s] = NoRow
  /\ copy' = [copy EXCEPT ![t][s] = table[s]]
  /\ UNCHANGED <<table, epsilon, file, pc, key, value, rate, adding, boots, alone>>

\* After the last row, or because of an error.
EndDump(t) ==
  /\ pc[t] = "dump"
  /\ \/ (\A s \in State : table[s] # NoRow => copy[t][s] # NoRow) /\ Goto(t, "close")
     \/ DiskFull /\ Goto(t, "fail")
  /\ UNCHANGED <<table, epsilon, file, key, value, rate, copy, adding, boots, alone>>

\* Where two threads wrote at once, the file is the one of the last, a mixture of
\* both, or no JSON.
Mixtures(t) == {[s \in State |-> IF s \in m THEN copy[t][s] ELSE file[s]] : m \in SUBSET State}

\* The file is closed. An error was caught before, and what had been written stays.
CloseFile(t) ==
  /\ pc[t] \in {"close", "fail"} /\ Goto(t, "idle")
  /\ \/ pc[t] = "close" /\ file' = copy[t]
     \/ (pc[t] = "fail" \/ t \notin alone) /\ file' = Torn
     \/ t \notin alone /\ Whole(file) /\ file' \in Mixtures(t)
  /\ alone' = IF t \in alone THEN (alone \ {t}) \cup {None} ELSE alone \ {None}
  /\ copy' = [copy EXCEPT ![t] = Empty]
  /\ UNCHANGED <<table, epsilon, key, value, rate, adding, boots>>

Step(t) ==
  \/ \E i \in {1, 2} : LookUp(t, i) \/ Add(t, i)
  \/ Read(t) \/ WriteBack(t) \/ TestRate(t) \/ Decay(t) \/ Store(t)
  \/ OpenFile(t) \/ (\E s \in State : Dump(t, s)) \/ EndDump(t) \/ CloseFile(t)

(***************************************************************************)
(* The scheduler thread, and a restart.                                    *)
(***************************************************************************)

\* choose_action explores as long as the rate is 1.0; else it may look for the
\* best action of a state that has no row,
Choose(s) ==
  /\ adding = None /\ epsilon < Top /\ table[s] = NoRow /\ adding' = s
  /\ UNCHANGED <<table, epsilon, file, pc, key, value, rate, copy, boots, alone>>

\* which it adds.
AddChosen ==
  /\ adding # None /\ AddRow(adding, pc) /\ adding' = None
  /\ UNCHANGED <<epsilon, file, key, value, rate, copy, boots, alone>>

\* The Head's process ends and boots again, in training mode: load_q_table takes
\* a file that is no JSON for an empty one.
Boot ==
  /\ boots < MaxBoots /\ boots' = boots + 1
  /\ table' = (IF Whole(file) THEN file ELSE Empty) /\ epsilon' = Top
  /\ pc' = [t \in Thread |-> "idle"] /\ key' = [t \in Thread |-> <<None, None>>]
  /\ value' = [t \in Thread |-> 0] /\ rate' = [t \in Thread |-> Top]
  /\ copy' = [t \in Thread |-> Empty]
  /\ adding' = None /\ alone' = {None} /\ UNCHANGED file

SomeBegin == \E t \in Thread : \E s, n \in State : Begin(t, s, n)

Next ==
  \/ SomeBegin \/ (\E t \in Thread : Step(t))
  \/ (\E s \in State : Choose(s)) \/ AddChosen \/ Boot

Spec == Init /\ [][Next]_vars

\* Threads run, and tasks keep coming to an end.
FairSpec == Spec /\ WF_vars(SomeBegin) /\ \A t \in Thread : WF_vars(Step(t))

(***************************************************************************)
(* Properties.                                                             *)
(***************************************************************************)

\* The types of the variables. The rate never falls below its minimum, although
\* another thread may lower it between the test and the assignment.
TypeOK ==
  /\ table \in [State -> Row] /\ epsilon \in 0..Top
  /\ file \in [State -> Row] \cup {None, Torn}
  /\ pc \in [Thread -> Label]
  /\ key \in [Thread -> (State \cup {None}) \X (State \cup {None})]
  /\ value \in [Thread -> 0..MaxValue] /\ rate \in [Thread -> 0..Top]
  /\ copy \in [Thread -> [State -> Row]] /\ adding \in State \cup {None}
  /\ boots \in 0..MaxBoots /\ alone \subseteq Thread \cup {None}

\* The row an update reads and writes is in the table, whatever other threads do
\* to it after it was looked for. Were it not, the KeyError would end the executor
\* before it puts a failed task back (task_executor.py:739, 766).
RowIsThere ==
  \A t \in Thread :
    pc[t] \in {"read", "look2", "miss2", "write"} => table[key[t][1]] # NoRow

\* save_q_table keeps what was learnt: once no executor updates or saves, the file
\* holds every learnt value of the table, although threads that update others
\* save it in any order. Unless the last save met another one, or raised.
SavedTable ==
  (\A t \in Thread : pc[t] = "idle") /\ None \in alone /\ file # Torn =>
    \A s \in State : table[s] \notin {NoRow, 0} => Whole(file) /\ file[s] = table[s]

\* Exploration ends: if tasks keep ending, epsilon falls to epsilon_min and stays
\* there, although a thread may undo the updates others made since it read it.
EpsilonReachesMin == <>[](epsilon = 0)
=============================================================================
