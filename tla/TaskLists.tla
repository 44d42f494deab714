----------------------------- MODULE TaskLists -----------------------------
(***************************************************************************)
(* What the list operations of the code do to the set of tasks in a list:  *)
(* pop(i), append, extend at either end, and the batch of new numbers.     *)
(***************************************************************************)
EXTENDS Integers, Sequences, SequencesExt, SequenceTheorems, TLAPS

\* No task is in the list twice.
Distinct(s) == \A i, j \in 1..Len(s) : s[i] = s[j] => i = j

\* list.pop(i): the elements before i stay, those after it move down by one.
LEMMA RemoveAtElements ==
  ASSUME NEW S, NEW s \in Seq(S), NEW i \in 1..Len(s)
  PROVE  /\ RemoveAt(s, i) \in Seq(S)
         /\ Len(RemoveAt(s, i)) = Len(s) - 1
         /\ \A j \in 1..(i - 1) : RemoveAt(s, i)[j] = s[j]
         /\ \A j \in i..(Len(s) - 1) : RemoveAt(s, i)[j] = s[j + 1]
<1> DEFINE a == SubSeq(s, 1, i - 1)
           b == SubSeq(s, i + 1, Len(s))
<1>1. Len(s) \in Nat
  BY LenProperties
<1>2. /\ a \in Seq(S) /\ Len(a) = i - 1
      /\ \A j \in 1..(i - 1) : a[j] = s[j]
  BY <1>1, SubSeqProperties
<1>3. /\ b \in Seq(S) /\ Len(b) = Len(s) - i
      /\ \A j \in 1..(Len(s) - i) : b[j] = s[i + j]
  BY <1>1, SubSeqProperties
<1>4. /\ a \o b \in Seq(S)
      /\ Len(a \o b) = Len(a) + Len(b)
      /\ \A j \in 1..(Len(a) + Len(b)) :
           (a \o b)[j] = IF j <= Len(a) THEN a[j] ELSE b[j - Len(a)]
  <2> HIDE DEF a, b
  <2> QED
    BY <1>2, <1>3, ConcatProperties
<1>5. RemoveAt(s, i) = a \o b
  BY DEF RemoveAt
<1> HIDE DEF a, b
<1>6. \A j \in 1..(i - 1) : (a \o b)[j] = s[j]
  BY <1>1, <1>2, <1>3, <1>4
<1>7. ASSUME NEW j \in i..(Len(s) - 1) PROVE (a \o b)[j] = s[j + 1]
  <2>1. j \in 1..(Len(a) + Len(b)) /\ ~(j <= Len(a))
    BY <1>1, <1>2, <1>3
  <2>2. (a \o b)[j] = b[j - Len(a)]
    BY <2>1, <1>4
  <2>3. j - Len(a) \in 1..(Len(s) - i) /\ i + (j - Len(a)) = j + 1
    BY <1>1, <1>2
  <2>4. b[j - Len(a)] = s[i + (j - Len(a))]
    BY <2>3, <1>3
  <2> QED
    BY <2>2, <2>3, <2>4
<1>8. Len(a \o b) = Len(s) - 1
  BY <1>1, <1>2, <1>3, <1>4
<1> QED
  BY <1>4, <1>5, <1>6, <1>7, <1>8

\* Popping an element of a sequence without duplicates takes that element out.
LEMMA RemoveAtSet ==
  ASSUME NEW S, NEW s \in Seq(S), NEW i \in 1..Len(s), Distinct(s)
  PROVE  /\ ToSet(RemoveAt(s, i)) = ToSet(s) \ {s[i]}
         /\ Distinct(RemoveAt(s, i))
<1> DEFINE r == RemoveAt(s, i)
<1>1. Len(s) \in Nat /\ DOMAIN s = 1..Len(s)
  BY LenProperties
<1>2. /\ r \in Seq(S) /\ Len(r) = Len(s) - 1
      /\ \A j \in 1..(i - 1) : r[j] = s[j]
      /\ \A j \in i..(Len(s) - 1) : r[j] = s[j + 1]
  BY RemoveAtElements
<1>3. DOMAIN r = 1..(Len(s) - 1)
  BY <1>2, LenProperties
<1> HIDE DEF r
<1>4. Distinct(r)
  BY <1>1, <1>2 DEF Distinct
<1>5. ToSet(r) \subseteq ToSet(s) \ {s[i]}
  <2> SUFFICES ASSUME NEW j \in 1..(Len(s) - 1)
               PROVE  r[j] \in ToSet(s) \ {s[i]}
    BY <1>3 DEF ToSet
  <2>1. CASE j < i
    BY <2>1, <1>1, <1>2 DEF ToSet, Distinct
  <2>2. CASE j >= i
    <3>1. j + 1 \in 1..Len(s) /\ j + 1 # i /\ r[j] = s[j + 1]
      BY <2>2, <1>1, <1>2
    <3> QED
      BY <3>1, <1>1 DEF ToSet, Distinct
  <2> QED
    BY <2>1, <2>2, <1>1
<1>6. ASSUME NEW k \in 1..Len(s), k # i PROVE s[k] \in ToSet(r)
  <2>1. CASE k < i
    BY <2>1, <1>1, <1>2, <1>3, <1>6 DEF ToSet
  <2>2. CASE k > i
    <3>1. k - 1 \in 1..(Len(s) - 1) /\ r[k - 1] = s[k]
      BY <2>2, <1>1, <1>2
    <3> QED
      BY <3>1, <1>3 DEF ToSet
  <2> QED
    BY <2>1, <2>2, <1>6, <1>1
<1>7. ToSet(s) \ {s[i]} \subseteq ToSet(r)
  BY <1>1, <1>6 DEF ToSet
<1> QED
  BY <1>4, <1>5, <1>7 DEF r

\* list.append of a new element.
LEMMA AppendSet ==
  ASSUME NEW S, NEW s \in Seq(S), NEW e \in S
  PROVE  /\ Append(s, e) \in Seq(S)
         /\ ToSet(Append(s, e)) = ToSet(s) \cup {e}
         /\ Distinct(s) /\ e \notin ToSet(s) => Distinct(Append(s, e))
<1>1. Len(s) \in Nat /\ DOMAIN s = 1..Len(s)
  BY LenProperties
<1>2. /\ Append(s, e) \in Seq(S) /\ Len(Append(s, e)) = Len(s) + 1
      /\ \A j \in 1..Len(s) : Append(s, e)[j] = s[j]
      /\ Append(s, e)[Len(s) + 1] = e
  BY AppendProperties
<1>3. DOMAIN Append(s, e) = 1..(Len(s) + 1)
  BY <1>2, LenProperties
<1>4. 1..(Len(s) + 1) = 1..Len(s) \cup {Len(s) + 1}
  BY <1>1
<1>5. ToSet(Append(s, e)) = ToSet(s) \cup {e}
  BY <1>1, <1>2, <1>3, <1>4 DEF ToSet
<1>6. Distinct(s) /\ e \notin ToSet(s) => Distinct(Append(s, e))
  BY <1>1, <1>2, <1>4 DEF ToSet, Distinct
<1> QED
  BY <1>2, <1>5, <1>6

\* Two lists one after the other.
LEMMA ConcatSet ==
  ASSUME NEW S, NEW s \in Seq(S), NEW u \in Seq(S)
  PROVE  /\ s \o u \in Seq(S)
         /\ ToSet(s \o u) = ToSet(s) \cup ToSet(u)
         /\ Distinct(s) /\ Distinct(u) /\ ToSet(s) \cap ToSet(u) = {}
              => Distinct(s \o u)
<1>1. /\ Len(s) \in Nat /\ DOMAIN s = 1..Len(s)
      /\ Len(u) \in Nat /\ DOMAIN u = 1..Len(u)
  BY LenProperties
<1>2. /\ s \o u \in Seq(S) /\ Len(s \o u) = Len(s) + Len(u)
      /\ \A j \in 1..(Len(s) + Len(u)) :
           (s \o u)[j] = IF j <= Len(s) THEN s[j] ELSE u[j - Len(s)]
  BY ConcatProperties
<1>3. DOMAIN (s \o u) = 1..(Len(s) + Len(u))
  BY <1>2, LenProperties
<1>4. ToSet(s \o u) \subseteq ToSet(s) \cup ToSet(u)
  BY <1>1, <1>2, <1>3 DEF ToSet
<1>5. ToSet(s) \subseteq ToSet(s \o u)
  BY <1>1, <1>2, <1>3 DEF ToSet
<1>6. ASSUME NEW k \in 1..Len(u) PROVE u[k] \in ToSet(s \o u)
  <2>1. k + Len(s) \in 1..(Len(s) + Len(u)) /\ (s \o u)[k + Len(s)] = u[k]
    BY <1>1, <1>2
  <2> QED
    BY <2>1, <1>3 DEF ToSet
<1>7. ToSet(u) \subseteq ToSet(s \o u)
  BY <1>1, <1>6 DEF ToSet
<1>8. ASSUME Distinct(s), Distinct(u), ToSet(s) \cap ToSet(u) = {}
      PROVE  Distinct(s \o u)
  <2> SUFFICES ASSUME NEW i \in 1..Len(s \o u), NEW j \in 1..Len(s \o u),
                      (s \o u)[i] = (s \o u)[j]
               PROVE  i = j
    BY DEF Distinct
  <2>1. \A k \in 1..Len(s), m \in 1..Len(u) : s[k] # u[m]
    BY <1>1, <1>8 DEF ToSet
  <2>2. CASE i <= Len(s) /\ j <= Len(s)
    BY <2>2, <1>1, <1>2, <1>8 DEF Distinct
  <2>3. CASE i > Len(s) /\ j > Len(s)
    <3>1. /\ i - Len(s) \in 1..Len(u) /\ j - Len(s) \in 1..Len(u)
          /\ u[i - Len(s)] = u[j - Len(s)]
      BY <2>3, <1>1, <1>2
    <3>2. i - Len(s) = j - Len(s)
      BY <3>1, <1>8 DEF Distinct
    <3> QED
      BY <3>2, <1>1, <1>2
  <2>4. CASE i <= Len(s) /\ j > Len(s)
    BY <2>1, <2>4, <1>1, <1>2
  <2>5. CASE i > Len(s) /\ j <= Len(s)
    BY <2>1, <2>5, <1>1, <1>2
  <2> QED
    BY <2>2, <2>3, <2>4, <2>5, <1>1, <1>2
<1> QED
  BY <1>2, <1>4, <1>5, <1>7, <1>8

\* The batch of consecutive numbers that generate_mock_tasks appends.
LEMMA BatchSet ==
  ASSUME NEW c \in Nat, NEW n \in Nat
  PROVE  LET b == [i \in 1..n |-> c + i]
         IN  /\ b \in Seq((c + 1)..(c + n))
             /\ ToSet(b) = (c + 1)..(c + n)
             /\ Distinct(b)
<1> DEFINE b == [i \in 1..n |-> c + i]
<1>1. b \in [1..n -> (c + 1)..(c + n)]
  OBVIOUS
<1>2. b \in Seq((c + 1)..(c + n))
  BY <1>1, SeqDef
<1>3. Len(b) = n /\ DOMAIN b = 1..n
  BY <1>2, LenProperties
<1>4. \A k \in (c + 1)..(c + n) : k - c \in 1..n /\ b[k - c] = k
  OBVIOUS
<1>5. ToSet(b) = (c + 1)..(c + n)
  BY <1>1, <1>3, <1>4 DEF ToSet
<1>6. Distinct(b)
  BY <1>3 DEF Distinct
<1> QED
  BY <1>2, <1>5, <1>6

\* Of two elements that are not in R the smaller is in front.
Ascending(s, R) ==
  \A i, j \in 1..Len(s) : i < j /\ {s[i], s[j]} \cap R = {} => s[i] < s[j]

\* The elements of A that are not in R are smaller than those of B.
Precedes(A, B, R) == \A a \in A, b \in B : {a, b} \cap R = {} => a < b

\* Two lists one after the other are in order if each is, and the first precedes
\* the second.
LEMMA ConcatOrder ==
  ASSUME NEW s \in Seq(Int), NEW u \in Seq(Int), NEW R,
         Ascending(s, R), Ascending(u, R), Precedes(ToSet(s), ToSet(u), R)
  PROVE  Ascending(s \o u, R)
<1>1. /\ Len(s) \in Nat /\ DOMAIN s = 1..Len(s)
      /\ Len(u) \in Nat /\ DOMAIN u = 1..Len(u)
  BY LenProperties
<1>2. /\ Len(s \o u) = Len(s) + Len(u)
      /\ \A j \in 1..(Len(s) + Len(u)) :
           (s \o u)[j] = IF j <= Len(s) THEN s[j] ELSE u[j - Len(s)]
  BY ConcatProperties
<1> SUFFICES ASSUME NEW i \in 1..Len(s \o u), NEW j \in 1..Len(s \o u), i < j,
                    {(s \o u)[i], (s \o u)[j]} \cap R = {}
             PROVE  (s \o u)[i] < (s \o u)[j]
  BY DEF Ascending
<1>3. CASE j <= Len(s)
  <2>1. i \in 1..Len(s) /\ j \in 1..Len(s) /\ (s \o u)[i] = s[i] /\ (s \o u)[j] = s[j]
    BY <1>1, <1>2, <1>3
  <2> QED
    BY <2>1 DEF Ascending
<1>4. CASE i > Len(s)
  <2>1. /\ i - Len(s) \in 1..Len(u) /\ j - Len(s) \in 1..Len(u) /\ i - Len(s) < j - Len(s)
        /\ (s \o u)[i] = u[i - Len(s)] /\ (s \o u)[j] = u[j - Len(s)]
    BY <1>1, <1>2, <1>4
  <2> QED
    BY <2>1 DEF Ascending
<1>5. CASE i <= Len(s) /\ j > Len(s)
  <2>1. /\ i \in 1..Len(s) /\ j - Len(s) \in 1..Len(u)
        /\ (s \o u)[i] = s[i] /\ (s \o u)[j] = u[j - Len(s)]
    BY <1>1, <1>2, <1>5
  <2>2. s[i] \in ToSet(s) /\ u[j - Len(s)] \in ToSet(u)
    BY <1>1, <2>1 DEF ToSet
  <2> QED
    BY <2>1, <2>2 DEF Precedes
<1> QED
  BY <1>1, <1>2, <1>3, <1>4, <1>5

\* list.append of an element the others precede.
LEMMA AppendOrder ==
  ASSUME NEW s \in Seq(Int), NEW e \in Int, NEW R,
         Ascending(s, R), Precedes(ToSet(s), {e}, R)
  PROVE  Ascending(Append(s, e), R)
<1>1. Len(s) \in Nat /\ DOMAIN s = 1..Len(s)
  BY LenProperties
<1>2. /\ Len(Append(s, e)) = Len(s) + 1 /\ Append(s, e)[Len(s) + 1] = e
      /\ \A j \in 1..Len(s) : Append(s, e)[j] = s[j]
  BY AppendProperties
<1> SUFFICES ASSUME NEW i \in 1..(Len(s) + 1), NEW j \in 1..(Len(s) + 1), i < j,
                    {Append(s, e)[i], Append(s, e)[j]} \cap R = {}
             PROVE  Append(s, e)[i] < Append(s, e)[j]
  BY <1>2 DEF Ascending
<1>3. CASE j <= Len(s)
  <2>1. i \in 1..Len(s) /\ j \in 1..Len(s) /\ Append(s, e)[i] = s[i] /\ Append(s, e)[j] = s[j]
    BY <1>1, <1>2, <1>3
  <2> QED
    BY <2>1 DEF Ascending
<1>4. CASE j = Len(s) + 1
  <2>1. i \in 1..Len(s) /\ Append(s, e)[i] = s[i] /\ Append(s, e)[j] = e
    BY <1>1, <1>2, <1>4
  <2>2. s[i] \in ToSet(s)
    BY <1>1, <2>1 DEF ToSet
  <2> QED
    BY <2>1, <2>2 DEF Precedes
<1> QED
  BY <1>1, <1>3, <1>4

\* list.pop(0) leaves a list in order, and the element popped precedes it.
LEMMA PopAscending ==
  ASSUME NEW s \in Seq(Int), NEW R, 1 \in 1..Len(s), Ascending(s, R)
  PROVE  /\ Ascending(RemoveAt(s, 1), R)
         /\ Precedes({s[1]}, ToSet(RemoveAt(s, 1)), R)
         /\ ToSet(RemoveAt(s, 1)) \subseteq ToSet(s) /\ s[1] \in ToSet(s)
<1> DEFINE r == RemoveAt(s, 1)
<1>1. Len(s) \in Nat /\ DOMAIN s = 1..Len(s)
  BY LenProperties
<1>2. /\ r \in Seq(Int) /\ Len(r) = Len(s) - 1
      /\ \A j \in 1..(Len(s) - 1) : r[j] = s[j + 1]
  BY RemoveAtElements
<1>3. DOMAIN r = 1..(Len(s) - 1)
  BY <1>2, LenProperties
<1> HIDE DEF r
<1>4. \A j \in 1..(Len(s) - 1) : j + 1 \in 1..Len(s) /\ 1 < j + 1
  BY <1>1
<1>5. Ascending(r, R)
  <2> SUFFICES ASSUME NEW i \in 1..(Len(s) - 1), NEW j \in 1..(Len(s) - 1), i < j,
                      {r[i], r[j]} \cap R = {}
               PROVE  r[i] < r[j]
    BY <1>2 DEF Ascending
  <2>1. i + 1 < j + 1 /\ r[i] = s[i + 1] /\ r[j] = s[j + 1]
    BY <1>1, <1>2
  <2> QED
    BY <1>4, <2>1 DEF Ascending
<1>6. Precedes({s[1]}, ToSet(r), R)
  <2> SUFFICES ASSUME NEW j \in 1..(Len(s) - 1), {s[1], r[j]} \cap R = {}
               PROVE  s[1] < r[j]
    BY <1>3 DEF Precedes, ToSet
  <2> QED
    BY <1>2, <1>4 DEF Ascending
<1>7. ToSet(r) \subseteq ToSet(s) /\ s[1] \in ToSet(s)
  BY <1>1, <1>2, <1>3, <1>4 DEF ToSet
<1> QED
  BY <1>5, <1>6, <1>7 DEF r
=============================================================================
