--------------------------- MODULE Autoscale_proofs ---------------------------
(***************************************************************************)
(* The limit of spot containers holds for any number of names, although    *)
(* the scheduler counts once and acts on the count while others crash,     *)
(* register, are evicted or refuse to stop.                                *)
(***************************************************************************)
EXTENDS Autoscale, FiniteSetTheorems, TLAPS

Counted == Running \ (extra \cup leaked)
Held    == Running \ leaked

\* Where nothing was taken off the count of this round yet.
Before == {"in", "choose", "stop"} \cup IF mode = "q_learning" THEN {} ELSE {"out", "launch"}

\* Until containers are started and one is stopped, the count covers what runs; then all
\* but what failed to stop. What is ordered fits beside it.
CountCovers ==
  /\ spc \in {"choose", "stop", "drop"} => scale > 0
  /\ spc \in {"stop", "drop"} => victim \in Names
  /\ spc = "launch" => order.n > 0 /\ scale + order.n <= MaxScale
  /\ spc \in Before => low \/ Cardinality(Running) <= scale
  /\ spc = "drop" => low \/ Cardinality(Held) < scale
  /\ spc \in {"out", "launch"} => low \/ Cardinality(Held) <= scale

AInv == TypeOK /\ CountCovers /\ ScaleLimit

LEMMA FiniteParts ==
  /\ IsFiniteSet(Running) /\ IsFiniteSet(Held) /\ IsFiniteSet(Counted)
  /\ Cardinality(Running) \in Nat /\ Cardinality(Held) \in Nat /\ Cardinality(Counted) \in Nat
  /\ Cardinality(Counted) <= Cardinality(Held) /\ Cardinality(Held) <= Cardinality(Running)
  <1>1. IsFiniteSet(Names) /\ Running \subseteq Names /\ Held \subseteq Running /\ Counted \subseteq Held
    BY AutoscaleAssumption DEF Running, Held, Counted
  <1>2. IsFiniteSet(Running) /\ IsFiniteSet(Held) /\ IsFiniteSet(Counted)
    BY <1>1, FS_Subset
  <1>3. Cardinality(Counted) <= Cardinality(Held) /\ Cardinality(Held) <= Cardinality(Running)
    BY <1>1, <1>2, FS_Subset
  <1> QED BY <1>2, <1>3, FS_CardinalityType

LEMMA Smaller ==
  ASSUME NEW S, IsFiniteSet(S), NEW T \in SUBSET S
  PROVE  Cardinality(T) <= Cardinality(S) /\ Cardinality(T) \in Nat /\ Cardinality(S) \in Nat
  BY FS_Subset, FS_CardinalityType

LEMMA OneMore ==
  ASSUME NEW S, IsFiniteSet(S), NEW s, NEW T \in SUBSET (S \cup {s})
  PROVE  Cardinality(T) <= Cardinality(S) + 1 /\ Cardinality(T) \in Nat /\ Cardinality(S) \in Nat
  <1>1. IsFiniteSet(S \cup {s}) /\ Cardinality(S \cup {s}) <= Cardinality(S) + 1
        /\ Cardinality(S) \in Nat /\ Cardinality(S \cup {s}) \in Nat
    BY FS_AddElement, FS_CardinalityType
  <1>2. Cardinality(T) <= Cardinality(S \cup {s}) /\ Cardinality(T) \in Nat
    BY <1>1, Smaller
  <1> QED BY <1>1, <1>2

\* Stopping s leaves no more than before, and one less if it ran and was counted.
LEMMA RemoveShrinks ==
  ASSUME TypeOK, NEW s \in Names, Remove(s)
  PROVE  /\ box' \in [Names -> Box] /\ leaked' \subseteq Names /\ extra' \subseteq Names
         /\ Running' \subseteq Running /\ Held' \subseteq Held \ {s} /\ Counted' \subseteq Counted
  <1>1. CASE Gone(s)
    BY <1>1 DEF Gone, TypeOK, Box, Running, Held, Counted
  <1>2. CASE s \in Sticky \cap Running /\ leaked' = leaked \cup {s} /\ UNCHANGED <<box, extra>>
    BY <1>2 DEF TypeOK, Running, Held, Counted
  <1> QED BY <1>1, <1>2 DEF Remove

\* A step that takes containers away, and leaves the round alone, changes nothing.
LEMMA TakingAway ==
  ASSUME AInv, TypeOK', Running' \subseteq Running, Held' \subseteq Held, Counted' \subseteq Counted,
         UNCHANGED <<mode, spc, scale, order, victim, low>>
  PROVE  AInv'
  <1>1. /\ Cardinality(Running') <= Cardinality(Running) /\ Cardinality(Running') \in Nat
        /\ Cardinality(Held') <= Cardinality(Held) /\ Cardinality(Held') \in Nat
        /\ Cardinality(Counted') <= Cardinality(Counted) /\ Cardinality(Counted') \in Nat
    BY FiniteParts, Smaller
  <1>2. scale \in Nat
    BY DEF AInv, TypeOK
  <1>3. CountCovers'
    BY <1>1, <1>2, FiniteParts DEF AInv, CountCovers, Before
  <1>4. ScaleLimit'
    BY <1>1, FiniteParts, AutoscaleAssumption DEF AInv, ScaleLimit, Counted
  <1> QED BY <1>3, <1>4 DEF AInv

\* A step that only moves the scheduler thread keeps the limit.
LEMMA SameContainers ==
  ASSUME AInv, UNCHANGED <<box, extra, leaked>>
  PROVE  /\ Running' = Running /\ Held' = Held /\ Counted' = Counted /\ ScaleLimit'
  BY DEF AInv, ScaleLimit, Running, Held, Counted

LEMMA InitA == Init => AInv
  <1> SUFFICES ASSUME Init PROVE AInv
    OBVIOUS
  <1>1. quiet \in BOOLEAN /\ low \in BOOLEAN
    BY DEF Init
  <1>2. TypeOK
    BY <1>1, AutoscaleAssumption DEF Init, TypeOK, Box, Label, NoOrder
  <1>3. CountCovers
    BY DEF Init, CountCovers, Before
  <1>4. Running = {}
    BY DEF Init, Running
  <1>5. ScaleLimit
    BY <1>4, FS_EmptySet, AutoscaleAssumption DEF ScaleLimit
  <1> QED BY <1>2, <1>3, <1>5 DEF AInv

(***************************************************************************)
(* The scheduler thread.                                                   *)
(***************************************************************************)

LEMMA CollectKeeps ==
  ASSUME AInv, NEW dead \in SUBSET Known, CollectDead(dead)
  PROVE  AInv'
  <1>1. dead \subseteq Names /\ quiet' \in BOOLEAN /\ low' \in BOOLEAN
    BY DEF Known, CollectDead, AInv, TypeOK
  <1>2. TypeOK'
    BY <1>1 DEF CollectDead, AInv, TypeOK, Label
  <1>3. CountCovers'
    BY DEF CollectDead, CountCovers, Before
  <1>4. ScaleLimit'
    BY SameContainers DEF CollectDead
  <1> QED BY <1>2, <1>3, <1>4 DEF AInv

\* A replacement is not one of the counted.
LEMMA ReplaceKeeps == ASSUME AInv, Replace PROVE AInv'
  <1>0. quiet' \in BOOLEAN /\ low' \in BOOLEAN
    BY DEF Replace, roundVars, AInv, TypeOK
  <1>1. ASSUME NEW s \in Type("spot_a"), Run(s), extra' = extra \cup {s}
        PROVE  box' \in [Names -> Box] /\ extra' \subseteq Names /\ Counted' \subseteq Counted
    BY <1>1 DEF Replace, Type, Run, AInv, TypeOK, Box, Running, Counted
  <1>2. box' \in [Names -> Box] /\ extra' \subseteq Names /\ Counted' \subseteq Counted
    BY <1>1 DEF Replace, AInv, TypeOK, Running, Counted
  <1>3. TypeOK'
    BY <1>0, <1>2 DEF Replace, roundVars, AInv, TypeOK, Label
  <1>4. CountCovers'
    BY DEF Replace, CountCovers, Before
  <1>5. ScaleLimit'
    BY <1>2, FiniteParts, Smaller, AutoscaleAssumption DEF AInv, ScaleLimit, Counted
  <1> QED BY <1>3, <1>4, <1>5 DEF AInv

LEMMA ReapKeeps == ASSUME AInv, NEW s \in Names, Reap(s) PROVE AInv'
  <1>0. quiet' \in BOOLEAN /\ low' \in BOOLEAN
    BY DEF Reap, AInv, TypeOK
  <1>1. /\ box' \in [Names -> Box] /\ leaked' \subseteq Names /\ extra' \subseteq Names
        /\ Running' \subseteq Running /\ Held' \subseteq Held /\ Counted' \subseteq Counted
    BY RemoveShrinks DEF Reap, AInv
  <1>2. TypeOK'
    BY <1>0, <1>1 DEF Reap, AInv, TypeOK
  <1> QED BY <1>1, <1>2, TakingAway DEF Reap

\* The count is of what runs, or is known to be low.
LEMMA CountKeeps == ASSUME AInv, Count PROVE AInv'
  <1>0. Known \subseteq Names /\ IsFiniteSet(Known) /\ Cardinality(Known) \in Nat
    BY AutoscaleAssumption, FS_Subset, FS_CardinalityType DEF Known
  <1>a. low' \in BOOLEAN /\ quiet' \in BOOLEAN
    BY DEF Count, AInv, TypeOK
  <1>b. low' \/ scale' = Cardinality(Running)
    BY DEF Count
  <1>c. scale' = Cardinality(Running) \/ scale' = Cardinality(Known)
    BY DEF Count
  <1>1. low' \in BOOLEAN /\ quiet' \in BOOLEAN /\ scale' \in Nat
        /\ (low' \/ Cardinality(Running) <= scale')
    BY <1>0, <1>a, <1>b, <1>c, FiniteParts
  <1>2. TypeOK'
    BY <1>1 DEF Count, AInv, TypeOK, Label
  <1>3. /\ Running' = Running /\ Held' = Held /\ ScaleLimit'
    BY SameContainers DEF Count
  <1>4. spc' \in {"in", "out"}
    BY DEF Count
  <1>5. CountCovers'
    BY <1>1, <1>3, <1>4, FiniteParts DEF CountCovers
  <1> QED BY <1>2, <1>3, <1>5 DEF AInv

\* What is ordered fits on top of the count.
LEMMA ScaleOutKeeps == ASSUME AInv, ScaleOut PROVE AInv'
  <1>0. scale \in Nat /\ MaxScale \in Nat
    BY AutoscaleAssumption DEF AInv, TypeOK
  <1>1. \A b \in BOOLEAN : Types(b) \subseteq {"spot_a", "spot_b"}
    BY AutoscaleAssumption DEF Types, AInv, TypeOK
  <1>2. /\ quiet' \in BOOLEAN
        /\ \/ /\ spc' = "launch" /\ order' \in [type : {"spot_a", "spot_b"}, n : 0..2]
              /\ order'.n > 0 /\ scale + order'.n <= MaxScale
           \/ spc' = Rest /\ order' = order
    <2>1. PICK queue \in Length : OutTwo(queue) \/ OutOne(queue) \/ OutNone(queue)
      BY DEF ScaleOut
    <2>2. CASE OutTwo(queue)
      <3>1. scale < MaxScale - 1 /\ quiet' \in BOOLEAN
        BY <2>2 DEF OutTwo, RoomForTwo
      <3>2. PICK t \in {"spot_a", "spot_b"} : spc' = "launch" /\ order' = [type |-> t, n |-> 2]
        BY <1>1, <2>2 DEF OutTwo, Order
      <3> QED BY <1>0, <3>1, <3>2
    <2>3. CASE OutOne(queue)
      <3>1. scale < MaxScale /\ quiet' \in BOOLEAN
        BY <2>3 DEF OutOne
      <3>2. PICK t \in {"spot_a", "spot_b"} : spc' = "launch" /\ order' = [type |-> t, n |-> 1]
        BY <1>1, <2>3 DEF OutOne, Order
      <3> QED BY <1>0, <3>1, <3>2
    <2>4. CASE OutNone(queue)
      <3>1. quiet' \in BOOLEAN
        BY <2>4 DEF OutNone
      <3> QED BY <2>4, <3>1 DEF OutNone, Goto
    <2> QED BY <2>1, <2>2, <2>3, <2>4
  <1>3. /\ spc = "out" /\ UNCHANGED <<mode, box, entry, reaping, scale, timer, victim, low, extra, leaked>>
    BY DEF ScaleOut
  <1>4. low' \in BOOLEAN /\ order' \in [type : {"spot_a", "spot_b"}, n : 0..2]
    BY <1>2, <1>3 DEF AInv, TypeOK
  <1>5. TypeOK'
    BY <1>2, <1>3, <1>4 DEF AInv, TypeOK, Label, Rest
  <1>6. Running' = Running /\ Held' = Held /\ ScaleLimit'
    BY <1>3, SameContainers
  <1>7. CountCovers'
    BY <1>2, <1>3, <1>6 DEF AInv, CountCovers, Rest, Before
  <1> QED BY <1>5, <1>6, <1>7 DEF AInv

\* A container is added to the count, or its start was refused.
LEMMA LaunchKeeps == ASSUME AInv, Launch PROVE AInv'
  <1> USE AutoscaleAssumption
  <1>0. /\ spc = "launch" /\ scale \in Nat /\ MaxScale \in Nat /\ order.n \in 0..2
        /\ order.type \in {"spot_a", "spot_b"} /\ order.n > 0 /\ scale + order.n <= MaxScale
        /\ low' = low /\ mode' = mode /\ leaked' = leaked /\ victim' = victim
    BY DEF Launch, AInv, TypeOK, CountCovers
  <1>1. \/ order.n > 1 /\ spc' = "launch" /\ order' = [type |-> order.type, n |-> order.n - 1]
        \/ spc' = Rest /\ order' = NoOrder
    BY DEF Launch, Order
  <1>2. /\ box' \in [Names -> Box] /\ extra' \subseteq Names /\ scale' \in Nat
        /\ scale' + order.n - 1 <= MaxScale
        /\ Cardinality(Counted') <= MaxScale
        /\ low \/ Cardinality(Held') <= scale'
        /\ mode # "q_learning" => low \/ Cardinality(Running') <= scale'
    <2>1. CASE UNCHANGED <<box, scale, extra>>
      <3>1. Running' = Running /\ Held' = Held /\ Counted' = Counted
        BY <1>0, <2>1, SameContainers
      <3> QED BY <1>0, <2>1, <3>1 DEF AInv, TypeOK, CountCovers, ScaleLimit, Counted, Before
    <2>2. ASSUME NEW s \in Type(order.type), Run(s), scale' = scale + 1,
                 extra' = IF low THEN extra \cup {s} ELSE extra
          PROVE  /\ box' \in [Names -> Box] /\ extra' \subseteq Names /\ scale' \in Nat
                 /\ scale' + order.n - 1 <= MaxScale
                 /\ Cardinality(Counted') <= MaxScale
                 /\ low \/ Cardinality(Held') <= scale'
                 /\ mode # "q_learning" => low \/ Cardinality(Running') <= scale'
      <3>1. s \in Names
        BY <2>2 DEF Type
      <3>2. /\ box' \in [Names -> Box] /\ extra' \subseteq Names
            /\ Running' \subseteq Running \cup {s} /\ Held' \subseteq Held \cup {s}
            /\ low => Counted' \subseteq Counted
        BY <1>0, <2>2, <3>1 DEF Run, AInv, TypeOK, Box, Running, Held, Counted
      <3>3. /\ Cardinality(Running') <= Cardinality(Running) + 1 /\ Cardinality(Running') \in Nat
            /\ Cardinality(Held') <= Cardinality(Held) + 1 /\ Cardinality(Held') \in Nat
            /\ low => Cardinality(Counted') <= Cardinality(Counted)
        BY <3>2, FiniteParts, OneMore, Smaller
      <3>4. Cardinality(Counted') <= Cardinality(Held') /\ Cardinality(Counted') \in Nat
        <4>1. Counted' \subseteq Held' /\ Held' \subseteq Names
          BY DEF Counted, Held, Running
        <4>2. IsFiniteSet(Held')
          BY <4>1, FS_Subset
        <4> QED BY <4>1, <4>2, Smaller
      <3>5. low \/ Cardinality(Held) <= scale
        BY <1>0 DEF AInv, CountCovers
      <3>6. mode # "q_learning" => low \/ Cardinality(Running) <= scale
        BY <1>0 DEF AInv, CountCovers, Before
      <3>7. Cardinality(Counted) <= MaxScale
        BY DEF AInv, ScaleLimit, Counted
      <3>8. Cardinality(Counted') <= MaxScale
        BY <1>0, <3>3, <3>4, <3>5, <3>7, FiniteParts
      <3> QED BY <1>0, <2>2, <3>2, <3>3, <3>5, <3>6, <3>8, FiniteParts
    <2> QED BY <2>1, <2>2 DEF Launch
  <1>3. order' \in [type : {"spot_a", "spot_b"}, n : 0..2] /\ quiet' \in BOOLEAN /\ low' \in BOOLEAN
    BY <1>0, <1>1 DEF NoOrder, Launch, AInv, TypeOK
  <1>4. TypeOK'
    BY <1>0, <1>1, <1>2, <1>3 DEF Launch, AInv, TypeOK, Label, Rest
  <1>5. CountCovers'
    BY <1>0, <1>1, <1>2 DEF CountCovers, Rest, Before
  <1>6. ScaleLimit'
    BY <1>2 DEF ScaleLimit, Counted
  <1> QED BY <1>4, <1>5, <1>6 DEF AInv

\* Nothing is stopped unless something is counted.
LEMMA ScaleInKeeps == ASSUME AInv, ScaleIn \/ Choose PROVE AInv'
  <1>0. scale \in Nat /\ timer \in 0..Patience /\ Patience \in Nat
    BY AutoscaleAssumption DEF AInv, TypeOK
  <1>1. Running' = Running /\ Held' = Held /\ ScaleLimit'
    BY SameContainers DEF ScaleIn, Choose
  <1>2. quiet' \in BOOLEAN /\ low' \in BOOLEAN
    BY DEF ScaleIn, Choose, AInv, TypeOK
  <1>3. CASE ScaleIn
    <2>1. \/ spc' = "choose" /\ scale > 0 /\ order' = [type |-> Victims, n |-> 0]
          \/ spc' = Onward /\ order' = order
      BY <1>3 DEF ScaleIn, Goto
    <2>2. order' \in [type : {"spot_a", "spot_b"}, n : 0..2]
      BY <2>1 DEF AInv, TypeOK, Victims
    <2>3. timer' \in 0..Patience
      BY <1>0, <1>3 DEF ScaleIn, Tock
    <2>4. TypeOK'
      BY <1>2, <1>3, <2>1, <2>2, <2>3 DEF ScaleIn, AInv, TypeOK, Label, Onward
    <2>5. CountCovers'
      BY <1>0, <1>1, <1>3, <2>1, FiniteParts DEF ScaleIn, AInv, CountCovers, Before, Onward
    <2> QED BY <1>1, <2>4, <2>5 DEF AInv
  <1>4. CASE Choose
    <2>1. \/ spc' = Onward /\ victim' = victim
          \/ spc' = "stop" /\ victim' \in Names
      BY <1>4 DEF Choose, Type
    <2>2. TypeOK'
      BY <1>2, <1>4, <2>1 DEF Choose, AInv, TypeOK, Label, Onward, NoOrder
    <2>3. CountCovers'
      BY <1>0, <1>1, <1>4, <2>1, FiniteParts DEF Choose, AInv, CountCovers, Before, Onward
    <2> QED BY <1>1, <2>2, <2>3 DEF AInv
  <1> QED BY <1>3, <1>4

\* The count is lowered by one, for a container that ran.
LEMMA StopKeeps == ASSUME AInv, Stop PROVE AInv'
  <1>0. spc = "stop" /\ victim \in Names /\ scale \in Nat /\ scale > 0 /\ spc' = "drop" /\ scale' = scale
        /\ order' = order /\ victim' = victim
    BY DEF Stop, Goto, AInv, TypeOK, CountCovers
  <1>1. /\ box' \in [Names -> Box] /\ leaked' \subseteq Names /\ extra' \subseteq Names
        /\ Held' \subseteq Held \ {victim} /\ Counted' \subseteq Counted
    BY <1>0, RemoveShrinks DEF Stop, AInv
  <1>2. quiet' \in BOOLEAN /\ low' \in BOOLEAN
    BY DEF Stop, AInv, TypeOK
  <1>3. TypeOK'
    BY <1>0, <1>1, <1>2 DEF Stop, AInv, TypeOK, Label
  <1>4. low' \/ Cardinality(Held') < scale
    <2>1. SUFFICES ASSUME ~low' PROVE Cardinality(Held') < scale
      OBVIOUS
    <2>2. ~low /\ victim \in Running
      BY <2>1, <1>2 DEF Stop, AInv, TypeOK
    <2>3. Cardinality(Running) <= scale
      BY <1>0, <2>2 DEF AInv, CountCovers, Before
    <2>4. /\ IsFiniteSet(Running \ {victim}) /\ Cardinality(Running \ {victim}) = Cardinality(Running) - 1
      BY <2>2, FiniteParts, FS_RemoveElement
    <2>5. Held' \subseteq Running \ {victim}
      BY <1>1 DEF Held
    <2>6. Cardinality(Held') <= Cardinality(Running \ {victim}) /\ Cardinality(Held') \in Nat
      BY <2>4, <2>5, Smaller
    <2> QED BY <1>0, <2>3, <2>4, <2>6, FiniteParts
  <1>5. CountCovers'
    BY <1>0, <1>4 DEF CountCovers, Before
  <1>6. ScaleLimit'
    BY <1>1, FiniteParts, Smaller, AutoscaleAssumption DEF AInv, ScaleLimit, Counted
  <1> QED BY <1>3, <1>5, <1>6 DEF AInv

LEMMA EndKeeps == ASSUME AInv, Drop \/ Return PROVE AInv'
  <1>0. scale \in Nat /\ Patience \in Nat
    BY AutoscaleAssumption DEF AInv, TypeOK
  <1>1. Running' = Running /\ Held' = Held /\ ScaleLimit'
    BY SameContainers DEF Drop, Return
  <1>2. quiet' \in BOOLEAN /\ low' \in BOOLEAN
    BY DEF Drop, Return, AInv, TypeOK
  <1>3. CASE Drop
    <2>1. scale > 0 /\ scale' = scale - 1 /\ spc' = Onward /\ order' = order /\ low' = low
      BY <1>3 DEF Drop, Goto, AInv, CountCovers
    <2>a. entry' \in [Names -> {"absent", "idle", "busy"}]
      BY <1>3 DEF Drop, AInv, TypeOK
    <2>b. scale' \in Nat /\ timer' \in 0..Patience /\ spc' \in Label
      BY <1>0, <1>3, <2>1 DEF Drop, Onward, Label
    <2>2. TypeOK'
      BY <1>2, <1>3, <2>1, <2>a, <2>b DEF Drop, AInv, TypeOK
    <2>3. low \/ Cardinality(Held) < scale
      BY <1>3 DEF Drop, AInv, CountCovers
    <2>4. CountCovers'
      BY <1>0, <1>1, <1>3, <2>1, <2>3, FiniteParts DEF Drop, CountCovers, Before, Onward
    <2> QED BY <1>1, <2>2, <2>4 DEF AInv
  <1>4. CASE Return
    <2>1. TypeOK'
      BY <1>2, <1>4 DEF Return, Goto, AInv, TypeOK, Label
    <2>2. CountCovers'
      BY <1>4 DEF Return, Goto, CountCovers, Before
    <2> QED BY <1>1, <2>1, <2>2 DEF AInv
  <1> QED BY <1>3, <1>4

(***************************************************************************)
(* The other threads and the workers.                                      *)
(***************************************************************************)

LEMMA OthersKeep ==
  ASSUME AInv, NEW s \in Names,
         \/ Register(s) \/ Exit(s) \/ Claim(s) \/ Release(s)
         \/ EvictDrop(s) \/ EvictStop(s)
  PROVE  AInv'
  <1>0. quiet' \in BOOLEAN /\ low' \in BOOLEAN
        /\ UNCHANGED <<mode, spc, reaping, scale, timer, order, victim, low>>
    BY DEF Register, Exit, Claim, Release, EvictDrop, EvictStop, roundVars, AInv, TypeOK
  <1>1. /\ box' \in [Names -> Box] /\ leaked' \subseteq Names /\ extra' \subseteq Names
        /\ Running' \subseteq Running /\ Held' \subseteq Held /\ Counted' \subseteq Counted
    <2>1. CASE Register(s)
      BY <2>1 DEF Register, AInv, TypeOK, Box, Running, Held, Counted
    <2>2. CASE Exit(s)
      BY <2>2 DEF Exit, AInv, TypeOK, Box, Running, Held, Counted
    <2>3. CASE Claim(s) \/ Release(s)
      BY <2>3 DEF Claim, Release, AInv, TypeOK, Running, Held, Counted
    <2>4. CASE EvictDrop(s)
      BY <2>4 DEF EvictDrop, AInv, TypeOK, Box, Running, Held, Counted
    <2>5. CASE EvictStop(s)
      BY <2>5 DEF EvictStop, Gone, AInv, TypeOK, Box, Running, Held, Counted
    <2> QED BY <2>1, <2>2, <2>3, <2>4, <2>5
  <1>2. entry' \in [Names -> {"absent", "idle", "busy"}]
    BY DEF Register, Exit, Claim, Release, EvictDrop, EvictStop, AInv, TypeOK
  <1>3. TypeOK'
    BY <1>0, <1>1, <1>2 DEF AInv, TypeOK
  <1> QED BY <1>0, <1>1, <1>3, TakingAway

LEMMA StepKeeps == AInv /\ [Next]_vars => AInv'
  <1> SUFFICES ASSUME AInv, [Next]_vars PROVE AInv'
    OBVIOUS
  <1>1. CASE SchedulerStep
    BY <1>1, CollectKeeps, ReplaceKeeps, ReapKeeps, CountKeeps, ScaleOutKeeps, LaunchKeeps,
       ScaleInKeeps, StopKeeps, EndKeeps DEF SchedulerStep
  <1>2. ASSUME NEW s \in Names,
               \/ Register(s) \/ Exit(s) \/ Claim(s) \/ Release(s)
               \/ EvictDrop(s) \/ EvictStop(s)
        PROVE  AInv'
    BY <1>2, OthersKeep
  <1>3. CASE UNCHANGED vars
    <2>1. low' \in BOOLEAN /\ quiet' \in BOOLEAN
      BY <1>3 DEF vars, roundVars, AInv, TypeOK
    <2>2. TypeOK'
      BY <1>3, <2>1 DEF vars, roundVars, AInv, TypeOK
    <2>3. Running' = Running /\ Held' = Held /\ Counted' = Counted
      BY <1>3 DEF vars, Running, Held, Counted
    <2> QED BY <1>3, <2>2, <2>3, TakingAway DEF vars, roundVars
  <1> QED BY <1>1, <1>2, <1>3 DEF Next

\* Every variable keeps its type: the count of a round is lowered only when it is
\* positive (static.py:37-41, dynamic.py:56-65, q_learning.py:35-49).
THEOREM TypeCorrect == Spec => []TypeOK
  <1> QED BY InitA, StepKeeps, PTL DEF Spec, AInv

\* The three modes keep the spot containers within MAX_SPOT_SCALE
\* (static.py:24-33, dynamic.py:43-52, q_learning.py:112, 161-182), but for replacements,
\* containers that could not be stopped and starts on a count that was low.
THEOREM WithinLimit == Spec => []ScaleLimit
  <1> QED BY InitA, StepKeeps, PTL DEF Spec, AInv
=============================================================================
