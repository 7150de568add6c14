---------------------------- MODULE FleetProofs ----------------------------
(***************************************************************************)
(* Proofs about Fleet, for any number of operators, allocations, runners   *)
(* and days.  Soundness of a fleet value is stated for a value g, the      *)
(* phases ph of the records, the aged allocations old and the day t, so    *)
(* that one lemma serves the ConfigMap and every copy inside a handler.    *)
(***************************************************************************)
EXTENDS Fleet, FiniteSetTheorems, TLAPS

RecordedIn(ph) == {x \in Ids : ph[x] # "none"}
Running(ph)    == {x \in Ids : ph[x] \in {"Pending", "Active"}}
Slots(g, ph)   == (g.pending \cup RecordedIn(ph)) \ g.released

\* Where an admitted allocation is: pending, recorded or pruned.  A pending one
\* has not ended; one that was pruned had ended a day before.
Placed(g, ph, old) ==
    /\ g.created = g.pending \cup RecordedIn(ph) \cup g.pruned
    /\ g.released \subseteq g.created
    /\ g.pruned \subseteq old /\ old \subseteq g.created
    /\ \A x \in g.pending : x \notin old /\ ph[x] \notin Terminal
    /\ \A x \in old : ph[x] \in Terminal \cup {"none"}

\* No allocation was created after today, and none that is old today.
Dated(g, old, t) ==
    /\ \A x \in g.created : g.day[x] <= t
    /\ \A x \in old : g.day[x] < t

\* The three counts: runners, slots and reservations.
RunnersFit(g, ph) == Cardinality(g.pending \cup Running(ph)) <= MaxRunners
SlotsCounted(g, ph) ==
    /\ Cardinality(Slots(g, ph)) <= g.admitted
    /\ g.admitted <= Cardinality(g.created \ g.released)
BudgetKept(g, ph, t) == DailyBudget > 0 => Spent(g, ph, t) <= DailyBudget

Sound(g, ph, old, t) ==
    /\ Placed(g, ph, old) /\ Dated(g, old, t)
    /\ RunnersFit(g, ph) /\ SlotsCounted(g, ph) /\ BudgetKept(g, ph, t)

\* What h may make of g: nothing that was created or pruned is forgotten,
\* and what is new in pending is new altogether.
Follows(h, g) ==
    /\ g.created \subseteq h.created /\ g.pruned \subseteq h.pruned
    /\ \A x \in h.pending : x \in g.pending \/ x \notin g.created

\* The copy inside a handler that can still be saved.
Savable(o) == current[o] /\ pc[o] \in {"admit", "admitted", "migrate", "pruned"}
CopiesSound ==
    \A o \in Operators : Savable(o) => Sound(f[o], Phase, aged, now) /\ Follows(f[o], fleet)

\* What a handler relies on when nothing tells it that its copy is old: records
\* are created for admitted allocations that cannot have been pruned, stepped
\* when no longer pending, and deleted when marked.
Relies(o) ==
    /\ pc[o] = "migrate" =>
         /\ f[o].created \subseteq fleet.created
         /\ f[o].pending \subseteq fleet.created /\ f[o].pending \cap aged = {}
    /\ pc[o] = "list" => f[o].created \subseteq fleet.created \ fleet.pending
    /\ pc[o] = "step" => todo[o] \subseteq fleet.created \ fleet.pending
    /\ pc[o] = "pruned" => todo[o] \subseteq f[o].pruned
    /\ pc[o] = "delete" => todo[o] \subseteq fleet.pruned

\* The inductive invariant.
FleetInv ==
    /\ TypeOK
    /\ Sound(fleet, Phase, aged, now)
    /\ CopiesSound
    /\ \A o \in Operators : Relies(o)

-----------------------------------------------------------------------------
(* Sets of allocations and their sizes.                                    *)

\* The IDs are finite, so every set the operator counts has a size.
LEMMA Sized == ASSUME NEW S \in SUBSET Ids PROVE IsFiniteSet(S) /\ Cardinality(S) \in Nat
<1>1. IsFiniteSet(S)
  BY IdsAssumption, FS_Subset
<1>. QED
  BY <1>1, FS_CardinalityType

\* A part is no larger than the whole.
LEMMA Smaller ==
  ASSUME NEW S \in SUBSET Ids, NEW T \in SUBSET S
  PROVE  Cardinality(T) <= Cardinality(S)
BY Sized, FS_Subset

\* Disjoint sets add up.
LEMMA Joined ==
  ASSUME NEW S \in SUBSET Ids, NEW T \in SUBSET Ids, S \cap T = {}
  PROVE  Cardinality(S \cup T) = Cardinality(S) + Cardinality(T)
<1>1. Cardinality(S \cup T) = Cardinality(S) + Cardinality(T) - Cardinality(S \cap T)
  BY Sized, FS_Union
<1>2. Cardinality(S \cap T) = 0
  BY FS_EmptySet
<1>3. Cardinality(S) \in Nat /\ Cardinality(T) \in Nat
  BY Sized
<1>. QED
  BY <1>1, <1>2, <1>3

\* What is taken out is subtracted.
LEMMA TakenOut ==
  ASSUME NEW S \in SUBSET Ids, NEW T \in SUBSET S
  PROVE  Cardinality(S \ T) = Cardinality(S) - Cardinality(T)
<1>1. S \cap T = T
  OBVIOUS
<1>2. Cardinality(S \ T) = Cardinality(S) - Cardinality(S \cap T)
  BY Zenon, Sized, FS_Difference
<1>. QED
  BY <1>1, <1>2

\* spentToday never grows when fewer of its reservations count.
LEMMA SpentLess ==
  ASSUME NEW g \in FleetState, NEW h \in FleetState,
         NEW ph, NEW ph2, NEW t, NEW t2,
         {x \in g.created : ph[x] # "TimedOut" /\ g.day[x] = t}
            \subseteq {x \in h.created : ph2[x] # "TimedOut" /\ h.day[x] = t2}
  PROVE  Spent(g, ph, t) <= Spent(h, ph2, t2)
<1>. DEFINE S == {x \in g.created : ph[x] # "TimedOut" /\ g.day[x] = t}
            T == {x \in h.created : ph2[x] # "TimedOut" /\ h.day[x] = t2}
<1>1. T \in SUBSET Ids /\ S \in SUBSET T
  BY DEF FleetState
<1>2. Cardinality(S) <= Cardinality(T)
  BY <1>1, Smaller
<1>. QED
  BY <1>2 DEF Spent

\* The counts of the operator are numbers.
LEMMA CountsAreNumbers ==
  ASSUME NEW g \in FleetState, NEW ph, NEW t
  PROVE  /\ Spent(g, ph, t) \in Nat
         /\ Cardinality(g.created) \in Nat
         /\ Cardinality(g.created \ g.released) \in Nat
         /\ Cardinality(Slots(g, ph)) \in Nat
         /\ Cardinality(g.pending \cup Running(ph)) \in Nat
         /\ Cardinality(ActiveIds(g, ph)) \in Nat
<1>1. /\ {x \in g.created : ph[x] # "TimedOut" /\ g.day[x] = t} \in SUBSET Ids
      /\ g.created \in SUBSET Ids /\ g.created \ g.released \in SUBSET Ids
      /\ Slots(g, ph) \in SUBSET Ids /\ g.pending \cup Running(ph) \in SUBSET Ids
      /\ ActiveIds(g, ph) \in SUBSET Ids
  BY DEF FleetState, Slots, RecordedIn, Running, ActiveIds
<1>. QED
  BY <1>1, Sized DEF Spent

\* A fleet value stays sound when no count grows and nothing is misplaced.
LEMMA SoundByParts ==
  ASSUME NEW g \in FleetState, NEW h \in FleetState, NEW ph, NEW ph2, NEW old, NEW t, NEW t2,
         RunnersFit(g, ph), SlotsCounted(g, ph), BudgetKept(g, ph, t),
         h.pending \cup Running(ph2) \subseteq g.pending \cup Running(ph),
         Slots(h, ph2) \subseteq Slots(g, ph),
         g.created \ g.released = h.created \ h.released, h.admitted = g.admitted,
         {x \in h.created : ph2[x] # "TimedOut" /\ h.day[x] = t2}
            \subseteq {x \in g.created : ph[x] # "TimedOut" /\ g.day[x] = t}
  PROVE  RunnersFit(h, ph2) /\ SlotsCounted(h, ph2) /\ BudgetKept(h, ph2, t2)
<1>1. RunnersFit(h, ph2)
  <2>1. g.pending \cup Running(ph) \in SUBSET Ids
    BY DEF FleetState, Running
  <2>2. Cardinality(h.pending \cup Running(ph2)) <= Cardinality(g.pending \cup Running(ph))
    BY <2>1, Smaller
  <2>3. /\ Cardinality(h.pending \cup Running(ph2)) \in Nat
        /\ Cardinality(g.pending \cup Running(ph)) \in Nat
    BY Zenon, CountsAreNumbers
  <2>. QED
    BY <2>2, <2>3, MaxRunnersAssumption DEF RunnersFit
<1>2. SlotsCounted(h, ph2)
  <2>1. Slots(g, ph) \in SUBSET Ids
    BY DEF FleetState, Slots, RecordedIn
  <2>2. Cardinality(Slots(h, ph2)) <= Cardinality(Slots(g, ph))
    BY <2>1, Smaller
  <2>3. g.admitted \in Nat
    BY DEF FleetState
  <2>4. Cardinality(Slots(h, ph2)) \in Nat /\ Cardinality(Slots(g, ph)) \in Nat
    BY Zenon, CountsAreNumbers
  <2>5. Cardinality(g.created \ g.released) = Cardinality(h.created \ h.released)
    BY Zenon
  <2>. QED
    BY <2>2, <2>3, <2>4, <2>5 DEF SlotsCounted
<1>3. BudgetKept(h, ph2, t2)
  <2>1. Spent(h, ph2, t2) <= Spent(g, ph, t)
    BY SpentLess
  <2>2. Spent(h, ph2, t2) \in Nat /\ Spent(g, ph, t) \in Nat
    BY Zenon, CountsAreNumbers
  <2>. QED
    BY <2>1, <2>2, BudgetAssumption DEF BudgetKept
<1>. QED
  BY <1>1, <1>2, <1>3
-----------------------------------------------------------------------------
(* What the records, the days and a handler do to a sound fleet value.     *)

\* The Migrate of Tick: an admitted allocation without a record that was not
\* pruned is pending, so its record changes none of the counts.
LEMMA SoundMigrated ==
  ASSUME NEW g \in FleetState, NEW ph \in [Ids -> Phases], NEW old, NEW t,
         Sound(g, ph, old, t), NEW x \in g.created, x \notin old, ph[x] = "none"
  PROVE  x \in g.pending /\ Sound(g, [ph EXCEPT ![x] = "Pending"], old, t)
<1>. DEFINE ph2 == [ph EXCEPT ![x] = "Pending"]
<1>1. x \in Ids /\ x \in g.pending
  BY DEF Sound, Placed, RecordedIn, FleetState
<1>2. ph2[x] = "Pending" /\ \A y \in Ids : y # x => ph2[y] = ph[y]
  BY <1>1
<1>3. g.created \subseteq Ids /\ g.pending \subseteq Ids
  BY DEF FleetState
<1>. HIDE DEF ph2
<1>4. /\ g.pending \cup RecordedIn(ph2) = g.pending \cup RecordedIn(ph)
      /\ g.pending \cup Running(ph2) = g.pending \cup Running(ph)
      /\ Slots(g, ph2) = Slots(g, ph)
  BY <1>1, <1>2 DEF RecordedIn, Running, Slots
<1>5. Placed(g, ph2, old)
  BY <1>1, <1>2, <1>3, <1>4 DEF Sound, Placed, Terminal
<1>6. {y \in g.created : ph2[y] # "TimedOut" /\ g.day[y] = t}
         \subseteq {y \in g.created : ph[y] # "TimedOut" /\ g.day[y] = t}
  BY <1>1, <1>2, <1>3
<1>7. RunnersFit(g, ph2) /\ SlotsCounted(g, ph2) /\ BudgetKept(g, ph2, t)
  BY <1>4, <1>6, SoundByParts DEF Sound
<1>. QED
  BY <1>1, <1>5, <1>7 DEF Sound, ph2

\* Controller.Step moves a record that is not pending any more: its slot stays
\* held until it is released, and no runner and no reservation is added.
LEMMA SoundStepped ==
  ASSUME NEW g \in FleetState, NEW ph \in [Ids -> Phases], NEW old, NEW t,
         Sound(g, ph, old, t), NEW x \in Ids, x \notin g.pending,
         ph[x] \in {"Pending", "Active"}, NEW q \in Phases \ {"none"}
  PROVE  Sound(g, [ph EXCEPT ![x] = q], old, t)
<1>. DEFINE ph2 == [ph EXCEPT ![x] = q]
<1>2. ph2[x] = q /\ \A y \in Ids : y # x => ph2[y] = ph[y]
  OBVIOUS
<1>3. g.created \subseteq Ids /\ g.pending \subseteq Ids
  BY DEF FleetState
<1>. HIDE DEF ph2
<1>4. /\ RecordedIn(ph2) = RecordedIn(ph)
      /\ Running(ph2) \subseteq Running(ph)
      /\ Slots(g, ph2) = Slots(g, ph)
  BY <1>2 DEF RecordedIn, Running, Slots
<1>5. Placed(g, ph2, old)
  <2>1. x \notin old
    BY DEF Sound, Placed, Terminal
  <2>2. old \subseteq Ids
    BY <1>3 DEF Sound, Placed
  <2>. QED
    BY <1>2, <1>3, <1>4, <2>1, <2>2 DEF Sound, Placed
<1>6. {y \in g.created : ph2[y] # "TimedOut" /\ g.day[y] = t}
         \subseteq {y \in g.created : ph[y] # "TimedOut" /\ g.day[y] = t}
  BY <1>2, <1>3
<1>7. RunnersFit(g, ph2) /\ SlotsCounted(g, ph2) /\ BudgetKept(g, ph2, t)
  BY <1>4, <1>6, SoundByParts DEF Sound
<1>. QED
  BY <1>5, <1>7 DEF Sound, ph2

\* A pruned record is deleted: it ended on an earlier day, so that today's
\* reservations do not count it again.
LEMMA SoundDeleted ==
  ASSUME NEW g \in FleetState, NEW ph \in [Ids -> Phases], NEW old, NEW t \in Nat,
         Sound(g, ph, old, t), NEW x \in g.pruned
  PROVE  Sound(g, [ph EXCEPT ![x] = "none"], old, t)
<1>. DEFINE ph2 == [ph EXCEPT ![x] = "none"]
<1>1. x \in Ids /\ x \in old /\ x \in g.created
  BY DEF FleetState, Sound, Placed
<1>2. ph2[x] = "none" /\ \A y \in Ids : y # x => ph2[y] = ph[y]
  BY <1>1
<1>3. g.created \subseteq Ids /\ g.pending \subseteq Ids
  BY DEF FleetState
<1>. HIDE DEF ph2
<1>4. /\ RecordedIn(ph2) = RecordedIn(ph) \ {x}
      /\ Running(ph2) \subseteq Running(ph)
      /\ Slots(g, ph2) \subseteq Slots(g, ph)
  BY <1>1, <1>2 DEF RecordedIn, Running, Slots
<1>5. Placed(g, ph2, old)
  <2>1. old \subseteq Ids
    BY <1>3 DEF Sound, Placed
  <2>. QED
    BY <1>1, <1>2, <1>3, <1>4, <2>1 DEF Sound, Placed, Terminal
<1>6. {y \in g.created : ph2[y] # "TimedOut" /\ g.day[y] = t}
         \subseteq {y \in g.created : ph[y] # "TimedOut" /\ g.day[y] = t}
  <2>1. g.day[x] < t /\ g.day[x] \in Nat
    BY <1>1, DayAssumption DEF Sound, Dated, FleetState
  <2>2. g.day[x] # t
    BY <2>1
  <2>. QED
    BY <1>2, <1>3, <2>2
<1>7. RunnersFit(g, ph2) /\ SlotsCounted(g, ph2) /\ BudgetKept(g, ph2, t)
  BY <1>4, <1>6, SoundByParts DEF Sound
<1>. QED
  BY <1>5, <1>7 DEF Sound, ph2
\* At midnight nothing is reserved for the new day.
LEMMA SoundMidnight ==
  ASSUME NEW g \in FleetState, NEW ph, NEW old, NEW t \in Nat, Sound(g, ph, old, t)
  PROVE  Sound(g, ph, old, t + 1)
<1>1. \A x \in g.created : g.day[x] \in Nat
  BY DayAssumption DEF FleetState
<1>2. old \subseteq g.created
  BY DEF Sound, Placed
<1>3. Dated(g, old, t + 1)
  BY <1>1, <1>2 DEF Sound, Dated
<1>4. {y \in g.created : ph[y] # "TimedOut" /\ g.day[y] = t + 1}
         \subseteq {y \in g.created : ph[y] # "TimedOut" /\ g.day[y] = t}
  <2>1. \A y \in g.created : g.day[y] # t + 1
    BY <1>1 DEF Sound, Dated
  <2>. QED
    BY <2>1
<1>5. RunnersFit(g, ph) /\ SlotsCounted(g, ph) /\ BudgetKept(g, ph, t + 1)
  BY <1>4, SoundByParts DEF Sound
<1>. QED
  BY <1>3, <1>5 DEF Sound

\* A record that ended on an earlier day may become prunable.
LEMMA SoundAged ==
  ASSUME NEW g \in FleetState, NEW ph, NEW old, NEW t,
         Sound(g, ph, old, t), NEW x \in Ids, ph[x] \in Terminal, g.day[x] < t
  PROVE  Sound(g, ph, old \cup {x}, t)
<1>1. x \in RecordedIn(ph)
  BY DEF RecordedIn, Terminal
<1>2. Placed(g, ph, old \cup {x})
  BY <1>1 DEF Sound, Placed
<1>3. Dated(g, old \cup {x}, t)
  BY DEF Sound, Dated
<1>. QED
  BY <1>2, <1>3 DEF Sound

\* pruneTerminalAllocations marks aged allocations: they stay accounted for.
LEMMA SoundPruned ==
  ASSUME NEW g \in FleetState, NEW ph, NEW old, NEW t,
         Sound(g, ph, old, t), NEW gone \in SUBSET old
  PROVE  LET h == [g EXCEPT !.pruned = @ \cup gone]
         IN  h \in FleetState /\ Sound(h, ph, old, t) /\ Follows(h, g)
<1>. DEFINE h == [g EXCEPT !.pruned = @ \cup gone]
<1>1. gone \subseteq g.created /\ gone \subseteq Ids
  BY DEF Sound, Placed, FleetState
<1>2. h \in FleetState
  BY <1>1 DEF FleetState
<1>3. /\ h.pruned = g.pruned \cup gone /\ h.created = g.created /\ h.pending = g.pending
      /\ h.released = g.released /\ h.admitted = g.admitted /\ h.day = g.day
  BY DEF FleetState
<1>. HIDE DEF h
<1>4. Placed(h, ph, old) /\ Dated(h, old, t)
  BY <1>1, <1>3 DEF Sound, Placed, Dated
<1>5. RunnersFit(h, ph) /\ SlotsCounted(h, ph) /\ BudgetKept(h, ph, t)
  <2>1. Slots(h, ph) = Slots(g, ph)
    BY Zenon, <1>3 DEF Slots
  <2>2. {y \in h.created : ph[y] # "TimedOut" /\ h.day[y] = t}
           \subseteq {y \in g.created : ph[y] # "TimedOut" /\ g.day[y] = t}
    BY <1>3
  <2>. QED
    BY <1>2, <1>3, <2>1, <2>2, SoundByParts DEF Sound
<1>6. Follows(h, g)
  BY <1>3 DEF Follows
<1>. QED
  BY <1>2, <1>4, <1>5, <1>6 DEF Sound, h

\* Tick drops a pending admission from its copy once its record exists.
LEMMA SoundDropped ==
  ASSUME NEW g \in FleetState, NEW ph, NEW old, NEW t,
         Sound(g, ph, old, t), NEW x \in Ids, ph[x] # "none"
  PROVE  LET h == [g EXCEPT !.pending = @ \ {x}]
         IN  h \in FleetState /\ Sound(h, ph, old, t)
<1>. DEFINE h == [g EXCEPT !.pending = @ \ {x}]
<1>2. h \in FleetState
  BY DEF FleetState
<1>3. /\ h.pruned = g.pruned /\ h.created = g.created /\ h.pending = g.pending \ {x}
      /\ h.released = g.released /\ h.admitted = g.admitted /\ h.day = g.day
  BY DEF FleetState
<1>. HIDE DEF h
<1>4. Placed(h, ph, old) /\ Dated(h, old, t)
  BY <1>3 DEF Sound, Placed, Dated, RecordedIn
<1>5. RunnersFit(h, ph) /\ SlotsCounted(h, ph) /\ BudgetKept(h, ph, t)
  <2>1. Slots(h, ph) \subseteq Slots(g, ph)
    BY <1>3 DEF Slots
  <2>2. {y \in h.created : ph[y] # "TimedOut" /\ h.day[y] = t}
           \subseteq {y \in g.created : ph[y] # "TimedOut" /\ g.day[y] = t}
    BY <1>3
  <2>. QED
    BY <1>2, <1>3, <2>1, <2>2, SoundByParts DEF Sound
<1>. QED
  BY <1>2, <1>4, <1>5 DEF Sound, h

-----------------------------------------------------------------------------
(* The decision of HandleDesiredRunnerCount.                               *)

\* Each slot that is released was held, so that the count never has to be kept
\* from going below zero.
LEMMA SoundReleased ==
  ASSUME NEW g \in FleetState, NEW ph \in [Ids -> Phases], NEW old, NEW t, Sound(g, ph, old, t)
  PROVE  LET h == Release(g, ph)
         IN  /\ h \in FleetState /\ Sound(h, ph, old, t) /\ Follows(h, g)
             /\ RecordedIn(ph) \ Running(ph) \subseteq h.released
             /\ h.pending = g.pending /\ h.created = g.created
<1>. DEFINE ended == {x \in Ids : ph[x] \in Terminal} \ g.released
            n == Cardinality(ended)
            h == [g EXCEPT !.admitted = Floor(@ - n), !.released = @ \cup ended]
<1>1. ended \subseteq Slots(g, ph) /\ ended \subseteq g.created \ g.released
  BY DEF Slots, RecordedIn, Terminal, Sound, Placed
<1>2. Slots(g, ph) \in SUBSET Ids /\ g.created \ g.released \in SUBSET Ids /\ ended \in SUBSET Ids
  BY DEF FleetState, Slots, RecordedIn
<1>3. /\ n \in Nat /\ g.admitted \in Nat /\ Cardinality(Slots(g, ph)) \in Nat
      /\ Cardinality(g.created \ g.released) \in Nat
  BY <1>2, Sized DEF FleetState
<1>4. n <= Cardinality(Slots(g, ph))
  BY <1>1, <1>2, Smaller
<1>5. Floor(g.admitted - n) = g.admitted - n /\ g.admitted - n \in Nat
  <2>. HIDE DEF n
  <2>. QED
    BY <1>3, <1>4 DEF Floor, Sound, SlotsCounted
<1>6. h \in FleetState
  <2>. HIDE DEF n
  <2>1. ended \subseteq Ids
    OBVIOUS
  <2>. HIDE DEF ended
  <2>. QED
    BY Zenon, <1>5, <2>1 DEF FleetState
<1>7. /\ h.pruned = g.pruned /\ h.created = g.created /\ h.pending = g.pending
      /\ h.released = g.released \cup ended /\ h.admitted = g.admitted - n /\ h.day = g.day
  <2>. HIDE DEF n, ended
  <2>. QED
    BY <1>5 DEF FleetState
<1>. HIDE DEF h
<1>8. Placed(h, ph, old) /\ Dated(h, old, t)
  BY <1>1, <1>7 DEF Sound, Placed, Dated
<1>9. RunnersFit(h, ph) /\ BudgetKept(h, ph, t)
  BY <1>7 DEF Sound, RunnersFit, BudgetKept, Spent
<1>10. SlotsCounted(h, ph)
  <2>1. /\ Slots(h, ph) = Slots(g, ph) \ ended
        /\ h.created \ h.released = (g.created \ g.released) \ ended
    <3>. HIDE DEF ended
    <3>. QED
      BY <1>7 DEF Slots
  <2>2. Cardinality(Slots(h, ph)) = Cardinality(Slots(g, ph)) - n
    BY <1>1, <1>2, <2>1, TakenOut
  <2>3. Cardinality(h.created \ h.released) = Cardinality(g.created \ g.released) - n
    BY <1>1, <1>2, <2>1, TakenOut
  <2>. HIDE DEF n
  <2>. QED
    BY <1>3, <1>7, <2>2, <2>3 DEF Sound, SlotsCounted
<1>11. RecordedIn(ph) \ Running(ph) \subseteq h.released
  BY <1>7 DEF RecordedIn, Running, Phases
<1>12. Follows(h, g)
  BY <1>7 DEF Follows
<1>13. h = Release(g, ph)
  BY DEF Release, h
<1>. QED
  BY <1>6, <1>7, <1>8, <1>9, <1>10, <1>11, <1>12, <1>13 DEF Sound
\* The runners that HandleDesiredRunnerCount counts are those that may own, or
\* come to own, a cloud resource.
LEMMA ActiveAreHeld ==
  ASSUME NEW g \in FleetState, NEW ph \in [Ids -> Phases], NEW old, Placed(g, ph, old)
  PROVE  ActiveIds(g, ph) = g.pending \cup Running(ph)
BY DEF ActiveIds, Running, Placed, FleetState, Phases

\* An idle fleet holds no slot when it is rebaselined.
LEMMA SoundRebaselined ==
  ASSUME NEW g \in FleetState, NEW ph \in [Ids -> Phases], NEW old, NEW t, NEW demand,
         Sound(g, ph, old, t), RecordedIn(ph) \ Running(ph) \subseteq g.released
  PROVE  LET h == Rebaseline(g, demand, Cardinality(ActiveIds(g, ph)))
         IN  /\ h \in FleetState /\ Sound(h, ph, old, t)
             /\ h.pending = g.pending /\ h.created = g.created /\ h.pruned = g.pruned
<1>. DEFINE reset == g.resetObserved \/ demand = 0
            zero == [g EXCEPT !.admitted = 0, !.resetObserved = FALSE]
            seen == [g EXCEPT !.resetObserved = reset]
<1>1. reset \in BOOLEAN
  BY Zenon
<1>2. ASSUME Cardinality(ActiveIds(g, ph)) = 0
      PROVE  /\ zero \in FleetState /\ Sound(zero, ph, old, t)
             /\ zero.pending = g.pending /\ zero.created = g.created /\ zero.pruned = g.pruned
  <2>1. ActiveIds(g, ph) \in SUBSET Ids
    BY DEF ActiveIds, FleetState
  <2>2. ActiveIds(g, ph) = {}
    BY <1>2, <2>1, Sized, FS_EmptySet
  <2>3. Slots(g, ph) = {}
    BY <2>2, ActiveAreHeld DEF Slots, Sound
  <2>4. zero \in FleetState
    BY Zenon DEF FleetState
  <2>5. /\ zero.pruned = g.pruned /\ zero.created = g.created /\ zero.pending = g.pending
        /\ zero.released = g.released /\ zero.admitted = 0 /\ zero.day = g.day
    BY DEF FleetState
  <2>. HIDE DEF zero
  <2>6. Placed(zero, ph, old) /\ Dated(zero, old, t)
    BY Zenon, <2>5 DEF Sound, Placed, Dated
  <2>7. RunnersFit(zero, ph) /\ BudgetKept(zero, ph, t)
    BY Zenon, <2>5 DEF Sound, RunnersFit, BudgetKept, Spent
  <2>8. Cardinality(Slots(zero, ph)) = 0
    BY <2>3, <2>5, FS_EmptySet DEF Slots
  <2>9. Cardinality(zero.created \ zero.released) \in Nat
    BY Zenon, <2>4, CountsAreNumbers
  <2>10. SlotsCounted(zero, ph)
    BY <2>5, <2>8, <2>9 DEF SlotsCounted
  <2>. QED
    BY Zenon, <2>4, <2>5, <2>6, <2>7, <2>10 DEF Sound
<1>3. /\ seen \in FleetState
      /\ seen.pruned = g.pruned /\ seen.created = g.created /\ seen.pending = g.pending
      /\ seen.released = g.released /\ seen.admitted = g.admitted /\ seen.day = g.day
  <2>. HIDE DEF reset
  <2>. QED
    BY <1>1 DEF FleetState
<1>4. Sound(seen, ph, old, t)
  <2>. HIDE DEF seen
  <2>. QED
    BY Zenon, <1>3 DEF Sound, Placed, Dated, RunnersFit, SlotsCounted, BudgetKept, Spent, Slots
<1>5. Rebaseline(g, demand, Cardinality(ActiveIds(g, ph))) =
         IF reset /\ Cardinality(ActiveIds(g, ph)) = 0 THEN zero ELSE seen
  BY Zenon DEF Rebaseline
<1>6. CASE reset /\ Cardinality(ActiveIds(g, ph)) = 0
  BY Zenon, <1>2, <1>5, <1>6
<1>7. CASE ~(reset /\ Cardinality(ActiveIds(g, ph)) = 0)
  BY Zenon, <1>3, <1>4, <1>5, <1>7
<1>. QED
  BY Zenon, <1>6, <1>7
\* The batch that HandleDesiredRunnerCount adds: n new allocations, created
\* today or, when midnight passes during the call, tomorrow.
Grown(h, new, n, t) ==
    [h EXCEPT !.admitted = @ + n, !.created = @ \cup new, !.pending = @ \cup new,
              !.day = [x \in Ids |-> IF x \in new THEN t ELSE @[x]]]

\* It is a fleet value.
LEMMA GrownTypes ==
  ASSUME NEW h \in FleetState, NEW n \in Nat, NEW new \in SUBSET (Ids \ h.created), NEW t \in 0..LastDay
  PROVE  Grown(h, new, n, t) \in FleetState
<1>. DEFINE d == [x \in Ids |-> IF x \in new THEN t ELSE h.day[x]]
            k == [h EXCEPT !.admitted = @ + n, !.created = @ \cup new, !.pending = @ \cup new, !.day = d]
<1>1. k = Grown(h, new, n, t)
  BY DEF Grown
<1>2. d \in [Ids -> 0..LastDay] /\ h.admitted + n \in Nat
  BY DEF FleetState
<1>. HIDE DEF d
<1>3. k \in FleetState
  BY Zenon, <1>2 DEF FleetState
<1>. QED
  BY Zenon, <1>1, <1>3

\* They are those of the decision and the new batch.
LEMMA GrownFields ==
  ASSUME NEW h \in FleetState, NEW n, NEW new, NEW t
  PROVE  LET k == Grown(h, new, n, t)
         IN  /\ k.pruned = h.pruned /\ k.created = h.created \cup new /\ k.pending = h.pending \cup new
             /\ k.released = h.released /\ k.admitted = h.admitted + n
             /\ \A x \in Ids : k.day[x] = IF x \in new THEN t ELSE h.day[x]
<1>. DEFINE d == [x \in Ids |-> IF x \in new THEN t ELSE h.day[x]]
            k == [h EXCEPT !.admitted = @ + n, !.created = @ \cup new, !.pending = @ \cup new, !.day = d]
<1>1. k = Grown(h, new, n, t)
  BY DEF Grown
<1>. HIDE DEF d
<1>2. /\ k.pruned = h.pruned /\ k.created = h.created \cup new /\ k.pending = h.pending \cup new
      /\ k.released = h.released /\ k.admitted = h.admitted + n /\ k.day = d
  BY DEF FleetState
<1>3. \A x \in Ids : k.day[x] = IF x \in new THEN t ELSE h.day[x]
  BY Zenon, <1>2 DEF d
<1>. QED
  BY Zenon, <1>1, <1>2, <1>3

\* A batch within the capacity and the budget that were computed keeps both.
LEMMA SoundGrown ==
  ASSUME NEW h \in FleetState, NEW ph \in [Ids -> Phases], NEW old, NEW t \in Nat, NEW t2 \in 0..LastDay,
         Sound(h, ph, old, t), t2 = t \/ t2 = t + 1,
         NEW n \in Nat, NEW new \in SUBSET (Ids \ h.created), Cardinality(new) = n,
         n <= MaxRunners - Cardinality(ActiveIds(h, ph)),
         DailyBudget > 0 => n <= DailyBudget - Spent(h, ph, t)
  PROVE  /\ Grown(h, new, n, t2) \in FleetState
         /\ Sound(Grown(h, new, n, t2), ph, old, t2)
<1>. DEFINE k == Grown(h, new, n, t2)
<1>4. k \in FleetState
  BY Zenon, GrownTypes
<1>5. /\ k.pruned = h.pruned /\ k.created = h.created \cup new /\ k.pending = h.pending \cup new
      /\ k.released = h.released /\ k.admitted = h.admitted + n
  BY GrownFields
<1>13. \A x \in Ids : k.day[x] = IF x \in new THEN t2 ELSE h.day[x]
  BY GrownFields
<1>6. Sound(h, ph, old, t2)
  BY SoundMidnight
<1>7. /\ \A x \in new : ph[x] = "none" /\ x \notin old /\ x \notin h.released /\ k.day[x] = t2
      /\ \A x \in h.created : k.day[x] = h.day[x]
  BY <1>13 DEF Sound, Placed, RecordedIn, FleetState
<1>. HIDE DEF k
<1>8. Placed(k, ph, old)
  BY <1>5, <1>6, <1>7 DEF Sound, Placed, Terminal
<1>9. Dated(k, old, t2)
  <2>1. old \subseteq h.created
    BY DEF Sound, Placed
  <2>. QED
    BY <1>5, <1>6, <1>7, <2>1 DEF Sound, Dated
<1>10. RunnersFit(k, ph)
  <2>1. ActiveIds(h, ph) = h.pending \cup Running(ph)
    BY ActiveAreHeld DEF Sound
  <2>2. (h.pending \cup Running(ph)) \cap new = {}
    BY <1>7 DEF Running, Sound, Placed
  <2>3. h.pending \cup Running(ph) \in SUBSET Ids /\ new \in SUBSET Ids
    BY DEF Running, FleetState
  <2>4. Cardinality((h.pending \cup Running(ph)) \cup new) = Cardinality(h.pending \cup Running(ph)) + n
    BY <2>2, <2>3, Joined
  <2>5. (h.pending \cup Running(ph)) \cup new = k.pending \cup Running(ph)
    BY <1>5
  <2>6. Cardinality(h.pending \cup Running(ph)) \in Nat
    BY Zenon, CountsAreNumbers
  <2>7. Cardinality(k.pending \cup Running(ph)) = Cardinality(ActiveIds(h, ph)) + n
    BY Zenon, <2>1, <2>4, <2>5
  <2>. QED
    BY <2>1, <2>6, <2>7, MaxRunnersAssumption DEF RunnersFit
<1>11. SlotsCounted(k, ph)
  <2>1. Slots(k, ph) = Slots(h, ph) \cup new /\ k.created \ k.released = (h.created \ h.released) \cup new
    BY <1>5, <1>7 DEF Slots
  <2>2. Slots(h, ph) \cap new = {} /\ (h.created \ h.released) \cap new = {}
    BY <1>7 DEF Slots, RecordedIn, Sound, Placed
  <2>3. Slots(h, ph) \in SUBSET Ids /\ h.created \ h.released \in SUBSET Ids /\ new \in SUBSET Ids
    BY DEF Slots, RecordedIn, FleetState
  <2>4. Cardinality(Slots(k, ph)) = Cardinality(Slots(h, ph)) + n
    BY <2>1, <2>2, <2>3, Joined
  <2>5. Cardinality(k.created \ k.released) = Cardinality(h.created \ h.released) + n
    BY <2>1, <2>2, <2>3, Joined
  <2>6. /\ Cardinality(Slots(h, ph)) \in Nat /\ Cardinality(h.created \ h.released) \in Nat
        /\ h.admitted \in Nat
    BY <2>3, Sized DEF FleetState
  <2>. QED
    BY <1>5, <2>4, <2>5, <2>6 DEF Sound, SlotsCounted
<1>12. BudgetKept(k, ph, t2)
  <2>. DEFINE S(g) == {x \in g.created : ph[x] # "TimedOut" /\ g.day[x] = t2}
  <2>1. S(k) = S(h) \cup new
    BY <1>5, <1>7
  <2>2. S(h) \cap new = {}
    OBVIOUS
  <2>3. S(h) \in SUBSET Ids /\ new \in SUBSET Ids
    BY DEF FleetState
  <2>4. Spent(k, ph, t2) = Spent(h, ph, t2) + n
    <3>1. Cardinality(S(h) \cup new) = Cardinality(S(h)) + n
      BY <2>2, <2>3, Joined
    <3>. QED
      BY Zenon, <2>1, <3>1 DEF Spent
  <2>. HIDE DEF S
  <2>5. Spent(h, ph, t2) \in Nat /\ Spent(h, ph, t) \in Nat
    BY Zenon, CountsAreNumbers
  <2>6. CASE t2 = t
    BY <2>4, <2>5, <2>6, BudgetAssumption DEF BudgetKept
  <2>7. CASE t2 = t + 1
    <3>1. \A x \in h.created : h.day[x] # t2
      <4>1. \A x \in h.created : h.day[x] \in Nat /\ h.day[x] <= t
        BY DayAssumption DEF FleetState, Sound, Dated
      <4>. QED
        BY <2>7, <4>1
    <3>2. S(h) = {}
      BY <3>1 DEF S
    <3>3. Spent(h, ph, t2) = 0
      BY <3>2, FS_EmptySet DEF Spent, S
    <3>. QED
      BY <2>4, <2>5, <3>3, BudgetAssumption DEF BudgetKept
  <2>. QED
    BY <2>6, <2>7
<1>. QED
  BY Zenon, <1>4, <1>8, <1>9, <1>10, <1>11, <1>12 DEF Sound, k
-----------------------------------------------------------------------------
(* Types.                                                                  *)

\* The empty fleet of a fresh installation is well typed.
LEMMA TypeInit == Init => TypeOK
<1>. SUFFICES ASSUME Init PROVE TypeOK
  OBVIOUS
<1>1. NoFleet \in FleetState
  BY DayAssumption DEF NoFleet, FleetState
<1>2. NoRecord \in [phase: Phases, retire: BOOLEAN]
  BY DEF NoRecord, Phases
<1>3. NoAllocs \in [Ids -> Terminal \cup {"none"}]
  BY DEF NoAllocs
<1>4. now \in 0..LastDay
  BY DayAssumption DEF Init
<1>5. record \in [Ids -> [phase: Phases, retire: BOOLEAN]]
  BY Zenon, <1>2 DEF Init
<1>6. f \in [Operators -> FleetState] /\ allocs \in [Operators -> [Ids -> Terminal \cup {"none"}]]
  BY Zenon, <1>1, <1>3 DEF Init
<1>7. /\ mode \in [Operators -> Workers \cup {"down"}] /\ pc \in [Operators -> Labels]
      /\ todo \in [Operators -> SUBSET Ids] /\ aged \subseteq Ids
  BY DEF Init, Labels
<1>8. /\ paused \in [Operators -> BOOLEAN] /\ started \in [Operators -> BOOLEAN]
      /\ current \in [Operators -> BOOLEAN] /\ deleting \in BOOLEAN /\ drained \in BOOLEAN
  BY Zenon DEF Init
<1>9. fleet \in FleetState
  BY <1>1 DEF Init
<1>. QED
  BY <1>4, <1>5, <1>6, <1>7, <1>8, <1>9 DEF TypeOK

\* A handler that returns keeps its types.
LEMMA ReturnTypes ==
  ASSUME TypeOK, NEW o \in Operators, Return(o)
  PROVE  /\ pc' \in [Operators -> Labels] /\ started' \in [Operators -> BOOLEAN]
         /\ f' \in [Operators -> FleetState]
         /\ allocs' \in [Operators -> [Ids -> Terminal \cup {"none"}]]
         /\ todo' \in [Operators -> SUBSET Ids]
<1>1. NoFleet \in FleetState
  BY DayAssumption DEF NoFleet, FleetState
<1>2. NoAllocs \in [Ids -> Terminal \cup {"none"}]
  BY DEF NoAllocs
<1>. QED
  BY <1>1, <1>2 DEF Return, Goto, TypeOK, Labels

\* Steps that load the fleet, save it, fail, or start and stop a worker.
LEMMA SimpleTypes ==
  ASSUME TypeOK, NEW o \in Operators,
         \/ AdmitLoad(o) \/ TickLoad(o) \/ DrainedLoad(o) \/ SaveFleet(o) \/ Fail(o)
         \/ Start(o) \/ Stop(o) \/ PauseAdmissions(o) \/ Drained(o)
  PROVE  TypeOK'
<1>1. ASSUME AdmitLoad(o) \/ TickLoad(o) \/ DrainedLoad(o) PROVE TypeOK'
  <2>1. /\ UNCHANGED <<fleet, record, aged, now, deleting, drained, mode, paused, started, allocs, todo>>
        /\ f' = [f EXCEPT ![o] = fleet] /\ current' = [current EXCEPT ![o] = TRUE]
    BY Zenon, <1>1 DEF AdmitLoad, TickLoad, DrainedLoad, LoadFleet, durable, clock, process
  <2>2. \E label \in {"admit", "migrate", "drained"} : pc' = [pc EXCEPT ![o] = label]
    BY Zenon, <1>1 DEF AdmitLoad, TickLoad, DrainedLoad, LoadFleet, Goto
  <2>3. pc' \in [Operators -> Labels]
    BY <2>2 DEF TypeOK, Labels
  <2>. QED
    BY Zenon, <2>1, <2>3 DEF TypeOK
<1>2. ASSUME SaveFleet(o) PROVE TypeOK'
  <2>1. fleet' \in FleetState /\ current' \in [Operators -> BOOLEAN]
    BY Zenon, <1>2 DEF SaveFleet, TypeOK
  <2>2. CASE Return(o)
    BY Zenon, <1>2, <2>1, <2>2, ReturnTypes DEF SaveFleet, TypeOK, clock
  <2>3. CASE Goto(o, IF pc[o] = "migrate" THEN "list" ELSE "delete") /\ UNCHANGED <<started, f, allocs, todo>>
    BY Zenon, <1>2, <2>1, <2>3 DEF SaveFleet, TypeOK, clock, Goto, Labels
  <2>. QED
    BY Zenon, <1>2, <2>2, <2>3 DEF SaveFleet
<1>3. ASSUME Fail(o) PROVE TypeOK'
  BY <1>3, ReturnTypes DEF Fail, TypeOK, durable, clock
<1>4. ASSUME Start(o) PROVE TypeOK'
  BY Zenon, <1>4 DEF Start, TypeOK, durable, clock, handler
<1>5. ASSUME Stop(o) PROVE TypeOK'
  <2>1. NoFleet \in FleetState
    BY DayAssumption DEF NoFleet, FleetState
  <2>2. NoAllocs \in [Ids -> Terminal \cup {"none"}]
    BY DEF NoAllocs
  <2>. QED
    BY <1>5, <2>1, <2>2 DEF Stop, TypeOK, Labels, durable, clock
<1>6. ASSUME PauseAdmissions(o) PROVE TypeOK'
  BY <1>6 DEF PauseAdmissions, TypeOK, durable, clock, handler
<1>7. ASSUME Drained(o) PROVE TypeOK'
  BY <1>7, ReturnTypes DEF Drained, TypeOK, durable, clock
<1>. QED
  BY <1>1, <1>2, <1>3, <1>4, <1>5, <1>6, <1>7

\* The records that Tick retires before it steps them.
Retired(o, r) == {[r EXCEPT !.retire = b] : b \in IF Draining(o) THEN {TRUE} ELSE {r.retire, TRUE}}

\* What a goroutine of Tick makes of a record: nothing, a retired one, or one moved.
Outcome(o, r, s) ==
    \/ s = r \/ s \in Retired(o, r)
    \/ \E u \in Retired(o, r) : \E q \in Moves(u) :
          s = [phase |-> q, retire |-> u.retire /\ q \notin Terminal]

\* Stepped gives no other outcome.
LEMMA SteppedShape == ASSUME NEW o, NEW r, NEW s \in Stepped(o, r) PROVE Outcome(o, r, s)
<1>1. Stepped(o, r) = {r} \cup Retired(o, r)
         \cup UNION {{[phase |-> q, retire |-> u.retire /\ q \notin Terminal] : q \in Moves(u)} :
                       u \in Retired(o, r)}
  BY Zenon DEF Stepped, Retired
<1>. QED
  BY Zenon, <1>1 DEF Outcome

\* Steps that work on records.
LEMMA RecordTypes ==
  ASSUME TypeOK, NEW o \in Operators, NEW x \in Ids,
         HandleJobCompleted(o, x) \/ Migrate(o, x) \/ StepOne(o, x) \/ DeleteOne(o, x)
  PROVE  TypeOK'
<1>. DEFINE R == [phase: Phases, retire: BOOLEAN]
<1>1. record \in [Ids -> R]
  BY DEF TypeOK
<1>2. ASSUME HandleJobCompleted(o, x) PROVE TypeOK'
  BY Zenon, <1>2 DEF HandleJobCompleted, TypeOK, clock, process, handler
<1>3. ASSUME Migrate(o, x) PROVE TypeOK'
  <2>1. [phase |-> "Pending", retire |-> Draining(o)] \in R
    BY Zenon DEF Phases, Draining
  <2>2. record' \in [Ids -> R]
    BY Zenon, <1>1, <1>3, <2>1 DEF Migrate
  <2>3. f' \in [Operators -> FleetState]
    <3>1. f \in [Operators -> FleetState] /\ f[o] \in FleetState
      BY DEF TypeOK
    <3>2. [f[o] EXCEPT !.pending = @ \ {x}] \in FleetState
      BY <3>1 DEF FleetState
    <3>3. f' = [f EXCEPT ![o] = [f[o] EXCEPT !.pending = @ \ {x}]]
      BY <1>3, <3>1 DEF Migrate
    <3>. QED
      BY <3>1, <3>2, <3>3
  <2>. QED
    BY <1>3, <2>2, <2>3 DEF Migrate, TypeOK, clock, process
<1>4. ASSUME StepOne(o, x) PROVE TypeOK'
  <2>1. Stepped(o, record[x]) \subseteq R
    <3>. DEFINE r == record[x]
    <3>1. r \in R
      BY <1>1
    <3>2. r.retire \in BOOLEAN
      BY Zenon, <3>1
    <3>3. \A b \in BOOLEAN : [r EXCEPT !.retire = b] \in R
      BY <3>1
    <3>. HIDE DEF r, R
    <3>4. Retired(o, r) \subseteq R
      BY Zenon, <3>2, <3>3 DEF Retired
    <3>5. \A u : Moves(u) \subseteq Phases
      BY DEF Moves, Phases, Terminal
    <3>6. \A q \in Phases, b \in BOOLEAN : [phase |-> q, retire |-> b] \in R
      BY DEF R
    <3>7. \A u : \A q \in Moves(u) : [phase |-> q, retire |-> u.retire /\ q \notin Terminal] \in R
      BY Zenon, <3>5, <3>6
    <3>8. ASSUME NEW s \in Stepped(o, r) PROVE s \in R
      <4>1. Outcome(o, r, s)
        BY Zenon, <3>8, SteppedShape
      <4>. QED
        BY Zenon, <3>1, <3>4, <3>7, <4>1 DEF Outcome
    <3>. QED
      BY <3>8 DEF r
  <2>2. record' \in [Ids -> R]
    BY Zenon, <1>1, <1>4, <2>1 DEF StepOne
  <2>3. todo' \in [Operators -> SUBSET Ids]
    BY <1>4 DEF StepOne, TypeOK
  <2>. QED
    BY <1>4, <2>2, <2>3 DEF StepOne, TypeOK, clock, process
<1>5. ASSUME DeleteOne(o, x) PROVE TypeOK'
  <2>1. NoRecord \in R
    BY DEF NoRecord, Phases
  <2>2. record' \in [Ids -> R]
    BY Zenon, <1>1, <1>5, <2>1 DEF DeleteOne
  <2>3. CASE Return(o)
    BY <1>5, <2>2, <2>3, ReturnTypes DEF DeleteOne, TypeOK, clock
  <2>4. CASE todo' = [todo EXCEPT ![o] = @ \ {x}] /\ UNCHANGED <<started, pc, f, allocs>>
    BY <1>5, <2>2, <2>4 DEF DeleteOne, TypeOK, clock
  <2>. QED
    BY Zenon, <1>5, <2>3, <2>4 DEF DeleteOne
<1>. QED
  BY <1>2, <1>3, <1>4, <1>5

\* The list of a Tick, and its marks.
LEMMA ListTypes == ASSUME TypeOK, NEW o \in Operators, List(o) PROVE TypeOK'
<1>1. NoFleet \in FleetState
  BY DayAssumption DEF NoFleet, FleetState
<1>2. allocs' \in [Operators -> [Ids -> Terminal \cup {"none"}]]
  BY Zenon DEF List, TypeOK
<1>3. todo' \in [Operators -> SUBSET Ids]
  BY Zenon DEF List, TypeOK, Recorded
<1>. QED
  BY Zenon, <1>1, <1>2, <1>3 DEF List, TypeOK, durable, clock, process, Goto, Labels

\* The marks of pruneTerminalAllocations keep the types.
LEMMA PruneTypes == ASSUME TypeOK, NEW o \in Operators, Prune(o) PROVE TypeOK'
<1>1. CASE Return(o) /\ UNCHANGED current
  BY <1>1, ReturnTypes DEF Prune, TypeOK, durable, clock
<1>2. ASSUME NEW gone \in SUBSET Prunable(fleet, allocs[o]),
             f' = [f EXCEPT ![o] = [fleet EXCEPT !.pruned = @ \cup gone]],
             current' = [current EXCEPT ![o] = TRUE],
             todo' = [todo EXCEPT ![o] = gone],
             allocs' = [allocs EXCEPT ![o] = NoAllocs],
             Goto(o, "pruned"), UNCHANGED started
      PROVE  TypeOK'
  <2>1. gone \subseteq Ids
    BY DEF Prunable, TypeOK
  <2>2. [fleet EXCEPT !.pruned = @ \cup gone] \in FleetState
    BY Zenon, <2>1 DEF TypeOK, FleetState
  <2>3. NoAllocs \in [Ids -> Terminal \cup {"none"}]
    BY DEF NoAllocs
  <2>. QED
    BY <1>2, <2>1, <2>2, <2>3 DEF Prune, TypeOK, durable, clock, Goto, Labels
<1>. QED
  BY <1>1, <1>2 DEF Prune
-----------------------------------------------------------------------------
(* Steps and the invariant.                                                *)

\* The types that the following proofs use.
LEMMA Shapes ==
  ASSUME TypeOK
  PROVE  /\ fleet \in FleetState /\ Phase \in [Ids -> Phases] /\ now \in Nat
         /\ \A o \in Operators : f[o] \in FleetState /\ todo[o] \subseteq Ids
         /\ \A x \in Ids : Phase[x] = record[x].phase
<1>1. now \in Nat
  BY DayAssumption DEF TypeOK
<1>. QED
  BY Zenon, <1>1 DEF TypeOK, Phase

\* A step of one handler that writes neither the fleet nor a phase: the other
\* handlers keep what they rely on, also when the day changes.
LEMMA OneHandler ==
  ASSUME FleetInv, TypeOK', NEW o, fleet' = fleet, Phase' = Phase, aged' = aged,
         now' = now \/ now' = now + 1,
         \A p \in Operators : p # o =>
            /\ pc'[p] = pc[p] /\ f'[p] = f[p] /\ todo'[p] = todo[p] /\ current'[p] = current[p],
         o \in Operators =>
            /\ Savable(o)' => Sound(f'[o], Phase, aged, now') /\ Follows(f'[o], fleet)
            /\ Relies(o)'
  PROVE  FleetInv'
<1>1. \A g \in FleetState : Sound(g, Phase, aged, now) => Sound(g, Phase, aged, now')
  BY Shapes, SoundMidnight DEF FleetInv
<1>2. Sound(fleet, Phase, aged, now)'
  BY <1>1, Shapes DEF FleetInv
<1>3. ASSUME NEW p \in Operators, Savable(p)'
      PROVE  Sound(f'[p], Phase', aged', now') /\ Follows(f'[p], fleet')
  <2>1. CASE p = o
    BY Zenon, <1>3, <2>1
  <2>2. CASE p # o
    <3>1. Savable(p) /\ f'[p] = f[p]
      BY Zenon, <1>3, <2>2 DEF Savable
    <3>2. Sound(f[p], Phase, aged, now) /\ Follows(f[p], fleet) /\ f[p] \in FleetState
      BY Zenon, <3>1, Shapes DEF FleetInv, CopiesSound
    <3>. QED
      BY Zenon, <1>1, <3>1, <3>2
  <2>. QED
    BY Zenon, <2>1, <2>2
<1>4. ASSUME NEW p \in Operators PROVE Relies(p)'
  <2>1. CASE p = o
    BY Zenon, <2>1
  <2>2. CASE p # o
    <3>1. Relies(p)
      BY Zenon DEF FleetInv
    <3>2. /\ pc'[p] = pc[p] /\ f'[p] = f[p] /\ todo'[p] = todo[p]
          /\ fleet' = fleet /\ aged' = aged
      BY Zenon, <2>2
    <3>. QED
      BY Zenon, <3>1, <3>2 DEF Relies
  <2>. QED
    BY Zenon, <2>1, <2>2
<1>. QED
  BY Zenon, <1>2, <1>3, <1>4 DEF FleetInv, CopiesSound

\* A handler that is idle, or asks Drained, relies on nothing.
LEMMA QuietHandler ==
  ASSUME FleetInv, TypeOK', NEW o, fleet' = fleet, Phase' = Phase, aged' = aged, now' = now,
         \A p \in Operators : p # o =>
            /\ pc'[p] = pc[p] /\ f'[p] = f[p] /\ todo'[p] = todo[p] /\ current'[p] = current[p],
         o \in Operators => pc'[o] \in {"idle", "check", "drained"}
  PROVE  FleetInv'
<1>1. o \in Operators => ~Savable(o)' /\ Relies(o)'
  BY DEF Savable, Relies
<1>. QED
  BY Zenon, <1>1, OneHandler

\* What Return does to the handlers.
LEMMA ReturnEnds ==
  ASSUME TypeOK, NEW o \in Operators, Return(o)
  PROVE  /\ pc'[o] \in {"idle", "check"}
         /\ \A p \in Operators : p # o => pc'[p] = pc[p] /\ f'[p] = f[p] /\ todo'[p] = todo[p]
BY DEF Return, Goto, TypeOK

\* Workers, failures, Drained, and whatever happens around the handlers.
LEMMA QuietSteps ==
  ASSUME FleetInv, TypeOK',
         \/ DeleteScaleSet \/ Midnight \/ UNCHANGED vars
         \/ \E o \in Operators :
               \/ Start(o) \/ Stop(o) \/ PauseAdmissions(o) \/ DrainedLoad(o) \/ Drained(o) \/ Fail(o)
               \/ \E x \in Ids : HandleJobCompleted(o, x)
  PROVE  FleetInv'
<1>. TypeOK
  BY DEF FleetInv
<1>1. ASSUME UNCHANGED <<fleet, aged, handler>>, Phase' = Phase, now' = now \/ now' = now + 1
      PROVE  FleetInv'
  <2>1. PICK o : o \notin Operators
    BY Zenon, NoSetContainsEverything
  <2>. QED
    BY Zenon, <1>1, <2>1, OneHandler DEF handler
<1>2. CASE DeleteScaleSet \/ Midnight \/ UNCHANGED vars
  <2>1. UNCHANGED <<fleet, record, aged, handler>> /\ (now' = now \/ now' = now + 1)
    BY Zenon, <1>2 DEF DeleteScaleSet, Midnight, vars, durable, clock
  <2>. QED
    BY Zenon, <1>1, <2>1 DEF Phase
<1>3. ASSUME NEW o \in Operators, Start(o) \/ PauseAdmissions(o) PROVE FleetInv'
  <2>1. UNCHANGED <<fleet, record, aged, now, handler>>
    BY Zenon, <1>3 DEF Start, PauseAdmissions, durable, clock
  <2>. QED
    BY Zenon, <1>1, <2>1 DEF Phase
<1>4. ASSUME NEW o \in Operators, NEW x \in Ids, HandleJobCompleted(o, x) PROVE FleetInv'
  <2>1. UNCHANGED <<fleet, aged, now, handler>>
    BY Zenon, <1>4 DEF HandleJobCompleted, clock
  <2>2. Phase' = Phase
    BY <1>4 DEF HandleJobCompleted, Phase, TypeOK
  <2>. QED
    BY Zenon, <1>1, <2>1, <2>2
<1>5. ASSUME NEW o \in Operators, Stop(o) \/ DrainedLoad(o) \/ Drained(o) \/ Fail(o) PROVE FleetInv'
  <2>1. UNCHANGED <<fleet, record, aged, now>>
    BY Zenon, <1>5 DEF Stop, DrainedLoad, Drained, Fail, durable, clock
  <2>2. Phase' = Phase
    BY Zenon, <2>1 DEF Phase
  <2>3. /\ pc'[o] \in {"idle", "check", "drained"}
        /\ \A p \in Operators : p # o => pc'[p] = pc[p] /\ f'[p] = f[p] /\ todo'[p] = todo[p]
    <3>1. CASE Stop(o)
      BY Zenon, <3>1 DEF Stop, TypeOK
    <3>2. CASE DrainedLoad(o)
      BY Zenon, <3>2 DEF DrainedLoad, LoadFleet, Goto, TypeOK
    <3>3. CASE Drained(o) \/ Fail(o)
      <4>1. Return(o)
        BY Zenon, <3>3 DEF Drained, Fail
      <4>. QED
        BY Zenon, <4>1, ReturnEnds
    <3>. QED
      BY Zenon, <1>5, <3>1, <3>2, <3>3
  <2>4. \A p \in Operators : p # o => current'[p] = current[p]
    BY <1>5 DEF Stop, DrainedLoad, LoadFleet, Drained, Fail, TypeOK
  <2>. QED
    BY Zenon, <2>1, <2>2, <2>3, <2>4, QuietHandler
<1>. QED
  BY Zenon, <1>2, <1>3, <1>4, <1>5
-----------------------------------------------------------------------------
(* HandleDesiredRunnerCount.                                               *)

\* Release and Rebaseline return fleet values, also from a stale copy.
LEMMA DecisionTypes ==
  ASSUME NEW g \in FleetState, NEW ph, NEW demand, NEW active
  PROVE  Release(g, ph) \in FleetState /\ Rebaseline(g, demand, active) \in FleetState
<1>1. Release(g, ph) \in FleetState
  <2>. DEFINE ended == {x \in Ids : ph[x] \in Terminal} \ g.released
              n == Cardinality(ended)
  <2>1. ended \in SUBSET Ids /\ n \in Nat
    BY Sized
  <2>. HIDE DEF n, ended
  <2>2. Floor(g.admitted - n) \in Nat
    BY <2>1 DEF FleetState, Floor
  <2>3. [g EXCEPT !.admitted = Floor(@ - n), !.released = @ \cup ended] \in FleetState
    BY Zenon, <2>1, <2>2 DEF FleetState
  <2>. QED
    BY <2>3 DEF Release, n, ended
<1>2. Rebaseline(g, demand, active) \in FleetState
  <2>. DEFINE reset == g.resetObserved \/ demand = 0
  <2>1. reset \in BOOLEAN
    BY Zenon
  <2>. HIDE DEF reset
  <2>2. /\ [g EXCEPT !.admitted = 0, !.resetObserved = FALSE] \in FleetState
        /\ [g EXCEPT !.resetObserved = reset] \in FleetState
    BY Zenon, <2>1 DEF FleetState
  <2>. QED
    BY Zenon, <2>2 DEF Rebaseline, reset
<1>. QED
  BY <1>1, <1>2

\* The size of a batch is a number; one that is not empty fits the runners and
\* what is left of the budget.
LEMMA BatchFits ==
  ASSUME TypeOK, NEW h \in FleetState, NEW ph, NEW demand \in Demands, NEW active \in Nat
  PROVE  LET n == Affordable(h, ph, NewSlots(h, demand, active))
         IN  /\ n \in Nat
             /\ n > 0 => n <= MaxRunners - active
             /\ n > 0 /\ DailyBudget > 0 => n <= DailyBudget - Spent(h, ph, now)
<1>1. demand \in Nat /\ MaxRunners \in Nat /\ h.admitted \in Nat /\ Spent(h, ph, now) \in Nat
  <2>1. Spent(h, ph, now) \in Nat
    BY Zenon, CountsAreNumbers
  <2>. QED
    BY <2>1, DemandAssumption, MaxRunnersAssumption DEF FleetState
<1>. DEFINE m == NewSlots(h, demand, active)
<1>2. m \in Nat /\ (m > 0 => m <= MaxRunners - active)
  BY <1>1 DEF NewSlots, Floor, Least
<1>. HIDE DEF m
<1>3. Affordable(h, ph, m) = IF DailyBudget = 0 THEN m ELSE Least(m, Floor(DailyBudget - Spent(h, ph, now)))
  BY Zenon DEF Affordable
<1>. QED
  BY <1>1, <1>2, <1>3, BudgetAssumption DEF Least, Floor, m

\* Rebaselining touches the counters only.
LEMMA RebaselinedFields ==
  ASSUME NEW g \in FleetState, NEW demand, NEW active
  PROVE  LET h == Rebaseline(g, demand, active)
         IN  h.pending = g.pending /\ h.created = g.created /\ h.pruned = g.pruned
BY DEF Rebaseline, FleetState

\* What the decision makes of the copy: a fleet value, which is sound and
\* follows the ConfigMap if the copy was not overtaken.
LEMMA AdmitCopy ==
  ASSUME FleetInv, NEW o \in Operators, NEW demand \in Demands, Admit(o, demand)
  PROVE  /\ f'[o] \in FleetState /\ now' \in 0..LastDay /\ (now' = now \/ now' = now + 1)
         /\ current[o] => Sound(f'[o], Phase, aged, now') /\ Follows(f'[o], fleet)
<1>. DEFINE g == Release(f[o], Phase)
            active == Cardinality(ActiveIds(g, Phase))
            h == Rebaseline(g, demand, active)
            n == Affordable(h, Phase, NewSlots(h, demand, active))
<1>1. TypeOK /\ f[o] \in FleetState /\ Phase \in [Ids -> Phases] /\ now \in Nat /\ now \in 0..LastDay
  BY Shapes DEF FleetInv, TypeOK
<1>2. g \in FleetState /\ h \in FleetState
  BY Zenon, <1>1, DecisionTypes
<1>3. active \in Nat
  BY Zenon, <1>2, CountsAreNumbers
<1>4. /\ n \in Nat
      /\ n > 0 => n <= MaxRunners - active
      /\ n > 0 /\ DailyBudget > 0 => n <= DailyBudget - Spent(h, Phase, now)
  <2>. HIDE DEF active, h
  <2>. QED
    BY Zenon, <1>1, <1>2, <1>3, BatchFits
<1>5. ASSUME current[o]
      PROVE  /\ Sound(g, Phase, aged, now) /\ Follows(g, fleet)
             /\ Sound(h, Phase, aged, now) /\ Follows(h, fleet)
             /\ active = Cardinality(ActiveIds(h, Phase))
  <2>1. Sound(f[o], Phase, aged, now) /\ Follows(f[o], fleet)
    BY Zenon, <1>5 DEF FleetInv, CopiesSound, Savable, Admit
  <2>2. /\ Sound(g, Phase, aged, now) /\ Follows(g, f[o])
        /\ RecordedIn(Phase) \ Running(Phase) \subseteq g.released
        /\ g.pending = f[o].pending /\ g.created = f[o].created
    BY Zenon, <1>1, <2>1, SoundReleased
  <2>. HIDE DEF g
  <2>3. /\ Sound(h, Phase, aged, now)
        /\ h.pending = g.pending /\ h.created = g.created /\ h.pruned = g.pruned
    <3>. DEFINE k == Rebaseline(g, demand, Cardinality(ActiveIds(g, Phase)))
    <3>1. k = h
      BY Zenon
    <3>. HIDE DEF h, active
    <3>2. g \in FleetState /\ Phase \in [Ids -> Phases] /\ Sound(g, Phase, aged, now)
          /\ RecordedIn(Phase) \ Running(Phase) \subseteq g.released
      BY Zenon, <1>1, <1>2, <2>2
    <3>3. Sound(k, Phase, aged, now)
      BY Zenon, <3>2, SoundRebaselined
    <3>4. k.pending = g.pending /\ k.created = g.created /\ k.pruned = g.pruned
      BY <3>2, RebaselinedFields
    <3>. QED
      BY Zenon, <3>1, <3>3, <3>4
  <2>. HIDE DEF h, active
  <2>4. Follows(g, fleet) /\ Follows(h, fleet)
    BY Zenon, <2>1, <2>2, <2>3 DEF Follows
  <2>5. ActiveIds(h, Phase) = ActiveIds(g, Phase)
    BY Zenon, <2>3 DEF ActiveIds
  <2>. QED
    BY Zenon, <2>2, <2>3, <2>4, <2>5 DEF active
<1>. HIDE DEF g, h, active, n
<1>6. CASE f' = [f EXCEPT ![o] = g] /\ now' = now
  BY <1>1, <1>2, <1>5, <1>6 DEF TypeOK
<1>7. CASE f' = [f EXCEPT ![o] = h] /\ now' = now
  BY <1>1, <1>2, <1>5, <1>7 DEF TypeOK
<1>8. ASSUME n > 0, now' \in {now, now + 1} \cap 0..LastDay,
             NEW new \in kSubset(n, Ids \ h.created),
             f' = [f EXCEPT ![o] = Grown(h, new, n, now')]
      PROVE  /\ f'[o] \in FleetState /\ now' \in 0..LastDay /\ (now' = now \/ now' = now + 1)
             /\ current[o] => Sound(f'[o], Phase, aged, now') /\ Follows(f'[o], fleet)
  <2>1. new \in SUBSET (Ids \ h.created) /\ Cardinality(new) = n
    BY Zenon, <1>8 DEF kSubset
  <2>2. f'[o] = Grown(h, new, n, now')
    BY <1>8 DEF FleetInv, TypeOK
  <2>3. now' \in 0..LastDay /\ (now' = now \/ now' = now + 1)
    BY Zenon, <1>8
  <2>4. Grown(h, new, n, now') \in FleetState
    BY <1>2, <1>4, <2>1, <2>3, GrownTypes
  <2>5. ASSUME current[o]
        PROVE  Sound(f'[o], Phase, aged, now') /\ Follows(f'[o], fleet)
    <3>1. n <= MaxRunners - Cardinality(ActiveIds(h, Phase))
      BY Zenon, <1>4, <1>5, <1>8, <2>5
    <3>2. Sound(Grown(h, new, n, now'), Phase, aged, now')
      BY Zenon, <1>1, <1>2, <1>4, <1>5, <1>8, <2>1, <2>3, <2>5, <3>1, SoundGrown
    <3>3. Follows(Grown(h, new, n, now'), fleet)
      <4>1. /\ Grown(h, new, n, now').created = h.created \cup new
            /\ Grown(h, new, n, now').pending = h.pending \cup new
            /\ Grown(h, new, n, now').pruned = h.pruned
        BY <1>2, GrownFields
      <4>. QED
        BY Zenon, <1>5, <2>1, <2>5, <4>1 DEF Follows
    <3>. QED
      BY Zenon, <2>2, <3>2, <3>3
  <2>. QED
    BY Zenon, <2>2, <2>3, <2>4, <2>5
<1>. QED
  <2>1. \/ f' = [f EXCEPT ![o] = g] /\ now' = now
        \/ f' = [f EXCEPT ![o] = h] /\ now' = now
        \/ /\ n > 0 /\ now' \in {now, now + 1} \cap 0..LastDay
           /\ \E new \in kSubset(n, Ids \ h.created) : f' = [f EXCEPT ![o] = Grown(h, new, n, now')]
    BY Zenon DEF Admit, Grown, g, h, active, n
  <2>. QED
    BY Zenon, <1>6, <1>7, <1>8, <2>1
\* The decision keeps the invariant and the types.
LEMMA AdmitStep ==
  ASSUME FleetInv, NEW o \in Operators, NEW demand \in Demands, Admit(o, demand)
  PROVE  FleetInv'
<1>1. /\ UNCHANGED <<fleet, record, aged, deleting, drained, mode, paused, started, current, allocs, todo>>
      /\ pc' = [pc EXCEPT ![o] = "admitted"]
  BY Zenon DEF Admit, Goto, durable, process
<1>2. \E g : f' = [f EXCEPT ![o] = g]
  BY Zenon DEF Admit
<1>3. TypeOK /\ pc[o] = "admit"
  BY Zenon DEF FleetInv, Admit
<1>4. /\ f' \in [Operators -> FleetState] /\ \A p \in Operators : p # o => f'[p] = f[p]
  <2>1. f \in [Operators -> FleetState] /\ f'[o] \in FleetState
    BY Zenon, <1>3, AdmitCopy DEF TypeOK
  <2>. QED
    BY <1>2, <2>1
<1>5. /\ pc' \in [Operators -> Labels] /\ pc'[o] = "admitted"
      /\ \A p \in Operators : p # o => pc'[p] = pc[p]
  BY <1>1, <1>3 DEF TypeOK, Labels
<1>6. TypeOK'
  BY Zenon, <1>1, <1>3, <1>4, <1>5, AdmitCopy DEF TypeOK
<1>7. Savable(o)' => Sound(f'[o], Phase, aged, now') /\ Follows(f'[o], fleet)
  BY Zenon, <1>1, AdmitCopy DEF Savable
<1>8. Relies(o)'
  BY <1>5 DEF Relies
<1>9. Phase' = Phase
  BY Zenon, <1>1 DEF Phase
<1>. QED
  BY Zenon, <1>1, <1>4, <1>5, <1>6, <1>7, <1>8, <1>9, AdmitCopy, OneHandler

-----------------------------------------------------------------------------
(* Tick, up to the records.                                                *)

\* A handler that loads the fleet has a sound copy.
LEMMA LoadStep ==
  ASSUME FleetInv, NEW o \in Operators, AdmitLoad(o) \/ TickLoad(o)
  PROVE  FleetInv'
<1>1. /\ UNCHANGED <<fleet, record, aged, now, todo>>
      /\ f' = [f EXCEPT ![o] = fleet] /\ current' = [current EXCEPT ![o] = TRUE]
      /\ pc' = [pc EXCEPT ![o] = "admit"] \/ pc' = [pc EXCEPT ![o] = "migrate"]
  BY Zenon DEF AdmitLoad, TickLoad, LoadFleet, Goto, durable, clock
<1>2. TypeOK /\ TypeOK'
  BY Zenon, SimpleTypes DEF FleetInv
<1>3. /\ pc'[o] \in {"admit", "migrate"} /\ f'[o] = fleet
      /\ \A p \in Operators : p # o => pc'[p] = pc[p] /\ f'[p] = f[p] /\ current'[p] = current[p]
  BY <1>1, <1>2 DEF TypeOK
<1>4. Sound(f'[o], Phase, aged, now) /\ Follows(f'[o], fleet)
  BY Zenon, <1>3 DEF FleetInv, Follows
<1>5. Relies(o)'
  <2>1. fleet.pending \subseteq fleet.created /\ fleet.pending \cap aged = {}
    BY DEF FleetInv, Sound, Placed
  <2>. QED
    BY <1>1, <1>3, <2>1 DEF Relies
<1>6. Phase' = Phase
  BY Zenon, <1>1 DEF Phase
<1>. QED
  BY Zenon, <1>1, <1>2, <1>3, <1>4, <1>5, <1>6, OneHandler

\* The list takes the records whose admission the handler's fleet knows: none
\* of them is pending any more.
LEMMA ListStep ==
  ASSUME FleetInv, NEW o \in Operators, List(o)
  PROVE  FleetInv'
<1>1. /\ UNCHANGED <<fleet, record, aged, now, current>>
      /\ todo' = [todo EXCEPT ![o] = Recorded \cap f[o].created]
      /\ f' = [f EXCEPT ![o] = NoFleet] /\ pc' = [pc EXCEPT ![o] = "step"] /\ pc[o] = "list"
  BY Zenon DEF List, Goto, durable, clock
<1>2. TypeOK
  BY Zenon DEF FleetInv
<1>3. /\ pc'[o] = "step" /\ todo'[o] = Recorded \cap f[o].created
      /\ \A p \in Operators : p # o => pc'[p] = pc[p] /\ f'[p] = f[p] /\ todo'[p] = todo[p]
  BY <1>1, <1>2 DEF TypeOK
<1>4. Relies(o)'
  <2>1. f[o].created \subseteq fleet.created \ fleet.pending
    BY Zenon, <1>1 DEF FleetInv, Relies
  <2>. QED
    BY <1>1, <1>3, <2>1 DEF Relies
<1>5. ~Savable(o)'
  BY <1>3 DEF Savable
<1>6. Phase' = Phase
  BY Zenon, <1>1 DEF Phase
<1>7. TypeOK'
  BY Zenon, <1>2, ListTypes
<1>. QED
  BY Zenon, <1>1, <1>3, <1>4, <1>5, <1>6, <1>7, OneHandler

\* What pruneTerminalAllocations marks is aged, in a copy that was just read.
LEMMA PruneStep ==
  ASSUME FleetInv, NEW o \in Operators, Prune(o)
  PROVE  FleetInv'
<1>1. UNCHANGED <<fleet, record, aged, now>> /\ Phase' = Phase
  BY Zenon DEF Prune, durable, clock, Phase
<1>2. TypeOK /\ TypeOK'
  BY Zenon, PruneTypes DEF FleetInv
<1>3. CASE Return(o) /\ UNCHANGED current
  BY Zenon, <1>1, <1>2, <1>3, ReturnEnds, QuietHandler
<1>4. ASSUME NEW gone \in SUBSET Prunable(fleet, allocs[o]),
             f' = [f EXCEPT ![o] = [fleet EXCEPT !.pruned = @ \cup gone]],
             current' = [current EXCEPT ![o] = TRUE],
             todo' = [todo EXCEPT ![o] = gone], Goto(o, "pruned")
      PROVE  FleetInv'
  <2>. DEFINE h == [fleet EXCEPT !.pruned = @ \cup gone]
  <2>1. gone \in SUBSET aged
    BY DEF Prunable
  <2>2. Sound(h, Phase, aged, now) /\ Follows(h, fleet)
    BY Zenon, <1>2, <2>1, Shapes, SoundPruned DEF FleetInv
  <2>3. gone \subseteq h.pruned
    BY <1>2, Shapes DEF FleetState
  <2>. HIDE DEF h
  <2>4. f' = [f EXCEPT ![o] = h]
    BY Zenon, <1>4 DEF h
  <2>5. /\ pc'[o] = "pruned" /\ f'[o] = h /\ todo'[o] = gone
        /\ \A p \in Operators : p # o =>
              /\ pc'[p] = pc[p] /\ f'[p] = f[p] /\ todo'[p] = todo[p] /\ current'[p] = current[p]
    BY <1>2, <1>4, <2>4 DEF TypeOK, Goto
  <2>6. Relies(o)'
    BY Zenon, <2>3, <2>5 DEF Relies
  <2>. QED
    BY Zenon, <1>1, <1>2, <2>2, <2>5, <2>6, OneHandler
<1>5. \/ Return(o) /\ UNCHANGED current
      \/ \E gone \in SUBSET Prunable(fleet, allocs[o]) :
            /\ f' = [f EXCEPT ![o] = [fleet EXCEPT !.pruned = @ \cup gone]]
            /\ current' = [current EXCEPT ![o] = TRUE]
            /\ todo' = [todo EXCEPT ![o] = gone] /\ Goto(o, "pruned")
  BY DEF Prune
<1>. QED
  BY Zenon, <1>3, <1>4, <1>5
-----------------------------------------------------------------------------
(* The records.                                                            *)

\* A step that writes one record: what is sound has to stay sound.
LEMMA RecordStep ==
  ASSUME FleetInv, TypeOK', NEW o \in Operators, UNCHANGED <<fleet, aged, now, current>>,
         Sound(fleet, Phase', aged, now),
         \A p \in Operators : p # o =>
            /\ pc'[p] = pc[p] /\ f'[p] = f[p] /\ todo'[p] = todo[p]
            /\ Savable(p) => Sound(f[p], Phase', aged, now),
         Savable(o)' => Sound(f'[o], Phase', aged, now) /\ Follows(f'[o], fleet),
         Relies(o)'
  PROVE  FleetInv'
<1>1. ASSUME NEW p \in Operators, Savable(p)'
      PROVE  Sound(f'[p], Phase', aged', now') /\ Follows(f'[p], fleet')
  <2>1. CASE p = o
    BY Zenon, <1>1, <2>1
  <2>2. CASE p # o
    <3>1. Savable(p) /\ f'[p] = f[p]
      BY Zenon, <1>1, <2>2 DEF Savable
    <3>. QED
      BY Zenon, <2>2, <3>1 DEF FleetInv, CopiesSound
  <2>. QED
    BY Zenon, <2>1, <2>2
<1>2. ASSUME NEW p \in Operators PROVE Relies(p)'
  <2>1. CASE p = o
    BY Zenon, <2>1
  <2>2. CASE p # o
    <3>1. Relies(p) /\ pc'[p] = pc[p] /\ f'[p] = f[p] /\ todo'[p] = todo[p]
      BY Zenon, <2>2 DEF FleetInv
    <3>. QED
      BY Zenon, <3>1 DEF Relies
  <2>. QED
    BY Zenon, <2>1, <2>2
<1>. QED
  BY Zenon, <1>1, <1>2 DEF FleetInv, CopiesSound

\* What is created and pruned in the ConfigMap is so in every copy that can be
\* saved, and what is not pending any more is not pending there.
LEMMA CopyKnows ==
  ASSUME FleetInv, NEW p \in Operators, Savable(p)
  PROVE  /\ f[p] \in FleetState /\ Sound(f[p], Phase, aged, now)
         /\ \A x \in fleet.created : x \in f[p].created /\ (x \notin fleet.pending => x \notin f[p].pending)
         /\ \A x \in fleet.pruned : x \in f[p].pruned
<1>1. Sound(f[p], Phase, aged, now) /\ Follows(f[p], fleet)
  BY Zenon DEF FleetInv, CopiesSound
<1>2. f[p] \in FleetState
  BY Zenon, Shapes DEF FleetInv
<1>. QED
  BY Zenon, <1>1, <1>2 DEF Follows

\* A stale Tick too creates records only for allocations that are still pending.
LEMMA MigrateStep ==
  ASSUME FleetInv, NEW o \in Operators, NEW x \in Ids, Migrate(o, x)
  PROVE  FleetInv'
<1>. DEFINE ph2 == [Phase EXCEPT ![x] = "Pending"]
            h == [f[o] EXCEPT !.pending = @ \ {x}]
<1>1. /\ TypeOK /\ TypeOK' /\ Phase \in [Ids -> Phases] /\ fleet \in FleetState /\ f[o] \in FleetState
      /\ Phase[x] = record[x].phase
  BY Zenon, Shapes, RecordTypes DEF FleetInv
<1>2. /\ UNCHANGED <<fleet, aged, now, pc, current, todo>>
      /\ pc[o] = "migrate" /\ x \in f[o].pending
  BY Zenon DEF Migrate, clock
<1>3. x \in fleet.created /\ x \notin aged
  BY Zenon, <1>2 DEF FleetInv, Relies
<1>4. f' = [f EXCEPT ![o] = h] /\ f'[o] = h /\ \A p \in Operators : p # o => f'[p] = f[p]
  BY <1>1 DEF Migrate, TypeOK
<1>5. Phase' = IF Phase[x] = "none" THEN ph2 ELSE Phase
  <2>1. CASE record[x].phase = "none"
    <3>1. record' = [record EXCEPT ![x] = [phase |-> "Pending", retire |-> Draining(o)]]
      BY Zenon, <2>1 DEF Migrate
    <3>2. Phase' = ph2
      BY Zenon, <1>1, <3>1 DEF TypeOK, Phase
    <3>. QED
      BY Zenon, <1>1, <2>1, <3>2
  <2>2. CASE record[x].phase # "none"
    <3>1. UNCHANGED record
      BY Zenon, <2>2 DEF Migrate
    <3>2. Phase' = Phase
      BY Zenon, <3>1 DEF Phase
    <3>. QED
      BY Zenon, <1>1, <2>2, <3>2
  <2>. QED
    BY Zenon, <2>1, <2>2
<1>6. Phase'[x] # "none"
  BY <1>1, <1>5
<1>7. \A g \in FleetState : Sound(g, Phase, aged, now) /\ x \in g.created => Sound(g, Phase', aged, now)
  BY Zenon, <1>1, <1>3, <1>5, SoundMigrated
<1>. HIDE DEF ph2, h
<1>8. Sound(fleet, Phase', aged, now)
  BY Zenon, <1>1, <1>3, <1>7 DEF FleetInv
<1>9. \A p \in Operators : Savable(p) => Sound(f[p], Phase', aged, now)
  BY Zenon, <1>3, <1>7, CopyKnows
<1>10. /\ h.pending = f[o].pending \ {x} /\ h.created = f[o].created /\ h.pruned = f[o].pruned
  BY <1>1 DEF h, FleetState
<1>11. ASSUME Savable(o)' PROVE Sound(f'[o], Phase', aged, now) /\ Follows(f'[o], fleet)
  <2>1. Savable(o)
    BY Zenon, <1>2, <1>11 DEF Savable
  <2>2. Sound(h, Phase', aged, now)
    BY Zenon, <1>1, <1>6, <1>9, <2>1, SoundDropped DEF h
  <2>3. Follows(f[o], fleet)
    BY Zenon, <2>1 DEF FleetInv, CopiesSound
  <2>4. Follows(h, fleet)
    BY <1>10, <2>3 DEF Follows
  <2>. QED
    BY Zenon, <1>4, <2>2, <2>4
<1>12. Relies(o)'
  <2>1. Relies(o)
    BY Zenon DEF FleetInv
  <2>. QED
    BY Zenon, <1>2, <1>4, <1>10, <2>1 DEF Relies
<1>. QED
  BY Zenon, <1>1, <1>2, <1>4, <1>8, <1>9, <1>11, <1>12, RecordStep

\* Controller.Step makes something of a record: never none.
LEMMA SteppedPhases ==
  ASSUME NEW o, NEW r \in [phase: Phases, retire: BOOLEAN], r.phase # "none", NEW s \in Stepped(o, r)
  PROVE  s.phase \in Phases \ {"none"}
<1>1. \A u \in Retired(o, r) : u.phase = r.phase
  BY Zenon DEF Retired
<1>2. \A u : \A q \in Moves(u) : q \in Phases \ {"none"}
  BY DEF Moves, Phases, Terminal
<1>3. Outcome(o, r, s)
  BY Zenon, SteppedShape
<1>4. CASE s = r \/ s \in Retired(o, r)
  BY <1>1, <1>4
<1>5. ASSUME NEW u, NEW q \in Moves(u), s = [phase |-> q, retire |-> u.retire /\ q \notin Terminal]
      PROVE  s.phase \in Phases \ {"none"}
  <2>1. s.phase = q
    BY <1>5
  <2>. QED
    BY Zenon, <1>2, <2>1
<1>. QED
  BY Zenon, <1>3, <1>4, <1>5 DEF Outcome

\* The goroutines of a Tick step records that are not pending.
LEMMA StepStep ==
  ASSUME FleetInv, NEW o \in Operators, NEW x \in Ids, StepOne(o, x)
  PROVE  FleetInv'
<1>1. TypeOK /\ TypeOK' /\ Phase \in [Ids -> Phases] /\ fleet \in FleetState /\ Phase[x] = record[x].phase
  BY Zenon, Shapes, RecordTypes DEF FleetInv
<1>2. /\ UNCHANGED <<fleet, aged, now, pc, f, current>>
      /\ pc[o] = "step" /\ x \in todo[o] /\ todo' = [todo EXCEPT ![o] = @ \ {x}]
  BY Zenon DEF StepOne, clock
<1>3. x \in fleet.created /\ x \notin fleet.pending
  BY <1>2 DEF FleetInv, Relies
<1>4. /\ todo'[o] \subseteq todo[o] /\ \A p \in Operators : p # o => todo'[p] = todo[p]
  BY <1>1, <1>2 DEF TypeOK
<1>5. \/ Phase' = Phase
      \/ /\ Phase[x] \in {"Pending", "Active"}
         /\ \E q \in Phases \ {"none"} : Phase' = [Phase EXCEPT ![x] = q]
  <2>1. CASE UNCHANGED record
    BY Zenon, <2>1 DEF Phase
  <2>2. ASSUME Phase[x] \notin {"none"} \cup Terminal,
               NEW s \in Stepped(o, record[x]), record' = [record EXCEPT ![x] = s]
        PROVE  /\ Phase[x] \in {"Pending", "Active"}
               /\ \E q \in Phases \ {"none"} : Phase' = [Phase EXCEPT ![x] = q]
    <3>1. Phase[x] \in {"Pending", "Active"} /\ Phase[x] # "none"
      BY <1>1, <2>2 DEF Phases
    <3>2. record[x] \in [phase: Phases, retire: BOOLEAN]
      BY Zenon, <1>1 DEF TypeOK
    <3>3. s.phase \in Phases \ {"none"}
      BY Zenon, <1>1, <3>1, <3>2, SteppedPhases
    <3>4. Phase' = [Phase EXCEPT ![x] = s.phase]
      BY Zenon, <1>1, <2>2 DEF TypeOK, Phase
    <3>. QED
      BY Zenon, <3>1, <3>3, <3>4
  <2>. QED
    BY Zenon, <1>1, <2>1, <2>2 DEF StepOne
<1>6. \A g \in FleetState : Sound(g, Phase, aged, now) /\ x \notin g.pending => Sound(g, Phase', aged, now)
  <2>1. CASE Phase' = Phase
    BY Zenon, <2>1
  <2>2. ASSUME Phase[x] \in {"Pending", "Active"},
               NEW q \in Phases \ {"none"}, Phase' = [Phase EXCEPT ![x] = q]
        PROVE  \A g \in FleetState : Sound(g, Phase, aged, now) /\ x \notin g.pending => Sound(g, Phase', aged, now)
    BY Zenon, <1>1, <2>2, SoundStepped
  <2>. QED
    BY Zenon, <1>5, <2>1, <2>2
<1>7. Sound(fleet, Phase', aged, now)
  BY Zenon, <1>1, <1>3, <1>6 DEF FleetInv
<1>8. \A p \in Operators : Savable(p) => Sound(f[p], Phase', aged, now)
  BY Zenon, <1>3, <1>6, CopyKnows
<1>9. ~Savable(o)'
  BY <1>2 DEF Savable
<1>10. Relies(o)'
  <2>1. Relies(o)
    BY Zenon DEF FleetInv
  <2>. QED
    BY <1>2, <1>4, <2>1 DEF Relies
<1>. QED
  BY Zenon, <1>1, <1>2, <1>4, <1>7, <1>8, <1>9, <1>10, RecordStep
\* A record is deleted after its allocation was marked in the ConfigMap.
LEMMA DeleteStep ==
  ASSUME FleetInv, NEW o \in Operators, NEW x \in Ids, DeleteOne(o, x)
  PROVE  FleetInv'
<1>1. /\ TypeOK /\ TypeOK' /\ Phase \in [Ids -> Phases] /\ fleet \in FleetState /\ now \in Nat
  BY Zenon, Shapes, RecordTypes DEF FleetInv
<1>2. UNCHANGED <<fleet, aged, now, current>> /\ pc[o] = "delete" /\ x \in todo[o]
  BY Zenon DEF DeleteOne, clock
<1>3. x \in fleet.pruned
  BY <1>2 DEF FleetInv, Relies
<1>4. Phase' = Phase \/ Phase' = [Phase EXCEPT ![x] = "none"]
  <2>1. CASE record' = record
    BY Zenon, <2>1 DEF Phase
  <2>2. CASE record' = [record EXCEPT ![x] = NoRecord]
    BY Zenon, <1>1, <2>2 DEF TypeOK, Phase, NoRecord
  <2>. QED
    BY Zenon, <2>1, <2>2 DEF DeleteOne
<1>5. \A g \in FleetState : Sound(g, Phase, aged, now) /\ x \in g.pruned => Sound(g, Phase', aged, now)
  <2>1. CASE Phase' = Phase
    BY Zenon, <2>1
  <2>2. CASE Phase' = [Phase EXCEPT ![x] = "none"]
    BY Zenon, <1>1, <2>2, SoundDeleted
  <2>. QED
    BY Zenon, <1>4, <2>1, <2>2
<1>6. Sound(fleet, Phase', aged, now)
  BY Zenon, <1>1, <1>3, <1>5 DEF FleetInv
<1>7. \A p \in Operators : Savable(p) => Sound(f[p], Phase', aged, now)
  BY Zenon, <1>3, <1>5, CopyKnows
<1>8. /\ \/ pc'[o] \in {"idle", "check"}
         \/ pc'[o] = "delete" /\ todo'[o] \subseteq todo[o]
      /\ \A p \in Operators : p # o => pc'[p] = pc[p] /\ f'[p] = f[p] /\ todo'[p] = todo[p]
  <2>1. CASE Return(o)
    BY Zenon, <1>1, <2>1, ReturnEnds
  <2>2. CASE todo' = [todo EXCEPT ![o] = @ \ {x}] /\ UNCHANGED <<started, pc, f, allocs>>
    BY Zenon, <1>1, <1>2, <2>2 DEF TypeOK
  <2>. QED
    BY Zenon, <2>1, <2>2 DEF DeleteOne
<1>9. ~Savable(o)'
  BY <1>8 DEF Savable
<1>10. Relies(o)'
  <2>1. Relies(o)
    BY Zenon DEF FleetInv
  <2>. QED
    BY <1>2, <1>8, <2>1 DEF Relies
<1>. QED
  BY Zenon, <1>1, <1>2, <1>6, <1>7, <1>8, <1>9, <1>10, RecordStep

-----------------------------------------------------------------------------
(* Saves, and the passing of a day.                                        *)

\* saveFleet: the copy that is accepted becomes the ConfigMap, and every other
\* copy is stale from then on.
LEMMA SaveStep ==
  ASSUME FleetInv, NEW o \in Operators, SaveFleet(o)
  PROVE  FleetInv'
<1>1. TypeOK /\ TypeOK' /\ f[o] \in FleetState
  BY Zenon, Shapes, SimpleTypes DEF FleetInv
<1>2. /\ UNCHANGED <<record, aged, now>> /\ fleet' = f[o] /\ current' = [p \in Operators |-> FALSE]
      /\ current[o] /\ pc[o] \in {"admitted", "pruned", "migrate"}
      /\ pc[o] = "migrate" => f[o].pending = {}
  BY Zenon DEF SaveFleet, clock
<1>3. Savable(o)
  BY <1>2 DEF Savable
<1>4. Sound(f[o], Phase, aged, now) /\ Follows(f[o], fleet)
  BY Zenon, <1>3 DEF FleetInv, CopiesSound
<1>5. Phase' = Phase
  BY Zenon, <1>2 DEF Phase
<1>6. \A p \in Operators : ~Savable(p)'
  BY Zenon, <1>2 DEF Savable
<1>7. /\ \/ pc'[o] \in {"idle", "check"}
         \/ /\ f'[o] = f[o] /\ todo'[o] = todo[o]
            /\ pc'[o] = IF pc[o] = "migrate" THEN "list" ELSE "delete"
            /\ pc[o] \in {"migrate", "pruned"}
      /\ \A p \in Operators : p # o => pc'[p] = pc[p] /\ f'[p] = f[p] /\ todo'[p] = todo[p]
  <2>1. CASE Return(o)
    BY Zenon, <1>1, <2>1, ReturnEnds
  <2>2. CASE /\ pc[o] # "admitted"
             /\ Goto(o, IF pc[o] = "migrate" THEN "list" ELSE "delete")
             /\ UNCHANGED <<started, f, allocs, todo>>
    BY Zenon, <1>1, <1>2, <2>2 DEF TypeOK, Goto
  <2>. QED
    BY Zenon, <2>1, <2>2 DEF SaveFleet
<1>8. Relies(o)'
  <2>1. Relies(o)
    BY Zenon DEF FleetInv
  <2>2. CASE pc'[o] \in {"idle", "check"}
    BY Zenon, <2>2 DEF Relies
  <2>3. CASE pc[o] = "migrate" /\ pc'[o] = "list" /\ f'[o] = f[o]
    BY Zenon, <1>2, <2>3 DEF Relies
  <2>4. CASE pc[o] = "pruned" /\ pc'[o] = "delete" /\ todo'[o] = todo[o]
    BY <1>2, <2>1, <2>4 DEF Relies
  <2>. QED
    BY Zenon, <1>7, <2>2, <2>3, <2>4
<1>9. ASSUME NEW p \in Operators, p # o PROVE Relies(p)'
  <2>1. /\ fleet.created \subseteq fleet'.created /\ fleet.pruned \subseteq fleet'.pruned
        /\ \A x \in fleet'.pending : x \in fleet.pending \/ x \notin fleet.created
    BY Zenon, <1>2, <1>4 DEF Follows
  <2>2. Relies(p) /\ pc'[p] = pc[p] /\ f'[p] = f[p] /\ todo'[p] = todo[p] /\ aged' = aged
    BY Zenon, <1>2, <1>7, <1>9 DEF FleetInv
  <2>. QED
    BY <2>1, <2>2 DEF Relies
<1>. QED
  BY Zenon, <1>1, <1>2, <1>4, <1>5, <1>6, <1>8, <1>9 DEF FleetInv, CopiesSound

\* A record becomes old enough to be pruned while no handler runs.
LEMMA AgeStep ==
  ASSUME FleetInv, NEW x \in Ids, Age(x)
  PROVE  FleetInv'
<1>1. /\ UNCHANGED <<fleet, record, now, deleting, drained, process, handler>>
      /\ record[x].phase \in Terminal /\ fleet.day[x] < now /\ aged' = aged \cup {x}
      /\ \A o \in Operators : pc[o] = "idle"
  BY Zenon DEF Age, durable
<1>2. TypeOK /\ Phase[x] = record[x].phase /\ fleet \in FleetState
  BY Zenon, Shapes DEF FleetInv
<1>3. TypeOK'
  BY <1>1, <1>2 DEF TypeOK, process, handler
<1>4. Phase' = Phase
  BY Zenon, <1>1 DEF Phase
<1>5. Sound(fleet, Phase, aged', now)
  BY Zenon, <1>1, <1>2, SoundAged DEF FleetInv
<1>6. \A o \in Operators : pc'[o] = "idle"
  BY Zenon, <1>1 DEF handler
<1>7. \A o \in Operators : ~Savable(o)' /\ Relies(o)'
  BY <1>6 DEF Savable, Relies
<1>. QED
  BY Zenon, <1>1, <1>3, <1>4, <1>5, <1>7 DEF FleetInv, CopiesSound
-----------------------------------------------------------------------------
(* The results.                                                            *)

\* Initially nothing was admitted.
LEMMA FleetInit == Init => FleetInv
<1>. SUFFICES ASSUME Init PROVE FleetInv
  OBVIOUS
<1>1. /\ fleet = NoFleet /\ aged = {} /\ now = 0 /\ \A x \in Ids : Phase[x] = "none"
  BY DEF Init, Phase, NoRecord
<1>2. /\ fleet.created = {} /\ fleet.pending = {} /\ fleet.released = {} /\ fleet.pruned = {}
      /\ fleet.admitted = 0
  BY <1>1 DEF NoFleet
<1>3. RecordedIn(Phase) = {} /\ Running(Phase) = {} /\ Slots(fleet, Phase) = {}
  BY <1>1, <1>2 DEF RecordedIn, Running, Slots
<1>4. Placed(fleet, Phase, aged) /\ Dated(fleet, aged, now)
  BY <1>1, <1>2, <1>3 DEF Placed, Dated
<1>5. Cardinality({}) = 0
  BY FS_EmptySet
<1>6. RunnersFit(fleet, Phase)
  <2>1. fleet.pending \cup Running(Phase) = {}
    BY <1>2, <1>3
  <2>. QED
    <3>1. Cardinality(fleet.pending \cup Running(Phase)) = 0
      BY Zenon, <1>5, <2>1
    <3>. QED
      BY <3>1, MaxRunnersAssumption DEF RunnersFit
<1>7. SlotsCounted(fleet, Phase)
  <2>1. fleet.created \ fleet.released = {}
    BY <1>2
  <2>. QED
    BY <1>2, <1>3, <1>5, <2>1 DEF SlotsCounted
<1>8. BudgetKept(fleet, Phase, now)
  <2>1. {x \in fleet.created : Phase[x] # "TimedOut" /\ fleet.day[x] = now} = {}
    BY <1>2
  <2>2. Spent(fleet, Phase, now) = 0
    BY Zenon, <1>5, <2>1 DEF Spent
  <2>. QED
    BY <2>2, BudgetAssumption DEF BudgetKept
<1>9. \A o \in Operators : pc[o] = "idle"
  BY DEF Init
<1>10. \A o \in Operators : ~Savable(o) /\ Relies(o)
  BY <1>9 DEF Savable, Relies
<1>. QED
  BY Zenon, <1>4, <1>6, <1>7, <1>8, <1>10, TypeInit DEF FleetInv, Sound, CopiesSound

\* Every step of every operator keeps the invariant.
LEMMA FleetNext == FleetInv /\ [Next]_vars => FleetInv'
<1>. SUFFICES ASSUME FleetInv, [Next]_vars PROVE FleetInv'
  OBVIOUS
<1>. TypeOK
  BY Zenon DEF FleetInv
<1>1. ASSUME NEW o \in Operators, AdmitLoad(o) \/ TickLoad(o) PROVE FleetInv'
  BY Zenon, <1>1, LoadStep
<1>2. ASSUME NEW o \in Operators, Handler(o) PROVE FleetInv'
  <2>1. CASE SaveFleet(o)
    BY Zenon, <2>1, SaveStep
  <2>2. CASE List(o)
    BY Zenon, <2>2, ListStep
  <2>3. CASE Prune(o)
    BY Zenon, <2>3, PruneStep
  <2>4. CASE DrainedLoad(o) \/ Drained(o)
    <3>1. TypeOK'
      BY Zenon, <2>4, SimpleTypes
    <3>. QED
      BY Zenon, <2>4, <3>1, QuietSteps
  <2>5. ASSUME NEW demand \in Demands, Admit(o, demand) PROVE FleetInv'
    BY Zenon, <2>5, AdmitStep
  <2>6. ASSUME NEW x \in Ids, Migrate(o, x) \/ StepOne(o, x) \/ DeleteOne(o, x) PROVE FleetInv'
    BY Zenon, <2>6, MigrateStep, StepStep, DeleteStep
  <2>. QED
    BY Zenon, <1>2, <2>1, <2>2, <2>3, <2>4, <2>5, <2>6 DEF Handler
<1>3. ASSUME NEW o \in Operators, Fail(o) \/ Start(o) \/ Stop(o) \/ PauseAdmissions(o) PROVE FleetInv'
  <2>1. TypeOK'
    BY Zenon, <1>3, SimpleTypes
  <2>. QED
    BY Zenon, <1>3, <2>1, QuietSteps
<1>4. ASSUME NEW o \in Operators, NEW x \in Ids, HandleJobCompleted(o, x) PROVE FleetInv'
  <2>1. TypeOK'
    BY Zenon, <1>4, RecordTypes
  <2>. QED
    BY Zenon, <1>4, <2>1, QuietSteps
<1>5. CASE DeleteScaleSet \/ Midnight \/ UNCHANGED vars
  <2>1. TypeOK'
    <3>1. CASE UNCHANGED <<fleet, record, aged, now, drained, process, handler>> /\ deleting' \in BOOLEAN
      BY Zenon, <3>1 DEF TypeOK, process, handler
    <3>2. CASE Midnight
      <4>1. now' \in 0..LastDay
        BY <3>2, DayAssumption DEF Midnight, TypeOK
      <4>. QED
        BY Zenon, <3>2, <4>1 DEF Midnight, TypeOK, durable, process, handler
    <3>. QED
      BY Zenon, <1>5, <3>1, <3>2 DEF DeleteScaleSet, vars, durable, clock, TypeOK
  <2>. QED
    BY Zenon, <1>5, <2>1, QuietSteps
<1>6. ASSUME NEW x \in Ids, Age(x) PROVE FleetInv'
  BY Zenon, <1>6, AgeStep
<1>. QED
  BY Zenon, <1>1, <1>2, <1>3, <1>4, <1>5, <1>6 DEF Next

\* The invariant holds throughout.
LEMMA FleetAlways == Spec => []FleetInv
BY FleetInit, FleetNext, PTL DEF Spec

\* The fleet ConfigMap, the records and the handlers keep their types.
THEOREM FleetTyped == Spec => []TypeOK
<1>1. FleetInv => TypeOK
  BY DEF FleetInv
<1>. QED
  BY <1>1, FleetAlways, PTL

\* HandleDesiredRunnerCount, Tick and pruneTerminalAllocations lose no
\* allocation, for any number of operators that run them at once.
THEOREM NoAllocationIsLost == Spec => []NothingLost
<1>1. FleetInv => NothingLost
  <2>. SUFFICES ASSUME FleetInv PROVE NothingLost
    OBVIOUS
  <2>1. RecordedIn(Phase) = Recorded
    BY DEF RecordedIn, Recorded, Phase
  <2>. QED
    BY <2>1 DEF FleetInv, Sound, Placed, NothingLost
<1>. QED
  BY <1>1, FleetAlways, PTL

\* However many leaders admit, step and prune at once, and whatever demand
\* GitHub reports, no more than MaxRunners allocations may own cloud resources.
THEOREM CapacityIsBounded == Spec => []CapacityBound
<1>1. FleetInv => CapacityBound
  <2>. SUFFICES ASSUME FleetInv PROVE CapacityBound
    OBVIOUS
  <2>1. fleet.pending \cup Running(Phase) = Held
    BY DEF Held, Running, Phase
  <2>. QED
    BY Zenon, <2>1 DEF FleetInv, Sound, RunnersFit, CapacityBound
<1>. QED
  BY <1>1, FleetAlways, PTL

\* fleet.Admitted is the number of slots held, but for records that were pruned
\* before they were released.
THEOREM SlotsAreAccounted == Spec => []SlotAccounting
<1>1. FleetInv => SlotAccounting
  <2>. SUFFICES ASSUME FleetInv PROVE SlotAccounting
    OBVIOUS
  <2>1. RecordedIn(Phase) = Recorded
    BY DEF RecordedIn, Recorded, Phase
  <2>2. Slots(fleet, Phase) = Holders
    BY <2>1 DEF Slots, Holders
  <2>3. fleet.created \ fleet.released = Holders \cup (fleet.pruned \ fleet.released)
    BY <2>1 DEF FleetInv, Sound, Placed, Holders
  <2>. QED
    BY Zenon, <2>2, <2>3 DEF FleetInv, Sound, SlotsCounted, SlotAccounting
<1>. QED
  BY <1>1, FleetAlways, PTL

\* Reservations that may become spend today fit the daily budget, also with
\* several leaders and when midnight falls inside an admission.
THEOREM BudgetIsKept == Spec => []WithinBudget
<1>1. FleetInv => WithinBudget
  BY Zenon DEF FleetInv, Sound, BudgetKept, WithinBudget
<1>. QED
  BY <1>1, FleetAlways, PTL
-----------------------------------------------------------------------------
(* Drained.                                                                *)

\* The Lease has one holder at a time.
Alone == \A o, p \in Operators : o = p

\* A worker that is down runs nothing; Drained decides on the fleet as it is;
\* and once it has decided nobody works and nothing is left.
DrainInv ==
    /\ \A o \in Operators : mode[o] = "down" => pc[o] = "idle"
    /\ \A o \in Operators : pc[o] = "drained" => f[o] = fleet
    /\ drained => \A o \in Operators : mode[o] = "down"
    /\ DrainedIsFinal

\* A step of a worker that is not Drained leaves nothing to decide.
LEMMA Working ==
  ASSUME Alone, DrainInv, NEW o \in Operators, UNCHANGED <<mode, drained>>,
         mode[o] # "down", pc'[o] # "drained"
  PROVE  DrainInv'
<1>1. ~drained'
  BY Zenon DEF DrainInv
<1>2. \A p \in Operators : p = o
  BY Zenon DEF Alone
<1>. QED
  BY Zenon, <1>1, <1>2 DEF DrainInv, DrainedIsFinal

\* Drained, RunCleanup's last question, is right about the fleet it has loaded.
LEMMA DrainDecides ==
  ASSUME Alone, TypeOK, DrainInv, NEW o \in Operators, Drained(o)
  PROVE  DrainInv'
<1>1. /\ pc[o] = "drained" /\ UNCHANGED <<fleet, record>>
      /\ drained' = (drained \/ Resolved(f[o]))
      /\ mode' = IF Resolved(f[o]) THEN [mode EXCEPT ![o] = "down"] ELSE mode
      /\ pc' = [pc EXCEPT ![o] = IF Draining(o) /\ pc[o] # "drained" THEN "check" ELSE "idle"]
  BY Zenon DEF Drained, Return, Goto, durable
<1>2. \A p \in Operators : p = o
  BY Zenon DEF Alone
<1>3. f[o] = fleet /\ mode[o] # "down" /\ ~drained
  BY <1>1 DEF DrainInv
<1>4. pc'[o] = "idle"
  BY <1>1 DEF TypeOK
<1>5. CASE ~Resolved(f[o])
  <2>1. ~drained' /\ mode' = mode
    BY Zenon, <1>1, <1>3, <1>5
  <2>. QED
    BY <1>2, <1>4, <2>1 DEF DrainInv, DrainedIsFinal
<1>6. CASE Resolved(f[o])
  <2>1. mode'[o] = "down"
    BY <1>1, <1>6 DEF TypeOK
  <2>2. fleet.pending = {} /\ \A x \in Recorded : record[x].phase \in Terminal
    BY Zenon, <1>3, <1>6 DEF Resolved
  <2>3. Held = {}
    BY <2>2 DEF Held, Recorded, Terminal
  <2>4. DrainedIsFinal'
    BY Zenon, <1>1, <2>2, <2>3 DEF DrainedIsFinal, Held, Recorded
  <2>5. \A p \in Operators : mode'[p] = "down" /\ pc'[p] = "idle"
    BY Zenon, <1>2, <1>4, <2>1
  <2>. QED
    BY <2>4, <2>5 DEF DrainInv
<1>. QED
  BY <1>5, <1>6

\* Every step of the only operator keeps what Drained relies on.
LEMMA DrainNext ==
  ASSUME Alone, TypeOK, DrainInv, [Next]_vars
  PROVE  DrainInv'
<1>1. \A o \in Operators : pc[o] # "idle" => mode[o] # "down"
  BY Zenon DEF DrainInv
<1>2. ASSUME NEW o \in Operators, AdmitLoad(o) \/ TickLoad(o) PROVE DrainInv'
  <2>1. mode[o] # "down" /\ UNCHANGED <<mode, drained>>
    BY Zenon, <1>2 DEF AdmitLoad, TickLoad, process
  <2>2. pc'[o] # "drained"
    BY <1>2 DEF AdmitLoad, TickLoad, LoadFleet, Goto, TypeOK
  <2>. QED
    BY Zenon, <2>1, <2>2, Working
<1>3. ASSUME NEW o \in Operators, Return(o), UNCHANGED <<mode, drained>>, pc[o] # "idle" PROVE DrainInv'
  <2>1. pc'[o] # "drained"
    BY <1>3, ReturnEnds
  <2>. QED
    BY Zenon, <1>1, <1>3, <2>1, Working
<1>4. ASSUME NEW o \in Operators, UNCHANGED <<mode, drained>>, pc[o] # "idle", NEW label \in Labels \ {"drained"},
             pc' = [pc EXCEPT ![o] = label]
      PROVE  DrainInv'
  <2>1. pc'[o] # "drained"
    BY <1>4 DEF TypeOK
  <2>. QED
    BY Zenon, <1>1, <1>4, <2>1, Working
<1>5. ASSUME NEW o \in Operators, SaveFleet(o) \/ Fail(o) \/ Prune(o) PROVE DrainInv'
  <2>1. UNCHANGED <<mode, drained>> /\ pc[o] # "idle"
    BY <1>5 DEF SaveFleet, Fail, Prune
  <2>2. Return(o) \/ \E label \in {"list", "delete", "pruned"} : pc' = [pc EXCEPT ![o] = label]
    BY Zenon, <1>5 DEF SaveFleet, Fail, Prune, Goto
  <2>3. {"list", "delete", "pruned"} \subseteq Labels \ {"drained"}
    BY DEF Labels
  <2>. QED
    BY Zenon, <1>3, <1>4, <2>1, <2>2, <2>3
<1>6. ASSUME NEW o \in Operators, NEW x \in Ids, Migrate(o, x) \/ StepOne(o, x) \/ DeleteOne(o, x)
      PROVE  DrainInv'
  <2>1. UNCHANGED <<mode, drained>> /\ pc[o] \in {"migrate", "step", "delete"}
    BY Zenon, <1>6 DEF Migrate, StepOne, DeleteOne, process
  <2>2. Return(o) \/ pc' = pc
    BY Zenon, <1>6 DEF Migrate, StepOne, DeleteOne
  <2>3. CASE pc' = pc
    BY <1>1, <2>1, <2>3, Working
  <2>. QED
    BY <1>3, <2>1, <2>2, <2>3
<1>7. ASSUME NEW o \in Operators, List(o) \/ \E demand \in Demands : Admit(o, demand) PROVE DrainInv'
  <2>1. UNCHANGED <<mode, drained>> /\ pc[o] # "idle"
    BY Zenon, <1>7 DEF List, Admit, process
  <2>2. \E label \in {"step", "admitted"} : pc' = [pc EXCEPT ![o] = label]
    BY Zenon, <1>7 DEF List, Admit, Goto
  <2>3. {"step", "admitted"} \subseteq Labels \ {"drained"}
    BY DEF Labels
  <2>. QED
    BY Zenon, <1>4, <2>1, <2>2, <2>3
<1>8. ASSUME NEW o \in Operators, DrainedLoad(o) PROVE DrainInv'
  <2>1. UNCHANGED <<mode, drained, fleet>> /\ pc[o] = "check" /\ f' = [f EXCEPT ![o] = fleet]
    BY Zenon, <1>8 DEF DrainedLoad, LoadFleet, process, durable
  <2>2. f'[o] = fleet' /\ mode[o] # "down"
    BY <1>1, <2>1 DEF TypeOK
  <2>3. ~drained' /\ \A p \in Operators : p = o
    BY Zenon, <2>1, <2>2 DEF DrainInv, Alone
  <2>. QED
    BY Zenon, <2>1, <2>2, <2>3 DEF DrainInv, DrainedIsFinal
<1>9. ASSUME NEW o \in Operators, Start(o) PROVE DrainInv'
  <2>1. UNCHANGED <<pc, f, fleet, drained>> /\ ~drained /\ mode[o] = "down"
    BY Zenon, <1>9 DEF Start, handler, durable
  <2>2. \A p \in Operators : pc[p] = "idle"
    BY Zenon, <2>1 DEF DrainInv, Alone
  <2>. QED
    BY Zenon, <2>1, <2>2 DEF DrainInv, DrainedIsFinal
<1>10. ASSUME NEW o \in Operators, Stop(o) PROVE DrainInv'
  <2>1. UNCHANGED drained /\ mode[o] # "down" /\ pc' = [pc EXCEPT ![o] = "idle"]
    BY Zenon, <1>10 DEF Stop
  <2>2. ~drained' /\ \A p \in Operators : p = o
    BY Zenon, <2>1 DEF DrainInv, Alone
  <2>3. pc'[o] = "idle"
    BY <2>1 DEF TypeOK
  <2>. QED
    BY <2>2, <2>3 DEF DrainInv, DrainedIsFinal
<1>11. ASSUME NEW o \in Operators, PauseAdmissions(o) \/ \E x \in Ids : HandleJobCompleted(o, x) PROVE DrainInv'
  <2>1. UNCHANGED <<mode, drained, pc>> /\ mode[o] = "session" /\ pc[o] = "idle"
    BY Zenon, <1>11 DEF PauseAdmissions, HandleJobCompleted, handler, process
  <2>. QED
    BY <2>1, Working
<1>12. CASE DeleteScaleSet \/ Midnight \/ (\E x \in Ids : Age(x)) \/ UNCHANGED vars
  <2>1. UNCHANGED <<fleet, record, drained, mode, pc, f>>
    BY Zenon, <1>12 DEF DeleteScaleSet, Midnight, Age, vars, durable, process, handler
  <2>. QED
    BY Zenon, <2>1 DEF DrainInv, DrainedIsFinal, Held, Recorded
<1>. QED
  BY Zenon, <1>2, <1>5, <1>6, <1>7, <1>8, <1>9, <1>10, <1>11, <1>12, DrainDecides DEF Next, Handler

\* For a Lease with one holder: when RunCleanup has returned, everything that was
\* ever admitted has ended, and nothing is admitted or revived afterwards.
THEOREM DrainIsFinal == ASSUME Alone PROVE Spec => []DrainedIsFinal
<1>1. Init => DrainInv
  BY DEF Init, DrainInv, DrainedIsFinal
<1>2. FleetInv /\ DrainInv /\ [Next]_vars => DrainInv'
  BY Zenon, DrainNext DEF FleetInv
<1>3. DrainInv => DrainedIsFinal
  BY DEF DrainInv
<1>. QED
  BY <1>1, <1>2, <1>3, FleetAlways, PTL DEF Spec
=============================================================================
