------------------------------- MODULE Fleet -------------------------------
(***************************************************************************)
(* The admission accounting of one scale set: Operator of internal/operator*)
(* (HandleDesiredRunnerCount, Tick, pruneTerminalAllocations, Drained) over *)
(* the fleet ConfigMap and the allocation records, with                    *)
(* internal/admission.  A record moves as AllocationContract allows: that  *)
(* is what Lifecycle shows of Controller.Step.                             *)
(*                                                                         *)
(* Every read of the fleet, list of the records and write of either is a   *)
(* step of its own.  One operator runs one handler at a time (o.mu); two   *)
(* operators overlap when a leader outlives its Lease.                     *)
(***************************************************************************)
EXTENDS Naturals, FiniteSets, FiniteSetsExt

CONSTANTS
    Operators,      \* processes that may hold, or believe they hold, the Lease
    Workers,        \* bound: the worker modes of the instance
    Ids,            \* the allocation IDs uuid.NewString will produce
    MaxRunners,     \* Config.MaxRunners
    DailyBudget,    \* Config.BudgetDailyMicros in reservations, 0 for no budget
    RetainedLimit,  \* the ceiling on len(f.Created)
    Demands,        \* the runner counts GitHub may ask for
    LastDay         \* bound: the UTC days of the model are 0..LastDay

ASSUME WorkersAssumption == Workers \subseteq {"session", "recovery", "cleanup"}
ASSUME MaxRunnersAssumption == MaxRunners \in 1..10
ASSUME BudgetAssumption == DailyBudget \in Nat
ASSUME IdsAssumption == IsFiniteSet(Ids)   \* UUIDs
ASSUME LimitAssumption == RetainedLimit \in Nat /\ RetainedLimit <= Cardinality(Ids)
ASSUME DemandAssumption == Demands \subseteq Nat
ASSUME DayAssumption == LastDay \in Nat

VARIABLES
    fleet,      \* the fleet ConfigMap
    record,     \* record[x]: the ConfigMap of allocation x, phase "none" without one
    aged,       \* allocations that have been terminal for terminalRetention
    now,        \* the UTC day
    deleting,   \* the RunnerScaleSet is being deleted
    drained,    \* RunCleanup returned: the finalizer may go
    mode,       \* mode[o]: the worker o runs
    paused,     \* paused[o]: Operator.paused
    started,    \* started[o]: the startup Tick of o is over
    pc,         \* pc[o]: what o's handler does next
    f,          \* f[o]: the fleet value inside o's handler
    current,    \* current[o]: the fleet was not written since o read it
    allocs,     \* allocs[o]: the phases o's Tick listed, of terminal records
    todo        \* todo[o]: allocations o's handler has yet to step or delete

durable == <<fleet, record>>
clock   == <<aged, now, deleting>>
process == <<mode, paused, started>>
handler == <<pc, f, current, allocs, todo>>
vars    == <<durable, clock, drained, process, handler>>

Terminal == {"Deleted", "TimedOut"}
Phases   == {"none", "Pending", "Active"} \cup Terminal
Labels   == {"idle", "admit", "admitted", "migrate", "list", "step", "pruned", "delete", "check", "drained"}

FleetState ==
    [admitted: Nat, resetObserved: BOOLEAN, created: SUBSET Ids, day: [Ids -> 0..LastDay],
     released: SUBSET Ids, pending: SUBSET Ids, pruned: SUBSET Ids]

\* Type invariant: every variable keeps its shape; day is read on created only.
TypeOK ==
    /\ fleet \in FleetState
    /\ record \in [Ids -> [phase: Phases, retire: BOOLEAN]]
    /\ aged \subseteq Ids /\ now \in 0..LastDay /\ deleting \in BOOLEAN /\ drained \in BOOLEAN
    /\ mode \in [Operators -> Workers \cup {"down"}]
    /\ paused \in [Operators -> BOOLEAN] /\ started \in [Operators -> BOOLEAN]
    /\ pc \in [Operators -> Labels]
    /\ f \in [Operators -> FleetState]
    /\ current \in [Operators -> BOOLEAN]
    /\ allocs \in [Operators -> [Ids -> Terminal \cup {"none"}]]
    /\ todo \in [Operators -> SUBSET Ids]

NoFleet ==
    [admitted |-> 0, resetObserved |-> FALSE, created |-> {}, day |-> [x \in Ids |-> 0],
     released |-> {}, pending |-> {}, pruned |-> {}]
NoRecord == [phase |-> "none", retire |-> FALSE]
NoAllocs == [x \in Ids |-> "none"]

Init ==
    /\ fleet = NoFleet
    /\ record = [x \in Ids |-> NoRecord]
    /\ aged = {} /\ now = 0 /\ deleting = FALSE /\ drained = FALSE
    /\ mode = [o \in Operators |-> "down"]
    /\ paused = [o \in Operators |-> FALSE] /\ started = [o \in Operators |-> FALSE]
    /\ pc = [o \in Operators |-> "idle"]
    /\ f = [o \in Operators |-> NoFleet]
    /\ current = [o \in Operators |-> FALSE]
    /\ allocs = [o \in Operators |-> NoAllocs]
    /\ todo = [o \in Operators |-> {}]

-----------------------------------------------------------------------------
(* Handlers: reading and writing the two kinds of ConfigMap *)

Goto(o, label) == pc' = [pc EXCEPT ![o] = label]

Phase        == [x \in Ids |-> record[x].phase]
Recorded     == {x \in Ids : record[x].phase # "none"}
Draining(o)  == mode[o] = "cleanup"

\* The handler returns; what it held is forgotten.  RunCleanup asks Drained
\* after every Tick; the first Tick of a session precedes its listener.
Return(o) ==
    /\ Goto(o, IF Draining(o) /\ pc[o] # "drained" THEN "check" ELSE "idle")
    /\ started' = [started EXCEPT ![o] = TRUE]
    /\ f' = [f EXCEPT ![o] = NoFleet]
    /\ allocs' = [allocs EXCEPT ![o] = NoAllocs]
    /\ todo' = [todo EXCEPT ![o] = {}]

\* readFleet: the handler works on a copy of what it read.
LoadFleet(o, label) ==
    /\ f' = [f EXCEPT ![o] = fleet]
    /\ current' = [current EXCEPT ![o] = TRUE]
    /\ Goto(o, label)

\* saveFleet without the revision: the last writer wins.
SaveFleetBlind(o) ==
    /\ \/ pc[o] \in {"admitted", "pruned"}
       \/ pc[o] = "migrate" /\ f[o].pending = {}
    /\ fleet' = f[o]
    /\ current' = [p \in Operators |-> FALSE]
    /\ \/ /\ pc[o] # "admitted"
          /\ Goto(o, IF pc[o] = "migrate" THEN "list" ELSE "delete")
          /\ UNCHANGED <<started, f, allocs, todo>>
       \/ Return(o)
    /\ UNCHANGED <<record, clock, drained, mode, paused>>

\* saveFleet: the API server accepts the write when nothing was written since
\* the read.  Even then the handler may be told that it failed, and return.
SaveFleet(o) ==
    /\ \/ pc[o] \in {"admitted", "pruned"}
       \/ pc[o] = "migrate" /\ f[o].pending = {}
    /\ current[o]
    /\ fleet' = f[o]
    /\ current' = [p \in Operators |-> FALSE]
    /\ \/ /\ pc[o] # "admitted"
          /\ Goto(o, IF pc[o] = "migrate" THEN "list" ELSE "delete")
          /\ UNCHANGED <<started, f, allocs, todo>>
       \/ Return(o)
    /\ UNCHANGED <<record, clock, drained, mode, paused>>

\* A read, list or write that fails, a conflict included: the handler returns.
Fail(o) ==
    /\ pc[o] \in {"admit", "admitted", "migrate", "list", "pruned", "drained"}
    /\ Return(o)
    /\ current' = [current EXCEPT ![o] = FALSE]
    /\ UNCHANGED <<durable, clock, drained, mode, paused>>

-----------------------------------------------------------------------------
(* HandleDesiredRunnerCount: demand becomes pending allocations *)

AdmitLoad(o) ==
    /\ mode[o] = "session" /\ started[o] /\ pc[o] = "idle"
    /\ LoadFleet(o, "admit")
    /\ UNCHANGED <<durable, clock, drained, process, allocs, todo>>

Floor(n)   == IF n < 0 THEN 0 ELSE n
Least(m, n) == IF m < n THEN m ELSE n

\* A slot is released on every pass that finds its record terminal.
ReleaseAgain(g, phase) ==
    LET ended == {x \in Ids : phase[x] \in Terminal} IN
    [g EXCEPT !.admitted = Floor(@ - Cardinality(ended)), !.released = @ \cup ended]

\* The same, and the count is not kept from going below zero.
ReleaseBelowZero(g, phase) ==
    LET ended == {x \in Ids : phase[x] \in Terminal} IN
    [g EXCEPT !.admitted = @ - Cardinality(ended), !.released = @ \cup ended]

\* Slots of records found terminal are released, each once.
Release(g, phase) ==
    LET ended == {x \in Ids : phase[x] \in Terminal} \ g.released IN
    [g EXCEPT !.admitted = Floor(@ - Cardinality(ended)), !.released = @ \cup ended]

\* Pending admissions count before their records exist.
ActiveIds(g, phase) ==
    {x \in Ids : phase[x] \in {"Pending", "Active"}} \cup {x \in g.pending : phase[x] = "none"}

\* admission.State.Reconcile: an idle fleet that saw no demand is rebaselined.
Rebaseline(g, demand, active) ==
    LET reset == g.resetObserved \/ demand = 0 IN
    IF reset /\ active = 0
    THEN [g EXCEPT !.admitted = 0, !.resetObserved = FALSE]
    ELSE [g EXCEPT !.resetObserved = reset]
NewSlots(g, demand, active) ==
    Least(Floor(Least(demand, MaxRunners) - g.admitted), Floor(MaxRunners - active))

\* Allocations that have no record yet are left out of today's reservations.
SpentRecorded(g, phase, day) ==
    Cardinality({x \in g.created : phase[x] \notin {"none", "TimedOut"} /\ g.day[x] = day})

\* spentToday, in reservations.
Spent(g, phase, day) ==
    Cardinality({x \in g.created : phase[x] # "TimedOut" /\ g.day[x] = day})
Affordable(g, phase, n) ==
    IF DailyBudget = 0 THEN n ELSE Least(n, Floor(DailyBudget - Spent(g, phase, now)))

\* The decision, from the fleet as loaded and the records as listed now.  The
\* catalog, the price refresh and the overlay pool may refuse the whole batch.
\* The day may change between spentToday and the creation time.
Admit(o, demand) ==
    /\ pc[o] = "admit"
    /\ LET g == Release(f[o], Phase)
           active == Cardinality(ActiveIds(g, Phase))
           h == Rebaseline(g, demand, active)
           n == Affordable(h, Phase, NewSlots(h, demand, active))
       IN \/ /\ paused[o]
             /\ f' = [f EXCEPT ![o] = g]
             /\ UNCHANGED now
          \/ /\ ~paused[o]
             /\ n = 0 \/ Cardinality(h.created) + n <= RetainedLimit
             /\ f' = [f EXCEPT ![o] = h]
             /\ UNCHANGED now
          \/ /\ ~paused[o]
             /\ n > 0 /\ Cardinality(h.created) + n <= RetainedLimit
             /\ now' \in {now, now + 1} \cap 0..LastDay
             /\ \E new \in kSubset(n, Ids \ h.created) :
                   f' = [f EXCEPT ![o] =
                          [h EXCEPT !.admitted = @ + n, !.created = @ \cup new,
                                    !.pending = @ \cup new,
                                    !.day = [x \in Ids |-> IF x \in new THEN now' ELSE @[x]]]]
    /\ Goto(o, "admitted")
    /\ UNCHANGED <<durable, aged, deleting, drained, process, current, allocs, todo>>

\* HandleJobCompleted: the runner is retired.
HandleJobCompleted(o, x) ==
    /\ mode[o] = "session" /\ started[o] /\ pc[o] = "idle"
    /\ record[x].phase \in {"Pending", "Active"}
    /\ record' = [record EXCEPT ![x].retire = TRUE]
    /\ UNCHANGED <<fleet, clock, drained, process, handler>>

-----------------------------------------------------------------------------
(* Tick: pending admissions become records, records are stepped and pruned *)

TickLoad(o) ==
    /\ mode[o] # "down" /\ pc[o] = "idle"
    /\ LoadFleet(o, "migrate")
    /\ UNCHANGED <<durable, clock, drained, process, allocs, todo>>

\* The record is created, unless an earlier Tick already did.
Migrate(o, x) ==
    /\ pc[o] = "migrate" /\ x \in f[o].pending
    /\ IF record[x].phase = "none"
       THEN record' = [record EXCEPT ![x] = [phase |-> "Pending", retire |-> Draining(o)]]
       ELSE UNCHANGED record
    /\ f' = [f EXCEPT ![o].pending = @ \ {x}]
    /\ UNCHANGED <<fleet, clock, drained, process, pc, current, allocs, todo>>

\* A record without a lifetime origin is reported and not stepped.
List(o) ==
    /\ pc[o] = "list"
    /\ allocs' = [allocs EXCEPT ![o] = [x \in Ids |-> IF Phase[x] \in Terminal THEN Phase[x] ELSE "none"]]
    /\ todo' = [todo EXCEPT ![o] = Recorded \cap f[o].created]
    /\ f' = [f EXCEPT ![o] = NoFleet]
    /\ Goto(o, "step")
    /\ UNCHANGED <<durable, clock, drained, process, current>>

\* What Controller.Step may make of a record: AllocationContract with its three
\* phases that may own cloud resources as one.  Retired, a Pending one times out.
Moves(r) ==
    CASE r.phase = "Pending" -> {"TimedOut"} \cup (IF r.retire THEN {} ELSE {"Active"})
      [] r.phase = "Active"  -> {"Pending", "Deleted"}
      [] OTHER               -> {}

\* Tick retires every record it drains or finds past its lifetime, then steps
\* it; each of the two writes may fail.  Once a record is terminal nothing reads
\* its retire flag, and the model clears it.
Stepped(o, r) ==
    LET retired == {[r EXCEPT !.retire = b] : b \in IF Draining(o) THEN {TRUE} ELSE {r.retire, TRUE}}
        Move(s) == {[phase |-> q, retire |-> s.retire /\ q \notin Terminal] : q \in Moves(s)}
    IN  {r} \cup retired \cup UNION {Move(s) : s \in retired}

\* One goroutine of Tick.
StepOne(o, x) ==
    /\ pc[o] = "step" /\ x \in todo[o]
    /\ IF record[x].phase \in {"none"} \cup Terminal
       THEN UNCHANGED record
       ELSE \E r \in Stepped(o, record[x]) : record' = [record EXCEPT ![x] = r]
    /\ todo' = [todo EXCEPT ![o] = @ \ {x}]
    /\ UNCHANGED <<fleet, clock, drained, process, pc, f, current, allocs>>

Prunable(g, phase) ==
    {x \in aged : \/ phase[x] = "TimedOut"
                  \/ phase[x] = "Deleted" /\ x \in g.released}

\* Records are deleted before the fleet that marks them is saved.
PruneDeleteFirst(o) ==
    /\ pc[o] = "step" /\ todo[o] = {}
    /\ \E gone \in SUBSET (IF mode[o] = "session" THEN Prunable(fleet, allocs[o]) ELSE {}) :
          IF gone = {}
          THEN Return(o) /\ UNCHANGED <<current, record>>
          ELSE /\ f' = [f EXCEPT ![o] = [fleet EXCEPT !.pruned = @ \cup gone]]
               /\ current' = [current EXCEPT ![o] = TRUE]
               /\ record' = [x \in Ids |-> IF x \in gone THEN NoRecord ELSE record[x]]
               /\ todo' = [todo EXCEPT ![o] = gone]
               /\ allocs' = [allocs EXCEPT ![o] = NoAllocs]
               /\ Goto(o, "pruned")
               /\ UNCHANGED started
    /\ UNCHANGED <<fleet, clock, drained, mode, paused>>

\* pruneTerminalAllocations up to its save: every candidate whose runner GitHub
\* confirms gone is marked in the fleet read here.  Without a GitHub client, in
\* recovery and cleanup, nothing is confirmed.
Prune(o) ==
    /\ pc[o] = "step" /\ todo[o] = {}
    /\ \E gone \in SUBSET (IF mode[o] = "session" THEN Prunable(fleet, allocs[o]) ELSE {}) :
          IF gone = {}
          THEN Return(o) /\ UNCHANGED current
          ELSE /\ f' = [f EXCEPT ![o] = [fleet EXCEPT !.pruned = @ \cup gone]]
               /\ current' = [current EXCEPT ![o] = TRUE]
               /\ todo' = [todo EXCEPT ![o] = gone]
               /\ allocs' = [allocs EXCEPT ![o] = NoAllocs]
               /\ Goto(o, "pruned")
               /\ UNCHANGED started
    /\ UNCHANGED <<durable, clock, drained, mode, paused>>

\* Kubernetes.Delete, which may fail.
DeleteOne(o, x) ==
    /\ pc[o] = "delete" /\ x \in todo[o]
    /\ record' \in {record, [record EXCEPT ![x] = NoRecord]}
    /\ IF todo[o] = {x}
       THEN Return(o)
       ELSE todo' = [todo EXCEPT ![o] = @ \ {x}] /\ UNCHANGED <<started, pc, f, allocs>>
    /\ UNCHANGED <<fleet, clock, drained, mode, paused, current>>

-----------------------------------------------------------------------------
(* Drained, as RunCleanup asks it *)

DrainedLoad(o) ==
    /\ pc[o] = "check"
    /\ LoadFleet(o, "drained")
    /\ UNCHANGED <<durable, clock, drained, process, allocs, todo>>

\* A pending admission without a record does not keep the fleet from being drained.
ResolvedPending(g) ==
    /\ Recorded \subseteq g.created
    /\ \A x \in Recorded : record[x].phase \in Terminal
    /\ g.created \subseteq Recorded \cup g.pruned \cup g.pending

\* A pruned allocation counts as one that was never resolved.
ResolvedUnpruned(g) ==
    /\ g.pending = {}
    /\ Recorded \subseteq g.created
    /\ \A x \in Recorded : record[x].phase \in Terminal
    /\ g.created \subseteq Recorded

\* Every admitted allocation ended in a record, or was pruned after it did.
Resolved(g) ==
    /\ g.pending = {}
    /\ Recorded \subseteq g.created
    /\ \A x \in Recorded : record[x].phase \in Terminal
    /\ g.created \subseteq Recorded \cup g.pruned

Drained(o) ==
    /\ pc[o] = "drained"
    /\ drained' = (drained \/ Resolved(f[o]))
    /\ mode' = IF Resolved(f[o]) THEN [mode EXCEPT ![o] = "down"] ELSE mode
    /\ Return(o)
    /\ current' = [current EXCEPT ![o] = FALSE]
    /\ UNCHANGED <<durable, clock, paused>>

-----------------------------------------------------------------------------
(* Workers, and the world around them *)

\* A worker starts under the Lease: cleanup once the scale set is being deleted,
\* otherwise a session, or recovery while its configuration is unavailable.
Start(o) ==
    /\ mode[o] = "down" /\ ~drained
    /\ mode' \in {[mode EXCEPT ![o] = m] : m \in Workers \cap IF deleting THEN {"cleanup"} ELSE {"session", "recovery"}}
    /\ paused' = [paused EXCEPT ![o] = mode'[o] # "session"]
    /\ started' = [started EXCEPT ![o] = FALSE]
    /\ UNCHANGED <<durable, clock, drained, handler>>

\* It is stopped, loses the Lease or crashes, between any two steps.
Stop(o) ==
    /\ mode[o] # "down"
    /\ mode' = [mode EXCEPT ![o] = "down"]
    /\ paused' = [paused EXCEPT ![o] = FALSE]
    /\ started' = [started EXCEPT ![o] = FALSE]
    /\ pc' = [pc EXCEPT ![o] = "idle"]
    /\ f' = [f EXCEPT ![o] = NoFleet]
    /\ current' = [current EXCEPT ![o] = FALSE]
    /\ allocs' = [allocs EXCEPT ![o] = NoAllocs]
    /\ todo' = [todo EXCEPT ![o] = {}]
    /\ UNCHANGED <<durable, clock, drained>>

\* reconcileCleanup stops a worker of another mode.
Replace(o) == deleting /\ mode[o] # "cleanup" /\ Stop(o)

\* PauseAdmissions waits for the handler that holds o.mu.
PauseAdmissions(o) ==
    /\ "recovery" \in Workers /\ mode[o] = "session" /\ pc[o] = "idle"
    /\ paused' = [paused EXCEPT ![o] = ~@]
    /\ UNCHANGED <<durable, clock, drained, mode, started, handler>>

DeleteScaleSet ==
    /\ "cleanup" \in Workers /\ ~deleting
    /\ deleting' = TRUE
    /\ UNCHANGED <<durable, aged, now, drained, process, handler>>

Midnight ==
    /\ now < LastDay
    /\ now' = now + 1
    /\ UNCHANGED <<durable, aged, deleting, drained, process, handler>>

\* terminalRetention is a day, longer than any handler runs.
Age(x) ==
    /\ record[x].phase \in Terminal /\ x \notin aged
    /\ fleet.day[x] < now
    /\ \A o \in Operators : pc[o] = "idle"
    /\ aged' = aged \cup {x}
    /\ UNCHANGED <<durable, now, deleting, drained, process, handler>>

Handler(o) ==
    \/ SaveFleet(o) \/ List(o) \/ Prune(o) \/ DrainedLoad(o) \/ Drained(o)
    \/ \E demand \in Demands : Admit(o, demand)
    \/ \E x \in Ids : Migrate(o, x) \/ StepOne(o, x) \/ DeleteOne(o, x)

Next ==
    \/ \E o \in Operators :
          \/ AdmitLoad(o) \/ TickLoad(o) \/ Handler(o) \/ Fail(o)
          \/ Start(o) \/ Stop(o) \/ PauseAdmissions(o)
          \/ \E x \in Ids : HandleJobCompleted(o, x)
    \/ DeleteScaleSet \/ Midnight
    \/ \E x \in Ids : Age(x)

Spec == Init /\ [][Next]_vars

-----------------------------------------------------------------------------
(* Properties *)

\* Allocations that may own, or come to own, a cloud resource.
Held == fleet.pending \cup {x \in Ids : record[x].phase \in {"Pending", "Active"}}

\* Never more than MaxRunners allocations may own cloud resources, whatever the
\* demand reported, and whichever leaders admit and reconcile at once.
CapacityBound == Cardinality(Held) <= MaxRunners

\* Those that hold an admission slot: HandleDesiredRunnerCount has not seen them end.
Holders == (fleet.pending \cup Recorded) \ fleet.released

\* fleet.Admitted counts the slots that are held: no crash, lost save or second
\* leader releases a slot twice or counts an allocation that never was.  Only a
\* record that was pruned before it was released may be counted without a holder.
SlotAccounting ==
    /\ Cardinality(Holders) <= fleet.admitted
    /\ fleet.admitted <= Cardinality(Holders \cup (fleet.pruned \ fleet.released))

\* No admitted allocation is lost between the fleet and its record: it is
\* pending, recorded or pruned; and no record is without its lifetime origin.
NothingLost ==
    /\ fleet.created \subseteq fleet.pending \cup Recorded \cup fleet.pruned
    /\ fleet.pending \cup Recorded \cup fleet.pruned \subseteq fleet.created

\* Reservations admitted today that may still become spend fit the daily budget,
\* also when midnight falls inside an admission.
WithinBudget == DailyBudget > 0 => Spent(fleet, Phase, now) <= DailyBudget

\* Drained is right, for the Lease holder: when RunCleanup returned, everything
\* ever admitted has ended.  Nothing is admitted or revived afterwards.
DrainedIsFinal == drained => Held = {} /\ \A x \in Recorded : record[x].phase \in Terminal

-----------------------------------------------------------------------------
(* Liveness *)

\* The API server answers, and Step ends what is retired, as Lifecycle shows but
\* for an allocation that is parked there until an operator acts.
CalmNext ==
    \E o \in Operators :
       \/ TickLoad(o) \/ Start(o) \/ Replace(o)
       \/ /\ Handler(o)
          /\ \A x \in Ids : \/ record[x].phase \in {"none"} \cup Terminal
                            \/ x \notin todo[o] \/ x \in todo'[o]
                            \/ record'[x].phase # record[x].phase
          /\ pc[o] \in {"migrate", "pruned"} /\ pc'[o] # pc[o] => pc'[o] \in {"list", "delete"}

Fairness ==
    /\ <>[][deleting => CalmNext]_vars
    /\ \A o \in Operators :
          WF_vars(TickLoad(o)) /\ WF_vars(Handler(o)) /\ WF_vars(Start(o)) /\ WF_vars(Replace(o))

FairSpec == Spec /\ Fairness

\* A scale set that is deleted is drained at last, whatever crashed and was
\* pruned before, once no allocation of it is parked: RunCleanup never waits for
\* a record that is gone.
DrainCompletes == deleting ~> drained
=============================================================================
