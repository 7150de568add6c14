--------------------------- MODULE OverlayProofs ---------------------------
(***************************************************************************)
(* Proofs about Overlay, for any operators, allocations, attempts and      *)
(* CIDRs.  KeyInv relates keys to attempts; AddressInv, which includes it, *)
(* says what a handler's copy of the fleet knows about the addresses.      *)
(***************************************************************************)
EXTENDS Overlay, FiniteSetTheorems, WellFoundedInduction, TLAPS

\* The fields that records, VMs and create calls have.
Shape ==
    /\ DOMAIN record = Ids /\ DOMAIN vm = Ids /\ DOMAIN job = Ids
    /\ \A x \in Ids : /\ DOMAIN record[x] = {"phase", "addr", "attempts", "key"}
                      /\ DOMAIN vm[x] = {"key", "peers"}
                      /\ DOMAIN job[x] = {"op", "at", "peers", "current"}

\* Keys are those of the last attempt, in the record and in the VM.  Before an
\* attempt there is neither; during one the record has no key, and until the
\* cloud is called there is no VM.  A call is some operator's.
KeysAt(x) ==
    /\ record[x].key \in {0, record[x].attempts}
    /\ vm[x].key \in {0, record[x].attempts}
    /\ record[x].phase \in {"none", "Pending"} => record[x].key = 0 /\ vm[x].key = 0
    /\ job[x].at # "none" => record[x].phase \notin {"none", "Pending"} /\ record[x].key = 0
    /\ job[x].at \in {"prepare", "send"} => vm[x].key = 0
    /\ job[x].at # "none" => job[x].op \in Operators

\* The inductive invariant.
KeyInv == Shape /\ \A x \in Ids : KeysAt(x)

\* Initially there are no records, VMs or calls.
LEMMA KeyInit == Init => KeyInv
<1>. SUFFICES ASSUME Init PROVE KeyInv
  OBVIOUS
<1>1. /\ record = [x \in Ids |-> [phase |-> "none", addr |-> NoAddr, attempts |-> 0, key |-> 0]]
      /\ vm = [x \in Ids |-> NoVM] /\ job = [x \in Ids |-> NoJob]
  BY Zenon DEF Init
<1>. QED
  BY <1>1 DEF KeyInv, Shape, KeysAt, NoVM, NoJob

\* The saves of a Step: the commitment, its end, and the observations.
LEMMA KeyStep ==
    ASSUME KeyInv, NEW o \in Operators, NEW x \in Ids,
           \/ TimeOut(o, x) \/ StartCreate(o, x) \/ Touch(o, x)
           \/ ReconcileCreation(o, x) \/ Leave(o, x) \/ Confirm(o, x)
    PROVE  KeyInv'
<1> USE DEF KeyInv, Shape, KeysAt
<1>1. CASE TimeOut(o, x)
  BY <1>1 DEF TimeOut, Write
<1>2. CASE StartCreate(o, x)
  BY <1>2 DEF StartCreate
<1>3. CASE Touch(o, x)
  BY <1>3 DEF Touch, Write
<1>4. CASE ReconcileCreation(o, x)
  BY <1>4 DEF ReconcileCreation, Write
<1>5. CASE Leave(o, x)
  BY <1>5 DEF Leave, Write
<1>6. CASE Confirm(o, x)
  BY <1>6 DEF Confirm, Write
<1>. QED
  BY <1>1, <1>2, <1>3, <1>4, <1>5, <1>6

\* A create call: its key goes to the VM, and with the receipt to the record.
LEMMA KeyCreation ==
    ASSUME KeyInv, NEW x \in Ids, Creation(x)
    PROVE  KeyInv'
<1> USE DEF KeyInv, Shape, KeysAt
<1>1. CASE Prepare(x)
  BY <1>1 DEF Prepare
<1>2. CASE CreateVM(x)
  BY <1>2 DEF CreateVM
<1>3. CASE Retry(x)
  BY <1>3 DEF Retry, Outcome, NoJob
<1>4. CASE Unknown(x)
  BY <1>4 DEF Unknown, Outcome, NoJob
<1>5. CASE Receive(x)
  BY <1>5 DEF Receive, Outcome, NoJob
<1>. QED
  BY <1>1, <1>2, <1>3, <1>4, <1>5 DEF Creation

\* Every step keeps the invariant; agents touch none of its state.
LEMMA KeyNext == KeyInv /\ [Next]_vars => KeyInv'
<1> SUFFICES ASSUME KeyInv, [Next]_vars PROVE KeyInv'
  OBVIOUS
<1>1. ASSUME UNCHANGED <<record, vm, job>> PROVE KeyInv'
  BY <1>1 DEF KeyInv, Shape, KeysAt
<1>2. ASSUME NEW o \in Operators, Controller(o) PROVE KeyInv'
  <2>1. CASE Load(o, "list") \/ Load(o, "migrate") \/ Admit(o) \/ SaveFleet(o)
    <3>1. UNCHANGED <<record, vm, job>>
      BY <2>1, Zenon DEF Load, Admit, SaveFleet
    <3>. QED
      BY <1>1, <3>1
  <2>2. ASSUME NEW x \in Ids, Migrate(o, x) PROVE KeyInv'
    BY <2>2 DEF Migrate, KeyInv, Shape, KeysAt
  <2>. QED
    BY <1>2, <2>1, <2>2, KeyStep DEF Controller
<1>3. ASSUME NEW x \in Ids, VMEnds(x) PROVE KeyInv'
  BY <1>3 DEF VMEnds, NoVM, KeyInv, Shape, KeysAt
<1>4. ASSUME NEW o \in Operators, Crash(o) PROVE KeyInv'
  BY <1>4 DEF Crash, NoJob, KeyInv, Shape, KeysAt
<1>5. ASSUME NEW x \in Agents, NEW failed, Boot(x) \/ Restart(x) \/ Poll(x) \/ Reconcile(x, failed) PROVE KeyInv'
  <2>1. UNCHANGED <<record, vm, job>>
    BY <1>5, Zenon DEF Boot, Restart, BringUp, Poll, Reconcile
  <2>. QED
    BY <1>1, <2>1
<1>6. CASE UNCHANGED vars
  BY <1>1, <1>6 DEF vars
<1>. QED
  BY <1>2, <1>3, <1>4, <1>5, <1>6, KeyCreation DEF Next, CalmNext, Faults

\* Whatever leaders overlap, saves are refused and processes die between the
\* creation of a VM and the save of its receipt, a recorded public key is the one
\* the VM has: StartCreate, CreateWithResources and ReconcileCreation.
THEOREM IdentitiesMatch == Spec => []IdentityMatches
<1>1. KeyInv => IdentityMatches
  BY DEF KeyInv, KeysAt, IdentityMatches
<1>. QED
  BY <1>1, KeyInit, KeyNext, PTL DEF Spec
-----------------------------------------------------------------------------
(* Addresses.  First what NextOverlayAddress and a batch of it return.       *)

\* A set of numbers has a least one.
LEMMA LeastAddress ==
  ASSUME NEW S \in SUBSET Nat, S # {}
  PROVE  Min(S) \in S
<1> DEFINE less == OpToRel(<, Nat)
<1>1. IsWellFoundedOn(less, Nat)
  BY Zenon, NatLessThanWellFounded
<1>2. \A x, y \in Nat : y < x => <<y, x>> \in less
  BY DEF OpToRel
<1> HIDE DEF less
<1>3. PICK x \in S : \A y \in S : ~(<<y, x>> \in less)
  BY Zenon, <1>1, WFMin
<1>4. ASSUME NEW y \in S PROVE x <= y
  <2>1. x \in Nat /\ y \in Nat
    BY Zenon
  <2>2. ~(y < x)
    BY Zenon, <1>2, <1>3, <2>1
  <2>. QED
    BY <2>1, <2>2
<1>. QED
  BY Zenon, <1>4 DEF Min

\* NextOverlayAddress returns no address that is taken.
LEMMA NextIsFree ==
  ASSUME NEW taken, NextOverlayAddress(taken) # NoAddr
  PROVE  NextOverlayAddress(taken) \notin taken
<1> DEFINE free == {i \in 1..Len(Cidrs) : ~ Hosts(Cidrs[i]) \subseteq taken}
           left == Hosts(Cidrs[Min(free)]) \ taken
<1>1. ~ Addresses \subseteq taken /\ NextOverlayAddress(taken) = Min(left)
  BY Zenon DEF NextOverlayAddress
<1>2. free # {}
  BY Zenon, <1>1 DEF Addresses
<1>3. free \in SUBSET Nat
  OBVIOUS
<1>4. Min(free) \in free
  BY Zenon, <1>2, <1>3, LeastAddress
<1>5. left # {}
  BY Zenon, <1>4
<1>6. left \in SUBSET Nat
  <2>1. ASSUME NEW b \in Nat, NEW e PROVE (b + 1)..e \subseteq Nat
    OBVIOUS
  <2>2. Cidrs[Min(free)].base \in Nat
    BY Zenon, <1>4, CidrsAssumption
  <2>. QED
    BY Zenon, <2>1, <2>2 DEF Hosts
<1>7. Min(left) \in left
  BY Zenon, <1>5, <1>6, LeastAddress
<1>. QED
  BY Zenon, <1>1, <1>7

\* The addresses of one batch are distinct, and none was taken before.
LEMMA BatchIsFree ==
  ASSUME NEW taken, NEW n \in Nat, NEW a \in Assigned(taken, n), \A i \in 1..n : a[i] # NoAddr
  PROVE  /\ a \in [1..n -> Addresses \cup {NoAddr}]
         /\ \A i \in 1..n : a[i] \notin taken
         /\ \A i, j \in 1..n : i # j => a[i] # a[j]
<1>1. /\ a \in [1..n -> Addresses \cup {NoAddr}]
      /\ \A i \in 1..n : a[i] = NextOverlayAddress(taken \cup {a[j] : j \in 1..(i - 1)})
  BY Zenon DEF Assigned
<1>2. \A i \in 1..n : a[i] \notin taken \cup {a[j] : j \in 1..(i - 1)}
  BY Zenon, <1>1, NextIsFree
<1>3. ASSUME NEW i \in 1..n, NEW j \in 1..n, j < i PROVE a[i] # a[j]
  <2>1. j \in 1..(i - 1)
    BY <1>3
  <2>. QED
    BY Zenon, <1>2, <2>1
<1>4. ASSUME NEW i \in 1..n, NEW j \in 1..n, i # j PROVE a[i] # a[j]
  <2>1. i < j \/ j < i
    BY <1>4
  <2>. QED
    BY Zenon, <1>3, <2>1
<1>. QED
  BY Zenon, <1>1, <1>2, <1>4
-----------------------------------------------------------------------------
(* Then the fleet, the records and the copies of the fleet in the handlers.  *)

HandlerTypes ==
    /\ fleet \in FleetState /\ f \in [Operators -> FleetState]
    /\ pc \in [Operators -> {"idle", "list", "save", "migrate"}] /\ current \in [Operators -> BOOLEAN]

\* Nobody settles a creation whose call is on its way: the cloud gives no answer,
\* or there is no second operator to ask for one.
CallsAreAwaited == CreateProven \/ \A o, p \in Operators : o = p

\* Only the record of a live allocation has a VM, and a create call that may make
\* one, or whose outcome can be saved, is that of a Creating one: no Save brings
\* one back.
AliveAt(x) ==
    /\ vm[x].key # 0 => record[x].phase \in Live
    /\ job[x].at \in {"prepare", "send"} => record[x].phase = "Creating"
    /\ job[x].at # "none" /\ job[x].current => record[x].phase = "Creating"

\* An allocation that has a record or is pending is among the created ones.
Registered == \A x \in Ids : record[x].phase # "none" \/ fleet.pending[x] # NoAddr => x \in fleet.created

\* A fleet value that may replace the fleet.
Fresh(g) ==
    /\ fleet.created \subseteq g.created
    /\ \A x \in Ids : /\ g.pending[x] # NoAddr => x \in g.created
                      /\ fleet.pending[x] # NoAddr => g.pending[x] = fleet.pending[x]
    /\ \A x, y \in Ids : x # y /\ g.pending[x] # NoAddr => g.pending[x] \notin AddressesOf(y) \cup {g.pending[y]}

\* A migration, stale or not, writes an address that is still reserved in the
\* fleet; the rest is what the revision check gives.
HandlerInv(o) ==
    /\ pc[o] = "migrate" => \A x \in Ids :
          f[o].pending[x] # NoAddr => f[o].pending[x] = fleet.pending[x] \/ record[x].phase # "none"
    /\ current[o] /\ pc[o] = "list" => f[o] = fleet
    /\ current[o] /\ pc[o] = "save" => Fresh(f[o])
    /\ current[o] /\ pc[o] = "migrate" =>
          /\ f[o].created = fleet.created
          /\ \A x \in Ids : fleet.pending[x] # NoAddr => f[o].pending[x] = fleet.pending[x] \/ record[x].phase # "none"

\* The inductive invariant.
AddressInv ==
    /\ KeyInv /\ HandlerTypes /\ Registered /\ AddressesDistinct
    /\ \A x \in Ids : AliveAt(x)
    /\ \A o \in Operators : HandlerInv(o)

\* The phases of an allocation that holds its address.
LEMMA LivePhases == Live = {"Pending", "Creating", "Running", "Deleting"}
BY DEF Live, Phases, Terminal

\* What an allocation's addresses are, when a VM implies a live record.
LEMMA AddressIn ==
  ASSUME NEW x \in Ids, AliveAt(x)
  PROVE  \A a : a \in AddressesOf(x) <=> \/ record[x].phase \in Live /\ a = record[x].addr
                                         \/ a = fleet.pending[x] /\ a # NoAddr
BY Zenon DEF AddressesOf, AliveAt

\* Steps on records and VMs: no address is taken up.
LEMMA HandlersRest ==
  ASSUME AddressInv, KeyInv', \A x \in Ids : AliveAt(x)', UNCHANGED <<fleet, pc, f, current>>,
         \A x \in Ids : /\ record'[x].addr = record[x].addr
                        /\ record'[x].phase = "none" <=> record[x].phase = "none"
                        /\ record'[x].phase \in Live => record[x].phase \in Live
  PROVE  AddressInv'
<1>1. \A x \in Ids : AddressesOf(x)' \subseteq AddressesOf(x)
  <2>1. SUFFICES ASSUME NEW x \in Ids, NEW a, a \in AddressesOf(x)' PROVE a \in AddressesOf(x)
    BY Zenon
  <2>2. (record'[x].phase \in Live /\ a = record'[x].addr) \/ (a = fleet.pending[x] /\ a # NoAddr)
    BY Zenon, <2>1 DEF AddressesOf, AliveAt
  <2>3. (record[x].phase \in Live /\ a = record[x].addr) \/ (a = fleet.pending[x] /\ a # NoAddr)
    BY Zenon, <2>2
  <2>. QED
    BY Zenon, <2>3, AddressIn DEF AddressInv
<1>2. AddressesDistinct'
  BY Zenon, <1>1 DEF AddressInv, AddressesDistinct
<1>3. Registered' /\ HandlerTypes'
  BY Zenon DEF AddressInv, Registered, HandlerTypes
<1>4. \A g : Fresh(g) => Fresh(g)'
  BY Zenon, <1>1 DEF Fresh
<1>5. ASSUME NEW o \in Operators PROVE HandlerInv(o)'
  <2>1. HandlerInv(o)
    BY Zenon DEF AddressInv
  <2>2. current[o] /\ pc[o] = "save" => Fresh(f[o])'
    BY Zenon, <1>4, <2>1 DEF HandlerInv
  <2>. QED
    BY Zenon, <2>1, <2>2 DEF HandlerInv
<1>. QED
  BY Zenon, <1>2, <1>3, <1>5 DEF AddressInv

\* The saves of a Step.
LEMMA AddressStep ==
  ASSUME CallsAreAwaited, AddressInv, KeyInv', NEW o \in Operators, NEW x \in Ids,
         \/ TimeOut(o, x) \/ StartCreate(o, x) \/ Touch(o, x)
         \/ ReconcileCreation(o, x) \/ Leave(o, x) \/ Confirm(o, x)
  PROVE  AddressInv'
<1>1. KeyInv /\ \A y \in Ids : AliveAt(y)
  BY Zenon DEF AddressInv
<1>2. UNCHANGED <<fleet, pc, f, current, vm>>
  BY Zenon DEF TimeOut, StartCreate, Touch, ReconcileCreation, Leave, Confirm, handler
<1>3. \A y \in Ids \ {x} : record'[y] = record[y] /\ job'[y] = job[y]
  BY <1>1 DEF TimeOut, StartCreate, Touch, ReconcileCreation, Leave, Confirm, Write, KeyInv, Shape
<1>4. record'[x].addr = record[x].addr /\ record[x].phase \in Live /\ record'[x].phase # "none"
  BY <1>1, LivePhases DEF TimeOut, StartCreate, Touch, ReconcileCreation, Leave, Confirm, Write, KeyInv, Shape
<1>5. AliveAt(x)'
  <2>. USE DEF KeyInv, Shape, KeysAt, AliveAt
  <2>1. CASE TimeOut(o, x)
    BY <1>1, <2>1, LivePhases DEF TimeOut, Write
  <2>2. CASE StartCreate(o, x)
    BY <1>1, <2>2, LivePhases DEF StartCreate
  <2>3. CASE Touch(o, x)
    BY <1>1, <2>3, LivePhases DEF Touch, Write
  <2>4. CASE ReconcileCreation(o, x)
    <3>1. job[x].at \notin {"prepare", "send"}
      BY <1>1, <2>4 DEF ReconcileCreation, Steps, CallsAreAwaited
    <3>. QED
      BY <1>1, <2>4, <3>1, LivePhases DEF ReconcileCreation, Write
  <2>5. CASE Leave(o, x)
    BY <1>1, <2>5, LivePhases DEF Leave, Write
  <2>6. CASE Confirm(o, x)
    BY <1>1, <2>6, LivePhases DEF Confirm, Write
  <2>. QED
    BY <2>1, <2>2, <2>3, <2>4, <2>5, <2>6
<1>6. \A y \in Ids : AliveAt(y)'
  BY Zenon, <1>1, <1>2, <1>3, <1>5 DEF AliveAt
<1>7. "none" \notin Live
  BY LivePhases
<1>. QED
  BY Zenon, <1>2, <1>3, <1>4, <1>6, <1>7, HandlersRest

\* A create call and the save of its outcome.
LEMMA AddressCreation ==
  ASSUME AddressInv, KeyInv', NEW x \in Ids, Creation(x)
  PROVE  AddressInv'
<1>1. KeyInv /\ \A y \in Ids : AliveAt(y)
  BY Zenon DEF AddressInv
<1>2. UNCHANGED <<fleet, pc, f, current>>
  BY Zenon DEF Creation, Prepare, CreateVM, Retry, Unknown, Receive, Outcome, handler
<1>3. \A y \in Ids \ {x} : record'[y] = record[y] /\ job'[y] = job[y] /\ vm'[y] = vm[y]
  <2>1. CASE Prepare(x) \/ CreateVM(x)
    BY <1>1, <2>1 DEF Prepare, CreateVM, KeyInv, Shape
  <2>2. CASE Retry(x) \/ Unknown(x) \/ Receive(x)
    BY <1>1, <2>2 DEF Retry, Unknown, Receive, Outcome, KeyInv, Shape
  <2>. QED
    BY <2>1, <2>2 DEF Creation
<1>4. /\ record'[x].addr = record[x].addr /\ AliveAt(x)'
      /\ record'[x].phase = record[x].phase \/ (record[x].phase \in Live /\ record'[x].phase # "none")
  <2>. USE DEF KeyInv, Shape, KeysAt, AliveAt
  <2>1. CASE Prepare(x)
    BY <1>1, <2>1, LivePhases DEF Prepare
  <2>2. CASE CreateVM(x)
    BY <1>1, <2>2, LivePhases DEF CreateVM
  <2>3. CASE Retry(x)
    BY <1>1, <2>3, LivePhases DEF Retry, Outcome, NoJob
  <2>4. CASE Unknown(x)
    BY <1>1, <2>4, LivePhases DEF Unknown, Outcome, NoJob
  <2>5. CASE Receive(x)
    BY <1>1, <2>5, LivePhases DEF Receive, Outcome, NoJob
  <2>. QED
    BY <2>1, <2>2, <2>3, <2>4, <2>5 DEF Creation
<1>5. \A y \in Ids : AliveAt(y)'
  BY Zenon, <1>1, <1>3, <1>4 DEF AliveAt
<1>6. "none" \notin Live
  BY LivePhases
<1>. QED
  BY Zenon, <1>2, <1>3, <1>4, <1>5, <1>6, HandlersRest

\* A handler step of o that leaves the durable state alone.
LEMMA HandlerStep ==
  ASSUME AddressInv, NEW o \in Operators, HandlerTypes', HandlerInv(o)', UNCHANGED <<fleet, record, vm, job>>,
         \A p \in Operators \ {o} : f'[p] = f[p] /\ pc'[p] = pc[p] /\ (current'[p] => current[p])
  PROVE  AddressInv'
<1>1. \A x \in Ids : AddressesOf(x)' = AddressesOf(x) /\ (AliveAt(x)' <=> AliveAt(x))
  BY Zenon DEF AddressesOf, AliveAt
<1>2. KeyInv' /\ Registered' /\ AddressesDistinct'
  BY Zenon, <1>1 DEF AddressInv, KeyInv, Shape, KeysAt, Registered, AddressesDistinct
<1>3. \A g : Fresh(g) => Fresh(g)'
  BY Zenon, <1>1 DEF Fresh
<1>4. ASSUME NEW p \in Operators \ {o} PROVE HandlerInv(p)'
  <2>1. HandlerInv(p) /\ f'[p] = f[p] /\ pc'[p] = pc[p] /\ (current'[p] => current[p])
    BY Zenon DEF AddressInv
  <2>2. current'[p] /\ pc'[p] = "save" => Fresh(f[p])'
    BY Zenon, <1>3, <2>1 DEF HandlerInv
  <2>3. pc'[p] = "migrate" => \A x \in Ids :
          f'[p].pending[x] # NoAddr => f'[p].pending[x] = fleet'.pending[x] \/ record'[x].phase # "none"
    BY Zenon, <2>1 DEF HandlerInv
  <2>4. current'[p] /\ pc'[p] = "list" => f'[p] = fleet'
    BY Zenon, <2>1 DEF HandlerInv
  <2>5. current'[p] /\ pc'[p] = "migrate" =>
          /\ f'[p].created = fleet'.created
          /\ \A x \in Ids : fleet'.pending[x] # NoAddr =>
                f'[p].pending[x] = fleet'.pending[x] \/ record'[x].phase # "none"
    BY Zenon, <2>1 DEF HandlerInv
  <2>. QED
    BY Zenon, <2>1, <2>2, <2>3, <2>4, <2>5 DEF HandlerInv
<1>. QED
  BY Zenon, <1>1, <1>2, <1>4 DEF AddressInv

\* loadFleet: the copy is the fleet.
LEMMA AddressLoad ==
  ASSUME AddressInv, NEW o \in Operators, NEW label \in {"list", "migrate"}, Load(o, label)
  PROVE  AddressInv'
<1>1. HandlerTypes
  BY DEF AddressInv
<1>2. /\ f' = [f EXCEPT ![o] = fleet] /\ current' = [current EXCEPT ![o] = TRUE] /\ pc' = [pc EXCEPT ![o] = label]
      /\ UNCHANGED <<fleet, record, vm, job>>
  BY Zenon DEF Load, Goto
<1>3. HandlerTypes' /\ f'[o] = fleet /\ pc'[o] = label /\ label # "save"
      /\ \A p \in Operators \ {o} : f'[p] = f[p] /\ pc'[p] = pc[p] /\ current'[p] = current[p]
  BY <1>1, <1>2 DEF HandlerTypes
<1>4. HandlerInv(o)'
  BY Zenon, <1>2, <1>3 DEF HandlerInv
<1>. QED
  BY Zenon, <1>2, <1>3, <1>4, HandlerStep

\* The process dies: its copy and its create calls are gone.
LEMMA AddressCrash ==
  ASSUME AddressInv, KeyInv', NEW o \in Operators, Crash(o)
  PROVE  AddressInv'
<1>1. HandlerTypes /\ KeyInv
  BY DEF AddressInv
<1>2. /\ f' = [f EXCEPT ![o] = NoFleet] /\ current' = [current EXCEPT ![o] = FALSE] /\ pc' = [pc EXCEPT ![o] = "idle"]
      /\ UNCHANGED <<fleet, record, vm>>
  BY Zenon DEF Crash, Goto
<1>3. NoFleet \in FleetState
  BY DEF NoFleet, FleetState
<1>4. HandlerTypes' /\ f'[o] = NoFleet /\ pc'[o] = "idle"
      /\ \A p \in Operators \ {o} : f'[p] = f[p] /\ pc'[p] = pc[p] /\ current'[p] = current[p]
  BY <1>1, <1>2, <1>3 DEF HandlerTypes
<1>5. \A x \in Ids : AddressesOf(x)' = AddressesOf(x)
  BY Zenon, <1>2 DEF AddressesOf
<1>6. \A x \in Ids : AliveAt(x)'
  <2>1. \A x \in Ids : job'[x] = job[x] \/ job'[x] = NoJob
    BY <1>1 DEF Crash
  <2>2. NoJob.at = "none"
    BY DEF NoJob
  <2>. QED
    BY Zenon, <1>2, <2>1, <2>2 DEF AddressInv, AliveAt
<1>7. Registered' /\ AddressesDistinct'
  BY Zenon, <1>2, <1>5 DEF AddressInv, Registered, AddressesDistinct
<1>8. \A g : Fresh(g) => Fresh(g)'
  BY Zenon, <1>2, <1>5 DEF Fresh
<1>9. ASSUME NEW p \in Operators PROVE HandlerInv(p)'
  <2>1. CASE p = o
    BY <1>4, <2>1 DEF HandlerInv
  <2>2. CASE p # o
    <3>1. HandlerInv(p) /\ f'[p] = f[p] /\ pc'[p] = pc[p] /\ current'[p] = current[p]
      BY Zenon, <1>4, <2>2 DEF AddressInv
    <3>2. current'[p] /\ pc'[p] = "save" => Fresh(f[p])'
      BY Zenon, <1>8, <3>1 DEF HandlerInv
    <3>. QED
      BY Zenon, <1>2, <3>1, <3>2 DEF HandlerInv
  <2>. QED
    BY <2>1, <2>2
<1>. QED
  BY Zenon, <1>4, <1>6, <1>7, <1>9 DEF AddressInv

\* Every address in use is one the admission takes into account.
LEMMA UsedIsTaken ==
  ASSUME AddressInv, NEW x \in Ids, NEW a \in AddressesOf(x)
  PROVE  a \in Taken(fleet)
<1>1. AliveAt(x)
  BY Zenon DEF AddressInv
<1>2. (record[x].phase \in Live /\ a = record[x].addr) \/ (a = fleet.pending[x] /\ a # NoAddr)
  BY Zenon, <1>1, AddressIn
<1>. QED
  BY Zenon, <1>2 DEF Taken, Pending

\* What was read may be written back, and so may an admitted batch.
LEMMA FleetIsFresh == ASSUME AddressInv PROVE Fresh(fleet)
<1>1. \A x \in Ids : fleet.pending[x] # NoAddr => fleet.pending[x] \in AddressesOf(x) /\ x \in fleet.created
  BY Zenon DEF AddressInv, Registered, AddressesOf
<1>2. ASSUME NEW x \in Ids, NEW y \in Ids, x # y, fleet.pending[x] # NoAddr
      PROVE  fleet.pending[x] \notin AddressesOf(y) \cup {fleet.pending[y]}
  <2>1. AddressesOf(x) \cap AddressesOf(y) = {}
    BY Zenon, <1>2 DEF AddressInv, AddressesDistinct
  <2>2. fleet.pending[x] \notin AddressesOf(y)
    BY Zenon, <1>1, <1>2, <2>1
  <2>3. fleet.pending[x] # fleet.pending[y]
    BY Zenon, <1>1, <1>2, <2>2
  <2>. QED
    BY Zenon, <2>2, <2>3
<1>. QED
  BY Zenon, <1>1, <1>2 DEF Fresh

\* A copy of the fleet with a batch of n new allocations:
Batch(h, new, n, a, order) ==
    [created |-> h.created \cup new,
     pending |-> [x \in Ids |-> IF x \in new THEN a[CHOOSE i \in 1..n : order[i] = x] ELSE h.pending[x]]]

\* it has the fleet's type,
LEMMA BatchIsTyped ==
  ASSUME NEW h \in FleetState, NEW new \in SUBSET Ids, NEW taken, NEW n, NEW a \in Assigned(taken, n),
         NEW order \in Bijection(1..n, new)
  PROVE  Batch(h, new, n, a, order) \in FleetState
<1> DEFINE place(x) == CHOOSE i \in 1..n : order[i] = x
<1>1. \A x \in new : place(x) \in 1..n
  BY Zenon DEF Bijection, Surjection
<1> HIDE DEF place
<1>2. a \in [1..n -> Addresses \cup {NoAddr}]
  BY Zenon DEF Assigned
<1>3. \A x \in new : a[place(x)] \in Addresses \cup {NoAddr}
  BY Zenon, <1>1, <1>2
<1>4. h.created \in SUBSET Ids /\ \A x \in Ids : h.pending[x] \in Addresses \cup {NoAddr}
  BY DEF FleetState
<1>5. [x \in Ids |-> IF x \in new THEN a[place(x)] ELSE h.pending[x]] \in [Ids -> Addresses \cup {NoAddr}]
  BY Zenon, <1>3, <1>4
<1>6. h.created \cup new \in SUBSET Ids
  BY Zenon, <1>4
<1>. QED
  BY Zenon, <1>5, <1>6 DEF FleetState, place, Batch

\* and may replace the fleet if it was the latest.
LEMMA BatchIsFresh ==
  ASSUME AddressInv, NEW new \in SUBSET (Ids \ fleet.created), NEW n \in Nat,
         NEW a \in Assigned(Taken(fleet), n), \A i \in 1..n : a[i] # NoAddr,
         NEW order \in Bijection(1..n, new)
  PROVE  Fresh(Batch(fleet, new, n, a, order))
<1> DEFINE place(x) == CHOOSE i \in 1..n : order[i] = x
           g == Batch(fleet, new, n, a, order)
<1>1. \A x \in new : \E i \in 1..n : order[i] = x
  BY Zenon DEF Bijection, Surjection
<1>2. \A x \in new : place(x) \in 1..n /\ order[place(x)] = x
  BY Zenon, <1>1
<1>3. g.created = fleet.created \cup new /\ \A x \in Ids : g.pending[x] = IF x \in new THEN a[place(x)] ELSE fleet.pending[x]
  BY DEF Batch
<1> HIDE DEF place, g
<1>4. /\ a \in [1..n -> Addresses \cup {NoAddr}] /\ \A i \in 1..n : a[i] \notin Taken(fleet)
      /\ \A i, j \in 1..n : i # j => a[i] # a[j]
  BY Zenon, BatchIsFree
<1>6. Fresh(fleet)
  BY FleetIsFresh
<1>7. ASSUME NEW x \in new PROVE x \in Ids /\ fleet.pending[x] = NoAddr
  BY Zenon DEF AddressInv, Registered
<1>8. ASSUME NEW x \in Ids, NEW y \in Ids, x # y, g.pending[x] # NoAddr
      PROVE  g.pending[x] \notin AddressesOf(y) /\ g.pending[x] # g.pending[y]
  <2>1. CASE x \in new
    <3>1. g.pending[x] = a[place(x)] /\ place(x) \in 1..n /\ a[place(x)] \notin Taken(fleet)
      BY Zenon, <1>2, <1>3, <1>4, <2>1
    <3>2. g.pending[x] \notin AddressesOf(y)
      BY Zenon, <3>1, UsedIsTaken
    <3>3. CASE y \in new
      <4>0. order[place(x)] = x /\ order[place(y)] = y /\ place(y) \in 1..n /\ g.pending[y] = a[place(y)]
        BY Zenon, <1>2, <1>3, <2>1, <3>3
      <4>1. g.pending[y] = a[place(y)] /\ place(y) \in 1..n /\ place(x) # place(y)
        BY Zenon, <1>8, <4>0
      <4>. QED
        BY Zenon, <1>4, <3>1, <3>2, <4>1
    <3>4. CASE y \notin new
      <4>1. g.pending[y] = NoAddr \/ g.pending[y] \in AddressesOf(y)
        BY Zenon, <1>3, <3>4 DEF AddressesOf
      <4>. QED
        BY Zenon, <1>8, <3>2, <4>1
    <3>. QED
      BY <3>3, <3>4
  <2>2. CASE x \notin new
    <3>1. g.pending[x] = fleet.pending[x]
      BY Zenon, <1>3, <2>2
    <3>2. g.pending[x] \notin AddressesOf(y) /\ g.pending[x] # fleet.pending[y]
      BY Zenon, <1>6, <1>8, <3>1 DEF Fresh
    <3>3. CASE y \in new
      <4>1. g.pending[y] = a[place(y)] /\ a[place(y)] \notin Taken(fleet)
        BY Zenon, <1>2, <1>3, <1>4, <3>3
      <4>2. g.pending[x] \in Taken(fleet)
        BY Zenon, <1>8, <3>1 DEF Taken, Pending
      <4>. QED
        BY Zenon, <3>2, <4>1, <4>2
    <3>4. CASE y \notin new
      BY Zenon, <1>3, <3>2, <3>4
    <3>. QED
      BY <3>3, <3>4
  <2>. QED
    BY <2>1, <2>2
<1>9. \A x \in Ids : /\ g.pending[x] # NoAddr => x \in g.created
                     /\ fleet.pending[x] # NoAddr => g.pending[x] = fleet.pending[x]
  BY Zenon, <1>3, <1>6, <1>7 DEF Fresh
<1>10. \A x, y \in Ids : x # y /\ g.pending[x] # NoAddr => g.pending[x] \notin AddressesOf(y) \cup {g.pending[y]}
  BY Zenon, <1>8
<1>11. fleet.created \subseteq g.created
  BY Zenon, <1>3
<1>12. Fresh(g)
  BY Zenon, <1>9, <1>10, <1>11 DEF Fresh
<1>. QED
  BY Zenon, <1>12 DEF g

\* The admission: what it adds is fresh if the fleet has not been written since.
LEMMA AddressAdmit ==
  ASSUME AddressInv, NEW o \in Operators, Admit(o)
  PROVE  AddressInv'
<1>1. HandlerTypes /\ HandlerInv(o)
  BY Zenon DEF AddressInv
<1>2. pc[o] = "list" /\ pc' = [pc EXCEPT ![o] = "save"] /\ UNCHANGED <<fleet, record, vm, current, job>>
  BY Zenon DEF Admit, Goto
<1>3. PICK new \in SUBSET (Ids \ f[o].created) : \E addresses \in Assigned(Taken(f[o]), Cardinality(new)) :
         IF \E i \in 1..Cardinality(new) : addresses[i] = NoAddr
         THEN UNCHANGED f
         ELSE \E order \in Bijection(1..Cardinality(new), new) :
                f' = [f EXCEPT ![o] =
                       [created |-> f[o].created \cup new,
                        pending |-> [x \in Ids |-> IF x \in new
                                                   THEN addresses[CHOOSE i \in 1..Cardinality(new) : order[i] = x]
                                                   ELSE f[o].pending[x]]]]
  BY Zenon DEF Admit
<1> DEFINE n == Cardinality(new)
<1>4. n \in Nat
  BY Zenon, FS_Subset, FS_CardinalityType, IdsAssumption
<1> HIDE DEF n
<1>5. PICK a \in Assigned(Taken(f[o]), n) :
         IF \E i \in 1..n : a[i] = NoAddr
         THEN UNCHANGED f
         ELSE \E order \in Bijection(1..n, new) :
                f' = [f EXCEPT ![o] =
                       [created |-> f[o].created \cup new,
                        pending |-> [x \in Ids |-> IF x \in new THEN a[CHOOSE i \in 1..n : order[i] = x]
                                                   ELSE f[o].pending[x]]]]
  BY Zenon, <1>3 DEF n
<1>6. CASE \E i \in 1..n : a[i] = NoAddr
  <2>1. f' = f
    BY Zenon, <1>5, <1>6
  <2>2. HandlerTypes' /\ pc'[o] = "save" /\ \A p \in Operators \ {o} : pc'[p] = pc[p]
    BY <1>1, <1>2, <2>1 DEF HandlerTypes
  <2>3. current[o] => f[o] = fleet
    BY Zenon, <1>1, <1>2 DEF HandlerInv
  <2>4. Fresh(fleet)'
    <3>1. \A x \in Ids : AddressesOf(x)' = AddressesOf(x)
      BY Zenon, <1>2 DEF AddressesOf
    <3>. QED
      BY Zenon, <1>2, <3>1, FleetIsFresh DEF Fresh
  <2>5. current'[o] => Fresh(f[o])'
    BY Zenon, <1>2, <2>1, <2>3, <2>4
  <2>6. HandlerInv(o)'
    BY <2>2, <2>5 DEF HandlerInv
  <2>. QED
    BY Zenon, <1>2, <2>1, <2>2, <2>6, HandlerStep
<1>7. CASE \A i \in 1..n : a[i] # NoAddr
  <2>1. PICK order \in Bijection(1..n, new) : f' = [f EXCEPT ![o] = Batch(f[o], new, n, a, order)]
    BY Zenon, <1>5, <1>7 DEF Batch
  <2> DEFINE g == Batch(f[o], new, n, a, order)
  <2>2. g \in FleetState
    <3>1. f[o] \in FleetState /\ new \in SUBSET Ids
      BY Zenon, <1>1 DEF HandlerTypes
    <3>. QED
      BY Zenon, <3>1, BatchIsTyped
  <2>3. current[o] => Fresh(g)
    <3>1. SUFFICES ASSUME current[o] PROVE Fresh(g)
      BY Zenon
    <3>2. f[o] = fleet
      BY Zenon, <1>1, <1>2, <3>1 DEF HandlerInv
    <3>3. new \in SUBSET (Ids \ fleet.created) /\ a \in Assigned(Taken(fleet), n)
      BY Zenon, <3>2
    <3>4. Fresh(Batch(fleet, new, n, a, order))
      BY Zenon, <1>4, <1>7, <3>3, BatchIsFresh
    <3>. QED
      BY Zenon, <3>2, <3>4
  <2>4. f' = [f EXCEPT ![o] = g]
    BY Zenon, <2>1
  <2> HIDE DEF g
  <2>5. /\ HandlerTypes' /\ pc'[o] = "save" /\ f'[o] = g
        /\ \A p \in Operators \ {o} : pc'[p] = pc[p] /\ f'[p] = f[p]
    BY <1>1, <1>2, <2>2, <2>4 DEF HandlerTypes
  <2>6. current'[o] => Fresh(f[o])'
    <3>1. \A x \in Ids : AddressesOf(x)' = AddressesOf(x)
      BY Zenon, <1>2 DEF AddressesOf
    <3>2. \A h : Fresh(h) => Fresh(h)'
      BY Zenon, <1>2, <3>1 DEF Fresh
    <3>. QED
      BY Zenon, <1>2, <2>3, <2>5, <3>2
  <2>7. HandlerInv(o)'
    BY <2>5, <2>6 DEF HandlerInv
  <2>. QED
    BY Zenon, <1>2, <2>5, <2>7, HandlerStep
<1>. QED
  BY Zenon, <1>6, <1>7

\* saveFleet: refused, or everybody else's copy is stale from now on.
LEMMA AddressSaveFleet ==
  ASSUME AddressInv, NEW o \in Operators, SaveFleet(o)
  PROVE  AddressInv'
<1>1. HandlerTypes /\ HandlerInv(o) /\ \A x \in Ids : AliveAt(x)
  BY Zenon DEF AddressInv
<1>2. /\ pc' = [pc EXCEPT ![o] = "idle"] /\ f' = [f EXCEPT ![o] = NoFleet] /\ UNCHANGED <<record, vm, job>>
      /\ pc[o] = "save" \/ (pc[o] = "migrate" /\ Pending(f[o]) = {})
  BY Zenon DEF SaveFleet, Goto
<1>3. NoFleet \in FleetState
  BY DEF NoFleet, FleetState
<1>4. /\ pc' \in [Operators -> {"idle", "list", "save", "migrate"}] /\ f' \in [Operators -> FleetState]
      /\ pc'[o] = "idle" /\ \A p \in Operators \ {o} : pc'[p] = pc[p] /\ f'[p] = f[p]
  BY <1>1, <1>2, <1>3 DEF HandlerTypes
<1>5. CASE ~current[o]
  <2>1. UNCHANGED <<fleet, current>>
    BY Zenon, <1>5 DEF SaveFleet
  <2>2. HandlerTypes'
    BY Zenon, <1>1, <1>4, <2>1 DEF HandlerTypes
  <2>3. HandlerInv(o)'
    BY <1>4 DEF HandlerInv
  <2>. QED
    BY Zenon, <1>2, <1>4, <2>1, <2>2, <2>3, HandlerStep
<1>6. CASE current[o]
  <2>1. fleet' = f[o] /\ current' = [p \in Operators |-> FALSE]
    BY Zenon, <1>6 DEF SaveFleet
  <2>2. HandlerTypes' /\ \A p \in Operators : ~current'[p]
    BY <1>1, <1>4, <2>1 DEF HandlerTypes
  <2>3. /\ fleet.created \subseteq fleet'.created
        /\ \A x \in Ids : fleet'.pending[x] # NoAddr => x \in fleet'.created
        /\ \A x \in Ids : fleet.pending[x] # NoAddr => fleet'.pending[x] = fleet.pending[x] \/ record[x].phase # "none"
        /\ \A x, y \in Ids : x # y /\ fleet'.pending[x] # NoAddr =>
              fleet'.pending[x] \notin AddressesOf(y) \cup {fleet'.pending[y]}
    <3>1. CASE pc[o] = "save"
      BY Zenon, <1>1, <1>6, <2>1, <3>1 DEF HandlerInv, Fresh
    <3>2. CASE pc[o] = "migrate" /\ Pending(f[o]) = {}
      <4>1. \A x \in Ids : fleet'.pending[x] = NoAddr
        BY Zenon, <2>1, <3>2 DEF Pending
      <4>2. fleet'.created = fleet.created
        BY Zenon, <1>1, <1>6, <2>1, <3>2 DEF HandlerInv
      <4>3. \A x \in Ids : fleet.pending[x] # NoAddr => fleet'.pending[x] = fleet.pending[x] \/ record[x].phase # "none"
        BY Zenon, <1>1, <1>6, <2>1, <3>2 DEF HandlerInv
      <4>. QED
        BY Zenon, <4>1, <4>2, <4>3
    <3>. QED
      BY Zenon, <1>2, <3>1, <3>2
  <2>4. KeyInv' /\ \A x \in Ids : AliveAt(x)'
    BY Zenon, <1>1, <1>2 DEF AddressInv, KeyInv, Shape, KeysAt, AliveAt
  <2>5. Registered'
    BY Zenon, <1>2, <2>3 DEF AddressInv, Registered
  <2>6. \A x \in Ids : \A a \in AddressesOf(x)' : a \in AddressesOf(x) \/ (a = fleet'.pending[x] /\ a # NoAddr)
    BY Zenon, <1>2 DEF AddressesOf
  <2>7. AddressesDistinct'
    <3>1. SUFFICES ASSUME NEW x \in Ids, NEW y \in Ids, x # y, NEW a, a \in AddressesOf(x)', a \in AddressesOf(y)'
                   PROVE  FALSE
      BY Zenon DEF AddressesDistinct
    <3>2. AddressesOf(x) \cap AddressesOf(y) = {}
      BY Zenon, <3>1 DEF AddressInv, AddressesDistinct
    <3>3. CASE a = fleet'.pending[x] /\ a # NoAddr
      <4>1. a \notin AddressesOf(y) /\ a # fleet'.pending[y]
        BY Zenon, <2>3, <3>1, <3>3
      <4>. QED
        BY Zenon, <2>6, <3>1, <4>1
    <3>4. CASE a \in AddressesOf(x)
      <4>1. a = fleet'.pending[y] /\ a # NoAddr
        BY Zenon, <2>6, <3>1, <3>2, <3>4
      <4>2. a \notin AddressesOf(x)
        BY Zenon, <2>3, <3>1, <4>1
      <4>. QED
        BY Zenon, <3>4, <4>2
    <3>. QED
      BY Zenon, <2>6, <3>1, <3>3, <3>4
  <2>8. ASSUME NEW p \in Operators PROVE HandlerInv(p)'
    <3>1. CASE p = o
      BY <1>4, <2>2, <3>1 DEF HandlerInv
    <3>2. CASE p # o
      <4>1. pc'[p] = pc[p] /\ f'[p] = f[p] /\ ~current'[p] /\ HandlerInv(p)
        BY Zenon, <1>4, <2>2, <3>2 DEF AddressInv
      <4>2. ASSUME pc[p] = "migrate", NEW x \in Ids, f[p].pending[x] # NoAddr
            PROVE  f[p].pending[x] = fleet'.pending[x] \/ record[x].phase # "none"
        BY Zenon, <2>3, <4>1, <4>2 DEF HandlerInv
      <4>. QED
        BY Zenon, <1>2, <4>1, <4>2 DEF HandlerInv
    <3>. QED
      BY <3>1, <3>2
  <2>. QED
    BY Zenon, <2>2, <2>4, <2>5, <2>7, <2>8 DEF AddressInv
<1>. QED
  BY <1>5, <1>6

\* A pending allocation becomes a record with the address it has in the fleet.
LEMMA AddressMigrate ==
  ASSUME AddressInv, KeyInv', NEW o \in Operators, NEW x \in Ids, Migrate(o, x)
  PROVE  AddressInv'
<1>1. HandlerTypes /\ KeyInv /\ HandlerInv(o) /\ Registered /\ \A y \in Ids : AliveAt(y)
  BY Zenon DEF AddressInv
<1>2. /\ pc[o] = "migrate" /\ f[o].pending[x] # NoAddr /\ f' = [f EXCEPT ![o].pending[x] = NoAddr]
      /\ UNCHANGED <<fleet, vm, pc, current, job>>
  BY Zenon DEF Migrate, Pending
<1>3. f[o] \in FleetState
  BY Zenon, <1>1 DEF HandlerTypes
<1>4. /\ f' \in [Operators -> FleetState] /\ f'[o].created = f[o].created /\ f'[o].pending[x] = NoAddr
      /\ \A y \in Ids \ {x} : f'[o].pending[y] = f[o].pending[y]
      /\ \A p \in Operators \ {o} : f'[p] = f[p]
  <2>1. [f[o] EXCEPT !.pending[x] = NoAddr] \in FleetState
    BY <1>3 DEF FleetState
  <2>2. f' = [f EXCEPT ![o] = [f[o] EXCEPT !.pending[x] = NoAddr]]
    BY <1>1, <1>2 DEF HandlerTypes
  <2>3. f' \in [Operators -> FleetState] /\ f'[o] = [f[o] EXCEPT !.pending[x] = NoAddr]
        /\ \A p \in Operators \ {o} : f'[p] = f[p]
    BY <1>1, <2>1, <2>2 DEF HandlerTypes
  <2>. QED
    BY <1>3, <2>3 DEF FleetState
<1>5. record'[x].phase # "none" /\ \A y \in Ids \ {x} : record'[y] = record[y]
  BY <1>1 DEF Migrate, KeyInv, Shape
<1>6. record[x].phase # "none" => record' = record
  BY Zenon DEF Migrate
<1>7. record[x].phase = "none" => /\ record'[x].phase = "Pending" /\ record'[x].addr = f[o].pending[x]
                                  /\ f[o].pending[x] = fleet.pending[x]
  <2>1. record[x].phase = "none" => record'[x].phase = "Pending" /\ record'[x].addr = f[o].pending[x]
    BY <1>1 DEF Migrate, KeyInv, Shape
  <2>. QED
    BY Zenon, <1>1, <1>2, <2>1 DEF HandlerInv
<1>8. AliveAt(x)'
  <2>1. CASE record[x].phase = "none"
    <3>1. vm[x].key = 0 /\ job[x].at \notin {"prepare", "send"} /\ ~(job[x].at # "none" /\ job[x].current)
      BY <1>1, <2>1, LivePhases DEF AliveAt
    <3>. QED
      BY Zenon, <1>2, <3>1 DEF AliveAt
  <2>2. CASE record[x].phase # "none"
    BY Zenon, <1>1, <1>2, <1>6, <2>2 DEF AliveAt
  <2>. QED
    BY <2>1, <2>2
<1>9. \A y \in Ids : AliveAt(y)'
  BY Zenon, <1>1, <1>2, <1>5, <1>8 DEF AliveAt
<1>10. ASSUME NEW y \in Ids, NEW a, a \in AddressesOf(y)' PROVE a \in AddressesOf(y)
  <2>1. CASE record'[y] = record[y]
    BY Zenon, <1>2, <1>10, <2>1 DEF AddressesOf
  <2>2. CASE y = x /\ record[x].phase = "none"
    <3>1. a = record'[x].addr \/ (a = fleet.pending[x] /\ a # NoAddr)
      BY Zenon, <1>2, <1>10, <2>2 DEF AddressesOf
    <3>2. a = fleet.pending[x] /\ a # NoAddr
      BY Zenon, <1>2, <1>7, <2>2, <3>1
    <3>. QED
      BY Zenon, <2>2, <3>2 DEF AddressesOf
  <2>. QED
    BY Zenon, <1>5, <1>6, <2>1, <2>2
<1>11. AddressesDistinct'
  BY Zenon, <1>10 DEF AddressInv, AddressesDistinct
<1>12. Registered'
  BY Zenon, <1>1, <1>2, <1>5, <1>6, <1>7 DEF Registered
<1>13. HandlerTypes'
  BY Zenon, <1>1, <1>2, <1>4 DEF HandlerTypes
<1>14. \A g : Fresh(g) => Fresh(g)'
  BY Zenon, <1>2, <1>10 DEF Fresh
<1>15. \A y \in Ids : record[y].phase # "none" => record'[y].phase # "none"
  BY Zenon, <1>5
<1>16. ASSUME NEW p \in Operators PROVE HandlerInv(p)'
  <2>1. CASE p = o
    <3>1. pc'[o] = "migrate" /\ current'[o] = current[o]
      BY Zenon, <1>2
    <3>2. ASSUME NEW y \in Ids, f'[o].pending[y] # NoAddr
          PROVE  f'[o].pending[y] = fleet'.pending[y] \/ record'[y].phase # "none"
      BY Zenon, <1>1, <1>2, <1>4, <1>15, <3>2 DEF HandlerInv
    <3>3. ASSUME current[o] PROVE f'[o].created = fleet'.created
      BY Zenon, <1>1, <1>2, <1>4, <3>3 DEF HandlerInv
    <3>4. ASSUME current[o], NEW y \in Ids, fleet'.pending[y] # NoAddr
          PROVE  f'[o].pending[y] = fleet'.pending[y] \/ record'[y].phase # "none"
      <4>1. fleet.pending[y] # NoAddr /\ fleet'.pending[y] = fleet.pending[y]
        BY Zenon, <1>2, <3>4
      <4>2. f[o].pending[y] = fleet.pending[y] \/ record[y].phase # "none"
        BY Zenon, <1>1, <1>2, <3>4, <4>1 DEF HandlerInv
      <4>. QED
        BY Zenon, <1>4, <1>5, <1>15, <4>1, <4>2
    <3>5. "migrate" # "list" /\ "migrate" # "save"
      OBVIOUS
    <3>. QED
      BY Zenon, <2>1, <3>1, <3>2, <3>3, <3>4, <3>5 DEF HandlerInv
  <2>2. CASE p # o
    <3>1. HandlerInv(p) /\ f'[p] = f[p] /\ pc'[p] = pc[p] /\ current'[p] = current[p]
      BY Zenon, <1>2, <1>4, <2>2 DEF AddressInv
    <3>2. current'[p] /\ pc'[p] = "save" => Fresh(f[p])'
      BY Zenon, <1>14, <3>1 DEF HandlerInv
    <3>. QED
      BY Zenon, <1>2, <1>15, <3>1, <3>2 DEF HandlerInv
  <2>. QED
    BY <2>1, <2>2
<1>. QED
  BY Zenon, <1>9, <1>11, <1>12, <1>13, <1>16 DEF AddressInv

\* Initially nothing is created.
LEMMA AddressInit == Init => AddressInv
<1>1. SUFFICES ASSUME Init PROVE AddressInv
  OBVIOUS
<1>2. /\ fleet = NoFleet /\ vm = [x \in Ids |-> NoVM] /\ job = [x \in Ids |-> NoJob]
      /\ record = [x \in Ids |-> [phase |-> "none", addr |-> NoAddr, attempts |-> 0, key |-> 0]]
      /\ pc = [o \in Operators |-> "idle"] /\ f = [o \in Operators |-> NoFleet]
      /\ current = [o \in Operators |-> FALSE]
  BY Zenon, <1>1 DEF Init
<1>3. NoFleet \in FleetState /\ \A x \in Ids : NoFleet.pending[x] = NoAddr
  BY DEF NoFleet, FleetState
<1>4. \A x \in Ids : record[x].phase = "none" /\ vm[x].key = 0 /\ job[x].at = "none"
  BY <1>2 DEF NoVM, NoJob
<1>5. HandlerTypes
  BY <1>2, <1>3 DEF HandlerTypes
<1>6. \A x \in Ids : AliveAt(x) /\ AddressesOf(x) = {}
  BY <1>2, <1>3, <1>4, LivePhases DEF AliveAt, AddressesOf
<1>7. AddressesDistinct /\ Registered
  BY Zenon, <1>2, <1>3, <1>4, <1>6 DEF AddressesDistinct, Registered
<1>8. \A o \in Operators : HandlerInv(o)
  BY <1>2 DEF HandlerInv
<1>. QED
  BY Zenon, <1>1, <1>5, <1>6, <1>7, <1>8, KeyInit DEF AddressInv

\* Every step of the controllers, the clouds and the agents.
LEMMA AddressNext ==
  ASSUME CallsAreAwaited
  PROVE  AddressInv /\ [Next]_vars => AddressInv'
<1>1. SUFFICES ASSUME AddressInv, [Next]_vars PROVE AddressInv'
  OBVIOUS
<1>2. KeyInv /\ KeyInv' /\ \A x \in Ids : AliveAt(x)
  BY Zenon, <1>1, KeyNext DEF AddressInv
<1>3. ASSUME NEW o \in Operators, Controller(o) PROVE AddressInv'
  <2>1. "list" \in {"list", "migrate"} /\ "migrate" \in {"list", "migrate"}
    OBVIOUS
  <2>. QED
    BY Zenon, <1>1, <1>2, <1>3, <2>1, AddressLoad, AddressAdmit, AddressSaveFleet, AddressMigrate, AddressStep
       DEF Controller
<1>4. ASSUME NEW x \in Ids, VMEnds(x) PROVE AddressInv'
  <2>1. vm' = [vm EXCEPT ![x] = NoVM] /\ UNCHANGED <<fleet, record, pc, f, current, job>>
    BY Zenon, <1>4 DEF VMEnds, handler
  <2>2. \A y \in Ids : vm'[y].key # 0 => vm[y].key # 0
    BY <1>2, <2>1 DEF KeyInv, Shape, NoVM
  <2>3. \A y \in Ids : AliveAt(y)'
    BY Zenon, <1>2, <2>1, <2>2 DEF AliveAt
  <2>. QED
    BY Zenon, <1>1, <1>2, <2>1, <2>3, HandlersRest
<1>5. ASSUME UNCHANGED <<fleet, record, vm, pc, f, current, job>> PROVE AddressInv'
  <2>1. \A y \in Ids : AliveAt(y)'
    BY Zenon, <1>2, <1>5 DEF AliveAt
  <2>. QED
    BY Zenon, <1>1, <1>2, <1>5, <2>1, HandlersRest
<1>6. ASSUME NEW x \in Agents, NEW failed, Boot(x) \/ Restart(x) \/ Poll(x) \/ Reconcile(x, failed) PROVE AddressInv'
  <2>1. UNCHANGED <<fleet, record, vm, pc, f, current, job>>
    BY Zenon, <1>6 DEF Boot, Restart, BringUp, Poll, Reconcile, handler
  <2>. QED
    BY <1>5, <2>1
<1>7. CASE UNCHANGED vars
  BY Zenon, <1>5, <1>7 DEF vars
<1>. QED
  BY Zenon, <1>1, <1>2, <1>3, <1>4, <1>6, <1>7, AddressCreation, AddressCrash DEF Next, CalmNext, Faults

\* Whatever saves are refused and processes die, and whatever the CIDRs are (they
\* may even overlap), HandleDesiredRunnerCount never gives two allocations that are
\* pending, active or have a VM the same overlay address: with one leader on every
\* cloud, and with leaders that overlap where ReconcileCreation knows of a create
\* call under way, as on GCP.  On AWS and Azure a second leader may take a VM for
\* absent that the first is creating, and free its address.
THEOREM AddressesAreDistinct ==
  ASSUME CallsAreAwaited
  PROVE  Spec => []AddressesDistinct
<1>1. AddressInv => AddressesDistinct
  BY DEF AddressInv
<1>. QED
  BY <1>1, AddressInit, AddressNext, PTL DEF Spec
=============================================================================
