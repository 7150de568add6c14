------------------------------ MODULE Overlay ------------------------------
(***************************************************************************)
(* The WireGuard overlay of one NetworkProfile, from the controller to the *)
(* runner VMs.  The admission of internal/operator gives an allocation its *)
(* overlay address; provider.Command.CreateWithResources mints its key and *)
(* embeds the peers of the moment in the VM's payload; Controller.Step     *)
(* checkpoints the public key with the receipt; the agent on each VM polls *)
(* WireGuardPeersHandler of internal/health and reconfigures its tunnel.   *)
(*                                                                         *)
(* Two operators overlap when a leader outlives its Lease.  How many       *)
(* allocations an admission may add is Fleet's subject and is free here.   *)
(* What a process that died had sent has reached the cloud or never will:  *)
(* a create call that arrives later is Lifecycle's subject.                *)
(***************************************************************************)
EXTENDS Naturals, Sequences, FiniteSets, FiniteSetsExt, Functions

CONSTANTS
    Operators,      \* processes that may hold, or believe they hold, the Lease
    Ids,            \* the allocation IDs uuid.NewString will produce
    Agents,         \* bound: the allocations whose VM-side agent is followed
    Cidrs,          \* Config.NetworkOverlayCIDRs: first address and host bits of each
    MaxAttempts,    \* Allocation.MaxAttempts
    CreateProven    \* the cloud gives no answer before a create call has ended: GCP

ASSUME IdsAssumption == IsFiniteSet(Ids)
ASSUME AgentsAssumption == Agents \subseteq Ids
ASSUME CidrsAssumption ==
    /\ \A i \in 1..Len(Cidrs) : Cidrs[i].base \in Nat /\ Cidrs[i].hostBits \in Nat
    /\ \A i \in 1..Len(Cidrs) : Cidrs[i].base % 2^Cidrs[i].hostBits = 0
ASSUME AttemptsAssumption == MaxAttempts \in 1..10
ASSUME ProvenAssumption == CreateProven \in BOOLEAN

VARIABLES
    fleet,      \* the fleet ConfigMap: the IDs ever created, the addresses of pending ones
    record,     \* record[x]: the ConfigMap of allocation x, phase "none" without one
    vm,         \* vm[x]: the key and the peers in the payload of x's VM, key 0 without a VM
    pc,         \* pc[o]: what o's admission or migration does next
    f,          \* f[o]: the fleet value inside o's handler
    current,    \* current[o]: the fleet was not written since o read it
    job,        \* job[x]: the create call in progress for x
    agent       \* agent[x]: the agent on x's VM

vars    == <<fleet, record, vm, pc, f, current, job, agent>>
handler == <<pc, f, current>>

-----------------------------------------------------------------------------
(* Addresses and identities *)

\* lastAddr: all host bits set.
Last(c) == c.base + 2^c.hostBits - 1

\* The network address and the highest address are never handed out.
Hosts(c)  == (c.base + 1)..(Last(c) - 1)
Addresses == UNION {Hosts(Cidrs[i]) : i \in 1..Len(Cidrs)}
NoAddr    == 1000000

\* NextOverlayAddress: the lowest free host of the first CIDR that has one.
NextOverlayAddress(taken) ==
    IF Addresses \subseteq taken
    THEN NoAddr
    ELSE LET first == Min({i \in 1..Len(Cidrs) : ~ Hosts(Cidrs[i]) \subseteq taken})
         IN  Min(Hosts(Cidrs[first]) \ taken)

\* A key pair is named by its allocation and the attempt that minted it.
Keys  == Ids \X (1..MaxAttempts)
NoKey == <<>>

Terminal == {"Deleted", "TimedOut"}
Phases   == {"none", "Pending", "Creating", "Running", "Deleting"} \cup Terminal
Live     == Phases \ ({"none"} \cup Terminal)

FleetState == [created: SUBSET Ids, pending: [Ids -> Addresses \cup {NoAddr}]]

\* Type invariant: every variable keeps its shape.
TypeOK ==
    /\ fleet \in FleetState
    /\ record \in [Ids -> [phase: Phases, addr: Addresses \cup {NoAddr}, attempts: 0..MaxAttempts, key: 0..MaxAttempts]]
    /\ vm \in [Ids -> [key: 0..MaxAttempts, peers: SUBSET Keys]]
    /\ pc \in [Operators -> {"idle", "list", "save", "migrate"}]
    /\ f \in [Operators -> FleetState] /\ current \in [Operators -> BOOLEAN]
    /\ job \in [Ids -> [op: Operators \cup {"none"}, at: {"none", "prepare", "send", "receive"},
                        peers: SUBSET Keys, current: BOOLEAN]]
    /\ agent \in [Agents -> [up: BOOLEAN, current: SUBSET Keys, route: [Addresses -> Keys \cup {NoKey}],
                             polled: BOOLEAN, answer: SUBSET Keys]]

NoFleet == [created |-> {}, pending |-> [x \in Ids |-> NoAddr]]
NoVM    == [key |-> 0, peers |-> {}]
NoJob   == [op |-> "none", at |-> "none", peers |-> {}, current |-> FALSE]
NoRoute == [a \in Addresses |-> NoKey]
NoAgent == [up |-> FALSE, current |-> {}, route |-> NoRoute, polled |-> FALSE, answer |-> {}]

Init ==
    /\ fleet = NoFleet
    /\ record = [x \in Ids |-> [phase |-> "none", addr |-> NoAddr, attempts |-> 0, key |-> 0]]
    /\ vm = [x \in Ids |-> NoVM]
    /\ pc = [o \in Operators |-> "idle"] /\ f = [o \in Operators |-> NoFleet]
    /\ current = [o \in Operators |-> FALSE]
    /\ job = [x \in Ids |-> NoJob]
    /\ agent = [x \in Agents |-> NoAgent]

Goto(o, label) == pc' = [pc EXCEPT ![o] = label]
Ticking(o)     == \E x \in Ids : job[x].op = o
Pending(g)     == {x \in Ids : g.pending[x] # NoAddr}

\* wireguard.Snapshot: the other Running allocations that have an identity.
Snapshot(x) == {<<y, record[y].key>> : y \in {z \in Ids \ {x} : record[z].phase = "Running" /\ record[z].key # 0}}

-----------------------------------------------------------------------------
(* HandleDesiredRunnerCount: an address for every new allocation *)

\* o.mu: one handler at a time, and none while a Tick of o is stepping.
Load(o, label) ==
    /\ pc[o] = "idle" /\ ~Ticking(o)
    /\ f' = [f EXCEPT ![o] = fleet]
    /\ current' = [current EXCEPT ![o] = TRUE]
    /\ Goto(o, label)
    /\ UNCHANGED <<fleet, record, vm, job, agent>>

\* overlayTaken: every active allocation listed, and every pending one.
Taken(g) ==
    {record[x].addr : x \in {y \in Ids : record[y].phase \in Live}} \cup {g.pending[x] : x \in Pending(g)}

\* The i-th new address is chosen with the earlier ones taken.
Assigned(taken, n) ==
    {a \in [1..n -> Addresses \cup {NoAddr}] :
        \A i \in 1..n : a[i] = NextOverlayAddress(taken \cup {a[j] : j \in 1..(i - 1)})}

\* The records are listed after the fleet is loaded.  A batch the pool cannot
\* serve is refused whole; the fleet is saved all the same.  (A pass that admits
\* nothing writes back what it read: another operator's save may then be refused,
\* which is to it like a Crash.)
Admit(o) ==
    /\ pc[o] = "list"
    /\ \E new \in SUBSET (Ids \ f[o].created) :
          LET n == Cardinality(new)
          IN  /\ n > 0
              /\ \E addresses \in Assigned(Taken(f[o]), n) :
                    IF \E i \in 1..n : addresses[i] = NoAddr
                    THEN UNCHANGED f
                    ELSE \E order \in Bijection(1..n, new) :
                            f' = [f EXCEPT ![o] =
                                   [created |-> @.created \cup new,
                                    pending |-> [x \in Ids |-> IF x \in new
                                                               THEN addresses[CHOOSE i \in 1..n : order[i] = x]
                                                               ELSE @.pending[x]]]]
    /\ Goto(o, "save")
    /\ UNCHANGED <<fleet, record, vm, current, job, agent>>

\* The fleet is written whatever its revision.
SaveFleetBlind(o) ==
    /\ pc[o] = "save" \/ (pc[o] = "migrate" /\ Pending(f[o]) = {})
    /\ fleet' = f[o] /\ current' = [p \in Operators |-> FALSE]
    /\ Goto(o, "idle")
    /\ f' = [f EXCEPT ![o] = NoFleet]
    /\ UNCHANGED <<record, vm, job, agent>>

\* saveFleet: refused when the fleet was written since it was read.
SaveFleet(o) ==
    /\ pc[o] = "save" \/ (pc[o] = "migrate" /\ Pending(f[o]) = {})
    /\ IF current[o]
       THEN fleet' = f[o] /\ current' = [p \in Operators |-> FALSE]
       ELSE UNCHANGED <<fleet, current>>
    /\ Goto(o, "idle")
    /\ f' = [f EXCEPT ![o] = NoFleet]
    /\ UNCHANGED <<record, vm, job, agent>>

\* Tick turns each pending allocation into a record, unless one exists.
Migrate(o, x) ==
    /\ pc[o] = "migrate" /\ x \in Pending(f[o])
    /\ IF record[x].phase = "none"
       THEN record' = [record EXCEPT ![x].phase = "Pending", ![x].addr = f[o].pending[x]]
       ELSE UNCHANGED record
    /\ f' = [f EXCEPT ![o].pending[x] = NoAddr]
    /\ UNCHANGED <<fleet, vm, pc, current, job, agent>>

-----------------------------------------------------------------------------
(* Controller.Step and CreateWithResources *)

\* A Save with the revision just read; a create call in progress then holds an
\* old one.
Write(x, r) ==
    /\ record' = [record EXCEPT ![x] = r]
    /\ job' = [job EXCEPT ![x].current = FALSE]

\* Each allocation is stepped once per Tick, by one goroutine.
Steps(o, x) == pc[o] = "idle" /\ job[x].op # o

\* Pending: out of time or of attempts.
TimeOut(o, x) ==
    /\ Steps(o, x) /\ record[x].phase = "Pending"
    /\ Write(x, [record[x] EXCEPT !.phase = "TimedOut"])
    /\ UNCHANGED <<fleet, vm, handler, agent>>

\* Pending: the commitment is saved before the provider is called.
StartCreate(o, x) ==
    /\ Steps(o, x) /\ record[x].phase = "Pending" /\ record[x].attempts < MaxAttempts
    /\ job[x].op = "none"
    /\ record' = [record EXCEPT ![x].phase = "Creating", ![x].attempts = @ + 1]
    /\ job' = [job EXCEPT ![x] = [op |-> o, at |-> "prepare", peers |-> {}, current |-> TRUE]]
    /\ UNCHANGED <<fleet, vm, handler, agent>>

\* Generate, GeneratePollToken and NetworkPeers: the payload is complete.  Its
\* peers matter to the agent alone, and are kept where one is followed.
Prepare(x) ==
    /\ job[x].at = "prepare"
    /\ job' = [job EXCEPT ![x].at = "send", ![x].peers = IF x \in Agents THEN Snapshot(x) ELSE {}]
    /\ UNCHANGED <<fleet, record, vm, handler, agent>>

\* The cloud creates the VM.
CreateVM(x) ==
    /\ job[x].at = "send"
    /\ vm' = [vm EXCEPT ![x] = [key |-> record[x].attempts, peers |-> job[x].peers]]
    /\ job' = [job EXCEPT ![x].at = "receive"]
    /\ UNCHANGED <<fleet, record, handler, agent>>

\* The receipt or the outcome is saved under the revision of the commitment.
Outcome(x, r) ==
    /\ record' = IF job[x].current THEN [record EXCEPT ![x] = r] ELSE record
    /\ job' = [job EXCEPT ![x] = NoJob]
    /\ UNCHANGED <<fleet, vm, handler, agent>>

\* The identity minted for an attempt is kept though the attempt had no effect.
RetryKeepsKey(x) ==
    /\ job[x].at \in {"prepare", "send"}
    /\ Outcome(x, [record[x] EXCEPT !.phase = "Pending", !.key = record[x].attempts])

\* ErrNoEffect, ErrCapacity: back to Pending, and the identity is dropped.
Retry(x) ==
    /\ job[x].at \in {"prepare", "send"}
    /\ Outcome(x, [record[x] EXCEPT !.phase = "Pending"])

\* An error that proves nothing: the commitment stays unknown.  Once the cloud
\* was called the identity is kept with it.
Unknown(x) ==
    /\ job[x].at # "none"
    /\ Outcome(x, IF job[x].at = "prepare" THEN record[x]
                  ELSE [record[x] EXCEPT !.key = record[x].attempts])

\* The receipt: the identity becomes durable together with Running.
Receive(x) ==
    /\ job[x].at = "receive"
    /\ Outcome(x, [record[x] EXCEPT !.phase = "Running", !.key = record[x].attempts])

\* Creating: ReconcileCreation finds the VM, or confirms that there is none; on
\* AWS and Azure also while the call of another operator is still on its way.
\* Found, an expired or retired one goes to cleanup.
ReconcileCreation(o, x) ==
    /\ Steps(o, x) /\ record[x].phase = "Creating"
    /\ CreateProven => job[x].at \notin {"prepare", "send"}
    /\ \E phase \in IF vm[x].key = 0 THEN {"Deleted"} ELSE {"Running", "Deleting"} :
          Write(x, [record[x] EXCEPT !.phase = phase])
    /\ UNCHANGED <<fleet, vm, handler, agent>>

\* Creating: the record is saved before the cloud is asked, and the answer may
\* be uncertain.
Touch(o, x) ==
    /\ Steps(o, x) /\ record[x].phase = "Creating"
    /\ Write(x, record[x])
    /\ UNCHANGED <<fleet, vm, handler, agent>>

\* Running: retired or expired.
Leave(o, x) ==
    /\ Steps(o, x) /\ record[x].phase = "Running"
    /\ Write(x, [record[x] EXCEPT !.phase = "Deleting"])
    /\ UNCHANGED <<fleet, vm, handler, agent>>

\* Running, Deleting: the VM is observed absent.
Confirm(o, x) ==
    /\ Steps(o, x) /\ record[x].phase \in {"Running", "Deleting"}
    /\ vm[x].key = 0
    /\ Write(x, [record[x] EXCEPT !.phase = "Deleted"])
    /\ UNCHANGED <<fleet, vm, handler, agent>>

\* A VM ends: deleted by a Step, evicted by the cloud, or shut down by itself.
VMEnds(x) ==
    /\ vm[x].key # 0
    /\ vm' = [vm EXCEPT ![x] = NoVM]
    /\ agent' = [y \in Agents |-> IF y = x THEN NoAgent ELSE agent[y]]
    /\ UNCHANGED <<fleet, record, handler, job>>

\* An operator dies: its handler and its create calls are forgotten.
Crash(o) ==
    /\ pc[o] # "idle" \/ Ticking(o)
    /\ Goto(o, "idle")
    /\ f' = [f EXCEPT ![o] = NoFleet]
    /\ current' = [current EXCEPT ![o] = FALSE]
    /\ job' = [x \in Ids |-> IF job[x].op = o THEN NoJob ELSE job[x]]
    /\ UNCHANGED <<fleet, record, vm, agent>>

-----------------------------------------------------------------------------
(* The agent on a VM *)

AddrOf(k) == record[k[1]].addr

\* tunnel.AddPeer: the address is routed to this peer, whoever had it before.
AddPeer(route, k) == [route EXCEPT ![AddrOf(k)] = k]

\* Whatever the peer's address routes to is removed with it.
RemovePeerByAddress(route, k) == [route EXCEPT ![AddrOf(k)] = NoKey]

\* tunnel.RemovePeer: only routes that are still the peer's go.
RemovePeer(route, k) == [a \in Addresses |-> IF route[a] = k THEN NoKey ELSE route[a]]

Adding(route, keys)   == FoldSet(LAMBDA k, r : AddPeer(r, k), route, keys)
Removing(route, keys) == FoldSet(LAMBDA k, r : RemovePeer(r, k), route, keys)

\* Run, up to its loop: the tunnel comes up with the peers of the payload.  A
\* restarted agent reads the same payload again.
BringUp(x) ==
    /\ vm[x].key # 0
    /\ agent' = [agent EXCEPT ![x] =
                   [NoAgent EXCEPT !.up = TRUE, !.current = vm[x].peers, !.route = Adding(NoRoute, vm[x].peers)]]
    /\ UNCHANGED <<fleet, record, vm, handler, job>>
Boot(x)    == ~agent[x].up /\ BringUp(x)
Restart(x) == agent[x].up /\ BringUp(x)

\* ServeHTTP answers a VM whose token hash is checkpointed, until the record
\* ends, with the snapshot of the moment.  Every other poll fails.
Poll(x) ==
    /\ agent[x].up /\ ~agent[x].polled
    /\ record[x].key # 0 /\ record[x].key = vm[x].key
    /\ record[x].phase \notin Terminal
    /\ agent' = [agent EXCEPT ![x].polled = TRUE, ![x].answer = Snapshot(x)]
    /\ UNCHANGED <<fleet, record, vm, handler, job>>

\* agent.Reconcile: peers that are new are added, then those that left are
\* removed; a peer for which that fails is left for the next poll.
Reconcile(x, failed) ==
    /\ agent[x].polled
    /\ LET added   == (agent[x].answer \ agent[x].current) \ failed
           removed == (agent[x].current \ agent[x].answer) \ failed
       IN  agent' = [agent EXCEPT ![x] =
                      [up |-> TRUE, current |-> (@.current \cup added) \ removed,
                       route |-> Removing(Adding(@.route, added), removed),
                       polled |-> FALSE, answer |-> {}]]
    /\ UNCHANGED <<fleet, record, vm, handler, job>>

-----------------------------------------------------------------------------

Controller(o) ==
    \/ Load(o, "list") \/ Load(o, "migrate") \/ Admit(o) \/ SaveFleet(o)
    \/ \E x \in Ids : \/ Migrate(o, x) \/ TimeOut(o, x) \/ StartCreate(o, x) \/ Touch(o, x)
                      \/ ReconcileCreation(o, x) \/ Leave(o, x) \/ Confirm(o, x)
Creation(x) == Prepare(x) \/ CreateVM(x) \/ Retry(x) \/ Unknown(x) \/ Receive(x)

CalmNext ==
    \/ \E o \in Operators : Controller(o)
    \/ \E x \in Ids : Creation(x) \/ VMEnds(x)
    \/ \E x \in Agents : Boot(x) \/ Poll(x) \/ Reconcile(x, {})

Faults ==
    \/ \E o \in Operators : Crash(o)
    \/ \E x \in Agents : \/ Restart(x)
                         \/ \E failed \in SUBSET SymDiff(agent[x].answer, agent[x].current) : Reconcile(x, failed)

Next == CalmNext \/ Faults

Spec == Init /\ [][Next]_vars

\* An agent polls at every interval.  After some time no call to its tunnel
\* fails and no process dies; that the controller works on is not assumed.
Fairness ==
    /\ <>[][Faults => CalmNext]_vars
    /\ \A x \in Agents : WF_vars(Boot(x)) /\ WF_vars(Poll(x)) /\ WF_vars(Reconcile(x, {}))

FairSpec == Spec /\ Fairness

-----------------------------------------------------------------------------
(* Properties *)

AddressesOf(x) ==
    (IF record[x].phase \in Live \/ vm[x].key # 0 THEN {record[x].addr} ELSE {})
    \cup ({fleet.pending[x]} \ {NoAddr})

\* No two allocations that are pending, active or still have a VM share an
\* overlay address, whatever saves conflict or processes die and, where create
\* calls are proven, whatever leaders overlap: HandleDesiredRunnerCount, saveFleet
\* and Step.
AddressesDistinct ==
    \A x, y \in Ids : x # y => AddressesOf(x) \cap AddressesOf(y) = {}

\* The public key a record holds is the one in the payload of the allocation's
\* VM: no peer is ever given a key nobody has the private half of.
IdentityMatches ==
    \A x \in Ids : record[x].key # 0 /\ vm[x].key # 0 => record[x].key = vm[x].key

Recognised(x) == agent[x].up /\ record[x].phase = "Running" /\ record[x].key # 0

\* The routes of x's tunnel are those of the peers it should have.
Converged(x) ==
    \A a \in Addresses :
        agent[x].route[a] = IF \E k \in Snapshot(x) : AddrOf(k) = a
                            THEN CHOOSE k \in Snapshot(x) : AddrOf(k) = a
                            ELSE NoKey

\* Every agent the controller recognises ends up routing the addresses of the
\* Running peers to exactly their keys, through joins, departures and the reuse
\* of an address: Snapshot, ServeHTTP, Poll, Reconcile, AddPeer, RemovePeer.
TunnelsConverge == \A x \in Agents : <>[]Recognised(x) => <>[]Converged(x)

\* "a controller restart recovers the peer's public identity the same way it
\* recovers cloud resource identities": a Running allocation has one.
RestartRecoversIdentity ==
    \A x \in Ids : record[x].phase = "Running" => record[x].key # 0

=============================================================================
