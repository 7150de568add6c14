# RunnerScout: TLA+ specifications

RunnerScout is a Kubernetes controller that turns the job demand of a GitHub
runner scale set into one cloud VM per job, on AWS, Azure or GCP, and removes
each VM when its job is over. Two things make it hard. A create or delete sent
to a cloud may take effect without an answer. And the controller may stop
between any two writes, or overlap with its successor when it outlives its
Lease. Everything durable lives in ConfigMaps, written with a compare-and-swap
on their `resourceVersion`.

## The system

| Part | Source | What it does | Where modelled |
|---|---|---|---|
| lifecycle controller | `internal/lifecycle` | `Step`: one move of one allocation record | `Lifecycle`, `AllocationContract` |
| allocation store | `internal/state` | one ConfigMap per allocation | `Lifecycle`, `Fleet` |
| operator, admission | `internal/operator`, `internal/admission` | demand, tick, prune, budget over the fleet ConfigMap | `Fleet`, addresses in `Overlay` |
| operator, control | `internal/operator/control.go` | pause, drain, cleanup and recovery workers | `Fleet` |
| providers | `internal/provider` | create, observe, delete per cloud | `Provider`, their answers in `Lifecycle` |
| configuration runtime | `internal/configapi` | loads the configuration, supervises the worker, checkpoint, finalizer | `Runtime` |
| interruption retries | `operator/retry.go`, `internal/recovery`, `internal/githubjobs` | bounded reruns of interrupted jobs | `Retry` |
| placement, prices | `internal/placement`, `internal/prices` | choose the offering | any admissible pool in `Lifecycle` |
| WireGuard | `internal/wireguard`, `health/wireguard_peers.go` | overlay addresses, keys, peers, VM agent | `Overlay` |
| Azure interruptions | `internal/azurequeue`, `internal/azureevents` | preemption messages | `Provider` |
| commands, API types, credentials | `cmd`, `api`, ... | wiring, declarations, file reads | not modelled |

`Tick` calls `Step` for every record under the operator's mutex; the operator
sees an allocation only through its phase. So `Lifecycle` looks at one
allocation in full detail, and `Fleet` at many allocations that move as
`AllocationContract` allows. `Lifecycle` is shown to implement the contract.
`Provider` opens up the provider calls that are single steps of `Lifecycle`, and
`Runtime` the supervisor whose starts and stops `Fleet` takes as given. `Overlay`
follows what the WireGuard fields of fleet, records and VMs do across all of it.

## Modules

**`Lifecycle`** - one allocation. `store` is the persisted record,
`local[c]` the copy inside controller `c`'s `Step`, and `current[c]` is true as
long as nobody wrote the record since `c` read it: this is all that a
`resourceVersion` tells. `pc[c]` is the next external call of `Step`: each
`Save`, create, observe, delete and deregistration is an action, and between
two of them anything else may happen. The actions `StepExpire`, `StepNoPool`,
`StepCommit`, `StepReconcile`, `StepRunning`, `StepDeleting` are `Step`'s cases
up to its first external call. `NoEffect`, `CreateSucceeds`, `CreateRejected`,
`CreateUnknown` are what it makes of a create's answer; `ObserveUnknown`,
`ObserveAbsent`, `ObserveExists` of an observation's. `Abandon` is every way a
`Step` ends early: a conflict, an error, a cancelled context, a dead process.

The clouds are `request[n]`, the create request of attempt `n`, and `live`, the
resources that exist: a VM and one dependency (`"disk"`) per attempt. `Accept`,
`Land`, `Refuse`, `Lose`, `Vanish` are external. The clouds differ in what an
empty inventory proves (`Settled`). GCP looks for a finished insert operation in
the zone (`gcpCreateTerminal`); Azure for a deployment that is terminal or
absent; AWS for nothing. `LateKinds` names the clouds where a request may take
effect after its call has returned without an answer. `stray` are the attempts
whose VM ended before the record named it: a part that such a VM leaves cannot be
tied to it (`Unbound`), and every observation of it fails. Each pool is in a zone
of its own; pools that share one are `Provider`'s subject.

**`AllocationContract`** - the promise to the rest of the system: effects only
under a persisted intent; the intent is withdrawn, and the obligation ends, only
when no resource exists and none can appear. `KeepsContract` is the refinement.

**`Fleet`** - the operator. `fleet` is its ConfigMap, `record[x]` the phase and
`Retire` flag of allocation `x` (`"Active"` stands for the contract's three
phases that may own resources). `Admit` is the decision of
`HandleDesiredRunnerCount` with release, rebaselining, budget and limit;
`Migrate`, `List`, `StepOne`, `Prune`, `DeleteOne` are the stages of `Tick`;
`Resolved` is `Drained`. A worker is a session, recovery or cleanup worker;
`Stop` ends it between any two writes. The budget counts reservations, which
are equal for all allocations of one scale set.

**`Retry`** - the reruns of one workflow run; all that is kept for them is keyed
by the run. `fleet` holds `RetriesUsedByRun` and `PendingReruns` of the run, `f`
the copy inside a pass of `processInterruptionRetries`, `record[x]` whether the
interruption of allocation `x` is open or processed. `Begin`, `Handle`,
`Reconcile`, `Original`, `Fetch`, `Post`, `Save`, `SaveFleet` are the pass, one
step per call; `Prune` is what the same `Tick` does to old records. GitHub is
`job`, `attempt`, `sent` (requests on their way that nobody waits for any more)
and `accepted`. Three history variables judge the pass: `own` counts the reruns
that GitHub carries out for this operator, `last` is the attempt that the last of
them makes, and `missed` counts the requests of which the operator lost track.
It grows only where the code lets go of a request: a stop or a failed save of the
fleet takes what the pass alone knew (`Unsaved`) and a request that is being sent;
a server error is taken for a rejection; a pending rerun is given up while it is
on its way or done (`Alive`). `MaxMissed` bounds those faults. One leader makes the
passes; a second one is not modelled here.

**`Runtime`** - the supervisor of one scale set name. `root`, `live`, `ckpt` are
the scale set, its dependencies and Secrets, and the checkpoint in the API; users
change them between any two steps (`Users`), and the checkpoint may be lost or
corrupted (`LoseCheckpoint`). `pc`
is the next API call of `Reconcile`, `line` the next one of `Load`; `obs`,
`saved` and `got` are what the earlier calls read. A `resourceVersion` is
`stale`: the objects written since they were read. Steps with the argument
`FALSE` are calls that fail. `worker` is `Runtime.worker`; what it does beside
`Reconcile` (`WorkerReady`, `WorkerAdmits`, `WorkerResolves`, `SessionEnds`,
`CleanupEnds`) is reduced to `held`, the scale sets with unresolved allocations.
`Leave` is the loss of the Lease. Dependencies are one object and Secrets
another: that is enough for a torn read.

**`Provider`** - one allocation on one cloud (`kind`, chosen at the start), with
every API call of `Create`, `Observe`, `ReconcileCreation` and `Delete` a step.
`cloud[p]` is the state of the VM, its disk and its interface, `jobs` the insert
operations, deployments or launches by the identity the code gives them
(`RequestKey`), `inv` the inventory that is being read part by part, `rec` the
record. `deletes` are the delete operations of GCP, whose request identities
outlive them. Between two calls the cloud provisions, detaches, removes, evicts, and
fails deletions it had accepted. The interruption queue of Azure is
`Annotate`, the poll of a `Tick`, and the snapshot that the observation of that
`Tick` reads; on AWS and GCP the evidence is read from the cloud. Offerings are
spot ones; `Zone[n]` is the zone of attempt `n`, and attempts may share one.

**`Overlay`** - the overlay network of one scale set. `fleet.pending` and
`record[x].addr` carry the addresses, `vm[x]` is what the payload of a VM holds,
`record[x].key` the public key as persisted with the create receipt. `Admit`
gives each new allocation the next free host of `Cidrs`; `SaveFleet` is a
compare-and-swap, and `job[x]` a create call whose receipt is saved or lost;
`Confirm` is the observation that ends an allocation. `CreateProven` says that
`ReconcileCreation` gets no answer while a create call of another operator is under
way, as on GCP; on AWS and Azure it may get one. An agent (`Boot`, `Poll`,
`Reconcile`, `Restart`) keeps `current`, its map of peers, and `route`, what its
tunnel does with an address. Tunnel calls may fail one by one.

**`MCLifecycle`**, **`MCFleet`**, **`MCProvider`**, **`MCOverlay`** give constants
for TLC; `Retry` and `Runtime` are their own instances.
**`LifecycleProofs`**, **`LifecycleCloudProofs`**, **`FleetProofs`**,
**`RetryProofs`**, **`RuntimeProofs`**, **`RuntimeConfigProofs`**,
**`ProviderProofs`** and **`OverlayProofs`** hold the proofs.

## What is checked

| Run | Instance | Shows |
|---|---|---|
| `LifecycleLeaders` | 2 controllers, 2 GCP zones, 2 attempts; 461,759 states | `NoOrphan`, `OneAttemptAtATime`, `TerminalDeregistered`, `NothingForgotten`, `NoStaleDecision`, `KeepsContract`, `TypeOK` with overlapping leaders |
| `LifecycleClouds` | 1 controller, AWS + 2 Azure zones + GCP, 2 attempts, fairness; 89,053 states | `NoOrphan`, `RetiredIsReleased`, `ExpiredIsReleased` across clouds and crashes |
| `FleetLeaders` | 2 operators, 2 allocations, `MaxRunners` 1; 1,066,595 states | `CapacityBound`, `SlotAccounting`, `NothingLost`, `TypeOK` with overlapping leaders |
| `FleetRestarts` | 1 operator, 2 allocations, `MaxRunners` 2, budget 1, two days, fairness; 131,468 states | `WithinBudget`, `DrainedIsFinal`, `DrainCompletes` in every worker mode |
| `RetryAmbiguous` | 3 allocations, 1 job, 2 retries, 3 polls, up to 2 requests on their way; 173,956 states | `RetriesBounded`, `NoneMissed`, `PendingIsRevisited` when answers are lost and others rerun the run |
| `RetryFaults` | 3 allocations, 2 jobs, 2 retries, 2 polls, 1 request lost track of, fairness; 229,657 states | `NoRetryWasted`, `RerunsAccounted`, `InterruptionIsClosed` with stops, failed writes, server errors and pruning anywhere |
| `Runtime` | 2 scale sets of a name, 2 edits, 1 damaged checkpoint, fairness; 307,691 states | `LoadedTogether`, `Protected`, `WorkerFollowsCheckpoint`, `KeepsUserEdits`, `ReadyIsEarned`, `DeletionCompletes`, `ConfigurationRuns` |
| `Provider` | each cloud, 3 attempts in 2 zones, fairness; 176,837 states | `AbsenceIsReal`, `RefusalIsOwn`, `VMGoesFirst`, `DiskIsTagged`, `InterruptionIsOwn`, `CreationSettles`, `DeletionEnds` |
| `OverlayLeaders` | 2 operators, 2 allocations, 2 attempts, GCP; 382,860 states | `AddressesDistinct`, `IdentityMatches` with overlapping leaders |
| `OverlayAgents` | 1 operator, 3 allocations, 1 agent, fairness; 441,754 states | `TunnelsConverge` while addresses are reused |

Two controllers are enough to overlap; a third would only be one more reader of
a stale revision. Two attempts separate an attempt from its predecessor, and two
zones let the second attempt move; the operator's value is three, and the proofs
are for any number. In `Fleet`, one allocation more than
`MaxRunners` makes the bound matter, and two days make records old enough to be
pruned. Allocation IDs are symmetric where the property is not temporal. In
`Retry`, three allocations run the first attempt and the reruns that two retries
allow, and `MaxAttempt` is never reached before the allocations are used up.
`Delay` bounds the passes that GitHub needs to carry out and show a rerun. It is
smaller than `Polls`, as the comment on `rerunReconciliationPolls` assumes.
In `Runtime`, two edits tear a `Load` between its two rechecks and undo the
change again, and two scale sets of a name tell a replacement from its
predecessor. In `Provider`, the second attempt meets what is left of the first,
in its zone, and the third is in another.
In `Overlay`, the first CIDR has no host and the second two, one less than the
allocations of `OverlayAgents`, so that an address has a second owner.

`TypeOK` is listed for `Lifecycle` and `Fleet`, where counters and attempts could
leave their range; in the other modules it documents the shape of the state.

Each property fails under the defect named beside it in `PROJECT.json`
("mutants"): the definitions such as `SaveBlind` or `PruneDeleteFirst` that
stand before the ones they damage, and that no specification uses.

### Disagreements between code and documentation

| Run | The text | What happens |
|---|---|---|
| `LifecycleLateAWS` | lifecycle.go:439, an absent create "provably never existed, so there is nothing to clean up" | AWS has no commitment check: a `RunInstances` call that times out may land after the record is Deleted |
| `OverlayIdentity` | networking-peer-model.md:86, "so a controller restart recovers the peer's public identity" | key and token hash are saved with the create receipt (lifecycle.go:372); after a stop before that save, `ReconcileCreation` makes the record Running without them, the VM is in no snapshot and its polls are refused |

The first depends on how EC2 treats a request whose client went away:
`LateKinds = {"aws"}` assumes that it may still be carried out. The passing runs
and the proofs exclude it, and say so by their constants: `LateKinds = {"gcp"}` of
`LifecycleClouds` excludes it, and with it a deployment of Azure that arrives
after its call has returned.

Overlapping leaders are checked and proved on GCP pools only. On AWS and Azure a
second leader may find a create absent while the call of the first is still under
way (lifecycle.go:408-452), and end the record: what `NoOrphan` and
`AddressesDistinct` exclude then happens. TLC finds it in `Lifecycle` with two
controllers and one AWS or Azure pool, and in `Overlay` with two operators and
`CreateProven = FALSE`.

`NoneMissed` and `PendingIsRevisited` are checked without stops, server errors and
pruning. Any of these breaks one of them: a stop loses a request that was sent, and
a pruned record takes the way back to its pending rerun with it. `NoneMissed` also
needs `Delay < Polls`, else an accepted rerun is given up before GitHub shows it,
and one job per attempt: with two, both are polled for in one pass, so that the
polls run out twice as fast.

Read in the code while modelling, without a run of their own:

* lifecycle.go:442 releases an absent create "instead of parking it here forever";
  with no insert operation and no recorded identity GCP answers unknown forever
  (gcp_sdk.go:154), and the leftovers of a VM that was never recorded fail every
  observation on AWS (aws_inventory.go:232) and Azure (azure_binding.go:117).
  `Parked` names these three in `Lifecycle` and `Provider`.
* operator.go:434 says that TimedOut "releases the same way"; such a record can be
  pruned (operator.go:956) before an admission pass releases its slot.
  `SlotAccounting` allows that slot.
* operations.md:52 stops admission at 1,000 *retained* allocations; the limit
  (operator.go:504) counts all that were ever created.
* architecture.md:66 promises bounded fresh retries; the retry is counted by a
  write at the end of the pass (retry.go:213), and a stop before it lets the run
  be rerun once more.
* operations.md:139 says that a missing checkpoint blocks adoption; one that
  disappears after `Reconcile` has read it is written anew by `Save`, also for a
  changed binding. `WorkerFollowsCheckpoint` is therefore about checkpoints that
  nobody else touches.
* azure-interruption-delivery.md:10 says that Azure interruption retries work end
  to end. A message is deleted by the poll that classifies it
  (azurequeue.go:103), and its verdict is used in that `Tick` only: if the VM is
  not yet absent, or the observation fails, or the message comes after the
  absence was recorded, the interruption is never reported.
* `gcpConfirmedPreemption` (gcp_sdk.go:332) takes a failed listing of operations
  for "not interrupted".
* A capacity refusal of Azure leaves the interface that its deployment made
  first, so that it is not `ErrCapacity`. The deployment's name then stays taken:
  a second Azure attempt of the allocation fails and is reconciled to Deleted.
* architecture.md:16 says that the fallback to on-demand "requires definitive
  capacity rejection from every eligible spot pool". Two GCP offerings of one zone
  share a create request ID (gcp_sdk.go:243), and placement excludes offerings,
  not zones (placement.go:145): the second is closed by the refusal that GCP
  remembers of the first, and is never asked. `RefusalIsOwn` names this case
  (`OwnRefusal`) and excludes every other. The client token of AWS (aws.go:61)
  carries no attempt either; `Provider` lets EC2 forget the token of a refused
  launch, and never lets GCP forget a create request.
* A failing key generation or peer snapshot (command.go:209) has no cloud
  effect, but is no `ErrNoEffect`: the record stays Creating until it is observed.
* An agent that restarts reads the peers of its boot payload, and may route to
  peers that have gone until its next poll. `TunnelsConverge` is about the end.
* capacity-budget.md:38 sums *every* allocation admitted today; `spentToday`
  (budget.go:30) leaves out timed-out ones.
* architecture.md:36 says that unchanged demand does not rearm expired slots; the
  next pass releases the slot of a timed-out allocation (operator.go:457).
* retry.go:38 says that `NotFoundPolls` counts passes; it counts open
  interruptions of the run (retry.go:142), several in one pass.
* lifecycle.go:57 says that `RetryProcessed` marks an interruption as evaluated;
  a failed read of the jobs (retry.go:175) sets it without a verdict.
* retry.go:20 lists a 5xx answer among the outcomes that are parked;
  `RerunFailedJobs` (githubjobs.go:128) takes every status but 201 for a
  rejection. `ServerErrors` lets `Retry` do this.
* retry.go:205 says that the next pass must revisit an allocation whose rerun is
  pending; `pruneTerminalAllocations` does not look at that. `Prunes` lets
  `Retry` do this.

### Fairness

`Lifecycle`: `Tick` runs `Step` every five seconds while somebody leads, hence
weak fairness of each controller's `Step`; clouds resolve what they received.
Faults stop eventually (`<>[][CalmNext]_vars`): from some point on no `Step` is
cut short, a settled inventory is read, and a delete takes effect. Without that
nothing could be promised. `RetiredIsReleased` and `ExpiredIsReleased` name the
three exceptions above (`Parked`). `Fleet`: the same for its handlers, and `Runtime` starts
and replaces workers. The deletion of the scale set is not assumed. `Retry`:
`Tick` makes a pass every five seconds, GitHub carries out or drops what it
received; from some point on writes succeed, reads of an attempt answer, and
requests are answered. `Runtime`: `Run` calls `Reconcile` on every tick; from some
point on its calls are answered, nobody edits and the leader stays. That a worker
resolves its allocations is what `Lifecycle` and `Fleet` show, but for parked
ones: `DrainCompletes` and `DeletionCompletes` are about scale sets that have none,
and a parked allocation delays both until an operator acts. `Provider`: `Step`
calls the adapter again on every tick and the clouds get on with what they
accepted; from some point on calls are answered and deletions succeed.
`CreationSettles` names its exceptions (`Parked`), for which operations.md:122
asks for an operator. `Overlay`: only the agent is fair, it polls at every
interval; nothing is assumed of the controller but that processes stop dying
(`<>[][Faults => CalmNext]_vars`, the same as above but cheaper to evaluate).

Deadlock is not checked: a terminal record with quiet clouds is a proper end of
`Lifecycle`, a drained scale set of `Fleet`, a finished run of `Retry`, a settled
allocation of `Provider` and of `Overlay`. It is checked in `Runtime`, whose loop
never ends.

## What is proved

TLAPS proves, for every value of the constants (controllers, pools, attempts,
jobs, scale sets, edits, allocations):

* `LifecycleProofs`: `TypeCorrect`, `NothingIsForgotten`, `NoDecisionIsStale`,
  from the assumptions on the constants alone. The inductive invariant `CopyInv`
  relates each controller's copy to the store: as long as `current[c]` holds,
  `local[c]` agrees with the store except for what `Step` changed since it read
  it, and this depends on `pc[c]`. The properties alone are not inductive, since
  nothing in them says what a pending `Save` is about to write.
* `LifecycleCloudProofs`: `NothingIsOrphaned`, `AttemptsAreSequential`,
  `TerminalIsDeregistered`, `ContractIsKept`, under `Committed`: all pools are
  GCP's, or only GCP may be late and there is one controller. The invariant
  `CloudInv` adds what the clouds hold at each label: the outstanding request is
  the current attempt's, only the holder of the latest revision can have sent
  it, and an absence read by a controller stays true until its `Save` fails or
  succeeds. `TerminalIsDeregistered` also needs every controller to have a
  GitHub client; recovery and cleanup workers do not.
* `FleetProofs`: `FleetTyped`, `NoAllocationIsLost`, `CapacityIsBounded`,
  `SlotsAreAccounted`, `BudgetIsKept`, for any number of operators, days and
  allocations, as long as the allocations are finitely many (`IdsAssumption`, so
  that they can be counted). The properties speak of the ConfigMap; what is
  inductive is that every fleet value somebody could still save is as good.
  `FleetInv` therefore says `Sound` of the ConfigMap and of every copy whose
  revision is current (`CopiesSound`): where each allocation is (`Placed`), when it
  was created (`Dated`), and the three counts. A copy also forgets nothing that the
  ConfigMap has (`Follows`), and `Relies` says what each stage of a `Tick` may take
  for granted even with a stale copy: it migrates only what was admitted, steps
  only what is no longer pending and deletes only what is marked as pruned.
  One family of lemmas says which changes of records and fleet keep a value
  `Sound`; it serves the ConfigMap and all copies.
  `DrainIsFinal` is for a Lease with one holder (`Alone`): a second leader may
  still admit from a session of its own while the first finds the fleet drained,
  as TLC shows at once with two operators and all worker modes.
* `RetryProofs`: `NoRetryIsWasted`, from the assumptions on the constants alone,
  so with stops, server errors and pruning. The invariant `CountInv` says that the
  fleet and the copy inside a pass both count no more than GitHub has or has
  accepted; the copy is needed because `SaveFleet` writes it back, and it stays
  true while GitHub moves on because attempts only grow.
  `RetriesAreBounded` and `RerunsAreAccounted`, from the assumptions too. `LedgerInv`
  is an account: the reruns that GitHub carries out for the operator and the
  requests on their way are no more than what is known of in the copy inside a pass
  and in the ConfigMap between passes (`Held`), and what was `missed`. Both values
  stay `Budgeted`, so that counted and pending retries together keep the limit,
  also when a stop brings back the older one. A rerun that happened and is given up
  for absent is `Alive` when it happens, since each rerun of the operator makes an
  attempt of its own (`GitHubInv`).
* `RuntimeProofs`: `OwnersAreProtected`, from the bounds being natural numbers.
  `Protected` speaks of allocations that exist; what is inductive is what keeps
  new ones out. `OwnerInv` says that a session that can admit has its scale set
  in the API behind the finalizer, and that a scale set whose cleanup is complete
  is deleted or gone, owns nothing and is served by nobody (`Between`). It adds
  what each label may rely on, from the checkpoint to the session (`Accepting`)
  and from the cleanup to the removal of the finalizer (`Releasing`).
* `RuntimeConfigProofs`, on top of `OwnerInv`:
  `AcceptedWhole`, by `Together`: an object that is not stale is as it was read,
  so at the read of the Secrets the configuration is in force as a whole, or one
  of the two checks that follow fails.
  `CheckpointIsFollowed`, by `Follows`: while nobody else touches the checkpoint
  it is still the one that was read or written.
  `EditsAreKept`, from the list of all writes of the scale set (`RootWrites`).
  `ReadinessIsEarned`, by `Earned`: two reads of one generation agree on the
  specification, since generations grow with every edit and UIDs are not reused.
* `ProviderProofs`: `InterruptionsAreOwn`. `EvidenceInv` says that a preemption
  message and the snapshot of a poll exist only after the eviction they tell of;
  since an eviction is not undone they may be read at any time.
  `AbsencesAreReal`, `VMsGoFirst` and `DisksAreTagged`, by `AbsenceInv`:
  an inventory is read part by part, so it says that a part which was read as
  gone (`Passed`) stays gone. For this nothing may still be on its way when the
  parts are read (`Quiet`), which is what each cloud's commitment check gives,
  in the order in which the adapter makes its reads.
  `RefusalsAreOwn`, from the same invariant, for attempts in any zones: what a cloud
  remembers under a request identity was asked for under it (`JobsOwn`).
* `OverlayProofs`: `IdentitiesMatch`. `KeyInv` ties both keys to the last attempt
  and says at which phases and points of a create call there is none yet.
  `AddressesAreDistinct`, for any CIDRs, overlapping ones too, under
  `CallsAreAwaited`: there is one operator, or the cloud gives no answer before a
  create call has ended. Two saves of one
  revision cannot both succeed, so a copy with the current revision that has been
  extended is `Fresh`: its addresses are nobody else's, in the copy, the records or
  the VMs. The delicate part is a migration from a stale copy, which no revision
  check stops: `HandlerInv` says that it writes the address that is still
  reserved in the ConfigMap, or finds the record there. `Assigned` is the
  set of the assignments in which each address is the next free one after those
  before it; there is one.

Only model-checked: liveness (`RetiredIsReleased`, `ExpiredIsReleased`,
`DrainCompletes`, `InterruptionIsClosed`, `DeletionCompletes`,
`ConfigurationRuns`, `CreationSettles`, `DeletionEnds`, `TunnelsConverge`), which
is out of the prover's reach; `NoneMissed` and `PendingIsRevisited`, which hold under
the conditions above only. Every other property of a passing run has a theorem.
The inductive invariants were checked with TLC before they were proved.

## Plan

1. `Retry` with two overlapping leaders.
2. Pure algorithms against reference definitions: `placement.Choose`,
   `MergeResources`, `reservationMicros`.
3. A proof that the moves of `Fleet`'s `StepOne` are steps of `AllocationContract`.

## Not modelled

`AddressesDistinct` takes it that what a process had sent when it died has arrived or
never will: a late AWS launch, as in `LifecycleLateAWS`, would break it too. That
GCP forgets a create request after a while is left out, and so is a limit on
`ReadyIsEarned`: the session by which the process becomes ready may just have ended,
which the next `Reconcile` finds. A
change of the CIDRs after addresses were given out is left out, as
networking-peer-model.md does. `Provider` takes the inventory that GCP's `Delete`
reads for itself (command.go:319) and the one of the `Step` before it as one, and
leaves out recorded generations, paging and the limit of 64 references.

Left out for good: price feeds, credentials, response decoding, request
construction, command wiring, generated code. They hold no protocol state.
