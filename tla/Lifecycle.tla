----------------------------- MODULE Lifecycle -----------------------------
(***************************************************************************)
(* The durable life of ONE allocation: Controller.Step of                  *)
(* internal/lifecycle over the ConfigMap store of internal/state, the      *)
(* provider calls of internal/provider and the GitHub runner registration. *)
(* Allocations share no state that Step reads except the cooldown map,     *)
(* which only makes placement.Choose fail more often, so one is enough.    *)
(*                                                                         *)
(* Every store write, provider call and GitHub call is a step of its own;  *)
(* several controllers may run Step at once (a leader that lost its Lease  *)
(* and its successor), and each may stop between any two steps.            *)
(***************************************************************************)
EXTENDS Naturals, FiniteSets

CONSTANTS
    Controllers,    \* processes that may run Step on this allocation
    Sessions,       \* those that hold a GitHub client (Controller.Runners # nil)
    Pools,          \* offerings of the allocation's catalog, each in its own zone
    Provider,       \* Provider[p]: the kind of cloud that pool p belongs to
    LateKinds,      \* clouds where an unanswered create may still land later
    MaxAttempts,    \* Allocation.MaxAttempts
    NoPool          \* Offering before the first attempt

Kinds == {"aws", "azure", "gcp"}

ASSUME SessionsAssumption == Sessions \subseteq Controllers
ASSUME ProviderAssumption == Provider \in [Pools -> Kinds]
ASSUME LateAssumption == LateKinds \subseteq Kinds
ASSUME AttemptsAssumption == MaxAttempts \in Nat /\ MaxAttempts \in 1..10
ASSUME NoPoolAssumption == NoPool \notin Pools

VARIABLES
    store,       \* the persisted Allocation
    current,     \* current[c]: nothing was written since c's copy was read
    local,       \* local[c]: the Allocation value inside c's Step
    late,        \* late[c]: "expired" as Step computed it from its own clock read
    pc,          \* pc[c]: what c's Step does next
    then,        \* then[c]: where Step continues after a successful Save
    expired,     \* the deadline has passed
    request,     \* request[n]: the create request of attempt n, seen by its cloud
    live,        \* <<n, kind>>: cloud resources of attempt n that exist
    stray,       \* attempts whose leftovers the cloud no longer ties to a VM
    registered   \* GitHub holds a runner registration under the allocation's ID

storeVars == <<store, current>>
stepVars  == <<local, late, pc, then>>
cloudVars == <<request, live, stray>>
vars == <<storeVars, stepVars, expired, cloudVars, registered>>

Attempts  == 1..MaxAttempts
Resources == Attempts \X {"vm", "disk"}
Terminal  == {"Deleted", "TimedOut"}
Phases    == {"Pending", "Creating", "Running", "Deleting"} \cup Terminal
Labels    == {"idle", "save", "deregister", "create", "prepared", "await",
              "reconcile", "observe", "exists", "unknown", "delete"}
Resumes   == {"idle", "create", "reconcile", "exists", "unknown"}
States    == {"none", "sent", "accepted", "done", "refused", "lost"}

\* resourceID is the attempt whose VM identity is recorded, 0 for "".
\* rejected is the set of pools with Outcomes[pool] = CapacityRejected.
Allocation ==
    [phase: Phases, attempts: 0..MaxAttempts, offering: Pools \cup {NoPool},
     rejected: SUBSET Pools, resourceID: 0..MaxAttempts, resources: SUBSET Resources,
     ready: BOOLEAN, retire: BOOLEAN, interrupted: BOOLEAN]

\* Type invariant: every variable keeps the shape declared above.
TypeOK ==
    /\ store \in Allocation
    /\ current \in [Controllers -> BOOLEAN]
    /\ local \in [Controllers -> Allocation]
    /\ late \in [Controllers -> BOOLEAN]
    /\ pc \in [Controllers -> Labels]
    /\ then \in [Controllers -> Resumes]
    /\ expired \in BOOLEAN
    /\ request \in [Attempts -> [st: States, pool: Pools \cup {NoPool}]]
    /\ live \subseteq Resources
    /\ stray \subseteq Attempts
    /\ registered \in BOOLEAN

\* HandleDesiredRunnerCount's new Pending record, once Tick has materialised it.
NewAllocation ==
    [phase |-> "Pending", attempts |-> 0, offering |-> NoPool, rejected |-> {},
     resourceID |-> 0, resources |-> {}, ready |-> FALSE, retire |-> FALSE,
     interrupted |-> FALSE]

Init ==
    /\ store = NewAllocation
    /\ current = [c \in Controllers |-> FALSE]
    /\ local = [c \in Controllers |-> NewAllocation]
    /\ late = [c \in Controllers |-> FALSE]
    /\ pc = [c \in Controllers |-> "idle"]
    /\ then = [c \in Controllers |-> "idle"]
    /\ expired = FALSE
    /\ request = [n \in Attempts |-> [st |-> "none", pool |-> NoPool]]
    /\ live = {}
    /\ stray = {}
    /\ registered = FALSE

-----------------------------------------------------------------------------
(* The store: resourceVersion compare-and-swap.                            *)

\* Step's continuation: c's next call, and its continuation after a Save.
Goto(c, label) ==
    /\ pc' = [pc EXCEPT ![c] = label]
    /\ then' = [then EXCEPT ![c] = "idle"]

SaveThen(c, label) ==
    /\ pc' = [pc EXCEPT ![c] = "save"]
    /\ then' = [then EXCEPT ![c] = label]

SetLocal(c, a) == local' = [local EXCEPT ![c] = a]

\* Step returns: its copy of the record goes out of scope.
Return(c) ==
    /\ Goto(c, "idle")
    /\ SetLocal(c, NewAllocation)
    /\ late' = [late EXCEPT ![c] = FALSE]

\* Save without the revision check: the last writer wins.
SaveBlind(c) ==
    /\ pc[c] = "save"
    /\ store' = local[c]
    /\ Return(c)
    /\ current' = [d \in Controllers |-> FALSE]
    /\ UNCHANGED <<expired, cloudVars, registered>>

\* Kubernetes.Save: the write happens only at the revision that was read, and
\* makes every other reader's revision stale.
Save(c) ==
    /\ pc[c] = "save"
    /\ current[c]
    /\ store' = local[c]
    /\ IF then[c] = "idle"
       THEN /\ Return(c)
            /\ current' = [d \in Controllers |-> FALSE]
       ELSE /\ Goto(c, then[c])
            /\ current' = [d \in Controllers |-> d = c]
            /\ UNCHANGED <<local, late>>
    /\ UNCHANGED <<expired, cloudVars, registered>>

-----------------------------------------------------------------------------
(* Controller.Step, from its Load to its next external call.               *)

Load(c, a, isLate) ==
    /\ pc[c] = "idle"
    /\ current' = [current EXCEPT ![c] = TRUE]
    /\ late' = [late EXCEPT ![c] = isLate]
    /\ SetLocal(c, a)
    /\ UNCHANGED <<store, expired, cloudVars, registered>>

\* The deadline is forgotten.
StepExpireNoDeadline(c) ==
    /\ store.phase = "Pending"
    /\ store.resourceID = 0 /\ store.resources = {}
    /\ store.retire \/ store.attempts >= MaxAttempts
    /\ Load(c, [store EXCEPT !.phase = "TimedOut"], expired)
    /\ Goto(c, "deregister")

\* Pending, and retired, out of time or out of attempts: TimedOut.
StepExpire(c) ==
    /\ store.phase = "Pending"
    /\ store.resourceID = 0 /\ store.resources = {}
    /\ store.retire \/ expired \/ store.attempts >= MaxAttempts
    /\ Load(c, [store EXCEPT !.phase = "TimedOut"], expired)
    /\ Goto(c, "deregister")

\* Pending, but placement.Choose admits no pool (stale or incomplete catalog,
\* cooldown, exhaustion): only the condition is saved.
StepNoPool(c) ==
    /\ store.phase = "Pending"
    /\ store.resourceID = 0 /\ store.resources = {}
    /\ ~(store.retire \/ expired \/ store.attempts >= MaxAttempts)
    /\ Load(c, store, expired)
    /\ SaveThen(c, "idle")

\* The attempts limit is forgotten.
StepCommitUnbounded(c, p) ==
    /\ store.phase = "Pending"
    /\ store.resourceID = 0 /\ store.resources = {}
    /\ ~(store.retire \/ expired)
    /\ p \notin store.rejected
    /\ Load(c, [store EXCEPT !.phase = "Creating", !.offering = p, !.attempts = @ + 1], expired)
    /\ SaveThen(c, "create")

\* Create is called before the intent is saved.
StepCommitUnsaved(c, p) ==
    /\ store.phase = "Pending"
    /\ store.resourceID = 0 /\ store.resources = {}
    /\ ~(store.retire \/ expired \/ store.attempts >= MaxAttempts)
    /\ p \notin store.rejected
    /\ Load(c, [store EXCEPT !.phase = "Creating", !.offering = p, !.attempts = @ + 1], expired)
    /\ Goto(c, "create")

\* Pending, and Choose returns pool p: the intent is saved before Create.
StepCommit(c, p) ==
    /\ store.phase = "Pending"
    /\ store.resourceID = 0 /\ store.resources = {}
    /\ ~(store.retire \/ expired \/ store.attempts >= MaxAttempts)
    /\ p \notin store.rejected
    /\ Load(c, [store EXCEPT !.phase = "Creating", !.offering = p, !.attempts = @ + 1], expired)
    /\ SaveThen(c, "create")

\* Creating: save the unchanged record first, so that only the holder of the
\* latest revision goes on to reconcile (the fence of CreationReconciler).
StepReconcile(c) ==
    /\ store.phase = "Creating"
    /\ Load(c, store, expired)
    /\ SaveThen(c, "reconcile")

\* The deadline condemns a runner whose job has started.
StepRunningBusy(c) ==
    /\ store.phase = "Running"
    /\ IF store.retire \/ expired
       THEN /\ Load(c, [store EXCEPT !.phase = "Deleting"], expired)
            /\ SaveThen(c, "idle")
       ELSE /\ Load(c, store, expired)
            /\ Goto(c, "observe")

\* A ready runner is not condemned even when it is retired.
StepRunningKeep(c) ==
    /\ store.phase = "Running"
    /\ IF ~store.ready /\ (store.retire \/ expired)
       THEN /\ Load(c, [store EXCEPT !.phase = "Deleting"], expired)
            /\ SaveThen(c, "idle")
       ELSE /\ Load(c, store, expired)
            /\ Goto(c, "observe")

\* Running: condemn without a provider call, or observe.
StepRunning(c) ==
    /\ store.phase = "Running"
    /\ IF store.retire \/ (expired /\ ~store.ready)
       THEN /\ Load(c, [store EXCEPT !.phase = "Deleting"], expired)
            /\ SaveThen(c, "idle")
       ELSE /\ Load(c, store, expired)
            /\ Goto(c, "observe")

StepDeleting(c) ==
    /\ store.phase = "Deleting"
    /\ Load(c, store, expired)
    /\ Goto(c, "observe")

\* A Pending allocation is taken never to have registered a runner.
DeregisterCreated(c) ==
    /\ pc[c] = "deregister"
    /\ registered' = (registered /\ (c \notin Sessions \/ local[c].phase = "TimedOut"))
    /\ SaveThen(c, "idle")
    /\ UNCHANGED <<storeVars, local, late, expired, cloudVars>>

\* Controller.deregister: a complete no-op without a GitHub client.
Deregister(c) ==
    /\ pc[c] = "deregister"
    /\ registered' = (registered /\ c \notin Sessions)
    /\ SaveThen(c, "idle")
    /\ UNCHANGED <<storeVars, local, late, expired, cloudVars>>

-----------------------------------------------------------------------------
(* CreateWithResources and the rest of Step's Pending branch.              *)

Kind(a) == Provider[a.offering]

\* Resources of the attempt that an observation with this offering finds.
Visible(a) == {r \in live : request[r[1]].pool = a.offering}

\* The dependency references a provider reports: EC2 volumes and interfaces,
\* every Azure resource, none on GCP where the names follow from the ID.
Reported(kind, rs) ==
    {r \in rs : kind = "azure" \/ (kind = "aws" /\ r[2] # "vm")}

\* Bootstrap: GenerateJitRunnerConfig registers the runner name.  A controller
\* without GitHub client fails here; so may GitHub, with or without effect.
Bootstrap(c) ==
    /\ pc[c] = "create"
    /\ c \in Sessions
    /\ registered' = TRUE
    /\ Goto(c, "prepared")
    /\ UNCHANGED <<storeVars, local, late, expired, cloudVars>>

\* ErrNoEffect with an empty receipt (no JIT configuration, an unusable image,
\* no peer source): back to Pending.
NoEffect(c) ==
    /\ pc[c] \in {"create", "prepared"}
    /\ registered' \in (IF c \in Sessions THEN {registered, TRUE} ELSE {registered})
    /\ SetLocal(c, [local[c] EXCEPT !.phase = "Pending"])
    /\ SaveThen(c, "idle")
    /\ UNCHANGED <<storeVars, late, expired, cloudVars>>

\* requireVacantCreation: one Azure deployment name serves every attempt.
Occupied(a) ==
    \/ Visible(a) # {}
    \/ /\ Kind(a) = "azure"
       /\ \E n \in Attempts : /\ request[n].st \in {"accepted", "done", "refused"}
                              /\ Provider[request[n].pool] = "azure"

\* RunInstances, Instances.Insert or BeginCreateOrUpdate leaves the process.
Send(c) ==
    /\ pc[c] = "prepared"
    /\ ~Occupied(local[c])
    /\ request' = [request EXCEPT ![local[c].attempts] =
                      [st |-> "sent", pool |-> local[c].offering]]
    /\ Goto(c, "await")
    /\ UNCHANGED <<storeVars, local, late, expired, live, stray, registered>>

Answer(c) == request[local[c].attempts].st

\* The call is answered, or its request can outlive it.
MayLeave(c) ==
    pc[c] = "await" /\ Answer(c) = "sent" => Kind(local[c]) \in LateKinds

CreateSucceeds(c) ==
    /\ pc[c] = "await"
    /\ Answer(c) = "done"
    /\ LET n == local[c].attempts
       IN  SetLocal(c, [local[c] EXCEPT
               !.phase = "Running", !.resourceID = n,
               !.resources = @ \cup Reported(Kind(local[c]), {<<n, "vm">>, <<n, "disk">>})])
    /\ SaveThen(c, "idle")
    /\ UNCHANGED <<storeVars, late, expired, cloudVars, registered>>

\* A capacity error is taken as proof that nothing was left behind.
CreateRejectedLeaving(c) ==
    /\ pc[c] = "await"
    /\ Answer(c) = "refused"
    /\ SetLocal(c, [local[c] EXCEPT !.phase = "Pending", !.rejected = @ \cup {local[c].offering}])
    /\ SaveThen(c, "idle")
    /\ UNCHANGED <<storeVars, late, expired, cloudVars, registered>>

\* ErrCapacity: a definitive refusal that left nothing behind.
CreateRejected(c) ==
    /\ pc[c] = "await"
    /\ Answer(c) = "refused"
    /\ Visible(local[c]) = {}
    /\ SetLocal(c, [local[c] EXCEPT !.phase = "Pending", !.rejected = @ \cup {local[c].offering}])
    /\ SaveThen(c, "idle")
    /\ UNCHANGED <<storeVars, late, expired, cloudVars, registered>>

\* An ambiguous create is retried blindly.
CreateUnknownRetry(c) ==
    /\ pc[c] \in {"create", "prepared", "await"}
    /\ MayLeave(c)
    /\ SetLocal(c, [local[c] EXCEPT !.phase = "Pending"])
    /\ SaveThen(c, "idle")
    /\ UNCHANGED <<storeVars, late, expired, cloudVars, registered>>

\* Any other error, before or after the request was sent.  AWS and Azure may
\* return a receipt with the identities proven so far.
CreateUnknown(c) ==
    /\ pc[c] \in {"create", "prepared", "await"}
    /\ MayLeave(c)
    /\ LET n == local[c].attempts
           k == Kind(local[c])
           receipt == IF pc[c] = "await" /\ Answer(c) = "done" /\ k # "gcp"
                      THEN {n} ELSE {}
       IN  \/ SetLocal(c, local[c])
           \/ \E id \in receipt : \E rs \in SUBSET Reported(k, {<<n, "vm">>, <<n, "disk">>}) :
                 SetLocal(c, [local[c] EXCEPT !.resourceID = id, !.resources = @ \cup rs])
    /\ SaveThen(c, "idle")
    /\ UNCHANGED <<storeVars, late, expired, cloudVars, registered>>

-----------------------------------------------------------------------------
(* Observe, ReconcileCreation and Delete, and what Step does with them.    *)

\* An empty inventory is taken as absence.
SettledUnproven(a) == TRUE

\* Requests the cloud has on record.
OnRecord(n) == request[n].st \in {"accepted", "done", "refused"}

\* gcpCreateTerminal: the zone lists the one insert operation of this
\* allocation, DONE, or none at all once the identity is recorded.
SettledGCP(a) ==
    LET operations == {n \in Attempts : OnRecord(n) /\ request[n].pool = a.offering}
    IN  /\ \A n \in operations : request[n].st # "accepted"
        /\ operations # {} \/ a.resourceID # 0

\* The one deployment of the allocation's name is absent or terminal.
SettledAzure ==
    \A n \in Attempts : OnRecord(n) /\ Provider[request[n].pool] = "azure" => request[n].st # "accepted"

\* Whether an empty inventory proves absence.  AWS has no such check.
Settled(a) ==
    CASE Kind(a) = "gcp" -> SettledGCP(a)
      [] Kind(a) = "azure" -> SettledAzure
      [] Kind(a) = "aws" -> TRUE

\* Leftovers of a create whose VM identity is not on record, and which cannot
\* be tied to a VM: observation and finishAzureDiskOwnership refuse them, on
\* every pass.
Unbound(a) ==
    /\ a.phase = "Creating"
    /\ Kind(a) = "aws" => a.resourceID = 0
    /\ Visible(a) # {}
    /\ \A r \in Visible(a) : r[2] # "vm" /\ r[1] \in stray

\* An error or an unknown inventory.  Azure's creation recovery may return
\* identities with its error, which are persisted before the condition is.
ObserveUnknown(c) ==
    /\ pc[c] \in {"reconcile", "observe"}
    /\ \/ SaveThen(c, "idle") /\ UNCHANGED local
       \/ /\ pc[c] = "reconcile" /\ Kind(local[c]) = "azure"
          /\ Settled(local[c]) /\ ~Unbound(local[c])
          /\ Visible(local[c]) \ local[c].resources # {}
          /\ SetLocal(c, [local[c] EXCEPT !.resources = @ \cup Visible(local[c])])
          /\ SaveThen(c, "unknown")
    /\ UNCHANGED <<storeVars, late, expired, cloudVars, registered>>

SaveUnknown(c) ==
    /\ pc[c] = "unknown"
    /\ SaveThen(c, "idle")
    /\ UNCHANGED <<storeVars, local, late, expired, cloudVars, registered>>

\* Known and not Exists: Deleted, once the registration is cleared.  Only the
\* Running branch looks at Interrupted; whether it is true is Provider's subject.
ObserveAbsent(c) ==
    /\ pc[c] \in {"reconcile", "observe"}
    /\ Settled(local[c])
    /\ Visible(local[c]) = {}
    /\ \E i \in IF local[c].phase = "Running" THEN BOOLEAN ELSE {FALSE} :
          SetLocal(c, [local[c] EXCEPT !.phase = "Deleted", !.interrupted = i])
    /\ Goto(c, "deregister")
    /\ UNCHANGED <<storeVars, late, expired, cloudVars, registered>>

\* Known and Exists: rememberResources saves the references that are new.
ObserveExists(c) ==
    /\ pc[c] \in {"reconcile", "observe"}
    /\ Settled(local[c])
    /\ Visible(local[c]) # {} /\ ~Unbound(local[c])
    /\ LET found == Reported(Kind(local[c]), Visible(local[c]))
       IN  IF found \subseteq local[c].resources
           THEN Goto(c, "exists") /\ UNCHANGED local
           ELSE /\ SetLocal(c, [local[c] EXCEPT !.resources = @ \cup found])
                /\ SaveThen(c, "exists")
    /\ UNCHANGED <<storeVars, late, expired, cloudVars, registered>>

Exists(c) ==
    /\ pc[c] = "exists"
    /\ \/ /\ local[c].phase = "Creating"
          /\ SetLocal(c, [local[c] EXCEPT
                !.resourceID = local[c].attempts,
                !.phase = IF local[c].retire \/ (late[c] /\ ~local[c].ready)
                          THEN "Deleting" ELSE "Running"])
          /\ SaveThen(c, "idle")
          /\ UNCHANGED <<late, current>>
       \/ /\ local[c].phase = "Running"
          /\ Return(c)
          /\ current' = [current EXCEPT ![c] = FALSE]
       \/ /\ local[c].phase = "Deleting"
          /\ Goto(c, "delete")
          /\ UNCHANGED <<local, late, current>>
    /\ UNCHANGED <<store, expired, cloudVars, registered>>

\* Delete removes one resource per call, the VM first; its error says nothing
\* about the effect and is saved as a condition.
Removable(a) ==
    {r \in Visible(a) : r[2] = "vm" \/ <<r[1], "vm">> \notin live}

Delete(c) ==
    /\ pc[c] = "delete"
    /\ \/ UNCHANGED live
       \/ \E r \in Removable(local[c]) : live' = live \ {r}
    /\ \/ /\ Return(c)
          /\ current' = [current EXCEPT ![c] = FALSE]
       \/ /\ SaveThen(c, "idle")
          /\ UNCHANGED <<local, late, current>>
    /\ UNCHANGED <<store, expired, request, stray, registered>>

\* Step ends early: a Save fails or conflicts, DeregisterRunner fails, the
\* context ends, or the process dies.
Abandon(c) ==
    /\ pc[c] # "idle"
    /\ MayLeave(c)
    /\ Return(c)
    /\ current' = [current EXCEPT ![c] = FALSE]
    /\ UNCHANGED <<store, expired, cloudVars, registered>>

Step(c) ==
    \/ StepExpire(c) \/ StepNoPool(c) \/ (\E p \in Pools : StepCommit(c, p))
    \/ StepReconcile(c) \/ StepRunning(c) \/ StepDeleting(c)
    \/ Deregister(c) \/ Save(c)
    \/ Bootstrap(c) \/ NoEffect(c) \/ Send(c)
    \/ CreateSucceeds(c) \/ CreateRejected(c) \/ CreateUnknown(c)
    \/ ObserveUnknown(c) \/ SaveUnknown(c) \/ ObserveAbsent(c) \/ ObserveExists(c)
    \/ Exists(c) \/ Delete(c)

-----------------------------------------------------------------------------
(* The other writers of the record.  They hold Operator.mu, as Tick does    *)
(* around Step, so c does this between two Steps; Load and Save with one    *)
(* compare-and-swap is one atomic update, and a conflict is no update.      *)

Update(c, a) ==
    /\ pc[c] = "idle"
    /\ store' = a
    /\ current' = [d \in Controllers |-> FALSE]
    /\ UNCHANGED <<stepVars, expired, cloudVars, registered>>

VMHasRun == \E n \in Attempts : request[n].st = "done"

HandleJobStarted(c) ==
    /\ c \in Sessions
    /\ VMHasRun
    /\ Update(c, [store EXCEPT !.ready = TRUE])

HandleJobCompleted(c) ==
    /\ c \in Sessions
    /\ VMHasRun
    /\ Update(c, [store EXCEPT !.retire = TRUE])

\* Tick: the scale set drains, or the allocation outlived MaxLifetimeSeconds.
Retire(c) ==
    /\ ~store.retire
    /\ Update(c, [store EXCEPT !.retire = TRUE])

-----------------------------------------------------------------------------
(* The clouds and the clock.                                               *)

\* GCP records an operation and Azure a deployment before any resource exists.
Accept(n) ==
    /\ request[n].st = "sent"
    /\ Provider[request[n].pool] # "aws"
    /\ request' = [request EXCEPT ![n].st = "accepted"]
    /\ UNCHANGED <<storeVars, stepVars, expired, live, stray, registered>>

Working(n) ==
    \/ request[n].st = "accepted"
    \/ request[n].st = "sent" /\ Provider[request[n].pool] = "aws"

Land(n) ==
    /\ Working(n)
    /\ request' = [request EXCEPT ![n].st = "done"]
    /\ live' = live \cup {<<n, "vm">>, <<n, "disk">>}
    /\ UNCHANGED <<storeVars, stepVars, expired, stray, registered>>

\* A failed operation or deployment may leave a disk or an interface behind;
\* RunInstances is all or nothing.  Azure's disk may carry no tags yet.
Refuse(n) ==
    /\ Working(n)
    /\ request' = [request EXCEPT ![n].st = "refused"]
    /\ \/ UNCHANGED <<live, stray>>
       \/ /\ Provider[request[n].pool] # "aws"
          /\ live' = live \cup {<<n, "disk">>}
          /\ \/ UNCHANGED stray
             \/ Provider[request[n].pool] = "azure" /\ stray' = stray \cup {n}
    /\ UNCHANGED <<storeVars, stepVars, expired, registered>>

\* The request never reaches the cloud, or is turned down at the door.
Lose(n) ==
    /\ request[n].st = "sent"
    /\ request' = [request EXCEPT ![n].st = "lost"]
    /\ UNCHANGED <<storeVars, stepVars, expired, live, stray, registered>>

\* A resource goes away by itself: a spot preemption, delete-on-termination,
\* or a deletion that was accepted earlier.  What a VM leaves behind may lose
\* its tie to it: an Azure disk that was not tagged before, and on AWS every
\* part once EC2 no longer shows the terminated instance.
Vanish(r) ==
    /\ r \in live
    /\ live' = live \ {r}
    /\ \/ UNCHANGED stray
       \/ /\ r[2] = "vm" /\ Provider[request[r[1]].pool] # "gcp"
          /\ stray' = stray \cup {r[1]}
    /\ UNCHANGED <<storeVars, stepVars, expired, request, registered>>

Expire ==
    /\ ~expired
    /\ expired' = TRUE
    /\ UNCHANGED <<storeVars, stepVars, cloudVars, registered>>

Cloud ==
    \/ \E n \in Attempts : Accept(n) \/ Land(n) \/ Refuse(n) \/ Lose(n)
    \/ \E r \in Resources : Vanish(r)

Next ==
    \/ \E c \in Controllers : Step(c) \/ Abandon(c)
    \/ \E c \in Controllers : HandleJobStarted(c) \/ HandleJobCompleted(c) \/ Retire(c)
    \/ Cloud
    \/ Expire

Spec == Init /\ [][Next]_vars

-----------------------------------------------------------------------------
(* Safety.                                                                 *)

\* Attempt n owns nothing in the cloud and nothing of it can still appear.
Quiet(n) ==
    /\ request[n].st \notin {"sent", "accepted"}
    /\ \A r \in live : r[1] # n

\* Deletion completes only after observed absence: once the record is Deleted
\* or TimedOut, Step never looks at the cloud again, so no resource of the
\* allocation may exist and no create request of it may still land.
NoOrphan == store.phase \in Terminal => \A n \in Attempts : Quiet(n)

\* What Step says of a create it found absent: "the resource provably never
\* existed, so there is nothing to clean up", so the allocation owns nothing.
ConfirmedAbsentIsClean ==
    store.phase = "Deleted" /\ store.resourceID = 0 => live = {}

\* No blind create retry follows an ambiguous response: whatever crashes,
\* conflicts and overlapping controllers do, at most the latest attempt has a
\* request outstanding or a resource alive, and Pending has neither (the fact
\* spentToday relies on when it drops a TimedOut allocation's reservation).
OneAttemptAtATime ==
    /\ \A n \in Attempts : n < store.attempts => Quiet(n)
    /\ \A n \in Attempts : n > store.attempts => request[n].st = "none"
    /\ store.phase = "Pending" => \A n \in Attempts : Quiet(n)

\* Every transition to Deleted or TimedOut clears the runner registration
\* first, when all controllers have a GitHub client: no later step of any
\* controller registers the name again.
TerminalDeregistered == store.phase \in Terminal => ~registered

\* The compare-and-swap loses no update: job start, retirement, recorded
\* dependencies, the VM identity, the attempt count and the final phases
\* survive every later Save, whoever makes it.
NothingForgotten ==
    [][/\ store.phase \in Terminal => store'.phase = store.phase
       /\ store.ready => store'.ready
       /\ store.retire => store'.retire
       /\ store.resources \subseteq store'.resources
       /\ store.rejected \subseteq store'.rejected
       /\ store.resourceID # 0 => store'.resourceID = store.resourceID
       /\ store.attempts <= store'.attempts]_store

\* A Step that read the record before the job started, completed or was
\* retired can neither condemn a runner that has since become busy, nor start a
\* VM for an allocation that has since been retired, nor report as interrupted,
\* and so have rerun, a runner whose job has since completed.
NoStaleDecision ==
    [][/\ store.phase = "Running" /\ store'.phase = "Deleting" => store.retire \/ ~store.ready
       /\ store.phase = "Pending" /\ store'.phase = "Creating" => ~store.retire
       /\ ~store.interrupted /\ store'.interrupted => store.phase = "Running" /\ ~store.retire]_store

\* Step keeps the promise of AllocationContract: effects only under a
\* persisted intent, and no end of the obligation while any can remain.
Contract == INSTANCE AllocationContract
               WITH phase <- store.phase, exposed <- \E n \in Attempts : ~Quiet(n)
KeepsContract == Contract!CSpec

-----------------------------------------------------------------------------
(* Liveness.  Tick runs Step every five seconds as long as some controller *)
(* holds the Lease; each cloud resolves the requests it received; and from *)
(* some point on the faults stop: no Step is cut short, a settled inventory *)
(* whose parts can be tied to their VM is read, a delete request takes     *)
(* effect.                                                                 *)

CalmStep(c) ==
    /\ Step(c)
    /\ ObserveUnknown(c) => ~Settled(local[c]) \/ Unbound(local[c])
    /\ pc[c] = "delete" => live = {} \/ live' # live

CalmNext ==
    \/ \E c \in Controllers : CalmStep(c)
    \/ \E c \in Controllers : HandleJobStarted(c) \/ HandleJobCompleted(c) \/ Retire(c)
    \/ Cloud
    \/ Expire

Fairness ==
    /\ <>[][CalmNext]_vars
    /\ \A c \in Controllers : WF_vars(Step(c))
    /\ \A n \in Attempts : WF_vars(Accept(n) \/ Lose(n)) /\ WF_vars(Land(n) \/ Refuse(n))

FairSpec == Spec /\ Fairness

\* The three ways to be stuck, each until an operator acts: GCP has no insert
\* operation on record; a part of an EC2 instance that is no longer shown; an
\* untagged Azure disk without its VM.
Parked ==
    /\ store.phase = "Creating"
    /\ \/ /\ Kind(store) = "gcp"
          /\ \A n \in Attempts : OnRecord(n) => request[n].pool # store.offering
       \/ Unbound(store)

\* A retired allocation reaches Deleted or TimedOut from every phase, through
\* crashes, ambiguous creates and failed deletes, unless it is parked for good.
RetiredIsReleased == store.retire ~> [](store.phase \in Terminal \/ Parked)

\* So does one whose job never starts, once it is past its deadline.
ExpiredIsReleased == expired ~> [](store.phase \in Terminal \/ store.ready \/ Parked)
=============================================================================
