------------------------------ MODULE Provider ------------------------------
(***************************************************************************)
(* The cloud adapters of internal/provider, one API call per step: create,  *)
(* observe, reconcile and delete of ONE allocation on AWS, GCP or Azure.    *)
(*                                                                         *)
(* Lifecycle takes an observation to be atomic.  Here it is a sequence of   *)
(* reads between which the cloud goes on: it provisions what was asked for, *)
(* detaches and removes what was deleted, and takes spot VMs away.  Step    *)
(* appears only as the order in which it makes the calls and saves what     *)
(* they return.                                                            *)
(***************************************************************************)
EXTENDS Naturals, Sequences

CONSTANTS
    MaxAttempts,    \* bound: create attempts
    Zone            \* Zone[n]: the zone of the pool that attempt n is placed in

ASSUME AttemptsAssumption == MaxAttempts \in Nat \ {0}
ASSUME ZoneAssumption == Zone \in [1..MaxAttempts -> 1..MaxAttempts]

VARIABLES
    kind,       \* Config.Kind
    cloud,      \* cloud[p]: the state of part p of the allocation
    made,       \* parts the current attempt has provisioned
    tagged,     \* the Azure disk carries the ownership tags
    jobs,       \* create operations by request identity, and the attempt they serve
    deletes,    \* deletes[p]: GCP's operation for the request identity "delete-p"
    evicted,    \* the cloud took the spot VM away, and says so
    queue,      \* Azure's interruption queue: the annotations of this VM
    signal,     \* Command.AzureInterrupted: what this Tick's poll confirmed
    rec,        \* the Allocation record
    pc, call,   \* where the adapter is, and in which call
    creating,   \* within CreateWithResources, not ReconcileCreation
    todo,       \* the reads that are left
    inv,        \* inv[p]: what was read of part p
    listed      \* parts in Azure's listing; on AWS, attached to the instance read

vars  == <<kind, cloud, made, tagged, jobs, deletes, evicted, queue, signal, rec, pc, call, creating, todo, inv, listed>>
spot  == <<evicted, queue, signal>>
world == <<kind, cloud, made, tagged, jobs, deletes, spot>>
local == <<pc, call, creating, todo, inv, listed>>

Kinds    == {"aws", "gcp", "azure"}
Parts    == {"vm", "nic", "disk"}
PartsOf(k) == IF k = "gcp" THEN {"vm", "disk"} ELSE Parts
Attempts == 1..MaxAttempts
\* "up": the VM runs, the other parts are attached to it.  EC2 shows an instance
\* for a while after it is terminated.
PartStates == {"none", "up", "free", "leaving", "terminated"}
JobStates  == {"none", "running", "done", "failed", "capacity"}
Phases     == {"Creating", "Running", "Deleting", "Deleted", "Rejected"}
Calls      == {"create", "capacity", "finish", "confirm", "reconcile", "recovered", "observe", "delete"}
ReadNames  == Parts \cup {"job", "list"}
NoPart     == "none"
\* A resource annotation of the VM; "malformed" cannot be classified.
Annotations == {"preempted", "other", "malformed"}

Gone(s) == s \in {"none", "terminated"}
Present(c) == {p \in Parts : ~Gone(c[p])}
NoneRead == [p \in Parts |-> "none"]

\* Type invariant: every variable keeps its shape.
TypeOK ==
    /\ kind \in Kinds
    /\ cloud \in [Parts -> PartStates] /\ inv \in [Parts -> PartStates]
    /\ made \subseteq Parts /\ listed \subseteq Parts /\ tagged \in BOOLEAN
    /\ jobs \in [Attempts -> [st: JobStates, of: 0..MaxAttempts]]
    /\ deletes \in [Parts -> {"none", "running", "done", "failed"}]
    /\ rec \in [phase: Phases, attempt: Attempts, id: BOOLEAN, refs: SUBSET Parts, interrupted: BOOLEAN]
    /\ evicted \in BOOLEAN /\ signal \in BOOLEAN /\ queue \subseteq Annotations
    /\ pc \in {"idle", "read", "wait", "remove"}
    /\ call \in Calls /\ creating \in BOOLEAN
    /\ \A i \in DOMAIN todo : todo[i] \in ReadNames

-----------------------------------------------------------------------------
(* The reads of each call *)

\* By token and tags, then by identity what is recorded or attached.
awsInventory == <<"vm", "disk", "nic", "disk", "nic">>

\* By name.
gcpInventory == <<"vm", "disk">>

\* A listing of the resource group, then each part by name.
azureInventory == <<"list", "vm", "nic", "disk">>

\* The disk and the VM, each bound to the other.
azureDiskBinding == <<"disk", "vm">>

requireVacantCreation == <<"job", "vm", "nic", "disk">>

Reads(k, c) ==
    CASE k = "aws"   -> awsInventory
      [] k = "gcp"   -> IF c \in {"create", "capacity"} THEN gcpInventory ELSE <<"job">> \o gcpInventory
      [] k = "azure" -> CASE c = "create"  -> requireVacantCreation
                          [] c = "finish"  -> azureDiskBinding \o azureInventory
                          [] c = "confirm" -> azureDiskBinding
                          [] OTHER         -> <<"job">> \o azureInventory

Call(c) ==
    /\ pc' = "read" /\ call' = c
    /\ todo' = Reads(kind, c)
    /\ inv' = NoneRead /\ listed' = {}
    /\ creating' = (creating \/ c = "create")

Return ==
    /\ pc' = "idle" /\ call' = "observe" /\ creating' = FALSE
    /\ todo' = <<>> /\ inv' = NoneRead /\ listed' = {}

\* The zone is left out of gcpRequestID.
RequestKeyUnzoned(n) == 1

\* gcpRequestID names the zone and no attempt: placement excludes pools that were
\* refused, not their zones.  An Azure deployment has the allocation's name.  EC2
\* keeps nothing of a client token whose request it refused.
RequestKey(n) == CASE kind = "azure" -> 1 [] kind = "gcp" -> Zone[n] [] kind = "aws" -> n
Job == jobs[RequestKey(rec.attempt)]

Init ==
    /\ kind \in Kinds
    /\ cloud = NoneRead /\ made = {} /\ tagged = FALSE
    /\ jobs = [n \in Attempts |-> [st |-> "none", of |-> 0]]
    /\ deletes = [p \in Parts |-> "none"]
    /\ rec = [phase |-> "Creating", attempt |-> 1, id |-> FALSE, refs |-> {}, interrupted |-> FALSE]
    /\ evicted = FALSE /\ queue = {} /\ signal = FALSE
    /\ pc = "read" /\ call = "create" /\ creating = TRUE /\ todo = Reads(kind, "create")
    /\ inv = NoneRead /\ listed = {}

\* A create request that is still active is taken for settled.
JobSettledUnseen == TRUE

\* An insert operation that is done, or none and a recorded identity.
gcpCreateTerminal == Job.st # "running" /\ (Job.st # "none" \/ rec.id)

\* A deployment that has ended, or none.
azureTerminal == Job.st # "running"

\* A failed deployment with a capacity code.
deploymentCapacityRejected == Job.st = "capacity"

\* A vacant name has no deployment.
JobSettled ==
    CASE call = "create"   -> Job.st = "none"
      [] call = "capacity" -> deploymentCapacityRejected
      [] kind = "gcp"      -> gcpCreateTerminal
      [] OTHER             -> azureTerminal

\* Only the disks of a creation that returned may lack the tags.
AllowUntaggedCreate == call = "finish" \/ call = "confirm"

AllowUntagged == call \in {"finish", "confirm", "reconcile"}
Owned(p) == kind = "azure" /\ p = "disk" /\ cloud[p] # "none" => tagged \/ AllowUntagged

\* The second pass of awsInventory skips what is neither recorded nor attached.
Skipped(p) == kind = "aws" /\ Len(todo) <= 2 /\ p \notin rec.refs \cup listed

\* The listing must be of owned parts, and what it showed must still be there.
ListingFails == \E p \in Present(cloud) : ~Owned(p)
Changed(p)   == kind = "azure" /\ p \in listed /\ cloud[p] = "none"

\* Both provisioned with success, the disk attached to the VM.
Unbound(p) == call \in {"finish", "confirm"} /\ p # "nic" /\ (cloud[p] # "up" \/ Job.st # "done")

ReadFails(r) ==
    CASE r = "job"  -> ~JobSettled
      [] r = "list" -> ListingFails
      [] OTHER      -> ~Owned(r) \/ (call = "create" /\ cloud[r] # "none") \/ Changed(r) \/ Unbound(r)

\* EC2 reports volumes and interfaces, Azure everything, GCP nothing: its names
\* follow from the allocation's.
Reported(ps) == CASE kind = "aws" -> ps \ {"vm"} [] kind = "azure" -> ps [] kind = "gcp" -> {}

\* rememberResources over MergeResources: references are only ever added.
Remember(ps) == [rec EXCEPT !.id = TRUE, !.refs = @ \cup Reported(ps)]

\* What finishAzureDiskOwnership has proven is returned with a later error.
Receipt ==
    CASE call \in {"confirm", "recovered"} -> Parts
      [] call = "finish" /\ Len(todo) <= Len(azureInventory) -> {"vm", "disk"}
      [] OTHER -> {}

\* One read; ok: it is answered.
Read(ok) ==
    /\ pc = "read" /\ todo # <<>>
    /\ LET r == Head(todo) IN
       \/ /\ ~ok \/ ReadFails(r)
          /\ rec' = IF Receipt = {} THEN rec ELSE Remember(Receipt)
          /\ Return
       \/ /\ ok /\ ~ReadFails(r)
          /\ todo' = Tail(todo)
          /\ inv' = IF r \in Parts /\ ~Skipped(r) THEN [inv EXCEPT ![r] = cloud[r]] ELSE inv
          /\ listed' = CASE r = "list" -> Present(cloud)
                         [] r = "vm" /\ kind = "aws" -> {p \in Parts \ {"vm"} : cloud[p] = "up" /\ cloud["vm"] # "none"}
                         [] OTHER -> listed
          /\ UNCHANGED <<pc, call, creating, rec>>
    /\ UNCHANGED world

-----------------------------------------------------------------------------
(* What a completed inventory says *)

Done(c) == pc = "read" /\ todo = <<>> /\ call = c

Exists == Present(inv) # {}

\* validateBindings and observation: what is attached must have been seen, and
\* what remains must be of a known instance.
Consistent ==
    kind = "aws" => /\ ~Gone(inv["vm"]) => listed \subseteq Present(inv)
                    /\ Exists => rec.id \/ inv["vm"] # "none"

Inconsistent ==
    /\ pc = "read" /\ todo = <<>> /\ call \in {"reconcile", "observe", "delete"} /\ ~Consistent
    /\ Return
    /\ UNCHANGED <<world, rec>>

-----------------------------------------------------------------------------
(* CreateWithResources *)

\* The preflight found the identity vacant: the request goes out.  GCP answers a
\* request identity it remembers with the operation it has.
Send ==
    /\ Done("create")
    /\ pc' = "wait" /\ UNCHANGED <<call, creating, todo, inv, listed>>
    /\ jobs' = IF kind = "gcp" /\ Job.st # "none" THEN jobs
               ELSE [jobs EXCEPT ![RequestKey(rec.attempt)] = [st |-> "running", of |-> rec.attempt]]
    /\ UNCHANGED <<kind, cloud, made, tagged, deletes, rec, spot>>

\* The request ends.  RunInstances may not show the volume yet: the receipt is
\* then incomplete, and comes with an error.
CreatesAWS ==
    /\ kind = "aws"
    /\ rec' = [Remember(Present(cloud)) EXCEPT !.phase = IF Present(cloud) = Parts THEN "Running" ELSE @]
    /\ Return
CreatesGCP ==
    /\ kind = "gcp"
    /\ rec' = [rec EXCEPT !.phase = "Running", !.id = TRUE]
    /\ Return
CreatesAzure ==
    /\ kind = "azure"
    /\ Call("finish")
    /\ UNCHANGED rec
CreateReturns ==
    /\ pc = "wait" /\ Job.st = "done"
    /\ CreatesAWS \/ CreatesGCP \/ CreatesAzure
    /\ UNCHANGED world

\* A capacity error counts once the inventory is empty; RunInstances is atomic.
CreateRefused ==
    /\ pc = "wait" /\ Job.st = "capacity"
    /\ IF kind = "aws"
       THEN rec' = [rec EXCEPT !.phase = "Rejected"] /\ Return
       ELSE Call("capacity") /\ UNCHANGED rec
    /\ UNCHANGED world

Rejected ==
    /\ Done("capacity")
    /\ rec' = IF Exists THEN rec ELSE [rec EXCEPT !.phase = "Rejected"]
    /\ Return
    /\ UNCHANGED world

\* Any other error leaves the commitment unknown.
CreateUnknown ==
    /\ pc = "wait" /\ Job.st = "failed"
    /\ Return
    /\ UNCHANGED <<world, rec>>

\* The ownership is complete.  Recovery observes once more.
Confirmed ==
    IF creating THEN rec' = [Remember(Parts) EXCEPT !.phase = "Running"] /\ Return
                ELSE rec' = rec /\ Call("recovered")

\* finishAzureDiskOwnership: the disk is tagged unless it is, and read back.  The
\* receipt is persisted with an error, too.
Finish(ok) ==
    /\ Done("finish")
    /\ \/ Present(inv) = Parts /\ tagged /\ Confirmed /\ UNCHANGED tagged
       \/ /\ Present(inv) = Parts /\ ~tagged /\ ok
          /\ rec' = rec
          /\ tagged' = (cloud["disk"] # "none")
          /\ Call("confirm")
       \/ /\ Present(inv) # Parts \/ (~tagged /\ ~ok)
          /\ rec' = Remember(Present(inv))
          /\ tagged' \in {tagged} \cup (IF Present(inv) = Parts THEN {cloud["disk"] # "none"} ELSE {})
          /\ Return
    /\ UNCHANGED <<kind, cloud, made, jobs, deletes, spot>>

Confirm ==
    /\ Done("confirm")
    /\ IF tagged THEN Confirmed ELSE rec' = Remember(Parts) /\ Return
    /\ UNCHANGED world

\* Any annotation of the VM is taken for a preemption.
ConfirmsAny(messages) == messages \ {"malformed"} # {}

\* ParsePreemptionEvent and the fold over the results of one poll.
Confirms(messages) == "preempted" \in messages

\* pollAzureInterruptions and applyAzureInterruptions, once per Tick: what can be
\* classified is deleted, as far as that succeeds; a failed poll clears the
\* snapshot like any other.
PollInterruptions(ok) ==
    /\ \/ signal' = Confirms(queue) /\ queue' = queue \cap {"malformed"}
       \/ ~ok /\ signal' = Confirms(queue) /\ queue' = queue
       \/ ~ok /\ signal' = FALSE /\ queue' = queue
    /\ UNCHANGED evicted

\* Step tries the next pool after a refusal.
NextAttempt(ok) ==
    /\ pc = "idle" /\ rec.phase = "Rejected" /\ rec.attempt < MaxAttempts
    /\ PollInterruptions(ok)
    /\ rec' = [rec EXCEPT !.phase = "Creating", !.attempt = @ + 1]
    /\ made' = {} /\ tagged' = FALSE
    /\ Call("create")
    /\ UNCHANGED <<kind, cloud, jobs, deletes>>

-----------------------------------------------------------------------------
(* Observe, ReconcileCreation and Delete *)

\* A Tick steps the allocation.
Begin(ok) ==
    /\ pc = "idle"
    /\ PollInterruptions(ok)
    /\ \/ rec.phase = "Creating" /\ Call("reconcile")
       \/ rec.phase \in {"Running", "Deleting"} /\ Call("observe")
    /\ UNCHANGED <<kind, cloud, made, tagged, jobs, deletes, rec>>

\* Job done, retired or past its deadline.
Retire(ok) ==
    /\ pc = "idle" /\ rec.phase = "Running"
    /\ PollInterruptions(ok)
    /\ rec' = [rec EXCEPT !.phase = "Deleting"]
    /\ UNCHANGED <<kind, cloud, made, tagged, jobs, deletes, local>>

Observed(phase) ==
    IF Exists THEN [Remember(Present(inv)) EXCEPT !.phase = phase] ELSE [rec EXCEPT !.phase = "Deleted"]

\* An untagged disk is left as it is.
ReconcileUntagged ==
    /\ Done("reconcile") /\ Consistent
    /\ rec' = Observed("Running")
    /\ Return
    /\ UNCHANGED world

\* reconcileAzureCreation finishes the ownership of an untagged disk first, and
\* observes again; what was found is Running (or Deleting, if it is late).
Reconcile ==
    /\ Done("reconcile") /\ Consistent
    /\ IF kind = "azure"
       THEN Call(IF inv["disk"] # "none" /\ ~tagged THEN "finish" ELSE "observe") /\ UNCHANGED rec
       ELSE rec' = Observed("Running") /\ Return
    /\ UNCHANGED world

\* It asks for the operation; an error is a no.
gcpConfirmedPreemption(ok) == evicted /\ ok

\* This Tick's snapshot.
azureConfirmedPreemption == signal

\* EC2 shows the reason with the terminated instance.
Interrupted(ok) ==
    /\ ~Exists
    /\ CASE kind = "aws"   -> evicted /\ inv["vm"] = "terminated"
         [] kind = "gcp"   -> gcpConfirmedPreemption(ok)
         [] kind = "azure" -> azureConfirmedPreemption

\* Known: absence ends the allocation; what exists is remembered before Delete.
Observe(ok) ==
    /\ Done("observe") \/ Done("recovered")
    /\ Consistent
    /\ rec' = [Observed(IF rec.phase = "Creating" THEN "Running" ELSE rec.phase) EXCEPT
                !.interrupted = rec.phase = "Running" /\ Interrupted(ok)]
    /\ IF Exists /\ rec.phase = "Deleting" THEN Call("delete") ELSE Return
    /\ UNCHANGED world

\* Volumes, interfaces and disks are deleted once they are detached.
Removable(s) == s = "free" \/ (kind # "aws" /\ s = "leaving")

\* Delete-on-termination is relied on for the rest.
TargetVMOnly == IF Gone(inv["vm"]) \/ (kind = "aws" /\ inv["vm"] = "leaving") THEN NoPart ELSE "vm"

\* One part per call: the VM, then the first that it has let go of.
FirstOf(parts) ==
    LET free == {i \in DOMAIN parts : Removable(inv[parts[i]])} IN
    IF ~Gone(inv["vm"]) THEN "vm"
    ELSE IF free # {} THEN parts[CHOOSE i \in free : \A j \in free : i <= j] ELSE NoPart

deleteAWS   == IF inv["vm"] = "leaving" THEN NoPart ELSE FirstOf(<<"disk", "nic">>)
deleteGCP   == FirstOf(<<"disk">>)
deleteAzure == FirstOf(<<"nic", "disk">>)

Target == CASE kind = "aws" -> deleteAWS [] kind = "gcp" -> deleteGCP [] kind = "azure" -> deleteAzure

\* Delete wants a durable checkpoint of all dependencies first.
MayRemove == Reported(Present(inv)) \subseteq rec.refs

Delete ==
    /\ Done("delete") /\ Consistent
    /\ IF Exists /\ MayRemove /\ Target # NoPart
       THEN pc' = "remove" /\ UNCHANGED <<call, creating, todo, inv, listed>>
       ELSE Return
    /\ UNCHANGED <<world, rec>>

\* The request.  EC2 and ARM accept it; GCP makes an operation of it, or returns
\* the one it has for the same request identity.
Remove(ok) ==
    /\ pc = "remove"
    /\ LET p == Target
           accepted == /\ cloud' = IF kind # "gcp" /\ cloud[p] = (IF p = "vm" THEN "up" ELSE "free")
                                   THEN [cloud EXCEPT ![p] = "leaving"] ELSE cloud
                       /\ deletes' = IF kind = "gcp" /\ ~Gone(cloud[p]) /\ deletes[p] = "none"
                                     THEN [deletes EXCEPT ![p] = "running"] ELSE deletes
       IN  \/ accepted
           \/ ~ok /\ UNCHANGED <<cloud, deletes>>
    /\ Return
    /\ UNCHANGED <<kind, made, tagged, jobs, rec, spot>>

\* The process ends, or the call's deadline passes.  RunInstances is taken to
\* have decided by then (Lifecycle asks what happens otherwise).
Crash ==
    /\ pc # "idle"
    /\ pc = "wait" /\ Job.st = "running" => kind # "aws"
    /\ Return
    /\ UNCHANGED <<world, rec>>

Adapter(ok) ==
    \/ Read(ok) \/ Inconsistent \/ Send \/ CreateReturns \/ CreateRefused \/ Rejected \/ CreateUnknown
    \/ Finish(ok) \/ Confirm \/ NextAttempt(ok) \/ Begin(ok) \/ Reconcile \/ Observe(ok) \/ Delete \/ Remove(ok)

-----------------------------------------------------------------------------
(* The clouds *)

Running(n) == jobs[n].st = "running" /\ jobs[n].of = rec.attempt

\* An Azure VM waits for its interface and brings its disk; a GCP disk comes
\* first; an EC2 volume shows up after the instance, even after RunInstances.
InOrder(p) ==
    CASE kind = "azure" -> (p = "vm" => "nic" \in made) /\ (p = "disk" => "vm" \in made)
      [] kind = "gcp"   -> p = "vm" => "disk" \in made
      [] kind = "aws"   -> p # "vm" => "vm" \in made

Provision(p) ==
    /\ p \in PartsOf(kind) \ made /\ InOrder(p)
    /\ \/ \E n \in Attempts : Running(n)
       \/ kind = "aws" /\ p = "disk" /\ Job.st = "done" /\ cloud["vm"] = "up"
    /\ made' = made \cup {p}
    /\ cloud' = [q \in Parts |->
                    IF q = p THEN (IF p = "vm" \/ cloud["vm"] = "up" THEN "up" ELSE "free")
                    ELSE IF p = "vm" /\ cloud[q] = "free" THEN "up" ELSE cloud[q]]
    /\ tagged' \in IF kind = "azure" /\ p = "disk" THEN BOOLEAN ELSE {tagged}
    /\ UNCHANGED <<kind, jobs, deletes, rec, local, spot>>

\* RunInstances is all or nothing.  A deployment or an operation that fails may
\* leave parts behind, for want of capacity no VM.
JobEnds(n) ==
    /\ Running(n)
    /\ \E st \in {"done", "failed", "capacity"} :
          /\ st = "done" => PartsOf(kind) \ made \subseteq (IF kind = "aws" THEN {"disk"} ELSE {})
          /\ st # "done" => (kind = "aws" => made = {}) /\ (kind = "gcp" => "vm" \notin made)
          /\ st = "capacity" => "vm" \notin made
          /\ jobs' = [jobs EXCEPT ![n].st = st]
    /\ UNCHANGED <<kind, cloud, made, tagged, deletes, rec, local, spot>>

\* What hung on the VM is deleted with it or, if that goes wrong, left detached.
VMGone(c) ==
    /\ c["vm"] = IF kind = "aws" THEN "terminated" ELSE "none"
    /\ \A p \in Parts \ {"vm"} : c[p] \in IF cloud[p] = "up" THEN {"leaving", "free"} ELSE {cloud[p]}

Removed(p) ==
    IF p = "vm" THEN cloud' \in [Parts -> PartStates] /\ VMGone(cloud')
    ELSE cloud' = [cloud EXCEPT ![p] = "none"]

Leaves(p) ==
    /\ cloud[p] = "leaving"
    /\ Removed(p)
    /\ UNCHANGED <<kind, made, tagged, jobs, deletes, rec, local, spot>>

\* A VM ends: the cloud takes it away, or it shuts down by itself.
Evict ==
    /\ cloud["vm"] = "up" /\ Job.st = "done"
    /\ cloud' = [cloud EXCEPT !["vm"] = "leaving"]
    /\ evicted' \in {evicted, TRUE}
    /\ UNCHANGED <<kind, made, tagged, jobs, deletes, queue, signal, rec, local>>

\* Event Grid delivers an annotation, late, twice or never.
Annotate(m) ==
    /\ kind = "azure" /\ "vm" \in made /\ (m = "preempted" => evicted)
    /\ queue' = queue \cup {m}
    /\ UNCHANGED <<kind, cloud, made, tagged, jobs, deletes, evicted, signal, rec, local>>

\* EC2 stops showing a terminated instance.
Forget ==
    /\ cloud["vm"] = "terminated"
    /\ cloud' = [cloud EXCEPT !["vm"] = "none"]
    /\ UNCHANGED <<kind, made, tagged, jobs, deletes, rec, local, spot>>

\* A deletion that ARM accepted fails later.
RemovalFails(p) ==
    /\ kind = "azure" /\ cloud[p] = "leaving"
    /\ cloud' = [cloud EXCEPT ![p] = IF p = "vm" THEN "up" ELSE "free"]
    /\ UNCHANGED <<kind, made, tagged, jobs, deletes, rec, local, spot>>

\* A GCP delete operation removes its target, finds it gone, or fails.
DeleteEnds(p, ok) ==
    /\ deletes[p] = "running"
    /\ deletes' = [deletes EXCEPT ![p] = IF ok THEN "done" ELSE "failed"]
    /\ IF ok /\ ~Gone(cloud[p]) THEN Removed(p) ELSE UNCHANGED cloud
    /\ UNCHANGED <<kind, made, tagged, jobs, rec, local, spot>>

\* GCP remembers a request identity for a limited time only.
RequestExpires(p) ==
    /\ deletes[p] \in {"done", "failed"}
    /\ deletes' = [deletes EXCEPT ![p] = "none"]
    /\ UNCHANGED <<kind, cloud, made, tagged, jobs, rec, local, spot>>

Progress ==
    \/ \E p \in Parts : Provision(p) \/ Leaves(p) \/ DeleteEnds(p, TRUE) \/ RequestExpires(p)
    \/ \E n \in Attempts : JobEnds(n)
    \/ Forget

Next ==
    \/ \E ok \in BOOLEAN : Adapter(ok)
    \/ Crash \/ Retire(TRUE) \/ Retire(FALSE)
    \/ Progress \/ Evict
    \/ \E m \in Annotations : Annotate(m)
    \/ \E p \in Parts : RemovalFails(p) \/ DeleteEnds(p, FALSE)

Spec == Init /\ [][Next]_vars

-----------------------------------------------------------------------------
(* What the adapters promise *)

\* The end of an allocation, or of an attempt that was refused, is the end of its
\* parts in the cloud, though no two of them are read at the same time.
AbsenceIsReal ==
    rec.phase \in {"Deleted", "Rejected"} => Present(cloud) = {} /\ ~\E n \in Attempts : Running(n)

\* The refusal that is examined is of this attempt's request, or of one that an
\* earlier attempt made in the same zone of GCP, which is not asked again.
OwnRefusal ==
    \/ Job.of = rec.attempt
    \/ kind = "gcp" /\ Job.of \in 1..rec.attempt /\ Zone[Job.of] = Zone[rec.attempt]

\* An attempt is given up for want of capacity only if its own request was
\* refused, or the request of another pool in its zone; never for what was
\* refused elsewhere, or under the name that all attempts share on Azure.
RefusalIsOwn == [][rec.phase = "Creating" /\ rec'.phase = "Rejected" => OwnRefusal]_vars

\* Delete takes no disk and no interface from under a VM: when it is about to
\* remove one, the VM that it has read as gone before is gone still.
VMGoesFirst == pc = "remove" /\ Target # "vm" => Gone(cloud["vm"])

\* Once an Azure allocation has left Creating its disk carries the tags without
\* which no later inventory would accept it.
DiskIsTagged ==
    kind = "azure" /\ rec.phase \in {"Running", "Deleting"} /\ cloud["disk"] # "none" => tagged

\* An allocation is closed as interrupted, which is what a rerun rests on, only if
\* the cloud took its VM away, though the evidence and the absence are read apart.
InterruptionIsOwn == rec.interrupted => evicted

\* From some moment on calls are answered in time and deletions succeed.
CalmNext == Adapter(TRUE) \/ Retire(TRUE) \/ Progress \/ Evict \/ \E m \in Annotations : Annotate(m)

Fairness ==
    /\ <>[][CalmNext]_vars
    /\ WF_vars(Adapter(TRUE)) /\ WF_vars(Progress)

FairSpec == Spec /\ Fairness

\* Deletion ends, through parts that outlive their VM, deletions that fail after
\* they were accepted and operations that answer for later requests.
DeletionEnds == rec.phase = "Deleting" ~> rec.phase = "Deleted"

\* The three ways to wait for an operator: no GCP operation is on record, an
\* Azure disk was left without tags, an EC2 volume outlived an unknown instance.
Parked ==
    CASE kind = "gcp"   -> Job.st = "none"
      [] kind = "azure" -> cloud["disk"] # "none" /\ ~tagged /\ (cloud["vm"] # "up" \/ Job.st # "done")
      [] kind = "aws"   -> cloud["vm"] = "none" /\ Present(cloud) # {} /\ ~rec.id

\* An ambiguous creation is resolved, but for these.
CreationSettles == rec.phase = "Creating" ~> rec.phase # "Creating" \/ Parked
=============================================================================
