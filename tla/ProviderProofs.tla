--------------------------- MODULE ProviderProofs ---------------------------
(* Proofs about Provider, for every number of attempts. *)
EXTENDS Provider, TLAPS

\* The records there can be, without the bounds of the model.
Records == [phase: Phases, attempt: Nat, id: BOOLEAN, refs: SUBSET Parts, interrupted: BOOLEAN]

\* The inductive invariant.  What an observation takes for evidence, the message
\* in the queue and the snapshot of a poll, exists only after an eviction, which
\* is never undone: it is true evidence however late it is read.
EvidenceInv ==
    /\ kind \in Kinds /\ evicted \in BOOLEAN
    /\ "preempted" \in queue => evicted
    /\ signal => evicted
    /\ rec \in Records
    /\ rec.interrupted => evicted

\* Evidence stays true in a step that records no new interruption and adds no
\* evidence: all but Observe, the polls and Annotate.
LEMMA EvidenceKept ==
    ASSUME EvidenceInv, kind' = kind, queue' = queue, signal' = signal,
           evicted' \in {evicted, TRUE}, rec' \in Records, rec'.interrupted = rec.interrupted
    PROVE  EvidenceInv'
BY Zenon DEF EvidenceInv

\* rememberResources keeps the rest of the record.
LEMMA RememberKeeps ==
    ASSUME kind \in Kinds, rec \in Records, NEW ps \in SUBSET Parts
    PROVE  /\ Remember(ps) \in Records /\ Remember(ps).interrupted = rec.interrupted
           /\ Remember(ps).phase = rec.phase /\ Remember(ps).attempt = rec.attempt
<1>1. Reported(ps) \subseteq ps
  BY DEF Kinds, Reported
<1>. QED
  BY Zenon, <1>1 DEF Remember, Records

\* The record after an observation, apart from what it says of interruptions.
LEMMA ObservedKeeps ==
    ASSUME kind \in Kinds, rec \in Records, NEW ph \in Phases
    PROVE  /\ Observed(ph) \in Records /\ Observed(ph).interrupted = rec.interrupted
           /\ Observed(ph).attempt = rec.attempt
           /\ Observed(ph).phase = IF Exists THEN ph ELSE "Deleted"
<1>1. Present(inv) \in SUBSET Parts
  BY DEF Present
<1>2. /\ Remember(Present(inv)) \in Records /\ Remember(Present(inv)).interrupted = rec.interrupted
      /\ Remember(Present(inv)).attempt = rec.attempt
  BY <1>1, RememberKeeps
<1>. QED
  BY <1>2 DEF Observed, Records, Phases

\* Initially there is no evidence.
LEMMA EvidenceInit == Init => EvidenceInv
<1>. SUFFICES ASSUME Init PROVE EvidenceInv
  OBVIOUS
<1>1. kind \in Kinds /\ evicted = FALSE /\ queue = {} /\ signal = FALSE
  BY Zenon DEF Init
<1>2. rec = [phase |-> "Creating", attempt |-> 1, id |-> FALSE, refs |-> {}, interrupted |-> FALSE]
  BY Zenon DEF Init
<1>. QED
  BY Zenon, <1>1, <1>2 DEF EvidenceInv, Records, Phases

\* The poll of a Tick makes no evidence of its own: pollAzureInterruptions.
LEMMA PollKeeps ==
    ASSUME EvidenceInv, NEW ok \in BOOLEAN, PollInterruptions(ok), kind' = kind,
           rec' \in Records, rec'.interrupted = rec.interrupted
    PROVE  EvidenceInv'
BY DEF EvidenceInv, PollInterruptions, Confirms

\* No call of an adapter claims an interruption that did not happen.
LEMMA EvidenceAdapter ==
    ASSUME EvidenceInv, NEW ok \in BOOLEAN, Adapter(ok)
    PROVE  EvidenceInv'
<1>0. rec \in Records /\ kind \in Kinds /\ evicted \in BOOLEAN
  BY DEF EvidenceInv
<1>1. CASE Read(ok)
  <2>1. Receipt \in SUBSET Parts
    BY DEF Receipt, Parts
  <2>2. rec' = rec \/ rec' = Remember(Receipt)
    BY <1>1 DEF Read
  <2>. QED
    BY <1>0, <1>1, <2>1, <2>2, RememberKeeps, EvidenceKept DEF Read, world, spot
<1>2. CASE Inconsistent \/ Send \/ CreateUnknown \/ Delete \/ Remove(ok)
  BY Zenon, <1>0, <1>2, EvidenceKept DEF Inconsistent, Send, CreateUnknown, Delete, Remove, world, spot
<1>3. CASE CreateReturns
  <2>1. CASE CreatesAWS
    <3>1. Present(cloud) \in SUBSET Parts
      BY DEF Present
    <3>2. Remember(Present(cloud)) \in Records /\ Remember(Present(cloud)).interrupted = rec.interrupted
      BY <1>0, <3>1, RememberKeeps
    <3>3. rec' \in Records /\ rec'.interrupted = rec.interrupted
      BY <2>1, <3>2 DEF CreatesAWS, Records, Phases
    <3>. QED
      BY <1>0, <1>3, <3>3, EvidenceKept DEF CreateReturns, world, spot
  <2>2. CASE CreatesGCP
    <3>1. rec' \in Records /\ rec'.interrupted = rec.interrupted
      BY Zenon, <1>0, <2>2 DEF CreatesGCP, Records, Phases
    <3>. QED
      BY <1>0, <1>3, <3>1, EvidenceKept DEF CreateReturns, world, spot
  <2>3. CASE CreatesAzure
    BY <1>0, <1>3, <2>3, EvidenceKept DEF CreateReturns, CreatesAzure, world, spot
  <2>. QED
    BY <1>3, <2>1, <2>2, <2>3 DEF CreateReturns
<1>4. CASE CreateRefused \/ Rejected
  <2>1. rec' = rec \/ rec' = [rec EXCEPT !.phase = "Rejected"]
    BY <1>4 DEF CreateRefused, Rejected
  <2>2. rec' \in Records /\ rec'.interrupted = rec.interrupted
    BY <1>0, <2>1 DEF Records, Phases
  <2>. QED
    BY Zenon, <1>0, <1>4, <2>2, EvidenceKept DEF CreateRefused, Rejected, world, spot
<1>5. CASE Finish(ok) \/ Confirm
  <2>1. PICK ps \in SUBSET Parts : \/ rec' = rec \/ rec' = Remember(ps)
                                   \/ rec' = [Remember(ps) EXCEPT !.phase = "Running"]
    <3>1. Present(inv) \in SUBSET Parts
      BY DEF Present
    <3>. QED
      BY <1>5, <3>1 DEF Finish, Confirm, Confirmed
  <2>2. Remember(ps) \in Records /\ Remember(ps).interrupted = rec.interrupted
    BY <1>0, RememberKeeps
  <2>3. rec' \in Records /\ rec'.interrupted = rec.interrupted
    BY <1>0, <2>1, <2>2 DEF Records, Phases
  <2>. QED
    BY Zenon, <1>0, <1>5, <2>3, EvidenceKept DEF Finish, Confirm, world, spot
<1>6. CASE NextAttempt(ok)
  <2>0. rec.attempt + 1 \in Nat
    BY <1>0 DEF Records
  <2>1. rec' \in Records /\ rec'.interrupted = rec.interrupted
    <3>1. rec' = [rec EXCEPT !.phase = "Creating", !.attempt = rec.attempt + 1]
      BY <1>6 DEF NextAttempt
    <3>. QED
      BY Zenon, <1>0, <2>0, <3>1 DEF Records, Phases
  <2>. QED
    BY <1>6, <2>1, PollKeeps DEF NextAttempt
<1>7. CASE Begin(ok)
  BY <1>0, <1>7, PollKeeps DEF Begin
<1>8. CASE Reconcile
  <2>1. rec' = rec \/ rec' = Observed("Running")
    BY <1>8 DEF Reconcile
  <2>2. "Running" \in Phases
    BY DEF Phases
  <2>3. rec' \in Records /\ rec'.interrupted = rec.interrupted
    BY <1>0, <2>1, <2>2, ObservedKeeps
  <2>. QED
    BY <1>0, <1>8, <2>3, EvidenceKept DEF Reconcile, world, spot
<1>9. CASE Observe(ok)
  <2> DEFINE ph == IF rec.phase = "Creating" THEN "Running" ELSE rec.phase
             claim == rec.phase = "Running" /\ Interrupted(ok)
  <2>1. ph \in Phases
    BY <1>0 DEF Records, Phases
  <2>2. Observed(ph) \in Records
    BY <1>0, <2>1, ObservedKeeps
  <2>3. rec' = [Observed(ph) EXCEPT !.interrupted = claim] /\ UNCHANGED <<kind, evicted, queue, signal>>
    BY <1>9 DEF Observe, world, spot
  <2>4. claim => evicted
    BY Zenon, <1>0 DEF EvidenceInv, Interrupted, Kinds, gcpConfirmedPreemption, azureConfirmedPreemption
  <2>5. claim \in BOOLEAN
    OBVIOUS
  <2> HIDE DEF claim, ph
  <2>6. rec' \in Records /\ rec'.interrupted = claim
    BY <2>2, <2>3, <2>5 DEF Records
  <2>. QED
    BY <2>3, <2>4, <2>6 DEF EvidenceInv
<1>. QED
  BY <1>1, <1>2, <1>3, <1>4, <1>5, <1>6, <1>7, <1>8, <1>9 DEF Adapter

\* Nor does any step of a cloud, a retirement or a crash.
LEMMA EvidenceNext == EvidenceInv /\ [Next]_vars => EvidenceInv'
<1> SUFFICES ASSUME EvidenceInv, [Next]_vars PROVE EvidenceInv'
  OBVIOUS
<1>0. rec \in Records /\ kind \in Kinds /\ evicted \in BOOLEAN
  BY DEF EvidenceInv
<1>1. ASSUME NEW ok \in BOOLEAN, Adapter(ok) PROVE EvidenceInv'
  BY <1>1, EvidenceAdapter
<1>2. CASE Crash
  BY <1>0, <1>2, EvidenceKept DEF Crash, world, spot
<1>3. ASSUME NEW ok \in BOOLEAN, Retire(ok) PROVE EvidenceInv'
  <2>1. rec' \in Records /\ rec'.interrupted = rec.interrupted
    BY <1>0, <1>3 DEF Retire, Records, Phases
  <2>. QED
    BY <1>3, <2>1, PollKeeps DEF Retire
<1>4. CASE Progress
  BY Zenon, <1>0, <1>4, EvidenceKept
     DEF Progress, Provision, Leaves, DeleteEnds, RequestExpires, JobEnds, Forget, spot
<1>5. CASE Evict
  BY Zenon, <1>0, <1>5, EvidenceKept DEF Evict
<1>6. ASSUME NEW m \in Annotations, Annotate(m) PROVE EvidenceInv'
  BY <1>6 DEF Annotate, EvidenceInv
<1>7. ASSUME NEW p \in Parts, RemovalFails(p) \/ DeleteEnds(p, FALSE) PROVE EvidenceInv'
  BY Zenon, <1>0, <1>7, EvidenceKept DEF RemovalFails, DeleteEnds, spot
<1>8. CASE UNCHANGED vars
  BY <1>0, <1>8, EvidenceKept DEF vars, spot
<1>. QED
  BY Zenon, <1>1, <1>2, <1>3, <1>4, <1>5, <1>6, <1>7, <1>8 DEF Next

\* Observe closes an allocation as interrupted only if the cloud took its VM away,
\* on every cloud and for any number of attempts, though queue, snapshot,
\* operations and inventory are read at different times.
THEOREM InterruptionsAreOwn == Spec => []InterruptionIsOwn
<1>1. EvidenceInv => InterruptionIsOwn
  BY DEF EvidenceInv, InterruptionIsOwn
<1>. QED
  BY <1>1, EvidenceInit, EvidenceNext, PTL DEF Spec
-----------------------------------------------------------------------------
(* Absence.  An inventory reads one part after the other; what makes its       *)
(* verdict true is that no create request is running by then and that what has *)
(* gone does not come back.                                                    *)

\* No request of the current attempt is running.
Quiet == Job.st # "running"

\* The reads that are left, of those an inventory makes; and what it has read.
Suffix(reads, left) ==
    /\ left \in Seq(ReadNames) /\ Len(left) <= Len(reads)
    /\ \A i \in 1..Len(left) : left[i] = reads[Len(reads) - Len(left) + i]
PassedIn(reads, left, p) == \E i \in 1..(Len(reads) - Len(left)) : reads[i] = p
Plan == Reads(kind, call)
Passed(p) == PassedIn(Plan, todo, p)

Shaped ==
    /\ kind \in Kinds /\ call \in Calls
    /\ cloud \in [Parts -> PartStates] /\ inv \in [Parts -> PartStates]
    /\ jobs \in [Attempts -> [st: JobStates, of: Nat]]
    /\ rec \in Records /\ rec.attempt \in Attempts

\* What a cloud remembers under a request identity was asked for under it, by this
\* attempt or an earlier one; what runs was asked for by this attempt.
JobsOwn ==
    \A k \in Attempts :
        /\ jobs[k].st # "none" => jobs[k].of \in 1..rec.attempt /\ RequestKey(jobs[k].of) = k
        /\ jobs[k].st = "running" => jobs[k].of = rec.attempt

\* EC2 decides within the call; an attempt that is over has no request running.
Settled ==
    /\ kind = "aws" /\ pc # "wait" => Quiet
    /\ rec.phase # "Creating" => Quiet
    /\ pc = "wait" \/ (pc = "read" /\ call = "create") => rec.phase = "Creating"

\* The answer that is waited for, or examined, is to this attempt's request or to
\* the one that its zone had before.
Requested ==
    /\ pc = "wait" \/ (pc = "read" /\ call = "capacity") => OwnRefusal
    /\ pc = "read" /\ call = "capacity" => Job.st = "capacity"

\* While a removal is under way nothing is made.
Removing == VMGoesFirst /\ (pc = "remove" => Quiet)

Ended == rec.phase \in {"Deleted", "Rejected"} => pc = "idle" /\ Present(cloud) = {}

\* What there is was made by this attempt.
Grounded ==
    /\ made \subseteq PartsOf(kind) /\ Present(cloud) \subseteq made
    /\ kind = "aws" /\ Job.st = "capacity" => made = {}

\* Halfway through an inventory: what was read as gone is gone, unless an EC2
\* instance may still get its volume, and a disk that was accepted is tagged.
Inventory ==
    pc = "read" =>
        /\ Suffix(Plan, todo)
        /\ call # "create" =>
            /\ Len(todo) < Len(Plan) => Quiet
            /\ \A p \in PartsOf(kind) :
                  Passed(p) /\ Gone(inv[p]) /\ (kind = "aws" => Gone(inv["vm"])) => Gone(cloud[p])
            /\ kind = "azure" /\ ~AllowUntagged /\ Passed("disk") /\ cloud["disk"] # "none" => tagged

\* The inductive invariant.
AbsenceInv ==
    /\ Shaped /\ JobsOwn /\ Settled /\ Requested /\ Ended /\ Grounded /\ Inventory
    /\ DiskIsTagged /\ Removing

\* One read less is left.
LEMMA OneReadLess ==
  ASSUME NEW reads \in Seq(ReadNames), NEW left, Suffix(reads, left), left # <<>>
  PROVE  /\ Suffix(reads, Tail(left)) /\ Len(Tail(left)) = Len(left) - 1 /\ Len(left) \in Nat \ {0}
         /\ Head(left) = reads[Len(reads) - Len(left) + 1]
         /\ \A p : PassedIn(reads, Tail(left), p) => PassedIn(reads, left, p) \/ p = Head(left)
<1>1. left \in Seq(ReadNames) /\ Len(left) \in Nat /\ Len(reads) \in Nat /\ Len(left) <= Len(reads)
  BY DEF Suffix
<1>2. Len(left) # 0
  BY <1>1
<1>3. Tail(left) \in Seq(ReadNames) /\ Len(Tail(left)) = Len(left) - 1
  BY <1>1, <1>2
<1>4. \A i \in 1..Len(left) - 1 : Tail(left)[i] = left[i + 1]
  BY <1>1, <1>2
<1>5. Head(left) = left[1]
  BY <1>1
<1>6. Head(left) = reads[Len(reads) - Len(left) + 1]
  BY <1>1, <1>2, <1>5 DEF Suffix
<1>7. Suffix(reads, Tail(left))
  <2>1. ASSUME NEW i \in 1..Len(Tail(left)) PROVE Tail(left)[i] = reads[Len(reads) - Len(Tail(left)) + i]
    <3>1. Tail(left)[i] = left[i + 1] /\ i + 1 \in 1..Len(left)
      BY <1>1, <1>2, <1>3, <1>4
    <3>2. left[i + 1] = reads[Len(reads) - Len(left) + (i + 1)]
      BY <3>1 DEF Suffix
    <3>3. Len(reads) - Len(left) + (i + 1) = Len(reads) - Len(Tail(left)) + i
      BY <1>1, <1>3
    <3>. QED
      BY <3>1, <3>2, <3>3
  <2>. QED
    BY <1>1, <1>3, <2>1 DEF Suffix
<1>8. ASSUME NEW p, PassedIn(reads, Tail(left), p) PROVE PassedIn(reads, left, p) \/ p = Head(left)
  <2>1. PICK i \in 1..(Len(reads) - Len(Tail(left))) : reads[i] = p
    BY <1>8 DEF PassedIn
  <2>2. i \in 1..(Len(reads) - Len(left)) \/ i = Len(reads) - Len(left) + 1
    BY <1>1, <1>3
  <2>. QED
    BY <1>6, <2>1, <2>2 DEF PassedIn
<1>. QED
  BY <1>1, <1>2, <1>3, <1>6, <1>7, <1>8

\* An inventory asks for the operation, or for the disk and its deployment, before
\* anything else, and leaves out no part; EC2's begins with the instance.
LEMMA Plans ==
  ASSUME NEW k \in Kinds, NEW c \in Calls
  PROVE  /\ Reads(k, c) \in Seq(ReadNames) /\ Len(Reads(k, c)) \in Nat \ {0}
         /\ k = "gcp" /\ c \notin {"create", "capacity"} => Reads(k, c)[1] = "job"
         /\ k = "azure" /\ c \notin {"create", "finish", "confirm"} => Reads(k, c)[1] = "job"
         /\ k = "azure" /\ c \in {"finish", "confirm"} => Reads(k, c)[1] = "disk"
         /\ k = "aws" => Reads(k, c) = <<"vm", "disk", "nic", "disk", "nic">>
         /\ c \in {"capacity", "reconcile", "recovered", "observe", "delete"} =>
                \A p \in PartsOf(k) : PassedIn(Reads(k, c), <<>>, p)
<1> DEFINE aws    == <<"vm", "disk", "nic", "disk", "nic">>
           gcp    == <<"vm", "disk">>
           jobgcp == <<"job">> \o <<"vm", "disk">>
           azure  == <<"job">> \o <<"list", "vm", "nic", "disk">>
           vacant == <<"job", "vm", "nic", "disk">>
           finish == <<"disk", "vm">> \o <<"list", "vm", "nic", "disk">>
           bind   == <<"disk", "vm">>
<1>2. /\ k = "aws" => Reads(k, c) = aws
      /\ k = "gcp" /\ c \in {"create", "capacity"} => Reads(k, c) = gcp
      /\ k = "gcp" /\ c \notin {"create", "capacity"} => Reads(k, c) = jobgcp
      /\ k = "azure" /\ c = "create" => Reads(k, c) = vacant
      /\ k = "azure" /\ c = "finish" => Reads(k, c) = finish
      /\ k = "azure" /\ c = "confirm" => Reads(k, c) = bind
      /\ k = "azure" /\ c \notin {"create", "finish", "confirm"} => Reads(k, c) = azure
  BY DEF Reads, awsInventory, gcpInventory, requireVacantCreation, azureDiskBinding, azureInventory
<1>3. \A s \in {aws, gcp, jobgcp, azure, vacant, finish, bind} : s \in Seq(ReadNames) /\ Len(s) \in Nat \ {0}
  <2>1. {"job", "list", "vm", "nic", "disk"} \subseteq ReadNames
    BY DEF ReadNames, Parts
  <2>2. <<"job">> \in Seq(ReadNames) /\ Len(<<"job">>) = 1
    BY <2>1
  <2>3. <<"list", "vm", "nic", "disk">> \in Seq(ReadNames) /\ Len(<<"list", "vm", "nic", "disk">>) = 4
    BY <2>1
  <2>4. gcp \in Seq(ReadNames) /\ Len(gcp) = 2 /\ bind \in Seq(ReadNames) /\ Len(bind) = 2
    BY <2>1
  <2>5. vacant \in Seq(ReadNames) /\ Len(vacant) = 4
    BY <2>1
  <2>6. aws \in Seq(ReadNames) /\ Len(aws) = 5
    BY <2>1
  <2>7. jobgcp \in Seq(ReadNames) /\ Len(jobgcp) = 3
    BY <2>2, <2>4
  <2>8. azure \in Seq(ReadNames) /\ Len(azure) = 5
    BY <2>2, <2>3
  <2>9. finish \in Seq(ReadNames) /\ Len(finish) = 6
    BY <2>3, <2>4
  <2> HIDE DEF aws, gcp, jobgcp, azure, vacant, finish, bind
  <2>10. {1, 2, 3, 4, 5, 6} \subseteq Nat \ {0}
    OBVIOUS
  <2>11. \A n \in {1, 2, 3, 4, 5, 6} : n \in Nat \ {0}
    BY Zenon, <2>10
  <2>. QED
    BY Zenon, <2>4, <2>5, <2>6, <2>7, <2>8, <2>9, <2>11
<1>4. k \in {"aws", "gcp", "azure"}
  BY DEF Kinds
<1>5. ASSUME NEW s \in Seq(ReadNames), NEW p, NEW i \in 1..Len(s), s[i] = p PROVE PassedIn(s, <<>>, p)
  BY <1>5 DEF PassedIn
<1>6. \A p \in Parts : PassedIn(aws, <<>>, p) /\ PassedIn(azure, <<>>, p)
  <2>1. aws[1] = "vm" /\ aws[2] = "disk" /\ aws[3] = "nic" /\ {1, 2, 3} \subseteq 1..Len(aws)
    OBVIOUS
  <2>2. azure[3] = "vm" /\ azure[4] = "nic" /\ azure[5] = "disk" /\ {3, 4, 5} \subseteq 1..Len(azure)
    OBVIOUS
  <2> HIDE DEF aws, azure
  <2>. QED
    BY <1>3, <1>5, <2>1, <2>2 DEF Parts
<1>7. \A p \in {"vm", "disk"} : PassedIn(gcp, <<>>, p) /\ PassedIn(jobgcp, <<>>, p)
  <2>1. gcp[1] = "vm" /\ gcp[2] = "disk" /\ {1, 2} \subseteq 1..Len(gcp)
    OBVIOUS
  <2>2. jobgcp[2] = "vm" /\ jobgcp[3] = "disk" /\ {2, 3} \subseteq 1..Len(jobgcp)
    OBVIOUS
  <2> HIDE DEF gcp, jobgcp
  <2>. QED
    BY <1>3, <1>5, <2>1, <2>2
<1>8. jobgcp[1] = "job" /\ azure[1] = "job" /\ finish[1] = "disk" /\ bind[1] = "disk"
  OBVIOUS
<1>9. k = "aws" => Reads(k, c) = <<"vm", "disk", "nic", "disk", "nic">>
  BY <1>2
<1> HIDE DEF aws, gcp, jobgcp, azure, vacant, finish, bind
<1>10. Reads(k, c) \in {aws, gcp, jobgcp, azure, vacant, finish, bind}
  BY <1>2, <1>4
<1>11. Reads(k, c) \in Seq(ReadNames) /\ Len(Reads(k, c)) \in Nat \ {0}
  BY Zenon, <1>3, <1>10
<1>12. /\ k = "gcp" /\ c \notin {"create", "capacity"} => Reads(k, c)[1] = "job"
       /\ k = "azure" /\ c \notin {"create", "finish", "confirm"} => Reads(k, c)[1] = "job"
       /\ k = "azure" /\ c \in {"finish", "confirm"} => Reads(k, c)[1] = "disk"
  BY <1>2, <1>8
<1>13. c \in {"capacity", "reconcile", "recovered", "observe", "delete"} =>
           \A p \in PartsOf(k) : PassedIn(Reads(k, c), <<>>, p)
  BY <1>2, <1>4, <1>6, <1>7 DEF PartsOf
<1>. QED
  BY Zenon, <1>9, <1>11, <1>12, <1>13
\* A request identity is one of the table.
LEMMA KeyInTable ==
  ASSUME kind \in Kinds, NEW n \in Attempts
  PROVE  RequestKey(n) \in Attempts
<1>1. 1 \in Attempts /\ Zone[n] \in Attempts
  BY AttemptsAssumption, ZoneAssumption DEF Attempts
<1>. QED
  BY <1>1 DEF RequestKey, Kinds

\* So is the one of the current attempt.
LEMMA KeyInRange ==
  ASSUME Shaped
  PROVE  RequestKey(rec.attempt) \in Attempts /\ Job \in [st: JobStates, of: Nat]
<1>1. kind \in Kinds /\ rec.attempt \in Attempts /\ jobs \in [Attempts -> [st: JobStates, of: Nat]]
  BY DEF Shaped
<1>2. RequestKey(rec.attempt) \in Attempts
  BY Zenon, <1>1, KeyInTable
<1>. QED
  BY Zenon, <1>1, <1>2 DEF Job

\* What runs is the current attempt's request.
LEMMA OnlyJobRuns ==
  ASSUME Shaped, JobsOwn, NEW n \in Attempts, jobs[n].st = "running"
  PROVE  n = RequestKey(rec.attempt) /\ ~Quiet
<1>1. jobs[n].of = rec.attempt /\ RequestKey(jobs[n].of) = n
  BY DEF JobsOwn
<1>. QED
  BY <1>1 DEF Quiet, Job

\* The table stands for the same in a step that leaves it and the attempt alone.
LEMMA JobsKept ==
  ASSUME JobsOwn, UNCHANGED <<kind, jobs>>, rec'.attempt = rec.attempt
  PROVE  JobsOwn' /\ Job' = Job /\ (Quiet' <=> Quiet) /\ (OwnRefusal' <=> OwnRefusal)
<1>1. \A n : RequestKey(n)' = RequestKey(n)
  BY Zenon DEF RequestKey
<1>2. JobsOwn'
  BY Zenon, <1>1 DEF JobsOwn
<1>3. Job' = Job
  BY Zenon, <1>1 DEF Job
<1>. QED
  BY Zenon, <1>2, <1>3 DEF Quiet, OwnRefusal

\* When an inventory is complete, no request is running; and if it found nothing,
\* there is nothing: gcpObservation, azureObservation and the AWS observation.
LEMMA Verdict ==
  ASSUME AbsenceInv, pc = "read", todo = <<>>, call # "create"
  PROVE  /\ Quiet
         /\ call \in {"capacity", "reconcile", "recovered", "observe"} /\ ~Exists => Present(cloud) = {}
<1>1. Shaped /\ Inventory /\ Grounded
  BY DEF AbsenceInv
<1>2. kind \in Kinds /\ call \in Calls
  BY <1>1 DEF Shaped
<1>3. Len(Plan) \in Nat \ {0}
  BY <1>2, Plans DEF Plan
<1>4. Len(todo) = 0
  OBVIOUS
<1>5. Quiet
  BY <1>1, <1>3, <1>4 DEF Inventory
<1>6. ASSUME call \in {"capacity", "reconcile", "recovered", "observe"}, ~Exists, NEW q \in Present(cloud)
      PROVE  FALSE
  <2>1. q \in PartsOf(kind) /\ ~Gone(cloud[q])
    BY <1>1 DEF Grounded, Present
  <2>2. Passed(q)
    BY <1>2, <1>6, <2>1, Plans DEF Plan, Passed
  <2>3. \A p \in Parts : Gone(inv[p])
    BY Zenon, <1>6 DEF Exists, Present
  <2>4. q \in Parts /\ "vm" \in Parts
    BY <2>1 DEF PartsOf, Parts
  <2>. QED
    BY Zenon, <1>1, <2>1, <2>2, <2>3, <2>4 DEF Inventory
<1>. QED
  BY <1>5, <1>6

\* The end of a call, whatever it has recorded.
LEMMA ReturnStep ==
  ASSUME AbsenceInv, Return, UNCHANGED <<kind, made, jobs>>,
         cloud' \in [Parts -> PartStates], \A p \in Parts : Gone(cloud[p]) => Gone(cloud'[p]),
         rec' \in Records, rec'.attempt = rec.attempt,
         kind = "aws" \/ rec'.phase # "Creating" => Quiet,
         rec'.phase \in {"Deleted", "Rejected"} => Present(cloud') = {},
         DiskIsTagged'
  PROVE  AbsenceInv'
<1>1. /\ pc' = "idle" /\ call' = "observe" /\ inv' = NoneRead
  BY DEF Return
<1>2. JobsOwn' /\ Job' = Job /\ (Quiet' <=> Quiet) /\ (OwnRefusal' <=> OwnRefusal)
  BY Zenon, JobsKept DEF AbsenceInv
<1>3. Shaped'
  <2>1. NoneRead \in [Parts -> PartStates]
    BY DEF NoneRead, PartStates
  <2>2. "observe" \in Calls
    BY DEF Calls
  <2>. QED
    BY Zenon, <1>1, <2>1, <2>2 DEF AbsenceInv, Shaped
<1>4. JobsOwn'
  BY <1>2
<1>5. Settled' /\ Requested' /\ Ended' /\ Inventory' /\ Removing'
  BY Zenon, <1>1, <1>2 DEF Settled, Requested, Ended, Inventory, Removing, VMGoesFirst
<1>6. Grounded'
  <2>1. Present(cloud') \subseteq Present(cloud)
    BY Zenon DEF Present
  <2>. QED
    BY Zenon, <1>2, <2>1 DEF AbsenceInv, Grounded
<1>. QED
  BY Zenon, <1>3, <1>4, <1>5, <1>6 DEF AbsenceInv

\* One call follows another, with nothing read yet.
LEMMA CallStep ==
  ASSUME AbsenceInv, NEW c \in Calls \ {"create"}, Call(c), UNCHANGED <<kind, cloud, made, jobs>>,
         rec' \in Records, rec'.attempt = rec.attempt, rec'.phase \notin {"Deleted", "Rejected"},
         kind = "aws" \/ rec'.phase # "Creating" => Quiet,
         c = "capacity" => OwnRefusal /\ Job.st = "capacity",
         DiskIsTagged'
  PROVE  AbsenceInv'
<1>1. pc' = "read" /\ call' = c /\ inv' = NoneRead /\ todo' = Reads(kind, c)
  BY DEF Call
<1>2. JobsOwn' /\ Job' = Job /\ (Quiet' <=> Quiet) /\ (OwnRefusal' <=> OwnRefusal)
  BY Zenon, JobsKept DEF AbsenceInv
<1>3. Shaped'
  <2>1. NoneRead \in [Parts -> PartStates]
    BY DEF NoneRead, PartStates
  <2>. QED
    BY Zenon, <1>1, <2>1 DEF AbsenceInv, Shaped
<1>4. JobsOwn'
  BY <1>2
<1>5. Settled' /\ Requested' /\ Ended' /\ Removing'
  BY Zenon, <1>1, <1>2 DEF Settled, Requested, Ended, Removing, VMGoesFirst
<1>6. Grounded'
  BY Zenon, <1>2 DEF AbsenceInv, Grounded
<1>7. Inventory'
  <2>1. Reads(kind, c) \in Seq(ReadNames) /\ Len(Reads(kind, c)) \in Nat
    <3>1. kind \in Kinds /\ c \in Calls
      BY DEF AbsenceInv, Shaped
    <3>. QED
      BY <3>1, Plans
  <2>2. Plan' = Reads(kind, c)
    BY Zenon, <1>1 DEF Plan
  <2>3. Suffix(Reads(kind, c), Reads(kind, c))
    BY <2>1 DEF Suffix
  <2>4. \A p : ~PassedIn(Reads(kind, c), Reads(kind, c), p)
    BY <2>1 DEF PassedIn
  <2>5. ~(Len(Reads(kind, c)) < Len(Reads(kind, c)))
    BY <2>1
  <2>. QED
    BY Zenon, <1>1, <2>2, <2>3, <2>4, <2>5 DEF Inventory, Passed
<1>. QED
  BY Zenon, <1>3, <1>4, <1>5, <1>6, <1>7 DEF AbsenceInv

\* The choice of the part to remove is a function of what was read.
LEMMA SameTarget ==
  ASSUME UNCHANGED <<kind, inv>>
  PROVE  Target' = Target
<1>1. \A s : Removable(s)' <=> Removable(s)
  BY Zenon DEF Removable
<1>2. ASSUME NEW parts PROVE FirstOf(parts)' = FirstOf(parts)
  <2> DEFINE least(ns) == CHOOSE i \in ns : \A j \in ns : i <= j
             free == {i \in DOMAIN parts : Removable(inv[parts[i]])}
  <2>1. free' = free
    BY Zenon, <1>1
  <2>2. FirstOf(parts) = IF ~Gone(inv["vm"]) THEN "vm"
                         ELSE IF free # {} THEN parts[least(free)] ELSE NoPart
    BY Zenon DEF FirstOf
  <2>3. FirstOf(parts)' = IF ~Gone(inv'["vm"]) THEN "vm"
                          ELSE IF free' # {} THEN parts[least(free')] ELSE NoPart
    BY Zenon DEF FirstOf
  <2> HIDE DEF free, least
  <2>. QED
    BY <2>1, <2>2, <2>3
<1>3. deleteAWS' = deleteAWS /\ deleteGCP' = deleteGCP /\ deleteAzure' = deleteAzure
  BY Zenon, <1>2 DEF deleteAWS, deleteGCP, deleteAzure
<1>. QED
  BY Zenon, <1>3 DEF Target

\* The cloud moves on: nothing that has gone comes back.
LEMMA CloudStep ==
  ASSUME AbsenceInv, UNCHANGED <<kind, made, tagged, jobs, rec, local>>,
         cloud' \in [Parts -> PartStates], \A p \in Parts : Gone(cloud[p]) => Gone(cloud'[p]),
         cloud["disk"] = "none" => cloud'["disk"] = "none"
  PROVE  AbsenceInv'
<1>1. UNCHANGED <<pc, call, creating, todo, inv, listed>>
  BY Zenon DEF local
<1>0. JobsOwn' /\ Job' = Job /\ (Quiet' <=> Quiet) /\ (OwnRefusal' <=> OwnRefusal)
  BY Zenon, JobsKept DEF AbsenceInv
<1>2. Plan' = Plan /\ (AllowUntagged' <=> AllowUntagged)
  BY Zenon, <1>1 DEF Plan, AllowUntagged
<1>3. Shaped' /\ JobsOwn'
  BY Zenon, <1>0, <1>1 DEF AbsenceInv, Shaped
<1>4. Settled' /\ Requested'
  BY Zenon, <1>0, <1>1 DEF AbsenceInv, Settled, Requested
<1>5. Present(cloud') \subseteq Present(cloud)
  BY Zenon DEF Present
<1>6. Ended'
  BY Zenon, <1>1, <1>5 DEF AbsenceInv, Ended
<1>7. Grounded'
  BY Zenon, <1>0, <1>5 DEF AbsenceInv, Grounded
<1>8. DiskIsTagged'
  BY Zenon DEF AbsenceInv, DiskIsTagged
<1>9. Removing'
  <2>1. Target' = Target /\ "vm" \in Parts
    BY Zenon, <1>1, SameTarget DEF Parts
  <2>. QED
    BY Zenon, <1>0, <1>1, <2>1 DEF AbsenceInv, Removing, VMGoesFirst
<1>10. Inventory'
  <2>1. \A p : Passed(p)' <=> Passed(p)
    BY Zenon, <1>1, <1>2 DEF Passed
  <2>2. PartsOf(kind) \subseteq Parts
    BY DEF PartsOf, Parts
  <2>. QED
    BY Zenon, <1>0, <1>1, <1>2, <2>1, <2>2 DEF AbsenceInv, Inventory
<1>. QED
  BY Zenon, <1>3, <1>4, <1>6, <1>7, <1>8, <1>9, <1>10 DEF AbsenceInv
\* deleteAWS, deleteGCP and deleteAzure choose the VM as long as they see it.
LEMMA VMIsChosen ==
  ASSUME kind \in Kinds, Target \notin {NoPart, "vm"}
  PROVE  Gone(inv["vm"])
<1>1. PICK parts \in {<<"disk", "nic">>, <<"nic", "disk">>, <<"disk">>} : Target = FirstOf(parts)
  BY Zenon DEF Target, deleteAWS, deleteGCP, deleteAzure, Kinds
<1>. QED
  BY Zenon, <1>1 DEF FirstOf

\* Delete decides on the inventory and the record it has, and neither changes
\* before the request goes out.
LEMMA DeleteStep ==
  ASSUME AbsenceInv, Delete
  PROVE  AbsenceInv'
<1>1. pc = "read" /\ todo = <<>> /\ call = "delete" /\ UNCHANGED <<world, rec>>
  BY Zenon DEF Delete, Done
<1>2. UNCHANGED <<kind, cloud, made, tagged, jobs, rec>>
  BY Zenon, <1>1 DEF world
<1>3. JobsOwn' /\ Job' = Job /\ (Quiet' <=> Quiet)
  BY Zenon, <1>2, JobsKept DEF AbsenceInv
<1>4. DiskIsTagged'
  BY Zenon, <1>2 DEF AbsenceInv, DiskIsTagged
<1>5. CASE Return
  <2>1. /\ rec \in Records /\ cloud \in [Parts -> PartStates]
        /\ kind = "aws" \/ rec.phase # "Creating" => Quiet
        /\ rec.phase \notin {"Deleted", "Rejected"}
    BY <1>1 DEF AbsenceInv, Shaped, Settled, Ended
  <2>. QED
    BY Zenon, <1>2, <1>4, <1>5, <2>1, ReturnStep
<1>6. CASE ~Return
  <2>1. /\ pc' = "remove" /\ UNCHANGED <<call, creating, todo, inv, listed>>
        /\ Target # NoPart
    BY Zenon, <1>6 DEF Delete
  <2>2. Shaped' /\ JobsOwn'
    BY Zenon, <1>2, <1>3, <2>1 DEF AbsenceInv, Shaped
  <2>3. Settled'
    BY Zenon, <1>1, <1>2, <1>3, <2>1 DEF AbsenceInv, Settled
  <2>4. Requested' /\ Inventory'
    BY Zenon, <2>1 DEF Requested, Inventory
  <2>5. Ended'
    BY <1>1, <1>2 DEF AbsenceInv, Ended
  <2>6. Grounded'
    BY Zenon, <1>2, <1>3 DEF AbsenceInv, Grounded
  <2>7. Removing'
    <3>1. Quiet
      BY <1>1, Verdict
    <3>2. Target' = Target
      BY Zenon, <1>2, <2>1, SameTarget
    <3>3. ASSUME Target # "vm" PROVE Gone(cloud["vm"])
      <4>1. Shaped /\ Inventory /\ kind \in Kinds /\ "vm" \in PartsOf(kind) /\ call \in Calls
        BY DEF AbsenceInv, Shaped, PartsOf, Parts
      <4>2. Gone(inv["vm"])
        BY Zenon, <2>1, <3>3, <4>1, VMIsChosen
      <4>3. Passed("vm")
        BY <1>1, <4>1, Plans DEF Passed, Plan
      <4>. QED
        BY <1>1, <4>1, <4>2, <4>3 DEF Inventory
    <3>. QED
      BY Zenon, <1>2, <1>3, <3>1, <3>2, <3>3 DEF Removing, VMGoesFirst
  <2>. QED
    BY Zenon, <1>4, <2>2, <2>3, <2>4, <2>5, <2>6, <2>7 DEF AbsenceInv
<1>. QED
  BY <1>5, <1>6
\* What the first read of an inventory establishes: the request has ended.
LEMMA FirstReadSettles ==
  ASSUME AbsenceInv, pc = "read", call # "create", todo # <<>>, ~ReadFails(Head(todo))
  PROVE  Quiet
<1>1. /\ Suffix(Plan, todo) /\ Len(todo) < Len(Plan) => Quiet
      /\ kind = "aws" => Quiet
      /\ call = "capacity" => Quiet
  BY DEF AbsenceInv, Inventory, Settled, Requested, Quiet
<1>2. kind \in Kinds /\ call \in Calls
  BY DEF AbsenceInv, Shaped
<1>3. Plan \in Seq(ReadNames) /\ Len(Plan) \in Nat
  BY <1>2, Plans DEF Plan
<1>4. Suffix(Plan, todo)
  BY DEF AbsenceInv, Inventory
<1>5. Len(todo) \in Nat /\ Len(todo) <= Len(Plan) /\ Head(todo) = Plan[Len(Plan) - Len(todo) + 1]
  BY <1>3, <1>4, OneReadLess DEF Suffix
<1>6. CASE Len(todo) = Len(Plan) /\ kind # "aws" /\ call # "capacity"
  <2>1. Head(todo) = Plan[1]
    BY <1>3, <1>5, <1>6
  <2>2. kind \in {"gcp", "azure"}
    BY <1>2, <1>6 DEF Kinds
  <2>3. CASE kind = "gcp"
    <3>1. Head(todo) = "job"
      BY <1>2, <1>6, <2>1, <2>3, Plans DEF Plan
    <3>. QED
      BY <1>6, <2>3, <3>1 DEF ReadFails, JobSettled, gcpCreateTerminal, Quiet
  <2>4. CASE kind = "azure" /\ call \notin {"finish", "confirm"}
    <3>1. Head(todo) = "job"
      BY <1>2, <1>6, <2>1, <2>4, Plans DEF Plan
    <3>. QED
      BY <1>6, <2>4, <3>1 DEF ReadFails, JobSettled, azureTerminal, Quiet
  <2>5. CASE kind = "azure" /\ call \in {"finish", "confirm"}
    <3>1. Head(todo) = "disk"
      BY <1>2, <1>6, <2>1, <2>5, Plans DEF Plan
    <3>. QED
      BY <2>5, <3>1 DEF ReadFails, Unbound, Quiet
  <2>. QED
    BY <2>2, <2>3, <2>4, <2>5
<1>. QED
  BY <1>1, <1>3, <1>4, <1>5, <1>6

\* The second pass of awsInventory is over parts that the first has read.
LEMMA SkippedWasRead ==
  ASSUME kind = "aws", call \in Calls, Suffix(Plan, todo), todo # <<>>, Skipped(Head(todo))
  PROVE  Passed(Head(todo)) /\ Passed("vm")
<1>1. Plan = <<"vm", "disk", "nic", "disk", "nic">> /\ Plan \in Seq(ReadNames) /\ Len(Plan) = 5
  BY Plans DEF Plan, Kinds
<1>2. Len(todo) \in Nat \ {0} /\ Head(todo) = Plan[Len(Plan) - Len(todo) + 1]
  BY Zenon, <1>1, OneReadLess
<1>3. Len(todo) \in {1, 2}
  <2>1. Len(todo) <= 2
    BY Zenon DEF Skipped
  <2>2. \A n \in Nat \ {0} : n <= 2 => n \in {1, 2}
    OBVIOUS
  <2>. QED
    BY Zenon, <1>2, <2>1, <2>2
<1>4. CASE Len(todo) = 1
  <2>1. Head(todo) = Plan[5] /\ Plan[5] = Plan[3] /\ Plan[1] = "vm"
    BY <1>1, <1>2, <1>4
  <2>2. {1, 3} \subseteq 1..(Len(Plan) - Len(todo))
    BY <1>1, <1>4
  <2>. QED
    BY Zenon, <2>1, <2>2 DEF Passed, PassedIn
<1>5. CASE Len(todo) = 2
  <2>1. Head(todo) = Plan[4] /\ Plan[4] = Plan[2] /\ Plan[1] = "vm"
    BY <1>1, <1>2, <1>5
  <2>2. {1, 2} \subseteq 1..(Len(Plan) - Len(todo))
    BY <1>1, <1>5
  <2>. QED
    BY Zenon, <2>1, <2>2 DEF Passed, PassedIn
<1>. QED
  BY <1>3, <1>4, <1>5

\* On EC2 the instance is read before anything else.
LEMMA InstanceFirst ==
  ASSUME kind = "aws", call \in Calls, NEW p, Passed(p)
  PROVE  Passed("vm")
<1>1. Plan = <<"vm", "disk", "nic", "disk", "nic">> /\ Len(Plan) = 5
  BY Plans DEF Plan, Kinds
<1>2. PICK i \in 1..(Len(Plan) - Len(todo)) : Plan[i] = p
  BY DEF Passed, PassedIn
<1>3. 1 \in 1..(Len(Plan) - Len(todo)) /\ Plan[1] = "vm"
  <2>1. Plan[1] = "vm"
    BY <1>1
  <2>. QED
    BY <1>2, <2>1
<1>. QED
  BY Zenon, <1>3 DEF Passed, PassedIn

\* A read that is answered and accepted.
LEMMA ReadOn ==
  ASSUME AbsenceInv, pc = "read", todo # <<>>, ~ReadFails(Head(todo)), todo' = Tail(todo),
         inv' = IF Head(todo) \in Parts /\ ~Skipped(Head(todo))
                THEN [inv EXCEPT ![Head(todo)] = cloud[Head(todo)]] ELSE inv,
         UNCHANGED <<pc, call, rec, kind, cloud, made, tagged, jobs>>
  PROVE  AbsenceInv'
<1> DEFINE r == Head(todo)
<1>1. Shaped /\ Inventory /\ Suffix(Plan, todo)
  BY DEF AbsenceInv, Inventory
<1>2. kind \in Kinds /\ call \in Calls
  BY <1>1 DEF Shaped
<1>3. Plan \in Seq(ReadNames) /\ Len(Plan) \in Nat
  BY <1>2, Plans DEF Plan
<1>4. /\ Suffix(Plan, Tail(todo)) /\ Len(Tail(todo)) = Len(todo) - 1 /\ Len(todo) \in Nat \ {0}
      /\ \A p : PassedIn(Plan, Tail(todo), p) => PassedIn(Plan, todo, p) \/ p = r
  BY <1>1, <1>3, OneReadLess
<1>0. JobsOwn' /\ Job' = Job /\ (Quiet' <=> Quiet) /\ (OwnRefusal' <=> OwnRefusal)
  BY Zenon, JobsKept DEF AbsenceInv
<1>5. Plan' = Plan /\ (AllowUntagged' <=> AllowUntagged)
  BY Zenon DEF Plan, AllowUntagged
<1>6. inv' \in [Parts -> PartStates]
  BY <1>1 DEF Shaped
<1>7. Shaped' /\ JobsOwn'
  BY Zenon, <1>0, <1>6 DEF AbsenceInv, Shaped
<1>8. Settled' /\ Requested' /\ Ended' /\ Grounded' /\ DiskIsTagged'
  BY Zenon, <1>0 DEF AbsenceInv, Settled, Requested, Ended, Grounded, DiskIsTagged
<1>9. Removing'
  BY DEF Removing, VMGoesFirst
<1>10. ASSUME call # "create" PROVE Quiet
  BY <1>10, FirstReadSettles
<1>11. \A p : Passed(p)' => Passed(p) \/ p = r
  BY Zenon, <1>4, <1>5 DEF Passed
<1>12. PartsOf(kind) \subseteq Parts /\ "vm" \in Parts
  BY DEF PartsOf, Parts
<1>13. ASSUME call # "create", NEW p \in PartsOf(kind), Passed(p)', Gone(inv'[p]), kind = "aws" => Gone(inv'["vm"])
       PROVE  Gone(cloud[p])
  <2>1. \A q \in PartsOf(kind) : Passed(q) /\ Gone(inv[q]) /\ (kind = "aws" => Gone(inv["vm"])) => Gone(cloud[q])
    BY <1>1, <1>13 DEF Inventory
  <2>2. inv \in [Parts -> PartStates] /\ p \in Parts
    BY <1>1, <1>12 DEF Shaped
  <2>3. CASE r \in Parts /\ ~Skipped(r)
    <3>1. inv' = [inv EXCEPT ![r] = cloud[r]]
      BY <2>3
    <3>2. CASE p = r
      <4>1. inv'[p] = cloud[p]
        BY <2>2, <3>1, <3>2
      <4>. QED
        BY Zenon, <1>13, <4>1
    <3>3. CASE p # r
      <4>1. inv'[p] = inv[p] /\ Passed(p)
        BY <1>11, <1>13, <2>2, <3>1, <3>3
      <4>2. CASE kind = "aws" /\ r = "vm"
        <5>1. Gone(cloud["vm"])
          <6>1. inv'["vm"] = cloud["vm"]
            BY <1>12, <2>2, <3>1, <4>2
          <6>. QED
            BY Zenon, <1>13, <4>2, <6>1
        <5>2. FALSE
          <6>1. Plan = <<"vm", "disk", "nic", "disk", "nic">> /\ Len(Plan) = 5
            BY <1>2, <4>2, Plans DEF Plan
          <6>2. Head(todo) = Plan[Len(Plan) - Len(todo) + 1] /\ Len(todo) <= 5
            BY <1>1, <1>3, <6>1, OneReadLess DEF Suffix
          <6>3. Len(Plan) - Len(todo) + 1 \in 1..5
            BY <1>4, <6>1, <6>2
          <6>4. \A i \in 1..5 : Plan[i] = "vm" => i = 1
            BY <6>1
          <6>5. Len(todo) = 5
            BY <1>4, <4>2, <6>1, <6>2, <6>3, <6>4
          <6>6. PICK i \in 1..(Len(Plan) - Len(todo)) : Plan[i] = p
            BY <4>1 DEF Passed, PassedIn
          <6>. QED
            BY <6>1, <6>5, <6>6
        <5>. QED
          BY <5>2
      <4>3. CASE kind # "aws" \/ r # "vm"
        <5>1. kind = "aws" => inv'["vm"] = inv["vm"]
          BY <1>12, <2>2, <3>1, <4>3
        <5>. QED
          BY Zenon, <1>13, <2>1, <4>1, <5>1
      <4>. QED
        BY <4>2, <4>3
    <3>. QED
      BY <3>2, <3>3
  <2>4. CASE ~(r \in Parts /\ ~Skipped(r))
    <3>1. inv' = inv
      BY Zenon, <2>4
    <3>2. Passed(p)
      <4>1. CASE p # r
        BY Zenon, <1>11, <1>13, <4>1
      <4>2. CASE p = r
        <5>1. Skipped(r) /\ kind = "aws"
          BY <2>2, <2>4, <4>2 DEF Skipped
        <5>. QED
          BY Zenon, <1>1, <1>2, <4>2, <5>1, SkippedWasRead
      <4>. QED
        BY <4>1, <4>2
    <3>. QED
      BY Zenon, <1>13, <2>1, <3>1, <3>2
  <2>. QED
    BY <2>3, <2>4
<1>14. ASSUME call # "create", kind = "azure", ~AllowUntagged, Passed("disk")', cloud["disk"] # "none"
       PROVE  tagged
  <2>1. CASE Passed("disk")
    BY Zenon, <1>1, <1>14, <2>1 DEF Inventory
  <2>2. CASE r = "disk"
    BY <1>14, <2>2 DEF ReadFails, Owned
  <2>. QED
    BY <1>11, <1>14, <2>1, <2>2
<1>15. Inventory'
  BY Zenon, <1>0, <1>4, <1>5, <1>10, <1>13, <1>14 DEF Inventory
<1>. QED
  BY Zenon, <1>7, <1>8, <1>9, <1>15 DEF AbsenceInv
\* A request that is running makes parts only before anything is read; an EC2
\* volume may come late, while its instance is up.
LEMMA ProvisionStep ==
  ASSUME AbsenceInv, NEW q \in Parts, Provision(q)
  PROVE  AbsenceInv'
<1>1. /\ q \in PartsOf(kind) /\ made' = made \cup {q}
      /\ UNCHANGED <<kind, jobs, rec, pc, call, creating, todo, inv, listed>>
      /\ (\E n \in Attempts : Running(n)) \/ (kind = "aws" /\ q = "disk" /\ Job.st = "done" /\ cloud["vm"] = "up")
  BY Zenon DEF Provision, local
<1>2. cloud' = [p \in Parts |->
                    IF p = q THEN (IF q = "vm" \/ cloud["vm"] = "up" THEN "up" ELSE "free")
                    ELSE IF q = "vm" /\ cloud[p] = "free" THEN "up" ELSE cloud[p]]
  BY Zenon DEF Provision
<1>3. Shaped /\ JobsOwn /\ Settled /\ Ended /\ Grounded /\ Inventory
  BY DEF AbsenceInv
<1>0. JobsOwn' /\ (OwnRefusal' <=> OwnRefusal)
  BY Zenon, <1>1, <1>3, JobsKept
<1>4. Job' = Job /\ (Quiet' <=> Quiet) /\ Plan' = Plan /\ (AllowUntagged' <=> AllowUntagged)
  BY Zenon, <1>1 DEF Job, Quiet, RequestKey, Plan, AllowUntagged
<1>5. cloud' \in [Parts -> PartStates] /\ \A p \in Parts \ {q} : Gone(cloud[p]) => cloud'[p] = cloud[p]
  BY <1>2, <1>3 DEF Shaped, PartStates, Gone
<1>6. Shaped' /\ JobsOwn' /\ Settled' /\ Requested'
  BY Zenon, <1>0, <1>1, <1>4, <1>5 DEF AbsenceInv, Shaped, Settled, Requested
<1>7. q # "vm" \/ ~Quiet => Removing'
  <2>1. Target' = Target /\ "vm" \in Parts
    BY Zenon, <1>1, SameTarget DEF Parts
  <2>2. Removing
    BY DEF AbsenceInv
  <2>3. CASE q # "vm"
    <3>1. Gone(cloud["vm"]) => cloud'["vm"] = cloud["vm"]
      BY Zenon, <1>5, <2>1, <2>3
    <3>. QED
      BY Zenon, <1>1, <1>4, <2>1, <2>2, <3>1 DEF Removing, VMGoesFirst
  <2>4. CASE ~Quiet
    BY Zenon, <1>1, <2>2, <2>4 DEF Removing, VMGoesFirst
  <2>. QED
    BY <2>3, <2>4
<1>8. made' \subseteq PartsOf(kind) /\ Present(cloud') \subseteq made'
  <2>1. made \subseteq PartsOf(kind) /\ Present(cloud) \subseteq made
    BY <1>3 DEF Grounded
  <2>2. Present(cloud') \subseteq Present(cloud) \cup {q}
    <3>1. ASSUME NEW p \in Parts, ~Gone(cloud'[p]), p # q PROVE ~Gone(cloud[p])
      BY Zenon, <1>5, <3>1
    <3>. QED
      BY Zenon, <3>1 DEF Present
  <2>. QED
    BY Zenon, <1>1, <2>1, <2>2
<1>9. CASE \E n \in Attempts : Running(n)
  <2>1. ~Quiet
    BY Zenon, <1>3, <1>9, OnlyJobRuns DEF Running
  <2>2. rec.phase = "Creating"
    BY <1>3, <2>1 DEF Settled
  <2>3. Ended' /\ DiskIsTagged'
    BY <1>1, <2>2 DEF Ended, DiskIsTagged
  <2>4. Grounded'
    <3>1. Job.st # "capacity"
      BY <2>1 DEF Quiet
    <3>. QED
      BY Zenon, <1>1, <1>4, <1>8, <3>1 DEF Grounded
  <2>5. Inventory'
    <3>1. pc = "read" /\ call # "create" => \A p : ~Passed(p)
      <4>1. SUFFICES ASSUME pc = "read", call # "create", NEW p, Passed(p) PROVE FALSE
        BY Zenon
      <4>2. Suffix(Plan, todo) /\ ~(Len(todo) < Len(Plan))
        BY <1>3, <2>1, <4>1 DEF Inventory
      <4>3. Plan \in Seq(ReadNames) /\ Len(Plan) \in Nat
        BY <1>3, Plans DEF Plan, Shaped
      <4>4. Len(todo) \in Nat
        BY <4>2 DEF Suffix
      <4>5. PICK i \in 1..(Len(Plan) - Len(todo)) : Plan[i] = p
        BY <4>1 DEF Passed, PassedIn
      <4>. QED
        BY <4>2, <4>3, <4>4, <4>5
    <3>2. \A p : Passed(p)' <=> Passed(p)
      BY Zenon, <1>1, <1>4 DEF Passed
    <3>. QED
      BY Zenon, <1>1, <1>3, <1>4, <3>1, <3>2 DEF Inventory
  <2>. QED
    BY Zenon, <1>6, <1>7, <2>1, <2>3, <2>4, <2>5 DEF AbsenceInv
<1>10. CASE kind = "aws" /\ q = "disk" /\ Job.st = "done" /\ cloud["vm"] = "up"
  <2>0. "vm" \in Parts /\ ~Gone(cloud["vm"])
    BY <1>10 DEF Parts, Gone
  <2>1. rec.phase \notin {"Deleted", "Rejected"}
    BY Zenon, <1>3, <2>0 DEF Ended, Present
  <2>2. Ended' /\ DiskIsTagged'
    BY <1>1, <1>10, <2>1 DEF Ended, DiskIsTagged
  <2>3. Grounded'
    BY <1>1, <1>4, <1>8, <1>10 DEF Grounded
  <2>4. ASSUME pc = "read", call # "create", NEW p, Passed(p), Gone(inv["vm"]) PROVE FALSE
    <3>1. Passed("vm")
      BY <1>3, <1>10, <2>4, InstanceFirst DEF Shaped
    <3>2. "vm" \in PartsOf(kind)
      BY <1>10 DEF PartsOf, Parts
    <3>. QED
      BY Zenon, <1>3, <2>0, <2>4, <3>1, <3>2 DEF Inventory
  <2>5. \A p : Passed(p)' <=> Passed(p)
    BY Zenon, <1>1, <1>4 DEF Passed
  <2>6. Inventory'
    BY Zenon, <1>1, <1>3, <1>4, <1>10, <2>4, <2>5 DEF Inventory
  <2>7. Removing'
    BY <1>7, <1>10
  <2>. QED
    BY Zenon, <1>6, <2>2, <2>3, <2>6, <2>7 DEF AbsenceInv
<1>. QED
  BY <1>1, <1>9, <1>10

\* A request ends once.
LEMMA JobEndsStep ==
  ASSUME AbsenceInv, NEW n \in Attempts, JobEnds(n)
  PROVE  AbsenceInv'
<1>1. PICK st \in {"done", "failed", "capacity"} :
         /\ st # "done" => (kind = "aws" => made = {})
         /\ jobs' = [jobs EXCEPT ![n].st = st]
  BY Zenon DEF JobEnds
<1>2. Running(n) /\ UNCHANGED <<kind, cloud, made, tagged, rec, pc, call, creating, todo, inv, listed>>
  BY Zenon DEF JobEnds, local
<1>3. Shaped /\ JobsOwn
  BY DEF AbsenceInv
<1>4. n = RequestKey(rec.attempt) /\ ~Quiet
  BY Zenon, <1>2, <1>3, OnlyJobRuns DEF Running
<1>5. jobs[n] \in [st: JobStates, of: Nat]
  BY <1>3 DEF Shaped
<1>6. /\ jobs' \in [Attempts -> [st: JobStates, of: Nat]]
      /\ jobs'[n].st = st /\ jobs'[n].of = jobs[n].of
      /\ \A m \in Attempts \ {n} : jobs'[m] = jobs[m]
  BY <1>1, <1>3, <1>5 DEF Shaped, JobStates
<1>7. RequestKey(rec.attempt)' = RequestKey(rec.attempt) /\ \A m : RequestKey(m)' = RequestKey(m)
  BY Zenon, <1>2 DEF RequestKey
<1>8. Job'.st = st /\ Job'.of = Job.of /\ Quiet'
  BY <1>4, <1>6, <1>7 DEF Job, Quiet
<1>9. Shaped'
  BY Zenon, <1>2, <1>3, <1>6 DEF Shaped
<1>10. JobsOwn'
  <2>1. jobs[n].st = "running"
    BY <1>2 DEF Running
  <2>2. ASSUME NEW m \in Attempts
        PROVE  /\ jobs'[m].of = jobs[m].of /\ (jobs[m].st = "none" <=> jobs'[m].st = "none")
               /\ jobs'[m].st = "running" => jobs[m].st = "running"
    BY <1>6, <2>1
  <2>. QED
    BY Zenon, <1>2, <1>3, <1>7, <2>2 DEF JobsOwn
<1>11. Settled' /\ Ended' /\ DiskIsTagged'
  BY Zenon, <1>2, <1>8 DEF AbsenceInv, Settled, Ended, DiskIsTagged
<1>12. Requested'
  BY Zenon, <1>2, <1>4, <1>8 DEF AbsenceInv, Requested, Quiet, OwnRefusal
<1>13. Grounded'
  BY <1>1, <1>2, <1>8 DEF AbsenceInv, Grounded
<1>14. Removing'
  BY Zenon, <1>2, <1>4 DEF AbsenceInv, Removing, VMGoesFirst
<1>15. Inventory'
  <2>1. Plan' = Plan /\ (AllowUntagged' <=> AllowUntagged)
    BY Zenon, <1>2 DEF Plan, AllowUntagged
  <2>2. \A p : Passed(p)' <=> Passed(p)
    BY Zenon, <1>2, <2>1 DEF Passed
  <2>. QED
    BY Zenon, <1>2, <1>8, <2>1, <2>2 DEF AbsenceInv, Inventory
<1>. QED
  BY Zenon, <1>9, <1>10, <1>11, <1>12, <1>13, <1>14, <1>15 DEF AbsenceInv
\* The preflight found the identity vacant.  On Azure, where all attempts have the
\* same, that is what makes the answer this attempt's; on GCP it is the answer that
\* the zone has given before, if it has.
LEMMA SendStep ==
  ASSUME AbsenceInv, Send
  PROVE  AbsenceInv'
<1> DEFINE key == RequestKey(rec.attempt)
           job == [st |-> "running", of |-> rec.attempt]
<1>1. /\ pc = "read" /\ call = "create" /\ pc' = "wait"
      /\ UNCHANGED <<kind, cloud, made, tagged, rec, call, todo, inv, listed>>
      /\ jobs' = IF kind = "gcp" /\ Job.st # "none" THEN jobs ELSE [jobs EXCEPT ![key] = job]
  BY Zenon DEF Send, Done
<1>2. Shaped /\ JobsOwn /\ rec.phase = "Creating"
  BY <1>1 DEF AbsenceInv, Settled
<1>3. rec.attempt \in Nat /\ rec.attempt \in Attempts
  BY <1>2 DEF Shaped, Records
<1>4. key \in Attempts
  BY Zenon, <1>2, KeyInRange
<1>5. key' = key /\ \A n : RequestKey(n)' = RequestKey(n)
  BY Zenon, <1>1 DEF RequestKey
<1> HIDE DEF key
<1>6. Settled' /\ Ended' /\ DiskIsTagged' /\ Inventory' /\ Removing'
  BY Zenon, <1>1, <1>2 DEF Settled, Ended, DiskIsTagged, Inventory, Removing, VMGoesFirst
<1>7. CASE kind = "gcp" /\ Job.st # "none"
  <2>1. jobs' = jobs /\ Job' = Job
    BY Zenon, <1>1, <1>5, <1>7 DEF Job, key
  <2>2. Shaped' /\ JobsOwn' /\ (OwnRefusal' <=> OwnRefusal)
    BY Zenon, <1>1, <1>2, <2>1, JobsKept DEF Shaped
  <2>3. OwnRefusal
    <3>1. Job.of \in 1..rec.attempt /\ RequestKey(Job.of) = RequestKey(rec.attempt)
      BY Zenon, <1>2, <1>4, <1>7 DEF Job, JobsOwn, key
    <3>. QED
      BY <1>7, <3>1 DEF OwnRefusal, RequestKey
  <2>4. Requested'
    BY Zenon, <1>1, <2>2, <2>3 DEF Requested
  <2>5. Grounded'
    BY <1>1, <1>7 DEF AbsenceInv, Grounded
  <2>. QED
    BY Zenon, <1>6, <2>2, <2>4, <2>5 DEF AbsenceInv
<1>8. CASE ~(kind = "gcp" /\ Job.st # "none")
  <2>1. jobs' = [jobs EXCEPT ![key] = job]
    BY Zenon, <1>1, <1>8
  <2>2. job \in [st: JobStates, of: Nat]
    BY <1>3 DEF JobStates
  <2>3. /\ jobs' \in [Attempts -> [st: JobStates, of: Nat]]
        /\ jobs'[key].st = "running" /\ jobs'[key].of = rec.attempt
        /\ \A m \in Attempts \ {key} : jobs'[m] = jobs[m]
    BY <1>2, <1>4, <2>1, <2>2 DEF Shaped
  <2>4. Job'.st = "running" /\ Job'.of = rec.attempt
    BY <1>5, <2>3 DEF Job, key
  <2>5. Shaped'
    BY Zenon, <1>1, <1>2, <2>3 DEF Shaped
  <2>6. JobsOwn'
    <3>1. rec.attempt \in 1..rec.attempt
      BY <1>3 DEF Attempts
    <3>2. ASSUME NEW m \in Attempts
          PROVE  /\ jobs'[m].st # "none" => jobs'[m].of \in 1..rec.attempt /\ RequestKey(jobs'[m].of) = m
                 /\ jobs'[m].st = "running" => jobs'[m].of = rec.attempt
      <4>1. CASE m = key
        BY Zenon, <2>3, <3>1, <4>1 DEF key
      <4>2. CASE m # key
        BY Zenon, <1>2, <2>3, <4>2 DEF JobsOwn
      <4>. QED
        BY <4>1, <4>2
    <3>. QED
      BY Zenon, <1>1, <1>5, <3>2 DEF JobsOwn
  <2>7. Requested'
    BY <1>1, <2>4 DEF Requested, OwnRefusal
  <2>8. Grounded'
    BY <1>1, <2>4 DEF AbsenceInv, Grounded
  <2>. QED
    BY Zenon, <1>6, <2>5, <2>6, <2>7, <2>8 DEF AbsenceInv
<1>. QED
  BY <1>7, <1>8

\* Step goes on to the next pool: nothing is left of the attempt that was refused.
LEMMA NextAttemptStep ==
  ASSUME AbsenceInv, NEW ok \in BOOLEAN, NextAttempt(ok)
  PROVE  AbsenceInv'
<1>1. /\ pc = "idle" /\ rec.phase = "Rejected" /\ rec.attempt < MaxAttempts
      /\ rec' = [rec EXCEPT !.phase = "Creating", !.attempt = rec.attempt + 1]
      /\ made' = {} /\ pc' = "read" /\ call' = "create" /\ todo' = Reads(kind, "create") /\ inv' = NoneRead
      /\ UNCHANGED <<kind, cloud, jobs>>
  BY Zenon DEF NextAttempt, Call
<1>2. Shaped /\ JobsOwn /\ Quiet /\ Present(cloud) = {}
  BY <1>1 DEF AbsenceInv, Settled, Ended
<1>3. rec \in Records /\ rec.attempt \in Attempts /\ rec.attempt \in Nat
  BY <1>2 DEF Shaped, Records
<1>4. rec.attempt + 1 \in Nat /\ rec.attempt + 1 \in Attempts /\ rec.attempt + 1 > rec.attempt
  BY <1>1, <1>3, AttemptsAssumption DEF Attempts
<1>5. rec' \in Records /\ rec'.attempt = rec.attempt + 1 /\ rec'.phase = "Creating"
  BY Zenon, <1>1, <1>3, <1>4 DEF Records, Phases
<1>6. Shaped'
  <2>1. NoneRead \in [Parts -> PartStates] /\ "create" \in Calls
    BY DEF NoneRead, PartStates, Calls
  <2>. QED
    BY Zenon, <1>1, <1>2, <1>4, <1>5, <2>1 DEF Shaped
<1>7. JobsOwn'
  <2>1. 1..rec.attempt \subseteq 1..rec'.attempt
    BY <1>3, <1>5
  <2>2. \A n : RequestKey(n)' = RequestKey(n)
    BY Zenon, <1>1 DEF RequestKey
  <2>3. \A k \in Attempts : jobs[k].st # "running"
    BY Zenon, <1>2, OnlyJobRuns
  <2>. QED
    BY Zenon, <1>1, <1>2, <2>1, <2>2, <2>3 DEF JobsOwn
<1>8. Quiet'
  <2>1. RequestKey(rec.attempt + 1) \in Attempts
    BY Zenon, <1>2, <1>4, KeyInTable DEF Shaped
  <2>2. Job' = jobs[RequestKey(rec.attempt + 1)]
    BY Zenon, <1>1, <1>5 DEF Job, RequestKey
  <2>. QED
    BY Zenon, <1>2, <2>1, <2>2, OnlyJobRuns DEF Quiet
<1>9. Settled' /\ Requested' /\ Removing'
  BY <1>1, <1>5, <1>8 DEF Settled, Requested, Removing, VMGoesFirst
<1>10. Ended' /\ DiskIsTagged'
  BY <1>5 DEF Ended, DiskIsTagged
<1>11. Grounded'
  BY <1>1, <1>2 DEF Grounded
<1>12. Inventory'
  <2>1. Plan' = Reads(kind, "create") /\ "create" \in Calls
    BY <1>1 DEF Plan, Calls
  <2>2. Reads(kind, "create") \in Seq(ReadNames) /\ Len(Reads(kind, "create")) \in Nat
    BY <1>2, <2>1, Plans DEF Shaped
  <2>3. Suffix(Reads(kind, "create"), Reads(kind, "create"))
    BY <2>2 DEF Suffix
  <2>. QED
    BY Zenon, <1>1, <2>1, <2>3 DEF Inventory
<1>. QED
  BY Zenon, <1>6, <1>7, <1>9, <1>10, <1>11, <1>12 DEF AbsenceInv

\* Initially nothing has been asked for.
LEMMA AbsenceInit == Init => AbsenceInv
<1> SUFFICES ASSUME Init PROVE AbsenceInv
  OBVIOUS
<1>1. /\ kind \in Kinds /\ cloud = NoneRead /\ made = {} /\ inv = NoneRead
      /\ jobs = [n \in Attempts |-> [st |-> "none", of |-> 0]]
      /\ pc = "read" /\ call = "create" /\ todo = Reads(kind, "create")
  BY Zenon DEF Init
<1>2. rec = [phase |-> "Creating", attempt |-> 1, id |-> FALSE, refs |-> {}, interrupted |-> FALSE]
  BY Zenon DEF Init
<1>3. 1 \in Nat /\ 1 \in Attempts
  BY AttemptsAssumption DEF Attempts
<1>4. rec \in Records /\ rec.attempt = 1 /\ rec.phase = "Creating"
  BY Zenon, <1>2, <1>3 DEF Records, Phases
<1>5. NoneRead \in [Parts -> PartStates] /\ "create" \in Calls
  BY DEF NoneRead, PartStates, Calls
<1>6. jobs \in [Attempts -> [st: JobStates, of: Nat]] /\ \A n \in Attempts : jobs[n].st = "none"
  BY <1>1 DEF JobStates
<1>7. Shaped
  BY Zenon, <1>1, <1>3, <1>4, <1>5, <1>6 DEF Shaped
<1>8. JobsOwn
  BY Zenon, <1>6 DEF JobsOwn
<1>9. Job.st = "none"
  BY <1>6, <1>7, KeyInRange DEF Job
<1>10. Settled /\ Requested /\ Ended /\ DiskIsTagged /\ Removing
  BY <1>1, <1>4, <1>9 DEF Settled, Requested, Ended, DiskIsTagged, Removing, VMGoesFirst, Quiet
<1>11. Present(cloud) = {}
  BY <1>1 DEF NoneRead, Present, Gone
<1>12. Grounded
  BY <1>1, <1>9, <1>11 DEF Grounded
<1>13. Inventory
  <2>1. Reads(kind, "create") \in Seq(ReadNames) /\ Len(Reads(kind, "create")) \in Nat
    BY <1>1, <1>5, Plans
  <2>2. Suffix(Reads(kind, "create"), Reads(kind, "create"))
    BY <2>1 DEF Suffix
  <2>. QED
    BY Zenon, <1>1, <2>2 DEF Inventory, Plan
<1>. QED
  BY Zenon, <1>7, <1>8, <1>10, <1>12, <1>13 DEF AbsenceInv
\* Where a call in progress stands.
LEMMA InCall ==
  ASSUME AbsenceInv, pc # "idle"
  PROVE  /\ rec \in Records /\ kind \in Kinds /\ cloud \in [Parts -> PartStates]
         /\ rec.phase \notin {"Deleted", "Rejected"}
         /\ (kind = "aws" /\ pc # "wait") \/ rec.phase # "Creating" => Quiet
BY DEF AbsenceInv, Shaped, Settled, Ended

\* The end of a call that leaves the phase as it is, and tags no less.
LEMMA BackStep ==
  ASSUME AbsenceInv, pc # "idle", kind = "aws" /\ pc = "wait" => Quiet, Return,
         UNCHANGED <<kind, cloud, made, jobs>>, tagged' = tagged \/ tagged' = (cloud["disk"] # "none"),
         rec' \in Records, rec'.attempt = rec.attempt, rec'.phase = rec.phase
  PROVE  AbsenceInv'
<1>1. /\ cloud \in [Parts -> PartStates] /\ rec.phase \notin {"Deleted", "Rejected"}
      /\ kind = "aws" \/ rec.phase # "Creating" => Quiet
  BY Zenon, InCall
<1>2. DiskIsTagged'
  BY Zenon DEF AbsenceInv, DiskIsTagged
<1>. QED
  BY Zenon, <1>1, <1>2, ReturnStep

\* A read, answered or not.
LEMMA ReadStep ==
  ASSUME AbsenceInv, NEW ok \in BOOLEAN, Read(ok)
  PROVE  AbsenceInv'
<1>1. pc = "read" /\ todo # <<>> /\ UNCHANGED <<kind, cloud, made, tagged, jobs>>
  BY Zenon DEF Read, world
<1>2. ASSUME Return, rec' = IF Receipt = {} THEN rec ELSE Remember(Receipt) PROVE AbsenceInv'
  <2>1. rec \in Records /\ kind \in Kinds
    BY Zenon, <1>1, InCall
  <2>2. Receipt \in SUBSET Parts
    BY DEF Receipt, Parts
  <2>3. rec' \in Records /\ rec'.attempt = rec.attempt /\ rec'.phase = rec.phase
    BY <1>2, <2>1, <2>2, RememberKeeps
  <2>. QED
    BY <1>1, <1>2, <2>3, BackStep
<1>3. ASSUME ~ReadFails(Head(todo)), todo' = Tail(todo), UNCHANGED <<pc, call, creating, rec>>,
             inv' = IF Head(todo) \in Parts /\ ~Skipped(Head(todo))
                    THEN [inv EXCEPT ![Head(todo)] = cloud[Head(todo)]] ELSE inv
      PROVE  AbsenceInv'
  BY Zenon, <1>1, <1>3, ReadOn
<1>. QED
  BY Zenon, <1>2, <1>3 DEF Read

\* The ends of CreateWithResources: a capacity error counts when nothing is left.
LEMMA CreateEnds ==
  ASSUME AbsenceInv, CreateReturns \/ CreateRefused \/ Rejected \/ CreateUnknown
  PROVE  AbsenceInv'
<1>1. UNCHANGED <<kind, cloud, made, tagged, jobs>> /\ pc # "idle"
  BY Zenon DEF CreateReturns, CreateRefused, Rejected, CreateUnknown, Done, world
<1>2. /\ rec \in Records /\ kind \in Kinds /\ cloud \in [Parts -> PartStates]
      /\ rec.phase \notin {"Deleted", "Rejected"}
  BY Zenon, <1>1, InCall
<1>3. DiskIsTagged
  BY DEF AbsenceInv
<1>4. CASE CreateReturns
  <2>1. pc = "wait" /\ Quiet
    BY <1>4 DEF CreateReturns, Quiet
  <2>2. CASE CreatesAWS
    <3>1. Present(cloud) \in SUBSET Parts
      BY DEF Present
    <3>2. /\ Remember(Present(cloud)) \in Records /\ Remember(Present(cloud)).phase = rec.phase
          /\ Remember(Present(cloud)).attempt = rec.attempt
      BY <1>2, <3>1, RememberKeeps
    <3>3. rec' \in Records /\ rec'.attempt = rec.attempt /\ rec'.phase \in {rec.phase, "Running"}
      BY <2>2, <3>2 DEF CreatesAWS, Records, Phases
    <3>4. DiskIsTagged'
      BY <1>1, <2>2 DEF CreatesAWS, DiskIsTagged
    <3>. QED
      BY <1>1, <1>2, <2>1, <2>2, <3>3, <3>4, ReturnStep DEF CreatesAWS
  <2>3. CASE CreatesGCP
    <3>1. rec' \in Records /\ rec'.attempt = rec.attempt /\ rec'.phase = "Running"
      BY Zenon, <1>2, <2>3 DEF CreatesGCP, Records, Phases
    <3>2. DiskIsTagged'
      BY <1>1, <2>3 DEF CreatesGCP, DiskIsTagged
    <3>. QED
      BY <1>1, <1>2, <2>1, <2>3, <3>1, <3>2, ReturnStep DEF CreatesGCP
  <2>4. CASE CreatesAzure
    <3>1. rec' = rec /\ Call("finish") /\ "finish" \in Calls \ {"create"}
      BY <2>4 DEF CreatesAzure, Calls
    <3>2. DiskIsTagged'
      BY Zenon, <1>1, <1>3, <3>1 DEF DiskIsTagged
    <3>. QED
      BY <1>1, <1>2, <2>1, <3>1, <3>2, CallStep
  <2>. QED
    BY <1>4, <2>2, <2>3, <2>4 DEF CreateReturns
<1>5. CASE CreateRefused
  <2>1. pc = "wait" /\ Job.st = "capacity" /\ Quiet
    BY <1>5 DEF CreateRefused, Quiet
  <2>2. CASE kind = "aws"
    <3>1. rec' = [rec EXCEPT !.phase = "Rejected"] /\ Return
      BY Zenon, <1>5, <2>2 DEF CreateRefused
    <3>2. rec' \in Records /\ rec'.attempt = rec.attempt /\ rec'.phase = "Rejected"
      BY Zenon, <1>2, <3>1 DEF Records, Phases
    <3>3. Present(cloud) = {}
      BY <2>1, <2>2 DEF AbsenceInv, Grounded
    <3>4. DiskIsTagged'
      BY <3>2 DEF DiskIsTagged
    <3>. QED
      BY <1>1, <1>2, <2>1, <3>1, <3>2, <3>3, <3>4, ReturnStep
  <2>3. CASE kind # "aws"
    <3>1. rec' = rec /\ Call("capacity") /\ "capacity" \in Calls \ {"create"}
      BY <1>5, <2>3 DEF CreateRefused, Calls
    <3>2. DiskIsTagged'
      BY Zenon, <1>1, <1>3, <3>1 DEF DiskIsTagged
    <3>3. OwnRefusal
      BY <2>1 DEF AbsenceInv, Requested
    <3>. QED
      BY <1>1, <1>2, <2>1, <3>1, <3>2, <3>3, CallStep
  <2>. QED
    BY <2>2, <2>3
<1>6. CASE Rejected
  <2>1. pc = "read" /\ todo = <<>> /\ call = "capacity" /\ Return
    BY Zenon, <1>6 DEF Rejected, Done
  <2>2. Quiet /\ (~Exists => Present(cloud) = {})
    BY <2>1, Verdict
  <2>3. CASE Exists
    <3>1. rec' = rec
      BY Zenon, <1>6, <2>3 DEF Rejected
    <3>. QED
      BY <1>1, <1>2, <2>1, <3>1, BackStep
  <2>4. CASE ~Exists
    <3>1. rec' = [rec EXCEPT !.phase = "Rejected"]
      BY Zenon, <1>6, <2>4 DEF Rejected
    <3>2. rec' \in Records /\ rec'.attempt = rec.attempt /\ rec'.phase = "Rejected"
      BY Zenon, <1>2, <3>1 DEF Records, Phases
    <3>3. DiskIsTagged'
      BY <3>2 DEF DiskIsTagged
    <3>. QED
      BY <1>1, <1>2, <2>1, <2>2, <2>4, <3>2, <3>3, ReturnStep
  <2>. QED
    BY <2>3, <2>4
<1>7. CASE CreateUnknown
  <2>1. Quiet /\ Return /\ rec' = rec
    BY <1>7 DEF CreateUnknown, Quiet
  <2>. QED
    BY <1>1, <1>2, <2>1, BackStep
<1>. QED
  BY <1>4, <1>5, <1>6, <1>7

\* finishAzureDiskOwnership: what is recorded as running is tagged.
LEMMA FinishSteps ==
  ASSUME AbsenceInv, NEW ok \in BOOLEAN, Finish(ok) \/ Confirm
  PROVE  AbsenceInv'
<1>1. /\ pc = "read" /\ todo = <<>> /\ call \in {"finish", "confirm"}
      /\ UNCHANGED <<kind, cloud, made, jobs>>
  BY Zenon DEF Finish, Confirm, Done, world
<1>2. /\ rec \in Records /\ kind \in Kinds /\ cloud \in [Parts -> PartStates]
      /\ rec.phase \notin {"Deleted", "Rejected"}
  BY <1>1, InCall
<1>3. Quiet /\ DiskIsTagged
  BY <1>1, Verdict DEF AbsenceInv
<1>4. \A ps \in SUBSET Parts : /\ Remember(ps) \in Records /\ Remember(ps).phase = rec.phase
                               /\ Remember(ps).attempt = rec.attempt
  BY Zenon, <1>2, RememberKeeps
<1>5. Parts \in SUBSET Parts /\ Present(inv) \in SUBSET Parts
  BY DEF Present
<1>6. ASSUME tagged, tagged' = tagged, Confirmed PROVE AbsenceInv'
  <2>1. DiskIsTagged'
    BY <1>6 DEF DiskIsTagged
  <2>2. CASE creating
    <3>1. rec' = [Remember(Parts) EXCEPT !.phase = "Running"] /\ Return
      BY Zenon, <1>6, <2>2 DEF Confirmed
    <3>2. rec' \in Records /\ rec'.attempt = rec.attempt /\ rec'.phase = "Running"
      BY <1>4, <1>5, <3>1 DEF Records, Phases
    <3>. QED
      BY <1>1, <1>2, <1>3, <2>1, <3>1, <3>2, ReturnStep
  <2>3. CASE ~creating
    <3>1. rec' = rec /\ Call("recovered") /\ "recovered" \in Calls \ {"create"}
      BY <1>6, <2>3 DEF Confirmed, Calls
    <3>. QED
      BY <1>1, <1>2, <1>3, <2>1, <3>1, CallStep
  <2>. QED
    BY <2>2, <2>3
<1>7. ASSUME rec' = rec, tagged' = (cloud["disk"] # "none"), Call("confirm") PROVE AbsenceInv'
  <2>1. DiskIsTagged'
    BY Zenon, <1>1, <1>7 DEF DiskIsTagged
  <2>2. "confirm" \in Calls \ {"create"}
    BY DEF Calls
  <2>. QED
    BY <1>1, <1>2, <1>3, <1>7, <2>1, <2>2, CallStep
<1>8. ASSUME NEW ps \in SUBSET Parts, rec' = Remember(ps), Return,
             tagged' = tagged \/ tagged' = (cloud["disk"] # "none")
      PROVE  AbsenceInv'
  BY <1>1, <1>4, <1>8, BackStep
<1>9. CASE Finish(ok)
  BY Zenon, <1>5, <1>6, <1>7, <1>8, <1>9 DEF Finish
<1>10. CASE Confirm
  BY Zenon, <1>5, <1>6, <1>8, <1>10 DEF Confirm, world
<1>. QED
  BY <1>9, <1>10
\* What an observation records is what there is.
LEMMA ObserveSteps ==
  ASSUME AbsenceInv, NEW ok \in BOOLEAN, Reconcile \/ Observe(ok)
  PROVE  AbsenceInv'
<1>1. /\ pc = "read" /\ todo = <<>> /\ call \in {"reconcile", "recovered", "observe"}
      /\ UNCHANGED <<kind, cloud, made, tagged, jobs>>
  BY Zenon DEF Reconcile, Observe, Done, world
<1>2. /\ rec \in Records /\ kind \in Kinds /\ call \in Calls /\ cloud \in [Parts -> PartStates]
      /\ rec.phase \notin {"Deleted", "Rejected"}
  BY <1>1, InCall DEF AbsenceInv, Shaped
<1>3. Quiet /\ (~Exists => Present(cloud) = {})
  BY <1>1, Verdict
<1>4. DiskIsTagged
  BY DEF AbsenceInv
<1>5. CASE Reconcile /\ kind = "azure"
  <2>1. PICK c \in {"finish", "observe"} : Call(c) /\ rec' = rec
    BY Zenon, <1>5 DEF Reconcile
  <2>2. c \in Calls \ {"create"} /\ c # "capacity"
    BY DEF Calls
  <2>3. DiskIsTagged'
    BY Zenon, <1>1, <1>4, <2>1 DEF DiskIsTagged
  <2>. QED
    BY <1>1, <1>2, <1>3, <2>1, <2>2, <2>3, CallStep
<1>6. CASE Reconcile /\ kind # "azure"
  <2>1. rec' = Observed("Running") /\ Return
    BY Zenon, <1>6 DEF Reconcile
  <2>2. "Running" \in Phases
    BY DEF Phases
  <2>3. rec' \in Records /\ rec'.attempt = rec.attempt /\ rec'.phase = IF Exists THEN "Running" ELSE "Deleted"
    BY Zenon, <1>2, <2>1, <2>2, ObservedKeeps
  <2>4. DiskIsTagged'
    BY <1>1, <1>6 DEF DiskIsTagged
  <2>. QED
    BY <1>1, <1>2, <1>3, <2>1, <2>3, <2>4, ReturnStep
<1>7. CASE Observe(ok)
  <2> DEFINE ph == IF rec.phase = "Creating" THEN "Running" ELSE rec.phase
             claim == rec.phase = "Running" /\ Interrupted(ok)
  <2>1. ph \in Phases /\ ph \in {"Running", "Deleting"}
    BY <1>2 DEF Records, Phases
  <2>2. rec' = [Observed(ph) EXCEPT !.interrupted = claim]
    BY Zenon, <1>7 DEF Observe
  <2>3. claim \in BOOLEAN
    OBVIOUS
  <2>4. (Exists /\ rec.phase = "Deleting" /\ Call("delete")) \/ Return
    BY Zenon, <1>7 DEF Observe
  <2>5. call \in {"recovered", "observe"}
    BY Zenon, <1>7 DEF Observe, Done
  <2> HIDE DEF claim, ph
  <2>6. /\ Observed(ph) \in Records /\ Observed(ph).attempt = rec.attempt
        /\ Observed(ph).phase = IF Exists THEN ph ELSE "Deleted"
    BY <1>2, <2>1, ObservedKeeps
  <2>7. rec' \in Records /\ rec'.attempt = rec.attempt /\ rec'.phase = IF Exists THEN ph ELSE "Deleted"
    BY <2>2, <2>3, <2>6 DEF Records
  <2>8. ASSUME kind = "azure", cloud["disk"] # "none" PROVE tagged
    <3>1. "disk" \in PartsOf(kind)
      BY <2>8 DEF PartsOf, Parts
    <3>2. Passed("disk")
      BY <1>1, <1>2, <3>1, Plans DEF Passed, Plan
    <3>3. ~AllowUntagged
      BY <2>5 DEF AllowUntagged
    <3>. QED
      BY <1>1, <2>8, <3>2, <3>3 DEF AbsenceInv, Inventory
  <2>9. DiskIsTagged'
    BY Zenon, <1>1, <2>8 DEF DiskIsTagged
  <2>10. CASE Return
    BY <1>1, <1>2, <1>3, <2>1, <2>7, <2>9, <2>10, ReturnStep
  <2>11. CASE Exists /\ rec.phase = "Deleting" /\ Call("delete")
    <3>1. "delete" \in Calls \ {"create"}
      BY DEF Calls
    <3>. QED
      BY <1>1, <1>2, <1>3, <2>1, <2>7, <2>9, <2>11, <3>1, CallStep
  <2>. QED
    BY <2>4, <2>10, <2>11
<1>. QED
  BY <1>5, <1>6, <1>7

\* The request for a removal brings nothing back, and is the end of its call.
LEMMA RemoveStep ==
  ASSUME AbsenceInv, NEW ok \in BOOLEAN, Remove(ok)
  PROVE  AbsenceInv'
<1>1. pc = "remove" /\ Return /\ UNCHANGED <<kind, made, tagged, jobs, rec>>
  BY Zenon DEF Remove
<1>2. /\ rec \in Records /\ cloud \in [Parts -> PartStates]
      /\ rec.phase \notin {"Deleted", "Rejected"}
      /\ kind = "aws" \/ rec.phase # "Creating" => Quiet
  BY <1>1, InCall
<1>3. \/ cloud' = cloud
      \/ cloud[Target] \in {"up", "free"} /\ cloud' = [cloud EXCEPT ![Target] = "leaving"]
  BY Zenon DEF Remove
<1>4. /\ cloud' \in [Parts -> PartStates] /\ \A p \in Parts : Gone(cloud[p]) => cloud'[p] = cloud[p]
  <2>1. CASE cloud' = cloud
    BY Zenon, <1>2, <2>1
  <2>2. CASE cloud[Target] \in {"up", "free"} /\ cloud' = [cloud EXCEPT ![Target] = "leaving"]
    BY Zenon, <1>2, <2>2 DEF PartStates, Gone
  <2>. QED
    BY <1>3, <2>1, <2>2
<1>5. "disk" \in Parts /\ Gone("none")
  BY DEF Parts, Gone
<1>6. DiskIsTagged'
  BY Zenon, <1>1, <1>4, <1>5 DEF AbsenceInv, DiskIsTagged
<1>. QED
  BY Zenon, <1>1, <1>2, <1>4, <1>6, ReturnStep

\* A tick begins; a crash ends a call.
LEMMA TickSteps ==
  ASSUME AbsenceInv, Crash \/ \E ok \in BOOLEAN : Begin(ok) \/ Retire(ok)
  PROVE  AbsenceInv'
<1>1. UNCHANGED <<kind, cloud, made, tagged, jobs>>
  BY Zenon DEF Crash, Begin, Retire, world
<1>2. rec \in Records /\ DiskIsTagged /\ (kind = "aws" /\ pc = "idle" => Quiet) /\ (rec.phase # "Creating" => Quiet)
  BY DEF AbsenceInv, Shaped, Settled
<1>3. CASE Crash
  <2>1. pc # "idle" /\ rec' = rec /\ Return /\ (kind = "aws" /\ pc = "wait" => Quiet)
    BY Zenon, <1>3 DEF Crash, Quiet
  <2>. QED
    BY Zenon, <1>1, <1>2, <2>1, BackStep
<1>4. ASSUME NEW ok \in BOOLEAN, Begin(ok) PROVE AbsenceInv'
  <2>1. PICK c \in {"reconcile", "observe"} : Call(c) /\ rec' = rec
    BY Zenon, <1>4 DEF Begin
  <2>2. c \in Calls \ {"create"} /\ c # "capacity"
    BY DEF Calls
  <2>3. DiskIsTagged'
    BY Zenon, <1>1, <1>2, <2>1 DEF DiskIsTagged
  <2>4. pc = "idle" /\ rec.phase \in {"Creating", "Running", "Deleting"}
    BY <1>4 DEF Begin
  <2>. QED
    BY <1>1, <1>2, <2>1, <2>2, <2>3, <2>4, CallStep
<1>5. ASSUME NEW ok \in BOOLEAN, Retire(ok) PROVE AbsenceInv'
  <2>1. /\ pc = "idle" /\ rec.phase = "Running" /\ rec' = [rec EXCEPT !.phase = "Deleting"]
        /\ UNCHANGED <<pc, call, creating, todo, inv, listed>>
    BY Zenon, <1>5 DEF Retire, local
  <2>2. rec' \in Records /\ rec'.attempt = rec.attempt /\ rec'.phase = "Deleting"
    BY Zenon, <1>2, <2>1 DEF Records, Phases
  <2>3. JobsOwn' /\ Job' = Job /\ (Quiet' <=> Quiet) /\ Quiet
    BY <1>1, <1>2, <2>1, <2>2, JobsKept DEF AbsenceInv
  <2>4. Shaped' /\ JobsOwn'
    BY Zenon, <1>1, <2>1, <2>2, <2>3 DEF AbsenceInv, Shaped
  <2>5. Settled' /\ Requested' /\ Inventory' /\ Removing'
    BY <2>1, <2>3 DEF Settled, Requested, Inventory, Removing, VMGoesFirst
  <2>6. Ended'
    BY <2>2 DEF Ended
  <2>7. Grounded'
    BY Zenon, <1>1, <2>3 DEF AbsenceInv, Grounded
  <2>8. DiskIsTagged'
    BY <1>1, <1>2, <2>1 DEF DiskIsTagged
  <2>. QED
    BY Zenon, <2>4, <2>5, <2>6, <2>7, <2>8 DEF AbsenceInv
<1>. QED
  BY Zenon, <1>3, <1>4, <1>5

\* A part is removed; what hung on a VM is at most detached.
LEMMA RemovedParts ==
  ASSUME Shaped, NEW q \in Parts, Removed(q)
  PROVE  /\ cloud' \in [Parts -> PartStates] /\ \A p \in Parts : Gone(cloud[p]) => Gone(cloud'[p])
         /\ cloud["disk"] = "none" => cloud'["disk"] = "none"
<1>1. cloud \in [Parts -> PartStates] /\ Parts = {"vm", "nic", "disk"}
  BY DEF Shaped, Parts
<1>2. CASE q = "vm"
  <2>1. cloud' \in [Parts -> PartStates] /\ VMGone(cloud')
    BY Zenon, <1>2 DEF Removed
  <2>2. Gone(cloud'["vm"])
    BY <2>1 DEF VMGone, Gone
  <2>3. ASSUME NEW p \in Parts \ {"vm"}, cloud[p] # "up" PROVE cloud'[p] = cloud[p]
    BY <2>1, <2>3 DEF VMGone
  <2>4. ~Gone("up")
    BY DEF Gone
  <2>5. "disk" \in Parts \ {"vm"} /\ "none" # "up"
    BY <1>1
  <2>. QED
    BY Zenon, <2>1, <2>2, <2>3, <2>4, <2>5
<1>3. CASE q # "vm"
  <2>1. cloud' = [cloud EXCEPT ![q] = "none"]
    BY Zenon, <1>3 DEF Removed
  <2>. QED
    BY <1>1, <2>1 DEF PartStates, Gone
<1>. QED
  BY <1>2, <1>3

\* Everything that the clouds do on their own.
LEMMA CloudSteps ==
  ASSUME AbsenceInv,
         \/ Progress \/ Evict
         \/ \E m \in Annotations : Annotate(m)
         \/ \E p \in Parts : RemovalFails(p) \/ DeleteEnds(p, FALSE)
  PROVE  AbsenceInv'
<1>1. Shaped /\ cloud \in [Parts -> PartStates] /\ Parts = {"vm", "nic", "disk"}
  BY DEF AbsenceInv, Shaped, Parts
<1>2. ASSUME UNCHANGED <<kind, made, tagged, jobs, rec, local>>, cloud' = cloud PROVE AbsenceInv'
  BY Zenon, <1>1, <1>2, CloudStep
<1>3. ASSUME UNCHANGED <<kind, made, tagged, jobs, rec, local>>, NEW q \in Parts, Removed(q) PROVE AbsenceInv'
  BY Zenon, <1>1, <1>3, RemovedParts, CloudStep
<1>4. ASSUME UNCHANGED <<kind, made, tagged, jobs, rec, local>>, NEW q \in Parts, NEW s \in PartStates,
             ~Gone(cloud[q]) \/ (q = "vm" /\ Gone(s)), cloud' = [cloud EXCEPT ![q] = s]
      PROVE  AbsenceInv'
  <2>1. /\ cloud' \in [Parts -> PartStates] /\ \A p \in Parts : Gone(cloud[p]) => Gone(cloud'[p])
        /\ cloud["disk"] = "none" => cloud'["disk"] = "none"
    BY <1>1, <1>4 DEF Gone
  <2>. QED
    BY Zenon, <1>4, <2>1, CloudStep
<1>5. ASSUME NEW q \in Parts, NEW ok \in BOOLEAN, Leaves(q) \/ DeleteEnds(q, ok) \/ RequestExpires(q)
      PROVE  AbsenceInv'
  <2>1. UNCHANGED <<kind, made, tagged, jobs, rec, local>>
    BY Zenon, <1>5 DEF Leaves, DeleteEnds, RequestExpires
  <2>2. Removed(q) \/ cloud' = cloud
    BY Zenon, <1>5 DEF Leaves, DeleteEnds, RequestExpires
  <2>. QED
    BY Zenon, <1>2, <1>3, <2>1, <2>2
<1>6. CASE Forget \/ Evict \/ \E q \in Parts : RemovalFails(q)
  <2>1. UNCHANGED <<kind, made, tagged, jobs, rec, local>>
    BY Zenon, <1>6 DEF Forget, Evict, RemovalFails
  <2>2. PICK q \in Parts, s \in {"none", "leaving", "up", "free"} :
           /\ ~Gone(cloud[q]) \/ (q = "vm" /\ Gone(s))
           /\ cloud' = [cloud EXCEPT ![q] = s]
    <3>1. CASE Forget
      BY <1>1, <3>1 DEF Forget, Gone
    <3>2. CASE Evict
      BY <1>1, <3>2 DEF Evict, Gone
    <3>3. ASSUME NEW q \in Parts, RemovalFails(q)
          PROVE  ~Gone(cloud[q]) /\ \E s \in {"up", "free"} : cloud' = [cloud EXCEPT ![q] = s]
      BY Zenon, <3>3 DEF RemovalFails, Gone
    <3>. QED
      BY Zenon, <1>6, <3>1, <3>2, <3>3
  <2>3. s \in PartStates
    BY DEF PartStates
  <2>. QED
    BY Zenon, <1>4, <2>1, <2>2, <2>3
<1>7. ASSUME NEW m \in Annotations, Annotate(m) PROVE AbsenceInv'
  BY Zenon, <1>2, <1>7 DEF Annotate
<1>. QED
  BY Zenon, <1>5, <1>6, <1>7, ProvisionStep, JobEndsStep DEF Progress

\* Every step keeps the invariant.
LEMMA AbsenceNext == AbsenceInv /\ [Next]_vars => AbsenceInv'
<1> SUFFICES ASSUME AbsenceInv, [Next]_vars PROVE AbsenceInv'
  OBVIOUS
<1>1. ASSUME NEW ok \in BOOLEAN, Adapter(ok) PROVE AbsenceInv'
  <2>1. CASE Inconsistent
    <3>1. pc = "read" /\ Return /\ rec' = rec /\ UNCHANGED <<kind, cloud, made, tagged, jobs>>
      BY Zenon, <2>1 DEF Inconsistent, world
    <3>2. rec \in Records
      BY DEF AbsenceInv, Shaped
    <3>. QED
      BY <3>1, <3>2, BackStep
  <2>. QED
    BY Zenon, <1>1, <2>1, ReadStep, SendStep, CreateEnds, FinishSteps, NextAttemptStep, TickSteps, ObserveSteps,
       DeleteStep, RemoveStep DEF Adapter
<1>2. CASE UNCHANGED vars
  <2>1. UNCHANGED <<kind, made, tagged, jobs, rec, local, cloud>>
    BY Zenon, <1>2 DEF vars, local
  <2>2. cloud \in [Parts -> PartStates]
    BY DEF AbsenceInv, Shaped
  <2>. QED
    BY Zenon, <2>1, <2>2, CloudStep
<1>3. TRUE \in BOOLEAN /\ FALSE \in BOOLEAN
  OBVIOUS
<1>. QED
  BY Zenon, <1>1, <1>2, <1>3, TickSteps, CloudSteps DEF Next

\* The invariant always holds.
LEMMA AbsenceAlways == Spec => []AbsenceInv
BY AbsenceInit, AbsenceNext, PTL DEF Spec

\* When Observe, ReconcileCreation or a refused creation says that nothing exists,
\* nothing does and nothing is on its way, on each of the three clouds and for any
\* number of attempts, though no two parts are read at the same time.
THEOREM AbsencesAreReal == Spec => []AbsenceIsReal
<1>1. AbsenceInv => AbsenceIsReal
  <2>1. ASSUME AbsenceInv, NEW n \in Attempts, Running(n), rec.phase \in {"Deleted", "Rejected"} PROVE FALSE
    <3>1. Quiet
      BY <2>1 DEF AbsenceInv, Settled
    <3>. QED
      BY <2>1, <3>1, OnlyJobRuns DEF AbsenceInv, Running
  <2>. QED
    BY Zenon, <2>1 DEF AbsenceInv, Ended, AbsenceIsReal
<1>. QED
  BY <1>1, AbsenceAlways, PTL

\* Delete never asks for a disk or an interface whose VM is there, on each of the
\* three clouds, though the VM is read before the others and the request goes out
\* later still: no creation that could bring a VM runs by then.
THEOREM VMsGoFirst == Spec => []VMGoesFirst
<1>1. AbsenceInv => VMGoesFirst
  BY DEF AbsenceInv, Removing
<1>. QED
  BY <1>1, AbsenceAlways, PTL

\* finishAzureDiskOwnership and the inventories leave no Azure allocation that is
\* past its creation with a disk that does not carry the tags.
THEOREM DisksAreTagged == Spec => []DiskIsTagged
<1>1. AbsenceInv => DiskIsTagged
  BY DEF AbsenceInv
<1>. QED
  BY <1>1, AbsenceAlways, PTL

\* Which steps refuse an attempt: those of CreateWithResources.
LEMMA OnlyCreationRefuses ==
  ASSUME AbsenceInv, [Next]_vars, rec.phase = "Creating", rec'.phase = "Rejected"
  PROVE  CreateRefused \/ Rejected
<1>1. rec \in Records /\ kind \in Kinds
  BY DEF AbsenceInv, Shaped
<1>2. \A ps \in SUBSET Parts : Remember(ps) \in Records /\ Remember(ps).phase = rec.phase
  BY Zenon, <1>1, RememberKeeps
<1>3. /\ Parts \in SUBSET Parts /\ Present(inv) \in SUBSET Parts /\ Present(cloud) \in SUBSET Parts
      /\ Receipt \in SUBSET Parts
  BY DEF Present, Receipt, Parts
<1>4. rec' # rec
  OBVIOUS
<1>5. ASSUME NEW ok \in BOOLEAN, Read(ok) \/ Finish(ok) \/ Confirm \/ CreateReturns PROVE FALSE
  <2>1. CASE Read(ok)
    BY <1>2, <1>3, <1>4, <2>1 DEF Read
  <2>2. CASE Finish(ok) \/ Confirm
    <3>1. PICK ps \in SUBSET Parts : \/ rec' = rec \/ rec' = Remember(ps)
                                     \/ rec' = [Remember(ps) EXCEPT !.phase = "Running"]
      BY Zenon, <1>3, <2>2 DEF Finish, Confirm, Confirmed
    <3>. QED
      BY <1>2, <3>1 DEF Records
  <2>3. CASE CreateReturns
    <3>1. \/ rec' = rec
          \/ rec' = [Remember(Present(cloud)) EXCEPT !.phase = IF Present(cloud) = Parts THEN "Running" ELSE @]
          \/ rec' = [rec EXCEPT !.phase = "Running", !.id = TRUE]
      BY <2>3 DEF CreateReturns, CreatesAWS, CreatesGCP, CreatesAzure
    <3>2. Remember(Present(cloud)) \in Records /\ Remember(Present(cloud)).phase = rec.phase
      BY <1>2, <1>3
    <3>. QED
      BY Zenon, <1>1, <3>1, <3>2 DEF Records
  <2>. QED
    BY <1>5, <2>1, <2>2, <2>3
<1>6. ASSUME NEW ok \in BOOLEAN, Reconcile \/ Observe(ok) PROVE FALSE
  <2>1. ASSUME NEW ph \in {"Running", rec.phase} PROVE Observed(ph) \in Records /\ Observed(ph).phase # "Rejected"
    <3>1. ph \in Phases
      BY <1>1 DEF Phases, Records
    <3>. QED
      BY <1>1, <3>1, ObservedKeeps
  <2>2. PICK ph \in {"Running", rec.phase}, claim \in BOOLEAN :
            rec' = rec \/ rec' = Observed(ph) \/ rec' = [Observed(ph) EXCEPT !.interrupted = claim]
    BY Zenon, <1>6 DEF Reconcile, Observe
  <2>. QED
    BY <1>4, <2>1, <2>2 DEF Records
<1>7. ASSUME NEW ok \in BOOLEAN, NextAttempt(ok) \/ Retire(ok) PROVE FALSE
  BY <1>7 DEF NextAttempt, Retire
<1>8. ASSUME NEW ok \in BOOLEAN, Inconsistent \/ Send \/ CreateUnknown \/ Begin(ok) \/ Delete \/ Remove(ok) \/ Crash
      PROVE  FALSE
  BY Zenon, <1>4, <1>8 DEF Inconsistent, Send, CreateUnknown, Begin, Delete, Remove, Crash
<1>9. CASE Progress \/ Evict \/ (\E m \in Annotations : Annotate(m)) \/ (\E p \in Parts : RemovalFails(p) \/ DeleteEnds(p, FALSE))
  BY Zenon, <1>4, <1>9 DEF Progress, Provision, Leaves, DeleteEnds, RequestExpires, JobEnds, Forget, Evict, Annotate, RemovalFails
<1>10. CASE UNCHANGED vars
  BY Zenon, <1>4, <1>10 DEF vars
<1>11. TRUE \in BOOLEAN /\ FALSE \in BOOLEAN
  OBVIOUS
<1>. QED
  BY Zenon, <1>5, <1>6, <1>7, <1>8, <1>9, <1>10, <1>11 DEF Next, Adapter

\* CreateWithResources gives up an attempt for want of capacity only when its own
\* request was refused or, on GCP, one that an earlier attempt made in its zone:
\* the zone in gcpRequestID and the vacancy check of an Azure deployment keep any
\* other attempt's refusal from being taken for it, whatever zones the pools are in.
THEOREM RefusalsAreOwn == Spec => RefusalIsOwn
<1>1. AbsenceInv /\ [Next]_vars => [rec.phase = "Creating" /\ rec'.phase = "Rejected" => OwnRefusal]_vars
  <2> SUFFICES ASSUME AbsenceInv, [Next]_vars, rec.phase = "Creating", rec'.phase = "Rejected"
               PROVE  OwnRefusal
    BY Zenon
  <2>1. pc = "wait" \/ (pc = "read" /\ call = "capacity")
    BY Zenon, OnlyCreationRefuses DEF CreateRefused, Rejected, Done
  <2>. QED
    BY <2>1 DEF AbsenceInv, Requested
<1>. QED
  BY <1>1, AbsenceAlways, PTL DEF Spec, RefusalIsOwn
=============================================================================
