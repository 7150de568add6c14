------------------------------- MODULE Retry -------------------------------
(***************************************************************************)
(* Reruns after an interruption: processInterruptionRetries of             *)
(* internal/operator with the rule of internal/recovery, for ONE workflow  *)
(* run.  Everything it keeps is keyed by the run, so runs do not meet.     *)
(*                                                                         *)
(* Every call to GitHub and every write is a step of its own.  GitHub may  *)
(* carry out a rerun request whose answer was lost, and shows the new      *)
(* attempt only some time after it accepted the request.                   *)
(***************************************************************************)
EXTENDS Naturals, FiniteSets

CONSTANTS
    Count,          \* bound: the allocations that ever run a job of the run
    Width,          \* jobs of the first attempt
    MaxRetries,     \* Policy.MaxRetries
    Polls,          \* rerunReconciliationPolls
    Delay,          \* passes that GitHub may need to carry out and show a rerun
    MaxAttempt,     \* bound: attempts of the run
    MaxSent,        \* bound: rerun requests on their way at once
    MaxMissed,      \* bound: requests that are lost track of before faults end
    ServerErrors,   \* a server error may answer a request that is carried out later
    Prunes,         \* records grow old enough to be pruned
    Stops,          \* the process may stop in a pass, and its writes fail
    OthersRerun     \* somebody else may rerun the run

ASSUME CountAssumption == Count \in Nat /\ Width \in Nat \ {0}
ASSUME RetriesAssumption == MaxRetries \in 1..3
ASSUME PollsAssumption == Polls \in Nat \ {0} /\ Delay \in Nat
ASSUME AttemptAssumption == MaxAttempt \in Nat \ {0} /\ MaxSent \in Nat /\ MaxMissed \in Nat
ASSUME SwitchAssumption == {Stops, OthersRerun, ServerErrors, Prunes} \subseteq BOOLEAN

VARIABLES
    job,        \* job[x]: the GitHub job that ran on allocation x, and its attempt
    queued,     \* jobs of the latest attempt that no runner has taken yet
    attempt,    \* the latest attempt of the run that GitHub shows
    sent,       \* rerun requests on their way, of which nobody waits for the answer
    accepted,   \* a rerun was accepted and its attempt is not shown yet
    age,        \* passes since then
    own,        \* history: the reruns that GitHub carries out for this operator
    last,       \* history: the attempt that the last of them makes
    missed,     \* history: requests of which the operator lost track
    record,     \* record[x]: "open" once Deleted with a confirmed interruption
    fleet,      \* RetriesUsedByRun and PendingReruns of the run
    pc,         \* what the pass does next
    todo,       \* interruptions the pass has yet to handle
    f           \* the fleet value inside the pass

history == <<own, last, missed>>
github  == <<job, queued, attempt, sent, accepted, age, history>>
durable == <<record, fleet>>
pass    == <<pc, todo, f>>
vars    == <<github, durable, pass>>

Allocs   == 1..Count
Attempts == 1..MaxAttempt
NoRerun  == [attempt |-> 0, polls |-> 0]
Fleet    == [used: 0..MaxAttempt, pending: [attempt: 0..MaxAttempt, polls: 0..Polls - 1]]
Labels   == {"idle", "next", "reconcile", "original", "fetch", "post", "save"}

\* Type invariant.
TypeOK ==
    /\ job \in [Allocs -> [attempt: 0..MaxAttempt, status: {"none", "running", "failed", "success"}]]
    /\ queued \in 0..Width /\ attempt \in Attempts
    /\ sent \in 0..MaxSent /\ accepted \in BOOLEAN /\ age \in 0..Delay
    /\ own \in 0..MaxAttempt /\ last \in 0..MaxAttempt /\ missed \in Nat
    /\ record \in [Allocs -> {"active", "open", "processed", "pruned"}]
    /\ fleet \in Fleet /\ f \in Fleet
    /\ pc \in Labels /\ todo \subseteq Allocs

Init ==
    /\ job = [x \in Allocs |-> [attempt |-> 0, status |-> "none"]]
    /\ queued = Width /\ attempt = 1
    /\ sent = 0 /\ accepted = FALSE /\ age = 0
    /\ own = 0 /\ last = 0 /\ missed = 0
    /\ record = [x \in Allocs |-> "active"]
    /\ fleet = [used |-> 0, pending |-> NoRerun]
    /\ pc = "idle" /\ todo = {} /\ f = fleet

-----------------------------------------------------------------------------
(* The pass *)

Goto(label) == pc' = label
Head        == CHOOSE x \in todo : \A y \in todo : x <= y
Pending(g)  == g.pending # NoRerun
Underway    == sent > 0 \/ accepted
NoFleet     == [used |-> 0, pending |-> NoRerun]

\* The requests that a fleet value knows of: those it counts, and one pending.
Known(g) == g.used + IF Pending(g) THEN 1 ELSE 0

\* What is known inside the pass only, and goes with it.
Unsaved == IF Known(f) > Known(fleet) THEN Known(f) - Known(fleet) ELSE 0

\* A request goes out of which nobody hears, or that nobody believes in.
MaySend == sent < MaxSent /\ missed < MaxMissed
MayFail == Stops /\ missed < MaxMissed

\* List and loadFleet: the interruptions that were not processed, in the order
\* of their names.  Delay bounds what GitHub still has under way.
Begin ==
    /\ pc = "idle"
    /\ Underway => age < Delay
    /\ \E x \in Allocs : record[x] = "open"
    /\ todo' = {x \in Allocs : record[x] = "open"}
    /\ f' = fleet
    /\ age' = IF Underway THEN age + 1 ELSE 0
    /\ Goto("next")
    /\ UNCHANGED <<job, queued, attempt, sent, accepted, history, durable>>

Handle ==
    /\ pc = "next" /\ todo # {}
    /\ Goto(IF Pending(f) THEN "reconcile" ELSE "fetch")
    /\ UNCHANGED <<github, durable, todo, f>>

\* A confirmed rerun is counted again by what is left of the pass.
ConfirmedHappenedTwice ==
    /\ f' = [used |-> f.pending.attempt + 1, pending |-> NoRerun]
    /\ Goto("save")

\* rerunConfirmedHappened: the retry is counted and the interruption closed.
ConfirmedHappened ==
    /\ f' = [used |-> f.pending.attempt, pending |-> NoRerun]
    /\ Goto("save")

\* reconcilePendingRerun's first read: the jobs of the next attempt.  An
\* attempt that exists may not list its jobs yet; any read may fail.
Reconcile ==
    /\ pc = "reconcile"
    /\ \/ attempt > f.pending.attempt /\ ConfirmedHappened
       \/ Goto("fetch") /\ UNCHANGED f
       \/ attempt <= f.pending.attempt /\ Goto("original") /\ UNCHANGED f
    /\ UNCHANGED <<github, durable, todo>>

\* The absence of the next attempt is never believed.
AbsentForever(g) ==
    IF g.pending.polls + 1 >= Polls THEN g ELSE [g EXCEPT !.pending.polls = @ + 1]

\* The second absence of the next attempt is taken for the third.
AbsentEarly(g) ==
    IF g.pending.polls + 2 >= Polls THEN [g EXCEPT !.pending = NoRerun] ELSE [g EXCEPT !.pending.polls = @ + 1]

\* The next attempt is absent once more: rerunConfirmedDidNotHappen at last.
Absent(g) ==
    IF g.pending.polls + 1 >= Polls THEN [g EXCEPT !.pending = NoRerun] ELSE [g EXCEPT !.pending.polls = @ + 1]

\* A request is on its way, or GitHub has carried out the pending one.
Alive == sent > 0 \/ last > f.pending.attempt

\* Its second read: the failure that justified the request.  It reads as
\* before, or in some other way, or not at all.
Original ==
    /\ pc = "original"
    /\ \/ f' = Absent(f)
       \/ f' = [f EXCEPT !.pending.polls = 0]
       \/ UNCHANGED f
    /\ missed' = IF Alive /\ Pending(f) /\ ~Pending(f') THEN missed + 1 ELSE missed
    /\ Goto("fetch")
    /\ UNCHANGED <<job, queued, attempt, sent, accepted, age, own, last, durable, todo>>

\* The limit is off by one.
EligibleOneMore(x, g) ==
    /\ g.used <= MaxRetries /\ ~Pending(g)
    /\ job[x].attempt = g.used + 1
    /\ job[x].status = "failed"

\* recovery.Eligible, for the jobs of attempt g.used + 1: a run lists the job
\* of a runner under one attempt only.
Eligible(x, g) ==
    /\ g.used < MaxRetries /\ ~Pending(g)
    /\ job[x].attempt = g.used + 1
    /\ job[x].status = "failed"

\* AttemptJobs and the verdict on it.  A read that fails, or finds no such
\* attempt, skips the verdict.
Fetch ==
    /\ pc = "fetch"
    /\ \/ f.used + 1 <= attempt /\ Goto(IF Eligible(Head, f) THEN "post" ELSE "save")
       \/ Goto("save")
    /\ UNCHANGED <<github, durable, todo, f>>

\* GitHub reruns a run that is over and has failed jobs.
Acceptable ==
    /\ ~accepted /\ queued = 0 /\ attempt < MaxAttempt
    /\ \A x \in Allocs : job[x].status # "running"
    /\ \E x \in Allocs : job[x].attempt = attempt /\ job[x].status = "failed"

Accept ==
    /\ Acceptable
    /\ accepted' = TRUE /\ own' = own + 1 /\ last' = attempt + 1

\* A lost answer is taken for a refusal.
PostForgetful ==
    /\ pc = "post"
    /\ \/ Accept /\ f' = [f EXCEPT !.used = @ + 1] /\ UNCHANGED <<sent, missed>>
       \/ UNCHANGED <<sent, accepted, history, f>>
       \/ MaySend /\ sent' = sent + 1 /\ UNCHANGED <<accepted, history, f>>
    /\ Goto("save")
    /\ UNCHANGED <<job, queued, attempt, age, durable, todo>>

\* RerunFailedJobs: accepted; rejected, which is any other status, that of a
\* server which lets the request through included; or sent with no answer.
Post ==
    /\ pc = "post"
    /\ \/ Accept /\ f' = [f EXCEPT !.used = @ + 1] /\ UNCHANGED <<sent, missed>>
       \/ UNCHANGED <<sent, accepted, history, f>>
       \/ /\ ServerErrors /\ MaySend
          /\ sent' = sent + 1 /\ missed' = missed + 1
          /\ UNCHANGED <<accepted, own, last, f>>
       \/ /\ MaySend /\ sent' = sent + 1
          /\ f' = [f EXCEPT !.pending = [attempt |-> f.used + 1, polls |-> 0]]
          /\ UNCHANGED <<accepted, history>>
    /\ Goto("save")
    /\ UNCHANGED <<job, queued, attempt, age, durable, todo>>

\* An interruption is closed even though its request is still pending.
SaveClosing ==
    /\ pc = "save"
    /\ record' = [record EXCEPT ![Head] = "processed"]
    /\ todo' = todo \ {Head}
    /\ Goto("next")
    /\ UNCHANGED <<github, fleet, f>>

\* The record: processed unless a request of its run is pending.  A conflict
\* is ignored, and any other failure only reported.
Save ==
    /\ pc = "save"
    /\ \/ record' = [record EXCEPT ![Head] = IF Pending(f) THEN @ ELSE "processed"]
       \/ Stops /\ UNCHANGED record
    /\ todo' = todo \ {Head}
    /\ Goto("next")
    /\ UNCHANGED <<github, fleet, f>>

\* saveFleet, once for the whole pass.
SaveFleet ==
    /\ pc = "next" /\ todo = {}
    /\ \/ fleet' = f /\ UNCHANGED missed
       \/ MayFail /\ missed' = missed + Unsaved /\ UNCHANGED fleet
    /\ f' = NoFleet
    /\ Goto("idle")
    /\ UNCHANGED <<job, queued, attempt, sent, accepted, age, own, last, record, todo>>

\* pruneTerminalAllocations, in the same Tick after the pass: the record goes a
\* day after it became terminal, whatever its RetryProcessed says.
Prune(x) ==
    /\ Prunes /\ pc = "idle" /\ record[x] \in {"open", "processed"}
    /\ record' = [record EXCEPT ![x] = "pruned"]
    /\ UNCHANGED <<github, fleet, pass>>

\* The process stops; a request it was sending may be on its way.
Stop ==
    /\ MayFail /\ pc # "idle"
    /\ \/ sent' = sent /\ missed' = missed + Unsaved
       \/ pc = "post" /\ MaySend /\ sent' = sent + 1 /\ missed' = missed + Unsaved + 1
    /\ Goto("idle") /\ todo' = {} /\ f' = NoFleet
    /\ UNCHANGED <<job, queued, attempt, accepted, age, own, last, durable>>

-----------------------------------------------------------------------------
(* GitHub and the interruptions *)

\* HandleJobStarted names the run of the allocation that takes a job.
JobStarts(x) ==
    /\ queued > 0 /\ job[x].status = "none"
    /\ queued' = queued - 1
    /\ job' = [job EXCEPT ![x] = [attempt |-> attempt, status |-> "running"]]
    /\ UNCHANGED <<attempt, sent, accepted, age, history, durable, pass>>

JobEnds(x) ==
    /\ job[x].status = "running"
    /\ \E s \in {"failed", "success"} : job' = [job EXCEPT ![x].status = s]
    /\ UNCHANGED <<queued, attempt, sent, accepted, age, history, durable, pass>>

\* Step confirms that the VM was preempted; GitHub may not know yet.
Interrupt(x) ==
    /\ job[x].status # "none" /\ record[x] = "active"
    /\ record' = [record EXCEPT ![x] = "open"]
    /\ UNCHANGED <<github, fleet, pass>>

\* A request whose answer was lost arrives, or never does.
Arrive ==
    /\ sent > 0
    /\ sent' = sent - 1
    /\ Accept \/ UNCHANGED <<accepted, own, last>>
    /\ age' = IF sent' = 0 /\ ~accepted' THEN 0 ELSE age
    /\ UNCHANGED <<job, queued, attempt, missed, durable, pass>>

\* The accepted rerun becomes an attempt with the failed jobs.
Appear ==
    /\ accepted
    /\ accepted' = FALSE
    /\ age' = IF sent = 0 THEN 0 ELSE age
    /\ attempt' = attempt + 1
    /\ queued' = Cardinality({x \in Allocs : job[x].attempt = attempt /\ job[x].status = "failed"})
    /\ UNCHANGED <<job, sent, history, durable, pass>>

\* A person reruns the run.
RerunByOthers ==
    /\ OthersRerun /\ Acceptable
    /\ accepted' = TRUE
    /\ UNCHANGED <<job, queued, attempt, sent, age, history, durable, pass>>

Pass == Begin \/ Handle \/ Reconcile \/ Original \/ Fetch \/ Post \/ Save \/ SaveFleet

World ==
    \/ \E x \in Allocs : JobStarts(x) \/ JobEnds(x) \/ Interrupt(x)
    \/ Arrive \/ Appear \/ RerunByOthers

Next == Pass \/ Stop \/ World \/ \E x \in Allocs : Prune(x)

Spec == Init /\ [][Next]_vars

-----------------------------------------------------------------------------
(* Properties *)

\* The run is rerun at most MaxRetries times on behalf of interruptions, and once
\* more for each request of which the operator lost track, however many answers
\* are lost and whoever else reruns the run.
RetriesBounded == own <= MaxRetries + missed

\* Every rerun that GitHub carries out or will carry out for this operator is
\* counted, or parked as one "whose outcome GitHub never confirmed"
\* (pendingRerun), or one of those it lost track of: sent as the process stopped
\* or before the fleet could not be saved, answered by a server error, or taken
\* for absent too early.
RerunsAccounted == pc = "idle" => own + sent <= Known(fleet) + missed

\* As long as the process does not stop, GitHub shows a rerun within less passes
\* than rerunReconciliationPolls and a pass finds one interruption of the run, no
\* lost answer makes the operator lose track of a request.
NoneMissed == missed = 0

\* No retry is spent on a rerun that did not happen: what the fleet counts as
\* used are attempts that GitHub shows or has accepted.
NoRetryWasted == fleet.used <= attempt - 1 + (IF accepted THEN 1 ELSE 0)

\* A pending rerun is never left alone between two passes: some interruption of
\* the run stays open, so that a later pass comes back to it.
PendingIsRevisited ==
    pc = "idle" /\ Pending(fleet) => \E x \in Allocs : record[x] = "open"

-----------------------------------------------------------------------------
(* Liveness.  Tick makes a pass every five seconds; GitHub carries out what it
   received; from some point on writes succeed and GitHub answers. *)

CalmPass ==
    /\ Pass
    /\ pc = "reconcile" => pc' # "fetch"
    /\ pc = "original" => f' = Absent(f)
    /\ pc = "post" => sent' = sent
    /\ pc = "save" => record'[Head] = "processed" \/ Pending(f)
    /\ pc = "next" /\ todo = {} => fleet' = f

Fairness ==
    /\ <>[][CalmPass \/ World]_vars
    /\ WF_vars(Pass) /\ WF_vars(Arrive) /\ WF_vars(Appear)

FairSpec == Spec /\ Fairness

\* No interruption stays open, after any number of crashes and lost answers: a
\* pending rerun is always resolved one way or the other.
InterruptionIsClosed ==
    \A x \in Allocs : record[x] = "open" ~> record[x] # "open"
=============================================================================
