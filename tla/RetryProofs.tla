---------------------------- MODULE RetryProofs ----------------------------
(* Proofs about Retry, for every number of allocations, retries and polls. *)
EXTENDS Retry, TLAPS

\* What GitHub has or will have beyond the first attempt.
Reruns == attempt - 1 + (IF accepted THEN 1 ELSE 0)

\* The fleet values there can be, without the bounds of the model.
FleetValues == [used: Nat, pending: [attempt: Nat, polls: Nat]]

\* A fleet value that counts no retry that did not happen.
Honest(g) == g \in FleetValues /\ g.used <= Reruns

\* The inductive invariant: the copy inside a pass is honest too, also when it
\* is older than GitHub's state.
CountInv ==
    /\ attempt \in Nat \ {0} /\ accepted \in BOOLEAN
    /\ Honest(fleet) /\ Honest(f)

\* Initially nothing was counted and there is one attempt.
LEMMA CountInit == Init => CountInv
<1>. SUFFICES ASSUME Init PROVE CountInv
  OBVIOUS
<1>1. fleet = [used |-> 0, pending |-> NoRerun] /\ f = fleet /\ attempt = 1
  BY Zenon DEF Init
<1>2. ~accepted /\ accepted \in BOOLEAN
  BY Zenon DEF Init
<1>. QED
  BY <1>1, <1>2 DEF CountInv, Honest, Reruns, FleetValues, NoRerun

\* No step of the pass, of GitHub or of anybody else breaks the count.
LEMMA CountNext == CountInv /\ [Next]_vars => CountInv'
<1> SUFFICES ASSUME CountInv, [Next]_vars PROVE CountInv'
  OBVIOUS
<1> USE DEF CountInv, Honest, Reruns, FleetValues
<1>1. CASE Begin
  BY <1>1 DEF Begin, durable
<1>2. CASE Handle
  BY <1>2 DEF Handle, github, durable
<1>3. CASE Reconcile
  BY <1>3 DEF Reconcile, ConfirmedHappened, github, durable, NoRerun
<1>4. CASE Original
  <2>1. f' = f \/ f' = [f EXCEPT !.pending.polls = 0] \/ f' = [f EXCEPT !.pending = NoRerun]
          \/ f' = [f EXCEPT !.pending.polls = @ + 1]
    BY <1>4 DEF Original, Absent
  <2> QED
    BY <1>4, <2>1 DEF Original, github, durable, NoRerun
<1>5. CASE Fetch
  BY <1>5 DEF Fetch, github, durable
<1>6. CASE Post
  <2>1. CASE Accept /\ f' = [f EXCEPT !.used = @ + 1] /\ UNCHANGED <<sent, missed>>
    BY <1>6, <2>1 DEF Post, Accept, Acceptable, durable
  <2>2. CASE UNCHANGED <<accepted, f>>
    BY <1>6, <2>2 DEF Post, durable
  <2>3. CASE /\ f' = [f EXCEPT !.pending = [attempt |-> f.used + 1, polls |-> 0]]
             /\ UNCHANGED accepted
    BY <1>6, <2>3 DEF Post, durable
  <2> QED BY <1>6, <2>1, <2>2, <2>3 DEF Post
<1>7. CASE Save
  BY <1>7 DEF Save, github
<1>8. CASE SaveFleet
  BY <1>8 DEF SaveFleet, github, NoFleet, NoRerun
<1>9. CASE Stop
  BY <1>9 DEF Stop, durable, NoFleet, NoRerun
<1>10. CASE World
  <2>1. CASE \E x \in Allocs : JobStarts(x) \/ JobEnds(x) \/ Interrupt(x)
    <3>1. UNCHANGED <<attempt, accepted, fleet, f>>
      BY <2>1 DEF JobStarts, JobEnds, Interrupt, github, durable, pass
    <3>. QED BY <3>1
  <2>2. CASE Arrive
    <3>1. UNCHANGED <<attempt, fleet, f>>
      BY <2>2 DEF Arrive, durable, pass
    <3>2. accepted' = TRUE \/ accepted' = accepted
      BY <2>2 DEF Arrive, Accept
    <3>3. CASE accepted' = TRUE
      BY <3>1, <3>3
    <3>4. CASE accepted' = accepted
      BY <3>1, <3>4
    <3>. QED BY Zenon, <3>2, <3>3, <3>4
  <2>3. CASE Appear
    <3>1. UNCHANGED <<fleet, f>> /\ attempt' = attempt + 1 /\ accepted /\ ~accepted'
      BY <2>3 DEF Appear, durable, pass
    <3>2. accepted' \in BOOLEAN
      BY Zenon, <2>3 DEF Appear
    <3>. QED BY <3>1, <3>2
  <2>4. CASE RerunByOthers
    <3>1. UNCHANGED <<attempt, fleet, f>> /\ accepted' = TRUE
      BY <2>4 DEF RerunByOthers, durable, pass
    <3>. QED BY <3>1
  <2>. QED BY <1>10, <2>1, <2>2, <2>3, <2>4 DEF World
<1>11. CASE \E x \in Allocs : Prune(x)
  <2>1. UNCHANGED <<attempt, accepted, fleet, f>>
    BY <1>11 DEF Prune, github, pass
  <2>. QED BY <2>1
<1>12. CASE UNCHANGED vars
  BY <1>12 DEF vars, github, durable, pass
<1> QED
  BY <1>1, <1>2, <1>3, <1>4, <1>5, <1>6, <1>7, <1>8, <1>9, <1>10, <1>11, <1>12 DEF Next, Pass

\* No retry is wasted, for any number of jobs, requests, crashes and failed
\* writes: what the fleet counts as used has happened.
THEOREM NoRetryIsWasted == Spec => []NoRetryWasted
<1>1. CountInv => NoRetryWasted
  BY DEF CountInv, Honest, Reruns, NoRetryWasted
<1> QED
  BY <1>1, CountInit, CountNext, PTL DEF Spec
-----------------------------------------------------------------------------
(* Every request is accounted for.  The operator knows of a request as counted  *)
(* or as pending, in the fleet or, within a pass, in its copy of it.            *)

\* A fleet value within the budget; what is pending is the next retry.
Budgeted(g) ==
    /\ g \in FleetValues /\ Known(g) <= MaxRetries
    /\ Pending(g) => g.pending.attempt = g.used + 1

\* What counts: the fleet between two passes, the copy within one.
Held == IF pc = "idle" THEN fleet ELSE f

\* What GitHub did for the operator: each rerun made an attempt of its own.
GitHubInv ==
    /\ attempt \in Nat \ {0} /\ accepted \in BOOLEAN /\ sent \in Nat
    /\ own \in Nat /\ last \in Nat /\ missed \in Nat
    /\ own = 0 \/ own < last
    /\ last <= attempt + (IF accepted THEN 1 ELSE 0)

\* The inductive invariant.
LedgerInv ==
    /\ GitHubInv
    /\ Budgeted(fleet) /\ Budgeted(f)
    /\ pc \in {"reconcile", "original"} => Pending(f)
    /\ pc = "post" => f.used < MaxRetries /\ ~Pending(f)
    /\ own + sent <= Known(Held) + missed

\* The limit on retries is a number.
LEMMA Limit == MaxRetries \in Nat \ {0}
BY RetriesAssumption

\* What a fleet value knows of, with and without a request pending.
LEMMA KnownOf ==
  ASSUME NEW g \in FleetValues
  PROVE  /\ Known(g) \in Nat /\ g.used \in Nat
         /\ Pending(g) => Known(g) = g.used + 1
         /\ ~Pending(g) => Known(g) = g.used
BY DEF FleetValues, Known

\* Initially nothing was asked for and nothing is known.
LEMMA NothingKnown == NoFleet \in FleetValues /\ ~Pending(NoFleet) /\ Known(NoFleet) = 0 /\ Budgeted(NoFleet)
BY Limit DEF NoFleet, FleetValues, NoRerun, Pending, Known, Budgeted

\* Initially there is one attempt, and no request.
LEMMA LedgerInit == Init => LedgerInv
<1> SUFFICES ASSUME Init PROVE LedgerInv
  OBVIOUS
<1>1. fleet = NoFleet /\ f = NoFleet /\ pc = "idle"
  BY Zenon DEF Init, NoFleet
<1>2. attempt = 1 /\ sent = 0 /\ own = 0 /\ last = 0 /\ missed = 0
  BY Zenon DEF Init
<1>3. accepted \in BOOLEAN /\ ~accepted
  BY Zenon DEF Init
<1>4. GitHubInv
  BY <1>2, <1>3 DEF GitHubInv
<1>5. Held = NoFleet
  BY <1>1 DEF Held
<1>. QED
  BY <1>1, <1>2, <1>4, <1>5, NothingKnown DEF LedgerInv

\* GitHub accepts a rerun for the operator only after it has shown the one before.
LEMMA AcceptStep ==
  ASSUME GitHubInv, Accept, attempt' = attempt, sent' \in Nat, missed' \in Nat
  PROVE  GitHubInv' /\ own' = own + 1
<1>1. ~accepted /\ accepted' = TRUE /\ own' = own + 1 /\ last' = attempt + 1
  BY DEF Accept, Acceptable
<1>2. last <= attempt
  BY <1>1 DEF GitHubInv
<1>. QED
  BY <1>1, <1>2 DEF GitHubInv

\* A step that leaves GitHub alone, but for what is on its way.
LEMMA Idle ==
  ASSUME GitHubInv, UNCHANGED <<attempt, accepted, own, last>>, sent' \in Nat, missed' \in Nat
  PROVE  GitHubInv'
BY DEF GitHubInv

\* Reconcile and Original.
LEMMA ReconcileStep ==
  ASSUME LedgerInv, Reconcile
  PROVE  LedgerInv'
<1>1. /\ UNCHANGED <<attempt, sent, accepted, own, last, missed, fleet>>
      /\ pc = "reconcile" /\ pc' \in {"save", "fetch", "original"}
      /\ f' = f \/ (f' = [used |-> f.pending.attempt, pending |-> NoRerun] /\ pc' = "save")
  BY Zenon DEF Reconcile, ConfirmedHappened, Goto, github, history, durable
<1>2. GitHubInv'
  BY <1>1, Idle DEF LedgerInv, GitHubInv
<1>3. Held = f /\ Held' = f' /\ Pending(f) /\ Budgeted(f) /\ f \in FleetValues
  BY <1>1 DEF Held, LedgerInv, Budgeted
<1>4. Budgeted(f') /\ Known(f') = Known(f) /\ (pc' = "original" => Pending(f'))
  <2>1. CASE f' = f
    BY Zenon, <1>3, <2>1
  <2>2. CASE f' = [used |-> f.pending.attempt, pending |-> NoRerun] /\ pc' = "save"
    <3>1. f.pending.attempt = f.used + 1 /\ f.used \in Nat /\ Known(f) = f.used + 1 /\ Known(f) <= MaxRetries
      BY <1>3, KnownOf DEF Budgeted
    <3>2. f' \in FleetValues /\ ~Pending(f') /\ f'.used = f.used + 1
      BY <2>2, <3>1 DEF FleetValues, NoRerun, Pending
    <3>. QED
      BY <2>2, <3>1, <3>2, KnownOf DEF Budgeted
  <2>. QED
    BY <1>1, <2>1, <2>2
<1>5. own' + sent' <= Known(Held') + missed'
  BY <1>1, <1>3, <1>4 DEF LedgerInv
<1>. QED
  BY <1>1, <1>2, <1>4, <1>5 DEF LedgerInv

\* rerunConfirmedDidNotHappen: either GitHub had nothing left of the request, and
\* all it did for the operator are attempts that are counted, or it is lost.
LEMMA OriginalStep ==
  ASSUME LedgerInv, Original
  PROVE  LedgerInv'
<1>1. /\ UNCHANGED <<attempt, sent, accepted, own, last, fleet>>
      /\ pc = "original" /\ pc' = "fetch"
      /\ missed' = IF Alive /\ Pending(f) /\ ~Pending(f') THEN missed + 1 ELSE missed
      /\ f' \in {f, [f EXCEPT !.pending.polls = 0], [f EXCEPT !.pending = NoRerun], [f EXCEPT !.pending.polls = @ + 1]}
  BY Zenon DEF Original, Absent, Goto, durable
<1>2. Held = f /\ Held' = f' /\ Pending(f) /\ Budgeted(f) /\ f \in FleetValues /\ GitHubInv
  BY <1>1 DEF Held, LedgerInv, Budgeted
<1>3. GitHubInv'
  BY <1>1, <1>2, Idle DEF GitHubInv
<1>4. f.pending.attempt = f.used + 1 /\ f.used \in Nat /\ Known(f) = f.used + 1 /\ Known(f) <= MaxRetries
  BY <1>2, KnownOf DEF Budgeted
<1>5. f' \in FleetValues /\ f'.used = f.used /\ (f'.pending = NoRerun \/ f'.pending.attempt = f.used + 1)
  BY <1>1, <1>2, <1>4 DEF FleetValues, NoRerun
<1>6. Budgeted(f')
  BY <1>4, <1>5, KnownOf, Limit DEF Budgeted, Pending
<1>7. own' + sent' <= Known(Held') + missed'
  <2>1. own + sent <= f.used + 1 + missed
    BY <1>2, <1>4 DEF LedgerInv
  <2>2. CASE Pending(f')
    BY <1>1, <1>2, <1>4, <1>5, <2>1, <2>2, KnownOf
  <2>3. CASE ~Pending(f') /\ Alive
    <3>1. missed' = missed + 1 /\ Known(f') = f.used
      BY <1>1, <1>2, <1>5, <2>3, KnownOf
    <3>. QED
      BY <1>1, <1>2, <1>4, <2>1, <3>1 DEF GitHubInv
  <2>4. CASE ~Pending(f') /\ ~Alive
    <3>1. missed' = missed /\ Known(f') = f.used
      BY <1>1, <1>2, <1>5, <2>4, KnownOf
    <3>2. sent = 0 /\ last <= f.used + 1
      BY <1>2, <1>4, <2>4 DEF Alive, GitHubInv
    <3>. QED
      BY <1>1, <1>2, <1>4, <3>1, <3>2 DEF GitHubInv
  <2>. QED
    BY <2>2, <2>3, <2>4
<1>. QED
  BY <1>1, <1>2, <1>3, <1>6, <1>7 DEF LedgerInv

\* RerunFailedJobs, whatever comes of it: the request is within the budget, and
\* counted, refused, pending or lost.
LEMMA PostStep ==
  ASSUME LedgerInv, Post
  PROVE  LedgerInv'
<1>1. UNCHANGED <<attempt, fleet>> /\ pc = "post" /\ pc' = "save"
  BY Zenon DEF Post, Goto, durable
<1>2. /\ Held = f /\ Held' = f' /\ ~Pending(f) /\ f.used < MaxRetries
      /\ Budgeted(fleet) /\ Budgeted(f) /\ f \in FleetValues /\ GitHubInv
  BY <1>1 DEF Held, LedgerInv, Budgeted
<1>3. Known(f) = f.used /\ f.used \in Nat
  BY <1>2, KnownOf
<1>4. own \in Nat /\ sent \in Nat /\ missed \in Nat /\ own + sent <= f.used + missed
  BY <1>2, <1>3 DEF LedgerInv, GitHubInv
<1>5. CASE Accept /\ f' = [f EXCEPT !.used = @ + 1] /\ UNCHANGED <<sent, missed>>
  <2>1. GitHubInv' /\ own' = own + 1
    BY <1>1, <1>2, <1>4, <1>5, AcceptStep
  <2>2. f' \in FleetValues /\ f'.used = f.used + 1 /\ ~Pending(f')
    BY <1>2, <1>5 DEF FleetValues, Pending
  <2>3. Known(f') = f.used + 1 /\ Budgeted(f')
    BY <1>2, <1>3, <2>2, KnownOf, Limit DEF Budgeted
  <2>4. own' + sent' <= Known(Held') + missed'
    BY <1>2, <1>3, <1>4, <1>5, <2>1, <2>3
  <2>. QED
    BY <1>1, <1>2, <2>1, <2>3, <2>4 DEF LedgerInv
<1>6. CASE UNCHANGED <<sent, accepted, history, f>>
  <2>1. UNCHANGED <<sent, accepted, own, last, missed, f>>
    BY Zenon, <1>6 DEF history
  <2>2. GitHubInv'
    BY <1>1, <1>2, <1>4, <2>1, Idle
  <2>. QED
    BY <1>1, <1>2, <1>3, <1>4, <2>1, <2>2 DEF LedgerInv
<1>7. CASE sent' = sent + 1 /\ missed' = missed + 1 /\ UNCHANGED <<accepted, own, last, f>>
  <2>1. GitHubInv'
    BY <1>1, <1>2, <1>4, <1>7, Idle
  <2>. QED
    BY <1>1, <1>2, <1>3, <1>4, <1>7, <2>1 DEF LedgerInv
<1>8. CASE /\ sent' = sent + 1 /\ UNCHANGED <<accepted, history>>
           /\ f' = [f EXCEPT !.pending = [attempt |-> f.used + 1, polls |-> 0]]
  <2>1. UNCHANGED <<accepted, own, last, missed>>
    BY Zenon, <1>8 DEF history
  <2>2. GitHubInv'
    BY <1>1, <1>2, <1>4, <1>8, <2>1, Idle
  <2>3. f' \in FleetValues /\ f'.used = f.used /\ f'.pending = [attempt |-> f.used + 1, polls |-> 0]
    BY <1>2, <1>3, <1>8 DEF FleetValues
  <2>4. Pending(f') /\ f'.pending.attempt = f.used + 1
    BY <1>3, <2>3 DEF Pending, NoRerun
  <2>5. Known(f') = f.used + 1 /\ Budgeted(f')
    BY <1>2, <1>3, <2>3, <2>4, KnownOf, Limit DEF Budgeted
  <2>6. own' + sent' <= Known(Held') + missed'
    BY <1>2, <1>3, <1>4, <1>8, <2>1, <2>5
  <2>. QED
    BY <1>1, <1>2, <2>2, <2>5, <2>6 DEF LedgerInv
<1>. QED
  BY Zenon, <1>5, <1>6, <1>7, <1>8 DEF Post

\* The end of a pass: what only its copy knew of is lost if the fleet is not saved.
LEMMA EndStep ==
  ASSUME LedgerInv, SaveFleet \/ Stop
  PROVE  LedgerInv'
<1>1. /\ UNCHANGED <<attempt, accepted, own, last>>
      /\ pc # "idle" /\ pc' = "idle" /\ f' = NoFleet
      /\ \/ fleet' = f /\ sent' = sent /\ missed' = missed
         \/ fleet' = fleet /\ sent' = sent /\ missed' = missed + Unsaved
         \/ fleet' = fleet /\ sent' = sent + 1 /\ missed' = missed + Unsaved + 1
  BY Zenon DEF SaveFleet, Stop, Goto, durable
<1>2. /\ Held = f /\ Held' = fleet' /\ Budgeted(fleet) /\ Budgeted(f)
      /\ f \in FleetValues /\ fleet \in FleetValues /\ GitHubInv
  BY <1>1 DEF Held, LedgerInv, Budgeted
<1>3. own \in Nat /\ sent \in Nat /\ missed \in Nat /\ own + sent <= Known(f) + missed
  BY <1>2 DEF LedgerInv, GitHubInv
<1>4. Known(f) \in Nat /\ Known(fleet) \in Nat
  BY <1>2, KnownOf
<1>5. Unsaved \in Nat /\ Known(f) <= Known(fleet) + Unsaved
  BY <1>4 DEF Unsaved
<1>6. GitHubInv'
  BY <1>1, <1>2, <1>3, <1>5, Idle
<1>7. Budgeted(fleet') /\ own' + sent' <= Known(Held') + missed'
  BY <1>1, <1>2, <1>3, <1>4, <1>5
<1>. QED
  BY <1>1, <1>6, <1>7, NothingKnown DEF LedgerInv

\* Steps of the pass that leave what it knows alone.
LEMMA PassSteps ==
  ASSUME LedgerInv, Begin \/ Handle \/ Fetch \/ Save
  PROVE  LedgerInv'
<1>1. UNCHANGED <<attempt, sent, accepted, own, last, missed, fleet>>
  BY Zenon DEF Begin, Handle, Fetch, Save, github, history, durable
<1>2. /\ Budgeted(fleet) /\ Budgeted(f) /\ GitHubInv
      /\ own + sent <= Known(Held) + missed
  BY DEF LedgerInv
<1>3. GitHubInv'
  BY <1>1, <1>2, Idle DEF GitHubInv
<1>4. Held' = Held /\ f' \in {f, fleet}
  BY DEF Begin, Handle, Fetch, Save, Goto, Held, durable
<1>5. (pc' \in {"reconcile", "original"} => Pending(f')) /\ (pc' = "post" => f'.used < MaxRetries /\ ~Pending(f'))
  BY DEF Begin, Handle, Fetch, Save, Goto, Eligible
<1>. QED
  BY Zenon, <1>1, <1>2, <1>3, <1>4, <1>5 DEF LedgerInv

\* A count that does not grow stays within its bound.
LEMMA NoMore ==
  ASSUME NEW a \in Nat, NEW b \in Nat, NEW c \in Nat, NEW d \in Nat, NEW k \in Nat, NEW m \in Nat,
         a + b <= c + d, c + d <= k + m
  PROVE  a + b <= k + m
OBVIOUS

\* What GitHub, the jobs and other people do in the meantime.
LEMMA WorldSteps ==
  ASSUME LedgerInv, World \/ (\E x \in Allocs : Prune(x)) \/ UNCHANGED vars
  PROVE  LedgerInv'
<1>1. UNCHANGED <<pc, f, fleet, missed>>
  BY Zenon DEF World, JobStarts, JobEnds, Interrupt, Arrive, Appear, RerunByOthers, Prune, vars, github, history, durable, pass
<1>2. GitHubInv /\ own + sent <= Known(Held) + missed /\ Held' = Held /\ Known(Held) \in Nat
  <2>1. Held \in FleetValues
    BY DEF LedgerInv, Held, Budgeted
  <2>. QED
    BY <1>1, <2>1, KnownOf DEF LedgerInv, Held
<1>3. ASSUME GitHubInv', own' + sent' <= own + sent PROVE LedgerInv'
  <2>0. own \in Nat /\ sent \in Nat /\ missed \in Nat /\ own' \in Nat /\ sent' \in Nat
    BY Zenon, <1>2, <1>3 DEF GitHubInv
  <2>2. Known(Held') = Known(Held) /\ missed' = missed
    BY Zenon, <1>1, <1>2
  <2>4. own' + sent' <= own + sent /\ own + sent <= Known(Held) + missed /\ Known(Held) \in Nat
    BY Zenon, <1>2, <1>3
  <2>3. own' + sent' <= Known(Held) + missed
    BY Zenon, <2>0, <2>4, NoMore
  <2>1. own' + sent' <= Known(Held') + missed'
    BY Zenon, <2>2, <2>3
  <2>. QED
    BY Zenon, <1>1, <1>3, <2>1 DEF LedgerInv
<1>4. CASE Arrive
  <2>1. sent > 0 /\ sent' = sent - 1 /\ attempt' = attempt /\ (Accept \/ UNCHANGED <<accepted, own, last>>)
    BY Zenon, <1>4 DEF Arrive
  <2>2. sent' \in Nat /\ missed' \in Nat
    BY <1>1, <1>2, <2>1 DEF GitHubInv
  <2>3. CASE Accept
    <3>1. GitHubInv' /\ own' = own + 1
      BY <1>2, <2>1, <2>2, <2>3, AcceptStep
    <3>2. own' + sent' <= own + sent
      BY <1>2, <2>1, <3>1 DEF GitHubInv
    <3>. QED
      BY <1>3, <3>1, <3>2
  <2>4. CASE UNCHANGED <<accepted, own, last>>
    <3>1. GitHubInv'
      BY <1>2, <2>1, <2>2, <2>4, Idle
    <3>2. own' + sent' <= own + sent
      BY <1>2, <2>1, <2>4 DEF GitHubInv
    <3>. QED
      BY <1>3, <3>1, <3>2
  <2>. QED
    BY <2>1, <2>3, <2>4
<1>5. CASE Appear
  <2>1. UNCHANGED <<sent, own, last>> /\ accepted /\ attempt' = attempt + 1
    BY Zenon, <1>5 DEF Appear, history
  <2>2. accepted' = FALSE
    BY Zenon, <1>5 DEF Appear
  <2>5. attempt \in Nat \ {0} /\ last \in Nat /\ last <= attempt + 1
    BY <1>2, <2>1 DEF GitHubInv
  <2>6. attempt' \in Nat \ {0} /\ last' <= attempt' + (IF accepted' THEN 1 ELSE 0)
    BY <2>1, <2>2, <2>5
  <2>3. GitHubInv'
    BY Zenon, <1>1, <1>2, <2>1, <2>2, <2>6 DEF GitHubInv
  <2>4. own' + sent' <= own + sent
    BY <1>2, <2>1 DEF GitHubInv
  <2>. QED
    BY <1>3, <2>3, <2>4
<1>6. CASE RerunByOthers
  <2>1. UNCHANGED <<sent, own, last, attempt>> /\ accepted' = TRUE
    BY Zenon, <1>6 DEF RerunByOthers, history
  <2>2. GitHubInv'
    BY <1>1, <1>2, <2>1 DEF GitHubInv
  <2>3. own' + sent' <= own + sent
    BY <1>2, <2>1 DEF GitHubInv
  <2>. QED
    BY <1>3, <2>2, <2>3
<1>7. CASE (\E x \in Allocs : JobStarts(x) \/ JobEnds(x) \/ Interrupt(x) \/ Prune(x)) \/ UNCHANGED vars
  <2>1. UNCHANGED <<attempt, sent, accepted, own, last>>
    BY Zenon, <1>7 DEF JobStarts, JobEnds, Interrupt, Prune, vars, github, history
  <2>2. GitHubInv'
    BY <1>1, <1>2, <2>1, Idle DEF GitHubInv
  <2>3. own' + sent' <= own + sent
    BY <1>2, <2>1 DEF GitHubInv
  <2>. QED
    BY <1>3, <2>2, <2>3
<1>. QED
  BY Zenon, <1>4, <1>5, <1>6, <1>7 DEF World

\* Every step keeps the ledger.
LEMMA LedgerNext == LedgerInv /\ [Next]_vars => LedgerInv'
BY Zenon, ReconcileStep, OriginalStep, PostStep, EndStep, PassSteps, WorldSteps DEF Next, Pass

\* The invariant always holds.
LEMMA LedgerAlways == Spec => []LedgerInv
BY LedgerInit, LedgerNext, PTL DEF Spec

\* processInterruptionRetries reruns a run at most MaxRetries times, and once more
\* for each request of which it lost track: for any number of jobs, lost answers,
\* stops, failed writes, pruned records and reruns by others.
THEOREM RetriesAreBounded == Spec => []RetriesBounded
<1>1. LedgerInv => RetriesBounded
  <2> SUFFICES ASSUME LedgerInv PROVE RetriesBounded
    OBVIOUS
  <2>1. Held \in FleetValues /\ Known(Held) <= MaxRetries
    BY DEF LedgerInv, Budgeted, Held
  <2>2. Known(Held) \in Nat
    BY <2>1, KnownOf
  <2>3. own \in Nat /\ sent \in Nat /\ missed \in Nat /\ own + sent <= Known(Held) + missed
    BY DEF LedgerInv, GitHubInv
  <2>. QED
    BY <2>1, <2>2, <2>3, Limit DEF RetriesBounded
<1>. QED
  BY <1>1, LedgerAlways, PTL

\* Between two passes every rerun that GitHub carried out or is to carry out for
\* the operator is counted in RetriesUsedByRun, parked in PendingReruns, or one of
\* those it lost track of: no other request ever goes missing.
THEOREM RerunsAreAccounted == Spec => []RerunsAccounted
<1>1. LedgerInv => RerunsAccounted
  BY DEF LedgerInv, Held, RerunsAccounted
<1>. QED
  BY <1>1, LedgerAlways, PTL
=============================================================================
