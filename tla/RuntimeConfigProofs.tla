------------------------ MODULE RuntimeConfigProofs ------------------------
(* Proofs about what Runtime does to, and with, the configuration users write, *)
(* for any number of scale sets, edits and losses.                            *)
EXTENDS RuntimeProofs

-----------------------------------------------------------------------------
(* The scale set in the API *)

\* A write of the scale set that is not a creation.
RootRewritten ==
    \/ root' = ProtectedRoot
    \/ root' = NoRoot /\ root.uid # 0
    \/ \E s \in Specs : root' = [root EXCEPT !.spec = s, !.gen = @ + 1]
    \/ root' = [root EXCEPT !.deleting = TRUE]

\* A creation, of a UID that is not the one of an object read before.
RootCreated ==
    root.uid = 0 /\ \E u \in Nat \ {0, obs.uid, got.root.uid} : root' = [NoRoot EXCEPT !.uid = u]

\* Every write of the scale set is one of these, and only the two writes of
\* Reconcile are not announced to it.
LEMMA RootWrites ==
    ASSUME OwnerInv, Next, root' # root
    PROVE  /\ RootRewritten \/ RootCreated
           /\ \/ pc = "protect" /\ pc' \in {"start", "idle"}
              \/ pc = "unguard" /\ pc' \in {"condition", "idle"}
              \/ "root" \in stale' /\ UNCHANGED <<worker, ready, pc, line, obs, got, want>>
<1>1. ASSUME NEW ok \in BOOLEAN, Reconcile(ok)
      PROVE  Protect(ok) \/ Unguard(ok)
  BY Zenon, <1>1 DEF Reconcile, ReadRoot, ReadCheckpoint, Load, Decide, Save, Observe, Current, Start, Recover,
         Cleanup, Finalize, Condition, Status, cluster
<1>2. ASSUME NEW ok \in BOOLEAN, Protect(ok)
      PROVE  root' = ProtectedRoot /\ pc = "protect" /\ pc' \in {"start", "idle"}
  BY <1>2 DEF Protect, Abort, Return, Goto
<1>3. ASSUME NEW ok \in BOOLEAN, Unguard(ok)
      PROVE  root' = NoRoot /\ root.uid # 0 /\ pc = "unguard" /\ pc' \in {"condition", "idle"}
  <2>1. root' = NoRoot /\ pc = "unguard" /\ "root" \notin stale
    BY <1>3 DEF Unguard
  <2>2. root.uid # 0
    BY <2>1 DEF OwnerInv, Releasing
  <2>3. pc' \in {"condition", "idle"}
    BY <1>3 DEF Unguard, Abort, Return, Report, Goto
  <2>. QED
    BY <2>1, <2>2, <2>3
<1>4. CASE EditRoot \/ DeleteRoot
  <2>1. "root" \in stale' /\ UNCHANGED <<worker, ready, pc, line, obs, got, want>>
    BY Zenon, <1>4 DEF EditRoot, DeleteRoot, Written
  <2>2. RootRewritten
    BY Zenon, <1>4 DEF EditRoot, DeleteRoot, RootRewritten
  <2>. QED
    BY <2>1, <2>2
<1>5. CASE CreateRoot
  <2>1. "root" \in stale' /\ UNCHANGED <<worker, ready, pc, line, obs, got, want>> /\ root.uid = 0
    BY <1>5 DEF CreateRoot, Written
  <2>2. PICK u \in Uids \ {0} : u \notin {obs.uid, got.root.uid} /\ root' = [NoRoot EXCEPT !.uid = u]
    BY <1>5 DEF CreateRoot
  <2>3. u \in Nat \ {0, obs.uid, got.root.uid}
    BY <2>2, BoundAssumption DEF Uids
  <2>. QED
    BY <2>1, <2>2, <2>3 DEF RootCreated
<1>6. ~(EditDependency("deps") \/ EditDependency("secret") \/ LoseCheckpoint)
  BY DEF EditDependency, LoseCheckpoint
<1>7. ~(WorkerReady \/ WorkerAdmits \/ WorkerResolves \/ SessionEnds \/ CleanupEnds \/ Leave)
  BY DEF WorkerReady, WorkerAdmits, WorkerResolves, SessionEnds, CleanupEnds, Leave, cluster
<1>. QED
  BY Zenon, <1>1, <1>2, <1>3, <1>4, <1>5, <1>6, <1>7 DEF Next, Users, RootRewritten

\* The finalizer's two writes (Runtime.protect and finalize) go to the revision
\* that was read, so they undo neither an edit of the user nor a deletion.
THEOREM EditsAreKept == Spec => KeepsUserEdits
<1>1. ASSUME OwnerInv, [Next]_vars
      PROVE  [root'.uid = root.uid => root'.gen >= root.gen /\ (root.deleting => root'.deleting)]_vars
  <2>1. root \in Roots
    BY <1>1 DEF OwnerInv, Types
  <2>2. CASE root' = root
    BY <2>1, <2>2 DEF Roots
  <2>3. CASE Next /\ root' # root
    <3>1. RootRewritten \/ RootCreated
      BY <1>1, <2>3, RootWrites
    <3>2. CASE root' = ProtectedRoot
      BY <2>1, <3>2 DEF ProtectedRoot, Roots
    <3>3. CASE root' = NoRoot /\ root.uid # 0
      BY <3>3, Nothing
    <3>4. CASE \E s \in Specs : root' = [root EXCEPT !.spec = s, !.gen = @ + 1]
      <4>1. PICK s \in Specs : root' = [root EXCEPT !.spec = s, !.gen = @ + 1]
        BY Zenon, <3>4
      <4>2. root'.gen = root.gen + 1 /\ root'.deleting = root.deleting /\ root.gen \in Nat
        BY <2>1, <4>1 DEF Roots
      <4>. QED
        BY <4>2
    <3>5. CASE root' = [root EXCEPT !.deleting = TRUE]
      BY <2>1, <3>5 DEF Roots
    <3>6. CASE RootCreated
      BY <3>6, Nothing DEF RootCreated, Roots
    <3>. QED
      BY Zenon, <3>1, <3>2, <3>3, <3>4, <3>5, <3>6 DEF RootRewritten
  <2>. QED
    BY <1>1, <2>2, <2>3 DEF vars, cluster
<1>. QED
  BY <1>1, OwnerAlways, PTL DEF Spec, KeepsUserEdits

-----------------------------------------------------------------------------
(* Load *)

\* The configuration in force has been seen, and what was read and not written
\* since is in force.  From the moment the Secrets are read, the configuration
\* that was read has been in force as a whole, unless a check is going to fail.
Together ==
    /\ pc = "load" =>
        /\ KeyOf(root, live) \in seen
        /\ line >= 2 /\ "root" \notin stale => root = got.root
        /\ line >= 3 /\ "deps" \notin stale => live.deps = got.deps
        /\ line \in {6, 7} /\ "root" \notin stale /\ "deps" \notin stale => KeyOf(got.root, got) \in seen
        /\ line = 8 /\ "deps" \notin stale => KeyOf(got.root, got) \in seen
    /\ LoadedTogether

\* What a line of Load does that is passed.
LEMMA LoadLine ==
    ASSUME OwnerInv, NEW ok \in BOOLEAN, Load(ok), ~LoadFails
    PROVE  /\ line \in 1..8 /\ UNCHANGED <<root, live, seen, obs, worker, ready, want>>
           /\ IF line < 8 THEN pc' = "load" /\ line' = line + 1 ELSE pc' = "decide" /\ line' = 0
           /\ \/ line = 1 /\ got' = [got EXCEPT !["root"] = root] /\ stale' = stale \ {"root"}
              \/ line = 2 /\ got' = [got EXCEPT !["deps"] = live["deps"]] /\ stale' = stale \ {"deps"}
              \/ line = 5 /\ got' = [got EXCEPT !["secret"] = live["secret"]] /\ stale' = stale \ {"secret"}
              \/ line \in {3, 7} /\ UNCHANGED <<got, stale>> /\ "root" \notin stale
              \/ line \in {4, 8} /\ UNCHANGED <<got, stale>> /\ "deps" \notin stale
              \/ line = 6 /\ UNCHANGED <<got, stale>> /\ "secret" \notin stale
<1> DEFINE s == LoadSteps[line]
<1>1. /\ LoadPasses(s)
      /\ got' = IF s.op = "check" THEN got
                ELSE [got EXCEPT ![s.obj] = IF s.obj = "root" THEN root ELSE live[s.obj]]
      /\ stale' = IF s.op = "check" THEN stale ELSE stale \ {s.obj}
      /\ line' = IF line < Len(LoadSteps) THEN line + 1 ELSE 0
      /\ pc' = IF line < Len(LoadSteps) THEN "load" ELSE "decide"
      /\ UNCHANGED <<root, live, seen, obs, worker, ready, want>>
  BY DEF Load, Goto, cluster
<1>2. Len(LoadSteps) = 8
  BY DEF LoadSteps
<1>3. line \in 1..8
  BY DEF Load, OwnerInv, Accepting
<1>4. \/ line = 1 /\ s.op = "get" /\ s.obj = "root"
      \/ line = 2 /\ s.op = "get" /\ s.obj = "deps"
      \/ line = 5 /\ s.op = "get" /\ s.obj = "secret"
      \/ line \in {3, 7} /\ s.op = "check" /\ s.obj = "root"
      \/ line \in {4, 8} /\ s.op = "check" /\ s.obj = "deps"
      \/ line = 6 /\ s.op = "check" /\ s.obj = "secret"
  BY <1>3 DEF LoadSteps, Get, Check
<1>5. s.op = "check" => s.obj \notin stale
  BY <1>1 DEF LoadPasses
<1> HIDE DEF s
<1>6. \/ line = 1 /\ got' = [got EXCEPT !["root"] = root] /\ stale' = stale \ {"root"}
      \/ line = 2 /\ got' = [got EXCEPT !["deps"] = live["deps"]] /\ stale' = stale \ {"deps"}
      \/ line = 5 /\ got' = [got EXCEPT !["secret"] = live["secret"]] /\ stale' = stale \ {"secret"}
      \/ line \in {3, 7} /\ UNCHANGED <<got, stale>> /\ "root" \notin stale
      \/ line \in {4, 8} /\ UNCHANGED <<got, stale>> /\ "deps" \notin stale
      \/ line = 6 /\ UNCHANGED <<got, stale>> /\ "secret" \notin stale
  BY Zenon, <1>1, <1>4, <1>5
<1>. QED
  BY <1>1, <1>2, <1>3, <1>6

\* A line of Load that fails leaves Load.
LEMMA LoadLeaves ==
    ASSUME LoadFails
    PROVE  pc' \in {"recover", "condition"}
BY DEF LoadFails, Report, Goto

\* A line of Load keeps the invariant.
LEMMA LoadKeepsTogether ==
    ASSUME OwnerInv, Together, NEW ok \in BOOLEAN, Load(ok)
    PROVE  Together'
<1>1. CASE LoadFails
  BY <1>1, LoadLeaves DEF Together, LoadedTogether
<1>2. CASE ~LoadFails
  <2>1. pc = "load" /\ line \in 1..8 /\ UNCHANGED <<root, live, seen>>
    BY <1>2, LoadLine DEF Load
  <2>2. got \in [root: Roots, deps: Deps, secret: Secrets] /\ live \in [deps: Deps, secret: Secrets]
    BY DEF OwnerInv, Types
  <2>3. CASE line = 1
    <3>1. pc' = "load" /\ line' = 2 /\ got'.root = root
      BY <1>2, <2>2, <2>3, LoadLine
    <3>. QED
      BY <2>1, <3>1 DEF Together, LoadedTogether, KeyOf
  <2>4. CASE line = 2
    <3>1. pc' = "load" /\ line' = 3 /\ got'.root = got.root /\ got'.deps = live.deps /\ stale' = stale \ {"deps"}
      BY <1>2, <2>2, <2>4, LoadLine
    <3>. QED
      BY <2>1, <2>4, <3>1 DEF Together, LoadedTogether, KeyOf
  <2>5. CASE line = 5
    <3>1. /\ pc' = "load" /\ line' = 6 /\ got'.root = got.root /\ got'.deps = got.deps
          /\ got'.secret = live.secret /\ stale' = stale \ {"secret"}
      BY <1>2, <2>2, <2>5, LoadLine
    <3>. QED
      BY <2>1, <2>5, <3>1 DEF Together, LoadedTogether, KeyOf
  <2>6. CASE line = 8
    <3>1. pc' = "decide" /\ UNCHANGED got /\ "deps" \notin stale
      BY <1>2, <2>6, LoadLine
    <3>. QED
      BY <2>1, <2>6, <3>1 DEF Together, LoadedTogether, KeyOf
  <2>7. CASE line \in {3, 4, 6, 7}
    <3>1. /\ pc' = "load" /\ line' = line + 1 /\ UNCHANGED <<got, stale>>
          /\ line = 7 => "root" \notin stale
      BY <1>2, <2>7, LoadLine
    <3>. QED
      BY <2>1, <2>7, <3>1 DEF Together, LoadedTogether, KeyOf
  <2>. QED
    BY <2>1, <2>3, <2>4, <2>5, <2>6, <2>7
<1>. QED
  BY <1>1, <1>2

\* What users write while Load runs is seen.
LEMMA WritesKeepTogether ==
    ASSUME OwnerInv, Together, Users
    PROVE  Together'
<1>1. UNCHANGED <<pc, line, got>> /\ seen \subseteq seen' /\ stale \subseteq stale'
  BY Zenon DEF Users, EditRoot, DeleteRoot, CreateRoot, LoseCheckpoint, EditDependency, Written, handler
<1>2. /\ root' # root => "root" \in stale'
      /\ live'.deps # live.deps => "deps" \in stale'
  <2>1. live \in [deps: Deps, secret: Secrets]
    BY DEF OwnerInv, Types
  <2>2. CASE EditDependency("deps")
    BY <2>2 DEF EditDependency, Written
  <2>3. CASE EditDependency("secret")
    BY <2>1, <2>3 DEF EditDependency, Written
  <2>. QED
    BY Zenon, <2>2, <2>3 DEF Users, EditRoot, DeleteRoot, CreateRoot, LoseCheckpoint, Written
<1>3. pc = "load" => KeyOf(root', live') \in seen' \/ UNCHANGED <<root, live>>
  BY Zenon DEF Users, EditRoot, DeleteRoot, CreateRoot, LoseCheckpoint, EditDependency, Written
<1>4. KeyOf(got.root, got)' = KeyOf(got.root, got) /\ KeyOf(root, live)' = KeyOf(root', live')
  BY <1>1 DEF KeyOf
<1>5. pc' = "load" => KeyOf(root, live)' \in seen'
  BY <1>1, <1>3, <1>4 DEF Together, KeyOf
<1>6. pc' = "load" => /\ line' >= 2 /\ "root" \notin stale' => root' = got'.root
                      /\ line' >= 3 /\ "deps" \notin stale' => live'.deps = got'.deps
  BY <1>1, <1>2 DEF Together
<1>. QED
  BY <1>1, <1>4, <1>5, <1>6 DEF Together, LoadedTogether

\* Every step keeps the invariant; but for Load and its start, Reconcile is then elsewhere.
LEMMA TogetherKept == OwnerInv /\ Together /\ [Next]_vars => Together'
<1>. SUFFICES ASSUME OwnerInv, Together, [Next]_vars PROVE Together'
  OBVIOUS
<1>1. ASSUME NEW ok \in BOOLEAN, ReadCheckpoint(ok) PROVE Together'
  <2>1. CASE pc' = "load"
    BY <1>1, <2>1 DEF ReadCheckpoint, Report, Goto, Together, LoadedTogether, cluster, KeyOf
  <2>2. pc' # "decide"
    BY <1>1 DEF ReadCheckpoint, Report, Goto
  <2>. QED
    BY <2>1, <2>2 DEF Together, LoadedTogether
<1>2. ASSUME NEW ok \in BOOLEAN, Reconcile(ok), ~Load(ok), ~ReadCheckpoint(ok) PROVE Together'
  <2>1. pc' \notin {"load", "decide"}
    <3>1. CASE ReadRoot(ok) \/ Decide(ok) \/ Save(ok) \/ Observe(ok) \/ Current(ok) \/ Protect(ok)
      BY <3>1 DEF ReadRoot, Decide, Save, Observe, Current, Protect, Abort, StopFails, Return, Report, Goto
    <3>2. CASE Start(ok) \/ Recover(ok) \/ Cleanup(ok) \/ Finalize(ok) \/ Unguard(ok)
      BY Zenon, <3>2 DEF Start, Recover, Cleanup, AfterCleanup, Finalize, Unguard, Abort, StopFails,
         Return, Report, Goto
    <3>3. CASE Condition(ok) \/ Status(ok)
      BY <3>3 DEF Condition, Status, Abort, Return, Goto
    <3>. QED
      BY <1>2, <3>1, <3>2, <3>3 DEF Reconcile
  <2>. QED
    BY <2>1 DEF Together, LoadedTogether
<1>3. CASE WorkerReady \/ WorkerAdmits \/ WorkerResolves \/ SessionEnds \/ CleanupEnds \/ UNCHANGED vars
  <2>1. UNCHANGED <<root, live, pc, line, got, seen, stale>>
    BY <1>3 DEF WorkerReady, WorkerAdmits, WorkerResolves, SessionEnds, CleanupEnds, vars, cluster, handler
  <2>. QED
    BY <2>1 DEF Together, LoadedTogether, KeyOf
<1>4. CASE Leave
  BY <1>4 DEF Leave, Return, Goto, Together, LoadedTogether
<1>. QED
  BY <1>1, <1>2, <1>3, <1>4, LoadKeepsTogether, WritesKeepTogether DEF Next

\* Load reads the scale set, its dependencies and its Secrets one at a time, and
\* users edit in between: what it accepts (Read, ResolveSecrets, Recheck) was all
\* in force at one moment, however many edits there are.
THEOREM AcceptedWhole == Spec => []LoadedTogether
<1>1. Init => Together
  BY DEF Init, Together, LoadedTogether
<1>2. Together => LoadedTogether
  BY DEF Together
<1>. QED
  BY <1>1, <1>2, OwnerAlways, TogetherKept, PTL DEF Spec

-----------------------------------------------------------------------------
(* The checkpoint *)

\* As long as nobody else touches it, the checkpoint is still the one that was
\* read, and on the way to a session the one that was written.
Follows ==
    /\ losses \in Nat
    /\ WorkerFollowsCheckpoint
    /\ losses = 0 => /\ saved.state = "ok" => saved = ckpt
                     /\ pc \in {"observe", "current", "protect", "start"} => ckpt = Candidate
    /\ pc \in {"recover", "cleanup"} => saved.state = "ok"

\* The worker after the step is the one before it, or none.
SameOrNone ==
    \/ worker'.mode = "none"
    \/ worker'.mode = worker.mode /\ worker'.uid = worker.uid /\ worker'.key = worker.key

\* The ways to leave the worker the same, or none.
LEMMA HandleKept ==
    ASSUME OwnerInv, \/ worker' \in {worker, Paused(worker), NoWorker, Paused(NoWorker)} \/ StopFails
                     \/ WorkerReady \/ SessionEnds \/ CleanupEnds
                     \/ worker' = [worker EXCEPT !.paused = Suspended]
    PROVE  SameOrNone
<1>1. worker \in Workers
  BY DEF OwnerInv, Types
<1>2. \A w \in Workers : /\ Paused(w) \in Workers /\ Paused(w).mode = w.mode
                         /\ Paused(w).uid = w.uid /\ Paused(w).key = w.key
  BY Zenon DEF Paused, Workers
<1>3. CASE StopFails
  <2>1. worker' = [Paused(worker) EXCEPT !.done = TRUE, !.ready = FALSE]
    BY <1>3 DEF StopFails
  <2>. QED
    BY <1>1, <1>2, <2>1 DEF SameOrNone, Workers
<1>4. CASE WorkerReady \/ SessionEnds \/ CleanupEnds \/ worker' = [worker EXCEPT !.paused = Suspended]
  BY Zenon, <1>1, <1>4 DEF SameOrNone, Workers, WorkerReady, SessionEnds, CleanupEnds
<1>. QED
  BY <1>1, <1>2, <1>3, <1>4, Nothing DEF SameOrNone

\* A step that leaves the checkpoint alone and does not go on towards a worker.
LEMMA FollowsOn ==
    ASSUME Follows, SameOrNone, UNCHANGED <<ckpt, losses>>, saved' \in {saved, NoCheckpoint},
           pc' \notin {"observe", "current", "protect", "start", "recover", "cleanup"}
    PROVE  Follows'
BY Nothing DEF Follows, SameOrNone, WorkerFollowsCheckpoint

\* An end of Reconcile is such a step.
LEMMA FollowsEnd ==
    ASSUME Follows, SameOrNone, UNCHANGED <<ckpt, losses>>, Return \/ \E b : Report(b)
    PROVE  Follows'
<1>1. saved' = NoCheckpoint /\ pc' \in {"idle", "condition"}
  BY DEF Return, Report, Goto
<1>. QED
  BY <1>1, FollowsOn

\* A new worker is for the owner of the checkpoint.
LEMMA FollowsNew ==
    ASSUME Follows, UNCHANGED <<ckpt, losses>>, saved' = NoCheckpoint, pc' = "condition",
           losses = 0 => ckpt.state = "ok" /\ ckpt.uid = worker'.uid,
           losses = 0 /\ worker'.mode = "session" => ckpt.deps = worker'.key.deps
    PROVE  Follows'
BY Nothing DEF Follows, WorkerFollowsCheckpoint

\* What NewWorker makes.
LEMMA NewWorkerFor ==
    ASSUME NEW m \in {"session", "recovery", "cleanup"}, NEW u \in Nat, NEW k \in Key, NEW b \in BOOLEAN
    PROVE  /\ NewWorker(m, u, k, b).mode = m /\ NewWorker(m, u, k, b).uid = u
           /\ NewWorker(m, u, k, b).key = k
BY DEF NewWorker, NoWorker

\* The reads, up to a candidate.
LEMMA ReadsFollow ==
    ASSUME OwnerInv, Follows, NEW ok \in BOOLEAN, ReadRoot(ok) \/ ReadCheckpoint(ok) \/ Load(ok) \/ Decide(ok)
    PROVE  Follows'
<1>0. UNCHANGED <<ckpt, losses>>
  BY Zenon DEF ReadRoot, ReadCheckpoint, Load, Decide, cluster
<1>1. CASE ReadRoot(ok)
  <2>1. SameOrNone
    BY <1>1, HandleKept DEF ReadRoot, Abort, Pause
  <2>2. Return \/ (UNCHANGED saved /\ pc' = "checkpoint")
    BY <1>1 DEF ReadRoot, Abort, Goto
  <2>. QED
    BY <1>0, <2>1, <2>2, FollowsEnd, FollowsOn
<1>2. CASE ReadCheckpoint(ok)
  <2>1. SameOrNone
    BY Zenon, <1>2, HandleKept DEF ReadCheckpoint, Pause
  <2>2. CASE Report(FALSE)
    BY Zenon, <1>0, <2>1, <2>2, FollowsEnd
  <2>3. CASE saved' = ckpt /\ (Deleting => ckpt.state = "ok") /\ Goto(IF Deleting THEN "cleanup" ELSE "load")
    BY <1>0, <2>1, <2>3 DEF Goto, Follows, SameOrNone, WorkerFollowsCheckpoint
  <2>. QED
    BY Zenon, <1>2, <2>2, <2>3 DEF ReadCheckpoint
<1>3. CASE Load(ok)
  <2>1. CASE LoadFails
    <3>1. SameOrNone
      BY <2>1, HandleKept DEF LoadFails, Pause
    <3>2. CASE Report(FALSE)
      BY Zenon, <1>0, <3>1, <3>2, FollowsEnd
    <3>3. CASE saved.state = "ok" /\ Goto("recover") /\ UNCHANGED saved
      BY <1>0, <3>1, <3>3 DEF Goto, Follows, SameOrNone, WorkerFollowsCheckpoint
    <3>. QED
      BY Zenon, <2>1, <3>2, <3>3 DEF LoadFails
  <2>2. CASE ~LoadFails
    <3>1. UNCHANGED <<worker, saved>> /\ pc' \in {"load", "decide"}
      BY <1>3, <2>2 DEF Load, Goto
    <3>. QED
      BY <1>0, <3>1, HandleKept, FollowsOn
  <2>. QED
    BY <2>1, <2>2
<1>4. CASE Decide(ok)
  <2>1. SameOrNone
    BY Zenon, <1>4, HandleKept DEF Decide, Abort, Pause
  <2>2. Return \/ (\E b : Report(b)) \/ (UNCHANGED saved /\ pc' = "save")
    BY Zenon, <1>4 DEF Decide, Abort, StopFails, Goto
  <2>. QED
    BY <1>0, <2>1, <2>2, FollowsEnd, FollowsOn
<1>. QED
  BY <1>1, <1>2, <1>3, <1>4

\* Save keeps the owner and the binding.
LEMMA SaveFollows ==
    ASSUME OwnerInv, Follows, NEW ok \in BOOLEAN, Save(ok)
    PROVE  Follows'
<1>0. UNCHANGED losses /\ pc = "save"
  BY Zenon DEF Save
<1>1. SameOrNone
  BY Zenon, HandleKept DEF Save
<1>2. ckpt \in Checkpoints /\ got \in [root: Roots, deps: Deps, secret: Secrets]
  BY DEF OwnerInv, Types
<1>3. Candidate.state = "ok" /\ Candidate.uid = got.root.uid /\ Candidate.deps = got.deps
  BY DEF Candidate
<1>4. ckpt.state = "ok" /\ Saveable => Candidate = ckpt
  BY <1>2 DEF Saveable, Candidate, Checkpoints
<1>5. ckpt' = ckpt \/ (Saveable /\ ckpt' = Candidate)
  BY DEF Save
<1>6. losses = 0 /\ worker.mode # "none" => ckpt.state = "ok"
  BY DEF Follows, WorkerFollowsCheckpoint
<1>7. losses = 0 => WorkerFollowsCheckpoint'
  BY <1>0, <1>1, <1>4, <1>5, <1>6 DEF Follows, SameOrNone, WorkerFollowsCheckpoint
<1>8. \/ pc' = "observe" /\ ckpt' = Candidate /\ UNCHANGED <<saved, got>>
      \/ pc' = "recover" /\ saved.state = "ok" /\ UNCHANGED saved
      \/ pc' = "condition" /\ saved' = NoCheckpoint
  BY DEF Save, Goto, Report
<1>9. Candidate' = Candidate \/ got' # got
  BY DEF Candidate
<1>10. losses = 0 /\ saved.state = "ok" => saved = ckpt'
  BY <1>4, <1>5 DEF Follows
<1>. QED
  BY <1>0, <1>7, <1>8, <1>9, <1>10, Nothing DEF Follows, WorkerFollowsCheckpoint

\* The way to a session keeps what was written.
LEMMA AcceptsFollow ==
    ASSUME OwnerInv, Follows, NEW ok \in BOOLEAN, Observe(ok) \/ Current(ok) \/ Protect(ok) \/ Start(ok)
    PROVE  Follows'
<1>0. UNCHANGED <<ckpt, losses>>
  BY Zenon DEF Observe, Current, Protect, Start, cluster
<1>1. CASE Abort \/ StopFails
  <2>1. SameOrNone
    BY <1>1, HandleKept DEF Abort, Pause
  <2>. QED
    BY <1>0, <1>1, <2>1, FollowsEnd DEF Abort, StopFails
<1>2. CASE /\ pc \in {"observe", "current", "protect"} /\ pc' \in {"current", "protect", "start"}
           /\ UNCHANGED <<worker, saved, got>>
  BY <1>0, <1>2 DEF Follows, WorkerFollowsCheckpoint, Candidate
<1>3. CASE Start(ok) /\ worker' = NewWorker("session", got.root.uid, KeyOf(got.root, got), Suspended)
  <2>2. worker'.mode = "session" /\ worker'.uid = got.root.uid /\ worker'.key = KeyOf(got.root, got)
    BY <1>3 DEF NewWorker, NoWorker
  <2>3. losses = 0 => ckpt = Candidate
    BY <1>3 DEF Start, Follows
  <2>4. Report(FALSE)
    <3>1. ~StopFails
      <4>1. SUFFICES ASSUME StopFails PROVE FALSE
        OBVIOUS
      <4>2. worker'.done
        BY <4>1, StopFailsLeaves DEF OwnerInv, Types
      <4>. QED
        BY <1>3, <4>2 DEF NewWorker, NoWorker
    <3>. QED
      BY Zenon, <1>3, <3>1 DEF Start
  <2>5. saved' = NoCheckpoint /\ pc' = "condition"
    BY <2>4 DEF Report, Goto
  <2>6. losses = 0 => ckpt.state = "ok" /\ ckpt.uid = worker'.uid /\ ckpt.deps = worker'.key.deps
    BY <2>2, <2>3 DEF Candidate, KeyOf
  <2>. QED
    BY <1>0, <2>5, <2>6, FollowsNew
<1>. QED
  BY Zenon, <1>1, <1>2, <1>3 DEF Observe, Current, Protect, Start, Goto, handler

\* Recovery and cleanup are for the owner in the checkpoint.
LEMMA ReleasesFollow ==
    ASSUME OwnerInv, Follows, NEW ok \in BOOLEAN, Recover(ok) \/ Cleanup(ok)
    PROVE  Follows'
<1>0. UNCHANGED <<ckpt, losses>> /\ pc \in {"recover", "cleanup"}
  BY Zenon DEF Recover, Cleanup, cluster
<1>1. saved.uid \in Nat /\ NoKey \in Key /\ (losses = 0 => ckpt.state = "ok" /\ ckpt.uid = saved.uid)
  BY <1>0 DEF OwnerInv, Types, Checkpoints, Follows, NoKey, Key, Specs, Deps, Secrets
<1>2. CASE StopFails
  BY Zenon, <1>0, <1>2, HandleKept, FollowsEnd DEF StopFails
<1>3. CASE /\ \E m \in {"recovery", "cleanup"} : worker' = NewWorker(m, saved.uid, NoKey, TRUE)
           /\ Report(FALSE)
  <2>1. worker'.uid = saved.uid /\ worker'.mode # "session"
    <3>1. PICK m \in {"recovery", "cleanup"} : worker' = NewWorker(m, saved.uid, NoKey, TRUE)
      BY Zenon, <1>3
    <3>. QED
      BY <3>1 DEF NewWorker, NoWorker
  <2>2. saved' = NoCheckpoint /\ pc' = "condition"
    BY <1>3 DEF Report, Goto
  <2>. QED
    BY <1>0, <1>1, <2>1, <2>2, FollowsNew
<1>4. CASE /\ worker' \in {worker, Paused(worker), NoWorker, Paused(NoWorker)}
           /\ Report(FALSE) \/ AfterCleanup
  <2>1. SameOrNone
    BY <1>4, HandleKept
  <2>2. Report(FALSE) \/ (pc' = "finalize" /\ UNCHANGED saved)
    BY Zenon, <1>4 DEF AfterCleanup, Goto
  <2>. QED
    BY Zenon, <1>0, <2>1, <2>2, FollowsEnd, FollowsOn
<1>5. CASE Recover(ok)
  BY Zenon, <1>2, <1>3, <1>4, <1>5 DEF Recover
<1>6. CASE Cleanup(ok)
  BY Zenon, <1>2, <1>3, <1>4, <1>6 DEF Cleanup
<1>. QED
  BY <1>5, <1>6

\* The rest of Reconcile starts no worker.
LEMMA EndsFollow ==
    ASSUME OwnerInv, Follows, NEW ok \in BOOLEAN,
           Finalize(ok) \/ Unguard(ok) \/ Condition(ok) \/ Status(ok)
    PROVE  Follows'
<1>0. UNCHANGED <<ckpt, losses>>
  BY Zenon DEF Finalize, Unguard, Condition, Status, cluster
<1>1. SameOrNone
  BY Zenon, HandleKept DEF Finalize, Unguard, Condition, Status, Abort, Pause
<1>2. Return \/ Report(FALSE) \/ (UNCHANGED saved /\ pc' \in {"unguard", "status"})
  BY Zenon DEF Finalize, Unguard, Condition, Status, Abort, Goto, handler
<1>. QED
  BY Zenon, <1>0, <1>1, <1>2, FollowsEnd, FollowsOn

\* Beside Reconcile only a loss touches the checkpoint.
LEMMA OthersFollow ==
    ASSUME OwnerInv, Follows,
           \/ WorkerReady \/ WorkerAdmits \/ WorkerResolves \/ SessionEnds \/ CleanupEnds
           \/ Leave \/ Users \/ UNCHANGED vars
    PROVE  Follows'
<1>1. CASE Leave
  BY <1>1, HandleKept, FollowsEnd DEF Leave, cluster
<1>2. CASE LoseCheckpoint
  <2>1. losses' \in Nat /\ losses' # 0 /\ UNCHANGED <<pc, saved>>
    BY <1>2 DEF LoseCheckpoint, Follows, handler
  <2>. QED
    BY <2>1 DEF Follows, WorkerFollowsCheckpoint
<1>3. CASE ~Leave /\ ~LoseCheckpoint
  <2>1. UNCHANGED <<ckpt, losses, pc, saved, got>>
    BY Zenon, <1>3 DEF WorkerReady, WorkerAdmits, WorkerResolves, SessionEnds, CleanupEnds, Users, EditRoot,
       EditDependency, DeleteRoot, CreateRoot, vars, cluster, handler
  <2>2. SameOrNone
    <3>1. UNCHANGED worker \/ WorkerReady \/ SessionEnds \/ CleanupEnds
      BY Zenon, <1>3 DEF WorkerAdmits, WorkerResolves, Users, EditRoot, EditDependency, DeleteRoot, CreateRoot, vars
    <3>. QED
      BY <3>1, HandleKept
  <2>. QED
    BY <2>1, <2>2 DEF Follows, SameOrNone, WorkerFollowsCheckpoint, Candidate
<1>. QED
  BY <1>1, <1>2, <1>3

\* Every step keeps the invariant.
LEMMA FollowsKept == OwnerInv /\ Follows /\ [Next]_vars => Follows'
BY ReadsFollow, SaveFollows, AcceptsFollow, ReleasesFollow, EndsFollow, OthersFollow DEF Next, Reconcile

\* Save refuses another owner and another binding, and workers are started only
\* for what was read back (Checkpoints.Save, Runtime.Reconcile): as long as
\* nobody but the runtime touches the checkpoint it names the owner and the
\* binding of the worker that runs, through every edit, failure and restart.
THEOREM CheckpointIsFollowed == Spec => []WorkerFollowsCheckpoint
<1>1. Init => Follows
  BY Nothing DEF Init, Follows, WorkerFollowsCheckpoint
<1>2. Follows => WorkerFollowsCheckpoint
  BY DEF Follows
<1>. QED
  BY <1>1, <1>2, OwnerAlways, FollowsKept, PTL DEF Spec

-----------------------------------------------------------------------------
(* Readiness *)

\* Two reads of one generation of a scale set have the same specification.
Alike(a, b) == a.uid # 0 /\ a.uid = b.uid /\ a.gen = b.gen => a.spec = b.spec

\* Reads are not ahead of the API.
Older(a) == a.uid # 0 /\ a.uid = root.uid => a.gen <= root.gen

Snapshots ==
    /\ Older(obs) /\ Alike(obs, root)
    /\ Older(got.root) /\ Alike(got.root, root)
    /\ Alike(obs, got.root)

\* Reconcile is about to report a session that admits.
Reporting ==
    /\ worker.mode = "session" /\ ~worker.paused /\ worker.uid = obs.uid
    /\ obs.uid # 0 /\ obs.spec = "run" /\ ~obs.deleting

Earned ==
    /\ Snapshots
    /\ pc \in {"load", "decide"} => obs.uid # 0 /\ ~obs.deleting
    /\ pc \in {"condition", "status"} => want \in BOOLEAN /\ (want => Reporting)
    /\ pc = "status" /\ "root" \notin stale => SameRootRevision(root, obs)

\* A step reads the scale set as it is, or not.
LEMMA RootReads ==
    ASSUME OwnerInv, Next
    PROVE  /\ obs' \in {obs, root, NoRoot} /\ got'.root \in {got.root, root, NoRoot}
           /\ root' # root => obs' \in {obs, NoRoot} /\ got'.root \in {got.root, NoRoot}
<1>0. NoneGot.root = NoRoot
  BY DEF NoneGot
<1>1. ASSUME Return \/ (\E b : Report(b) /\ UNCHANGED obs) \/ UNCHANGED <<obs, got>>
      PROVE  obs' \in {obs, NoRoot} /\ got'.root \in {got.root, NoRoot}
  BY <1>0, <1>1 DEF Return, Report
<1>2. ASSUME NEW ok \in BOOLEAN, ReadRoot(ok) \/ Current(ok)
      PROVE  /\ obs' \in {obs, root, NoRoot} /\ got'.root \in {got.root, NoRoot} /\ root' = root
  BY <1>0, <1>2 DEF ReadRoot, Current, Abort, Return, cluster
<1>3. ASSUME NEW ok \in BOOLEAN, Load(ok)
      PROVE  /\ obs' \in {obs, NoRoot} /\ got'.root \in {got.root, root, NoRoot} /\ root' = root
  <2>1. UNCHANGED <<root, obs>>
    BY Zenon, <1>3 DEF Load, cluster
  <2>2. got \in [root: Roots, deps: Deps, secret: Secrets]
    BY DEF OwnerInv, Types
  <2>3. CASE LoadFails
    BY <1>0, <2>1, <2>3 DEF LoadFails, Report
  <2>4. CASE ~LoadFails
    BY <1>3, <2>2, <2>4, LoadLine
  <2>. QED
    BY <2>1, <2>3, <2>4
<1>4. ASSUME NEW ok \in BOOLEAN,
             \/ ReadCheckpoint(ok) \/ Decide(ok) \/ Save(ok) \/ Observe(ok) \/ Protect(ok)
      PROVE  obs' \in {obs, NoRoot} /\ got'.root \in {got.root, NoRoot}
  <2>1. Return \/ (\E b : Report(b) /\ UNCHANGED obs) \/ UNCHANGED <<obs, got>>
    BY Zenon, <1>4 DEF ReadCheckpoint, Decide, Save, Observe, Protect, Abort, StopFails, handler
  <2>. QED
    BY <2>1, <1>1
<1>5. ASSUME NEW ok \in BOOLEAN,
             Start(ok) \/ Recover(ok) \/ Cleanup(ok) \/ Finalize(ok) \/ Unguard(ok) \/ Condition(ok) \/ Status(ok)
      PROVE  obs' \in {obs, NoRoot} /\ got'.root \in {got.root, NoRoot}
  <2>1. Return \/ (\E b : Report(b) /\ UNCHANGED obs) \/ UNCHANGED <<obs, got>>
    BY Zenon, <1>5 DEF Start, Recover, Cleanup, AfterCleanup, Finalize, Unguard, Condition, Status,
       Abort, StopFails, handler
  <2>. QED
    BY <2>1, <1>1
<1>6. ASSUME WorkerReady \/ WorkerAdmits \/ WorkerResolves \/ SessionEnds \/ CleanupEnds \/ Leave \/ Users
      PROVE  obs' \in {obs, NoRoot} /\ got'.root \in {got.root, NoRoot}
  <2>1. Return \/ UNCHANGED <<obs, got>>
    BY Zenon, <1>6 DEF WorkerReady, WorkerAdmits, WorkerResolves, SessionEnds, CleanupEnds, Leave, Users,
       EditRoot, EditDependency, DeleteRoot, CreateRoot, LoseCheckpoint, handler
  <2>. QED
    BY <2>1, <1>1
<1>. QED
  BY Zenon, <1>2, <1>3, <1>4, <1>5, <1>6 DEF Next, Reconcile

\* Generations only grow, so reads stay comparable.
LEMMA SnapshotsKept ==
    ASSUME OwnerInv, Snapshots, [Next]_vars
    PROVE  Snapshots'
<1>0. root \in Roots /\ obs \in Roots /\ got.root \in Roots
  BY DEF OwnerInv, Types
<1>1. CASE UNCHANGED vars
  BY <1>1 DEF vars, cluster, handler, Snapshots, Older, Alike
<1>2. CASE Next /\ root' = root
  <2>1. obs' \in {obs, root, NoRoot} /\ got'.root \in {got.root, root, NoRoot}
    BY <1>2, RootReads
  <2>2. Snapshots'
    <3>0. root.gen <= root.gen
      BY <1>0 DEF Roots
    <3>1. Older(obs)' /\ Alike(obs, root)'
      BY <1>2, <2>1, <3>0, Nothing DEF Snapshots, Older, Alike
    <3>2. Older(got.root)' /\ Alike(got.root, root)'
      BY <1>2, <2>1, <3>0, Nothing DEF Snapshots, Older, Alike
    <3>3. Alike(obs, got.root)'
      BY <2>1, Nothing DEF Snapshots, Alike
    <3>. QED
      BY <3>1, <3>2, <3>3 DEF Snapshots
  <2>. QED
    BY <2>2
<1>3. CASE Next /\ root' # root
  <2>1. obs' \in {obs, NoRoot} /\ got'.root \in {got.root, NoRoot}
    BY <1>3, RootReads
  <2>2. \/ root'.uid = root.uid /\ root'.gen = root.gen /\ root'.spec = root.spec
        \/ root'.uid = root.uid /\ root'.gen = root.gen + 1
        \/ root'.uid \in {0} \cup (Nat \ {0, obs.uid, got.root.uid})
    <3>1. RootRewritten \/ RootCreated
      BY <1>3, RootWrites
    <3>2. CASE root' = ProtectedRoot \/ root' = [root EXCEPT !.deleting = TRUE]
      BY <1>0, <3>2 DEF ProtectedRoot, Roots
    <3>3. CASE \E s \in Specs : root' = [root EXCEPT !.spec = s, !.gen = @ + 1]
      BY <1>0, <3>3 DEF Roots
    <3>4. CASE RootCreated
      BY <3>4, Nothing DEF RootCreated, Roots
    <3>. QED
      BY Zenon, <3>1, <3>2, <3>3, <3>4, Nothing DEF RootRewritten
  <2> DEFINE Stays(a) == a.uid # 0 /\ a.uid = root'.uid =>
                           a.gen <= root'.gen /\ (a.gen = root'.gen => a.spec = root'.spec)
  <2>3. ASSUME NEW a \in Roots, Older(a), Alike(a, root), a.uid \in {obs.uid, got.root.uid}
        PROVE  Stays(a)
    <3>1. a.gen \in Nat /\ root.gen \in Nat
      BY <1>0, <2>3 DEF Roots
    <3>2. CASE root'.uid = root.uid /\ root'.gen = root.gen /\ root'.spec = root.spec
      BY <2>3, <3>2 DEF Older, Alike
    <3>3. CASE root'.uid = root.uid /\ root'.gen = root.gen + 1
      <4>1. a.gen <= root.gen => a.gen <= root'.gen /\ a.gen # root'.gen
        BY <3>1, <3>3
      <4>. QED
        BY <2>3, <3>3, <4>1 DEF Older
    <3>4. CASE root'.uid \in {0} \cup (Nat \ {0, obs.uid, got.root.uid})
      BY <2>3, <3>4
    <3>. QED
      BY <2>2, <3>2, <3>3, <3>4
  <2>4. Stays(obs) /\ Stays(got.root)
    BY <1>0, <2>3 DEF Snapshots
  <2>5. Older(obs)' /\ Alike(obs, root)'
    BY <2>1, <2>4, Nothing DEF Older, Alike
  <2>6. Older(got.root)' /\ Alike(got.root, root)'
    BY <2>1, <2>4, Nothing DEF Older, Alike
  <2>7. Alike(obs, got.root)'
    BY <2>1, Nothing DEF Snapshots, Alike
  <2>. QED
    BY <2>5, <2>6, <2>7 DEF Snapshots
<1>. QED
  BY <1>1, <1>2, <1>3

\* At these labels nothing is about to be reported.
LEMMA EarnedElsewhere ==
    ASSUME Snapshots', pc' \notin {"load", "decide", "condition", "status"}
    PROVE  Earned'
BY DEF Earned

\* Nor where readiness is going to be lost.
LEMMA EarnedNothing ==
    ASSUME Snapshots', pc' = "condition", want' = FALSE
    PROVE  Earned'
BY Zenon DEF Earned

\* An end of Reconcile is one of these, unless it finds a session unchanged.
LEMMA EarnedEnd ==
    ASSUME Snapshots', Return \/ Report(FALSE)
    PROVE  Earned'
BY Zenon, EarnedElsewhere, EarnedNothing DEF Return, Report, Goto

\* The reads, up to a candidate.  A session is reported if it has the
\* configuration that was loaded, for the scale set that was read.
LEMMA ReadsEarn ==
    ASSUME OwnerInv, Earned, Snapshots', NEW ok \in BOOLEAN,
           ReadRoot(ok) \/ ReadCheckpoint(ok) \/ Load(ok) \/ Decide(ok)
    PROVE  Earned'
<1>1. CASE ReadRoot(ok)
  <2>1. Return \/ pc' = "checkpoint"
    BY <1>1 DEF ReadRoot, Abort, Goto
  <2>. QED
    BY Zenon, <2>1, EarnedEnd, EarnedElsewhere
<1>2. CASE ReadCheckpoint(ok)
  <2>1. Report(FALSE) \/ pc' = "cleanup" \/ (pc' = "load" /\ ~Deleting /\ UNCHANGED obs)
    BY Zenon, <1>2 DEF ReadCheckpoint, Goto
  <2>2. CASE pc' = "load" /\ ~Deleting /\ UNCHANGED obs
    BY <2>2 DEF Earned, Deleting
  <2>. QED
    BY Zenon, <2>1, <2>2, EarnedEnd, EarnedElsewhere
<1>3. CASE Load(ok)
  <2>1. CASE LoadFails
    <3>1. Report(FALSE) \/ pc' = "recover"
      BY Zenon, <2>1 DEF LoadFails, Goto
    <3>. QED
      BY Zenon, <3>1, EarnedEnd, EarnedElsewhere
  <2>2. CASE ~LoadFails
    <3>1. pc' \in {"load", "decide"} /\ UNCHANGED obs /\ pc = "load"
      BY Zenon, <1>3, <2>2, LoadLine DEF Load
    <3>. QED
      BY <3>1 DEF Earned
  <2>. QED
    BY <2>1, <2>2
<1>4. CASE Decide(ok)
  <2>1. CASE Return \/ Report(FALSE) \/ pc' = "save"
    BY Zenon, <2>1, EarnedEnd, EarnedElsewhere
  <2>2. CASE /\ SameRootRevision(obs, got.root) /\ Unchanged
             /\ worker' = [worker EXCEPT !.paused = Suspended]
             /\ Report(worker.ready /\ ~Suspended) /\ UNCHANGED obs
    <3>1. worker \in Workers /\ got.root \in Roots
      BY DEF OwnerInv, Types
    <3>2. obs.uid # 0 /\ ~obs.deleting /\ obs.spec = got.root.spec
      BY <1>4, <2>2 DEF Decide, Earned, Snapshots, Alike, SameRootRevision
    <3>3. /\ worker'.mode = "session" /\ worker'.uid = obs.uid
          /\ ~Suspended => ~worker'.paused /\ obs.spec = "run"
      BY <2>2, <3>1, <3>2 DEF Unchanged, SameRootRevision, Suspended, Workers, Roots, Specs
    <3>4. pc' = "condition" /\ want' = (worker.ready /\ ~Suspended)
      BY <2>2 DEF Report, Goto
    <3>5. want' \in BOOLEAN /\ (want' => ~Suspended)
      BY Zenon, <3>4
    <3>6. want' => Reporting'
      BY <2>2, <3>2, <3>3, <3>5 DEF Reporting
    <3>. QED
      BY <3>4, <3>5, <3>6 DEF Earned
  <2>. QED
    BY Zenon, <1>4, <2>1, <2>2 DEF Decide, Abort, StopFails, Goto
<1>. QED
  BY <1>1, <1>2, <1>3, <1>4

\* The rest of Reconcile reports a loss, or goes on.
LEMMA StepsEarn ==
    ASSUME OwnerInv, Earned, Snapshots', NEW ok \in BOOLEAN,
           \/ Save(ok) \/ Observe(ok) \/ Current(ok) \/ Protect(ok) \/ Start(ok) \/ Recover(ok)
           \/ Cleanup(ok) \/ Finalize(ok) \/ Unguard(ok)
    PROVE  Earned'
<1>1. Return \/ Report(FALSE) \/ pc' \in {"observe", "recover", "current", "protect", "start", "finalize", "unguard"}
  <2>1. CASE Save(ok) \/ Observe(ok) \/ Current(ok) \/ Protect(ok)
    BY Zenon, <2>1 DEF Save, Observe, Current, Protect, Abort, Goto
  <2>2. CASE Start(ok) \/ Recover(ok) \/ Cleanup(ok) \/ Finalize(ok) \/ Unguard(ok)
    BY Zenon, <2>2 DEF Start, Recover, Cleanup, AfterCleanup, Finalize, Unguard, Abort, StopFails, Goto
  <2>. QED
    BY Zenon, <2>1, <2>2
<1>. QED
  BY Zenon, <1>1, EarnedEnd, EarnedElsewhere

\* The status is written for the revision the condition was compared with.
LEMMA ConditionEarns ==
    ASSUME OwnerInv, Earned, Snapshots', NEW ok \in BOOLEAN, Condition(ok) \/ Status(ok)
    PROVE  Earned'
<1>1. CASE Return
  BY <1>1, EarnedEnd
<1>2. CASE ~Return
  <2>1. /\ pc = "condition" /\ pc' = "status" /\ SameRootRevision(root, obs)
        /\ UNCHANGED <<root, worker, obs, want>>
    BY <1>2 DEF Condition, Status, Abort, StillCurrent, Goto, handler, cluster
  <2>2. SameRootRevision(root, obs)'
    BY <2>1 DEF SameRootRevision
  <2>. QED
    BY <2>1, <2>2 DEF Earned, Reporting
<1>. QED
  BY <1>1, <1>2

\* Beside Reconcile a session keeps its mode and its pause, and a write of the
\* scale set makes the status write fail.
LEMMA OthersEarn ==
    ASSUME OwnerInv, Earned, Snapshots',
           \/ WorkerReady \/ WorkerAdmits \/ WorkerResolves \/ SessionEnds \/ CleanupEnds
           \/ Leave \/ Users \/ UNCHANGED vars
    PROVE  Earned'
<1>1. CASE Leave
  BY <1>1, EarnedEnd DEF Leave
<1>2. CASE ~Leave
  <2>1. UNCHANGED <<pc, obs, want>> /\ stale \subseteq stale' /\ (root' # root => "root" \in stale')
    BY Zenon, <1>2 DEF WorkerReady, WorkerAdmits, WorkerResolves, SessionEnds, CleanupEnds, Users, EditRoot,
       EditDependency, DeleteRoot, CreateRoot, LoseCheckpoint, Written, vars, cluster, handler
  <2>2. worker'.mode = worker.mode /\ worker'.paused = worker.paused /\ worker'.uid = worker.uid
    <3>1. UNCHANGED worker \/ WorkerReady \/ SessionEnds \/ CleanupEnds
      BY Zenon, <1>2 DEF WorkerAdmits, WorkerResolves, Users, EditRoot, EditDependency, DeleteRoot, CreateRoot,
         LoseCheckpoint, vars
    <3>2. worker \in Workers
      BY DEF OwnerInv, Types
    <3>. QED
      BY Zenon, <3>1, <3>2 DEF Workers, WorkerReady, SessionEnds, CleanupEnds
  <2>3. Reporting' = Reporting
    BY <2>1, <2>2 DEF Reporting
  <2>4. root' = root => SameRootRevision(root, obs)' = SameRootRevision(root, obs)
    BY <2>1 DEF SameRootRevision
  <2>. QED
    BY <2>1, <2>3, <2>4 DEF Earned
<1>. QED
  BY <1>1, <1>2

\* Every step keeps the invariant.
LEMMA EarnedKept == OwnerInv /\ Earned /\ [Next]_vars => Earned'
<1>. SUFFICES ASSUME OwnerInv, Earned, [Next]_vars PROVE Earned'
  OBVIOUS
<1>1. Snapshots'
  BY SnapshotsKept DEF Earned
<1>. QED
  BY <1>1, ReadsEarn, StepsEarn, ConditionEarns, OthersEarn DEF Next, Reconcile

\* Readiness is gained at the end of condition only.
LEMMA ReadyGained ==
    ASSUME Next, ~ready, ready'
    PROVE  /\ want
           /\ \/ pc = "condition" /\ SameRootRevision(root, obs)
              \/ pc = "status" /\ "root" \notin stale
<1>1. ASSUME NEW ok \in BOOLEAN, ReadRoot(ok) \/ ReadCheckpoint(ok) \/ Load(ok) \/ Decide(ok) \/ Save(ok)
      PROVE  FALSE
  BY Zenon, <1>1 DEF ReadRoot, ReadCheckpoint, Load, LoadFails, Decide, Save, Abort, Pause, StopFails
<1>2. ASSUME NEW ok \in BOOLEAN, Observe(ok) \/ Current(ok) \/ Protect(ok) \/ Start(ok) \/ Recover(ok)
      PROVE  FALSE
  BY Zenon, <1>2 DEF Observe, Current, Protect, Start, Recover, Abort, Pause, StopFails
<1>3. ASSUME NEW ok \in BOOLEAN, Cleanup(ok) \/ Finalize(ok) \/ Unguard(ok)
      PROVE  FALSE
  BY Zenon, <1>3 DEF Cleanup, Finalize, Unguard, Abort, Pause, StopFails
<1>4. ~(WorkerReady \/ WorkerAdmits \/ WorkerResolves \/ SessionEnds \/ CleanupEnds \/ Leave \/ Users)
  BY Zenon DEF WorkerReady, WorkerAdmits, WorkerResolves, SessionEnds, CleanupEnds, Leave, Users, EditRoot,
     EditDependency, DeleteRoot, CreateRoot, LoseCheckpoint
<1>5. PICK ok \in BOOLEAN : Condition(ok) \/ Status(ok)
  BY <1>1, <1>2, <1>3, <1>4 DEF Next, Reconcile
<1>. QED
  BY Zenon, <1>5 DEF Condition, Status, StillCurrent, Abort, Pause

\* condition compares the revision before it reports (Runtime.condition), so the
\* process becomes ready only by a session that admits for the scale set as it is
\* in the API at that step: not suspended, not deleted, not replaced.
THEOREM ReadinessIsEarned == Spec => ReadyIsEarned
<1>1. Init => Earned
  <2>. SUFFICES ASSUME Init PROVE Earned
    OBVIOUS
  <2>1. obs = NoRoot /\ got = NoneGot /\ NoneGot.root = NoRoot /\ pc = "idle"
    BY DEF Init, NoneGot
  <2>. QED
    BY <2>1, Nothing DEF Earned, Snapshots, Older, Alike
<1>2. ASSUME OwnerInv, Earned, [Next]_vars
      PROVE  [~ready /\ ready' => /\ worker.mode = "session" /\ ~worker.paused /\ worker.uid = root.uid
                                 /\ root.spec = "run" /\ ~root.deleting]_vars
  <2>. SUFFICES ASSUME Next, ~ready, ready'
                PROVE  /\ worker.mode = "session" /\ ~worker.paused /\ worker.uid = root.uid
                       /\ root.spec = "run" /\ ~root.deleting
    BY <1>2
  <2>1. Reporting
    BY <1>2, ReadyGained DEF Earned
  <2>2. SameRootRevision(root, obs)
    BY <1>2, ReadyGained DEF Earned
  <2>. QED
    BY <1>2, <2>1, <2>2 DEF Reporting, SameRootRevision, Earned, Snapshots, Alike
<1>. QED
  BY <1>1, <1>2, OwnerAlways, EarnedKept, PTL DEF Spec, ReadyIsEarned
=============================================================================
