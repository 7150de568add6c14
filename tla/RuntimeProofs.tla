--------------------------- MODULE RuntimeProofs ---------------------------
(* Proofs about Runtime, for any number of scale sets, edits and losses. *)
EXTENDS Runtime, TLAPS

\* The values there can be, without the bounds of the model.
Roots   == [uid: Nat, gen: Nat, deleting: BOOLEAN, guarded: BOOLEAN, spec: Specs]
Workers == [mode: {"none", "session", "recovery", "cleanup"}, uid: Nat, key: Key,
            done: BOOLEAN, paused: BOOLEAN, ready: BOOLEAN]
Checkpoints == [state: {"none", "corrupt", "ok"}, uid: Nat, deps: Deps]

Types ==
    /\ root \in Roots /\ obs \in Roots /\ got \in [root: Roots, deps: Deps, secret: Secrets]
    /\ live \in [deps: Deps, secret: Secrets]
    /\ ckpt \in Checkpoints /\ saved \in Checkpoints
    /\ worker \in Workers /\ completed \in Nat /\ line \in Nat

\* The worker can admit, or will be able to once it is no longer paused.
Serving == worker.mode = "session" /\ ~worker.done

\* What holds between any two calls.  A session serves a scale set that is there
\* behind its finalizer.  Once a cleanup is complete its scale set is deleted or
\* gone, owns nothing, and no session serves it.
Between ==
    /\ Protected
    /\ root.guarded => root.uid # 0
    /\ ckpt.state = "ok" => ckpt.uid # 0
    /\ Serving => root.uid = worker.uid /\ root.guarded
    /\ completed # 0 => /\ completed \notin held
                        /\ Serving => worker.uid # completed
                        /\ root.uid = completed => root.deleting

\* What Reconcile knows on its way to a session.
Accepting ==
    /\ pc = "checkpoint" =>
        /\ root.uid \notin {0, obs.uid} => root.uid # ckpt.uid
        /\ obs.uid # 0 /\ root.uid = obs.uid /\ obs.deleting => root.deleting
        /\ completed # 0 /\ obs.uid = completed => obs.deleting
    /\ pc \in {"load", "decide"} => obs.uid # completed
    /\ pc = "load" => line \in 1..8 /\ (line # 1 => got.root.uid # 0)
    /\ pc = "decide" => got.root.uid # 0
    /\ pc \in {"save", "observe", "current", "protect", "start"} => got.root.uid \notin {0, completed}
    /\ pc = "protect" =>
        /\ obs.uid = got.root.uid
        /\ obs.guarded \/ "root" \notin stale => root.uid = obs.uid
        /\ obs.guarded => root.guarded
    /\ pc = "start" => root.uid = got.root.uid /\ root.guarded

\* What it knows on its way to the removal of the finalizer.
Releasing ==
    /\ pc = "cleanup" => saved.uid # 0 /\ (root.uid = saved.uid => root.deleting)
    /\ pc \in {"finalize", "unguard"} => saved.uid = completed /\ saved.uid # 0
    /\ pc = "unguard" /\ "root" \notin stale => root.uid = saved.uid

\* The inductive invariant.
OwnerInv == Types /\ Between /\ Accepting /\ Releasing

-----------------------------------------------------------------------------
(* Types *)

\* The values a Reconcile starts from.
LEMMA Nothing ==
    /\ NoRoot \in Roots /\ NoRoot.uid = 0 /\ ~NoRoot.guarded /\ ~NoRoot.deleting
    /\ NoWorker \in Workers /\ NoWorker.mode = "none"
    /\ NoCheckpoint \in Checkpoints /\ NoCheckpoint.state = "none" /\ NoCheckpoint.uid = 0
    /\ NoneGot \in [root: Roots, deps: Deps, secret: Secrets]
BY DEF NoRoot, NoWorker, NoCheckpoint, NoneGot, NoKey, Roots, Workers, Checkpoints, Key, Specs, Deps, Secrets

\* PauseAdmissions changes nothing else of a worker.
LEMMA PausedKeeps ==
    ASSUME NEW w \in Workers
    PROVE  /\ Paused(w) \in Workers /\ Paused(w).mode = w.mode
           /\ Paused(w).done = w.done /\ Paused(w).uid = w.uid
BY Zenon DEF Paused, Workers

\* A new worker is not done.
LEMMA NewWorkerIs ==
    ASSUME NEW m \in {"session", "recovery", "cleanup"}, NEW u \in Nat, NEW k \in Key, NEW b \in BOOLEAN
    PROVE  /\ NewWorker(m, u, k, b) \in Workers
           /\ NewWorker(m, u, k, b).mode = m /\ NewWorker(m, u, k, b).uid = u
BY Zenon DEF NewWorker, NoWorker, NoKey, Workers, Key, Specs, Deps, Secrets

\* A worker that StopFails leaves behind has ended.
LEMMA StopFailsLeaves ==
    ASSUME worker \in Workers, StopFails
    PROVE  worker' \in Workers /\ worker'.done
<1>1. Paused(worker) \in Workers
  BY PausedKeeps
<1>2. worker' = [Paused(worker) EXCEPT !.done = TRUE, !.ready = FALSE]
  BY DEF StopFails
<1>. QED
  BY Zenon, <1>1, <1>2 DEF Workers

\* A Reconcile that ends, by Return or by Report, keeps the types.
LEMMA EndKeepsTypes ==
    ASSUME Types, worker' \in Workers, UNCHANGED <<root, live, ckpt>>, completed' \in Nat,
           Return \/ (\E b : Report(b) /\ UNCHANGED obs)
    PROVE  Types'
BY Nothing DEF Types, Return, Report

-----------------------------------------------------------------------------
(* The steps of Reconcile *)

\* The worker after the step serves only if it served before, and the same.
SameOrLess == worker' \in Workers /\ (Serving' => Serving /\ worker'.uid = worker.uid)

\* Nothing a session or the end of a scale set rests on has changed.
Rest == UNCHANGED <<root, live, ckpt, held, completed>>

\* An end of Reconcile, whatever it does to the worker but start a session.
LEMMA EndKeeps ==
    ASSUME OwnerInv, SameOrLess, Rest, Return \/ (\E b : Report(b) /\ UNCHANGED obs)
    PROVE  OwnerInv'
<1>1. Types'
  BY EndKeepsTypes DEF OwnerInv, SameOrLess, Rest, Types
<1>2. pc' \in {"idle", "condition"}
  BY DEF Return, Report, Goto
<1>. QED
  BY <1>1, <1>2 DEF OwnerInv, SameOrLess, Rest, Between, Accepting, Releasing, Protected, Serving

\* The ways to leave the worker at most as it was.
LEMMA WorkerKept ==
    ASSUME OwnerInv, UNCHANGED worker \/ worker' = Paused(worker) \/ worker' = NoWorker \/ StopFails
                     \/ worker' = Paused(NoWorker)
    PROVE  SameOrLess
<1>1. worker \in Workers
  BY DEF OwnerInv, Types
<1>. QED
  BY <1>1, PausedKeeps, StopFailsLeaves, Nothing DEF SameOrLess, Serving

\* Abort is such an end.
LEMMA AbortKeeps ==
    ASSUME OwnerInv, Rest, Abort
    PROVE  OwnerInv'
BY EndKeeps, WorkerKept DEF Abort, Pause

\* Reconcile has read the scale set.
LEMMA ReadRootKeeps ==
    ASSUME OwnerInv, NEW ok \in BOOLEAN, ReadRoot(ok)
    PROVE  OwnerInv'
<1>1. CASE ok
  BY <1>1 DEF ReadRoot, OwnerInv, Types, Between, Accepting, Releasing, Protected, Serving, Goto, cluster
<1>2. CASE ~ok
  BY <1>2, AbortKeeps DEF ReadRoot, Rest, cluster
<1>. QED
  BY <1>1, <1>2

\* It has read the checkpoint: a scale set that is to be cleaned up is deleted or gone.
LEMMA ReadCheckpointKeeps ==
    ASSUME OwnerInv, NEW ok \in BOOLEAN, ReadCheckpoint(ok)
    PROVE  OwnerInv'
<1>1. CASE \E b : Report(b) /\ (Pause \/ UNCHANGED worker)
  BY <1>1, EndKeeps, WorkerKept DEF ReadCheckpoint, Rest, cluster, Pause
<1>2. CASE /\ Deleting => ckpt.state = "ok"
           /\ saved' = ckpt /\ Goto(IF Deleting THEN "cleanup" ELSE "load")
           /\ line' = IF Deleting THEN 0 ELSE 1
           /\ UNCHANGED <<worker, got>>
  <2>1. pc = "checkpoint" /\ UNCHANGED <<root, live, ckpt, held, completed, obs>>
    BY DEF ReadCheckpoint, cluster
  <2>2. Types'
    BY <1>2, <2>1 DEF OwnerInv, Types
  <2>3. CASE Deleting
    BY <1>2, <2>1, <2>2, <2>3
       DEF OwnerInv, Between, Accepting, Releasing, Protected, Serving, Goto, Deleting
  <2>4. CASE ~Deleting
    BY <1>2, <2>1, <2>2, <2>4
       DEF OwnerInv, Between, Accepting, Releasing, Protected, Serving, Goto, Deleting
  <2>. QED
    BY <2>3, <2>4
<1>. QED
  BY Zenon, <1>1, <1>2 DEF ReadCheckpoint

\* At these labels Reconcile relies on nothing it has read.
LEMMA QuietKeeps ==
    ASSUME OwnerInv, SameOrLess, Rest, Types', pc' \in {"idle", "condition", "recover", "status"}
    PROVE  OwnerInv'
BY DEF OwnerInv, SameOrLess, Rest, Between, Accepting, Releasing, Protected, Serving

\* What Load has read of the scale set is of one that existed.
LEMMA LoadKeeps ==
    ASSUME OwnerInv, NEW ok \in BOOLEAN, Load(ok)
    PROVE  OwnerInv'
<1>0. Rest /\ pc = "load" /\ UNCHANGED obs
  BY DEF Load, Rest, cluster
<1>1. CASE LoadFails
  <2>1. SameOrLess
    BY <1>1, WorkerKept DEF LoadFails, Pause
  <2>2. CASE Report(FALSE)
    BY Zenon, <1>0, <2>1, <2>2, EndKeeps
  <2>3. CASE Goto("recover") /\ line' = 0 /\ got' = NoneGot /\ UNCHANGED saved
    <3>1. Types'
      BY <1>0, <2>1, <2>3, Nothing DEF OwnerInv, Types, Rest, SameOrLess
    <3>. QED
      BY <1>0, <2>1, <2>3, <3>1, QuietKeeps DEF Goto
  <2>. QED
    BY Zenon, <1>1, <2>2, <2>3 DEF LoadFails
<1>2. CASE ~LoadFails
  <2> DEFINE s == LoadSteps[line]
  <2>1. /\ LoadPasses(s)
        /\ got' = IF s.op = "check" THEN got
                  ELSE [got EXCEPT ![s.obj] = IF s.obj = "root" THEN root ELSE live[s.obj]]
        /\ line' = IF line < Len(LoadSteps) THEN line + 1 ELSE 0
        /\ pc' = IF line < Len(LoadSteps) THEN "load" ELSE "decide"
        /\ UNCHANGED <<worker, saved>>
    BY <1>2 DEF Load, Goto
  <2>2. Len(LoadSteps) = 8
    BY DEF LoadSteps
  <2>3. \/ line = 1 /\ s.op = "get" /\ s.obj = "root"
        \/ line = 2 /\ s.op = "get" /\ s.obj = "deps"
        \/ line = 5 /\ s.op = "get" /\ s.obj = "secret"
        \/ line \in {3, 4, 6, 7, 8} /\ s.op = "check"
    BY <1>0 DEF OwnerInv, Accepting, LoadSteps, Get, Check
  <2>4. s.op = "get" => Readable(s.obj)
    BY <2>1 DEF LoadPasses
  <2> HIDE DEF s
  <2>5. \/ line = 1 /\ root.uid # 0 /\ got' = [got EXCEPT !["root"] = root]
        \/ line = 2 /\ got' = [got EXCEPT !["deps"] = live["deps"]]
        \/ line = 5 /\ got' = [got EXCEPT !["secret"] = live["secret"]]
        \/ line \in {3, 4, 6, 7, 8} /\ got' = got
    BY Zenon, <2>1, <2>3, <2>4 DEF Readable
  <2>6. got' \in [root: Roots, deps: Deps, secret: Secrets] /\ got'.root.uid # 0
    BY <1>0, <2>5 DEF OwnerInv, Types, Accepting
  <2>7. Types'
    BY <1>0, <2>1, <2>2, <2>6 DEF OwnerInv, Types, Rest
  <2>8. \/ pc' = "load" /\ line' \in 1..8
        \/ pc' = "decide"
    BY <1>0, <2>1, <2>2 DEF OwnerInv, Accepting
  <2>. QED
    BY <1>0, <2>1, <2>6, <2>7, <2>8
       DEF OwnerInv, Rest, Between, Accepting, Releasing, Protected, Serving
<1>. QED
  BY <1>1, <1>2

\* A configuration is accepted for the scale set that was read first.
LEMMA DecideKeeps ==
    ASSUME OwnerInv, NEW ok \in BOOLEAN, Decide(ok)
    PROVE  OwnerInv'
<1>0. Rest /\ pc = "decide"
  BY DEF Decide, Rest, cluster
<1>1. CASE Abort
  BY <1>0, <1>1, AbortKeeps
<1>2. CASE StopFails
  BY Zenon, <1>0, <1>2, EndKeeps, WorkerKept DEF StopFails
<1>3. CASE worker' = [worker EXCEPT !.paused = Suspended] /\ Report(worker.ready /\ ~Suspended) /\ UNCHANGED obs
  <2>1. SameOrLess
    BY Zenon, <1>3 DEF OwnerInv, Types, SameOrLess, Serving, Workers, Suspended
  <2>. QED
    BY <1>0, <1>3, <2>1, EndKeeps
<1>4. CASE /\ SameRootRevision(obs, got.root) /\ UNCHANGED <<obs, line, saved, got>> /\ Goto("save")
           /\ worker' = IF worker.done THEN NoWorker ELSE worker
  <2>1. SameOrLess
    BY <1>4, WorkerKept
  <2>2. Types'
    BY <1>0, <1>4, <2>1 DEF OwnerInv, Types, Rest, SameOrLess
  <2>. QED
    BY <1>0, <1>4, <2>1, <2>2
       DEF OwnerInv, Rest, SameOrLess, Between, Accepting, Releasing, Protected, Serving, Goto, SameRootRevision
<1>5. CASE /\ worker' = Paused(IF worker.done THEN NoWorker ELSE worker)
           /\ Report(FALSE) /\ UNCHANGED obs
  BY Zenon, <1>0, <1>5, EndKeeps, WorkerKept
<1>. QED
  BY Zenon, <1>1, <1>2, <1>3, <1>4, <1>5 DEF Decide

\* The checkpoint is written for a scale set that existed.
LEMMA SaveKeeps ==
    ASSUME OwnerInv, NEW ok \in BOOLEAN, Save(ok)
    PROVE  OwnerInv'
<1>0. pc = "save" /\ UNCHANGED <<root, live, held, completed, obs>>
  BY DEF Save
<1>1. ckpt' \in Checkpoints /\ (ckpt'.state = "ok" => ckpt'.uid # 0)
  <2>1. Candidate \in Checkpoints /\ Candidate.uid # 0
    BY <1>0 DEF Candidate, Checkpoints, OwnerInv, Types, Accepting, Roots
  <2>2. ckpt' = ckpt \/ ckpt' = Candidate
    BY DEF Save
  <2>. QED
    BY <2>1, <2>2 DEF OwnerInv, Types, Between
<1>2. SameOrLess
  BY Zenon, WorkerKept DEF Save
<1>3. \/ pc' \in {"observe", "recover"} /\ UNCHANGED <<line, saved, got>>
      \/ Report(FALSE)
  BY Zenon DEF Save, Goto
<1>4. Types'
  BY <1>0, <1>1, <1>2, <1>3, Nothing DEF OwnerInv, Types, SameOrLess, Report
<1>5. pc' \in {"observe", "recover", "condition"} /\ (pc' = "observe" => UNCHANGED got)
  BY <1>3 DEF Report, Goto
<1>. QED
  BY <1>0, <1>1, <1>2, <1>4, <1>5 DEF OwnerInv, SameOrLess, Between, Accepting, Releasing, Protected, Serving

\* The checkpoint is read back, and the scale set once more.
LEMMA ObserveKeeps ==
    ASSUME OwnerInv, NEW ok \in BOOLEAN, Observe(ok) \/ Current(ok)
    PROVE  OwnerInv'
<1>0. Rest
  BY DEF Observe, Current, Rest, cluster
<1>1. CASE Abort
  BY <1>0, <1>1, AbortKeeps
<1>2. CASE pc = "observe" /\ Goto("current") /\ UNCHANGED <<worker, handler>>
  BY <1>0, <1>2
     DEF OwnerInv, Types, Rest, Between, Accepting, Releasing, Protected, Serving, Goto, handler
<1>3. CASE /\ pc = "current" /\ SameRootRevision(root, got.root) /\ obs' = root /\ Goto("protect")
           /\ UNCHANGED <<worker, line, saved, got>>
  BY <1>0, <1>3
     DEF OwnerInv, Types, Rest, Between, Accepting, Releasing, Protected, Serving, Goto, SameRootRevision
<1>. QED
  BY <1>1, <1>2, <1>3 DEF Observe, Current

\* The finalizer is there before Reconcile goes on, on the scale set it read.
LEMMA ProtectKeeps ==
    ASSUME OwnerInv, NEW ok \in BOOLEAN, Protect(ok)
    PROVE  OwnerInv'
<1>0. pc = "protect" /\ UNCHANGED <<live, ckpt, held, completed, stale>>
  BY DEF Protect
<1>1. /\ ProtectedRoot \in Roots /\ ProtectedRoot.guarded
      /\ ProtectedRoot.uid = root.uid /\ ProtectedRoot.deleting = root.deleting
  BY Zenon DEF ProtectedRoot, OwnerInv, Types, Roots
<1>2. "root" \notin stale \/ obs.guarded => root.uid = obs.uid /\ obs.uid = got.root.uid /\ got.root.uid # 0
  BY <1>0 DEF OwnerInv, Accepting
<1>3. CASE /\ obs.guarded \/ "root" \notin stale
           /\ root' = IF obs.guarded THEN root ELSE ProtectedRoot
           /\ Goto("start") /\ UNCHANGED <<worker, handler>>
  <2>1. Types'
    BY <1>0, <1>1, <1>3 DEF OwnerInv, Types, handler
  <2>2. pc' = "start" /\ UNCHANGED <<worker, got>>
    BY <1>3 DEF Goto, handler
  <2>3. root'.uid = root.uid /\ root'.deleting = root.deleting /\ root'.guarded
    BY <1>0, <1>1, <1>3 DEF OwnerInv, Accepting
  <2>4. Between'
    BY <1>0, <1>2, <1>3, <2>2, <2>3 DEF OwnerInv, Between, Accepting, Protected, Serving
  <2>5. Accepting' /\ Releasing'
    BY <1>0, <1>2, <1>3, <2>2, <2>3 DEF OwnerInv, Accepting, Releasing
  <2>. QED
    BY <2>1, <2>4, <2>5 DEF OwnerInv
<1>4. CASE root' \in {root} \cup (IF "root" \notin stale THEN {ProtectedRoot} ELSE {}) /\ Abort
  <2>1. SameOrLess
    BY <1>4, WorkerKept DEF Abort, Pause
  <2>2. Types'
    BY <1>0, <1>1, <1>4, <2>1, Nothing DEF OwnerInv, Types, SameOrLess, Abort, Return
  <2>3. pc' = "idle"
    BY <1>4 DEF Abort, Return, Goto
  <2>4. /\ root'.uid = root.uid /\ root'.deleting = root.deleting /\ (root.guarded => root'.guarded)
        /\ root'.guarded => root.guarded \/ "root" \notin stale
    BY <1>1, <1>4
  <2>5. Between'
    BY <1>0, <1>2, <2>1, <2>4 DEF OwnerInv, SameOrLess, Between, Protected, Serving
  <2>6. Accepting' /\ Releasing'
    BY <2>3 DEF Accepting, Releasing
  <2>. QED
    BY <2>2, <2>5, <2>6 DEF OwnerInv
<1>. QED
  BY <1>3, <1>4 DEF Protect

\* A session starts for a scale set that has its finalizer.
LEMMA StartKeeps ==
    ASSUME OwnerInv, NEW ok \in BOOLEAN, Start(ok)
    PROVE  OwnerInv'
<1>0. Rest /\ pc = "start"
  BY DEF Start, Rest, cluster
<1>1. CASE StopFails
  BY Zenon, <1>0, <1>1, EndKeeps, WorkerKept DEF StopFails
<1>2. CASE /\ worker' = NewWorker("session", got.root.uid, KeyOf(got.root, got), Suspended)
           /\ Report(FALSE) /\ UNCHANGED obs
  <2>1. got.root.uid \in Nat /\ KeyOf(got.root, got) \in Key /\ Suspended \in BOOLEAN
    BY DEF OwnerInv, Types, Roots, KeyOf, Key, Suspended
  <2>2. worker' \in Workers /\ worker'.uid = got.root.uid
    BY <1>2, <2>1, NewWorkerIs
  <2>3. Types'
    BY Zenon, <1>0, <1>2, <2>2, EndKeepsTypes DEF OwnerInv, Types, Rest
  <2>4. pc' = "condition"
    BY <1>2 DEF Report, Goto
  <2>. QED
    BY <1>0, <2>2, <2>3, <2>4
       DEF OwnerInv, Rest, Between, Accepting, Releasing, Protected, Serving
<1>. QED
  BY Zenon, <1>1, <1>2 DEF Start

\* A recovery worker admits nothing.
LEMMA RecoverKeeps ==
    ASSUME OwnerInv, NEW ok \in BOOLEAN, Recover(ok)
    PROVE  OwnerInv'
<1>0. Rest
  BY DEF Recover, Rest, cluster
<1>1. CASE StopFails
  BY Zenon, <1>0, <1>1, EndKeeps, WorkerKept DEF StopFails
<1>2. CASE Report(FALSE) /\ UNCHANGED obs /\ ~StopFails
  <2>1. worker' \in {NoWorker, Paused(NoWorker), worker, Paused(worker), NewWorker("recovery", saved.uid, NoKey, TRUE)}
    BY Zenon, <1>2 DEF Recover
  <2>2. NoKey \in Key /\ saved.uid \in Nat
    BY DEF NoKey, Key, Specs, Deps, Secrets, OwnerInv, Types, Checkpoints
  <2>3. SameOrLess
    <3>1. CASE worker' = NewWorker("recovery", saved.uid, NoKey, TRUE)
      BY Zenon, <2>2, <3>1, NewWorkerIs DEF SameOrLess, Serving
    <3>. QED
      BY Zenon, <2>1, <3>1, WorkerKept
  <2>. QED
    BY Zenon, <1>0, <1>2, <2>3, EndKeeps
<1>. QED
  BY Zenon, <1>1, <1>2 DEF Recover

\* A cleanup is complete only for a scale set that is deleted or gone and owns nothing.
LEMMA CleanupKeeps ==
    ASSUME OwnerInv, NEW ok \in BOOLEAN, Cleanup(ok)
    PROVE  OwnerInv'
<1>0. pc = "cleanup" /\ UNCHANGED <<root, live, ckpt, held, stale>>
  BY DEF Cleanup, cluster
<1>1. saved.uid \in Nat \ {0} /\ (root.uid = saved.uid => root.deleting)
  BY <1>0 DEF OwnerInv, Types, Checkpoints, Releasing
<1>2. CASE StopFails /\ UNCHANGED completed
  BY Zenon, <1>0, <1>2, EndKeeps, WorkerKept DEF StopFails, Rest
<1>3. CASE /\ worker' \in {NoWorker, NewWorker("cleanup", saved.uid, NoKey, TRUE)}
           /\ Report(FALSE) /\ UNCHANGED <<completed, obs>>
  <2>1. NoKey \in Key
    BY DEF NoKey, Key, Specs, Deps, Secrets
  <2>2. SameOrLess
    <3>1. CASE worker' = NewWorker("cleanup", saved.uid, NoKey, TRUE)
      BY Zenon, <1>1, <2>1, <3>1, NewWorkerIs DEF SameOrLess, Serving
    <3>. QED
      BY Zenon, <1>3, <3>1, WorkerKept
  <2>. QED
    BY Zenon, <1>0, <1>3, <2>2, EndKeeps DEF Rest
<1>4. CASE Report(FALSE) /\ UNCHANGED <<worker, completed, obs>>
  BY Zenon, <1>0, <1>4, EndKeeps, WorkerKept DEF Rest
<1>5. CASE /\ \/ completed = saved.uid /\ UNCHANGED <<worker, completed>>
              \/ worker' = NoWorker /\ completed' = saved.uid /\ saved.uid \notin held
           /\ AfterCleanup /\ UNCHANGED obs
  <2>1. SameOrLess
    BY <1>5, WorkerKept
  <2>2. /\ \/ pc' = "condition" /\ saved' = NoCheckpoint /\ got' = NoneGot /\ line' = 0
           \/ pc' = "finalize" /\ UNCHANGED <<line, saved, got>>
        /\ completed' = saved.uid
    BY <1>5 DEF AfterCleanup, Report, Goto
  <2>3. Types'
    BY <1>0, <1>1, <1>5, <2>1, <2>2, Nothing DEF OwnerInv, Types, SameOrLess
  <2>4. Between'
    <3>1. completed' \notin held /\ (Serving' => worker'.uid # completed')
      BY <1>1, <1>5, Nothing DEF OwnerInv, Between, Serving
    <3>. QED
      BY <1>0, <1>1, <2>1, <2>2, <3>1 DEF OwnerInv, SameOrLess, Between, Protected, Serving
  <2>. QED
    BY <1>0, <1>1, <2>2, <2>3, <2>4 DEF OwnerInv, Accepting, Releasing
<1>. QED
  BY Zenon, <1>2, <1>3, <1>4, <1>5 DEF Cleanup

\* The finalizer is removed from that scale set only.
LEMMA FinalizeKeeps ==
    ASSUME OwnerInv, NEW ok \in BOOLEAN, Finalize(ok)
    PROVE  OwnerInv'
<1>0. Rest /\ pc = "finalize"
  BY DEF Finalize, Rest, cluster
<1>1. CASE Abort
  BY <1>0, <1>1, AbortKeeps
<1>2. CASE Report(FALSE) /\ UNCHANGED <<worker, obs>>
  BY Zenon, <1>0, <1>2, EndKeeps, WorkerKept
<1>3. CASE root.uid = saved.uid /\ Goto("unguard") /\ UNCHANGED <<worker, handler>>
  BY <1>0, <1>3
     DEF OwnerInv, Types, Rest, Between, Accepting, Releasing, Protected, Serving, Goto, handler
<1>. QED
  BY Zenon, <1>1, <1>2, <1>3 DEF Finalize

\* Nothing is left behind the finalizer that goes.
LEMMA UnguardKeeps ==
    ASSUME OwnerInv, NEW ok \in BOOLEAN, Unguard(ok)
    PROVE  OwnerInv'
<1>0. pc = "unguard" /\ UNCHANGED <<live, ckpt, held, completed>>
  BY DEF Unguard
<1>1. SameOrLess
  BY Zenon, WorkerKept DEF Unguard, Abort, Pause
<1>2. (Report(FALSE) /\ UNCHANGED obs) \/ Return
  BY Zenon DEF Unguard, Abort
<1>3. root' = root \/ (root' = NoRoot /\ "root" \notin stale)
  BY DEF Unguard
<1>4. Types'
  <2>1. obs' \in {obs, NoRoot} /\ saved' = NoCheckpoint /\ got' = NoneGot /\ line' = 0
    BY <1>2 DEF Report, Return
  <2>. QED
    BY <1>0, <1>1, <1>3, <2>1, Nothing DEF OwnerInv, Types, SameOrLess
<1>5. pc' \in {"idle", "condition"}
  BY <1>2 DEF Report, Return, Goto
<1>6. root' = NoRoot /\ "root" \notin stale => held = {} /\ ~Serving
  BY <1>0 DEF OwnerInv, Between, Releasing, Protected
<1>. QED
  BY <1>0, <1>1, <1>3, <1>4, <1>5, <1>6, Nothing
     DEF OwnerInv, SameOrLess, Between, Accepting, Releasing, Protected, Serving

\* The condition and the status only report.
LEMMA ConditionKeeps ==
    ASSUME OwnerInv, NEW ok \in BOOLEAN, Condition(ok) \/ Status(ok)
    PROVE  OwnerInv'
<1>0. Rest
  BY DEF Condition, Status, Rest, cluster
<1>1. CASE Abort
  BY <1>0, <1>1, AbortKeeps
<1>2. CASE Return /\ UNCHANGED worker
  BY <1>0, <1>2, EndKeeps, WorkerKept
<1>3. CASE Goto("status") /\ UNCHANGED <<worker, handler>>
  <2>1. Types'
    BY <1>0, <1>3 DEF OwnerInv, Types, Rest, handler
  <2>. QED
    BY <1>0, <1>3, <2>1, QuietKeeps, WorkerKept DEF Goto
<1>. QED
  BY <1>1, <1>2, <1>3 DEF Condition, Status

\* Every call of Reconcile keeps the invariant.
LEMMA ReconcileKeeps ==
    ASSUME OwnerInv, NEW ok \in BOOLEAN, Reconcile(ok)
    PROVE  OwnerInv'
BY ReadRootKeeps, ReadCheckpointKeeps, LoadKeeps, DecideKeeps, SaveKeeps, ObserveKeeps, ProtectKeeps,
   StartKeeps, RecoverKeeps, CleanupKeeps, FinalizeKeeps, UnguardKeeps, ConditionKeeps DEF Reconcile

-----------------------------------------------------------------------------
(* The steps beside Reconcile *)

\* A worker admits for the scale set it serves, resolves, reports and ends.
LEMMA WorkerKeeps ==
    ASSUME OwnerInv, WorkerReady \/ WorkerAdmits \/ WorkerResolves \/ SessionEnds \/ CleanupEnds
    PROVE  OwnerInv'
<1>1. UNCHANGED <<root, live, ckpt, completed, pc, line, obs, saved, got, stale>>
  BY DEF WorkerReady, WorkerAdmits, WorkerResolves, SessionEnds, CleanupEnds, cluster, handler
<1>2. worker \in Workers
  BY DEF OwnerInv, Types
<1>3. SameOrLess
  BY Zenon, <1>2 DEF SameOrLess, Serving, Workers, WorkerReady, WorkerAdmits, WorkerResolves, SessionEnds, CleanupEnds
<1>4. held' \subseteq held \/ (Serving /\ held' = held \cup {worker.uid})
  BY DEF WorkerReady, WorkerAdmits, WorkerResolves, SessionEnds, CleanupEnds, Serving
<1>5. Types'
  BY <1>1, <1>3 DEF OwnerInv, Types, SameOrLess
<1>6. Protected' /\ (completed # 0 => completed \notin held')
  BY <1>1, <1>4 DEF OwnerInv, Between, Protected
<1>7. Between'
  BY <1>1, <1>3, <1>6 DEF OwnerInv, Between, SameOrLess
<1>8. Accepting'
  BY <1>1 DEF OwnerInv, Accepting
<1>9. Releasing'
  BY <1>1 DEF OwnerInv, Releasing
<1>. QED
  BY <1>5, <1>7, <1>8, <1>9 DEF OwnerInv

\* The next leader remembers no cleanup, and has no worker.
LEMMA LeaveKeeps ==
    ASSUME OwnerInv, Leave
    PROVE  OwnerInv'
<1>1. /\ UNCHANGED <<root, live, ckpt, held>> /\ worker' = NoWorker /\ completed' = 0
      /\ Return /\ pc' = "idle"
  BY DEF Leave, cluster, Return, Goto
<1>2. Types'
  BY <1>1, EndKeepsTypes, Nothing DEF OwnerInv
<1>. QED
  BY <1>1, <1>2, Nothing DEF OwnerInv, Between, Accepting, Releasing, Protected, Serving

\* An edit or a deletion leaves a guarded scale set there, and guarded.
LEMMA RootWrittenKeeps ==
    ASSUME OwnerInv, EditRoot \/ DeleteRoot
    PROVE  OwnerInv'
<1>1. /\ UNCHANGED <<live, ckpt, held, worker, completed, pc, line, obs, saved, got>>
      /\ stale' = stale \cup {"root"} /\ root.uid # 0
  BY Zenon DEF EditRoot, DeleteRoot, Written
<1>2. root \in Roots
  BY DEF OwnerInv, Types
<1>3. /\ root' \in Roots
      /\ \/ root'.uid = root.uid /\ root'.guarded = root.guarded /\ (root.deleting => root'.deleting)
         \/ root' = NoRoot /\ ~root.guarded
  <2>1. CASE EditRoot
    <3>1. PICK s \in Specs : root' = [root EXCEPT !.spec = s, !.gen = @ + 1]
      BY Zenon, <2>1 DEF EditRoot
    <3>2. root.gen + 1 \in Nat
      BY <1>2 DEF Roots
    <3>3. root' = [root EXCEPT !.spec = s, !.gen = root.gen + 1]
      BY <1>2, <3>1 DEF Roots
    <3>. QED
      BY Zenon, <1>2, <3>2, <3>3 DEF Roots
  <2>2. CASE DeleteRoot
    <3>1. root' = [root EXCEPT !.deleting = TRUE] \/ (root' = NoRoot /\ ~root.guarded)
      BY <2>2 DEF DeleteRoot
    <3>2. CASE root' = [root EXCEPT !.deleting = TRUE]
      BY Zenon, <1>2, <3>2 DEF Roots
    <3>. QED
      BY <3>1, <3>2, Nothing
  <2>. QED
    BY <2>1, <2>2
<1>4. Types'
  BY <1>1, <1>3 DEF OwnerInv, Types
<1>5. Between'
  BY <1>1, <1>3, Nothing DEF OwnerInv, Between, Protected, Serving
<1>6. Accepting'
  BY <1>1, <1>3, Nothing DEF OwnerInv, Between, Accepting
<1>. QED
  BY <1>1, <1>3, <1>4, <1>5, <1>6, Nothing DEF OwnerInv, Releasing

\* A new scale set has a UID that nothing refers to.
LEMMA CreateRootKeeps ==
    ASSUME OwnerInv, CreateRoot
    PROVE  OwnerInv'
<1>1. /\ UNCHANGED <<live, ckpt, held, worker, completed, pc, line, obs, saved, got>>
      /\ stale' = stale \cup {"root"} /\ root.uid = 0
  BY DEF CreateRoot, Written
<1>2. PICK u \in Uids \ {0} :
          /\ u \notin {ckpt.uid, saved.uid, completed, obs.uid, got.root.uid, worker.uid} \cup held
          /\ root' = [NoRoot EXCEPT !.uid = u]
  BY DEF CreateRoot
<1>3. u \in Nat
  BY BoundAssumption DEF Uids
<1>4. root' \in Roots /\ root'.uid = u /\ ~root'.guarded
  BY <1>2, <1>3, Nothing DEF Roots
<1>5. Types'
  BY <1>1, <1>4 DEF OwnerInv, Types
<1>6. Between'
  BY <1>1, <1>2, <1>4 DEF OwnerInv, Between, Protected, Serving
<1>7. Accepting'
  BY <1>1, <1>2, <1>4 DEF OwnerInv, Between, Accepting
<1>. QED
  BY <1>1, <1>2, <1>4, <1>5, <1>6, <1>7 DEF OwnerInv, Releasing

\* Neither the dependencies nor the checkpoint say who is served.
LEMMA OthersWrittenKeeps ==
    ASSUME OwnerInv, EditDependency("deps") \/ EditDependency("secret") \/ LoseCheckpoint
    PROVE  OwnerInv'
<1>1. /\ UNCHANGED <<root, held, worker, completed, pc, line, obs, saved, got>>
      /\ stale \subseteq stale'
  BY DEF EditDependency, LoseCheckpoint, Written, handler
<1>2. live' \in [deps: Deps, secret: Secrets]
  <2>1. live \in [deps: Deps, secret: Secrets]
    BY DEF OwnerInv, Types
  <2>2. CASE EditDependency("deps")
    BY <2>1, <2>2 DEF EditDependency
  <2>3. CASE EditDependency("secret")
    BY <2>1, <2>3 DEF EditDependency
  <2>4. CASE LoseCheckpoint
    BY <2>1, <2>4 DEF LoseCheckpoint
  <2>. QED
    BY <2>2, <2>3, <2>4
<1>3. ckpt' \in Checkpoints /\ ckpt'.uid \in {0, ckpt.uid} /\ (ckpt'.state = "ok" => ckpt' = ckpt)
  <2>1. ckpt \in Checkpoints
    BY DEF OwnerInv, Types
  <2>2. CASE LoseCheckpoint
    BY <2>1, <2>2, Nothing DEF LoseCheckpoint, Checkpoints
  <2>3. CASE UNCHANGED ckpt
    BY <2>1, <2>3 DEF Checkpoints
  <2>. QED
    BY <2>2, <2>3 DEF EditDependency
<1>4. Types'
  BY <1>1, <1>2, <1>3 DEF OwnerInv, Types
<1>5. Between'
  BY <1>1, <1>3 DEF OwnerInv, Between, Protected, Serving
<1>6. Accepting'
  BY <1>1, <1>3 DEF OwnerInv, Accepting
<1>. QED
  BY <1>1, <1>4, <1>5, <1>6 DEF OwnerInv, Releasing

-----------------------------------------------------------------------------
(* The theorem *)

\* Nothing is owned at first.
LEMMA OwnerStarts == Init => OwnerInv
<1>. SUFFICES ASSUME Init PROVE OwnerInv
  OBVIOUS
<1>1. root \in Roots /\ root.uid = 1 /\ ~root.guarded
  BY Zenon DEF Init, NoRoot, Roots, Specs
<1>2. Types
  BY <1>1, Nothing DEF Init, Types, Deps, Secrets
<1>. QED
  BY <1>1, <1>2, Nothing DEF Init, OwnerInv, Between, Accepting, Releasing, Protected, Serving

\* Every step keeps the invariant.
LEMMA OwnerKept == OwnerInv /\ [Next]_vars => OwnerInv'
<1>. SUFFICES ASSUME OwnerInv, [Next]_vars PROVE OwnerInv'
  OBVIOUS
<1>1. CASE Next
  BY <1>1, ReconcileKeeps, WorkerKeeps, LeaveKeeps, RootWrittenKeeps, CreateRootKeeps, OthersWrittenKeeps
     DEF Next, Users
<1>2. CASE UNCHANGED vars
  <2>1. UNCHANGED <<root, live, ckpt, held, worker, completed, pc, line, obs, saved, got, stale>>
    BY <1>2 DEF vars, cluster, handler
  <2>2. Types'
    BY <2>1 DEF OwnerInv, Types
  <2>3. Between'
    BY <2>1 DEF OwnerInv, Between, Protected, Serving
  <2>4. Accepting'
    BY <2>1 DEF OwnerInv, Accepting
  <2>5. Releasing'
    BY <2>1 DEF OwnerInv, Releasing
  <2>. QED
    BY <2>2, <2>3, <2>4, <2>5 DEF OwnerInv
<1>. QED
  BY <1>1, <1>2

\* The invariant holds in every state of Runtime.
LEMMA OwnerAlways == Spec => []OwnerInv
BY OwnerStarts, OwnerKept, PTL DEF Spec

\* Unresolved allocations keep the scale set that owns them in the API, behind
\* its finalizer: the order of checkpoint, finalizer and session on the way in,
\* and of cleanup and finalizer on the way out (Runtime.Reconcile), is enough
\* whatever users edit, delete and create in between, whatever calls fail, and
\* whenever the leader changes.
THEOREM OwnersAreProtected == Spec => []Protected
<1>1. OwnerInv => Protected
  BY DEF OwnerInv, Between
<1>. QED
  BY <1>1, OwnerAlways, PTL
=============================================================================
