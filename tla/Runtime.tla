------------------------------ MODULE Runtime ------------------------------
(***************************************************************************)
(* The supervisor of one RunnerScaleSet: Runtime of internal/configapi with *)
(* Load, Checkpoints and the worker it runs under the Lease.               *)
(*                                                                         *)
(* Reconcile is a sequence of API calls; users edit and delete the scale    *)
(* set, its dependencies and its Secrets between any two of them, and the   *)
(* worker runs beside it.  A worker is what it can do to the cloud: a       *)
(* session admits allocations unless it is paused, and every worker brings  *)
(* allocations to their end.  Fleet and Lifecycle model how.               *)
(***************************************************************************)
EXTENDS Naturals, Sequences

CONSTANTS
    MaxUid,     \* bound: scale sets of this name that are ever created
    MaxEdits,   \* bound: edits of the configuration and its Secrets, re-creations and losses
    Losses      \* bound: times the checkpoint is lost or corrupted from outside

ASSUME BoundAssumption == MaxUid \in Nat \ {0} /\ MaxEdits \in Nat /\ Losses \in Nat

VARIABLES
    root,       \* the RunnerScaleSet, uid 0 without one
    live,       \* its dependencies and its Secrets
    ckpt,       \* the checkpoint ConfigMap
    held,       \* scale sets with allocations that are not resolved
    seen,       \* history: configurations that were live while Load ran
    edits,      \* bound: edits and re-creations so far
    losses,     \* bound: losses so far
    worker,     \* Runtime.worker
    completed,  \* Runtime.completedUID, 0 for none
    ready,      \* what Readiness was last told
    pc, line,   \* where Reconcile is, and how far Load is
    obs,        \* the scale set Reconcile read
    saved,      \* the checkpoint it read
    got,        \* what Load read
    stale,      \* objects written since they were last read
    want        \* the Ready condition to report

cluster == <<root, live, ckpt, edits, losses>>
handler == <<line, obs, saved, got, want, seen>>
vars    == <<cluster, held, worker, completed, ready, pc, handler, stale>>

\* The scale set has a suspend field.  The dependencies stand for the binding
\* of the fleet, "bad" if they do not compile.  The Secrets may lack the GitHub
\* key, or the cloud credentials too.
Specs   == {"run", "suspend"}
Deps    == {"a", "b", "bad"}
Secrets == {"s1", "s2", "nogithub", "none"}
Uids    == 0..MaxUid
Objects == {"root", "deps", "secret"}
Root    == [uid: Uids, gen: 0..MaxEdits, deleting: BOOLEAN, guarded: BOOLEAN, spec: Specs]
Key     == [spec: Specs, deps: Deps, secret: Secrets]
Worker  == [mode: {"none", "session", "recovery", "cleanup"}, uid: Uids, key: Key,
            done: BOOLEAN, paused: BOOLEAN, ready: BOOLEAN]
Checkpoint == [state: {"none", "corrupt", "ok"}, uid: Uids, deps: Deps]
Labels  == {"idle", "checkpoint", "load", "decide", "save", "observe", "current", "protect", "start",
            "recover", "cleanup", "finalize", "unguard", "condition", "status"}

NoRoot   == [uid |-> 0, gen |-> 0, deleting |-> FALSE, guarded |-> FALSE, spec |-> "run"]
NoKey    == [spec |-> "run", deps |-> "a", secret |-> "s1"]
NoWorker == [mode |-> "none", uid |-> 0, key |-> NoKey, done |-> FALSE, paused |-> FALSE, ready |-> FALSE]
NoCheckpoint == [state |-> "none", uid |-> 0, deps |-> "a"]
NoneGot  == [root |-> NoRoot, deps |-> "a", secret |-> "s1"]

\* Type invariant: every variable keeps its shape.
TypeOK ==
    /\ root \in Root /\ obs \in Root
    /\ live \in [deps: Deps, secret: Secrets] /\ seen \subseteq Key
    /\ ckpt \in Checkpoint /\ saved \in Checkpoint
    /\ held \subseteq Uids \ {0} /\ edits \in 0..MaxEdits /\ losses \in 0..Losses
    /\ worker \in Worker /\ completed \in Uids
    /\ ready \in BOOLEAN /\ want \in BOOLEAN
    /\ pc \in Labels /\ line \in 0..8
    /\ got \in [root: Root, deps: Deps, secret: Secrets]
    /\ stale \subseteq Objects

\* What the configuration amounts to, for Loaded.Key.
KeyOf(r, c) == [spec |-> r.spec, deps |-> c.deps, secret |-> c.secret]

Init ==
    /\ root = [NoRoot EXCEPT !.uid = 1]
    /\ live = [deps |-> "a", secret |-> "s1"]
    /\ seen = {}
    /\ ckpt = NoCheckpoint /\ held = {} /\ edits = 0 /\ losses = 0
    /\ worker = NoWorker /\ completed = 0 /\ ready = FALSE
    /\ pc = "idle" /\ line = 0 /\ obs = NoRoot /\ saved = NoCheckpoint /\ got = NoneGot
    /\ stale = {} /\ want = FALSE

-----------------------------------------------------------------------------
(* How Reconcile goes on and ends *)

Goto(label) == pc' = label

\* PauseAdmissions(true), if there is a worker.
Paused(w) == IF w.mode = "none" THEN w ELSE [w EXCEPT !.paused = TRUE]

Pause == worker' = Paused(worker) /\ ready' = FALSE

\* Reconcile returns; an error has Run pause the worker.
Return ==
    /\ Goto("idle")
    /\ line' = 0 /\ obs' = NoRoot /\ saved' = NoCheckpoint /\ got' = NoneGot /\ want' = FALSE /\ seen' = {}
Abort == Pause /\ Return

\* stop cancels and joins the worker.  It keeps the handle while the removal of
\* the worker's credential cache fails, and Reconcile returns that error.
StopFails ==
    /\ worker.mode # "none"
    /\ worker' = [Paused(worker) EXCEPT !.done = TRUE, !.ready = FALSE]
    /\ ready' = FALSE
    /\ Return

\* It ends by reporting the Ready condition of the scale set it read.
Report(b) ==
    /\ Goto("condition")
    /\ want' = b
    /\ line' = 0 /\ got' = NoneGot /\ saved' = NoCheckpoint /\ seen' = {}

SameRootRevision(a, b) == a.uid = b.uid /\ a.gen = b.gen /\ a.deleting = b.deleting

-----------------------------------------------------------------------------
(* The scale set and its checkpoint.  ok: the call is answered. *)

ReadRoot(ok) ==
    /\ pc = "idle"
    /\ IF ok
       THEN /\ obs' = root
            /\ stale' = stale \ {"root"}
            /\ Goto("checkpoint")
            /\ UNCHANGED <<worker, ready, line, saved, got, want, seen>>
       ELSE Abort /\ UNCHANGED stale
    /\ UNCHANGED <<cluster, held, completed>>

\* Invalid, or missing where there must be one: everything pauses.
CheckpointUnavailable(ok) ==
    \/ ~ok \/ ckpt.state = "corrupt"
    \/ ckpt.state = "none" /\ (worker.mode # "none" \/ obs.guarded)

\* Deleted, or replaced by another of the same name.
Deleting == obs.uid = 0 \/ obs.deleting \/ (ckpt.state = "ok" /\ obs.uid # ckpt.uid)

ReadCheckpoint(ok) ==
    /\ pc = "checkpoint"
    /\ \/ /\ CheckpointUnavailable(ok)
          /\ Pause
          /\ Report(FALSE)
       \/ /\ ~CheckpointUnavailable(ok)
          /\ Deleting /\ ckpt.state = "none"
          /\ Report(FALSE)
          /\ UNCHANGED <<worker, ready>>
       \/ /\ ~CheckpointUnavailable(ok)
          /\ Deleting => ckpt.state = "ok"
          /\ saved' = ckpt
          /\ Goto(IF Deleting THEN "cleanup" ELSE "load")
          /\ line' = IF Deleting THEN 0 ELSE 1
          /\ seen' = IF Deleting THEN {} ELSE {KeyOf(root, live)}
          /\ UNCHANGED <<worker, ready, got, want>>
    /\ UNCHANGED <<cluster, held, completed, obs, stale>>

-----------------------------------------------------------------------------
(* Load: Read with its Recheck, ResolveSecrets, and Recheck once more *)

Get(o)   == [op |-> "get", obj |-> o]
Check(o) == [op |-> "check", obj |-> o]
LoadSteps ==
    << Get("root"), Get("deps"), Check("root"), Check("deps"),
       Get("secret"), Check("secret"), Check("root"), Check("deps") >>

\* The objects exist and are well formed, they compile, no Secret key is missing.
Readable(o) ==
    CASE o = "root"   -> root.uid # 0
      [] o = "deps"   -> live.deps # "bad"
      [] o = "secret" -> live.secret \in {"s1", "s2"}

\* The configuration is not read again after the Secrets.
LoadPassesUnchecked(s) ==
    \/ s.op = "get" /\ Readable(s.obj)
    \/ s.op = "check" /\ (s.obj \notin stale \/ line > 6)

LoadPasses(s) ==
    \/ s.op = "get" /\ Readable(s.obj)
    \/ s.op = "check" /\ s.obj \notin stale

\* What cannot be loaded pauses the worker.  If there is none, the work that was
\* accepted goes on under the checkpoint.
LoadFails ==
    /\ Pause
    /\ IF saved.state = "ok" /\ obs.guarded
       THEN Goto("recover") /\ line' = 0 /\ got' = NoneGot /\ seen' = {} /\ UNCHANGED <<saved, want>>
       ELSE Report(FALSE)

Load(ok) ==
    /\ pc = "load"
    /\ LET s == LoadSteps[line] IN
       \/ /\ ok /\ LoadPasses(s)
          /\ got' = IF s.op = "check" THEN got
                    ELSE [got EXCEPT ![s.obj] = IF s.obj = "root" THEN root ELSE live[s.obj]]
          /\ stale' = IF s.op = "check" THEN stale ELSE stale \ {s.obj}
          /\ line' = IF line < Len(LoadSteps) THEN line + 1 ELSE 0
          /\ Goto(IF line < Len(LoadSteps) THEN "load" ELSE "decide")
          /\ UNCHANGED <<worker, ready, saved, want, seen>>
       \/ /\ ~(ok /\ LoadPasses(s))
          /\ LoadFails
          /\ UNCHANGED stale
    /\ UNCHANGED <<cluster, held, completed, obs>>

-----------------------------------------------------------------------------
(* A configuration is accepted: checkpoint, finalizer, then the session *)

Suspended == got.root.spec = "suspend"

\* A session that has ended is taken for one that serves.
UnchangedThoughEnded ==
    worker.mode = "session" /\ worker.uid = got.root.uid /\ worker.key = KeyOf(got.root, got)

Unchanged ==
    ~worker.done /\ worker.mode = "session" /\ worker.uid = got.root.uid /\ worker.key = KeyOf(got.root, got)

\* A worker to which the configuration means the same goes on.  Otherwise a
\* candidate is built, after a worker that ended by itself was stopped.
Decide(ok) ==
    /\ pc = "decide"
    /\ \/ /\ ~SameRootRevision(obs, got.root)
          /\ Abort
       \/ /\ SameRootRevision(obs, got.root) /\ Unchanged
          /\ worker' = [worker EXCEPT !.paused = Suspended]
          /\ Report(worker.ready /\ ~Suspended)
          /\ UNCHANGED <<ready, obs>>
       \/ /\ SameRootRevision(obs, got.root) /\ worker.done /\ ~ok
          /\ StopFails
       \/ /\ SameRootRevision(obs, got.root) /\ ~Unchanged
          /\ LET w == IF worker.done THEN NoWorker ELSE worker IN
             \/ /\ ok
                /\ worker' = w
                /\ Goto("save")
                /\ seen' = {}
                /\ UNCHANGED <<line, saved, got, want>>
             \/ /\ ~ok
                /\ worker' = Paused(w)
                /\ Report(FALSE)
          /\ ready' = (ready /\ ~worker.done)
          /\ UNCHANGED obs
    /\ UNCHANGED <<cluster, held, completed, stale>>

\* The binding of the existing checkpoint is not compared.
SaveableAny == ckpt.state = "none" \/ (ckpt.state = "ok" /\ ckpt.uid = got.root.uid)

\* Checkpoints.Save keeps the owner and the binding of an existing checkpoint.
Saveable ==
    \/ ckpt.state = "none"
    \/ ckpt.state = "ok" /\ ckpt.uid = got.root.uid /\ ckpt.deps = got.deps
Candidate == [state |-> "ok", uid |-> got.root.uid, deps |-> got.deps]

Save(ok) ==
    /\ pc = "save"
    /\ ckpt' \in IF ~Saveable THEN {ckpt} ELSE IF ok THEN {Candidate} ELSE {ckpt, Candidate}
    /\ \/ /\ ok /\ Saveable
          /\ Goto("observe")
          /\ UNCHANGED <<worker, ready, line, saved, got, want, seen>>
       \/ /\ ~(ok /\ Saveable)
          /\ worker' = Paused(worker)
          /\ IF ok /\ ckpt.state = "ok" /\ ckpt.uid = got.root.uid /\ saved.state = "ok" /\ obs.guarded
             THEN Goto("recover") /\ UNCHANGED <<line, saved, got, want, seen>>
             ELSE Report(FALSE)
          /\ UNCHANGED ready
    /\ UNCHANGED <<root, live, edits, losses, held, completed, obs, stale>>

\* The checkpoint is read back before anything depends on it.
Observe(ok) ==
    /\ pc = "observe"
    /\ IF ok /\ ckpt.state = "ok" /\ ckpt.uid = got.root.uid
       THEN Goto("current") /\ UNCHANGED <<worker, ready, handler>>
       ELSE Abort
    /\ UNCHANGED <<cluster, held, completed, stale>>

Current(ok) ==
    /\ pc = "current"
    /\ IF ok /\ SameRootRevision(root, got.root)
       THEN /\ obs' = root
            /\ stale' = stale \ {"root"}
            /\ Goto("protect")
            /\ UNCHANGED <<worker, ready, line, saved, got, want, seen>>
       ELSE Abort /\ UNCHANGED stale
    /\ UNCHANGED <<cluster, held, completed>>

ProtectedRoot == [root EXCEPT !.guarded = TRUE]

\* The finalizer is written over whatever the scale set is by then.
ProtectBlind(ok) ==
    /\ pc = "protect" /\ root.uid # 0
    /\ root' = IF obs.guarded THEN root ELSE [obs EXCEPT !.guarded = TRUE]
    /\ Goto("start")
    /\ UNCHANGED <<live, ckpt, edits, losses, held, completed, stale, worker, ready, handler>>

\* A finalizer that could not be written does not stop the session.
ProtectBestEffort(ok) ==
    /\ pc = "protect"
    /\ root' = IF ok /\ ~obs.guarded /\ "root" \notin stale THEN ProtectedRoot ELSE root
    /\ Goto("start")
    /\ UNCHANGED <<live, ckpt, edits, losses, held, completed, stale, worker, ready, handler>>

\* protect: the finalizer is added to the revision just read.
Protect(ok) ==
    /\ pc = "protect"
    /\ LET mayWrite == "root" \notin stale IN
       \/ /\ obs.guarded \/ (ok /\ mayWrite)
          /\ root' = IF obs.guarded THEN root ELSE ProtectedRoot
          /\ Goto("start")
          /\ UNCHANGED <<worker, ready, handler>>
       \/ /\ ~obs.guarded /\ ~(ok /\ mayWrite)
          /\ root' \in {root} \cup (IF mayWrite THEN {ProtectedRoot} ELSE {})
          /\ Abort
    /\ UNCHANGED <<live, ckpt, edits, losses, held, completed, stale>>

NewWorker(mode, uid, key, paused) ==
    [NoWorker EXCEPT !.mode = mode, !.uid = uid, !.key = key, !.paused = paused]

\* The old worker is stopped and joined before the new one starts.
Start(ok) ==
    /\ pc = "start"
    /\ \/ /\ worker' = NewWorker("session", got.root.uid, KeyOf(got.root, got), Suspended)
          /\ ready' = (ready /\ worker.mode = "none")
          /\ Report(FALSE)
          /\ UNCHANGED obs
       \/ ~ok /\ StopFails
    /\ UNCHANGED <<cluster, held, completed, stale>>

\* recoverAccepted: a worker that runs is only paused.
Recover(ok) ==
    /\ pc = "recover"
    /\ \/ /\ LET w == IF worker.done THEN NoWorker ELSE worker IN
             worker' = IF w.mode # "none" THEN Paused(w)
                       ELSE IF ok /\ live.secret # "none" THEN NewWorker("recovery", saved.uid, NoKey, TRUE) ELSE w
          /\ ready' = (ready /\ ~worker.done)
          /\ Report(FALSE)
          /\ UNCHANGED obs
       \/ worker.done /\ ~ok /\ StopFails
    /\ UNCHANGED <<cluster, held, completed, stale>>

-----------------------------------------------------------------------------
(* A scale set that is deleted or replaced: cleanup, then the finalizer *)

\* The finalizer is looked for on the replacement.
AfterCleanupSwapped == IF obs.uid \in {0, saved.uid} THEN Report(FALSE)
                       ELSE Goto("finalize") /\ UNCHANGED <<line, saved, got, want, seen>>

\* After the cleanup of the checkpoint's owner, a replacement stays unserved.
AfterCleanup == IF obs.uid \notin {0, saved.uid} THEN Report(FALSE)
                ELSE Goto("finalize") /\ UNCHANGED <<line, saved, got, want, seen>>

\* The exit of the worker is not enough: Drained reads the records again.
Cleanup(ok) ==
    /\ pc = "cleanup"
    /\ LET mine == worker.mode = "cleanup" /\ worker.uid = saved.uid IN
       \/ /\ completed = saved.uid
          /\ AfterCleanup
          /\ UNCHANGED <<worker, completed, ready, obs>>
       \/ /\ completed # saved.uid /\ ~mine
          /\ worker' = IF ok /\ live.secret # "none" THEN NewWorker("cleanup", saved.uid, NoKey, TRUE) ELSE NoWorker
          /\ ready' = (ready /\ worker.mode = "none")
          /\ Report(FALSE)
          /\ UNCHANGED <<completed, obs>>
       \/ /\ completed # saved.uid /\ mine
          /\ IF worker.done /\ ok /\ saved.uid \notin held
             THEN /\ worker' = NoWorker /\ ready' = FALSE
                  /\ completed' = saved.uid
                  /\ AfterCleanup
             ELSE /\ Report(FALSE)
                  /\ UNCHANGED <<worker, ready, completed>>
          /\ UNCHANGED obs
       \/ /\ completed # saved.uid /\ ~ok
          /\ mine => worker.done /\ saved.uid \notin held
          /\ StopFails
          /\ UNCHANGED completed
    /\ UNCHANGED <<cluster, held, stale>>

Finalize(ok) ==
    /\ pc = "finalize"
    /\ \/ /\ obs.uid = 0 \/ (ok /\ root.uid = 0)
          /\ Report(FALSE)
          /\ UNCHANGED <<worker, ready, obs, stale>>
       \/ /\ obs.uid # 0 /\ ok /\ root.uid = saved.uid /\ root.deleting
          /\ stale' = stale \ {"root"}
          /\ Goto("unguard")
          /\ UNCHANGED <<worker, ready, handler>>
       \/ /\ obs.uid # 0 /\ ~(ok /\ (root.uid = 0 \/ (root.uid = saved.uid /\ root.deleting)))
          /\ Abort
          /\ UNCHANGED stale
    /\ UNCHANGED <<cluster, held, completed>>

\* Without its finalizer a deleted scale set is gone.
Unguard(ok) ==
    /\ pc = "unguard"
    /\ root' \in IF "root" \in stale THEN {root} ELSE IF ok THEN {NoRoot} ELSE {root, NoRoot}
    /\ IF ok /\ "root" \notin stale
       THEN Report(FALSE) /\ UNCHANGED <<worker, ready, obs>>
       ELSE Abort
    /\ UNCHANGED <<live, ckpt, edits, losses, held, completed, stale>>

-----------------------------------------------------------------------------
(* condition: the status write, and what readiness is told *)

\* The status is written for whatever generation is there.
StillCurrentUid == root.uid = obs.uid

StillCurrent == SameRootRevision(root, obs)

Condition(ok) ==
    /\ pc = "condition"
    /\ \/ /\ obs.uid = 0 \/ (ok /\ root.uid = 0)
          /\ ready' = FALSE
          /\ Return
          /\ UNCHANGED <<worker, stale>>
       \/ /\ obs.uid # 0 /\ ok /\ root.uid # 0 /\ StillCurrent
          /\ stale' = stale \ {"root"}
          /\ \/ Goto("status") /\ UNCHANGED <<worker, ready, handler>>
             \/ ready' = want /\ Return /\ UNCHANGED worker
       \/ /\ obs.uid # 0 /\ ~(ok /\ (root.uid = 0 \/ StillCurrent))
          /\ Abort
          /\ UNCHANGED stale
    /\ UNCHANGED <<cluster, held, completed>>

Status(ok) ==
    /\ pc = "status"
    /\ IF ok /\ "root" \notin stale
       THEN ready' = want /\ Return /\ UNCHANGED worker
       ELSE Abort
    /\ UNCHANGED <<cluster, held, completed, stale>>

Reconcile(ok) ==
    \/ ReadRoot(ok) \/ ReadCheckpoint(ok) \/ Load(ok) \/ Decide(ok) \/ Save(ok) \/ Observe(ok)
    \/ Current(ok) \/ Protect(ok) \/ Start(ok) \/ Recover(ok)
    \/ Cleanup(ok) \/ Finalize(ok) \/ Unguard(ok) \/ Condition(ok) \/ Status(ok)

-----------------------------------------------------------------------------
(* The worker, the process and the users *)

\* A session reports whether it could open and tick.
WorkerReady ==
    /\ worker.mode = "session" /\ ~worker.done
    /\ worker' = [worker EXCEPT !.ready = ~@]
    /\ UNCHANGED <<cluster, held, completed, ready, pc, handler, stale>>

WorkerAdmits ==
    /\ worker.mode = "session" /\ ~worker.done /\ ~worker.paused
    /\ held' = held \cup {worker.uid}
    /\ UNCHANGED <<cluster, worker, completed, ready, pc, handler, stale>>

WorkerResolves ==
    /\ worker.mode # "none" /\ ~worker.done
    /\ worker.uid \in held
    /\ held' = held \ {worker.uid}
    /\ UNCHANGED <<cluster, worker, completed, ready, pc, handler, stale>>

\* A session ends on an error of its own, a cleanup when it is drained.
SessionEnds ==
    /\ worker.mode = "session" /\ ~worker.done
    /\ worker' = [worker EXCEPT !.done = TRUE, !.ready = FALSE]
    /\ UNCHANGED <<cluster, held, completed, ready, pc, handler, stale>>

CleanupEnds ==
    /\ worker.mode = "cleanup" /\ ~worker.done /\ worker.uid \notin held
    /\ worker' = [worker EXCEPT !.done = TRUE]
    /\ UNCHANGED <<cluster, held, completed, ready, pc, handler, stale>>

\* The Lease is lost or the process ends: what it knew is gone, its worker is
\* joined or dead, and the next leader starts from the objects.
Leave ==
    /\ worker' = NoWorker /\ completed' = 0 /\ ready' = FALSE /\ stale' = {}
    /\ Return
    /\ UNCHANGED <<cluster, held>>

Written(o) ==
    /\ stale' = stale \cup {o}
    /\ seen' = IF pc = "load" THEN seen \cup {KeyOf(root', live')} ELSE seen

EditRoot ==
    /\ root.uid # 0 /\ edits + losses < MaxEdits
    /\ edits' = edits + 1
    /\ \E s \in Specs : root' = [root EXCEPT !.spec = s, !.gen = @ + 1]
    /\ UNCHANGED <<live, ckpt, losses, held, worker, completed, ready, pc, line, obs, saved, got, want>>
    /\ Written("root")

EditDependency(o) ==
    /\ edits + losses < MaxEdits
    /\ edits' = edits + 1
    /\ \E v \in IF o = "deps" THEN Deps ELSE Secrets : v # live[o] /\ live' = [live EXCEPT ![o] = v]
    /\ UNCHANGED <<root, ckpt, losses, held, worker, completed, ready, pc, line, obs, saved, got, want>>
    /\ Written(o)

DeleteRoot ==
    /\ root.uid # 0 /\ ~root.deleting
    /\ root' = IF root.guarded THEN [root EXCEPT !.deleting = TRUE] ELSE NoRoot
    /\ UNCHANGED <<live, ckpt, edits, losses, held, worker, completed, ready, pc, line, obs, saved, got, want>>
    /\ Written("root")

\* UIDs are never used twice.
CreateRoot ==
    /\ root.uid = 0 /\ edits + losses < MaxEdits
    /\ edits' = edits + 1
    /\ \E u \in Uids \ {0} :
          /\ u \notin {ckpt.uid, saved.uid, completed, obs.uid, got.root.uid, worker.uid} \cup held
          /\ root' = [NoRoot EXCEPT !.uid = u]
    /\ UNCHANGED <<live, ckpt, losses, held, worker, completed, ready, pc, line, obs, saved, got, want>>
    /\ Written("root")

LoseCheckpoint ==
    /\ ckpt.state = "ok" /\ losses < Losses /\ edits + losses < MaxEdits
    /\ losses' = losses + 1
    /\ ckpt' \in {NoCheckpoint, [ckpt EXCEPT !.state = "corrupt"]}
    /\ UNCHANGED <<root, live, edits, held, worker, completed, ready, pc, handler, stale>>

Users ==
    \/ EditRoot \/ DeleteRoot \/ CreateRoot \/ LoseCheckpoint
    \/ EditDependency("deps") \/ EditDependency("secret")

Next ==
    \/ \E ok \in BOOLEAN : Reconcile(ok)
    \/ WorkerReady \/ WorkerAdmits \/ WorkerResolves \/ SessionEnds \/ CleanupEnds
    \/ Leave \/ Users

Spec == Init /\ [][Next]_vars

-----------------------------------------------------------------------------
(* What the supervisor promises *)

\* Load accepts a configuration and its Secrets only if they were all in force
\* at one moment while it ran.  It reads one object at a time.
LoadedTogether == pc = "decide" => KeyOf(got.root, got) \in seen

\* Unresolved allocations keep the scale set that owns them in the API, behind
\* its finalizer, through edits, deletion, failing calls and changes of leader.
Protected == \A u \in held : root.uid = u /\ root.guarded

\* A worker serves the owner of the checkpoint, and a session the binding in it,
\* as long as nobody but the runtime has touched the checkpoint.
WorkerFollowsCheckpoint ==
    worker.mode # "none" /\ losses = 0 =>
        /\ ckpt.state = "ok" /\ ckpt.uid = worker.uid
        /\ worker.mode = "session" => ckpt.deps = worker.key.deps

\* The runtime's own writes undo neither an edit of the user nor a deletion.
KeepsUserEdits ==
    [][root'.uid = root.uid => root'.gen >= root.gen /\ (root.deleting => root'.deleting)]_vars

\* The process becomes ready only by a session that admits for the scale set as
\* it is in the API at that step: not suspended, not deleted, not replaced.  The
\* session may have ended meanwhile; the next Reconcile finds that.
ReadyIsEarned ==
    [][~ready /\ ready' => /\ worker.mode = "session" /\ ~worker.paused /\ worker.uid = root.uid
                          /\ root.spec = "run" /\ ~root.deleting]_vars

\* From some moment on the API answers, nobody edits, no session fails and the
\* leader stays.
CalmNext == Reconcile(TRUE) \/ WorkerReady \/ WorkerAdmits \/ WorkerResolves \/ CleanupEnds

\* Run calls Reconcile on every tick; a worker ticks through its allocations,
\* and each comes to its end (Lifecycle, Fleet).  An allocation that is parked in
\* the sense of Lifecycle is not: its worker resolves it when an operator acts.
Fairness ==
    /\ <>[][CalmNext]_vars
    /\ WF_vars(Reconcile(TRUE)) /\ WF_vars(WorkerResolves) /\ WF_vars(CleanupEnds)

FairSpec == Spec /\ Fairness

\* A deleted scale set goes away, unless its credentials or its checkpoint did,
\* once no allocation of it is parked.
DeletionCompletes ==
    root.deleting ~> \/ ~root.deleting
                     \/ live.secret = "none"
                     \/ ckpt.state # "ok" \/ ckpt.uid # root.uid

\* What is in force: it compiles, its Secrets are complete, the checkpoint can
\* take it.
Acceptable ==
    /\ root.uid # 0 /\ ~root.deleting
    /\ live.deps # "bad" /\ live.secret \in {"s1", "s2"}
    /\ \/ ckpt.state = "ok" /\ ckpt.uid = root.uid /\ ckpt.deps = live.deps
       \/ ckpt.state = "none" /\ ~root.guarded /\ worker.mode = "none"

\* In the end exactly that configuration runs, suspended or not.
ConfigurationRuns ==
    <>[](Acceptable => /\ worker.mode = "session" /\ ~worker.done /\ worker.uid = root.uid
                       /\ worker.key = KeyOf(root, live)
                       /\ worker.paused = (root.spec = "suspend"))
=============================================================================
