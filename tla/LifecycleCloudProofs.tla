------------------------ MODULE LifecycleCloudProofs ------------------------
(***************************************************************************)
(* The third layer of the proofs about Lifecycle: what the record says     *)
(* about the clouds.  CloudInv is inductive on the assumption Committed,   *)
(* and gives NoOrphan, OneAttemptAtATime, TerminalDeregistered and the     *)
(* refinement of AllocationContract.                                       *)
(***************************************************************************)
EXTENDS LifecycleProofs

\* Either the create commitment can be read back (GCP), or no other controller
\* is running and an unanswered request does not outlive its caller.
Committed ==
    \/ \A p \in Pools : Provider[p] = "gcp"
    \/ LateKinds \subseteq {"gcp"} /\ \A c, d \in Controllers : c = d

Final == {"done", "refused"}
Active == {"Creating", "Running", "Deleting"}

Bare(n) == \A r \in live : r[1] # n

\* An attempt that the record has given up: refused, or never sent.
Spent(n, rejected) ==
    /\ Bare(n)
    /\ request[n].st \in {"none", "refused"}
    /\ request[n].st = "refused" => request[n].pool \in rejected

Requests ==
    \A n \in Attempts :
        /\ n > store.attempts => request[n].st = "none"
        /\ n < store.attempts => Spent(n, store.rejected)
        /\ n = store.attempts /\ store.phase = "Pending" => Spent(n, store.rejected)
        /\ n = store.attempts /\ request[n].st # "none" => request[n].pool = store.offering
        /\ request[n].st \notin Final => Bare(n)
        /\ request[n].st # "none" => request[n].pool \in Pools
        /\ request[n].st = "accepted" => Provider[request[n].pool] # "aws"

Record ==
    /\ store.phase \in Active => /\ store.attempts \in Attempts
                                 /\ store.offering \in Pools \ store.rejected
    /\ store.phase \in {"Running", "Deleting"} => store.resourceID # 0
    /\ store.resourceID # 0 => request[store.resourceID].st \in Final
    /\ store.phase \in Terminal => \A n \in Attempts : Quiet(n)

Creators ==
    /\ \A c \in Controllers : Creator(c) =>
          /\ store.phase # "Pending"
          /\ local[c].attempts = store.attempts
          /\ local[c].offering = store.offering
    /\ \A c, d \in Controllers : Creator(c) /\ Creator(d) => c = d
    /\ \A c \in Controllers : Presend(c) =>
          store.phase = "Creating" /\ request[store.attempts].st = "none"

\* A request whose fate nobody can read back has its caller waiting for it.
Outstanding ==
    \A n \in Attempts :
        request[n].st = "sent" /\ Provider[request[n].pool] # "gcp" =>
            \E c \in Controllers : pc[c] = "await" /\ local[c].attempts = n

\* What holds of the clouds when c is about to write its decision.
Intent(c) ==
    /\ local[c].resourceID # 0 => request[local[c].resourceID].st \in Final
    /\ local[c].phase \in {"Running", "Deleting"} => local[c].resourceID # 0
    /\ store.phase = "Creating" /\ local[c].phase = "Pending" =>
          /\ \A d \in Controllers : ~Creator(d)
          /\ Spent(store.attempts, local[c].rejected)
    /\ local[c].phase = "Deleted" =>
          /\ \A d \in Controllers : ~Presend(d)
          /\ \A n \in Attempts : Quiet(n)

Intents ==
    \A c \in Controllers : current[c] /\ pc[c] \in {"save", "deregister"} => Intent(c)

\* Once c has seen a resource of its attempt, the request is decided.
Sighted(c) == pc[c] = "exists" \/ (pc[c] = "save" /\ then[c] = "exists")
Sightings ==
    \A c \in Controllers : current[c] /\ Sighted(c) => request[store.attempts].st \in Final

Deregistered ==
    Controllers \subseteq Sessions =>
        /\ store.phase \in Terminal => ~registered
        /\ \A c \in Controllers :
              current[c] /\ pc[c] = "save" /\ local[c].phase \in Terminal => ~registered

CloudInv ==
    /\ CopyInv
    /\ Requests /\ Record /\ Creators /\ Outstanding /\ Intents /\ Sightings /\ Deregistered

-----------------------------------------------------------------------------
\* A new allocation has no request, no resource and no registration.
THEOREM CloudInit == Init => CloudInv
<1>. SUFFICES ASSUME Init PROVE CloudInv
  OBVIOUS
<1>1. CopyInv
  BY CopyInit
<1>. USE AttemptsAssumption DEF Init, NewAllocation
<1>2. Requests
  BY DEF Requests, Spent, Bare, Attempts
<1>3. Record /\ Creators
  BY DEF Record, Active, Terminal, Creators, Creator, Presend
<1>4. Outstanding /\ Intents /\ Sightings /\ Deregistered
  BY DEF Outstanding, Intents, Sightings, Deregistered, Terminal
<1>. QED
  BY <1>1, <1>2, <1>3, <1>4 DEF CloudInv

\* Only the latest attempt can be under way or own something.
LEMMA OnlyLatest ==
  ASSUME CloudInv, NEW n \in Attempts, n # store.attempts \/ store.phase = "Pending"
  PROVE  Bare(n) /\ request[n].st \notin {"sent", "accepted"} /\ Quiet(n)
<1>1. store.attempts \in Nat /\ n \in Nat
  BY AttemptsAssumption DEF CloudInv, CopyInv, TypeInv, TypeOK, Allocation, Attempts
<1>2. n < store.attempts \/ n > store.attempts \/ (n = store.attempts /\ store.phase = "Pending")
  BY <1>1
<1>. QED
  BY <1>2 DEF CloudInv, Requests, Spent, Final, Quiet, Bare

\* A Pending allocation is not exposed: what Contract's mapping says of it.
LEMMA PendingIsQuiet ==
  CloudInv => (store.phase = "Pending" => ~(\E n \in Attempts : ~Quiet(n)))
BY OnlyLatest

\* The record's VM identity is that of its latest attempt.
LEMMA RecordedID ==
  ASSUME CloudInv, store.resourceID # 0
  PROVE  store.resourceID = store.attempts /\ request[store.attempts].st \in Final
BY DEF CloudInv, CopyInv, Record

\* A controller that has not sent its request excludes a recorded identity.
LEMMA UnsentUnrecorded ==
  ASSUME CloudInv, NEW c \in Controllers, Presend(c)
  PROVE  /\ store.phase = "Creating" /\ store.resourceID = 0
         /\ store.attempts \in Attempts
         /\ request[store.attempts].st = "none" /\ Bare(store.attempts)
<1>1. store.phase = "Creating" /\ request[store.attempts].st = "none"
  BY DEF CloudInv, Creators
<1>2. store.attempts \in Attempts
  BY <1>1 DEF CloudInv, Record, Active
<1>3. store.resourceID = 0
  BY <1>1, RecordedID DEF Final
<1>4. Bare(store.attempts)
  BY <1>1, <1>2 DEF CloudInv, Requests, Final
<1>. QED
  BY <1>1, <1>2, <1>3, <1>4

\* What an observation that finds nothing proves: the commitment argument.
LEMMA AbsenceIsFinal ==
  ASSUME Committed, CloudInv, NEW c \in Controllers, current[c],
         pc[c] \in {"reconcile", "observe"}, Settled(local[c]), Visible(local[c]) = {}
  PROVE  (\A d \in Controllers : ~Presend(d)) /\ (\A n \in Attempts : Quiet(n))
<1>. DEFINE N == store.attempts
<1>1. local[c] = store /\ store.phase \in Active
  BY DEF CloudInv, CopyInv, CopyOf, Observable, Holding, Active
<1>2. N \in Attempts /\ store.offering \in Pools \ store.rejected
  BY <1>1 DEF CloudInv, Record
<1>3. Bare(N)
  <2>. SUFFICES ASSUME NEW r \in live, r[1] = N PROVE FALSE
    BY DEF Bare
  <2>1. request[N].st \in Final
    BY <1>2 DEF CloudInv, Requests, Bare
  <2>2. request[N].pool = store.offering
    BY <1>2, <2>1 DEF CloudInv, Requests, Final
  <2>. QED
    BY <1>1, <2>2 DEF Visible
<1>4. CASE request[N].st \in Final
  <2>1. \A d \in Controllers : ~Presend(d)
    BY <1>4, UnsentUnrecorded DEF Final
  <2>2. Quiet(N)
    BY <1>3, <1>4 DEF Quiet, Bare, Final
  <2>. QED
    BY <2>1, <2>2, OnlyLatest
<1>5. CASE store.resourceID # 0
  BY <1>4, <1>5, RecordedID
<1>6. CASE store.resourceID = 0 /\ Provider[store.offering] = "gcp"
  <2>1. PICK n \in Attempts : request[n].pool = store.offering /\ request[n].st \in Final
    BY <1>1, <1>6 DEF Settled, SettledGCP, OnRecord, Kind, Final
  <2>2. n = N
    <3>1. n \in Nat /\ N \in Nat
      BY <1>2, AttemptsAssumption DEF Attempts
    <3>2. ~(n > N)
      BY <2>1 DEF CloudInv, Requests, Final
    <3>3. ~(n < N)
      BY <1>2, <2>1 DEF CloudInv, Requests, Spent, Final
    <3>. QED
      BY <3>1, <3>2, <3>3
  <2>. QED
    BY <1>4, <2>1, <2>2
<1>7. CASE store.resourceID = 0 /\ Provider[store.offering] # "gcp"
  <2>1. \A d \in Controllers : d = c
    BY <1>2, <1>7 DEF Committed
  <2>2. \A d \in Controllers : ~Presend(d) /\ pc[d] # "await"
    BY <2>1 DEF Presend
  <2>3. request[N].st # "none" => request[N].pool = store.offering
    BY <1>2 DEF CloudInv, Requests
  <2>4. request[N].st # "sent"
    BY <1>2, <1>7, <2>2, <2>3 DEF CloudInv, Outstanding
  <2>5. request[N].st # "accepted"
    <3>1. Provider[store.offering] \in {"aws", "azure"}
      BY <1>2, <1>7, ProviderAssumption DEF Kinds
    <3>2. CASE Provider[store.offering] = "aws"
      BY <1>2, <2>3, <3>2 DEF CloudInv, Requests
    <3>3. CASE Provider[store.offering] = "azure"
      BY <1>1, <1>2, <2>3, <3>3 DEF Settled, SettledGCP, SettledAzure, OnRecord, Kind
    <3>. QED
      BY <3>1, <3>2, <3>3
  <2>6. Quiet(N)
    BY <1>3, <2>4, <2>5 DEF Quiet, Bare
  <2>. QED
    BY <2>2, <2>6, OnlyLatest
<1>. QED
  BY <1>5, <1>6, <1>7

\* What an observation that finds something proves.
LEMMA SightingIsFinal ==
  ASSUME CloudInv, NEW c \in Controllers, current[c],
         pc[c] \in {"reconcile", "observe"}, Visible(local[c]) # {}
  PROVE  request[store.attempts].st \in Final
<1>1. PICK r \in live : TRUE
  BY DEF Visible
<1>2. r[1] \in Attempts /\ ~Bare(r[1])
  BY <1>1 DEF Bare, CloudInv, CopyInv, TypeInv, TypeOK, Resources
<1>3. r[1] = store.attempts
  BY <1>2, OnlyLatest
<1>. QED
  BY <1>2, <1>3 DEF CloudInv, Requests

-----------------------------------------------------------------------------
(* Steps that change neither the record nor any request.                   *)

\* A step of c that at most removes resources, and makes nobody a creator.
LEMMA CloudMove ==
  ASSUME CloudInv, CopyInv', NEW c \in Controllers,
         store' = store, request' = request, live' \subseteq live,
         \A d \in Controllers \ {c} : /\ current'[d] = current[d]
                                      /\ local'[d] = local[d]
                                      /\ pc'[d] = pc[d]
                                      /\ then'[d] = then[d],
         Creator(c)' => /\ Creator(c) /\ local'[c] = local[c]
                        /\ pc[c] = "await" => pc'[c] = "await"
                        /\ Presend(c)' => Presend(c),
         pc[c] = "await" /\ request[local[c].attempts].st = "sent"
             /\ Provider[request[local[c].attempts].pool] # "gcp" => pc'[c] = "await",
         registered' => registered \/ Presend(c),
         current'[c] /\ pc'[c] \in {"save", "deregister"} => Intent(c)',
         current'[c] /\ Sighted(c)' => request[store.attempts].st \in Final,
         Controllers \subseteq Sessions /\ current'[c] /\ pc'[c] = "save"
             /\ local'[c].phase \in Terminal => ~registered'
  PROVE  CloudInv'
<1>1. Requests'
  BY DEF CloudInv, Requests, Spent, Bare
<1>2. Record'
  BY DEF CloudInv, Record, Quiet
<1>3. Creators'
  <2>1. \A d \in Controllers : /\ Creator(d)' => Creator(d) /\ local'[d] = local[d]
                               /\ Presend(d)' => Presend(d)
    BY DEF Creator, Presend
  <2>. QED
    BY <2>1 DEF CloudInv, Creators
<1>4. Outstanding'
  <2>. SUFFICES ASSUME NEW n \in Attempts, request[n].st = "sent", Provider[request[n].pool] # "gcp"
                PROVE  \E d \in Controllers : pc'[d] = "await" /\ local'[d].attempts = n
    BY DEF Outstanding
  <2>1. PICK d \in Controllers : pc[d] = "await" /\ local[d].attempts = n
    BY DEF CloudInv, Outstanding
  <2>2. pc'[d] = "await"
    BY <2>1
  <2>3. local'[d] = local[d]
    BY ZenonT(30), <2>2 DEF Creator
  <2>. QED
    BY <2>1, <2>2, <2>3
<1>5. Intents'
  <2>. SUFFICES ASSUME NEW d \in Controllers \ {c}, current[d], pc[d] \in {"save", "deregister"}
                PROVE  Intent(d)'
    BY DEF Intents
  <2>1. Intent(d)
    BY DEF CloudInv, Intents
  <2>2. \A e \in Controllers : (Creator(e)' => Creator(e)) /\ (Presend(e)' => Presend(e))
    BY DEF Creator, Presend
  <2>. QED
    BY <2>1, <2>2 DEF Intent, Spent, Bare, Quiet
<1>6. Sightings'
  BY Zenon DEF CloudInv, Sightings, Sighted
<1>7. Deregistered'
  <2>. SUFFICES ASSUME Controllers \subseteq Sessions
                PROVE  /\ store.phase \in Terminal => ~registered'
                       /\ \A d \in Controllers \ {c} :
                            current[d] /\ pc[d] = "save" /\ local[d].phase \in Terminal => ~registered'
    BY DEF Deregistered
  <2>1. store.phase \in Terminal => ~Presend(c)
    BY DEF CloudInv, Creators, Terminal
  <2>2. ASSUME NEW d \in Controllers \ {c}, current[d], pc[d] = "save", local[d].phase \in Terminal
        PROVE  ~Presend(c)
    <3>1. CASE local[d].phase = "Deleted"
      BY Zenon, <2>2, <3>1 DEF CloudInv, Intents, Intent
    <3>2. CASE local[d].phase = "TimedOut"
      BY ZenonT(30), <2>2, <3>2 DEF CloudInv, CopyInv, CopyOf, Successor, MayFollow, Creators
    <3>. QED
      BY Zenon, <2>2, <3>1, <3>2 DEF Terminal
  <2>. QED
    BY <2>1, <2>2 DEF CloudInv, Deregistered
<1>. QED
  BY ZenonT(30), <1>1, <1>2, <1>3, <1>4, <1>5, <1>6, <1>7 DEF CloudInv

\* What a copy that keeps phase and identity says is what the record says.
LEMMA SameIntent ==
  ASSUME CloudInv, NEW c \in Controllers, store' = store, request' = request,
         store.phase \notin Terminal,
         local'[c].phase = store.phase, local'[c].resourceID = store.resourceID
  PROVE  Intent(c)'
BY Zenon DEF CloudInv, Record, Intent, Terminal

\* A caller that leaves its create call leaves no request behind that only it
\* could have answered for.
LEMMA LeavesNothing ==
  ASSUME Committed, CloudInv, NEW c \in Controllers, MayLeave(c), pc[c] = "await"
  PROVE  ~(/\ request[local[c].attempts].st = "sent"
           /\ Provider[request[local[c].attempts].pool] # "gcp")
<1>. SUFFICES ASSUME request[local[c].attempts].st = "sent",
                     Provider[request[local[c].attempts].pool] # "gcp"
              PROVE  FALSE
  BY Zenon
<1>1. /\ local[c].attempts = store.attempts /\ local[c].offering = store.offering
      /\ local[c].attempts \in Attempts /\ local[c].offering \in Pools
  BY Zenon DEF CloudInv, Creators, Creator, CopyInv, TypeInv, CreatorTyped
<1>2. request[store.attempts].pool = store.offering
  BY <1>1 DEF CloudInv, Requests
<1>. QED
  BY Zenon, <1>1, <1>2 DEF MayLeave, Answer, Kind, Committed

\* The steps of c, other than Save and Send.
LEMMA CloudStep ==
  ASSUME Committed, CloudInv, CopyInv', NEW c \in Controllers,
         Step(c) \/ Abandon(c), ~Save(c), ~Send(c)
  PROVE  CloudInv'
<1>. DEFINE Frame ==
              /\ store' = store /\ request' = request /\ live' \subseteq live
              /\ \A d \in Controllers \ {c} : /\ current'[d] = current[d]
                                              /\ local'[d] = local[d]
                                              /\ pc'[d] = pc[d]
                                              /\ then'[d] = then[d]
            Has(b, l, m) == local'[c] = b /\ pc'[c] = l /\ then'[c] = m
            Kept == current'[c] => current[c]
            Calm == registered' => registered
            Free == ~Creator(c)
<1>0. /\ TypeOK /\ store \in Allocation /\ local[c] \in Allocation
      /\ current[c] => CopyOf(c)
  BY Zenon DEF CloudInv, CopyInv, TypeInv, TypeOK
\* c is no creator, before or after the step
<1>1. ASSUME Frame, Free, Calm, pc'[c] \notin {"create", "prepared", "await"},
             current'[c] /\ pc'[c] \in {"save", "deregister"} => Intent(c)',
             current'[c] /\ Sighted(c)' => request[store.attempts].st \in Final,
             current'[c] /\ pc'[c] = "save" => local'[c].phase \notin Terminal
      PROVE  CloudInv'
  BY ZenonT(30), <1>1, CloudMove DEF Creator, Presend
\* c saves what it holds, but for resources
<1>2. ASSUME NEW l, Frame, Kept, Free, Calm, pc'[c] = "save", then'[c] = l,
             current[c] => /\ store.phase \in Active /\ local[c] = store
                           /\ l = "exists" => request[store.attempts].st \in Final,
             local'[c].phase = local[c].phase, local'[c].resourceID = local[c].resourceID
      PROVE  CloudInv'
  <2>1. current'[c] => Intent(c)' /\ local'[c].phase \notin Terminal
    BY Zenon, <1>2, SameIntent DEF Active, Terminal
  <2>. QED
    BY ZenonT(30), <1>1, <1>2, <2>1 DEF Sighted
<1>. USE DEF TypeOK, Goto, SaveThen, SetLocal, Return
<1>3. CASE StepExpire(c)
  <2>. DEFINE b == [store EXCEPT !.phase = "TimedOut"]
  <2>1. Frame /\ Free /\ Calm /\ Has(b, "deregister", "idle") /\ store.resourceID = 0
    BY <1>0, <1>3 DEF StepExpire, Load, Creator, cloudVars
  <2>2. b.phase = "TimedOut" /\ b.resourceID = store.resourceID
    BY <1>0 DEF Allocation
  <2>3. Intent(c)'
    BY <2>1, <2>2 DEF Intent
  <2>. QED
    BY <1>1, <2>1, <2>3 DEF Sighted
<1>4. CASE StepNoPool(c) \/ StepReconcile(c)
  <2>1. /\ Frame /\ Free /\ Calm /\ store.phase \notin Terminal
        /\ Has(store, "save", "idle") \/ Has(store, "save", "reconcile")
    BY SMTT(30), <1>0, <1>4 DEF StepNoPool, StepReconcile, Load, Creator, cloudVars, Terminal
  <2>2. Intent(c)'
    BY <2>1, SameIntent
  <2>. QED
    BY Zenon, <1>1, <2>1, <2>2 DEF Sighted
<1>5. ASSUME NEW p \in Pools, StepCommit(c, p) PROVE CloudInv'
  <2>. DEFINE b == [store EXCEPT !.phase = "Creating", !.offering = p, !.attempts = @ + 1]
  <2>1. Frame /\ Free /\ Calm /\ Has(b, "save", "create") /\ store.resourceID = 0
    BY <1>0, <1>5 DEF StepCommit, Load, Creator, cloudVars
  <2>2. b.phase = "Creating" /\ b.resourceID = store.resourceID
    BY <1>0 DEF Allocation
  <2>3. Intent(c)'
    BY <2>1, <2>2 DEF Intent
  <2>. QED
    BY <1>1, <2>1, <2>2, <2>3 DEF Sighted, Terminal
<1>6. CASE StepRunning(c)
  <2>. DEFINE b == [store EXCEPT !.phase = "Deleting"]
  <2>1. /\ Frame /\ Free /\ Calm /\ store.phase = "Running"
        /\ Has(b, "save", "idle") \/ Has(store, "observe", "idle")
    BY <1>0, <1>6 DEF StepRunning, Load, Creator, cloudVars
  <2>2. b.phase = "Deleting" /\ b.resourceID = store.resourceID
    BY <1>0 DEF Allocation
  <2>3. Has(b, "save", "idle") => Intent(c)'
    BY <2>1, <2>2 DEF Intent, CloudInv, Record
  <2>. QED
    BY Zenon, <1>1, <2>1, <2>2, <2>3 DEF Sighted, Terminal
<1>7. CASE StepDeleting(c)
  <2>1. Frame /\ Free /\ Calm /\ Has(store, "observe", "idle")
    BY <1>0, <1>7 DEF StepDeleting, Load, Creator, cloudVars
  <2>. QED
    BY <1>1, <2>1 DEF Sighted
<1>8. CASE Deregister(c)
  <2>1. Frame /\ Free /\ Kept /\ Calm /\ Has(local[c], "save", "idle") /\ pc[c] = "deregister"
    BY <1>0, <1>8 DEF Deregister, storeVars, cloudVars, Creator
  <2>2. Controllers \subseteq Sessions => ~registered'
    BY ZenonT(30), <1>8 DEF Deregister
  <2>3. current[c] => Intent(c)
    BY <2>1 DEF CloudInv, Intents
  <2>4. \A d \in Controllers : Creator(d)' = Creator(d) /\ Presend(d)' = Presend(d)
    BY <2>1 DEF Creator, Presend
  <2>5. live' = live
    BY <1>8 DEF Deregister, cloudVars
  <2>6. current'[c] => Intent(c)'
    BY <2>1, <2>3, <2>4, <2>5 DEF Intent, Spent, Bare, Quiet
  <2>. QED
    BY Zenon, <2>1, <2>2, <2>6, CloudMove DEF Creator, Presend, Sighted
\* the creator
<1>9. CASE Bootstrap(c)
  <2>1. /\ Frame /\ Kept /\ Has(local[c], "prepared", "idle") /\ pc[c] = "create"
    BY Zenon, <1>0, <1>9 DEF Bootstrap, storeVars, cloudVars
  <2>. QED
    BY <2>1, CloudMove DEF Creator, Presend, Sighted
<1>. DEFINE N == store.attempts
            Holds == /\ local[c] = store /\ store.phase = "Creating" /\ N \in Attempts
                     /\ store.offering \in Pools
<1>10. ASSUME Creator(c) PROVE current[c] => Holds
  BY ZenonT(30), <1>0, <1>10 DEF CopyOf, Creator, Holding, CloudInv, Record, Active
<1>11. ASSUME Frame, Creator(c), pc'[c] = "save", then'[c] = "idle", Kept,
              registered' => registered \/ Presend(c),
              pc[c] = "await" =>
                 ~(/\ request[local[c].attempts].st = "sent"
                   /\ Provider[request[local[c].attempts].pool] # "gcp"),
              current[c] => Intent(c)' /\ local'[c].phase \notin Terminal
       PROVE  CloudInv'
  BY <1>11, CloudMove DEF Creator, Presend, Sighted
<1>12. CASE NoEffect(c)
  <2>. DEFINE b == [local[c] EXCEPT !.phase = "Pending"]
  <2>1. /\ Frame /\ Kept /\ live' = live /\ Has(b, "save", "idle") /\ Presend(c) /\ Creator(c)
    BY <1>0, <1>12 DEF NoEffect, storeVars, cloudVars, Creator, Presend
  <2>2. b.phase = "Pending" /\ b.resourceID = local[c].resourceID /\ b.rejected = local[c].rejected
    BY <1>0 DEF Allocation
  <2>3. \A d \in Controllers : ~Creator(d)'
    BY <2>1 DEF CloudInv, Creators, Creator
  <2>4. current[c] => Intent(c)'
    BY <1>10, <2>1, <2>2, <2>3, UnsentUnrecorded DEF Intent, Spent, Bare
  <2>. QED
    BY <1>11, <2>1, <2>2, <2>4 DEF Presend, Terminal
<1>13. CASE CreateSucceeds(c)
  <2>. DEFINE rs == Reported(Kind(local[c]), {<<local[c].attempts, "vm">>, <<local[c].attempts, "disk">>})
              b == [local[c] EXCEPT !.phase = "Running", !.resourceID = local[c].attempts,
                                    !.resources = @ \cup rs]
  <2>1. /\ Frame /\ Kept /\ Calm /\ Has(b, "save", "idle") /\ Creator(c)
        /\ request[local[c].attempts].st = "done"
    BY <1>0, <1>13 DEF CreateSucceeds, storeVars, cloudVars, Creator, Answer
  <2>2. b.phase = "Running" /\ b.resourceID = local[c].attempts
    BY <1>0 DEF Allocation
  <2>3. local[c].attempts # 0
    BY <2>1 DEF CloudInv, CopyInv, TypeInv, CreatorTyped, Attempts
  <2>4. Intent(c)'
    BY <2>1, <2>2, <2>3 DEF Intent, Final
  <2>. QED
    BY <1>11, <2>1, <2>2, <2>4 DEF Terminal
<1>14. CASE CreateRejected(c)
  <2>. DEFINE b == [local[c] EXCEPT !.phase = "Pending", !.rejected = @ \cup {local[c].offering}]
  <2>1. /\ Frame /\ Kept /\ Calm /\ live' = live /\ Has(b, "save", "idle") /\ Creator(c)
        /\ request[local[c].attempts].st = "refused" /\ Visible(local[c]) = {}
    BY <1>0, <1>14 DEF CreateRejected, storeVars, cloudVars, Creator, Answer
  <2>2. /\ b.phase = "Pending" /\ b.resourceID = local[c].resourceID
        /\ local[c].offering \in b.rejected
    BY <1>0 DEF Allocation
  <2>3. \A d \in Controllers : ~Creator(d)'
    BY <2>1 DEF CloudInv, Creators, Creator
  <2>4. current[c] => Spent(N, b.rejected)
    <3>. SUFFICES ASSUME current[c] PROVE Spent(N, b.rejected)
      OBVIOUS
    <3>1. Holds /\ request[N].st = "refused"
      BY Zenon, <1>10, <2>1
    <3>2. request[N].pool = store.offering
      BY <3>1 DEF CloudInv, Requests
    <3>3. Bare(N)
      BY <2>1, <3>1, <3>2 DEF Bare, Visible
    <3>. QED
      BY <2>2, <3>1, <3>2, <3>3 DEF Spent
  <2>5. current[c] => Intent(c)'
    <3>1. current[c] => local[c].resourceID = store.resourceID
      BY Zenon, <1>10, <2>1
    <3>. QED
      BY <2>1, <2>2, <2>3, <2>4, <3>1 DEF Intent, Spent, Bare, CloudInv, Record
  <2>. QED
    BY <1>11, <2>1, <2>2, <2>5 DEF Terminal
<1>15. CASE CreateUnknown(c)
  <2>. DEFINE n == local[c].attempts
              all == Reported(Kind(local[c]), {<<n, "vm">>, <<n, "disk">>})
              b(rs) == [local[c] EXCEPT !.resourceID = n, !.resources = @ \cup rs]
  <2>1. /\ Creator(c) /\ MayLeave(c)
        /\ \/ SetLocal(c, local[c])
           \/ request[n].st = "done" /\ \E rs \in SUBSET all : SetLocal(c, b(rs))
    BY ZenonT(30), <1>15 DEF CreateUnknown, Creator, Answer
  <2>2. /\ \/ local'[c] = local[c]
           \/ request[n].st = "done" /\ \E rs \in SUBSET all : local'[c] = b(rs)
        /\ \A d \in Controllers \ {c} : local'[d] = local[d]
    BY ZenonT(30), <1>0, <2>1
  <2>3. Frame /\ Kept /\ Calm /\ pc'[c] = "save" /\ then'[c] = "idle"
    BY ZenonT(30), <1>0, <1>15, <2>2 DEF CreateUnknown, storeVars, cloudVars
  <2>4. /\ local'[c].phase = local[c].phase
        /\ \/ local'[c].resourceID = local[c].resourceID
           \/ local'[c].resourceID = n /\ request[n].st = "done"
    BY ZenonT(30), <1>0, <2>2 DEF Allocation
  <2>5. current[c] => Intent(c)' /\ local'[c].phase \notin Terminal
    BY Zenon, <1>10, <2>1, <2>3, <2>4 DEF Intent, Final, CloudInv, Record, Terminal
  <2>. QED
    BY ZenonT(30), <1>11, <2>1, <2>3, <2>5, LeavesNothing
\* observations
<1>16. ASSUME pc[c] \in {"reconcile", "observe", "unknown", "delete"}
       PROVE  /\ Free
              /\ current[c] => local[c] = store /\ store.phase \in Active
  BY <1>0, <1>16 DEF Creator, CopyOf, Observable, Holding, Active
<1>17. CASE ObserveUnknown(c)
  <2>. DEFINE b == [local[c] EXCEPT !.resources = @ \cup Visible(local[c])]
  <2>1. /\ Frame /\ Kept /\ Calm /\ pc[c] \in {"reconcile", "observe"}
        /\ Has(local[c], "save", "idle") \/ Has(b, "save", "unknown")
    BY Zenon, <1>0, <1>17 DEF ObserveUnknown, storeVars, cloudVars
  <2>2. b.phase = local[c].phase /\ b.resourceID = local[c].resourceID
    BY <1>0 DEF Allocation
  <2>. QED
    BY Zenon, <1>2, <1>16, <2>1, <2>2
<1>18. CASE SaveUnknown(c)
  <2>1. Frame /\ Kept /\ Calm /\ pc[c] = "unknown" /\ Has(local[c], "save", "idle")
    BY <1>0, <1>18 DEF SaveUnknown, storeVars, cloudVars
  <2>. QED
    BY <1>2, <1>16, <2>1
<1>19. CASE ObserveAbsent(c)
  <2>. DEFINE b(i) == [local[c] EXCEPT !.phase = "Deleted", !.interrupted = i]
  <2>1. PICK i \in BOOLEAN : SetLocal(c, b(i))
    BY Zenon, <1>0, <1>19 DEF ObserveAbsent
  <2>2. /\ Frame /\ Kept /\ Calm /\ live' = live /\ Has(b(i), "deregister", "idle")
        /\ pc[c] \in {"reconcile", "observe"}
    BY <1>0, <1>19, <2>1 DEF ObserveAbsent, storeVars, cloudVars
  <2>3. b(i).phase = "Deleted" /\ b(i).resourceID = local[c].resourceID
    BY <1>0 DEF Allocation
  <2>4. current[c] => (\A d \in Controllers : ~Presend(d)) /\ (\A n \in Attempts : Quiet(n))
    BY <1>19, AbsenceIsFinal DEF ObserveAbsent
  <2>5. current[c] => (\A d \in Controllers : ~Presend(d)') /\ (\A n \in Attempts : Quiet(n)')
    BY <2>2, <2>4 DEF Presend, Quiet
  <2>6. current[c] => Intent(c)'
    BY <1>16, <2>2, <2>3, <2>5 DEF Intent, CloudInv, Record
  <2>. QED
    BY Zenon, <1>1, <1>16, <2>2, <2>6 DEF Sighted
<1>20. CASE ObserveExists(c)
  <2>. DEFINE found == Reported(Kind(local[c]), Visible(local[c]))
              b == [local[c] EXCEPT !.resources = @ \cup found]
  <2>1. /\ Frame /\ Kept /\ Calm /\ pc[c] \in {"reconcile", "observe"}
        /\ Has(local[c], "exists", "idle") \/ Has(b, "save", "exists")
    BY ZenonT(30), <1>0, <1>20 DEF ObserveExists, storeVars, cloudVars
  <2>2. b.phase = local[c].phase /\ b.resourceID = local[c].resourceID
    BY <1>0 DEF Allocation
  <2>3. current[c] => request[store.attempts].st \in Final
    BY <1>20, SightingIsFinal DEF ObserveExists
  <2>4. CASE Has(local[c], "exists", "idle")
    BY <1>1, <1>16, <2>1, <2>3, <2>4
  <2>5. CASE Has(b, "save", "exists")
    BY <1>2, <1>16, <2>1, <2>2, <2>3, <2>5
  <2>. QED
    BY <2>1, <2>4, <2>5
<1>21. CASE Exists(c)
  <2>. DEFINE b(q) == [local[c] EXCEPT !.resourceID = local[c].attempts, !.phase = q]
  <2>1. Frame /\ Kept /\ Calm /\ pc[c] = "exists" /\ Free
    BY <1>0, <1>21 DEF Exists, cloudVars, Creator
  <2>2. \/ local[c].phase = "Creating" /\ \E q \in {"Deleting", "Running"} : Has(b(q), "save", "idle")
        \/ ~current'[c] /\ pc'[c] = "idle"
        \/ pc'[c] = "delete"
    BY Zenon, <1>0, <1>21 DEF Exists
  <2>3. \A q \in {"Deleting", "Running"} : b(q).phase = q /\ b(q).resourceID = local[c].attempts
    BY <1>0 DEF Allocation
  <2>4. ASSUME NEW q \in {"Deleting", "Running"}, Has(b(q), "save", "idle"), current[c],
               local[c].phase = "Creating"
        PROVE  Intent(c)'
    <3>1. local[c] = store /\ request[store.attempts].st \in Final
      BY <1>0, <2>1, <2>4 DEF CopyOf, Holding, CloudInv, Sightings, Sighted
    <3>2. store.attempts \in Attempts /\ store.attempts # 0
      BY <2>4, <3>1 DEF CloudInv, Record, Active, Attempts
    <3>. QED
      BY <2>1, <2>3, <2>4, <3>1, <3>2 DEF Intent
  <2>. QED
    BY Zenon, <1>1, <2>1, <2>2, <2>3, <2>4 DEF Sighted, Terminal
<1>22. CASE Delete(c)
  <2>1. /\ Frame /\ Kept /\ Calm /\ pc[c] = "delete"
        /\ (~current'[c] /\ pc'[c] = "idle") \/ Has(local[c], "save", "idle")
    BY ZenonT(30), <1>0, <1>22 DEF Delete
  <2>2. CASE ~current'[c] /\ pc'[c] = "idle"
    BY Zenon, <1>1, <1>16, <2>1, <2>2
  <2>3. CASE Has(local[c], "save", "idle")
    BY Zenon, <1>2, <1>16, <2>1, <2>3
  <2>. QED
    BY <2>1, <2>2, <2>3
<1>23. CASE Abandon(c)
  <2>1. Frame /\ Calm /\ ~current'[c] /\ pc'[c] = "idle" /\ MayLeave(c)
    BY <1>0, <1>23 DEF Abandon, cloudVars
  <2>. QED
    BY <2>1, CloudMove, LeavesNothing DEF Creator, Presend
<1>. QED
  BY ZenonT(30), <1>3, <1>4, <1>5, <1>6, <1>7, <1>8, <1>9, <1>12, <1>13, <1>14, <1>15, <1>17, <1>18,
     <1>19, <1>20, <1>21, <1>22, <1>23 DEF Step

-----------------------------------------------------------------------------
(* Steps that change a request or the record.                              *)

\* The create request leaves the process under the intent that was saved for it.
LEMMA CloudSend ==
  ASSUME CloudInv, CopyInv', NEW c \in Controllers, Send(c)
  PROVE  CloudInv'
<1>. DEFINE N == store.attempts
<1>0. /\ TypeOK /\ store \in Allocation
      /\ Presend(c) /\ Creator(c)
  BY DEF CloudInv, CopyInv, TypeInv, TypeOK, Send, Presend, Creator
<1>1. /\ N \in Attempts /\ store.phase = "Creating" /\ store.resourceID = 0
      /\ request[N].st = "none" /\ Bare(N)
  BY <1>0, UnsentUnrecorded
<1>2. local[c].attempts = N /\ local[c].offering = store.offering /\ store.offering \in Pools
  BY <1>0, <1>1 DEF CloudInv, Creators, Record, Active
<1>3. /\ UNCHANGED <<store, current, local, live, registered>>
      /\ pc' = [pc EXCEPT ![c] = "await"] /\ then' = [then EXCEPT ![c] = "idle"]
      /\ \A n \in Attempts \ {N} : request'[n] = request[n]
      /\ request'[N].st = "sent" /\ request'[N].pool = store.offering
  BY Zenon, <1>0, <1>1, <1>2 DEF Send, Goto, storeVars, TypeOK
<1>4. \A d \in Controllers \ {c} : pc'[d] = pc[d] /\ then'[d] = then[d] /\ ~Creator(d)
  BY Zenon, <1>0, <1>3 DEF CloudInv, Creators, TypeOK
<1>5. Requests'
  <2>1. \A n \in Attempts \ {N} : Spent(n, store.rejected) => Spent(n, store.rejected)'
    BY <1>3 DEF Spent, Bare
  <2>2. N \in Nat /\ Bare(N)' /\ ~(N > N) /\ ~(N < N)
    BY SMTT(30), <1>1, <1>3, AttemptsAssumption DEF Bare, Attempts
  <2>. QED
    BY ZenonT(30), <1>1, <1>2, <1>3, <2>1, <2>2 DEF CloudInv, Requests, Bare
<1>6. Record'
  BY Zenon, <1>1, <1>3 DEF CloudInv, Record, Terminal
<1>7. Creators'
  <2>1. pc'[c] = "await"
    BY <1>0, <1>3 DEF TypeOK
  <2>2. \A d \in Controllers : (Creator(d)' => d = c) /\ ~Presend(d)'
    BY Zenon, <1>4, <2>1 DEF Creator, Presend
  <2>. QED
    BY Zenon, <1>1, <1>2, <1>3, <2>2 DEF Creators
<1>8. Outstanding'
  BY SMTT(30), <1>0, <1>2, <1>3, <1>4 DEF CloudInv, Outstanding, TypeOK
<1>9. Intents'
  <2>. SUFFICES ASSUME NEW d \in Controllers, current'[d], pc'[d] \in {"save", "deregister"}
                PROVE  Intent(d)'
    BY Zenon DEF Intents
  <2>1. d # c /\ pc[d] \in {"save", "deregister"} /\ current[d]
    BY Zenon, <1>0, <1>3, <1>4 DEF TypeOK
  <2>2. Intent(d) /\ CopyOf(d)
    BY Zenon, <2>1 DEF CloudInv, CopyInv, Intents
  <2>3. local[d].phase # "Deleted"
    BY ZenonT(30), <1>0, <2>2 DEF Intent
  <2>4. ~(store.phase = "Creating" /\ local[d].phase = "Pending")
    BY <1>0, <2>2 DEF Intent
  <2>5. local[d].resourceID # 0 => local[d].resourceID \in Attempts \ {N}
    <3>1. local[d].resourceID \in 0..MaxAttempts
      BY Zenon, <1>0 DEF TypeOK, Allocation
    <3>2. local[d].resourceID # 0 => local[d].resourceID # N
      BY Zenon, <1>1, <2>2 DEF Intent, Final
    <3>. QED
      BY SMTT(30), <3>1, <3>2, AttemptsAssumption DEF Attempts
  <2>. QED
    BY <1>3, <2>2, <2>3, <2>4, <2>5 DEF Intent
<1>10. Sightings'
  BY Zenon, <1>0, <1>1, <1>3, <1>4 DEF CloudInv, Sightings, Sighted, Final, TypeOK
<1>11. Deregistered'
  BY <1>0, <1>3, <1>4 DEF CloudInv, Deregistered, TypeOK
<1>. QED
  BY ZenonT(30), <1>5, <1>6, <1>7, <1>8, <1>9, <1>10, <1>11 DEF CloudInv

\* A cloud decides, or loses, the request it works on.
LEMMA CloudDecide ==
  ASSUME CloudInv, CopyInv', NEW n \in Attempts,
         NEW s \in {"accepted", "lost", "done", "refused"},
         request[n].st \in {"sent", "accepted"},
         s = "accepted" => Provider[request[n].pool] # "aws",
         request' = [request EXCEPT ![n].st = s],
         live' = live \/ (s \in Final /\ live' \subseteq live \cup {<<n, "vm">>, <<n, "disk">>}),
         UNCHANGED <<store, current, local, pc, then, registered>>
  PROVE  CloudInv'
<1>0. request \in [Attempts -> [st: States, pool: Pools \cup {NoPool}]] /\ store \in Allocation
  BY DEF CloudInv, CopyInv, TypeInv, TypeOK
<1>1. /\ n = store.attempts /\ store.phase # "Pending"
      /\ request[n].st \notin {"none", "done", "refused", "lost"}
  BY OnlyLatest
<1>2. /\ \A m \in Attempts \ {n} : request'[m] = request[m] /\ (Bare(m) => Bare(m)')
      /\ request'[n].st = s /\ request'[n].pool = request[n].pool
      /\ s \notin Final => live' = live
  BY <1>0 DEF Bare, Final
<1>3. ~Quiet(n)
  BY DEF Quiet
<1>4. Requests'
  BY <1>1, <1>2 DEF CloudInv, Requests, Spent, Final, Bare
<1>5. Record'
  BY <1>0, <1>1, <1>2, <1>3, RecordedID DEF CloudInv, Record, Final
<1>6. Creators'
  BY <1>1, <1>2 DEF CloudInv, Creators, Creator, Presend
<1>7. Outstanding'
  BY <1>1, <1>2 DEF CloudInv, Outstanding, Final
<1>8. Intents'
  <2>. SUFFICES ASSUME NEW d \in Controllers, current[d], pc[d] \in {"save", "deregister"}
                PROVE  Intent(d)'
    BY DEF Intents
  <2>1. Intent(d)
    BY DEF CloudInv, Intents
  <2>2. local[d].phase # "Deleted"
    BY <1>3, <2>1 DEF Intent
  <2>3. ~(store.phase = "Creating" /\ local[d].phase = "Pending")
    BY <1>1, <2>1 DEF Intent, Spent
  <2>4. local[d].resourceID # 0 => local[d].resourceID \in Attempts
    BY AttemptsAssumption DEF CloudInv, CopyInv, TypeInv, TypeOK, Allocation, Attempts
  <2>. QED
    BY <1>1, <1>2, <2>1, <2>2, <2>3, <2>4 DEF Intent, Final
<1>9. Sightings'
  BY <1>1, <1>2 DEF CloudInv, Sightings, Sighted, Final
<1>10. Deregistered'
  BY DEF CloudInv, Deregistered
<1>. QED
  BY <1>4, <1>5, <1>6, <1>7, <1>8, <1>9, <1>10 DEF CloudInv

\* Kubernetes.Save commits what Step decided, with the invariant of the cloud.
LEMMA CloudSave ==
  ASSUME CloudInv, CopyInv', NEW c \in Controllers, Save(c)
  PROVE  CloudInv'
<1>. DEFINE N == store.attempts
            M == store'.attempts
            label == then[c]
<1>0. /\ TypeOK /\ store \in Allocation /\ local[c] \in Allocation
      /\ N \in Nat /\ M \in 0..MaxAttempts /\ label \in Resumes
      /\ store' = local[c] /\ current[c] /\ pc[c] = "save"
  BY SMTT(30), AttemptsAssumption DEF CloudInv, CopyInv, TypeInv, TypeOK, Save, Allocation
<1>1. Successor(store, store', label) /\ Intent(c)
  BY Zenon, <1>0 DEF CloudInv, CopyInv, CopyOf, Intents
<1>2. /\ UNCHANGED <<request, live, registered>>
      /\ pc' = [pc EXCEPT ![c] = label] /\ then' = [then EXCEPT ![c] = "idle"]
      /\ \A d \in Controllers : current'[d] => d = c /\ label # "idle"
      /\ label # "idle" => local' = local
      /\ \A d \in Controllers \ {c} : local'[d] = local[d]
  BY Zenon, <1>0 DEF Save, Return, Goto, SetLocal, cloudVars, TypeOK
<1>3. /\ pc'[c] = label
      /\ \A d \in Controllers \ {c} : pc'[d] = pc[d] /\ then'[d] = then[d]
      /\ store.rejected \subseteq store'.rejected
  BY Zenon, <1>0, <1>1, <1>2 DEF TypeOK, Successor
\* the two kinds of Save: a new attempt begins, or the attempt stays
<1>4. CASE label = "create"
  <2>1. /\ store.phase = "Pending" /\ store'.phase = "Creating"
        /\ M = N + 1 /\ store'.resourceID = 0
        /\ store'.rejected = store.rejected /\ store'.offering \in Pools \ store.rejected
    BY Zenon, <1>1, <1>4 DEF Successor, MayFollow
  <2>2. M \in Attempts /\ request[M].st = "none"
    <3>1. M \in Attempts /\ M > N
      BY SMTT(30), <1>0, <2>1, AttemptsAssumption DEF Attempts
    <3>. QED
      BY <3>1 DEF CloudInv, Requests
  <2>3. \A d \in Controllers : ~Creator(d)
    BY Zenon, <2>1 DEF CloudInv, Creators
  <2>4. Requests'
    <3>. SUFFICES ASSUME NEW n \in Attempts
                  PROVE  /\ n > M => request[n].st = "none"
                         /\ n < M => Spent(n, store.rejected)
                         /\ n = M => request[n].st = "none"
      BY <1>2, <2>1 DEF Requests, Spent, Bare, CloudInv
    <3>1. n \in Nat
      BY SMTT(30), AttemptsAssumption DEF Attempts
    <3>2. n > M => n > N
      BY <1>0, <2>1, <3>1
    <3>3. n < M => n < N \/ n = N
      BY <1>0, <2>1, <3>1
    <3>. QED
      BY Zenon, <2>1, <2>2, <3>2, <3>3 DEF CloudInv, Requests
  <2>5. Record'
    BY Zenon, <2>1, <2>2 DEF Record, Terminal
  <2>6. Creators'
    <3>1. \A d \in Controllers : Creator(d)' => d = c
      BY <1>3, <2>3 DEF Creator
    <3>2. local'[c] = store'
      BY <1>0, <1>2, <1>4
    <3>3. \A d \in Controllers : Presend(d)' => d = c
      BY Zenon, <3>1 DEF Presend, Creator
    <3>. QED
      BY Zenon, <1>2, <2>1, <2>2, <3>1, <3>2, <3>3 DEF Creators
  <2>7. Deregistered' /\ Sightings'
    BY Zenon, <1>2, <1>3, <1>4, <2>1 DEF Deregistered, Sightings, Sighted, Terminal
  <2>8. Outstanding'
    <3>1. \A d \in Controllers : pc[d] = "await" => pc'[d] = "await" /\ local'[d] = local[d]
      BY Zenon, <1>0, <1>2, <1>3
    <3>. QED
      BY SMTT(30), <1>2, <3>1 DEF CloudInv, Outstanding
  <2>9. Intents'
    BY Zenon, <1>2, <1>3, <1>4 DEF Intents
  <2>. QED
    BY Zenon, <2>4, <2>5, <2>6, <2>7, <2>8, <2>9 DEF CloudInv
<1>5. CASE label # "create"
  <2>1. /\ M = N /\ store'.offering = store.offering
        /\ store'.resourceID \in {0, N}
        /\ store'.phase \in Active => store'.rejected = store.rejected /\ store.phase \in Active
        /\ store'.phase = "Pending" => store.phase \in {"Pending", "Creating"}
        /\ store'.phase = "TimedOut" => store.phase = "Pending"
        /\ store.phase = "Pending" => store'.phase \in {"Pending", "TimedOut"}
        /\ store.phase \notin Terminal
        /\ store.phase = "Creating" => store'.phase \in Active \cup {"Pending", "Deleted"}
    BY Zenon, <1>1, <1>5 DEF Successor, MayFollow, Active, Terminal
  <2>2. \A n \in Attempts : Spent(n, store.rejected) => Spent(n, store.rejected)'
    BY Zenon, <1>2, <1>3 DEF Spent, Bare
  <2>3. store'.phase = "Pending" /\ N \in Attempts => Spent(N, store.rejected)'
    <3>1. CASE store.phase = "Pending"
      BY Zenon, <2>1, <2>2, <3>1 DEF CloudInv, Requests
    <3>2. CASE store.phase = "Creating"
      BY ZenonT(30), <1>0, <1>1, <1>2, <2>1, <3>2 DEF Intent, Spent, Bare
    <3>. QED
      BY Zenon, <2>1, <3>1, <3>2
  <2>4. Requests'
    BY ZenonT(30), <1>2, <2>1, <2>2, <2>3 DEF CloudInv, Requests, Bare
  <2>5. Record'
    <3>1. store'.phase \in Active => M \in Attempts /\ store'.offering \in Pools \ store'.rejected
      BY Zenon, <2>1 DEF CloudInv, Record
    <3>2. /\ store'.phase \in {"Running", "Deleting"} => store'.resourceID # 0
          /\ store'.resourceID # 0 => request[store'.resourceID].st \in Final
      BY <1>0, <1>1 DEF Intent
    <3>3. store'.phase \in Terminal => \A n \in Attempts : Quiet(n)
      <4>1. CASE store'.phase = "Deleted"
        BY Zenon, <1>0, <1>1, <4>1 DEF Intent
      <4>2. CASE store'.phase = "TimedOut"
        BY Zenon, <2>1, <4>2, OnlyLatest
      <4>. QED
        BY Zenon, <4>1, <4>2 DEF Terminal
    <3>. QED
      BY Zenon, <1>2, <3>1, <3>2, <3>3 DEF Record, Quiet
  <2>6. Creators'
    <3>1. ~Creator(c) /\ ~Creator(c)' /\ ~Presend(c)'
      BY <1>0, <1>3, <1>5 DEF Creator, Presend, Resumes
    <3>2. \A d \in Controllers \ {c} : /\ Creator(d)' = Creator(d) /\ Presend(d)' = Presend(d)
                                       /\ local'[d] = local[d]
      BY <1>2, <1>3 DEF Creator, Presend
    <3>3. ASSUME NEW d \in Controllers, Creator(d) PROVE store'.phase # "Pending"
      <4>1. store.phase # "Pending"
        BY <3>3 DEF CloudInv, Creators
      <4>. QED
        BY Zenon, <1>0, <1>1, <2>1, <3>3, <4>1 DEF Intent
    <3>4. ASSUME NEW d \in Controllers, Presend(d) PROVE store'.phase = "Creating"
      <4>1. store.phase = "Creating" /\ request[N].st = "none"
        BY Zenon, <3>4 DEF CloudInv, Creators
      <4>2. store'.phase # "Deleted"
        BY <1>0, <1>1, <3>4 DEF Intent
      <4>3. store'.phase # "Pending"
        BY Zenon, <3>3, <3>4 DEF Presend, Creator
      <4>4. store'.phase \notin {"Running", "Deleting"}
        BY ZenonT(30), <1>0, <1>1, <2>1, <4>1 DEF Intent, Final
      <4>. QED
        BY Zenon, <2>1, <4>1, <4>2, <4>3, <4>4 DEF Active
    <3>. QED
      BY ZenonT(30), <1>2, <2>1, <3>1, <3>2, <3>3, <3>4 DEF CloudInv, Creators
  <2>7. Outstanding'
    <3>. SUFFICES ASSUME NEW n \in Attempts, request[n].st = "sent", Provider[request[n].pool] # "gcp"
                  PROVE  \E d \in Controllers : pc'[d] = "await" /\ local'[d].attempts = n
      BY <1>2 DEF Outstanding
    <3>1. PICK d \in Controllers : pc[d] = "await" /\ local[d].attempts = n
      BY Zenon DEF CloudInv, Outstanding
    <3>. QED
      BY ZenonT(30), <1>0, <1>2, <1>3, <3>1
  <2>8. Intents'
    BY Zenon, <1>0, <1>2, <1>3 DEF Intents, Resumes
  <2>9. Sightings'
    <3>. SUFFICES ASSUME current'[c], pc'[c] = "exists" PROVE request[N].st \in Final
      BY ZenonT(30), <1>0, <1>2, <1>3, <2>1 DEF Sightings, Sighted, Resumes
    <3>. QED
      BY Zenon, <1>0, <1>3 DEF CloudInv, Sightings, Sighted
  <2>10. Deregistered'
    BY Zenon, <1>0, <1>2, <1>3 DEF CloudInv, Deregistered, Resumes
  <2>. QED
    BY <2>4, <2>5, <2>6, <2>7, <2>8, <2>9, <2>10 DEF CloudInv
<1>. QED
  BY Zenon, <1>4, <1>5

\* HandleJobStarted, HandleJobCompleted and Tick's retirement touch no attempt.
LEMMA CloudUpdate ==
  ASSUME CloudInv, CopyInv', NEW c \in Controllers,
         HandleJobStarted(c) \/ HandleJobCompleted(c) \/ Retire(c)
  PROVE  CloudInv'
<1>1. /\ store' = [store EXCEPT !.ready = TRUE] \/ store' = [store EXCEPT !.retire = TRUE]
      /\ current' = [d \in Controllers |-> FALSE]
      /\ UNCHANGED <<local, pc, then, request, live, registered>>
  BY DEF HandleJobStarted, HandleJobCompleted, Retire, Update, stepVars, cloudVars
<1>2. /\ store'.phase = store.phase /\ store'.attempts = store.attempts
      /\ store'.offering = store.offering /\ store'.rejected = store.rejected
      /\ store'.resourceID = store.resourceID
  BY <1>1 DEF CloudInv, CopyInv, TypeInv, TypeOK, Allocation
<1>3. Requests' /\ Record'
  BY <1>1, <1>2 DEF CloudInv, Requests, Record, Spent, Bare, Quiet
<1>4. Creators' /\ Outstanding'
  BY <1>1, <1>2 DEF CloudInv, Creators, Creator, Presend, Outstanding
<1>5. Intents' /\ Sightings' /\ Deregistered'
  BY <1>1, <1>2 DEF CloudInv, Intents, Sightings, Deregistered
<1>. QED
  BY <1>3, <1>4, <1>5 DEF CloudInv

\* Resources that go away, time that passes.
LEMMA CloudFade ==
  ASSUME CloudInv, CopyInv', live' \subseteq live,
         UNCHANGED <<store, current, local, pc, then, request, registered>>
  PROVE  CloudInv'
<1>1. Requests' /\ Record'
  BY Zenon DEF CloudInv, Requests, Record, Spent, Bare, Quiet
<1>2. Creators' /\ Outstanding' /\ Sightings' /\ Deregistered'
  BY ZenonT(30) DEF CloudInv, Creators, Creator, Presend, Outstanding, Sightings, Sighted, Deregistered
<1>3. Intents'
  BY DEF CloudInv, Intents, Intent, Creator, Presend, Spent, Bare, Quiet
<1>. QED
  BY Zenon, <1>1, <1>2, <1>3 DEF CloudInv

\* Every step of the system keeps the relation of record, requests and resources.
THEOREM CloudNext == Committed /\ CloudInv /\ [Next]_vars => CloudInv'
<1>. SUFFICES ASSUME Committed, CloudInv, [Next]_vars PROVE CloudInv'
  OBVIOUS
<1>0. CopyInv'
  BY CopyNext DEF CloudInv
<1>1. ASSUME NEW c \in Controllers, Step(c) \/ Abandon(c) PROVE CloudInv'
  BY <1>0, <1>1, CloudStep, CloudSend, CloudSave
<1>2. ASSUME NEW c \in Controllers, HandleJobStarted(c) \/ HandleJobCompleted(c) \/ Retire(c)
      PROVE  CloudInv'
  BY <1>0, <1>2, CloudUpdate
<1>3. ASSUME NEW n \in Attempts, Accept(n) PROVE CloudInv'
  BY Zenon, <1>0, <1>3, CloudDecide DEF Accept, Final, storeVars, stepVars
<1>4. ASSUME NEW n \in Attempts, Land(n) \/ Refuse(n) PROVE CloudInv'
  <2>1. PICK s \in Final :
          /\ request' = [request EXCEPT ![n].st = s]
          /\ live' \subseteq live \cup {<<n, "vm">>, <<n, "disk">>}
    BY <1>4 DEF Land, Refuse, Final
  <2>2. /\ request[n].st \in {"sent", "accepted"}
        /\ UNCHANGED <<store, current, local, pc, then, registered>>
    BY <1>4 DEF Land, Refuse, Working, storeVars, stepVars
  <2>3. s \in {"done", "refused"}
    BY DEF Final
  <2>. QED
    BY Zenon, <1>0, <2>1, <2>2, <2>3, CloudDecide
<1>5. ASSUME NEW n \in Attempts, Lose(n) PROVE CloudInv'
  <2>1. /\ request[n].st = "sent" /\ live' = live
        /\ request' = [request EXCEPT ![n].st = "lost"]
        /\ UNCHANGED <<store, current, local, pc, then, registered>>
    BY <1>5 DEF Lose, storeVars, stepVars
  <2>2. "lost" # "accepted"
    OBVIOUS
  <2>. QED
    BY Zenon, <1>0, <2>1, <2>2, CloudDecide
<1>6. (\E r \in Resources : Vanish(r)) \/ Expire \/ UNCHANGED vars => CloudInv'
  BY Zenon, <1>0, CloudFade DEF Vanish, Expire, vars, storeVars, stepVars, cloudVars
<1>. QED
  BY <1>1, <1>2, <1>3, <1>4, <1>5, <1>6 DEF Next, Cloud

\* That relation holds of every reachable state.
THEOREM CloudCorrect == ASSUME Committed PROVE Spec => []CloudInv
<1>1. CloudInv /\ [Next]_vars => CloudInv'
  BY CloudNext
<1>. QED
  BY <1>1, CloudInit, PTL DEF Spec

-----------------------------------------------------------------------------
(* The results.                                                            *)

\* Once Step has written Deleted or TimedOut, the allocation owns nothing and
\* none of its create requests can still take effect.
THEOREM NothingIsOrphaned == ASSUME Committed PROVE Spec => []NoOrphan
<1>1. CloudInv => NoOrphan
  BY DEF CloudInv, Record, NoOrphan
<1>. QED
  BY <1>1, CloudCorrect, PTL

\* Step never has two attempts of one allocation under way.
THEOREM AttemptsAreSequential == ASSUME Committed PROVE Spec => []OneAttemptAtATime
<1>1. CloudInv => OneAttemptAtATime
  <2>. SUFFICES ASSUME CloudInv PROVE OneAttemptAtATime
    OBVIOUS
  <2>1. store.attempts \in Nat /\ \A n \in Attempts : n \in Nat
    BY AttemptsAssumption DEF CloudInv, CopyInv, TypeInv, TypeOK, Allocation, Attempts
  <2>2. \A n \in Attempts : n < store.attempts => n # store.attempts
    BY SMTT(30), <2>1
  <2>3. \A n \in Attempts : n > store.attempts => request[n].st = "none"
    BY Zenon DEF CloudInv, Requests
  <2>. QED
    BY <2>2, <2>3, OnlyLatest DEF OneAttemptAtATime
<1>. QED
  BY <1>1, CloudCorrect, PTL

\* With a GitHub client in every controller, no allocation that Step has ended
\* keeps a runner registration.
THEOREM TerminalIsDeregistered ==
  ASSUME Committed, Controllers \subseteq Sessions
  PROVE  Spec => []TerminalDeregistered
<1>1. CloudInv => TerminalDeregistered
  BY Zenon DEF CloudInv, Deregistered, TerminalDeregistered
<1>. QED
  BY <1>1, CloudCorrect, PTL

\* No step writes the record and touches the clouds at once.
LEMMA StoreOrCloud ==
  ASSUME [Next]_vars
  PROVE  store' = store \/ UNCHANGED <<request, live>>
<1>1. ASSUME NEW c \in Controllers, Step(c) PROVE store' = store \/ UNCHANGED <<request, live>>
  BY Zenon, <1>1 DEF Step, StepExpire, StepNoPool, StepCommit, StepReconcile, StepRunning, StepDeleting,
     Load, Deregister, Save, Bootstrap, NoEffect, Send, CreateSucceeds, CreateRejected,
     CreateUnknown, ObserveUnknown, SaveUnknown, ObserveAbsent, ObserveExists, Exists, Delete,
     storeVars, cloudVars
<1>2. ASSUME NEW c \in Controllers,
             Abandon(c) \/ HandleJobStarted(c) \/ HandleJobCompleted(c) \/ Retire(c)
      PROVE  UNCHANGED <<request, live>>
  BY <1>2 DEF Abandon, HandleJobStarted, HandleJobCompleted, Retire, Update, cloudVars
<1>3. Cloud \/ Expire \/ UNCHANGED vars => store' = store
  BY ZenonT(30) DEF Cloud, Accept, Land, Refuse, Lose, Vanish, Expire, vars, storeVars
<1>. QED
  BY Zenon, <1>1, <1>2, <1>3 DEF Next

\* Only Send exposes an allocation that was not exposed.
LEMMA ExposedBySend ==
  ASSUME CloudInv, [Next]_vars, \A n \in Attempts : Quiet(n), \E n \in Attempts : ~Quiet(n)'
  PROVE  store.phase = "Creating"
<1>. SUFFICES ASSUME \A c \in Controllers : ~Presend(c) PROVE FALSE
  BY DEF CloudInv, Creators
<1>1. ASSUME NEW c \in Controllers, Step(c) PROVE request' = request /\ live' \subseteq live
  <2>1. ~Send(c)
    BY Zenon DEF Send, Presend
  <2>. QED
    BY Zenon, <1>1, <2>1 DEF Step, StepExpire, StepNoPool, StepCommit, StepReconcile, StepRunning,
       StepDeleting, Load, Deregister, Save, Bootstrap, NoEffect, CreateSucceeds, CreateRejected,
       CreateUnknown, ObserveUnknown, SaveUnknown, ObserveAbsent, ObserveExists, Exists, Delete,
       cloudVars
<1>2. ASSUME NEW c \in Controllers,
             Abandon(c) \/ HandleJobStarted(c) \/ HandleJobCompleted(c) \/ Retire(c)
      PROVE  request' = request /\ live' = live
  BY <1>2 DEF Abandon, HandleJobStarted, HandleJobCompleted, Retire, Update, cloudVars
<1>3. \A n \in Attempts : ~(Accept(n) \/ Land(n) \/ Refuse(n) \/ Lose(n))
  BY DEF Quiet, Accept, Land, Refuse, Lose, Working
<1>4. (\E r \in Resources : Vanish(r)) \/ Expire \/ UNCHANGED vars =>
         request' = request /\ live' \subseteq live
  BY Zenon DEF Vanish, Expire, vars, cloudVars
<1>5. request' = request /\ live' \subseteq live
  BY <1>1, <1>2, <1>3, <1>4 DEF Next, Cloud
<1>. QED
  BY <1>5 DEF Quiet

\* Step, the store, the clouds and the other writers together implement
\* AllocationContract.
THEOREM ContractIsKept == ASSUME Committed PROVE Spec => KeepsContract
<1>. DEFINE exposed == \E n \in Attempts : ~Quiet(n)
<1>1. Init => Contract!CInit
  <2>. SUFFICES ASSUME Init PROVE Contract!CInit
    OBVIOUS
  <2>1. store.phase = "Pending"
    BY DEF Init, NewAllocation
  <2>2. ~exposed
    BY DEF Init, Quiet
  <2>. QED
    BY <2>1, <2>2 DEF Contract!CInit
<1>2. CloudInv /\ CloudInv' /\ [Next]_vars => [Contract!CNext]_(Contract!cvars)
  <2>. SUFFICES ASSUME CloudInv, CloudInv', [Next]_vars
                PROVE  [Contract!CNext]_(Contract!cvars)
    OBVIOUS
  <2>1. CASE store' = store
    <3>1. CASE exposed' = exposed
      BY <2>1, <3>1 DEF Contract!cvars
    <3>2. CASE ~exposed'
      BY <2>1, <3>2 DEF Contract!CNext, Contract!Fade
    <3>3. CASE exposed' /\ ~exposed
      <4>1. store.phase = "Creating"
        BY <3>3, ExposedBySend
      <4>. QED
        BY <2>1, <3>3, <4>1 DEF Contract!CNext, Contract!Expose
    <3>. QED
      BY <3>1, <3>2, <3>3
  <2>2. CASE UNCHANGED <<request, live>> /\ store' # store
    <3>1. exposed' = exposed
      BY <2>2 DEF Quiet
    <3>2. store'.phase \in {"Pending", "Deleted", "TimedOut"} => ~exposed
      <4>1. store'.phase \in Terminal => ~exposed'
        BY DEF CloudInv, Record
      <4>2. store'.phase = "Pending" => ~exposed'
        <5>1. (CloudInv => (store.phase = "Pending" => ~exposed))'
          BY PendingIsQuiet, PTL
        <5>. QED
          BY <5>1
      <4>. QED
        BY Zenon, <3>1, <4>1, <4>2 DEF Terminal
    <3>3. CASE store'.phase = store.phase
      BY ZenonT(30), <3>1, <3>3 DEF Contract!cvars
    <3>4. CASE store'.phase # store.phase
      <4>1. PICK label \in Resumes : MayFollow(store.phase, store'.phase, label)
        <5>1. store \in Allocation
          BY DEF CloudInv, CopyInv, TypeInv, TypeOK
        <5>2. ~(store' = [store EXCEPT !.ready = TRUE] \/ store' = [store EXCEPT !.retire = TRUE])
          BY <3>4, <5>1 DEF Allocation
        <5>. QED
          BY Zenon, <2>2, <5>2, StoreStep DEF CloudInv, Successor
      <4>. QED
        BY <3>1, <3>2, <3>4, <4>1
           DEF MayFollow, Contract!CNext, Contract!Begin, Contract!Withdraw, Contract!Confirm,
               Contract!Condemn, Contract!Close, Contract!GiveUp
    <3>. QED
      BY <3>3, <3>4
  <2>. QED
    BY <2>1, <2>2, StoreOrCloud
<1>. QED
  BY <1>1, <1>2, CloudCorrect, PTL DEF Spec, KeepsContract, Contract!CSpec
=============================================================================
