-------------------------- MODULE LifecycleProofs --------------------------
(***************************************************************************)
(* Proofs about Lifecycle, for every number of controllers, pools and      *)
(* attempts, in two layers (the third is LifecycleCloudProofs):            *)
(*   TypeInv   types;                                                      *)
(*   CopyInv   what a Step's copy says about the record it will replace;   *)
(*             this is all the compare-and-swap gives, whatever the clouds *)
(*             do, and it suffices for NothingForgotten and                *)
(*             NoStaleDecision.                                            *)
(***************************************************************************)
EXTENDS Lifecycle, TLAPS

Presend(c) == pc[c] \in {"create", "prepared"}
Creator(c) == pc[c] \in {"create", "prepared", "await"}

-----------------------------------------------------------------------------
(* Layer 1.                                                                *)

\* A controller that is about to create has a pool and an attempt number.
CreatorTyped ==
    \A c \in Controllers :
        Creator(c) \/ (pc[c] = "save" /\ then[c] = "create") =>
            local[c].attempts \in Attempts /\ local[c].offering \in Pools

TypeInv == TypeOK /\ CreatorTyped

\* The record Tick creates, and idle controllers, are well typed.
THEOREM TypeInit == Init => TypeInv
<1>. SUFFICES ASSUME Init PROVE TypeInv
  OBVIOUS
<1>. USE DEF Init, NewAllocation, Allocation, Phases, Terminal, Labels, Resumes, States
<1>1. NewAllocation \in Allocation
  BY AttemptsAssumption
<1>2. TypeOK
  BY Zenon, <1>1 DEF TypeOK
<1>3. CreatorTyped
  BY DEF CreatorTyped, Creator
<1>. QED
  BY <1>2, <1>3 DEF TypeInv

\* Edits of an Allocation that Step and its neighbours make stay Allocations.
LEMMA Edits ==
  ASSUME NEW a \in Allocation
  PROVE  /\ \A q \in Phases : [a EXCEPT !.phase = q] \in Allocation
         /\ \A q \in Phases, p \in Pools, n \in 0..MaxAttempts :
               [a EXCEPT !.phase = q, !.offering = p, !.attempts = n] \in Allocation
         /\ \A q \in Phases, R \in SUBSET Pools :
               [a EXCEPT !.phase = q, !.rejected = R] \in Allocation
         /\ \A q \in Phases, n \in 0..MaxAttempts, rs \in SUBSET Resources :
               [a EXCEPT !.phase = q, !.resourceID = n, !.resources = rs] \in Allocation
         /\ \A n \in 0..MaxAttempts, rs \in SUBSET Resources :
               [a EXCEPT !.resourceID = n, !.resources = rs] \in Allocation
         /\ \A rs \in SUBSET Resources : [a EXCEPT !.resources = rs] \in Allocation
         /\ \A q \in Phases, i \in BOOLEAN :
               [a EXCEPT !.phase = q, !.interrupted = i] \in Allocation
         /\ \A q \in Phases, n \in 0..MaxAttempts :
               [a EXCEPT !.resourceID = n, !.phase = q] \in Allocation
         /\ [a EXCEPT !.ready = TRUE] \in Allocation
         /\ [a EXCEPT !.retire = TRUE] \in Allocation
BY Zenon DEF Allocation

\* A step of c that only moves c, to label l with copy b, keeps the types.
LEMMA TypeMove ==
  ASSUME TypeInv,
         NEW c \in Controllers, NEW b \in Allocation, NEW l \in Labels, NEW m \in Resumes,
         l \in {"create", "prepared", "await"} \/ (l = "save" /\ m = "create") =>
             b.attempts \in Attempts /\ b.offering \in Pools,
         local' = [local EXCEPT ![c] = b],
         pc' = [pc EXCEPT ![c] = l],
         then' = [then EXCEPT ![c] = m]
  PROVE  /\ local' \in [Controllers -> Allocation]
         /\ pc' \in [Controllers -> Labels]
         /\ then' \in [Controllers -> Resumes]
         /\ CreatorTyped'
BY DEF TypeInv, TypeOK, CreatorTyped, Creator

\* Every call of Step, every handler and every cloud event keeps the types.
THEOREM TypeNext == TypeInv /\ [Next]_vars => TypeInv'
<1>. SUFFICES ASSUME TypeInv, [Next]_vars PROVE TypeInv'
  OBVIOUS
<1>. USE AttemptsAssumption
<1>0. /\ NewAllocation \in Allocation
      /\ {"Pending", "Creating", "Running", "Deleting", "Deleted", "TimedOut"} \subseteq Phases
      /\ Attempts \subseteq 0..MaxAttempts
  BY DEF NewAllocation, Allocation, Phases, Terminal, Attempts
<1>1. CASE UNCHANGED vars
  BY Zenon, <1>1 DEF TypeInv, TypeOK, CreatorTyped, Creator, vars, storeVars, stepVars, cloudVars
<1>2. ASSUME NEW c \in Controllers, Step(c) PROVE TypeInv'
  <2>. DEFINE Moved(b, l, m) ==
                /\ local' = [local EXCEPT ![c] = b]
                /\ pc' = [pc EXCEPT ![c] = l]
                /\ then' = [then EXCEPT ![c] = m]
              Rest ==
                /\ store' \in Allocation
                /\ current' \in [Controllers -> BOOLEAN]
                /\ late' \in [Controllers -> BOOLEAN]
                /\ expired' \in BOOLEAN
                /\ request' \in [Attempts -> [st: States, pool: Pools \cup {NoPool}]]
                /\ live' \subseteq Resources
                /\ stray' \subseteq Attempts
                /\ registered' \in BOOLEAN
  <2>0. ASSUME NEW b \in Allocation, NEW l \in Labels, NEW m \in Resumes,
               l \in {"create", "prepared", "await"} \/ (l = "save" /\ m = "create") =>
                  b.attempts \in Attempts /\ b.offering \in Pools,
               Moved(b, l, m), Rest
        PROVE  TypeInv'
    BY Zenon, <2>0, TypeMove DEF TypeInv, TypeOK
  <2>. USE DEF Goto, SaveThen, SetLocal, Return, storeVars, cloudVars, TypeInv, TypeOK
  <2>1. CASE StepExpire(c)
    <3>. DEFINE b == [store EXCEPT !.phase = "TimedOut"]
    <3>1. b \in Allocation
      BY Zenon, <1>0, Edits
    <3>2. Moved(b, "deregister", "idle") /\ Rest
      BY Zenon, <2>1 DEF StepExpire, Load
    <3>. QED
      BY Zenon, <3>1, <3>2, <2>0 DEF Labels, Resumes
  <2>2. CASE StepNoPool(c)
    <3>2. Moved(store, "save", "idle") /\ Rest
      BY Zenon, <2>2 DEF StepNoPool, Load
    <3>. QED
      BY Zenon, <3>2, <2>0 DEF Labels, Resumes
  <2>3. ASSUME NEW p \in Pools, StepCommit(c, p) PROVE TypeInv'
    <3>. DEFINE b == [store EXCEPT !.phase = "Creating", !.offering = p, !.attempts = @ + 1]
    <3>1. store.attempts + 1 \in Attempts
      BY SMTT(30), <2>3 DEF StepCommit, Attempts, Allocation
    <3>2. b \in Allocation
      BY Zenon, <1>0, <3>1, Edits
    <3>3. b.attempts \in Attempts /\ b.offering \in Pools
      BY <3>1 DEF Allocation
    <3>4. Moved(b, "save", "create") /\ Rest
      BY Zenon, <2>3 DEF StepCommit, Load
    <3>. QED
      BY Zenon, <3>2, <3>3, <3>4, <2>0 DEF Labels, Resumes
  <2>4. CASE StepReconcile(c)
    <3>1. Moved(store, "save", "reconcile") /\ Rest
      BY Zenon, <2>4 DEF StepReconcile, Load
    <3>. QED
      BY Zenon, <3>1, <2>0 DEF Labels, Resumes
  <2>5. CASE StepRunning(c)
    <3>. DEFINE b == [store EXCEPT !.phase = "Deleting"]
    <3>1. b \in Allocation
      BY Zenon, <1>0, Edits
    <3>2. (Moved(b, "save", "idle") \/ Moved(store, "observe", "idle")) /\ Rest
      BY Zenon, <2>5 DEF StepRunning, Load
    <3>. QED
      BY ZenonT(30), <3>1, <3>2, <2>0 DEF Labels, Resumes
  <2>6. CASE StepDeleting(c)
    <3>1. Moved(store, "observe", "idle") /\ Rest
      BY <2>6 DEF StepDeleting, Load
    <3>. QED
      BY Zenon, <3>1, <2>0 DEF Labels, Resumes
  <2>7. CASE Deregister(c)
    <3>1. Moved(local[c], "save", "idle") /\ Rest
      BY <2>7 DEF Deregister
    <3>. QED
      BY Zenon, <3>1, <2>0 DEF Labels, Resumes
  <2>8. CASE Save(c)
    <3>1. Rest
      BY Zenon, <2>8 DEF Save
    <3>2. CASE then[c] = "idle"
      <4>1. Moved(NewAllocation, "idle", "idle")
        BY <2>8, <3>2 DEF Save
      <4>. QED
        BY Zenon, <3>1, <4>1, <1>0, <2>0 DEF Labels, Resumes
    <3>3. CASE then[c] # "idle"
      <4>1. Moved(local[c], then[c], "idle")
        BY <2>8, <3>3 DEF Save
      <4>2. then[c] \in Resumes
        OBVIOUS
      <4>3. then[c] = "create" => local[c].attempts \in Attempts /\ local[c].offering \in Pools
        BY <2>8 DEF Save, CreatorTyped
      <4>4. then[c] \in {"create", "reconcile", "exists", "unknown"}
        BY Zenon, <3>3, <4>2 DEF Resumes
      <4>. QED
        BY Zenon, <3>1, <4>1, <4>3, <4>4, <2>0 DEF Labels, Resumes
    <3>. QED
      BY <3>2, <3>3
  <2>9. CASE Bootstrap(c)
    <3>1. Moved(local[c], "prepared", "idle") /\ Rest
      BY <2>9 DEF Bootstrap
    <3>2. local[c].attempts \in Attempts /\ local[c].offering \in Pools
      BY Zenon, <2>9 DEF Bootstrap, CreatorTyped, Creator
    <3>. QED
      BY Zenon, <3>1, <3>2, <2>0 DEF Labels, Resumes
  <2>10. CASE NoEffect(c)
    <3>. DEFINE b == [local[c] EXCEPT !.phase = "Pending"]
    <3>1. b \in Allocation
      BY Zenon, <1>0, Edits
    <3>2. Moved(b, "save", "idle") /\ Rest
      BY Zenon, <2>10 DEF NoEffect
    <3>. QED
      BY ZenonT(30), <3>1, <3>2, <2>0 DEF Labels, Resumes
  <2>11. CASE Send(c)
    <3>1. local[c].attempts \in Attempts /\ local[c].offering \in Pools
      BY <2>11 DEF Send, CreatorTyped, Creator
    <3>2. Moved(local[c], "await", "idle") /\ Rest
      BY <2>11, <3>1 DEF Send, States
    <3>. QED
      BY Zenon, <3>1, <3>2, <2>0 DEF Labels, Resumes
  <2>12. CASE CreateSucceeds(c)
    <3>. DEFINE n == local[c].attempts
                rs == Reported(Kind(local[c]), {<<n, "vm">>, <<n, "disk">>})
                b == [local[c] EXCEPT !.phase = "Running", !.resourceID = n, !.resources = @ \cup rs]
    <3>1. n \in Attempts
      BY <2>12 DEF CreateSucceeds, CreatorTyped, Creator
    <3>2. local[c].resources \cup rs \subseteq Resources
      BY SMTT(30), <3>1 DEF Reported, Resources, Allocation
    <3>3. b \in Allocation
      BY Zenon, <1>0, <3>1, <3>2, Edits
    <3>4. Moved(b, "save", "idle") /\ Rest
      BY <2>12 DEF CreateSucceeds
    <3>. QED
      BY Zenon, <3>3, <3>4, <2>0 DEF Labels, Resumes
  <2>13. CASE CreateRejected(c)
    <3>. DEFINE b == [local[c] EXCEPT !.phase = "Pending", !.rejected = @ \cup {local[c].offering}]
    <3>1. local[c].rejected \cup {local[c].offering} \in SUBSET Pools
      BY Zenon, <2>13 DEF CreateRejected, CreatorTyped, Creator, Allocation
    <3>2. b \in Allocation
      BY Zenon, <1>0, <3>1, Edits
    <3>3. Moved(b, "save", "idle") /\ Rest
      BY Zenon, <2>13 DEF CreateRejected
    <3>. QED
      BY Zenon, <3>2, <3>3, <2>0 DEF Labels, Resumes
  <2>14. CASE CreateUnknown(c)
    <3>. DEFINE n == local[c].attempts
                all == Reported(Kind(local[c]), {<<n, "vm">>, <<n, "disk">>})
                b(rs) == [local[c] EXCEPT !.resourceID = n, !.resources = @ \cup rs]
    <3>1. n \in Attempts
      BY Zenon, <2>14 DEF CreateUnknown, CreatorTyped, Creator
    <3>2. \A rs \in SUBSET all : local[c].resources \cup rs \in SUBSET Resources
      BY SMTT(30), <3>1 DEF Reported, Resources, Allocation
    <3>3. \A rs \in SUBSET all : b(rs) \in Allocation
      BY ZenonT(30), <1>0, <3>1, <3>2, Edits
    <3>4. /\ Rest
          /\ \/ Moved(local[c], "save", "idle")
             \/ \E rs \in SUBSET all : Moved(b(rs), "save", "idle")
      BY Zenon, <2>14 DEF CreateUnknown
    <3>. QED
      BY ZenonT(30), <3>3, <3>4, <2>0 DEF Labels, Resumes
  <2>15. CASE ObserveUnknown(c)
    <3>. DEFINE b == [local[c] EXCEPT !.resources = @ \cup Visible(local[c])]
    <3>1. local[c].resources \cup Visible(local[c]) \in SUBSET Resources
      BY Zenon DEF Visible, Allocation
    <3>2. b \in Allocation
      BY Zenon, <3>1, Edits
    <3>3. (Moved(local[c], "save", "idle") \/ Moved(b, "save", "unknown")) /\ Rest
      BY <2>15 DEF ObserveUnknown
    <3>. QED
      BY Zenon, <3>2, <3>3, <2>0 DEF Labels, Resumes
  <2>16. CASE SaveUnknown(c)
    <3>1. Moved(local[c], "save", "idle") /\ Rest
      BY Zenon, <2>16 DEF SaveUnknown
    <3>. QED
      BY Zenon, <3>1, <2>0 DEF Labels, Resumes
  <2>17. CASE ObserveAbsent(c)
    <3>. DEFINE b(i) == [local[c] EXCEPT !.phase = "Deleted", !.interrupted = i]
    <3>1. \A i \in BOOLEAN : b(i) \in Allocation
      BY ZenonT(30), <1>0, Edits
    <3>2. (\E i \in BOOLEAN : Moved(b(i), "deregister", "idle")) /\ Rest
      BY Zenon, <2>17 DEF ObserveAbsent
    <3>. QED
      BY ZenonT(30), <3>1, <3>2, <2>0 DEF Labels, Resumes
  <2>18. CASE ObserveExists(c)
    <3>. DEFINE found == Reported(Kind(local[c]), Visible(local[c]))
                b == [local[c] EXCEPT !.resources = @ \cup found]
    <3>1. local[c].resources \cup found \in SUBSET Resources
      BY Zenon DEF Visible, Reported, Allocation
    <3>2. b \in Allocation
      BY Zenon, <3>1, Edits
    <3>3. (Moved(local[c], "exists", "idle") \/ Moved(b, "save", "exists")) /\ Rest
      BY Zenon, <2>18 DEF ObserveExists
    <3>. QED
      BY Zenon, <3>2, <3>3, <2>0 DEF Labels, Resumes
  <2>19. CASE Exists(c)
    <3>. DEFINE b(q) == [local[c] EXCEPT !.resourceID = local[c].attempts, !.phase = q]
    <3>0. local[c].attempts \in 0..MaxAttempts
      BY Zenon DEF Allocation
    <3>1. \A q \in {"Deleting", "Running"} : b(q) \in Allocation
      BY Zenon, <1>0, <3>0, Edits
    <3>2. /\ Rest
          /\ \/ \E q \in {"Deleting", "Running"} : Moved(b(q), "save", "idle")
             \/ Moved(NewAllocation, "idle", "idle")
             \/ Moved(local[c], "delete", "idle")
      BY Zenon, <2>19 DEF Exists
    <3>. QED
      BY Zenon, <3>1, <3>2, <1>0, <2>0 DEF Labels, Resumes
  <2>20. CASE Delete(c)
    <3>1. /\ Rest
          /\ Moved(NewAllocation, "idle", "idle") \/ Moved(local[c], "save", "idle")
      BY ZenonT(30), <2>20 DEF Delete
    <3>. QED
      BY Zenon, <3>1, <1>0, <2>0 DEF Labels, Resumes
  <2>. QED
    BY Zenon, <1>2, <2>1, <2>2, <2>3, <2>4, <2>5, <2>6, <2>7, <2>8, <2>9, <2>10, <2>11, <2>12,
       <2>13, <2>14, <2>15, <2>16, <2>17, <2>18, <2>19, <2>20 DEF Step
<1>3. ASSUME NEW c \in Controllers, Abandon(c) PROVE TypeInv'
  BY Zenon, <1>3, <1>0, TypeMove
     DEF TypeInv, TypeOK, Abandon, Return, Goto, SetLocal, cloudVars, Labels, Resumes
<1>4. ASSUME NEW c \in Controllers, HandleJobStarted(c) \/ HandleJobCompleted(c) \/ Retire(c)
      PROVE TypeInv'
  <2>1. store' \in Allocation
    BY Zenon, <1>4, Edits DEF TypeInv, TypeOK, HandleJobStarted, HandleJobCompleted, Retire, Update
  <2>2. /\ UNCHANGED <<local, late, pc, then, expired, request, live, stray, registered>>
        /\ current' = [d \in Controllers |-> FALSE]
    BY <1>4 DEF HandleJobStarted, HandleJobCompleted, Retire, Update, stepVars, cloudVars
  <2>. QED
    BY <2>1, <2>2 DEF TypeInv, TypeOK, CreatorTyped, Creator
<1>5. CASE Cloud
  <2>1. UNCHANGED <<storeVars, stepVars, expired, registered>>
    BY Zenon, <1>5 DEF Cloud, Accept, Land, Refuse, Lose, Vanish
  <2>2. /\ request' \in [Attempts -> [st: States, pool: Pools \cup {NoPool}]]
        /\ live' \subseteq Resources /\ stray' \subseteq Attempts
    <3>1. ASSUME NEW n \in Attempts, NEW s \in States, request' = [request EXCEPT ![n].st = s]
          PROVE  request' \in [Attempts -> [st: States, pool: Pools \cup {NoPool}]]
      BY <3>1 DEF TypeInv, TypeOK
    <3>2. ASSUME NEW n \in Attempts, Accept(n) \/ Land(n) \/ Refuse(n) \/ Lose(n)
          PROVE  /\ \E s \in States : request' = [request EXCEPT ![n].st = s]
                 /\ live' \subseteq live \cup {<<n, "vm">>, <<n, "disk">>}
                 /\ stray' \subseteq stray \cup {n}
      BY <3>2 DEF Accept, Land, Refuse, Lose, States
    <3>3. ASSUME NEW n \in Attempts PROVE {<<n, "vm">>, <<n, "disk">>} \subseteq Resources
      BY DEF Resources
    <3>4. ASSUME NEW r \in Resources, Vanish(r)
          PROVE  request' = request /\ live' \subseteq live /\ stray' \subseteq stray \cup {r[1]}
      BY <3>4 DEF Vanish
    <3>5. \A r \in Resources : r[1] \in Attempts
      BY DEF Resources
    <3>6. stray \subseteq Attempts /\ live \subseteq Resources
      BY DEF TypeInv, TypeOK
    <3>7. CASE \E n \in Attempts : Accept(n) \/ Land(n) \/ Refuse(n) \/ Lose(n)
      <4>1. PICK n \in Attempts : Accept(n) \/ Land(n) \/ Refuse(n) \/ Lose(n)
        BY Zenon, <3>7
      <4>2. request' \in [Attempts -> [st: States, pool: Pools \cup {NoPool}]]
        BY Zenon, <4>1, <3>1, <3>2
      <4>3. live' \subseteq live \cup {<<n, "vm">>, <<n, "disk">>} /\ stray' \subseteq stray \cup {n}
        BY Zenon, <4>1, <3>2
      <4>. QED
        BY <4>2, <4>3, <3>3, <3>6
    <3>8. CASE \E r \in Resources : Vanish(r)
      BY Zenon, <3>8, <3>4, <3>5, <3>6 DEF TypeInv, TypeOK
    <3>. QED
      BY Zenon, <1>5, <3>7, <3>8 DEF Cloud
  <2>. QED
    BY <2>1, <2>2 DEF TypeInv, TypeOK, CreatorTyped, Creator, storeVars, stepVars
<1>6. CASE Expire
  BY <1>6 DEF TypeInv, TypeOK, CreatorTyped, Creator, Expire, storeVars, stepVars, cloudVars
<1>. QED
  BY <1>1, <1>2, <1>3, <1>4, <1>5, <1>6 DEF Next

\* Every variable keeps its type, for any constants.
THEOREM TypeCorrect == Spec => []TypeOK
<1>1. TypeInv => TypeOK
  BY DEF TypeInv
<1>. QED
  BY <1>1, TypeInit, TypeNext, PTL DEF Spec

-----------------------------------------------------------------------------
(* Layer 2.                                                                *)

\* Labels at which Step holds an unmodified copy of what it read or wrote.
Holding == {"create", "prepared", "await", "reconcile", "observe",
            "exists", "unknown", "delete"}

\* The phases that a Step may lead from one to the other.
MayFollow(p, q, label) ==
    \/ label = "create" /\ p = "Pending" /\ q = "Creating"
    \/ label \in {"reconcile", "unknown"} /\ p = "Creating" /\ q = "Creating"
    \/ label = "exists" /\ p = q /\ q \in {"Creating", "Running", "Deleting"}
    \/ /\ label = "idle"
       /\ \/ p = q /\ q \in {"Pending", "Creating", "Running", "Deleting"}
          \/ p = "Pending" /\ q = "TimedOut"
          \/ p = "Creating" /\ q \in {"Pending", "Running", "Deleting", "Deleted"}
          \/ p = "Running" /\ q \in {"Deleting", "Deleted"}
          \/ p = "Deleting" /\ q = "Deleted"

\* What a Save at the current revision may turn record a into.
Successor(a, b, label) ==
    /\ MayFollow(a.phase, b.phase, label)
    /\ b.ready = a.ready /\ b.retire = a.retire
    /\ a.resources \subseteq b.resources
    /\ a.rejected \subseteq b.rejected
    /\ a.resourceID # 0 => b.resourceID = a.resourceID
    /\ b.resourceID \in {0, b.attempts}
    /\ IF label = "create"
       THEN /\ b.attempts = a.attempts + 1
            /\ b.resourceID = 0
            /\ b.offering \in Pools \ a.rejected
            /\ b.rejected = a.rejected
            /\ ~a.retire
       ELSE /\ b.attempts = a.attempts
            /\ b.offering = a.offering
    /\ b.phase \in {"Creating", "Running", "Deleting"} => b.rejected = a.rejected
    /\ label # "idle" => b.resourceID = a.resourceID
    /\ a.phase = "Running" /\ b.phase = "Deleting" => a.retire \/ ~a.ready
    /\ b.interrupted /\ ~a.interrupted => a.phase = "Running" /\ ~a.retire

\* What StepRunning and StepDeleting observe.
Observable == store.phase = "Deleting" \/ (store.phase = "Running" /\ ~store.retire)

CopyOf(c) ==
    /\ pc[c] # "idle"
    /\ pc[c] \in Holding => local[c] = store
    /\ pc[c] \in {"create", "prepared", "await", "reconcile", "unknown"} => store.phase = "Creating"
    /\ pc[c] = "observe" => Observable
    /\ pc[c] = "delete" => store.phase = "Deleting"
    /\ pc[c] = "deregister" =>
          Successor(store, local[c], "idle") /\ local[c].phase \in Terminal
    /\ pc[c] = "save" => Successor(store, local[c], then[c])

CopyInv ==
    /\ TypeInv
    /\ store.resourceID \in {0, store.attempts}
    /\ \A c \in Controllers : current[c] => CopyOf(c)


\* No controller holds a copy of the record before its first Step.
THEOREM CopyInit == Init => CopyInv
<1>. SUFFICES ASSUME Init PROVE CopyInv
  OBVIOUS
<1>1. TypeInv
  BY TypeInit
<1>. QED
  BY <1>1 DEF CopyInv, Init, NewAllocation

\* Steps of c that leave the record alone: only c's own copy has to be looked at.
LEMMA CopyStep ==
  ASSUME CopyInv, TypeInv', NEW c \in Controllers, Step(c), ~Save(c)
  PROVE  CopyInv'
<1>. USE DEF CopyInv
<1>. DEFINE Frame ==
              /\ store' = store
              /\ \A d \in Controllers \ {c} : /\ current'[d] = current[d]
                                              /\ local'[d] = local[d]
                                              /\ pc'[d] = pc[d]
                                              /\ then'[d] = then[d]
            Has(b, l, m) == local'[c] = b /\ pc'[c] = l /\ then'[c] = m
            Kept == current'[c] => current[c]
<1>0. ASSUME Frame, current'[c] => CopyOf(c)' PROVE CopyInv'
  BY ZenonT(30), <1>0 DEF CopyOf, Observable
<1>1. ASSUME NEW b, NEW m, Has(b, "save", m), store' = store, Successor(store, b, m)
      PROVE  CopyOf(c)'
  BY <1>1 DEF CopyOf, Holding
<1>2. ASSUME NEW b, Has(b, "deregister", "idle"), store' = store,
             Successor(store, b, "idle"), b.phase \in Terminal
      PROVE  CopyOf(c)'
  BY <1>2 DEF CopyOf, Holding
<1>3. ASSUME NEW l, Has(store, l, "idle"), store' = store,
             \/ l \in {"prepared", "await"} /\ store.phase = "Creating"
             \/ l = "observe" /\ Observable
             \/ l = "delete" /\ store.phase = "Deleting"
             \/ l = "exists"
      PROVE  CopyOf(c)'
  BY <1>3 DEF CopyOf, Holding, Observable
<1>4. store \in Allocation /\ local[c] \in Allocation
  BY Zenon DEF TypeInv, TypeOK
<1>5. ASSUME store.phase \in {"Pending", "Creating", "Running", "Deleting"}
      PROVE  Successor(store, store, "idle")
  BY <1>4, <1>5 DEF Successor, MayFollow
<1>. USE DEF TypeInv, TypeOK, Goto, SaveThen, SetLocal, Return
<1>6. CASE StepExpire(c)
  <2>. DEFINE b == [store EXCEPT !.phase = "TimedOut"]
  <2>1. Frame /\ Has(b, "deregister", "idle")
    BY <1>6 DEF StepExpire, Load
  <2>2. Successor(store, b, "idle") /\ b.phase \in Terminal
    BY <1>6, <1>4 DEF StepExpire, Allocation, Successor, MayFollow, Terminal
  <2>. QED
    BY ZenonT(30), <2>1, <2>2, <1>0, <1>2
<1>7. CASE StepNoPool(c)
  <2>1. Frame /\ Has(store, "save", "idle")
    BY <1>7 DEF StepNoPool, Load
  <2>. QED
    BY Zenon, <1>7, <2>1, <1>0, <1>1, <1>5 DEF StepNoPool
<1>8. ASSUME NEW p \in Pools, StepCommit(c, p) PROVE CopyInv'
  <2>. DEFINE b == [store EXCEPT !.phase = "Creating", !.offering = p, !.attempts = @ + 1]
  <2>1. Frame /\ Has(b, "save", "create")
    BY <1>8 DEF StepCommit, Load
  <2>2. Successor(store, b, "create")
    BY <1>8, <1>4 DEF StepCommit, Allocation, Successor, MayFollow
  <2>. QED
    BY <2>1, <2>2, <1>0, <1>1
<1>9. CASE StepReconcile(c)
  <2>1. Frame /\ Has(store, "save", "reconcile")
    BY ZenonT(30), <1>9 DEF StepReconcile, Load
  <2>2. Successor(store, store, "reconcile")
    BY <1>9, <1>4 DEF StepReconcile, Successor, MayFollow
  <2>. QED
    BY Zenon, <2>1, <2>2, <1>0, <1>1
<1>10. CASE StepRunning(c)
  <2>. DEFINE b == [store EXCEPT !.phase = "Deleting"]
  <2>1. CASE store.retire \/ (expired /\ ~store.ready)
    <3>1. Frame /\ Has(b, "save", "idle")
      BY <1>10, <2>1 DEF StepRunning, Load
    <3>2. Successor(store, b, "idle")
      BY <1>10, <2>1, <1>4 DEF StepRunning, Allocation, Successor, MayFollow
    <3>. QED
      BY <3>1, <3>2, <1>0, <1>1
  <2>2. CASE ~(store.retire \/ (expired /\ ~store.ready))
    <3>1. Frame /\ Has(store, "observe", "idle") /\ Observable
      BY <1>10, <2>2 DEF StepRunning, Load, Observable
    <3>. QED
      BY <3>1, <1>0, <1>3
  <2>. QED
    BY <2>1, <2>2
<1>11. CASE StepDeleting(c)
  <2>1. Frame /\ Has(store, "observe", "idle") /\ Observable
    BY ZenonT(30), <1>11 DEF StepDeleting, Load, Observable
  <2>. QED
    BY Zenon, <2>1, <1>0, <1>3
<1>12. CASE Deregister(c)
  <2>1. Frame /\ Kept /\ Has(local[c], "save", "idle") /\ pc[c] = "deregister"
    BY <1>12 DEF Deregister, storeVars
  <2>. QED
    BY Zenon, <2>1, <1>0, <1>1 DEF CopyOf
<1>. DEFINE Holds == current[c] => local[c] = store /\ store.phase = "Creating"
<1>13. CASE Bootstrap(c)
  <2>1. Frame /\ Kept /\ Has(local[c], "prepared", "idle") /\ Holds
    BY <1>13 DEF Bootstrap, storeVars, CopyOf, Holding
  <2>. QED
    BY Zenon, <2>1, <1>0, <1>3
<1>14. CASE NoEffect(c)
  <2>. DEFINE b == [local[c] EXCEPT !.phase = "Pending"]
  <2>1. Frame /\ Kept /\ Has(b, "save", "idle") /\ Holds
    BY <1>14 DEF NoEffect, storeVars, CopyOf, Holding
  <2>2. Holds /\ current[c] => Successor(store, b, "idle")
    BY <1>4 DEF Allocation, Successor, MayFollow
  <2>. QED
    BY <2>1, <2>2, <1>0, <1>1
<1>15. CASE Send(c)
  <2>1. Frame /\ Kept /\ Has(local[c], "await", "idle") /\ Holds
    BY <1>15 DEF Send, storeVars, CopyOf, Holding
  <2>. QED
    BY Zenon, <2>1, <1>0, <1>3
<1>16. CASE CreateSucceeds(c)
  <2>. DEFINE rs == Reported(Kind(local[c]), {<<local[c].attempts, "vm">>, <<local[c].attempts, "disk">>})
              b == [local[c] EXCEPT !.phase = "Running", !.resourceID = local[c].attempts,
                                    !.resources = @ \cup rs]
  <2>1. Frame /\ Kept /\ Has(b, "save", "idle") /\ Holds
    BY <1>16 DEF CreateSucceeds, storeVars, CopyOf, Holding
  <2>2. Holds /\ current[c] => Successor(store, b, "idle")
    BY <1>4 DEF Allocation, Successor, MayFollow
  <2>. QED
    BY <2>1, <2>2, <1>0, <1>1
<1>17. CASE CreateRejected(c)
  <2>. DEFINE b == [local[c] EXCEPT !.phase = "Pending", !.rejected = @ \cup {local[c].offering}]
  <2>1. Frame /\ Kept /\ Has(b, "save", "idle") /\ Holds
    BY <1>17 DEF CreateRejected, storeVars, CopyOf, Holding
  <2>2. Holds /\ current[c] => Successor(store, b, "idle")
    BY Zenon, <1>4 DEF Allocation, Successor, MayFollow
  <2>. QED
    BY <2>1, <2>2, <1>0, <1>1
<1>18. CASE CreateUnknown(c)
  <2>. DEFINE n == local[c].attempts
              all == Reported(Kind(local[c]), {<<n, "vm">>, <<n, "disk">>})
              b(rs) == [local[c] EXCEPT !.resourceID = n, !.resources = @ \cup rs]
  <2>1. /\ Frame /\ Kept /\ Holds
        /\ pc'[c] = "save" /\ then'[c] = "idle"
        /\ local'[c] = local[c] \/ \E rs \in SUBSET all : local'[c] = b(rs)
    <3>1. SetLocal(c, local[c]) \/ \E rs \in SUBSET all : SetLocal(c, b(rs))
      BY ZenonT(30), <1>18 DEF CreateUnknown
    <3>2. Frame /\ (local'[c] = local[c] \/ \E rs \in SUBSET all : local'[c] = b(rs))
      BY ZenonT(30), <1>18, <3>1 DEF CreateUnknown, storeVars
    <3>. QED
      BY ZenonT(30), <1>18, <3>2 DEF CreateUnknown, storeVars, CopyOf, Holding
  <2>2. Holds /\ current[c] => \A rs \in SUBSET all : Successor(store, b(rs), "idle")
    BY <1>4 DEF Allocation, Successor, MayFollow
  <2>. QED
    BY ZenonT(30), <2>1, <2>2, <1>0, <1>1, <1>5
<1>. DEFINE Active == current[c] => /\ local[c] = store
                                    /\ store.phase \in {"Creating", "Running", "Deleting"}
<1>19. CASE ObserveUnknown(c)
  <2>. DEFINE b == [local[c] EXCEPT !.resources = @ \cup Visible(local[c])]
  <2>1. /\ Frame /\ Kept /\ Active
        /\ \/ Has(local[c], "save", "idle")
           \/ Has(b, "save", "unknown") /\ Holds
    BY <1>19 DEF ObserveUnknown, storeVars, CopyOf, Holding, Observable
  <2>2. Holds /\ current[c] => Successor(store, b, "unknown")
    BY <1>4 DEF Allocation, Successor, MayFollow
  <2>. QED
    BY ZenonT(30), <2>1, <2>2, <1>0, <1>1, <1>5
<1>20. CASE SaveUnknown(c)
  <2>1. Frame /\ Kept /\ Has(local[c], "save", "idle") /\ Holds
    BY <1>20 DEF SaveUnknown, storeVars, CopyOf, Holding
  <2>. QED
    BY <2>1, <1>0, <1>1, <1>5
<1>21. CASE ObserveAbsent(c)
  <2>. DEFINE b(i) == [local[c] EXCEPT !.phase = "Deleted", !.interrupted = i]
  <2>1. PICK i \in BOOLEAN : SetLocal(c, b(i)) /\ (i => local[c].phase = "Running")
    BY Zenon, <1>21 DEF ObserveAbsent
  <2>2. Frame /\ Kept /\ Active /\ Has(b(i), "deregister", "idle")
    BY <1>21, <2>1 DEF ObserveAbsent, storeVars, CopyOf, Holding, Observable
  <2>3. current[c] /\ i => store.phase = "Running" /\ ~store.retire
    BY <1>21, <2>1 DEF ObserveAbsent, CopyOf, Holding, Observable
  <2>4. Active /\ current[c] => Successor(store, b(i), "idle") /\ b(i).phase \in Terminal
    BY <1>4, <2>3 DEF Allocation, Successor, MayFollow, Terminal
  <2>. QED
    BY Zenon, <2>2, <2>4, <1>0, <1>2
<1>22. CASE ObserveExists(c)
  <2>. DEFINE found == Reported(Kind(local[c]), Visible(local[c]))
              b == [local[c] EXCEPT !.resources = @ \cup found]
  <2>1. /\ Frame /\ Kept /\ Active
        /\ Has(local[c], "exists", "idle") \/ Has(b, "save", "exists")
    BY <1>22 DEF ObserveExists, storeVars, CopyOf, Holding, Observable
  <2>2. Active /\ current[c] => Successor(store, b, "exists")
    BY <1>4 DEF Allocation, Successor, MayFollow
  <2>. QED
    BY Zenon, <2>1, <2>2, <1>0, <1>1, <1>3
<1>23. CASE Exists(c)
  <2>. DEFINE b(q) == [local[c] EXCEPT !.resourceID = local[c].attempts, !.phase = q]
  <2>1. Frame /\ Kept /\ (current[c] => local[c] = store)
    BY <1>23 DEF Exists, CopyOf, Holding
  <2>2. \/ local[c].phase = "Creating" /\ \E q \in {"Deleting", "Running"} : Has(b(q), "save", "idle")
        \/ ~current'[c]
        \/ local[c].phase = "Deleting" /\ Has(local[c], "delete", "idle")
    BY Zenon, <1>23 DEF Exists
  <2>3. Holds /\ current[c] => \A q \in {"Deleting", "Running"} : Successor(store, b(q), "idle")
    BY <1>4 DEF Allocation, Successor, MayFollow
  <2>. QED
    BY <2>1, <2>2, <2>3, <1>0, <1>1, <1>3
<1>24. CASE Delete(c)
  <2>1. /\ Frame /\ Kept /\ Active
        /\ ~current'[c] \/ Has(local[c], "save", "idle")
    BY <1>24 DEF Delete, CopyOf, Holding
  <2>. QED
    BY <2>1, <1>0, <1>1, <1>5
<1>. QED
  BY Zenon, <1>6, <1>7, <1>8, <1>9, <1>10, <1>11, <1>12, <1>13, <1>14, <1>15, <1>16, <1>17, <1>18,
     <1>19, <1>20, <1>21, <1>22, <1>23, <1>24 DEF Step

\* A successful Save installs a Successor and leaves one current copy.
LEMMA CopySave ==
  ASSUME CopyInv, TypeInv', NEW c \in Controllers, Save(c)
  PROVE  CopyInv' /\ Successor(store, store', then[c])
<1>. USE DEF CopyInv, TypeInv, TypeOK
<1>1. Successor(store, local[c], then[c]) /\ store' = local[c]
  BY Zenon DEF Save, CopyOf
<1>2. store'.resourceID \in {0, store'.attempts}
  BY <1>1 DEF Successor
<1>3. ASSUME NEW d \in Controllers, current'[d] PROVE CopyOf(d)'
  <2>1. d = c /\ then[c] # "idle"
    BY <1>3 DEF Save
  <2>2. local'[c] = store' /\ pc'[c] = then[c]
    BY <2>1, <1>1 DEF Save, Goto
  <2>3. then[c] \in {"create", "reconcile", "unknown", "exists"}
    BY Zenon, <2>1 DEF Resumes
  <2>4. then[c] # "exists" => store'.phase = "Creating"
    BY Zenon, <1>1, <2>1, <2>3 DEF Successor, MayFollow
  <2>. QED
    BY <2>1, <2>2, <2>3, <2>4 DEF CopyOf, Holding
<1>. QED
  BY <1>1, <1>2, <1>3

\* The writers outside Step change one flag and make every copy stale.
LEMMA CopyUpdate ==
  ASSUME CopyInv, TypeInv', NEW c \in Controllers,
         HandleJobStarted(c) \/ HandleJobCompleted(c) \/ Retire(c)
  PROVE  /\ CopyInv'
         /\ store' = [store EXCEPT !.ready = TRUE] \/ store' = [store EXCEPT !.retire = TRUE]
<1>. USE DEF CopyInv, TypeInv, TypeOK
<1>1. /\ store' = [store EXCEPT !.ready = TRUE] \/ store' = [store EXCEPT !.retire = TRUE]
      /\ current' = [d \in Controllers |-> FALSE]
  BY DEF HandleJobStarted, HandleJobCompleted, Retire, Update
<1>2. store'.resourceID = store.resourceID /\ store'.attempts = store.attempts
  BY <1>1 DEF Allocation
<1>. QED
  BY <1>1, <1>2

\* Load, Save and the other writers keep the relation of copy and record.
THEOREM CopyNext == CopyInv /\ [Next]_vars => CopyInv'
<1>. SUFFICES ASSUME CopyInv, [Next]_vars PROVE CopyInv'
  OBVIOUS
<1>0. TypeInv'
  BY Zenon, TypeNext DEF CopyInv
<1>1. ASSUME UNCHANGED <<store, current, local, pc, then>> PROVE CopyInv'
  BY <1>0, <1>1 DEF CopyInv, CopyOf, Observable
<1>2. CASE UNCHANGED vars
  BY <1>1, <1>2 DEF vars, storeVars, stepVars
<1>3. ASSUME NEW c \in Controllers, Step(c) PROVE CopyInv'
  BY Zenon, <1>0, <1>3, CopyStep, CopySave
<1>4. ASSUME NEW c \in Controllers, Abandon(c) PROVE CopyInv'
  BY <1>0, <1>4 DEF Abandon, Return, Goto, SetLocal, CopyInv, CopyOf, Observable, TypeInv, TypeOK
<1>5. ASSUME NEW c \in Controllers, HandleJobStarted(c) \/ HandleJobCompleted(c) \/ Retire(c)
      PROVE  CopyInv'
  BY <1>0, <1>5, CopyUpdate
<1>6. CASE Cloud
  BY Zenon, <1>1, <1>6 DEF Cloud, Accept, Land, Refuse, Lose, Vanish, storeVars, stepVars
<1>7. CASE Expire
  BY <1>1, <1>7 DEF Expire, storeVars, stepVars
<1>. QED
  BY <1>2, <1>3, <1>4, <1>5, <1>6, <1>7 DEF Next

\* What a controller with the current revision would save follows from the record.
THEOREM CopyCorrect == Spec => []CopyInv
BY CopyInit, CopyNext, PTL DEF Spec

\* Every step that changes the record makes it a Successor of itself, or sets
\* one of the two flags that are owned by the other writers.
LEMMA StoreStep ==
  ASSUME CopyInv, [Next]_vars
  PROVE  \/ store' = store
         \/ \E label \in Resumes : Successor(store, store', label)
         \/ store' = [store EXCEPT !.ready = TRUE]
         \/ store' = [store EXCEPT !.retire = TRUE]
<1>0. TypeInv'
  BY TypeNext DEF CopyInv
<1>1. ASSUME NEW c \in Controllers, Save(c)
      PROVE  \E label \in Resumes : Successor(store, store', label)
  BY <1>0, <1>1, CopySave DEF CopyInv, TypeInv, TypeOK
<1>2. ASSUME NEW c \in Controllers, Step(c), ~Save(c) PROVE store' = store
  BY Zenon, <1>2 DEF Step, StepExpire, StepNoPool, StepCommit, StepReconcile, StepRunning, StepDeleting,
     Load, Deregister, Bootstrap, NoEffect, Send, CreateSucceeds, CreateRejected, CreateUnknown,
     ObserveUnknown, SaveUnknown, ObserveAbsent, ObserveExists, Exists, Delete, storeVars
<1>3. ASSUME NEW c \in Controllers, Abandon(c) PROVE store' = store
  BY <1>3 DEF Abandon
<1>4. ASSUME NEW c \in Controllers, HandleJobStarted(c) \/ HandleJobCompleted(c) \/ Retire(c)
      PROVE  store' = [store EXCEPT !.ready = TRUE] \/ store' = [store EXCEPT !.retire = TRUE]
  BY <1>0, <1>4, CopyUpdate
<1>5. Cloud \/ Expire \/ UNCHANGED vars => store' = store
  BY Zenon DEF Cloud, Accept, Land, Refuse, Lose, Vanish, Expire, vars, storeVars
<1>. QED
  BY <1>1, <1>2, <1>3, <1>4, <1>5 DEF Next

\* The compare-and-swap loses no update, for any number of controllers and
\* whatever the clouds do: no assumption on LateKinds or Provider is used.
THEOREM NothingIsForgotten == Spec => NothingForgotten
<1>1. CopyInv /\ [Next]_vars =>
        [/\ store.phase \in Terminal => store'.phase = store.phase
         /\ store.ready => store'.ready
         /\ store.retire => store'.retire
         /\ store.resources \subseteq store'.resources
         /\ store.rejected \subseteq store'.rejected
         /\ store.resourceID # 0 => store'.resourceID = store.resourceID
         /\ store.attempts <= store'.attempts]_store
  <2>. SUFFICES ASSUME CopyInv, [Next]_vars, store' # store
                PROVE  /\ store.phase \in Terminal => store'.phase = store.phase
                       /\ store.ready => store'.ready
                       /\ store.retire => store'.retire
                       /\ store.resources \subseteq store'.resources
                       /\ store.rejected \subseteq store'.rejected
                       /\ store.resourceID # 0 => store'.resourceID = store.resourceID
                       /\ store.attempts <= store'.attempts
    OBVIOUS
  <2>0. store \in Allocation /\ store.attempts \in Nat
    BY AttemptsAssumption DEF CopyInv, TypeInv, TypeOK, Allocation
  <2>1. CASE \E label \in Resumes : Successor(store, store', label)
    BY <2>0, <2>1 DEF Successor, MayFollow, Terminal
  <2>2. CASE store' = [store EXCEPT !.ready = TRUE] \/ store' = [store EXCEPT !.retire = TRUE]
    BY <2>0, <2>2 DEF Allocation
  <2>. QED
    BY <2>1, <2>2, StoreStep
<1>. QED
  BY <1>1, CopyCorrect, PTL DEF Spec, NothingForgotten

\* No decision is made on a stale copy: a busy runner is never condemned, a
\* retired allocation never committed to a pool, and a runner whose job has
\* completed never reported as interrupted.
THEOREM NoDecisionIsStale == Spec => NoStaleDecision
<1>1. CopyInv /\ [Next]_vars =>
        [/\ store.phase = "Running" /\ store'.phase = "Deleting" => store.retire \/ ~store.ready
         /\ store.phase = "Pending" /\ store'.phase = "Creating" => ~store.retire
         /\ ~store.interrupted /\ store'.interrupted => store.phase = "Running" /\ ~store.retire]_store
  <2>. SUFFICES ASSUME CopyInv, [Next]_vars, store' # store
                PROVE  /\ store.phase = "Running" /\ store'.phase = "Deleting" => store.retire \/ ~store.ready
                       /\ store.phase = "Pending" /\ store'.phase = "Creating" => ~store.retire
                       /\ ~store.interrupted /\ store'.interrupted => store.phase = "Running" /\ ~store.retire
    OBVIOUS
  <2>0. store \in Allocation
    BY DEF CopyInv, TypeInv, TypeOK
  <2>1. CASE \E label \in Resumes : Successor(store, store', label)
    BY <2>0, <2>1 DEF Successor, MayFollow
  <2>2. CASE store' = [store EXCEPT !.ready = TRUE] \/ store' = [store EXCEPT !.retire = TRUE]
    BY <2>0, <2>2 DEF Allocation
  <2>. QED
    BY <2>1, <2>2, StoreStep
<1>. QED
  BY <1>1, CopyCorrect, PTL DEF Spec, NoStaleDecision
=============================================================================
