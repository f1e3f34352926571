------------------------- MODULE KaiOperatorProofs -------------------------
(* Theorems of KaiOperator, for every set of children and specs and every    *)
(* number of edits and disturbances.                                        *)
EXTENDS KaiOperator, SequenceTheorems, TLAPS

-----------------------------------------------------------------------------
(* The inductive invariant *)

\* What the cache shows was true once: a finalizer is given up only by an
\* instance that was being deleted, and a deletion is not taken back.
CacheIsPast ==
    seen # Gone =>
        /\ seen.deleting => kai = Gone \/ (kai # Gone /\ kai.deleting)
        /\ seen.fin => kai = Gone \/ (kai # Gone /\ kai.fin)
        /\ seen.fin /\ ~seen.deleting => kai # Gone

\* The worker gives up the finalizer of a deleted instance only.
UnfinalizesDeleted ==
    pc = "unfinalize" =>
        /\ kai = Gone \/ (kai # Gone /\ kai.deleting)
        /\ seen = Gone \/ (seen # Gone /\ seen.deleting)

\* While the worker walks the children, the finalizer holds the instance.
WalksProtected == pc = "children" => kai # Gone /\ kai.fin

ReadyRuns(s) == s.ready => s.phase = "Running"

StatusesHonest ==
    /\ ReadyRuns(st)
    /\ kai # Gone => ReadyRuns(kai.status)
    /\ seen # Gone => ReadyRuns(seen.status)

OInv ==
    /\ TypeOK
    /\ CacheIsPast
    /\ UnfinalizesDeleted
    /\ WalksProtected
    /\ ChildrenNeedFinalizer
    /\ StatusesHonest

-----------------------------------------------------------------------------
(* Types *)

\* The constants are what the actions take them for.
LEMMA Constants ==
    /\ Children \in Seq(Owned)
    /\ "deployment" \in Owned
    /\ Gone \notin Instances
    /\ Absent \notin Objects
    /\ NewStatus \in Statuses
<1>1. Children \in Seq(Owned)
  BY ChildrenAssumption, ElementOfSeq, SeqDef DEF Owned
<1>2. NewStatus \in Statuses
  BY DEF NewStatus, Statuses, Phases
<1> QED BY <1>1, <1>2, ChildrenAssumption, AbsentAssumption

\* Setting a condition leaves the rest of a status alone.
LEMMA NotedStatus ==
    ASSUME st \in Statuses, NEW k, NEW call
    PROVE  /\ Noted(k, call) \in Statuses
           /\ ReadyRuns(st) => ReadyRuns(Noted(k, call))
<1> DEFINE set(c, v) == [st EXCEPT !.cond[c] = v]
<1>1. \A c \in Conditions, v \in {"True", "False"} :
        set(c, v) \in Statuses /\ (ReadyRuns(st) => ReadyRuns(set(c, v)))
  BY DEF Statuses, ReadyRuns
<1> QED BY <1>1 DEF Noted, Conditions

\* The status of a failed reconcile.
LEMMA FailedStatus ==
    ASSUME NEW s \in Statuses, Failing(s)
    PROVE  /\ st' \in Statuses
           /\ todo' \in Seq(Owned)
           /\ pc' = "failed"
           /\ ReadyRuns(st')
<1> DEFINE c == [s.cond EXCEPT !["Ready"] = "False"]
<1>1. c \in [Conditions -> {"none", "True", "False"}]
  BY DEF Statuses
<1> HIDE DEF c
<1>2. st' = [s EXCEPT !.phase = "Failed", !.ready = FALSE, !.cond = c]
  BY DEF Failing, c, Statuses
<1>3. st' \in Statuses /\ ~st'.ready
  BY <1>1, <1>2 DEF Statuses, Phases
<1>4. todo' \in Seq(Owned) /\ pc' = "failed"
  BY DEF Failing
<1> QED BY <1>3, <1>4 DEF ReadyRuns

\* The outcome of an accepted call is a child or none.
LEMMA ResultTyped ==
    ASSUME TypeOK, read # Gone, NEW k \in Owned, Accepts(k, Call(k))
    PROVE  Result(k, Call(k)) \in Objects \union {Absent}
<1>1. read.spec.cfg \in Cfgs
  BY DEF TypeOK, Instances, Specs
<1>2. Call(k) \in {"none", "create", "update", "delete"}
  BY DEF Call
<1>3. CASE Call(k) = "none"
  BY <1>3 DEF Result, TypeOK
<1>4. CASE Call(k) = "create"
  BY <1>1, <1>4 DEF Result, Objects
<1>5. CASE Call(k) = "update"
  <2>1. view[k] # Absent
    BY <1>5 DEF Call
  <2>2. obj[k] \in Objects
    BY <1>5, <2>1 DEF Accepts, TypeOK
  <2> QED BY <1>1, <1>5, <2>2 DEF Result, Objects
<1>6. CASE Call(k) = "delete"
  BY <1>6 DEF Result
<1> QED BY <1>2, <1>3, <1>4, <1>5, <1>6

\* A change in the API server marks the cached copy as outdated.
LEMMA BecomesTyped ==
    ASSUME TypeOK, NEW k \in Owned, NEW c \in Objects \union {Absent},
           Becomes(k, c), view' = view
    PROVE  /\ obj' \in [Owned -> Objects \union {Absent}]
           /\ lag' \in [Owned -> BOOLEAN]
           /\ \A j \in Owned : ~lag'[j] => view'[j] = obj'[j]
BY DEF Becomes, TypeOK

LEMMA TypeInit == Init => TypeOK
<1> SUFFICES ASSUME Init PROVE TypeOK
  OBVIOUS
<1>1. kai \in Instances
  BY Constants DEF Init, Instances
<1>2. disturbances \in 0 .. MaxDisturbances
  BY BoundAssumption DEF Init
<1>3. todo \in Seq(Owned) /\ st \in Statuses
  BY Constants DEF Init
<1> QED BY <1>1, <1>2, <1>3 DEF Init, TypeOK

\* What a return to the queue leaves behind.
LEMMA ReturnTyped ==
    ASSUME TypeOK, Return, kai' \in Instances \union {Gone}, queued' \in BOOLEAN,
           obj' = obj, lag' = lag, view' = view, seen' = seen, drifted' = drifted,
           disturbances' \in 0 .. MaxDisturbances
    PROVE  TypeOK'
<1>1. st' \in Statuses /\ todo' \in Seq(Owned) /\ pc' = "idle" /\ read' = Gone
  BY Constants DEF Return
<1> QED BY <1>1 DEF TypeOK

\* What the last step of a reconcile reports.
LEMMA FinalTyped ==
    ASSUME TypeOK, Reporting
    PROVE  /\ FinalStatus \in Statuses
           /\ ReadyRuns(st) => ReadyRuns(FinalStatus)
<1> DEFINE d == view["deployment"]
           ready == d # Absent /\ d.up
<1>1. CASE pc # "children"
  BY <1>1 DEF FinalStatus, TypeOK
<1>2. CASE pc = "children"
  <2>1. ready \in BOOLEAN
    BY Constants DEF TypeOK, Objects
  <2>2. read.gen \in Nat
    BY <1>2 DEF TypeOK, Instances
  <2> DEFINE s == [st EXCEPT !.ready = ready, !.obs = read.gen,
                             !.phase = IF ready THEN "Running" ELSE @]
  <2>3. s \in Statuses /\ ReadyRuns(s)
    <3> HIDE DEF ready
    <3> QED BY <2>1, <2>2 DEF TypeOK, Statuses, Phases, ReadyRuns
  <2> QED BY <1>2, <2>3 DEF FinalStatus
<1> QED BY <1>1, <1>2

LEMMA EditTyped ==
    ASSUME kai \in Instances, NEW s \in Specs
    PROVE  [kai EXCEPT !.spec = s, !.gen = @ + 1] \in Instances
<1>1. kai.gen \in Nat
  BY DEF Instances
<1> DEFINE g == kai.gen + 1
<1>2. g \in Nat
  BY <1>1
<1>3. [kai EXCEPT !.spec = s, !.gen = g] \in Instances
  <2> HIDE DEF g
  <2> QED BY <1>2 DEF Instances
<1> QED BY <1>3

LEMMA TypeNext == TypeOK /\ [Next]_vars => TypeOK'
<1> SUFFICES ASSUME TypeOK, [Next]_vars PROVE TypeOK'
  OBVIOUS
<1>d. Disturb => disturbances' \in 0 .. MaxDisturbances
  BY BoundAssumption DEF Disturb, TypeOK
<1>1. CASE Begin
  <2>1. CASE UNCHANGED worker
    BY <1>1, <2>1 DEF Begin, TypeOK, world, caches, worker
  <2>2. CASE ~UNCHANGED worker
    <3>1. /\ seen # Gone /\ read' = seen
          /\ pc' = IF seen.deleting            THEN "unfinalize"
                   ELSE IF ~seen.fin           THEN "finalize"
                   ELSE IF seen.spec.suspended THEN "scale"
                   ELSE "children"
          /\ st' = [seen.status EXCEPT !.phase =
                      IF pc' = "children" /\ @ # "Running" THEN "Provisioning" ELSE @]
          /\ todo' = IF pc' = "children" THEN Children ELSE <<>>
      BY <1>1, <2>2 DEF Begin
    <3>2. seen \in Instances
      BY <3>1 DEF TypeOK
    <3>3. st' \in Statuses
      BY <3>1, <3>2 DEF Instances, Statuses, Phases
    <3>4. todo' \in Seq(Owned)
      BY <3>1, Constants
    <3>5. /\ pc' \in {"unfinalize", "finalize", "scale", "children"}
          /\ pc' = "children" => seen.fin /\ ~seen.deleting /\ ~seen.spec.suspended
      BY <3>1
    <3>6. read' # Gone
      BY <3>1
    <3> QED BY <1>1, <3>1, <3>2, <3>3, <3>4, <3>5, <3>6 DEF Begin, TypeOK, world, caches
  <2> QED BY <2>1, <2>2
<1>2. CASE Finalize
  <2>1. kai' \in Instances \union {Gone}
    BY <1>2 DEF Finalize, TypeOK, Instances
  <2> QED BY <1>2, <2>1, ReturnTyped DEF Finalize, caches, TypeOK
<1>3. CASE ScaleDown
  <2> DEFINE d == view["deployment"]
             there == d # Absent /\ d.replicas = 1
  <2>1. CASE there /\ lag["deployment"]
    BY <1>3, <2>1, ReturnTyped DEF ScaleDown, Requeue, TypeOK
  <2>2. CASE ~(there /\ lag["deployment"])
    <3>1. st' \in Statuses
      BY <1>3, <2>2 DEF ScaleDown, TypeOK, Statuses, Phases
    <3>2. /\ obj' \in [Owned -> Objects \union {Absent}]
          /\ lag' \in [Owned -> BOOLEAN]
          /\ \A j \in Owned : ~lag'[j] => view'[j] = obj'[j]
      <4>1. CASE there
        <5>1. obj["deployment"] \in Objects
          BY <2>2, <4>1, Constants DEF TypeOK
        <5>2. [obj["deployment"] EXCEPT !.replicas = 0] \in Objects
          BY <5>1 DEF Objects
        <5> QED BY <1>3, <2>2, <4>1, <5>2, BecomesTyped, Constants DEF ScaleDown
      <4>2. CASE ~there
        BY <1>3, <2>2, <4>2 DEF ScaleDown, TypeOK
      <4> QED BY <4>1, <4>2
    <3> QED BY <1>3, <2>2, <3>1, <3>2 DEF ScaleDown, TypeOK
  <2> QED BY <2>1, <2>2
<1>4. CASE ReconcileChild
  <2> DEFINE k == Head(todo)
             call == Call(k)
  <2>1. k \in Owned /\ Tail(todo) \in Seq(Owned) /\ read # Gone
    BY <1>4, HeadTailProperties DEF ReconcileChild, TypeOK
  <2>2. Noted(k, call) \in Statuses
    BY NotedStatus DEF TypeOK
  <2>3. CASE Accepts(k, call)
    <3>1. /\ obj' \in [Owned -> Objects \union {Absent}]
          /\ lag' \in [Owned -> BOOLEAN]
          /\ \A j \in Owned : ~lag'[j] => view'[j] = obj'[j]
      BY <1>4, <2>1, <2>3, ResultTyped, BecomesTyped DEF ReconcileChild
    <3> QED BY <1>4, <2>1, <2>2, <2>3, <3>1 DEF ReconcileChild, TypeOK
  <2>4. CASE ~Accepts(k, call)
    <3>1. st' \in Statuses /\ todo' \in Seq(Owned) /\ pc' = "failed"
      BY <1>4, <2>2, <2>4, FailedStatus DEF ReconcileChild
    <3> QED BY <1>4, <2>1, <2>4, <3>1 DEF ReconcileChild, TypeOK
  <2> QED BY <2>3, <2>4
<1>5. CASE Report
  <2>1. kai \in Instances
    BY <1>5 DEF Report, Reporting, TypeOK
  <2>2. FinalStatus \in Statuses
    BY <1>5, FinalTyped DEF Report
  <2>3. kai' \in Instances
    BY <1>5, <2>1, <2>2 DEF Report, Instances
  <2> QED BY <1>5, <2>3, ReturnTyped DEF Report, caches, TypeOK
<1>6. CASE InstanceConflict
  BY <1>6, ReturnTyped DEF InstanceConflict, Requeue, world, caches, TypeOK
<1>7. CASE ChildCallFails
  <2> DEFINE k == Head(todo)
             call == Call(k)
  <2>1. k \in Owned /\ read # Gone
    BY <1>7, HeadTailProperties DEF ChildCallFails, TypeOK
  <2>2. Noted(k, call) \in Statuses
    BY NotedStatus DEF TypeOK
  <2>3. st' \in Statuses /\ todo' \in Seq(Owned) /\ pc' = "failed"
    BY <1>7, <2>2, FailedStatus DEF ChildCallFails
  <2>4. /\ obj' \in [Owned -> Objects \union {Absent}]
        /\ lag' \in [Owned -> BOOLEAN]
        /\ \A j \in Owned : ~lag'[j] => view'[j] = obj'[j]
    <3>1. CASE UNCHANGED <<obj, lag>>
      BY <1>7, <3>1 DEF ChildCallFails, TypeOK
    <3>2. CASE Accepts(k, call) /\ Becomes(k, Result(k, call))
      BY <1>7, <2>1, <3>2, ResultTyped, BecomesTyped DEF ChildCallFails
    <3> QED BY <1>7, <3>1, <3>2 DEF ChildCallFails
  <2> QED BY <1>7, <1>d, <2>1, <2>3, <2>4 DEF ChildCallFails, TypeOK
<1>8. CASE RenderFails
  <2>1. st' \in Statuses /\ todo' \in Seq(Owned) /\ pc' = "failed"
    BY <1>8, FailedStatus DEF RenderFails, TypeOK
  <2> QED BY <1>8, <1>d, <2>1 DEF RenderFails, TypeOK, world, caches
<1>9. CASE InstanceCallFails
  BY <1>9, <1>d, ReturnTyped DEF InstanceCallFails, Requeue, world, caches, TypeOK
<1>10. CASE OperatorRestarts
  <2>1. st' \in Statuses /\ todo' \in Seq(Owned) /\ pc' = "idle" /\ read' = Gone
    BY <1>10, Constants DEF OperatorRestarts, Return
  <2> QED BY <1>10, <1>d, <2>1 DEF OperatorRestarts, TypeOK, world
<1>11. CASE EditSpec
  <2>1. kai' \in Instances
    <3>1. PICK s \in Specs : kai' = [kai EXCEPT !.spec = s, !.gen = @ + 1]
      BY <1>11 DEF EditSpec
    <3>2. kai \in Instances
      BY <1>11 DEF EditSpec, TypeOK
    <3> QED BY <3>1, <3>2, EditTyped
  <2> QED BY <1>11, <2>1 DEF EditSpec, TypeOK, caches, worker
<1>12. CASE DeleteInstance
  <2>1. kai' \in Instances \union {Gone}
    BY <1>12 DEF DeleteInstance, TypeOK, Instances
  <2> QED BY <1>12, <2>1 DEF DeleteInstance, TypeOK, caches, worker
<1>13. CASE SyncInstance
  BY <1>13 DEF SyncInstance, TypeOK, world, worker
<1>14. ASSUME NEW k \in Owned, SyncChild(k) PROVE TypeOK'
  BY <1>14 DEF SyncChild, TypeOK, world, worker
<1>15. ASSUME NEW k \in Owned, Collect(k) PROVE TypeOK'
  BY <1>15, BecomesTyped DEF Collect, TypeOK, worker
<1>16. ASSUME NEW k \in Owned, ChildStatus(k) PROVE TypeOK'
  <2> DEFINE b == ~obj[k].up
  <2>a. obj[k] \in Objects
    BY <1>16 DEF ChildStatus, TypeOK
  <2>b. b \in BOOLEAN
    OBVIOUS
  <2>1. [obj[k] EXCEPT !.up = ~@] \in Objects
    <3>1. [obj[k] EXCEPT !.up = b] \in Objects
      <4> HIDE DEF b
      <4> QED BY <2>a, <2>b DEF Objects
    <3> QED BY <3>1
  <2>2. disturbances' \in 0 .. MaxDisturbances
    BY <1>16, <1>d DEF ChildStatus, TypeOK
  <2> QED BY <1>16, <2>1, <2>2, BecomesTyped DEF ChildStatus, TypeOK, worker
<1>17. ASSUME NEW k \in Owned, Drift(k) PROVE TypeOK'
  <2>1. [obj[k] EXCEPT !.replicas = 1 - @] \in Objects
    BY <1>17 DEF Drift, TypeOK, Objects
  <2>2. /\ obj' \in [Owned -> Objects \union {Absent}]
        /\ lag' \in [Owned -> BOOLEAN]
        /\ \A j \in Owned : ~lag'[j] => view'[j] = obj'[j]
    BY <1>17, <2>1, BecomesTyped DEF Drift
  <2> QED BY <1>17, <1>d, <2>2 DEF Drift, TypeOK, worker
<1>18. CASE UNCHANGED vars
  BY <1>18 DEF vars, TypeOK
<1> QED BY <1>1, <1>2, <1>3, <1>4, <1>5, <1>6, <1>7, <1>8, <1>9, <1>10, <1>11, <1>12,
           <1>13, <1>14, <1>15, <1>16, <1>17, <1>18 DEF Next, Work

-----------------------------------------------------------------------------
(* The order of finalizer, children and deletion *)

\* The conjuncts that concern the finalizer.
Order ==
    /\ CacheIsPast
    /\ UnfinalizesDeleted
    /\ WalksProtected
    /\ ChildrenNeedFinalizer

\* Who may create a child.
LEMMA CreationNeedsWalk ==
    ASSUME TypeOK, [Next]_vars, NEW k \in Owned, obj'[k] # Absent, obj[k] = Absent
    PROVE  pc = "children" /\ kai' = kai
<1>1. CASE ScaleDown
  <2> DEFINE d == view["deployment"]
             there == d # Absent /\ d.replicas = 1
  <2>1. CASE there /\ ~lag["deployment"]
    <3>1. obj["deployment"] # Absent
      BY <2>1, Constants DEF TypeOK
    <3>2. obj' = [obj EXCEPT !["deployment"] = [obj["deployment"] EXCEPT !.replicas = 0]]
      BY <1>1, <2>1 DEF ScaleDown, Becomes
    <3> QED BY <3>1, <3>2 DEF TypeOK
  <2>2. CASE ~(there /\ ~lag["deployment"])
    BY <1>1, <2>2 DEF ScaleDown
  <2> QED BY <2>1, <2>2
<1>2. CASE \E j \in Owned : Collect(j)
  BY <1>2 DEF Collect, Becomes, TypeOK
<1>3. CASE \E j \in Owned : ChildStatus(j)
  BY <1>3 DEF ChildStatus, Becomes, TypeOK
<1>4. CASE \E j \in Owned : Drift(j)
  BY <1>4 DEF Drift, Becomes, TypeOK
<1>5. CASE ReconcileChild
  BY <1>5 DEF ReconcileChild
<1>6. CASE ChildCallFails
  BY <1>6 DEF ChildCallFails
<1>7. CASE obj' = obj
  BY <1>7
<1> QED
  BY <1>1, <1>2, <1>3, <1>4, <1>5, <1>6, <1>7 DEF Next, Work, Begin, Finalize, Report,
     InstanceConflict, RenderFails, InstanceCallFails, OperatorRestarts, EditSpec,
     DeleteInstance, SyncInstance, SyncChild, world, vars

\* What happens to the instance itself: its spec or status changes, it gets its
\* finalizer or a deletion timestamp, or it goes, unprotected or finalized.
LEMMA InstanceSteps ==
    ASSUME TypeOK, [Next]_vars
    PROVE  \/ kai' = kai
           \/ kai # Gone /\ kai' # Gone /\ kai'.fin = kai.fin /\ kai'.deleting = kai.deleting
           \/ /\ kai # Gone /\ kai' # Gone /\ pc = "finalize"
              /\ kai'.fin /\ kai'.deleting = kai.deleting
           \/ kai # Gone /\ kai' # Gone /\ kai.fin /\ kai'.fin /\ kai'.deleting
           \/ kai # Gone /\ kai' = Gone /\ ~kai.fin
           \/ kai' = Gone /\ pc = "unfinalize" /\ pc' = "idle"
<1>g. \A r \in Instances : r # Gone
  BY Constants
<1>1. CASE Finalize
  <2>1. kai \in Instances
    BY <1>1 DEF Finalize, TypeOK
  <2>2. CASE pc = "finalize"
    <3>1. kai' = [kai EXCEPT !.fin = TRUE]
      BY <1>1, <2>2 DEF Finalize
    <3>2. kai' \in Instances /\ kai'.fin /\ kai'.deleting = kai.deleting
      BY <2>1, <3>1 DEF Instances
    <3> QED BY <1>g, <2>1, <2>2, <3>2
  <2>3. CASE pc = "unfinalize"
    BY <1>1, <2>3 DEF Finalize, Return
  <2> QED BY <1>1, <2>2, <2>3 DEF Finalize
<1>2. CASE Report
  <2>1. kai \in Instances /\ kai' = [kai EXCEPT !.status = FinalStatus]
    BY <1>2 DEF Report, Reporting, TypeOK
  <2>2. kai'.fin = kai.fin /\ kai'.deleting = kai.deleting
    BY <2>1 DEF Instances
  <2>3. kai' \in Instances
    BY <1>2, <2>1, FinalTyped DEF Report, Instances
  <2> QED BY <1>g, <2>1, <2>2, <2>3
<1>3. CASE EditSpec
  <2>1. PICK s \in Specs : kai' = [kai EXCEPT !.spec = s, !.gen = @ + 1]
    BY <1>3 DEF EditSpec
  <2>2. kai \in Instances
    BY <1>3 DEF EditSpec, TypeOK
  <2>3. kai'.fin = kai.fin /\ kai'.deleting = kai.deleting
    BY <2>1, <2>2 DEF Instances
  <2>4. kai' \in Instances
    BY <2>1, <2>2, EditTyped
  <2> QED BY <1>g, <2>2, <2>3, <2>4
<1>4. CASE DeleteInstance
  <2>1. kai \in Instances
    BY <1>4 DEF DeleteInstance, TypeOK
  <2>2. CASE kai.fin
    <3>1. kai' = [kai EXCEPT !.deleting = TRUE]
      BY <1>4, <2>2 DEF DeleteInstance
    <3>2. kai' \in Instances /\ kai'.fin /\ kai'.deleting
      BY <2>1, <2>2, <3>1 DEF Instances
    <3> QED BY <1>g, <2>1, <2>2, <3>2
  <2>3. CASE ~kai.fin
    BY <1>4, <1>g, <2>1, <2>3 DEF DeleteInstance
  <2> QED BY <2>2, <2>3
<1>5. CASE kai' = kai
  BY <1>5
<1> QED
  BY <1>1, <1>2, <1>3, <1>4, <1>5 DEF Next, Work, Begin, ScaleDown, ReconcileChild,
     InstanceConflict, ChildCallFails, RenderFails, InstanceCallFails, OperatorRestarts,
     SyncInstance, SyncChild, Collect, ChildStatus, Drift, world, vars

\* The cache changes to what the API server has, and a reconcile starts on what
\* the cache has.
LEMMA CacheSteps ==
    ASSUME TypeOK, [Next]_vars
    PROVE  /\ seen' = seen \/ (seen' = kai /\ kai' = kai)
           /\ \/ pc' \notin {"children", "unfinalize"}
              \/ pc' = pc
              \/ /\ seen' = seen /\ kai' = kai /\ seen # Gone
                 /\ pc' = "unfinalize" => seen.deleting
                 /\ pc' = "children" => seen.fin /\ ~seen.deleting
<1>1. CASE Begin
  BY <1>1 DEF Begin, world, caches, worker
<1>2. CASE ScaleDown
  BY <1>2 DEF ScaleDown, Requeue, Return
<1>3. CASE ReconcileChild
  BY <1>3 DEF ReconcileChild, Failing
<1>4. CASE ChildCallFails
  BY <1>4 DEF ChildCallFails, Failing
<1>5. CASE Finalize \/ Report \/ InstanceConflict
  BY <1>5 DEF Finalize, Report, InstanceConflict, Requeue, Return, world, caches
<1>6. CASE RenderFails \/ InstanceCallFails \/ OperatorRestarts
  BY <1>6 DEF RenderFails, Failing, InstanceCallFails, OperatorRestarts, Requeue, Return,
     world, caches
<1>7. CASE EditSpec \/ DeleteInstance \/ SyncInstance
  BY <1>7 DEF EditSpec, DeleteInstance, SyncInstance, world, caches, worker
<1>8. CASE \E k \in Owned : SyncChild(k) \/ Collect(k) \/ ChildStatus(k) \/ Drift(k)
  BY <1>8 DEF SyncChild, Collect, ChildStatus, Drift, world, worker
<1>9. CASE UNCHANGED vars
  BY <1>9 DEF vars
<1> QED BY <1>1, <1>2, <1>3, <1>4, <1>5, <1>6, <1>7, <1>8, <1>9 DEF Next, Work

LEMMA OrderInit == Init => Order
BY DEF Init, Order, CacheIsPast, UnfinalizesDeleted, WalksProtected, ChildrenNeedFinalizer

LEMMA OrderNext == TypeOK /\ Order /\ [Next]_vars => Order'
<1> SUFFICES ASSUME TypeOK, Order, [Next]_vars PROVE Order'
  OBVIOUS
<1>1. CacheIsPast'
  BY InstanceSteps, CacheSteps DEF Order, CacheIsPast, UnfinalizesDeleted
<1>2. UnfinalizesDeleted'
  BY InstanceSteps, CacheSteps DEF Order, CacheIsPast, UnfinalizesDeleted
<1>3. WalksProtected'
  BY InstanceSteps, CacheSteps DEF Order, CacheIsPast, WalksProtected
<1>4. ChildrenNeedFinalizer'
  <2> SUFFICES ASSUME NEW k \in Owned, obj'[k] # Absent
               PROVE  kai' = Gone \/ (kai' # Gone /\ kai'.fin)
    BY DEF ChildrenNeedFinalizer
  <2>1. kai = Gone \/ (kai # Gone /\ kai.fin)
    BY CreationNeedsWalk DEF Order, WalksProtected, ChildrenNeedFinalizer
  <2> QED BY <2>1, InstanceSteps
<1> QED BY <1>1, <1>2, <1>3, <1>4 DEF Order

-----------------------------------------------------------------------------
(* The status *)

LEMMA NewIsNotReady == ReadyRuns(NewStatus)
<1>1. NewStatus.ready = FALSE
  BY DEF NewStatus
<1> QED BY <1>1 DEF ReadyRuns

LEMMA StatusesInit == Init => StatusesHonest
<1> SUFFICES ASSUME Init PROVE StatusesHonest
  OBVIOUS
<1>1. st = NewStatus /\ seen = Gone /\ kai.status = NewStatus
  BY DEF Init
<1> QED BY <1>1, NewIsNotReady DEF StatusesHonest

LEMMA StatusesNext == TypeOK /\ StatusesHonest /\ [Next]_vars => StatusesHonest'
<1> SUFFICES ASSUME TypeOK, StatusesHonest, [Next]_vars PROVE StatusesHonest'
  OBVIOUS
<1> USE DEF StatusesHonest
<1>r. Return => ReadyRuns(st')
  BY NewIsNotReady DEF Return
<1>1. CASE Begin
  <2>1. CASE UNCHANGED worker
    BY <1>1, <2>1 DEF Begin, world, caches, worker
  <2>2. CASE ~UNCHANGED worker
    <3>1. /\ seen # Gone
          /\ st' = [seen.status EXCEPT !.phase =
                      IF pc' = "children" /\ @ # "Running" THEN "Provisioning" ELSE @]
          /\ pc' = "children" => ~seen.deleting
      BY <1>1, <2>2 DEF Begin
    <3>2. seen.status \in Statuses
      BY <3>1 DEF TypeOK, Instances
    <3>3. ReadyRuns(st')
      BY <3>1, <3>2 DEF ReadyRuns, Statuses
    <3> QED BY <1>1, <3>3 DEF Begin, world, caches
  <2> QED BY <2>1, <2>2
<1>2. CASE Finalize
  <2>1. kai' # Gone => kai'.status = kai.status
    BY <1>2 DEF Finalize, TypeOK, Instances
  <2>2. kai # Gone
    BY <1>2 DEF Finalize, TypeOK
  <2> QED BY <1>2, <1>r, <2>1, <2>2 DEF Finalize, caches
<1>3. CASE ScaleDown
  <2>1. ReadyRuns(st')
    <3>1. CASE Requeue
      BY <1>r, <3>1 DEF Requeue
    <3>2. CASE st' = [st EXCEPT !.phase = "Suspended", !.ready = FALSE]
      BY <3>2 DEF TypeOK, Statuses, ReadyRuns
    <3> QED BY <1>3, <3>1, <3>2 DEF ScaleDown
  <2> QED BY <1>3, <2>1 DEF ScaleDown
<1>4. CASE ReconcileChild
  <2> DEFINE n == Noted(Head(todo), Call(Head(todo)))
  <2>1. n \in Statuses /\ ReadyRuns(n)
    BY NotedStatus DEF TypeOK
  <2>2. st' = n \/ Failing(n)
    BY <1>4 DEF ReconcileChild
  <2>3. ReadyRuns(st')
    BY <2>1, <2>2, FailedStatus
  <2> QED BY <1>4, <2>3 DEF ReconcileChild
<1>5. CASE ChildCallFails
  <2>1. ReadyRuns(st')
    BY <1>5, NotedStatus, FailedStatus DEF ChildCallFails, TypeOK
  <2> QED BY <1>5, <2>1 DEF ChildCallFails
<1>6. CASE RenderFails
  <2>1. ReadyRuns(st')
    BY <1>6, FailedStatus DEF RenderFails, TypeOK
  <2> QED BY <1>6, <2>1 DEF RenderFails, world, caches
<1>7. CASE Report
  <2>1. kai \in Instances /\ kai' = [kai EXCEPT !.status = FinalStatus]
    BY <1>7 DEF Report, Reporting, TypeOK
  <2>2. kai'.status = FinalStatus
    BY <2>1 DEF Instances
  <2>3. ReadyRuns(kai'.status)
    BY <1>7, <2>2, FinalTyped DEF Report
  <2> QED BY <1>7, <1>r, <2>3 DEF Report, caches
<1>8. CASE InstanceConflict \/ InstanceCallFails
  BY <1>8, <1>r DEF InstanceConflict, InstanceCallFails, Requeue, world, caches
<1>9. CASE OperatorRestarts
  BY <1>9, <1>r DEF OperatorRestarts, world
<1>10. CASE EditSpec
  <2>1. kai \in Instances /\ kai'.status = kai.status
    BY <1>10 DEF EditSpec, TypeOK, Instances
  <2> QED BY <1>10, <2>1, Constants DEF EditSpec, caches, worker
<1>11. CASE DeleteInstance
  <2>1. kai' # Gone => kai'.status = kai.status
    BY <1>11 DEF DeleteInstance, TypeOK, Instances
  <2> QED BY <1>11, <2>1 DEF DeleteInstance, caches, worker
<1>12. CASE SyncInstance
  BY <1>12 DEF SyncInstance, world, worker
<1>13. CASE \E k \in Owned : SyncChild(k) \/ Collect(k) \/ ChildStatus(k) \/ Drift(k)
  BY <1>13 DEF SyncChild, Collect, ChildStatus, Drift, world, worker
<1>14. CASE UNCHANGED vars
  BY <1>14 DEF vars
<1> QED
  BY <1>1, <1>2, <1>3, <1>4, <1>5, <1>6, <1>7, <1>8, <1>9, <1>10, <1>11, <1>12, <1>13, <1>14
     DEF Next, Work

-----------------------------------------------------------------------------
(* Theorems *)

LEMMA Inductive == Spec => []OInv
<1>1. Init => OInv
  BY TypeInit, OrderInit, StatusesInit DEF OInv, Order
<1>2. OInv /\ [Next]_vars => OInv'
  BY TypeNext, OrderNext, StatusesNext DEF OInv, Order
<1> QED BY <1>1, <1>2, PTL DEF Spec

\* The state of the operator, its caches and the cluster stays well-typed; in
\* particular Reconcile walks the children only of an instance that it read with
\* its finalizer, not deleted and not suspended.
THEOREM OperatorTypeCorrect == Spec => []TypeOK
<1>1. OInv => TypeOK
  BY DEF OInv
<1> QED BY <1>1, Inductive, PTL

\* Reconcile never leaves a child in the cluster that the finalizer of its
\* instance does not protect, however stale its caches are.
THEOREM ChildrenAreProtected == Spec => []ChildrenNeedFinalizer
<1>1. OInv => ChildrenNeedFinalizer
  BY DEF OInv
<1> QED BY <1>1, Inductive, PTL

\* No write of a Reconcile that outlived its instance creates a child.
THEOREM NoOrphansEver == Spec => NoOrphans
<1>1. OInv /\ [Next]_vars => [kai = Gone => \A k \in Owned : obj'[k] # Absent => obj[k] # Absent]_vars
  BY CreationNeedsWalk DEF OInv, WalksProtected
<1> QED BY <1>1, Inductive, PTL DEF Spec, NoOrphans

\* Whatever fails in between, the status that Reconcile writes says ready only
\* of an instance that it says is running.
THEOREM ReadyImpliesRunning == Spec => []ReadyIsRunning
<1>1. OInv => ReadyIsRunning
  BY DEF OInv, StatusesHonest, ReadyRuns, ReadyIsRunning
<1> QED BY <1>1, Inductive, PTL

-----------------------------------------------------------------------------
(* The reported generation *)

\* x is the instance as it once was: one generation has one spec, and nothing
\* was reported of a generation that x does not have yet.
Past(x) ==
    x # Gone /\ kai # Gone =>
        /\ x.gen <= kai.gen
        /\ x.gen = kai.gen => x.spec = kai.spec
        /\ kai.status.obs <= x.gen
        /\ x.deleting => x.fin

Held ==
    kai # Gone =>
        /\ kai.gen >= 1
        /\ kai.status.obs <= kai.gen
        /\ kai.deleting => kai.fin
        /\ kai.status.obs # 0 => kai.fin
        /\ seen = Gone => kai.status.obs = 0 /\ pc = "idle"
        /\ pc # "idle" => read.gen <= seen.gen

\* The copy Reconcile works on, and the status built from it.
Working ==
    pc # "idle" =>
        /\ Past(read)
        /\ st.obs = read.status.obs
        /\ pc \in {"scale", "suspend"} => read.spec.suspended
        /\ pc = "finalize" => ~read.fin

Copies == Held /\ Past(seen) /\ Working

\* Only others make a child disappear that the cache still shows; and Ingress.
ViewOf(k) == view[k] # Absent /\ obj[k] = Absent => k \in drifted \/ k = "ingress"

Missed(k) == k = "ingress" /\ ~kai.spec.external

\* A child that the walk has left behind is as the spec wants it.
Remaining == {todo[i] : i \in DOMAIN todo}
DoneOf(k) ==
    pc = "children" /\ read.gen = kai.gen =>
        \/ k \in Remaining
        \/ Matches(k)
        \/ k \in drifted
        \/ Missed(k) /\ (lag[k] \/ queued)

HonestOf(k) ==
    UpToDate =>
        \/ Matches(k)
        \/ k \in drifted
        \/ Missed(k) /\ (lag[k] \/ queued \/ pc # "idle")

Walked == kai # Gone => \A k \in Owned : ViewOf(k) /\ DoneOf(k) /\ HonestOf(k)

HonestInv == TypeOK /\ Copies /\ Walked

-----------------------------------------------------------------------------
(* The copies of the instance *)

LEMMA InstanceFields ==
    ASSUME NEW x \in Instances
    PROVE  /\ x.gen \in Nat /\ x.status \in Statuses /\ x.status.obs \in Nat
           /\ x.spec \in Specs /\ x.fin \in BOOLEAN /\ x.deleting \in BOOLEAN
           /\ x # Gone
BY Constants DEF Instances, Statuses

LEMMA NotedObs ==
    ASSUME st \in Statuses, NEW k, NEW call
    PROVE  Noted(k, call).obs = st.obs
<1> DEFINE set(c, v) == [st EXCEPT !.cond[c] = v]
<1>1. \A c \in Conditions, v \in {"True", "False"} : set(c, v).obs = st.obs
  BY DEF Statuses
<1> QED BY <1>1 DEF Noted, Conditions

LEMMA FailedObs ==
    ASSUME NEW s \in Statuses, Failing(s)
    PROVE  st'.obs = s.obs /\ pc' = "failed"
BY DEF Failing, Statuses

\* What a step does to the instance.
LEMMA KaiSteps ==
    ASSUME TypeOK, Copies, [Next]_vars
    PROVE  \/ kai' = kai
           \/ kai' = Gone
           \/ /\ kai # Gone /\ kai' # Gone
              /\ kai'.gen = kai.gen + 1 /\ kai'.status = kai.status
              /\ kai'.deleting = kai.deleting /\ kai'.fin = kai.fin
              /\ seen' = seen /\ UNCHANGED worker
           \/ /\ kai # Gone /\ kai' # Gone
              /\ kai'.gen = kai.gen /\ kai'.spec = kai.spec
              /\ kai'.status.obs = kai.status.obs
              /\ kai.fin => kai'.fin
              /\ kai'.deleting => kai.deleting \/ kai.fin
              /\ seen' = seen /\ (UNCHANGED worker \/ pc' = "idle")
           \/ /\ kai # Gone /\ kai' # Gone /\ pc = "children" /\ pc' = "idle"
              /\ kai = read
              /\ kai'.gen = kai.gen /\ kai'.spec = kai.spec
              /\ kai'.status.obs = kai.gen
              /\ kai'.fin = kai.fin /\ kai'.deleting = kai.deleting
              /\ seen' = seen
<1>1. CASE Finalize
  <2>1. kai \in Instances
    BY <1>1 DEF Finalize, TypeOK
  <2>2. CASE pc = "finalize"
    <3>1. kai' = [kai EXCEPT !.fin = TRUE]
      BY <1>1, <2>2 DEF Finalize
    <3>2. /\ kai' \in Instances /\ kai'.fin /\ kai'.deleting = kai.deleting
          /\ kai'.gen = kai.gen /\ kai'.spec = kai.spec /\ kai'.status = kai.status
      BY <2>1, <3>1 DEF Instances
    <3> QED BY <1>1, <2>1, <3>2, InstanceFields DEF Finalize, Return, caches
  <2>3. CASE pc = "unfinalize"
    BY <1>1, <2>3 DEF Finalize
  <2> QED BY <1>1, <2>2, <2>3 DEF Finalize
<1>2. CASE Report
  <2>1. kai \in Instances /\ kai' = [kai EXCEPT !.status = FinalStatus]
    BY <1>2 DEF Report, Reporting, TypeOK
  <2>2. /\ kai'.fin = kai.fin /\ kai'.deleting = kai.deleting
        /\ kai'.gen = kai.gen /\ kai'.spec = kai.spec /\ kai'.status = FinalStatus
    BY <2>1 DEF Instances
  <2>3. kai' \in Instances
    BY <1>2, <2>1, FinalTyped DEF Report, Instances
  <2>4. pc' = "idle" /\ seen' = seen /\ kai = read
    BY <1>2 DEF Report, Return, caches
  <2>5. CASE pc = "children"
    <3>1. FinalStatus.obs = read.gen
      BY <2>5 DEF FinalStatus, TypeOK, Statuses
    <3> QED BY <2>1, <2>2, <2>3, <2>4, <2>5, <3>1, InstanceFields
  <2>6. CASE pc # "children"
    <3>1. FinalStatus = st
      BY <2>6 DEF FinalStatus
    <3>2. pc # "idle"
      BY <1>2 DEF Report, Reporting
    <3>3. st.obs = read.status.obs
      BY <3>2 DEF Copies, Working
    <3> QED BY <2>1, <2>2, <2>3, <2>4, <3>1, <3>3, InstanceFields
  <2> QED BY <2>5, <2>6
<1>3. CASE EditSpec
  <2>1. PICK s \in Specs : kai' = [kai EXCEPT !.spec = s, !.gen = @ + 1]
    BY <1>3 DEF EditSpec
  <2>2. kai \in Instances
    BY <1>3 DEF EditSpec, TypeOK
  <2>3. /\ kai'.fin = kai.fin /\ kai'.deleting = kai.deleting
        /\ kai'.gen = kai.gen + 1 /\ kai'.status = kai.status
    BY <2>1, <2>2 DEF Instances
  <2>4. kai' \in Instances
    BY <2>1, <2>2, EditTyped
  <2> QED BY <1>3, <2>2, <2>3, <2>4, InstanceFields DEF EditSpec, caches
<1>4. CASE DeleteInstance
  <2>1. kai \in Instances
    BY <1>4 DEF DeleteInstance, TypeOK
  <2>2. CASE kai.fin
    <3>1. kai' = [kai EXCEPT !.deleting = TRUE]
      BY <1>4, <2>2 DEF DeleteInstance
    <3>2. /\ kai' \in Instances /\ kai'.fin = kai.fin /\ kai'.deleting
          /\ kai'.gen = kai.gen /\ kai'.spec = kai.spec /\ kai'.status = kai.status
      BY <2>1, <3>1 DEF Instances
    <3> QED BY <1>4, <2>1, <2>2, <3>2, InstanceFields DEF DeleteInstance, caches
  <2>3. CASE ~kai.fin
    BY <1>4, <2>3 DEF DeleteInstance
  <2> QED BY <2>2, <2>3
<1>5. CASE kai' = kai
  BY <1>5
<1> QED
  BY <1>1, <1>2, <1>3, <1>4, <1>5 DEF Next, Work, Begin, ScaleDown, ReconcileChild,
     InstanceConflict, ChildCallFails, RenderFails, InstanceCallFails, OperatorRestarts,
     SyncInstance, SyncChild, Collect, ChildStatus, Drift, world, vars

\* What a step does to cache and worker.
LEMMA WorkerSteps ==
    ASSUME TypeOK, [Next]_vars
    PROVE  /\ seen' = seen \/ (seen' = kai /\ kai' = kai)
           /\ \/ UNCHANGED worker
              \/ pc' = "idle"
              \/ /\ pc = "idle" /\ seen # Gone /\ read' = seen
                 /\ st'.obs = seen.status.obs /\ kai' = kai /\ seen' = seen
                 /\ pc' \in {"scale", "suspend"} => seen.spec.suspended
                 /\ pc' = "finalize" => ~seen.fin
              \/ /\ pc # "idle" /\ read' = read /\ st'.obs = st.obs
                 /\ kai' = kai /\ seen' = seen
                 /\ pc' = "suspend" => pc = "scale"
                 /\ pc' \notin {"scale", "finalize"}
<1>1. CASE Begin
  <2>1. CASE UNCHANGED worker
    BY <1>1, <2>1 DEF Begin, caches
  <2>2. CASE ~UNCHANGED worker
    <3>1. /\ seen # Gone /\ read' = seen
          /\ pc' = IF seen.deleting            THEN "unfinalize"
                   ELSE IF ~seen.fin           THEN "finalize"
                   ELSE IF seen.spec.suspended THEN "scale"
                   ELSE "children"
          /\ st' = [seen.status EXCEPT !.phase =
                      IF pc' = "children" /\ @ # "Running" THEN "Provisioning" ELSE @]
      BY <1>1, <2>2 DEF Begin
    <3>2. seen.status \in Statuses
      BY <3>1 DEF TypeOK, Instances
    <3>3. st'.obs = seen.status.obs
      BY <3>1, <3>2 DEF Statuses
    <3>4. /\ pc' \in {"scale", "suspend"} => seen.spec.suspended
          /\ pc' = "finalize" => ~seen.fin
      BY <3>1
    <3> QED BY <1>1, <3>1, <3>3, <3>4 DEF Begin, world, caches
  <2> QED BY <2>1, <2>2
<1>2. CASE ScaleDown
  <2>1. CASE Requeue
    BY <1>2, <2>1 DEF ScaleDown, Requeue, Return
  <2>2. CASE pc' = "suspend" /\ st' = [st EXCEPT !.phase = "Suspended", !.ready = FALSE]
    <3>1. st'.obs = st.obs
      BY <2>2 DEF TypeOK, Statuses
    <3> QED BY <1>2, <2>2, <3>1 DEF ScaleDown, Requeue, Return
  <2> QED BY <1>2, <2>1, <2>2 DEF ScaleDown
<1>3. CASE ReconcileChild
  <2> DEFINE n == Noted(Head(todo), Call(Head(todo)))
  <2>1. n \in Statuses /\ n.obs = st.obs
    BY NotedStatus, NotedObs DEF TypeOK
  <2>2. (st' = n /\ pc' = pc) \/ Failing(n)
    BY <1>3 DEF ReconcileChild
  <2>3. st'.obs = st.obs /\ pc' \in {"children", "failed"}
    BY <1>3, <2>1, <2>2, FailedObs DEF ReconcileChild
  <2> QED BY <1>3, <2>3 DEF ReconcileChild
<1>4. CASE ChildCallFails
  <2>1. st'.obs = st.obs /\ pc' = "failed"
    BY <1>4, NotedStatus, NotedObs, FailedObs DEF ChildCallFails, TypeOK
  <2> QED BY <1>4, <2>1 DEF ChildCallFails
<1>5. CASE RenderFails
  <2>1. st'.obs = st.obs /\ pc' = "failed"
    BY <1>5, FailedObs DEF RenderFails, TypeOK
  <2> QED BY <1>5, <2>1 DEF RenderFails, world, caches
<1>6. CASE Finalize \/ Report \/ InstanceConflict \/ InstanceCallFails
  BY <1>6 DEF Finalize, Report, InstanceConflict, InstanceCallFails, Requeue, Return,
     world, caches
<1>7. CASE OperatorRestarts
  BY <1>7 DEF OperatorRestarts, Return, world
<1>8. CASE EditSpec \/ DeleteInstance \/ SyncInstance
  BY <1>8 DEF EditSpec, DeleteInstance, SyncInstance, world, caches
<1>9. CASE \E k \in Owned : SyncChild(k) \/ Collect(k) \/ ChildStatus(k) \/ Drift(k)
  BY <1>9 DEF SyncChild, Collect, ChildStatus, Drift
<1>10. CASE UNCHANGED vars
  BY <1>10 DEF vars, worker
<1> QED BY <1>1, <1>2, <1>3, <1>4, <1>5, <1>6, <1>7, <1>8, <1>9, <1>10 DEF Next, Work

LEMMA CopiesInit == Init => Copies
<1> SUFFICES ASSUME Init PROVE Copies
  OBVIOUS
<1>1. kai.gen = 1 /\ kai.status = NewStatus /\ ~kai.deleting
  BY DEF Init
<1>2. NewStatus.obs = 0
  BY DEF NewStatus
<1>3. seen = Gone /\ pc = "idle"
  BY DEF Init
<1> QED BY <1>1, <1>2, <1>3 DEF Copies, Held, Past, Working

LEMMA CopiesNext == TypeOK /\ Copies /\ [Next]_vars => Copies'
<1> SUFFICES ASSUME TypeOK, Copies, [Next]_vars PROVE Copies'
  OBVIOUS
<1>i. /\ kai # Gone => kai.gen \in Nat /\ kai.status.obs \in Nat
      /\ seen # Gone => seen.gen \in Nat /\ seen.status.obs \in Nat
      /\ read # Gone => read.gen \in Nat /\ read.status.obs \in Nat
      /\ pc # "idle" => read # Gone
      /\ pc = "children" => read.fin
  BY InstanceFields DEF TypeOK
<1>k. CASE kai' = Gone
  <2>1. Working'
    BY <1>k, WorkerSteps DEF Copies, Working, Past, worker
  <2> QED BY <1>k, <2>1 DEF Copies, Held, Past
<1>g. kai = Gone => kai' = Gone
  BY KaiSteps
<1>1. CASE kai # Gone /\ kai' # Gone
  <2>1. Held'
    BY <1>1, <1>i, KaiSteps, WorkerSteps DEF Copies, Held, Working, Past, worker
  <2>2. Past(seen)'
    BY <1>1, <1>i, KaiSteps, WorkerSteps DEF Copies, Held, Past
  <2>3. Working'
    BY <1>1, <1>i, KaiSteps, WorkerSteps DEF Copies, Held, Working, Past, worker
  <2> QED BY <2>1, <2>2, <2>3 DEF Copies
<1> QED BY <1>k, <1>g, <1>1

-----------------------------------------------------------------------------
(* The children *)

\* A child that did not change, or only in what its pods do, is as good as before.
LEMMA SameChild ==
    ASSUME kai # Gone, kai' # Gone, kai'.spec = kai.spec, NEW k \in Owned,
           \/ obj'[k] = obj[k]
           \/ /\ obj[k] # Absent /\ obj'[k] # Absent
              /\ obj'[k].cfg = obj[k].cfg /\ obj'[k].replicas = obj[k].replicas
    PROVE  /\ Matches(k) => Matches(k)'
           /\ obj'[k] = Absent <=> obj[k] = Absent
BY DEF Matches

LEMMA BecomesHere ==
    ASSUME TypeOK, NEW k \in Owned, NEW c, Becomes(k, c)
    PROVE  /\ obj'[k] = c
           /\ \A j \in Owned : j # k => obj'[j] = obj[j]
           /\ \A j \in Owned : lag[j] => lag'[j]
BY DEF Becomes, TypeOK

\* A call for the current spec leaves the child as that spec wants it, or as
\* others made it, or the cache did not show the Ingress to be deleted.
LEMMA CallSucceeds ==
    ASSUME TypeOK, kai # Gone, read # Gone, read.spec = kai.spec, kai' = kai,
           view' = view, drifted' = drifted,
           NEW k \in Owned, ViewOf(k), Accepts(k, Call(k)), Becomes(k, Result(k, Call(k)))
    PROVE  Matches(k)' \/ k \in drifted' \/ (Missed(k)' /\ lag'[k])
<1> DEFINE call == Call(k)
<1>1. obj'[k] = Result(k, call) /\ (lag[k] => lag'[k])
  BY BecomesHere
<1>2. ~lag'[k] => view[k] = obj'[k]
  BY ResultTyped, BecomesTyped
<1>3. CASE k = "ingress" /\ ~kai.spec.external
  <2>1. CASE view[k] = Absent
    <3>1. CASE lag'[k]
      BY <1>3, <2>1, <3>1 DEF Missed, ViewOf
    <3>2. CASE ~lag'[k]
      BY <1>2, <1>3, <2>1, <3>2 DEF Matches, ViewOf
    <3> QED BY <3>1, <3>2
  <2>2. CASE view[k] # Absent
    <3>1. call = "delete"
      BY <1>3, <2>2 DEF Call, Kept
    <3>2. obj'[k] = Absent
      BY <1>1, <3>1 DEF Result
    <3> QED BY <1>3, <3>2 DEF Matches, ViewOf
  <2> QED BY <2>1, <2>2
<1>4. CASE ~(k = "ingress" /\ ~kai.spec.external)
  <2>a. \A c \in Objects : c # Absent
    BY Constants
  <2>c. read.spec.cfg \in Cfgs
    BY InstanceFields DEF TypeOK, Specs
  <2>1. CASE view[k] = Absent
    <3>1. call = "create"
      BY <1>4, <2>1 DEF Call
    <3>2. obj'[k] = [cfg |-> read.spec.cfg, replicas |-> 1, up |-> FALSE]
      BY <1>1, <3>1 DEF Result
    <3>3. obj'[k] \in Objects /\ obj'[k].cfg = read.spec.cfg /\ obj'[k].replicas = 1
      BY <2>c, <3>2 DEF Objects
    <3> QED BY <1>4, <2>a, <3>3 DEF Matches, ViewOf
  <2>2. CASE view[k] # Absent /\ k \in Kept
    <3>1. obj'[k] = obj[k]
      BY <1>1, <1>4, <2>2 DEF Call, Result
    <3>2. k \notin Updated /\ k # "deployment" /\ k # "ingress"
      BY <2>2 DEF Kept, Updated
    <3> QED BY <1>4, <2>2, <3>1, <3>2 DEF Matches, ViewOf
  <2>3. CASE view[k] # Absent /\ k \notin Kept
    <3>1. call = "update"
      BY <1>4, <2>3 DEF Call
    <3>2. obj[k] \in Objects
      BY <2>3, <3>1 DEF Accepts, TypeOK
    <3>3. obj'[k] = [obj[k] EXCEPT !.cfg = read.spec.cfg, !.replicas = 1]
      BY <1>1, <3>1 DEF Result
    <3>4. obj'[k] \in Objects /\ obj'[k].cfg = read.spec.cfg /\ obj'[k].replicas = 1
      BY <2>c, <3>2, <3>3 DEF Objects
    <3> QED BY <1>4, <2>a, <3>4 DEF Matches, ViewOf
  <2> QED BY <2>1, <2>2, <2>3
<1> QED BY <1>3, <1>4

\* Whatever the spec, a call does not remove a child but the Ingress.
LEMMA CallShown ==
    ASSUME TypeOK, read # Gone, view' = view, drifted' = drifted,
           NEW k \in Owned, ViewOf(k), Accepts(k, Call(k)), Becomes(k, Result(k, Call(k)))
    PROVE  ViewOf(k)'
<1>1. obj'[k] = Result(k, Call(k))
  BY BecomesHere
<1>2. CASE Call(k) = "none"
  BY <1>1, <1>2 DEF Result, ViewOf
<1>3. CASE Call(k) = "create"
  BY <1>3 DEF Call, ViewOf
<1>4. CASE Call(k) = "update"
  <2>1. obj[k] \in Objects
    BY <1>4 DEF Call, Accepts, TypeOK
  <2>2. [obj[k] EXCEPT !.cfg = read.spec.cfg, !.replicas = 1] \in Objects
    BY <2>1, InstanceFields DEF TypeOK, Objects, Specs
  <2> QED BY <1>1, <1>4, <2>2, Constants DEF Result, ViewOf
<1>5. CASE Call(k) = "delete"
  BY <1>5 DEF Call, ViewOf
<1> QED BY <1>2, <1>3, <1>4, <1>5 DEF Call

\* The walk begins with all of the children, and leaves behind the first.
LEMMA AllRemain == \A k \in Owned : \E i \in DOMAIN Children : k = Children[i]
BY DEF Owned

LEMMA HeadLeaves ==
    ASSUME todo \in Seq(Owned), todo # <<>>, todo' = Tail(todo), NEW k \in Remaining
    PROVE  k = Head(todo) \/ k \in Remaining'
<1>1. PICK i \in 1 .. Len(todo) : k = todo[i]
  BY DEF Remaining
<1>2. CASE i = 1
  BY <1>1, <1>2
<1>3. CASE i # 1
  <2>1. i - 1 \in 1 .. Len(Tail(todo))
    BY <1>1, <1>3, HeadTailProperties
  <2>2. Tail(todo)[i - 1] = todo[i]
    BY <1>1, <2>1, HeadTailProperties
  <2>3. DOMAIN Tail(todo) = 1 .. Len(Tail(todo))
    BY HeadTailProperties
  <2> QED BY <1>1, <2>1, <2>2, <2>3 DEF Remaining
<1> QED BY <1>2, <1>3

\* While the status is up to date, Reconcile works on the current spec.
LEMMA WorksOnCurrent ==
    ASSUME TypeOK, Copies, UpToDate
    PROVE  /\ kai.status.obs # 0 /\ kai.fin /\ seen # Gone
           /\ ~(seen.deleting /\ ~seen.fin)
           /\ pc # "idle" => read.gen = kai.gen /\ read.spec = kai.spec
           /\ pc \notin {"scale", "suspend"}
           /\ pc = "finalize" => kai # read
<1>1. /\ kai # Gone /\ kai.gen \in Nat /\ kai.status.obs \in Nat
      /\ pc # "idle" => read # Gone /\ read.gen \in Nat
  BY InstanceFields DEF TypeOK, UpToDate
<1> QED BY <1>1 DEF Copies, Held, Past, Working, UpToDate

\* Steps that leave children and caches of children alone.
LEMMA QuietSteps ==
    ASSUME TypeOK, Copies, Walked, kai # Gone, kai' # Gone, NEW k \in Owned,
           obj' = obj, view' = view, lag' = lag, drifted' = drifted,
           Begin \/ Finalize \/ RenderFails \/ Report \/ InstanceConflict
             \/ InstanceCallFails \/ EditSpec \/ DeleteInstance \/ SyncInstance
    PROVE  ViewOf(k)' /\ DoneOf(k)' /\ HonestOf(k)'
<1>v. ViewOf(k)'
  BY DEF Walked, ViewOf
<1>h. ViewOf(k) /\ DoneOf(k) /\ HonestOf(k)
  BY DEF Walked
<1>s. kai'.spec = kai.spec => (Matches(k)' <=> Matches(k)) /\ (Missed(k)' <=> Missed(k))
  BY DEF Matches, Missed
<1>1. CASE Begin
  <2>1. kai' = kai /\ pc = "idle"
    BY <1>1 DEF Begin, world
  <2>2. CASE UNCHANGED worker
    <3>1. seen = Gone \/ (seen # Gone /\ seen.deleting /\ ~seen.fin) \/ pc' # "idle"
      BY <1>1 DEF Begin
    <3>2. pc' = "idle" /\ ~UpToDate
      BY <2>1, <2>2, <3>1, WorksOnCurrent DEF worker
    <3> QED BY <1>v, <2>1, <3>2 DEF DoneOf, HonestOf, UpToDate
  <2>3. CASE ~UNCHANGED worker
    <3>1. pc' # "idle" /\ (pc' = "children" => todo' = Children)
      BY <1>1, <2>3 DEF Begin
    <3>2. pc' = "children" => k \in Remaining'
      BY <3>1, AllRemain DEF Remaining
    <3> QED BY <1>v, <1>h, <1>s, <2>1, <3>1, <3>2 DEF DoneOf, HonestOf, UpToDate
  <2> QED BY <2>2, <2>3
<1>2. CASE Finalize
  <2>1. pc' = "idle" /\ pc = "finalize" /\ kai = read /\ kai' = [kai EXCEPT !.fin = TRUE]
    BY <1>2 DEF Finalize, Return
  <2>2. kai \in Instances
    BY DEF TypeOK
  <2>3. kai'.gen = kai.gen /\ kai'.spec = kai.spec /\ kai'.status = kai.status
    BY <2>1, <2>2 DEF Instances
  <2>4. ~UpToDate'
    BY <2>1, <2>3, WorksOnCurrent DEF UpToDate
  <2> QED BY <1>v, <2>1, <2>4 DEF DoneOf, HonestOf
<1>3. CASE RenderFails
  <2>1. kai' = kai /\ pc' = "failed"
    BY <1>3 DEF RenderFails, Failing, world
  <2> QED BY <1>v, <1>h, <1>s, <2>1 DEF DoneOf, HonestOf, UpToDate
<1>4. CASE Report
  <2>1. /\ pc' = "idle" /\ kai = read /\ kai' = [kai EXCEPT !.status = FinalStatus]
        /\ queued' = (queued \/ pc = "failed")
    BY <1>4 DEF Report, Return
  <2>2. kai \in Instances
    BY DEF TypeOK
  <2>3. kai'.gen = kai.gen /\ kai'.spec = kai.spec /\ kai'.status = FinalStatus
    BY <2>1, <2>2 DEF Instances
  <2>4. CASE pc = "children"
    <3>1. k \notin Remaining
      BY <1>4, <2>4 DEF Report, Reporting, Remaining
    <3> QED BY <1>v, <1>h, <1>s, <2>1, <2>3, <2>4, <3>1 DEF DoneOf, HonestOf
  <2>5. CASE pc = "failed"
    <3>1. kai'.status.obs = kai.status.obs
      BY <2>1, <2>3, <2>5 DEF FinalStatus, Copies, Working
    <3> QED BY <1>v, <1>h, <1>s, <2>1, <2>3, <2>5, <3>1 DEF DoneOf, HonestOf, UpToDate
  <2>6. CASE pc = "suspend"
    <3>1. ~UpToDate'
      BY <2>1, <2>3, <2>6 DEF UpToDate, Copies, Working
    <3> QED BY <1>v, <2>1, <3>1 DEF DoneOf, HonestOf
  <2> QED BY <1>4, <2>4, <2>5, <2>6 DEF Report, Reporting
<1>5. CASE InstanceConflict \/ InstanceCallFails
  <2>1. kai' = kai /\ queued' /\ pc' = "idle"
    BY <1>5 DEF InstanceConflict, InstanceCallFails, Requeue, Return, world
  <2> QED BY <1>v, <1>h, <1>s, <2>1 DEF DoneOf, HonestOf, UpToDate
<1>6. CASE EditSpec
  <2>1. PICK s \in Specs : kai' = [kai EXCEPT !.spec = s, !.gen = @ + 1]
    BY <1>6 DEF EditSpec
  <2>2. kai \in Instances /\ UNCHANGED worker
    BY <1>6 DEF TypeOK, EditSpec
  <2>3. kai'.gen = kai.gen + 1 /\ kai'.status = kai.status
    BY <2>1, <2>2 DEF Instances
  <2>4. /\ kai.gen \in Nat /\ kai.status.obs \in Nat
        /\ pc # "idle" => read # Gone /\ read.gen \in Nat
    BY <2>2, InstanceFields DEF TypeOK
  <2>5. kai.status.obs <= kai.gen /\ (pc = "children" => read.gen <= kai.gen)
    BY <2>4 DEF Copies, Held, Past, Working
  <2>6. ~UpToDate' /\ (pc = "children" => read'.gen # kai'.gen)
    BY <2>2, <2>3, <2>4, <2>5 DEF UpToDate, worker
  <2> QED BY <1>v, <2>2, <2>6 DEF DoneOf, HonestOf, worker
<1>7. CASE DeleteInstance
  <2>1. kai' = [kai EXCEPT !.deleting = TRUE] /\ UNCHANGED <<worker, queued>>
    BY <1>7 DEF DeleteInstance
  <2>2. kai \in Instances
    BY DEF TypeOK
  <2>3. kai'.gen = kai.gen /\ kai'.spec = kai.spec /\ kai'.status = kai.status
    BY <2>1, <2>2 DEF Instances
  <2>4. Remaining' = Remaining /\ pc' = pc /\ read' = read /\ queued' = queued
    BY <2>1 DEF worker, Remaining
  <2> QED BY <1>v, <1>h, <1>s, <2>3, <2>4 DEF DoneOf, HonestOf, UpToDate
<1>8. CASE SyncInstance
  <2>1. kai' = kai /\ queued' /\ UNCHANGED worker
    BY <1>8 DEF SyncInstance, world
  <2>2. Remaining' = Remaining /\ pc' = pc /\ read' = read
    BY <2>1 DEF worker, Remaining
  <2> QED BY <1>v, <1>h, <1>s, <2>1, <2>2 DEF DoneOf, HonestOf, UpToDate
<1> QED BY <1>1, <1>2, <1>3, <1>4, <1>5, <1>6, <1>7, <1>8

\* Steps of others on a child, and of the caches of children.
LEMMA ChildSteps ==
    ASSUME TypeOK, Copies, Walked, kai # Gone, NEW k \in Owned, NEW j \in Owned,
           SyncChild(j) \/ ChildStatus(j) \/ Drift(j)
    PROVE  ViewOf(k)' /\ DoneOf(k)' /\ HonestOf(k)'
<1>h. ViewOf(k) /\ DoneOf(k) /\ HonestOf(k)
  BY DEF Walked
<1>w. /\ kai' = kai /\ pc' = pc /\ read' = read /\ Remaining' = Remaining
      /\ queued => queued'
  <2>1. kai' = kai /\ UNCHANGED worker
    BY DEF SyncChild, ChildStatus, Drift, world
  <2>2. queued => queued'
    BY Zenon DEF SyncChild, ChildStatus, Drift
  <2> QED BY <2>1, <2>2 DEF worker, Remaining
<1>m. Missed(k)' <=> Missed(k)
  BY <1>w DEF Missed
<1>1. CASE SyncChild(j)
  <2>1. obj' = obj /\ drifted' = drifted /\ (Matches(k)' <=> Matches(k))
    BY <1>1, <1>w DEF SyncChild, world, Matches
  <2>2. view'[k] = view[k] \/ view'[k] = obj[k]
    BY <1>1 DEF SyncChild, TypeOK
  <2>3. k = "ingress" /\ lag[k] => lag'[k] \/ queued'
    BY <1>1 DEF SyncChild, TypeOK
  <2> QED BY <1>h, <1>w, <1>m, <2>1, <2>2, <2>3 DEF ViewOf, DoneOf, HonestOf, UpToDate, Missed
<1>2. CASE ChildStatus(j)
  <2>1. obj[j] \in Objects /\ drifted' = drifted /\ view' = view
    BY <1>2 DEF ChildStatus, TypeOK
  <2> DEFINE c == [obj[j] EXCEPT !.up = ~@]
  <2>2. Becomes(j, c)
    BY <1>2 DEF ChildStatus
  <2>3. c.cfg = obj[j].cfg /\ c.replicas = obj[j].replicas /\ c \in Objects
    BY <2>1 DEF Objects
  <2> HIDE DEF c
  <2>4. c # Absent /\ obj[j] # Absent
    BY <2>1, <2>3, Constants
  <2>5. /\ \/ obj'[k] = obj[k]
           \/ /\ obj[k] # Absent /\ obj'[k] # Absent
              /\ obj'[k].cfg = obj[k].cfg /\ obj'[k].replicas = obj[k].replicas
        /\ lag[k] => lag'[k]
    BY <2>2, <2>3, <2>4, BecomesHere
  <2>6. (Matches(k) => Matches(k)') /\ (obj'[k] = Absent <=> obj[k] = Absent)
    BY <1>w, <2>5, SameChild
  <2> QED BY <1>h, <1>w, <1>m, <2>1, <2>5, <2>6 DEF ViewOf, DoneOf, HonestOf, UpToDate
<1>3. CASE Drift(j)
  <2>1. drifted' = drifted \union {j} /\ view' = view
    BY <1>3 DEF Drift
  <2>2. CASE k = j
    BY <2>1, <2>2 DEF ViewOf, DoneOf, HonestOf
  <2>3. CASE k # j
    <3>1. obj'[k] = obj[k] /\ (lag[k] => lag'[k])
      BY <1>3, <2>3, BecomesHere DEF Drift
    <3>2. Matches(k) => Matches(k)'
      BY <1>w, <3>1, SameChild
    <3> QED BY <1>h, <1>w, <1>m, <2>1, <3>1, <3>2 DEF ViewOf, DoneOf, HonestOf, UpToDate
  <2> QED BY <2>2, <2>3
<1> QED BY <1>1, <1>2, <1>3

\* Steps of the worker on a child, and its restart.
LEMMA WalkSteps ==
    ASSUME TypeOK, Copies, Walked, kai # Gone, NEW k \in Owned,
           ScaleDown \/ ReconcileChild \/ ChildCallFails \/ OperatorRestarts
    PROVE  ViewOf(k)' /\ DoneOf(k)' /\ HonestOf(k)'
<1>h. ViewOf(k) /\ DoneOf(k) /\ HonestOf(k)
  BY DEF Walked
<1>w. kai' = kai /\ drifted' = drifted
  BY DEF ScaleDown, ReconcileChild, ChildCallFails, OperatorRestarts, world
<1>m. (Missed(k)' <=> Missed(k)) /\ (UpToDate' <=> UpToDate)
  BY <1>w DEF Missed, UpToDate
<1>1. CASE ScaleDown
  <2>1. ~UpToDate /\ view' = view /\ pc' # "children"
    BY <1>1, WorksOnCurrent DEF ScaleDown, Requeue, Return
  <2>2. obj'[k] = Absent => obj[k] = Absent
    <3> DEFINE there == view["deployment"] # Absent /\ view["deployment"].replicas = 1
    <3>1. CASE there /\ ~lag["deployment"]
      <4>1. obj["deployment"] \in Objects
        BY <3>1, Constants DEF TypeOK
      <4> DEFINE c == [obj["deployment"] EXCEPT !.replicas = 0]
      <4>2. c \in Objects /\ Becomes("deployment", c)
        BY <1>1, <3>1, <4>1 DEF ScaleDown, Objects
      <4> HIDE DEF c
      <4> QED BY <4>2, BecomesHere, Constants
    <3>2. CASE ~(there /\ ~lag["deployment"])
      BY <1>1, <3>2 DEF ScaleDown
    <3> QED BY <3>1, <3>2
  <2> QED BY <1>h, <1>w, <1>m, <2>1, <2>2 DEF ViewOf, DoneOf, HonestOf
<1>2. CASE OperatorRestarts
  <2>1. obj' = obj /\ view' = obj /\ queued' /\ pc' = "idle" /\ (Matches(k)' <=> Matches(k))
    BY <1>2, <1>w DEF OperatorRestarts, Return, world, Matches
  <2> QED BY <1>h, <1>w, <1>m, <2>1 DEF ViewOf, DoneOf, HonestOf
<1>3. CASE ReconcileChild \/ ChildCallFails
  <2> DEFINE h == Head(todo)
             call == Call(h)
  <2>1. /\ pc = "children" /\ view' = view /\ read' = read /\ queued' = queued
        /\ todo # <<>> /\ h \in Owned /\ read # Gone
    BY <1>3, HeadTailProperties DEF ReconcileChild, ChildCallFails, TypeOK
  <2>2. \/ UNCHANGED <<obj, lag>> /\ pc' = "failed"
        \/ /\ Accepts(h, call) /\ Becomes(h, Result(h, call))
           /\ pc' = "failed" \/ (pc' = "children" /\ todo' = Tail(todo))
    BY <1>3 DEF ReconcileChild, ChildCallFails, Failing
  <2>3. CASE UNCHANGED <<obj, lag>> /\ pc' = "failed"
    <3>1. Matches(k)' <=> Matches(k)
      BY <1>w, <2>3 DEF Matches
    <3> QED BY <1>h, <1>w, <1>m, <2>1, <2>3, <3>1 DEF ViewOf, DoneOf, HonestOf
  <2>4. CASE /\ Accepts(h, call) /\ Becomes(h, Result(h, call))
             /\ pc' = "failed" \/ (pc' = "children" /\ todo' = Tail(todo))
    <3>1. CASE k = h
      <4>1. ViewOf(k)'
        BY <1>h, <1>w, <2>1, <2>4, <3>1, CallShown
      <4>2. read.gen = kai.gen => read.spec = kai.spec
        BY <2>1 DEF Copies, Working, Past
      <4>3. read.gen = kai.gen => Matches(k)' \/ k \in drifted' \/ (Missed(k)' /\ lag'[k])
        BY <1>h, <1>w, <2>1, <2>4, <3>1, <4>2, CallSucceeds
      <4>4. UpToDate => read.gen = kai.gen
        BY <2>1, WorksOnCurrent
      <4> QED BY <1>w, <1>m, <2>1, <4>1, <4>3, <4>4 DEF DoneOf, HonestOf
    <3>2. CASE k # h
      <4>1. obj'[k] = obj[k] /\ (lag[k] => lag'[k])
        BY <2>1, <2>4, <3>2, BecomesHere
      <4>2. Matches(k) => Matches(k)'
        BY <1>w, <4>1, SameChild
      <4>3. pc' = "children" /\ k \in Remaining => k \in Remaining'
        BY <2>1, <2>4, <3>2, HeadLeaves DEF TypeOK
      <4> QED BY <1>h, <1>w, <1>m, <2>1, <2>4, <4>1, <4>2, <4>3 DEF ViewOf, DoneOf, HonestOf
    <3> QED BY <3>1, <3>2
  <2> QED BY <2>2, <2>3, <2>4
<1> QED BY <1>1, <1>2, <1>3

LEMMA WalkedInit == Init => Walked
<1> SUFFICES ASSUME Init PROVE Walked
  OBVIOUS
<1>1. kai.gen = 1 /\ kai.status = NewStatus /\ pc = "idle" /\ view = obj
  BY DEF Init
<1>2. NewStatus.obs = 0
  BY DEF NewStatus
<1> QED BY <1>1, <1>2 DEF Walked, ViewOf, DoneOf, HonestOf, UpToDate

LEMMA WalkedNext == TypeOK /\ Copies /\ Walked /\ [Next]_vars => Walked'
<1> SUFFICES ASSUME TypeOK, Copies, Walked, [Next]_vars, kai' # Gone, NEW k \in Owned
             PROVE  ViewOf(k)' /\ DoneOf(k)' /\ HonestOf(k)'
  BY DEF Walked
<1>1. kai # Gone
  BY KaiSteps
<1>2. CASE \/ Begin \/ Finalize \/ RenderFails \/ Report \/ InstanceConflict
           \/ InstanceCallFails \/ EditSpec \/ DeleteInstance \/ SyncInstance
  <2>1. obj' = obj /\ view' = view /\ lag' = lag /\ drifted' = drifted
    BY <1>2 DEF Begin, Finalize, RenderFails, Report, InstanceConflict, InstanceCallFails,
       EditSpec, DeleteInstance, SyncInstance, world, caches
  <2> QED BY <1>1, <1>2, <2>1, QuietSteps
<1>3. CASE ScaleDown \/ ReconcileChild \/ ChildCallFails \/ OperatorRestarts
  BY <1>1, <1>3, WalkSteps
<1>4. ASSUME NEW j \in Owned, SyncChild(j) \/ ChildStatus(j) \/ Drift(j)
      PROVE  ViewOf(k)' /\ DoneOf(k)' /\ HonestOf(k)'
  BY <1>1, <1>4, ChildSteps
<1>5. ASSUME NEW j \in Owned, Collect(j) PROVE FALSE
  BY <1>1, <1>5 DEF Collect
<1>6. CASE UNCHANGED vars
  <2>1. (ViewOf(k)' <=> ViewOf(k)) /\ (HonestOf(k)' <=> HonestOf(k))
    BY <1>6 DEF vars, ViewOf, HonestOf, UpToDate, Matches, Missed
  <2>2. DoneOf(k)' <=> DoneOf(k)
    BY <1>6 DEF vars, DoneOf, Remaining, Matches, Missed
  <2> QED BY <1>1, <2>1, <2>2 DEF Walked
<1> QED BY <1>2, <1>3, <1>4, <1>5, <1>6 DEF Next, Work

-----------------------------------------------------------------------------
(* Theorem *)

\* Whenever observedGeneration equals the generation of an instance that is not
\* suspended, every child is what this generation asks for, but for those others
\* changed and an Ingress that Reconcile is still to hear of, whatever the
\* operator's caches showed it, and however often it failed or was restarted.
THEOREM ObservedIsHonest == Spec => []ObservedHonest
<1>1. Init => HonestInv
  BY TypeInit, CopiesInit, WalkedInit DEF HonestInv
<1>2. HonestInv /\ [Next]_vars => HonestInv'
  BY TypeNext, CopiesNext, WalkedNext DEF HonestInv
<1>3. HonestInv => ObservedHonest
  BY DEF HonestInv, Walked, HonestOf, ObservedHonest, UpToDate, Missed
<1> QED BY <1>1, <1>2, <1>3, PTL DEF Spec

-----------------------------------------------------------------------------
(* Coming to rest *)

\* Child k is what the spec s asks for.
Asked(k, s) ==
    IF k = "ingress" /\ ~s.external
    THEN obj[k] = Absent
    ELSE /\ obj[k] # Absent
         /\ k \in Updated => obj[k].cfg = s.cfg
         /\ k = "deployment" => obj[k].replicas = 1

\* An instance that changes in the cache while Reconcile works is queued again.
Undisturbed == pc # "idle" /\ ~queued => read = seen

\* Which instances get this far, and with what phase.
Stages ==
    /\ pc \in {"finalize", "scale", "suspend", "children"} => ~read.deleting
    /\ pc = "suspend" => st.phase = "Suspended"
    /\ pc = "children" => st.phase \in {"Provisioning", "Running"}

\* A child that the walk has left behind is as Reconcile wants it, or its cached
\* copy is outdated, or became current since and queued the instance.
Left(k) ==
    pc = "children" /\ ~queued /\ ~lag[k] =>
        k \in Remaining \/ k = "pvc" \/ Asked(k, read.spec)

Down(d) == d = Absent \/ (d # Absent /\ d.replicas = 0)

Stopped == pc = "suspend" /\ ~queued /\ ~lag["deployment"] => Down(obj["deployment"])

RestInv ==
    /\ OInv /\ Copies
    /\ Undisturbed /\ Stages /\ (\A k \in Owned : Left(k)) /\ Stopped
    /\ RestsSettled

\* Everything but a PVC that changes or is learnt of leaves a trace.
LEMMA OutsideSteps ==
    ASSUME TypeOK, ~queued',
           \/ EditSpec \/ DeleteInstance \/ SyncInstance \/ UNCHANGED vars
           \/ \E j \in Owned : SyncChild(j) \/ Collect(j) \/ ChildStatus(j) \/ Drift(j)
    PROVE  /\ UNCHANGED worker /\ ~queued /\ seen' = seen
           /\ \A k \in Owned \ {"pvc"} : ~lag'[k] => ~lag[k] /\ obj'[k] = obj[k]
<1>1. CASE EditSpec \/ DeleteInstance \/ SyncInstance \/ UNCHANGED vars
  <2>1. ~SyncInstance
    BY DEF SyncInstance
  <2>2. UNCHANGED <<obj, lag, seen, queued, worker>>
    BY <1>1, <2>1 DEF EditSpec, DeleteInstance, vars, worker, caches
  <2> QED BY <2>2
<1>2. ASSUME NEW j \in Owned, SyncChild(j)
      PROVE  /\ UNCHANGED worker /\ ~queued /\ seen' = seen
             /\ \A k \in Owned \ {"pvc"} : ~lag'[k] => ~lag[k] /\ obj'[k] = obj[k]
  <2>1. j = "pvc" /\ ~queued
    BY <1>2 DEF SyncChild
  <2> QED BY <1>2, <2>1 DEF SyncChild, world, TypeOK
<1>3. ASSUME NEW j \in Owned, Collect(j) \/ ChildStatus(j) \/ Drift(j)
      PROVE  /\ UNCHANGED worker /\ ~queued /\ seen' = seen
             /\ \A k \in Owned \ {"pvc"} : ~lag'[k] => ~lag[k] /\ obj'[k] = obj[k]
  <2>1. UNCHANGED worker /\ ~queued /\ seen' = seen
    BY <1>3 DEF Collect, ChildStatus, Drift
  <2>2. PICK c : Becomes(j, c)
    BY <1>3 DEF Collect, ChildStatus, Drift
  <2> QED BY <2>1, <2>2 DEF Becomes, TypeOK
<1> QED BY <1>1, <1>2, <1>3

LEMMA NotedPhase ==
    ASSUME st \in Statuses, NEW k, NEW call
    PROVE  Noted(k, call).phase = st.phase
<1> DEFINE set(c, v) == [st EXCEPT !.cond[c] = v]
<1>1. \A c \in Conditions, v \in {"True", "False"} : set(c, v).phase = st.phase
  BY DEF Statuses
<1> QED BY <1>1 DEF Noted, Conditions

\* Reconcile takes what the cache has.
LEMMA BeginSteps ==
    ASSUME TypeOK, Begin, pc' # "idle"
    PROVE  /\ read' = seen /\ seen' = seen
           /\ pc' \in {"unfinalize", "finalize", "scale", "children"}
           /\ pc' # "unfinalize" => ~read'.deleting
           /\ pc' = "children" => st'.phase \in {"Provisioning", "Running"} /\ todo' = Children
<1>1. /\ seen # Gone /\ read' = seen /\ seen' = seen
      /\ pc' = IF seen.deleting            THEN "unfinalize"
               ELSE IF ~seen.fin           THEN "finalize"
               ELSE IF seen.spec.suspended THEN "scale"
               ELSE "children"
      /\ st' = [seen.status EXCEPT !.phase =
                  IF pc' = "children" /\ @ # "Running" THEN "Provisioning" ELSE @]
      /\ todo' = IF pc' = "children" THEN Children ELSE <<>>
  BY DEF Begin, worker, caches
<1>2. seen.status \in Statuses
  BY <1>1 DEF TypeOK, Instances
<1>3. pc' = "children" => st'.phase \in {"Provisioning", "Running"}
  BY <1>1, <1>2 DEF Statuses
<1> QED BY <1>1, <1>3

\* The other steps of the worker that do not end its work.
LEMMA ProgressSteps ==
    ASSUME TypeOK, Undisturbed, Stages, pc' # "idle",
           ScaleDown \/ ReconcileChild \/ ChildCallFails \/ RenderFails
    PROVE  Undisturbed' /\ Stages'
<1>1. CASE ScaleDown
  <2>1. /\ pc = "scale" /\ pc' = "suspend" /\ read' = read /\ queued' = queued /\ seen' = seen
        /\ st' = [st EXCEPT !.phase = "Suspended", !.ready = FALSE]
    BY <1>1 DEF ScaleDown, Requeue, Return
  <2>2. st'.phase = "Suspended"
    BY <2>1 DEF TypeOK, Statuses
  <2> QED BY <2>1, <2>2 DEF Undisturbed, Stages
<1>2. CASE ReconcileChild
  <2>1. pc = "children" /\ read' = read /\ queued' = queued /\ seen' = seen
    BY <1>2 DEF ReconcileChild
  <2>2. \/ pc' = "children" /\ st' = Noted(Head(todo), Call(Head(todo)))
        \/ pc' = "failed"
    BY <1>2 DEF ReconcileChild, Failing
  <2>3. pc' = "children" => st'.phase = st.phase
    BY <2>2, NotedPhase DEF TypeOK
  <2> QED BY <2>1, <2>2, <2>3 DEF Undisturbed, Stages
<1>3. CASE ChildCallFails \/ RenderFails
  <2>1. /\ pc = "children" /\ pc' = "failed" /\ read' = read /\ queued' = queued
        /\ seen' = seen
    BY <1>3 DEF ChildCallFails, RenderFails, Failing, caches
  <2> QED BY <2>1 DEF Undisturbed, Stages
<1> QED BY <1>1, <1>2, <1>3

\* An accepted call of which nothing is left to be heard changed nothing: the
\* cache had shown the child as Reconcile wants it.
LEMMA CallUnheard ==
    ASSUME TypeOK, read # Gone, view' = view, read' = read, NEW k \in Owned, k # "pvc",
           Accepts(k, Call(k)), Becomes(k, Result(k, Call(k))), ~lag'[k]
    PROVE  Asked(k, read.spec)'
<1>1. obj'[k] = obj[k] /\ obj[k] = Result(k, Call(k)) /\ view[k] = obj[k]
  BY DEF Becomes, TypeOK
<1>2. read.spec.cfg \in Cfgs
  BY InstanceFields DEF TypeOK, Specs
<1>3. \A c \in Objects : c # Absent
  BY Constants
<1>4. CASE Call(k) = "none"
  <2>1. CASE view[k] = Absent
    BY <1>1, <1>4, <2>1 DEF Call, Asked
  <2>2. CASE view[k] # Absent
    <3>1. k \in Kept
      BY <1>4, <2>2 DEF Call
    <3>2. k \notin Updated /\ k # "deployment" /\ k # "ingress"
      BY <3>1 DEF Kept, Updated
    <3> QED BY <1>1, <2>2, <3>2 DEF Asked
  <2> QED BY <2>1, <2>2
<1>5. CASE Call(k) = "create"
  <2>1. [cfg |-> read.spec.cfg, replicas |-> 1, up |-> FALSE] \in Objects
    BY <1>2 DEF Objects
  <2>2. obj[k] = Absent
    BY <1>5 DEF Accepts
  <2> QED BY <1>1, <1>3, <1>5, <2>1, <2>2 DEF Result
<1>6. CASE Call(k) = "update"
  <2>1. obj[k] \in Objects /\ ~(k = "ingress" /\ ~read.spec.external)
    BY <1>1, <1>6 DEF Call, TypeOK
  <2>2. obj[k] = [obj[k] EXCEPT !.cfg = read.spec.cfg, !.replicas = 1]
    BY <1>1, <1>6 DEF Result
  <2>3. obj[k].cfg = read.spec.cfg /\ obj[k].replicas = 1
    BY <2>1, <2>2 DEF Objects
  <2> QED BY <1>1, <1>3, <2>1, <2>3 DEF Asked
<1>7. CASE Call(k) = "delete"
  BY <1>1, <1>7 DEF Call, Result
<1> QED BY <1>4, <1>5, <1>6, <1>7 DEF Call

\* What Undisturbed, Stages, Left and Stopped say of the worker.
LEMMA StagesNext ==
    ASSUME TypeOK, Undisturbed, Stages, [Next]_vars
    PROVE  Undisturbed' /\ Stages'
<1>1. CASE pc' = "idle"
  BY <1>1 DEF Undisturbed, Stages
<1>2. CASE pc' # "idle"
  <2>1. CASE Begin
    BY <1>2, <2>1, BeginSteps DEF Undisturbed, Stages
  <2>2. CASE ScaleDown \/ ReconcileChild \/ ChildCallFails \/ RenderFails
    BY <1>2, <2>2, ProgressSteps
  <2>3. CASE Finalize \/ Report \/ InstanceConflict \/ InstanceCallFails \/ OperatorRestarts
    BY <1>2, <2>3 DEF Finalize, Report, InstanceConflict, InstanceCallFails,
       OperatorRestarts, Requeue, Return
  <2>4. CASE \/ EditSpec \/ DeleteInstance \/ SyncInstance \/ UNCHANGED vars
             \/ \E j \in Owned : SyncChild(j) \/ Collect(j) \/ ChildStatus(j) \/ Drift(j)
    <3>1. UNCHANGED worker
      BY <2>4 DEF EditSpec, DeleteInstance, SyncInstance, vars, worker, SyncChild, Collect,
         ChildStatus, Drift
    <3>2. Stages'
      BY <3>1 DEF worker, Stages
    <3>3. ~queued' => ~queued /\ seen' = seen
      BY <2>4, OutsideSteps
    <3> QED BY <3>1, <3>2, <3>3 DEF worker, Undisturbed
  <2> QED BY <2>1, <2>2, <2>3, <2>4 DEF Next, Work
<1> QED BY <1>1, <1>2

LEMMA LeftNext ==
    ASSUME TypeOK, NEW k \in Owned, Left(k), [Next]_vars
    PROVE  Left(k)'
<1> SUFFICES ASSUME pc' = "children", ~queued', ~lag'[k], k # "pvc", k \notin Remaining'
             PROVE  Asked(k, read.spec)'
  BY DEF Left
<1>1. CASE Begin
  <2>1. todo' = Children
    BY <1>1, BeginSteps
  <2> QED BY <2>1, AllRemain DEF Remaining
<1>2. CASE ReconcileChild
  <2> DEFINE h == Head(todo)
             call == Call(h)
  <2>1. /\ pc = "children" /\ view' = view /\ read' = read /\ queued' = queued
        /\ todo # <<>> /\ h \in Owned /\ read # Gone
    BY <1>2, HeadTailProperties DEF ReconcileChild, TypeOK
  <2>2. Accepts(h, call) /\ Becomes(h, Result(h, call)) /\ todo' = Tail(todo)
    BY <1>2 DEF ReconcileChild, Failing
  <2>3. CASE k = h
    BY <2>1, <2>2, <2>3, CallUnheard
  <2>4. CASE k # h
    <3>1. obj'[k] = obj[k] /\ ~lag[k]
      BY <2>1, <2>2, <2>4, BecomesHere
    <3>2. k \notin Remaining
      BY <2>1, <2>2, <2>4, HeadLeaves DEF TypeOK
    <3> QED BY <2>1, <3>1, <3>2 DEF Left, Asked
  <2> QED BY <2>3, <2>4
<1>3. CASE \/ ScaleDown \/ ChildCallFails \/ RenderFails \/ Finalize \/ Report
           \/ InstanceConflict \/ InstanceCallFails \/ OperatorRestarts
  BY <1>3 DEF ScaleDown, ChildCallFails, RenderFails, Failing, Finalize, Report,
     InstanceConflict, InstanceCallFails, OperatorRestarts, Requeue, Return
<1>4. CASE \/ EditSpec \/ DeleteInstance \/ SyncInstance \/ UNCHANGED vars
           \/ \E j \in Owned : SyncChild(j) \/ Collect(j) \/ ChildStatus(j) \/ Drift(j)
  <2>1. UNCHANGED worker /\ ~queued /\ ~lag[k] /\ obj'[k] = obj[k]
    BY <1>4, OutsideSteps
  <2>2. pc = "children" /\ k \notin Remaining /\ read' = read
    BY <2>1 DEF worker, Remaining
  <2> QED BY <2>1, <2>2 DEF Left, Asked
<1> QED BY <1>1, <1>2, <1>3, <1>4 DEF Next, Work

LEMMA StoppedNext == TypeOK /\ Stopped /\ [Next]_vars => Stopped'
<1> SUFFICES ASSUME TypeOK, Stopped, [Next]_vars,
                    pc' = "suspend", ~queued', ~lag'["deployment"]
             PROVE  Down(obj["deployment"])'
  BY DEF Stopped
<1> USE Constants
<1>1. CASE ScaleDown
  <2> DEFINE d == view["deployment"]
             there == d # Absent /\ d.replicas = 1
  <2>1. CASE there
    <3>1. ~lag["deployment"] /\ obj["deployment"] \in Objects /\ obj["deployment"].replicas = 1
      BY <1>1, <2>1 DEF ScaleDown, Requeue, Return, TypeOK
    <3>2. [obj["deployment"] EXCEPT !.replicas = 0] # obj["deployment"]
      BY <3>1 DEF Objects
    <3>3. lag'["deployment"]
      BY <1>1, <2>1, <3>1, <3>2 DEF ScaleDown, Requeue, Return, Becomes, TypeOK
    <3> QED BY <3>3
  <2>2. CASE ~there
    <3>1. UNCHANGED <<obj, lag>>
      BY <1>1, <2>2 DEF ScaleDown, Requeue, Return
    <3>2. obj["deployment"] = d
      BY <3>1 DEF TypeOK
    <3>3. d # Absent => d.replicas \in {0, 1}
      BY DEF TypeOK, Objects
    <3> QED BY <2>2, <3>1, <3>2, <3>3 DEF Down
  <2> QED BY <2>1, <2>2
<1>2. CASE \/ Begin \/ ReconcileChild \/ ChildCallFails \/ RenderFails \/ Finalize \/ Report
           \/ InstanceConflict \/ InstanceCallFails \/ OperatorRestarts
  <2>1. ~Begin
    BY BeginSteps
  <2> QED BY <1>2, <2>1 DEF ReconcileChild, ChildCallFails, RenderFails, Failing, Finalize,
     Report, InstanceConflict, InstanceCallFails, OperatorRestarts, Requeue, Return
<1>3. CASE \/ EditSpec \/ DeleteInstance \/ SyncInstance \/ UNCHANGED vars
           \/ \E j \in Owned : SyncChild(j) \/ Collect(j) \/ ChildStatus(j) \/ Drift(j)
  <2>1. /\ UNCHANGED worker /\ ~queued /\ ~lag["deployment"]
        /\ obj'["deployment"] = obj["deployment"]
    BY <1>3, OutsideSteps
  <2> QED BY <2>1 DEF Stopped, Down, worker
<1> QED BY <1>1, <1>2, <1>3 DEF Next, Work

\* While the instance and what is watched of its children do not change, it
\* stays settled.
LEMMA SettledStays ==
    ASSUME kai # Gone, kai' = kai, Settled, "deployment" \in Owned,
           \A k \in Owned \ {"pvc"} : obj'[k] = obj[k]
    PROVE  Settled'
<1>1. obj'["deployment"] = obj["deployment"]
  OBVIOUS
<1>2. \A k \in Owned \ {"pvc"} : Matches(k)' <=> Matches(k)
  BY DEF Matches
<1> QED BY <1>1, <1>2 DEF Settled, UpToDate

\* The step that ends a reconcile, when it leaves nothing to be heard of.
LEMMA ReportSettles ==
    ASSUME RestInv, Report, AtRest'
    PROVE  Settled'
<1>1. /\ pc \in {"failed", "suspend", "children"} /\ kai = read /\ pc # "failed" /\ ~queued
      /\ kai' = [kai EXCEPT !.status = FinalStatus]
      /\ UNCHANGED <<obj, seen, lag, view>>
      /\ pc = "children" => todo = <<>>
  BY DEF Report, Reporting, AtRest, caches
<1>2. read \in Instances /\ st \in Statuses
  BY <1>1 DEF RestInv, OInv, TypeOK
<1>3. /\ kai' # Gone /\ kai'.spec = read.spec /\ kai'.gen = read.gen
      /\ kai'.deleting = read.deleting /\ kai'.status = FinalStatus
  <2>1. kai' # Gone
    BY DEF AtRest
  <2> QED BY <1>1, <1>2, <2>1 DEF Instances
<1>4. ~read.deleting
  BY <1>1 DEF RestInv, Stages
<1>5. \A k \in Owned \ {"pvc"} : ~lag[k] /\ view[k] = obj[k] /\ obj'[k] = obj[k]
  BY <1>1 DEF AtRest, RestInv, OInv, TypeOK
<1>6. "deployment" \in Owned \ {"pvc"}
  BY Constants
<1>7. CASE pc = "suspend"
  <2>1. read.spec.suspended /\ st.phase = "Suspended" /\ FinalStatus = st
    BY <1>7 DEF RestInv, Copies, Working, Stages, FinalStatus
  <2>2. Down(obj["deployment"])
    BY <1>1, <1>5, <1>6, <1>7 DEF RestInv, Stopped
  <2> QED BY <1>3, <1>4, <1>5, <1>6, <2>1, <2>2 DEF Settled, Down
<1>8. CASE pc = "children"
  <2>1. ~read.spec.suspended
    BY <1>8 DEF RestInv, OInv, TypeOK
  <2>2. \A k \in Owned \ {"pvc"} : Asked(k, read.spec)
    <3>1. Remaining = {}
      BY <1>1, <1>8 DEF Remaining
    <3> QED BY <1>1, <1>5, <1>8, <3>1 DEF RestInv, Left
  <2>3. \A k \in Owned \ {"pvc"} : Matches(k)'
    BY <1>3, <1>5, <2>2 DEF Matches, Asked
  <2>4. view["deployment"] = obj["deployment"] /\ obj["deployment"] \in Objects
    <3>1. obj["deployment"] # Absent
      BY <1>6, <2>2 DEF Asked
    <3> QED BY <1>5, <1>6, <3>1 DEF RestInv, OInv, TypeOK
  <2>5. obj["deployment"].up \in BOOLEAN /\ obj["deployment"] # Absent
    BY <2>4, Constants DEF Objects
  <2> DEFINE ready == view["deployment"] # Absent /\ view["deployment"].up
  <2>6. FinalStatus = [st EXCEPT !.ready = ready, !.obs = read.gen,
                                 !.phase = IF ready THEN "Running" ELSE @]
    BY <1>8 DEF FinalStatus
  <2>7. ready = obj'["deployment"].up
    BY <1>5, <1>6, <2>4, <2>5
  <2>8. st.phase \in {"Provisioning", "Running"}
    BY <1>8 DEF RestInv, Stages
  <2>9. /\ FinalStatus.ready = obj'["deployment"].up /\ FinalStatus.obs = read.gen
        /\ FinalStatus.phase \in {"Provisioning", "Running"}
    <3> HIDE DEF ready
    <3> QED BY <1>2, <2>6, <2>7, <2>8 DEF Statuses
  <2> QED BY <1>3, <1>4, <2>1, <2>3, <2>9 DEF Settled, UpToDate
<1> QED BY <1>1, <1>7, <1>8

LEMMA RestNext == RestInv /\ [Next]_vars => RestsSettled'
<1> SUFFICES ASSUME RestInv, [Next]_vars, AtRest' PROVE Settled'
  BY DEF RestsSettled
<1> USE DEF RestInv
<1>a. pc' = "idle" /\ ~queued' /\ seen' = kai' /\ kai' # Gone
  BY DEF AtRest
<1>t. TypeOK /\ Held /\ Past(seen) /\ CacheIsPast
  BY DEF OInv, Copies
<1>1. CASE Begin
  <2>1. UNCHANGED worker /\ kai' = kai /\ seen' = seen
    BY <1>1, <1>a DEF Begin, world, caches
  <2>2. seen = Gone \/ (seen # Gone /\ seen.deleting /\ ~seen.fin)
    BY <1>1, <1>a DEF Begin
  <2> QED BY <1>a, <1>t, <2>1, <2>2 DEF Held
<1>2. CASE Finalize
  <2>1. kai = read /\ queued' = queued /\ seen' = seen /\ pc = "finalize" /\ ~read.fin
    BY <1>2, <1>a DEF Finalize, caches, Copies, Working
  <2>2. seen = read /\ kai \in Instances /\ kai' = [kai EXCEPT !.fin = TRUE]
    BY <1>2, <1>a, <1>t, <2>1 DEF Undisturbed, Finalize, TypeOK
  <2>3. kai'.fin
    BY <2>2 DEF Instances
  <2> QED BY <1>a, <2>1, <2>2, <2>3
<1>3. CASE ScaleDown \/ ReconcileChild \/ ChildCallFails \/ RenderFails
  BY <1>3, <1>a DEF ScaleDown, ReconcileChild, ChildCallFails, RenderFails, Failing, Requeue
<1>4. CASE Report
  BY <1>4, ReportSettles
<1>5. CASE InstanceConflict \/ InstanceCallFails \/ OperatorRestarts
  BY <1>5, <1>a DEF InstanceConflict, InstanceCallFails, OperatorRestarts, Requeue
<1>6. CASE EditSpec
  <2>1. PICK s \in Specs : kai' = [kai EXCEPT !.spec = s, !.gen = @ + 1]
    BY <1>6 DEF EditSpec
  <2>2. kai \in Instances /\ seen' = seen
    BY <1>6, <1>t DEF EditSpec, TypeOK, caches
  <2>3. kai'.gen = kai.gen + 1 /\ kai.gen \in Nat /\ kai # Gone
    BY <2>1, <2>2, InstanceFields DEF Instances
  <2>4. seen.gen <= kai.gen
    BY <1>a, <1>t, <2>2, <2>3 DEF Past
  <2> QED BY <1>a, <2>2, <2>3, <2>4
<1>7. CASE DeleteInstance
  <2>1. kai' = [kai EXCEPT !.deleting = TRUE] /\ ~kai.deleting /\ kai # Gone /\ seen' = seen
    BY <1>7, <1>a DEF DeleteInstance, caches
  <2>2. kai'.deleting
    BY <1>t, <2>1 DEF TypeOK, Instances
  <2> QED BY <1>a, <1>t, <2>1, <2>2 DEF CacheIsPast
<1>8. CASE \/ UNCHANGED vars \/ SyncInstance
           \/ \E j \in Owned : SyncChild(j) \/ Collect(j) \/ ChildStatus(j) \/ Drift(j)
  <2>1. kai' = kai
    BY <1>8 DEF vars, SyncInstance, SyncChild, Collect, ChildStatus, Drift, world
  <2>2. /\ UNCHANGED worker /\ ~queued /\ seen' = seen
        /\ \A k \in Owned \ {"pvc"} : ~lag[k] /\ obj'[k] = obj[k]
    BY <1>8, <1>a, <1>t, OutsideSteps DEF AtRest
  <2>3. AtRest
    BY <1>a, <2>1, <2>2 DEF AtRest, worker
  <2> QED BY <1>a, <2>1, <2>2, <2>3, SettledStays, Constants DEF RestsSettled
<1> QED BY <1>1, <1>2, <1>3, <1>4, <1>5, <1>6, <1>7, <1>8 DEF Next, Work

LEMMA RestInit == Init => Undisturbed /\ Stages /\ (\A k \in Owned : Left(k)) /\ Stopped /\ RestsSettled
<1> SUFFICES ASSUME Init
             PROVE  Undisturbed /\ Stages /\ (\A k \in Owned : Left(k)) /\ Stopped /\ RestsSettled
  OBVIOUS
<1>1. pc = "idle" /\ seen = Gone
  BY DEF Init
<1> QED BY <1>1 DEF Undisturbed, Stages, Left, Stopped, RestsSettled, AtRest

\* No wake-up of the operator is lost, whatever fails, is edited or restarted and
\* in whatever order the watches deliver: when nothing is queued, under way or
\* undelivered, the children and the reported status are those of the current
\* spec.  It is the safety half of Converges.
THEOREM NoLostWakeups == Spec => []RestsSettled
<1>1. Init => RestInv
  BY TypeInit, OrderInit, StatusesInit, CopiesInit, RestInit DEF RestInv, OInv, Order
<1>2. RestInv /\ [Next]_vars => RestInv'
  <2> SUFFICES ASSUME RestInv, [Next]_vars PROVE RestInv'
    OBVIOUS
  <2>1. OInv'
    BY TypeNext, OrderNext, StatusesNext DEF RestInv, OInv, Order
  <2>2. Copies'
    BY CopiesNext DEF RestInv, OInv
  <2>3. Undisturbed' /\ Stages' /\ Stopped'
    BY StagesNext, StoppedNext DEF RestInv, OInv
  <2>4. \A k \in Owned : Left(k)'
    BY LeftNext DEF RestInv, OInv
  <2>5. RestsSettled'
    BY RestNext
  <2> QED BY <2>1, <2>2, <2>3, <2>4, <2>5 DEF RestInv
<1>3. RestInv => RestsSettled
  BY DEF RestInv
<1> QED BY <1>1, <1>2, <1>3, PTL DEF Spec
=============================================================================
