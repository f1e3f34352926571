----------------------------- MODULE KaiOperator -----------------------------
(***************************************************************************)
(* The reconcile loop of the operator for one KaiInstance                   *)
(* (operator/internal/controller/kaiinstance_controller.go, secrets.go).    *)
(*                                                                          *)
(* One worker takes the instance from the work queue, reads it from the     *)
(* informer cache and walks the children in a fixed order, each read from   *)
(* its own cache and written to the API server.  The caches lag; every      *)
(* update they receive enqueues the instance, except that PVCs are not      *)
(* watched.  Meanwhile users edit, suspend and delete the instance, pods    *)
(* come and go, children are deleted or scaled by hand, API calls fail      *)
(* (with or without having taken effect) and the operator restarts.         *)
(*                                                                          *)
(* Representation.  `cfg` stands for all of the spec but `suspended` and    *)
(* `externalAccess`.  An Update of a child carries the resourceVersion of   *)
(* the cached copy: `lag` says that it is outdated.  A status Update        *)
(* carries that of the instance read: it is current iff kai = read, since   *)
(* every edit of the spec bumps the generation and only the operator        *)
(* writes status and finalizer.  Writing an identical object changes        *)
(* nothing and notifies nobody.  Reads of a cache find the object or        *)
(* nothing; they do not fail.                                               *)
(***************************************************************************)
EXTENDS Naturals, Sequences

CONSTANTS
    Cfgs,             \* values of the rest of the spec
    Absent, Gone,     \* no such child, no such instance
    Children,         \* the children reconciled, in order
    MaxGen,           \* bound on edits of the spec
    MaxDisturbances   \* bound on faults, drift, pod failures and restarts

\* Children the operator creates and never changes, and those it also updates.
Kept == {"users", "bridge", "pvc"}
Updated == {"configmap", "deployment", "service", "networkpolicy", "ingress"}
ChildKinds == Kept \union Updated

\* The order of Reconcile, and the one every instance of this module keeps.
ReconcileOrder == <<"configmap", "users", "bridge", "pvc", "deployment",
                    "service", "networkpolicy", "ingress">>

Owned == {Children[i] : i \in DOMAIN Children}

ASSUME ChildrenAssumption ==
    /\ Children \in Seq(ChildKinds)
    /\ "deployment" \in Owned
    /\ \A i, j \in DOMAIN Children : i < j =>
         \E m, n \in DOMAIN ReconcileOrder :
            m < n /\ ReconcileOrder[m] = Children[i] /\ ReconcileOrder[n] = Children[j]

ASSUME BoundAssumption == MaxGen \in Nat /\ MaxDisturbances \in Nat

Phases == {"", "Provisioning", "Running", "Suspended", "Failed"}
Conditions == {"ConfigMapReady", "PVCBound", "DeploymentAvailable",
               "NetworkPolicyApplied", "IngressReady", "Ready"}
Statuses == [phase : Phases, ready : BOOLEAN, obs : Nat,
             cond : [Conditions -> {"none", "True", "False"}]]
Specs == [cfg : Cfgs, suspended : BOOLEAN, external : BOOLEAN]
Instances == [spec : Specs, gen : Nat, deleting : BOOLEAN, fin : BOOLEAN, status : Statuses]

\* A child: what it was built from, its scale, and whether it is up (the
\* Deployment has an available replica, the PVC is bound).
Objects == [cfg : Cfgs, replicas : {0, 1}, up : BOOLEAN]

ASSUME AbsentAssumption == Absent \notin Objects /\ Gone \notin Instances

VARIABLES
    kai,           \* the KaiInstance in the API server
    obj,           \* the children there
    seen,          \* the operator's cached KaiInstance
    view, lag,     \* its cached children, and whether they are outdated
    queued,        \* the instance is in the work queue
    pc,            \* idle, finalize, unfinalize, scale, suspend, children, failed
    read,          \* the instance this reconcile works on
    st,            \* the status it has built so far
    todo,          \* children it has yet to reconcile
    disturbances,
    drifted        \* history: children others deleted or scaled

world == <<kai, obj, drifted>>
caches == <<seen, view, lag>>
worker == <<pc, read, st, todo>>
vars == <<kai, obj, seen, view, lag, queued, pc, read, st, todo, disturbances, drifted>>

NewStatus == [phase |-> "", ready |-> FALSE, obs |-> 0, cond |-> [c \in Conditions |-> "none"]]

TypeOK ==
    /\ kai \in Instances \union {Gone}
    /\ obj \in [Owned -> Objects \union {Absent}]
    /\ seen \in Instances \union {Gone}
    /\ view \in [Owned -> Objects \union {Absent}]
    /\ lag \in [Owned -> BOOLEAN]
    /\ queued \in BOOLEAN
    /\ pc \in {"idle", "finalize", "unfinalize", "scale", "suspend", "children", "failed"}
    /\ read \in Instances \union {Gone}
    /\ st \in Statuses
    /\ todo \in Seq(Owned)
    /\ disturbances \in 0..MaxDisturbances
    /\ drifted \in SUBSET Owned
    /\ pc # "idle" => read # Gone
    /\ pc = "children" => read.fin /\ ~read.deleting /\ ~read.spec.suspended
    /\ \A k \in Owned : ~lag[k] => view[k] = obj[k]

Init ==
    /\ \E s \in Specs :
         kai = [spec |-> s, gen |-> 1, deleting |-> FALSE, fin |-> FALSE, status |-> NewStatus]
    /\ obj = [k \in Owned |-> Absent]
    /\ seen = Gone
    /\ view = obj
    /\ lag = [k \in Owned |-> FALSE]
    /\ queued = FALSE
    /\ pc = "idle"
    /\ read = Gone
    /\ st = NewStatus
    /\ todo = <<>>
    /\ disturbances = 0
    /\ drifted = {}

Disturb == disturbances < MaxDisturbances /\ disturbances' = disturbances + 1

\* Child k becomes c in the API server.
Becomes(k, c) ==
    /\ obj' = [obj EXCEPT ![k] = c]
    /\ lag' = [lag EXCEPT ![k] = @ \/ c # obj[k]]

-----------------------------------------------------------------------------
(* Users, the cluster and the caches *)

EditSpec ==
    /\ kai # Gone
    /\ kai.gen < MaxGen
    /\ \E s \in Specs \ {kai.spec} : kai' = [kai EXCEPT !.spec = s, !.gen = @ + 1]
    /\ UNCHANGED <<obj, drifted, caches, queued, worker, disturbances>>

\* The finalizer holds the object; without one it goes at once.
DeleteInstance ==
    /\ kai # Gone
    /\ ~kai.deleting
    /\ kai' = IF kai.fin THEN [kai EXCEPT !.deleting = TRUE] ELSE Gone
    /\ UNCHANGED <<obj, drifted, caches, queued, worker, disturbances>>

\* Children follow their owner.
Collect(k) ==
    /\ kai = Gone
    /\ obj[k] # Absent
    /\ Becomes(k, Absent)
    /\ UNCHANGED <<kai, drifted, seen, view, queued, worker, disturbances>>

\* Pods become ready, crash or follow the scale; volumes get bound.
ChildStatus(k) ==
    /\ k \in {"deployment", "pvc"}
    /\ obj[k] # Absent
    /\ Becomes(k, [obj[k] EXCEPT !.up = ~@])
    /\ \/ ~obj[k].up /\ obj[k].replicas = 1 /\ UNCHANGED disturbances
       \/ obj[k].up /\ obj[k].replicas = 0 /\ UNCHANGED disturbances
       \/ obj[k].up /\ obj[k].replicas = 1 /\ k = "deployment" /\ Disturb
    /\ UNCHANGED <<kai, drifted, seen, view, queued, worker>>

\* Someone deletes a child or scales the Deployment by hand.
Drift(k) ==
    /\ obj[k] # Absent
    /\ Disturb
    /\ \/ Becomes(k, Absent)
       \/ k = "deployment" /\ Becomes(k, [obj[k] EXCEPT !.replicas = 1 - @])
    /\ drifted' = drifted \union {k}
    /\ UNCHANGED <<kai, seen, view, queued, worker>>

\* Fault: For(&KaiInstance{}) with GenerationChangedPredicate; a deletion
\* timestamp bumps the generation as well.
SyncInstanceByGenerationFault ==
    /\ seen # kai
    /\ seen' = kai
    /\ queued' = (queued \/ seen = Gone \/ kai = Gone
                  \/ (seen # Gone /\ kai # Gone /\ (seen.gen # kai.gen \/ seen.deleting # kai.deleting)))
    /\ UNCHANGED <<world, view, lag, worker, disturbances>>

SyncInstance ==
    /\ seen # kai
    /\ seen' = kai
    /\ queued' = TRUE
    /\ UNCHANGED <<world, view, lag, worker, disturbances>>

\* Fault: Owns(&corev1.Secret{}), Owns(&appsv1.Deployment{}), ... left out.
SyncChildUnwatchedFault(k) ==
    /\ lag[k]
    /\ view' = [view EXCEPT ![k] = obj[k]]
    /\ lag' = [lag EXCEPT ![k] = FALSE]
    /\ queued' = queued
    /\ UNCHANGED <<world, seen, worker, disturbances>>

\* Owns(...) enqueues the owner of every child but the PVC.
SyncChild(k) ==
    /\ lag[k]
    /\ view' = [view EXCEPT ![k] = obj[k]]
    /\ lag' = [lag EXCEPT ![k] = FALSE]
    /\ queued' = (queued \/ k # "pvc")
    /\ UNCHANGED <<world, seen, worker, disturbances>>

-----------------------------------------------------------------------------
(* The worker *)

Return == pc' = "idle" /\ read' = Gone /\ st' = NewStatus /\ todo' = <<>>

\* An error puts the instance back into the queue.
Requeue == Return /\ queued' = TRUE

\* Fault: children are created before the finalizer is in place.
BeginFinalizesLateFault ==
    /\ pc = "idle"
    /\ queued
    /\ queued' = FALSE
    /\ IF seen = Gone \/ (seen # Gone /\ seen.deleting /\ ~seen.fin)
       THEN UNCHANGED worker
       ELSE /\ read' = seen
            /\ pc' = IF seen.deleting            THEN "unfinalize"
                     ELSE IF seen.spec.suspended THEN "scale"
                     ELSE "children"
            /\ st' = [seen.status EXCEPT !.phase =
                        IF pc' = "children" /\ @ # "Running" THEN "Provisioning" ELSE @]
            /\ todo' = IF pc' = "children" THEN Children ELSE <<>>
    /\ UNCHANGED <<world, caches, disturbances>>

\* Reconcile up to the first API call.
Begin ==
    /\ pc = "idle"
    /\ queued
    /\ queued' = FALSE
    /\ IF seen = Gone \/ (seen # Gone /\ seen.deleting /\ ~seen.fin)
       THEN UNCHANGED worker
       ELSE /\ read' = seen
            /\ pc' = IF seen.deleting            THEN "unfinalize"
                     ELSE IF ~seen.fin           THEN "finalize"
                     ELSE IF seen.spec.suspended THEN "scale"
                     ELSE "children"
            /\ st' = [seen.status EXCEPT !.phase =
                        IF pc' = "children" /\ @ # "Running" THEN "Provisioning" ELSE @]
            /\ todo' = IF pc' = "children" THEN Children ELSE <<>>
    /\ UNCHANGED <<world, caches, disturbances>>

\* Update(kai) with the finalizer added or removed; the last finalizer gone, a
\* deleted object goes.
Finalize ==
    /\ pc \in {"finalize", "unfinalize"}
    /\ kai = read
    /\ kai' = IF pc = "finalize" THEN [kai EXCEPT !.fin = TRUE] ELSE Gone
    /\ Return
    /\ UNCHANGED <<obj, drifted, caches, queued, disturbances>>

\* reconcileSuspended: the Deployment, when the cache has it, goes to zero.
ScaleDown ==
    /\ pc = "scale"
    /\ LET d == view["deployment"]
           there == d # Absent /\ d.replicas = 1 IN
       IF there /\ lag["deployment"]
       THEN Requeue /\ UNCHANGED <<obj, lag>>
       ELSE /\ IF there THEN Becomes("deployment", [obj["deployment"] EXCEPT !.replicas = 0])
                        ELSE UNCHANGED <<obj, lag>>
            /\ pc' = "suspend"
            /\ st' = [st EXCEPT !.phase = "Suspended", !.ready = FALSE]
            /\ UNCHANGED <<read, todo, queued>>
    /\ UNCHANGED <<kai, drifted, seen, view, disturbances>>

\* What the code does about child k, given its cached copy.
Call(k) ==
    LET unwanted == k = "ingress" /\ ~read.spec.external
        missing == view[k] = Absent IN
    CASE unwanted /\ missing                  -> "none"
      [] unwanted /\ ~missing                 -> "delete"
      [] ~unwanted /\ missing                 -> "create"
      [] ~unwanted /\ ~missing /\ k \in Kept -> "none"
      [] OTHER                                -> "update"

\* AlreadyExists, NotFound and Conflict; a Delete has no precondition.
Accepts(k, call) ==
    CASE call = "none"   -> TRUE
      [] call = "create" -> obj[k] = Absent
      [] call = "update" -> ~lag[k]
      [] call = "delete" -> obj[k] # Absent

Result(k, call) ==
    CASE call = "none"   -> obj[k]
      [] call = "create" -> [cfg |-> read.spec.cfg, replicas |-> 1, up |-> FALSE]
      [] call = "update" -> [obj[k] EXCEPT !.cfg = read.spec.cfg, !.replicas = 1]
      [] call = "delete" -> Absent

\* The conditions are set before the call is made.
Noted(k, call) ==
    LET set(c, v) == [st EXCEPT !.cond[c] = v] IN
    CASE k = "configmap"                         -> set("ConfigMapReady", "True")
      [] k = "networkpolicy"                     -> set("NetworkPolicyApplied", "True")
      [] k = "ingress" /\ read.spec.external     -> set("IngressReady", "True")
      [] k = "deployment" /\ call = "create"     -> set("DeploymentAvailable", "False")
      [] k = "pvc" /\ call = "create"            -> set("PVCBound", "False")
      [] k = "pvc" /\ call = "none" /\ view[k].up -> set("PVCBound", "True")
      [] OTHER                                   -> st

\* Fault: setFailed records the generation as observed.
FailingObservesFault(s) ==
    /\ pc' = "failed"
    /\ st' = [s EXCEPT !.phase = "Failed", !.ready = FALSE, !.cond["Ready"] = "False",
                       !.obs = read.gen]
    /\ todo' = <<>>

\* Fault: setFailed leaves the ready flag alone.
FailingKeepsReadyFault(s) ==
    /\ pc' = "failed"
    /\ st' = [s EXCEPT !.phase = "Failed", !.cond["Ready"] = "False"]
    /\ todo' = <<>>

\* setFailed, up to its status update.
Failing(s) ==
    /\ pc' = "failed"
    /\ st' = [s EXCEPT !.phase = "Failed", !.ready = FALSE, !.cond["Ready"] = "False"]
    /\ todo' = <<>>

\* One child is reconciled, or its write is refused.
ReconcileChild ==
    /\ pc = "children"
    /\ todo # <<>>
    /\ LET k == Head(todo)
           call == Call(k) IN
       IF Accepts(k, call)
       THEN /\ Becomes(k, Result(k, call))
            /\ st' = Noted(k, call)
            /\ todo' = Tail(todo)
            /\ pc' = pc
       ELSE Failing(Noted(k, call)) /\ UNCHANGED <<obj, lag>>
    /\ UNCHANGED <<kai, drifted, seen, view, queued, read, disturbances>>

\* The write of a child fails for another reason; it may have taken effect.
ChildCallFails ==
    /\ pc = "children"
    /\ todo # <<>>
    /\ LET k == Head(todo)
           call == Call(k) IN
       /\ call # "none"
       /\ \/ UNCHANGED <<obj, lag>>
          \/ Accepts(k, call) /\ Becomes(k, Result(k, call))
       /\ Failing(Noted(k, call))
    /\ Disturb
    /\ UNCHANGED <<kai, drifted, seen, view, queued, read>>

\* renderAllTemplates fails (an unreadable catalog).
RenderFails ==
    /\ pc = "children"
    /\ todo = Children
    /\ Failing(st)
    /\ Disturb
    /\ UNCHANGED <<world, caches, queued, read>>

\* The status that the current step of Reconcile writes.
FinalStatus ==
    IF pc # "children" THEN st
    ELSE LET d == view["deployment"]
             ready == d # Absent /\ d.up IN
         [st EXCEPT !.ready = ready, !.obs = read.gen,
                    !.phase = IF ready THEN "Running" ELSE @]

Reporting == pc \in {"failed", "suspend"} \/ (pc = "children" /\ todo = <<>>)

\* Status().Update; after setFailed the original error is returned.
Report ==
    /\ Reporting
    /\ kai = read
    /\ kai' = [kai EXCEPT !.status = FinalStatus]
    /\ Return
    /\ queued' = (queued \/ pc = "failed")
    /\ UNCHANGED <<obj, drifted, caches, disturbances>>

\* A write of the instance is refused: it has changed since it was read.
InstanceConflict ==
    /\ Reporting \/ pc \in {"finalize", "unfinalize"}
    /\ kai # read
    /\ Requeue
    /\ UNCHANGED <<world, caches, disturbances>>

\* A write of the instance, or of the Deployment being scaled, fails otherwise.
InstanceCallFails ==
    /\ Reporting \/ pc \in {"finalize", "unfinalize", "scale"}
    /\ Disturb
    /\ Requeue
    /\ UNCHANGED <<world, caches>>

\* The caches are filled before the worker starts, and everything is enqueued.
OperatorRestarts ==
    /\ Disturb
    /\ Return
    /\ seen' = kai
    /\ view' = obj
    /\ lag' = [k \in Owned |-> FALSE]
    /\ queued' = TRUE
    /\ UNCHANGED world

-----------------------------------------------------------------------------

Work == Begin \/ Finalize \/ ScaleDown \/ ReconcileChild \/ Report \/ InstanceConflict

Next ==
    \/ Work
    \/ ChildCallFails \/ RenderFails \/ InstanceCallFails \/ OperatorRestarts
    \/ EditSpec \/ DeleteInstance \/ SyncInstance
    \/ \E k \in Owned : SyncChild(k) \/ Collect(k) \/ ChildStatus(k) \/ Drift(k)

Spec == Init /\ [][Next]_vars

\* What reaches the operator, and the garbage collector.
Deliver == SyncInstance \/ \E k \in Owned : SyncChild(k) \/ Collect(k)

\* The worker keeps working; the watches deliver and the collector runs, in
\* whatever order.
Fairness == WF_vars(Work) /\ WF_vars(Deliver)

FairSpec == Spec /\ Fairness

-----------------------------------------------------------------------------
(* Properties *)

\* Child k is what the spec asks for.
Matches(k) ==
    IF k = "ingress" /\ ~kai.spec.external
    THEN obj[k] = Absent
    ELSE /\ obj[k] # Absent
         /\ k \in Updated => obj[k].cfg = kai.spec.cfg
         /\ k = "deployment" => obj[k].replicas = 1

UpToDate == kai # Gone /\ ~kai.spec.suspended /\ kai.status.obs = kai.gen

\* observedGeneration = generation is never reported ahead of the children: all
\* of them are what this generation asks for, but for those that someone else
\* changed and for an Ingress that the cache did not show when it was to be
\* deleted, which the operator is still to learn of or working on.
ObservedHonest ==
    UpToDate => \A k \in Owned :
        \/ Matches(k)
        \/ k \in drifted
        \/ k = "ingress" /\ ~kai.spec.external /\ (lag[k] \/ queued \/ pc # "idle")

\* No child exists that the finalizer does not protect until the instance goes.
ChildrenNeedFinalizer ==
    (\E k \in Owned : obj[k] # Absent) => kai = Gone \/ (kai # Gone /\ kai.fin)

\* No reconcile still under way recreates the child of an instance that is gone.
NoOrphans ==
    [][kai = Gone => \A k \in Owned : obj'[k] # Absent => obj[k] # Absent]_vars

\* `ready` is never reported for an instance that failed, is suspended or is
\* still being provisioned.
ReadyIsRunning == kai # Gone /\ kai.status.ready => kai.status.phase = "Running"

\* Once edits and disturbances stop, the cluster and the reported status agree
\* with the spec for good, and a deleted instance goes with its children.  (A
\* PVC that was deleted by hand is not noticed.)
Settled ==
    \/ kai = Gone /\ \A k \in Owned : obj[k] = Absent
    \/ /\ kai # Gone
       /\ ~kai.deleting
       /\ LET d == obj["deployment"] IN
          IF kai.spec.suspended
          THEN kai.status.phase = "Suspended" /\ (d = Absent \/ (d # Absent /\ d.replicas = 0))
          ELSE /\ UpToDate
               /\ \A k \in Owned \ {"pvc"} : Matches(k)
               /\ kai.status.phase \in {"Provisioning", "Running"}
               /\ kai.status.ready = d.up

Converges == <>[]Settled

\* Nothing is left to do or to be heard of; a PVC is not watched.
AtRest ==
    /\ kai # Gone
    /\ seen = kai
    /\ ~queued
    /\ pc = "idle"
    /\ \A k \in Owned \ {"pvc"} : ~lag[k]

\* No wake-up is lost: whenever the work queue is empty, the worker idle and
\* every watch event delivered, the instance is settled.  An edit made while
\* Reconcile runs, a write that failed or a child that others changed leaves an
\* event or a queue entry behind.
RestsSettled == AtRest => Settled
=============================================================================
