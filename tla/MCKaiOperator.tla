---- MODULE MCKaiOperator ----
\* Instances of KaiOperator for TLC, and a check of AgentSizing on small lists.
EXTENDS KaiOperator, AgentSizing, TLC

CONSTANT c1

\* The second generation of an instance that the operator has not seen yet, or
\* that it has run and then suspended.  One more edit leads to every other spec.
\* Configurations are interchangeable: the first one may be fixed.
FirstInit ==
    /\ \/ /\ kai \in [spec : {[cfg |-> c1, suspended |-> FALSE, external |-> TRUE]}, gen : {2},
                       deleting : {FALSE}, fin : {FALSE}, status : {NewStatus}]
          /\ obj = [k \in Owned |-> Absent]
          /\ seen = Gone
       \/ /\ kai \in [spec : {[cfg |-> c1, suspended |-> TRUE, external |-> FALSE]}, gen : {2},
                       deleting : {FALSE}, fin : {TRUE},
                       status : {[NewStatus EXCEPT !.phase = "Suspended", !.obs = 1,
                                                   !.cond["DeploymentAvailable"] = "False"]}]
          /\ obj = [k \in Owned |-> IF k = "deployment" THEN [cfg |-> c1, replicas |-> 0, up |-> FALSE]
                                    ELSE Absent]
          /\ seen = kai
    /\ view = obj
    /\ lag = [k \in Owned |-> FALSE]
    /\ queued = FALSE
    /\ pc = "idle"
    /\ read = Gone
    /\ st = NewStatus
    /\ todo = <<>>
    /\ disturbances = 0
    /\ drifted = {}
FirstSpec == FirstInit /\ [][Next]_vars /\ Fairness

\* The child that is scaled and the one that is deleted when disabled.
Scaled == <<"deployment", "ingress">>

\* A value below, between and above the ceilings of every tier.
SmallLists == UNION {[S -> {40, 150, 4000}] : S \in SUBSET Sized}
SmallRequirements == [requests : SmallLists, limits : SmallLists]

ASSUME SmallSizings ==
    \A t \in {"free", "starter", "growth", "enterprise", "other"}, res \in SmallRequirements :
        /\ WithinTier([resources |-> res, tier |-> t, managed |-> ""])
        /\ Coherent(For(t)) /\ Admissible(res) =>
             (Admissible(ClampResources(res, t)) <=> ~LowLimit(res, For(t)))

ASSUME UnsizedGrowth ==
    PodResources([resources |-> Unset, tier |-> "growth", managed |-> ""]) = OperatorSizes
====
