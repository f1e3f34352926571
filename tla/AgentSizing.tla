---------------------------- MODULE AgentSizing ----------------------------
(***************************************************************************)
(* The resources of an agent's pod: what buildDeployment of the operator    *)
(* (resources.go) makes of spec.resources and the limits of the tenant's    *)
(* tier (pkg/quotas).                                                       *)
(*                                                                          *)
(* Representation.  A list of quantities is a function on the resources it  *)
(* names, as corev1.ResourceList is a map; quantities are numbers of one    *)
(* unit per resource.  A tier is written in lower case (For folds it).      *)
(* A listed 0 is the number 0, and what a node makes of a limit of 0 is not  *)
(* treated; a ceiling of 0 stands for one that is empty (not for "0").       *)
(***************************************************************************)
EXTENDS Naturals

CONSTANTS
    TierLimits,   \* ceilings per tier, 0 where there is none; Override replaces them
    Legacy,       \* the operator's sizes where spec.resources is not set
    Unset         \* spec.resources is not set

Sized == {"memory", "cpu"}              \* what a tier limits
Resources == Sized \union {"storage"}   \* what an instance may list

\* A list of quantities, a pair of lists, the ceilings of a tier.
IsList(l) == DOMAIN l \subseteq Resources /\ \A r \in DOMAIN l : l[r] \in Nat
IsRequirement(res) == IsList(res.requests) /\ IsList(res.limits)
Ceilings == [requests : [Sized -> Nat], limits : [Sized -> Nat]]

ASSUME SizingAssumption ==
    /\ TierLimits \in [DOMAIN TierLimits -> Ceilings]
    /\ "free" \in DOMAIN TierLimits
    /\ IsRequirement(Legacy)

\* The part of a KaiInstance's spec that decides.
IsTenant(tenant) == tenant.resources = Unset \/ IsRequirement(tenant.resources)

\* An empty or unknown tier is treated as free.
For(t) == IF t \in DOMAIN TierLimits THEN TierLimits[t] ELSE TierLimits["free"]

IsSaaSEnrolled(tenant) == tenant.managed # "internal" /\ tenant.tier # ""

\* One list: what exceeds the ceiling or is missing becomes the ceiling.
Clamped(list, ceiling) ==
    LET bounded == {r \in Sized : ceiling[r] # 0} IN
    [r \in DOMAIN list \union bounded |->
        IF r \in bounded /\ (r \notin DOMAIN list \/ list[r] > ceiling[r])
        THEN ceiling[r] ELSE list[r]]

ClampResources(in, t) ==
    [requests |-> Clamped(in.requests, For(t).requests),
     limits   |-> Clamped(in.limits, For(t).limits)]

\* buildDeployment starts from its own sizes, so what is clamped is never nil.
PodResources(tenant) ==
    LET asked == IF tenant.resources = Unset THEN Legacy ELSE tenant.resources IN
    IF IsSaaSEnrolled(tenant) THEN ClampResources(asked, tenant.tier) ELSE asked

-----------------------------------------------------------------------------
(* The public defaults, in MiB and in thousandths of a CPU *)

Limits(memRequest, memLimit, cpuRequest, cpuLimit) ==
    [requests |-> [memory |-> memRequest, cpu |-> cpuRequest],
     limits   |-> [memory |-> memLimit, cpu |-> cpuLimit]]

PublicTiers ==
    [free       |-> Limits(384, 768, 50, 300),
     starter    |-> Limits(1024, 2048, 100, 500),
     growth     |-> Limits(1024, 2048, 200, 1000),
     enterprise |-> Limits(0, 0, 0, 0)]

OperatorSizes == Limits(1024, 2048, 100, 500)

-----------------------------------------------------------------------------
(* Properties *)

\* Where the tier has a ceiling, the pod has a value, and no more than that.
Within(list, ceiling) ==
    \A r \in Sized : ceiling[r] # 0 => r \in DOMAIN list /\ list[r] <= ceiling[r]

WithinTier(tenant) ==
    LET pod == PodResources(tenant) IN
    /\ Within(pod.requests, For(tenant.tier).requests)
    /\ Within(pod.limits, For(tenant.tier).limits)

\* The API server refuses a pod that requests more than its limit.
Admissible(res) ==
    \A r \in DOMAIN res.requests \intersect DOMAIN res.limits :
        res.requests[r] <= res.limits[r]

\* A limit below what the tier requests, without a request of its own.
LowLimit(res, ceiling) ==
    \E r \in (DOMAIN res.limits \intersect Sized) \ DOMAIN res.requests :
        res.limits[r] < ceiling.requests[r]

\* The tier's requests and limits fit together.
Coherent(ceiling) ==
    \A r \in Sized : ceiling.requests[r] # 0 /\ ceiling.requests[r] <= ceiling.limits[r]
=============================================================================
