------------------------- MODULE AgentSizingProofs -------------------------
(* Theorems of AgentSizing, for every table of limits and every request.      *)
EXTENDS AgentSizing, TLAPS

LEMMA TierHasCeilings ==
    ASSUME NEW t
    PROVE  /\ For(t) \in Ceilings
           /\ For(t).requests \in [Sized -> Nat] /\ For(t).limits \in [Sized -> Nat]
BY SizingAssumption DEF For, Ceilings

LEMMA ClampedList ==
    ASSUME NEW l, IsList(l), NEW c \in [Sized -> Nat]
    PROVE  /\ DOMAIN Clamped(l, c) = DOMAIN l \union {r \in Sized : c[r] # 0}
           /\ \A r \in Sized : c[r] # 0 =>
                Clamped(l, c)[r] = IF r \notin DOMAIN l \/ l[r] > c[r] THEN c[r] ELSE l[r]
           /\ \A r \in DOMAIN l : r \notin Sized \/ c[r] = 0 => Clamped(l, c)[r] = l[r]
           /\ IsList(Clamped(l, c))
           /\ Within(Clamped(l, c), c)
<1>1. DOMAIN Clamped(l, c) = DOMAIN l \union {r \in Sized : c[r] # 0}
  BY DEF Clamped
<1>2. ASSUME NEW r \in Sized, c[r] # 0
      PROVE  Clamped(l, c)[r] = IF r \notin DOMAIN l \/ l[r] > c[r] THEN c[r] ELSE l[r]
  BY <1>2 DEF Clamped
<1>3. ASSUME NEW r \in DOMAIN l, r \notin Sized \/ c[r] = 0
      PROVE  Clamped(l, c)[r] = l[r]
  BY <1>3 DEF Clamped
<1>4. IsList(Clamped(l, c))
  BY <1>1, <1>2, <1>3 DEF IsList, Resources
<1>5. Within(Clamped(l, c), c)
  BY <1>1, <1>2 DEF Within, IsList
<1> QED BY <1>1, <1>2, <1>3, <1>4, <1>5

LEMMA EnrolledResources ==
    ASSUME NEW tenant, IsTenant(tenant), IsSaaSEnrolled(tenant)
    PROVE  \E in : /\ IsRequirement(in)
                   /\ in = IF tenant.resources = Unset THEN Legacy ELSE tenant.resources
                   /\ PodResources(tenant) = ClampResources(in, tenant.tier)
BY SizingAssumption DEF IsTenant, PodResources

\* However a tenant is sized by hand and whatever the table, an enrolled
\* workspace gets no more than its tier (clamp.go).
THEOREM NoMoreThanTheTier ==
    ASSUME NEW tenant, IsTenant(tenant), IsSaaSEnrolled(tenant)
    PROVE  WithinTier(tenant)
<1>1. PICK in : IsRequirement(in) /\ PodResources(tenant) = ClampResources(in, tenant.tier)
  BY EnrolledResources
<1> DEFINE c == For(tenant.tier)
<1>2. /\ c.requests \in [Sized -> Nat] /\ c.limits \in [Sized -> Nat]
      /\ IsList(in.requests) /\ IsList(in.limits)
  BY <1>1, TierHasCeilings DEF IsRequirement
<1>3. /\ PodResources(tenant).requests = Clamped(in.requests, c.requests)
      /\ PodResources(tenant).limits = Clamped(in.limits, c.limits)
  BY <1>1 DEF ClampResources
<1>4. Within(Clamped(in.requests, c.requests), c.requests)
  BY <1>2, ClampedList
<1>5. Within(Clamped(in.limits, c.limits), c.limits)
  BY <1>2, ClampedList
<1> QED BY <1>3, <1>4, <1>5 DEF WithinTier

\* Clamping one list after the other keeps requests within limits exactly when
\* no limit below the tier's request comes without a request: such a limit
\* passes unchanged, and the missing request becomes the tier's.
THEOREM ClampKeepsPodsAdmissible ==
    ASSUME NEW in, IsRequirement(in), Admissible(in), NEW t, Coherent(For(t))
    PROVE  Admissible(ClampResources(in, t)) <=> ~LowLimit(in, For(t))
<1> DEFINE c == For(t)
           out == ClampResources(in, t)
<1>1. c.requests \in [Sized -> Nat] /\ c.limits \in [Sized -> Nat] /\ IsList(in.requests) /\ IsList(in.limits)
  BY TierHasCeilings DEF IsRequirement
<1>2. \A r \in Sized : /\ c.requests[r] \in Nat /\ c.limits[r] \in Nat
                       /\ c.requests[r] # 0 /\ c.limits[r] # 0
                       /\ c.requests[r] <= c.limits[r]
  BY <1>1 DEF Coherent
<1>3. /\ out.requests = Clamped(in.requests, c.requests)
      /\ out.limits = Clamped(in.limits, c.limits)
  BY DEF ClampResources
<1> HIDE DEF c, out
<1>a. /\ DOMAIN out.requests = DOMAIN in.requests \union {r \in Sized : c.requests[r] # 0}
      /\ \A r \in Sized : c.requests[r] # 0 =>
            out.requests[r] = IF r \notin DOMAIN in.requests \/ in.requests[r] > c.requests[r]
                              THEN c.requests[r] ELSE in.requests[r]
      /\ \A r \in DOMAIN in.requests : r \notin Sized \/ c.requests[r] = 0 =>
            out.requests[r] = in.requests[r]
  <2> DEFINE l == in.requests
             d == c.requests
  <2>1. IsList(l) /\ d \in [Sized -> Nat] /\ out.requests = Clamped(l, d)
    BY <1>1, <1>3
  <2> HIDE DEF l, d
  <2>2. /\ DOMAIN Clamped(l, d) = DOMAIN l \union {r \in Sized : d[r] # 0}
        /\ \A r \in Sized : d[r] # 0 =>
             Clamped(l, d)[r] = IF r \notin DOMAIN l \/ l[r] > d[r] THEN d[r] ELSE l[r]
        /\ \A r \in DOMAIN l : r \notin Sized \/ d[r] = 0 => Clamped(l, d)[r] = l[r]
    BY <2>1, ClampedList
  <2> QED BY <2>1, <2>2 DEF l, d
<1>b. /\ DOMAIN out.limits = DOMAIN in.limits \union {r \in Sized : c.limits[r] # 0}
      /\ \A r \in Sized : c.limits[r] # 0 =>
            out.limits[r] = IF r \notin DOMAIN in.limits \/ in.limits[r] > c.limits[r]
                            THEN c.limits[r] ELSE in.limits[r]
      /\ \A r \in DOMAIN in.limits : r \notin Sized \/ c.limits[r] = 0 =>
            out.limits[r] = in.limits[r]
  <2> DEFINE l == in.limits
             d == c.limits
  <2>1. IsList(l) /\ d \in [Sized -> Nat] /\ out.limits = Clamped(l, d)
    BY <1>1, <1>3
  <2> HIDE DEF l, d
  <2>2. /\ DOMAIN Clamped(l, d) = DOMAIN l \union {r \in Sized : d[r] # 0}
        /\ \A r \in Sized : d[r] # 0 =>
             Clamped(l, d)[r] = IF r \notin DOMAIN l \/ l[r] > d[r] THEN d[r] ELSE l[r]
        /\ \A r \in DOMAIN l : r \notin Sized \/ d[r] = 0 => Clamped(l, d)[r] = l[r]
    BY <2>1, ClampedList
  <2> QED BY <2>1, <2>2 DEF l, d
<1>4. /\ DOMAIN out.requests = DOMAIN in.requests \union Sized
      /\ DOMAIN out.limits = DOMAIN in.limits \union Sized
  BY <1>2, <1>a, <1>b
<1>5. ASSUME NEW r \in Sized
      PROVE  /\ out.requests[r] = IF r \notin DOMAIN in.requests \/ in.requests[r] > c.requests[r]
                                  THEN c.requests[r] ELSE in.requests[r]
             /\ out.limits[r] = IF r \notin DOMAIN in.limits \/ in.limits[r] > c.limits[r]
                                THEN c.limits[r] ELSE in.limits[r]
  BY <1>2, <1>a, <1>b
<1>6. ASSUME NEW r \in Sized
      PROVE  out.requests[r] <= out.limits[r]
             <=> ~(r \in DOMAIN in.limits \ DOMAIN in.requests /\ in.limits[r] < c.requests[r])
  <2>1. /\ r \in DOMAIN in.requests => in.requests[r] \in Nat
        /\ r \in DOMAIN in.limits => in.limits[r] \in Nat
        /\ r \in DOMAIN in.requests \intersect DOMAIN in.limits => in.requests[r] <= in.limits[r]
    BY <1>1 DEF IsList, Admissible
  <2> QED BY <1>2, <1>5, <2>1
<1>7. ASSUME NEW r \in (DOMAIN out.requests \intersect DOMAIN out.limits) \ Sized
      PROVE  out.requests[r] <= out.limits[r]
  <2>1. r \in DOMAIN in.requests \intersect DOMAIN in.limits
    BY <1>4
  <2>2. out.requests[r] = in.requests[r] /\ out.limits[r] = in.limits[r]
    BY <1>a, <1>b, <2>1
  <2> QED BY <2>1, <2>2 DEF Admissible
<1>8. Admissible(out) <=> \A r \in Sized : out.requests[r] <= out.limits[r]
  BY <1>4, <1>7 DEF Admissible
<1>9. LowLimit(in, c) <=> \E r \in Sized : r \in DOMAIN in.limits \ DOMAIN in.requests /\ in.limits[r] < c.requests[r]
  BY DEF LowLimit
<1> QED BY <1>6, <1>8, <1>9 DEF c, out

\* buildDeployment hands its own sizes to the clamp: a tenant that sets no
\* resources gets the operator's sizes wherever the tier allows more, and not
\* the "tier-appropriate sizing" of clamp.go.
THEOREM UnsizedTenantsGetLegacySizes ==
    ASSUME NEW tenant, tenant.resources = Unset, IsSaaSEnrolled(tenant),
           NEW r \in Sized, r \in DOMAIN Legacy.requests,
           Legacy.requests[r] <= For(tenant.tier).requests[r]
    PROVE  PodResources(tenant).requests[r] = Legacy.requests[r]
<1>1. IsList(Legacy.requests) /\ For(tenant.tier).requests \in [Sized -> Nat]
  BY SizingAssumption, TierHasCeilings DEF IsRequirement
<1>2. PodResources(tenant).requests = Clamped(Legacy.requests, For(tenant.tier).requests)
  BY DEF PodResources, ClampResources
<1>3. Legacy.requests[r] \in Nat /\ For(tenant.tier).requests[r] \in Nat
  BY <1>1 DEF IsList
<1> DEFINE c == For(tenant.tier).requests
<1>4. c[r] # 0 => Clamped(Legacy.requests, c)[r] =
         IF r \notin DOMAIN Legacy.requests \/ Legacy.requests[r] > c[r] THEN c[r] ELSE Legacy.requests[r]
  BY <1>1, ClampedList
<1>5. c[r] = 0 => Clamped(Legacy.requests, c)[r] = Legacy.requests[r]
  BY <1>1, ClampedList
<1> QED BY <1>2, <1>3, <1>4, <1>5

\* With the public defaults, a growth workspace that sets no resources requests
\* the 100m CPU of the operator (and of starter), not the 200m of its tier.
THEOREM GrowthIsSizedAsStarter ==
    ASSUME TierLimits = PublicTiers, Legacy = OperatorSizes, NEW tenant,
           tenant.resources = Unset, tenant.tier = "growth", tenant.managed # "internal"
    PROVE  /\ PodResources(tenant).requests["cpu"] = 100
           /\ PublicTiers["growth"].requests["cpu"] = 200
<1>1. /\ DOMAIN OperatorSizes.requests = {"memory", "cpu"} /\ OperatorSizes.requests["cpu"] = 100
      /\ PublicTiers["growth"].requests["cpu"] = 200
      /\ "growth" \in DOMAIN PublicTiers
  BY DEF OperatorSizes, PublicTiers, Limits
<1>2. For(tenant.tier) = PublicTiers["growth"]
  BY <1>1 DEF For
<1>3. IsSaaSEnrolled(tenant) /\ "cpu" \in Sized
  BY DEF IsSaaSEnrolled, Sized
<1> QED BY <1>1, <1>2, <1>3, UnsizedTenantsGetLegacySizes
=============================================================================
