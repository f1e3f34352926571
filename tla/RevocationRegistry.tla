------------------------- MODULE RevocationRegistry -------------------------
(***************************************************************************)
(* The atomic object behind the auth.Revoker interface                      *)
(* (pkg/auth/revocation.go): each jti is revoked until some time.  The last *)
(* Revoke of a jti decides that time; otherwise a revocation only ends      *)
(* because it expired, because the whole registry was reset, or because the *)
(* registry is full of revocations that last no shorter.                    *)
(*                                                                          *)
(* auth.MemoryRevoker is this with an unlimited Capacity: it overwrites the *)
(* exp of a jti, also by one that has passed.  SessionRevocation shows that *)
(* the Kubernetes-Secret-backed revoker implements it across replicas that  *)
(* write the same Secret concurrently.                                      *)
(***************************************************************************)
EXTENDS Naturals, FiniteSets

CONSTANTS
    Tokens,    \* the jtis
    Untils,    \* the times until which a jti may be revoked
    Capacity   \* how many revocations the registry can hold

VARIABLES
    now,       \* unix seconds
    until      \* [Tokens -> Nat], 0 while the jti is not revoked

registryVars == <<now, until>>

RegistryInit ==
    /\ now = 0
    /\ until = [t \in Tokens |-> 0]

Members(U) == {t \in Tokens : U[t] > 0}
Restricted(U, K) == [t \in Tokens |-> IF t \in K THEN U[t] ELSE 0]

\* The longest-lasting entries of U that fit; ties are broken arbitrarily.
LongestLived(U) ==
    IF Cardinality(Members(U)) <= Capacity
    THEN {U}
    ELSE {Restricted(U, K) : K \in
            {K \in SUBSET Members(U) :
                /\ Cardinality(K) = Capacity
                /\ \A kept \in K, dropped \in Members(U) \ K : U[dropped] <= U[kept]}}

Unexpired(U, time) == [t \in Tokens |-> IF U[t] > time THEN U[t] ELSE 0]

\* Revoke: afterwards the jti is revoked until e, capacity permitting.
Revoke(t, e) ==
    /\ until' \in LongestLived(Unexpired([until EXCEPT ![t] = e], now))
    /\ UNCHANGED now

\* Time passes and what has expired leaves the registry, nothing else does.
Elapse ==
    /\ now' = now + 1
    /\ until' = Unexpired(until, now')

\* The registry is lost as a whole.
Reset ==
    /\ until' = [t \in Tokens |-> 0]
    /\ UNCHANGED now

RegistryNext ==
    \/ \E t \in Tokens, e \in Untils : Revoke(t, e)
    \/ Elapse
    \/ Reset

RegistrySpec == RegistryInit /\ [][RegistryNext]_registryVars
=============================================================================
