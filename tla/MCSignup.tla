---- MODULE MCSignup ----
\* Instances of Signup for TLC.
EXTENDS Signup, TLC

CONSTANTS u1, u2, s1, s2, s3

Distinct == u1 :> s1 @@ u2 :> s2
Colliding == u1 :> s1 @@ u2 :> s1

Symmetry == Permutations(Calls) \union Permutations(Emails)
CallSymmetry == Permutations(Calls)
====
