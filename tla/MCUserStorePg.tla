---- MODULE MCUserStorePg ----
\* Instances of UserStorePg for TLC.
EXTENDS UserStorePg, TLC

CallSymmetry == Permutations(Calls)
====
