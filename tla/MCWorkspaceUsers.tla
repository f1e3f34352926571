-------------------------- MODULE MCWorkspaceUsers --------------------------
(* Instances of WorkspaceUsers for TLC. *)
EXTENDS WorkspaceLogin, TLC

LoginSymmetry == Permutations(Requests) \union Permutations(Emails) \union Permutations(Ids)
=============================================================================
