------------------------------ MODULE UserTable ------------------------------
(***************************************************************************)
(* What the Team page of a workspace promises: a table of users in which    *)
(* every operation happens at one instant.  It exists once the operator has *)
(* provisioned it; the first user of an empty table is its admin; adding    *)
(* never replaces a user; resetting never creates one.                      *)
(***************************************************************************)
CONSTANTS Emails, Passwords, Absent

VARIABLES
    up,      \* the table exists
    table    \* [Emails -> Passwords \union {Absent}]

tableVars == <<up, table>>

Empty == [e \in Emails |-> Absent]

TableInit == ~up /\ table = Empty

Provision ==
    /\ ~up
    /\ up'
    /\ table' = Empty

Lose ==
    /\ up
    /\ ~up'
    /\ table' = Empty

SetUp(e, p) ==
    /\ up /\ table = Empty
    /\ table' = [Empty EXCEPT ![e] = p]
    /\ up' = up

AddUser(e, p) ==
    /\ up /\ table[e] = Absent
    /\ table' = [table EXCEPT ![e] = p]
    /\ up' = up

ResetPassword(e, p) ==
    /\ up /\ table[e] # Absent
    /\ table' = [table EXCEPT ![e] = p]
    /\ up' = up

RemoveUser(e) ==
    /\ up
    /\ table' = [table EXCEPT ![e] = Absent]
    /\ up' = up

TableNext ==
    \/ Provision
    \/ Lose
    \/ \E e \in Emails, p \in Passwords :
           SetUp(e, p) \/ AddUser(e, p) \/ ResetPassword(e, p)
    \/ \E e \in Emails : RemoveUser(e)

TableSpec == TableInit /\ [][TableNext]_tableVars
=============================================================================
