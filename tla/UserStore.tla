------------------------------ MODULE UserStore ------------------------------
(***************************************************************************)
(* What users.Store promises (pkg/users/users.go) and users.MemoryStore      *)
(* does under one mutex (pkg/users/memory.go): every call takes effect at    *)
(* one instant.  An email belongs to at most one user that is not deleted,   *)
(* a deleted user cannot be changed or revived, and is erased only after     *)
(* the grace period, counted from the first deletion.                        *)
(*                                                                          *)
(* Representation.  Tier, Stripe customer, verification and last login are   *)
(* one attribute each with the same update; `attr` stands for all of them.   *)
(* Validation of the parameters happens before any state is read.            *)
(***************************************************************************)
EXTENDS Integers

CONSTANTS
    Ids,       \* identifiers NewID can return
    Emails,    \* normalized addresses
    Attrs,     \* values of an attribute
    Absent,    \* no row
    Active,    \* deleted_at IS NULL
    Grace      \* GracePeriod

VARIABLES
    clock,
    used,      \* identifiers given out
    rows       \* the users, deleted ones within the grace period included

storeVars == <<clock, used, rows>>

StoreInit ==
    /\ clock = 0
    /\ used = {}
    /\ rows = [i \in Ids |-> Absent]

IsActive(i) == rows[i] # Absent /\ rows[i].deleted = Active
Taken(e) == \E i \in Ids : IsActive(i) /\ rows[i].email = e

\* What PurgeDeletedBefore(cutoff) erases.
Expired(cutoff) ==
    {i \in Ids : rows[i] # Absent /\ rows[i].deleted # Active /\ rows[i].deleted < cutoff}

Pass == clock' = clock + 1 /\ UNCHANGED <<used, rows>>

Create(i, e, a) ==
    /\ i \notin used
    /\ ~Taken(e)
    /\ used' = used \union {i}
    /\ rows' = [rows EXCEPT ![i] = [email |-> e, attr |-> a, deleted |-> Active]]
    /\ clock' = clock

\* UpdateTier, UpdateStripeCustomerID, MarkEmailVerified, RecordLogin.
Update(i, a) ==
    /\ IsActive(i)
    /\ rows' = [rows EXCEPT ![i].attr = a]
    /\ UNCHANGED <<clock, used>>

SoftDelete(i, at) ==
    /\ IsActive(i)
    /\ rows' = [rows EXCEPT ![i].deleted = at]
    /\ UNCHANGED <<clock, used>>

PurgeDeletedBefore(cutoff) ==
    /\ cutoff <= clock - Grace
    /\ rows' = [i \in Ids |-> IF i \in Expired(cutoff) THEN Absent ELSE rows[i]]
    /\ UNCHANGED <<clock, used>>

StoreNext ==
    \/ Pass
    \/ \E i \in Ids, e \in Emails, a \in Attrs : Create(i, e, a)
    \/ \E i \in Ids, a \in Attrs : Update(i, a)
    \/ \E i \in Ids, at \in 0 .. clock : SoftDelete(i, at)
    \/ \E cutoff \in 0 .. clock : PurgeDeletedBefore(cutoff)

StoreSpec == StoreInit /\ [][StoreNext]_storeVars
=============================================================================
