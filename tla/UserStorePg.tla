----------------------------- MODULE UserStorePg -----------------------------
(***************************************************************************)
(* The Postgres implementation of users.Store (pkg/userspg/userspg.go,       *)
(* schema.sql), with concurrent calls of several processes.                  *)
(*                                                                          *)
(* A single statement is one step.  SoftDelete and PurgeDeletedBefore run    *)
(* several: the former looks at the row before its transaction begins, the   *)
(* latter selects what to purge, stamps the audit rows one by one and then   *)
(* deletes by predicate.  Transactions run under READ COMMITTED: every       *)
(* statement sees what is committed when it starts, an UPDATE waits for the  *)
(* lock of a row that another transaction has written and then tests its     *)
(* condition again, and an INSERT waits for an uncommitted row of equal key. *)
(* A waiting statement is one that is not enabled.                           *)
(*                                                                          *)
(* Representation as in UserStore; the audit row of id_hash is that of the   *)
(* id.  The result of a call is not kept.                                    *)
(***************************************************************************)
EXTENDS Integers

CONSTANTS
    Ids, Emails, Attrs, Absent, Active, Grace,
    Calls,        \* SoftDelete and PurgeDeletedBefore calls in flight
    Unlogged,     \* no audit row; no purged_at
    MaxClock      \* bound on the clock

Times == 0 .. MaxClock
Rows == [email : Emails, attr : Attrs, deleted : Times \union {Active}]
AuditRows == [deleted : Times, purged : Times \union {Unlogged}]

ASSUME IdsAssumption == Ids # {}
ASSUME GraceAssumption == Grace \in Nat \ {0} /\ MaxClock \in Nat
ASSUME NullAssumption ==
    Active \notin Times /\ Unlogged \notin Times /\ Absent \notin Rows /\ Unlogged \notin AuditRows

VARIABLES
    clock,
    used,      \* identifiers given out
    rows,      \* table users, committed
    audit,     \* table deletion_audit, committed
    pc,        \* idle; checked, updated, logged; selected
    began,     \* time of the call: `at`, or the cutoff plus Grace
    target,    \* the id being deleted
    hit,       \* its UPDATE matched the row
    doomed,    \* ids a purge selected
    marked     \* those whose audit row it has stamped

tables == <<used, rows, audit>>
callVars == <<pc, began, target, hit, doomed, marked>>
vars == <<clock, tables, callVars>>

IsActive(i) == rows[i] # Absent /\ rows[i].deleted = Active
Taken(e) == \E i \in Ids : IsActive(i) /\ rows[i].email = e

\* users_email_active_idx, over lower(email) of the rows not deleted: an address
\* is that of one active user, while deletions free addresses and roll back.
OneUserPerEmail ==
    \A i, j \in Ids : IsActive(i) /\ IsActive(j) /\ rows[i].email = rows[j].email => i = j

\* Types, the index, and what a call in flight holds.
TypeOK ==
    /\ clock \in Times
    /\ used \in SUBSET Ids
    /\ rows \in [Ids -> Rows \union {Absent}]
    /\ audit \in [Ids -> AuditRows \union {Unlogged}]
    /\ pc \in [Calls -> {"idle", "checked", "updated", "logged", "selected"}]
    /\ began \in [Calls -> Times]
    /\ target \in [Calls -> Ids]
    /\ hit \in [Calls -> BOOLEAN]
    /\ doomed \in [Calls -> SUBSET Ids]
    /\ marked \in [Calls -> SUBSET Ids]
    /\ \A i \in Ids : rows[i] # Absent => i \in used
    /\ \A c \in Calls : marked[c] \subseteq doomed[c] /\ (doomed[c] # {} => pc[c] = "selected")
    /\ OneUserPerEmail

Init ==
    /\ clock = 0
    /\ used = {}
    /\ rows = [i \in Ids |-> Absent]
    /\ audit = [i \in Ids |-> Unlogged]
    /\ pc = [c \in Calls |-> "idle"]
    /\ began = [c \in Calls |-> 0]
    /\ target \in [Calls -> {CHOOSE i \in Ids : TRUE}]
    /\ hit = [c \in Calls |-> FALSE]
    /\ doomed = [c \in Calls |-> {}]
    /\ marked = [c \in Calls |-> {}]

\* Locks: a deletion holds the row it updated and the audit row it wrote, a
\* purge the audit rows it has stamped.
RowLocked(i) == \E c \in Calls : pc[c] \in {"updated", "logged"} /\ hit[c] /\ target[c] = i
AuditLocked(i) ==
    \E c \in Calls : (pc[c] = "logged" /\ target[c] = i) \/ i \in marked[c]

\* A call does not outlast the grace period of thirty days.
Tick ==
    /\ clock < MaxClock
    /\ \A c \in Calls : pc[c] # "idle" => clock < began[c] + Grace
    /\ clock' = clock + 1
    /\ UNCHANGED <<tables, callVars>>

-----------------------------------------------------------------------------
(* Calls of one statement *)

\* Fault: users_email_active_idx is an index, but not UNIQUE.
CreateUnindexedFault(i, e, a) ==
    /\ i \notin used
    /\ used' = used \union {i}
    /\ rows' = [rows EXCEPT ![i] = [email |-> e, attr |-> a, deleted |-> Active]]
    /\ UNCHANGED <<clock, audit, callVars>>

\* The unique index over active rows refuses a taken address, and makes the
\* INSERT wait for a deletion in progress that would free it.
Create(i, e, a) ==
    /\ i \notin used
    /\ ~Taken(e)
    /\ used' = used \union {i}
    /\ rows' = [rows EXCEPT ![i] = [email |-> e, attr |-> a, deleted |-> Active]]
    /\ UNCHANGED <<clock, audit, callVars>>

\* UpdateTier, UpdateStripeCustomerID, MarkEmailVerified, RecordLogin.
Update(i, a) ==
    /\ IsActive(i)
    /\ ~RowLocked(i)
    /\ rows' = [rows EXCEPT ![i].attr = a]
    /\ UNCHANGED <<clock, used, audit, callVars>>

-----------------------------------------------------------------------------
(* SoftDelete *)

\* SELECT deleted_at IS NOT NULL: a missing or deleted row ends the call.
Check(c, i) ==
    /\ pc[c] = "idle"
    /\ IsActive(i)
    /\ pc' = [pc EXCEPT ![c] = "checked"]
    /\ target' = [target EXCEPT ![c] = i]
    /\ began' = [began EXCEPT ![c] = clock]
    /\ UNCHANGED <<clock, tables, hit, doomed, marked>>

\* Fault: UPDATE without AND deleted_at IS NULL.
UpdateDeletedFault(c) ==
    /\ pc[c] = "checked"
    /\ ~RowLocked(target[c])
    /\ pc' = [pc EXCEPT ![c] = "updated"]
    /\ hit' = [hit EXCEPT ![c] = rows[target[c]] # Absent]
    /\ UNCHANGED <<clock, tables, began, target, doomed, marked>>

\* UPDATE users SET deleted_at ... AND deleted_at IS NULL.
UpdateDeleted(c) ==
    /\ pc[c] = "checked"
    /\ ~RowLocked(target[c])
    /\ pc' = [pc EXCEPT ![c] = "updated"]
    /\ hit' = [hit EXCEPT ![c] = IsActive(target[c])]
    /\ UNCHANGED <<clock, tables, began, target, doomed, marked>>

\* INSERT INTO deletion_audit ... ON CONFLICT DO UPDATE, whether or not the
\* UPDATE matched.
Log(c) ==
    /\ pc[c] = "updated"
    /\ ~AuditLocked(target[c])
    /\ pc' = [pc EXCEPT ![c] = "logged"]
    /\ UNCHANGED <<clock, tables, began, target, hit, doomed, marked>>

Ended(c) ==
    /\ pc' = [pc EXCEPT ![c] = "idle"]
    /\ hit' = [hit EXCEPT ![c] = FALSE]
    /\ doomed' = [doomed EXCEPT ![c] = {}]
    /\ marked' = [marked EXCEPT ![c] = {}]
    /\ UNCHANGED <<began, target>>

\* Fault: the audit row is written outside the transaction, and fails.
CommitUnloggedFault(c) ==
    /\ pc[c] = "logged"
    /\ rows' = IF hit[c] THEN [rows EXCEPT ![target[c]].deleted = began[c]] ELSE rows
    /\ Ended(c)
    /\ UNCHANGED <<clock, used, audit>>

Commit(c) ==
    /\ pc[c] = "logged"
    /\ LET i == target[c] IN
       /\ rows' = IF hit[c] THEN [rows EXCEPT ![i].deleted = began[c]] ELSE rows
       /\ audit' = [audit EXCEPT ![i] =
                      [deleted |-> began[c],
                       purged |-> IF @ = Unlogged THEN Unlogged ELSE @.purged]]
    /\ Ended(c)
    /\ UNCHANGED <<clock, used>>

-----------------------------------------------------------------------------
(* PurgeDeletedBefore *)

Expired(cutoff) ==
    {i \in Ids : rows[i] # Absent /\ rows[i].deleted # Active /\ rows[i].deleted < cutoff}

\* SELECT id ...; nothing to do ends the call.
Select(c) ==
    /\ pc[c] = "idle"
    /\ clock >= Grace
    /\ Expired(clock - Grace) # {}
    /\ pc' = [pc EXCEPT ![c] = "selected"]
    /\ began' = [began EXCEPT ![c] = clock]
    /\ doomed' = [doomed EXCEPT ![c] = Expired(clock - Grace)]
    /\ UNCHANGED <<clock, tables, target, hit, marked>>

\* UPDATE deletion_audit SET purged_at, in the order of the rows returned.
Mark(c, i) ==
    /\ pc[c] = "selected"
    /\ i \in doomed[c] \ marked[c]
    /\ ~AuditLocked(i)
    /\ marked' = [marked EXCEPT ![c] = @ \union {i}]
    /\ UNCHANGED <<clock, tables, pc, began, target, hit, doomed>>

\* DELETE FROM users WHERE ..., and COMMIT.
Erase(c) ==
    /\ pc[c] = "selected"
    /\ marked[c] = doomed[c]
    /\ rows' = [i \in Ids |-> IF i \in Expired(began[c] - Grace) THEN Absent ELSE rows[i]]
    /\ audit' = [i \in Ids |->
                  IF i \in marked[c] /\ audit[i] # Unlogged
                  THEN [audit[i] EXCEPT !.purged = clock] ELSE audit[i]]
    /\ Ended(c)
    /\ UNCHANGED <<clock, used>>

\* An error, a cancelled context, a detected deadlock or a crash: ROLLBACK.
Abort(c) ==
    /\ pc[c] # "idle"
    /\ Ended(c)
    /\ UNCHANGED <<clock, tables>>

-----------------------------------------------------------------------------

Next ==
    \/ Tick
    \/ \E i \in Ids, e \in Emails, a \in Attrs : Create(i, e, a)
    \/ \E i \in Ids, a \in Attrs : Update(i, a)
    \/ \E c \in Calls :
        \/ \E i \in Ids : Check(c, i) \/ Mark(c, i)
        \/ UpdateDeleted(c) \/ Log(c) \/ Commit(c) \/ Select(c) \/ Erase(c) \/ Abort(c)

Spec == Init /\ [][Next]_vars

-----------------------------------------------------------------------------
(* Properties *)

Store == INSTANCE UserStore

\* The statements of concurrent calls add up to atomic calls: a user is deleted
\* once, its grace period is never restarted or cut short, and no update hits a
\* deleted user or is lost to one in progress.
ImplementsStore == Store!StoreSpec

\* Every deleted user has its audit row, and every audit row its deletion: the
\* row is deleted, or it has been purged and the audit row says so.
DeletionsLogged ==
    \A i \in Ids :
        /\ rows[i] # Absent /\ rows[i].deleted # Active => audit[i] # Unlogged
        /\ i \in used /\ rows[i] = Absent =>
              audit[i] # Unlogged /\ audit[i].purged # Unlogged
        /\ audit[i] # Unlogged => ~IsActive(i)

\* userspg.go:212: "the audit row and the soft-delete are atomic — never one
\* without the other".  The audit row records a deletion exactly when the user
\* is deleted.
AuditAtomic ==
    [][\A i \in Ids :
        audit'[i] # Unlogged /\ (audit[i] = Unlogged \/ audit'[i].deleted # audit[i].deleted)
            => IsActive(i) /\ rows'[i] # Absent /\ rows'[i].deleted = audit'[i].deleted]_vars
=============================================================================
