--------------------------- MODULE WorkspaceUsers ---------------------------
(***************************************************************************)
(* The user list of one internally managed tenant: the Secret               *)
(* kai-<slug>-users that the operator creates empty and never overwrites    *)
(* (operator/internal/controller/secrets.go) and that every workspace       *)
(* replica edits for login bootstrap and for the Team page                  *)
(* (web/workspace/server/auth.go and users.go).                             *)
(*                                                                          *)
(* A request reads the Secret, edits the list in memory and writes it back  *)
(* once, with the resourceVersion it read; there is no retry.  Login reads  *)
(* the list first and enters the bootstrap path when it is empty, which     *)
(* reads it a second time.                                                  *)
(*                                                                          *)
(* Representation.  addUser refuses a known email and the list starts       *)
(* empty, so the list is a function from emails to passwords (hash and      *)
(* password are identified).  `fresh` stands for the comparison of resource *)
(* versions.  Malformed emails and short passwords are answered before any  *)
(* state is read and are left out; so is demo mode, which keeps no state.   *)
(***************************************************************************)
EXTENDS Naturals, FiniteSets

CONSTANTS
    Emails, Passwords, Absent,
    Requests,      \* requests being served by the workspace replicas
    NoOp,          \* a request that is not being served
    MaxDeletes     \* bound on how often the Secret is deleted

ASSUME AbsentAssumption == Absent \notin Passwords

VARIABLES
    secretUp,      \* the users Secret exists
    users,         \* users.json
    opSaw,         \* the operator's reconcile read that the Secret is missing
    deletes,       \* how often it has been deleted
    pc,            \* request: idle, read, get, put
    op,            \* the request's operation
    snap,          \* the list it read
    fresh,         \* nobody has written the Secret since
    sessions,      \* emails for which an unexpired session was issued
    setups         \* history: bootstraps answered 201 since the list was last empty

vars == <<secretUp, users, opSaw, deletes, pc, op, snap, fresh, sessions, setups>>

Lists == [Emails -> Passwords \union {Absent}]
Nobody == [e \in Emails |-> Absent]

\* login, bootstrap, addUser, resetPassword, removeUser
Kinds == {"login", "bootstrap", "add", "reset", "remove"}
Ops == [kind : Kinds, email : Emails, pw : Passwords]

ASSUME NoOpAssumption == NoOp \notin Ops

TypeOK ==
    /\ secretUp \in BOOLEAN
    /\ users \in Lists
    /\ opSaw \in BOOLEAN
    /\ deletes \in Nat
    /\ pc \in [Requests -> {"idle", "read", "get", "put"}]
    /\ op \in [Requests -> Ops \union {NoOp}]
    /\ snap \in [Requests -> Lists]
    /\ fresh \in [Requests -> BOOLEAN]
    /\ sessions \in SUBSET Emails
    /\ setups \in Nat
    /\ \A r \in Requests : pc[r] = "idle" <=> op[r] = NoOp

Init ==
    /\ secretUp = FALSE
    /\ users = Nobody
    /\ opSaw = FALSE
    /\ deletes = 0
    /\ pc = [r \in Requests |-> "idle"]
    /\ op = [r \in Requests |-> NoOp]
    /\ snap = [r \in Requests |-> Nobody]
    /\ fresh = [r \in Requests |-> FALSE]
    /\ sessions = {}
    /\ setups = 0

Written == fresh' = [r \in Requests |-> FALSE]

-----------------------------------------------------------------------------
(* The operator: reconcileUsersSecret *)

OperatorReads ==
    /\ ~opSaw
    /\ ~secretUp
    /\ opSaw' = TRUE
    /\ UNCHANGED <<secretUp, users, deletes, pc, op, snap, fresh, sessions, setups>>

\* Fault: create-or-update in place of create.
OperatorUpsertsFault ==
    /\ opSaw
    /\ opSaw' = FALSE
    /\ secretUp' = TRUE
    /\ users' = Nobody
    /\ Written
    /\ UNCHANGED <<deletes, pc, op, snap, sessions, setups>>

\* Create fails with AlreadyExists when the Secret has appeared meanwhile.
OperatorCreates ==
    /\ opSaw
    /\ opSaw' = FALSE
    /\ secretUp' = TRUE
    /\ UNCHANGED <<users, deletes, pc, op, snap, fresh, sessions, setups>>

\* An administrator restores the Secret by hand (kubectl create).
CreatedByHand ==
    /\ ~secretUp
    /\ deletes > 0
    /\ secretUp' = TRUE
    /\ UNCHANGED <<users, opSaw, deletes, pc, op, snap, fresh, sessions, setups>>

SecretDeleted ==
    /\ secretUp
    /\ deletes < MaxDeletes
    /\ deletes' = deletes + 1
    /\ secretUp' = FALSE
    /\ users' = Nobody
    /\ setups' = 0
    /\ Written
    /\ UNCHANGED <<opSaw, pc, op, snap, sessions>>

-----------------------------------------------------------------------------
(* Requests *)

\* Fault: the next request served inherits the operation of this one.
AnswerKeepsOpFault(r) ==
    /\ pc' = [pc EXCEPT ![r] = "idle"]
    /\ op' = op
    /\ snap' = [snap EXCEPT ![r] = Nobody]

Answer(r) ==
    /\ pc' = [pc EXCEPT ![r] = "idle"]
    /\ op' = [op EXCEPT ![r] = NoOp]
    /\ snap' = [snap EXCEPT ![r] = Nobody]

\* A request comes in.  A removal carries no password.
Serve(r, o) ==
    /\ pc[r] = "idle"
    /\ o.kind # "bootstrap"
    /\ o.kind = "remove" => o.pw = CHOOSE p \in Passwords : TRUE
    /\ op' = [op EXCEPT ![r] = o]
    /\ pc' = [pc EXCEPT ![r] = IF o.kind = "login" THEN "read" ELSE "get"]
    /\ UNCHANGED <<secretUp, users, opSaw, deletes, snap, fresh, sessions, setups>>

\* handleLogin needs no session; the Team page does (requireCenterAuth), and
\* any unexpired session of the slug will do.
Start(r) == \E o \in Ops : (o.kind # "login" => sessions # {}) /\ Serve(r, o)

\* The first read of handleLogin.  An empty list leads to the bootstrap path,
\* which reads again; otherwise the password decides.
LoginReads(r) ==
    /\ pc[r] = "read"
    /\ IF secretUp /\ users = Nobody
       THEN /\ pc' = [pc EXCEPT ![r] = "get"]
            /\ op' = [op EXCEPT ![r].kind = "bootstrap"]
            /\ UNCHANGED <<snap, sessions>>
       ELSE /\ Answer(r)
            /\ sessions' = IF secretUp /\ users[op[r].email] = op[r].pw
                           THEN sessions \union {op[r].email} ELSE sessions
    /\ UNCHANGED <<secretUp, users, opSaw, deletes, fresh, setups>>

\* Fault: bootstrap trusts the first read.
RefusesOnlyTeamFault(o, list) ==
    \/ o.kind = "add" /\ list[o.email] # Absent
    \/ o.kind = "reset" /\ list[o.email] = Absent

\* Whether the function passed to updateUsersSecret refuses the list.
Refuses(o, list) ==
    \/ o.kind = "bootstrap" /\ list # Nobody
    \/ o.kind = "add" /\ list[o.email] # Absent
    \/ o.kind = "reset" /\ list[o.email] = Absent

\* The list it returns otherwise.
Edited(o, list) ==
    CASE o.kind = "bootstrap" -> [Nobody EXCEPT ![o.email] = o.pw]
      [] o.kind = "remove"    -> [list EXCEPT ![o.email] = Absent]
      [] OTHER                -> [list EXCEPT ![o.email] = o.pw]

\* readUsersSecret inside updateUsersSecret.
Get(r) ==
    /\ pc[r] = "get"
    /\ IF secretUp /\ ~Refuses(op[r], users)
       THEN /\ pc' = [pc EXCEPT ![r] = "put"]
            /\ snap' = [snap EXCEPT ![r] = users]
            /\ fresh' = [fresh EXCEPT ![r] = TRUE]
            /\ op' = op
       ELSE Answer(r) /\ fresh' = fresh
    /\ UNCHANGED <<secretUp, users, opSaw, deletes, sessions, setups>>

\* Fault: the Update does not send the resourceVersion back.
PutUnversionedFault(r) ==
    /\ pc[r] = "put"
    /\ secretUp
    /\ users' = Edited(op[r], snap[r])
    /\ \/ /\ op[r].kind = "bootstrap"
          /\ sessions' = sessions \union {op[r].email}
          /\ setups' = setups + 1
       \/ /\ setups' = IF users' = Nobody THEN 0 ELSE setups
          /\ sessions' = sessions
    /\ Answer(r)
    /\ Written
    /\ UNCHANGED <<secretUp, opSaw, deletes>>

\* The Update is accepted.  A successful bootstrap also issues a session; when
\* the answer of the API server is lost, the request fails although the list
\* has changed.
Put(r) ==
    /\ pc[r] = "put"
    /\ secretUp
    /\ fresh[r]
    /\ users' = Edited(op[r], snap[r])
    /\ \/ /\ op[r].kind = "bootstrap"
          /\ sessions' = sessions \union {op[r].email}
          /\ setups' = setups + 1
       \/ /\ setups' = IF users' = Nobody THEN 0 ELSE setups
          /\ sessions' = sessions
    /\ Answer(r)
    /\ Written
    /\ UNCHANGED <<secretUp, opSaw, deletes>>

\* Fault: a bootstrap that lost the race is logged in all the same.
PutFailsFault(r) ==
    /\ pc[r] = "put"
    /\ sessions' = sessions \union {op[r].email}
    /\ Answer(r)
    /\ fresh' = [fresh EXCEPT ![r] = FALSE]
    /\ UNCHANGED <<secretUp, users, opSaw, deletes, setups>>

\* Conflict, missing Secret, unreachable API server: the request fails.
PutFails(r) ==
    /\ pc[r] = "put"
    /\ Answer(r)
    /\ fresh' = [fresh EXCEPT ![r] = FALSE]
    /\ UNCHANGED <<secretUp, users, opSaw, deletes, sessions, setups>>

\* Logout, or expiry.  Removing a user or resetting a password ends no session.
SessionEnds(e) ==
    /\ e \in sessions
    /\ sessions' = sessions \ {e}
    /\ UNCHANGED <<secretUp, users, opSaw, deletes, pc, op, snap, fresh, setups>>

-----------------------------------------------------------------------------

Next ==
    \/ OperatorReads
    \/ OperatorCreates
    \/ CreatedByHand
    \/ SecretDeleted
    \/ \E r \in Requests : Start(r) \/ LoginReads(r) \/ Get(r) \/ Put(r) \/ PutFails(r)
    \/ \E e \in Emails : SessionEnds(e)

Spec == Init /\ [][Next]_vars

-----------------------------------------------------------------------------
(* Properties *)

Table == INSTANCE UserTable WITH up <- secretUp, table <- users

\* Concurrent requests of several replicas edit the list as if each ran alone:
\* no update is lost, no user is replaced or revived from a stale read, and the
\* operator never overwrites what an admin wrote.
ImplementsTable == Table!TableSpec

\* Of the submissions racing for an empty list, one becomes the admin; another
\* 201 needs the list to have been emptied in between.
OneAdminPerSetup == setups <= 1

\* handleLogin issues a session of the users Secret only to a request whose email
\* and password the list has once the request has read or written it: losing the
\* bootstrap race yields 409 and no cookie.
SessionsHaveUsers ==
    [][\A e \in sessions' \ sessions :
          \E r \in Requests : op[r] # NoOp /\ op[r].email = e /\ users'[e] = op[r].pw]_vars
=============================================================================
