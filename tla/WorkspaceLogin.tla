--------------------------- MODULE WorkspaceLogin ---------------------------
(***************************************************************************)
(* Login to a workspace of either kind (handleLogin in                      *)
(* web/workspace/server/auth.go, loginSaaS and loadKaiBinding in saas.go).  *)
(*                                                                          *)
(* A login first reads the KaiInstance: with `managed: saas` and a userRef  *)
(* the account of the central store decides, otherwise the users Secret of  *)
(* WorkspaceUsers.  Meanwhile the instance can be deleted, created again    *)
(* for someone else or changed from one kind to the other, and accounts are *)
(* deleted and their addresses registered again.                            *)
(*                                                                          *)
(* Representation.  `owner` is the userRef of a SaaS workspace; every other *)
(* instance is Internal.  The central store (UserStore) is reduced to the   *)
(* verified, undeleted account of each address.  The password of an account *)
(* never changes and is left out: a wrong one is LoginFails.                *)
(***************************************************************************)
EXTENDS WorkspaceUsers

CONSTANTS
    Ids,              \* identifiers of accounts, never given twice
    Internal, Gone,   \* an internally managed instance, no instance
    NoId, Unbound,
    MaxChanges        \* bound on changes: of instance, accounts, and deletions of the Secret

ASSUME IdsAssumption == Ids \intersect {Internal, Gone, NoId, Unbound} = {}
ASSUME UnboundAssumption == Unbound # Internal
ASSUME MaxChangesAssumption == MaxChanges \in Nat

VARIABLES
    owner,      \* who the KaiInstance belongs to
    account,    \* [Emails -> Ids \union {NoId}]
    used,       \* identifiers already given
    bound,      \* the binding a login has read
    uids,       \* SaaS sessions: email and uid
    changes,
    held        \* history: the owners since a request came in

loginVars == <<owner, account, used, bound, uids, changes, held>>
allVars == <<vars, loginVars>>

LoginTypeOK ==
    /\ TypeOK
    /\ owner \in Ids \union {Internal, Gone}
    /\ account \in [Emails -> Ids \union {NoId}]
    /\ used \in SUBSET Ids
    /\ bound \in [Requests -> Ids \union {Internal, Unbound}]
    /\ uids \in SUBSET (Emails \X Ids)
    /\ changes \in 0 .. MaxChanges
    /\ held \in [Requests -> SUBSET (Ids \union {Internal, Gone})]
    /\ \A r \in Requests : bound[r] # Unbound => pc[r] = "read"

\* The owner's account may be gone and another one have its address.
LoginInit ==
    /\ Init
    /\ account \in {[e \in Emails |-> IF e = f THEN i ELSE NoId] : f \in Emails, i \in Ids}
    /\ owner \in Ids \union {Internal}
    /\ used = ({account[e] : e \in Emails} \union {owner}) \intersect Ids
    /\ bound = [r \in Requests |-> Unbound]
    /\ uids = {}
    /\ changes = 0
    /\ held = [r \in Requests |-> {}]

\* Served by handleLogin, directly or through the bootstrap path.
LogsIn(o) == o # NoOp /\ o.kind \in {"login", "bootstrap"}

Change == changes + deletes < MaxChanges /\ changes' = changes + 1

-----------------------------------------------------------------------------
(* The instance and the central store *)

\* The instance is deleted, created again, or its spec edited.
OwnerChanges ==
    /\ Change
    /\ owner' \in (used \union {Internal, Gone}) \ {owner}
    /\ held' = [r \in Requests |-> IF LogsIn(op[r]) THEN held[r] \union {owner'} ELSE {}]
    /\ UNCHANGED <<vars, account, used, bound, uids>>

AccountDeleted(e) ==
    /\ account[e] # NoId
    /\ Change
    /\ account' = [account EXCEPT ![e] = NoId]
    /\ UNCHANGED <<vars, owner, used, bound, uids, held>>

\* Signup and verification; the address may have had an account before.
AccountVerified(e) ==
    /\ account[e] = NoId
    /\ Change
    /\ \E i \in Ids \ used :
         account' = [account EXCEPT ![e] = i] /\ used' = used \union {i}
    /\ UNCHANGED <<vars, owner, bound, uids, held>>

-----------------------------------------------------------------------------
(* handleLogin, and requests of the Team page *)

\* What a request forgets when it is answered, and begins with.
Frame ==
    /\ held' = [r \in Requests |-> IF ~LogsIn(op'[r]) THEN {}
                                    ELSE IF pc[r] = "idle" THEN {owner} ELSE held[r]]
    /\ UNCHANGED <<owner, account, used, changes>>

\* requireCenterAuth takes a session of either kind.
Arrive(r) ==
    /\ \E o \in Ops :
         /\ o.kind # "login" => sessions # {} \/ uids # {}
         /\ Serve(r, o)
    /\ Frame
    /\ UNCHANGED <<bound, uids>>

LoginStep(r) == pc[r] = "read" /\ UNCHANGED <<secretUp, users, opSaw, deletes, fresh, setups>>

\* loadKaiBinding and readJWTSecret; without an instance the login fails.
Bind(r) ==
    /\ LoginStep(r)
    /\ bound[r] = Unbound
    /\ IF owner = Gone
       THEN Answer(r) /\ UNCHANGED bound
       ELSE bound' = [bound EXCEPT ![r] = owner] /\ UNCHANGED <<pc, op, snap>>
    /\ Frame
    /\ UNCHANGED <<sessions, uids>>

\* Fault: the userRef of the instance is not compared.
LoginSaaSUncheckedFault(r) ==
    /\ LoginStep(r)
    /\ bound[r] \in Ids
    /\ account[op[r].email] # NoId
    /\ uids' = uids \union {<<op[r].email, account[op[r].email]>>}
    /\ bound' = [bound EXCEPT ![r] = Unbound]
    /\ Answer(r)
    /\ Frame
    /\ UNCHANGED sessions

\* loginSaaS: the account with this address must be the one bound.
LoginSaaS(r) ==
    /\ LoginStep(r)
    /\ bound[r] \in Ids
    /\ account[op[r].email] = bound[r]
    /\ uids' = uids \union {<<op[r].email, account[op[r].email]>>}
    /\ bound' = [bound EXCEPT ![r] = Unbound]
    /\ Answer(r)
    /\ Frame
    /\ UNCHANGED sessions

\* A wrong password, another account, or an API server that does not answer.
LoginFails(r) ==
    /\ LoginStep(r)
    /\ bound' = [bound EXCEPT ![r] = Unbound]
    /\ Answer(r)
    /\ Frame
    /\ UNCHANGED <<sessions, uids>>

\* The legacy path.
LoginLegacy(r) ==
    /\ bound[r] = Internal
    /\ LoginReads(r)
    /\ bound' = [bound EXCEPT ![r] = Unbound]
    /\ Frame
    /\ UNCHANGED uids

SaaSSessionEnds(s) ==
    /\ s \in uids
    /\ uids' = uids \ {s}
    /\ UNCHANGED <<vars, owner, account, used, bound, changes, held>>

-----------------------------------------------------------------------------

Edit(r) == (Get(r) \/ Put(r) \/ PutFails(r)) /\ Frame /\ UNCHANGED <<bound, uids>>

Secret ==
    \/ OperatorReads \/ OperatorCreates \/ CreatedByHand
    \/ changes + deletes < MaxChanges /\ SecretDeleted

LoginNext ==
    \/ OwnerChanges
    \/ \E e \in Emails : AccountDeleted(e) \/ AccountVerified(e)
    \/ \E r \in Requests :
         Arrive(r) \/ Bind(r) \/ LoginSaaS(r) \/ LoginFails(r) \/ LoginLegacy(r) \/ Edit(r)
    \/ (Secret \/ \E e \in Emails : SessionEnds(e)) /\ UNCHANGED loginVars
    \/ \E s \in uids : SaaSSessionEnds(s)

LoginSpec == LoginInit /\ [][LoginNext]_allVars

-----------------------------------------------------------------------------
(* Properties *)

\* A session goes to whom the workspace belonged to at some moment while the
\* login was served, and to the account its address has now; a session of the
\* legacy kind needs that it was internally managed.  So an account registered
\* later with the address of the former owner does not open the workspace.
OnlyEntitled ==
    [][ /\ \A e \in sessions' \ sessions :
             \E r \in Requests : op[r] # NoOp /\ op[r].email = e /\ Internal \in held[r]
        /\ \A s \in uids' \ uids :
             /\ account[s[1]] = s[2]
             /\ \E r \in Requests : op[r] # NoOp /\ op[r].email = s[1] /\ s[2] \in held[r]
      ]_allVars
=============================================================================
