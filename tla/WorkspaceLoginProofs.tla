------------------------ MODULE WorkspaceLoginProofs ------------------------
(* Theorems of WorkspaceUsers and WorkspaceLogin, for every number of         *)
(* requests, addresses, accounts and changes.                                *)
EXTENDS WorkspaceLogin, TLAPS

-----------------------------------------------------------------------------
(* The list of users *)

\* A missing Secret has no content, an editing request is not a plain login, and
\* a request whose read is still fresh holds the current list and may edit it.
Edits(r) == pc[r] \in {"get", "put"}

UsersInv ==
    /\ TypeOK
    /\ ~secretUp => users = Nobody
    /\ \A r \in Requests :
        /\ pc[r] # "idle" => op[r] \in Ops
        /\ Edits(r) => op[r].kind # "login"
        /\ pc[r] = "put" /\ fresh[r] =>
              secretUp /\ snap[r] = users /\ ~Refuses(op[r], users)

\* An accepted edit of the current list is one operation of the table.
LEMMA EditIsOperation ==
    ASSUME NEW o \in Ops, o.kind # "login", users \in Lists, secretUp,
           ~Refuses(o, users), users' = Edited(o, users), secretUp' = secretUp
    PROVE  Table!TableNext
<1>1. o.email \in Emails /\ o.pw \in Passwords /\ o.kind \in Kinds
  BY DEF Ops
<1>2. CASE o.kind = "bootstrap"
  <2>1. Table!SetUp(o.email, o.pw)
    BY <1>2 DEF Refuses, Edited, Table!SetUp, Table!Empty, Nobody
  <2> QED BY <2>1, <1>1 DEF Table!TableNext
<1>3. CASE o.kind = "add"
  <2>1. Table!AddUser(o.email, o.pw)
    BY <1>3 DEF Refuses, Edited, Table!AddUser
  <2> QED BY <2>1, <1>1 DEF Table!TableNext
<1>4. CASE o.kind = "reset"
  <2>1. Table!ResetPassword(o.email, o.pw)
    BY <1>4 DEF Refuses, Edited, Table!ResetPassword
  <2> QED BY <2>1, <1>1 DEF Table!TableNext
<1>5. CASE o.kind = "remove"
  <2>1. Table!RemoveUser(o.email)
    BY <1>5 DEF Edited, Table!RemoveUser
  <2> QED BY <2>1, <1>1 DEF Table!TableNext
<1> QED BY <1>1, <1>2, <1>3, <1>4, <1>5 DEF Kinds

LEMMA EditedInLists ==
    ASSUME NEW o \in Ops, NEW list \in Lists
    PROVE  Edited(o, list) \in Lists
<1>1. o.email \in Emails /\ o.pw \in Passwords
  BY DEF Ops
<1> QED BY <1>1 DEF Edited, Lists, Nobody

LEMMA UsersInit == Init => UsersInv
<1> SUFFICES ASSUME Init PROVE UsersInv
  OBVIOUS
<1>1. Nobody \in Lists
  BY DEF Nobody, Lists
<1>2. \A r \in Requests : pc[r] = "idle" /\ op[r] = NoOp
  BY DEF Init
<1>3. TypeOK
  BY <1>1, <1>2 DEF Init, TypeOK
<1>4. ~secretUp => users = Nobody
  BY DEF Init
<1> QED BY <1>2, <1>3, <1>4 DEF UsersInv, Edits

LEMMA ServeKeepsInv ==
    ASSUME UsersInv, NEW r \in Requests, NEW o \in Ops, Serve(r, o)
    PROVE  UsersInv'
<1> USE DEF UsersInv, Edits
<1>1. /\ pc[r] = "idle"
      /\ op' = [op EXCEPT ![r] = o]
      /\ pc' = [pc EXCEPT ![r] = IF o.kind = "login" THEN "read" ELSE "get"]
      /\ UNCHANGED <<secretUp, users, opSaw, deletes, snap, fresh, sessions, setups>>
  BY DEF Serve
<1>2. TypeOK'
  BY <1>1, NoOpAssumption DEF TypeOK
<1> QED BY <1>1, <1>2 DEF TypeOK

\* A login answered without a look at the users Secret.
Dismissed(r) ==
    /\ pc[r] = "read"
    /\ Answer(r)
    /\ UNCHANGED <<secretUp, users, opSaw, deletes, fresh, sessions, setups>>

LEMMA DismissedKeepsInv ==
    ASSUME UsersInv, NEW r \in Requests, Dismissed(r)
    PROVE  UsersInv'
<1>1. Nobody \in Lists
  BY DEF Nobody, Lists
<1> QED BY <1>1 DEF UsersInv, Edits, Dismissed, Answer, TypeOK

LEMMA UsersInductive == UsersInv /\ [Next]_vars => UsersInv'
<1> SUFFICES ASSUME UsersInv, [Next]_vars PROVE UsersInv'
  OBVIOUS
<1> USE DEF UsersInv, Edits
<1>0. Nobody \in Lists
  BY DEF Nobody, Lists
<1>1. CASE OperatorReads \/ OperatorCreates \/ CreatedByHand
  <2>1. /\ UNCHANGED <<users, deletes, pc, op, snap, fresh, sessions, setups>>
        /\ secretUp' \in BOOLEAN /\ opSaw' \in BOOLEAN
        /\ secretUp => secretUp'
    BY <1>1 DEF OperatorReads, OperatorCreates, CreatedByHand, TypeOK
  <2>2. TypeOK'
    BY <2>1 DEF TypeOK
  <2>3. \A r \in Requests : Refuses(op[r], users)' <=> Refuses(op[r], users)
    BY <2>1 DEF Refuses
  <2>4. (~secretUp => users = Nobody)'
    BY <2>1 DEF TypeOK
  <2>5. \A r \in Requests :
          /\ (pc[r] # "idle" => op[r] \in Ops)'
          /\ (Edits(r) => op[r].kind # "login")'
    BY <2>1
  <2>6. \A r \in Requests : (pc[r] = "put" /\ fresh[r] =>
              secretUp /\ snap[r] = users /\ ~Refuses(op[r], users))'
    BY <2>1, <2>3
  <2> QED BY <2>2, <2>4, <2>5, <2>6
<1>2. CASE SecretDeleted
  <2>1. /\ UNCHANGED <<opSaw, pc, op, snap, sessions>>
        /\ secretUp' = FALSE /\ users' = Nobody /\ setups' = 0 /\ deletes' = deletes + 1
        /\ fresh' = [r \in Requests |-> FALSE]
    BY <1>2 DEF SecretDeleted, Written
  <2>2. TypeOK'
    <3>1. users' \in Lists /\ setups' \in Nat /\ deletes' \in Nat
      BY <1>0, <2>1 DEF TypeOK
    <3>2. secretUp' \in BOOLEAN /\ opSaw' \in BOOLEAN /\ fresh' \in [Requests -> BOOLEAN]
      BY <2>1 DEF TypeOK
    <3> QED BY <2>1, <3>1, <3>2 DEF TypeOK
  <2>3. (~secretUp => users = Nobody)'
    BY <2>1 DEF Nobody
  <2>4. \A r \in Requests :
          /\ (pc[r] # "idle" => op[r] \in Ops)'
          /\ (Edits(r) => op[r].kind # "login")'
          /\ ~fresh'[r]
    BY <2>1
  <2> QED BY <2>2, <2>3, <2>4
<1>3. ASSUME NEW r \in Requests, Start(r) PROVE UsersInv'
  BY <1>3, ServeKeepsInv DEF Start
<1>4. ASSUME NEW r \in Requests, LoginReads(r) PROVE UsersInv'
  <2>1. op[r] \in Ops /\ op[r].email \in Emails
    BY <1>4 DEF LoginReads, Ops
  <2>2. CASE secretUp /\ users = Nobody
    <3>1. /\ pc' = [pc EXCEPT ![r] = "get"]
          /\ op' = [op EXCEPT ![r].kind = "bootstrap"]
          /\ UNCHANGED <<snap, sessions, secretUp, users, opSaw, deletes, fresh, setups>>
      BY <1>4, <2>2 DEF LoginReads
    <3>2. op'[r] \in Ops /\ op'[r].kind = "bootstrap"
      BY <3>1, <2>1 DEF Ops, Kinds, TypeOK
    <3>3. op' \in [Requests -> Ops \union {NoOp}]
      BY <3>1, <3>2 DEF TypeOK
    <3>4. \A q \in Requests : q # r => op'[q] = op[q] /\ pc'[q] = pc[q]
      BY <3>1 DEF TypeOK
    <3>5. TypeOK'
      BY <3>1, <3>2, <3>3, <3>4, NoOpAssumption DEF TypeOK
    <3> QED BY <3>1, <3>2, <3>4, <3>5 DEF TypeOK
  <2>3. CASE ~(secretUp /\ users = Nobody)
    BY <1>0, <1>4, <2>1, <2>3 DEF LoginReads, Answer, TypeOK
  <2> QED BY <2>2, <2>3
<1>5. ASSUME NEW r \in Requests, Get(r) PROVE UsersInv'
  <2>1. CASE secretUp /\ ~Refuses(op[r], users)
    <3>1. /\ pc[r] = "get"
          /\ pc' = [pc EXCEPT ![r] = "put"]
          /\ snap' = [snap EXCEPT ![r] = users]
          /\ fresh' = [fresh EXCEPT ![r] = TRUE]
          /\ UNCHANGED <<op, secretUp, users, opSaw, deletes, sessions, setups>>
      BY <1>5, <2>1 DEF Get
    <3>2. TypeOK'
      BY <3>1 DEF TypeOK
    <3> QED BY <2>1, <3>1, <3>2 DEF TypeOK, Refuses
  <2>2. CASE ~(secretUp /\ ~Refuses(op[r], users))
    <3>1. /\ Answer(r)
          /\ UNCHANGED <<secretUp, users, opSaw, deletes, fresh, sessions, setups>>
      BY <1>5, <2>2 DEF Get
    <3>2. TypeOK'
      BY <1>0, <3>1, NoOpAssumption DEF Answer, TypeOK
    <3> QED BY <3>1, <3>2 DEF Answer, TypeOK
  <2> QED BY <2>1, <2>2
<1>6. ASSUME NEW r \in Requests, Put(r) PROVE UsersInv'
  <2>1. op[r] \in Ops /\ op[r].email \in Emails /\ snap[r] \in Lists
    BY <1>6 DEF Put, Ops, TypeOK
  <2>2. users' \in Lists
    BY <1>6, <2>1, EditedInLists DEF Put
  <2>3. sessions' \in SUBSET Emails /\ setups' \in Nat
    BY <1>6, <2>1 DEF Put, TypeOK
  <2>4. TypeOK'
    BY <1>0, <1>6, <2>2, <2>3 DEF Put, Answer, Written, TypeOK
  <2> QED BY <1>6, <2>4 DEF Put, Answer, Written, TypeOK
<1>7. ASSUME NEW r \in Requests, PutFails(r) PROVE UsersInv'
  BY <1>0, <1>7 DEF PutFails, Answer, TypeOK
<1>8. ASSUME NEW e \in Emails, SessionEnds(e) PROVE UsersInv'
  BY <1>8 DEF SessionEnds, TypeOK
<1>9. CASE UNCHANGED vars
  BY <1>9 DEF vars, TypeOK
<1> QED
  BY <1>1, <1>2, <1>3, <1>4, <1>5, <1>6, <1>7, <1>8, <1>9 DEF Next

LEMMA StepIsOperation == UsersInv /\ [Next]_vars => [Table!TableNext]_(Table!tableVars)
<1> SUFFICES ASSUME UsersInv, [Next]_vars
             PROVE  Table!TableNext \/ UNCHANGED <<secretUp, users>>
  BY DEF Table!tableVars
<1>1. CASE OperatorReads \/ UNCHANGED vars
  BY <1>1 DEF OperatorReads, vars
<1>2. CASE OperatorCreates \/ CreatedByHand
  <2>1. UNCHANGED <<secretUp, users>> \/ Table!Provision
    BY <1>2 DEF OperatorCreates, CreatedByHand, UsersInv, Nobody, Table!Provision, Table!Empty, TypeOK
  <2> QED BY <2>1 DEF Table!TableNext
<1>3. CASE SecretDeleted
  <2>1. Table!Lose
    BY <1>3 DEF SecretDeleted, Nobody, Table!Lose, Table!Empty
  <2> QED BY <2>1 DEF Table!TableNext
<1>4. ASSUME NEW r \in Requests, Put(r) PROVE Table!TableNext
  <2>1. /\ op[r] \in Ops /\ op[r].kind # "login" /\ users \in Lists /\ secretUp
        /\ ~Refuses(op[r], users) /\ users' = Edited(op[r], users) /\ secretUp' = secretUp
    BY <1>4 DEF Put, UsersInv, Edits, TypeOK
  <2> QED BY <2>1, EditIsOperation
<1>5. ASSUME NEW r \in Requests, Start(r) \/ LoginReads(r) \/ Get(r) \/ PutFails(r)
      PROVE  UNCHANGED <<secretUp, users>>
  BY <1>5 DEF Start, Serve, LoginReads, Get, PutFails
<1>6. ASSUME NEW e \in Emails, SessionEnds(e) PROVE UNCHANGED <<secretUp, users>>
  BY <1>6 DEF SessionEnds
<1> QED BY <1>1, <1>2, <1>3, <1>4, <1>5, <1>6 DEF Next

\* The Secret, the requests that edit it and the sessions stay well-typed.
THEOREM UsersTypeCorrect == Spec => []TypeOK
<1>1. UsersInv => TypeOK
  BY DEF UsersInv
<1> QED BY <1>1, UsersInit, UsersInductive, PTL DEF Spec

\* The users Secret of a tenant behaves as one atomic table under any number of
\* concurrent bootstrap and Team-page requests and operator reconciles.
THEOREM UsersAreATable == Spec => ImplementsTable
<1>1. Init => Table!TableInit
  BY DEF Init, Table!TableInit, Table!Empty, Nobody
<1> QED
  BY <1>1, UsersInit, UsersInductive, StepIsOperation, PTL DEF Spec, ImplementsTable, Table!TableSpec

-----------------------------------------------------------------------------
(* Logins *)

\* Every step of LoginSpec is, for the users Secret, one of these.
UsersStep ==
    \/ [Next]_vars
    \/ \E r \in Requests : Dismissed(r)
    \/ \E r \in Requests : \E o \in Ops : Serve(r, o)

\* What a login has bound is among the owners it has seen, and the bootstrap
\* path is entered only by a login that was bound to an internal instance.
LoginInv ==
    /\ UsersInv
    /\ LoginTypeOK
    /\ \A r \in Requests :
        /\ bound[r] # Unbound => bound[r] \in held[r] /\ op[r].kind = "login"
        /\ op[r] # NoOp /\ op[r].kind = "bootstrap" => Internal \in held[r]
        /\ pc[r] = "read" => op[r].kind = "login"
        /\ LogsIn(op[r]) => owner \in held[r]

LEMMA StepOfUsers == LoginNext => UsersStep
<1> SUFFICES ASSUME LoginNext PROVE UsersStep
  OBVIOUS
<1>1. CASE OwnerChanges
  BY <1>1 DEF OwnerChanges, UsersStep
<1>2. ASSUME NEW e \in Emails, AccountDeleted(e) \/ AccountVerified(e) PROVE UsersStep
  BY <1>2 DEF AccountDeleted, AccountVerified, UsersStep
<1>3. ASSUME NEW r \in Requests, Arrive(r) PROVE UsersStep
  BY <1>3 DEF Arrive, UsersStep
<1>4. ASSUME NEW r \in Requests, Bind(r) PROVE UsersStep
  <2>1. CASE owner = Gone
    BY <1>4, <2>1 DEF Bind, LoginStep, UsersStep, Dismissed
  <2>2. CASE owner # Gone
    BY <1>4, <2>2 DEF Bind, LoginStep, UsersStep, vars
  <2> QED BY <2>1, <2>2
<1>5. ASSUME NEW r \in Requests, LoginSaaS(r) \/ LoginFails(r) PROVE UsersStep
  BY <1>5 DEF LoginSaaS, LoginFails, LoginStep, UsersStep, Dismissed
<1>6. ASSUME NEW r \in Requests, LoginLegacy(r) PROVE UsersStep
  BY <1>6 DEF LoginLegacy, UsersStep, Next
<1>7. ASSUME NEW r \in Requests, Edit(r) PROVE UsersStep
  BY <1>7 DEF Edit, UsersStep, Next
<1>8. CASE Secret \/ \E e \in Emails : SessionEnds(e)
  BY <1>8 DEF Secret, UsersStep, Next
<1>9. ASSUME NEW s \in uids, SaaSSessionEnds(s) PROVE UsersStep
  BY <1>9 DEF SaaSSessionEnds, UsersStep
<1> QED BY <1>1, <1>2, <1>3, <1>4, <1>5, <1>6, <1>7, <1>8, <1>9 DEF LoginNext

LEMMA UsersInvKept == UsersInv /\ (UsersStep \/ UNCHANGED vars) => UsersInv'
<1> SUFFICES ASSUME UsersInv, UsersStep \/ UNCHANGED vars PROVE UsersInv'
  OBVIOUS
<1> QED BY UsersInductive, DismissedKeepsInv, ServeKeepsInv DEF UsersStep

\* The list stays an atomic table while the instance changes hands.
LEMMA StepOfTable ==
    UsersInv /\ (UsersStep \/ UNCHANGED vars) => [Table!TableNext]_(Table!tableVars)
<1> SUFFICES ASSUME UsersInv, UsersStep \/ UNCHANGED vars
             PROVE  [Table!TableNext]_(Table!tableVars)
  OBVIOUS
<1>1. ASSUME NEW r \in Requests, Dismissed(r) PROVE UNCHANGED Table!tableVars
  BY <1>1 DEF Dismissed, Table!tableVars
<1>2. ASSUME NEW r \in Requests, NEW o \in Ops, Serve(r, o) PROVE UNCHANGED Table!tableVars
  BY <1>2 DEF Serve, Table!tableVars
<1> QED BY <1>1, <1>2, StepIsOperation DEF UsersStep

LEMMA LoginInvInit == LoginInit => LoginInv
<1> SUFFICES ASSUME LoginInit PROVE LoginInv
  OBVIOUS
<1>1. UsersInv
  BY UsersInit DEF LoginInit
<1>2. \A r \in Requests : pc[r] = "idle" /\ op[r] = NoOp /\ bound[r] = Unbound
  BY DEF LoginInit, Init
<1>3. account \in [Emails -> Ids \union {NoId}]
  BY DEF LoginInit
<1>4. owner \in Ids \union {Internal} /\ used \in SUBSET Ids
  BY DEF LoginInit
<1>5. changes \in 0 .. MaxChanges
  BY MaxChangesAssumption DEF LoginInit
<1>6. LoginTypeOK
  BY <1>1, <1>2, <1>3, <1>4, <1>5 DEF LoginInit, LoginTypeOK, UsersInv
<1> QED BY <1>1, <1>2, <1>6 DEF LoginInv, LogsIn, LoginTypeOK, TypeOK

\* The part of LoginInv that is about one request.
Honest(r) ==
    /\ bound[r] \in Ids \union {Internal, Unbound}
    /\ held[r] \in SUBSET (Ids \union {Internal, Gone})
    /\ bound[r] # Unbound => pc[r] = "read" /\ bound[r] \in held[r] /\ op[r].kind = "login"
    /\ op[r] # NoOp /\ op[r].kind = "bootstrap" => Internal \in held[r]
    /\ pc[r] = "read" => op[r].kind = "login"
    /\ LogsIn(op[r]) => owner \in held[r]

\* A step that serves request r leaves the others alone.
LEMMA OthersHonest ==
    ASSUME LoginInv, Frame, NEW r \in Requests,
           \A q \in Requests : q # r => pc'[q] = pc[q] /\ op'[q] = op[q] /\ bound'[q] = bound[q]
    PROVE  \A q \in Requests : q # r => Honest(q)'
<1> SUFFICES ASSUME NEW q \in Requests, q # r PROVE Honest(q)'
  OBVIOUS
<1>1. held'[q] = IF ~LogsIn(op[q]) THEN {}
                 ELSE IF pc[q] = "idle" THEN {owner} ELSE held[q]
  BY DEF Frame
<1>2. Honest(q)
  BY DEF LoginInv, LoginTypeOK, Honest
<1>3. op[q] # NoOp => pc[q] # "idle"
  BY DEF LoginInv, LoginTypeOK, TypeOK
<1>4. CASE LogsIn(op[q])
  <2>1. held'[q] = held[q] /\ LogsIn(op'[q]) /\ owner' = owner
    BY <1>1, <1>3, <1>4 DEF LogsIn, Frame
  <2> QED BY <1>2, <1>4, <2>1 DEF Honest
<1>5. CASE ~LogsIn(op[q])
  <2>1. bound[q] = Unbound
    BY <1>2, <1>5 DEF Honest, LogsIn, LoginInv, LoginTypeOK, TypeOK
  <2>2. held'[q] = {} /\ ~LogsIn(op'[q])
    BY <1>1, <1>5
  <2> QED BY <1>2, <2>1, <2>2 DEF Honest, LogsIn
<1> QED BY <1>4, <1>5

\* The types that a step serving a request may touch.
LEMMA FrameTyped ==
    ASSUME LoginInv, UsersInv', Frame, uids' \in SUBSET (Emails \X Ids),
           DOMAIN bound' = Requests, bound' = [q \in Requests |-> bound'[q]],
           \A q \in Requests : Honest(q)'
    PROVE  LoginInv'
<1>1. held' \in [Requests -> SUBSET (Ids \union {Internal, Gone})]
  BY DEF Frame, Honest
<1>2. bound' \in [Requests -> Ids \union {Internal, Unbound}]
  BY DEF Honest
<1>3. LoginTypeOK'
  BY <1>1, <1>2 DEF LoginInv, LoginTypeOK, Frame, Honest, UsersInv
<1> QED BY <1>3 DEF LoginInv, Honest

LEMMA LoginInductive == LoginInv /\ [LoginNext]_allVars => LoginInv'
<1> SUFFICES ASSUME LoginInv, [LoginNext]_allVars PROVE LoginInv'
  OBVIOUS
<1>0. UsersInv'
  BY StepOfUsers, UsersInvKept DEF LoginInv, allVars, vars
<1>t. /\ \A r \in Requests : Honest(r)
      /\ \A r \in Requests : op[r] # NoOp <=> pc[r] # "idle"
      /\ bound \in [Requests -> Ids \union {Internal, Unbound}]
      /\ held \in [Requests -> SUBSET (Ids \union {Internal, Gone})]
      /\ op \in [Requests -> Ops \union {NoOp}]
      /\ pc \in [Requests -> {"idle", "read", "get", "put"}]
      /\ NoOp \notin Ops
      /\ owner \in Ids \union {Internal, Gone} /\ used \in SUBSET Ids
      /\ account \in [Emails -> Ids \union {NoId}] /\ uids \in SUBSET (Emails \X Ids)
      /\ changes \in 0 .. MaxChanges /\ deletes \in Nat
  BY NoOpAssumption DEF LoginInv, LoginTypeOK, TypeOK, Honest
<1>1. CASE OwnerChanges
  <2>1. /\ owner' \in Ids \union {Internal, Gone}
        /\ changes' \in 0 .. MaxChanges
        /\ held' = [r \in Requests |-> IF LogsIn(op[r]) THEN held[r] \union {owner'} ELSE {}]
        /\ UNCHANGED <<vars, account, used, bound, uids>>
    BY <1>1, <1>t, MaxChangesAssumption DEF OwnerChanges, Change
  <2>2. held' \in [Requests -> SUBSET (Ids \union {Internal, Gone})]
    BY <2>1, <1>t
  <2>3. LoginTypeOK'
    BY <1>0, <1>t, <2>1, <2>2 DEF LoginTypeOK, LoginInv, UsersInv, vars
  <2>4. ASSUME NEW r \in Requests PROVE Honest(r)'
    <3>1. CASE LogsIn(op[r])
      BY <1>t, <2>1, <2>2, <3>1 DEF Honest, LogsIn, vars
    <3>2. CASE ~LogsIn(op[r])
      BY <1>t, <2>1, <2>2, <3>2 DEF Honest, LogsIn, vars
    <3> QED BY <3>1, <3>2
  <2> QED BY <1>0, <2>3, <2>4 DEF LoginInv, Honest
<1>2. ASSUME NEW e \in Emails, AccountDeleted(e) \/ AccountVerified(e) PROVE LoginInv'
  <2>1. /\ changes' \in 0 .. MaxChanges
        /\ account' \in [Emails -> Ids \union {NoId}]
        /\ used' \in SUBSET Ids
        /\ UNCHANGED <<vars, owner, bound, uids, held>>
    BY <1>2, <1>t, MaxChangesAssumption DEF AccountDeleted, AccountVerified, Change
  <2> QED BY <1>0, <1>t, <2>1 DEF LoginInv, LoginTypeOK, UsersInv, Honest, vars
<1>3. ASSUME NEW r \in Requests, Arrive(r) PROVE LoginInv'
  <2>1. PICK o \in Ops : Serve(r, o)
    BY <1>3 DEF Arrive
  <2>2. /\ o.kind # "bootstrap" /\ pc[r] = "idle"
        /\ op' = [op EXCEPT ![r] = o]
        /\ pc' = [pc EXCEPT ![r] = IF o.kind = "login" THEN "read" ELSE "get"]
        /\ Frame /\ bound' = bound /\ uids' = uids
    BY <1>3, <2>1 DEF Arrive, Serve
  <2>3. \A q \in Requests : q # r => Honest(q)'
    BY <2>2, <1>t, OthersHonest
  <2>4. bound[r] = Unbound /\ owner' = owner
    BY <1>t, <2>2 DEF Honest, Frame
  <2>5. op'[r] = o /\ pc'[r] = (IF o.kind = "login" THEN "read" ELSE "get")
    BY <1>t, <2>2
  <2>6. held'[r] = IF LogsIn(o) THEN {owner} ELSE {}
    BY <2>2, <2>5 DEF Frame
  <2>7. Honest(r)'
    BY <1>t, <2>2, <2>4, <2>5, <2>6 DEF Honest, LogsIn
  <2> QED BY <1>0, <1>t, <2>2, <2>3, <2>7, FrameTyped
<1>4. ASSUME NEW r \in Requests, Bind(r) PROVE LoginInv'
  <2>1. pc[r] = "read" /\ Frame /\ bound[r] = Unbound /\ uids' = uids /\ owner' = owner
    BY <1>4 DEF Bind, LoginStep, Frame
  <2>2. CASE owner = Gone
    <3>1. Answer(r) /\ bound' = bound
      BY <1>4, <2>2 DEF Bind
    <3>2. op'[r] = NoOp /\ pc'[r] = "idle" /\ held'[r] = {}
      BY <1>t, <2>1, <3>1 DEF Answer, Frame, LogsIn
    <3>3. Honest(r)'
      BY <1>t, <2>1, <3>1, <3>2 DEF Honest, LogsIn
    <3>4. \A q \in Requests : q # r => Honest(q)'
      BY <1>t, <2>1, <3>1, OthersHonest DEF Answer
    <3> QED BY <1>0, <1>t, <2>1, <3>1, <3>3, <3>4, FrameTyped
  <2>3. CASE owner # Gone
    <3>1. bound' = [bound EXCEPT ![r] = owner] /\ UNCHANGED <<pc, op>>
      BY <1>4, <2>3 DEF Bind
    <3>2. LogsIn(op[r])
      BY <1>t, <2>1 DEF Honest, LogsIn
    <3>3. held'[r] = held[r]
      BY <1>t, <2>1, <3>1, <3>2 DEF Frame
    <3>4. Honest(r)'
      BY <1>t, <2>1, <2>3, <3>1, <3>2, <3>3 DEF Honest
    <3>5. \A q \in Requests : q # r => Honest(q)'
      BY <1>t, <2>1, <3>1, OthersHonest
    <3> QED BY <1>0, <1>t, <2>1, <3>1, <3>4, <3>5, FrameTyped
  <2> QED BY <2>2, <2>3
<1>5. ASSUME NEW r \in Requests, LoginSaaS(r) \/ LoginFails(r) PROVE LoginInv'
  <2>1. /\ Answer(r) /\ Frame /\ owner' = owner
        /\ bound' = [bound EXCEPT ![r] = Unbound]
        /\ uids' \in SUBSET (Emails \X Ids)
    <3>1. CASE LoginFails(r)
      BY <1>t, <3>1 DEF LoginFails, Frame
    <3>2. CASE LoginSaaS(r)
      <4>1. op[r].email \in Emails
        BY <1>t, <3>2 DEF LoginSaaS, LoginStep, Ops
      <4> QED BY <1>t, <3>2, <4>1 DEF LoginSaaS, Frame
    <3> QED BY <1>5, <3>1, <3>2
  <2>2. op'[r] = NoOp /\ pc'[r] = "idle" /\ held'[r] = {} /\ bound'[r] = Unbound
    BY <1>t, <2>1 DEF Answer, Frame, LogsIn
  <2>3. Honest(r)'
    BY <1>t, <2>1, <2>2 DEF Honest, LogsIn
  <2>4. \A q \in Requests : q # r => Honest(q)'
    BY <1>t, <2>1, OthersHonest DEF Answer
  <2> QED BY <1>0, <1>t, <2>1, <2>3, <2>4, FrameTyped
<1>6. ASSUME NEW r \in Requests, LoginLegacy(r) PROVE LoginInv'
  <2>1. /\ pc[r] = "read" /\ bound[r] = Internal /\ Frame /\ owner' = owner
        /\ bound' = [bound EXCEPT ![r] = Unbound] /\ uids' = uids
    BY <1>6 DEF LoginLegacy, LoginReads, Frame
  <2>2. LogsIn(op[r]) /\ Internal \in held[r] /\ owner \in held[r] /\ op[r] \in Ops
    BY <1>t, <2>1, UnboundAssumption DEF Honest, LogsIn
  <2>3. CASE Answer(r)
    <3>1. op'[r] = NoOp /\ pc'[r] = "idle" /\ held'[r] = {} /\ bound'[r] = Unbound
      BY <1>t, <2>1, <2>3 DEF Answer, Frame, LogsIn
    <3>2. Honest(r)'
      BY <1>t, <2>1, <3>1 DEF Honest, LogsIn
    <3>3. \A q \in Requests : q # r => Honest(q)'
      BY <1>t, <2>1, <2>3, OthersHonest DEF Answer
    <3> QED BY <1>0, <1>t, <2>1, <3>2, <3>3, FrameTyped
  <2>4. CASE pc' = [pc EXCEPT ![r] = "get"] /\ op' = [op EXCEPT ![r].kind = "bootstrap"]
    <3>1. op'[r] \in Ops /\ op'[r].kind = "bootstrap" /\ pc'[r] = "get" /\ bound'[r] = Unbound
      BY <1>t, <2>1, <2>2, <2>4 DEF Ops, Kinds
    <3>2. held'[r] = held[r]
      BY <1>t, <2>1, <3>1 DEF Frame, LogsIn
    <3>3. Honest(r)'
      BY <1>t, <2>1, <2>2, <3>1, <3>2 DEF Honest, LogsIn
    <3>4. \A q \in Requests : q # r => Honest(q)'
      BY <1>t, <2>1, <2>4, OthersHonest
    <3> QED BY <1>0, <1>t, <2>1, <3>3, <3>4, FrameTyped
  <2> QED BY <1>6, <2>3, <2>4 DEF LoginLegacy, LoginReads
<1>7. ASSUME NEW r \in Requests, Edit(r) PROVE LoginInv'
  <2>1. pc[r] \in {"get", "put"} /\ Frame /\ owner' = owner /\ bound' = bound /\ uids' = uids
    BY <1>7 DEF Edit, Get, Put, PutFails, Frame
  <2>2. bound[r] = Unbound
    BY <1>t, <2>1 DEF Honest
  <2>3. CASE Answer(r)
    <3>1. op'[r] = NoOp /\ pc'[r] = "idle" /\ held'[r] = {}
      BY <1>t, <2>1, <2>3 DEF Answer, Frame, LogsIn
    <3>2. Honest(r)'
      BY <1>t, <2>1, <2>2, <3>1 DEF Honest, LogsIn
    <3>3. \A q \in Requests : q # r => Honest(q)'
      BY <1>t, <2>1, <2>3, OthersHonest DEF Answer
    <3> QED BY <1>0, <1>t, <2>1, <3>2, <3>3, FrameTyped
  <2>4. CASE pc' = [pc EXCEPT ![r] = "put"] /\ op' = op
    <3>1. held'[r] = IF LogsIn(op[r]) THEN held[r] ELSE {}
      BY <1>t, <2>1, <2>4 DEF Frame
    <3>2. Honest(r)'
      BY <1>t, <2>1, <2>2, <2>4, <3>1 DEF Honest, LogsIn
    <3>3. \A q \in Requests : q # r => Honest(q)'
      BY <1>t, <2>1, <2>4, OthersHonest
    <3> QED BY <1>0, <1>t, <2>1, <3>2, <3>3, FrameTyped
  <2> QED BY <1>7, <2>3, <2>4 DEF Edit, Get, Put, PutFails
<1>8. CASE (Secret \/ \E e \in Emails : SessionEnds(e)) /\ UNCHANGED loginVars
  <2>1. pc' = pc /\ op' = op
    BY <1>8 DEF Secret, SessionEnds, OperatorReads, OperatorCreates, CreatedByHand, SecretDeleted
  <2> QED BY <1>0, <1>8, <1>t, <2>1 DEF loginVars, LoginInv, LoginTypeOK, UsersInv, Honest
<1>9. ASSUME NEW s \in uids, SaaSSessionEnds(s) PROVE LoginInv'
  <2>1. UNCHANGED <<vars, owner, account, used, bound, changes, held>> /\ uids' \in SUBSET (Emails \X Ids)
    BY <1>9, <1>t DEF SaaSSessionEnds
  <2> QED BY <1>0, <1>t, <2>1 DEF LoginInv, LoginTypeOK, UsersInv, Honest, vars
<1>10. CASE UNCHANGED allVars
  BY <1>0, <1>t, <1>10 DEF LoginInv, LoginTypeOK, UsersInv, Honest, allVars, loginVars, vars
<1> QED
  BY <1>1, <1>2, <1>3, <1>4, <1>5, <1>6, <1>7, <1>8, <1>9, <1>10 DEF LoginNext

-----------------------------------------------------------------------------
(* The bootstrap race *)

\* An empty list has not been set up.
RaceInv ==
    /\ setups <= 1
    /\ users = Nobody => setups = 0

LEMMA RaceInit == LoginInit => RaceInv
BY DEF LoginInit, Init, RaceInv, Nobody

LEMMA PutKeepsRace ==
    ASSUME UsersInv, RaceInv, NEW r \in Requests, Put(r)
    PROVE  RaceInv'
<1>1. /\ op[r] \in Ops /\ op[r].email \in Emails /\ op[r].pw \in Passwords
      /\ users = snap[r] /\ ~Refuses(op[r], users) /\ users \in Lists
      /\ users' = Edited(op[r], users)
  BY DEF Put, UsersInv, Ops, TypeOK
<1>2. CASE op[r].kind = "bootstrap" /\ sessions' = sessions \union {op[r].email} /\ setups' = setups + 1
  <2>1. users = Nobody /\ users' = [Nobody EXCEPT ![op[r].email] = op[r].pw]
    BY <1>1, <1>2 DEF Refuses, Edited
  <2>2. users'[op[r].email] = op[r].pw /\ op[r].pw # Absent
    BY <1>1, <2>1, AbsentAssumption DEF Nobody
  <2>3. users' # Nobody
    BY <1>1, <2>2 DEF Nobody
  <2> QED BY <1>1, <1>2, <2>1, <2>2, <2>3 DEF RaceInv
<1>3. CASE setups' = (IF users' = Nobody THEN 0 ELSE setups) /\ sessions' = sessions
  BY <1>1, <1>3 DEF RaceInv, Nobody
<1> QED BY <1>2, <1>3 DEF Put

LEMMA RaceKept == UsersInv /\ RaceInv /\ (UsersStep \/ UNCHANGED vars) => RaceInv'
<1> SUFFICES ASSUME UsersInv, RaceInv, UsersStep \/ UNCHANGED vars PROVE RaceInv'
  OBVIOUS
<1>1. CASE OperatorReads \/ OperatorCreates \/ CreatedByHand \/ UNCHANGED vars
  BY <1>1 DEF OperatorReads, OperatorCreates, CreatedByHand, RaceInv, Nobody, vars
<1>2. CASE SecretDeleted
  BY <1>2 DEF SecretDeleted, RaceInv, Nobody
<1>3. ASSUME NEW r \in Requests, NEW o \in Ops, Serve(r, o) PROVE RaceInv'
  BY <1>3 DEF Serve, RaceInv, Nobody
<1>4. ASSUME NEW r \in Requests, LoginReads(r) PROVE RaceInv'
  BY <1>4 DEF LoginReads, RaceInv, Nobody
<1>5. ASSUME NEW r \in Requests, Get(r) \/ PutFails(r) \/ Dismissed(r) PROVE RaceInv'
  BY <1>5 DEF Get, PutFails, Dismissed, RaceInv, Nobody
<1>6. ASSUME NEW r \in Requests, Put(r) PROVE RaceInv'
  BY <1>6, PutKeepsRace
<1>7. ASSUME NEW e \in Emails, SessionEnds(e) PROVE RaceInv'
  BY <1>7 DEF SessionEnds, RaceInv, Nobody
<1> QED BY <1>1, <1>2, <1>3, <1>4, <1>5, <1>6, <1>7 DEF UsersStep, Next, Start

LEMMA RaceInductive == LoginInv /\ RaceInv /\ [LoginNext]_allVars => RaceInv'
BY StepOfUsers, RaceKept DEF LoginInv, allVars, vars

-----------------------------------------------------------------------------
(* Who gets a session *)

LEMMA StepEntitled ==
    LoginInv /\ [LoginNext]_allVars =>
        [ /\ \A e \in sessions' \ sessions :
               \E r \in Requests : op[r] # NoOp /\ op[r].email = e /\ Internal \in held[r]
          /\ \A s \in uids' \ uids :
               /\ account[s[1]] = s[2]
               /\ \E r \in Requests : op[r] # NoOp /\ op[r].email = s[1] /\ s[2] \in held[r]
        ]_allVars
<1> SUFFICES ASSUME LoginInv, LoginNext
             PROVE  /\ \A e \in sessions' \ sessions :
                         \E r \in Requests : op[r] # NoOp /\ op[r].email = e /\ Internal \in held[r]
                    /\ \A s \in uids' \ uids :
                         /\ account[s[1]] = s[2]
                         /\ \E r \in Requests : op[r] # NoOp /\ op[r].email = s[1] /\ s[2] \in held[r]
  OBVIOUS
<1>t. \A r \in Requests : Honest(r) /\ (pc[r] # "idle" => op[r] # NoOp)
  BY DEF LoginInv, LoginTypeOK, TypeOK, Honest
<1>1. ASSUME NEW r \in Requests, LoginSaaS(r)
      PROVE  /\ sessions' = sessions
             /\ \A s \in uids' \ uids :
                  account[s[1]] = s[2] /\ op[r] # NoOp /\ op[r].email = s[1] /\ s[2] \in held[r]
  <2>1. bound[r] \in held[r] /\ op[r] # NoOp
    BY <1>1, <1>t, IdsAssumption DEF LoginSaaS, LoginStep, Honest
  <2> QED BY <1>1, <2>1 DEF LoginSaaS
<1>2. ASSUME NEW r \in Requests, LoginLegacy(r)
      PROVE  /\ uids' = uids
             /\ \A e \in sessions' \ sessions :
                  op[r] # NoOp /\ op[r].email = e /\ Internal \in held[r]
  <2>1. Internal \in held[r] /\ op[r] # NoOp
    BY <1>2, <1>t, UnboundAssumption DEF LoginLegacy, Honest
  <2> QED BY <1>2, <2>1 DEF LoginLegacy, LoginReads
<1>3. ASSUME NEW r \in Requests, Edit(r)
      PROVE  /\ uids' = uids
             /\ \A e \in sessions' \ sessions :
                  op[r] # NoOp /\ op[r].email = e /\ Internal \in held[r]
  <2>1. CASE op[r].kind = "bootstrap" /\ Put(r)
    BY <1>3, <1>t, <2>1 DEF Edit, Put, Honest
  <2>2. CASE ~(op[r].kind = "bootstrap" /\ Put(r))
    BY <1>3, <2>2 DEF Edit, Get, Put, PutFails
  <2> QED BY <2>1, <2>2
<1>4. CASE \/ OwnerChanges
           \/ \E e \in Emails : AccountDeleted(e) \/ AccountVerified(e)
           \/ \E r \in Requests : Arrive(r) \/ Bind(r) \/ LoginFails(r)
  BY <1>4 DEF OwnerChanges, AccountDeleted, AccountVerified, Arrive, Serve, Bind, LoginFails, vars
<1>5. CASE (Secret \/ \E e \in Emails : SessionEnds(e)) /\ UNCHANGED loginVars
  <2>1. sessions' \subseteq sessions
    BY <1>5 DEF Secret, SessionEnds, OperatorReads, OperatorCreates, CreatedByHand, SecretDeleted
  <2> QED BY <1>5, <2>1 DEF loginVars
<1>6. CASE \E s \in uids : SaaSSessionEnds(s)
  BY <1>6 DEF SaaSSessionEnds, vars
<1> QED BY <1>1, <1>2, <1>3, <1>4, <1>5, <1>6 DEF LoginNext

\* A login that reads finds its password in the list; one that wrote the list of
\* its bootstrap put it there.
LEMMA StepSessions ==
    UsersInv /\ (UsersStep \/ UNCHANGED vars) =>
        [\A e \in sessions' \ sessions :
            \E r \in Requests : op[r] # NoOp /\ op[r].email = e /\ users'[e] = op[r].pw]_vars
<1> SUFFICES ASSUME UsersInv, UsersStep, NEW e \in sessions' \ sessions
             PROVE  \E r \in Requests : op[r] # NoOp /\ op[r].email = e /\ users'[e] = op[r].pw
  BY DEF vars
<1>1. ASSUME NEW r \in Requests, LoginReads(r)
      PROVE  op[r] # NoOp /\ op[r].email = e /\ users'[e] = op[r].pw
  <2>1. op[r] # NoOp
    BY <1>1, NoOpAssumption DEF LoginReads, UsersInv
  <2> QED BY <1>1, <2>1 DEF LoginReads
<1>2. ASSUME NEW r \in Requests, Put(r)
      PROVE  op[r] # NoOp /\ op[r].email = e /\ users'[e] = op[r].pw
  <2>1. op[r] \in Ops /\ op[r] # NoOp /\ op[r].email \in Emails
    BY <1>2, NoOpAssumption DEF Put, UsersInv, Ops
  <2>2. op[r].kind = "bootstrap" /\ op[r].email = e
    BY <1>2 DEF Put
  <2>3. users' = [Nobody EXCEPT ![e] = op[r].pw]
    BY <1>2, <2>2 DEF Put, Edited
  <2> QED BY <2>1, <2>2, <2>3 DEF Nobody
<1>3. ASSUME \/ OperatorReads \/ OperatorCreates \/ CreatedByHand \/ SecretDeleted
             \/ \E r \in Requests : Start(r) \/ Get(r) \/ PutFails(r) \/ Dismissed(r)
             \/ \E r \in Requests : \E o \in Ops : Serve(r, o)
             \/ \E f \in Emails : SessionEnds(f)
             \/ UNCHANGED vars
      PROVE  FALSE
  BY <1>3 DEF OperatorReads, OperatorCreates, CreatedByHand, SecretDeleted, Start, Serve, Get,
              PutFails, Dismissed, SessionEnds, vars
<1> QED BY <1>1, <1>2, <1>3 DEF UsersStep, Next

-----------------------------------------------------------------------------

\* Logins of either kind, the Team page and changes of the instance leave the
\* state of the workspace's login well-typed (handleLogin).
THEOREM LoginTypeCorrect == LoginSpec => []LoginTypeOK
<1>1. LoginInv => LoginTypeOK
  BY DEF LoginInv
<1> QED BY <1>1, LoginInvInit, LoginInductive, PTL DEF LoginSpec

\* The users Secret is an atomic table for the login that first looks at the
\* KaiInstance, too (handleLogin, updateUsersSecret).
THEOREM LoginOnATable == LoginSpec => ImplementsTable
<1>1. LoginInit => Table!TableInit
  BY DEF LoginInit, Init, Table!TableInit, Table!Empty, Nobody
<1>2. LoginInv /\ [LoginNext]_allVars => [Table!TableNext]_(Table!tableVars)
  <2> SUFFICES ASSUME LoginInv, [LoginNext]_allVars
               PROVE  [Table!TableNext]_(Table!tableVars)
    OBVIOUS
  <2>1. UsersInv /\ (UsersStep \/ UNCHANGED vars)
    BY StepOfUsers DEF LoginInv, allVars, vars
  <2> QED BY <2>1, StepOfTable
<1> QED
  BY <1>1, <1>2, LoginInvInit, LoginInductive, PTL
  DEF LoginSpec, ImplementsTable, Table!TableSpec

\* However the instance and the accounts change while a login is served, its
\* session goes to an owner the instance had meanwhile (loginSaaS), and one of
\* the legacy kind needs that it was internally managed (handleLogin).
THEOREM LoginsAreEntitled == LoginSpec => OnlyEntitled
<1> QED
  BY LoginInvInit, LoginInductive, StepEntitled, PTL DEF LoginSpec, OnlyEntitled

\* Two first logins that both see an empty list: one is answered 201, the other
\* 409, however the Secret and the instance change meanwhile (handleLogin).
THEOREM BootstrapHasOneWinner == LoginSpec => []OneAdminPerSetup
<1>1. RaceInv => OneAdminPerSetup
  BY DEF RaceInv, OneAdminPerSetup
<1> QED BY <1>1, RaceInit, RaceInductive, LoginInvInit, LoginInductive, PTL DEF LoginSpec

\* However logins race, and whatever the Team page and the operator do meanwhile,
\* a session of the users Secret is issued only to a request whose email and
\* password the list has when the request has read or written it (handleLogin).
THEOREM SessionsAreOfUsers == LoginSpec => SessionsHaveUsers
<1>1. LoginInv /\ [LoginNext]_allVars =>
        [\A e \in sessions' \ sessions :
            \E r \in Requests : op[r] # NoOp /\ op[r].email = e /\ users'[e] = op[r].pw]_vars
  <2> SUFFICES ASSUME LoginInv, [LoginNext]_allVars
               PROVE  [\A e \in sessions' \ sessions :
                          \E r \in Requests :
                              op[r] # NoOp /\ op[r].email = e /\ users'[e] = op[r].pw]_vars
    OBVIOUS
  <2>1. UsersInv /\ (UsersStep \/ UNCHANGED vars)
    BY StepOfUsers DEF LoginInv, allVars, vars
  <2> QED BY <2>1, StepSessions
<1> QED
  BY <1>1, LoginInvInit, LoginInductive, PTL DEF LoginSpec, SessionsHaveUsers

=============================================================================
