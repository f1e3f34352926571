------------------------- MODULE UserStorePgProofs -------------------------
(* Theorems of UserStorePg, for every number of users, addresses and calls    *)
(* and every grace period.                                                  *)
EXTENDS UserStorePg, TLAPS

-----------------------------------------------------------------------------
(* The inductive invariant *)

Deleting(c) == pc[c] \in {"checked", "updated", "logged"}

\* Inside its transaction, after the UPDATE.
Written(c) == pc[c] \in {"updated", "logged"}

\* A call takes no longer than the grace period.
InTime ==
    \A c \in Calls :
        /\ pc[c] # "idle" => began[c] <= clock /\ clock <= began[c] + Grace
        /\ pc[c] = "selected" => began[c] >= Grace

\* A row whose UPDATE matched stays active and locked, one whose UPDATE did not
\* match was a user and is none any more.
RowsHeld ==
    /\ \A c \in Calls :
        /\ Deleting(c) => target[c] \in used
        /\ hit[c] => Written(c)
        /\ Written(c) => (hit[c] <=> IsActive(target[c]))
    /\ \A c, d \in Calls : hit[c] /\ hit[d] /\ target[c] = target[d] => c = d

\* What a purge is going to erase is among what it has selected: no deletion
\* that ends meanwhile began before the purge's cutoff.
PurgesSelected ==
    \A c \in Calls : pc[c] = "selected" => Expired(began[c] - Grace) \subseteq doomed[c]

AuditUsed == \A i \in Ids : audit[i] # Unlogged => i \in used

PgInv == TypeOK /\ InTime /\ RowsHeld /\ PurgesSelected /\ AuditUsed /\ DeletionsLogged

-----------------------------------------------------------------------------
(* Types *)

LEMMA TypeInit == Init => TypeOK
<1> SUFFICES ASSUME Init PROVE TypeOK
  OBVIOUS
<1>1. (CHOOSE i \in Ids : TRUE) \in Ids
  BY IdsAssumption
<1>2. target \in [Calls -> Ids]
  BY <1>1 DEF Init
<1>3. 0 \in Times
  BY GraceAssumption DEF Times
<1>4. OneUserPerEmail
  BY DEF Init, OneUserPerEmail, IsActive
<1> QED BY <1>2, <1>3, <1>4 DEF Init, TypeOK

LEMMA EndedTyped ==
    ASSUME TypeOK, NEW c \in Calls, Ended(c)
    PROVE  /\ pc' \in [Calls -> {"idle", "checked", "updated", "logged", "selected"}]
           /\ began' \in [Calls -> Times]
           /\ target' \in [Calls -> Ids]
           /\ hit' \in [Calls -> BOOLEAN]
           /\ doomed' \in [Calls -> SUBSET Ids]
           /\ marked' \in [Calls -> SUBSET Ids]
           /\ \A d \in Calls : marked'[d] \subseteq doomed'[d] /\ (doomed'[d] # {} => pc'[d] = "selected")
BY DEF TypeOK, Ended

\* An active row was active before the step, with its address, or is the row
\* that Create inserts past the index.
LEMMA OneUserNext == TypeOK /\ RowsHeld /\ [Next]_vars => OneUserPerEmail'
<1> SUFFICES ASSUME TypeOK, RowsHeld, [Next]_vars PROVE OneUserPerEmail'
  OBVIOUS
<1>o. OneUserPerEmail
  BY DEF TypeOK
<1>k. ASSUME \A j \in Ids : IsActive(j)' => IsActive(j) /\ rows'[j].email = rows[j].email
      PROVE  OneUserPerEmail'
  BY <1>o, <1>k DEF OneUserPerEmail, IsActive
<1>1. ASSUME NEW i \in Ids, NEW e \in Emails, NEW a \in Attrs, Create(i, e, a)
      PROVE  OneUserPerEmail'
  <2> DEFINE r == [email |-> e, attr |-> a, deleted |-> Active]
  <2>1. r.email = e /\ rows' = [rows EXCEPT ![i] = r] /\ ~Taken(e)
    BY <1>1 DEF Create
  <2> HIDE DEF r
  <2>2. rows'[i].email = e /\ \A j \in Ids \ {i} : rows'[j] = rows[j]
    BY <2>1 DEF TypeOK
  <2>3. \A j \in Ids \ {i} : IsActive(j)' => IsActive(j) /\ rows[j].email # e
    BY <2>1, <2>2 DEF IsActive, Taken
  <2> QED BY <1>o, <2>2, <2>3 DEF OneUserPerEmail, IsActive
<1>2. ASSUME NEW i \in Ids, NEW a \in Attrs, Update(i, a) PROVE OneUserPerEmail'
  <2> DEFINE r == [rows[i] EXCEPT !.attr = a]
  <2>1. rows[i] \in Rows /\ IsActive(i)
    BY <1>2 DEF Update, IsActive, TypeOK
  <2>2. r.email = rows[i].email /\ rows' = [rows EXCEPT ![i] = r]
    BY <1>2, <2>1 DEF Update, Rows
  <2> HIDE DEF r
  <2> QED BY <1>k, <2>1, <2>2 DEF IsActive, TypeOK
<1>3. ASSUME NEW c \in Calls, Commit(c) PROVE OneUserPerEmail'
  <2>1. CASE hit[c]
    <3> DEFINE i == target[c]
               r == [rows[i] EXCEPT !.deleted = began[c]]
    <3>1. i \in Ids /\ rows[i] \in Rows /\ IsActive(i)
      BY <1>3, <2>1 DEF RowsHeld, IsActive, TypeOK
    <3>2. r.email = rows[i].email /\ rows' = [rows EXCEPT ![i] = r]
      BY <1>3, <2>1, <3>1 DEF Commit, Rows
    <3> HIDE DEF r
    <3> QED BY <1>k, <3>1, <3>2 DEF IsActive, TypeOK
  <2>2. CASE ~hit[c]
    BY <1>3, <1>k, <2>2 DEF Commit, IsActive
  <2> QED BY <2>1, <2>2
<1>4. ASSUME NEW c \in Calls, Erase(c) PROVE OneUserPerEmail'
  BY <1>4, <1>k DEF Erase, IsActive
<1>5. CASE rows' = rows
  BY <1>5, <1>k DEF IsActive
<1> QED
  BY <1>1, <1>2, <1>3, <1>4, <1>5
  DEF Next, vars, tables, Tick, Check, Mark, UpdateDeleted, Log, Select, Abort

LEMMA TypeNext == TypeOK /\ RowsHeld /\ [Next]_vars => TypeOK'
<1> SUFFICES ASSUME TypeOK, RowsHeld, [Next]_vars PROVE TypeOK'
  OBVIOUS
<1>o. OneUserPerEmail'
  BY OneUserNext
<1>1. CASE Tick
  <2>1. clock' \in Times
    BY <1>1, GraceAssumption DEF Tick, TypeOK, Times
  <2> QED BY <1>o, <1>1, <2>1 DEF Tick, TypeOK, tables, callVars
<1>2. ASSUME NEW i \in Ids, NEW e \in Emails, NEW a \in Attrs, Create(i, e, a) PROVE TypeOK'
  <2>1. [email |-> e, attr |-> a, deleted |-> Active] \in Rows
    BY DEF Rows
  <2> QED BY <1>o, <1>2, <2>1 DEF Create, TypeOK, callVars
<1>3. ASSUME NEW i \in Ids, NEW a \in Attrs, Update(i, a) PROVE TypeOK'
  <2>1. rows[i] \in Rows
    BY <1>3 DEF Update, IsActive, TypeOK
  <2>2. [rows[i] EXCEPT !.attr = a] \in Rows
    BY <2>1 DEF Rows
  <2>3. rows' = [rows EXCEPT ![i] = [rows[i] EXCEPT !.attr = a]]
    BY <1>3 DEF Update
  <2>4. rows' \in [Ids -> Rows \union {Absent}] /\ \A j \in Ids : rows'[j] # Absent => j \in used
    BY <1>3, <2>2, <2>3 DEF Update, IsActive, TypeOK
  <2> QED BY <1>o, <1>3, <2>4 DEF Update, TypeOK, callVars
<1>4. ASSUME NEW c \in Calls, NEW i \in Ids, Check(c, i) PROVE TypeOK'
  BY <1>o, <1>4 DEF Check, TypeOK, tables
<1>5. ASSUME NEW c \in Calls, NEW i \in Ids, Mark(c, i) PROVE TypeOK'
  BY <1>o, <1>5 DEF Mark, TypeOK, tables
<1>6. ASSUME NEW c \in Calls, UpdateDeleted(c) PROVE TypeOK'
  BY <1>o, <1>6 DEF UpdateDeleted, TypeOK, tables, IsActive
<1>7. ASSUME NEW c \in Calls, Log(c) PROVE TypeOK'
  BY <1>o, <1>7 DEF Log, TypeOK, tables
<1>8. ASSUME NEW c \in Calls, Commit(c) PROVE TypeOK'
  <2> DEFINE i == target[c]
             p == IF audit[i] = Unlogged THEN Unlogged ELSE audit[i].purged
             r == [deleted |-> began[c], purged |-> p]
  <2>1. i \in Ids /\ began[c] \in Times
    BY DEF TypeOK
  <2>2. p \in Times \union {Unlogged}
    BY <2>1 DEF TypeOK, AuditRows
  <2>3. r \in AuditRows
    <3> HIDE DEF p
    <3> QED BY <2>1, <2>2 DEF AuditRows
  <2>4. audit' = [audit EXCEPT ![i] = r]
    BY <1>8, <2>1 DEF Commit, TypeOK
  <2>5. rows' \in [Ids -> Rows \union {Absent}] /\ \A j \in Ids : rows'[j] # Absent => j \in used
    <3>1. CASE hit[c]
      <4>1. rows[i] \in Rows /\ i \in used
        BY <2>1, <3>1 DEF RowsHeld, IsActive, TypeOK
      <4>2. [rows[i] EXCEPT !.deleted = began[c]] \in Rows
        BY <2>1, <4>1 DEF Rows
      <4>3. rows' = [rows EXCEPT ![i] = [rows[i] EXCEPT !.deleted = began[c]]]
        BY <1>8, <3>1 DEF Commit
      <4> QED BY <4>1, <4>2, <4>3 DEF TypeOK
    <3>2. CASE ~hit[c]
      BY <1>8, <3>2 DEF Commit, TypeOK
    <3> QED BY <3>1, <3>2
  <2>6. audit' \in [Ids -> AuditRows \union {Unlogged}]
    <3> HIDE DEF r
    <3> QED BY <2>1, <2>3, <2>4 DEF TypeOK
  <2> QED BY <1>o, <1>8, <2>5, <2>6, EndedTyped DEF Commit, TypeOK
<1>9. ASSUME NEW c \in Calls, Select(c) PROVE TypeOK'
  <2>1. Expired(clock - Grace) \subseteq Ids
    BY DEF Expired
  <2> QED BY <1>o, <1>9, <2>1 DEF Select, TypeOK, tables
<1>10. ASSUME NEW c \in Calls, Erase(c) PROVE TypeOK'
  <2>1. \A i \in Ids : audit[i] # Unlogged => [audit[i] EXCEPT !.purged = clock] \in AuditRows
    BY DEF TypeOK, AuditRows
  <2>2. audit' \in [Ids -> AuditRows \union {Unlogged}]
    BY <1>10, <2>1 DEF Erase, TypeOK
  <2>3. /\ rows' \in [Ids -> Rows \union {Absent}]
        /\ \A i \in Ids : rows'[i] # Absent => i \in used
    BY <1>10 DEF Erase, TypeOK
  <2> QED BY <1>o, <1>10, <2>2, <2>3, EndedTyped DEF Erase, TypeOK
<1>11. ASSUME NEW c \in Calls, Abort(c) PROVE TypeOK'
  BY <1>o, <1>11, EndedTyped DEF Abort, TypeOK, tables
<1>12. CASE UNCHANGED vars
  BY <1>o, <1>12 DEF vars, tables, callVars, TypeOK
<1> QED BY <1>1, <1>2, <1>3, <1>4, <1>5, <1>6, <1>7, <1>8, <1>9, <1>10, <1>11, <1>12 DEF Next

-----------------------------------------------------------------------------
(* Calls *)

\* What a step does to the calls in flight.
LEMMA InTimeNext == TypeOK /\ InTime /\ [Next]_vars => InTime'
<1> SUFFICES ASSUME TypeOK, InTime, [Next]_vars, NEW d \in Calls
             PROVE  /\ pc'[d] # "idle" => began'[d] <= clock' /\ clock' <= began'[d] + Grace
                    /\ pc'[d] = "selected" => began'[d] >= Grace
  BY DEF InTime
<1>t. clock \in Nat /\ began[d] \in Nat /\ Grace \in Nat
  BY GraceAssumption DEF TypeOK, Times
<1>i. /\ pc[d] # "idle" => began[d] <= clock /\ clock <= began[d] + Grace
      /\ pc[d] = "selected" => began[d] >= Grace
  BY DEF InTime
<1>1. CASE Tick
  <2>1. /\ pc' = pc /\ began' = began /\ clock' = clock + 1
        /\ pc[d] # "idle" => clock < began[d] + Grace
    BY <1>1 DEF Tick, callVars
  <2> QED BY <1>t, <1>i, <2>1
<1>2. ASSUME NEW c \in Calls, NEW i \in Ids, Check(c, i)
      PROVE  /\ clock' = clock
             /\ \/ pc'[d] = pc[d] /\ began'[d] = began[d]
                \/ pc'[d] = "checked" /\ began'[d] = clock
  BY <1>2 DEF Check, TypeOK, tables
<1>3. ASSUME NEW c \in Calls, Select(c)
      PROVE  /\ clock' = clock
             /\ \/ pc'[d] = pc[d] /\ began'[d] = began[d]
                \/ clock >= Grace /\ began'[d] = clock
  BY <1>3 DEF Select, TypeOK, tables
<1>4. ASSUME NEW c \in Calls, UpdateDeleted(c) \/ Log(c)
      PROVE  /\ clock' = clock /\ began' = began
             /\ pc'[d] # "selected" \/ pc'[d] = pc[d]
             /\ pc[d] = "idle" => pc'[d] = "idle"
  BY <1>4 DEF UpdateDeleted, Log, TypeOK, tables
<1>5. ASSUME NEW c \in Calls, Commit(c) \/ Erase(c) \/ Abort(c)
      PROVE  clock' = clock /\ began' = began /\ pc'[d] \in {"idle", pc[d]}
  BY <1>5 DEF Commit, Erase, Abort, Ended, TypeOK
<1>6. ASSUME \/ \E i \in Ids, e \in Emails, a \in Attrs : Create(i, e, a)
             \/ \E i \in Ids, a \in Attrs : Update(i, a)
             \/ \E c \in Calls, i \in Ids : Mark(c, i)
             \/ UNCHANGED vars
      PROVE  clock' = clock /\ began' = began /\ pc' = pc
  BY <1>6 DEF Create, Update, Mark, vars, callVars
<1> QED BY <1>t, <1>i, <1>1, <1>2, <1>3, <1>4, <1>5, <1>6 DEF Next

\* What a call knows of its row.
CallOf(d) ==
    /\ Deleting(d) => target[d] \in used
    /\ hit[d] => Written(d)
    /\ Written(d) => (hit[d] <=> IsActive(target[d]))

\* While a call holds a row, no other call has written it.
LEMMA HeldAlone ==
    ASSUME TypeOK, RowsHeld, NEW c \in Calls, NEW d \in Calls, hit[c], Written(d),
           target[d] = target[c]
    PROVE  d = c
BY DEF RowsHeld

LEMMA RowsHeldNext == TypeOK /\ RowsHeld /\ [Next]_vars => RowsHeld'
<1> SUFFICES ASSUME TypeOK, RowsHeld, [Next]_vars PROVE RowsHeld'
  OBVIOUS
<1>p. \A d \in Calls : CallOf(d)
  BY DEF RowsHeld, CallOf
<1>u. \A c, d \in Calls : hit[c] /\ hit[d] /\ target[c] = target[d] => c = d
  BY DEF RowsHeld
<1>x. ASSUME /\ \A d \in Calls : CallOf(d)'
             /\ \A c, d \in Calls : hit'[c] /\ hit'[d] /\ target'[c] = target'[d] => c = d
      PROVE  RowsHeld'
  BY <1>x DEF RowsHeld, CallOf
<1>1. ASSUME NEW i \in Ids, NEW e \in Emails, NEW a \in Attrs, Create(i, e, a) PROVE RowsHeld'
  <2>1. UNCHANGED callVars
    BY <1>1 DEF Create
  <2>2. ASSUME NEW d \in Calls PROVE CallOf(d)'
    <3>1. Deleting(d) => target[d] \in Ids /\ rows'[target[d]] = rows[target[d]] /\ target[d] \in used'
      BY <1>1, <1>p DEF Create, CallOf, TypeOK
    <3> QED BY <1>p, <2>1, <3>1 DEF CallOf, callVars, Deleting, Written, IsActive
  <2> QED BY <1>x, <1>u, <2>1, <2>2 DEF callVars
<1>2. ASSUME NEW i \in Ids, NEW a \in Attrs, Update(i, a) PROVE RowsHeld'
  <2>1. UNCHANGED callVars /\ used' = used
    BY <1>2 DEF Update
  <2>2. \A j \in Ids : IsActive(j)' <=> IsActive(j)
    <3>1. rows[i] \in Rows /\ rows[i].deleted = Active
      BY <1>2 DEF Update, IsActive, TypeOK
    <3> DEFINE r == [rows[i] EXCEPT !.attr = a]
    <3>2. r \in Rows /\ r.deleted = Active
      BY <3>1 DEF Rows
    <3>3. rows' = [rows EXCEPT ![i] = r]
      BY <1>2 DEF Update
    <3> HIDE DEF r
    <3> QED BY <3>1, <3>2, <3>3, NullAssumption DEF IsActive, TypeOK
  <2>3. \A d \in Calls : target[d] \in Ids
    BY DEF TypeOK
  <2>4. ASSUME NEW d \in Calls PROVE CallOf(d)'
    BY <1>p, <2>1, <2>2, <2>3 DEF CallOf, callVars, Deleting, Written
  <2> QED BY <1>x, <1>u, <2>1, <2>4 DEF callVars
<1>3. ASSUME NEW c \in Calls, NEW i \in Ids, Check(c, i) PROVE RowsHeld'
  <2>1. i \in used /\ rows' = rows /\ used' = used /\ hit' = hit
    BY <1>3 DEF Check, IsActive, TypeOK, tables
  <2>2. ASSUME NEW d \in Calls PROVE CallOf(d)'
    BY <1>3, <1>p, <2>1 DEF Check, CallOf, Deleting, Written, IsActive, TypeOK
  <2>3. \A d \in Calls : hit[d] => target'[d] = target[d]
    BY <1>3, <1>p DEF Check, CallOf, Written, TypeOK
  <2> QED BY <1>x, <1>u, <2>1, <2>2, <2>3
<1>4. ASSUME NEW c \in Calls, UpdateDeleted(c) PROVE RowsHeld'
  <2>1. rows' = rows /\ used' = used /\ target' = target
    BY <1>4 DEF UpdateDeleted, tables
  <2>2. ASSUME NEW d \in Calls PROVE CallOf(d)'
    BY <1>4, <1>p, <2>1 DEF UpdateDeleted, CallOf, Deleting, Written, IsActive, TypeOK
  <2>3. \A d \in Calls : hit[d] => target[d] # target[c]
    BY <1>4, <1>p DEF UpdateDeleted, RowLocked, CallOf, Written
  <2>4. \A d \in Calls \ {c} : hit'[d] = hit[d]
    BY <1>4 DEF UpdateDeleted, TypeOK
  <2> QED BY <1>x, <1>u, <2>1, <2>2, <2>3, <2>4
<1>5. ASSUME NEW c \in Calls, Log(c) PROVE RowsHeld'
  <2>1. rows' = rows /\ used' = used /\ target' = target /\ hit' = hit
    BY <1>5 DEF Log, tables
  <2>2. ASSUME NEW d \in Calls PROVE CallOf(d)'
    BY <1>5, <1>p, <2>1 DEF Log, CallOf, Deleting, Written, IsActive, TypeOK
  <2> QED BY <1>x, <1>u, <2>1, <2>2
<1>6. ASSUME NEW c \in Calls, Commit(c) PROVE RowsHeld'
  <2>1. /\ used' = used /\ target' = target /\ pc'[c] = "idle" /\ ~hit'[c]
        /\ \A d \in Calls \ {c} : pc'[d] = pc[d] /\ hit'[d] = hit[d]
    BY <1>6 DEF Commit, Ended, TypeOK
  <2>2. ASSUME NEW d \in Calls \ {c} PROVE CallOf(d)'
    <3>1. Written(d) => rows'[target[d]] = rows[target[d]]
      BY <1>6, HeldAlone DEF Commit, TypeOK
    <3> QED BY <1>p, <2>1, <3>1 DEF CallOf, Deleting, Written, IsActive
  <2>3. CallOf(c)'
    BY <2>1 DEF CallOf, Deleting, Written
  <2> QED BY <1>x, <1>u, <2>1, <2>2, <2>3
<1>7. ASSUME NEW c \in Calls, Erase(c) PROVE RowsHeld'
  <2>1. /\ used' = used /\ target' = target /\ pc'[c] = "idle" /\ ~hit'[c]
        /\ \A d \in Calls \ {c} : pc'[d] = pc[d] /\ hit'[d] = hit[d]
    BY <1>7 DEF Erase, Ended, TypeOK
  <2>2. \A j \in Ids : IsActive(j)' <=> IsActive(j)
    BY <1>7 DEF Erase, Expired, IsActive
  <2>3. ASSUME NEW d \in Calls \ {c} PROVE CallOf(d)'
    BY <1>p, <2>1, <2>2 DEF CallOf, Deleting, Written, TypeOK
  <2>4. CallOf(c)'
    BY <2>1 DEF CallOf, Deleting, Written
  <2> QED BY <1>x, <1>u, <2>1, <2>3, <2>4
<1>8. ASSUME NEW c \in Calls, Abort(c) PROVE RowsHeld'
  <2>1. /\ rows' = rows /\ used' = used /\ target' = target /\ pc'[c] = "idle" /\ ~hit'[c]
        /\ \A d \in Calls \ {c} : pc'[d] = pc[d] /\ hit'[d] = hit[d]
    BY <1>8 DEF Abort, Ended, TypeOK, tables
  <2>2. ASSUME NEW d \in Calls PROVE CallOf(d)'
    BY <1>p, <2>1 DEF CallOf, Deleting, Written, IsActive
  <2> QED BY <1>x, <1>u, <2>1, <2>2
<1>9. ASSUME NEW c \in Calls, Select(c) PROVE RowsHeld'
  <2>1. rows' = rows /\ used' = used /\ target' = target /\ hit' = hit
    BY <1>9 DEF Select, tables
  <2>2. ASSUME NEW d \in Calls PROVE CallOf(d)'
    BY <1>9, <1>p, <2>1 DEF Select, CallOf, Deleting, Written, IsActive, TypeOK
  <2> QED BY <1>x, <1>u, <2>1, <2>2
<1>10. ASSUME Tick \/ (\E c \in Calls, i \in Ids : Mark(c, i)) \/ UNCHANGED vars PROVE RowsHeld'
  <2>1. rows' = rows /\ used' = used /\ target' = target /\ hit' = hit /\ pc' = pc
    BY <1>10 DEF Tick, Mark, vars, tables, callVars
  <2> QED BY <1>p, <1>u, <1>x, <2>1 DEF CallOf, Deleting, Written, IsActive
<1> QED BY <1>1, <1>2, <1>3, <1>4, <1>5, <1>6, <1>7, <1>8, <1>9, <1>10 DEF Next

-----------------------------------------------------------------------------
(* Rows, purges and the audit *)

\* What a step does to the rows, and in the abstract store.
LEMMA CommitDeletes ==
    ASSUME TypeOK, InTime, RowsHeld, NEW c \in Calls, Commit(c), hit[c]
    PROVE  /\ IsActive(target[c]) /\ target[c] \in used /\ target[c] \in Ids
           /\ rows' = [rows EXCEPT ![target[c]].deleted = began[c]]
           /\ rows'[target[c]] # Absent /\ rows'[target[c]].deleted = began[c]
           /\ began[c] \in 0 .. clock /\ clock <= began[c] + Grace
<1>1. IsActive(target[c]) /\ target[c] \in used /\ target[c] \in Ids
  BY DEF RowsHeld, Commit, Written, Deleting, TypeOK
<1>2. rows' = [rows EXCEPT ![target[c]].deleted = began[c]]
  BY DEF Commit
<1>3. rows[target[c]] \in Rows /\ began[c] \in Times
  BY <1>1 DEF TypeOK, IsActive
<1> DEFINE r == [rows[target[c]] EXCEPT !.deleted = began[c]]
<1>4. r \in Rows /\ r.deleted = began[c]
  BY <1>3 DEF Rows
<1>5. rows' = [rows EXCEPT ![target[c]] = r]
  BY <1>2
<1>6. rows'[target[c]] # Absent /\ rows'[target[c]].deleted = began[c]
  <2> HIDE DEF r
  <2> QED BY <1>1, <1>4, <1>5, NullAssumption DEF TypeOK
<1>7. began[c] \in 0 .. clock /\ clock <= began[c] + Grace
  <2>1. began[c] \in Nat /\ clock \in Nat
    BY GraceAssumption DEF TypeOK, Times
  <2> QED BY <2>1 DEF InTime, Commit
<1> QED BY <1>1, <1>2, <1>6, <1>7

LEMMA PurgesSelectedNext ==
    TypeOK /\ InTime /\ RowsHeld /\ PurgesSelected /\ [Next]_vars => PurgesSelected'
<1> SUFFICES ASSUME TypeOK, InTime, RowsHeld, PurgesSelected, [Next]_vars,
                    NEW d \in Calls, pc'[d] = "selected",
                    NEW j \in Ids, j \in Expired(began[d] - Grace)'
             PROVE  j \in doomed'[d]
  BY DEF PurgesSelected, Expired
<1>t. clock \in Nat /\ Grace \in Nat /\ \A c \in Calls : began[c] \in Nat
  BY GraceAssumption DEF TypeOK, Times
<1>j. rows'[j] # Absent /\ rows'[j].deleted # Active /\ rows'[j].deleted < began'[d] - Grace
  BY DEF Expired
<1>p. pc[d] = "selected" /\ rows[j] = rows'[j] /\ began'[d] = began[d] => j \in doomed[d]
  BY <1>j DEF PurgesSelected, Expired
<1>1. ASSUME NEW i \in Ids, NEW e \in Emails, NEW a \in Attrs, Create(i, e, a)
      PROVE  j \in doomed'[d]
  <2>1. rows' = [rows EXCEPT ![i] = [email |-> e, attr |-> a, deleted |-> Active]]
        /\ UNCHANGED callVars
    BY <1>1 DEF Create
  <2>2. rows'[j] = rows[j]
    BY <1>j, <2>1 DEF TypeOK
  <2> QED BY <1>p, <2>1, <2>2 DEF callVars
<1>2. ASSUME NEW i \in Ids, NEW a \in Attrs, Update(i, a) PROVE j \in doomed'[d]
  <2>1. rows[i] \in Rows /\ rows[i].deleted = Active /\ UNCHANGED callVars
    BY <1>2 DEF Update, IsActive, TypeOK
  <2> DEFINE r == [rows[i] EXCEPT !.attr = a]
  <2>2. r.deleted = Active
    BY <2>1 DEF Rows
  <2>3. rows' = [rows EXCEPT ![i] = r]
    BY <1>2 DEF Update
  <2>4. rows'[j] = rows[j]
    <3> HIDE DEF r
    <3> QED BY <1>j, <2>2, <2>3 DEF TypeOK
  <2> QED BY <1>p, <2>1, <2>4 DEF callVars
<1>3. ASSUME NEW c \in Calls, Select(c) PROVE j \in doomed'[d]
  <2>1. CASE c = d
    <3>1. rows' = rows /\ began'[d] = clock /\ doomed'[d] = Expired(clock - Grace)
      BY <1>3, <2>1 DEF Select, TypeOK, tables
    <3> QED BY <1>j, <3>1 DEF Expired
  <2>2. CASE c # d
    BY <1>3, <1>p, <2>2 DEF Select, TypeOK, tables
  <2> QED BY <2>1, <2>2
<1>4. ASSUME NEW c \in Calls, Commit(c) PROVE j \in doomed'[d]
  <2>1. c # d /\ pc[d] = "selected" /\ doomed'[d] = doomed[d] /\ began' = began
    BY <1>4 DEF Commit, Ended, TypeOK
  <2>2. CASE hit[c] /\ j = target[c]
    <3>1. rows'[j].deleted = began[c] /\ clock <= began[c] + Grace
      BY <1>4, <2>2, CommitDeletes
    <3>2. began[d] <= clock
      BY <2>1 DEF InTime
    <3> QED BY <1>j, <1>t, <2>1, <3>1, <3>2
  <2>3. CASE ~(hit[c] /\ j = target[c])
    <3>1. rows'[j] = rows[j]
      BY <1>4, <2>3 DEF Commit, TypeOK
    <3> QED BY <1>p, <2>1, <3>1
  <2> QED BY <2>2, <2>3
<1>5. ASSUME NEW c \in Calls, Erase(c) PROVE j \in doomed'[d]
  <2>1. c # d /\ pc[d] = "selected" /\ doomed'[d] = doomed[d] /\ began' = began
    BY <1>5 DEF Erase, Ended, TypeOK
  <2>2. rows'[j] = rows[j]
    BY <1>5, <1>j DEF Erase
  <2> QED BY <1>p, <2>1, <2>2
<1>6. ASSUME NEW c \in Calls, Abort(c) PROVE j \in doomed'[d]
  BY <1>6, <1>p DEF Abort, Ended, TypeOK, tables
<1>7. ASSUME NEW c \in Calls, UpdateDeleted(c) \/ Log(c) PROVE j \in doomed'[d]
  BY <1>7, <1>p DEF UpdateDeleted, Log, TypeOK, tables
<1>8. ASSUME NEW c \in Calls, NEW i \in Ids, Check(c, i) \/ Mark(c, i) PROVE j \in doomed'[d]
  BY <1>8, <1>p DEF Check, Mark, TypeOK, tables
<1>9. CASE Tick \/ UNCHANGED vars
  BY <1>9, <1>p DEF Tick, vars, tables, callVars
<1> QED BY <1>1, <1>2, <1>3, <1>4, <1>5, <1>6, <1>7, <1>8, <1>9 DEF Next

\* One user: its row and its audit row.
LoggedOf(i) ==
    /\ rows[i] # Absent /\ rows[i].deleted # Active => audit[i] # Unlogged
    /\ i \in used /\ rows[i] = Absent =>
          audit[i] # Unlogged /\ audit[i].purged # Unlogged
    /\ audit[i] # Unlogged => ~IsActive(i) /\ i \in used

LEMMA AuditNext == PgInv /\ [Next]_vars => AuditUsed' /\ DeletionsLogged'
<1> SUFFICES ASSUME PgInv, [Next]_vars, NEW j \in Ids PROVE LoggedOf(j)'
  BY DEF AuditUsed, DeletionsLogged, LoggedOf
<1> USE DEF PgInv
<1>l. LoggedOf(j)
  BY DEF AuditUsed, DeletionsLogged, LoggedOf
<1>1. ASSUME NEW i \in Ids, NEW e \in Emails, NEW a \in Attrs, Create(i, e, a)
      PROVE  LoggedOf(j)'
  <2>1. /\ rows' = [rows EXCEPT ![i] = [email |-> e, attr |-> a, deleted |-> Active]]
        /\ audit' = audit /\ used' = used \union {i} /\ i \notin used
    BY <1>1 DEF Create
  <2>2. [email |-> e, attr |-> a, deleted |-> Active] \in Rows
    BY DEF Rows
  <2>3. CASE j = i
    <3>1. rows'[j] # Absent /\ rows'[j].deleted = Active /\ audit[j] = Unlogged
      BY <1>l, <2>1, <2>2, <2>3, NullAssumption DEF LoggedOf, TypeOK
    <3> QED BY <2>1, <3>1 DEF LoggedOf
  <2>4. CASE j # i
    BY <1>l, <2>1, <2>4 DEF LoggedOf, TypeOK, IsActive
  <2> QED BY <2>3, <2>4
<1>2. ASSUME NEW i \in Ids, NEW a \in Attrs, Update(i, a) PROVE LoggedOf(j)'
  <2>1. rows[i] \in Rows /\ rows[i].deleted = Active /\ audit' = audit /\ used' = used
    BY <1>2 DEF Update, IsActive, TypeOK
  <2> DEFINE r == [rows[i] EXCEPT !.attr = a]
  <2>2. r.deleted = Active /\ r \in Rows
    BY <2>1 DEF Rows
  <2>3. rows' = [rows EXCEPT ![i] = r]
    BY <1>2 DEF Update
  <2> HIDE DEF r
  <2>4. CASE j = i
    <3>1. rows'[j] # Absent /\ rows'[j].deleted = Active /\ audit[j] = Unlogged
      BY <1>l, <2>1, <2>2, <2>3, <2>4, NullAssumption DEF LoggedOf, TypeOK, IsActive
    <3> QED BY <2>1, <3>1 DEF LoggedOf
  <2>5. CASE j # i
    BY <1>l, <2>1, <2>3, <2>5 DEF LoggedOf, TypeOK, IsActive
  <2> QED BY <2>4, <2>5
<1>3. ASSUME NEW c \in Calls, Commit(c) PROVE LoggedOf(j)'
  <2> DEFINE i == target[c]
             p == IF audit[i] = Unlogged THEN Unlogged ELSE audit[i].purged
             r == [deleted |-> began[c], purged |-> p]
  <2>1. i \in Ids /\ i \in used /\ used' = used /\ (hit[c] <=> IsActive(i))
    BY <1>3 DEF Commit, RowsHeld, Deleting, Written, TypeOK
  <2>2. audit' = [audit EXCEPT ![i] = r]
    BY <1>3, <2>1 DEF Commit, TypeOK
  <2>3. CASE j # i
    <3>1. rows'[j] = rows[j] /\ audit'[j] = audit[j]
      BY <1>3, <2>2, <2>3 DEF Commit, TypeOK
    <3> QED BY <1>l, <2>1, <3>1 DEF LoggedOf, IsActive
  <2>4. CASE j = i
    <3>1. audit'[j] = r
      BY <2>1, <2>2, <2>4 DEF TypeOK
    <3>2. r # Unlogged
      <4>1. began[c] \in Times /\ p \in Times \union {Unlogged}
        BY <2>1 DEF TypeOK, AuditRows
      <4>2. r \in AuditRows
        <5> HIDE DEF p
        <5> QED BY <4>1 DEF AuditRows
      <4> QED BY <4>2, NullAssumption
    <3>3. CASE hit[c]
      <4>1. rows'[j] # Absent /\ rows'[j].deleted = began[c] /\ began[c] # Active
        BY <1>3, <2>4, <3>3, CommitDeletes, NullAssumption DEF TypeOK
      <4> QED BY <2>1, <2>4, <3>1, <3>2, <4>1 DEF LoggedOf, IsActive
    <3>4. CASE ~hit[c]
      <4>1. rows' = rows
        BY <1>3, <3>4 DEF Commit
      <4>2. rows[j] = Absent => p # Unlogged
        BY <1>l, <2>1, <2>4 DEF LoggedOf
      <4>3. r.purged = p
        OBVIOUS
      <4> QED BY <2>1, <2>4, <3>1, <3>2, <3>4, <4>1, <4>2, <4>3 DEF LoggedOf, IsActive
    <3> QED BY <3>3, <3>4
  <2> QED BY <2>3, <2>4
<1>4. ASSUME NEW c \in Calls, Erase(c) PROVE LoggedOf(j)'
  <2>1. /\ rows'[j] = IF j \in Expired(began[c] - Grace) THEN Absent ELSE rows[j]
        /\ audit'[j] = IF j \in marked[c] /\ audit[j] # Unlogged
                       THEN [audit[j] EXCEPT !.purged = clock] ELSE audit[j]
        /\ used' = used /\ marked[c] = doomed[c] /\ pc[c] = "selected"
    BY <1>4 DEF Erase
  <2>2. j \in Expired(began[c] - Grace) => j \in marked[c] /\ audit[j] # Unlogged
    BY <1>l, <2>1 DEF PurgesSelected, LoggedOf, Expired
  <2>3. clock # Unlogged
    BY NullAssumption DEF TypeOK
  <2>4. CASE j \in marked[c] /\ audit[j] # Unlogged
    <3> DEFINE r == [audit[j] EXCEPT !.purged = clock]
    <3>1. r \in AuditRows /\ r.purged = clock
      BY <2>4 DEF TypeOK, AuditRows
    <3>2. audit'[j] = r
      BY <2>1, <2>4
    <3> HIDE DEF r
    <3>3. audit'[j] # Unlogged /\ audit'[j].purged # Unlogged
      BY <2>3, <3>1, <3>2, NullAssumption
    <3> QED BY <1>l, <2>1, <2>4, <3>3 DEF LoggedOf, IsActive
  <2>5. CASE ~(j \in marked[c] /\ audit[j] # Unlogged)
    <3>1. audit'[j] = audit[j] /\ rows'[j] = rows[j]
      BY <2>1, <2>2, <2>5
    <3> QED BY <1>l, <2>1, <3>1 DEF LoggedOf, IsActive
  <2> QED BY <2>4, <2>5
<1>5. ASSUME UNCHANGED tables PROVE LoggedOf(j)'
  BY <1>5, <1>l DEF tables, LoggedOf, IsActive
<1> QED BY <1>1, <1>2, <1>3, <1>4, <1>5 DEF Next, Tick, Check, Mark, UpdateDeleted, Log,
       Select, Abort, vars

LEMMA PgInvInit == Init => PgInv
<1>1. Init => InTime /\ RowsHeld /\ PurgesSelected /\ AuditUsed /\ DeletionsLogged
  BY DEF Init, InTime, RowsHeld, Deleting, Written, PurgesSelected, AuditUsed,
     DeletionsLogged, IsActive
<1> QED BY <1>1, TypeInit DEF PgInv

LEMMA PgInvNext == PgInv /\ [Next]_vars => PgInv'
BY TypeNext, InTimeNext, RowsHeldNext, PurgesSelectedNext, AuditNext DEF PgInv

-----------------------------------------------------------------------------
(* The store *)

LEMMA SameStore ==
    /\ \A i : Store!IsActive(i) <=> IsActive(i)
    /\ \A e : Store!Taken(e) <=> Taken(e)
    /\ \A t : Store!Expired(t) = Expired(t)
BY DEF Store!IsActive, IsActive, Store!Taken, Taken, Store!Expired, Expired

\* A deletion takes effect at its commit if its UPDATE matched, a purge at its
\* commit, and nothing else but calls of one statement changes the users.
LEMMA StoreStep == PgInv /\ [Next]_vars => [Store!StoreNext]_(Store!storeVars)
<1> SUFFICES ASSUME PgInv, [Next]_vars PROVE Store!StoreNext \/ UNCHANGED <<clock, used, rows>>
  BY DEF Store!storeVars
<1> USE DEF PgInv
<1>1. CASE Tick
  BY <1>1 DEF Tick, tables, Store!StoreNext, Store!Pass
<1>2. ASSUME NEW i \in Ids, NEW e \in Emails, NEW a \in Attrs, Create(i, e, a)
      PROVE  Store!StoreNext
  BY <1>2, SameStore DEF Create, Store!StoreNext, Store!Create
<1>3. ASSUME NEW i \in Ids, NEW a \in Attrs, Update(i, a) PROVE Store!StoreNext
  BY <1>3, SameStore DEF Update, Store!StoreNext, Store!Update
<1>4. ASSUME NEW c \in Calls, Commit(c)
      PROVE  Store!StoreNext \/ UNCHANGED <<clock, used, rows>>
  <2>1. CASE hit[c]
    <3>1. Store!SoftDelete(target[c], began[c])
      BY <1>4, <2>1, CommitDeletes, SameStore DEF Commit, Store!SoftDelete
    <3> QED BY <1>4, <2>1, <3>1, CommitDeletes DEF Store!StoreNext
  <2>2. CASE ~hit[c]
    BY <1>4, <2>2 DEF Commit
  <2> QED BY <2>1, <2>2
<1>5. ASSUME NEW c \in Calls, Erase(c) PROVE Store!StoreNext
  <2>1. began[c] - Grace \in 0 .. clock /\ began[c] - Grace <= clock - Grace
    <3>1. began[c] \in Nat /\ clock \in Nat /\ Grace \in Nat
      BY GraceAssumption DEF TypeOK, Times
    <3> QED BY <1>5, <3>1 DEF Erase, InTime
  <2>2. Store!PurgeDeletedBefore(began[c] - Grace)
    BY <1>5, <2>1, SameStore DEF Erase, Store!PurgeDeletedBefore
  <2> QED BY <2>1, <2>2 DEF Store!StoreNext
<1>6. ASSUME UNCHANGED <<clock, tables>> PROVE UNCHANGED <<clock, used, rows>>
  BY <1>6 DEF tables
<1> QED BY <1>1, <1>2, <1>3, <1>4, <1>5, <1>6 DEF Next, Check, Mark, UpdateDeleted, Log,
       Select, Abort, vars

-----------------------------------------------------------------------------
(* Theorems *)

LEMMA PgInvHolds == Spec => []PgInv
<1> QED BY PgInvInit, PgInvNext, PTL DEF Spec

\* Tables and calls stay well-typed; in particular a row belongs to an identifier
\* that was given out, and a purge stamps only what it has selected.
THEOREM StoreTypeCorrect == Spec => []TypeOK
<1>1. PgInv => TypeOK
  BY DEF PgInv
<1> QED BY <1>1, PgInvHolds, PTL

\* Every deleted or purged user has its audit row and every audit row its
\* deletion, whatever the interleaving of SoftDelete and PurgeDeletedBefore and
\* wherever they fail.
THEOREM DeletionsAreLogged == Spec => []DeletionsLogged
<1>1. PgInv => DeletionsLogged
  BY DEF PgInv
<1> QED BY <1>1, PgInvHolds, PTL

\* The Postgres store behaves like MemoryStore under its mutex: the statements
\* of its calls add up to calls that take effect at one instant.
THEOREM PgIsAStore == Spec => ImplementsStore
<1>1. Init => Store!StoreInit
  BY DEF Init, Store!StoreInit
<1>2. PgInv /\ [Next]_vars => [Store!StoreNext]_(Store!storeVars)
  BY StoreStep
<1> QED BY <1>1, <1>2, PgInvHolds, PTL DEF Spec, ImplementsStore, Store!StoreSpec
=============================================================================
