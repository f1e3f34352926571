---------------------------- MODULE SignupProofs ----------------------------
(***************************************************************************)
(* Proofs about Signup: its types, who gets a workspace, whose workspace an *)
(* answer names, and the windows of the rate limiter.                       *)
(***************************************************************************)
EXTENDS Signup, FiniteSetTheorems, TLAPS

\* The requests that act for a user.
ForUser == {"registered", "verified", "listing", "creating"}

LEMMA CallFields ==
    ASSUME NEW s \in CallStates, s # Idle
    PROVE  /\ s.pc \in {"arrived", "admitted"} \union ForUser
           /\ s.pc = "arrived" => s.ip \in IPs /\ s.at \in Times
           /\ s.pc \in ForUser => s.user \in Ids
BY DEF CallStates, ForUser

LEMMA CallsMade ==
    /\ Idle \in CallStates
    /\ [pc |-> "admitted"] \in CallStates
    /\ \A ip \in IPs, at \in Times : [pc |-> "arrived", ip |-> ip, at |-> at] \in CallStates
    /\ \A pc \in ForUser, i \in Ids : [pc |-> pc, user |-> i] \in CallStates
BY DEF CallStates, ForUser

\* A request of a user goes on.
LEMMA GoesOn ==
    ASSUME NEW s \in CallStates, s # Idle, s.pc \in ForUser, NEW pc \in ForUser
    PROVE  [s EXCEPT !.pc = pc] = [pc |-> pc, user |-> s.user]
<1>1. s \in [pc : ForUser, user : Ids]
  BY DEF CallStates, ForUser
<1> QED BY <1>1

\* What is known of a request that acts for a user.
Known(s) == s # Idle /\ s.pc \in ForUser => s.user \in Ids /\ rows[s.user] # Absent

\* Only identifiers given out have a row, only restarts change the key, and
\* requests are let through one by one.
SInv ==
    /\ TypeOK
    /\ key <= restarts
    /\ \A i \in Ids : rows[i] # Absent => i \in used
    /\ \A ip \in IPs : IsFiniteSet(admitted[ip])

LEMMA KnownCalls ==
    ASSUME TypeOK
    PROVE  \A c \in Calls : call[c] \in CallStates /\ Known(call[c])
<1> SUFFICES ASSUME NEW c \in Calls PROVE call[c] \in CallStates /\ Known(call[c])
  OBVIOUS
<1>1. call[c] \in CallStates
  BY DEF TypeOK
<1>2. CASE call[c] # Idle /\ call[c].pc \in ForUser
  <2>1. call[c].pc \notin {"arrived", "admitted"}
    BY <1>2 DEF ForUser
  <2> QED BY <1>1, <1>2, <2>1, CallFields DEF Known, TypeOK
<1> QED BY <1>1, <1>2 DEF Known

\* What TypeOK says of the requests, once they are known one by one.
LEMMA CallsTyped ==
    ASSUME TypeOK, NEW c \in Calls, NEW s \in CallStates, Goes(c, s), Known(s),
           UNCHANGED rows
    PROVE  /\ call' \in [Calls -> CallStates]
           /\ \A d \in Calls : call'[d] # Idle /\ call'[d].pc \notin {"arrived", "admitted"}
                => rows'[call'[d].user] # Absent
<1>1. call' \in [Calls -> CallStates]
  BY DEF TypeOK, Goes
<1>2. ASSUME NEW d \in Calls, call'[d] # Idle, call'[d].pc \notin {"arrived", "admitted"}
      PROVE  rows'[call'[d].user] # Absent
  <2>1. CASE d = c
    <3>1. call'[d] = s
      BY <2>1 DEF TypeOK, Goes
    <3>2. s.pc \in ForUser
      BY <1>2, <3>1, CallFields
    <3> QED BY <1>2, <3>1, <3>2 DEF Known
  <2>2. CASE d # c
    <3>1. call'[d] = call[d]
      BY <2>2 DEF TypeOK, Goes
    <3> QED BY <1>2, <3>1 DEF TypeOK
  <2> QED BY <2>1, <2>2
<1> QED BY <1>1, <1>2

LEMMA RefilledTyped ==
    ASSUME NEW b \in Buckets \union {NoBucket}, NEW now \in Times
    PROVE  Refilled(b, now) \in Int /\ Refilled(b, now) <= Capacity * Hour
<1>1. Capacity \in Nat /\ Hour \in Nat /\ now \in Nat
  BY ConstantsAssumption DEF Times
<1>2. CASE b = NoBucket
  BY <1>1, <1>2 DEF Refilled
<1>3. CASE b # NoBucket
  <2>1. b.tokens \in Int /\ b.seen \in Nat
    BY <1>3, ConstantsAssumption DEF Buckets, Times
  <2>2. b.tokens + (now - b.seen) * Capacity \in Int /\ Capacity * Hour \in Int
    BY <1>1, <2>1
  <2> HIDE DEF Times
  <2> QED BY <1>3, <2>2 DEF Refilled
<1> QED BY <1>2, <1>3

LEMMA ServedTyped ==
    ASSUME NEW b \in Buckets \union {NoBucket}, NEW now \in Times, Capacity > 0
    PROVE  /\ Served(b, now) \in Buckets
           /\ Served(b, now).seen = now
           /\ Served(b, now).tokens
                = IF Allows(b, now) THEN Refilled(b, now) - Hour ELSE Refilled(b, now)
           /\ Allows(b, now) <=> Refilled(b, now) >= Hour
<1> DEFINE r == Refilled(b, now)
<1>1. Capacity \in Nat /\ Hour \in Nat
  BY ConstantsAssumption
<1>2. Allows(b, now) <=> r >= Hour
  BY <1>1 DEF Allows
<1>3. r \in Int
  BY RefilledTyped
<1>4. Served(b, now) = [tokens |-> r - (IF Allows(b, now) THEN Hour ELSE 0), seen |-> now]
  BY <1>1 DEF Served
<1>5. r - (IF Allows(b, now) THEN Hour ELSE 0) \in Int
  BY <1>1, <1>3
<1>6. Served(b, now) \in Buckets
  <2> HIDE DEF r
  <2> QED BY <1>4, <1>5 DEF Buckets
<1> QED BY <1>1, <1>2, <1>3, <1>4, <1>6

\* A bucket serves a request and stays as full as the type invariant allows.
LEMMA BucketTyped ==
    ASSUME NEW b \in Buckets \union {NoBucket}, NEW now \in Times,
           NEW t, t = Served(b, now), t # NoBucket,
           b # NoBucket => b.tokens < Hour \/ b.tokens <= (Capacity - 1) * Hour
    PROVE  t \in Buckets /\ (t.tokens < Hour \/ t.tokens <= (Capacity - 1) * Hour)
<1> DEFINE r == Refilled(b, now)
<1>1. Capacity \in Nat /\ Hour \in Nat
  BY ConstantsAssumption
<1>2. CASE Capacity > 0
  <2>1. r \in Int /\ r <= Capacity * Hour
    BY RefilledTyped
  <2>2. t \in Buckets /\ t.tokens = IF r >= Hour THEN r - Hour ELSE r
    BY <1>2, ServedTyped
  <2>3. Capacity * Hour - Hour = (Capacity - 1) * Hour
    BY <1>1
  <2> HIDE DEF r
  <2> QED BY <1>1, <2>1, <2>2, <2>3
<1>3. CASE ~(Capacity > 0)
  BY <1>1, <1>3 DEF Served
<1> QED BY <1>2, <1>3

LEMMA NumberedTyped ==
    ASSUME NEW ip \in IPs, NEW at \in Times, IsFiniteSet(admitted[ip])
    PROVE  Nth(ip, at) \in [at : Times, n : Nat]
<1>1. IsFiniteSet(Within(ip, at, at))
  BY FS_Subset DEF Within
<1>2. Cardinality(Within(ip, at, at)) \in Nat
  BY <1>1, FS_CardinalityType
<1> QED BY <1>2 DEF Nth

LEMMA SInvInit == Init => SInv
<1> SUFFICES ASSUME Init PROVE SInv
  OBVIOUS
<1>1. clock = 0 /\ used = {} /\ rows = [i \in Ids |-> Absent]
  BY DEF Init, Store!StoreInit
<1>2. 0 \in Times /\ 0 \in Keys /\ 0 \in 0 .. MaxRestarts /\ 0 \in 0 .. MaxAdmin
  BY ConstantsAssumption DEF Times, Keys
<1>3. Idle \in CallStates
  BY CallsMade
<1>4. TypeOK
  BY <1>1, <1>2, <1>3 DEF Init, TypeOK
<1>5. \A ip \in IPs : IsFiniteSet(admitted[ip])
  BY FS_EmptySet DEF Init
<1>6. key <= restarts
  BY DEF Init
<1> QED BY <1>1, <1>4, <1>5, <1>6 DEF SInv

\* A step that leaves the store, the limiter and the clock alone.
LEMMA ServesTyped ==
    ASSUME SInv, NEW c \in Calls, NEW s \in CallStates, Goes(c, s), Known(s),
           UNCHANGED <<store, bucket, key, restarts, changes, admitted>>,
           mailed' \subseteq Links, \A l \in mailed' : l.user \in used /\ l.key <= key,
           kai' \in [Slugs -> Owners \union {Absent}],
           told' \subseteq [user : Ids, owner : Owners],
           refused' \subseteq Ids
    PROVE  SInv'
<1>1. /\ call' \in [Calls -> CallStates]
      /\ \A d \in Calls : call'[d] # Idle /\ call'[d].pc \notin {"arrived", "admitted"}
           => rows'[call'[d].user] # Absent
  BY CallsTyped DEF SInv, store
<1> QED BY <1>1 DEF SInv, TypeOK, store

LEMMA IdleKnown == Known(Idle) /\ Idle \in CallStates
BY CallsMade DEF Known

\* A request at pc that acts for a user.
LEMMA ActsFor ==
    ASSUME TypeOK, NEW c \in Calls, NEW pc \in ForUser, At(c, pc)
    PROVE  /\ call[c].user \in Ids
           /\ rows[call[c].user] # Absent
           /\ Slug(c) \in Slugs
           /\ \A next \in ForUser :
                /\ [call[c] EXCEPT !.pc = next] = [pc |-> next, user |-> call[c].user]
                /\ [call[c] EXCEPT !.pc = next] \in CallStates
                /\ Known([call[c] EXCEPT !.pc = next])
<1>1. call[c] \in CallStates /\ call[c] # Idle /\ call[c].pc \in ForUser
  BY DEF TypeOK, At
<1>2. call[c].user \in Ids /\ rows[call[c].user] # Absent
  BY <1>1, KnownCalls DEF Known
<1>3. ASSUME NEW next \in ForUser
      PROVE  /\ [call[c] EXCEPT !.pc = next] = [pc |-> next, user |-> call[c].user]
             /\ [call[c] EXCEPT !.pc = next] \in CallStates
             /\ Known([call[c] EXCEPT !.pc = next])
  <2>1. [call[c] EXCEPT !.pc = next] = [pc |-> next, user |-> call[c].user]
    BY <1>1, GoesOn
  <2> QED BY <1>2, <2>1, CallsMade DEF Known
<1> QED BY <1>2, <1>3, ConstantsAssumption DEF Slug

LEMMA AdmitTyped ==
    ASSUME SInv, NEW c \in Calls, Admit(c)
    PROVE  SInv'
<1> DEFINE ip == call[c].ip
           at == call[c].at
           t == Served(bucket[ip], at)
<1>1. ip \in IPs /\ at \in Times
  BY CallFields DEF Admit, At, SInv, TypeOK
<1>2. bucket' = [bucket EXCEPT ![ip] = t] /\ bucket[ip] \in Buckets \union {NoBucket}
  BY <1>1 DEF Admit, SInv, TypeOK
<1>3. t # NoBucket => t \in Buckets /\ (t.tokens < Hour \/ t.tokens <= (Capacity - 1) * Hour)
  BY <1>1, <1>2, BucketTyped DEF SInv, TypeOK
<1>4. /\ bucket' \in [IPs -> Buckets \union {NoBucket}]
      /\ \A p \in IPs : bucket'[p] # NoBucket =>
           bucket'[p].tokens < Hour \/ bucket'[p].tokens <= (Capacity - 1) * Hour
  <2> HIDE DEF t
  <2> QED BY <1>1, <1>2, <1>3 DEF SInv, TypeOK
<1>5. \/ admitted' = [admitted EXCEPT ![ip] = @ \union {Nth(ip, at)}]
      \/ admitted' = admitted
  BY DEF Admit
<1>6. Nth(ip, at) \in [at : Times, n : Nat]
  BY <1>1, NumberedTyped DEF SInv
<1>7. admitted' \in [IPs -> SUBSET [at : Times, n : Nat]]
  BY <1>1, <1>5, <1>6 DEF SInv, TypeOK
<1>8. \A p \in IPs : IsFiniteSet(admitted'[p])
  <2>1. IsFiniteSet(admitted[ip] \union {Nth(ip, at)})
    BY <1>1, FS_AddElement DEF SInv
  <2> QED BY <1>1, <1>5, <2>1 DEF SInv, TypeOK
<1>9. /\ call' \in [Calls -> CallStates]
      /\ \A d \in Calls : call'[d] # Idle /\ call'[d].pc \notin {"arrived", "admitted"}
           => rows'[call'[d].user] # Absent
  <2>1. UNCHANGED rows
    BY DEF Admit, store
  <2>2. Goes(c, [pc |-> "admitted"]) \/ Goes(c, Idle)
    BY DEF Admit, Answered
  <2>3. [pc |-> "admitted"] \in CallStates /\ Known([pc |-> "admitted"])
    BY CallsMade DEF Known, ForUser
  <2> QED BY <2>1, <2>2, <2>3, IdleKnown, CallsTyped DEF SInv
<1>10. UNCHANGED <<store, key, mailed, kai, restarts, changes, told, refused>>
  BY DEF Admit
<1> QED BY <1>4, <1>7, <1>8, <1>9, <1>10 DEF SInv, TypeOK, store

LEMMA RegisterTyped ==
    ASSUME SInv, NEW c \in Calls, NEW i \in Ids, NEW e \in Emails, Register(c, i, e)
    PROVE  SInv'
<1> DEFINE r == [email |-> e, attr |-> "new", deleted |-> Active]
           s == [pc |-> "registered", user |-> i]
<1>1. r \in Rows /\ r # Absent
  BY ConstantsAssumption DEF Rows
<1>2. rows' = [rows EXCEPT ![i] = r] /\ used' = used \union {i} /\ clock' = clock
  BY DEF Register, Store!Create
<1>3. rows' \in [Ids -> Rows \union {Absent}] /\ \A j \in Ids : rows'[j] # Absent => j \in used'
  <2> HIDE DEF r
  <2> QED BY <1>1, <1>2 DEF SInv, TypeOK
<1>4. \A j \in Ids : rows[j] # Absent => rows'[j] # Absent
  <2> HIDE DEF r
  <2> QED BY <1>1, <1>2 DEF SInv, TypeOK
<1>5. rows'[i] # Absent
  <2> HIDE DEF r
  <2> QED BY <1>1, <1>2 DEF SInv, TypeOK
<1>6. call' = [call EXCEPT ![c] = s] /\ s \in CallStates
  BY CallsMade DEF Register, Goes, ForUser
<1>7. ASSUME NEW d \in Calls, call'[d] # Idle, call'[d].pc \notin {"arrived", "admitted"}
      PROVE  rows'[call'[d].user] # Absent
  <2>1. CASE d = c
    BY <1>5, <1>6, <2>1 DEF SInv, TypeOK
  <2>2. CASE d # c
    <3>1. call'[d] = call[d] /\ call[d] \in CallStates
      BY <1>6, <2>2 DEF SInv, TypeOK
    <3>2. call[d].user \in Ids /\ rows[call[d].user] # Absent
      BY <1>7, <3>1, CallFields DEF SInv, TypeOK
    <3> QED BY <1>4, <3>1, <3>2
  <2> QED BY <2>1, <2>2
<1>8. call' \in [Calls -> CallStates]
  BY <1>6 DEF SInv, TypeOK
<1>9. UNCHANGED <<bucket, key, mailed, kai, restarts, changes, admitted, told, refused>>
  BY DEF Register
<1> QED BY <1>2, <1>3, <1>7, <1>8, <1>9 DEF SInv, TypeOK

LEMMA ConfirmTyped ==
    ASSUME SInv, NEW c \in Calls, NEW i \in Ids, NEW l \in mailed, Confirm(c, i, l)
    PROVE  /\ SInv'
           /\ rows'[i] # Absent /\ rows'[i].attr = "verified"
           /\ \A j \in Ids \ {i} : rows'[j] = rows[j]
           /\ call' = [call EXCEPT ![c] = [pc |-> "verified", user |-> i]]
<1> DEFINE r == [rows[i] EXCEPT !.attr = "verified"]
           s == [pc |-> "verified", user |-> i]
<1>1. rows[i] \in Rows
  BY DEF Confirm, Store!Update, Store!IsActive, SInv, TypeOK
<1>2. r \in Rows /\ r # Absent /\ r.attr = "verified"
  BY <1>1, ConstantsAssumption DEF Rows
<1>3. rows' = [rows EXCEPT ![i] = r] /\ used' = used /\ clock' = clock
  BY DEF Confirm, Store!Update
<1>4. /\ rows' \in [Ids -> Rows \union {Absent}]
      /\ rows'[i] = r
      /\ \A j \in Ids \ {i} : rows'[j] = rows[j]
  <2> HIDE DEF r
  <2> QED BY <1>2, <1>3 DEF SInv, TypeOK
<1>5. rows[i] # Absent
  BY <1>1, ConstantsAssumption
<1>6. \A j \in Ids : rows'[j] # Absent => j \in used
  BY <1>4, <1>5 DEF SInv
<1>7. \A j \in Ids : rows[j] # Absent => rows'[j] # Absent
  BY <1>2, <1>4
<1>8. call' = [call EXCEPT ![c] = s] /\ s \in CallStates
  BY CallsMade DEF Confirm, Goes, ForUser
<1>9. ASSUME NEW d \in Calls, call'[d] # Idle, call'[d].pc \notin {"arrived", "admitted"}
      PROVE  rows'[call'[d].user] # Absent
  <2>1. CASE d = c
    <3>1. call'[d] = s
      BY <1>8, <2>1 DEF SInv, TypeOK
    <3> QED BY <1>2, <1>4, <3>1
  <2>2. CASE d # c
    <3>1. call'[d] = call[d] /\ call[d] \in CallStates
      BY <1>8, <2>2 DEF SInv, TypeOK
    <3>2. call[d].user \in Ids /\ rows[call[d].user] # Absent
      BY <1>9, <3>1, CallFields DEF SInv, TypeOK
    <3> QED BY <1>7, <3>1, <3>2
  <2> QED BY <2>1, <2>2
<1>10. call' \in [Calls -> CallStates]
  BY <1>8 DEF SInv, TypeOK
<1>11. UNCHANGED <<bucket, key, mailed, kai, restarts, changes, admitted, told, refused>>
  BY DEF Confirm
<1>12. SInv'
  BY <1>3, <1>4, <1>6, <1>9, <1>10, <1>11 DEF SInv, TypeOK
<1> QED BY <1>2, <1>4, <1>8, <1>12

LEMMA MailTyped ==
    ASSUME SInv, NEW c \in Calls, Mail(c)
    PROVE  SInv'
<1> DEFINE l == [user |-> call[c].user, exp |-> clock + TTL, key |-> key]
<1>1. call[c].user \in Ids /\ call[c].user \in used
  BY ActsFor DEF Mail, SInv, ForUser
<1>2. clock + TTL \in 0 .. MaxTime + TTL /\ key \in Nat
  BY ConstantsAssumption DEF SInv, TypeOK, Times, Keys
<1>3. l \in Links /\ l.user \in used /\ l.key <= key
  BY <1>1, <1>2 DEF Links, SInv, TypeOK
<1>4. mailed' = mailed \union {l} \/ mailed' = mailed
  BY DEF Mail
<1>5. mailed' \subseteq Links /\ \A m \in mailed' : m.user \in used /\ m.key <= key
  <2> HIDE DEF l
  <2> QED BY <1>3, <1>4 DEF SInv, TypeOK
<1>6. /\ Goes(c, Idle)
      /\ UNCHANGED <<store, bucket, key, kai, restarts, changes, admitted, told, refused>>
  BY DEF Mail, Answered
<1>7. /\ kai' \in [Slugs -> Owners \union {Absent}]
      /\ told' \subseteq [user : Ids, owner : Owners]
      /\ refused' \subseteq Ids
      /\ UNCHANGED <<store, bucket, key, restarts, changes, admitted>>
  BY <1>6 DEF SInv, TypeOK
<1> QED BY <1>5, <1>6, <1>7, IdleKnown, ServesTyped

LEMMA NamesTyped ==
    ASSUME TypeOK, NEW c \in Calls, call[c].user \in Ids, NEW o \in Owners, Names(c, o)
    PROVE  told' \subseteq [user : Ids, owner : Owners] /\ Goes(c, Idle)
<1>1. [user |-> call[c].user, owner |-> o] \in [user : Ids, owner : Owners]
  OBVIOUS
<1> QED BY <1>1 DEF Names, Answered, TypeOK

\* The steps of a request that only look at and change the cluster.
LEMMA VerifyTyped ==
    ASSUME SInv, NEW c \in Calls, Lookup(c) \/ Count(c) \/ Provision(c) \/ ClusterFails(c)
    PROVE  SInv'
<1> DEFINE u == call[c].user
           s == Slug(c)
<1>1. UNCHANGED <<store, bucket, key, mailed, restarts, changes, admitted>>
  BY DEF Lookup, Count, Provision, ClusterFails
<1>2. /\ u \in Ids /\ s \in Slugs
      /\ \A next \in ForUser :
           [call[c] EXCEPT !.pc = next] \in CallStates /\ Known([call[c] EXCEPT !.pc = next])
  BY ActsFor DEF Lookup, Count, Provision, ClusterFails, SInv, ForUser
<1>3. u \in Owners /\ kai[s] \in Owners \union {Absent}
  BY <1>2 DEF Owners, SInv, TypeOK
<1>4. mailed' \subseteq Links /\ \A l \in mailed' : l.user \in used /\ l.key <= key
  BY <1>1 DEF SInv, TypeOK
<1>5. kai' \in [Slugs -> Owners \union {Absent}]
  BY <1>2, <1>3 DEF Lookup, Count, Provision, ClusterFails, SInv, TypeOK
<1>6. CASE Lookup(c)
  <2>1. CASE kai[s] # Absent
    <3>1. Names(c, kai[s]) /\ UNCHANGED refused
      BY <1>6, <2>1 DEF Lookup
    <3>2. told' \subseteq [user : Ids, owner : Owners] /\ Goes(c, Idle)
      BY <1>2, <1>3, <2>1, <3>1, NamesTyped DEF SInv
    <3> QED BY <1>1, <1>4, <1>5, <3>1, <3>2, IdleKnown, ServesTyped DEF SInv, TypeOK
  <2>2. CASE kai[s] = Absent
    <3>1. /\ Goes(c, [call[c] EXCEPT !.pc = "listing"])
          /\ UNCHANGED <<told, refused>>
      BY <1>6, <2>2 DEF Lookup
    <3> QED BY <1>1, <1>2, <1>4, <1>5, <3>1, ServesTyped DEF SInv, TypeOK, ForUser
  <2> QED BY <2>1, <2>2
<1>7. CASE Count(c)
  <2>1. /\ UNCHANGED told
        /\ refused' \subseteq Ids
        /\ Goes(c, Idle) \/ Goes(c, [call[c] EXCEPT !.pc = "creating"])
    BY <1>2, <1>7 DEF Count, Answered, SInv, TypeOK
  <2> QED BY <1>1, <1>2, <1>4, <1>5, <2>1, IdleKnown, ServesTyped DEF SInv, TypeOK, ForUser
<1>8. CASE Provision(c)
  <2>1. kai'[s] \in Owners
    BY <1>2, <1>3, <1>8 DEF Provision, SInv, TypeOK
  <2>2. Names(c, kai'[s]) /\ UNCHANGED refused
    BY <1>8 DEF Provision
  <2>3. told' \subseteq [user : Ids, owner : Owners] /\ Goes(c, Idle)
    BY <1>2, <2>1, <2>2, NamesTyped DEF SInv
  <2> QED BY <1>1, <1>4, <1>5, <2>2, <2>3, IdleKnown, ServesTyped DEF SInv, TypeOK
<1>9. CASE ClusterFails(c)
  <2>1. UNCHANGED <<told, refused>> /\ Goes(c, Idle)
    BY <1>9 DEF ClusterFails, Answered
  <2> QED BY <1>1, <1>4, <1>5, <2>1, IdleKnown, ServesTyped DEF SInv, TypeOK
<1> QED BY <1>6, <1>7, <1>8, <1>9

LEMMA ArriveTyped ==
    ASSUME SInv, NEW c \in Calls, NEW ip \in IPs, Arrive(c, ip)
    PROVE  SInv'
<1> DEFINE s == [pc |-> "arrived", ip |-> ip, at |-> clock]
<1>1. s \in CallStates /\ Known(s)
  BY CallsMade DEF Known, ForUser, SInv, TypeOK
<1>2. Goes(c, s)
  BY DEF Arrive
<1>3. UNCHANGED <<store, bucket, key, mailed, kai, restarts, changes, admitted, told, refused>>
  BY DEF Arrive
<1> HIDE DEF s
<1> QED BY <1>1, <1>2, <1>3, ServesTyped DEF SInv, TypeOK

LEMMA PlatformTyped ==
    ASSUME SInv, Tick \/ Restart \/ \E s \in Slugs : CreateInstance(s) \/ DeleteInstance(s)
    PROVE  SInv'
<1>1. CASE Tick
  <2>1. clock' = clock + 1 /\ clock < MaxTime /\ UNCHANGED <<used, rows>>
    BY <1>1 DEF Tick, Store!Pass
  <2>2. clock' \in Times
    BY <2>1, ConstantsAssumption DEF Times, SInv, TypeOK
  <2> QED BY <1>1, <2>1, <2>2 DEF Tick, SInv, TypeOK
<1>2. CASE Restart
  <2>1. restarts' \in 0 .. MaxRestarts
    BY <1>2, ConstantsAssumption DEF Restart, SInv, TypeOK
  <2>2. key' \in {key, key + 1} /\ restarts' = restarts + 1
    BY <1>2 DEF Restart
  <2>3. key' \in Keys /\ key' <= restarts' /\ \A l \in mailed : l.user \in used /\ l.key <= key'
    <3>1. key \in Nat /\ restarts \in Nat /\ restarts' <= MaxRestarts
      BY <2>1, ConstantsAssumption DEF Keys, SInv, TypeOK
    <3>2. \A l \in mailed : l.key \in Nat
      BY ConstantsAssumption DEF Links, Keys, SInv, TypeOK
    <3> QED BY <2>2, <3>1, <3>2, ConstantsAssumption DEF Keys, SInv, TypeOK
  <2>4. /\ rows' = [i \in Ids |-> Absent]
        /\ bucket' = [ip \in IPs |-> NoBucket]
        /\ admitted' = [ip \in IPs |-> {}]
        /\ call' = [c \in Calls |-> Idle]
        /\ UNCHANGED <<clock, used, mailed, kai, changes, told, refused>>
    BY <1>2 DEF Restart
  <2>5. \A ip \in IPs : IsFiniteSet(admitted'[ip])
    BY <2>4, FS_EmptySet
  <2> QED BY <2>1, <2>3, <2>4, <2>5, IdleKnown DEF SInv, TypeOK
<1>3. ASSUME NEW s \in Slugs, CreateInstance(s) \/ DeleteInstance(s)
      PROVE  SInv'
  <2>1. kai' \in [Slugs -> Owners \union {Absent}]
    BY <1>3 DEF CreateInstance, DeleteInstance, Owners, SInv, TypeOK
  <2>2. changes' \in 0 .. MaxAdmin
    BY <1>3, ConstantsAssumption DEF CreateInstance, DeleteInstance, SInv, TypeOK
  <2>3. UNCHANGED <<store, bucket, key, mailed, call, restarts, admitted, told, refused>>
    BY <1>3 DEF CreateInstance, DeleteInstance
  <2> QED BY <2>1, <2>2, <2>3 DEF SInv, TypeOK, store
<1> QED BY <1>1, <1>2, <1>3

LEMMA SInvKept == SInv /\ [Next]_vars => SInv'
<1> SUFFICES ASSUME SInv, [Next]_vars PROVE SInv'
  OBVIOUS
<1>1. CASE Tick \/ Restart \/ \E s \in Slugs : CreateInstance(s) \/ DeleteInstance(s)
  BY <1>1, PlatformTyped
<1>2. ASSUME NEW c \in Calls, NEW ip \in IPs, Arrive(c, ip) PROVE SInv'
  BY <1>2, ArriveTyped
<1>3. ASSUME NEW c \in Calls, NEW i \in Ids, NEW e \in Emails, Register(c, i, e) PROVE SInv'
  BY <1>3, RegisterTyped
<1>4. ASSUME NEW c \in Calls, NEW i \in Ids, NEW l \in mailed, Confirm(c, i, l) PROVE SInv'
  BY <1>4, ConfirmTyped
<1>5. ASSUME NEW c \in Calls, Admit(c) PROVE SInv'
  BY <1>5, AdmitTyped
<1>6. ASSUME NEW c \in Calls, TurnDown(c) PROVE SInv'
  BY <1>6, IdleKnown, ServesTyped DEF TurnDown, Answered, SInv, TypeOK
<1>7. ASSUME NEW c \in Calls, Mail(c) PROVE SInv'
  BY <1>7, MailTyped
<1>8. ASSUME NEW c \in Calls, Lookup(c) \/ Count(c) \/ Provision(c) \/ ClusterFails(c)
      PROVE  SInv'
  BY <1>8, VerifyTyped
<1>9. CASE UNCHANGED vars
  BY <1>9 DEF vars, SInv, TypeOK
<1> QED BY <1>1, <1>2, <1>3, <1>4, <1>5, <1>6, <1>7, <1>8, <1>9 DEF Next

\* The state of the onboarding server stays well-formed: links name users that
\* were registered, requests act for users that have a row, and a bucket never
\* holds enough for a whole hour's requests after it has served one.
THEOREM SignupTypeCorrect == Spec => []TypeOK
<1>1. Spec => []SInv
  BY SInvInit, SInvKept, PTL DEF Spec
<1> QED BY <1>1, PTL DEF SInv

-----------------------------------------------------------------------------
(* Who gets a workspace *)

Proven == {"verified", "listing", "creating"}

\* Someone has had a link for user i, and i is verified.
Vouched(i) ==
    /\ \E l \in mailed : l.user = i
    /\ rows[i] # Absent => rows[i].attr = "verified"

LEMMA VouchedStays ==
    ASSUME SInv, [Next]_vars, NEW i \in Ids, Vouched(i)
    PROVE  Vouched(i)'
<1>1. mailed \subseteq mailed'
  BY DEF Next, vars, Tick, Restart, CreateInstance, DeleteInstance, Arrive, Register,
         Confirm, Admit, TurnDown, Mail, Lookup, Count, Provision, ClusterFails
<1>2. ASSUME NEW c \in Calls, NEW j \in Ids, NEW e \in Emails, Register(c, j, e)
      PROVE  rows'[i] = rows[i]
  <2>1. i \in used /\ j \notin used
    BY <1>2 DEF Register, Store!Create, Vouched, SInv, TypeOK
  <2> QED BY <1>2, <2>1 DEF Register, Store!Create, SInv, TypeOK
<1>3. ASSUME NEW c \in Calls, NEW j \in Ids, NEW l \in mailed, Confirm(c, j, l)
      PROVE  rows'[i] = rows[i] \/ rows'[i].attr = "verified"
  BY <1>3, ConfirmTyped
<1>4. CASE Restart
  BY <1>1, <1>4 DEF Restart, Vouched
<1>5. CASE \/ \E c \in Calls, j \in Ids, e \in Emails : Register(c, j, e)
           \/ \E c \in Calls, j \in Ids, l \in mailed : Confirm(c, j, l)
  <2>1. rows'[i] = rows[i] \/ rows'[i].attr = "verified"
    BY <1>2, <1>3, <1>5
  <2> QED BY <1>1, <2>1 DEF Vouched
<1>6. CASE UNCHANGED rows
  BY <1>1, <1>6 DEF Vouched
<1>7. \/ Restart
      \/ \E c \in Calls, j \in Ids, e \in Emails : Register(c, j, e)
      \/ \E c \in Calls, j \in Ids, l \in mailed : Confirm(c, j, l)
      \/ UNCHANGED rows
  BY DEF Next, vars, store, Tick, Store!Pass, CreateInstance, DeleteInstance, Arrive,
         Admit, TurnDown, Mail, Lookup, Count, Provision, ClusterFails
<1> QED BY <1>4, <1>5, <1>6, <1>7

\* A request past the check of its link came there by that check, or was there.
LEMMA CallsEvolve ==
    ASSUME SInv, [Next]_vars, NEW d \in Calls, call'[d] # Idle, call'[d].pc \in Proven
    PROVE  \/ /\ call[d] # Idle /\ call[d].pc \in Proven
              /\ call'[d].user = call[d].user
           \/ \E i \in Ids, l \in mailed :
                Confirm(d, i, l) /\ call'[d].user = i
<1>0. call \in [Calls -> CallStates] /\ Proven \subseteq ForUser
  BY DEF SInv, TypeOK, Proven, ForUser
<1>1. CASE call'[d] = call[d]
  BY <1>1
<1>2. ASSUME NEW s, Goes(d, s) PROVE call'[d] = s
  BY <1>0, <1>2 DEF Goes
<1>3. ASSUME NEW c \in Calls, c # d, NEW s, Goes(c, s) PROVE call'[d] = call[d]
  BY <1>0, <1>3 DEF Goes
<1>4. CASE Restart
  BY <1>4 DEF Restart
<1>5. CASE Tick \/ (\E s \in Slugs : CreateInstance(s) \/ DeleteInstance(s)) \/ UNCHANGED vars
  BY <1>1, <1>5 DEF Tick, CreateInstance, DeleteInstance, vars
<1>6. ASSUME NEW c \in Calls, NEW s, Goes(c, s), s = Idle \/ s.pc \notin Proven
      PROVE  call'[d] = call[d]
  BY <1>2, <1>3, <1>6
<1>7. ASSUME NEW c \in Calls, NEW ip \in IPs, Arrive(c, ip) PROVE call'[d] = call[d]
  BY <1>6, <1>7 DEF Arrive, Proven
<1>8. ASSUME NEW c \in Calls, NEW i \in Ids, NEW e \in Emails, Register(c, i, e)
      PROVE  call'[d] = call[d]
  BY <1>6, <1>8 DEF Register, Proven
<1>9. ASSUME NEW c \in Calls, Admit(c) \/ TurnDown(c) \/ Mail(c)
      PROVE  call'[d] = call[d]
  <2>1. Goes(c, Idle) \/ Goes(c, [pc |-> "admitted"])
    BY <1>9 DEF Admit, TurnDown, Mail, Answered
  <2> QED BY <1>6, <2>1 DEF Proven
<1>10. ASSUME NEW c \in Calls, Provision(c) \/ ClusterFails(c)
       PROVE  call'[d] = call[d]
  <2>1. Goes(c, Idle)
    BY <1>10 DEF Provision, ClusterFails, Names, Answered
  <2> QED BY <1>6, <2>1
<1>11. ASSUME NEW c \in Calls, Lookup(c) \/ Count(c)
       PROVE  \/ call'[d] = call[d]
              \/ /\ call[d] # Idle /\ call[d].pc \in Proven
                 /\ call'[d].user = call[d].user
  <2>1. call[c] # Idle /\ call[c].pc \in Proven /\ call[c] \in CallStates
    BY <1>0, <1>11 DEF Lookup, Count, At, Proven
  <2>2. PICK next \in {"listing", "creating"} :
          Goes(c, Idle) \/ Goes(c, [call[c] EXCEPT !.pc = next])
    BY <1>11 DEF Lookup, Count, Names, Answered
  <2>3. [call[c] EXCEPT !.pc = next] = [pc |-> next, user |-> call[c].user]
    BY <1>0, <2>1, GoesOn DEF ForUser
  <2>4. CASE Goes(c, Idle)
    BY <1>6, <2>4
  <2>5. CASE c = d /\ Goes(c, [call[c] EXCEPT !.pc = next])
    BY <1>2, <2>1, <2>3, <2>5
  <2>6. CASE c # d /\ Goes(c, [call[c] EXCEPT !.pc = next])
    BY <1>3, <2>6
  <2> QED BY <2>2, <2>4, <2>5, <2>6
<1>12. ASSUME NEW c \in Calls, NEW i \in Ids, NEW l \in mailed, Confirm(c, i, l)
       PROVE  call'[d] = call[d] \/ (c = d /\ call'[d].user = i)
  <2>1. Goes(c, [pc |-> "verified", user |-> i])
    BY <1>12 DEF Confirm
  <2> QED BY <1>2, <1>3, <2>1
<1> QED BY <1>1, <1>4, <1>5, <1>7, <1>8, <1>9, <1>10, <1>11, <1>12 DEF Next

\* A name is given to the user whose slug it is, or by hand.
LEMMA KaiEvolves ==
    ASSUME SInv, [Next]_vars, NEW s \in Slugs
    PROVE  \/ kai'[s] \in {kai[s], Absent}
           \/ kai'[s] = Admin /\ s \in AdminSlugs
           \/ \E c \in Calls : At(c, "creating") /\ Slug(c) = s /\ kai'[s] = call[c].user
<1>0. kai \in [Slugs -> Owners \union {Absent}]
  BY DEF SInv, TypeOK
<1>1. CASE UNCHANGED kai
  BY <1>1
<1>2. ASSUME NEW r \in Slugs, CreateInstance(r) \/ DeleteInstance(r)
      PROVE  kai'[s] \in {kai[s], Absent} \/ (kai'[s] = Admin /\ s \in AdminSlugs)
  BY <1>0, <1>2 DEF CreateInstance, DeleteInstance
<1>3. ASSUME NEW c \in Calls, Provision(c) \/ ClusterFails(c)
      PROVE  \/ kai'[s] = kai[s]
             \/ At(c, "creating") /\ Slug(c) = s /\ kai'[s] = call[c].user
  BY <1>0, <1>3 DEF Provision, ClusterFails
<1>4. \/ UNCHANGED kai
      \/ \E r \in Slugs : CreateInstance(r) \/ DeleteInstance(r)
      \/ \E c \in Calls : Provision(c) \/ ClusterFails(c)
  BY DEF Next, vars, Tick, Restart, Arrive, Register, Confirm, Admit, TurnDown, Mail,
         Lookup, Count
<1> QED BY <1>1, <1>2, <1>3, <1>4

VInv ==
    /\ SInv
    /\ \A s \in Slugs : kai[s] \in Ids => Vouched(kai[s])
    /\ \A c \in Calls : call[c] # Idle /\ call[c].pc \in Proven => Vouched(call[c].user)

LEMMA VInvKept == VInv /\ [Next]_vars => VInv'
<1> SUFFICES ASSUME VInv, [Next]_vars PROVE VInv'
  OBVIOUS
<1>1. SInv /\ SInv'
  BY SInvKept DEF VInv
<1>2. \A c \in Calls : call[c] # Idle /\ call[c].pc \in Proven => call[c].user \in Ids
  BY <1>1, KnownCalls DEF Known, Proven, ForUser, SInv
<1>3. ASSUME NEW s \in Slugs, kai'[s] \in Ids PROVE Vouched(kai[s])'
  <2>1. CASE kai'[s] = kai[s]
    <3>1. Vouched(kai[s])
      BY <1>3, <2>1 DEF VInv
    <3>2. PICK i \in Ids : i = kai[s] /\ i = kai'[s]
      BY <1>3, <2>1
    <3>3. Vouched(i)'
      BY <1>1, <3>1, <3>2, VouchedStays
    <3> QED BY <3>2, <3>3 DEF Vouched
  <2>2. ASSUME NEW c \in Calls, At(c, "creating"), kai'[s] = call[c].user
        PROVE  Vouched(kai[s])'
    <3>1. Vouched(call[c].user)
      BY <2>2 DEF VInv, At, Proven
    <3>2. PICK i \in Ids : i = call[c].user /\ i = kai'[s]
      BY <1>3, <2>2
    <3>3. Vouched(i)'
      BY <1>1, <3>1, <3>2, VouchedStays
    <3> QED BY <3>2, <3>3 DEF Vouched
  <2>3. kai'[s] # Absent /\ kai'[s] # Admin
    BY <1>3, ConstantsAssumption DEF Owners
  <2> QED BY <1>1, <2>1, <2>2, <2>3, KaiEvolves
<1>4. ASSUME NEW c \in Calls, call'[c] # Idle, call'[c].pc \in Proven
      PROVE  Vouched(call[c].user)'
  <2>1. CASE call[c] # Idle /\ call[c].pc \in Proven /\ call'[c].user = call[c].user
    <3>1. PICK i \in Ids : i = call[c].user /\ i = call'[c].user
      BY <1>2, <2>1
    <3>2. Vouched(i)'
      BY <1>1, <2>1, <3>1, VouchedStays DEF VInv
    <3> QED BY <3>1, <3>2 DEF Vouched
  <2>2. ASSUME NEW i \in Ids, NEW l \in mailed, Confirm(c, i, l), call'[c].user = i
        PROVE  Vouched(call[c].user)'
    <3>1. rows'[i].attr = "verified"
      BY <1>1, <2>2, ConfirmTyped
    <3>2. l.user = i /\ mailed' = mailed
      BY <2>2 DEF Confirm, ChecksOut
    <3> QED BY <2>2, <3>1, <3>2 DEF Vouched
  <2> QED BY <1>1, <1>4, <2>1, <2>2, CallsEvolve
<1> QED BY <1>1, <1>3, <1>4 DEF VInv

\* Every workspace that belongs to a user belongs to one who is verified and to
\* whom a link was mailed, whatever requests, restarts and changes by hand cross.
THEOREM WorkspacesAreOfVerified == Spec => []OnlyVerified
<1>1. Init => VInv
  <2>1. Init => \A s \in Slugs : kai[s] \notin Ids
    BY ConstantsAssumption DEF Init, Owners
  <2>2. Init => \A c \in Calls : call[c] = Idle
    BY DEF Init
  <2> QED BY <2>1, <2>2, SInvInit DEF VInv
<1>2. VInv => OnlyVerified
  BY DEF VInv, Vouched, OnlyVerified
<1> QED BY <1>1, <1>2, VInvKept, PTL DEF Spec

-----------------------------------------------------------------------------
(* Whose workspace an answer names *)

\* A user's workspace is at the user's slug, the others where they are by hand.
OInv ==
    /\ SInv
    /\ OwnUnlessShared
    /\ \A s \in Slugs :
         /\ kai[s] \in Ids => SlugOf[kai[s]] = s
         /\ kai[s] = Admin => s \in AdminSlugs

LEMMA OInvKept == OInv /\ [Next]_vars => OInv'
<1> SUFFICES ASSUME OInv, [Next]_vars PROVE OInv'
  OBVIOUS
<1>1. SInv /\ SInv' /\ kai' \in [Slugs -> Owners \union {Absent}]
  <2>1. SInv /\ SInv'
    BY SInvKept DEF OInv
  <2> QED BY <2>1 DEF SInv, TypeOK
<1>2. \A c \in Calls, pc \in Proven : At(c, pc) => call[c].user \in Ids
  BY <1>1, ActsFor DEF SInv, Proven, ForUser
<1>3. ASSUME NEW s \in Slugs
      PROVE  /\ kai'[s] \in Ids => SlugOf[kai'[s]] = s
             /\ kai'[s] = Admin => s \in AdminSlugs
  <2>1. CASE kai'[s] = kai[s]
    BY <2>1 DEF OInv
  <2>2. CASE kai'[s] = Absent
    BY <2>2, ConstantsAssumption DEF Owners
  <2>3. CASE kai'[s] = Admin /\ s \in AdminSlugs
    BY <2>3, ConstantsAssumption
  <2>4. ASSUME NEW c \in Calls, At(c, "creating"), Slug(c) = s, kai'[s] = call[c].user
        PROVE  kai'[s] \in Ids /\ SlugOf[kai'[s]] = s
    BY <1>2, <2>4 DEF Slug, Proven
  <2> QED BY <1>1, <2>1, <2>2, <2>3, <2>4, KaiEvolves, ConstantsAssumption
<1>4. ASSUME NEW c \in Calls, NEW pc \in Proven, At(c, pc), NEW o \in Owners,
             o \in Ids => SlugOf[o] = Slug(c), o = Admin => Slug(c) \in AdminSlugs,
             Names(c, o)
      PROVE  OwnUnlessShared'
  <2>1. call[c].user \in Ids
    BY <1>2, <1>4
  <2>2. \/ o \in Ids /\ SlugOf[o] = SlugOf[call[c].user]
        \/ o = Admin /\ SlugOf[call[c].user] \in AdminSlugs
    BY <1>4 DEF Slug, Owners
  <2> QED BY <1>4, <2>1, <2>2 DEF Names, OwnUnlessShared, OInv
<1>5. ASSUME NEW c \in Calls, Lookup(c) PROVE OwnUnlessShared'
  <2>1. At(c, "verified") /\ Slug(c) \in Slugs
    BY <1>1, <1>5, ActsFor DEF Lookup, SInv, ForUser
  <2>2. CASE kai[Slug(c)] # Absent
    <3>1. kai[Slug(c)] \in Owners
      BY <2>1, <2>2 DEF OInv, SInv, TypeOK
    <3>2. Names(c, kai[Slug(c)])
      BY <1>5, <2>2 DEF Lookup
    <3> QED BY <1>4, <2>1, <3>1, <3>2 DEF OInv, Proven
  <2>3. CASE kai[Slug(c)] = Absent
    BY <1>5, <2>3 DEF Lookup, OwnUnlessShared, OInv
  <2> QED BY <2>2, <2>3
<1>6. ASSUME NEW c \in Calls, Provision(c) PROVE OwnUnlessShared'
  <2>1. At(c, "creating") /\ Slug(c) \in Slugs /\ call[c].user \in Ids
    BY <1>1, <1>6, ActsFor DEF Provision, SInv, ForUser
  <2>2. Names(c, kai'[Slug(c)])
    BY <1>6 DEF Provision
  <2>3. kai'[Slug(c)] \in Owners
    BY <1>6, <2>1 DEF Provision, Owners, OInv, SInv, TypeOK
  <2> QED BY <1>3, <1>4, <2>1, <2>2, <2>3 DEF Proven
<1>7. ASSUME UNCHANGED told PROVE OwnUnlessShared'
  BY <1>7 DEF OwnUnlessShared, OInv
<1>8. UNCHANGED told \/ \E c \in Calls : Lookup(c) \/ Provision(c)
  BY DEF Next, vars, Tick, Restart, CreateInstance, DeleteInstance, Arrive, Register,
         Confirm, Admit, TurnDown, Mail, Count, ClusterFails
<1> QED BY <1>1, <1>3, <1>5, <1>6, <1>7, <1>8 DEF OInv

LEMMA OInvInit == Init => OInv
BY SInvInit, ConstantsAssumption DEF Init, OInv, OwnUnlessShared, Owners

\* An answer to a verify request names the user's own workspace, or that of a user
\* with the same slug, or one given the slug by the admin, and no other: not when
\* requests of several users cross, and not after a restart (handleVerify).
THEOREM AnswersNameOwnWorkspaces == Spec => []OwnUnlessShared
<1>1. OInv => OwnUnlessShared
  BY DEF OInv
<1> QED BY <1>1, OInvInit, OInvKept, PTL DEF Spec

\* However many requests of a user count before any of them creates, no user has
\* more workspaces than the tier allows (handleVerify, MaxInstancesReached).
THEOREM TierCapHolds == Spec => []TierCap
<1>1. OInv => TierCap
  <2> SUFFICES ASSUME OInv, MaxInstances > 0, NEW i \in Ids
               PROVE  Cardinality({s \in Slugs : kai[s] = i}) <= MaxInstances
    BY DEF TierCap
  <2>1. {s \in Slugs : kai[s] = i} \subseteq {SlugOf[i]}
    BY DEF OInv
  <2>2. Cardinality({SlugOf[i]}) = 1 /\ IsFiniteSet({SlugOf[i]})
    BY FS_Singleton
  <2>3. Cardinality({s \in Slugs : kai[s] = i}) \in Nat /\ Cardinality({s \in Slugs : kai[s] = i}) <= 1
    BY <2>1, <2>2, FS_Subset, FS_CardinalityType
  <2> QED BY <2>3, ConstantsAssumption
<1> QED BY <1>1, OInvInit, OInvKept, PTL DEF Spec

-----------------------------------------------------------------------------
(* The windows of the rate limiter *)

\* What the requests of a window and the tokens left may add up to.  (A window no
\* request has been let through in may meet a bucket filled since.)
Budget(ip, from, to) ==
    LET b == bucket[ip] IN
    Cardinality(Within(ip, from, to)) * Hour + b.tokens + (to - b.seen) * Capacity
        <= Capacity * (Hour + to - from)

Kept(ip, from, to) ==
    Cardinality(Within(ip, from, to)) * Hour <= Capacity * (Hour + to - from)

Paid(ip) ==
    \A from, to \in Times : from <= to =>
        /\ Within(ip, from, to) # {} => bucket[ip] # NoBucket /\ Budget(ip, from, to)
        /\ Kept(ip, from, to)

\* The entries of a timestamp are numbered.
Numbered(ip) ==
    \A a \in admitted[ip] : a.n < Cardinality(Within(ip, a.at, a.at))

RInv == SInv /\ \A ip \in IPs : Numbered(ip) /\ Paid(ip)

LEMMA Product == \A x, y \in Nat : x * y \in Nat
OBVIOUS

LEMMA WindowFinite ==
    ASSUME NEW ip \in IPs, IsFiniteSet(admitted[ip]), NEW from, NEW to
    PROVE  /\ IsFiniteSet(Within(ip, from, to))
           /\ Cardinality(Within(ip, from, to)) \in Nat
           /\ Within(ip, from, to) = {} <=> Cardinality(Within(ip, from, to)) = 0
<1>1. IsFiniteSet(Within(ip, from, to))
  BY FS_Subset DEF Within
<1> QED BY <1>1, FS_CardinalityType, FS_EmptySet

\* The entry of a request is new: it adds one to the windows around its timestamp.
LEMMA EntryCounts ==
    ASSUME SInv, NEW ip \in IPs, Numbered(ip), NEW at \in Times,
           admitted'[ip] = admitted[ip] \union {Nth(ip, at)}
    PROVE  \A from, to \in Times :
             Cardinality(Within(ip, from, to)')
               = Cardinality(Within(ip, from, to)) + IF from <= at /\ at <= to THEN 1 ELSE 0
<1> SUFFICES ASSUME NEW from \in Times, NEW to \in Times
    PROVE  Cardinality(Within(ip, from, to)')
             = Cardinality(Within(ip, from, to)) + IF from <= at /\ at <= to THEN 1 ELSE 0
  OBVIOUS
<1> DEFINE x == Nth(ip, at)
<1>1. x.at = at /\ x.n = Cardinality(Within(ip, at, at))
  BY DEF Nth
<1>2. Cardinality(Within(ip, at, at)) \in Nat
  BY WindowFinite DEF SInv
<1>3. x \notin admitted[ip]
  BY <1>1, <1>2 DEF Numbered
<1>4. Within(ip, from, to)'
        = IF from <= at /\ at <= to THEN Within(ip, from, to) \union {x} ELSE Within(ip, from, to)
  <2>1. admitted'[ip] = admitted[ip] \union {x}
    OBVIOUS
  <2> HIDE DEF x
  <2> QED BY <1>1, <2>1 DEF Within
<1>5. x \notin Within(ip, from, to)
  BY <1>3 DEF Within
<1>6. /\ IsFiniteSet(Within(ip, from, to))
      /\ Cardinality(Within(ip, from, to)) \in Nat
  BY WindowFinite DEF SInv
<1>7. Cardinality(Within(ip, from, to) \union {x}) = Cardinality(Within(ip, from, to)) + 1
  BY <1>5, <1>6, FS_AddElement
<1> QED BY <1>4, <1>6, <1>7

LEMMA NumberedOn ==
    ASSUME SInv, NEW ip \in IPs, Numbered(ip), NEW at \in Times,
           admitted'[ip] = admitted[ip] \union {Nth(ip, at)}
    PROVE  Numbered(ip)'
<1> SUFFICES ASSUME NEW a \in admitted'[ip]
             PROVE  a.n < Cardinality(Within(ip, a.at, a.at)')
  BY DEF Numbered
<1>1. a = Nth(ip, at) \/ a \in admitted[ip]
  OBVIOUS
<1>2. Nth(ip, at) \in [at : Times, n : Nat]
  BY NumberedTyped DEF SInv
<1>3. a \in [at : Times, n : Nat]
  BY <1>1, <1>2 DEF SInv, TypeOK
<1>4. a.at \in Nat /\ a.at \in Times /\ a.n \in Nat
  BY <1>3, ConstantsAssumption DEF Times
<1>5. /\ Cardinality(Within(ip, a.at, a.at)) \in Nat
      /\ Cardinality(Within(ip, a.at, a.at)')
           = Cardinality(Within(ip, a.at, a.at)) + IF a.at <= at /\ at <= a.at THEN 1 ELSE 0
  BY <1>4, EntryCounts, WindowFinite DEF SInv
<1>6. CASE a = Nth(ip, at)
  BY <1>4, <1>5, <1>6 DEF Nth
<1>7. CASE a \in admitted[ip]
  BY <1>4, <1>5, <1>7 DEF Numbered
<1> QED BY <1>1, <1>6, <1>7

\* One more request, at a time of the window, for which there was a token.
LEMMA OneMore ==
    ASSUME NEW C \in Nat, NEW H \in Nat, NEW k \in Nat, NEW t \in Int, NEW u \in Int,
           NEW at \in Nat, NEW from \in Nat, NEW to \in Nat, NEW seen \in Nat,
           from <= at, at <= to, u >= H,
           \/ u <= t + (at - seen) * C
              /\ k * H + t + (to - seen) * C <= C * (H + to - from)
           \/ k = 0 /\ u <= C * H
    PROVE  /\ (k + 1) * H + (u - H) + (to - at) * C <= C * (H + to - from)
           /\ (k + 1) * H <= C * (H + to - from)
<1>1. (to - at) * C >= 0 /\ (at - from) * C >= 0
  <2>1. to - at \in Nat /\ at - from \in Nat
    OBVIOUS
  <2> QED BY <2>1, Product
<1>2. /\ (to - at) * C = to * C - at * C
      /\ (at - from) * C = at * C - from * C
      /\ (at - seen) * C = at * C - seen * C
      /\ (to - seen) * C = to * C - seen * C
      /\ C * (H + to - from) = C * H + to * C - from * C
      /\ (k + 1) * H = k * H + H
  OBVIOUS
<1>3. {to * C, at * C, from * C, seen * C, C * H, k * H} \subseteq Int
  OBVIOUS
<1>4. (k + 1) * H + (u - H) + (to - at) * C <= C * (H + to - from)
  <2>1. CASE k = 0 /\ u <= C * H
    <3>1. k * H = 0
      BY <2>1
    <3> QED BY <1>1, <1>2, <1>3, <2>1, <3>1
  <2>2. CASE /\ u <= t + (at - seen) * C
             /\ k * H + t + (to - seen) * C <= C * (H + to - from)
    BY <1>1, <1>2, <1>3, <2>2
  <2> QED BY <2>1, <2>2
<1> QED BY <1>1, <1>2, <1>3, <1>4

\* A request outside the window, or refused, only takes tokens away.
LEMMA NoMore ==
    ASSUME NEW C \in Nat, NEW k \in Nat, NEW t \in Int, NEW u \in Int, NEW B \in Int,
           NEW at \in Nat, NEW to \in Nat, NEW seen \in Nat,
           u <= t + (at - seen) * C,
           k + t + (to - seen) * C <= B
    PROVE  k + u + (to - at) * C <= B
<1>1. /\ (to - at) * C = to * C - at * C
      /\ (at - seen) * C = at * C - seen * C
      /\ (to - seen) * C = to * C - seen * C
  OBVIOUS
<1>2. {to * C, at * C, seen * C} \subseteq Int
  OBVIOUS
<1> QED BY <1>1, <1>2

LEMMA PaidOn ==
    ASSUME SInv, Capacity > 0, NEW ip \in IPs, Numbered(ip), Paid(ip), NEW at \in Times,
           bucket'[ip] = Served(bucket[ip], at),
           \/ /\ Allows(bucket[ip], at)
              /\ admitted'[ip] = admitted[ip] \union {Nth(ip, at)}
           \/ ~Allows(bucket[ip], at) /\ admitted'[ip] = admitted[ip]
    PROVE  Paid(ip)'
<1> DEFINE b == bucket[ip]
           u == Refilled(b, at)
           W(from, to) == Cardinality(Within(ip, from, to))
<1>1. Capacity \in Nat /\ Hour \in Nat /\ at \in Nat /\ Times \subseteq Nat
  BY ConstantsAssumption DEF Times
<1>2. b \in Buckets \union {NoBucket}
  BY DEF SInv, TypeOK
<1>3. u \in Int /\ u <= Capacity * Hour
  BY <1>2, RefilledTyped
<1>4. b # NoBucket =>
        /\ b.tokens \in Int /\ b.seen \in Nat
        /\ u <= b.tokens + (at - b.seen) * Capacity
  <2>1. b # NoBucket => b.tokens \in Int /\ b.seen \in Nat
    BY <1>1, <1>2 DEF Buckets
  <2> QED BY <1>1, <2>1 DEF Refilled
<1>5. /\ bucket'[ip] # NoBucket
      /\ bucket'[ip].seen = at
      /\ bucket'[ip].tokens = IF Allows(b, at) THEN u - Hour ELSE u
      /\ Allows(b, at) <=> u >= Hour
  BY <1>2, ServedTyped, ConstantsAssumption
<1>6. SUFFICES ASSUME NEW from \in Times, NEW to \in Times, from <= to
      PROVE  /\ Within(ip, from, to)' # {} => Budget(ip, from, to)'
             /\ Kept(ip, from, to)'
  BY <1>5 DEF Paid
<1>7. from \in Nat /\ to \in Nat /\ W(from, to) \in Nat
  BY <1>1, WindowFinite DEF SInv
<1>8. Within(ip, from, to) = {} <=> W(from, to) = 0
  BY WindowFinite DEF SInv
<1>9. Within(ip, from, to) # {} =>
        /\ b # NoBucket
        /\ W(from, to) * Hour + b.tokens + (to - b.seen) * Capacity
             <= Capacity * (Hour + to - from)
  BY <1>6 DEF Paid, Budget
<1>10. Capacity * (Hour + to - from) \in Int /\ W(from, to) * Hour \in Nat
  BY <1>1, <1>7, Product
<1>11. CASE Allows(b, at) /\ from <= at /\ at <= to
  <2>1. Cardinality(Within(ip, from, to)') = W(from, to) + 1
    BY <1>6, <1>11, EntryCounts
  <2>2. /\ (W(from, to) + 1) * Hour + (u - Hour) + (to - at) * Capacity
             <= Capacity * (Hour + to - from)
        /\ (W(from, to) + 1) * Hour <= Capacity * (Hour + to - from)
    <3> HIDE DEF W, u
    <3>1. u >= Hour
      BY <1>5, <1>11
    <3>2. CASE W(from, to) = 0
      BY <1>1, <1>3, <1>7, <1>11, <3>1, <3>2, OneMore
    <3>3. CASE W(from, to) # 0
      <4>1. /\ b # NoBucket
            /\ W(from, to) * Hour + b.tokens + (to - b.seen) * Capacity
                 <= Capacity * (Hour + to - from)
        BY <1>8, <1>9, <3>3
      <4> HIDE DEF b
      <4> QED BY <1>1, <1>3, <1>4, <1>7, <1>11, <3>1, <4>1, OneMore
    <3> QED BY <3>2, <3>3
  <2> QED BY <1>5, <1>11, <2>1, <2>2 DEF Budget, Kept
<1>12. CASE ~(Allows(b, at) /\ from <= at /\ at <= to)
  <2>1. Within(ip, from, to)' = Within(ip, from, to)
    <3>1. CASE Allows(b, at)
      <4> DEFINE x == Nth(ip, at)
      <4>1. x.at = at
        BY DEF Nth
      <4>2. admitted'[ip] = admitted[ip] \union {x}
        BY <3>1
      <4>3. ~(from <= at /\ at <= to)
        BY <1>12, <3>1
      <4> HIDE DEF x, b
      <4> QED BY <4>1, <4>2, <4>3 DEF Within
    <3>2. CASE ~Allows(b, at)
      BY <3>2 DEF Within
    <3> QED BY <3>1, <3>2
  <2>2. Kept(ip, from, to)'
    BY <1>6, <2>1 DEF Paid, Kept
  <2>3. ASSUME Within(ip, from, to)' # {} PROVE Budget(ip, from, to)'
    <3> DEFINE v == bucket'[ip].tokens
    <3>1. v \in Int /\ v <= u
      BY <1>1, <1>3, <1>5
    <3>2. /\ b # NoBucket
          /\ W(from, to) * Hour + b.tokens + (to - b.seen) * Capacity
               <= Capacity * (Hour + to - from)
      BY <1>9, <2>1, <2>3
    <3>3. b.tokens + (at - b.seen) * Capacity \in Int
      BY <1>1, <1>4, <3>2
    <3>4. v <= b.tokens + (at - b.seen) * Capacity
      <4> HIDE DEF b, u, v
      <4> QED BY <1>3, <1>4, <3>1, <3>2, <3>3
    <3>5. W(from, to) * Hour + v + (to - at) * Capacity <= Capacity * (Hour + to - from)
      <4> HIDE DEF b, u, v, W
      <4> QED BY <1>1, <1>4, <1>7, <1>10, <3>1, <3>2, <3>4, NoMore
    <3> QED BY <1>5, <2>1, <3>5 DEF Budget
  <2> QED BY <2>2, <2>3
<1> QED BY <1>11, <1>12

\* Nothing let through yet, at the start and after a restart.
LEMMA EmptyPaid ==
    ASSUME NEW from \in Times, NEW to \in Times, from <= to
    PROVE  Cardinality({}) * Hour <= Capacity * (Hour + to - from)
<1>1. Capacity \in Nat /\ Hour \in Nat /\ Hour + to - from \in Nat
  BY ConstantsAssumption DEF Times
<1>2. Capacity * (Hour + to - from) \in Nat
  BY <1>1, Product
<1>3. Cardinality({}) * Hour = 0
  BY <1>1, FS_EmptySet
<1> QED BY <1>2, <1>3

LEMMA EmptyPaidInit ==
    ASSUME NEW ip \in IPs, admitted[ip] = {}
    PROVE  Numbered(ip) /\ Paid(ip)
<1>1. \A from, to \in Times : Within(ip, from, to) = {}
  BY DEF Within
<1> QED BY <1>1, EmptyPaid DEF Numbered, Paid, Kept

LEMMA EmptyPaidRestart ==
    ASSUME NEW ip \in IPs, admitted'[ip] = {}
    PROVE  Numbered(ip)' /\ Paid(ip)'
<1>1. \A from, to \in Times : Within(ip, from, to)' = {}
  BY DEF Within
<1> QED BY <1>1, EmptyPaid DEF Numbered, Paid, Kept

LEMMA RInvKept ==
    ASSUME Capacity > 0
    PROVE  RInv /\ [Next]_vars => RInv'
<1> SUFFICES ASSUME RInv, [Next]_vars PROVE RInv'
  OBVIOUS
<1>1. SInv /\ SInv'
  BY SInvKept DEF RInv
<1>2. ASSUME NEW ip \in IPs, bucket'[ip] = bucket[ip], admitted'[ip] = admitted[ip]
      PROVE  Numbered(ip)' /\ Paid(ip)'
  BY <1>2 DEF RInv, Numbered, Paid, Budget, Kept, Within
<1>3. ASSUME NEW c \in Calls, Admit(c), NEW ip \in IPs
      PROVE  Numbered(ip)' /\ Paid(ip)'
  <2> DEFINE at == call[c].at
  <2>1. call[c].ip \in IPs /\ at \in Times
    BY <1>1, <1>3, CallFields DEF Admit, At, SInv, TypeOK
  <2>2. CASE ip # call[c].ip
    BY <1>1, <1>2, <1>3, <2>1, <2>2 DEF Admit, SInv, TypeOK
  <2>3. CASE ip = call[c].ip
    <3>1. bucket'[ip] = Served(bucket[ip], at)
      BY <1>1, <1>3, <2>1, <2>3 DEF Admit, SInv, TypeOK
    <3>2. \/ /\ Allows(bucket[ip], at)
             /\ admitted'[ip] = admitted[ip] \union {Nth(ip, at)}
          \/ ~Allows(bucket[ip], at) /\ admitted'[ip] = admitted[ip]
      BY <1>1, <1>3, <2>1, <2>3 DEF Admit, SInv, TypeOK
    <3>3. Numbered(ip) /\ Paid(ip)
      BY DEF RInv
    <3>4. Paid(ip)'
      BY <1>1, <2>1, <3>1, <3>2, <3>3, PaidOn
    <3>5. Numbered(ip)'
      <4>1. CASE admitted'[ip] = admitted[ip] \union {Nth(ip, at)}
        BY <1>1, <2>1, <3>3, <4>1, NumberedOn
      <4>2. CASE admitted'[ip] = admitted[ip]
        BY <3>3, <4>2 DEF Numbered, Within
      <4> QED BY <3>2, <4>1, <4>2
    <3> QED BY <3>4, <3>5
  <2> QED BY <2>2, <2>3
<1>4. ASSUME Restart, NEW ip \in IPs
      PROVE  Numbered(ip)' /\ Paid(ip)'
  <2>1. admitted'[ip] = {}
    BY <1>4 DEF Restart
  <2> QED BY <2>1, EmptyPaidRestart
<1>5. Restart \/ (\E c \in Calls : Admit(c)) \/ UNCHANGED <<bucket, admitted>>
  BY DEF Next, vars, Tick, CreateInstance, DeleteInstance, Arrive, Register, Confirm,
         TurnDown, Mail, Lookup, Count, Provision, ClusterFails
<1> QED BY <1>1, <1>2, <1>3, <1>4, <1>5 DEF RInv

\* The limiter holds in every window, however the requests of an address overtake
\* each other between reading the clock and taking the mutex: what a late request
\* takes away with its old timestamp, the next one only gives back.
THEOREM LimiterHolds == Spec => []RateLimited
<1>1. CASE Capacity > 0
  <2>1. Init => RInv
    BY SInvInit, EmptyPaidInit DEF Init, RInv
  <2>2. RInv /\ [Next]_vars => RInv'
    BY <1>1, RInvKept
  <2>3. RInv => RateLimited
    BY DEF RInv, Paid, Kept, RateLimited
  <2> QED BY <2>1, <2>2, <2>3, PTL DEF Spec
<1>2. CASE ~(Capacity > 0)
  <2>1. RateLimited
    BY <1>2 DEF RateLimited
  <2> QED BY <2>1, PTL
<1> QED BY <1>1, <1>2
=============================================================================
