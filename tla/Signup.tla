------------------------------- MODULE Signup -------------------------------
(***************************************************************************)
(* Public signup and email verification of the onboarding server            *)
(* (web/onboarding/server/signup.go, main.go).                              *)
(*                                                                          *)
(* POST /api/signup passes the rate limiter, creates a user in the store    *)
(* and mails a signed link.  GET /verify checks the link, marks the user    *)
(* verified and provisions one KaiInstance, in three calls of the API       *)
(* server: Get, List, Create.  Requests run concurrently; a link can be     *)
(* followed any number of times until it expires.  A restart loses the      *)
(* store, the buckets and, when KAI_SIGNUP_SECRET is not set, the key;      *)
(* KaiInstances stay.                                                       *)
(*                                                                          *)
(* Representation.  The store is UserStore.  Password, language and app are *)
(* left out, the tier of a signed-up user is free.  The lookup of the user  *)
(* and MarkEmailVerified are one step: nothing in this server deletes a     *)
(* user.  The server has a Kubernetes client.                               *)
(***************************************************************************)
EXTENDS FiniteSets, RateLimiter

CONSTANTS
    Ids, Emails, Absent, Active, Grace,    \* as in UserStore
    IPs,
    Calls,         \* requests in flight
    Idle,
    Slugs,
    SlugOf,        \* slugFromUserID
    AdminSlugs,    \* slugs the operators of the platform provision by hand
    Admin,         \* owner of a KaiInstance without user-id label
    MaxInstances,  \* MaxInstancesPerUser of the free tier; 0 is unbounded
    TTL,           \* VerifyTTL
    MaxTime,       \* bound on the clock
    MaxRestarts,   \* bound on restarts
    MaxAdmin       \* bound on changes of KaiInstances by hand

Times == 0 .. MaxTime
Keys == 0 .. MaxRestarts
Links == [user : Ids, exp : 0 .. MaxTime + TTL, key : Keys]
Owners == Ids \union {Admin}
Rows == [email : Emails, attr : {"new", "verified"}, deleted : {Active}]
Buckets == [tokens : Int, seen : Times]
CallStates ==
    {Idle}
    \union [pc : {"arrived"}, ip : IPs, at : Times]
    \union [pc : {"admitted"}]
    \union [pc : {"registered", "verified", "listing", "creating"}, user : Ids]

ASSUME ConstantsAssumption ==
    /\ SlugOf \in [Ids -> Slugs]
    /\ AdminSlugs \subseteq Slugs
    /\ Admin \notin Ids
    /\ Absent \notin Owners \union Rows
    /\ NoBucket \notin Buckets
    /\ {MaxInstances, Capacity, MaxTime, MaxRestarts, MaxAdmin} \subseteq Nat
    /\ {TTL, Hour} \subseteq Nat \ {0}

VARIABLES
    clock, used, rows,   \* the store
    bucket,              \* rateLimiter.buckets
    key,                 \* signupConfig.Secret
    mailed,              \* links that reached a mailbox
    kai,                 \* kai-<slug>: its swarm.io/user-id
    call,                \* what a request is at, and its user
    restarts, changes,
    admitted,            \* history: requests let through, per address, by timestamp
                         \* and number
    told,                \* history: workspaces named in answers, with their owner
    refused              \* history: users answered 402

store == <<clock, used, rows>>
vars == <<clock, used, rows, bucket, key, mailed, kai, call, restarts, changes,
          admitted, told, refused>>

Store == INSTANCE UserStore WITH Attrs <- {"new", "verified"}

TypeOK ==
    /\ clock \in Times
    /\ used \subseteq Ids
    /\ rows \in [Ids -> Rows \union {Absent}]
    /\ bucket \in [IPs -> Buckets \union {NoBucket}]
    /\ \A ip \in IPs : bucket[ip] # NoBucket =>
         bucket[ip].tokens < Hour \/ bucket[ip].tokens <= (Capacity - 1) * Hour
    /\ key \in Keys
    /\ mailed \subseteq Links
    /\ kai \in [Slugs -> Owners \union {Absent}]
    /\ call \in [Calls -> CallStates]
    /\ restarts \in 0 .. MaxRestarts
    /\ changes \in 0 .. MaxAdmin
    /\ admitted \in [IPs -> SUBSET [at : Times, n : Nat]]
    /\ told \subseteq [user : Ids, owner : Owners]
    /\ refused \subseteq Ids
    /\ \A l \in mailed : l.user \in used /\ l.key <= key
    /\ \A c \in Calls :
         call[c] # Idle /\ call[c].pc \notin {"arrived", "admitted"} => rows[call[c].user] # Absent

Init ==
    /\ Store!StoreInit
    /\ bucket = [ip \in IPs |-> NoBucket]
    /\ key = 0
    /\ mailed = {}
    /\ kai = [s \in Slugs |-> Absent]
    /\ call = [c \in Calls |-> Idle]
    /\ restarts = 0
    /\ changes = 0
    /\ admitted = [ip \in IPs |-> {}]
    /\ told = {}
    /\ refused = {}

At(c, pc) == call[c] # Idle /\ call[c].pc = pc
Goes(c, s) == call' = [call EXCEPT ![c] = s]
Answered(c) == Goes(c, Idle)

-----------------------------------------------------------------------------
(* POST /api/signup *)

\* The timestamp of the request is taken before the limiter's mutex.
Arrive(c, ip) ==
    /\ call[c] = Idle
    /\ Goes(c, [pc |-> "arrived", ip |-> ip, at |-> clock])
    /\ UNCHANGED <<store, bucket, key, mailed, kai, restarts, changes, admitted, told, refused>>

\* Requests of an address let through, with timestamps of a window, and the
\* entry of one more.
Within(ip, from, to) == {a \in admitted[ip] : from <= a.at /\ a.at <= to}
Nth(ip, at) == [at |-> at, n |-> Cardinality(Within(ip, at, at))]

\* rl.allow; 429 when it refuses.
Admit(c) ==
    /\ At(c, "arrived")
    /\ LET ip == call[c].ip
           at == call[c].at IN
       /\ bucket' = [bucket EXCEPT ![ip] = Served(@, at)]
       /\ IF Allows(bucket[ip], at)
          THEN /\ Goes(c, [pc |-> "admitted"])
               /\ admitted' = [admitted EXCEPT ![ip] = @ \union {Nth(ip, at)}]
          ELSE Answered(c) /\ UNCHANGED admitted
    /\ UNCHANGED <<store, key, mailed, kai, restarts, changes, told, refused>>

\* 400 for the body, the address, the password or the captcha; and 202 for an
\* address that is taken, to which nothing is mailed.
TurnDown(c) ==
    /\ At(c, "admitted")
    /\ Answered(c)
    /\ UNCHANGED <<store, bucket, key, mailed, kai, restarts, changes, admitted, told, refused>>

Register(c, i, e) ==
    /\ At(c, "admitted")
    /\ Store!Create(i, e, "new")
    /\ Goes(c, [pc |-> "registered", user |-> i])
    /\ UNCHANGED <<bucket, key, mailed, kai, restarts, changes, admitted, told, refused>>

\* The mail may fail to be sent; the user is kept, and 202 is answered.
Mail(c) ==
    /\ At(c, "registered")
    /\ \/ mailed' = mailed \union {[user |-> call[c].user, exp |-> clock + TTL, key |-> key]}
       \/ mailed' = mailed
    /\ Answered(c)
    /\ UNCHANGED <<store, bucket, key, kai, restarts, changes, admitted, told, refused>>

-----------------------------------------------------------------------------
(* GET /api/signup/verify *)

\* Fault: the HMAC covers the expiry only.
ChecksOutAnyUserFault(i, l) == l.key = key /\ clock < l.exp

\* checkVerifyToken for the id i and the token of link l.
ChecksOut(i, l) == l.user = i /\ l.key = key /\ clock < l.exp

\* 400, 404 or the user is verified.
Confirm(c, i, l) ==
    /\ call[c] = Idle
    /\ ChecksOut(i, l)
    /\ Store!Update(i, "verified")
    /\ Goes(c, [pc |-> "verified", user |-> i])
    /\ UNCHANGED <<bucket, key, mailed, kai, restarts, changes, admitted, told, refused>>

\* Fault: the slug keeps too little of the identifier.
SlugTruncatedFault(c) == CHOOSE s \in Slugs : s \notin AdminSlugs

\* Fault: the slug is made of an identifier drawn for the request.
SlugOfRequestFault(c) ==
    IF clock = 0 THEN SlugOf[call[c].user] ELSE CHOOSE s \in Slugs : s # SlugOf[call[c].user]

\* slugFromUserID
Slug(c) == SlugOf[call[c].user]

\* 200, naming the workspace at the slug.
Names(c, owner) ==
    /\ told' = told \union {[user |-> call[c].user, owner |-> owner]}
    /\ Answered(c)

\* Get kai-<slug>
Lookup(c) ==
    /\ At(c, "verified")
    /\ IF kai[Slug(c)] # Absent
       THEN Names(c, kai[Slug(c)])
       ELSE Goes(c, [call[c] EXCEPT !.pc = "listing"]) /\ UNCHANGED told
    /\ UNCHANGED <<store, bucket, key, mailed, kai, restarts, changes, admitted, refused>>

\* countWorkspacesForUser and quotas.MaxInstancesReached
LimitReached(i) ==
    MaxInstances > 0 /\ Cardinality({s \in Slugs : kai[s] = i}) >= MaxInstances

\* List by user-id; 402 at the limit of the tier.
Count(c) ==
    /\ At(c, "listing")
    /\ IF LimitReached(call[c].user)
       THEN Answered(c) /\ refused' = refused \union {call[c].user}
       ELSE Goes(c, [call[c] EXCEPT !.pc = "creating"]) /\ UNCHANGED refused
    /\ UNCHANGED <<store, bucket, key, mailed, kai, restarts, changes, admitted, told>>

\* Create; AlreadyExists is another verify request that was faster.
Provision(c) ==
    /\ At(c, "creating")
    /\ kai' = IF kai[Slug(c)] = Absent THEN [kai EXCEPT ![Slug(c)] = call[c].user] ELSE kai
    /\ Names(c, kai'[Slug(c)])
    /\ UNCHANGED <<store, bucket, key, mailed, restarts, changes, admitted, refused>>

\* 502: a call of the API server fails; a Create may have taken effect.
ClusterFails(c) ==
    /\ \E pc \in {"verified", "listing", "creating"} : At(c, pc)
    /\ \/ UNCHANGED kai
       \/ /\ At(c, "creating")
          /\ kai[Slug(c)] = Absent
          /\ kai' = [kai EXCEPT ![Slug(c)] = call[c].user]
    /\ Answered(c)
    /\ UNCHANGED <<store, bucket, key, mailed, restarts, changes, admitted, told, refused>>

-----------------------------------------------------------------------------
(* The platform *)

Tick ==
    /\ clock < MaxTime
    /\ Store!Pass
    /\ UNCHANGED <<bucket, key, mailed, kai, call, restarts, changes, admitted, told, refused>>

\* createInstance behind the admin token; 409 when the name is taken.
CreateInstance(s) ==
    /\ changes < MaxAdmin
    /\ s \in AdminSlugs
    /\ kai[s] = Absent
    /\ kai' = [kai EXCEPT ![s] = Admin]
    /\ changes' = changes + 1
    /\ UNCHANGED <<store, bucket, key, mailed, call, restarts, admitted, told, refused>>

DeleteInstance(s) ==
    /\ changes < MaxAdmin
    /\ kai[s] # Absent
    /\ kai' = [kai EXCEPT ![s] = Absent]
    /\ changes' = changes + 1
    /\ UNCHANGED <<store, bucket, key, mailed, call, restarts, admitted, told, refused>>

\* setupSignup anew: the key is new unless it comes from the environment.
Restart ==
    /\ restarts < MaxRestarts
    /\ restarts' = restarts + 1
    /\ key' \in {key, key + 1}
    /\ rows' = [i \in Ids |-> Absent]
    /\ bucket' = [ip \in IPs |-> NoBucket]
    /\ admitted' = [ip \in IPs |-> {}]
    /\ call' = [c \in Calls |-> Idle]
    /\ UNCHANGED <<clock, used, mailed, kai, changes, told, refused>>

Next ==
    \/ Tick \/ Restart
    \/ \E s \in Slugs : CreateInstance(s) \/ DeleteInstance(s)
    \/ \E c \in Calls :
        \/ \E ip \in IPs : Arrive(c, ip)
        \/ \E i \in Ids, e \in Emails : Register(c, i, e)
        \/ \E i \in Ids, l \in mailed : Confirm(c, i, l)
        \/ Admit(c) \/ TurnDown(c) \/ Mail(c)
        \/ Lookup(c) \/ Count(c) \/ Provision(c) \/ ClusterFails(c)

Spec == Init /\ [][Next]_vars

-----------------------------------------------------------------------------
(* Properties *)

\* A workspace is provisioned only for someone who read the mail sent to the
\* address of the user, in time: concurrent requests, restarts and new keys
\* open no other way to one.
OnlyVerified ==
    \A s \in Slugs : kai[s] \in Ids =>
        /\ \E l \in mailed : l.user = kai[s]
        /\ rows[kai[s]] # Absent => rows[kai[s]].attr = "verified"

\* signup.go:167 calls the slugs "globally unique by construction": the workspace
\* that the answer to a verify request names is the user's own.
OwnWorkspace == \A t \in told : t.owner = t.user

\* What the slugs there are give: handleVerify takes the workspace it finds at the
\* slug for the user's, and it is, unless another user has the same slug or
\* the admin may give it.
OwnUnlessShared ==
    \A t \in told :
        \/ t.owner = t.user
        \/ t.owner \in Ids /\ SlugOf[t.owner] = SlugOf[t.user]
        \/ t.owner = Admin /\ SlugOf[t.user] \in AdminSlugs

\* MaxInstancesPerUser holds although List and Create are two calls: requests that
\* have all counted before any of them created, some of them for a workspace that
\* has been deleted since, do not add up to more than the tier allows.
TierCap ==
    MaxInstances > 0 =>
        \A i \in Ids : Cardinality({s \in Slugs : kai[s] = i}) <= MaxInstances

\* In every window of timestamps, at most Capacity requests of an
\* address and the refill of the window are let through, in whatever order the
\* limiter gets to serve them.
RateLimited ==
    Capacity > 0 => \A ip \in IPs : \A from, to \in Times : from <= to =>
        Cardinality(Within(ip, from, to)) * Hour <= Capacity * (Hour + to - from)

\* signup.go:210: "re-clicking the verify link should not be a "tier exceeded"
\* error".
NeverTierExceeded == refused = {}
=============================================================================
