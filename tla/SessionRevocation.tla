------------------------- MODULE SessionRevocation -------------------------
(***************************************************************************)
(* Logout and session checks of one tenant, as the chat and workspace       *)
(* servers run them: pkg/auth (session lifetime), pkg/authk8s (the          *)
(* revocation list kept in the Secret kai-<slug>-chat-bridge) and the       *)
(* handlers of web/chat/server/auth.go and web/workspace/server/auth.go,    *)
(* which are the same code in both servers.                                 *)
(*                                                                          *)
(* Every replica of either server runs logout requests that read the        *)
(* Secret, edit the list and write it back under optimistic concurrency     *)
(* (resourceVersion, HTTP 409, bounded retry), serialised inside a replica  *)
(* by a mutex.  Session checks read the same Secret twice, first for the    *)
(* signing key and then for the list.  Meanwhile time passes, and the       *)
(* Secret may be deleted and recreated or its key patched.                  *)
(*                                                                          *)
(* Representation.  A token is a jti; those in Sessions get a session.  The *)
(* list of {jti, exp} entries is the function from each jti to the exp it   *)
(* is listed with, 0 when it is not listed.  A logout takes jti and exp     *)
(* from the cookie without verifying it, so neither need be what a server   *)
(* issued.  A read-modify-write conflicts exactly when another write landed *)
(* after its read, so `fresh` records that comparison instead of numbering  *)
(* resource versions.  Clocks of the replicas agree.                        *)
(***************************************************************************)
EXTENDS Naturals, FiniteSets

CONSTANTS
    Tokens,        \* jtis that occur in cookies
    Sessions,      \* the jtis of the sessions that can be issued
    Replicas,      \* server processes, each with one SecretRevoker
    Handlers,      \* logout requests being served
    ReplicaOf,     \* the replica that serves a logout request
    Checks,        \* requests carrying a session cookie
    MaxEntries,    \* MaxEntriesPerSlug
    MaxAttempts,   \* maxAttempts of SecretRevoker.update
    TTL,           \* SessionTTL, in clock ticks
    MaxTime,       \* bound on the clock
    OtherExps,     \* exp claims a logout cookie may carry besides the issued one
    MaxKey,        \* bound on how often the signing key is replaced
    NoToken        \* no session

ASSUME TokensAssumption ==
    /\ IsFiniteSet(Tokens)
    /\ Sessions \subseteq Tokens
    /\ NoToken \notin Tokens
ASSUME ReplicaAssumption == ReplicaOf \in [Handlers -> Replicas]
ASSUME BoundAssumption ==
    /\ MaxEntries \in Nat \ {0}
    /\ MaxAttempts \in Nat \ {0}
    /\ TTL \in Nat \ {0}
    /\ MaxTime \in Nat
    /\ MaxKey \in Nat \ {0}
    /\ OtherExps \subseteq Nat

VARIABLES
    clock,      \* unix seconds
    exp,        \* [Sessions -> Nat], the exp claim, 0 while not issued
    key,        \* [Sessions -> Nat], the signing key of the session
    secretUp,   \* the chat-bridge Secret exists
    jwtKey,     \* its current (or, when it is missing, its last) jwt-secret
    revoked,    \* its revoked-jtis, [Tokens -> Nat]
    pc,         \* logout requests: idle, waiting (for mu), get, put
    tok,        \* the jti of the cookie
    till,       \* the exp of the cookie
    attempt,    \* loop counter of SecretRevoker.update
    readAt,     \* when the request last read the Secret
    snap,       \* the list it read
    fresh,      \* nobody has written the Secret since
    acked,      \* history: the latest exp with which Revoke of the session has returned nil
    shortened,  \* history: jtis whose listed exp Revoke replaced by an earlier one
    displaced,  \* history: sessions the cap has dropped before the exp of their entry
    cpc,        \* session checks: idle, authed, listed, accept
    ctok,       \* the session being checked
    centry,     \* the exp with which the list it read has the session, or 0
    cuntil      \* history: acked of the session when the check began

secretVars == <<secretUp, jwtKey, revoked>>
logoutVars == <<pc, tok, till, attempt, readAt, snap, fresh>>
ackVars    == <<acked, shortened, displaced>>
checkVars  == <<cpc, ctok, centry, cuntil>>
vars == <<clock, exp, key, secretVars, logoutVars, ackVars, checkVars>>

\* Every exp a cookie can carry, and the lists made of them.
Exps == OtherExps \union {c + TTL : c \in 0 .. MaxTime}
List == [Tokens -> Exps \union {0}]
NoEntries == [t \in Tokens |-> 0]

TypeOK ==
    /\ clock \in 0 .. MaxTime
    /\ exp \in [Sessions -> Exps \union {0}]
    /\ key \in [Sessions -> Nat]
    /\ secretUp \in BOOLEAN
    /\ jwtKey \in Nat \ {0}
    /\ revoked \in List
    /\ pc \in [Handlers -> {"idle", "waiting", "get", "put"}]
    /\ tok \in [Handlers -> Tokens \union {NoToken}]
    /\ till \in [Handlers -> Exps \union {0}]
    /\ attempt \in [Handlers -> 1 .. MaxAttempts]
    /\ readAt \in [Handlers -> Nat]
    /\ snap \in [Handlers -> List]
    /\ fresh \in [Handlers -> BOOLEAN]
    /\ acked \in [Sessions -> Exps \union {0}]
    /\ shortened \in SUBSET Tokens
    /\ displaced \in SUBSET Sessions
    /\ cpc \in [Checks -> {"idle", "authed", "listed", "accept"}]
    /\ ctok \in [Checks -> Sessions \union {NoToken}]
    /\ \A c \in Checks : cpc[c] # "idle" => ctok[c] \in Sessions
    /\ centry \in [Checks -> Exps \union {0}]
    /\ cuntil \in [Checks -> Nat]

Init ==
    /\ clock = 0
    /\ exp = [t \in Sessions |-> 0]
    /\ key = [t \in Sessions |-> 0]
    /\ secretUp = TRUE
    /\ jwtKey = 1
    /\ revoked = NoEntries
    /\ pc = [h \in Handlers |-> "idle"]
    /\ tok = [h \in Handlers |-> NoToken]
    /\ till = [h \in Handlers |-> 0]
    /\ attempt = [h \in Handlers |-> 1]
    /\ readAt = [h \in Handlers |-> 0]
    /\ snap = [h \in Handlers |-> NoEntries]
    /\ fresh = [h \in Handlers |-> FALSE]
    /\ acked = [t \in Sessions |-> 0]
    /\ shortened = {}
    /\ displaced = {}
    /\ cpc = [c \in Checks |-> "idle"]
    /\ ctok = [c \in Checks |-> NoToken]
    /\ centry = [c \in Checks |-> 0]
    /\ cuntil = [c \in Checks |-> 0]

-----------------------------------------------------------------------------
(* Sessions *)

Issued(t) == exp[t] > 0

\* IssueSession: a login handler read the signing key at some moment, so a
\* session may carry a key that has been replaced since.
Login(t) ==
    /\ ~Issued(t)
    /\ exp' = [exp EXCEPT ![t] = clock + TTL]
    /\ \E k \in 1 .. jwtKey : key' = [key EXCEPT ![t] = k]
    /\ UNCHANGED <<clock, secretVars, logoutVars, ackVars, checkVars>>

Tick ==
    /\ clock < MaxTime
    /\ clock' = clock + 1
    /\ UNCHANGED <<exp, key, secretVars, logoutVars, ackVars, checkVars>>

-----------------------------------------------------------------------------
(* The Secret, changed by others *)

\* Any write makes the read of every request in flight stale.
Written == fresh' = [h \in Handlers |-> FALSE]

\* Deleted by an administrator or with the KaiInstance that owns it.
SecretDeleted ==
    /\ secretUp
    /\ jwtKey < MaxKey
    /\ secretUp' = FALSE
    /\ revoked' = NoEntries
    /\ Written
    /\ UNCHANGED <<clock, exp, key, jwtKey, pc, tok, till, attempt, readAt, snap, ackVars, checkVars>>

\* reconcileChatBridgeSecret creates it with a new random jwt-secret.
SecretRecreated ==
    /\ ~secretUp
    /\ secretUp' = TRUE
    /\ jwtKey' = jwtKey + 1
    /\ UNCHANGED <<clock, exp, key, revoked, logoutVars, ackVars, checkVars>>

\* The documented emergency patch of jwt-secret.
KeyPatched ==
    /\ secretUp
    /\ jwtKey < MaxKey
    /\ jwtKey' = jwtKey + 1
    /\ Written
    /\ UNCHANGED <<clock, exp, key, secretUp, revoked, pc, tok, till, attempt, readAt, snap, ackVars, checkVars>>

-----------------------------------------------------------------------------
(* Logout: handleLogout and SecretRevoker.Revoke *)

HoldsMu(h) == pc[h] \in {"get", "put"}

Listed(L) == {t \in Tokens : L[t] > 0}
Only(L, K) == [t \in Tokens |-> IF t \in K THEN L[t] ELSE 0]
Pruned(L, now) == [t \in Tokens |-> IF L[t] > now THEN L[t] ELSE 0]

NewestByExp(L) ==
    {K \in SUBSET Listed(L) :
        /\ Cardinality(K) = MaxEntries
        /\ \A kept \in K, dropped \in Listed(L) \ K : L[dropped] <= L[kept]}

\* Faults: no cap, and a cap that keeps the wrong end of the sorted list.
UncappedFault(L) == {L}
WrongEndFault(L) ==
    IF Cardinality(Listed(L)) <= MaxEntries
    THEN {L}
    ELSE {Only(L, K) : K \in
            {K \in SUBSET Listed(L) :
                /\ Cardinality(K) = MaxEntries
                /\ \A kept \in K, dropped \in Listed(L) \ K : L[dropped] >= L[kept]}}

\* The cap: sort by exp (the sort is not stable) and keep the last MaxEntries.
Capped(L) ==
    IF Cardinality(Listed(L)) <= MaxEntries
    THEN {L}
    ELSE {Only(L, K) : K \in NewestByExp(L)}

\* The edit Revoke passes to update, at the clock reading now.  A jti that is
\* listed gets the exp of the cookie at hand, be it earlier or later.
Edited(L, t, e, now) ==
    IF e <= now
    THEN {L}
    ELSE LET edit == [Pruned(L, now) EXCEPT ![t] = e]
         IN  IF L[t] > now THEN {edit} ELSE Capped(edit)

\* The request is answered; its locals are gone and the mutex is free.
Return(h) ==
    /\ pc' = [pc EXCEPT ![h] = "idle"]
    /\ tok' = [tok EXCEPT ![h] = NoToken]
    /\ till' = [till EXCEPT ![h] = 0]
    /\ attempt' = [attempt EXCEPT ![h] = 1]
    /\ readAt' = [readAt EXCEPT ![h] = 0]
    /\ snap' = [snap EXCEPT ![h] = NoEntries]

\* The next iteration of the loop of update.
Retry(h) ==
    /\ pc' = [pc EXCEPT ![h] = "get"]
    /\ attempt' = [attempt EXCEPT ![h] = attempt[h] + 1]
    /\ readAt' = [readAt EXCEPT ![h] = 0]
    /\ snap' = [snap EXCEPT ![h] = NoEntries]
    /\ UNCHANGED <<tok, till>>

\* POST .../logout with a cookie that claims jti t and exp e: the cookie of a
\* session, sent once or again, or claims no server has issued, for nothing is
\* verified.  The random jti of a session is not known before it is issued.
LogoutStart(h, t, e) ==
    /\ pc[h] = "idle"
    /\ t \in Sessions => Issued(t)
    /\ e \in OtherExps \/ (t \in Sessions /\ e = exp[t])
    /\ pc' = [pc EXCEPT ![h] = "waiting"]
    /\ tok' = [tok EXCEPT ![h] = t]
    /\ till' = [till EXCEPT ![h] = e]
    /\ UNCHANGED <<clock, exp, key, secretVars, attempt, readAt, snap, fresh, ackVars, checkVars>>

\* r.mu.Lock(), then the loop of update starts.
Lock(h) ==
    /\ pc[h] = "waiting"
    /\ \A g \in Handlers : ReplicaOf[g] = ReplicaOf[h] => ~HoldsMu(g)
    /\ pc' = [pc EXCEPT ![h] = "get"]
    /\ UNCHANGED <<clock, exp, key, secretVars, tok, till, attempt, readAt, snap, fresh, ackVars, checkVars>>

Get(h) ==
    /\ pc[h] = "get"
    /\ secretUp
    /\ pc' = [pc EXCEPT ![h] = "put"]
    /\ snap' = [snap EXCEPT ![h] = revoked]
    /\ readAt' = [readAt EXCEPT ![h] = clock]
    /\ fresh' = [fresh EXCEPT ![h] = TRUE]
    /\ UNCHANGED <<clock, exp, key, secretVars, tok, till, attempt, ackVars, checkVars>>

\* History: nil is returned; the edit puts an earlier exp in the place of one
\* that lies in the future; and the jtis that fall to the cap.
Acknowledged(h) ==
    [t \in Sessions |-> IF t = tok[h] /\ till[h] > acked[t] THEN till[h] ELSE acked[t]]
Shortens(h, now) == now < till[h] /\ till[h] < snap[h][tok[h]]
Displaces(h, now) ==
    {t \in Sessions : /\ now < till[h]
                      /\ t = tok[h] \/ snap[h][t] > now
                      /\ revoked'[t] = 0}

\* Fault: an Update that does not send the resourceVersion back.
PutUnversionedFault(h) ==
    /\ pc[h] = "put"
    /\ secretUp
    /\ \E now \in readAt[h] .. clock :
        /\ revoked' \in Edited(snap[h], tok[h], till[h], now)
        /\ shortened' = IF Shortens(h, now) THEN shortened \union {tok[h]} ELSE shortened
        /\ displaced' = displaced \union Displaces(h, now)
    /\ acked' \in {acked, Acknowledged(h)}
    /\ Return(h)
    /\ Written
    /\ UNCHANGED <<clock, exp, key, secretUp, jwtKey, checkVars>>

\* The Update is accepted.  The clock was read between the Get and now.  The
\* answer may be lost, which the handler cannot tell from a failed write.
Put(h) ==
    /\ pc[h] = "put"
    /\ secretUp
    /\ fresh[h]
    /\ \E now \in readAt[h] .. clock :
        /\ revoked' \in Edited(snap[h], tok[h], till[h], now)
        /\ shortened' = IF Shortens(h, now) THEN shortened \union {tok[h]} ELSE shortened
        /\ displaced' = displaced \union Displaces(h, now)
    /\ acked' \in {acked, Acknowledged(h)}
    /\ Return(h)
    /\ Written
    /\ UNCHANGED <<clock, exp, key, secretUp, jwtKey, checkVars>>

\* Faults: a retry that is never given up, and one attempt too many.
ConflictForeverFault(h) ==
    /\ pc[h] = "put"
    /\ secretUp
    /\ ~fresh[h]
    /\ pc' = [pc EXCEPT ![h] = "get"]
    /\ UNCHANGED <<clock, exp, key, secretVars, tok, till, attempt, readAt, snap, fresh, ackVars, checkVars>>

ConflictOffByOneFault(h) ==
    /\ pc[h] = "put"
    /\ secretUp
    /\ ~fresh[h]
    /\ IF attempt[h] <= MaxAttempts THEN Retry(h) ELSE Return(h)
    /\ UNCHANGED <<clock, exp, key, secretVars, fresh, ackVars, checkVars>>

\* 409: somebody wrote since the Get.  Read again, or give up after MaxAttempts.
Conflict(h) ==
    /\ pc[h] = "put"
    /\ secretUp
    /\ ~fresh[h]
    /\ IF attempt[h] < MaxAttempts THEN Retry(h) ELSE Return(h)
    /\ UNCHANGED <<clock, exp, key, secretVars, fresh, ackVars, checkVars>>

\* Any other failure of the Get or the Update (the Secret is missing, the API
\* server is unreachable) ends Revoke with an error, which the handler logs.
RevokeFails(h) ==
    /\ HoldsMu(h)
    /\ Return(h)
    /\ fresh' = [fresh EXCEPT ![h] = FALSE]
    /\ UNCHANGED <<clock, exp, key, secretVars, ackVars, checkVars>>

-----------------------------------------------------------------------------
(* Session checks: authedClaims *)

\* The request is refused; its locals are gone.
Reject(c) ==
    /\ cpc' = [cpc EXCEPT ![c] = "idle"]
    /\ ctok' = [ctok EXCEPT ![c] = NoToken]
    /\ centry' = [centry EXCEPT ![c] = 0]
    /\ cuntil' = [cuntil EXCEPT ![c] = 0]

\* readJWTSecret and Authenticate: signature, then expiry.  Reading the clock
\* later than the key could only reject more.
CheckStart(c, t) ==
    /\ cpc[c] \in {"idle", "accept"}
    /\ Issued(t)
    /\ IF secretUp /\ key[t] = jwtKey /\ clock < exp[t]
       THEN /\ cpc' = [cpc EXCEPT ![c] = "authed"]
            /\ ctok' = [ctok EXCEPT ![c] = t]
            /\ cuntil' = [cuntil EXCEPT ![c] = acked[t]]
            /\ centry' = centry
       ELSE Reject(c)
    /\ UNCHANGED <<clock, exp, key, secretVars, logoutVars, ackVars>>

\* IsRevoked reads the list; a missing Secret reads as an empty one.
CheckRead(c) ==
    /\ cpc[c] = "authed"
    /\ cpc' = [cpc EXCEPT ![c] = "listed"]
    /\ centry' = [centry EXCEPT ![c] = IF secretUp THEN revoked[ctok[c]] ELSE 0]
    /\ UNCHANGED <<clock, exp, key, secretVars, logoutVars, ackVars, ctok, cuntil>>

Accept(c) ==
    /\ cpc' = [cpc EXCEPT ![c] = "accept"]
    /\ centry' = [centry EXCEPT ![c] = 0]
    /\ UNCHANGED <<ctok, cuntil>>

\* IsRevoked ignores an entry past its exp.
CheckDecide(c) ==
    /\ cpc[c] = "listed"
    /\ IF centry[c] > clock THEN Reject(c) ELSE Accept(c)
    /\ UNCHANGED <<clock, exp, key, secretVars, logoutVars, ackVars>>

\* Fault: a failed read of the list counts as "not revoked".
CheckFailsOpenFault(c) ==
    /\ cpc[c] = "authed"
    /\ Accept(c)
    /\ UNCHANGED <<clock, exp, key, secretVars, logoutVars, ackVars>>

\* A failed read of the list rejects the request.
CheckFails(c) ==
    /\ cpc[c] = "authed"
    /\ Reject(c)
    /\ UNCHANGED <<clock, exp, key, secretVars, logoutVars, ackVars>>

-----------------------------------------------------------------------------

LogoutStep(h) == Lock(h) \/ Get(h) \/ Put(h) \/ Conflict(h) \/ RevokeFails(h)
CheckStep(c) == CheckRead(c) \/ CheckDecide(c) \/ CheckFails(c)

Next ==
    \/ \E t \in Sessions : Login(t)
    \/ Tick
    \/ SecretDeleted
    \/ SecretRecreated
    \/ KeyPatched
    \/ \E h \in Handlers, t \in Tokens, e \in Exps : LogoutStart(h, t, e)
    \/ \E h \in Handlers : LogoutStep(h)
    \/ \E c \in Checks : (\E t \in Sessions : CheckStart(c, t)) \/ CheckStep(c)

Spec == Init /\ [][Next]_vars

\* The mutex hands over to waiters in turn (Go's starvation mode), and a
\* handler that holds it keeps running: every API call returns.
LogoutFairness ==
    /\ \A h \in Handlers : WF_vars(Get(h) \/ Put(h) \/ Conflict(h) \/ RevokeFails(h))
    /\ \A h \in Handlers : SF_vars(Lock(h))

FairSpec == Spec /\ LogoutFairness

-----------------------------------------------------------------------------
(* Properties *)

\* The list in the Secret never outgrows its cap (MaxEntriesPerSlug), however
\* the read-modify-writes of the replicas interleave and whenever the clock
\* moves between pruning and writing.
ListBounded == Cardinality(Listed(revoked)) <= MaxEntries

Outlived(t) ==
    /\ Cardinality(Listed(revoked)) = MaxEntries
    /\ \A u \in Listed(revoked) : revoked[u] >= acked[t]

\* No acknowledged revocation is lost: until the exp it was acknowledged with,
\* and while a session signed with the current key could still pass
\* Authenticate, the list holds it for at least that long, unless the cap pushed
\* it out, and then the list is full of entries that last no shorter.  A lost
\* update of two replicas, a stale prune or a cap that drops the wrong end would
\* break it.  It is said of histories in which no logout named a listed jti with
\* an earlier exp: Revoke then overwrites the entry.
RevokedRemembered ==
    shortened = {} =>
        \A t \in Sessions :
            secretUp /\ key[t] = jwtKey /\ acked[t] > clock =>
                revoked[t] >= acked[t] \/ Outlived(t)

\* authedClaims accepts a session whose revocation was acknowledged before the
\* request began only if the acknowledged exp or the session's own has passed, if
\* while the request ran the Secret was deleted or given another key (the two
\* reads are not one snapshot), or if the entry was cut short: dropped at the cap,
\* or replaced by another logout that named the jti with an earlier exp.
RevokedRejected ==
    \A c \in Checks :
        cpc[c] = "accept" /\ clock < cuntil[c] =>
            \/ clock >= exp[ctok[c]]
            \/ ~secretUp
            \/ jwtKey # key[ctok[c]]
            \/ ctok[c] \in shortened \union displaced

\* handleLogout always answers: the mutex, the conflicts caused by other
\* replicas and the retry loop cannot hold a logout request forever.
LogoutReturns == \A h \in Handlers : pc[h] # "idle" ~> pc[h] = "idle"

Registry == INSTANCE RevocationRegistry WITH
    Capacity <- MaxEntries,
    Untils <- Exps,
    now <- clock,
    until <- Pruned(revoked, clock)

\* The Secret-backed revoker implements the atomic registry behind auth.Revoker:
\* pruning, conflicts, retries and lost answers are invisible, and the last
\* revocation of a jti decides how long it lasts.
ImplementsRegistry == Registry!RegistrySpec

\* k8srevoker.go:29: "the oldest-by-exp entries are dropped so newer
\* revocations always land".  A revocation acknowledged before its exp is in the
\* list that was written, or gave way to one that lasts no longer than itself.
NewRevocationsLand ==
    [][\A t \in Sessions :
          acked'[t] # acked[t] /\ acked'[t] > clock =>
              \/ t \in Listed(revoked')
              \/ \E u \in Listed(revoked') : revoked'[u] <= acked'[t]]_vars
=============================================================================
