# Verification of openclaw-swarm

TLA+ models of the parts of openclaw-swarm that keep state and run
concurrently, TLC configurations that check them on small instances, and TLAPS
proofs of the most important properties for every instance. Paths below are
relative to the repository (`src/` is its root).

## The system

A *KaiInstance* is one tenant's agent. It is a custom resource; an operator
turns it into a Deployment with its ConfigMap, Secrets, volume, Service,
NetworkPolicy and Ingress. Around it are small Go servers, all of them
stateless replicas in front of the Kubernetes API, and a user store.

| part | state | operations | interacts with |
|---|---|---|---|
| `pkg/auth`, `pkg/authk8s` | the revocation list and the signing key, both in the Secret `kai-<slug>-chat-bridge` | issue, authenticate, revoke, isRevoked | both servers with sessions; the operator creates the Secret |
| `web/workspace/server` | users of a tenant, in the Secret `kai-<slug>-users` | login with bootstrap or against the central store, logout, add, list, reset, remove | the operator creates the Secret empty; KaiInstance and user store decide who logs in |
| `web/chat/server` | per open chat: the socket of the page, that of the gateway, a pump and a loop | login, logout, socket with transcript and messages | users Secret (read), revocation list (write), the agent's gateway |
| `web/chat/src` | socket, reconnect timer, attempts; send box, status bar, the answer being streamed | send, receive, reconnect | the bridge |
| `operator` | the KaiInstance's status, its children, informer caches | Reconcile | everything above through the cluster |
| `pkg/users`, `pkg/userspg` | users of the platform, in memory or in Postgres with a deletion audit | create, update, soft-delete, purge, look up | onboarding, SaaS login |
| `web/onboarding/server` | user store, rate-limit buckets, HMAC key | signup, verify, admin provisioning | user store, KaiInstances |
| `pkg/quotas` | tables, with overrides | limits per tier, clamping of resources | onboarding, the operator's Deployment |
| admin console, status page | none | suspend, resume, translate a status | KaiInstances |
| `pkg/email`, `pkg/stripe`, `pkg/openrouter` | none | calls of external services | onboarding |

What is hard in it:

* *Concurrent read-modify-write.* Logouts and team edits of several replicas
  meet in one Secret, guarded by its resourceVersion only.
* *Several reads that are not one snapshot.* The session check reads key and
  list separately; verification reads, counts and creates; the Postgres store
  checks before its transaction begins.
* *Stale caches.* The operator decides on cached objects.
* *Failure between steps.* API calls fail, with or without effect; the operator
  and the onboarding server restart.
* *Sockets that come and go.* A chat is two sockets with a goroutine on each; the
  page reconnects, and an answer may be in flight at any of these moments.
* *Bounds.* The cap of the list, the grace period, the rate limit, slugs cut to
  twelve characters.

`PROJECT.json` lists the individual hazards at their lines and the properties
that cover them.

## Plan

Order is by importance. 1 to 7 exist, the rest is to come.

1. `RevocationRegistry` (abstract) and `SessionRevocation`: logout must hold.
2. `UserTable` (abstract) and `WorkspaceUsers`: who is in the list.
3. `KaiOperator`: what runs and what is reported about it; `AgentSizing`: how
   large it is.
4. `UserStore` (abstract) and `UserStorePg`: accounts and their deletion.
5. `RateLimiter`, `Signup` (composes `UserStore`): from an address to a workspace.
6. `ChatFeed` (abstract), `ChatBridge`, `ChatPage` and `Chat`, their composition:
   what a page shows of what the agent says.
7. `WorkspaceLogin` (extends `WorkspaceUsers`): who may log in to a workspace
   that can change hands.
8. The status texts of the public page and of the admin console, as a function
   of phase, conditions and suspension.
9. `Lifecycle`: `Signup`, `KaiOperator` and `WorkspaceLogin` over one
   KaiInstance, with a change of `customerSlug`.

Theorems still worth proving: those of items 8 and 9 when their modules exist.

## Modules

Each `MC...` module only defines the constants and symmetry sets of runs. `MCKaiOperator` also evaluates `AgentSizing` on small
lists. Names ending in `Fault` are variants of the definition that follows them, with a
mistake a programmer could make; no specification uses them. They document what
each property can detect.

### RevocationRegistry, SessionRevocation, SessionRevocationProofs

`RevocationRegistry` is `auth.Revoker` as an atomic object with a capacity.
`SessionRevocation` is `authk8s.SecretRevoker` under `handleLogout` and
`authedClaims`. A logout runs `Lock` (the mutex of its replica), `Get`, `Put`,
and after a 409 `Conflict` up to `MaxAttempts` times; a check runs `CheckStart`
(key, signature, expiry), `CheckRead`, `CheckDecide`. The Secret may be deleted,
recreated by the operator with an empty list and a new key, or patched with a
new key. `RevokeFails` and `CheckFails` are API errors; a failed `Put` may have
taken effect. A session is its `jti`, the list the function from each `jti` to
the `exp` it is listed with (0: it is not), and `fresh[h]` says that nobody has
written the Secret since `h` read it. Clocks of replicas agree.

`handleLogout` reads `jti` and `exp` from the cookie without verifying it
(`unsafeParseClaims`), so `LogoutStart` takes any `jti` and any `exp` of
`OtherExps` besides the pair the server issued; only the random `jti` of a session
that does not exist yet is left out. `Revoke` overwrites the `exp` of an entry
(`k8srevoker.go:78`), whichever is later. Both properties about revoked sessions
therefore speak of the `exp` a revocation was acknowledged with (`acked`), and
name two ways in which an entry may last less: the cap drops it (`displaced`), or
a later logout names the `jti` with an earlier `exp` (`shortened`). The histories
record exactly these, and either does occur: without it `RevokedRejected` is
violated. The comment at `web/workspace/server/auth.go:157` says
that concurrent reuse of the cookie is shut down before natural expiry; this
holds as far as these exceptions do not apply.

### UserTable, WorkspaceUsers

`UserTable` is the Team page as an atomic table. `WorkspaceUsers` has requests
that read, edit and write back once (`LoginReads`, `Get`, `Put`, `PutFails`) and
the operator that creates the Secret when it is missing (`OperatorReads`,
`OperatorCreates`). Login reads twice: an empty first read leads to the
bootstrap path. Emails are keys because `addUser` refuses known ones, hash and
password are identified.

### WorkspaceLogin, WorkspaceLoginProofs (of both)

`WorkspaceLogin` puts the two kinds of login over `WorkspaceUsers`. `Bind` is
`loadKaiBinding`; then `LoginSaaS` compares the account of the central store
with the `userRef` read, or `LoginLegacy` continues in the users Secret.
Meanwhile `OwnerChanges` deletes, recreates or edits the KaiInstance and
`AccountDeleted` and `AccountVerified` give an address to another account. The
central store is reduced to the verified, undeleted account of each address,
and the history variable `held` keeps the owners since a request came in.

### KaiOperator, KaiOperatorProofs

One KaiInstance, one worker. `kai` and `obj` are the API server, `seen`, `view`
and `lag` the informer caches, `queued` the work queue (which holds an object
once), `pc`, `read`, `st`, `todo` the running Reconcile: finalizer (`Begin`,
`Finalize`), suspension (`ScaleDown`), the children in their order
(`ReconcileChild`), the status (`Report`), and the error path through
`setFailed` (`Failing`, `Report`) or without it (`InstanceConflict`,
`InstanceCallFails`). `ReconcileOrder` is the order of the code; an instance
keeps a subsequence of it, so that small runs stay small. All of the spec but
`suspended` and `externalAccess` is one value, `cfg`. The slug is fixed. Reading
a cache does not fail. No property reads the conditions of the status; they are in
the model because writing one is a change like any other: it outdates the copy a
Reconcile works on, and the watch delivers it and starts the next one.

### AgentSizing, AgentSizingProofs

`PodResources` is what `buildDeployment` makes of `spec.resources`: the
operator's own sizes if there are none, then `ClampResources` for an enrolled
tenant. It has no state; `KaiOperator` carries it inside `cfg`. The table of
tiers is a constant, since `Override` replaces it; `PublicTiers` is the one in
the repository. Quantities are numbers of one unit per resource.

### UserStore, UserStorePg, UserStorePgProofs

`UserStore` is `MemoryStore`, whose mutex makes every call atomic.
`UserStorePg` runs the SQL statements of `SoftDelete` and `PurgeDeletedBefore`
one by one under READ COMMITTED, with row locks as guards. A call does not
outlast the grace period of thirty days (`Tick`). Neither is wired into a server
in this repository except the memory store; the Postgres store is the one its
comments prescribe for production.

### RateLimiter, Signup, SignupProofs

`RateLimiter` defines the token bucket, in integers scaled by `Hour`. `Signup`
is the onboarding server: `Arrive`, `Admit`, `TurnDown` or `Register`, `Mail`
for a signup; `Confirm`, `Lookup`, `Count`, `Provision` for a verification;
`CreateInstance` for the admin; `Restart`, which empties the store and the
buckets and changes the key unless it comes from the environment. Its store is
an instance of `UserStore`. The tier is free, as for every signup. `admitted`
is a history of the requests let through since the last restart, by the
timestamp the limiter was given.

### ChatSockets, ChatBridge, ChatPage, ChatFeed, Chat, ChatProofs, ChatFeedProofs

`ChatSockets` has what page and server share: the sockets, the frames under way
in either direction, and one budget of faults, so that every failure is a
choice among the same few. Sockets are numbered; the page has one at a time, which
is *closing* from the server's close frame until the browser calls `onclose`; the
page is told nothing then, and `client.send` drops what is submitted
(`gateway.ts:90`). A broken network closes it at once. Only a fault makes the page
open another one, so `MaxConns = MaxFaults + 1` sockets
are all that a behaviour can use; the run has fewer (see below).

`ChatBridge` is `handleWS`: `srv` is where the handler is (dialling, finding or
creating the session, waiting for the transcript, then in the loop between
frames, reading, or asking for history), `pump` the goroutine that forwards chat
events. The gateway and the agent behind it are external, modelled from the
frames the bridge sends and expects: a request is answered once, messages are
worked on one at a time, each answer is up to `MaxDeltas` pieces and an end (a
final answer, which carries the whole text, or an error), and every chat event
goes to all connections, because all users share one session (`bridge.go:237`).
The messages of the session are `log`. A transcript holds the last `HistoryLimit`
of them (50, `bridge.go:359`) but for those in `Skipped`: `requestHistory` leaves
out texts that begin with a brace and messages that are empty then
(`bridge.go:390`). `omitted` remembers which answers a socket's transcript lacks;
a message of several texts of which only some are left out counts as listed. The
gateway may refuse a message (`SendRefused`): the response is not an event, so the
pump drops it, and the page, whose send box `submit` disabled, is told nothing.
Two more peculiarities of the code are kept: the loop looks for the end of the pump
only between two frames of the page, and a history request reads the gateway's
socket next to the pump, so that either may take the other's frame (`torn`
remembers that).

`ChatPage` is `GatewayClient` and the callbacks of `renderChat`. `attempts` is
reset when the page's socket opens, which is before the bridge dials the
gateway. A transcript replaces all messages, so it detaches the element an
answer is being streamed to (`el`), and a disconnect leaves `isStreaming` as it
was; what completes afterwards goes to the detached element (`swallowed`).

`ChatFeed` is the promise of the bridge for each socket: from the moment it is
subscribed, chat events arrive in order and without a gap. `Chat` composes all
of them, maps its state to `ChatFeed` and states the properties.

## Runs

| run | question | instance |
|---|---|---|
| `revocation_cap` | Does concurrent revoking lose anything, does the list stay bounded, is it a registry, are revoked sessions rejected? | 1 session, 1 other jti, 2 values of `exp`, 2 logouts on 2 replicas, 1 check, cap 1, 1 change of the Secret |
| `revocation_live` | Do logouts answer? | 1 session, 3 logouts on 2 replicas, 3 attempts, 1 change of the Secret |
| `revocation_newest` | Do newer revocations always land? No. | 3 sessions, cap 2, clock to 2 |
| `users_table` | Is the list an atomic table, does bootstrap have one winner, does a session go to whom the workspace belonged to? | 2 emails, 2 passwords, 2 requests, 2 accounts, 1 deletion or change |
| `operator` | Does the status ever claim too much, can children be orphaned, is a wake-up lost, do cluster and status settle? | 2 children, 2 configs, an instance the operator has not seen or one that was suspended, 1 more edit, 1 disturbance |
| `chat_page` | Is the bridge an ordered feed, are answers lost, does the page get its send box back? | 2 sockets, 2 messages, 1 piece per answer, 2 faults, 1 reconnect attempt, transcripts of 1 message, 1 answer left out of them |
| `chat_errors` | Do errors for the status bar come before any user message? No. | 2 sockets, 1 message |
| `store_pg` | Do interleaved statements add up to atomic calls, is every deletion logged? | 2 users, 1 address, 2 calls |
| `store_audit` | Are audit row and deletion atomic? No. | as above |
| `signup_main` | Who gets a workspace, whose is it, can a user get too many, does the limiter hold? | 2 users, 2 addresses, 2 slugs of which the admin may give one, 2 requests, 1 restart, 1 change by hand |
| `signup_twice` | Is a second click ever a tier error? Yes. | 2 requests |
| `signup_slug` | Is the slug unique by construction? No. | 2 users with the same slug |

Why these bounds are enough to be interesting: two writers are what a lost
update takes, a second jti what a cap of one needs to choose, a third request what
waiting for a mutex needs while another replica causes conflicts. The session's
`exp` is 2, 3 or 4, depending on when it is issued, and a logout may claim 2
instead, which is earlier or the same; `MaxKey = 2` allows the Secret to be deleted
and recreated, or its key to be patched, once. Two requests
and one change let a login read the instance before it changes hands and the
account after. One more edit (`MaxGen = 3`, the instance begins
at generation 2) lets a stale reconcile meet a newer spec and resumes a Deployment
that was scaled down, and
Deployment and Ingress are the children that are treated most differently
(updated and scaled, deleted when disabled); the proofs cover all others. Two
configurations are interchangeable, so the first is fixed in `FirstInit`, and an
instance begins with an Ingress or suspended: an edit leads to the two other
combinations. Two sockets let an answer begin on one and end while the page is
between them or on the other; the second fault then breaks the other socket or
is a history request. What a third socket adds, an answer missed on the second
and looked for on the third, is left to the proofs. Two messages let the pieces
of two runs meet, and with `HistoryLimit = 1` an answer that is not the last is
too old for a transcript; the second answer is the one that begins with a brace
(`Braces`). The clock of the
store passes the grace period and leaves room before and after; `Hour = 3` with
`Capacity = 2` gives fractional refills. `MaxDeletes`, `MaxChanges`, `MaxKey`,
`MaxTime`, `MaxClock`, `MaxGen`, `MaxDisturbances`, `MaxFaults`, `MaxRuns`,
`MaxDeltas`, `MaxRestarts`, `MaxAdmin` bound otherwise unlimited steps of users
and environment. Deadlock checking is off where the system may rest: an operator
with nothing queued, a chat nobody types in, a bounded clock with no calls.

### What the failing runs show

* `revocation_newest`: entries are sorted by expiry and the last 1000 kept, so
  at the cap a logout of a session that expires before all listed ones is
  acknowledged and forgotten (`k8srevoker.go:29` promises the opposite). In the
  trace two sessions issued later are logged out first; entries that tie are
  excused.
* `chat_errors`: an error that comes before the first piece of an answer is
  treated as one of the connection: it goes to the status bar, and the send box
  that `submit` disabled stays so (`main.ts:290` expects such errors "before any
  user message").
* `store_audit`: the existence check of `SoftDelete` is outside its transaction,
  and the audit row is written even when the UPDATE matched nothing, so of two
  deletions the second overwrites the audit row's time and reports success
  (`userspg.go:212`).
* `signup_twice`: Get, List and Create are three calls. A click that has passed
  its Get when a faster one creates the workspace counts it and answers 402,
  which `signup.go:210` says must not happen; only the race at Create is
  handled.
* `signup_slug`: two identifiers of the same millisecond share the slug with
  probability 2^-10; the second user is answered with the first one's workspace
  (`signup.go:167`).

## Fairness

Only the three liveness properties use fairness. `LogoutReturns`: a handler that
holds the mutex makes progress (API calls return, with an answer or an error),
and `Lock` is strongly fair, because a Go mutex in starvation mode is handed to
the waiter at the head of its queue. `Converges`: the worker (`Work`), the
watches (`SyncInstance`, `SyncChild`) and the garbage collector (`Collect`) are
weakly fair, the last three as one (`Deliver`), as controller-runtime retries
with back-off and informers reconnect. `Recovers`: something of `Progress` happens as long as it can, that
is, goroutines run, gateway and agent answer, the network delivers, timers fire.
Nothing is assumed of users, pods, failures and restarts; they are finite in
number.

`Recovers` says that a chat gets its send box back except in six ways, and each
of them does occur in the model: the page has given up reconnecting (`GaveUp`),
the error of `chat_errors` (`ErrorInBar`), the gateway's socket is gone and the
loop waits for a frame of the page before it notices (`Deaf`), a stream whose
end was missed during a reconnect (`StaleStream`), a history request that
took the end of the answer (`torn`), and a message that the gateway refused, of
which nobody tells the page (`Refused`). A seventh disjunct, `NoSocketLeft`, is about
the model: a page whose reconnect timer runs when all `MaxConns` sockets have
been used.

## Proofs

`SessionRevocationProofs` proves, for every number of jtis, replicas,
requests and attempts, every cap and every set of claims, `TypeCorrect`, `CapHolds`,
`RevocationsRemembered`, `RevokedAreRejected` and `RevokerIsARegistry`. The inductive invariant `IInv`
adds to the properties that a request whose read is still fresh holds the list
that is in the Secret (this is what the resourceVersion buys: a `Put` edits the
current list), that only issued sessions are acknowledged, and that no session
carries a key from the future. What an
acknowledgement is worth is said per session: its entry lasts as long as
acknowledged, unless it is in `shortened` or `displaced`; and what a check holds
was in the list after it began. Lemma `EditedKeeps` says what
prune, overwrite, append and cap do to a list. `RevokerIsARegistry` follows from lemma `EditRevokes`: seen without its
expired entries, an edit of the current list changes nothing or is one `Revoke`,
even when a clock that lags makes the cap count entries that have expired.

`WorkspaceLoginProofs` proves `UsersAreATable`, the refinement of `UserTable`,
and `UsersTypeCorrect`. `UsersInv` says that a request that may still write with
success holds the current list and that its edit is not refused on it, and that
a missing Secret has no content. It then builds on that and proves, for every number of addresses,
accounts, requests and changes, `LoginTypeCorrect`, `LoginOnATable`,
`LoginsAreEntitled`, `BootstrapHasOneWinner` and `SessionsAreOfUsers`.
`LoginInv` says that what a login has bound is among the owners it has seen and
that a bootstrap comes from a login bound to an internal instance; that is what
entitlement needs, and it holds however the instance changes hands, because the
binding is read once and the account compared with it. The last two follow from
the table: an admin is set up only in an empty list, and a session of the users
Secret is issued only to a request whose email and password are in the list that
it has read or written (`SessionsHaveUsers`; sessions of the central store are
the subject of `OnlyEntitled`). The assumptions are that identifiers are none of the
special values (`IdsAssumption`, `UnboundAssumption`) and `MaxChangesAssumption`.

`ChatProofs` proves, for every number of sockets, messages, pieces, faults and
attempts, every limit of the transcript and every set of messages it leaves out,
`ChatTypeCorrect`, `SendBoxConnected` and `AnswersStayOnThePage`. `SendInv`
connects send box, reconnect timer and socket: an enabled box means a socket that
is open or closing, so a message is dropped without a word only between the
server's close frame and `onclose`. `OrderInv` is about everything under
way to one socket: the transcript comes before all chat events, no stream of
a socket begins before its transcript, and only a history request can bring
another one. So a transcript detaches only an element that belongs to an earlier
socket.

`ChatFeedProofs` builds on that and proves `BridgeIsFeed`, the refinement of
`ChatFeed`, `StreamsDoEnd` and `AnswersAreNotLost`. `LinkOf`, in `FeedInv`, says
what the handler relies on: a request of the bootstrap has one response, which
comes before anything the pump is to forward, and no response reaches the pump
unless the page has asked for history. The first section is about the refinement
mapping: what `Chats` (the chat events among a socket's frames) and `Behind`
(the frames behind the response) become when a frame is appended or taken. For
every step it is then shown what it does to each socket's feed: nothing, or it
subscribes or ends it (`Quiet`), the agent's event is added to the subscribed
ones (`Told`), or the page takes the first event (`Takes`). So `FeedStep` is by
cases, and the other two theorems need no other view of the bridge. `StreamInv`
says of the feed what `StreamEnds` says of the page: behind each piece of an answer
come pieces of the same answer up to its end, or the agent is still at it.
`LostInv` follows an answer on its way: a transcript, in the gateway's
response, in the page's frames or on the page, and the feed behind it hold all
answers together, but for those passed over when the gateway answered (`omitted`,
which a socket with a transcript keeps: `OmittedKept`). `HistoryRuns` says that a
transcript that is not sent, because it is empty, would have brought no answer.

`AgentSizingProofs` proves, for every table of tiers and every request,
`NoMoreThanTheTier`; `ClampKeepsPodsAdmissible`, which gives the exact condition
(`LowLimit`) under which clamping requests and limits one by one makes a pod
that the API server refuses; and two facts about instances without
`spec.resources` (`UnsizedTenantsGetLegacySizes`, `GrowthIsSizedAsStarter`).
They are about the lists of the pod. An explicit 0 in an instance's list counts as
the number 0: that Kubernetes runs a container whose limit is 0 without one is not
treated. A ceiling of 0 stands for an empty one; an override that sets `"0"`, which
the code clamps to although `clamp.go:14` says it is skipped, is not treated either.

`KaiOperatorProofs` proves, for every sequence of children in the order of the
code, every set of specs and every bound, `OperatorTypeCorrect`,
`ChildrenAreProtected`, `NoOrphansEver` and `ReadyImpliesRunning`. The argument
of the second and third is about stale caches: what the cache shows was true
once, a deletion is never taken back and a finalizer is given up only by an
instance that was being deleted (`CacheIsPast`), so a walk of the children that
started on a cached copy with a finalizer and without a deletion works on an
instance that is still held (`WalksProtected`), and a finalizer is removed only
from an instance that is going (`UnfinalizesDeleted`). `InstanceSteps` and
`CacheSteps` say in which ways a step can change instance and cache;
`CreationNeedsWalk` that only a walk creates children. `ReadyIsRunning` needs
`StatusesHonest`: the same of the status being built and of the cached one,
from which the next status is built.

It also proves `ObservedIsHonest`. `Copies` is what the generation is
good for: cached and working copies are of the past, one generation has one spec,
and nothing is reported of a generation the copy does not have yet. So a
Reconcile that can still report works on the current spec or is refused.
`Walked` then says, child by child, that what the walk has left behind is as that
spec wants it (`DoneOf`), except what others have touched and an Ingress the
cache did not show; for these the instance is queued or the cache is outdated.

`NoLostWakeups` proves `RestsSettled`, the safety half of `Converges`: with an
empty queue, an idle worker and every event but those of PVCs delivered
(`AtRest`), status and children are those of the current spec. While nothing is
queued, Reconcile works on what the cache still shows (`Undisturbed`), and a
child that it has left behind and of which no event is under way is as it
wanted it (`Left`, `Stopped`): a call that changed the child causes an event,
and one that did not found it right (`CallUnheard`). So a `Report` that changes
nothing leaves a settled instance, and one that changes the status is heard of
(`ReportSettles`); every other way to become idle queues the instance or
changes it. What remains of `Converges` is that the operator comes to rest.

`UserStorePgProofs` proves, for every number of users, addresses and calls,
`StoreTypeCorrect`, `DeletionsAreLogged` and `PgIsAStore`, the refinement of
`UserStore`. The first includes that no two active users have one address, which
is what the partial index is for. `RowsHeld` says what the row lock is good for: a row whose UPDATE
matched stays active until its deletion commits, and no other call matches it;
`PurgesSelected`, that the second predicate of a purge finds no row its SELECT
did not: a deletion that commits in between began after the cutoff, because no
call outlasts the grace period (`InTime`). `DeletionsLogged` holds although the
audit row is not atomic with the deletion (`store_audit`): the row written in vain
is one that was there.

`SignupProofs` proves, for every number of users, addresses, requests and
restarts, `SignupTypeCorrect`, `WorkspacesAreOfVerified`,
`AnswersNameOwnWorkspaces`, `TierCapHolds` and `LimiterHolds`. `SInv` adds to the types what
the steps of a verification rely on; `VInv` that a request which is past
`Confirm` is vouched for by a mailed link, which no restart takes back, although
the store forgets the user. `OInv` says that a workspace is at the slug of its owner,
or at one the admin may give. No assumption on slugs is made: `signup.go:167`
calls them unique by construction, which `signup_slug` refutes, so the third
theorem names the two ways in which an answer may name a workspace that is not the
user's. The fourth follows because all requests of a user create at one name.
The argument of the fifth is a potential:
`Budget` says that what was let through in a window, plus the tokens left, plus
the refill until the window's end, stays within the capacity and the refill of
the window. Timestamps are taken before the mutex, so a late request sets the
bucket's clock back and takes its elapsed time away from the tokens; the next
one gives back exactly that, and the sum does not notice. `Kept` is the bound
without tokens; `Budget` alone does not give it, because late requests can take
more tokens than there are and leave the bucket in debt.

Assumptions are the named `ASSUME`s of the modules; TLC evaluates them on every
run. Every invariant, action property and refinement of the passing runs is
proved. Only model-checked: liveness (`LogoutReturns`, `Converges`, `Recovers`),
which is out of the prover's reach; of `Converges`, that the operator comes to
rest at all.

## Not modelled

Planned: status texts and the composition over a KaiInstance's life (see above).
Not planned: mail, Stripe and OpenRouter clients (no state), HTML forms and
views, rendering of agent templates, scripts, Terraform and Kubernetes
manifests, password hashing and token encodings. Of the chat, the demo loop that
fakes a gateway without Kubernetes, the expiry of the session while a socket is
opened (`main.ts:320` then makes a second client), the typing dots and the copy
of the conversation in `localStorage` are left out.

Noted but without a run: `observedGeneration` is not advanced by a suspension
(`kaiinstance_controller.go:221`); `setFailed` sets condition `Ready` to False
and nothing sets it to True again; a tenant whose users were all removed can be
bootstrapped again (`web/workspace/server/auth.go:93`); an undelivered
verification mail cannot be requested again (`signup.go:156`); `readUntilRes` is
also called while the pump runs (`bridge.go:576`), which its comment rules out;
a growth tenant without `spec.resources` gets the CPU request of starter, since the
clamp is never given an empty list (`resources.go:234`; `clamp.go:10` expects
otherwise), and a limit below the tier's request makes a pod nobody admits
(`clamp.go:34`), both of which `AgentSizingProofs` states.
