# oaupa-server in TLA+

oaupa-server is a FastAPI service that keeps OAuth connections for its
customers' projects: it walks a user through the authorisation at a provider,
stores the tokens encrypted, hands out access tokens to API keys, refreshes
them inline and in the background, meters and bills the use, and posts webhooks.
State lives in PostgreSQL (SQLAlchemy async sessions, one transaction per
request), in Redis (login lockout, rate limits, the Celery queue) and at two
kinds of outside parties (OAuth providers and Stripe).

This directory holds TLA+ models of the parts of the service whose correctness
depends on interleavings, failures and order, TLC configurations that check
them, and TLAPS proofs. Paths below are relative to `src/app/`.

1. [Inventory](#1-inventory) - 2. [Plan](#2-plan) -
3. [The modules](#3-the-modules) - 4. [Runs and bounds](#4-runs-and-bounds) -
5. [Fairness](#5-fairness) - 6. [Proofs](#6-proofs) -
7. [What the models found](#7-what-the-models-found) -
8. [Not modelled](#8-not-modelled) - 9. [Running it](#9-running-it)

## 1. Inventory

Every API request is one transaction (`db/session.py:12`): `get_db` commits
when the handler returned and rolls everything back when it raised. Several
requests run at once, in one process (asyncio, a switch at every `await`) and in
several. Celery workers run beside them in processes of their own, each task in
a transaction of its own. PostgreSQL runs at READ COMMITTED: a SELECT sees what
is committed, an UPDATE waits for the row and keeps it locked to the end of its
transaction, an INSERT waits for an uncommitted row with the same unique key and
fails when that is committed. A request posts webhooks (up to 10 s each) and
calls providers between its flush and its commit, so that locks are held for
long and the windows below are wide.

| Component | State | Operations | Hard because | Must hold |
|---|---|---|---|---|
| Token vault `services/token_vault_service.py` | `oauth_connections.status`, `token_vault` (access and refresh token, `expires_at`) | `get_token`, `get_token_by_provider`, `force_refresh`, `_refresh_token_inline` | reads without a lock, calls the provider, writes later; a rotating provider invalidates the old token on success; rollback after the provider has acted | no refresh token is overwritten by an older one, lost without a failure, or used after revocation; a status is stored when it is reported |
| Background refresh `workers/token_refresh.py` | the same rows; beat runs it every minute | `refresh_expiring_tokens`, `cleanup_expired_states` | `FOR UPDATE SKIP LOCKED LIMIT 50`, one commit per batch, crashes | two workers never refresh one token; a batch ends; a lapsed token is renewed or declared broken |
| Connections API `services/connection_service.py` | the same rows | list, get, `revoke_connection` | provider errors are swallowed; races with refreshes | revoked is final |
| OAuth flow `services/oauth_service.py` | `oauth_states`, `oauth_connections` (unique project, provider, account) | `start_oauth_flow`, `handle_oauth_callback` | state read without a lock; limit checked before two provider calls; codes are spent although the transaction is rolled back | a state is used once; the plan's limit; every callback ends |
| Stripe webhook `services/billing_service.py:290` | `subscriptions`, `stripe_events` | `handle_stripe_webhook` and its four branches | duplicates, no order, concurrent handlers, `FOR UPDATE` where there may be no row, a retrieve before the lock | each event once and whole; the row ends as Stripe's subscription |
| Metering `services/billing_service.py:120`, `workers/usage_aggregation.py` | `usage_records` (unique project, `period_start`) | `check_retrieval_limit`, `track_token_retrieval`, `aggregate_daily_usage` | read-modify-write in Python, check-then-act, on the first of a month the daily job uses the same rows | counts are what was served; the limit; the job ends |
| API keys `api/deps.py` | `api_keys.last_used_at`, `is_active` | `resolve_api_key`, `require_scope` | the `last_used_at` UPDATE locks the key's row for the whole request | one key's requests run one by one |
| Login lockout `core/login_lockout.py` | a Redis counter with a time to live | `check_lockout`, `record_failed_attempt`, `clear_attempts` | read, verify, count: three steps of concurrent logins | bounded overrun; no counter without expiry; locks end |
| Webhook delivery `services/webhook_event_service.py`, `workers/webhook_dispatch.py`, `services/webhook_service.py` | `webhooks`, `webhook_deliveries`, the Celery queue | `fire_webhook_event` (two of them), `dispatch_webhook`, CRUD | posted before the commit; `delay()` before the commit; retries, crashes, duplicate tasks | an event is told only of what happened; attempts bounded; delivered at least once |
| Accounts `services/user_service.py` | `users`, stateless JWTs | register, refresh, change and reset password, verify e-mail | check-then-insert; rows read before their lock; tokens with no server state | no write takes back another's; the lockout holds whatever the account does |
| Projects, keys `services/project_service.py`, `services/api_key_service.py` | `projects`, `api_keys` | create, soft delete, revoke | requests in flight against revocation | a revoked key is served no more |
| Checkout, portal `services/billing_service.py:44` | `users.stripe_customer_id` | `_ensure_stripe_customer`, sessions, `get_usage` | create at Stripe, then store; rollback; several subscriptions of one user; monthly and daily records in one table | few customers per user; the plan is that of a known subscription; the sums are this month's |
| Encryption `core/encryption.py` | blobs with a key version | `encrypt`, `decrypt` | the version is written and not used | what a wrong key cannot read survives until the right one is back |
| OAuth providers `providers/` | `oauth_providers` rows | twenty classes: URL, exchange, refresh, revoke, account | what one method leaves out shows in another, or months later | a consent is not lost; no lapsed token is handed out |
| Audit, e-mail, rate limits, admin, health, schemas | - | - | - | see section 8 |

How they interact: the vault, the worker, the connections API and the OAuth
callback share `oauth_connections`; token requests go through the API key, the
limit, the vault and the meter in one transaction, so that a failure of the meter
undoes a refresh; the Stripe webhook sets the plan whose limits the callback and
the meter check; every one of them posts webhooks before it commits.

What is hard to test in each, with its line, is listed under `hazards` in
`PROJECT.json` with the properties that cover it.

## 2. Plan

The order is by what goes wrong worst: tokens, then money, then access.

1. **TokenRefresh** (done): requests, workers, locks, transactions on the rows of
   a connection; abstract: **ConnectionLifecycle**; proofs:
   **TokenRefreshProofs** (type, safety, action properties, refinement).
2. **StripeEvents** (done): the Stripe webhook; abstract: **SubscriptionLedger**.
3. **LoginLockout** (done); **Accounts** (done), the users' rows and the logins,
   which refines it; **AccountsProofs** has the proofs of both.
4. **OAuthFlow** (done): states, codes, limits, connections.
5. **Metering** (done): counts, limit, the daily job; keys that are replaced and a
   project that is deleted under running requests.
6. **WebhookDelivery** (done): both ways to fire an event, the test endpoint,
   deletion of a webhook, the Celery task with retries and crashes.
7. **Providers**, **ProviderConnections** (done): the twenty provider classes as
   data, and a connection of each, with the encryption.
8. **Billing** (done): the plan in force, the records of whole months, `get_usage`;
   in **Accounts** the customers of a user.
9. *Proofs* (done): every invariant and action property that a passing run checks,
   and the three refinements, are theorems: **TokenRefreshProofs**,
   **StripeEventsProofs**, **AccountsProofs**, **OAuthFlowProofs**, **MeteringProofs**,
   **WebhookDeliveryProofs**, **ProviderConnectionsProofs**, **BillingProofs**. What is
   left is in section 6 under "only model-checked".
10. *Not started*: scopes and expiry of API keys, creating and renaming a project.

Constants are parameters with named assumptions in the module that declares
them, there is one action per operation, invariants are conjunctions of named
parts, and no module declares a RECURSIVE operator, so that each can be proved
about as it stands.

## 3. The modules

Each module says at its head which rows are read and locked when. Definitions
whose comment begins with "Mutant of" are variants of the definition after them
with a plausible bug; nothing else refers to them.

### TokenRefresh, ConnectionLifecycle

| TLA+ | Code |
|---|---|
| `row[c]` | the committed rows of `oauth_connections` and `token_vault`; `ref` is the serial number of the stored refresh token, `expiry` how near `expires_at` is (under 5 min: `soon`, under 30 s: `due`) |
| `grant[c]` | the provider's newest serial and whether the grant is alive (external) |
| `holder[c]` | the transaction that has the rows of `c` locked |
| `req[r]`, `job[w]` | a request, a worker's run: phase, what its session read, what it changed and has not committed |
| `lost` | history: connections one of whose rotated pairs was taken away by a failure |
| `StartGet`, `StartForce`, `StartRevoke` | the SELECT at the head of `get_token`, `force_refresh`, `revoke_connection`; `StartGet` also has the lock of the API key |
| `Serve`, `NoRefreshToken`, `CallRefresh`, `CallRevoke` | the branches up to the answer of the provider |
| `Flush` | `db.flush()`: waits for the row, keeps it |
| `Commit`, `Raise`, `Abort` | the end of `get_db`: return, exception of the handler, failure or death |
| `SelectBatch`, `RefreshOne`, `SkipOne`, `CommitBatch`, `CrashWorker` | `_refresh_expiring_tokens` |
| `ProviderRefresh` | a call of `refresh_token`: answered, refused, not reached, or done there and failed here |

A session is a record of changes because SQLAlchemy writes the columns that
changed: a request that stores tokens leaves a status committed meanwhile alone.
Every transaction that locks the vault row also locks the connection row, first,
so one lock per connection stands for both.
`ConnectionLifecycle` has the stored status, the stored and the issued serial
only; `Lifecycle` in TokenRefresh is the refinement mapping and
`ImplementsLifecycle` the claim.

### StripeEvents, SubscriptionLedger

`stripe` is the subscription at Stripe and `emitted` the events about it
(external, from the kinds the service listens to); `processed` is the table
`stripe_events`, `row` the row of `subscriptions`, `lock` its row lock or
uncommitted insert, `handler[h]` a webhook request. `Deliver` is the idempotency
query, `Retrieve` the call in `_handle_checkout_completed`, `LockRow` and
`FindNoRow` the two outcomes of SELECT FOR UPDATE, `Effect` the four branches,
`InsertRow` the insert of a checkout, `Finish` the insert of the event id with
the commit. A plan is named by its price, as `PRICE_TO_PLAN` is one to one; the
periods of a subscription are left out, they are copied wherever status is.
`SubscriptionLedger` is the promise: every event takes effect at most once, as a
whole, on the row the events before it left. The history variable `born`, the
number of events emitted when the row was first stored, says which events may
be dropped.

### OAuthFlow

`flow[f]` is the row of an `OAuthState`, `codes` the provider's codes, `conns[a]`
the connections of an account, `locked` and `claimed` the locks of the state
row and of the unique key, `callback[c]` a callback request whose phases are the
steps of `handle_oauth_callback`. `Exchange` is the call of `exchange_code` and that
of `get_account_info`, which returns None whenever its answer is not a 200
(`google.py:67`, `github.py:97`, `slack.py:105`): whether a callback is `told` the
account is chosen each time (never told are the accounts outside `Identified`, whose
provider's class does not implement the call). The row remembers it, as a row without a `provider_account_id` is NULL in the unique key
and equal to nothing: `UnderItsId(a)` are the rows the key is about, and `Insert`
waits for those and is refused by them alone. `Retire` stands for
TokenRefresh: a connection leaves service and keeps its row. `Cleanup` is the task
that runs every five minutes and deletes the states that expired over an hour ago.

### Metering

`usage[p]` is the record of the month (`Missing` when there is none), `holder[p]`
its lock or uncommitted insert, `req[r]` a token request, `job` the daily task,
`served` a history of what was handed out. The day is the first of a month, when
the monthly record and the daily one have the same unique key; on other days the
job works on rows of its own. `key`, `active` and `owner` are the API keys, the
projects that are not deleted and the request that revokes a key. The keys are
explicit because the row lock of a key, taken by `last_used_at` (`LockKey`), is
all that keeps two requests of a project apart, and because `resolve_api_key`
reads the key (`FindKey`) before it waits for that lock.

### WebhookDelivery

`hook` and `delivery` are the committed rows, `sender[s]` a transaction that fires
one event (a request, which posts while it runs, or one that queues a task),
`remover` the deletion of a webhook, `queue` and `worker` the Celery side; `posts`,
`told` and `lost` are histories. A sender's steps are the SELECT (`SelectHooks`,
`Targets`), the POST to each webhook, the INSERT of its delivery, and the end of
the transaction. `LockHook` is the DELETE, which the foreign key keeps apart from
the inserts (`Sharing`). A worker takes a task, posts and records success or
failure (`TakeTask`, `PostTask`, `RecordSuccess`, `RecordFailure`), then queues the
retry (`Requeue`). `began` orders the transactions as `created_at`, the start of the
transaction, does; `Latest` is the query of the test endpoint.

`connection.error`, which is posted before an exception, never leaves a delivery:
the record is rolled back with the request (`Abort`).

### LoginLockout, Accounts

`attempts` and `ttl` are the Redis key of one account, `login[l]` a login request
between `check_lockout`, the verification of the password and
`record_failed_attempt` or `clear_attempts`. INCR and EXPIRE are one step, as the
pipeline is a MULTI/EXEC.

Accounts EXTENDS LoginLockout with the user's row (`user`), its lock (`held`), the
requests that write it (`op`), the links in mails and the sessions. A request reads
the row and changes its copy (`Register`, `ChangePassword`, `UpdateUser`,
`ResetPassword`, `VerifyEmail`, `EnsureCustomer`), waits for the row (`Flush`), and
commits the columns it changed (`Written`) or is rolled back. A password is one of
a few values, a verification or a customer is there or not. A login keeps the steps
of the lockout with the password compared to the row's (`Verify`);
`ImplementsLockout` is the claim that nothing else touches the lockout.
`refresh_tokens` writes nothing and leaves `session` as it is. `given` is a history:
how many customers the requests that committed have returned.

### Providers, ProviderConnections

Providers is data: a record for each of the twenty classes of `providers/`, saying
whether the URL announces a PKCE challenge, whether the exchange shows the
verifier, which fields either answer is read for, whether a refresh and a
revocation are implemented. Most are `Standard`, the helpers of `_http.py`, with an
exception or two.

ProviderConnections takes one connection of such a class through `StartOAuthFlow`,
the user's `Consent`, the callback (`Connect`, or `SpendCode` when it raises after
the code was shown), retrievals (`HandOut`, `RefreshAndHandOut`, `ForceRefresh`),
runs of the worker (`WorkerRefreshes`, `WorkerFails`) and `RevokeConnection`. Each
handler is one step: how they interleave is the matter of TokenRefresh and
OAuthFlow. `remote` is the nature of the provider's server (do tokens lapse, is that
told with the first answer, with later ones), `token` what the stored access token
is worth there, `conn.expiry` what the row says of it; the two age together
(`Tick`) and part where a class or a server leaves `expires_in` out. A stored secret
is told by the master key it is under, and `Decrypts` compares that with the one
that is set, as the code does whatever version it reads. The operator changes the
master key, the client secret and the provider row.

### Billing

`sub` are the rows of a user's subscriptions, `record[d]` the row of `usage_records`
with `period_start` `d`, monthly and daily ones alike, `conns` the number of active
connections. `PlanName` is `_get_active_subscription`, `RetrievalRefused` and
`ConnectionRefused` the two checks, `Usage` the answer of `get_usage`. Stripe's events
come in order here, a renewal as one step. `served` and `invoiced` are histories;
`invoiced` has the pairs of subscriptions of which the second was invoiced later.

## 4. Runs and bounds

Each `MC*` module adds the symmetry sets to its component; the `.cfg` files give
the bounds. Symmetry is used in runs without liveness only.

| Run | What it asks | Bounds, and why they are enough |
|---|---|---|
| `mixed` | TokenRefresh: types, `NoPairVanishes`, `LostIsStranded`, `RefusalIsExplained`, `RevokedIsTerminal`, `StoredNeverRunsBack` | one connection of a rotating provider, two requests with two keys, two workers, three rotations: each pair of actors meets, a third acts in between, and what was read is two rotations old |
| `life` | ImplementsLifecycle; requests and batches end (`EverybodyEnds`) | one request, two workers, a rotating connection and one without a refresh token; one rotation |
| `race` (violated) | `ErrorMeansUnusable` with one request | |
| `expired` (violated) | `ExpiryIsRecorded` | |
| `stripe` | any order, duplicates, a failure: `ImplementsLedger`, `EventsProcessed`, `PlanFollowsPrice`; in order: `InOrderSettles` | two handlers, one failure; five events of one plan (`MaxEvents`: checkout, failed payment and recovery with their updates), four with a change between two plans (`MaxRepriced`) |
| `stripe_checkout` (violated) | `RowSettles` in any order | two events |
| `callbacks` | OAuthFlow | two callbacks, two authorisations, two accounts (one whose lookup may be answered, one whose provider has none), two connections of an account, a limit of one: two codes for one state, two states for one account, one told and one not, two callbacks for one place |
| `metering` | Metering | two requests, a project with one key and one whose key is replaced or that is deleted, a limit of one, three retrievals in all: every pair of request, job and owner meets on each row, and the limit is met by one request while another is under way. With one such project the overrun is at most none; the bound for several rests on `Overrun` (section 6) |
| `webhooks` | WebhookDelivery | two webhooks, one a wildcard, one transaction of each kind, one worker, two attempts, one crash: a post, a deletion, a retry and a death each fall between any two steps of the others |
| `accounts` | Accounts over LoginLockout | two writing requests, two logins, a limit of two, a lockout of three ticks (one is too few to tell a prolonged lockout from a kept one), two passwords: a stale copy, a reset used twice, a login overtaken by a change of password, two customers created at once |
| `providers` | ProviderConnections over Providers | all twenty providers, every nature of a server, two master keys; one connection, whose ages (over 5 min, under 5 min, under 30 s, lapsed) are all the code tells apart |
| `billing` | Billing | two subscriptions of two plans with limits of 1, 2 and 5 retrievals (five is the least number that has 80 per cent), a month of two days and the first day of the next, a period of two days: both subscriptions run at once, the older renews after the younger was bought, and a month ends. The connection limits are 1 and 2: that "approaching" comes before the connection limit too is not met by this run and rests on `WarnsFirst` (section 6) |

In words, what the passing runs show:

- **Interleaving never loses a pair** (`NoPairVanishes`): when the vault does not
  hold the newest refresh token, exactly one open transaction is about to store
  it, or a crash, a rollback or a lost answer took it. What is lost stays lost
  (`LostIsStranded`). A session that waited for its lock never stores an older
  token over a newer one (`StoredNeverRunsBack`), although no code compares them:
  only the holder of the newest token can have been answered.
- **A refused worker has a reason** (`RefusalIsExplained`), and another worker is
  none: SKIP LOCKED does its work.
- **Revoked is final** (`RevokedIsTerminal`), though neither requests nor workers
  look at the status again before they write: the columns differ, and a worker
  locks the rows it selected as active.
- **Each Stripe event takes effect once, whole** (`ImplementsLedger`), decided by
  the unique event id and not by the query at the start; under fairness each is
  processed (`EventsProcessed`). In order, the row settles on what Stripe has
  (`InOrderSettles`), even though a checkout stores a newer state than its own event
  tells. In any order, settled or not, the plan in force is that of the stored price
  unless the price changed before the checkout was handled (`PlanFollowsPrice`).
- **Limits are overrun by less than the requests in flight** (`OverrunIsBounded` of
  LoginLockout and OAuthFlow), so by none at all when requests come one at a time.
  The monthly limit is overrun by the projects with one key together by less than
  their number, whatever the others lose (`OverrunIsBounded` of Metering); for
  projects with two keys there is no such bound (section 7).
- **A state is consumed exactly when it led to a connection**
  (`ConsumedWithConnection`), and to no more connections than callbacks were in
  flight together (`ReuseIsBounded`).
- **An account that is known by its id has one connection, for good** (`NoWayBack`).
  This follows from the unique key and the unconditional INSERT: once that connection
  is revoked or in error, authorising the account again is refused. It is connected
  again only by a callback whose account lookup was not answered, as a row
  without an id beside the retired one; the property says of that case that the
  retired row stays as it is, and nothing of how many such rows there are.
- **Counts are never too high** (`NeverOvercounted`) and exact for a project with
  one key (`OneKeyIsExact`).
- **A revoked key is soon served no more** (`RevocationTakesHold`): at most the
  requests that had selected it before are, and they end.
- **What a queued event tells has happened** (`QueuedTellsWhatHappened`): the task
  that is started before the commit finds no delivery and ends, so that the event
  is lost and not told too early; and it is told MAX_RETRIES times at most. A queued
  delivery that was not lost is delivered or given up (`DeliveriesSettle`); what a
  committed request has posted is recorded
  (`DeliveriesAreTrue`). The test endpoint may answer with another request's
  delivery, but with an older one never (`TestAnswersItsOwnOrLater`).
- **No write of an account takes back another's** (`ColumnsAreKept`), though every
  request writes a row it read before it had the lock. The lockout is obeyed
  whatever the account does (`ImplementsLockout`), and nobody can keep it up from
  outside: refused attempts do not prolong it (`LockRunsOut`). A user is one customer
  of Stripe, or as many as requests were in flight when the first was created
  (`CustomersAreFew`).
- **A consent is lost to the code of seven classes and of Square only**
  (`CodesAreRedeemed`): whichever way a provider checks PKCE, the other twelve
  satisfy it.
- **A lapsed token is handed out only where its end was not told or not read**
  (`ServedIsLive`), whatever refreshes, changed keys and switched-off providers come
  between; what comes back to the worker though it was just renewed is of a provider
  that tells no end on a refresh (`BatchIsNeeded`).
- **A wrong master key destroys nothing** (`UnreadableIsKept`), and once it is right
  again no connection is left with a dead token (`LapsedIsRenewed`).
- **What is held against the monthly limit is the month's use** (`MonthIsExact`),
  though the daily job writes the same table and on the first day the same row.
  **The plan in force is that of the subscription invoiced last**
  (`PlanIsInvoicedLast`). **A warning comes before a refusal** (`WarnedFirst`) where
  the limit is at least five or the plan has not changed.
- **Locks end**: no request, batch, callback, deletion or job waits in a circle.

In `life` a request waits for workers and not for another request: all requests
take the one lock of their connection last, so a wait among them is the same
step with another holder; `mixed` has them for safety. Batches of more than one row
and providers that send no `expires_in` are beyond these bounds; what `mixed` checks
is proved for any LIMIT and any providers (section 6), and `providers` has the
latter. With `Connections = {rot, fix}`, both refreshable, `Untimed = {fix}`, one
worker and `BatchSize = 2`, the instance of `life` passes in two minutes.

`TypeOK` is a property of `mixed` only. Those of the other modules hold in the
instances of the table too (add `INVARIANT TypeOK` to the configuration), and are
proved for every instance: they are what the proofs start from.

## 5. Fairness

- *TokenRefresh*: weak fairness of the steps of a request and of a worker, as
  every call to a provider has a timeout; strong fairness of `Flush`, as
  PostgreSQL queues those who wait for a row; weak fairness of `SelectBatch`, as
  beat starts the task every minute. Nothing makes a request arrive, a process
  die, or an owner withdraw a grant.
- *StripeEvents*: weak fairness of `Delivery` (Stripe delivers until it is
  answered with success) and of a handler's steps. `MaxAborts` stands for
  outages that end. Row and unique key can be waited for under weak fairness
  here because the number of events, and so of competitors, is bounded.
- *OAuthFlow*, *Metering*: strong fairness of the steps of a callback, a request,
  the job and a revocation, for the same queue. Nothing makes them start.
- *WebhookDelivery*: weak fairness of `Progress`, all that is under way taken
  together (a transaction, a deletion, a task that is queued or taken): a POST has a
  timeout, nobody is waited for but the holder of a lock, and each takes a bounded
  number of steps. Nothing makes a transaction begin or a worker die.
- *ProviderConnections*: weak fairness of `Worker`, which beat starts every minute;
  both its outcomes, renewed and declared broken, end what `LapsedIsRenewed` is
  about. The keys need not be right: the property is about when they are.
- *LoginLockout*, *Accounts*, *Billing*: none. Their properties are invariants and action
  properties; that a lockout ends is `LockRunsOut` with the passing of time.

## 6. Proofs

Each proof module is about one component and assumes its named assumption on the
constants and nothing else, so that it holds for any sets of connections, projects,
webhooks, users' requests and workers, any limits, and with the bounds of the runs
(rotations, crashes, aborts, retrievals, days) at any value. Every invariant and every
action property that a passing run checks is a theorem.

| Module | Theorem | States |
|---|---|---|
| TokenRefreshProofs | `TypeCorrect`, `Inductive` | `Spec => []TypeOK`, `[]IInv` |
| | `PairsAreKept`, `LostForGood`, `RefusalsExplained` | `Spec => []NoPairVanishes`, `[]LostIsStranded`, `[]RefusalIsExplained` |
| | `NeverBack`, `RevokedForGood` | `Spec => StoredNeverRunsBack`, `RevokedIsTerminal` |
| | `Implementation` | `Spec => ImplementsLifecycle` |
| StripeEventsProofs | `StripeInductive`, `TypeCorrect` | `Spec => [](StripeInv /\ OrderInv)`, `[]TypeOK` |
| | `OrderSettles`, `PlanPaid` | `Spec => []InOrderSettles`, `[]PlanFollowsPrice` |
| | `LedgerImplemented` | `Spec => ImplementsLedger` |
| AccountsProofs | `TypeCorrect`, `CounterNeverSticks`, `Overrun`, `RunsOut` | of LoginLockout: `Spec => []TypeOK`, `[]CounterExpires`, `[]OverrunIsBounded`, `LockRunsOut` |
| | `LockoutImplemented`, `LockoutHolds` | `AccountsSpec => ImplementsLockout`, and so the lockout's invariants |
| | `AccountsInductive` | `AccountsSpec => []AccountsInv` |
| | `ColumnsKept`, `CustomersFew` | `AccountsSpec => ColumnsAreKept`, `[]CustomersAreFew` |
| OAuthFlowProofs | `FlowInductive` | `Spec => []FlowInv` |
| | `ConsumedConnects`, `ReuseBounded`, `Overrun` | `Spec => []ConsumedWithConnection`, `[]ReuseIsBounded`, `[]OverrunIsBounded` |
| | `NeverReconnected` | `Spec => NoWayBack` |
| MeteringProofs | `MeteringInductive` | `Spec => []MeteringInv` |
| | `NoOvercharge`, `ExactWithOneKey`, `Overrun` | `Spec => []NeverOvercounted`, `[]OneKeyIsExact`, `[]OverrunIsBounded` |
| | `StaysClosed` | `Spec => ClosedStaysClosed`, the safety half of `RevocationTakesHold` |
| WebhookDeliveryProofs | `DeliveryInductive`, `TasksInductive`, `TypeCorrect` | `Spec => []DeliveryInv`, `[]TaskInv`, `[]TypeOK` |
| | `QueuedTold`, `RecordsTrue`, `AnswersOwnOrLater` | `Spec => []QueuedTellsWhatHappened`, `[]DeliveriesAreTrue`, `[]TestAnswersItsOwnOrLater` |
| | `NeverForgotten` | `Spec => []NoneForgotten`, the safety half of `DeliveriesSettle` |
| ProviderConnectionsProofs | `ConnectionsInductive` | `Spec => []PCInv` |
| | `Redeemed`, `LiveWhenServed`, `BatchNeeded` | `Spec => []CodesAreRedeemed`, `[]ServedIsLive`, `[]BatchIsNeeded` |
| | `UnreadableKept` | `Spec => UnreadableIsKept` |
| BillingProofs | `TypeCorrect`, `MonthExact`, `PlanInvoicedLast` | `Spec => []TypeOK`, `[]MonthIsExact`, `[]PlanIsInvoicedLast` |
| | `WarnsFirst` | `Spec => WarnedFirst` |

How each argument goes:

- *TokenRefresh*. None of the safety properties is inductive. `IInv` adds two layers to
  the types. `SessionInv` says who holds which lock (a row is locked by the worker whose
  batch it is in or by the request that flushed it), that a batch has changes only of
  rows it is done with, and that what is in a batch is active. `SerialInv` says for each
  connection that the stored serial, the issued one, the set of lost connections and the
  unsaved tokens of all transactions `Fit`: the stored serial trails the issued one, a
  lost pair leaves it behind for good, unsaved tokens are the newest and, of a rotating
  provider, held by one transaction. `SeenInv` says that what a request has read trails
  what is stored. The key step is a provider call: it succeeds only with the newest
  serial, and by `Fit` nobody then holds an unsaved one. `Fit` is preserved by the four
  things that can happen to a pair (obtained, lost in the answer, stored, dropped; lemmas
  `FitObtain`, `FitMiss`, `FitStore`, `FitDrop`), and each action of the module is one of
  them. The refinement needs `SessionInv` (what is in a batch is active, so an error
  comes from a connection in service) and `SerialInv` (what is stored was issued and is
  newer).
- *StripeEvents*. The mapping keeps the committed rows. A step of the ledger is the
  commit of a handler, so `StripeInv` has to say what the session of a handler holds
  until then: a change that its event makes of the row *as it is* when it has the
  lock (`ChangeFits`), and, without a lock, an event that is older than the row
  (`DropFits`); a checkout's retrieved state is that of its event or a later one
  (`SeenFits`). That the row settles is proved of the events first: a checkout stores a
  state newer than its own event, and the events between are then replayed on it, but
  whatever an event says that is no longer so, a later one states (`EventsStated`), since
  every change at Stripe ends with an event that shows the result. What the first n
  events make of the row is therefore Stripe's state, or an event still to come restates
  it (`UpTo`); and in order the handlers at work are at the next event or at one that
  another has processed (`InOrder`), so that only the next event changes the row.
- *Accounts*. `OverrunIsBounded` is inductive with the types because it bounds the
  failures counted together with those still to be counted; lemmas about the cardinality
  of `Pending` carry it. Each action of the account is an action of LoginLockout or leaves
  its variables alone (`StepIsLockoutStep`); so the lockout's theorems hold of the
  account. For the columns, `AccountsInv` says that a session holds a new row or one
  column that it can only better (`SessionFits`), that a registration which has its
  INSERT through is the only one (`AccountIsThere`), and that nothing was given out for a
  user who is not there (`RowFits`). `CustomersFew` adds the cardinality of the requests
  in flight.
- *OAuthFlow*. `ReuseIsBounded` counts the connections a state has led to together
  with the callbacks that still hold it, and is inductive for that; the proof is
  about the cardinality of `Holding`. `NoWayBack` needs that who was told the account
  and has inserted a connection has claimed the account and found no other under its id
  (`ClaimsFit`), so that there is one at most (`OneUnderItsId`). `Overrun` takes the
  active connections and the callbacks past the limit together: a callback that passes
  saw fewer active than the limit, and one that commits leaves the second set as it
  enters the first.
- *Metering*. `OneKeyIsExact` needs who holds which lock (`KeysAreLocked`,
  `RowsAreLocked`) and that what a request of a one-key project has read is still
  there when it writes (`SeenIsThere`), the daily job's insert of an empty record
  excepted. `NeverOvercounted` needs only that what was read was served. `Overrun` rests
  on a row lock that nobody took for this: two requests with one key never run
  together, so that the projects with one key have a request each past the limit.
- *WebhookDelivery*. `DeliveryInv` follows a post into the records: a sender has a row
  for each webhook it has posted to but the one it is at (`PostsFit`), its rows say
  what it was answered (`RowsFit`), what is recorded was committed (`RecordsFit`), and
  a worker is only ever at a delivery that is recorded (`WorkerFits`). `TaskInv` adds that
  a delivery has one task at most, in the broker or at one worker (`OneTask`), that its
  posts are its attempts and the one not yet recorded (`Counted`), and that what is
  neither delivered nor given up has its task or lost it (`InHand`). `OrderInv` says that
  each transaction has one place in the order of beginnings and that an answer's is not
  before that of its question. `Latest` is a CHOOSE of a last place, which exists in any
  finite set of places (`LastPlace`).
- *ProviderConnections*. `PCInv` relates what the row says of a token (`conn.expiry`)
  to what the token is worth at the provider, by cases of what the server tells and
  the class reads; `ClassesSound` is the one lemma about the twenty classes, so that
  the invariant needs no more of a class than what its exceptions list.
- *Billing*. `MonthInv` says that of this month's rows only the one of its first day has
  retrievals, all that were served: the other daily rows are empty, and the sum of
  `check_retrieval_limit` is one number (`SumOfOne`). `PlanInv` says that
  `current_period_end` is in the order of the last invoices, of what is canceled too, so
  that the latest end, by which `_get_active_subscription` chooses, is that of the last
  invoice (`LatestIsInvoicedLast`). `WarnedFirst` needs both, and that a count which rises
  by one cannot pass four fifths of a limit and the limit together if that is five or
  more.

Sums and choices without induction: the library's induction theorems cannot be used
here, so a sum is known by its recursion alone. `SumUnfolds` says that a function which
adds up as `SumFunctionOnSet` does is the sum; were there a set on which they differ there
would be a smallest one (the ordering of finite sets is well-founded, and `WFMin` gives
it), and taking a member away makes it smaller. `LastPlace` and `Greatest` use the same
descent. The sum of counts is then the cardinality of the set of pairs of a project and
a number up to its count (`SumCounts`), and the lemmas about cardinalities apply.
BillingProofs and MeteringProofs both have `SumUnfolds`, as each is complete by itself.

Only model-checked: the liveness properties (`EverybodyEnds` of TokenRefresh and
Metering, `EventsProcessed`, `CallbacksEnd`, `RevocationTakesHold`, `SendersEnd`,
`DeliveriesSettle`, `LapsedIsRenewed`), as fairness and ENABLED are beyond the prover. Of
two of them the safety half is proved: what is under way is never forgotten
(`NeverForgotten`), what is closed is never opened (`StaysClosed`).

## 7. What the models found

Each is a run that TLC refutes, with the line it disagrees with in `findings` of
`PROJECT.json`.

- `race`: a worker marks a connection "error" because a request rotated its
  token first; the request then stores the newest token, and the connection, whose
  token is good, stays out of service.
- `expired`: the status set before an exception is rolled back with the request;
  only its webhook gets out, again and again.
- `stripe_checkout`: the checkout retrieves the subscription before it locks a
  row that does not exist yet; a cancellation handled in between is lost.

More disagreements are in the modules without a run of their own.
`track_token_retrieval` (`services/billing_service.py:171`) reads the count without a
lock and writes what it computed: two requests with two keys of one project read the
same count, two tokens are served and one is counted (`OneKeyIsExact` says when that
cannot happen, and its mutant shows it happen). Nor is the overrun of such a project
bounded by the requests in flight: of two counts read together the lower may be written
last, `check_retrieval_limit` (line 120) passes again, and then a request that still has
the higher count adds to that. In the instance of `metering` with a limit of four and
eight retrievals TLC has, after 40 steps, a count of five and one more request past the
check, from two projects and two requests. The attempt to prove the bound for all
projects led there; `OverrunIsBounded` of Metering speaks of the projects with one key, for which it
is proved. The handlers'
`fire_webhook_event` (`services/webhook_event_service.py:40`) selects the webhooks
that name the event, and the one of `workers/webhook_dispatch.py` those that name
`*` too (line 107): a webhook on `*` receives nothing of what the handlers fire (`Targets`). And
`connection.error` is posted and its delivery always rolled back, so that
`list_deliveries` never shows one. `core/encryption.py:3` says that the key versions
enable "key rotation without re-encrypting all data at once": `decrypt` reads the
version and uses the one master key there is, so that nothing stored before a change
can be read after it (`Decrypts`). `force_refresh` looks at no status: a connection
that the owner has revoked hands out new tokens while its provider honours the
refresh token (`ForceRefresh` of ProviderConnections).

Others are stated as properties that hold and tell the exception:
`CodesAreRedeemed` (`HalfProved`, the classes whose two halves of PKCE disagree; Square,
whose `TokenResponse` cannot be built), `ServedIsLive` (`Undated`, the classes that ignore
`expires_in`), `PlanIsInvoicedLast` (an upgrade bought beside the old subscription is
taken back when that one renews, unpaid or not), `WarnedFirst` (the free plan's three
connections are reached without a warning), `CustomersAreFew`,
`NoWayBack` (an account whose connection was revoked can be authorised again only
when the lookup of its id fails, and then has a row without one),
`PlanFollowsPrice` (a plan changed before its checkout is handled keeps the old
plan's limits) and `OverrunIsBounded` of OAuthFlow (the connection limit is
checked before and not at the insert).

## 8. Not modelled

- Scopes and expiry of API keys, creating and renaming a project (section 2).
- Posting webhooks is, outside WebhookDelivery, part of the time between a flush
  and the end of a transaction.
- Listing of webhooks, deliveries, connections and keys: reads.
- An account lookup that is answered with 200 but without an id: the classes then store
  `""`, which the unique key compares like any other id. OAuthFlow has answers with the
  account's own id and calls that are not answered.
- That the worker's LIMIT of 50 starves a row: `BatchIsNeeded` says what fills the batch,
  and `LapsedIsRenewed` is about one connection and so about no competition for a place.
- How often the link of a password reset is used, and sessions that outlive a password:
  the steps are there (`ResetPassword`, `session`), no property restricts them.
- Endpoints, scopes, headers and the layout of requests and answers of the provider
  classes; what a provider does with a grant beyond honouring or refusing it.
- JWT, bcrypt, AES-GCM, slowapi: libraries.
- Audit log, e-mail, administration, health, schemas, configuration, migrations,
  scripts (but for the provider rows they insert): one INSERT, pure I/O, reads,
  declarations.
- Several users or projects in OAuthFlow and Billing, several months in Metering: limits are
  per user, records per project and month, and share nothing.
- A connection row deleted by hand, clocks that jump, a PostgreSQL set to another
  isolation level.

## 9. Running it

    tlc -workers 2 -config TokenRefresh_mixed.cfg MCTokenRefresh.tla
    tlapm TokenRefreshProofs.tla

`PROJECT.json` lists for each run its module, its configuration and what it
checks, for each property the mutant that violates it, and for each definition
the lines of the source it stands for.
