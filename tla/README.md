# AstraPort API: a verification project

This directory holds TLA+ specifications of the AstraPort API (`src/`, a NestJS
service), the TLC configurations that check them on small instances, and proofs
that TLAPS checks. Paths such as `webhook/webhook.service.ts` are relative to
`src/src/`. `PROJECT.json` lists the components, the runs with their properties,
the lines every definition stands for, the mutants that show what each property
can catch, the hazards of the code, and the theorems.

The service is one Node.js process: JavaScript runs to completion between two
`await`s, and requests, timers and cron jobs interleave at the awaits. That is the
granularity of every model here. Part of the state lives in the process (Maps in
services: subscriptions, webhooks, staking positions, drift snapshots and alerts,
executions, upload sessions, the memory cache, rate-limit buckets) and is lost by a restart; part in a database through
TypeORM (users, revoked tokens, unstake records, file records, quotas, AI triggers,
the audit log), in Redis or
in file storage, and survives. There are no transactions: a handler that reads a
row, awaits, and writes it back can be overtaken.

## Inventory

### Modelled

**Event subscriptions and webhook delivery** (`webhook/`, `subscriptions/`; modules
`WebhookDelivery`, `DeliveryLedger`). *State*: subscriptions, delivery records per
(subscription, event), the event history; all in memory. *Operations*: create,
update, delete a subscription, acknowledge events, publish an event to the matching
subscribers, retry what is due, simulate a delivery. *Interaction*: WebhookService
calls SubscriptionService for the subscribers, awaits `fetch` for each delivery and
hands the outcome back to `recordDeliveryAttempt`. *Hard*: publications, sweeps,
acknowledgements and deletions interleave at every `fetch`; lists taken before an
await are used after it. *Correct if*: attempts are counted against the budget
whatever overlaps, a retry is scheduled exactly for what waits for one, settled
deliveries are left alone, what waits is retried in the end.

**Two-layer cache** (`cache/`; `CacheLayers`, `MemoryLRU`, `CacheKeys`). *State*: a bounded Map in
memory (L1), Redis (L2), whether the connection is up. *Operations*: get with
promotion, set, wrap, del, invalidate by prefix, clear, warmup; the key of a `@Cached`
call is made of its arguments, and a response is answered with 304 by its ETag. *Hard*: fills race
invalidations; Redis fails, answers late, and outlives the process; eviction depends
on a long history. *Correct if*: a promoted value does not live longer than it was
meant to, a mutation is visible once its invalidation is done, superseded values
disappear, a key that was read or inserted is evicted only when all others were used
since, and equal keys and ETags mean equal values.

**Authentication and sessions** (`auth/`; `AuthSessions`, `Accounts`). *State*: the
rows of users with email, Google account and API key, the hash of one refresh token
per user, rows of revoked access tokens. *Operations*: registration, Google login
(which finds, links or creates a row), API keys, login, refresh with rotation, logout,
revocation, the check of the blacklist on every request, the purge of expired rows
(which is written and tested, and called by nothing else in the repository).
*Hard*: every step is a separate await. *Correct if*: a person has one row, a revoked
API key is dead, a spent refresh token never works again, a revoked access token is
never accepted, logout leaves no token.

**Rate limiter** (`rate-limit/`; `RateLimiter`). *State*: token buckets and sliding
windows per key, in memory. *Operations*: `check` of a request against the limits of
its IP, its user and the endpoint, the headers and the waiting time of the answer; the
cleanup timer; loading the policies from the environment. *Hard*: histories of
requests that share keys; boundaries of tokens and windows; pruning; values that are
no numbers. *Correct if*: no window and no burst exceeds its limit whatever is
configured, and what is told to the client is right.

**Emergency unstake and contract positions** (`staking/emergency-unstake.service.ts`,
`contracts/`; `EmergencyUnstake`). *State*: unstake records in the database,
positions in memory. *Operations*: initiate (check the rate limit, read the position,
save the record, withdraw), add a position. *Hard*: check and record are two awaits,
positions are lost by a restart and records are not. *Correct if*: what is withdrawn
is recorded and the converse, positions are not overdrawn, the penalty is what is
due, one unstake per period.

**File storage, quota and garbage collection** (`files/`, `validation/files/`;
`FileStorage`, `ChunkedUploads`). *State*:
file records and quota rows in the database, objects in storage, sessions of chunked
uploads in memory. *Operations*: upload, the three steps of a chunked upload, delete,
the nightly sweep. *Hard*: object, record and quota are written in separate awaits;
the quota is checked when a chunked upload is opened, with a size that its completion
states again and nobody compares; the sweep can fail or be cut off anywhere; parts of a
file arrive in any order and overlap its completion. *Correct if*: the quota is exceeded
by nothing but overlapping uploads and what completions state beyond what was checked,
and counts what is recorded; live files can be read, retention is kept, deleted files
disappear, and a file is the parts that were sent, in their order.

**Monitoring** (`monitoring/`; `Monitoring`). *State*: counters and gauges, the
performance buffer, the alert rules' states, the history of alerts; all in memory.
*Operations*: the two halves of the metrics interceptor around every request, the
evaluation of the rules every ten seconds, test alerts. *Interaction*: an evaluation
reads what the interceptor counted and awaits the health check, which queries the
database. *Hard*: requests of a route share a gauge; the timer starts an evaluation
whether or not the one before ended; rules that stay true fire again; the history is
cut. *Correct if*: all counts agree, the history shows which rules fire and stays
bounded, the alert of the database follows the database in the end.

**Job queue** (`modules/queue/`; `JobQueue`). *State*: jobs in three Bull queues in
Redis, the runs in progress. *Operations*: add, schedule, cancel, run. *Hard*: Bull
gives up runs it cannot stop, tries again, and starts jobs again whose process
stopped. *Correct if*: a job runs no more often than it may, its status tells what was
done, a cancelled job is not worked on, every job ends.

**Drift detection** (`rebalancing/drift-*`; `DriftDetection`). *State*: thresholds,
snapshots, alerts and webhooks per portfolio, in memory. *Operations*: configure,
calculate the drift (which saves a snapshot, raises alerts and tells the webhooks),
acknowledge, register a webhook, analyse. *Hard*: whether an alert is raised depends
on all that was raised and acknowledged before; assets and portfolio are judged by
differently rounded values; a trend needs four snapshots. *Correct if*: every breach
has one open alert until it is acknowledged, webhooks are told of each alert once, the
status follows the assets, the trend tells the direction.

**Rebalancing** (`rebalancing/rebalancing*`, `fee-calculator`; `Rebalancing`).
*State*: the executions, in memory. *Operations*: plan, estimate fees and slippage,
execute, look up trades. *Hard*: three services compute the same figures by formulas
of their own; identifiers are milliseconds. *Correct if*: an execution costs and slips
as estimated and its trades are found.

**Staking portfolios** (`staking/portfolio.service.ts`; `StakingPortfolio`). *State*:
positions and two cached views per staker, in memory. *Operations*: stake and withdraw
several assets at once, show the view and the yield. *Hard*: views are cached for five
minutes; one withdrawal takes from many positions in turn. *Correct if*: a view shows
the last write, nothing is lost or paid before its term.

**Pagination** (`pagination/`, with `ai-triggers/`, `audit-log/`, the history of
unstakes and the list of subscriptions; `Pagination`). *State*: the listed table and
where a client is in it. *Operations*: a page by cursor or by number, and the number of
rows. *Hard*: rows are inserted, updated and removed between pages and between the
queries of a page. *Correct if*: a row that nothing was done to is returned, once.

### Not modelled

*Validation* other than that of files (stateless predicates that unit tests reach),
*logging and errors*
(output only), *portfolio and risk analytics* (formulas over their input), *API
documentation* (generated documents), the *application shell* (wiring). Of the
modelled components: password hashing, JWT signatures, HTTP and the database are
external and appear as what the code does with their outcome. Nothing writes the
audit log, so of it only the listing is modelled; an AI trigger's target is called
after the trigger was saved and changes nothing; schedules of rebalancing are stored
and never run. Metrics of the system, traces, the log buffer and the advice on
allocations are output. Each component's note in `PROJECT.json` says what it leaves out.

## Modules

| module | models | extends / instances |
|---|---|---|
| `WebhookDelivery` | both webhook services with their awaits | instances `DeliveryLedger` |
| `DeliveryLedger` | what they promise of every delivery | |
| `CacheLayers` | one key through both layers | |
| `MemoryLRU` | the bounded Map of the memory layer | |
| `CacheKeys` | cache keys, ETags and conditional responses | |
| `AuthSessions` | the sessions of one user | |
| `Accounts` | the rows of users and their API keys | |
| `RateLimiter` | the limits of a path and its clients, their configuration | |
| `EmergencyUnstake` | unstakes over positions | |
| `FileStorage` | the files of one user | |
| `ChunkedUploads` | what a chunked upload stores, with three providers | |
| `DriftDetection` | drift snapshots, alerts, webhooks, the trend | |
| `Rebalancing` | plans, estimates and executions | |
| `StakingPortfolio` | staked positions and their cached views | |
| `Pagination` | walks over a list that changes | |
| `Monitoring` | metrics, performance and alerts | |
| `JobQueue` | the queues and their processor | |
| `WebhookDelivery_proofs`, `JobQueue_proofs`, `FileStorage_proofs` | theorems | extend the module of their name |
| `EmergencyUnstake_proofs` | theorems on unstakes and on the pages their history is read by | extends `EmergencyUnstake`, `Pagination` |
| `CacheLayers_proofs` | theorems on both layers of the cache | extends `CacheLayers`, `MemoryLRU` |
| `Auth_proofs` | theorems on sessions and accounts | extends `AuthSessions`, `Accounts` |
| `Services_proofs` | theorems on the stores of the process | extends `DriftDetection`, `ChunkedUploads`, `StakingPortfolio`, `Rebalancing`, `Monitoring`, `RateLimiter` |
| `SumTheorems` | sums, maxima, folds and filters | |
| `MCAuthSessions` | sessions and accounts in one behaviour | extends `AuthSessions`, `Accounts` |
| `MCMemoryLRU` | the memory layer with the history that true LRU is about | extends `MemoryLRU` |
| `MCProcessStores` | stores of the process, responses and jobs | extends `MemoryLRU`, `StakingPortfolio`, `MCRateLimiter`, `ChunkedUploads`, `CacheKeys`, `JobQueue` |
| `MCPortfolios` | drift, executions and emergency unstakes | extends `MCDriftDetection`, `Rebalancing`, `EmergencyUnstake` |
| other `MC*` | values for TLC (symmetry, policies) | extend the module of their name |

`MCAuthSessions`, `MCProcessStores` and `MCPortfolios` check several modules in one run.
Where they share no state, interleaving them would only multiply states, so a history is
about one of them: `SessionsOfOneUser` lets sessions begin when the first user was
created and nothing else has happened, and `subject`, fixed by the initial state, names
what a history of the other two is about. Every reachable state of each module is
reached, in the initial states of the others; `StillPromises` of `MCPagination` leaves out what would
repeat from an earlier state, and the rest of a walk once `WalksComplete` claims
nothing of it any more. Variables of the composed modules
have names of their own for that reason.

In every module: `handlers` are the requests (and cron jobs) in progress, a function
from the constant `Handlers` to a record whose `pc` names the await the request is
at; an action is the code from one await to the next. Operators whose comment starts
with *Defect* are not part of the specification: each is a mutated form of the
definition after it, and shows that a run's property notices the change.

History variables are written by the model only, and said to be so where they are
declared. Several properties are conditional on one of them: the code has windows
between two awaits in which a guarantee is lost, and the property says exactly when
it may be lost and that it is never lost otherwise. These variables record an event
of the execution (two handlers overlapped, a step was cut off), never the failure of
the property itself.

### WebhookDelivery

`subscriptions`, `deliveryRecords`, and `published` (the length of the event
history) are the Maps of the two services; `created` and `inserted` give ids and the
iteration order of a Map. A handler's `todo` is what is left of the loop in
`publishAndDeliver` or `retryDueDeliveries`, with the copies the code took before the
loop. `Advance` is the synchronous code up to the next await; `FetchDone` the outcome
of `deliverToSubscription` and the call of `recordDeliveryAttempt` (`Attempted`).
Uuids are creation indices, an event is told apart by its kind, and a filter is the
set of kinds it accepts. Whether the back-off has run out is `nextRetryAt = "due"`;
its length is left out. The summary, the dashboard and the signature only read.

`DeliveryLedger` is the abstract specification: one record per delivery, counting its
attempts, retried within the budget, gone with its subscription only. The mapping
keeps outcome and attempts of each record and forgets requests, time and
subscriptions; `ImplementsLedger` is checked and proved.

### CacheLayers and MemoryLRU

`CacheLayers` follows one key: a value is the version of the data it was produced
from. Time is what an entry has left (`left`) and until when its value is as fresh as
its ttl promised (`fresh`). The handlers are readers (`get`, producer, `set`), writers
(mutation, then `del` or `invalidateByPrefix`) and warmup tasks. A command of Redis
may fail whenever the client is online, `Disconnect` takes it offline for good
(`retryStrategy: () => null`), and `Restart` loses memory and requests but not Redis.

`MemoryLRU` is `backends/memory-cache.ts` with its order of insertion; operations are
synchronous, so each is one action. Values are left out. `ReadsProtect` states what the
order protects, which is less than the "true LRU eviction" of the file's comment: an
overwrite leaves its key in its place (`sinceRead` is therefore reset by reads and first
insertions only), and into a full store it evicts another key though it needs no room.
`TrueLRU` of `MCMemoryLRU` is the comment's claim, and the run `true_lru` violates it.

### AuthSessions

The sessions of one user. A refresh token and its hash are the number of the login
that generated it; an access token is its jti. `Abandon` ends a request at any await:
the database or bcrypt failed, or the process stopped. `PurgeExpired` is `purgeExpired`,
which the code has for periodic use and does not call: the model lets it happen at any
time, so that what is shown holds with and without a caller.

### Accounts

`rows` is the table of users by email; the database enforces one row per email and per
Google account, and a violation ends the request. A verified Google token is the pair
of an account and the email it had then, and emails of accounts change. A request is
at the query or the write that follows it, with what it read. An API key, its prefix
and its hash are the number it was generated with. `OneRowEach` allows for one case: a
Google login with the email of a row that is linked to another Google account
overwrites the link, so the earlier account may then reach a second row
(`overwritten`). Whether a user is active is left out: nothing in the code changes
`User.status` (and `refreshTokens` does not ask for it).

### RateLimiter

`check` is synchronous: one action per request, which consumes every limit that
applies, denied or not. Tokens of a bucket are scaled by `windowMs`, so refills are
whole; the code's floating point is taken to be exact. `taken` records when each
limit admitted something. `Headers` is what the client is told: of the limits of an
admitted request the most restrictive, of a denied one the first that denied.
`PolicyFromEnvironment` and `ParseEndpointPolicies` are the loading of the
configuration, over values that are positive, zero, no number or missing, and entries
that are no objects; `PoliciesSound` shows that what they give is what the constants
are assumed to be. The analytics counters, and overrides by decorators, which no route
has, are left out.

### EmergencyUnstake

A request is at `checkRateLimit`, `readPosition`, `save` or `withdraw`. Time is in
days; rates are scaled by `100 * LockupDays`. `records` is the table, which survives
`Restart`; `positions` does not. The status of a record stays `pending`, as in the
code, so it is left out.

### FileStorage

The files of one user, with the local provider. A file is the number of its upload
(its generated key); sizes are in units. `sessions` are the chunked uploads that are
open, which hold a temporary path and no size: `CompleteChunkedUpload` records and counts
the totalSize of the completion's body, any of `StatedSizes`, with neither `validateFile`
nor `checkStorageQuota`. The histories `admitted` (the size an open session passed the
quota with) and `excess` (what completions stated beyond it) say by how much the quota
can be exceeded. A stated size that is negative or no number, and the storage path that
the completion also takes from its body, are left out. The records' `days` count from deletion up to one day
beyond the retention. The contents are in `ChunkedUploads`.
`Broken` is a set of files whose objects the storage never deletes: a permanent
failure the sweep must work around.

### ChunkedUploads

Every chunk and completion is a call that passes its checks (`SendChunk`,
`SendComplete`) before an await and takes effect after it (`UploadChunk`,
`CompleteMultipartUpload`) or fails (`CallFails`), with one of three providers, fixed
by the initial state. The local one appends what comes, the
Azure one stages blocks that the completion puts in order, the S3 one refuses every
part. `disorder` are the uploads whose parts a client sent out of turn or before the
answer to the part before; only those may be stored wrong. `ValidFile` is the check of
MIME type, extension, size and first bytes; the theorem `SignatureOfFirstDeclared` says
how far it goes.

### DriftDetection and Rebalancing

All methods are synchronous, so each is one action. Weights are in units of 1e-5, one
digit below the four the service rounds to, so that a drift may lie on the other side
of a threshold than its rounded value. Alerts are counted by portfolio, asset and
severity. `breaches` is what the last snapshot found and nobody acknowledged since.
`AnalysePortfolio` is what follows the snapshot of an analysis; a trend is a fraction.
`Rebalancing` repeats each formula as often as the code has it, and
`ExecutionsAsEstimated` compares the copies.

### StakingPortfolio

A staker's positions in order, with the days left of their term. `GetPortfolioView` and
`GetAggregatedYield` answer from the cache or fill it, five minutes may be over at any
time (`Expire`), and a stake or withdrawal drops both entries. `BalancesKept` accounts for every amount by
what was staked, matured and withdrawn.

### Pagination

One table, in four ways of listing it: by cursor (`findAllCursor`), by number with the
rows first and their number after (`findAll`), by number with the number first
(`getEmergencyHistory`), and from memory without an await (`listSubscriptions`). A walk
is a client that follows the pages to the end while rows are inserted, updated and
removed between any two queries. `WalksComplete` names what may be missed: with a
cursor, rows that share the value the first page ended with, because the first page is
sorted by the column alone; by number, anything once rows were moved; with the number
first, the last rows when others were inserted in between.

### CacheKeys

A JavaScript value is a scalar with its type, an array, an object, or one that
`JSON.stringify` refuses; JSON texts are the trees they stand for. The instance has a
date and a string with its text, a number and a string with its digits, `undefined`,
`NaN`, and objects whose field names are those of the tag. The module uses a
RECURSIVE operator, so nothing is proved about it.

### Monitoring

`requests` are the calls between the two halves of `MetricsInterceptor`: `Arrive` is
the first half, `Respond` and `CatchError` the second. An evaluation is at `query` or
`answer`, before and after the health check's query; `ApplyRules` applies every rule
in one step, in the order of `RuleOrder`, as the code does after its await. Label sets
are routes, statuses are errors or not, latencies are over the threshold of the rule
or not. The heap is any value at any time. An evaluation that took its summary before
`minRequests` requests were counted neither fires nor resolves the rule of the error
rate, and may be applied when that rule fires already; the alerts that it puts before
the open one may push it out of the history. `HistoryLongEnough` is what it takes that
they do not: room for the alert, for one of each other rule for every evaluation, and
for the test alerts. The code's limit is 500 with five rules, hence more than a hundred
evaluations that wait for the database at once. What the model makes plain, and no property objects to: a rule that stays true
fires a new alert at every evaluation, of which `resolveAlert` resolves the newest
only; a test alert makes the history longer for good; nothing increments the counter
that the rule rebalancing-failure-spike looks at, so it never fires. Traces, logs,
system metrics and the text exposition are left out.

### JobQueue

Bull is external and modelled by what the code relies on: a job is waiting, delayed,
active, completed or failed; a processor runs one job at a time; a run that fails or
exceeds its timeout puts the job back until its attempts are used up; a job whose
process stopped is started again `MaxStalled` times. A run that was given up goes on
as one of `lingering[j]`. `Processed` holds the queues whose processor is a provider of
`QueueModule`, which is the default queue only. Scheduling is the code's: the cron
expression goes into the job's data, which nothing reads, and the job is started once,
at once. Nothing adds to the dead-letter queue, so a job that failed for good stays
where it is. `maxRetries` is the number of attempts, and zero stands for the default.

## Runs

| run | instance | shows |
|---|---|---|
| `webhook_delivery` | 2 subscriptions, 1 event, 2 requests, 1 retry, fair | records, attempts and settled deliveries stay right under every interleaving; the ledger is implemented; what waits is settled unless an orphan blocks the sweeps; a publication reaches all it listed |
| `webhook_orphan` | 1 request, fair; **violated** | a deletion during a delivery leaves a record that ends every sweep that reaches it |
| `cache_agreement` | 2 requests, 2 mutations, ttl 2, fair | freshness, coherence where nothing overlapped or was lost, superseded values disappear |
| `true_lru` | 4 keys in 3 places; **violated** | an overwritten key keeps its old place in the order of eviction |
| `auth_concurrent` | 2 requests; 2 emails, 2 Google accounts, 3 keys; then 3 logins of one user | one row to a person, keys stay dead, refresh tokens are spent once per overlapping request, revocation is final |
| `rate_methods` | two methods with policies of their own; **violated** | alternating methods refills the bucket |
| `file_storage` | 2 requests, 2 files, one of them broken, fair | quota, objects, records, retention, cleanup |
| `monitoring` | 2 requests of a route, 2 evaluations, 2 rules, 1 test alert, fair | counts agree, the history follows the rules and stays bounded, the alert of the database settles |
| `process_stores` | 4 keys in 3 places; 2 stakers, 3 stakes; 3 limits of a client over 4 ticks; a file in 2 parts, 3 calls at once; 7 bodies; 2 jobs, 1 or 3 attempts, 1 restart of a stalled job, fair | eviction, balances and views, limits and what is told, what is stored, keys and ETags; runs of a job are bounded, status and cancellation are true, jobs of medium priority end |
| `portfolios` | 2 portfolios of 2 assets, 2 snapshots; 3 executions; 2 requests, 2 stakers, faults and restarts | alerts, webhooks and status follow the drift, executions cost as estimated, records and withdrawals agree, penalties are due |
| `drift_trend` | 1 portfolio of 2 assets, 4 snapshots; **violated** | the trend of an analysis has the wrong sign |
| `pagination` | 4 rows, 3 values, pages of 1 and 2 | rows that stay are returned, once |

Every passing run checks the type invariants of its modules, as conjuncts of its
invariants (`Rebalancing` and `CacheKeys` have none: their properties fix each value).

*Bounds.* Two handlers are enough for the races here: every window is between one
read and one write of a handler, and the third party (acknowledgement, deletion,
expiry, restart, the clock) is an action of its own that needs no handler. Two
subscriptions give a sweep something behind the record it fails at, and one retry lets
a record reach each stage of its budget with overlap (the proofs cover any number). Four keys over
capacity 3 are the smallest with an order among what stays; ttl 2 lets an entry expire
before, with and after another. Three logins let a token be exchanged, replaced and
replaced again. `MaxTime` of the rate limiter exceeds windows and idle time, so keys
are refilled, expire and are pruned. Two unstake records are what a violated limit
needs. Files of up to 2 units under a quota of 3 make one upload, but not two, of
size 2 fit; completions state 1 or 4 (`StatedSizes`), less than what was checked and
more than the quota. Two requests of one route share its gauge, two evaluations can be
applied out of order; the error rate counts from the second request on, so that
evaluations before and after it overlap, and a history of 4 is cut by two rules that
fire again. It is just as long as `HistoryLongEnough` asks: with 3 places TLC finds an
open alert pushed out. Two jobs
compete for one processor, and 3 attempts leave room for runs that linger, stall and fail.
Two emails and two Google accounts make every case of linking and taking over a row.
Two parts can be swapped, and the third call completes meanwhile. Two snapshots move a
drift into a breach and out of it or between severities (the configuration adds a
threshold on the other side of a rounded drift); a trend needs four, which
`drift_trend` has. Four rows and pages of two give a page that is full, one that is not,
and a row between two others of its value.
Every bound is a guard named in its module's CONSTANTS.
Handlers are interchangeable, as are portfolios and stakers, so `portfolios` and other
safety runs use symmetry; runs with liveness, `process_stores` among them, do not. No run disables the deadlock check.

*Fairness.* The event loop runs what can run, and `fetch`, Redis, the database and the
storage answer or fail: weak fairness on the steps of a request that is in progress.
Clocks advance, the timer of the alert rules goes on, and Bull goes on with a job that
can go on: a run ends or is given up at its timeout (in `process_stores` this fairness
asks nothing of histories about another store, where no step of a job is enabled). Two assumptions go further. Nothing in the code calls
`retryDueDeliveries`; the liveness of deliveries assumes somebody keeps posting to
`/api/webhooks/retry-due`. The liveness of the sweep assumes that the cron job is
started again and again (it is, daily) and that, except for `Broken` files, neither
restarts nor storage errors hit the same step of it every time (strong fairness on
those steps).

## What the runs found

Four disagreements of the code with what its documents, comments or tests say are
runs of their own (`findings` in `PROJECT.json`): orphaned records stop the sweeps
(`webhook/webhook.service.ts:110`); the method is not part of the key of an
endpoint limit (`rate-limit/rate-limit.service.ts:109`); a key that is written again
keeps its old place in the memory layer, which is not the "true LRU eviction" of its
comments and of the README (`cache/backends/memory-cache.ts:63`); the trend of a drift analysis
has the wrong sign, because the history is newest first
(`rebalancing/drift-calculator.service.ts:340`). The projection that follows from it is
given to portfolios that are critical already, since it looks at the mean drift and the
status at the highest (`BreachedNotProjected` alone is violated too). The processors of two of the three job queues
are not providers of `QueueModule` (`modules/queue/queue.module.ts:28`), so that only
`DefaultJobsEnd` is claimed.

The conditional properties delimit further windows. An outcome that arrives late
overwrites an acknowledgement (`SettledChangesOnlyInFlight`), and sweeps that overlap
each add an attempt (`OverlapBoundsAttempts`). One refresh token can be exchanged once
by each request that read it before the first rotation (`OverlapBoundsExchanges`); a
refresh or login in progress stores its token after a logout (`LoggedOutHasNoToken`).
A producer that read before a mutation fills the cache after the invalidation, and an
invalidation Redis missed leaves the old value there (`CoherentUndisturbed`); a slow
answer of Redis is promoted with the ttl it had when it was sent
(`PromotionKeepsFreshness`). Only reads and first insertions protect a key from eviction
(`ReadsProtect`). A job whose run was given up may do its work more
than once, or after it failed or was cancelled (`StatusTellsEffects`, `CancelSticks`).
Uploads that overlap pass the quota together
and lose updates of it, and a single client exceeds the quota, or has fewer bytes counted
than it stores, by the totalSize it completes a chunked upload with, which is neither
validated nor checked again (`files/files.service.ts:93`, `QuotaRight` bounds by how
much; no document promises otherwise, so it is no run of its own); one that fails between its
steps leaves an object without record (`ObjectsMatchRecords`). Emergency unstakes that
overlap pass the limit of one per period together, because the limit is checked
(`staking/emergency-unstake.service.ts:86`) apart from the record it looks for
(`OverlapBoundsUnstakes`), and a withdrawal that throws after the save leaves its
record (`RecordsMatchWithdrawals`). Requests of a route that overlap set its gauge to
0 when the first of them ends (`CountersAgree`). Parts sent in parallel to the local
provider are stored as they come (`PartsInOrder`). A row inserted between the number and
the rows pushes another off the last page (`OffsetWalkComplete`).

Reading the code for the models showed further points that no run decides, or that a
property takes as they are:

- *Drift and rebalancing.* `enabled` of a configuration and webhooks for `resolved`
  have no effect. `execute` counts slippage above the tolerance and does not block it.
  `executeNow` notes a success without executing, `createSchedule` validates nothing,
  and `getNextExecution` may lie in the past. Identifiers of executions are equal
  within a millisecond.
- *Staking.* `withdrawMulti` refuses an item when the first position that is large
  enough is locked, though a later one could pay; a partial withdrawal leaves the
  accrued yield as it was.
- *Pagination and audit log.* The default sort field `createdAt` is no column of
  AITrigger. The routes export, statistics and verify-integrity of the audit log are
  declared after `:log_id`, which takes their requests.
- *Files.* `uploadChunk` of S3 always throws. An upload to Azure that was completed can
  be completed again. The check of first bytes applies to chunks, so parts after the
  first of a file with a signature are refused when declared as the file is; the pipe
  allows chunks of 15 MB and `validateChunkSize` 10 MB. The signed URLs of the local
  provider have no route.
- *MIME spoofing.* The check of first bytes is there to prevent it, by its comment
  (`validation/files/file-validation.ts:196`), and does so only where the extension stands
  for the declared type or for no signature: the search for a signature stops at the first
  that the MIME type or the extension has, so a JPEG named `.jpg` is accepted under every
  MIME type. `SignatureOfFirstDeclared` proves both halves.
- *Rate limiter.* A denied request is told the first limit that denied, an admitted one
  the most restrictive. A window longer than an hour is forgotten with the states that
  were idle for one, and admits anew; no configuration is refused for it.
- *Cache.* All refused arguments of a type share a key, and an entry with a fixed
  `@Cached` key is not cleared by the default prefix of `@InvalidateCache`.
- *Wiring.* `QueueModule` and `StakingModule` are not imported by `app.module.ts`; the
  models follow the modules as they are written.
- *Monitoring.* The rate of requests is pruned only when a request is recorded, so it
  never falls to zero; `x-trace-id` is parsed as a traceparent and so ignored.

## Proofs

The theorems hold for all values of the constants: any number of requests,
subscriptions, jobs, files, stakers, assets, webhooks or parts, and any bound on what
the model counts. A safety invariant follows from an inductive one; where the property
is not inductive, the strengthening is named below with the reason for it. Each
strengthening was checked by TLC, on the instance of its module's run, before it was
proved.

### Webhook delivery (`WebhookDelivery_proofs`)

- `TypeCorrect`: `TypeOK`. `RecordStep` says what any action may do to the records
  (`Attempted`, `Acknowledged`, the clock, deletion), `AdvanceTyped` and `FetchTyped`
  what the two loops do.
- `RecordsCorrect`: `RecordsConsistent`, the conjunction of `TypeOK`,
  `RetryScheduledIffRetrying` and `AttemptBudget`. None of the last two is inductive
  alone: that a failed record has exceeded the budget needs that a waiting one is
  within it and that a delivered one has been attempted (`RecordsInductive`).
- `DeliveriesKnown`: `DeliveriesHaveEvents`, with `EventsInv`, which says the same of
  what handlers have listed, and that live subscriptions have been created.
- `AttemptsBounded`: `OverlapBoundsAttempts`. The bound adds up what requests hold, so
  that it needs `SlotsInv`: a loop has no delivery twice in its list, and an absent
  record has no attempts. `AttemptStep` lists the three ways a step may change the
  attempts of a record together with those who hold it.
- `SettledSkipped` and `SettledIsFinal`: `SettledNotTakenUp` and
  `SettledChangesOnlyInFlight`. What a sweep lists is due, hence waits, hence is not
  settled; what a publication lists is of a new event, which has no record yet.
- `LedgerImplemented`: `ImplementsLedger`, the refinement of `DeliveryLedger`. Initial
  states map to initial states, each action to a step of the ledger or a stutter
  (`StepRefines`).

### Job queue (`JobQueue_proofs`)

- `TypeCorrect`: `TypeOK`, by what a failed run and one that was cut off leave of their
  job (`FailedTyped`, `CutOffTyped`).
- `RunsCorrect`: `RunsBounded`. A bound on the runs started says nothing of how many may
  still come; `Counted` adds that the runs of a waiting job are its failures and
  restarts, that an active job has one run besides and both have an attempt left, and
  that an id not given out has no runs (`RunsInv`).
- `StatusCorrect` and `CancelledStaysOut`: `StatusTellsEffects` and `CancelSticks`. Both
  need `Told`: only a disturbed job has runs that were given up, so that the others are
  worked on by their processor alone.

### Sessions and accounts (`Auth_proofs`)

- `ExchangesBounded`: `OverlapBoundsExchanges`. `ExchangesCounted` counts the exchanges
  of a token together with its `Readers`, the requests that read the row while it was
  stored: a reader that exchanges stops being one, and once the token is rotated there
  are no new readers.
- `SpentTokensStaySpent`: `SpentStaysSpent`, from `TokensOwned`: tokens not given out
  are nowhere, and a request about to store one is its only holder.
- `RevokedTokensRejected`: `RevokedNotAccepted`, from `RevokedRecorded`: a revoked token
  has its row until it has expired, whatever `purgeExpired`, if something called it,
  removed.
- `LogoutForgetsToken`: `LoggedOutHasNoToken`, from `LoggedOutQuiet`: after a logout
  that nothing overlapped no request is in progress that would store a token.
- `OneRowForEach` and `DeadKeysStayDead`: `OneRowEach` and `KeysStayDead`, from
  `AccountsInv`: a request that creates a row found none (`RowsFound`), a row that a
  Google account reaches is linked to it (`LinksKept`), the key that a request is about
  to store is known to nobody (`KeysOwned`), and a revoked key has no request that
  would restore it (`RevokedQuiet`).

### Emergency unstake (`EmergencyUnstake_proofs`)

- `TypeCorrect`: `TypeOK`; that no position is overdrawn is the part of it that needs
  the check which `processEmergencyWithdrawal` repeats.
- `UnstakesBounded`: `OverlapBoundsUnstakes`. It counts the requests that passed the
  limit (`Passed`) with the recent records; `RateLimitStep` says that a step adds to
  neither, or moves one from the requests to the records, or adds a request when there
  are no recent records.
- `PenaltyCorrect`: `PenaltyDue`. A penalty is saved days after the position was read;
  `PenaltyFalls` (the rate falls with the days that remain, for all rates and
  lockup periods) makes what was read an upper bound of what
  is due, and `RatesDue` is the invariant that says so.
- `WithdrawalsOnRecord`: `RecordsMatchWithdrawals`. `GrantsHold` says that a request
  which passed its checks still has what it was granted, and `Balanced` is the equation
  of what is on record, what was withdrawn and what requests are about to withdraw.

### Pagination (`EmergencyUnstake_proofs`)

- `WalksAreComplete`: `WalksComplete`, for any number of rows and values, pages of any
  size, up or down. `PagesInv` says of a walk under way what the property says of one
  that ended. By cursor (`CursorBehind`): of the rows left alone, those beyond the
  cursor are still to come and all others have been returned once; an answer holds the
  rows next beyond it, and when there is no next page all of them (`SliceTakes`,
  `PagesHoldAll`). By number (`PagesBehind`): the rows at the places asked for so far
  have been returned. The place of a row is the number of rows that come no later
  (`Placed`, which holds of every sorted list of them), so an insertion only moves
  rows back, to pages not read yet (`CreateTriggerKeeps`), and `PageTakes` says that a
  page returns the rows whose places it covers. `Undisturbed` says that a number asked
  for before the page is right while nothing was inserted or removed.

### Cache (`CacheLayers_proofs`)

- `TypeCorrect`: `TypeOK`.
- `PromotionsFresh`: `PromotionKeepsFreshness`, from `PromiseKept`, which bounds also the
  time to live that a promotion read and has not written yet.
- `CoherentWhenQuiet`: `CoherentUndisturbed`, which speaks of states with no request in
  progress. `Coherent` is what holds in between: what a request is about to write is as
  new as the data (`FillsCurrent`), and a stale layer is about to be cleared, with
  nobody about to read it for the other layer (`StaleIsCleared`).
- `EvictionsCorrect`: `ReadsProtect`, for any capacity. `Ordered` says that an entry
  behind another was used after that one was last read or inserted: a hit moves its entry
  behind all (`AppendedStored`), an overwrite leaves it where it is and counts as a use to
  the others (`StillStored`), and what is deleted or expired leaves the others in their
  order (`AmongKeeps`). So what `set` drops when all are good is the entry in front
  (`RoomMade`, `FirstEvicted`), and the `MaxKeys - 1` behind it are keys used since
  (`KeysCounted`).

### File storage (`FileStorage_proofs`)

- `TypeCorrect`: `TypeOK`, with `Requests`, what each await knows of its request.
- `StorageMatchesTable` and `RetentionHolds`: `ObjectsMatchRecords` and `RetentionKept`,
  from `FilesInv`: a file that is being uploaded has one upload, no record and nobody
  who deletes it (`NewFiles`); what a sweep has still to do is expired or gone
  (`SweptIsExpired`), although sweeps overlap; the object of an upload that is about to
  save its record is there (`SavedIsStored`).
- `QuotaKept`: `QuotaRight`, for any sizes that completions state. Unless uploads overlap
  there is only one, and what it read of the quota is current (`OneUpload`); an upload
  that passed has a row of the quota (`NoRow`); the quota and the bytes not counted yet
  are what is recorded (`Counted`). `QuotaHeld` adds to what is used what open sessions
  were admitted with, and allows for `excess`: a completion moves its admitted size to
  the bytes awaiting their count, and whatever else it states to `excess`
  (`AdmittedChanges`). That only open sessions are admitted is `OpenAdmitted`.

### The stores of the process (`Services_proofs`)

- `AlertsCorrect`: `AlertsFollowBreaches`, from `OneAlert`: the look-up before the insert
  in `calculateDrift` sees the alerts that wait, those of the same calculation included.
- `SnapshotsCorrect`: `StatusFollowsAssets`. The status is taken from a drift rounded to
  four digits, the assets' from exact ones; `MaxRounded` says that the two maxima are
  less than a rounding apart, `SnapshotFollows` that they then give the same status
  unless a threshold is between them, `PersistedEntries` that a bounded history only
  drops snapshots.
- `WebhooksCorrect`: `WebhooksTold`, which equates the calls of a webhook with what was
  raised since it was registered. `RaisedMore` counts what a calculation raises,
  `ToldMore` what it calls, severity by severity.
- `UploadsCorrect`: `UploadsRight`, for every provider, number of parts and connections.
  `TurnsTaken` is the invariant of uploads whose client sends part after part: what it
  was answered is all it sent but the last (`OneAfterAnother`), and the temporary file
  is a prefix of the file (`FileGrows`); `OpenedFirst` says that nothing is stored of an
  upload nobody initialized.
- `SignatureOfFirstDeclared`: what `validateFile` ensures of the first bytes of a file it
  accepts, and an instance of what it does not. `FirstDeclared` says that the search finds
  the signature of the MIME type when the extension has none of its own.
- `PortfoliosStayRight`: `PortfoliosRight`, for any number of stakers, positions and items
  of a request. What a staker holds is a sum over a sequence, from which positions are
  removed and to which they are appended: `TakesOut`, `StakesAdd` and `DayRipens` say
  what an item of a withdrawal, a stake and a day do to it. The items of a withdrawal
  are a fold; `Accounts` is what each keeps (`WithdrawOneKeeps`), hence all of them
  (`WithdrawalsKeep`).
- `ExecutionsCorrect`: `ExecutionsAsEstimated`. What the planner and the fee calculator
  add up are sums of a function of the asset (`CostSum`, `FeesSum`), and the two copies of
  the rates agree on it (`RatesAgree`); the search of `getTrades` finds the least index
  (`FirstFound`), hence an earlier execution of the same millisecond if there is one.
- `CountersCorrect`: `CountersAgree`. `CountsAgree` is what it says of the counters, with
  the fact it needs of `requests`: finitely many are in progress, so that one that comes or
  goes changes their number by one. That an evaluation leaves the counters alone, and the
  rules' states and the history as typed, is shown along the fold by which it applies the
  rules (`RulesKeepHistories`).
- `AlertsShown`: `NewestFollowsState`, for any rules in any order, where `HistoryLongEnough`
  holds. While a rule is resolved or fires, its newest alert follows by what one step of
  the fold does to the history (`FiredPushes`, `ResolvedClear`) and by what the steps for
  the other rules leave of it (`RulesPush`, `RuleAfter`). The hard case is a rule that an
  evaluation leaves as it is while others push its open alert down. `Decided` says that
  this can only be the rule of the error rate, and that it fires only after
  `minRequests` requests were counted, so that no evaluation that starts later leaves it
  undecided. Those in progress that do are `Undecided`; `ErrorAlertSafe` says that the
  place of the open alert, with what they and the test alerts to come can put before it,
  is within the history. TLC finds the three conjuncts invariant on the instance of
  `monitoring`.
- `LimiterCorrect`: `LimitsRight`, for all policies, clients and times. `Followed` relates
  what is remembered under a key to `taken`, all that was ever admitted: the timestamps of
  a window are the last admissions and all others are out of it (`WindowFollows`), the
  tokens in a bucket and any last admissions are together no more than the capacity and the
  refill since (`BucketFollows`), and a state that was pruned would have told nothing
  (`BucketForgotten`). The filter of timestamps drops a first part of them, as they are
  sorted (`RecentIsSuffix`). That `retryAfter` is exact is a lemma on rounding up
  (`CeilDivExact`), that the headers follow the most restrictive limit one on its search
  (`LeastOfThree`). Two hypotheses are stated. `KeysApart`: no two limits share the state
  of a key; `rate_methods` shows what happens to the bucket when policies of two methods
  do. `KeptLongEnough`: no window is longer than `MAX_IDLE_MS`, as pruned states would be
  missed. TLC finds both true of the limits of `process_stores`, and `Followed` an
  invariant of them.

### Sums and folds

The quotas, balances and counts above are sums over sets whose size is not known.
`SumFunctionOnSet` is a fold by a recursive function, which the provers do not unfold.
`SumTheorems` proves what is needed from the definitions: the recursive function exists on every finite set (`SumsExist`, by
induction on its subsets; `SetOfNaturals` and `FiniteSubsets` state induction over a set
in place of a predicate, from the well-foundedness of `<`), two such functions agree wherever both
are defined (`SumsAgree`), any element may be taken out first (`SumTakesAny`). From
these follow the lemmas that the proofs cite: one value changes (`SumChanges`), two
functions are added (`SumPlus`), a set is counted class by class (`SumOfClasses`), a
finite set of numbers has a greatest element (`Greatest`). In the same way a fold over
the the indices of a sequence exists (`FoldExists`) and keeps what its steps keep
(`FoldHolds`), one that filters keeps the elements it should, once and in their order
(`FilterKeeps`, `FilterEmbeds`, `FilterDropsFirst`), and a sum along a sequence changes as the sequence does (`SumToNext`,
`SumToJoins`, `SumToWithout`, `SumToPlus`).

### Assumptions

`BoundsAssumption`, `MaxLoginsAssumption`, `MaxKeysAssumption` and the first conjuncts
of the others say that numbers are numbers. The rest is what the code or its
configuration fixes: at least one attempt (`MaxAttemptsAssumption`,
`JobQueueAssumption`), a lowest rate no higher than the highest (`EmergencyUnstakeAssumption`),
a time to live of at least a tick (`CacheAssumption`), a period of retention and a quota
(`FileStorageAssumption`), at least one part (`ChunkedUploadsAssumption`), finitely many
symbols, with numbers as targets and thresholds, and a history of at least one snapshot
(`DriftAssumption`), rates of the assets that are supported (`StakingAssumption`), finitely
many routes (`MonitoringAssumption`). What only one theorem needs is a hypothesis of that
theorem: `KeysApart`, `KeptLongEnough` and `HistoryLongEnough`, explained with it. `NoJob`, `NoSub` and `NoRoute` are
marks and no job, account or route. `HandlersFinite`: finitely many requests are in progress at once.

### Only model-checked

- Liveness (`RetryingResolves`, `PublishReachesAll`, `SupersededDisappears`,
  `DatabaseAlertSettles`, `DefaultJobsEnd`, `DeletedDisappears`) is out of the provers'
  reach, as is whatever needs ENABLED.
- `CacheTellsApart`: `CacheKeys` serializes by recursion over the nesting of arguments,
  and what that computes for every argument needs induction over data.

## Plan

The safety properties that runs check are proved but for `CacheTellsApart`. Of the code,
the statistics of the cache, overrides of the rate limiter and the traces are what a
model could still add.

## Running

    tlasany WebhookDelivery.tla
    tlc -workers 2 -config WebhookDelivery.cfg MCWebhookDelivery.tla
    tlapm WebhookDelivery_proofs.tla

and likewise for the other configurations, for every module `*_proofs` and for
`SumTheorems`. Each run takes less than four minutes, `Services_proofs` up to eight and
every other module of theorems less than two.
