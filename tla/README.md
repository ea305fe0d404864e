# Verification of ApiSentinel

ApiSentinel is a webhook gateway. A provider posts a webhook to an endpoint; the
gateway inspects it, stores it, answers the provider, and delivers it to the
operator's upstream from a persistent queue with retries. Beside that path run an API
for the dashboard, alerts, a replay lab, contracts of payloads, and explanations by a
language model. This directory holds TLA+ models of these parts, TLC configurations
that check them on small instances, and proofs for every value of the constants. All
Go paths below are relative to `src/backend/internal/` unless they start with `src/`.

Run a check with `tlc -workers 2 -config X.cfg M`, a proof with `tlapm M.tla`.
`PROJECT.json` lists the runs, the source lines every definition stands for, a
seeded bug for every property, the findings, the hazards and the theorems.

## 1. Inventory

| component | source | state | operations | status |
|---|---|---|---|---|
| webhook ingestion | `service/ingestion_service.go` | `captured_requests`, `delivery_jobs` inserted in one transaction | `ProcessWebhook`, one goroutine per request | modelled; what it does after the transaction only where another part depends on it |
| idempotency store | `valkey/valkey.go`, `security/duplicate/` | keys with a time to live of 60 s | `CheckAndSetIdempotency` (SETNX) | modelled |
| delivery outbox | `service/delivery_service.go`, `database/queries/delivery.sql`, `delivery/state.go` | rows of `delivery_jobs` and `delivery_attempts`, a lease on each claimed row, the trigger channel, endpoint semaphores | create, claim, execute, complete, fail, requeue, recover, replay | modelled |
| retry policy | `delivery/retry.go` | none | `EvaluateResponse`, `CalculateBackoff`, `ParseRetryAfter` | the decision modelled, the durations abstracted |
| worker pool | `worker/pool.go` | task channel, `closed` flag, context | `Submit`, `SubmitWithTimeout`, `workerLoop`, `drainRemaining`, `Stop` | modelled |
| delivery control API | `transport/http/delivery_handler.go` | none of its own | replay, explanation, audit log, listings | all but the listings |
| server process | `src/backend/cmd/server/main.go` | which parts run | start, shutdown in order | as far as delivery meets it |
| policy engine | `policy/policy.go` | project policies | `Evaluate`: first rule that matches | block or not; the rest planned |
| rate limiter | `security/ratelimit/limiter.go`, `valkey/valkey.go` | fixed windows in Valkey or memory | `Allow`, `RateLimitIncrement`, `CheckSpikeAnomaly` (the same counter under another key) | modelled |
| schema baselines, drift | `transport/http/schema_handler.go`, `security/schema/`, `security/redaction/` | `schema_baselines`, `schema_drift_events` | infer, import, save, activate, deactivate, rewrite, delete, dismiss, accept; `DetectDrift` | modelled |
| agent gateway | `transport/grpc/server.go`, `database/queries/findings.sql`, `src/agent/internal/client/` | map of agent sessions; `agent_scans`, `security_findings` | `ConnectSession`, `SyncScanResults`, `Stop`; `DispatchReplayToAgent`, which nothing calls | modelled but for the unused dispatch |
| agent scanners | `agent/scanner.go` | none | pattern matching | not modelled |
| alerts | `alerting/digest.go`, `alerting/dispatcher.go`, `service/alert_service.go` | buckets of failures | record, flush by time, size and at close, tell the channels; the tasks that tell findings | modelled |
| legacy forwarding outbox | `service/forwarding_service.go`, `forwarding/forwarder.go` | `forwarding_dlq`, `forwarding_configs` | forward, execute, retry by hand, purge, recovery | modelled; main never takes this path |
| replay lab, test suites | `service/replay_service.go`, `service/test_suite_service.go` | `replay_jobs`, `replay_test_runs` | one request, or the requests of a suite one after the other | modelled |
| inspection engines | `security/engine.go` and below | none | pattern matching | not modelled: regular expressions over text |
| signatures, encryption, SSRF guard | `security/hmac`, `envelope`, `ssrf` | none | pure functions | not modelled: their outcome is a choice of the callers' models |
| accounts and sessions | `service/auth_service.go`, `transport/http/auth_handler.go` | `users`, `organizations`, `memberships`, cookies | register, login, refresh, logout | modelled |
| projects, endpoints, keys, channels, suites, settings | `middleware/auth.go`, `transport/http/router.go` and the handlers | one table each | create, list, show, update, delete, behind the guards of the route | modelled but for the listings of replays, deliveries, agents and statistics |
| explanations | `ai/`, `service/ai_settings_service.go`, `transport/http/ai_handler.go` | the organization's settings | settings, sanitize, ask, fall back | modelled but for the prompts |
| web client, generated protobuf | `src/frontend/`, `src/backend/pkg/genproto/` | none | | not modelled |

**How they interact.** An HTTP handler runs `ProcessWebhook`, which takes the
idempotency key in Valkey, stores the request and its delivery job in one PostgreSQL
transaction and signals the poller through a channel of 100 slots. The poller, on a
signal or every 15 seconds, claims up to 10 due rows with `FOR UPDATE SKIP LOCKED`
and a lease of two minutes and submits them to the pool (20 workers, a channel of
10000 tasks); a rejected job is requeued. A worker takes a slot of its endpoint's
semaphore, asks the SSRF guard, posts to the upstream, then runs four separate
statements: count attempts, insert the attempt, update the job, update the request.
The ticker returns rows whose lease ran out to `RETRY_WAIT`. An operator may replay
any job at any time. At shutdown main stops HTTP and gRPC, the poller, the pool (closing its
channel, then cancelling the context its tasks run under), Valkey and the database.
Apart from this path, agents on developers' machines keep one gRPC stream each, listed
for the dashboard in a map by agent id, and send the findings of a scan in one call,
which looks up the commit, inserts the scan and inserts its findings one by one.
A handler of the dashboard passes the guards of its route (session, membership, owner
of the row), each a query, and then runs one to four statements without a transaction.
The active contract of an endpoint is what a webhook is compared with, and the drift
found is inserted in the webhook's own transaction with a foreign key on the contract. A
failed delivery is recorded in a digest in memory; a webhook's findings are told by a
task of the same worker pool.

**What is hard.** Goroutines that meet only in the database, with no transaction
around a delivery attempt; decisions taken from a row read minutes earlier; a lease that is
never renewed; database errors that are dropped; a crash between any two statements;
a queue at its limit; `select` picking among ready cases at random; a retry by the
provider racing the request it repeats. `PROJECT.json` lists these hazards at their
lines, with the properties that cover them.

**What makes each part correct.** *Outbox*: one holder per job, decisions from current
rows, the retry budget kept, DELIVERED never a lie, dead letters justified, every
accepted job settled. *Pool*: an accepted task runs exactly once, also during Stop; no worker
is lost; Submit and Stop never panic. *Ingestion*: one job per payload, nothing answered
that is not stored, no stored webhook without its job, nothing forwarded that was
turned away. *Agent gateway*: no session outlives
its stream, a connected agent is listed, a commit is stored once and with all its
findings, and the server can stop. *Limiter*: a bounded number in every window, and no
counter that refuses for ever. *Accounts*: whoever was told of an account can use it.
*Tenants*: no request touches or shows another organization's rows. *Contracts*: one
active per endpoint, an accepted drift settles, and no webhook is lost to its drift
report. *Explanations*: nothing leaves without consent in force. *Alerts*: every
failure told once, every finding to who asked. *Older outbox, replay lab*: their rows
tell what happened.

## 2. Modules

| module | models | notes |
|---|---|---|
| `DeliveryState` | `delivery/state.go` | statuses and `CanTransition` |
| `RetryPolicy` | `delivery/retry.go` | what follows from an answer |
| `DeliveryQueue` | `service/delivery_service.go`, `delivery.sql`, replay, process | uses both; the core of the project |
| `DeliveryContract` | abstract specification | what the outbox promises about a job; `DeliveryQueue` implements it |
| `WorkerPool` | `worker/pool.go` | at the grain of one atomic operation |
| `Ingestion` | `service/ingestion_service.go`, `valkey/valkey.go` | one endpoint, concurrent handlers |
| `AgentGateway` | `transport/grpc/server.go` | streams and sessions, scans, the graceful stop |
| `Accounts` | `service/auth_service.go`, `auth_handler.go` | registration statement by statement, tokens that age |
| `TenantApi` | `middleware/auth.go`, `router.go`, the handlers of an organization's rows | guards and handlers, concurrent requests |
| `SchemaDrift` | `security/schema/`, `security/redaction/` | inference and comparison as operators, no state |
| `SchemaBaselines` | `schema_handler.go`, `ingestion_service.go` | uses `SchemaDrift` |
| `AiPrivacy` | `ai/`, `ai_settings_service.go` | settings that change while a question is asked |
| `Dashboard` | the four parts above | see below |
| `Alerts` | `alerting/`, `service/alert_service.go` | digest and findings |
| `RateLimit` | `security/ratelimit/`, `valkey/valkey.go` | one key, command by command |
| `Forwarding` | `service/forwarding_service.go` | the older outbox |
| `ReplayLab` | `replay_service.go`, `test_suite_service.go` | write by write |
| `SidePaths` | the four parts above | see below |
| `MCDeliveryQueue`, `MCWorkerPool`, `MCIngestion`, `MCAgentGateway`, `MCDashboard`, `MCSidePaths` | small instances | values of the constants, symmetry |
| `DeliveryQueueProofs`, `DeliveryLeaseProofs`, `DeliveryContractProofs`, `WorkerPoolProofs`, `IngestionProofs`, `AgentGatewayProofs`, `DashboardProofs`, `SidePathsProofs` | proofs | section 5 |

### DeliveryQueue

`job` is `delivery_jobs`, `rows` `delivery_attempts` and `reqStatus` the
`processing_status` of the captured request: these survive a crash. `trigger`,
`poller` and `batch` are the poller goroutine, `queue` the pool's channel, and `pc`,
`task`, `answer`, `number` the local variables of each worker in `ExecuteJob`.
Each SQL statement that changes a row is one operator from a row to a row
(`Claimed`, `Completed`, `Failed`, `Recovered`, `Requeued`).

| code | action |
|---|---|
| the commit of `ProcessWebhook`, then `TriggerQueue` | `Ingest` |
| the handler `Replay`: `RequeueDeliveryJob`, then `TriggerQueue` | `Replay` |
| `NewDeliveryService`'s recovery goroutine | `StartupRecovery` |
| `StartQueuePoller`: a tick, a signal | `TickerFires`, `TriggerFires` |
| `PollAndProcessQueue`: the claim | `ClaimPendingDeliveryJobs`, `ClaimFails` (also: committed, answer lost) |
| `PollAndProcessQueue`: the loop over the claimed rows | `Submit`, `Reject`, `LoadFails` |
| `ExecuteJob` | `Dequeue`, `Acquire`, `Block` or `Respond`, `RecordAttempt`, `UpdateJob`, `ReportStatus`, `Abandon` |
| lease and backoff clocks | `LeaseExpires`, `BackoffElapses` |
| process | `BeginShutdown`, `Exit`, `Crash`, `Restart` |

Time is abstract. A lease is fresh or old, a backoff over or not, and any order of
them is allowed; so the model covers every duration and says nothing about their
lengths. Every statement may fail (`fault`), and once the pool's context is
cancelled every statement run under it fails. A claimed batch is handed over in any
order. The pool appears as a bounded queue that is open or closed; its own steps are in
`WorkerPool`.

Most invariants exempt jobs in `overlapped`: those released, by a lease running out
or by a replay, while some goroutine still held them. That set is a history variable,
no mechanism of the code; it marks where the code gives up exclusion (finding 1).
What still holds of such jobs is `DeliveredWasAcked`, `KeepsContract` and `EverySettled`,
which exempt nothing.

### WorkerPool

`closed` is the atomic flag, `shut` the closed channel, `cancelled` the context. The
model separates loading the flag from sending, swapping it from closing, and closing
from cancelling, because the interesting interleavings are between those. A task may
panic; `executeTask` recovers, so `Return` stands for both ends.

### Ingestion

`endpoint` and `forward` are the settings, `keys` the live idempotency keys,
`captured` and `jobs` the two tables, and `pc`, `seen`, `dup`, `target`, `reply`
the local variables of each handler. `seen` matters: the endpoint row is read once
at the start, the forwarding configuration near the end, and the operator may change both in
between. `Insert` is the transaction, with the unique index on endpoint and key and
`ON CONFLICT DO NOTHING`. Keys expire at any time. The payload's hash stands for the
payload; whether its findings block it is a property of the payload (`Hostile`);
refusal by size or rate is a free choice; what a handler writes after the transaction
(findings, alerts, live events) is left out, since nothing in the pipeline reads it.

### AgentGateway

`conn` is the agent's end of a stream, `handler` the goroutine in `ConnectSession`,
`sessions` the map. `call`, `todo` and `answer` are the state of one `SyncScanResults`,
`cut` the calls whose context the agent's five-second timeout cancelled; `scans` and
`stored` are the two tables. Each statement of `persistScanAndFindings` is an action
(`CheckExisting`, `CreateAgentScan`, `CreateSecurityFinding`), and a failing insert may
have reached the database. A scan event on a stream runs the same code without a
commit, and is modelled as a call of that kind. `Kill` ends the process; one
that was not being stopped starts again.

Two properties make an exception the code has not closed. The deferred delete of a
stream that ends removes whatever session its agent has, also that of the agent's
newer stream, so `ListedUnlessShared` exempts agents that ever had two handlers
(`shared`). The scan is looked up and inserted in two statements without a unique
index, so `OneScanPerCommit` exempts calls that passed the check beside another of
their commit (`raced`). Both sets are history variables; no text promises more.
A stream has one agent id here. The code takes the id anew from every message
(`server.go:288`) and deletes under the last; the repository's clients send one that never changes.

### Dashboard and SidePaths

`Dashboard` joins `Accounts`, `TenantApi`, `SchemaBaselines` and `AiPrivacy`, and
`SidePaths` joins `Alerts`, `RateLimit`, `Forwarding` and `ReplayLab`. The parts of each share no variable,
and no property relates two of them, so interleaving them would only multiply their
states: `part`, chosen at the start, says which of them a behaviour runs. Where they do
meet in the code, each model has the other's effect as a choice: the membership that
`Accounts` makes is the constant `Home` of `TenantApi`; a registration's user and
organization do not change later.

**Accounts.** `users`, `orgs` and `members` are the tables; a registration inserts a
user, an organization and a membership in three statements (`CreateUser`,
`CreateOrganization`, `CreateMembership`), each of which may fail (`faulted`) and leave
what came before. `jar` is the cookies of a browser; tokens are not stored, so only `now` ends them.

**TenantApi.** `parent` is every table at once: the row each row belongs to, `unborn`
before its insert and `gone` after its deletion, which cascades. `pc`, `order` and `todo`
are a request on its way through `Auth` and `requireResourceOwnership` to the handler of its
route; a guard is one read, the handler's statements come later, and rows may be
deleted in between. A request may mix identifiers of different organizations. An update
of an endpoint reads the row (`LoadEndpoint`), merges (`Effective`) and writes every
column back (`WriteEndpoint`); `overlapped` is a history variable for
endpoints that two updates worked on at once, since the later one then undoes the earlier.

**SchemaDrift, SchemaBaselines.** A document is the type at each of its paths, a contract the type
and the `required` flag at each. `InferJSONSchema`, `DetectDrift` (with `compareNode`)
and `Redacted` are operators on these. `table` and `drifts` are the tables, `at`, `edit`
and `version` a request of the dashboard, `hook` and `against` a webhook between the read of
the active contract and its own transaction. Saving an active contract numbers it,
deactivates the others and inserts it: three statements (`NumberBaseline`, `ClearBaselines`,
`StoreBaseline`). `crossed` and `slipped` remember whether two activations ran at once
or a statement failed, the two ways to end with two active contracts or none.

**AiPrivacy.** `aiRow` is the organization's settings, `privacy` what a question read of
them, `told` what went to a provider. `inForce` collects the settings in force
since the question arrived: the promise is about those, since the owner may
change them while the question is under way.
A text is the set of the pieces of data in it and whether it is a JSON object. `SanitizeForAI`
keeps the order of the code: patterns are masked in the whole text, and the text so masked is parsed, so a
bare number that a pattern matched leaves no JSON (`StaysObject`) and the keys are not looked
at. In an object `sanitizeJSONMap` hides whole members; strings are texts of their own and an
array inside an array is copied. In other text only the first word after an own key is hidden
(`HiddenInText`). A finding's category, type and severity are sent as the client named
them (`labels`). `CloudNeedsConsent` says what is kept in spite of this, `MayBeSent`, and under which consent.

**Alerts.** The failures of deliveries are numbered as they are recorded. `buckets` is the
digest of each endpoint, a set of them (the code keeps their count), `summaries` and
`instants` what is to be told, `told` and `untold` where they end. `RecordFailure`,
`checkAndFlushExpired`, `FlushAll` and `Close` run under the digest's mutex and are one
step each; telling is a goroutine of its own (`dispatchDeliveryAlertToChannels`). A
finding's task posts to each channel up to three times.

**RateLimit.** `counter` is Valkey's key with its expiry, `membucket` the bucket in memory.
INCR and TTL travel in one pipeline, EXPIRE follows on its own (`Expire`) and may be lost
(`forgotten`); a call without an answer is counted in memory although Valkey may have
counted it. `passed` remembers of each call the store that let it pass and when it was counted.

**Forwarding.** `record` is the row of `forwarding_dlq`, `request` the captured request's
status, `task` the pool's task, `retry` a call of `RetryDLQRecord`. Nothing leases a
record, so a task and any number of retries send it at once. `astray` marks webhooks whose
answer, write or task was lost, or that were retried by hand.

**ReplayLab.** `jobs`, `runs` and `audits` are the tables, `place` and `onstep` the
handler. Every write may fail, and the client may leave, which cancels the rest (`LabStops`).

## 3. Runs

| run | module, cfg | question | instance |
|---|---|---|---|
| `delivery_lease` | `MCDeliveryQueue`, `DeliveryLease` | exclusion, current snapshots, budget, truth of DELIVERED, numbering, legal moves | 1 job, 2 workers, any 2 bounded events |
| `delivery_sharing` | `DeliverySharing` | dead letters justified; implements `DeliveryContract` | 2 jobs on one endpoint in one batch, one blockable, statuses 200 and 404 and network errors, 1 event |
| `delivery_settles` | `DeliverySettles` | every accepted job is settled | 1 job, 2 workers that share one semaphore slot, 2 events, fairness |
| `worker_pool` | `MCWorkerPool`, `WorkerPool` | the pool's safety, and accepted tasks run | 3 tasks, 2 workers, 2 callers of Stop, a buffer of 1 |
| `ingestion` | `MCIngestion`, `Ingestion` | the pipeline's safety | 4 requests, three of one payload (one of these forged), one hostile; PASS, BLOCK and MOCK; 1 event |
| `agent_gateway` | `MCAgentGateway`, `AgentGateway` | live and listed sessions, one complete scan per commit, a stop that ends | 1 agent with 2 streams; 2 scans of a commit, with two findings and one, and 1 clean scan outside a repository; 1 event |
| `dashboard` | `MCDashboard`, `Dashboard` | accounts usable; tenants apart; no update undone; one active contract, drift settles, no webhook lost; no data without consent, and what sanitizing keeps back | 2 registrations of one address, tokens of 3 ages, 1 fault; 2 requests of 2 organizations, with one spare row of each kind; 3 edits, 3 contracts, 2 webhooks, 1 failing statement; 1 question, 2 changes of the settings; an object with and without a number the patterns match, and other text, each with every kind of piece |
| `side_paths` | `MCSidePaths`, `SidePaths` | failures and findings told once; the limit holds; outcomes true | 2 endpoints, 4 failures between them, summaries at 3, 2 channels, 2 tries; 4 calls, limits of 1 and 2, a window of 2 of 4 instants; 1 webhook, 2 retries by hand; a suite of 2 requests and a single replay |
| `no_double_delivery`, `submit_never_panics`, `duplicate_was_processed`, `shutdown_proceeds` | same modules | claims of the source the code does not keep | section 6 |

**Bounds and why they are enough.** `Limit` bounds how often each kind of event
happens (crash or shutdown, failing call, replay, lease expiring under its holder,
full pool; for Ingestion crash, failing call, change of settings; for AgentGateway
kill, failing statement, agent giving up) and `Budget` how many
happen together. An event is an interruption; the steps between interruptions are
unbounded. Two interruptions are the least that reach a late holder whose row was
released twice, a retry after a lost answer that is then lost again, and a crash after a failed
outcome. `MaxRetries = 2` has a first, a last, and with `Bonus = 1` (3 in the code) a
granted attempt. One job with two workers is where exclusion can break; two jobs with
one worker is where batches and a shared semaphore matter. A channel of one slot is
full after one task and empty after one receive. Three tasks over two workers and one
slot leave one running in each worker and one waiting when Stop comes. A rejection by
the pool is an event, so once the budget is spent the modelled poller waits at a full
channel where the code would reject again; what repeated rejections do to a row is
covered by the proofs, which bound nothing. Two streams of one agent are what a
reconnect has; agents do not meet in the map. Two scans of one commit are what the check
compares, and two findings leave one inserted and one to come. In `dashboard`, two
requests are what a race between a guard and a deletion, or between two updates, needs,
and the spare row of each kind is what they may create; three edits have two that race
and one that meets the outcome; a question and two changes have settings that allow and
then forbid, and its three texts take every way through the sanitizer. In `side_paths`, a threshold of 3 with 4 failures has one summary by
size and one left for the ticker or the close, and two endpoints let one flush take two buckets; 2 tries have a failure and a success; a
limit of 1 with 4 calls is passed by three in one span if a window goes wrong, in either
store, and a limit of 2 lets a second call of a window pass; a task beside two retries is the least that writes a record three times. Three
requests of one payload have a first, a duplicate, and one that fails a different
check. The proofs lift all these bounds for the safety properties.

Symmetry is used only in runs without a liveness property, on workers, on the two
requests that differ in nothing, and on the callers, edits and retriers that differ in nothing.

All modules but two are checked for deadlock. `WorkerPool`, `Ingestion` and `AgentGateway` end,
so each has an explicit final step (`Terminated`, `Quiet`, `Stopped`) that is enabled
only when everything has come to its end; the queue's ticker never stops.
`Dashboard` and `SidePaths` have a finite supply of requests and end when it is used up, so their
runs do not ask for deadlock; none of their parts waits for another.

## 4. Fairness

`DeliveryQueue!FairSpec` assumes weak fairness of the poller goroutine (its ticker
fires for ever and each poll ends), of each worker (the HTTP client has a timeout,
the scheduler runs every goroutine), of the clocks (`BackoffElapses`, and
`LeaseExpires` of a row nobody holds), and of `Exit` and `Restart` (main waits five
seconds for the pool; the container restarts). Nothing is assumed about replays, database
errors, the startup recovery or the trigger: `EverySettled` holds without them, from the
ticker alone. It needs that interruptions are finitely many, which `Budget` says: a
database that never answers settles nothing.

`WorkerPool!FairSpec` assumes weak fairness of each worker, and nothing of the callers
of Submit or Stop: an accepted task runs whether or not the pool is ever stopped. Tasks end,
since every request they make has a timeout.

`AgentGateway!FairSpec` assumes weak fairness of the handlers (a stream that ended is
reported to its handler, by the transport or by TCP), of the statements of each call, and of
the end of `GracefulStop` once nothing is left to wait for. Nothing obliges an agent
to connect, to speak or to leave; so `StopEnds` asks for a stop to end only if in the
end no agent is connected, and finding 4 is what happens otherwise.

## 5. Proofs

From the assumptions `BoundsAssumption` and `DataAssumption` (bounds are positive
naturals, status codes are between 100 and 599, `NoTask` is no task),
`PoolAssumption` (there is a worker, the buffer holds a task), `IngestionAssumption`
and `GatewayAssumption`, and the assumptions of the eight parts of `Dashboard` and
`SidePaths` (the types of the constants). No assumption bounds the number
of jobs, workers, requests, callers, streams, scans, events, accounts, contracts,
questions, webhooks or retries.

- **`DeliveryQueueProofs`**: `TypeCorrect`, one step per action. `TypeOK` contains that
  the two channels never exceed their buffers.
- **`DeliveryLeaseProofs`**: `Exclusion`, `CurrentSnapshots`, `BudgetKept`, `Transitions`.
  None of the three invariants is inductive alone. The inductive invariant `IInv` says of every
  job not overlapped (`JobOK`): it has one holder; if held, its row is PROCESSING and
  equals the holder's snapshot; and attempts are within the budget, strictly while it is
  open. Exclusion needs the status, since a claim touches only rows that are not
  PROCESSING; the snapshot needs exclusion, since only the holder may write the row;
  the budget needs the snapshot, since the decision is taken from it and the counter
  is on the row.
- **`DeliveryContractProofs`**: `DeliveredIsTrue`, from the invariant that a worker with a
  successful answer in hand implies the job is in `acked`; and `Refinement`, that the
  queue implements `DeliveryContract`. Each action maps to one abstract step or a stutter
  (claims and recoveries of many rows included), under `HeldExist`: whatever is held has a row.
  `GivenUpForAReason` (`DeadLetterJustified`): a worker about to write DEAD_LETTER
  either has an answer that ends the job, and then the job is in `refused`
  (`RefusedAnswers`), or decided from its snapshot's attempts, and then the row has used
  them up, since the snapshot is current (`IInv`). `Numbered` (`AttemptsNumbered`):
  between the count and the insert, the number in a worker's hand is one more than the
  rows there are (`Counted`), which only the holder can change; so it needs exclusion
  too, and that a process that is down holds no worker in the middle of a delivery.
- **`WorkerPoolProofs`**: `TypeCorrect`, `NoTaskLost`, `Drained`, `Staffed`, `CloseOnce`.
  The key conjunct is that a worker that left implies a closed and empty channel: a
  send after that is impossible, so nothing is left behind. `Drained` follows with `OnePlace`.
- **`IngestionProofs`**: `TypeCorrect`, `OneJob`, `Outbox`, `AnswersStored`, `TurnedAway`.
  `IInv` ties how far a handler has got to what can be stored of its request. The outbox
  needs `OneJobPerBody` beside it: a job that was not inserted is excused by another of
  the same payload.
- **`AgentGatewayProofs`**: `TypeCorrect`, `LiveSessions`, `Listed`, `OneScan`,
  `AcceptedIsStored`, `AllFindings`. For the streams, `TwoAreShared` says when the delete
  of one handler can touch the session of another. For the scans, `Stage` ties a call to
  what is stored of it, `Whole` says that findings are stored or still to come, and
  `Alone` that a call which passed the check without a rival is the only one of its
  commit, in progress or stored: that is what the insert needs to keep `OneScanPerCommit`.
- **`DashboardProofs`**: one section per part, each of its own specification; then
  `DashboardParts`, that a behaviour of `Dashboard` is one of each part, which carries all
  of it over (`DashboardTyped`, `DashboardKeeps`).
  *Accounts* (`AccountsUsableHolds`): the invariant ties the stage of a registration to the
  rows it has inserted, and every token in a jar to a finished one.
  *Explanations* (`ConsentHolds`): what a question read (`privacy`) is a row of `inForce`,
  which only grows while the question runs; and what the sanitizer leaves of a text may be
  sent under every settings with the keys it was given (`SanitizedText`), case by case as it parses or not.
  *Contracts* (`OneActive`, `OnlyDeletedRefuse`): `Calm` says that while nothing was crossed
  and nothing failed at most one row is active, and none while a request is about to activate its
  own; a contract once compared with had its identifier taken, and identifiers are never
  given out twice, so a refusal means a deletion.
  *Drift* (`BaselinesTyped`, `AcceptanceSettles`): a reported drift was found (`DriftsFound`), and if the contract
  inferred from a payload finds drift in the same payload, a field of it is null or
  was redacted (`SettledUnless`). `Hidden` and `Compared` are recursive functions
  down the tree of paths, and induction over data is not at hand; but the proof needs only
  that they are fixed points of their definitions, and a fixed point exists for
  every set of paths (`UpwardsDefined`, the largest one), so one unfolding at a time is enough.
  *Tenants* (`TenantTyped`, `RequestsIsolated`, `NamedStick`): rows are born and deleted but never moved (`Steady`), so what a guard found
  of a row stays true or the row is gone (`Belongs`, `OrgStays`); each handler's step
  has the one shape `Acts`, a change of rows of the request's organization, or none, and
  an answer from there. This is where the assumption that identifiers of
  different tables differ (they are UUIDs) and that rows respect their foreign keys
  (`TenantAssumption`) is needed. For the columns, `ColumnsInv` says that an update in progress
  on an endpoint that was not overlapped is the only one, and that what it read is still there.
- **`SidePathsProofs`**: the same order: the parts, then `SideParts` and what follows of the
  composition (`SideTyped`, `SideAlertsToldOnce`, `SideLimitKept`, `SideOutcomesTrue`).
  *Older outbox* (`ForwardingTypes`, `ForwardingHonest`): a record can be SENT only by a
  step that had an acknowledgement in hand; so the invariant says of every task and every
  retry that holds one that the webhook is in `acknowledged`.
  *Replay lab* (`LabTypes`): the verdicts on the steps already judged agree with their
  answers, and those of later steps are still empty, which makes the counts at the end
  those of the whole suite.
  *Findings* (`FindingsOnce`): a channel still to be posted to heard nothing, and the one being
  posted to accepted nothing and has a try left.
  *Digest*: buckets, summaries, instant messages, what was told and what was lost are a
  partition of the failures 1 to `recorded` (`FailuresPlaced`), and the buckets and the
  summaries are disjoint among themselves; a flush of any set of buckets moves part of one
  cell to another (`PartitionMoves`).
  *Limiter* (`LimitKept`): every call that counts in Valkey, or that a store let pass, can be given an
  epoch (the life of one counter or bucket, named by its start) and a number in it, such
  that no two calls share both, epochs are a window or more apart, and a call falls
  within its epoch (`Ledger`). The calls passed by one store in a span as long as a
  window then meet at most two epochs with at most `limit` numbers in each
  (`TwoEpochs`), an injection into `2 * limit`. The invariant says that such a
  numbering exists; nothing in the code keeps it.

**Only model-checked**: `EverySettled`, `AcceptedRuns` and `StopEnds`, since liveness under
fairness is beyond the prover. Every other property of a passing run is a theorem.
The claims of section 6 are refuted by TLC's counterexamples.

## 6. Findings

1. **Double delivery** (`NoDoubleDelivery`). The comment at
   `service/delivery_service.go:434` promises that atomic claims guarantee no double
   delivery. The lease starts at the claim and is not renewed, so a job that waits in the pool's channel, at the
   semaphore or at a slow upstream for over two minutes is recovered and delivered by a second worker
   while the first still sends.
2. **Submit may panic** (`SubmitNeverPanics`). `worker/pool.go:117` promises
   `ErrPoolClosed`; the flag is loaded before the send, and Stop closes the channel in
   between. In the poller goroutine nothing recovers.
3. **A retry can be lost** (`DuplicateWasProcessed`). The idempotency key is taken before the
   transaction and kept when that fails; the provider's retry is answered "processed before" though nothing was stored.
4. **A connected agent holds up the shutdown** (`ShutdownProceeds`). Main announces five
   steps (`src/backend/cmd/server/main.go:160-194`); the second is `GracefulStop`, which
   waits without a limit for streams that end only when their agents end them. While an agent
   stays connected the poller, the pool and the database are never stopped in
   order, and the process ends by being killed.

Divergences of text and code that the models show in passing, without a run of their own:

- `delivery/state.go:84` calls DELIVERED terminal. Outcomes are written by id alone and
  `CanTransition` is never asked, so the late holder of finding 1 turns a delivered job into RETRY_WAIT
  or DEAD_LETTER.
- The dashboard describes CAPTURE_ONLY as "only save, do not forward"
  (`src/frontend/app/(dashboard)/endpoints/page.tsx:752`); the back end does not know the
  mode and forwards.
- `service/forwarding_service.go:320` speaks of an atomic lease lock; no lease is taken, so a
  task and a retry by hand send the same record twice.
- `service/forwarding_service.go:212` leaves a record that the pool did not take "for the next
  queue batch"; `ClaimPendingOutboxJobs` has no caller, so it waits for a retry by hand.
- `security/ratelimit/limiter.go:38` calls the window sliding; it is fixed, and twice the
  limit passes around its end (`LimitHolds` states the bound that does hold).
- Accepting a drift stores a contract inferred from the redacted payload. A field that was
  null, or one that redaction made a string, drifts from it again: the exception in `DriftSettles`.
- `ai/sanitizer.go:90` calls its sanitization "zero-leakage", and `src/README.md:362` and `:557` say that all
  secrets and PII are removed before a model is asked. What the patterns match in the texts is; of
  the rest, `AiPrivacy` has behaviours that send: the value of a key with a telling name, or all but the
  first word of an own key's, in a text that is no JSON, also one that masking a bare
  number made so (`sanitizer.go:161`, `:168`, `:180`); everything below an array in an array
  (`:239-250`); an own key's member when the key was stored with spaces around it (`:223`, but `:176` trims); and
  the category, type and severity of a finding, unsanitized (`ai.go:410-417`). `MayBeSent` is the promise that does hold.

## 7. Not modelled, and why

Durations (backoff with its overflow for very large attempt numbers, Retry-After, lease,
timeouts): any order of their ends is allowed instead. The branches of delivery and
ingestion for a service built without a worker pool or database pool: only unit tests
build one. Headers, bodies and signatures of outbound requests: no property is about
them. The failures the outbox reports are a free choice of `Alerts`, and the limiter's refusal
one of `Ingestion`: composing them would add no behaviour. Ingestion's live events and
the spike flag: written and read by nobody in the pipeline. Replays dispatched to agents:
`DispatchReplayToAgent` has no caller. What a scan event on a stream does beyond its
rows (its error is dropped, nothing is answered). The listings of replays, deliveries, agents and
statistics: they read only, behind the guards that `TenantApi` models. Formats,
OpenAPI references and every array element but the first: neither inference nor
comparison distinguishes them in a way a property is about. The order of policy rules.
Regular expressions, cryptography and address tables: pure functions over text; of the
sanitizer that means what a pattern matches, not when and where it is applied. The
conversion of `maxRetries` to 32 bits when forwarding is configured
(`forwarding_service.go:103`): a limit is taken to fit. The
web client and generated protobuf code.

`RetryDLQRecord` falls back to requeueing the delivery job of the given id when there is no
record; that is `Replay` of `DeliveryQueue`.

## 8. Plan

1. `Gateway`: `Ingestion` composed with `DeliveryContract`, so that a webhook the
   provider was told is accepted is stored and in the end settled.
2. `Policy`: the order of rules, against a reference definition.
3. Liveness of the digest: under fairness of its ticker every failure is told or counted as untold.
