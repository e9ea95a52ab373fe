# A verified model of statelog

statelog decides whether the holder of an access right may use it or hand it
on, writes every decision into a log, bills it, and announces it to webhooks.
This directory holds TLA+ modules that model the parts of it in which
concurrency and failure matter, TLC configurations that check them on small
instances, and proofs, checked by TLAPS, for every value of the constants.

## The system

The deployment (`docker-compose.prod.yml`) is two uvicorn processes
(`--workers 2`), one outbox worker that the supervisor starts again when it
ends (`restart: unless-stopped`), PostgreSQL at READ COMMITTED, and Redis.
Sessions are opened with `autoflush=False` and `expire_on_commit=False`
(`app/database.py`): what a request has read stays as it was, and what it
changes is written when it commits.

| Component | State | Operations | Hard because |
|---|---|---|---|
| Access decision, `POST /request/access` (`main.py`) | `request_logs`; what each request has read so far | read the right, look up the key, mark the token, evaluate, commit, recover | many statements, one commit: everything it decided on can have changed |
| Tenant quota | `tenants.usage_count` | early check, reserving `UPDATE` | the early check is stale by the time of the commit |
| Rights and tokens | `access_rights` with a version column | create, revoke, transfer; issue a token | revocations and transfers compute the next version from a loaded row |
| Replay store (`replay_protection.py`) | marks in Redis, or in each process | `mark_if_first_seen` | shared or not, failing open or closed, expiry |
| Decision cache | one dictionary per process | get, set | an answer without a look at the right |
| Outbox worker (`outbox_worker.py`) | `outbox_events` with claim and lease; `webhook_delivery_attempts` | select, claim, post, fence and finalize, release | leases that expire under a working owner, crashes, partial failure |
| Webhook subscriptions | `webhook_subscriptions` | create, disable, re-encrypt the secret | change while the worker goes through them |
| Secret re-encryption (`webhook_service.py`) | claim columns of `webhook_subscriptions` | claim, re-encrypt, commit once, release | like the outbox, but one commit for a batch and no check of the lease |
| Policy and workflow administration | versioned rows, history tables | create, update, delete | the history must hold every version a decision used |
| Audit replay | reads logs and histories | recompute a decision | needs the versions of that day |
| Risk, policy and workflow engines | none | pure functions | order of policies, boundaries of scores |
| Rate limiter | counters in Redis, or in each process | allow | windows, failing open or closed |
| Tenants, clients, devices; audit queries, dashboards; keys, JWT, encryption; configuration; metrics and logging | single rows or none | single-statement endpoints, read-only queries | not hard to test |

The parts meet in the database and in Redis. A decision writes its log, the
quota and its events in one transaction; the outbox worker picks the events up
later. The properties that make each part right are stated where it is
modelled, below, or in the plan at the end.

## The modules

| Module | What it is |
|---|---|
| `Outbox` | what the outbox promises, without claims, leases or processes |
| `OutboxWorker` | `deliver_pending_events` in any number of worker processes |
| `OutboxWorkerProofs` | theorems about it |
| `DecisionLedger` | what decisions and revocations promise: each in one step |
| `AccessDecision` | `request_access`, `revoke_right` and `token_issue` in any number of processes |
| `AccessDecisionProofs` | theorems about it |
| `SecretReencryption` | `reencrypt_webhook_secrets` in any number of processes, through rotations of the key |
| `SecretReencryptionProofs` | theorems about it |
| `ConfigHistory` | policies and workflow configuration, their histories, and the replay that looks versions up |
| `ConfigHistoryProofs` | theorems about it |
| `Engines` | risk, policy and workflow engine as functions; no state |
| `AuditReplay` | decisions that the engines make from the log, and what a replay computes |
| `AuditReplayProofs`, `DecisionRuleProofs`, `ReplayProofs` | theorems about it: the replay is stable; policies decide by the rule; the replay agrees with the decision |
| `PolicySimulation` | the simulation endpoint around the policy engine |
| `RateLimit` | the counters in Redis and the deque of each process |
| `RateLimitProofs` | theorems about it |
| `MC...` | one instance for TLC of each specification |

An operator that is commented as a *defect* changes one definition of the code
the way a plausible bug would. No specification uses it: it documents which
slip a property catches, and with it in the place of the right definition TLC
finds that property violated.

### OutboxWorker

One action is one database statement, one transaction whose statements hold
the row lock, or one HTTP request.

| Action | Code in `outbox_worker.py` |
|---|---|
| `SelectDue` | the `SELECT` at the head of a cycle, ordered by `created_at` and limited to the batch |
| `ClaimOutboxEvent`, `ClaimMisses` | `_claim_outbox_event`: the conditional `UPDATE`, by row count |
| `GetEvent` | `db.get` and the check of the token; the loaded row gives the in-memory `attempts` |
| `LoadSubscriptions` | the subscriptions of the event, `attempts += 1`; no subscriptions go straight to the fence |
| `CheckDelivered`, `RecheckEnabled`, `Post` | the body of the loop over subscriptions |
| `LeaveSubs`, `Finalize`, `FenceLost` | the fence and the commit behind it, or the rollback |
| `CommitFails`, `ReleaseOutboxClaim` | the commit raises; rollback, release by token, and the exception ends the process |
| `Crash` | the process ends anywhere and is started again with nothing in memory |
| `CreateWebhook`, `DisableWebhookSubscription` | the two endpoints of `main.py` |
| `Tick` | a second passes |

Time is kept as the distance of `next_attempt_at` and `claim_expires_at` to
the current second. A statement compares with an instant that was read before
it ran; `MaxLag` bounds how long before.

### AccessDecision

`pc` says which statement of `request_access` a request comes to next, `view`
what its session has read. `reserve_tenant_quota` is the first statement that
writes and takes the row lock of the tenant, so that from there to the commit
no other request of the tenant can write: `Commit` is one step, and so is each
way it can fail.

| Action | Code in `main.py` |
|---|---|
| `Refuse` | rate limits, device, tenant, scope of the token |
| `Admit` | the token is decoded, the tenant is read |
| `ReadRight` | valid, and owned by the token's subject |
| `LookupIdempotencyKey` | the log under the key: the answer, a conflict, or nothing; `enforce_tenant_quota` |
| `MarkToken` | `HybridReplayStore.mark_if_first_seen`: in Redis, which may fail, or in the memory of a process that found no Redis when it started |
| `Evaluate` | a cached answer, or a verdict |
| `Commit`, `CommitUnacknowledged` | quota, right, log and events together; the answer reaches the client or not |
| `ReserveFails`, `CommitConflicts`, `CommitFails` | 429; `IntegrityError` or `StaleDataError`; any other database error |
| `RecoverWinningLog` | the log that won under the same Idempotency-Key |
| `TokenIssue`, `TokenExpires`, `MarkExpires`, `CacheEntryExpires` | tokens and what lives as long as they do |
| `LoadRightToRevoke`, `RevokeRight`, `RevokeFails` | `revoke_right`, between its read and its commit |
| `Crash` | a server process ends with its requests, its marks and its cache, and is started again with or without Redis |

The verdict of risk, policies and device is one free choice: none of the
properties depends on how it comes about, and they hold for every engine. A
fingerprint is the token and the new owner, the only fields of it in which two
calls of one client can differ here.

`redis` says which processes have a Redis client. One that gets no answer from
Redis when it starts has none until it ends (`main.py:277-284`), and then
`HybridReplayStore` marks tokens in the memory of the process, whatever
`fail_closed` says. `keeper` is a history variable: the store that each request
had to ask. Redis itself keeps its marks (`--appendonly yes` in
`docker-compose.prod.yml`); one that loses them is not modelled.

### SecretReencryption

A call of the endpoint selects rows, claims them one by one, re-encrypts all
that it claimed and commits once. `pending` is what it has written and not
committed: other calls that would update such a row wait.

| Action | Code in `services/webhook_service.py` |
|---|---|
| `Begin`, `SelectCandidates` | the active key and `now`, read once; the candidates, ordered by id and limited |
| `ClaimWebhook`, `ClaimMisses`, `EndClaims` | the loop over `_claim_webhook_for_reencryption`, up to the limit |
| `Decrypt`, `DecryptFails` | `db.get`, and the key of the keyring that decrypts; without one, `ValueError` |
| `Write`, `WriteMisses`, `Commit` | the `UPDATE` behind the claim token, by row count; the commit of the batch |
| `StatementFails`, `CommitUnacknowledged`, `ReleaseClaim`, `Raise` | the exception handler: rollback, release of every claim |
| `ClaimUnacknowledged`, `ReleaseFails`, `Crash` | what leaves a claim to its lease |
| `Redeploy` | a process is restarted with another keyring or active key |
| `CreateWebhook`, `Tick` | the endpoint of `main.py`; a second passes |

The operator of `Redeploy` is a careful one, who only goes forward: a key is handed to every
process before one makes it active, and dropped when every row is verified to
be under another. Labels of rows from before the `verified` column may lie.

### ConfigHistory

A policy and the workflow configuration are *documents* with a version column.
A change is two actions, its reads and its commit; the replay of a logged
decision looks a version up in the record and then, in a second statement, in
the history.

| Action | Code in `main.py` |
|---|---|
| `CreatePolicy` | `create_policy` |
| `LoadUpdate`, `LoadDelete`, `LoadWorkflow` | `update_policy`, `delete_policy`, `update_workflow_config` up to the commit, with the answers 404, 409 and 422 |
| `Commit`, `Stale`, `CommitFails`, `CommitUnacknowledged` | `commit_or_409`: history row and change together, where the version is still the one read |
| `Refresh` | `db.refresh` behind the commit |
| `UsePolicy`, `UseWorkflow`, `Log` | what a decision loads, and its log |
| `ReplayWorkflow`, `ReplayPolicy` | `load_workflow_config_version`, `load_policy_version` |

### AuditReplay, Engines, PolicySimulation

`Engines` has `Signals` and `RiskDecision` (`risk_engine.py`), `Matches`,
`InForce`, `Precedes` and `Deciding` (`policy_engine.py`), `ResolveAllowed`,
`DecisionSource` and `DecisionPath` (`workflow_engine.py`). What the code
counts against a literal is a constant, so that a small instance reaches it;
the weights of the signals are the code's.

`AuditReplay` puts the engines into the steps of a request: `ReadRecent` (the
clock and the first `SELECT` of `load_risk_history`), `Evaluate` (the second,
the policies, the configuration and the engines), `Stamp` (the quota's
`UPDATE`, which takes the row of the tenant, and the `INSERT`), `Commit` or
`Fail`. `Administer` changes policies and workflow, `Tick` is the clock. `Replay`
is `replay_audit_log`, a function of a log and of what is visible.
`PolicySimulation` is the one handler `simulate_policy`.

### RateLimit

One action is one command of Redis, or one operation of the deque in a thread:
`ReadClock`; `Incr`, `IncrFirst`, `Expire` and `RedisFails`, with the command
or only its reply lost; `SeeHead`, `PopLeft`, `Check`, `AppendNow`; `Tick`.
`redis` and `fail_closed` are chosen at the start. Time passes between any two
steps of a call, for the Redis client has no socket timeout; `late` collects the
calls whose INCR came after the second that EXPIRE adds to the window.

## What the runs show

| Run | Instance | What it shows |
|---|---|---|
| `outbox_race` | 2 workers, 1 event, 2 subscriptions, 2 attempts, a lag of 1, 1 crash, 1 slipped lease | the fence keeps everything consistent while two workers hold the same event |
| `outbox_live` | 2 workers, 1 event, 1 subscription | the event settles although a worker may crash and subscribers may never answer |
| `outbox_batch` | 1 worker, 2 events, a batch of 1, 3 attempts | a failing event at the head of the queue does not hold back the next for ever |
| `decision_race` | 3 requests in 2 processes, 3 tokens, 1 revocation, quota 2, failing closed | requests and a revocation have the effect of steps made one at a time |
| `decision_faults` | 2 requests, 2 tokens, 2 revocations of one right, 2 faults, processes with and without Redis, failing closed | what is committed and what is answered agree after crashes and failing commits; a token is decided on once in each replay store |
| `decision_retry` | one access sent 3 times, failing open, 1 fault | cached, recovered and computed answers are all on record; none that was cached can be found for a revoked right |
| `reencrypt` | 2 calls in 2 processes, 2 secrets, a rotation from key 1 to 2, a lease of 1, 1 fault, 1 lost claim | no secret is lost, and in the end all are under the new key |
| `config_history` | 3 changes of 2 policies and the workflow, up to version 3, 1 decision | the history has no gap and no double; a replay finds what was used |
| `audit_replay` | 3 decisions about one right, 2 inputs, 2 regimes of policies, around midnight | a replay agrees where it promises to, and never changes its answer |
| `rate_limit` | 5 calls in a process, a limit of 2 in windows of 2 seconds, a clock up to 3, commands as late as that allows, 1 fault | how many calls are let in at most, with Redis and without |
| `policy_simulation` | policies with and without an end of validity | a violation: see *Findings* |
| `transfer_repeated` | one transfer sent twice | a violation: see *Findings* |

What is checked, in short.

* Outbox: one committed success per event and subscription; attempt numbers
  that never collide, none of them burned; a dead letter exactly at the last
  attempt; no second POST by a live owner to a subscription that was served;
  settled events stay settled; a live claim is not stolen; *delivered* waits
  for every enabled subscription; all of it implements `Outbox`; every event
  settles.
* Decisions: usage, logs and events agree one to one; no lost update of a
  right; no answer that is not on record; use of a right only by its present
  owner; all of it implements `DecisionLedger`. Failing closed, a live token is
  decided on once in each replay store (`OneDecisionPerToken`): once for all
  processes that found Redis when they started, and once in each process that
  did not, for as long as it lives. Between stores nothing holds, so a token
  that was spent may be decided on again by a process that was started while
  Redis was down. A cached answer that can be found under the present version
  of a right tells of a valid right of the token's user
  (`CachedVersionIsUsable`): an entry does not outlive the version it was
  given for.
* Re-encryption: whatever could be decrypted stays so in every process, the
  outbox worker among them (`SecretsReadable`); a verified label names the key
  (`LabelsTruthful`); a live claim ends only by its owner (`LiveClaimKept`);
  no claim is left behind without a crash or a lost statement
  (`NoOrphanClaims`); after a rotation all secrets come under the new key
  (`EventuallyCurrent`).
* Histories: every old version is in the history once, without a gap
  (`HistoryComplete`); no two changes together put the end of a policy's
  validity before its start (`WindowOrdered`); 200 and 4xx tell the truth about
  the change (`AnswersHonest`); a replay finds the versions and contents that
  the decision used (`ReplayFaithful`).
* Decisions and replays: the policy that decided is in force, matches and has
  the right of way by a rule stated without the sort (`DecidedByRule`); a replay
  agrees with its decision, though it evaluates one policy only
  (`ReplayAgrees`), and stays the same whatever is logged later
  (`ReplayStable`). `ReplayAgrees` names its exceptions: a decision that was
  overtaken by another while it was made, one across a boundary of time, and a
  transfer denied for its owner, of which the replay knows nothing. However
  many requests are side by side, a decision misses no more than one of the logs
  before the clock that it read (`OneOverlooked`).
* Rate limits: in Redis no window of the clock is granted more than the limit
  to the calls that are counted in it or in the second that EXPIRE adds, however
  late other calls come (`RedisLimit`); a call that is later may find the
  counter gone and begin another; a deque that threads share grants at most one more for each
  call that met another there (`MemoryLimit`).

### Bounds

Two workers, two subscriptions and three claim tokens are the least with which
one worker can be stale on an event that another has claimed and a third claim
is possible. `MaxAttempts` of 2 gives a retry and a dead letter, 3 with two
events gives different backoffs in one queue. One slipped lease makes a stale
owner. Three requests are the least for a winner, a loser and a request that
finds both finished; the quota of 2 leaves one of three without. Three tokens
of one right (a transfer, an access, and the transfer back by the new owner)
let a right change hands and return; `decision_faults` is without the transfer
back, and chooses for each process at its start and after each crash whether it
found Redis, which the other decision runs take for granted (`RedisAtStart`). `MaxCrashes`, `MaxSlips` and `MaxFaults`
bound what goes wrong; the proofs hold for every value of them. Requests are
symmetric in the decision runs, workers and subscriptions in `outbox_race`;
the liveness runs use no symmetry.

For re-encryption two secrets make a batch of which one row can be lost to
another call; two processes are the least between which a rotation can be half
done, and a lease of 1 runs out under a call that takes 1 second. Three changes of
a document are two that race and one that archives the winner; version 3 gives
a history of two rows. In `audit_replay` an hour has two units and the clock goes
from 46 to 49, from hour 23 to hour 0; the bursts are of one or two logs, so
that three decisions set off every signal, and the regimes have windows past
midnight, a policy that expires, and a tie of priorities. Five calls are the
limit of 2 twice and one more. A clock up to 3 has two windows of 2 seconds, and
the second after the first one: a counter that EXPIRE had not made to outlive
its window would be gone by then. A call that is late beyond that second needs
a longer clock (with 4 the run is as clean and four times as long); the proof
covers every one.

`outbox_*` and `reencrypt` are checked for deadlock: time always passes, or the
administrator calls again. In the other runs the system may really stop: all
requests have been answered and the clock is at its bound.

### Fairness

`EventuallySettled` assumes `WF_vars(Tick)`, that time passes, and
`WF_vars(WorkerStep(w))`, that a worker that can go on does: `run_worker` is an
endless loop, every POST has a timeout, and the supervisor starts a process
that ended. Nothing obliges a subscriber to answer 2xx, a subscription to be
created, or a process not to crash. One assumption is not the code's: a lease
runs out under a working owner only `MaxSlips` times. With so many slow
subscriptions that every cycle outlives its lease, the fence fails every time
and the event never settles; no statement of the code prevents it.

`EventuallyCurrent` assumes that time passes, that the statements of a call
return (`WF_vars(CallStep(c))`), and that the administrator calls the endpoint
again and again (`WF_vars(Begin(c))`): it answers whether rows remain for just
this. Faults and lost claims are bounded, as above. It is stated for secrets
that some key decrypts: one that no key does fails every batch it is in, and
the rows with greater ids wait behind it.

## What is proved

For every value of the constants that satisfies the module's `...Assumption`:
any number of workers, events, subscriptions, requests, calls, processes, rights
and tokens, any lease, batch, backoff, quota, limit and budget of faults.
`PROJECT.json` lists the theorems.

**OutboxWorker.** The invariants of the database are not inductive: that a
finalizing worker writes a fresh attempt number depends on its memory. `IInv`
adds, for each worker, what its local variables can be at each statement
(`WorkerOK`, `RowsOK`, `VisitOK`), that claim tokens name one worker and one
event (`TokensOK`), and the central argument, `OwnerOK`: as long as a worker's
token stands in the row, nobody else can have finalized the event, so what it
read is still true. The fence checks exactly this. One lemma per action shows
that `IInv` is preserved; the action properties and the refinement of `Outbox`
follow from it step by step.

**AccessDecision.** Four layers, each using those below.

1. `SafeOK` is the types and `Seen`: a row that a session has loaded is the
   row of today or one of an older version (`Current`), because every change
   of a right is its next version. With it, a commit that finds its version
   unchanged has seen the right as it is: `UseByOwnerOnly` and the refinement
   `LedgerImplemented` follow.
2. `Recorded` ties answers, logs and cache entries together: a log exists only
   for a request that is answered, and a cached or recovered verdict leads
   back to a log with the same fingerprint. It gives `AnswersRecorded`.
3. `Books` counts: usage is the number of logs, each with its two events. It
   gives `DecisionsBilledOnce`. `Versions` counts transfers and revocations
   and gives `NoUpdateLost`.
4. `Exclusive`: who has got past the replay store has its mark in the store it
   asked for as long as the token lives and the store does, and is the only one
   there with that token. It gives `TokenUsedOnce`, for stores that fail closed:
   Redis, or the memory of a process that has no Redis.

`CachedUsable` is a layer beside them (`UsableMoves`, `UsableStep`): a request on
its way to the commit has seen a valid right of its user under the version that
it has read, and every change of a right is its next version, so that what is
cached under today's version is said of today's right.

**SecretReencryption.** Three layers. The types. The keys: every process holds
every active key (`KeyShared`), and a call that runs works with the active key
of its process, for a restart ends it (`KnowsKey`, `WroteWithKey`); so what it
writes is under the key it writes as label, and `LabelsTruthful` and
`SecretsReadable` hold through every rotation. The claims: what is written and
not committed is owned (`PendingOwned`), so that no lease that runs out takes a
row from under a commit, and claims are accounted for by a call or by a loss
(`Accounted`); `LiveClaimKept` and `NoOrphanClaims` follow.

**ConfigHistory.** `IInv` says of every version that anyone may still refer to
that it is the row or in the history with the same contents (`Remembered`), of
ids that they are not used before they are handed out (`Unborn`), and of what a
request has read that it is the row of today if the versions agree
(`LoadedOK`). The last is what the version column is for: a change that touches
one column of a row read earlier is a change of exactly that row, and
`WindowOrdered` survives two of them. `MissedOK` is the replay between its two
statements: a version that was not in the record is in the history from then on.

**AuditReplay.** `ReplayStable` holds for whatever the engines compute: at most
one request of a tenant is between its stamp and its commit, for it holds the
tenant's row (`StampedOK`), so that logs become visible in the order of
`created_at`, and no later one is before a log that is visible. `DecidedByRule`
is proved for every finite set of policies with unique names: `Precedes` is a
strict order that is total on them (`OrderOfPolicies`), so that one candidate
comes before all others (`FirstExists`, by the well-foundedness of the strict
subsets of a finite set), and the comparisons of hours are those of an arc of
the clock (`HoursOnClock`). The assumption on `Regimes` is what the schemas and
`uq_policy_name_per_tenant` enforce.

`ReplayAgrees` rests on two arguments. The first is about the engines: they look
at a history through two windows of at most an hour and at its latest logs, so
that any history which has the last hour and the latest `LatestLimit` logs of a
past shows them what the whole past would (`WithinOf`, `LatestOf`); and the policy
that decided decides again when it is the only one, for within `Deciding` it has
matched and nothing came before it (`DecidingAgain`). The assumptions on the
constants say that the engines look no further than `load_risk_history` reads:
5 and 10 logs against a `LIMIT` of 10, 15 minutes against an hour. The second
argument is about the interleaving, for the decision reads its history in two
statements while others commit. `JInv` says of each decision that it was taken
from such a history of exactly the logs that it saw. To keep it, `ReadOK`
follows what the first statement misses: logs that are later than all it has
read, and that were stamped no earlier than the clock of the request, but for
the one that was between its stamp and its commit, and there is one at most.
The second statement reads the latest `LatestLimit` up to that clock, so that it
finds them (`HistoryWhole`). `DecidedOK` says the same of a decision that waits
for the row of the tenant, and gives `OneOverlooked`.

That needs a condition which the code meets and the model does not: that fewer
than `LatestLimit` logs of a right bear one `created_at` (`Apart`). In the code
a time is a microsecond, and between two stamps lies a commit, as the row of the
tenant is held; in the model any number of requests comes between two ticks.
`Agreement` has the condition, `AgreementOfFew` does without when there are at
most `LatestLimit + 1` requests, as in the run. The number is exact: with
`LatestLimit`, `RecentLogs` and `CountryLogs` of 1, a `TransferBurst` of 2 and
three requests, TLC finds a decision whose history lacks the first of two transfers
of the same time, both committed between its two statements.

**RateLimit.** Grants and promised grants of a window to calls that are not late
(`Occupied`) are no more than its counter says and no more than the limit
(`CountOK`), and a counter lives through the second after its window (`KeyOK`):
EXPIRE comes no earlier than the time its call has read, and from there that
second is at most the length of a window away (`GraceSoon`). A late INCR may
find the key gone and begin from one, but then the second is over, and all that
is counted from there on is late. `RedisBound` assumes nothing of how late a
command comes.

`MemoryBound` assumes nothing but finitely many calls. While no two calls have
met at the deque of a process (`AloneOK`), the call there works on what it has
seen: the entry that it takes off is the old one at the head (`AloneAtPop`, hence
no `IndexError`), and the room it has seen is there when it appends. When calls
meet that is lost, and the proof counts. `DequeOK` says of every time `t` from
which a window may still get a grant (`Open`): either the deque has an entry for
every grant after `t` to a call that was alone, behind the entries of `t` and
before (`Kept`); or calls that met have dropped entries after `t` (`Lost`), at
most one each, as a call looks at the head again before it drops another, and
then the grants after `t` are no more than the entries left and the calls that
are not about to drop one. `WindowOK` is the bound itself for the window that
begins at `t`, the calls that met and are finished being those of the second
summand.

Only model-checked: `EventuallySettled` and `EventuallyCurrent`, liveness under
fairness being out of the prover's reach. Every safety invariant and every action
property of the passing runs is a theorem. `SimulationAnswers` and
`RepeatedCallIsRecognized` are what the code does not keep, see below. `MInv`
and `JInv` were checked by TLC on the instances of the runs before they were
proved.

## Findings

**A repeated transfer.** `README_TECHNICAL.md` lists idempotent request processing among the key
features. `request_access` checks the owner of the right before it looks the
Idempotency-Key up. A client that sends an ownership transfer and repeats it,
because the answer was lost, is no longer the owner: it is answered
`403 owner_mismatch`, although the decision is on record under the same key
and fingerprint. `transfer_repeated` shows it. By the same order of checks an
access that is repeated after a revocation would be answered 404.

**Simulation of a policy that expires.** `simulate_policy` passes a context
without `now`. `PolicyEngine.evaluate` leaves `valid_from` aside then and compares
`expires_at` with `None` (`policy_engine.py:77`): a simulation that reaches a policy
with an end of validity raises `TypeError` and is answered 500, where the tests
expect 200 of a valid simulation (`tests/test_policy_admin.py:995`) and
`ROADMAP.md:49` lists validity windows as done. `policy_simulation` shows it.

## Not modelled, and why

Pure input and output: metrics, logging, health, dashboards, audit queries and
the listings of histories. Cryptography and libraries: tokens, secrets and
hashes are names; what matters of a ciphertext is which key made it. Validation
of settings at start, and the migrations. Endpoints that write a single row with
a single statement (tenants, clients, devices, creation of rights): their
refusals are in `Refuse` of `AccessDecision`, what they do is easy to test. The
rate limits on other endpoints are further keys of `RateLimit`. A payload that
`json.loads` cannot read is left out of the worker: `emit_event` only writes
`json.dumps`. Of a policy's columns `ConfigHistory` has the two whose order is
checked.

## Plan

Done: the outbox, decisions, re-encryption, histories, replay with the engines,
rate limits. What is left, in this order.

1. `Announcement`: `DecisionLedger` and `Outbox` composed, so that each recorded
   decision reaches its subscribers or is dead-lettered.
2. Tenants, clients and devices that are disabled while a decision is made:
   which of them the commit still respects.
