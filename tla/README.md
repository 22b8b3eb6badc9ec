# Verification of the SMS platform

The repository is a NestJS service that sells SMS sending: users hold a prepaid
balance, top it up through two payment providers, and send messages over a REST
API with API keys; accounts and their sessions use JWTs. Messages go through a
BullMQ queue to workers that call a carrier; payment notices go through a Redis
list to a poller. This directory holds TLA+ modules for the parts of it that are
concurrent, TLC configurations that check them on small instances, and proofs,
checked by TLAPS, for every size of instance.

Paths below are relative to the repository. `sms.service.ts` is
`src/modules/sms/sms.service.ts`, and so on.

## 1. Inventory

| Component | State it keeps | Operations | Talks to |
|---|---|---|---|
| SMS API, `sms.service.ts` | `SmsMessage` rows, `UsageLog` | `send`: look up the idempotency key, create and charge in a transaction, enqueue, set QUEUED or FAILED, log | billing, SMS queue, database |
| SMS queue, `sms.queue.ts`, `queue.service.ts` | BullMQ jobs `sms:<id>` | `enqueue` with 5 attempts and backoff; pushes of webhook jobs and dead letters | Redis |
| SMS worker, `sms.processor.ts` | the executions in progress | `processSendSms`, `onJobFailed` | BullMQ, database, carrier, dead-letter list |
| SMS providers, `providers/` | none | `send` accepts or throws | the carrier |
| Billing, `billing.service.ts` | `User.balance`, `Transaction` rows | `chargeSmsInTransaction`, `applyPaymentTopupInTransaction` | called inside the transactions of SMS and payments |
| Payments, `payments.service.ts` | `Payment`, `WebhookEvent` rows | `create`, `ingestWebhook`, `processWebhookEvent` | providers, replay protection, billing, Redis list |
| Payment providers, `click.provider.ts`, `payme.provider.ts` | none | `createPayment`, `verifyWebhook` | outside |
| Replay protection, `payments.service.ts:156-174` and `webhook-replay-protection.service.ts` | counters and nonces in Redis | two checks in a row: `validateWebhookReplay` (tolerance of the time stamp, `INCR`+`EXPIRE` of the nonce) and `validate` (drift, `SET NX EX` of a claim) | Redis client |
| Webhook processor, `payment-webhook.processor.ts` | the polls in progress | `pollOnce` every 100 ms in every process | Redis list, payments |
| Redis client, `redis.service.ts` | none; a socket per command | `INCR`+`EXPIRE`, `RPUSH`, `LPOP`, `SET NX`, each tried up to three times | Redis |
| Rate limiting, `rate-limit.service.ts` and two guards | counters in Redis | `consume` | Redis client |
| Authentication, `auth.service.ts`, `token.service.ts`, `jwt-auth.guard.ts` | `User`, `RefreshToken` rows; the secrets of each process | `register`, `login`, `googleLogin`, `refresh`, `refreshToken`, `JwtAuthGuard`; there is no logout | database, Google |
| API keys, `api-keys.service.ts`, two guards | `ApiKey` rows | `create`, `revoke`, `revokeAll`, `listMasked`, `ApiKeyGuard`, `ApiKeyRateLimitGuard` | database, rate limiting |
| Configuration, `env.schema.ts`, `app-config.service.ts` | the environment, read once per process | `parseEnv` and getters | everything |
| Process lifecycle, `main.ts`, `worker.ts` | which processes run | start, SIGTERM and shutdown, crash | everything |
| Metrics, `infrastructure/metrics/` | counters and gauges in the process | `inc`, `set`, `observe` | everything |
| Users, analytics, onboarding, health, docs, logging, tracing | none of their own | queries and output | database |

How they interact:

* A request to `POST /sms/send` passes the global throttle guard and the API-key
  guard, then runs `send`. It shares the database with every other request and
  with the workers; the only shared locks are the transaction's row lock on the
  balance and the unique index on `(userId, idempotencyKey)`.
* A worker owns a job as long as BullMQ's lock is renewed. When it is not, the
  job is given to another execution and both go on.
* A payment notice is a request to `POST /payments/webhook/<provider>`. It is
  stored and pushed on a list; some poll of some process takes it off and
  applies it. Polls do not wait for each other, so they overlap even inside one
  process.
* Tokens are signed and verified by each process with the secrets of its own
  environment. A secret is changed by restarting one process after another, so
  processes with old and with new secrets serve the same clients for a while.
* A key or a refresh token is a row that one request reads, another revokes and
  a third writes to, each in statements of their own.

What is hard in it: the lookups and the writes are separate statements between
which anyone may run; the queue, the database and the carrier are written one
after the other without a transaction over them; each call may take effect and
have its answer lost; workers and API processes die at any point; jobs are
repeated; the Redis client repeats commands that are not idempotent; Redis
forgets keys while calls that looked at them are under way.
`PROJECT.json` lists these under `hazards`, each at its line with the properties
that watch it.

What makes each component correct:

* SMS API: one charge per message and per idempotency key, a ledger row for each
  charge, refusals cost nothing, replays tell the truth.
* Worker: only stored and paid messages reach the carrier; a bounded number of
  times; a recorded success is not sent again; every accepted message is
  handled; failed jobs are dead-lettered once their attempts are used.
* Payments: a success and its credit are one step; a credit needs a verified
  notice over the payment's amount; duplicates credit once; an accepted notice is
  acted on; who pays what was asked for is credited.
* Rate limiting: a window lets no more requests pass than its limit, and it ends.
* Replay protection: no notice passes twice, though Redis forgets it; a counter
  is given a time to live; only a second call is called a replay.
* Sessions: a refresh token that was exchanged is refused from then on; a
  password that was confirmed stands; a rotation of the secret keeps the tokens
  it must and no others.
* API keys: a revoked key lets nobody in, whatever is still under way, and
  `revokeAll` misses no key its user knew.

## 2. Modules

| Module | Models |
|---|---|
| `Wallet` | The abstract promise of billing: a charge and its row, or a credit and its row, in one step, each message and each payment once, never below zero. |
| `Revocable` | The abstract promise of a credential: issued once, admits uses while it is live, revoked for good. |
| `SmsSending` | `send`, the queue, the workers and the carrier, down to each `await`. Implements `Wallet`. |
| `PaymentWebhooks` | `create`, `ingestWebhook`, `pollOnce` and the Redis list. Implements `Wallet`. |
| `ReplayWindow` | The two replay checks that open `ingestWebhook`, over a clock. |
| `RateLimiter` | `consume`, both guards, and the client's `INCR`, `EXPIRE` and retries. |
| `Sessions` | Accounts, refresh tokens and rotating secrets. Implements `Revocable`. |
| `ApiKeys` | API keys from creation to revocation, and the guards that let them in. Implements `Revocable`. |
| `SmsSendingProofs`, `SmsDeliveryProofs`, `PaymentWebhooksProofs`, `ReplayWindowProofs`, `RateLimiterProofs`, `SessionsProofs`, `ApiKeysProofs` | Theorems, section 4. |
| `MCSmsSending`, `MCPaymentWebhooks`, `MCReplayWindow`, `MCRateLimiter`, `MCSessions`, `MCApiKeys` | Values of the constants for TLC, and symmetry. |

`Wallet` is instantiated by both pipelines (`Bank == INSTANCE Wallet WITH ...`).
In `SmsSending` the debits are the messages with a deduction row; in
`PaymentWebhooks` the credits are the payments with a top-up row. The property
`ImplementsWallet` says that each step of the pipeline is one wallet step or
none. `Revocable` is instantiated by `Sessions`, where the credentials are the
`RefreshToken` rows, and by `ApiKeys`; a use is admitted at the moment its row is
read, and `ImplementsRevocable` says that it was live then.

### SmsSending

| Action | Code |
|---|---|
| `Lookup` | `findUnique` and the replay, `sms.service.ts:22-42` |
| `Create` = `Commit` / `Refuse` / unique violation / lost answer | the transaction, `sms.service.ts:44-61`, with `billing.service.ts:13-33`, and the counter on line 63 |
| `Enqueue`, `MarkQueued`, `MarkFailed`, `LogUsage` | `sms.service.ts:65-99` |
| `Take`, `Complete`, `Lapse`, `Reclaim`, `Stall`, `EndStale` | BullMQ: hand over, completion, lapse of the lock |
| `ReadRow`, `MarkRunning`, `Send`, `MarkSent` | `processSendSms`, `sms.processor.ts:68-103` |
| `Retry`, `Exhaust`, `HandlerMarkFailed`, `HandlerDeadLetter` | a throw, and `onJobFailed`, `sms.processor.ts:105-133` |
| `ApiCrash`, `WorkerCrash` | the end of a process at any await |

The transaction is one action: PostgreSQL orders two transactions that create
the same key or decrement the same balance, and rolls back as a whole. Every
write outside it is an action with two outcomes more under a fault: done, with
the answer lost, or not done. Phone numbers, texts and `validatePayload` are
left out: the requests of the model are those that pass it. The empty
idempotency key is kept apart from no key, since the code treats `''` as absent
when it looks up and stores it all the same.

`MetricsHasLabels` is a fact about the build. `send` calls
`smsSendTotal.labels(...)`. The `MetricsService` of `infrastructure/metrics` has
counters without that method, the unused one of `infrastructure/observability`
uses a library that has it. With `FALSE` the model throws where the code does,
on line 63; the same call in `onJobFailed` (`sms.processor.ts:120`) can then not
be reached, since no job is ever added (`InjectedBuildSendsNothing`), and
`HandlerMarkFailed` leaves it out.

`onJobFailed` is an event listener that nobody awaits. When one of its writes
throws or its process ends, the rest is never done, and its handler is `"lost"`:
`ExhaustedIsDeadLettered` excuses such a handler by name and nothing else.

### PaymentWebhooks

| Action | Code |
|---|---|
| `CreateRow`, `Link` | `PaymentsService.create`, `payments.service.ts:29-58` |
| `Deliver` | a provider's call, for a payment whose URL was given out |
| `Check` | `payments.service.ts:60-69`: the nonce is claimed, then the signature is verified, so a call refused for its signature has spent its nonce |
| `Upsert`, `Enqueue`, `MarkQueued` | `payments.service.ts:70-92`, `queue.service.ts:30-38` |
| `Pop`, `PutBack` | `payment-webhook.processor.ts:35-43` |
| `Read`, `Apply` | `processWebhookEvent`, read and writes of a READ COMMITTED transaction, `payments.service.ts:95-152` |
| `MarkProcessed`, `Retry`, `MarkRetrying`, `DeadLetter`, `MarkDead` | `payment-webhook.processor.ts:44-76` |
| `ExpireNonce`, `Ripen` | time passes |
| `Crash`, and `DieIn` within an action | a process ends; an error in the catch block, or outside it, is an unhandled rejection because the timer voids the promise |

Abstractions. A notice has a payment, one of the words the providers use for a
status (`mapStatus` reads them), a sign time, a number for an amount, whether it
came through the payment's own provider, and where its signature is.
Cryptography is the fact that a signature is valid where it is: `HasSignature`
finds one in the body always and one in a header only when headers are given,
which is so in `ingestWebhook` and not in `processWebhookEvent`.

Numbers are counted in ten thousandths, the precision of the column, and none is
converted that the code does not convert. `Hundredths` are what `toFixed` makes
of an amount. `Asked` is the number `createPayment` asks the client for: the
amount with two decimals for Click (`click.provider.ts:19`), the count of
hundredths for Payme (`payme.provider.ts:19`). `Verdicts` compares the number of
the notice as it came with the column, within the tolerance of
`payments.service.ts:137`, for both providers. So a Click notice over the number
that was asked for succeeds, and a Payme notice over the number that was asked
for, a hundred times the amount, ends FAILED; theorem
`PaymeCreditedForAnotherNumber` states what that means for credits. An amount
exactly half way between two hundredths may be rounded to either, and a
difference of exactly the tolerance may pass or not, since the code computes in
binary fractions.

The nonce is the provider's choice for each call, so a call may be repeated as
it was or sent again under a new nonce; it may expire at any time here, its time
to live being configured independently of the window. `ReplayWindow` has the
clock and the two commands. `assertWebhookTimestamp` and `assertWebhookNonce`
(`payments.service.ts:67-68`) are defined nowhere in the repository and are left
out; with the build as it is they would throw. What the provider is told at the
end is left out too: `webhookLatency.labels` (`payments.service.ts:90`) comes
after the last write, and the histogram that is injected has no such method, so
the call ends in a 500 with its event QUEUED and its job pushed. The step that
ends a call is therefore named for the event, `"queued"`. The Redis server
closes its connections in this module (section 3, `limit_stock`, shows the other
kind), and answers get lost: `Push` executes up to three times, `Pop` may drop
jobs, `Check` may refuse the nonce it has just stored.

### ReplayWindow

| Action | Code |
|---|---|
| `parseEnv`, `Tolerance`, `MaxDrift`, `Ttl` | `env.schema.ts:39-44,82-95` and the getters of `AppConfigService` |
| `Deliver` | time stamp of the first check, `payments.service.ts:156-168` |
| `Count` | `INCR` of the nonce, `payments.service.ts:170-174` |
| `Expire` | the `EXPIRE` after it, `redis.service.ts:18-24`, then `CheckDrift` |
| `CheckDrift`, `Claim` | `webhook-replay-protection.service.ts:13-35` |
| `Fail` | a command that failed for good, done or not; the end of a process |
| `Tick` | a second passes; a command and its repetitions take at most `Lag` |

A nonce header may be absent, empty or a text. The first check skips an empty
one (`if (!nonce)`, `payments.service.ts:158`); the second takes it as a nonce
(`??`, `webhook-replay-protection.service.ts:29`), so that all calls of one
provider with an empty header have one claim between them. `HasNonce` is the
first reading and `KeyOf` the second.

The time stamp may lie ahead of the server's clock by as much as it may lie
behind. So a claim has to be kept for twice the drift and the time a command
takes: this is `TtlAssumption`. The defaults of `parseEnv` (300 and 900; the key
is given twice there, and the second value wins) satisfy it, theorem
`DefaultsSuffice`. `.env.example` sets 600, which is twice 300 and leaves no room
for a command: in a deployment that copies it, a notice stamped five minutes
ahead can pass again in the last second of its window.

### Sessions

| Action | Code |
|---|---|
| `Register`, `CreateAccount` | `auth.service.ts:15-18` and `user.create`, 20-25 |
| `Login` | `auth.service.ts:27-34`, `verifyPassword` 86-92 |
| `GoogleLogin`, `Upsert` | `auth.service.ts:49-56` and `user.upsert`, 58-65 |
| `Present` | `verifyToken`, `token.service.ts:57-78`, for `refresh`, for `refreshToken` (`auth.service.ts:67-70`), which signs at once, and for `JwtAuthGuard` |
| `FindRow`, `Revoke`, `Issue` | the statements of `refresh`, `auth.service.ts:36-46`, and `issueToken`, 72-78 |
| `Rotate`, `Restart` | a new `JWT_SECRET`; a process starts with the newest, after a deployment or a crash |
| `Tick` | a second passes |

Secrets are numbered, and the previous secret of `k` is `k - 1`. A new one is
introduced only when every process has the last one, as two variables allow. A
client presents only tokens it was given, and addresses are tried by the clients
that `Own` lists. A pair of tokens is named by the request that was answered with
it. The checks of issuer, audience and token type (`token.service.ts:76-87`) and
of a token issued in the future are left out: every token here is one this
service issued, and clients present each kind where it belongs. Passwords and
signatures are equality: who knows them, and which secret made
them. `issueTokenPair`, which `refresh` and the logins call, is not defined in the
repository; it is modelled by its call, by `issueToken` and by the row that
`refresh` looks for. `AuthController` has two handlers of `POST /auth/refresh`:
`refresh`, over the row, and `refreshToken`, over the token alone, which is
declared second. Both are modelled, as operations `refresh` and `exchange`. The
second looks at no row: a revoked token exchanged there gets a new pair, so what
`Sessions` promises of revoked tokens is about the first.

### ApiKeys

| Action | Code |
|---|---|
| `Create`, `Insert` | `api-keys.service.ts:13-36` |
| `FindKey`, `RevokeKey` | `api-keys.service.ts:48-57` |
| `RevokeAll`, `RevokeKeys` | `api-keys.service.ts:59-65`, one statement over the keys ACTIVE when it runs |
| `FindActive`, `Touch` | `api-key.guard.ts:12-37` |
| `Limit` | `api-key-rate-limit.guard.ts:19-40`; the counting is in `RateLimiter` |
| `Crash` | the end of a process |

Expiry and scopes are left out: `create` stores neither, and the guard's branches
for them cannot be reached. A key that the guard found ACTIVE is used, even if it
is revoked before `Touch`; the properties speak of requests that arrive after the
revocation was answered.

### RateLimiter

`Begin`, `Incr`, `Expire` are the two commands of `incrementWithExpiry` under
`consume`, one guard after the other (`Route`); `Forget` ends a window; `Crash`
is the end of a process. `Unanswered` is `sendCommandWithRetry`: another try, or
after the third the throw that `consume` turns into "allowed". Counters are told
apart up to `Cap`, above every limit. `granted` and `uncounted` record what was
let pass, for the properties. `ServerHangsUp` is a fact about the deployment:
`sendCommand` takes an answer only when the connection closes
(`redis.service.ts:88`). With `TRUE` the server, or a proxy before it, closes
connections within the client's timeout, which is what the code supposes; with
`FALSE` it keeps them open, as the stock Redis of
`docker-compose.prod.yml:32-34` does. Both are checked; `LimitHolds` is about
either, `StockServerLimitsNobody` about the second. A route without one of the
guards is a client whose `Route` lacks its key.

## 3. Runs

Values are small, and chosen so that each interesting case occurs: two
contenders and a bystander where something is contended, two executions where
something overlaps, one more attempt than the first, one stall forgiven.

| Run | Instance | What it shows |
|---|---|---|
| `sms_charging` | 3 requests, 2 users with money for two messages each, keys: one, none, empty; 1 worker; 1 database fault | `LedgerBalances`, `OneChargePerKey`, `RepliesAgree`, `RefusedIsFree`, and `ImplementsWallet`. Three requests give a winner, a loser and a stranger with the same key; a balance of 2 pays a second charge for one key if the code let it through, and refuses the third message of one user. |
| `sms_restarts` | 2 requests, 1 worker with 2 slots, 2 attempts; carrier refusals without limit; 1 lost queue or carrier answer or crash | `TypeOK`, `OnlyPaidWork`, `WorkersKeepSent`, `RecordedIsNotResent`. Lost status writes and stalls are left out on purpose: with a stall the old execution writes over SENT and sends again, and with a lost write the next attempt does. |
| `sms_progress` | 1 message, 2 workers, 2 attempts, 4 faults of any kind, fairness | `SendsBounded` (with 4 faults the bound of attempts and stalls is reached), `ResendsHaveFaults` (every send but the first goes back to a fault of its own), `DeadLettersAreExhausted`, `AcceptedIsHandled`, `ExhaustedIsDeadLettered`, `ComesToRest`. |
| `pay_faults` | 1 payment of 3.0001, 2 notices out of 7 contents, 2 deliveries, 2 polls in 2 processes, 2 attempts, 1 fault of any kind | `TypeOK`, `SuccessIsCredited`, `CreditHasNotice`, `NoticeFindsPayment`, `ProcessedIsDecided`, `ImplementsWallet`. Two notices of two deliveries include the same notice twice, success against cancellation, an amount that is off by one unit and one that is a hundred times too large, a foreign provider, a signature in a header and none. |
| `pay_progress` | 1 payment of 3.05 through Click, success and cancellation, 2 deliveries, 2 polls in 2 processes, 1 fault of any kind, fairness | `UnderwayIsDecided`: whatever failed before, a delivery that got past the replay check, or a job that is on the list or held by a poll, ends in a decided payment unless something fails again. A job that died with its process, or was popped twice, is not under way; the notice delivered again is. `PaidAsAskedIsCredited`: under the same premise, who pays the number Click asked for is credited, unless another notice of the payment decides against it. |
| `limit_windows` | 2 clients behind one address (limit 2) and with one API key (limit 1), 3 lost commands or crashes, fairness | `TypeOK`, `GrantsWithinLimit`, `OneExpiryPerWindow`, `RefusalsEnd` |
| `replay_window` | 3 deliveries of 4 notices over 9 seconds, one without a nonce header, one with an empty one and two of two providers that chose the same, stamps ahead of the clock; drift and tolerance 2, time to live 6, lag 1; 2 lost commands or crashes | `NoReplay`, `CountersExpire`, `ReplayIsReal`. The time to live is the smallest that `TtlAssumption` allows, so that keys expire at the edge of the window. |
| `session_rotation` | 2 clients who share an address, one with another of their own, 3 requests in 2 processes, 2 rotations, tokens that live one tick, 1 fault | `TypeOK`, `LateReuseIsRefused`, `PasswordStands`, `RotationKeepsTokens`, `ImplementsRevocable`. Three requests are a login, a refresh and a refresh that overlaps it or comes late; two rotations are the fewest after which a token may be called forged. The second half of `RotationKeepsTokens`, that nothing older than two rotations is accepted, needs a third to fail and is out of the run's time: for it there is theorem `RotationAlwaysKeepsTokens` alone. |
| `key_revocation` | 2 users, 5 requests in 2 processes, 2 lost answers or crashes | `TypeOK`, `RevokedIsRefused`, `RevokeAllLeavesNone`, `ImplementsRevocable`. Five requests are two creations, a use under way, a revocation and a late use. |

Three runs end in a violation: each checks what a comment or a document of the
repository says and shows that the code does otherwise.

| Run | Said | Done |
|---|---|---|
| `sms_unlabelled` | `SMS_SENDING_HISOBOT.md:37`: QUEUED if the queue took it, else FAILED | With the injected metrics `send` throws on line 63 after the charge; the row stays PENDING with no job. |
| `pay_race` | `PAYMENTS_INTEGRATION.md:122`: a payment that is not PENDING is left alone | CANCELED is written by id after the read and overwrites a SUCCESS that another poll committed; the credit stays. |
| `limit_stock` | `rate-limit.service.ts:13`: fail-open for an infrastructure outage | The answer is read when the server hangs up. A stock Redis does not, so each command runs three times, times out, and every request passes. |

Other places where the code and what is said of it part, read off the code while
modelling and visible in the actions, with no run of their own:

* `sms.service.ts:85` answers "message was not scheduled" from a catch block that
  also covers a lost answer of the queue and a failed status write, after which
  the job exists and is sent (`Enqueue`, `MarkFailed`).
* `SMS_SENDING_HISOBOT.md:19` says that the status becomes SENT or FAILED; the
  late write of QUEUED can overtake SENT and stay (`MarkQueued`).
* `PAYMENTS_INTEGRATION.md:55` allows the signature in a header; the second
  verification gets no headers, so such a notice ends as a dead letter (`Read`).
* `refresh` revokes the old token before it stores the new one: if the second
  statement fails, the client holds neither (`Revoke`, `Issue`).
* An amount with more than two decimals, paid as it was asked for, may be FAILED
  by the comparison (`Verdicts`; hence the premise of `PaidAsAskedIsCredited`).
* Payme is asked for hundredths and its notices are compared in whole units
  (`Asked`, `Verdicts`). The one example of a notice in the documents is in whole
  units; one over the number asked for is FAILED.
* `rate-limit.service.ts:13` wants an outage not to drop all traffic; an outage
  between `INCR` and `EXPIRE` leaves a counter that never expires, and once it is
  over the limit its key is refused for ever (`Incr`, `Expire`). The same holds
  of a webhook's nonce (`ReplayWindow`).
* `queue.module.ts:23` sets no limit on BullMQ's own retries, so `send` waits for
  as long as Redis is down, after the charge.

Bounds. `MaxFaults` bounds the faults of a behaviour, in the guard of `Fault`;
refusals of the carrier are not faults and are not bounded. One fault is enough
to separate the outcomes of each call; `sms_progress` uses four since attempts
and stalls add up, and `limit_windows` three, the tries of a command.
`MaxAttempts` is 2 where the code has 5: the code compares the attempt with the
limit and with nothing else, and 2 has a first, and a last, attempt. `Tries` is
3 as in the code. The clocks of `session_rotation` and `replay_window` end
(`MaxTime`) after the last moment that is told apart from the one before: every
token has expired, every key of the first window is forgotten. `Cap` bounds
counters; above the limit the code does not tell them apart. Deadlock is checked
in every run: a model that comes to rest steps in place in `Quiescent`,
`Settled` or `Finished`, and stopping anywhere else is an error.

Symmetry is used on requests, users, workers, processes, notices and deliveries,
where the values of the constants do not tell them apart, in runs without
liveness only.

Fairness. Requests, slots, polls and the timers of a process that is up run:
Node's event loop serves them in turn, so each has weak fairness. BullMQ repeats
its check for stalled jobs, and time passes (`Reclaim`, `Ripen`, `Forget`).
`Sessions`, `ApiKeys` and `ReplayWindow` state safety only and assume no fairness.
Nothing is assumed about clients, providers, faults, crashes, or which of the
branches of an action is taken. The liveness properties of the payments and of
the limiter say what they demand of a behaviour with faults: `UnderwayIsDecided`
starts afresh after each fault with what that fault left under way. It does not
demand a lost job back: a crash between `LPOP` and the write, or a lost answer of
`LPOP`, loses it for good, and nothing in the code looks for an event that stayed
QUEUED; that the provider's next delivery repairs it is what is checked.
`RefusalsEnd` excuses behaviours with a fault, since a counter that missed its
`EXPIRE` is never repaired.

Every property of a passing run has a mutated form of a definition, next to it in
the module, that breaks it: a dropped guard, an uncounted attempt, a missing
transaction. `PROJECT.json` pairs them.

## 4. Proofs

All theorems hold for any finite or infinite sets and any values of the
constants that satisfy the module's assumptions (`KeysAssumption`,
`FundsAssumption`, `LimitsAssumption`, ...); the set of requests is finite since
`LedgerBalances` counts rows.

`SmsSendingProofs`:

* `TypeCorrect`: `Spec => []TypeOK`. The types alone are not inductive: that a
  job's attempts stay within `MaxAttempts` needs that a job that is waiting or
  active has attempts left, that its stalls are bounded while it can still
  lapse, and that an active job has a holder. `TypeInv` adds these.
* `OnlyPaidWorkHolds`: `PaidInv` adds that a request past its transaction has
  its row and its charge, and follows the message through job, slot, handler
  and dead-letter list.
* `LedgerAlwaysBalances`: inductive with the types; a charge adds one element to
  the user's rows (`FS_AddElement`) and takes one price.
* `OneChargeForAKey`: every paid message has a row, and `Commit` needs that no
  row has the key.
* `RepliesAlwaysAgree`: `RepliesInv` says who was told what: a client told
  "accepted" has its own paid row, one told "replay" has a paid row with its
  key; uniqueness of the key does the rest.
* `RefusalsAreFree`: a row belongs to a request that is past its transaction.
* `SendingImplementsWallet`: initial states map to initial states and each step
  to a `Charge` or to a stutter.
* `InjectedBuildSendsNothing`: with the counters that are injected no job is ever
  added, nothing reaches the carrier or the dead-letter list, no client is told
  of acceptance, and every message that was charged for stays PENDING, whatever
  fails. It is the general form of what `sms_unlabelled` shows. `UnlabelledInv`:
  no request gets past its transaction, so nothing downstream ever starts;
  `ResendsAlwaysHaveFaults` uses it for that build as well.

`SmsDeliveryProofs`:

* `SendsAlwaysBounded`: a message reaches the carrier at most `MaxAttempts +
  MaxStalled` times. An execution that lost its lock goes on beside its
  successor, so the bound counts hand-outs instead of attempts. `DeliveryInv`:
  the sends of a message and the executions that may still send it are together
  no more than the times its job was handed out, which its attempts and stalls
  record, and those are bounded.
* `DeadLettersAlwaysExhausted`: `LettersInv` adds the failure handlers that are
  still on their way; a job whose attempts are used, or which stalled once too
  often, is never handed out again.
* `RecordedNeverResent`, for fault kinds without stalls: `LoneRuns` says that an
  execution that is still running holds its job, so that a message has one at a
  time; `ReadHolds`, that a run which is about to send or to write QUEUED has a
  row that is not SENT, because nobody else could have written SENT since it was
  read.
* `WorkersAlwaysKeepSent`, for fault kinds without stalls and lost writes: the
  same, and `UnsentFailed`: a run which threw, and the handler of a job whose
  attempts are used, has a row that is not SENT. With a stall the old execution
  writes over SENT, and with a lost write a run that throws may have stored it.
* `ResendsAlwaysHaveFaults`, with no hypothesis on the faults: not inductive as it
  stands, since a second execution may be on its way. `SendsPaidInv` counts with
  the sends of a message what may still come without another fault: the
  executions that go on, and one more run if the job waits or will wait again
  because its holder threw or is gone. The carrier's refusal moves from one to the
  other; every step that adds to the sum adds a fault.

`PaymentWebhooksProofs`:

* `TypesHold`, `SuccessAlwaysCredited`, `CreditsHaveNotices`,
  `ProcessedAlwaysDecided`, `PaymentsImplementWallet`, and
  `NoticesFindPayments`, which the others need on the way, all from one
  `PipelineInv`. It follows a notice through the pipeline: a job is about a
  stored event and a payment whose URL was given out (`LiveJobs`), a poll about
  to credit holds a notice that deserves it and one about to write PROCESSED has
  seen its payment decided (`LivePolls`), and each attempt after the first was
  paid for with a fault. What these sets demand only ever grows more true, so
  each step is examined for what it changes and the rest follows from growth.
* `DecidedFinalUnlessContradicted`: how far the document that `pay_race` refutes
  is right, for any fault and any overlap of polls. If the notices of a payment
  agree on its outcome, then what is about to be written, and what is written,
  is that outcome (`OutcomesAgree`). It takes contradicting notices to change a
  decided payment.
* `PaymeCreditedForAnotherNumber`: a credited Payme payment of more than one
  unit has a stored notice of success over a number its client was not asked
  for. `HundredthsAreFar`: a hundred times the hundredths of an amount is
  further from it than the tolerance; the rest is `CreditsHaveNotices`, so it
  holds through every interleaving, repetition and crash.

`ReplayWindowProofs`:

* `TypesHold`, which no run checks since it is proved, and
  `CountersAreGivenALife`, inductive by itself.
* `NoticesPassOnce`: `WindowInv` says that a delivery that passed claimed its key
  no earlier than its window opened, and that one about to claim looked at the
  time stamp no more than `Lag` ago. With `TtlAssumption` the key outlives the
  window.
* `ReplaysAreReal`: `CallersInv` says who is behind each key: unless something
  failed, a counter above 0 has a delivery past its count, and a claimed key one
  past its claim.
* `DefaultsSuffice`: with none of the variables set, the assumption holds for any
  lag below five minutes.

`SessionsProofs`:

* `TypesHold`, `LateReuseAlwaysRefused`, `PasswordsStand`, from `SessionsInv`, a
  conjunction request by request: what its token's row looks like once `refresh`
  got past its second statement, what its account looks like once it was
  answered. A step changes one request, or ends several by a restart; rows are
  never unrevoked and passwords never replaced (`Grow`), so the others keep what
  they know.
* `RotationAlwaysKeepsTokens`: `FleetInv` adds that no process is behind by more
  than one secret and that no pair was signed with a secret to come.
* `RowsAreRevocable`: the refinement of `Revocable`.

`ApiKeysProofs`:

* `TypesHold`, `RevokedAlwaysRefused`, `RevokeAllIsFinal` from `KeysInv`, again
  request by request, with `KeysGrow`: `Touch` writes a row that may be revoked
  and leaves its status alone.
* `KeysAreRevocable`: the refinement of `Revocable`.

`RateLimiterProofs`:

* `TypeCorrect`: a request never runs past its guards or its tries.
* `LimitHolds`: `GrantsInv` adds that a key never granted more than it counted.
  It holds through losses, repetitions and crashes, and for both kinds of
  server, because each of them only counts too much.
* `StockServerLimitsNobody`: with a server that keeps its connections open, as
  the Redis the repository starts does, no counter gets a time to live or ever
  falls, no guard grants a request by its count, and every request that ends was
  let pass uncounted or met a fault, for any clients, limits and faults. It is
  the general form of what `limit_stock` shows. `StockInv`: nobody is ever past
  its first command.

Theorems with a hypothesis of their own besides the assumptions on constants:
those about `ReplayWindow` rest on `TtlAssumption`, which the defaults satisfy;
`RecordedNeverResent` and `WorkersAlwaysKeepSent` on fault kinds;
`DecidedFinalUnlessContradicted` on notices that agree. Two are about the build
and the deployment as the repository has them: `InjectedBuildSendsNothing`
(counters without labels) and `StockServerLimitsNobody` (connections kept open).

Model-checked only: liveness (`AcceptedIsHandled`, `ExhaustedIsDeadLettered`,
`ComesToRest`, `UnderwayIsDecided`, `PaidAsAskedIsCredited`, `RefusalsEnd`),
which depends on fairness and `ENABLED` and is out of this prover's reach, and
`OneExpiryPerWindow`, which speaks of a server that closes its connections and of
behaviours without a fault. Every other invariant, action property and refinement
that a passing run checks is a theorem as well.
No module here declares a RECURSIVE operator and no proof needs induction over
data.

## 5. Not modelled

* Provider routing, webhook security, observability metrics and the queue
  connection service: no running code calls them.
* Users, analytics, onboarding, health, documentation, logging, tracing: no state
  of their own.
* Password hashing, JWT encoding and HMAC: library calls.
* `deductForSms` has no caller.
* Configuration other than the replay windows, secrets and lifetimes: read at the
  start and compared with nothing that changes.
* The values of counters and gauges: nothing reads them but the scraper. That
  `send` can throw on one is modelled.

Parts of the source carry the marks of an unfinished merge: names that are
called and not defined (`issueTokenPair`, `hashToken`, `verifyAccessToken`,
`secretForKid`, `assertWebhookTimestamp`, `assertWebhookNonce`,
`expiresInDays`), a handler that appears twice (`AuthController.refresh`), a key
that is given twice (`parseEnv`), a database service without an accessor for
`RefreshToken`. Where a module meets one it is modelled from its call, its tests
and what stands beside it, and named above. A numeric variable that is set and
empty is read as 0 by `parseEnv`; `Env` holds the numbers that are read.

## 6. Plan

Done: the modules of section 2 with their proofs. Left, in this order:

1. Both pipelines over one wallet, with a user who tops up while sending.
2. The queue-depth gauges, counted in several processes that each set their own.
