-------------------------- MODULE PaymentWebhooks --------------------------
(***************************************************************************)
(* Topping up a balance, from POST /payments/create to the credit.         *)
(*                                                                         *)
(*   - PaymentsService.create stores a PENDING payment, then its external  *)
(*     identifier, then hands the payment URL to the client.               *)
(*   - A provider notifies the outcome.  It delivers a notice at least     *)
(*     once, and the notices of a payment in any order.                    *)
(*   - PaymentsService.ingestWebhook claims the nonce of the delivery,     *)
(*     verifies the notice, stores it as a WebhookEvent and pushes a job   *)
(*     on a Redis list.                                                    *)
(*   - PaymentWebhookProcessor.pollOnce runs every 100 ms in every API and *)
(*     worker process and does not wait for the poll before it, so polls   *)
(*     overlap.  A poll pops one job and applies the event in a READ       *)
(*     COMMITTED transaction whose read and writes are separate steps.     *)
(*   - RedisService repeats a command whose answer it did not get, so one  *)
(*     call may take effect more than once.                                *)
(*                                                                         *)
(* An event is named by its notice: distinct notices have distinct dedupe  *)
(* keys (provider, external identifier, word, time).  The number on a      *)
(* notice or in the column is counted in ten thousandths of one.           *)
(***************************************************************************)
EXTENDS Integers, Sequences, FiniteSets

CONSTANTS
  Users,
  Payments,
  Owner,         (* the user of each payment                               *)
  Provider,      (* the provider of each payment                           *)
  Amount,        (* the amount of each payment                             *)
  Funds,         (* the balance each user starts with                      *)
  Notices,       (* what the providers have to say                         *)
  NoticeKinds,   (* the contents a notice may have, see Contents           *)
  Times,         (* sign times, in seconds                                 *)
  Nonces,        (* x-webhook-nonce of a call, or its fingerprint          *)
  Deliveries,    (* calls of ingestWebhook                                 *)
  Pollers,       (* overlapping calls of pollOnce                          *)
  Processes,     (* operating-system processes                             *)
  Host,          (* the process of each create, ingest and poll            *)
  MaxAttempts,   (* attempts of a job; 5 in the code                       *)
  Nobody,        (* no notice, no nonce                                    *)
  FaultKinds,    (* "db", "redis", "crash"                                 *)
  MaxFaults      (* bound on the faults of a behaviour                     *)

(* sendCommandWithRetry gives a command three tries.                       *)
Tries == 3

(* What a provider may say of a payment.                                   *)
Words == {"success", "paid", "pending", "created", "canceled", "cancelled", "other"}

mapStatus(word) ==
  CASE word \in {"success", "paid"} -> "SUCCESS"
    [] word \in {"pending", "created"} -> "PENDING"
    [] word \in {"canceled", "cancelled"} -> "CANCELED"
    [] OTHER -> "FAILED"

(* sameProvider: the notice came through the payment's own provider.       *)
(* signed: where a good signature is, in the body, in a header or nowhere. *)
Contents ==
  [payment : Payments, word : Words, time : Times,
   amount : Nat, sameProvider : BOOLEAN, signed : {"body", "header", "nowhere"}]

ASSUME AmountsAssumption == Owner \in [Payments -> Users] /\ Amount \in [Payments -> Nat] /\ Funds \in [Users -> Nat]

ASSUME ProvidersAssumption == Provider \in [Payments -> {"CLICK", "PAYME"}]

ASSUME NoticesAssumption == NoticeKinds \subseteq Contents /\ Nobody \notin Notices /\ Nobody \notin Nonces

ASSUME HostsAssumption == Host \in [Payments \cup Deliveries \cup Pollers -> Processes]

ASSUME LimitsAssumption == MaxAttempts \in Nat \ {0} /\ MaxFaults \in Nat

Apart(a, b) == IF a < b THEN b - a ELSE a - b

(* The hundredths of a payment: toFixed rounds and, its numbers being      *)
(* binary, takes either neighbour of one that is half way.                 *)
Hundredths(p) ==
  LET below == Amount[p] \div 100 IN
  {t \in {below, below + 1} : 2 * Apart(100 * t, Amount[p]) <= 100}

(* Mutated form: Click is asked for whole numbers.                         *)
AskedWhole(p) == {t - (t % 10000) : t \in {100 * u : u \in Hundredths(p)}}

(* The number the client of a payment is asked for.  Click is given the    *)
(* amount with two decimals, Payme the count of its hundredths.            *)
Asked(p) == {IF Provider[p] = "CLICK" THEN 100 * t ELSE 10000 * t : t \in Hundredths(p)}

VARIABLES
  (* the providers *)
  about,      (* the content of each notice                                *)
  (* the database *)
  payment,    (* Payment.status, or "absent"                               *)
  linked,     (* payments whose externalId is stored                       *)
  event,      (* WebhookEvent.status, or "absent"                          *)
  balance,    (* User.balance                                              *)
  credited,   (* payments with a PAYMENT_TOPUP row                         *)
  (* Redis *)
  nonces,     (* nonces claimed whose keys have not expired                *)
  queue,      (* the list PAYMENT_WEBHOOK_QUEUE                            *)
  unripe,     (* jobs whose retryAt lies ahead                             *)
  dlq,        (* events on the list PAYMENT_WEBHOOK_DLQ                    *)
  (* the processes *)
  create,     (* where create stands                                       *)
  offered,    (* payments whose URL reached the client                     *)
  ingest,     (* where each ingestWebhook stands, and its notice           *)
  poll,       (* where each pollOnce stands, its job, what it will write   *)
  faults      (* faults so far                                             *)

moneyVars  == <<payment, linked, balance, credited>>
redisVars  == <<nonces, queue, unripe, dlq>>
createVars == <<create, offered>>
vars       == <<about, moneyVars, event, redisVars, createVars, ingest, poll, faults>>

PaymentStatuses == {"PENDING", "SUCCESS", "FAILED", "CANCELED"}

EventStatuses == {"RECEIVED", "QUEUED", "RETRYING", "PROCESSED", "DEAD_LETTER"}

Jobs == [event : Notices, attempt : 1..MaxAttempts]

NoJob == [event |-> Nobody, attempt |-> 1]

IdleCall == [at |-> "idle", notice |-> Nobody, nonce |-> Nobody]

IdlePoll == [at |-> "idle", job |-> NoJob, verdict |-> "none"]

IngestSteps == {"idle", "check", "upsert", "enqueue", "markQueued", "queued", "ignored", "refused", "error"}

PollSteps ==
  {"idle", "putBack", "read", "apply", "markProcessed", "retry", "markRetrying", "deadLetter", "markDead"}

TypeOK ==
  /\ about \in [Notices -> Contents]
  /\ payment \in [Payments -> PaymentStatuses \cup {"absent"}]
  /\ linked \subseteq Payments
  /\ event \in [Notices -> EventStatuses \cup {"absent"}]
  /\ balance \in [Users -> Nat]
  /\ credited \subseteq Payments
  /\ nonces \subseteq Nonces
  /\ queue \in Seq(Jobs)
  /\ unripe \subseteq Jobs
  /\ dlq \subseteq Notices
  /\ create \in [Payments -> {"start", "link", "done"}]
  /\ offered \subseteq Payments
  /\ ingest \in [Deliveries -> [at     : IngestSteps,
                                notice : Notices \cup {Nobody},
                                nonce  : Nonces \cup {Nobody}]]
  /\ poll \in [Pollers -> [at      : PollSteps,
                           job     : Jobs \cup {NoJob},
                           verdict : PaymentStatuses \cup {"none"}]]
  /\ faults \in 0..MaxFaults

(* The bound on faults: each one is of a kind the run allows.              *)
Fault(kind) ==
  /\ kind \in FaultKinds
  /\ faults < MaxFaults
  /\ faults' = faults + 1

(* A process dies with all it runs; what it had not done is never done.    *)
CrashOf(h) ==
  /\ create' = [p \in Payments |-> IF Host[p] = h /\ create[p] = "link" THEN "done" ELSE create[p]]
  /\ ingest' = [d \in Deliveries |->
                  IF Host[d] = h /\ ingest[d].at \in {"check", "upsert", "enqueue", "markQueued"}
                  THEN [ingest[d] EXCEPT !.at = "error"] ELSE ingest[d]]
  /\ poll'   = [q \in Pollers |-> IF Host[q] = h THEN IdlePoll ELSE poll[q]]
  /\ UNCHANGED <<about, offered>>

Crash(h) ==
  /\ Fault("crash")
  /\ CrashOf(h)
  /\ UNCHANGED <<moneyVars, event, redisVars>>

-----------------------------------------------------------------------------
(* PaymentsService.create                                                  *)

CreateTo(p, step) == create' = [create EXCEPT ![p] = step]

CreateRow(p) ==
  LET stored == payment' = [payment EXCEPT ![p] = "PENDING"] IN
  /\ create[p] = "start"
  /\ \/ stored /\ CreateTo(p, "link") /\ UNCHANGED faults
     \/ Fault("db") /\ (stored \/ UNCHANGED payment) /\ CreateTo(p, "done")
  /\ UNCHANGED <<about, linked, balance, credited, event, redisVars, offered, ingest, poll>>

(* Mutated form: the URL is handed out although the write failed.          *)
LinkCarelessly(p) ==
  /\ create[p] = "link"
  /\ \/ linked' = linked \cup {p} /\ UNCHANGED faults
     \/ Fault("db") /\ UNCHANGED linked
  /\ CreateTo(p, "done")
  /\ offered' = offered \cup {p}
  /\ UNCHANGED <<about, payment, balance, credited, event, redisVars, ingest, poll>>

(* The external identifier is stored before the URL is returned.           *)
Link(p) ==
  LET stored == linked' = linked \cup {p} IN
  /\ create[p] = "link"
  /\ \/ stored /\ offered' = offered \cup {p} /\ UNCHANGED faults
     \/ Fault("db") /\ (stored \/ UNCHANGED linked) /\ UNCHANGED offered
  /\ CreateTo(p, "done")
  /\ UNCHANGED <<about, payment, balance, credited, event, redisVars, ingest, poll>>

-----------------------------------------------------------------------------
(* PaymentsService.ingestWebhook                                           *)

IngestTo(d, step) == ingest' = [ingest EXCEPT ![d].at = step]

(* The provider calls: it only knows payments whose URL was followed.  It  *)
(* may repeat a call as it was, or send a notice again in a new one.       *)
Deliver(d, n, nonce) ==
  /\ ingest[d].at = "idle"
  /\ about[n].payment \in offered
  /\ ingest' = [ingest EXCEPT ![d] = [at |-> "check", notice |-> n, nonce |-> nonce]]
  /\ UNCHANGED <<about, moneyVars, event, redisVars, createVars, poll, faults>>

(* A signature is found where it is, if headers are given or not.          *)
HasSignature(n, headers) == about[n].signed = "body" \/ (headers /\ about[n].signed = "header")

(* The nonce is claimed, then the notice is verified: a call that is       *)
(* refused for its signature has spent its nonce.  The claim, of which     *)
(* ReplayWindow has the two commands, tells the first use of a nonce; when *)
(* its answer is lost it is repeated, and then tells a second use.         *)
Check(d) ==
  LET nonce   == ingest[d].nonce
      claimed == nonces' = nonces \cup {nonce} IN
  /\ ingest[d].at = "check"
  /\ \/ /\ nonce \notin nonces
        /\ claimed
        /\ IngestTo(d, IF HasSignature(ingest[d].notice, TRUE) THEN "upsert" ELSE "refused")
        /\ UNCHANGED faults
     \/ nonce \in nonces /\ IngestTo(d, "refused") /\ UNCHANGED <<nonces, faults>>
     \/ Fault("redis") /\ (claimed \/ UNCHANGED nonces) /\ IngestTo(d, "refused")
  /\ UNCHANGED <<about, moneyVars, event, queue, unripe, dlq, createVars, poll>>

(* Redis forgets a nonce after WEBHOOK_NONCE_TTL_SECONDS; ReplayWindow has *)
(* the clock.                                                              *)
ExpireNonce(nonce) ==
  /\ nonce \in nonces
  /\ nonces' = nonces \ {nonce}
  /\ UNCHANGED <<about, moneyVars, event, queue, unripe, dlq, createVars, ingest, poll, faults>>

(* Mutated form: an event that is there goes no further.                   *)
UpsertOnce(d) ==
  LET n == ingest[d].notice IN
  /\ ingest[d].at = "upsert"
  /\ event' = [event EXCEPT ![n] = IF @ = "absent" THEN "RECEIVED" ELSE @]
  /\ IngestTo(d, IF event[n] = "absent" THEN "enqueue" ELSE "ignored")
  /\ UNCHANGED <<about, moneyVars, redisVars, createVars, poll, faults>>

(* The event is created once per dedupe key; a processed one goes no       *)
(* further.                                                                *)
Upsert(d) ==
  LET n == ingest[d].notice
      stored == event' = [event EXCEPT ![n] = IF @ = "absent" THEN "RECEIVED" ELSE @] IN
  /\ ingest[d].at = "upsert"
  /\ \/ stored /\ IngestTo(d, IF event[n] = "PROCESSED" THEN "ignored" ELSE "enqueue") /\ UNCHANGED faults
     \/ Fault("db") /\ (stored \/ UNCHANGED event) /\ IngestTo(d, "error")
  /\ UNCHANGED <<about, moneyVars, redisVars, createVars, poll>>

PushTimes(job, k) == queue' = queue \o [i \in 1..k |-> job]

(* RPUSH takes effect once, or, when answers are lost, as often as it was  *)
(* tried, and the call may throw all the same.                             *)
Push(job, pushed, thrown) ==
  \/ PushTimes(job, 1) /\ pushed /\ UNCHANGED faults
  \/ Fault("redis") /\ pushed /\ \E k \in 1..Tries : PushTimes(job, k)
  \/ Fault("redis") /\ thrown /\ \E k \in 0..Tries : PushTimes(job, k)

Enqueue(d) ==
  LET job == [event |-> ingest[d].notice, attempt |-> 1] IN
  /\ ingest[d].at = "enqueue"
  /\ Push(job, IngestTo(d, "markQueued"), IngestTo(d, "error"))
  /\ UNCHANGED <<about, moneyVars, event, nonces, unripe, dlq, createVars, poll>>

(* Unconditional: a poll may have processed the event already.  What the   *)
(* provider is then told is left out: the histogram injected today has no  *)
(* labels() and makes it a 500.                                            *)
MarkQueued(d) ==
  LET stored == event' = [event EXCEPT ![ingest[d].notice] = "QUEUED"] IN
  /\ ingest[d].at = "markQueued"
  /\ \/ stored /\ IngestTo(d, "queued") /\ UNCHANGED faults
     \/ Fault("db") /\ (stored \/ UNCHANGED event) /\ IngestTo(d, "error")
  /\ UNCHANGED <<about, moneyVars, redisVars, createVars, poll>>

-----------------------------------------------------------------------------
(* PaymentWebhookProcessor.pollOnce                                        *)

PollTo(q, step) == poll' = [poll EXCEPT ![q].at = step]

EventOf(q) == poll[q].job.event

PaymentOf(q) == about[EventOf(q)].payment

(* What a poll throws outside its catch block or in it is an unhandled     *)
(* rejection, because the timer voids the promise: the process ends.       *)
DieIn(q) == CrashOf(Host[q])

Survive == UNCHANGED <<about, create, offered, ingest>>

PopTimes(k) == queue' = SubSeq(queue, k + 1, Len(queue))

(* LPOP: the job is off the list and nowhere else.  When an answer is lost *)
(* the command is repeated and the job is lost; in the end it may throw.   *)
Pop(q) ==
  /\ poll[q].at = "idle"
  /\ queue # <<>>
  /\ \/ /\ PopTimes(1)
        /\ poll' = [poll EXCEPT ![q] = [at      |-> IF Head(queue) \in unripe THEN "putBack" ELSE "read",
                                        job     |-> Head(queue),
                                        verdict |-> "none"]]
        /\ Survive
        /\ UNCHANGED faults
     \/ Fault("redis") /\ PopTimes(1) /\ Survive /\ UNCHANGED poll
     \/ Fault("redis") /\ DieIn(q) /\ \E k \in 0..Tries : PopTimes(k)
  /\ UNCHANGED <<moneyVars, event, nonces, unripe, dlq>>

(* A job whose retryAt lies ahead goes back to the end of the list.        *)
PutBack(q) ==
  /\ poll[q].at = "putBack"
  /\ Push(poll[q].job, poll' = [poll EXCEPT ![q] = IdlePoll] /\ Survive, DieIn(q))
  /\ UNCHANGED <<moneyVars, event, nonces, unripe, dlq>>

(* retryAt comes.                                                          *)
Ripen(job) ==
  /\ job \in unripe
  /\ unripe' = unripe \ {job}
  /\ UNCHANGED <<about, moneyVars, event, nonces, queue, dlq, createVars, ingest, poll, faults>>

(* Mutated forms: one attempt too many, the error swallowed.               *)
CatchStepLate(q) == IF poll[q].job.attempt <= MaxAttempts THEN "retry" ELSE "deadLetter"

CatchStepSwallow(q) == "markProcessed"

(* Where an error leads: the catch block counts attempts.                  *)
CatchStep(q) == IF poll[q].job.attempt < MaxAttempts THEN "retry" ELSE "deadLetter"

StatusOf(n) == mapStatus(about[n].word)

(* The transaction has nothing to do for this notice.                      *)
Ignored(q) ==
  \/ PaymentOf(q) \notin linked
  \/ ~about[EventOf(q)].sameProvider
  \/ payment[PaymentOf(q)] # "PENDING"
  \/ StatusOf(EventOf(q)) = "PENDING"

(* Mutated form: the amount is not compared.                               *)
VerdictsOfStatus(n) == {StatusOf(n)}

(* What the notice may make of its payment.  An amount that is off by more *)
(* than one unit makes it FAILED; of one that is off by just one the       *)
(* floating point difference may be more or less than 0.0001.              *)
Verdicts(n) ==
  LET off == Apart(about[n].amount, Amount[about[n].payment]) IN
  IF StatusOf(n) # "SUCCESS" THEN {StatusOf(n)}
  ELSE {v \in {"SUCCESS", "FAILED"} : IF v = "SUCCESS" THEN off <= 1 ELSE off >= 1}

(* The event is verified again, now without its headers, and then the      *)
(* payment is read.                                                        *)
Read(q) ==
  LET n == EventOf(q)
      signed == HasSignature(n, FALSE) IN
  /\ poll[q].at = "read"
  /\ \/ ~signed /\ PollTo(q, CatchStep(q)) /\ UNCHANGED faults
     \/ signed /\ Ignored(q) /\ PollTo(q, "markProcessed") /\ UNCHANGED faults
     \/ /\ signed
        /\ ~Ignored(q)
        /\ \E v \in Verdicts(n) : poll' = [poll EXCEPT ![q] = [at |-> "apply", job |-> @.job, verdict |-> v]]
        /\ UNCHANGED faults
     \/ Fault("db") /\ PollTo(q, CatchStep(q))
  /\ UNCHANGED <<about, moneyVars, event, redisVars, createVars, ingest>>

(* Mutated form: the credit does not depend on the updated row count.      *)
WriteAndCredit(q) ==
  LET p == PaymentOf(q) IN
  IF poll[q].verdict # "SUCCESS"
  THEN payment' = [payment EXCEPT ![p] = poll[q].verdict] /\ UNCHANGED <<balance, credited>>
  ELSE /\ payment'  = [payment EXCEPT ![p] = IF @ = "PENDING" THEN "SUCCESS" ELSE @]
       /\ balance'  = [balance EXCEPT ![Owner[p]] = @ + Amount[p]]
       /\ credited' = credited \cup {p}

(* The writes of the transaction.  FAILED and CANCELED are written by      *)
(* identifier alone; SUCCESS only to a payment that is still PENDING, with *)
(* the credit.                                                             *)
Write(q) ==
  LET p == PaymentOf(q) IN
  \/ /\ poll[q].verdict # "SUCCESS"
     /\ payment' = [payment EXCEPT ![p] = poll[q].verdict]
     /\ UNCHANGED <<balance, credited>>
  \/ /\ poll[q].verdict = "SUCCESS"
     /\ payment[p] = "PENDING"
     /\ payment'  = [payment EXCEPT ![p] = "SUCCESS"]
     /\ balance'  = [balance EXCEPT ![Owner[p]] = @ + Amount[p]]
     /\ credited' = credited \cup {p}
  \/ /\ poll[q].verdict = "SUCCESS"
     /\ payment[p] # "PENDING"
     /\ UNCHANGED <<payment, balance, credited>>

(* Mutated form: without a transaction a failure leaves the status alone.  *)
ApplyUntransacted(q) ==
  /\ poll[q].at = "apply"
  /\ \/ Write(q) /\ PollTo(q, "markProcessed") /\ UNCHANGED faults
     \/ /\ Fault("db")
        /\ payment' = [payment EXCEPT ![PaymentOf(q)] = poll[q].verdict]
        /\ PollTo(q, CatchStep(q))
        /\ UNCHANGED <<balance, credited>>
  /\ UNCHANGED <<about, linked, event, redisVars, createVars, ingest>>

Apply(q) ==
  /\ poll[q].at = "apply"
  /\ \/ Write(q) /\ PollTo(q, "markProcessed") /\ UNCHANGED faults
     \/ Fault("db") /\ (Write(q) \/ UNCHANGED <<payment, balance, credited>>) /\ PollTo(q, CatchStep(q))
  /\ UNCHANGED <<about, linked, event, redisVars, createVars, ingest>>

(* A failure of this write is caught like one of the processing.           *)
MarkProcessed(q) ==
  LET stored == event' = [event EXCEPT ![EventOf(q)] = "PROCESSED"] IN
  /\ poll[q].at = "markProcessed"
  /\ \/ stored /\ poll' = [poll EXCEPT ![q] = IdlePoll] /\ UNCHANGED faults
     \/ Fault("db") /\ (stored \/ UNCHANGED event) /\ PollTo(q, CatchStep(q))
  /\ UNCHANGED <<about, moneyVars, redisVars, createVars, ingest>>

(* The catch block.  The job comes back with one attempt more, later.      *)
Retry(q) ==
  LET job == [poll[q].job EXCEPT !.attempt = @ + 1] IN
  /\ poll[q].at = "retry"
  /\ Push(job, PollTo(q, "markRetrying") /\ Survive, DieIn(q))
  /\ unripe' = unripe \cup {job}
  /\ UNCHANGED <<moneyVars, event, nonces, dlq>>

MarkAs(q, status) ==
  LET stored == event' = [event EXCEPT ![EventOf(q)] = status] IN
  /\ \/ stored /\ poll' = [poll EXCEPT ![q] = IdlePoll] /\ Survive /\ UNCHANGED faults
     \/ Fault("db") /\ (stored \/ UNCHANGED event) /\ DieIn(q)
  /\ UNCHANGED <<moneyVars, redisVars>>

MarkRetrying(q) == poll[q].at = "markRetrying" /\ MarkAs(q, "RETRYING")

DeadLetter(q) ==
  LET pushed == dlq' = dlq \cup {EventOf(q)} IN
  /\ poll[q].at = "deadLetter"
  /\ \/ pushed /\ PollTo(q, "markDead") /\ Survive /\ UNCHANGED faults
     \/ Fault("redis") /\ (pushed \/ UNCHANGED dlq) /\ DieIn(q)
  /\ UNCHANGED <<moneyVars, event, nonces, queue, unripe>>

MarkDead(q) == poll[q].at = "markDead" /\ MarkAs(q, "DEAD_LETTER")

-----------------------------------------------------------------------------
Init ==
  /\ about \in [Notices -> NoticeKinds]
  /\ \A m, n \in Notices :
       /\ about[m].payment = about[n].payment
       /\ about[m].word = about[n].word
       /\ about[m].time = about[n].time
       => m = n
  /\ payment  = [p \in Payments |-> "absent"]
  /\ linked   = {}
  /\ event    = [n \in Notices |-> "absent"]
  /\ balance  = Funds
  /\ credited = {}
  /\ nonces   = {}
  /\ queue    = <<>>
  /\ unripe   = {}
  /\ dlq      = {}
  /\ create   = [p \in Payments |-> "start"]
  /\ offered  = {}
  /\ ingest   = [d \in Deliveries |-> IdleCall]
  /\ poll     = [q \in Pollers |-> IdlePoll]
  /\ faults   = 0

CreateNext(p) == CreateRow(p) \/ Link(p)

IngestNext(d) == Check(d) \/ Upsert(d) \/ Enqueue(d) \/ MarkQueued(d)

PollNext(q) ==
  \/ Pop(q)
  \/ PutBack(q)
  \/ Read(q)
  \/ Apply(q)
  \/ MarkProcessed(q)
  \/ Retry(q)
  \/ MarkRetrying(q)
  \/ DeadLetter(q)
  \/ MarkDead(q)

(* Every notice was delivered as often as the run allows and dealt with.   *)
Settled ==
  /\ queue = <<>>
  /\ \A q \in Pollers : poll[q].at = "idle"
  /\ \A d \in Deliveries : ingest[d].at \in {"idle", "queued", "ignored", "refused", "error"}
  /\ \A p \in Payments : create[p] = "done"

Next ==
  \/ \E p \in Payments : CreateNext(p)
  \/ \E d \in Deliveries : IngestNext(d) \/ \E n \in Notices, nonce \in Nonces : Deliver(d, n, nonce)
  \/ \E q \in Pollers : PollNext(q)
  \/ \E nonce \in nonces : ExpireNonce(nonce)
  \/ \E job \in unripe : Ripen(job)
  \/ \E h \in Processes : Crash(h)
  \/ Settled /\ UNCHANGED vars

Spec == Init /\ [][Next]_vars

(* A process that is up runs its requests and its timer, and time passes.  *)
(* Nothing obliges a provider to deliver.                                  *)
Fairness ==
  /\ \A p \in Payments : WF_vars(CreateNext(p))
  /\ \A d \in Deliveries : WF_vars(IngestNext(d))
  /\ \A q \in Pollers : WF_vars(PollNext(q))
  /\ \A job \in Jobs : WF_vars(Ripen(job))

FairSpec == Spec /\ Fairness

-----------------------------------------------------------------------------
(* A payment that says SUCCESS was credited: the status, the balance and   *)
(* the top-up row are one transaction.                                     *)
SuccessIsCredited ==
  \A p \in Payments : payment[p] = "SUCCESS" => p \in credited

(* Money comes only from a stored notice of success, over the amount of    *)
(* the payment give or take one unit, by its own provider and signed in    *)
(* the body.                                                               *)
CreditHasNotice ==
  \A p \in credited :
    \E n \in Notices :
      /\ event[n] # "absent"
      /\ about[n].payment = p
      /\ StatusOf(n) = "SUCCESS"
      /\ Apart(about[n].amount, Amount[p]) <= 1
      /\ about[n].sameProvider
      /\ about[n].signed = "body"

(* A notice finds its payment: "payment not found" cannot be logged for a  *)
(* notice about a URL the client was given, whatever fails in create.      *)
NoticeFindsPayment ==
  \A q \in Pollers : poll[q].at = "read" => PaymentOf(q) \in linked /\ payment[PaymentOf(q)] # "absent"

(* PROCESSED is true: the outcome such an event carries was decided.       *)
ProcessedIsDecided ==
  \A n \in Notices :
    /\ event[n] = "PROCESSED"
    /\ StatusOf(n) # "PENDING"
    /\ about[n].sameProvider
    => payment[about[n].payment] # "PENDING"

(* A delivery or a job that will come to processWebhookEvent about n.      *)
Underway(n) ==
  \/ \E d \in Deliveries : ingest[d].at \in {"upsert", "enqueue"} /\ ingest[d].notice = n
  \/ \E i \in 1..Len(queue) : queue[i].event = n
  \/ \E q \in Pollers : poll[q].at \in {"putBack", "read", "apply", "retry"} /\ EventOf(q) = n

(* Whatever failed before, its job popped by a process that died included, *)
(* a delivery that gets past the replay check decides its payment, and so  *)
(* does a job that is left, by all its retries, unless something fails     *)
(* again; then the same holds of what that failure leaves.                 *)
UnderwayIsDecided ==
  \A n \in Notices, f \in 0..MaxFaults :
    /\ Underway(n)
    /\ faults = f
    /\ StatusOf(n) # "PENDING"
    /\ about[n].sameProvider
    /\ about[n].signed = "body"
    ~> payment[about[n].payment] \in {"SUCCESS", "FAILED", "CANCELED"} \/ faults > f

(* A client who pays the amount Click asked for is credited: rounding what *)
(* is asked and comparing what is stored agree on whole hundredths, unless *)
(* another notice decides against it or something fails again.             *)
PaidAsAskedIsCredited ==
  \A n \in Notices, f \in 0..MaxFaults :
    LET p == about[n].payment IN
    /\ Underway(n)
    /\ faults = f
    /\ Provider[p] = "CLICK"
    /\ StatusOf(n) = "SUCCESS"
    /\ Amount[p] % 100 = 0
    /\ about[n].amount \in Asked(p)
    /\ about[n].sameProvider
    /\ about[n].signed = "body"
    ~> \/ p \in credited
       \/ faults > f
       \/ \E m \in Notices \ {n} :
            /\ event[m] # "absent"
            /\ about[m].payment = p
            /\ about[m].sameProvider
            /\ Verdicts(m) \cap {"FAILED", "CANCELED"} # {}

-----------------------------------------------------------------------------
(* PaymentWebhooks implements Wallet.                                      *)
Bank == INSTANCE Wallet WITH
  Messages <- {},
  Amounts  <- {Amount[p] : p \in Payments},
  Cost     <- 1,
  debits   <- {},
  credits  <- {[user |-> Owner[p], payment |-> p, amount |-> Amount[p]] : p \in credited}

(* Every step of the payment pipeline credits one payment once, its owner  *)
(* and its amount, or leaves the wallet alone.                             *)
ImplementsWallet == Bank!Spec

-----------------------------------------------------------------------------
(* What the documents say                                                  *)

(* PAYMENTS_INTEGRATION.md:122: a callback for a payment that is not       *)
(* PENDING is ignored, so a decided payment keeps its status.              *)
DecidedIsFinal ==
  [][\A p \in Payments : payment[p] \in {"SUCCESS", "FAILED", "CANCELED"} => payment'[p] = payment[p]]_vars

=============================================================================
