----------------------------- MODULE SmsSending -----------------------------
(***************************************************************************)
(* Sending one SMS, from the HTTP request to the carrier.                  *)
(*                                                                         *)
(*   - SmsService.send runs once per request, in an API process.  Each of  *)
(*     its awaits is a point where other requests and the workers run, so  *)
(*     each is an action here.  The database transaction is one action:    *)
(*     the unique index on (userId, idempotencyKey) and the row lock of    *)
(*     the conditional UPDATE order concurrent transactions.               *)
(*   - SmsProcessor.processSendSms and onJobFailed run in worker           *)
(*     processes, each with a number of concurrent executions (slots).     *)
(*   - BullMQ and the carrier are outside the repository: their actions    *)
(*     are what the code relies on.  A job is handed to one slot at a      *)
(*     time, a job whose lock lapses goes back to the queue while the old  *)
(*     execution may still run, and a job is attempted a bounded number    *)
(*     of times.                                                           *)
(*                                                                         *)
(* A message has the name of the request that created its row.             *)
(***************************************************************************)
EXTENDS Integers, FiniteSets

CONSTANTS
  Users,
  Keys,              (* well-formed idempotency keys                       *)
  NoKey,             (* the key is absent (NULL in the database)           *)
  EmptyKey,          (* the key is '': falsy in the code, yet stored       *)
  Requests,          (* calls of POST /sms/send that pass validatePayload  *)
  Workers,           (* worker processes                                   *)
  Concurrency,       (* executions per worker process; 10 in the code      *)
  MaxAttempts,       (* attempts of a job; 5 in the code                   *)
  MaxStalled,        (* stalls BullMQ forgives; its default is 1           *)
  Funds,             (* the balance each user starts with                  *)
  Nobody,            (* no message, no slot, no worker                     *)
  MetricsHasLabels,  (* the injected counters have the labels() method     *)
  FaultKinds,        (* "db", "queue", "provider", "crash", "stall"        *)
  MaxFaults          (* bound on the faults of a behaviour                 *)

Cost == 1

ASSUME KeysAssumption == NoKey \notin Keys /\ EmptyKey \notin Keys /\ NoKey # EmptyKey

ASSUME FundsAssumption == Funds \in [Users -> Nat]

ASSUME RequestsAssumption == IsFiniteSet(Requests)

ASSUME LimitsAssumption ==
  /\ MaxAttempts \in Nat \ {0}
  /\ MaxStalled \in Nat
  /\ Concurrency \in Nat \ {0}
  /\ MaxFaults \in Nat

ASSUME NobodyAssumption == Nobody \notin Requests \cup Workers \cup (Workers \X (1..Concurrency))

ASSUME BuildAssumption == MetricsHasLabels \in BOOLEAN

VARIABLES
  (* the clients *)
  call,      (* what each request asks: its user and idempotency key       *)
  (* the database *)
  balance,   (* User.balance                                               *)
  ledger,    (* messages with an SMS_DEDUCTION row                         *)
  sms,       (* SmsMessage.status, or "absent"                             *)
  (* Redis *)
  job,       (* the BullMQ job sms:<id>                                    *)
  dlq,       (* messages on the list SMS_DLQ                               *)
  (* the carrier *)
  sends,     (* times the carrier accepted the message                     *)
  (* the API processes *)
  pc,        (* where send stands                                          *)
  reply,     (* what the client was told                                   *)
  (* the worker processes *)
  exec,      (* where the execution in each slot stands                    *)
  handler,   (* where onJobFailed stands, after a job's last attempt       *)
  faults     (* faults so far                                              *)

dbVars     == <<balance, ledger, sms>>
redisVars  == <<job, dlq>>
apiVars    == <<call, pc, reply>>
workerVars == <<exec, handler, sends>>
vars       == <<dbVars, redisVars, apiVars, workerVars, faults>>

Slots == Workers \X (1..Concurrency)

Host(s) == s[1]

Statuses == {"PENDING", "QUEUED", "SENT", "FAILED"}

RequestSteps == {"lookup", "create", "enqueue", "markQueued", "markFailed", "usage", "done"}

SlotSteps == {"idle", "read", "markQueued", "send", "markSent", "returned", "threw"}

ReplyCodes == {"none", "replay", "accepted", "insufficient", "unavailable", "error"}

NoReply == [code |-> "none", id |-> Nobody]

IdleSlot == [at |-> "idle", message |-> Nobody]

TypeOK ==
  /\ call \in [Requests -> [user : Users, key : Keys \cup {NoKey, EmptyKey}]]
  /\ balance \in [Users -> Nat]
  /\ ledger \subseteq Requests
  /\ sms \in [Requests -> Statuses \cup {"absent"}]
  /\ job \in [Requests -> [state    : {"none", "waiting", "active", "completed", "failed"},
                           attempts : 0..MaxAttempts,
                           stalled  : 0..(MaxStalled + 1),
                           holder   : Slots \cup {Nobody}]]
  /\ dlq \subseteq Requests
  /\ sends \in [Requests -> Nat]
  /\ pc \in [Requests -> RequestSteps]
  /\ reply \in [Requests -> [code : ReplyCodes, id : Requests \cup {Nobody}]]
  /\ exec \in [Slots -> [at : SlotSteps, message : Requests \cup {Nobody}]]
  /\ handler \in [Requests -> [at : {"idle", "markFailed", "deadLetter", "lost"}, host : Workers \cup {Nobody}]]
  /\ faults \in 0..MaxFaults

(* The bound on faults: each one is of a kind the run allows.              *)
Fault(kind) ==
  /\ kind \in FaultKinds
  /\ faults < MaxFaults
  /\ faults' = faults + 1

(* r would collide with m on the unique index: NULL keys never do.         *)
SameKey(r, m) ==
  /\ call[r].user = call[m].user
  /\ call[r].key = call[m].key
  /\ call[r].key # NoKey

(* Mutated form: the index forgets the user.                               *)
DuplicatesOfAnyUser(r) == {m \in Requests : sms[m] # "absent" /\ call[m].key = call[r].key /\ call[r].key # NoKey}

Duplicates(r) == {m \in Requests : sms[m] # "absent" /\ SameKey(r, m)}

-----------------------------------------------------------------------------
(* SmsService.send                                                         *)

Goto(r, step) == pc' = [pc EXCEPT ![r] = step] /\ UNCHANGED <<call, reply>>

Answer(r, code, id) ==
  /\ pc'    = [pc EXCEPT ![r] = "done"]
  /\ reply' = [reply EXCEPT ![r] = [code |-> code, id |-> id]]
  /\ UNCHANGED call

SetStatus(m, status) == sms' = [sms EXCEPT ![m] = status] /\ UNCHANGED <<balance, ledger>>

(* A write whose call fails may or may not have reached the database.      *)
LostWrite(m, status) ==
  /\ Fault("db")
  /\ SetStatus(m, status) \/ UNCHANGED dbVars

(* The lookup by idempotency key, skipped for a falsy key, and the replay. *)
Lookup(r) ==
  /\ pc[r] = "lookup"
  /\ \/ /\ call[r].key \notin Keys \/ Duplicates(r) = {}
        /\ Goto(r, "create")
        /\ UNCHANGED faults
     \/ /\ call[r].key \in Keys
        /\ \E m \in Duplicates(r) :
             IF MetricsHasLabels THEN Answer(r, "replay", m) ELSE Answer(r, "error", Nobody)
        /\ UNCHANGED faults
     \/ /\ call[r].key \in Keys
        /\ Fault("db")
        /\ Answer(r, "error", Nobody)
  /\ UNCHANGED <<dbVars, redisVars, workerVars>>

(* Mutated forms of Commit: without the unique index, without the balance  *)
(* in the WHERE clause, without the deduction row.                         *)
CommitTwice(r) ==
  /\ balance[call[r].user] >= Cost
  /\ sms'     = [sms EXCEPT ![r] = "PENDING"]
  /\ balance' = [balance EXCEPT ![call[r].user] = @ - Cost]
  /\ ledger'  = ledger \cup {r}

CommitOverdrawn(r) ==
  /\ Duplicates(r) = {}
  /\ sms'     = [sms EXCEPT ![r] = "PENDING"]
  /\ balance' = [balance EXCEPT ![call[r].user] = @ - Cost]
  /\ ledger'  = ledger \cup {r}

CommitUnrecorded(r) ==
  /\ Duplicates(r) = {}
  /\ balance[call[r].user] >= Cost
  /\ sms'     = [sms EXCEPT ![r] = "PENDING"]
  /\ balance' = [balance EXCEPT ![call[r].user] = @ - Cost]
  /\ UNCHANGED ledger

(* The transaction commits: the row, the charge and the deduction row.     *)
Commit(r) ==
  /\ Duplicates(r) = {}
  /\ balance[call[r].user] >= Cost
  /\ sms'     = [sms EXCEPT ![r] = "PENDING"]
  /\ balance' = [balance EXCEPT ![call[r].user] = @ - Cost]
  /\ ledger'  = ledger \cup {r}

(* Mutated form: the row survives the refused charge.                      *)
RefuseAfterCreate(r) == Answer(r, "insufficient", Nobody) /\ SetStatus(r, "PENDING")

(* The charge is refused and the whole transaction rolls back.             *)
Refuse(r) == Answer(r, "insufficient", Nobody) /\ UNCHANGED dbVars

(* The transaction, then the counter on the line after it.                 *)
Create(r) ==
  /\ pc[r] = "create"
  /\ \/ /\ Commit(r)
        /\ IF MetricsHasLabels THEN Goto(r, "enqueue") ELSE Answer(r, "error", Nobody)
        /\ UNCHANGED faults
     \/ /\ Duplicates(r) # {}
        /\ Answer(r, "error", Nobody)
        /\ UNCHANGED <<dbVars, faults>>
     \/ /\ Duplicates(r) = {}
        /\ balance[call[r].user] < Cost
        /\ Refuse(r)
        /\ UNCHANGED faults
     \/ /\ Fault("db")
        /\ Commit(r) \/ UNCHANGED dbVars
        /\ Answer(r, "error", Nobody)
  /\ UNCHANGED <<redisVars, workerVars>>

(* Queue.add: a job identifier already known to BullMQ is not added again. *)
AddJob(m) ==
  /\ job' = IF job[m].state = "none" THEN [job EXCEPT ![m].state = "waiting"] ELSE job
  /\ UNCHANGED dlq

Enqueue(r) ==
  /\ pc[r] = "enqueue"
  /\ \/ /\ AddJob(r)
        /\ Goto(r, "markQueued")
        /\ UNCHANGED faults
     \/ /\ Fault("queue")
        /\ AddJob(r) \/ UNCHANGED redisVars
        /\ Goto(r, "markFailed")
  /\ UNCHANGED <<dbVars, workerVars>>

(* The status write inside the try: unconditional, after the enqueue.      *)
MarkQueued(r) ==
  /\ pc[r] = "markQueued"
  /\ \/ SetStatus(r, "QUEUED") /\ Goto(r, "usage") /\ UNCHANGED faults
     \/ LostWrite(r, "QUEUED") /\ Goto(r, "markFailed")
  /\ UNCHANGED <<redisVars, workerVars>>

(* The catch block: FAILED, and 503 to the client.                         *)
MarkFailed(r) ==
  /\ pc[r] = "markFailed"
  /\ \/ SetStatus(r, "FAILED") /\ Answer(r, "unavailable", Nobody) /\ UNCHANGED faults
     \/ LostWrite(r, "FAILED") /\ Answer(r, "error", Nobody)
  /\ UNCHANGED <<redisVars, workerVars>>

(* The usage row and the reply; a failure of the row is a 500.             *)
LogUsage(r) ==
  /\ pc[r] = "usage"
  /\ \/ Answer(r, "accepted", r) /\ UNCHANGED faults
     \/ Fault("db") /\ Answer(r, "error", Nobody)
  /\ UNCHANGED <<dbVars, redisVars, workerVars>>

(* The API process serving r dies: what it had not done is never done.     *)
ApiCrash(r) ==
  /\ pc[r] # "done"
  /\ Fault("crash")
  /\ Goto(r, "done")
  /\ UNCHANGED <<dbVars, redisVars, workerVars>>

-----------------------------------------------------------------------------
(* SmsProcessor.processSendSms, in one slot of a worker                    *)

Enter(s, step) == exec' = [exec EXCEPT ![s].at = step] /\ UNCHANGED handler

(* Mutated forms of AfterRead: no early return for SENT, SENT sent again,  *)
(* only PENDING rows sent.                                                 *)
AfterReadRewrite ==
  [absent |-> "threw", SENT |-> "markQueued", PENDING |-> "markQueued", QUEUED |-> "send", FAILED |-> "send"]

AfterReadResend ==
  [absent |-> "threw", SENT |-> "send", PENDING |-> "markQueued", QUEUED |-> "send", FAILED |-> "send"]

AfterReadPendingOnly ==
  [absent |-> "threw", SENT |-> "returned", PENDING |-> "markQueued", QUEUED |-> "returned", FAILED |-> "returned"]

(* What the status read leads to: an error when there is no row, the early *)
(* return for SENT, a write of QUEUED for PENDING, the carrier otherwise.  *)
AfterRead ==
  [absent |-> "threw", SENT |-> "returned", PENDING |-> "markQueued", QUEUED |-> "send", FAILED |-> "send"]

(* BullMQ hands a waiting job to a free slot.                              *)
Take(s, m) ==
  /\ exec[s].at = "idle"
  /\ job[m].state = "waiting"
  /\ job'  = [job EXCEPT ![m].state = "active", ![m].holder = s]
  /\ exec' = [exec EXCEPT ![s] = [at |-> "read", message |-> m]]
  /\ UNCHANGED <<dbVars, dlq, apiVars, handler, sends, faults>>

(* The row is read once: later steps go by what was read.                  *)
ReadRow(s) ==
  /\ exec[s].at = "read"
  /\ \/ Enter(s, AfterRead[sms[exec[s].message]]) /\ UNCHANGED faults
     \/ Fault("db") /\ Enter(s, "threw")
  /\ UNCHANGED dbVars
  /\ UNCHANGED <<redisVars, apiVars, sends>>

(* The write made because the row was PENDING when it was read.            *)
MarkRunning(s) ==
  /\ exec[s].at = "markQueued"
  /\ \/ SetStatus(exec[s].message, "QUEUED") /\ Enter(s, "send") /\ UNCHANGED faults
     \/ LostWrite(exec[s].message, "QUEUED") /\ Enter(s, "threw")
  /\ UNCHANGED <<redisVars, apiVars, sends>>

(* SmsProvider.send: accepted, refused, or accepted with the answer lost.  *)
Send(s) ==
  LET accepted == sends' = [sends EXCEPT ![exec[s].message] = @ + 1] IN
  /\ exec[s].at = "send"
  /\ \/ accepted /\ Enter(s, "markSent") /\ UNCHANGED faults
     \/ "provider" \in FaultKinds /\ Enter(s, "threw") /\ UNCHANGED <<sends, faults>>
     \/ Fault("provider") /\ accepted /\ Enter(s, "threw")
  /\ UNCHANGED <<dbVars, redisVars, apiVars>>

(* Mutated form: the metrics before the write throw.                       *)
MarkSentUncounted(s) ==
  /\ exec[s].at = "markSent"
  /\ Enter(s, "threw")
  /\ UNCHANGED <<dbVars, redisVars, apiVars, sends, faults>>

(* The metrics and the write of SENT.                                      *)
MarkSent(s) ==
  /\ exec[s].at = "markSent"
  /\ \/ SetStatus(exec[s].message, "SENT") /\ Enter(s, "returned") /\ UNCHANGED faults
     \/ LostWrite(exec[s].message, "SENT") /\ Enter(s, "threw")
  /\ UNCHANGED <<redisVars, apiVars, sends>>

-----------------------------------------------------------------------------
(* What BullMQ does when an execution ends, and when its lock lapses       *)

Leave(s) == exec' = [exec EXCEPT ![s] = IdleSlot]

Holds(s) == exec[s].at # "idle" /\ job[exec[s].message].holder = s

(* The processor returned: the job is removed.                             *)
Complete(s) ==
  /\ exec[s].at = "returned"
  /\ Holds(s)
  /\ job' = [job EXCEPT ![exec[s].message].state = "completed", ![exec[s].message].holder = Nobody]
  /\ Leave(s)
  /\ UNCHANGED <<dbVars, dlq, apiVars, handler, sends, faults>>

(* Mutated forms of Retry: the attempt is not counted; one attempt too     *)
(* many; onJobFailed does not compare attemptsMade with attempts.          *)
RetryOnceMore(s) ==
  LET m == exec[s].message IN
  /\ exec[s].at = "threw"
  /\ Holds(s)
  /\ job[m].attempts + 1 <= MaxAttempts
  /\ job' = [job EXCEPT ![m].state = "waiting", ![m].holder = Nobody, ![m].attempts = @ + 1]
  /\ Leave(s)
  /\ UNCHANGED <<dbVars, dlq, apiVars, handler, sends, faults>>

RetryUncounted(s) ==
  LET m == exec[s].message IN
  /\ exec[s].at = "threw"
  /\ Holds(s)
  /\ job' = [job EXCEPT ![m].state = "waiting", ![m].holder = Nobody]
  /\ Leave(s)
  /\ UNCHANGED <<dbVars, dlq, apiVars, handler, sends, faults>>

RetryDeadLettering(s) ==
  LET m == exec[s].message IN
  /\ exec[s].at = "threw"
  /\ Holds(s)
  /\ job[m].attempts + 1 < MaxAttempts
  /\ job' = [job EXCEPT ![m].state = "waiting", ![m].holder = Nobody, ![m].attempts = @ + 1]
  /\ Leave(s)
  /\ handler' = [handler EXCEPT ![m] = [at |-> "markFailed", host |-> Host(s)]]
  /\ UNCHANGED <<dbVars, dlq, apiVars, sends, faults>>

(* The processor threw and attempts remain: the job is tried again.  The   *)
(* handler of the event changes nothing then.                              *)
Retry(s) ==
  LET m == exec[s].message IN
  /\ exec[s].at = "threw"
  /\ Holds(s)
  /\ job[m].attempts + 1 < MaxAttempts
  /\ job' = [job EXCEPT ![m].state = "waiting", ![m].holder = Nobody, ![m].attempts = @ + 1]
  /\ Leave(s)
  /\ UNCHANGED <<dbVars, dlq, apiVars, handler, sends, faults>>

(* The last attempt threw: the job is failed and onJobFailed starts.       *)
Exhaust(s) ==
  LET m == exec[s].message IN
  /\ exec[s].at = "threw"
  /\ Holds(s)
  /\ job[m].attempts + 1 >= MaxAttempts
  /\ job' = [job EXCEPT ![m].state = "failed", ![m].holder = Nobody, ![m].attempts = @ + 1]
  /\ Leave(s)
  /\ handler' = [handler EXCEPT ![m] = [at |-> "markFailed", host |-> Host(s)]]
  /\ UNCHANGED <<dbVars, dlq, apiVars, sends, faults>>

(* An execution that lost its lock ends without a say over the job.        *)
EndStale(s) ==
  /\ exec[s].at \in {"returned", "threw"}
  /\ ~Holds(s)
  /\ Leave(s)
  /\ UNCHANGED <<dbVars, redisVars, apiVars, handler, sends, faults>>

(* The lock of an active job lapsed: the job waits again, or, stalled once *)
(* too often, fails without a final attempt.  The failed event then shows  *)
(* attemptsMade < attempts and onJobFailed changes nothing.                *)
Lapse(m) ==
  /\ job' = [job EXCEPT ![m].state   = IF job[m].stalled < MaxStalled THEN "waiting" ELSE "failed",
                        ![m].stalled = @ + 1,
                        ![m].holder  = Nobody]
  /\ UNCHANGED <<dbVars, dlq, apiVars, workerVars>>

HolderRuns(m) == exec[job[m].holder].message = m

(* The execution that held the job died with its process.                  *)
Reclaim(m) == job[m].state = "active" /\ ~HolderRuns(m) /\ Lapse(m) /\ UNCHANGED faults

(* The execution still runs, but its process was too slow to renew.        *)
Stall(m) == job[m].state = "active" /\ HolderRuns(m) /\ Fault("stall") /\ Lapse(m)

-----------------------------------------------------------------------------
(* SmsProcessor.onJobFailed after the last attempt, and worker crashes     *)

(* The process dies with its executions and handlers and is restarted.     *)
(* Nothing repeats a handler that was cut off.                             *)
CrashOf(w) ==
  /\ exec'    = [s \in Slots |-> IF Host(s) = w THEN IdleSlot ELSE exec[s]]
  /\ handler' = [m \in Requests |-> IF handler[m].host = w /\ handler[m].at # "idle"
                                  THEN [at |-> "lost", host |-> Nobody] ELSE handler[m]]

WorkerCrash(w) ==
  /\ Fault("crash")
  /\ CrashOf(w)
  /\ UNCHANGED <<dbVars, redisVars, apiVars, sends>>

(* Mutated form: the row is marked and nothing is dead-lettered.           *)
HandlerForget(m) ==
  /\ handler[m].at = "markFailed"
  /\ SetStatus(m, "FAILED")
  /\ handler' = [handler EXCEPT ![m] = [at |-> "idle", host |-> Nobody]]
  /\ UNCHANGED <<redisVars, apiVars, exec, sends, faults>>

(* FAILED, then a counter with labels().  The handler's promise is voided: *)
(* what it throws is an unhandled rejection and ends the process.          *)
HandlerMarkFailed(m) ==
  /\ handler[m].at = "markFailed"
  /\ \/ /\ SetStatus(m, "FAILED")
        /\ IF MetricsHasLabels
           THEN handler' = [handler EXCEPT ![m].at = "deadLetter"] /\ UNCHANGED exec
           ELSE CrashOf(handler[m].host)
        /\ UNCHANGED faults
     \/ LostWrite(m, "FAILED") /\ CrashOf(handler[m].host)
  /\ UNCHANGED <<redisVars, apiVars, sends>>

HandlerDeadLetter(m) ==
  LET pushed == dlq' = dlq \cup {m} IN
  /\ handler[m].at = "deadLetter"
  /\ \/ pushed /\ handler' = [handler EXCEPT ![m] = [at |-> "idle", host |-> Nobody]] /\ UNCHANGED <<exec, faults>>
     \/ Fault("queue") /\ (pushed \/ UNCHANGED dlq) /\ CrashOf(handler[m].host)
  /\ UNCHANGED <<dbVars, job, apiVars, sends>>

-----------------------------------------------------------------------------
Init ==
  /\ call \in [Requests -> [user : Users, key : Keys \cup {NoKey, EmptyKey}]]
  /\ balance = Funds
  /\ ledger  = {}
  /\ sms     = [m \in Requests |-> "absent"]
  /\ job     = [m \in Requests |-> [state |-> "none", attempts |-> 0, stalled |-> 0, holder |-> Nobody]]
  /\ dlq     = {}
  /\ sends   = [m \in Requests |-> 0]
  /\ pc      = [r \in Requests |-> "lookup"]
  /\ reply   = [r \in Requests |-> NoReply]
  /\ exec    = [s \in Slots |-> IdleSlot]
  /\ handler = [m \in Requests |-> [at |-> "idle", host |-> Nobody]]
  /\ faults  = 0

RequestNext(r) ==
  \/ Lookup(r)
  \/ Create(r)
  \/ Enqueue(r)
  \/ MarkQueued(r)
  \/ MarkFailed(r)
  \/ LogUsage(r)

SlotNext(s) ==
  \/ \E m \in Requests : Take(s, m)
  \/ ReadRow(s)
  \/ MarkRunning(s)
  \/ Send(s)
  \/ MarkSent(s)
  \/ Complete(s)
  \/ Retry(s)
  \/ Exhaust(s)
  \/ EndStale(s)

HandlerNext(m) == HandlerMarkFailed(m) \/ HandlerDeadLetter(m)

(* Every request has been answered or dropped and every worker is idle.    *)
Quiescent ==
  /\ \A r \in Requests : pc[r] = "done"
  /\ \A s \in Slots : exec[s].at = "idle"
  /\ \A m \in Requests : job[m].state \notin {"waiting", "active"} /\ handler[m].at \in {"idle", "lost"}

Next ==
  \/ \E r \in Requests : RequestNext(r) \/ ApiCrash(r)
  \/ \E s \in Slots : SlotNext(s)
  \/ \E m \in Requests : Reclaim(m) \/ Stall(m) \/ HandlerNext(m)
  \/ \E w \in Workers : WorkerCrash(w)
  \/ Quiescent /\ UNCHANGED vars

Spec == Init /\ [][Next]_vars

(* Every process that is up runs, and BullMQ keeps checking for stalls.    *)
Fairness ==
  /\ \A r \in Requests : WF_vars(RequestNext(r))
  /\ \A s \in Slots : WF_vars(SlotNext(s))
  /\ \A m \in Requests : WF_vars(Reclaim(m)) /\ WF_vars(HandlerNext(m))

FairSpec == Spec /\ Fairness

-----------------------------------------------------------------------------
(* What the charge guarantees                                              *)

ChargesOf(u) == {m \in ledger : call[m].user = u}

(* A balance is what the user had less one price for each of the user's    *)
(* deduction rows: no charge without its row, none twice, none half done   *)
(* (chargeSmsInTransaction inside the transaction of send).                *)
LedgerBalances ==
  \A u \in Users : balance[u] + Cost * Cardinality(ChargesOf(u)) = Funds[u]

(* Two requests of a user with the same stored key never both create and   *)
(* pay for a message, however their lookups and transactions interleave.   *)
OneChargePerKey ==
  \A r, m \in ledger : SameKey(r, m) => r = m

(* Clients that retry with one key and are given a message are all given   *)
(* the same one, and it was paid for by that key's user.                   *)
RepliesAgree ==
  LET Told == {r \in Requests : reply[r].code \in {"accepted", "replay"}} IN
  /\ \A r, q \in Told : SameKey(r, q) /\ call[r].key \in Keys => reply[r].id = reply[q].id
  /\ \A r \in Told : reply[r].id \in ChargesOf(call[r].user)

(* A request answered "insufficient" or with a replay has cost nothing and *)
(* left no row behind (the transaction of send rolls back as a whole).     *)
RefusedIsFree ==
  \A r \in Requests :
    reply[r].code \in {"insufficient", "replay"} => r \notin ledger /\ sms[r] = "absent"

(* The carrier, the queue and the workers only ever see messages that were *)
(* paid for and stored: "SMS not found" in processSendSms cannot happen,   *)
(* because the job is added only after the transaction committed.          *)
OnlyPaidWork ==
  \A m \in Requests :
    \/ job[m].state # "none"
    \/ sends[m] > 0
    \/ m \in dlq
    \/ \E s \in Slots : exec[s].message = m
    => m \in ledger /\ sms[m] # "absent"

(* What the queue guarantees                                               *)

(* A message reaches the carrier at most once per attempt and once more    *)
(* for each stall BullMQ forgives, even when executions that lost their    *)
(* lock go on beside their successors.                                     *)
SendsBounded ==
  \A m \in Requests : sends[m] <= MaxAttempts + MaxStalled

(* Each time but the first that the carrier accepts a message goes back to *)
(* a fault of its own: a lost answer, a lost write, a crash or a stall.    *)
(* Refusals and retries alone never send a message twice.                  *)
ResendsHaveFaults ==
  \A m \in Requests : sends[m] <= 1 + faults

(* The dead-letter list holds only messages whose job used every attempt.  *)
DeadLettersAreExhausted ==
  \A m \in dlq : job[m].state = "failed" /\ job[m].attempts = MaxAttempts

(* Without stalls and lost writes no worker step, handler or restart moves *)
(* a row away from SENT: only the request's own late write of QUEUED does. *)
WorkersKeepSent ==
  [][\A m \in Requests : sms[m] = "SENT" => sms'[m] = "SENT" \/ pc[m] # pc'[m]]_vars

(* Without stalls, what is recorded as SENT is not sent again by the job   *)
(* that BullMQ reruns after a crash (the early return on SENT).            *)
RecordedIsNotResent ==
  [][\A m \in Requests : sms[m] = "SENT" => sends'[m] = sends[m]]_vars

(* A message the client was told is accepted reaches the carrier or ends   *)
(* as a failed job, through crashes and stalls of workers.                 *)
AcceptedIsHandled ==
  \A m \in Requests :
    reply[m].code = "accepted" ~> sends[m] > 0 \/ job[m].state = "failed"

(* A job that used every attempt gets on the dead-letter list, whatever    *)
(* failed on the way, unless its handler itself was cut off.               *)
ExhaustedIsDeadLettered ==
  \A m \in Requests : job[m].attempts = MaxAttempts ~> m \in dlq \/ handler[m].at = "lost"

(* The system comes to rest: every request is answered or dropped, and     *)
(* every job completes or fails.                                           *)
ComesToRest == <>Quiescent

-----------------------------------------------------------------------------
(* SmsSending implements Wallet.                                           *)
Bank == INSTANCE Wallet WITH
  Messages <- Requests,
  Payments <- {},
  Amounts  <- {},
  debits   <- {[user |-> call[m].user, message |-> m] : m \in ledger},
  credits  <- {}

(* Every step of the sending pipeline charges one message once, within the *)
(* balance, or leaves the wallet alone.                                    *)
ImplementsWallet == Bank!Spec

-----------------------------------------------------------------------------
(* What the documents say                                                  *)

(* SMS_SENDING_HISOBOT.md:37: send leaves the message QUEUED if the queue  *)
(* took it and FAILED otherwise; it is never left PENDING by a request     *)
(* that ended by itself.                                                   *)
SendLeavesNoPending ==
  \A r \in Requests : pc[r] = "done" => sms[r] # "PENDING"

=============================================================================
