----------------------- MODULE PaymentWebhooksProofs -----------------------
(***************************************************************************)
(* Theorems about PaymentWebhooks for all users, payments, amounts,        *)
(* notices, deliveries, polls and processes, every limit on attempts and   *)
(* any faults.                                                             *)
(***************************************************************************)
EXTENDS PaymentWebhooks, SequenceTheorems, TLAPS

(***************************************************************************)
(* The inductive invariant.  It follows a notice through the pipeline: a   *)
(* job is about a stored event and a payment whose URL was given out, a    *)
(* poll about to credit holds a notice that deserves it, and one about to  *)
(* say PROCESSED has seen its payment decided.  What is so said only ever  *)
(* grows more true, see Growth, so each step is examined for what it       *)
(* changes alone.                                                          *)
(***************************************************************************)
Decided == {"SUCCESS", "FAILED", "CANCELED"}

(* The notice may credit its payment.                                      *)
Deserves(n) ==
  /\ StatusOf(n) = "SUCCESS"
  /\ Apart(about[n].amount, Amount[about[n].payment]) <= 1
  /\ about[n].sameProvider
  /\ about[n].signed = "body"

(* The payment of the notice is decided, or the notice has no say in it.   *)
Dealt(n) ==
  StatusOf(n) # "PENDING" /\ about[n].sameProvider => payment[about[n].payment] \in Decided

LiveJobs ==
  {j \in Jobs : event[j.event] # "absent" /\ about[j.event].payment \in offered}

Ingests == [at : IngestSteps, notice : Notices \cup {Nobody}, nonce : Nonces \cup {Nobody}]

LiveIngests ==
  {i \in Ingests :
     /\ i.at # "idle" => i.notice \in Notices /\ i.nonce \in Nonces
     /\ i.at \in {"check", "upsert", "enqueue", "markQueued"} => about[i.notice].payment \in offered
     /\ i.at \in {"enqueue", "markQueued"} => event[i.notice] # "absent"}

Polls == [at : PollSteps, job : Jobs \cup {NoJob}, verdict : PaymentStatuses \cup {"none"}]

LivePolls ==
  {b \in Polls :
     b.at # "idle" =>
       /\ b.job \in LiveJobs
       /\ b.at = "apply" => b.verdict \in Decided /\ (b.verdict = "SUCCESS" => Deserves(b.job.event))
       /\ b.at = "markProcessed" => Dealt(b.job.event)
       /\ b.at = "retry" => b.job.attempt < MaxAttempts
       /\ b.at = "deadLetter" => b.job.attempt = MaxAttempts}

StaticOK == about \in [Notices -> Contents] /\ faults \in 0..MaxFaults

MoneyOK ==
  /\ payment \in [Payments -> PaymentStatuses \cup {"absent"}]
  /\ linked \subseteq Payments
  /\ balance \in [Users -> Nat]
  /\ credited \subseteq Payments
  /\ \A p \in Payments : payment[p] = "SUCCESS" => p \in credited
  /\ \A p \in credited : payment[p] \in Decided

CreateOK ==
  /\ create \in [Payments -> {"start", "link", "done"}]
  /\ offered \subseteq linked
  /\ \A p \in Payments : create[p] = "start" => payment[p] = "absent"
  /\ \A p \in Payments : create[p] = "link" \/ p \in linked => payment[p] # "absent"

EventOK ==
  /\ event \in [Notices -> EventStatuses \cup {"absent"}]
  /\ \A n \in Notices : event[n] = "PROCESSED" => Dealt(n)
  /\ \A p \in credited : \E n \in Notices : event[n] # "absent" /\ about[n].payment = p /\ Deserves(n)

RedisOK ==
  /\ nonces \subseteq Nonces
  /\ queue \in Seq(LiveJobs)
  /\ unripe \subseteq Jobs
  /\ dlq \subseteq Notices

IngestOK == ingest \in [Deliveries -> LiveIngests]

PollOK == poll \in [Pollers -> LivePolls]

PipelineInv == StaticOK /\ MoneyOK /\ CreateOK /\ EventOK /\ RedisOK /\ IngestOK /\ PollOK

LEMMA InitPipelineInv == Init => PipelineInv
<1> SUFFICES ASSUME Init PROVE PipelineInv
  OBVIOUS
<1>1. StaticOK
  BY NoticesAssumption, LimitsAssumption DEF Init, StaticOK
<1>2. MoneyOK /\ CreateOK
  BY AmountsAssumption DEF Init, MoneyOK, CreateOK
<1>3. EventOK
  BY DEF Init, EventOK
<1>4. RedisOK
  BY DEF Init, RedisOK
<1>5. IngestOK
  BY DEF Init, IngestOK, LiveIngests, Ingests, IngestSteps, IdleCall
<1>6. PollOK
  BY DEF Init, PollOK, LivePolls, Polls, PollSteps, IdlePoll
<1> QED BY <1>1, <1>2, <1>3, <1>4, <1>5, <1>6 DEF PipelineInv

-----------------------------------------------------------------------------
(* What no step takes back                                                 *)

Growth ==
  /\ about' = about
  /\ faults' \in Nat /\ faults <= faults'
  /\ offered \subseteq offered'
  /\ \A n \in Notices : event[n] # "absent" => event'[n] # "absent"
  /\ \A p \in Payments : payment[p] \in Decided => payment'[p] \in Decided

LEMMA LiveGrows ==
  ASSUME StaticOK, Growth
  PROVE  LiveJobs \subseteq LiveJobs' /\ LiveIngests \subseteq LiveIngests' /\ LivePolls \subseteq LivePolls'
<1>0. faults \in Nat /\ faults' \in Nat /\ faults <= faults' /\ about' = about
  BY LimitsAssumption DEF StaticOK, Growth
<1>1. LiveJobs \subseteq LiveJobs'
  <2> SUFFICES ASSUME NEW j \in LiveJobs PROVE j \in LiveJobs'
    OBVIOUS
  <2>1. j \in Jobs /\ j.event \in Notices /\ j.attempt \in Nat
    BY LimitsAssumption DEF LiveJobs, Jobs
  <2> QED BY <1>0, <2>1 DEF LiveJobs, Growth
<1>2. LiveIngests \subseteq LiveIngests'
  <2> SUFFICES ASSUME NEW i \in LiveIngests PROVE i \in LiveIngests'
    OBVIOUS
  <2>1. i \in Ingests
    BY DEF LiveIngests
  <2>2. i.at \in {"check", "upsert", "enqueue", "markQueued"} => i.notice \in Notices /\ about[i.notice].payment \in offered
    BY DEF LiveIngests
  <2> QED BY <1>0, <2>1, <2>2 DEF LiveIngests, Growth
<1>3. LivePolls \subseteq LivePolls'
  <2> SUFFICES ASSUME NEW b \in LivePolls, b.at # "idle" PROVE b \in LivePolls'
    BY DEF LivePolls
  <2>1. b.job \in LiveJobs /\ b.job \in LiveJobs' /\ b.job.event \in Notices /\ b.job.attempt \in Nat
    BY <1>1, LimitsAssumption DEF LivePolls, LiveJobs, Jobs
  <2>2. about[b.job.event].payment \in Payments
    BY <2>1 DEF StaticOK, Contents
  <2>3. Deserves(b.job.event) => Deserves(b.job.event)'
    BY <1>0 DEF Deserves, StatusOf
  <2>4. Dealt(b.job.event) => Dealt(b.job.event)'
    BY <1>0, <2>2 DEF Dealt, StatusOf, Growth
  <2> QED BY <1>0, <2>1, <2>3, <2>4 DEF LivePolls
<1> QED BY <1>1, <1>2, <1>3

LEMMA MoneyKept == MoneyOK /\ UNCHANGED moneyVars => MoneyOK'
BY DEF MoneyOK, moneyVars

LEMMA CreateKept == CreateOK /\ UNCHANGED <<createVars, moneyVars>> => CreateOK'
BY DEF CreateOK, createVars, moneyVars

LEMMA EventKept ==
  ASSUME StaticOK, EventOK, Growth, UNCHANGED <<event, credited>>
  PROVE  EventOK'
<1>1. about' = about /\ \A n \in Notices : about[n].payment \in Payments
  BY DEF Growth, StaticOK, Contents
<1>2. \A n \in Notices : Dealt(n) => Dealt(n)'
  BY <1>1 DEF Dealt, StatusOf, Growth
<1>3. \A n \in Notices : Deserves(n) => Deserves(n)'
  BY <1>1 DEF Deserves, StatusOf
<1> QED BY <1>1, <1>2, <1>3 DEF EventOK

LEMMA QueueKept ==
  ASSUME StaticOK, Growth, queue \in Seq(LiveJobs)
  PROVE  queue \in Seq(LiveJobs')
BY LiveGrows, SeqMonotonic

LEMMA RedisKept ==
  ASSUME StaticOK, RedisOK, Growth, UNCHANGED redisVars
  PROVE  RedisOK'
<1>1. queue \in Seq(LiveJobs')
  BY QueueKept DEF RedisOK
<1> QED BY <1>1 DEF RedisOK, redisVars

LEMMA IngestKept ==
  ASSUME StaticOK, IngestOK, Growth, UNCHANGED ingest
  PROVE  IngestOK'
BY LiveGrows DEF IngestOK

LEMMA PollKept ==
  ASSUME StaticOK, PollOK, Growth, UNCHANGED poll
  PROVE  PollOK'
BY LiveGrows DEF PollOK

LEMMA StaticKept ==
  ASSUME StaticOK, UNCHANGED about, UNCHANGED faults \/ \E kind : Fault(kind)
  PROVE  StaticOK' /\ faults' \in Nat /\ faults <= faults'
BY LimitsAssumption DEF StaticOK, Fault

-----------------------------------------------------------------------------
(* What the helpers of the steps do to the parts of the invariant          *)

LEMMA Pushed ==
  ASSUME NEW S, queue \in Seq(S), NEW job \in S, NEW k \in 0..Tries, PushTimes(job, k)
  PROVE  queue' \in Seq(S)
<1>1. [i \in 1..k |-> job] \in Seq(S)
  BY SeqDef DEF Tries
<1>2. queue \o [i \in 1..k |-> job] \in Seq(S)
  BY <1>1, ConcatProperties
<1> QED BY <1>2 DEF PushTimes

LEMMA Popped ==
  ASSUME NEW S, queue \in Seq(S), NEW k \in Nat, PopTimes(k)
  PROVE  queue' \in Seq(S)
<1>1. Len(queue) \in Nat
  BY LenProperties
<1>2. \A i \in (k + 1)..Len(queue) : queue[i] \in S
  BY <1>1, ElementOfSeq
<1>3. SubSeq(queue, k + 1, Len(queue)) \in Seq(S)
  BY <1>1, <1>2, SubSeqProperties
<1> QED BY <1>3 DEF PopTimes

(* A push of a live job, whatever becomes of its answer.                   *)
LEMMA PushKeepsQueue ==
  ASSUME StaticOK, RedisOK, Growth, NEW job \in LiveJobs', NEW pushed, NEW thrown, Push(job, pushed, thrown)
  PROVE  queue' \in Seq(LiveJobs')
<1>1. queue \in Seq(LiveJobs')
  BY QueueKept DEF RedisOK
<1>2. PICK k \in 0..Tries : PushTimes(job, k)
  BY DEF Push, Tries
<1> QED BY <1>1, <1>2, Pushed

LEMMA QueueChanges ==
  ASSUME StaticOK, RedisOK, Growth, queue' \in Seq(LiveJobs'), UNCHANGED <<nonces, dlq>>, unripe' \subseteq Jobs
  PROVE  RedisOK'
BY DEF RedisOK

LEMMA IngestGoes ==
  ASSUME StaticOK, IngestOK, Growth, NEW d \in Deliveries, ingest[d].at # "idle",
         NEW step \in IngestSteps \ {"idle"}, IngestTo(d, step),
         step \in {"check", "upsert", "enqueue", "markQueued"} => about[ingest[d].notice].payment \in offered,
         step \in {"enqueue", "markQueued"} => event'[ingest[d].notice] # "absent"
  PROVE  IngestOK'
<1> DEFINE moved == [at |-> step, notice |-> ingest[d].notice, nonce |-> ingest[d].nonce]
<1>1. ingest[d] \in Ingests /\ ingest[d].notice \in Notices /\ ingest[d].nonce \in Nonces
  BY DEF IngestOK, LiveIngests
<1>2. moved \in LiveIngests'
  BY <1>1 DEF LiveIngests, Ingests, Growth
<1>3. ingest' = [ingest EXCEPT ![d] = moved]
  <2>1. [ingest[d] EXCEPT !.at = step] = moved
    BY <1>1 DEF Ingests
  <2>2. ingest' = [ingest EXCEPT ![d] = [ingest[d] EXCEPT !.at = step]]
    BY DEF IngestTo
  <2> QED BY <2>1, <2>2
<1>4. ingest \in [Deliveries -> LiveIngests']
  BY LiveGrows DEF IngestOK
<1> HIDE DEF moved
<1> QED BY <1>2, <1>3, <1>4 DEF IngestOK

LEMMA PollGoes ==
  ASSUME StaticOK, PollOK, Growth, NEW q \in Pollers, NEW b \in LivePolls',
         poll' = [poll EXCEPT ![q] = b]
  PROVE  PollOK'
BY LiveGrows DEF PollOK

LEMMA IdleIsLive == IdlePoll \in LivePolls /\ IdlePoll \in LivePolls'
BY DEF IdlePoll, LivePolls, Polls, PollSteps

(* A poll that is not idle, in the terms of the next state.                *)
LEMMA BusyPoll ==
  ASSUME StaticOK, PollOK, Growth, NEW q \in Pollers, poll[q].at # "idle"
  PROVE  /\ poll[q] \in LivePolls /\ poll[q] \in Polls
         /\ poll[q].job \in LiveJobs /\ poll[q].job \in LiveJobs'
         /\ poll[q].job \in Jobs
         /\ EventOf(q) \in Notices /\ PaymentOf(q) \in Payments
         /\ poll[q].job.attempt \in 1..MaxAttempts
BY LiveGrows DEF PollOK, LivePolls, LiveJobs, Jobs, EventOf, PaymentOf, StaticOK, Contents

LEMMA PollTold ==
  ASSUME StaticOK, PollOK, NEW q \in Pollers, NEW step, PollTo(q, step)
  PROVE  poll' = [poll EXCEPT ![q] = [at |-> step, job |-> poll[q].job, verdict |-> poll[q].verdict]]
<1>1. poll[q] \in Polls
  BY DEF PollOK, LivePolls
<1>2. [poll[q] EXCEPT !.at = step] = [at |-> step, job |-> poll[q].job, verdict |-> poll[q].verdict]
  BY <1>1 DEF Polls
<1>3. poll' = [poll EXCEPT ![q] = [poll[q] EXCEPT !.at = step]]
  BY DEF PollTo
<1> QED BY <1>2, <1>3

(* Steps that ask nothing of the poll but its job.                         *)
LEMMA PollMoves ==
  ASSUME StaticOK, PollOK, Growth, NEW q \in Pollers, poll[q].at # "idle",
         NEW step \in {"putBack", "read", "markRetrying", "markDead"}, PollTo(q, step)
  PROVE  PollOK'
<1> DEFINE moved == [at |-> step, job |-> poll[q].job, verdict |-> poll[q].verdict]
<1>1. moved \in LivePolls'
  BY BusyPoll DEF LivePolls, Polls, PollSteps
<1> QED BY <1>1, PollTold, PollGoes

LEMMA PollRests ==
  ASSUME StaticOK, PollOK, Growth, NEW q \in Pollers, poll' = [poll EXCEPT ![q] = IdlePoll]
  PROVE  PollOK'
BY IdleIsLive, PollGoes

LEMMA PollDone ==
  ASSUME StaticOK, PollOK, Growth, NEW q \in Pollers, poll[q].at # "idle", PollTo(q, "markProcessed"),
         StatusOf(EventOf(q)) # "PENDING" /\ about[EventOf(q)].sameProvider => payment'[PaymentOf(q)] \in Decided
  PROVE  PollOK'
<1> DEFINE moved == [at |-> "markProcessed", job |-> poll[q].job, verdict |-> poll[q].verdict]
<1>1. moved \in Polls /\ moved.job \in LiveJobs' /\ moved.at = "markProcessed"
  BY BusyPoll DEF Polls, PollSteps
<1>2. PICK n \in Notices : n = moved.job.event
  BY BusyPoll DEF EventOf
<1>3. Dealt(n)'
  BY <1>2 DEF Dealt, StatusOf, EventOf, PaymentOf, Growth
<1>4. moved \in LivePolls'
  BY <1>1, <1>2, <1>3 DEF LivePolls, Polls
<1> QED BY <1>4, PollTold, PollGoes

(* An error leads to a step of the catch block.                            *)
LEMMA PollCaught ==
  ASSUME StaticOK, PollOK, Growth, NEW q \in Pollers, poll[q].at # "idle", PollTo(q, CatchStep(q))
  PROVE  PollOK'
<1> DEFINE moved == [at |-> CatchStep(q), job |-> poll[q].job, verdict |-> poll[q].verdict]
<1>1. moved \in Polls /\ moved.job \in LiveJobs' /\ moved.job \in LiveJobs /\ moved.at \in {"retry", "deadLetter"}
  BY BusyPoll DEF Polls, PollSteps, CatchStep
<1>2. /\ moved.at = "retry" => moved.job.attempt < MaxAttempts
      /\ moved.at = "deadLetter" => moved.job.attempt = MaxAttempts
  BY BusyPoll, LimitsAssumption DEF CatchStep
<1>3. moved \in LivePolls'
  BY <1>1, <1>2 DEF LivePolls
<1> QED BY <1>3, PollTold, PollGoes

(* What a crash leaves is what there was, or nothing.                      *)
LEMMA Crashed ==
  ASSUME StaticOK, CreateOK, IngestOK, PollOK, Growth, NEW h, CrashOf(h), UNCHANGED moneyVars
  PROVE  CreateOK' /\ IngestOK' /\ PollOK'
<1>1. CreateOK'
  BY DEF CreateOK, CrashOf, moneyVars
<1>2. IngestOK'
  <2> SUFFICES ASSUME NEW d \in Deliveries PROVE ingest'[d] \in LiveIngests'
    BY DEF IngestOK, CrashOf
  <2>1. ingest[d] \in LiveIngests' /\ ingest[d] \in LiveIngests
    BY LiveGrows DEF IngestOK
  <2>2. ingest[d].at \in {"check", "upsert", "enqueue", "markQueued"} => [ingest[d] EXCEPT !.at = "error"] \in LiveIngests'
    BY <2>1 DEF LiveIngests, Ingests, IngestSteps
  <2> QED BY <2>1, <2>2 DEF CrashOf
<1>3. PollOK'
  BY LiveGrows, IdleIsLive DEF PollOK, CrashOf
<1> QED BY <1>1, <1>2, <1>3

-----------------------------------------------------------------------------
(* Every step keeps the invariant                                          *)

LEMMA CreateKeepsInv ==
  ASSUME PipelineInv, NEW p \in Payments, CreateNext(p)
  PROVE  PipelineInv'
<1> USE DEF PipelineInv
<1>1. CASE CreateRow(p)
  <2>1. StaticOK' /\ Growth
    <3>1. StaticOK' /\ faults' \in Nat /\ faults <= faults'
      BY <1>1, StaticKept DEF CreateRow
    <3>2. payment[p] = "absent" /\ (UNCHANGED payment \/ payment' = [payment EXCEPT ![p] = "PENDING"])
      BY <1>1 DEF CreateRow, CreateOK
    <3> QED BY <1>1, <3>1, <3>2 DEF CreateRow, Growth, Decided, MoneyOK
  <2>2. MoneyOK'
    BY <1>1 DEF CreateRow, MoneyOK, CreateOK, PaymentStatuses, Decided
  <2>3. CreateOK'
    BY <1>1 DEF CreateRow, CreateTo, CreateOK, MoneyOK
  <2> QED BY <1>1, <2>1, <2>2, <2>3, EventKept, RedisKept, IngestKept, PollKept DEF CreateRow
<1>2. CASE Link(p)
  <2>1. StaticOK' /\ Growth
    BY <1>2, StaticKept DEF Link, Growth
  <2>2. MoneyOK'
    BY <1>2 DEF Link, MoneyOK
  <2>3. CreateOK'
    BY <1>2 DEF Link, CreateTo, CreateOK
  <2> QED BY <1>2, <2>1, <2>2, <2>3, EventKept, RedisKept, IngestKept, PollKept DEF Link
<1> QED BY <1>1, <1>2 DEF CreateNext

LEMMA DeliverKeepsInv ==
  ASSUME PipelineInv, NEW d \in Deliveries, NEW n \in Notices, NEW nonce \in Nonces, Deliver(d, n, nonce)
  PROVE  PipelineInv'
<1> USE DEF PipelineInv
<1>1. StaticOK' /\ Growth
  BY StaticKept DEF Deliver, Growth, createVars, moneyVars
<1>2. [at |-> "check", notice |-> n, nonce |-> nonce] \in LiveIngests'
  <2>1. about'[n].payment \in offered'
    BY <1>1 DEF Deliver, Growth
  <2> QED BY <2>1 DEF LiveIngests, Ingests, IngestSteps
<1>3. IngestOK'
  BY <1>1, <1>2, LiveGrows DEF IngestOK, Deliver
<1> QED BY <1>1, <1>3, MoneyKept, CreateKept, EventKept, RedisKept, PollKept DEF Deliver, moneyVars

LEMMA IngestKeepsInv ==
  ASSUME PipelineInv, NEW d \in Deliveries, IngestNext(d)
  PROVE  PipelineInv'
<1> USE DEF PipelineInv
<1> DEFINE n == ingest[d].notice
<1>0. /\ ingest[d].at \in {"check", "upsert", "enqueue", "markQueued"} => n \in Notices /\ about[n].payment \in offered
      /\ ingest[d].at \in {"enqueue", "markQueued"} => event[n] # "absent"
  BY DEF IngestOK, LiveIngests
<1>1. CASE Check(d)
  <2>1. StaticOK' /\ Growth
    BY <1>1, StaticKept DEF Check, Growth, createVars, moneyVars
  <2>2. IngestOK'
    BY <1>0, <1>1, <2>1, IngestGoes DEF Check, IngestSteps
  <2>3. ingest[d].nonce \in Nonces
    BY <1>1 DEF Check, IngestOK, LiveIngests
  <2>4. nonces' \subseteq Nonces
    BY <1>1, <2>3 DEF Check, RedisOK
  <2>5. queue \in Seq(LiveJobs')
    BY <2>1, QueueKept DEF RedisOK
  <2>6. RedisOK'
    BY <1>1, <2>1, <2>4, <2>5 DEF Check, RedisOK
  <2> QED BY <1>1, <2>1, <2>2, <2>6, MoneyKept, CreateKept, EventKept, PollKept DEF Check, moneyVars
<1>2. CASE Upsert(d)
  <2>1. StaticOK' /\ Growth
    BY <1>2, StaticKept DEF Upsert, Growth, EventOK, createVars, moneyVars
  <2>2. event' \in [Notices -> EventStatuses \cup {"absent"}] /\ \A m \in Notices : event'[m] = "PROCESSED" => event[m] = "PROCESSED"
    BY <1>2 DEF Upsert, EventOK, EventStatuses
  <2>3. EventOK'
    BY <1>2, <2>1, <2>2 DEF Upsert, EventOK, Growth, Dealt, Deserves, StatusOf, moneyVars
  <2>4. n \in Notices /\ ingest[d].at = "upsert"
    BY <1>0, <1>2 DEF Upsert
  <2>5. IngestOK'
    <3>1. ASSUME event' = [event EXCEPT ![n] = IF @ = "absent" THEN "RECEIVED" ELSE @],
                 NEW step \in {"ignored", "enqueue"}, IngestTo(d, step)
          PROVE  IngestOK'
      <4>1. event'[n] # "absent"
        BY <2>4, <3>1 DEF EventOK
      <4> QED BY <1>0, <2>1, <2>4, <3>1, <4>1, IngestGoes DEF IngestSteps
    <3>2. ASSUME IngestTo(d, "error") PROVE IngestOK'
      BY <2>1, <2>4, <3>2, IngestGoes DEF IngestSteps
    <3> QED BY <1>2, <3>1, <3>2 DEF Upsert
  <2> QED BY <1>2, <2>1, <2>3, <2>5, MoneyKept, CreateKept, RedisKept, PollKept DEF Upsert
<1>3. CASE Enqueue(d)
  <2> DEFINE job == [event |-> n, attempt |-> 1]
  <2>1. StaticOK' /\ Growth
    BY <1>3, StaticKept DEF Enqueue, Push, Growth, createVars, moneyVars
  <2>2. job \in LiveJobs
    BY <1>0, <1>3, LimitsAssumption DEF Enqueue, LiveJobs, Jobs, StaticOK
  <2>3. queue' \in Seq(LiveJobs')
    BY <1>3, <2>1, <2>2, LiveGrows, PushKeepsQueue DEF Enqueue
  <2>4. RedisOK'
    BY <1>3, <2>1, <2>3, QueueChanges DEF Enqueue, RedisOK
  <2>5. IngestTo(d, "markQueued") \/ IngestTo(d, "error")
    BY <1>3 DEF Enqueue, Push
  <2>6. IngestOK'
    BY <1>0, <1>3, <2>1, <2>5, IngestGoes DEF Enqueue, IngestSteps
  <2> QED BY <1>3, <2>1, <2>4, <2>6, MoneyKept, CreateKept, EventKept, PollKept DEF Enqueue, moneyVars
<1>4. CASE MarkQueued(d)
  <2>1. StaticOK' /\ Growth
    BY <1>4, StaticKept DEF MarkQueued, Growth, EventOK, createVars, moneyVars
  <2>2. event' \in [Notices -> EventStatuses \cup {"absent"}] /\ \A m \in Notices : event'[m] = "PROCESSED" => event[m] = "PROCESSED"
    BY <1>4 DEF MarkQueued, EventOK, EventStatuses
  <2>3. EventOK'
    BY <1>4, <2>1, <2>2 DEF MarkQueued, EventOK, Growth, Dealt, Deserves, StatusOf, moneyVars
  <2>4. IngestOK'
    BY <1>0, <1>4, <2>1, IngestGoes DEF MarkQueued, IngestSteps
  <2> QED BY <1>4, <2>1, <2>3, <2>4, MoneyKept, CreateKept, RedisKept, PollKept DEF MarkQueued
<1> QED BY <1>1, <1>2, <1>3, <1>4 DEF IngestNext

(* Steps of a poll that touch no payment and no job on the list.           *)
LEMMA QuietPoll ==
  ASSUME StaticOK, UNCHANGED <<about, moneyVars, createVars>>, UNCHANGED faults \/ \E kind : Fault(kind),
         \A n \in Notices : event[n] # "absent" => event'[n] # "absent"
  PROVE  StaticOK' /\ Growth
BY StaticKept DEF Growth, createVars, moneyVars

(* The event of a poll is given a new status.                              *)
LEMMA EventMarked ==
  ASSUME StaticOK, EventOK, Growth, UNCHANGED credited, NEW n \in Notices, NEW status \in EventStatuses,
         event' = [event EXCEPT ![n] = status] \/ UNCHANGED event,
         status = "PROCESSED" => Dealt(n)
  PROVE  EventOK'
<1>1. about' = about /\ \A m \in Notices : about[m].payment \in Payments
  BY DEF Growth, StaticOK, Contents
<1>2. \A m \in Notices : event'[m] = "PROCESSED" => Dealt(m)
  BY DEF EventOK
<1>3. \A m \in Notices : Dealt(m) => Dealt(m)'
  BY <1>1 DEF Dealt, StatusOf, Growth
<1>4. \A m \in Notices : Deserves(m) => Deserves(m)'
  BY <1>1 DEF Deserves, StatusOf
<1>5. event' \in [Notices -> EventStatuses \cup {"absent"}]
  BY DEF EventOK
<1>6. \A m \in Notices : event[m] # "absent" => event'[m] # "absent"
  BY DEF Growth
<1> QED BY <1>1, <1>2, <1>3, <1>4, <1>5, <1>6 DEF EventOK

LEMMA PopKeepsInv ==
  ASSUME PipelineInv, NEW q \in Pollers, Pop(q)
  PROVE  PipelineInv'
<1> USE DEF PipelineInv
<1>1. about' = about /\ offered' = offered /\ UNCHANGED <<moneyVars, event>>
  BY DEF Pop, DieIn, CrashOf, Survive
<1>2. StaticOK' /\ Growth
  <2>1. UNCHANGED faults \/ \E kind : Fault(kind)
    BY DEF Pop
  <2> QED BY <1>1, <2>1, StaticKept DEF Growth, moneyVars
<1>3. RedisOK'
  <2>1. PICK k \in Nat : PopTimes(k)
    BY DEF Pop, Tries
  <2>2. queue' \in Seq(LiveJobs')
    BY <1>2, <2>1, QueueKept, Popped DEF RedisOK
  <2> QED BY <1>2, <2>2, QueueChanges DEF Pop, RedisOK
<1>4. CreateOK' /\ IngestOK' /\ PollOK'
  <2>1. CASE DieIn(q)
    BY <1>1, <1>2, <2>1, Crashed DEF DieIn
  <2>2. CASE Survive /\ UNCHANGED poll
    BY <1>1, <1>2, <2>2, CreateKept, IngestKept, PollKept DEF Survive, createVars
  <2>3. ASSUME Survive, NEW step \in {"putBack", "read"},
               poll' = [poll EXCEPT ![q] = [at |-> step, job |-> Head(queue), verdict |-> "none"]]
        PROVE  CreateOK' /\ IngestOK' /\ PollOK'
    <3>1. queue # <<>>
      BY DEF Pop
    <3>2. Head(queue) \in LiveJobs'
      BY <1>2, <3>1, QueueKept, HeadTailProperties DEF RedisOK
    <3>3. [at |-> step, job |-> Head(queue), verdict |-> "none"] \in LivePolls'
      BY <3>2 DEF LivePolls, Polls, PollSteps, LiveJobs
    <3>4. PollOK'
      BY <1>2, <2>3, <3>3, PollGoes
    <3> QED BY <1>1, <1>2, <2>3, <3>4, CreateKept, IngestKept DEF Survive, createVars
  <2> QED BY <2>1, <2>2, <2>3 DEF Pop
<1> QED BY <1>1, <1>2, <1>3, <1>4, MoneyKept, EventKept DEF moneyVars

LEMMA PushKeepsInv ==
  ASSUME PipelineInv, NEW q \in Pollers, PutBack(q) \/ Retry(q)
  PROVE  PipelineInv'
<1> USE DEF PipelineInv
<1>1. about' = about /\ offered' = offered /\ UNCHANGED <<moneyVars, event>>
  BY DEF PutBack, Retry, Push, DieIn, CrashOf, Survive
<1>2. StaticOK' /\ Growth
  <2>1. UNCHANGED faults \/ \E kind : Fault(kind)
    BY DEF PutBack, Retry, Push
  <2> QED BY <1>1, <2>1, StaticKept DEF Growth, moneyVars
<1>3. CASE PutBack(q)
  <2>1. poll[q].job \in LiveJobs'
    BY <1>2, <1>3, BusyPoll DEF PutBack
  <2>2. queue' \in Seq(LiveJobs')
    BY <1>2, <1>3, <2>1, PushKeepsQueue DEF PutBack
  <2>3. RedisOK'
    BY <1>2, <1>3, <2>2, QueueChanges DEF PutBack, RedisOK
  <2>4. CASE DieIn(q)
    BY <1>1, <1>2, <2>3, <2>4, Crashed, MoneyKept, EventKept DEF DieIn, moneyVars
  <2>5. CASE Survive /\ poll' = [poll EXCEPT ![q] = IdlePoll]
    BY <1>1, <1>2, <2>3, <2>5, PollRests, MoneyKept, CreateKept, EventKept, IngestKept DEF Survive, createVars, moneyVars
  <2> QED BY <1>3, <2>4, <2>5 DEF PutBack, Push
<1>4. CASE Retry(q)
  <2> DEFINE job == [poll[q].job EXCEPT !.attempt = @ + 1]
  <2>1. poll[q].at = "retry" /\ poll[q].job \in LiveJobs' /\ poll[q].job \in Jobs /\ poll[q].job.attempt \in 1..MaxAttempts
    BY <1>2, <1>4, BusyPoll DEF Retry
  <2>2. poll[q].job.attempt < MaxAttempts
    BY <2>1 DEF PollOK, LivePolls
  <2>3. job \in Jobs /\ job.event = EventOf(q)
    BY <2>1, <2>2, LimitsAssumption DEF Jobs, EventOf
  <2>4. job \in LiveJobs'
    BY <2>1, <2>3 DEF LiveJobs, EventOf
  <2> HIDE DEF job
  <2>5. queue' \in Seq(LiveJobs')
    BY <1>2, <1>4, <2>4, PushKeepsQueue DEF Retry, job
  <2>6. RedisOK'
    BY <1>2, <1>4, <2>3, <2>5, QueueChanges DEF Retry, RedisOK, job
  <2>7. CASE DieIn(q)
    BY <1>1, <1>2, <2>6, <2>7, Crashed, MoneyKept, EventKept DEF DieIn, moneyVars
  <2>8. CASE Survive /\ PollTo(q, "markRetrying")
    BY <1>1, <1>2, <2>1, <2>6, <2>8, PollMoves, MoneyKept, CreateKept, EventKept, IngestKept DEF Survive, createVars, moneyVars
  <2> QED BY <1>4, <2>7, <2>8 DEF Retry, Push
<1> QED BY <1>3, <1>4

(* What is read decides what will be written.                              *)
LEMMA ReadKeepsInv ==
  ASSUME PipelineInv, NEW q \in Pollers, Read(q)
  PROVE  PipelineInv'
<1> USE DEF PipelineInv
<1> DEFINE n == EventOf(q)
<1>1. StaticOK' /\ Growth
  BY QuietPoll DEF Read
<1>2. poll[q].at = "read" /\ n \in Notices /\ PaymentOf(q) = about[n].payment /\ PaymentOf(q) \in Payments
  BY <1>1, BusyPoll DEF Read, PaymentOf
<1>3. about[n].payment \in linked /\ payment[about[n].payment] # "absent" /\ poll[q].job \in LiveJobs'
  BY <1>1, <1>2, BusyPoll DEF LiveJobs, EventOf, CreateOK
<1>4. ASSUME PollTo(q, CatchStep(q)) PROVE PollOK'
  BY <1>1, <1>2, <1>4, PollCaught
<1>5. ASSUME Ignored(q), PollTo(q, "markProcessed") PROVE PollOK'
  <2>1. StatusOf(n) # "PENDING" /\ about[n].sameProvider => payment[PaymentOf(q)] \in Decided
    BY <1>2, <1>3, <1>5 DEF Ignored, MoneyOK, PaymentStatuses, Decided
  <2>2. payment' = payment
    BY DEF Read, moneyVars
  <2> QED BY <1>1, <1>2, <1>5, <2>1, <2>2, PollDone
<1>6. ASSUME HasSignature(n, FALSE), ~Ignored(q), NEW v \in Verdicts(n),
             poll' = [poll EXCEPT ![q] = [at |-> "apply", job |-> @.job, verdict |-> v]]
      PROVE  PollOK'
  <2> DEFINE moved == [at |-> "apply", job |-> poll[q].job, verdict |-> v]
  <2>1. poll[q] \in Polls
    BY <1>1, <1>2, BusyPoll
  <2>2. poll' = [poll EXCEPT ![q] = moved]
    BY <1>6
  <2>3. v \in Decided /\ (v = "SUCCESS" => Deserves(n))
    BY <1>6 DEF Ignored, Verdicts, StatusOf, mapStatus, Decided, Deserves, HasSignature
  <2>4. PICK m \in Notices : m = n
    BY <1>2
  <2>5. v = "SUCCESS" => Deserves(m)'
    BY <1>1, <2>3, <2>4 DEF Deserves, StatusOf, Growth
  <2>6. moved \in Polls /\ moved.job \in LiveJobs' /\ moved.job.event = m
    BY <1>3, <2>1, <2>3, <2>4 DEF Polls, PollSteps, Decided, PaymentStatuses, EventOf
  <2>7. moved \in LivePolls'
    BY <2>3, <2>5, <2>6 DEF LivePolls
  <2> QED BY <1>1, <2>2, <2>7, PollGoes
<1>7. PollOK'
  BY <1>4, <1>5, <1>6 DEF Read
<1> QED BY <1>1, <1>7, MoneyKept, CreateKept, EventKept, RedisKept, IngestKept DEF Read, createVars, moneyVars

(* The transaction.                                                        *)
LEMMA WriteKeepsMoney ==
  ASSUME PipelineInv, NEW q \in Pollers, poll[q].at = "apply", UNCHANGED <<about, linked, event, create, offered>>,
         Write(q) \/ UNCHANGED <<payment, balance, credited>>
  PROVE  /\ MoneyOK' /\ CreateOK' /\ EventOK'
         /\ \A p \in Payments : payment[p] \in Decided => payment'[p] \in Decided
         /\ Write(q) => payment'[PaymentOf(q)] \in Decided
<1> USE DEF PipelineInv
<1> DEFINE n == EventOf(q)
           p == PaymentOf(q)
<1>1. /\ poll[q].verdict \in Decided
      /\ poll[q].verdict = "SUCCESS" => Deserves(n)
      /\ n \in Notices /\ event[n] # "absent" /\ p = about[n].payment /\ p \in Payments /\ p \in linked
  BY DEF PollOK, LivePolls, LiveJobs, Jobs, EventOf, PaymentOf, StaticOK, Contents, CreateOK
<1>2. payment[p] # "absent" /\ create[p] # "start"
  BY <1>1 DEF CreateOK
<1>3. Owner[p] \in Users /\ Amount[p] \in Nat
  BY <1>1, AmountsAssumption
<1>4. payment' = payment \/ payment' = [payment EXCEPT ![p] = poll[q].verdict]
  BY DEF Write
<1>5. \A r \in Payments : payment[r] \in Decided => payment'[r] \in Decided
  BY <1>1, <1>4 DEF MoneyOK
<1>6. Write(q) => payment'[p] \in Decided
  BY <1>1, <1>2 DEF Write, MoneyOK, PaymentStatuses, Decided
<1>7. MoneyOK'
  <2>1. payment' \in [Payments -> PaymentStatuses \cup {"absent"}] /\ linked' \subseteq Payments /\ credited' \subseteq Payments
    BY <1>1, <1>4 DEF Write, MoneyOK, Decided, PaymentStatuses
  <2>2. balance' \in [Users -> Nat]
    BY <1>3 DEF Write, MoneyOK
  <2>3. \A r \in Payments : payment'[r] = "SUCCESS" => r \in credited'
    BY <1>1 DEF Write, MoneyOK
  <2>4. \A r \in credited' : payment'[r] \in Decided
    BY <1>1, <1>5, <1>6 DEF Write, MoneyOK
  <2> QED BY <2>1, <2>2, <2>3, <2>4 DEF MoneyOK
<1>8. CreateOK'
  BY <1>1, <1>2, <1>4 DEF CreateOK, MoneyOK, Decided
<1>9. EventOK'
  <2>1. \A m \in Notices : Dealt(m) => Dealt(m)'
    BY <1>5 DEF Dealt, StatusOf, StaticOK, Contents
  <2>2. \A m \in Notices : Deserves(m) => Deserves(m)'
    BY DEF Deserves, StatusOf
  <2>3. \A r \in credited' : r \in credited \/ (r = p /\ Deserves(n))
    BY <1>1 DEF Write
  <2> HIDE DEF n, p
  <2>4. \A r \in credited' : \E m \in Notices : event[m] # "absent" /\ about[m].payment = r /\ Deserves(m)
    BY <1>1, <2>3 DEF EventOK
  <2> QED BY <2>1, <2>2, <2>4 DEF EventOK
<1> QED BY <1>5, <1>6, <1>7, <1>8, <1>9

LEMMA ApplyKeepsInv ==
  ASSUME PipelineInv, NEW q \in Pollers, Apply(q)
  PROVE  PipelineInv'
<1> USE DEF PipelineInv
<1>1. poll[q].at = "apply" /\ UNCHANGED <<about, linked, event, create, offered, redisVars, ingest>>
      /\ (Write(q) \/ UNCHANGED <<payment, balance, credited>>)
  BY DEF Apply, createVars
<1>2. MoneyOK' /\ CreateOK' /\ EventOK'
  BY <1>1, WriteKeepsMoney
<1>3. StaticOK' /\ Growth
  <2>1. UNCHANGED faults \/ \E kind : Fault(kind)
    BY DEF Apply
  <2>2. \A p \in Payments : payment[p] \in Decided => payment'[p] \in Decided
    BY <1>1, WriteKeepsMoney
  <2> QED BY <1>1, <2>1, <2>2, StaticKept DEF Growth
<1>4. CASE Write(q) /\ PollTo(q, "markProcessed")
  <2>1. payment'[PaymentOf(q)] \in Decided
    BY <1>1, <1>4, WriteKeepsMoney
  <2>2. PollOK'
    BY <1>1, <1>3, <1>4, <2>1, PollDone
  <2> QED BY <1>1, <1>2, <1>3, <2>2, RedisKept, IngestKept
<1>5. CASE Fault("db") /\ PollTo(q, CatchStep(q))
  <2>1. PollOK'
    BY <1>1, <1>3, <1>5, PollCaught
  <2> QED BY <1>1, <1>2, <1>3, <2>1, RedisKept, IngestKept
<1> QED BY <1>4, <1>5 DEF Apply

LEMMA MarkProcessedKeepsInv ==
  ASSUME PipelineInv, NEW q \in Pollers, MarkProcessed(q)
  PROVE  PipelineInv'
<1> USE DEF PipelineInv
<1>1. event' = [event EXCEPT ![EventOf(q)] = "PROCESSED"] \/ UNCHANGED event
  BY DEF MarkProcessed
<1>2. StaticOK' /\ Growth
  BY <1>1, QuietPoll DEF MarkProcessed, EventOK
<1>3. poll[q].at = "markProcessed" /\ EventOf(q) \in Notices /\ Dealt(EventOf(q))
  BY <1>2, BusyPoll DEF MarkProcessed, LivePolls, EventOf
<1>4. EventOK'
  BY <1>1, <1>2, <1>3, EventMarked DEF MarkProcessed, EventStatuses, moneyVars
<1>5. CASE poll' = [poll EXCEPT ![q] = IdlePoll]
  BY <1>2, <1>4, <1>5, PollRests, MoneyKept, CreateKept, RedisKept, IngestKept DEF MarkProcessed
<1>6. CASE Fault("db") /\ PollTo(q, CatchStep(q))
  <2>1. PollOK'
    BY <1>2, <1>3, <1>6, PollCaught
  <2> QED BY <1>2, <1>4, <2>1, MoneyKept, CreateKept, RedisKept, IngestKept DEF MarkProcessed
<1> QED BY <1>5, <1>6 DEF MarkProcessed

LEMMA MarkKeepsInv ==
  ASSUME PipelineInv, NEW q \in Pollers, MarkRetrying(q) \/ MarkDead(q)
  PROVE  PipelineInv'
<1> USE DEF PipelineInv
<1>1. PICK status \in {"RETRYING", "DEAD_LETTER"} : poll[q].at # "idle" /\ MarkAs(q, status)
  BY DEF MarkRetrying, MarkDead
<1>2. event' = [event EXCEPT ![EventOf(q)] = status] \/ UNCHANGED event
  BY <1>1 DEF MarkAs
<1>3. about' = about /\ offered' = offered /\ UNCHANGED <<moneyVars, redisVars>>
  BY <1>1 DEF MarkAs, DieIn, CrashOf, Survive
<1>4. StaticOK' /\ Growth
  <2>1. UNCHANGED faults \/ \E kind : Fault(kind)
    BY <1>1 DEF MarkAs
  <2> QED BY <1>2, <1>3, <2>1, StaticKept DEF Growth, moneyVars, EventOK
<1>5. EventOf(q) \in Notices
  BY <1>1, <1>4, BusyPoll
<1>6. EventOK'
  BY <1>2, <1>3, <1>4, <1>5, EventMarked DEF EventStatuses, moneyVars
<1>7. CASE DieIn(q)
  BY <1>3, <1>4, <1>6, <1>7, Crashed, MoneyKept, RedisKept DEF DieIn
<1>8. CASE Survive /\ poll' = [poll EXCEPT ![q] = IdlePoll]
  BY <1>3, <1>4, <1>6, <1>8, PollRests, MoneyKept, CreateKept, RedisKept, IngestKept DEF Survive, createVars
<1> QED BY <1>1, <1>7, <1>8 DEF MarkAs

LEMMA DeadLetterKeepsInv ==
  ASSUME PipelineInv, NEW q \in Pollers, DeadLetter(q)
  PROVE  PipelineInv'
<1> USE DEF PipelineInv
<1>1. about' = about /\ offered' = offered /\ UNCHANGED <<moneyVars, event, nonces, queue, unripe>>
  BY DEF DeadLetter, DieIn, CrashOf, Survive
<1>2. StaticOK' /\ Growth
  <2>1. UNCHANGED faults \/ \E kind : Fault(kind)
    BY DEF DeadLetter
  <2> QED BY <1>1, <2>1, StaticKept DEF Growth, moneyVars
<1>3. EventOf(q) \in Notices
  BY <1>2, BusyPoll DEF DeadLetter
<1>4. RedisOK'
  <2>1. queue' \in Seq(LiveJobs')
    BY <1>1, <1>2, QueueKept DEF RedisOK
  <2>2. dlq' \subseteq Notices
    BY <1>3 DEF DeadLetter, RedisOK
  <2> QED BY <1>1, <2>1, <2>2 DEF RedisOK
<1>5. CASE DieIn(q)
  BY <1>1, <1>2, <1>4, <1>5, Crashed, MoneyKept, EventKept DEF DieIn, moneyVars
<1>6. CASE PollTo(q, "markDead") /\ Survive
  <2>1. PollOK'
    BY <1>2, <1>6, PollMoves DEF DeadLetter
  <2> QED BY <1>1, <1>2, <1>4, <1>6, <2>1, MoneyKept, CreateKept, EventKept, IngestKept DEF Survive, createVars, moneyVars
<1> QED BY <1>5, <1>6 DEF DeadLetter

LEMMA OutsideKeepsInv ==
  ASSUME PipelineInv
  PROVE  /\ \A h \in Processes : Crash(h) => PipelineInv'
         /\ \A nonce \in nonces : ExpireNonce(nonce) => PipelineInv'
         /\ \A job \in unripe : Ripen(job) => PipelineInv'
         /\ UNCHANGED vars => PipelineInv'
<1> USE DEF PipelineInv
<1>1. ASSUME NEW h \in Processes, Crash(h) PROVE PipelineInv'
  <2>1. StaticOK' /\ Growth
    BY <1>1, StaticKept DEF Crash, CrashOf, Growth, moneyVars
  <2> QED BY <1>1, <2>1, Crashed, MoneyKept, EventKept, RedisKept DEF Crash, moneyVars
<1>2. ASSUME NEW nonce \in nonces, ExpireNonce(nonce) PROVE PipelineInv'
  <2>1. StaticOK' /\ Growth
    BY <1>2, QuietPoll DEF ExpireNonce
  <2>2. RedisOK'
    BY <1>2, <2>1, QueueKept DEF ExpireNonce, RedisOK
  <2> QED BY <1>2, <2>1, <2>2, MoneyKept, CreateKept, EventKept, IngestKept, PollKept DEF ExpireNonce, moneyVars
<1>3. ASSUME NEW job \in unripe, Ripen(job) PROVE PipelineInv'
  <2>1. StaticOK' /\ Growth
    BY <1>3, QuietPoll DEF Ripen
  <2>2. RedisOK'
    BY <1>3, <2>1, QueueKept DEF Ripen, RedisOK
  <2> QED BY <1>3, <2>1, <2>2, MoneyKept, CreateKept, EventKept, IngestKept, PollKept DEF Ripen, moneyVars
<1>4. ASSUME UNCHANGED vars PROVE PipelineInv'
  <2>1. StaticOK' /\ Growth
    BY <1>4, QuietPoll DEF vars
  <2> QED BY <1>4, <2>1, MoneyKept, CreateKept, EventKept, RedisKept, IngestKept, PollKept DEF vars, moneyVars
<1> QED BY <1>1, <1>2, <1>3, <1>4

LEMMA PollKeepsInv ==
  ASSUME PipelineInv, NEW q \in Pollers, PollNext(q)
  PROVE  PipelineInv'
BY PopKeepsInv, PushKeepsInv, ReadKeepsInv, ApplyKeepsInv, MarkProcessedKeepsInv, MarkKeepsInv, DeadLetterKeepsInv
   DEF PollNext

LEMMA AlwaysPipelineInv == Spec => []PipelineInv
<1>1. PipelineInv /\ [Next]_vars => PipelineInv'
  BY CreateKeepsInv, DeliverKeepsInv, IngestKeepsInv, PollKeepsInv, OutsideKeepsInv DEF Next
<1> QED BY <1>1, InitPipelineInv, PTL DEF Spec

-----------------------------------------------------------------------------
(* Theorems                                                                *)

(* Every reachable state is well typed: no job is attempted more often     *)
(* than MaxAttempts, and every job names a notice.                         *)
THEOREM TypesHold == Spec => []TypeOK
<1>1. PipelineInv => TypeOK
  <2> SUFFICES ASSUME PipelineInv PROVE TypeOK
    OBVIOUS
  <2>1. queue \in Seq(Jobs)
    BY SeqMonotonic DEF PipelineInv, RedisOK, LiveJobs
  <2>2. ingest \in [Deliveries -> Ingests] /\ poll \in [Pollers -> Polls]
    BY DEF PipelineInv, IngestOK, PollOK, LiveIngests, LivePolls
  <2>3. offered \subseteq Payments
    BY DEF PipelineInv, CreateOK, MoneyOK
  <2> QED BY <2>1, <2>2, <2>3
       DEF PipelineInv, StaticOK, MoneyOK, CreateOK, EventOK, RedisOK, Ingests, Polls, TypeOK
<1> QED BY <1>1, AlwaysPipelineInv, PTL

(* No payment says SUCCESS without its credit, whatever fails or overlaps. *)
THEOREM SuccessAlwaysCredited == Spec => []SuccessIsCredited
<1>1. PipelineInv => SuccessIsCredited
  BY DEF PipelineInv, MoneyOK, SuccessIsCredited
<1> QED BY <1>1, AlwaysPipelineInv, PTL

(* No credit without a stored notice that its provider signed, says        *)
(* success, and is over the amount.                                        *)
THEOREM CreditsHaveNotices == Spec => []CreditHasNotice
<1>1. PipelineInv => CreditHasNotice
  BY DEF PipelineInv, EventOK, CreditHasNotice, Deserves
<1> QED BY <1>1, AlwaysPipelineInv, PTL

(* A job that is being processed finds its payment.  Deliver supposes that *)
(* a provider only speaks of payments whose URL was handed out.            *)
THEOREM NoticesFindPayments == Spec => []NoticeFindsPayment
<1>1. PipelineInv => NoticeFindsPayment
  BY DEF PipelineInv, PollOK, LivePolls, LiveJobs, CreateOK, MoneyOK, NoticeFindsPayment, PaymentOf, EventOf
<1> QED BY <1>1, AlwaysPipelineInv, PTL

(* An event that says PROCESSED has seen its payment decided.              *)
THEOREM ProcessedAlwaysDecided == Spec => []ProcessedIsDecided
<1>1. PipelineInv => ProcessedIsDecided
  BY DEF PipelineInv, EventOK, Dealt, Decided, ProcessedIsDecided
<1> QED BY <1>1, AlwaysPipelineInv, PTL

-----------------------------------------------------------------------------
(* Amounts                                                                 *)

(* A number of hundredths is not within one of an amount it counts the     *)
(* hundredths of, unless that amount is next to nothing.                   *)
LEMMA HundredthsAreFar ==
  ASSUME NEW a \in Nat, NEW t \in Nat, 2 * Apart(100 * t, a) <= 100, Apart(10000 * t, a) <= 1
  PROVE  a <= 1
<1>1. 100 * t - a <= 50 /\ a - 100 * t <= 50
  BY DEF Apart
<1>2. 10000 * t - a <= 1 /\ a - 10000 * t <= 1
  BY DEF Apart
<1>3. t = 0
  BY <1>1, <1>2
<1> QED BY <1>2, <1>3

(* Payme is asked for a hundred times the amount that is stored, and its   *)
(* notices are compared with the amount as it is stored: whatever fails or *)
(* overlaps, a Payme payment is only ever credited for a notice of another *)
(* number than the one its client was asked for.                           *)
THEOREM PaymeCreditedForAnotherNumber ==
  Spec => [](\A p \in credited :
               Provider[p] = "PAYME" /\ Amount[p] > 1 =>
                 \E n \in Notices : /\ event[n] # "absent"
                                     /\ about[n].payment = p
                                     /\ StatusOf(n) = "SUCCESS"
                                     /\ about[n].amount \notin Asked(p))
<1> DEFINE ForAnother ==
             \A p \in credited :
               Provider[p] = "PAYME" /\ Amount[p] > 1 =>
                 \E n \in Notices : /\ event[n] # "absent"
                                     /\ about[n].payment = p
                                     /\ StatusOf(n) = "SUCCESS"
                                     /\ about[n].amount \notin Asked(p)
<1>1. PipelineInv => ForAnother
  <2> SUFFICES ASSUME PipelineInv, NEW p \in credited, Provider[p] = "PAYME", Amount[p] > 1
               PROVE  \E n \in Notices : /\ event[n] # "absent"
                                          /\ about[n].payment = p
                                          /\ StatusOf(n) = "SUCCESS"
                                          /\ about[n].amount \notin Asked(p)
    OBVIOUS
  <2>1. p \in Payments /\ Amount[p] \in Nat
    BY AmountsAssumption DEF PipelineInv, MoneyOK
  <2>2. PICK n \in Notices : event[n] # "absent" /\ about[n].payment = p /\ Deserves(n)
    BY DEF PipelineInv, EventOK
  <2>3. ASSUME about[n].amount \in Asked(p) PROVE FALSE
    <3>1. PICK t \in Hundredths(p) : about[n].amount = 10000 * t
      BY <2>3 DEF Asked
    <3>2. \A a \in Nat : a \div 100 \in Nat
      OBVIOUS
    <3>3. t \in Nat /\ 2 * Apart(100 * t, Amount[p]) <= 100
      BY <2>1, <3>1, <3>2 DEF Hundredths
    <3>4. Apart(10000 * t, Amount[p]) <= 1
      BY <2>2, <3>1 DEF Deserves
    <3> QED BY <2>1, <3>3, <3>4, HundredthsAreFar
  <2> QED BY <2>2, <2>3 DEF Deserves
<1> QED BY <1>1, AlwaysPipelineInv, PTL

-----------------------------------------------------------------------------
(* The wallet                                                              *)

LEMMA MoneySteps ==
  ASSUME [Next]_vars
  PROVE  UNCHANGED <<balance, credited>> \/ \E q \in Pollers : poll[q].at = "apply" /\ Write(q)
BY DEF Next, vars, moneyVars, redisVars, CreateNext, CreateRow, Link, IngestNext, Deliver, Check, Upsert, Enqueue, MarkQueued,
       PollNext, Pop, PutBack, Read, Apply, MarkProcessed, Retry, MarkRetrying, MarkDead, MarkAs, DeadLetter,
       ExpireNonce, Ripen, Crash

(* Every behaviour of the payment pipeline is one of the abstract wallet:  *)
(* only the transaction that finds the payment PENDING moves money, and    *)
(* such a payment was never credited.                                      *)
THEOREM PaymentsImplementWallet == Spec => ImplementsWallet
<1> DEFINE Credits == {[user |-> Owner[p], payment |-> p, amount |-> Amount[p]] : p \in credited}
<1>1. Init => Bank!Init
  BY DEF Init, Bank!Init
<1>2. PipelineInv /\ [Next]_vars => [Bank!Next]_Bank!walletVars
  <2> SUFFICES ASSUME PipelineInv, [Next]_vars PROVE [Bank!Next]_Bank!walletVars
    OBVIOUS
  <2>1. CASE UNCHANGED <<balance, credited>>
    BY <2>1 DEF Bank!walletVars
  <2>2. ASSUME NEW q \in Pollers, poll[q].at = "apply", Write(q) PROVE [Bank!Next]_Bank!walletVars
    <3>1. PICK p \in Payments : p = PaymentOf(q)
      BY <2>2 DEF PipelineInv, StaticOK, PollOK, LivePolls, LiveJobs, Jobs, Contents, PaymentOf, EventOf
    <3>2. CASE payment[p] = "PENDING" /\ poll[q].verdict = "SUCCESS"
      <4>1. balance' = [balance EXCEPT ![Owner[p]] = @ + Amount[p]] /\ credited' = credited \cup {p}
        BY <2>2, <3>1, <3>2 DEF Write
      <4>2. p \notin Bank!Credited
        BY <3>2 DEF PipelineInv, MoneyOK, Decided, Bank!Credited
      <4>3. Credits' = Credits \cup {[user |-> Owner[p], payment |-> p, amount |-> Amount[p]]}
        BY <4>1
      <4>4. Bank!Credit(Owner[p], p, Amount[p])
        BY <4>1, <4>2, <4>3 DEF Bank!Credit
      <4>5. Owner[p] \in Users
        BY AmountsAssumption
      <4> QED BY <4>4, <4>5 DEF Bank!Next
    <3>3. CASE UNCHANGED <<balance, credited>>
      BY <3>3 DEF Bank!walletVars
    <3> QED BY <2>2, <3>1, <3>2, <3>3 DEF Write
  <2> QED BY <2>1, <2>2, MoneySteps
<1> QED BY <1>1, <1>2, AlwaysPipelineInv, PTL DEF Spec, ImplementsWallet, Bank!Spec

-----------------------------------------------------------------------------
(* When a decided payment is final                                         *)

(* The steps that decide nothing: no payment changes and no poll gets a    *)
(* verdict.                                                                *)
Undecided ==
  /\ payment' = payment
  /\ \A q \in Pollers : poll'[q] = poll[q] \/ poll'[q].at # "apply"

LEMMA PollPlaced ==
  ASSUME PollOK, NEW q \in Pollers, payment' = payment,
         \/ \E b : b.at # "apply" /\ poll' = [poll EXCEPT ![q] = b]
         \/ \E step : step # "apply" /\ PollTo(q, step)
         \/ UNCHANGED poll
         \/ \E h : CrashOf(h)
  PROVE  Undecided
<1>1. poll \in [Pollers -> LivePolls] /\ IdlePoll.at = "idle"
  BY DEF PollOK, IdlePoll
<1>2. ASSUME NEW step, step # "apply", PollTo(q, step) PROVE Undecided
  <2>1. poll[q] \in Polls
    BY DEF PollOK, LivePolls
  <2>2. [poll[q] EXCEPT !.at = step].at = step
    BY <2>1 DEF Polls
  <2> QED BY <1>1, <1>2, <2>2 DEF PollTo, Undecided
<1>3. CASE \E h : CrashOf(h)
  BY <1>1, <1>3 DEF CrashOf, Undecided
<1> QED BY <1>1, <1>2, <1>3 DEF Undecided

LEMMA DecidingSteps ==
  ASSUME PipelineInv, [Next]_vars
  PROVE  /\ about' = about
         /\ \/ Undecided
            \/ \E p \in Payments : CreateRow(p)
            \/ \E q \in Pollers : Read(q) \/ Apply(q)
<1> USE DEF PipelineInv
<1>1. ASSUME NEW p \in Payments, CreateNext(p)
      PROVE  about' = about /\ (Undecided \/ CreateRow(p))
  BY <1>1 DEF CreateNext, CreateRow, Link, Undecided
<1>2. ASSUME NEW d \in Deliveries, IngestNext(d) \/ \E n \in Notices, nonce \in Nonces : Deliver(d, n, nonce)
      PROVE  about' = about /\ Undecided
  BY <1>2 DEF IngestNext, Deliver, Check, Upsert, Enqueue, MarkQueued, Undecided, moneyVars
<1>3. ASSUME NEW q \in Pollers, PollNext(q)
      PROVE  about' = about /\ (Undecided \/ Read(q) \/ Apply(q))
  <2>1. CASE Pop(q)
    <3>1. about' = about /\ payment' = payment
      BY <2>1 DEF Pop, Survive, DieIn, CrashOf, moneyVars
    <3>2. \/ \E b : b.at # "apply" /\ poll' = [poll EXCEPT ![q] = b]
          \/ UNCHANGED poll
          \/ \E h : CrashOf(h)
      <4>1. ASSUME NEW step \in {"putBack", "read"}, NEW job
            PROVE  [at |-> step, job |-> job, verdict |-> "none"].at # "apply"
        OBVIOUS
      <4> QED BY <2>1, <4>1 DEF Pop, DieIn
    <3> QED BY <3>1, <3>2, PollPlaced
  <2>2. CASE PutBack(q) \/ Retry(q)
    <3>1. about' = about /\ payment' = payment
      BY <2>2 DEF PutBack, Retry, Push, Survive, DieIn, CrashOf, moneyVars
    <3>2. \/ poll' = [poll EXCEPT ![q] = IdlePoll]
          \/ PollTo(q, "markRetrying")
          \/ \E h : CrashOf(h)
      BY <2>2 DEF PutBack, Retry, Push, DieIn
    <3>3. IdlePoll.at # "apply" /\ "markRetrying" # "apply"
      BY DEF IdlePoll
    <3> QED BY <3>1, <3>2, <3>3, PollPlaced
  <2>3. CASE MarkProcessed(q)
    <3>1. CatchStep(q) # "apply" /\ IdlePoll.at # "apply"
      BY DEF CatchStep, IdlePoll
    <3> QED BY <2>3, <3>1, PollPlaced DEF MarkProcessed, moneyVars
  <2>4. CASE MarkRetrying(q) \/ MarkDead(q)
    <3>1. IdlePoll.at # "apply"
      BY DEF IdlePoll
    <3>2. about' = about /\ payment' = payment
      BY <2>4 DEF MarkRetrying, MarkDead, MarkAs, Survive, DieIn, CrashOf, moneyVars
    <3>3. poll' = [poll EXCEPT ![q] = IdlePoll] \/ \E h : CrashOf(h)
      BY <2>4 DEF MarkRetrying, MarkDead, MarkAs, DieIn
    <3> QED BY <3>1, <3>2, <3>3, PollPlaced
  <2>5. CASE DeadLetter(q)
    <3>1. about' = about /\ payment' = payment
      BY <2>5 DEF DeadLetter, Survive, DieIn, CrashOf, moneyVars
    <3>2. PollTo(q, "markDead") \/ \E h : CrashOf(h)
      BY <2>5 DEF DeadLetter, DieIn
    <3> QED BY <3>1, <3>2, PollPlaced
  <2>6. CASE Read(q) \/ Apply(q)
    BY <2>6 DEF Read, Apply
  <2> QED BY <1>3, <2>1, <2>2, <2>3, <2>4, <2>5, <2>6 DEF PollNext
<1>4. CASE \E h \in Processes : Crash(h)
  <2>1. about' = about /\ payment' = payment
    BY <1>4 DEF Crash, CrashOf, moneyVars
  <2>2. \A q \in Pollers : poll'[q] = poll[q] \/ poll'[q] = IdlePoll
    BY <1>4 DEF Crash, CrashOf
  <2> QED BY <2>1, <2>2 DEF Undecided, IdlePoll
<1>5. CASE \/ \E nonce \in nonces : ExpireNonce(nonce)
           \/ \E job \in unripe : Ripen(job)
           \/ UNCHANGED vars
  BY <1>5 DEF ExpireNonce, Ripen, vars, moneyVars, Undecided
<1> QED BY <1>1, <1>2, <1>3, <1>4, <1>5 DEF Next

(* A verdict comes from the notice and from a payment that was PENDING     *)
(* when it was read; applying it ends it.                                  *)
LEMMA VerdictGiven ==
  ASSUME PipelineInv, NEW q \in Pollers, Read(q)
  PROVE  /\ payment' = payment
         /\ \A r \in Pollers : \/ poll'[r] = poll[r]
                               \/ poll'[r].at # "apply"
                               \/ /\ r = q
                                  /\ poll'[q].verdict \in Verdicts(EventOf(q))
                                  /\ poll'[q].job = poll[q].job
                                  /\ payment[PaymentOf(q)] = "PENDING"
<1>1. payment' = payment
  BY DEF Read, moneyVars
<1>2. CASE \E step : step # "apply" /\ PollTo(q, step)
  BY <1>1, <1>2, PollPlaced DEF PipelineInv, Undecided
<1>3. ASSUME NEW v \in Verdicts(EventOf(q)), ~Ignored(q),
             poll' = [poll EXCEPT ![q] = [at |-> "apply", job |-> @.job, verdict |-> v]]
      PROVE  \A r \in Pollers : poll'[r] = poll[r] \/ (r = q /\ poll'[q].verdict = v /\ poll'[q].job = poll[q].job)
  BY <1>3 DEF PipelineInv, PollOK
<1>4. CatchStep(q) # "apply" /\ "markProcessed" # "apply"
  BY DEF CatchStep
<1>5. \/ \E step : step # "apply" /\ PollTo(q, step)
      \/ ~Ignored(q) /\ \E v \in Verdicts(EventOf(q)) :
           poll' = [poll EXCEPT ![q] = [at |-> "apply", job |-> @.job, verdict |-> v]]
  BY <1>4 DEF Read
<1>6. CASE ~Ignored(q) /\ \E v \in Verdicts(EventOf(q)) :
             poll' = [poll EXCEPT ![q] = [at |-> "apply", job |-> @.job, verdict |-> v]]
  BY <1>1, <1>3, <1>6 DEF Ignored
<1> QED BY <1>1, <1>2, <1>5, <1>6

LEMMA VerdictApplied ==
  ASSUME PipelineInv, NEW q \in Pollers, Apply(q)
  PROVE  /\ poll[q].at = "apply" /\ poll[q].verdict \in Decided /\ PaymentOf(q) \in Payments /\ EventOf(q) \in Notices
         /\ \/ payment' = payment
            \/ payment' = [payment EXCEPT ![PaymentOf(q)] = poll[q].verdict]
               /\ (poll[q].verdict = "SUCCESS" => payment[PaymentOf(q)] = "PENDING")
         /\ poll'[q].at # "apply" /\ \A r \in Pollers \ {q} : poll'[r] = poll[r]
<1> USE DEF PipelineInv
<1>1. poll[q].at = "apply"
  BY DEF Apply
<1>2. poll[q].verdict \in Decided /\ PaymentOf(q) \in Payments /\ EventOf(q) \in Notices
  BY <1>1 DEF PollOK, LivePolls, LiveJobs, Jobs, StaticOK, Contents, PaymentOf, EventOf
<1>3. \/ payment' = payment
      \/ payment' = [payment EXCEPT ![PaymentOf(q)] = poll[q].verdict]
         /\ (poll[q].verdict = "SUCCESS" => payment[PaymentOf(q)] = "PENDING")
  BY DEF Apply, Write
<1>4. \E step : step # "apply" /\ PollTo(q, step)
  <2>1. CatchStep(q) # "apply"
    BY DEF CatchStep
  <2> QED BY <2>1 DEF Apply
<1>5. poll'[q].at # "apply" /\ \A r \in Pollers \ {q} : poll'[r] = poll[r]
  <2>1. poll[q] \in Polls /\ poll \in [Pollers -> LivePolls]
    BY DEF PollOK, LivePolls
  <2>2. \A step : [poll[q] EXCEPT !.at = step].at = step
    BY <2>1 DEF Polls
  <2> QED BY <1>4, <2>1, <2>2 DEF PollTo
<1> QED BY <1>1, <1>2, <1>3, <1>5

(* The notices of a payment agree on its outcome.                          *)
OneOutcome ==
  \A m, n \in Notices :
    about[m].payment = about[n].payment =>
      \A v \in Verdicts(m), w \in Verdicts(n) : v = w \/ "PENDING" \in {v, w}

(* Then what is about to be written, and what is written, is that outcome. *)
OutcomesAgree ==
  /\ OneOutcome
  /\ \A q \in Pollers : poll[q].at = "apply" => poll[q].verdict \in Verdicts(EventOf(q))
  /\ \A n \in Notices : payment[about[n].payment] \in Decided => Verdicts(n) \subseteq {"PENDING", payment[about[n].payment]}

LEMMA NextKeepsOutcomesAgree ==
  ASSUME PipelineInv, OutcomesAgree, [Next]_vars
  PROVE  OutcomesAgree' /\ \A p \in Payments : payment[p] \in Decided => payment'[p] = payment[p]
<1>1. about' = about
  BY DecidingSteps
<1>2. \A n \in Notices : Verdicts(n)' = Verdicts(n)
  BY <1>1 DEF Verdicts, StatusOf
<1>3. OneOutcome'
  BY <1>1, <1>2 DEF OneOutcome, OutcomesAgree
<1>4. \A n \in Notices : about[n].payment \in Payments
  BY DEF PipelineInv, StaticOK, Contents
<1>5. payment \in [Payments -> PaymentStatuses \cup {"absent"}]
  BY DEF PipelineInv, MoneyOK
<1>6. \A q \in Pollers : poll[q].at = "apply" => EventOf(q) \in Notices
  BY DEF PipelineInv, PollOK, LivePolls, LiveJobs, Jobs, EventOf
<1>7. ASSUME \A q \in Pollers : poll'[q] = poll[q] \/ poll'[q].at # "apply"
      PROVE  \A q \in Pollers : poll'[q].at = "apply" => poll'[q].verdict \in Verdicts(EventOf(q))'
  BY <1>2, <1>6, <1>7 DEF OutcomesAgree, EventOf
<1>8. CASE Undecided
  BY <1>1, <1>2, <1>3, <1>7, <1>8 DEF Undecided, OutcomesAgree
<1>9. ASSUME NEW p \in Payments, CreateRow(p)
      PROVE  OutcomesAgree' /\ \A r \in Payments : payment[r] \in Decided => payment'[r] = payment[r]
  <2>1. payment[p] = "absent"
    BY <1>9 DEF CreateRow, PipelineInv, CreateOK
  <2>2. poll' = poll /\ (payment' = [payment EXCEPT ![p] = "PENDING"] \/ payment' = payment)
    BY <1>9 DEF CreateRow
  <2>3. \A r \in Payments : payment'[r] = payment[r] \/ (r = p /\ payment'[r] = "PENDING")
    BY <1>5, <2>2
  <2>4. \A r \in Payments : payment[r] \in Decided => payment'[r] = payment[r]
    BY <2>1, <2>3 DEF Decided
  <2>5. \A r \in Payments : payment'[r] \in Decided => payment'[r] = payment[r]
    BY <2>3 DEF Decided
  <2> QED BY <1>1, <1>2, <1>3, <1>4, <1>7, <2>2, <2>4, <2>5 DEF OutcomesAgree
<1>10. ASSUME NEW q \in Pollers, Read(q)
       PROVE  OutcomesAgree' /\ \A r \in Payments : payment[r] \in Decided => payment'[r] = payment[r]
  <2>1. payment' = payment
    BY <1>10, VerdictGiven
  <2>2. \A r \in Pollers : poll'[r].at = "apply" => poll'[r].verdict \in Verdicts(EventOf(r))'
    <3> SUFFICES ASSUME NEW r \in Pollers, poll'[r].at = "apply"
                 PROVE  poll'[r].verdict \in Verdicts(EventOf(r))'
      OBVIOUS
    <3>1. CASE poll'[r] = poll[r]
      BY <1>2, <1>6, <3>1 DEF OutcomesAgree, EventOf
    <3>2. CASE r = q /\ poll'[q].verdict \in Verdicts(EventOf(q)) /\ poll'[q].job = poll[q].job
      <4>1. EventOf(q)' = EventOf(q) /\ EventOf(q) \in Notices
        BY <1>10, <3>2 DEF PipelineInv, PollOK, LivePolls, LiveJobs, Jobs, EventOf, Read
      <4> QED BY <1>2, <3>2, <4>1 DEF EventOf
    <3> QED BY <1>10, <3>1, <3>2, VerdictGiven
  <2> QED BY <1>1, <1>2, <1>3, <2>1, <2>2 DEF OutcomesAgree
<1>11. ASSUME NEW q \in Pollers, Apply(q)
       PROVE  OutcomesAgree' /\ \A r \in Payments : payment[r] \in Decided => payment'[r] = payment[r]
  <2>1. PICK p \in Payments, n \in Notices, v \in Decided :
          /\ n = EventOf(q) /\ p = about[n].payment /\ v = poll[q].verdict /\ v \in Verdicts(n)
          /\ \/ payment' = payment
             \/ payment' = [payment EXCEPT ![p] = v] /\ (v = "SUCCESS" => payment[p] = "PENDING")
    BY <1>11, VerdictApplied DEF OutcomesAgree, PaymentOf
  <2>2. payment[p] \in Decided => payment[p] = v
    BY <2>1 DEF OutcomesAgree, Decided
  <2>3. \A r \in Payments : payment'[r] = payment[r] \/ (r = p /\ payment'[r] = v)
    BY <1>5, <2>1
  <2>4. \A m \in Notices : about[m].payment = p => Verdicts(m) \subseteq {"PENDING", v}
    BY <2>1 DEF OutcomesAgree, OneOutcome, Decided
  <2>5. \A m \in Notices :
          payment'[about[m].payment] \in Decided => Verdicts(m) \subseteq {"PENDING", payment'[about[m].payment]}
    BY <1>4, <2>3, <2>4 DEF OutcomesAgree
  <2>6. \A r \in Pollers : poll'[r] = poll[r] \/ poll'[r].at # "apply"
    BY <1>11, VerdictApplied
  <2> QED BY <1>1, <1>2, <1>3, <1>7, <2>2, <2>3, <2>5, <2>6 DEF OutcomesAgree
<1> QED BY <1>8, <1>9, <1>10, <1>11, DecidingSteps

(* PAYMENTS_INTEGRATION.md is right, however polls overlap, about payments *)
(* whose notices all agree.  Only contradicting notices in overlapping     *)
(* polls change a decided payment.                                         *)
THEOREM DecidedFinalUnlessContradicted == Spec /\ OneOutcome => DecidedIsFinal
<1>1. Init /\ OneOutcome => OutcomesAgree
  <2> SUFFICES ASSUME Init, OneOutcome PROVE OutcomesAgree
    OBVIOUS
  <2>1. \A n \in Notices : payment[about[n].payment] = "absent"
    BY NoticesAssumption DEF Init, Contents
  <2>2. \A q \in Pollers : poll[q].at = "idle"
    BY DEF Init, IdlePoll
  <2> QED BY <2>1, <2>2 DEF OutcomesAgree, Decided
<1>2. PipelineInv /\ OutcomesAgree /\ [Next]_vars => OutcomesAgree'
  BY NextKeepsOutcomesAgree
<1>3. PipelineInv /\ OutcomesAgree /\ [Next]_vars =>
        [\A p \in Payments : payment[p] \in {"SUCCESS", "FAILED", "CANCELED"} => payment'[p] = payment[p]]_vars
  BY NextKeepsOutcomesAgree DEF Decided
<1> QED BY <1>1, <1>2, <1>3, AlwaysPipelineInv, PTL DEF Spec, DecidedIsFinal

=============================================================================
