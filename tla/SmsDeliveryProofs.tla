-------------------------- MODULE SmsDeliveryProofs --------------------------
(***************************************************************************)
(* Theorems about the queue's side of SmsSending, for every set of         *)
(* requests and workers and every limit on attempts, stalls and faults.    *)
(***************************************************************************)
EXTENDS SmsSendingProofs

(***************************************************************************)
(* How often the carrier sees a message.  An execution that lost its lock  *)
(* goes on beside its successor, so the bound is no count of attempts: it  *)
(* rests on the number of times the job was handed to a slot, which its    *)
(* attempts and stalls record, and on each execution sending once.         *)
(***************************************************************************)
RunSteps == {"read", "markQueued", "send"}

(* The executions that may still send m.                                   *)
Runs(m) == {s \in Slots : exec[s].message = m /\ exec[s].at \in RunSteps}

(* How often the job was handed out: each hand-out ended in an attempt or  *)
(* a stall, except the last one.                                           *)
HandedOut(m) == job[m].attempts + job[m].stalled + IF job[m].state \in {"active", "completed"} THEN 1 ELSE 0

MessageOK(m) ==
  /\ IsFiniteSet(Runs(m))
  /\ sends[m] + Cardinality(Runs(m)) <= HandedOut(m)
  /\ HandedOut(m) <= MaxAttempts + MaxStalled

DeliveryInv == \A m \in Requests : MessageOK(m)

LEMMA InitDeliveryInv == Init => DeliveryInv
<1> SUFFICES ASSUME Init, NEW m \in Requests PROVE MessageOK(m)
  BY DEF DeliveryInv
<1>1. Runs(m) = {} /\ sends[m] = 0 /\ HandedOut(m) = 0
  BY DEF Init, Runs, RunSteps, IdleSlot, HandedOut
<1> QED BY <1>1, FS_EmptySet, LimitsAssumption DEF MessageOK

LEMMA Counts ==
  ASSUME TypeInv, NEW m \in Requests
  PROVE  HandedOut(m) \in Nat /\ sends[m] \in Nat
BY DEF TypeInv, QueueOK, SendsOK, HandedOut

(* A step in which nothing is handed out and nothing is sent.              *)
LEMMA NoMoreRuns ==
  ASSUME TypeInv, TypeInv', NEW m \in Requests, MessageOK(m), Runs(m)' \subseteq Runs(m), sends'[m] = sends[m],
         HandedOut(m)' = HandedOut(m)
  PROVE  MessageOK(m)'
<1>1. IsFiniteSet(Runs(m)') /\ Cardinality(Runs(m)') <= Cardinality(Runs(m))
  BY FS_Subset DEF MessageOK
<1>2. Cardinality(Runs(m)) \in Nat /\ Cardinality(Runs(m)') \in Nat
  BY <1>1, FS_CardinalityType DEF MessageOK
<1> QED BY <1>1, <1>2, Counts DEF MessageOK

(* A step in which a run may have sent.                                    *)
LEMMA RunSends ==
  ASSUME TypeInv, TypeInv', NEW m \in Requests, MessageOK(m), NEW s \in Runs(m), Runs(m)' \subseteq Runs(m) \ {s},
         sends'[m] \in {sends[m], sends[m] + 1}, HandedOut(m)' = HandedOut(m)
  PROVE  MessageOK(m)'
<1>1. IsFiniteSet(Runs(m) \ {s}) /\ Cardinality(Runs(m) \ {s}) = Cardinality(Runs(m)) - 1
  BY FS_RemoveElement DEF MessageOK
<1>2. IsFiniteSet(Runs(m)') /\ Cardinality(Runs(m)') <= Cardinality(Runs(m)) - 1
  BY <1>1, FS_Subset
<1>3. Cardinality(Runs(m)) \in Nat /\ Cardinality(Runs(m)') \in Nat
  BY <1>2, FS_CardinalityType DEF MessageOK
<1> QED BY <1>2, <1>3, Counts DEF MessageOK

(* A step in which the job is handed out.                                  *)
LEMMA RunBegins ==
  ASSUME TypeInv, TypeInv', NEW m \in Requests, MessageOK(m), NEW s, Runs(m)' \subseteq Runs(m) \cup {s},
         sends'[m] = sends[m], HandedOut(m)' = HandedOut(m) + 1, HandedOut(m)' <= MaxAttempts + MaxStalled
  PROVE  MessageOK(m)'
<1>1. IsFiniteSet(Runs(m) \cup {s}) /\ Cardinality(Runs(m) \cup {s}) <= Cardinality(Runs(m)) + 1
  <2>1. IsFiniteSet(Runs(m)) /\ Cardinality(Runs(m)) \in Nat
    BY FS_CardinalityType DEF MessageOK
  <2>2. /\ IsFiniteSet(Runs(m) \cup {s})
        /\ Cardinality(Runs(m) \cup {s}) = IF s \in Runs(m) THEN Cardinality(Runs(m)) ELSE Cardinality(Runs(m)) + 1
    BY <2>1, FS_AddElement, Zenon
  <2> QED BY <2>1, <2>2
<1>2. IsFiniteSet(Runs(m)') /\ Cardinality(Runs(m)') <= Cardinality(Runs(m) \cup {s})
  BY <1>1, FS_Subset
<1>3. Cardinality(Runs(m)) \in Nat /\ Cardinality(Runs(m)') \in Nat /\ Cardinality(Runs(m) \cup {s}) \in Nat
  BY <1>1, <1>2, FS_CardinalityType DEF MessageOK
<1>4. Cardinality(Runs(m)') <= Cardinality(Runs(m)) + 1
  BY <1>1, <1>2, <1>3
<1> QED BY <1>2, <1>3, <1>4, Counts DEF MessageOK

-----------------------------------------------------------------------------
(* What a step leaves of the runs                                          *)

LEMMA EnterRuns ==
  ASSUME TypeInv, NEW s \in Slots, NEW step, Enter(s, step), step \in RunSteps => exec[s].at \in RunSteps, NEW m
  PROVE  Runs(m)' \subseteq Runs(m) /\ (step \notin RunSteps => Runs(m)' \subseteq Runs(m) \ {s})
<1>1. /\ exec'[s].at = step /\ exec'[s].message = exec[s].message
      /\ \A q \in Slots : q # s => exec'[q] = exec[q]
  BY DEF Enter, TypeInv, SlotsOK
<1> QED BY <1>1 DEF Runs

LEMMA LeaveRuns ==
  ASSUME TypeInv, NEW s \in Slots, Leave(s), NEW m
  PROVE  Runs(m)' \subseteq Runs(m)
<1>1. exec'[s].at = "idle" /\ \A q \in Slots : q # s => exec'[q] = exec[q]
  BY DEF Leave, IdleSlot, TypeInv, SlotsOK
<1> QED BY <1>1 DEF Runs, RunSteps

LEMMA CrashRuns ==
  ASSUME NEW w, CrashOf(w), NEW m
  PROVE  Runs(m)' \subseteq Runs(m)
<1>1. \A q \in Slots : exec'[q].at = "idle" \/ exec'[q] = exec[q]
  BY DEF CrashOf, IdleSlot
<1> QED BY <1>1 DEF Runs, RunSteps

LEMMA RunsSame == ASSUME UNCHANGED exec, NEW m PROVE Runs(m)' = Runs(m)
BY DEF Runs

LEMMA JobSame == ASSUME NEW m, job'[m] = job[m] PROVE HandedOut(m)' = HandedOut(m)
BY DEF HandedOut

-----------------------------------------------------------------------------
(* Every step keeps the invariant                                          *)

LEMMA RequestKeepsDelivery ==
  ASSUME TypeInv, TypeInv', DeliveryInv, NEW r \in Requests, RequestNext(r) \/ ApiCrash(r), NEW m \in Requests
  PROVE  MessageOK(m)'
<1>1. UNCHANGED workerVars
  BY DEF RequestNext, ApiCrash, Lookup, Create, Enqueue, MarkQueued, MarkFailed, LogUsage
<1>2. UNCHANGED job \/ AddJob(r)
  BY DEF RequestNext, ApiCrash, Lookup, Create, Enqueue, MarkQueued, MarkFailed, LogUsage, redisVars
<1>3. HandedOut(m)' = HandedOut(m)
  BY <1>2 DEF HandedOut, AddJob, TypeInv, QueueOK
<1> QED BY <1>1, <1>3, RunsSame, NoMoreRuns DEF workerVars, DeliveryInv

LEMMA EndsHandedOut ==
  ASSUME NEW k \in Requests, job[k].state = "active", job[k].attempts \in Nat, job[k].stalled \in Nat,
         \/ JobEnds(k, "completed", job[k].attempts)
         \/ JobEnds(k, "waiting", job[k].attempts + 1)
         \/ JobEnds(k, "failed", job[k].attempts + 1),
         NEW m \in Requests
  PROVE  HandedOut(m)' = HandedOut(m)
<1>1. /\ m # k => job'[m] = job[m]
      /\ job'[k].stalled = job[k].stalled
      /\ \/ job'[k].state = "completed" /\ job'[k].attempts = job[k].attempts
         \/ job'[k].state \in {"waiting", "failed"} /\ job'[k].attempts = job[k].attempts + 1
  BY DEF JobEnds
<1> QED BY <1>1 DEF HandedOut

LEMMA SlotKeepsDelivery ==
  ASSUME TypeInv, TypeInv', DeliveryInv, NEW s \in Slots, SlotNext(s), NEW m \in Requests
  PROVE  MessageOK(m)'
<1>1. MessageOK(m)
  BY DEF DeliveryInv
<1>2. ASSUME NEW k \in Requests, Take(s, k) PROVE MessageOK(m)'
  <2>1. /\ exec'[s].message = k /\ \A q \in Slots : q # s => exec'[q] = exec[q]
        /\ sends'[m] = sends[m]
    BY <1>2 DEF Take, TypeInv, SlotsOK
  <2>2. CASE m = k
    <3>1. /\ job[m].state = "waiting" /\ job'[m].state = "active"
          /\ job'[m].attempts = job[m].attempts /\ job'[m].stalled = job[m].stalled
          /\ job[m].attempts \in Nat /\ job[m].stalled \in Nat
          /\ job[m].attempts < MaxAttempts /\ job[m].stalled <= MaxStalled
      BY <1>2, <2>2 DEF Take, TypeInv, QueueOK
    <3>2. HandedOut(m)' = HandedOut(m) + 1 /\ HandedOut(m)' <= MaxAttempts + MaxStalled
      BY <3>1, LimitsAssumption DEF HandedOut
    <3>3. Runs(m)' \subseteq Runs(m) \cup {s}
      BY <2>1 DEF Runs
    <3> QED BY <1>1, <2>1, <3>2, <3>3, RunBegins
  <2>3. CASE m # k
    <3>1. Runs(m)' \subseteq Runs(m)
      BY <2>1, <2>3 DEF Runs
    <3>2. job'[m] = job[m]
      BY <1>2, <2>3 DEF Take, TypeInv, QueueOK
    <3> QED BY <1>1, <2>1, <3>1, <3>2, JobSame, NoMoreRuns
  <2> QED BY <2>2, <2>3
<1>3. CASE Send(s)
  <2>1. exec[s].at = "send" /\ UNCHANGED job /\ exec[s].message \in Requests
    BY <1>3, BusySlot DEF Send, redisVars, TypeInv
  <2>2. PICK step \in {"markSent", "threw"} : Enter(s, step)
    BY <1>3 DEF Send
  <2>3. Runs(m)' \subseteq Runs(m) \ {s}
    BY <2>1, <2>2, EnterRuns DEF RunSteps
  <2>4. CASE exec[s].message = m
    <3>1. s \in Runs(m)
      BY <2>1, <2>4 DEF Runs, RunSteps
    <3>2. sends'[m] \in {sends[m], sends[m] + 1}
      BY <1>3, <2>4 DEF Send, TypeInv, SendsOK
    <3> QED BY <1>1, <2>1, <2>3, <3>1, <3>2, JobSame, RunSends
  <2>5. CASE exec[s].message # m
    <3>1. sends'[m] = sends[m]
      BY <1>3, <2>5 DEF Send, TypeInv, SendsOK
    <3> QED BY <1>1, <2>1, <2>3, <3>1, JobSame, NoMoreRuns
  <2> QED BY <2>4, <2>5
<1>4. CASE ReadRow(s) \/ MarkRunning(s) \/ MarkSent(s)
  <2>1. PICK step : Enter(s, step) /\ (step \in RunSteps => exec[s].at \in RunSteps)
    BY <1>4 DEF ReadRow, MarkRunning, MarkSent, RunSteps
  <2>2. UNCHANGED <<job, sends>>
    BY <1>4 DEF ReadRow, MarkRunning, MarkSent, redisVars
  <2> QED BY <1>1, <2>1, <2>2, EnterRuns, JobSame, NoMoreRuns
<1>5. CASE Complete(s) \/ Retry(s) \/ Exhaust(s) \/ EndStale(s)
  <2>1. Leave(s) /\ UNCHANGED sends
    BY <1>5 DEF Complete, Retry, Exhaust, EndStale
  <2>2. HandedOut(m)' = HandedOut(m)
    <3>1. CASE EndStale(s)
      BY <3>1, JobSame DEF EndStale, redisVars
    <3>2. CASE Complete(s) \/ Retry(s) \/ Exhaust(s)
      <4>1. PICK k : k = exec[s].message
        OBVIOUS
      <4>2. k \in Requests /\ job[k].state = "active"
        BY <3>2, <4>1, BusySlot DEF Complete, Retry, Exhaust, TypeInv
      <4>3. \/ JobEnds(k, "completed", job[k].attempts)
            \/ JobEnds(k, "waiting", job[k].attempts + 1)
            \/ JobEnds(k, "failed", job[k].attempts + 1)
        <5>1. QueueOK
          BY DEF TypeInv
        <5> QED BY <3>2, <4>1, <4>2, <5>1, EndedJob
      <4>4. job[k].attempts \in Nat /\ job[k].stalled \in Nat
        BY <4>2 DEF TypeInv, QueueOK
      <4> QED BY <4>2, <4>3, <4>4, EndsHandedOut
    <3> QED BY <1>5, <3>1, <3>2
  <2> QED BY <1>1, <2>1, <2>2, LeaveRuns, NoMoreRuns
<1> QED BY <1>2, <1>3, <1>4, <1>5 DEF SlotNext

LEMMA LapseKeepsDelivery ==
  ASSUME TypeInv, TypeInv', DeliveryInv, NEW k \in Requests, Reclaim(k) \/ Stall(k), NEW m \in Requests
  PROVE  MessageOK(m)'
<1>1. job[k].state = "active" /\ UNCHANGED <<exec, sends>>
  BY DEF Reclaim, Stall, Lapse, workerVars
<1>2. /\ m # k => job'[m] = job[m]
      /\ job'[k].attempts = job[k].attempts /\ job'[k].stalled = job[k].stalled + 1
      /\ job'[k].state \in {"waiting", "failed"}
      /\ job[k].attempts \in Nat /\ job[k].stalled \in Nat
  BY DEF Reclaim, Stall, Lapse, TypeInv, QueueOK
<1>3. HandedOut(m)' = HandedOut(m)
  BY <1>1, <1>2 DEF HandedOut
<1> QED BY <1>1, <1>3, RunsSame, NoMoreRuns DEF DeliveryInv

LEMMA HandlerKeepsDelivery ==
  ASSUME TypeInv, TypeInv', DeliveryInv, NEW m \in Requests,
         (\E k \in Requests : HandlerNext(k)) \/ (\E w \in Workers : WorkerCrash(w))
  PROVE  MessageOK(m)'
<1>1. UNCHANGED <<job, sends>>
  BY DEF HandlerNext, HandlerMarkFailed, HandlerDeadLetter, WorkerCrash, redisVars
<1>2. UNCHANGED exec \/ \E w : CrashOf(w)
  BY DEF HandlerNext, HandlerMarkFailed, HandlerDeadLetter, WorkerCrash
<1> QED BY <1>1, <1>2, RunsSame, CrashRuns, JobSame, NoMoreRuns DEF DeliveryInv

LEMMA AlwaysDeliveryInv == Spec => [](TypeInv /\ DeliveryInv)
<1>1. ASSUME TypeInv, TypeInv', DeliveryInv, [Next]_vars, NEW m \in Requests PROVE MessageOK(m)'
  <2>1. CASE UNCHANGED vars
    <3>1. UNCHANGED <<job, exec, sends>>
      BY <2>1 DEF vars, redisVars, workerVars
    <3> QED BY <1>1, <3>1, RunsSame, JobSame, NoMoreRuns DEF DeliveryInv
  <2> QED BY <1>1, <2>1, RequestKeepsDelivery, SlotKeepsDelivery, LapseKeepsDelivery, HandlerKeepsDelivery DEF Next
<1>2. TypeInv /\ DeliveryInv /\ [Next]_vars => (TypeInv /\ DeliveryInv)'
  BY <1>1, NextKeepsTypeInv DEF DeliveryInv
<1> QED BY <1>2, InitTypeInv, InitDeliveryInv, PTL DEF Spec

(* A message reaches the carrier at most MaxAttempts + MaxStalled times.   *)
THEOREM SendsAlwaysBounded == Spec => []SendsBounded
<1>1. TypeInv /\ DeliveryInv => SendsBounded
  <2> SUFFICES ASSUME TypeInv, DeliveryInv, NEW m \in Requests PROVE sends[m] <= MaxAttempts + MaxStalled
    BY DEF SendsBounded
  <2>1. MessageOK(m) /\ Cardinality(Runs(m)) \in Nat
    BY FS_CardinalityType DEF DeliveryInv, MessageOK
  <2> QED BY <2>1, Counts, LimitsAssumption DEF MessageOK
<1> QED BY <1>1, AlwaysDeliveryInv, PTL

-----------------------------------------------------------------------------
(***************************************************************************)
(* Dead letters: onJobFailed runs only for a job that used every attempt,  *)
(* and nothing brings such a job back.                                     *)
(***************************************************************************)
Exhausted(m) == job[m].state = "failed" /\ job[m].attempts = MaxAttempts

LettersInv == \A m \in Requests : handler[m].at # "idle" \/ m \in dlq => Exhausted(m)

LEMMA ExhaustedForGood ==
  ASSUME TypeInv, [Next]_vars, NEW m \in Requests, Exhausted(m)
  PROVE  Exhausted(m)'
<1>1. CASE UNCHANGED job
  BY <1>1 DEF Exhausted
<1>2. ASSUME NEW r \in Requests, RequestNext(r) \/ ApiCrash(r) PROVE UNCHANGED job \/ AddJob(r)
  BY <1>2 DEF RequestNext, ApiCrash, Lookup, Create, Enqueue, MarkQueued, MarkFailed, LogUsage, redisVars
<1>3. ASSUME NEW r \in Requests, AddJob(r) PROVE Exhausted(m)'
  BY <1>3 DEF AddJob, Exhausted, TypeInv, QueueOK
<1>4. ASSUME NEW s \in Slots, NEW k \in Requests, Take(s, k) PROVE Exhausted(m)'
  BY <1>4 DEF Take, Exhausted, TypeInv, QueueOK
<1>5. ASSUME NEW s \in Slots, Complete(s) \/ Retry(s) \/ Exhaust(s) PROVE Exhausted(m)'
  <2>1. exec[s].message # m
    BY <1>5, BusySlot DEF Complete, Retry, Exhaust, Exhausted, TypeInv
  <2> QED BY <1>5, <2>1 DEF Complete, Retry, Exhaust, Exhausted, TypeInv, QueueOK
<1>6. ASSUME NEW s \in Slots, ReadRow(s) \/ MarkRunning(s) \/ Send(s) \/ MarkSent(s) \/ EndStale(s)
      PROVE  UNCHANGED job
  BY <1>6 DEF ReadRow, MarkRunning, Send, MarkSent, EndStale, redisVars
<1>7. ASSUME NEW k \in Requests, Reclaim(k) \/ Stall(k) PROVE Exhausted(m)'
  BY <1>7 DEF Reclaim, Stall, Lapse, Exhausted, TypeInv, QueueOK
<1>8. ASSUME (\E k \in Requests : HandlerNext(k)) \/ (\E w \in Workers : WorkerCrash(w)) PROVE UNCHANGED job
  BY <1>8 DEF HandlerNext, HandlerMarkFailed, HandlerDeadLetter, WorkerCrash, redisVars
<1>9. UNCHANGED vars => UNCHANGED job
  BY DEF vars, redisVars
<1> QED BY <1>1, <1>2, <1>3, <1>4, <1>5, <1>6, <1>7, <1>8, <1>9 DEF Next, SlotNext

LEMMA NextKeepsLetters ==
  ASSUME TypeInv, LettersInv, [Next]_vars
  PROVE  LettersInv'
<1> SUFFICES ASSUME NEW m \in Requests, (handler'[m].at # "idle" \/ m \in dlq') PROVE Exhausted(m)'
  BY DEF LettersInv
<1>1. CASE handler[m].at # "idle" \/ m \in dlq
  BY <1>1, ExhaustedForGood DEF LettersInv
<1>2. CASE handler[m].at = "idle" /\ m \notin dlq
  <2>1. ASSUME UNCHANGED <<handler, dlq>> PROVE FALSE
    BY <1>2, <2>1
  <2>2. ASSUME NEW s \in Slots, Exhaust(s) PROVE Exhausted(m)'
    <3>1. PICK k : k = exec[s].message
      OBVIOUS
    <3>2. k \in Requests /\ job[k].state = "active"
      BY <2>2, <3>1, BusySlot DEF Exhaust, TypeInv
    <3>3. m = k
      BY <1>2, <2>2, <3>1 DEF Exhaust, TypeInv, HandlersOK
    <3>4. job[k].attempts + 1 = MaxAttempts
      BY <2>2, <3>1, <3>2, LimitsAssumption DEF Exhaust, TypeInv, QueueOK
    <3> QED BY <2>2, <3>1, <3>2, <3>3, <3>4 DEF Exhaust, Exhausted, TypeInv, QueueOK
  <2>3. ASSUME NEW s \in Slots, SlotNext(s), ~Exhaust(s) PROVE UNCHANGED <<handler, dlq>>
    BY <2>3 DEF SlotNext, Take, ReadRow, MarkRunning, Send, MarkSent, Complete, Retry, EndStale, Enter, redisVars
  <2>4. ASSUME NEW r \in Requests, RequestNext(r) \/ ApiCrash(r) PROVE UNCHANGED <<handler, dlq>>
    BY <2>4 DEF RequestNext, ApiCrash, Lookup, Create, Enqueue, MarkQueued, MarkFailed, LogUsage, AddJob,
                redisVars, workerVars
  <2>5. ASSUME NEW k \in Requests, Reclaim(k) \/ Stall(k) PROVE UNCHANGED <<handler, dlq>>
    BY <2>5 DEF Reclaim, Stall, Lapse, workerVars
  <2>6. ASSUME NEW w, CrashOf(w) PROVE handler'[m].at = "idle"
    BY <1>2, <2>6 DEF CrashOf
  <2>7. ASSUME NEW k \in Requests, HandlerNext(k) PROVE FALSE
    <3>1. k # m
      BY <1>2, <2>7 DEF HandlerNext, HandlerMarkFailed, HandlerDeadLetter
    <3>2. m \notin dlq'
      BY <1>2, <2>7, <3>1 DEF HandlerNext, HandlerMarkFailed, HandlerDeadLetter, redisVars
    <3>3. handler'[m].at = "idle"
      BY <1>2, <2>7, <2>6, <3>1 DEF HandlerNext, HandlerMarkFailed, HandlerDeadLetter, TypeInv, HandlersOK
    <3> QED BY <3>2, <3>3
  <2>8. ASSUME NEW w \in Workers, WorkerCrash(w) PROVE FALSE
    BY <1>2, <2>6, <2>8 DEF WorkerCrash, redisVars
  <2>9. UNCHANGED vars => UNCHANGED <<handler, dlq>>
    BY DEF vars, redisVars, workerVars
  <2> QED BY <2>1, <2>2, <2>3, <2>4, <2>5, <2>7, <2>8, <2>9 DEF Next
<1> QED BY <1>1, <1>2

LEMMA AlwaysLettersInv == Spec => [](TypeInv /\ LettersInv)
<1>1. Init => LettersInv
  BY DEF Init, LettersInv
<1>2. TypeInv /\ LettersInv /\ [Next]_vars => LettersInv'
  BY NextKeepsLetters
<1> QED BY <1>1, <1>2, AlwaysTypeInv, PTL DEF Spec

(* The dead-letter list holds only messages whose job used every attempt.  *)
THEOREM DeadLettersAlwaysExhausted == Spec => []DeadLettersAreExhausted
<1>1. TypeInv /\ LettersInv => DeadLettersAreExhausted
  BY DEF TypeInv, QueueOK, LettersInv, Exhausted, DeadLettersAreExhausted
<1> QED BY <1>1, AlwaysLettersInv, PTL

-----------------------------------------------------------------------------
(***************************************************************************)
(* What is recorded as SENT.  Without stalls BullMQ reruns a job only      *)
(* after the execution that held it is gone, so a message has one          *)
(* execution at a time: it holds the job, and nobody but it writes SENT.   *)
(* What an execution read of the row is then still true, as far as SENT    *)
(* goes, when it acts on it.                                               *)
(***************************************************************************)
LoneRuns ==
  \A s \in Slots :
    exec[s].at # "idle" => job[exec[s].message].state = "active" /\ job[exec[s].message].holder = s

(* A slot goes on with its message, or is idle.                            *)
LEMMA LoneGoesOn ==
  ASSUME LoneRuns,
         \A q \in Slots :
           exec'[q].at # "idle" => /\ exec[q].at # "idle"
                                   /\ exec'[q].message = exec[q].message
                                   /\ job'[exec[q].message] = job[exec[q].message]
  PROVE  LoneRuns'
  BY DEF LoneRuns

LEMMA EnterSlot ==
  ASSUME TypeInv, NEW s \in Slots, NEW step, Enter(s, step)
  PROVE  /\ exec'[s].at = step /\ exec'[s].message = exec[s].message
         /\ \A q \in Slots : q # s => exec'[q] = exec[q]
  BY DEF Enter, TypeInv, SlotsOK

LEMMA LeaveSlot ==
  ASSUME TypeInv, NEW s \in Slots, Leave(s)
  PROVE  exec'[s].at = "idle" /\ \A q \in Slots : q # s => exec'[q] = exec[q]
  BY DEF Leave, IdleSlot, TypeInv, SlotsOK

LEMMA CrashSlots ==
  ASSUME NEW w, CrashOf(w)
  PROVE  \A q \in Slots : exec'[q].at = "idle" \/ exec'[q] = exec[q]
  BY DEF CrashOf, IdleSlot

(* Complete, Retry and Exhaust: the job of a held message ends.            *)
LEMMA EndsAlone ==
  ASSUME TypeInv, LoneRuns, NEW s \in Slots, Complete(s) \/ Retry(s) \/ Exhaust(s)
  PROVE  LoneRuns'
<1>1. PICK m : m = exec[s].message
  OBVIOUS
<1>2. m \in Requests /\ QueueOK
  BY <1>1, BusySlot DEF Complete, Retry, Exhaust, TypeInv
<1>3. \A q \in Requests : q # m => job'[q] = job[q]
  <2>1. \E state, attempts : JobEnds(m, state, attempts)
    BY <1>1, <1>2, EndedJob
  <2> QED BY <2>1 DEF JobEnds
<1>4. /\ exec'[s].at = "idle" /\ \A q \in Slots : q # s => exec'[q] = exec[q]
      /\ exec[s].at # "idle"
  BY LeaveSlot DEF Complete, Retry, Exhaust
<1>5. ASSUME NEW q \in Slots, q # s, exec[q].at # "idle" PROVE exec[q].message \in Requests \ {m}
  BY <1>1, <1>4, <1>5, BusySlot DEF LoneRuns, TypeInv
<1> QED BY <1>3, <1>4, <1>5, LoneGoesOn

LEMMA NextKeepsLoneRuns ==
  ASSUME "stall" \notin FaultKinds, TypeInv, LoneRuns, [Next]_vars
  PROVE  LoneRuns'
<1>0. \A q \in Slots : exec[q].at # "idle" => exec[q].message \in Requests /\ job[exec[q].message].state = "active"
  BY BusySlot DEF LoneRuns, TypeInv
<1>1. ASSUME UNCHANGED job, UNCHANGED exec \/ \E w : CrashOf(w) PROVE LoneRuns'
  BY <1>1, CrashSlots, LoneGoesOn
<1>2. ASSUME NEW r \in Requests, RequestNext(r) \/ ApiCrash(r) PROVE LoneRuns'
  <2>1. UNCHANGED exec
    BY <1>2 DEF RequestNext, ApiCrash, Lookup, Create, Enqueue, MarkQueued, MarkFailed, LogUsage, workerVars
  <2>2. UNCHANGED job \/ AddJob(r)
    BY <1>2 DEF RequestNext, ApiCrash, Lookup, Create, Enqueue, MarkQueued, MarkFailed, LogUsage, redisVars
  <2>3. \A m \in Requests : job[m].state = "active" => job'[m] = job[m]
    BY <2>2 DEF AddJob, TypeInv, QueueOK
  <2> QED BY <1>0, <2>1, <2>3, LoneGoesOn
<1>3. ASSUME NEW s \in Slots, NEW m \in Requests, Take(s, m) PROVE LoneRuns'
  <2>1. job[m].state = "waiting" /\ exec'[s] = [at |-> "read", message |-> m]
    BY <1>3 DEF Take, TypeInv, SlotsOK
  <2>2. job'[m].state = "active" /\ job'[m].holder = s /\ \A k \in Requests : k # m => job'[k] = job[k]
    BY <1>3 DEF Take, TypeInv, QueueOK
  <2>3. \A q \in Slots : q # s => exec'[q] = exec[q]
    BY <1>3 DEF Take, TypeInv, SlotsOK
  <2> QED BY <1>0, <2>1, <2>2, <2>3 DEF LoneRuns
<1>4. ASSUME NEW s \in Slots, ReadRow(s) \/ MarkRunning(s) \/ Send(s) \/ MarkSent(s) PROVE LoneRuns'
  <2>1. exec[s].at # "idle" /\ UNCHANGED job
    BY <1>4 DEF ReadRow, MarkRunning, Send, MarkSent, redisVars
  <2>2. PICK step : Enter(s, step)
    BY <1>4 DEF ReadRow, MarkRunning, Send, MarkSent
  <2> QED BY <2>1, <2>2, EnterSlot, LoneGoesOn
<1>5. ASSUME NEW s \in Slots, EndStale(s) PROVE LoneRuns'
  BY <1>5, LeaveSlot, LoneGoesOn DEF EndStale, redisVars
<1>6. ASSUME NEW m \in Requests, Reclaim(m) \/ Stall(m) PROVE LoneRuns'
  <2>1. UNCHANGED exec /\ ~HolderRuns(m) /\ \A k \in Requests : k # m => job'[k] = job[k]
    BY <1>6 DEF Reclaim, Stall, Fault, Lapse, workerVars, TypeInv, QueueOK
  <2>2. \A q \in Slots : exec[q].at # "idle" => exec[q].message # m
    BY <2>1 DEF LoneRuns, HolderRuns
  <2> QED BY <1>0, <2>1, <2>2, LoneGoesOn
<1>7. ASSUME (\E m \in Requests : HandlerNext(m)) \/ (\E w \in Workers : WorkerCrash(w)) PROVE LoneRuns'
  <2>1. UNCHANGED job /\ (UNCHANGED exec \/ \E w : CrashOf(w))
    BY <1>7 DEF HandlerNext, HandlerMarkFailed, HandlerDeadLetter, WorkerCrash, redisVars
  <2> QED BY <1>1, <2>1
<1>8. ASSUME UNCHANGED vars PROVE LoneRuns'
  BY <1>1, <1>8 DEF vars, redisVars, workerVars
<1> QED BY <1>2, <1>3, <1>4, <1>5, <1>6, <1>7, <1>8, EndsAlone DEF Next, SlotNext

-----------------------------------------------------------------------------
(* Which steps touch a row, a slot and a handler                           *)

(* Only MarkSent makes a row SENT.                                         *)
LEMMA SentByRun ==
  ASSUME TypeInv, [Next]_vars, NEW m \in Requests, sms[m] # "SENT", sms'[m] = "SENT"
  PROVE  \E s \in Slots : exec[s].message = m /\ MarkSent(s)
<1>1. ASSUME NEW k, NEW status, SetStatus(k, status) \/ LostWrite(k, status) PROVE status = "SENT" /\ k = m
  BY <1>1 DEF SetStatus, LostWrite, dbVars, TypeInv, DatabaseOK
<1>2. UNCHANGED dbVars => FALSE
  BY DEF dbVars
<1>3. ASSUME NEW r \in Requests, RequestNext(r) \/ ApiCrash(r) PROVE FALSE
  <2>1. ~Commit(r)
    BY DEF Commit, TypeInv, DatabaseOK
  <2>2. Lookup(r) \/ Create(r) \/ Enqueue(r) \/ LogUsage(r) \/ ApiCrash(r) => UNCHANGED dbVars
    BY <2>1 DEF Lookup, Create, Refuse, Enqueue, LogUsage, ApiCrash
  <2>3. ~MarkQueued(r) /\ ~MarkFailed(r)
    BY <1>1 DEF MarkQueued, MarkFailed
  <2> QED BY <1>2, <1>3, <2>2, <2>3 DEF RequestNext
<1>4. ASSUME NEW s \in Slots, SlotNext(s) PROVE exec[s].message = m /\ MarkSent(s)
  <2>1. CASE MarkSent(s)
    BY <1>1, <2>1 DEF MarkSent
  <2>2. ~MarkRunning(s)
    BY <1>1 DEF MarkRunning
  <2>3. \/ \E k \in Requests : Take(s, k)
        \/ ReadRow(s) \/ Send(s) \/ Complete(s) \/ Retry(s) \/ Exhaust(s) \/ EndStale(s)
        => UNCHANGED dbVars
    BY DEF Take, ReadRow, Send, Complete, Retry, Exhaust, EndStale
  <2> QED BY <1>2, <1>4, <2>1, <2>2, <2>3 DEF SlotNext
<1>5. ASSUME NEW k \in Requests, Reclaim(k) \/ Stall(k) \/ HandlerNext(k) PROVE FALSE
  BY <1>1, <1>2, <1>5 DEF Reclaim, Stall, Lapse, HandlerNext, HandlerMarkFailed, HandlerDeadLetter
<1>6. ASSUME NEW w \in Workers, WorkerCrash(w) PROVE FALSE
  BY <1>2, <1>6 DEF WorkerCrash
<1>7. UNCHANGED vars => FALSE
  BY <1>2 DEF vars
<1> QED BY <1>3, <1>4, <1>5, <1>6, <1>7 DEF Next

(* A slot gets past its read by a step of its own.                         *)
LEMMA SlotMoves ==
  ASSUME TypeInv, [Next]_vars, NEW q \in Slots, exec'[q].at \notin {"idle", "read"}
  PROVE  \/ exec'[q] = exec[q] /\ ~MarkSent(q)
         \/ exec'[q].message = exec[q].message /\ (ReadRow(q) \/ MarkRunning(q) \/ Send(q) \/ MarkSent(q))
<1> DEFINE Same == exec'[q] = exec[q]
           Own  == exec'[q].message = exec[q].message /\ (ReadRow(q) \/ MarkRunning(q) \/ Send(q) \/ MarkSent(q))
<1>1. MarkSent(q) => Own
  BY EnterSlot DEF MarkSent
<1>2. ASSUME UNCHANGED exec \/ \E w : CrashOf(w) PROVE Same
  BY <1>2, CrashSlots
<1>3. ASSUME NEW r \in Requests, RequestNext(r) \/ ApiCrash(r) PROVE Same
  BY <1>3 DEF RequestNext, ApiCrash, Lookup, Create, Enqueue, MarkQueued, MarkFailed, LogUsage, workerVars
<1>4. ASSUME NEW s \in Slots, SlotNext(s) PROVE Same \/ Own
  <2>1. ASSUME NEW m \in Requests, Take(s, m) PROVE Same
    BY <2>1 DEF Take, TypeInv, SlotsOK
  <2>2. CASE ReadRow(s) \/ MarkRunning(s) \/ Send(s) \/ MarkSent(s)
    <3>1. PICK step : Enter(s, step)
      BY <2>2 DEF ReadRow, MarkRunning, Send, MarkSent
    <3> QED BY <2>2, <3>1, EnterSlot
  <2>3. CASE Complete(s) \/ Retry(s) \/ Exhaust(s) \/ EndStale(s)
    <3>1. Leave(s)
      BY <2>3 DEF Complete, Retry, Exhaust, EndStale
    <3> QED BY <3>1, LeaveSlot
  <2> QED BY <1>4, <2>1, <2>2, <2>3 DEF SlotNext
<1>5. ASSUME NEW k \in Requests, Reclaim(k) \/ Stall(k) \/ HandlerNext(k) PROVE Same
  BY <1>2, <1>5 DEF Reclaim, Stall, Lapse, HandlerNext, HandlerMarkFailed, HandlerDeadLetter, workerVars
<1>6. ASSUME NEW w \in Workers, WorkerCrash(w) PROVE Same
  BY <1>2, <1>6 DEF WorkerCrash
<1>7. UNCHANGED vars => Same
  BY DEF vars, workerVars
<1> QED BY <1>1, <1>3, <1>4, <1>5, <1>6, <1>7 DEF Next

(* A handler starts when the last attempt of a job threw.                  *)
LEMMA HandlerStarts ==
  ASSUME TypeInv, [Next]_vars, NEW m \in Requests, handler[m].at = "idle", handler'[m].at # "idle"
  PROVE  \E s \in Slots : exec[s].message = m /\ Exhaust(s)
<1>1. ASSUME UNCHANGED handler \/ \E w : CrashOf(w) PROVE FALSE
  BY <1>1 DEF CrashOf
<1>2. ASSUME NEW r \in Requests, RequestNext(r) \/ ApiCrash(r) PROVE FALSE
  BY <1>2 DEF RequestNext, ApiCrash, Lookup, Create, Enqueue, MarkQueued, MarkFailed, LogUsage, workerVars
<1>3. ASSUME NEW s \in Slots, SlotNext(s) PROVE exec[s].message = m /\ Exhaust(s)
  <2>1. CASE Exhaust(s)
    <3>1. \A k \in Requests : k # exec[s].message => handler'[k] = handler[k]
      BY <2>1 DEF Exhaust, TypeInv, HandlersOK
    <3> QED BY <2>1, <3>1
  <2>2. CASE ~Exhaust(s)
    BY <1>3, <2>2 DEF SlotNext, Take, ReadRow, MarkRunning, Send, MarkSent, Complete, Retry, EndStale, Enter
  <2> QED BY <2>1, <2>2
<1>4. ASSUME NEW k \in Requests, Reclaim(k) \/ Stall(k) PROVE FALSE
  BY <1>4 DEF Reclaim, Stall, Lapse, workerVars
<1>5. ASSUME NEW k \in Requests, HandlerNext(k) PROVE FALSE
  <2>1. k # m
    BY <1>5 DEF HandlerNext, HandlerMarkFailed, HandlerDeadLetter
  <2> QED BY <1>1, <1>5, <2>1 DEF HandlerNext, HandlerMarkFailed, HandlerDeadLetter, TypeInv, HandlersOK
<1>6. ASSUME NEW w \in Workers, WorkerCrash(w) PROVE FALSE
  BY <1>1, <1>6 DEF WorkerCrash
<1>7. UNCHANGED vars => FALSE
  BY DEF vars, workerVars
<1> QED BY <1>2, <1>3, <1>4, <1>5, <1>6, <1>7 DEF Next

-----------------------------------------------------------------------------
(* What an execution read still holds as far as SENT goes.                 *)
ReadHolds ==
  \A s \in Slots : exec[s].at \in {"markQueued", "send", "markSent"} => sms[exec[s].message] # "SENT"

LEMMA RunIsAlone ==
  ASSUME TypeInv, LoneRuns, NEW q \in Slots, exec[q].at # "idle", NEW s \in Slots, MarkSent(s),
         exec[s].message = exec[q].message
  PROVE  s = q
  BY DEF MarkSent, LoneRuns

(* A row that an execution found not SENT is made SENT by that execution.  *)
LEMMA StillUnsent ==
  ASSUME TypeInv, LoneRuns, [Next]_vars, NEW q \in Slots, exec[q].at # "idle", ~MarkSent(q), sms[exec[q].message] # "SENT"
  PROVE  sms'[exec[q].message] # "SENT"
<1>1. PICK m : m = exec[q].message
  OBVIOUS
<1>2. m \in Requests
  BY <1>1, BusySlot DEF TypeInv
<1>3. ASSUME sms'[m] = "SENT" PROVE FALSE
  BY <1>1, <1>2, <1>3, SentByRun, RunIsAlone
<1> QED BY <1>1, <1>3

(* The row is read in the step that leads to markQueued or send.           *)
LEMMA ReadLeads ==
  ASSUME TypeInv, NEW q \in Slots, ReadRow(q), exec'[q].at \in {"markQueued", "send", "markSent"}
  PROVE  sms'[exec[q].message] # "SENT"
<1>1. PICK m : m = exec[q].message
  OBVIOUS
<1>2. m \in Requests
  BY <1>1, BusySlot DEF ReadRow, TypeInv
<1>3. sms[m] \in Statuses \cup {"absent"} /\ sms' = sms
  BY <1>2 DEF ReadRow, dbVars, TypeInv, DatabaseOK
<1>4. exec'[q].at = AfterRead[sms[m]]
  BY <1>1, EnterSlot DEF ReadRow
<1>5. AfterRead["SENT"] = "returned"
  BY DEF AfterRead
<1> QED BY <1>1, <1>3, <1>4, <1>5

(* MarkRunning writes QUEUED.                                              *)
LEMMA RunningIsUnsent ==
  ASSUME TypeInv, NEW q \in Slots, MarkRunning(q), sms[exec[q].message] # "SENT"
  PROVE  sms'[exec[q].message] # "SENT"
<1>1. PICK m : m = exec[q].message
  OBVIOUS
<1>2. m \in Requests
  BY <1>1, BusySlot DEF MarkRunning, TypeInv
<1> QED BY <1>1, <1>2 DEF MarkRunning, LostWrite, SetStatus, dbVars, TypeInv, DatabaseOK

LEMMA NextKeepsReadHolds ==
  ASSUME TypeInv, LoneRuns, ReadHolds, [Next]_vars
  PROVE  ReadHolds'
<1> SUFFICES ASSUME NEW q \in Slots, exec'[q].at \in {"markQueued", "send", "markSent"}
             PROVE  sms'[exec'[q].message] # "SENT"
  BY DEF ReadHolds
<1>1. CASE exec'[q] = exec[q] /\ ~MarkSent(q)
  BY <1>1, StillUnsent DEF ReadHolds
<1>2. CASE exec'[q].message = exec[q].message /\ ReadRow(q)
  BY <1>2, ReadLeads
<1>3. CASE exec'[q].message = exec[q].message /\ MarkRunning(q)
  BY <1>3, RunningIsUnsent DEF MarkRunning, ReadHolds
<1>4. CASE exec'[q].message = exec[q].message /\ Send(q)
  BY <1>4 DEF Send, dbVars, ReadHolds
<1>5. CASE MarkSent(q)
  BY <1>5, EnterSlot DEF MarkSent
<1> QED BY <1>1, <1>2, <1>3, <1>4, <1>5, SlotMoves

LEMMA AlwaysReadHolds ==
  ASSUME "stall" \notin FaultKinds
  PROVE  Spec => [](TypeInv /\ LoneRuns /\ ReadHolds)
<1>1. Init => LoneRuns /\ ReadHolds
  BY DEF Init, LoneRuns, ReadHolds, IdleSlot
<1>2. TypeInv /\ LoneRuns /\ ReadHolds /\ [Next]_vars => LoneRuns' /\ ReadHolds'
  BY NextKeepsLoneRuns, NextKeepsReadHolds
<1> QED BY <1>1, <1>2, AlwaysTypeInv, PTL DEF Spec

LEMMA SentBySend ==
  ASSUME TypeInv, [Next]_vars, NEW m \in Requests, sends'[m] # sends[m]
  PROVE  \E s \in Slots : exec[s].message = m /\ Send(s)
<1>1. ASSUME NEW r \in Requests, RequestNext(r) \/ ApiCrash(r) PROVE UNCHANGED sends
  BY <1>1 DEF RequestNext, ApiCrash, Lookup, Create, Enqueue, MarkQueued, MarkFailed, LogUsage, workerVars
<1>2. ASSUME NEW s \in Slots, SlotNext(s) PROVE exec[s].message = m /\ Send(s)
  <2>1. Send(s) => \A k \in Requests : k # exec[s].message => sends'[k] = sends[k]
    BY DEF Send, TypeInv, SendsOK
  <2>2. ~Send(s) => UNCHANGED sends
    BY <1>2 DEF SlotNext, Take, ReadRow, MarkRunning, MarkSent, Complete, Retry, Exhaust, EndStale
  <2> QED BY <2>1, <2>2
<1>3. ASSUME NEW k \in Requests, Reclaim(k) \/ Stall(k) \/ HandlerNext(k) PROVE UNCHANGED sends
  BY <1>3 DEF Reclaim, Stall, Lapse, HandlerNext, HandlerMarkFailed, HandlerDeadLetter, workerVars
<1>4. ASSUME NEW w \in Workers, WorkerCrash(w) PROVE UNCHANGED sends
  BY <1>4 DEF WorkerCrash
<1>5. UNCHANGED vars => UNCHANGED sends
  BY DEF vars, workerVars
<1> QED BY <1>1, <1>2, <1>3, <1>4, <1>5 DEF Next

(* Without stalls what is recorded as SENT is not sent again, whatever     *)
(* crashes and whatever writes are lost: the early return on SENT decides  *)
(* on a read that no other execution can make stale.                       *)
THEOREM RecordedNeverResent ==
  ASSUME "stall" \notin FaultKinds
  PROVE  Spec => RecordedIsNotResent
<1>1. ASSUME TypeInv, ReadHolds, [Next]_vars, NEW m \in Requests, sms[m] = "SENT" PROVE sends'[m] = sends[m]
  BY <1>1, SentBySend DEF Send, ReadHolds
<1>2. TypeInv /\ LoneRuns /\ ReadHolds /\ [Next]_vars
        => [\A m \in Requests : sms[m] = "SENT" => sends'[m] = sends[m]]_vars
  BY <1>1
<1> QED BY <1>2, AlwaysReadHolds, PTL DEF Spec, RecordedIsNotResent

-----------------------------------------------------------------------------
(* Without lost writes, what failed did not make its row SENT: an          *)
(* execution that threw, and the handler of a job that used every attempt. *)
UnsentFailed ==
  /\ \A s \in Slots : exec[s].at = "threw" => sms[exec[s].message] # "SENT"
  /\ \A m \in Requests : handler[m].at # "idle" => sms[m] # "SENT"

LEMMA ThrewUnsent ==
  ASSUME "db" \notin FaultKinds, TypeInv, LoneRuns, ReadHolds, UnsentFailed, [Next]_vars,
         NEW q \in Slots, exec'[q].at = "threw"
  PROVE  sms'[exec'[q].message] # "SENT"
<1>1. CASE exec'[q] = exec[q] /\ ~MarkSent(q)
  BY <1>1, StillUnsent DEF UnsentFailed
<1>2. CASE ReadRow(q)
  <2>1. PICK m : m = exec[q].message
    OBVIOUS
  <2>2. m \in Requests
    BY <1>2, <2>1, BusySlot DEF ReadRow, TypeInv
  <2>3. Enter(q, AfterRead[sms[m]]) /\ sms' = sms /\ sms[m] \in Statuses \cup {"absent"}
    BY <1>2, <2>1, <2>2 DEF ReadRow, Fault, dbVars, TypeInv, DatabaseOK
  <2>4. exec'[q].message = m /\ exec'[q].at = AfterRead[sms[m]]
    BY <2>1, <2>3, EnterSlot
  <2>5. AfterRead["SENT"] = "returned"
    BY DEF AfterRead
  <2> QED BY <2>3, <2>4, <2>5
<1>3. CASE MarkRunning(q)
  BY <1>3, EnterSlot DEF MarkRunning, LostWrite, Fault
<1>4. CASE exec'[q].message = exec[q].message /\ Send(q)
  BY <1>4 DEF Send, dbVars, ReadHolds
<1>5. CASE MarkSent(q)
  BY <1>5, EnterSlot DEF MarkSent, LostWrite, Fault
<1> QED BY <1>1, <1>2, <1>3, <1>4, <1>5, SlotMoves

LEMMA HandledUnsent ==
  ASSUME TypeInv, LoneRuns, UnsentFailed, LettersInv, [Next]_vars, NEW m \in Requests, handler'[m].at # "idle"
  PROVE  sms'[m] # "SENT"
<1>1. CASE handler[m].at # "idle"
  <2>1. sms[m] # "SENT" /\ job[m].state = "failed"
    BY <1>1 DEF UnsentFailed, LettersInv, Exhausted
  <2>2. ASSUME NEW s \in Slots, exec[s].message = m PROVE ~MarkSent(s)
    BY <2>1, <2>2 DEF LoneRuns, MarkSent
  <2> QED BY <2>1, <2>2, SentByRun
<1>2. CASE handler[m].at = "idle"
  <2>1. PICK s \in Slots : exec[s].message = m /\ Exhaust(s)
    BY <1>2, HandlerStarts
  <2> QED BY <2>1 DEF Exhaust, dbVars, UnsentFailed
<1> QED BY <1>1, <1>2

LEMMA AlwaysUnsentFailed ==
  ASSUME "stall" \notin FaultKinds, "db" \notin FaultKinds
  PROVE  Spec => [](TypeInv /\ LoneRuns /\ ReadHolds /\ UnsentFailed)
<1>1. Init => UnsentFailed
  BY DEF Init, UnsentFailed, IdleSlot
<1>2. TypeInv /\ LoneRuns /\ ReadHolds /\ LettersInv /\ UnsentFailed /\ [Next]_vars => UnsentFailed'
  BY ThrewUnsent, HandledUnsent DEF UnsentFailed
<1> QED BY <1>1, <1>2, AlwaysReadHolds, AlwaysLettersInv, PTL DEF Spec

(* The steps that write the row of a message, when no write is lost.       *)
LEMMA RowWritten ==
  ASSUME "db" \notin FaultKinds, TypeInv, [Next]_vars, NEW m \in Requests, sms[m] = "SENT", sms'[m] # "SENT"
  PROVE  \/ pc'[m] # pc[m]
         \/ \E s \in Slots : exec[s].message = m /\ MarkRunning(s)
         \/ HandlerMarkFailed(m)
<1>1. ASSUME NEW k, NEW status, SetStatus(k, status) PROVE k = m /\ status # "SENT"
  BY <1>1 DEF SetStatus, TypeInv, DatabaseOK
<1>2. \A k, status : ~LostWrite(k, status)
  BY DEF LostWrite, Fault
<1>3. UNCHANGED dbVars => FALSE
  BY DEF dbVars
<1>4. ASSUME NEW r \in Requests, RequestNext(r) \/ ApiCrash(r) PROVE pc'[m] # pc[m]
  <2>1. CASE Commit(r) /\ Create(r)
    <3>1. r = m
      BY <2>1 DEF Commit, TypeInv, DatabaseOK
    <3>2. pc[r] = "create" /\ pc'[r] # "create"
      BY <2>1 DEF Create, Refuse, Goto, Answer, TypeInv, ApiOK
    <3> QED BY <3>1, <3>2
  <2>2. CASE MarkQueued(r)
    BY <1>1, <1>2, <2>2 DEF MarkQueued, Goto, TypeInv, ApiOK
  <2>3. CASE MarkFailed(r)
    BY <1>1, <1>2, <2>3 DEF MarkFailed, Answer, TypeInv, ApiOK
  <2>4. Lookup(r) \/ Enqueue(r) \/ LogUsage(r) \/ ApiCrash(r) => UNCHANGED dbVars
    BY DEF Lookup, Enqueue, LogUsage, ApiCrash
  <2>5. CASE Create(r) /\ ~Commit(r)
    BY <1>3, <2>5 DEF Create, Refuse
  <2> QED BY <1>3, <1>4, <2>1, <2>2, <2>3, <2>4, <2>5 DEF RequestNext
<1>5. ASSUME NEW s \in Slots, SlotNext(s) PROVE exec[s].message = m /\ MarkRunning(s)
  <2>1. MarkRunning(s) => exec[s].message = m
    BY <1>1, <1>2 DEF MarkRunning
  <2>2. ~MarkSent(s)
    BY <1>1, <1>2 DEF MarkSent
  <2>3. \/ \E k \in Requests : Take(s, k)
        \/ ReadRow(s) \/ Send(s) \/ Complete(s) \/ Retry(s) \/ Exhaust(s) \/ EndStale(s)
        => UNCHANGED dbVars
    BY DEF Take, ReadRow, Send, Complete, Retry, Exhaust, EndStale
  <2> QED BY <1>3, <1>5, <2>1, <2>2, <2>3 DEF SlotNext
<1>6. ASSUME NEW k \in Requests, HandlerNext(k) PROVE HandlerMarkFailed(m)
  BY <1>1, <1>2, <1>3, <1>6 DEF HandlerNext, HandlerMarkFailed, HandlerDeadLetter
<1>7. ASSUME (\E k \in Requests : Reclaim(k) \/ Stall(k)) \/ (\E w \in Workers : WorkerCrash(w)) PROVE FALSE
  BY <1>3, <1>7 DEF Reclaim, Stall, Lapse, WorkerCrash
<1>8. UNCHANGED vars => FALSE
  BY <1>3 DEF vars
<1> QED BY <1>4, <1>5, <1>6, <1>7, <1>8 DEF Next

(* Without stalls and lost writes no step of a worker, handler or restart  *)
(* moves a row away from SENT: only a step of the request itself may, the  *)
(* late write of QUEUED or FAILED.                                         *)
THEOREM WorkersAlwaysKeepSent ==
  ASSUME "stall" \notin FaultKinds, "db" \notin FaultKinds
  PROVE  Spec => WorkersKeepSent
<1>1. ASSUME TypeInv, ReadHolds, UnsentFailed, [Next]_vars, NEW m \in Requests, sms[m] = "SENT", sms'[m] # "SENT"
      PROVE  pc'[m] # pc[m]
  <2>1. ASSUME NEW s \in Slots, exec[s].message = m PROVE ~MarkRunning(s)
    BY <1>1, <2>1 DEF MarkRunning, ReadHolds
  <2>2. ~HandlerMarkFailed(m)
    BY <1>1 DEF HandlerMarkFailed, UnsentFailed
  <2> QED BY <1>1, <2>1, <2>2, RowWritten
<1>2. TypeInv /\ LoneRuns /\ ReadHolds /\ UnsentFailed /\ [Next]_vars
        => [\A m \in Requests : sms[m] = "SENT" => sms'[m] = "SENT" \/ pc[m] # pc'[m]]_vars
  BY <1>1
<1> QED BY <1>2, AlwaysUnsentFailed, PTL DEF Spec, WorkersKeepSent

-----------------------------------------------------------------------------
(***************************************************************************)
(* Sends and faults.  Each send beyond the first has a fault of its own.   *)
(* What is counted with the sends is what may still come without another   *)
(* fault: the runs that go on, and one more run if the job waits, or will  *)
(* wait again because the execution that holds it threw or is gone.        *)
(***************************************************************************)
HolderWorks(m) == \E s \in Slots : job[m].holder = s /\ exec[s].message = m /\ exec[s].at # "threw"

Due(m) == IF job[m].state \in {"none", "waiting"} \/ (job[m].state = "active" /\ ~HolderWorks(m)) THEN 1 ELSE 0

SendsPaid(m) == sends[m] + Cardinality(Runs(m)) + Due(m) <= 1 + faults

SendsPaidInv == \A m \in Requests : SendsPaid(m)

LEMMA DueBounds == ASSUME NEW m PROVE Due(m) \in {0, 1} /\ Due(m)' \in {0, 1}
BY DEF Due

LEMMA InitSendsPaidInv == Init => SendsPaidInv
<1> SUFFICES ASSUME Init, NEW m \in Requests PROVE SendsPaid(m)
  BY DEF SendsPaidInv
<1>1. Runs(m) = {} /\ sends[m] = 0 /\ faults = 0
  BY DEF Init, Runs, RunSteps, IdleSlot
<1> QED BY <1>1, DueBounds, FS_EmptySet DEF SendsPaid

LEMMA FaultCounts ==
  ASSUME TypeInv
  PROVE  /\ faults \in Nat
         /\ \A kind : Fault(kind) => faults' = faults + 1
  BY LimitsAssumption DEF TypeInv, FaultsOK, Fault

(* A step that leaves the sends alone and starts no run may make a run due *)
(* only if something failed in it.                                         *)
LEMMA PaidWithoutSend ==
  ASSUME TypeInv, NEW m \in Requests, IsFiniteSet(Runs(m)), SendsPaid(m), Runs(m)' \subseteq Runs(m),
         sends'[m] = sends[m],
         \/ faults' = faults /\ Due(m)' <= Due(m)
         \/ faults' = faults + 1
  PROVE  SendsPaid(m)'
<1>1. /\ Cardinality(Runs(m)) \in Nat /\ Cardinality(Runs(m)') \in Nat
      /\ Cardinality(Runs(m)') <= Cardinality(Runs(m))
  BY FS_Subset, FS_CardinalityType
<1>2. faults \in Nat /\ sends[m] \in Nat
  BY FaultCounts DEF TypeInv, SendsOK
<1> QED BY <1>1, <1>2, DueBounds DEF SendsPaid

(* A step that ends a run may send, or make the next one due, and may do   *)
(* both if something failed in it.                                         *)
LEMMA PaidWithRun ==
  ASSUME TypeInv, NEW m \in Requests, IsFiniteSet(Runs(m)), SendsPaid(m), NEW s \in Runs(m), Runs(m)' \subseteq Runs(m) \ {s},
         \/ faults' = faults /\ sends'[m] = sends[m]
         \/ faults' = faults /\ sends'[m] = sends[m] + 1 /\ Due(m)' <= Due(m)
         \/ faults' = faults + 1 /\ sends'[m] \in {sends[m], sends[m] + 1}
  PROVE  SendsPaid(m)'
<1>1. IsFiniteSet(Runs(m) \ {s}) /\ Cardinality(Runs(m) \ {s}) = Cardinality(Runs(m)) - 1
  BY FS_RemoveElement
<1>2. /\ Cardinality(Runs(m)) \in Nat /\ Cardinality(Runs(m)') \in Nat
      /\ Cardinality(Runs(m)') <= Cardinality(Runs(m)) - 1
  BY <1>1, FS_Subset, FS_CardinalityType
<1>3. faults \in Nat /\ sends[m] \in Nat
  BY FaultCounts DEF TypeInv, SendsOK
<1> QED BY <1>2, <1>3, DueBounds DEF SendsPaid

(* The run that was due begins.                                            *)
LEMMA PaidWhenDue ==
  ASSUME TypeInv, NEW m \in Requests, IsFiniteSet(Runs(m)), SendsPaid(m), NEW s, Runs(m)' \subseteq Runs(m) \cup {s},
         sends'[m] = sends[m], faults' = faults, Due(m) = 1, Due(m)' = 0
  PROVE  SendsPaid(m)'
<1>1. Cardinality(Runs(m)) \in Nat
  BY FS_CardinalityType
<1>2. /\ IsFiniteSet(Runs(m) \cup {s})
      /\ Cardinality(Runs(m) \cup {s}) = IF s \in Runs(m) THEN Cardinality(Runs(m)) ELSE Cardinality(Runs(m)) + 1
  BY <1>1, FS_AddElement, Zenon
<1>3. Cardinality(Runs(m)') \in Nat /\ Cardinality(Runs(m)') <= Cardinality(Runs(m) \cup {s})
  BY <1>2, FS_Subset, FS_CardinalityType
<1>4. faults \in Nat /\ sends[m] \in Nat
  BY FaultCounts DEF TypeInv, SendsOK
<1> QED BY <1>1, <1>2, <1>3, <1>4 DEF SendsPaid

(* Nothing becomes due while the slot that holds the job works on it.      *)
LEMMA DueKept ==
  ASSUME NEW m, job'[m] = job[m], NEW s,
         \A q \in Slots : q # s => exec'[q] = exec[q],
         job[m].holder = s /\ exec[s].message = m => exec'[s].message = m /\ (exec'[s].at = "threw" => exec[s].at = "threw")
  PROVE  Due(m)' <= Due(m)
<1>1. HolderWorks(m) => HolderWorks(m)'
  BY DEF HolderWorks
<1> QED BY <1>1 DEF Due

LEMMA DueSame ==
  ASSUME UNCHANGED exec, NEW m, job'[m] = job[m]
  PROVE  Due(m)' <= Due(m)
  BY DEF Due, HolderWorks

-----------------------------------------------------------------------------
(* Every step of a slot keeps the sends paid                               *)

(* The steps of an execution on another message.                           *)
LEMMA OthersStepPaid ==
  ASSUME TypeInv, NEW m \in Requests, IsFiniteSet(Runs(m)), SendsPaid(m), NEW s \in Slots, exec[s].message # m,
         NEW step, Enter(s, step), job'[m] = job[m], sends'[m] = sends[m],
         faults' = faults \/ faults' = faults + 1
  PROVE  SendsPaid(m)'
<1>1. Runs(m)' \subseteq Runs(m)
  BY EnterSlot DEF Runs
<1>2. Due(m)' <= Due(m)
  BY EnterSlot, DueKept
<1> QED BY <1>1, <1>2, PaidWithoutSend

LEMMA RunStepPaid ==
  ASSUME TypeInv, NEW m \in Requests, IsFiniteSet(Runs(m)), SendsPaid(m), NEW s \in Slots, exec[s].message = m,
         ReadRow(s) \/ MarkRunning(s) \/ Send(s)
  PROVE  SendsPaid(m)'
<1>1. s \in Runs(m) /\ job'[m] = job[m]
  BY DEF ReadRow, MarkRunning, Send, Runs, RunSteps, redisVars
<1>2. PICK step :
        /\ Enter(s, step)
        /\ \/ sends'[m] = sends[m] /\ (step # "send" => step \notin RunSteps \/ ReadRow(s)) /\ (faults' = faults \/ faults' = faults + 1)
           \/ sends'[m] = sends[m] + 1 /\ step = "markSent" /\ faults' = faults
           \/ sends'[m] = sends[m] + 1 /\ step = "threw" /\ faults' = faults + 1
  <2>1. CASE ReadRow(s)
    <3>1. sends'[m] = sends[m] /\ (faults' = faults \/ faults' = faults + 1) /\ \E step : Enter(s, step)
      BY <2>1, FaultCounts DEF ReadRow
    <3> QED BY <2>1, <3>1
  <2>2. CASE MarkRunning(s)
    <3>1. /\ sends'[m] = sends[m] /\ (faults' = faults \/ faults' = faults + 1)
          /\ \E step \in {"send", "threw"} : Enter(s, step)
      BY <2>2, FaultCounts DEF MarkRunning, LostWrite
    <3> QED BY <3>1 DEF RunSteps
  <2>3. CASE Send(s)
    <3>1. sends' = [sends EXCEPT ![m] = @ + 1] => sends'[m] = sends[m] + 1
      BY DEF TypeInv, SendsOK
    <3>2. \/ sends' = [sends EXCEPT ![m] = @ + 1] /\ Enter(s, "markSent") /\ faults' = faults
          \/ sends' = sends /\ Enter(s, "threw") /\ faults' = faults
          \/ sends' = [sends EXCEPT ![m] = @ + 1] /\ Enter(s, "threw") /\ faults' = faults + 1
      BY <2>3, FaultCounts DEF Send
    <3> QED BY <3>1, <3>2 DEF RunSteps
  <2> QED BY <2>1, <2>2, <2>3
<1>3. exec'[s].at = step /\ exec'[s].message = m /\ \A q \in Slots : q # s => exec'[q] = exec[q]
  BY <1>2, EnterSlot
<1>4. Runs(m)' \subseteq Runs(m) /\ (step \notin RunSteps => Runs(m)' \subseteq Runs(m) \ {s})
  BY <1>1, <1>3 DEF Runs
<1>5. step # "threw" => Due(m)' <= Due(m)
  BY <1>1, <1>3, DueKept
<1>6. CASE step \in RunSteps
  <2>1. step # "threw" /\ step # "markSent"
    BY <1>6 DEF RunSteps
  <2> QED BY <1>2, <1>4, <1>5, <2>1, PaidWithoutSend
<1>7. CASE step \notin RunSteps
  <2>1. Runs(m)' \subseteq Runs(m) \ {s}
    BY <1>4, <1>7
  <2> QED BY <1>1, <1>2, <1>5, <2>1, PaidWithRun
<1> QED BY <1>6, <1>7

LEMMA MarkSentPaid ==
  ASSUME TypeInv, NEW m \in Requests, IsFiniteSet(Runs(m)), SendsPaid(m), NEW s \in Slots, exec[s].message = m, MarkSent(s)
  PROVE  SendsPaid(m)'
<1>1. PICK step \in {"returned", "threw"} :
        /\ Enter(s, step)
        /\ \/ step = "returned" /\ faults' = faults
           \/ step = "threw" /\ faults' = faults + 1
  BY FaultCounts DEF MarkSent, LostWrite
<1>2. sends'[m] = sends[m] /\ job'[m] = job[m]
  BY DEF MarkSent, redisVars
<1>3. exec'[s].at = step /\ exec'[s].message = m /\ \A q \in Slots : q # s => exec'[q] = exec[q]
  BY <1>1, EnterSlot
<1>4. Runs(m)' \subseteq Runs(m)
  BY <1>1, <1>3 DEF Runs, RunSteps
<1>5. step = "returned" => Due(m)' <= Due(m)
  BY <1>2, <1>3, DueKept
<1> QED BY <1>1, <1>2, <1>4, <1>5, PaidWithoutSend

LEMMA TakePaid ==
  ASSUME TypeInv, NEW m \in Requests, IsFiniteSet(Runs(m)), SendsPaid(m), NEW s \in Slots, NEW k \in Requests, Take(s, k)
  PROVE  SendsPaid(m)'
<1>1. /\ exec[s].at = "idle" /\ job[k].state = "waiting" /\ sends' = sends /\ faults' = faults
      /\ exec'[s] = [at |-> "read", message |-> k] /\ \A q \in Slots : q # s => exec'[q] = exec[q]
  BY DEF Take, TypeInv, SlotsOK
<1>2. exec[s].message # m
  BY <1>1, NobodyAssumption DEF TypeInv, SlotsOK
<1>3. job'[k].state = "active" /\ job'[k].holder = s /\ (m # k => job'[m] = job[m])
  BY DEF Take, TypeInv, QueueOK
<1>4. CASE m = k
  <2>1. Due(m) = 1 /\ Due(m)' = 0
    BY <1>1, <1>3, <1>4 DEF Due, HolderWorks
  <2>2. Runs(m)' \subseteq Runs(m) \cup {s}
    BY <1>1 DEF Runs
  <2> QED BY <1>1, <2>1, <2>2, PaidWhenDue
<1>5. CASE m # k
  <2>1. Due(m)' <= Due(m)
    BY <1>1, <1>2, <1>3, <1>5, DueKept
  <2>2. Runs(m)' \subseteq Runs(m)
    BY <1>1, <1>5 DEF Runs
  <2> QED BY <1>1, <2>1, <2>2, PaidWithoutSend
<1> QED BY <1>4, <1>5

(* An execution that ends while it holds the job: it threw and one more    *)
(* run was due, or no run is.                                              *)
LEMMA EndPaid ==
  ASSUME TypeInv, NEW m \in Requests, IsFiniteSet(Runs(m)), SendsPaid(m), NEW s \in Slots,
         Complete(s) \/ Retry(s) \/ Exhaust(s) \/ EndStale(s)
  PROVE  SendsPaid(m)'
<1>1. Leave(s) /\ sends' = sends /\ faults' = faults
  BY DEF Complete, Retry, Exhaust, EndStale
<1>2. exec'[s].at = "idle" /\ \A q \in Slots : q # s => exec'[q] = exec[q]
  BY <1>1, LeaveSlot
<1>3. Runs(m)' \subseteq Runs(m)
  BY <1>1, LeaveRuns
<1>4. Due(m)' <= Due(m)
  <2>1. CASE EndStale(s)
    <3>1. job' = job /\ ~(job[m].holder = s /\ exec[s].message = m)
      BY <2>1 DEF EndStale, Holds, redisVars
    <3> QED BY <1>2, <3>1, DueKept
  <2>2. CASE Complete(s) \/ Retry(s) \/ Exhaust(s)
    <3>1. PICK k \in Requests : k = exec[s].message
      BY <2>2, BusySlot DEF Complete, Retry, Exhaust, TypeInv
    <3>2. QueueOK /\ job[k].holder = s /\ job[k].state = "active"
      BY <2>2, <3>1, BusySlot DEF Complete, Retry, Exhaust, Holds, TypeInv
    <3>3. \/ JobEnds(k, "completed", job[k].attempts)
          \/ JobEnds(k, "failed", job[k].attempts + 1)
          \/ JobEnds(k, "waiting", job[k].attempts + 1) /\ exec[s].at = "threw"
      <4>1. Retry(s) => exec[s].at = "threw"
        BY DEF Retry
      <4> QED BY <2>2, <3>1, <3>2, <4>1, EndedJob
    <3>4. CASE m # k
      <4>1. job'[m] = job[m]
        BY <3>3, <3>4 DEF JobEnds
      <4> QED BY <1>2, <3>1, <3>4, <4>1, DueKept
    <3>5. CASE m = k
      <4>1. job'[m].state \in {"completed", "failed"} => Due(m)' = 0
        BY DEF Due
      <4>2. exec[s].at = "threw" => Due(m) = 1
        BY <3>2, <3>5 DEF Due, HolderWorks
      <4>3. job'[m].state \in {"completed", "failed"} \/ exec[s].at = "threw"
        BY <3>3, <3>5 DEF JobEnds
      <4> QED BY <4>1, <4>2, <4>3, DueBounds
    <3> QED BY <3>4, <3>5
  <2> QED BY <2>1, <2>2
<1> QED BY <1>1, <1>3, <1>4, PaidWithoutSend

LEMMA SlotPaid ==
  ASSUME TypeInv, NEW m \in Requests, IsFiniteSet(Runs(m)), SendsPaid(m), NEW s \in Slots, SlotNext(s)
  PROVE  SendsPaid(m)'
<1>1. CASE ReadRow(s) \/ MarkRunning(s) \/ Send(s) \/ MarkSent(s)
  <2>1. CASE exec[s].message = m
    BY <1>1, <2>1, RunStepPaid, MarkSentPaid
  <2>2. CASE exec[s].message # m
    <3>1. job'[m] = job[m]
      BY <1>1 DEF ReadRow, MarkRunning, Send, MarkSent, redisVars
    <3>2. sends'[m] = sends[m]
      BY <1>1, <2>2 DEF ReadRow, MarkRunning, Send, MarkSent, TypeInv, SendsOK
    <3>3. \E step : Enter(s, step)
      BY <1>1 DEF ReadRow, MarkRunning, Send, MarkSent
    <3>4. faults' = faults \/ faults' = faults + 1
      BY <1>1, FaultCounts DEF ReadRow, MarkRunning, Send, MarkSent, LostWrite
    <3> QED BY <2>2, <3>1, <3>2, <3>3, <3>4, OthersStepPaid
  <2> QED BY <2>1, <2>2
<1> QED BY <1>1, TakePaid, EndPaid DEF SlotNext

-----------------------------------------------------------------------------
(* Every other step keeps the sends paid                                   *)

LEMMA RequestPaid ==
  ASSUME TypeInv, NEW m \in Requests, IsFiniteSet(Runs(m)), SendsPaid(m), NEW r \in Requests, RequestNext(r) \/ ApiCrash(r)
  PROVE  SendsPaid(m)'
<1>1. UNCHANGED <<exec, sends>>
  BY DEF RequestNext, ApiCrash, Lookup, Create, Enqueue, MarkQueued, MarkFailed, LogUsage, workerVars
<1>2. faults' = faults \/ \E kind : Fault(kind)
  BY DEF RequestNext, ApiCrash, Lookup, Create, Enqueue, MarkQueued, MarkFailed, LogUsage, LostWrite
<1>3. UNCHANGED job \/ AddJob(r)
  BY DEF RequestNext, ApiCrash, Lookup, Create, Enqueue, MarkQueued, MarkFailed, LogUsage, redisVars
<1>4. \/ job'[m] = job[m]
      \/ job[m].state = "none" /\ job'[m].state = "waiting"
  BY <1>3 DEF AddJob, TypeInv, QueueOK
<1>5. Due(m)' <= Due(m)
  <2>1. job[m].state = "none" /\ job'[m].state = "waiting" => Due(m)' = Due(m)
    BY DEF Due
  <2> QED BY <1>1, <1>4, <2>1, DueSame, DueBounds
<1> QED BY <1>1, <1>2, <1>5, FaultCounts, RunsSame, PaidWithoutSend

LEMMA LapsePaid ==
  ASSUME TypeInv, NEW m \in Requests, IsFiniteSet(Runs(m)), SendsPaid(m), NEW k \in Requests, Reclaim(k) \/ Stall(k)
  PROVE  SendsPaid(m)'
<1>1. UNCHANGED <<exec, sends>> /\ (m # k => job'[m] = job[m])
  BY DEF Reclaim, Stall, Lapse, workerVars, TypeInv, QueueOK
<1>2. CASE Stall(k)
  BY <1>1, <1>2, FaultCounts, RunsSame, PaidWithoutSend DEF Stall
<1>3. CASE Reclaim(k)
  <2>1. Reclaim(m) => Due(m) = 1
    BY DEF Reclaim, HolderRuns, Due, HolderWorks
  <2>2. Due(m)' <= Due(m)
    BY <1>1, <1>3, <2>1, DueSame, DueBounds
  <2>3. faults' = faults
    BY <1>3 DEF Reclaim
  <2> QED BY <1>1, <2>2, <2>3, RunsSame, PaidWithoutSend
<1> QED BY <1>2, <1>3

LEMMA HandlerPaid ==
  ASSUME TypeInv, MetricsHasLabels \/ UnlabelledInv, NEW m \in Requests, IsFiniteSet(Runs(m)), SendsPaid(m),
         (\E k \in Requests : HandlerNext(k)) \/ (\E w \in Workers : WorkerCrash(w))
  PROVE  SendsPaid(m)'
<1>1. UNCHANGED <<job, sends>>
  BY DEF HandlerNext, HandlerMarkFailed, HandlerDeadLetter, WorkerCrash, redisVars
<1>2. \/ UNCHANGED <<exec, faults>>
      \/ (\E w : CrashOf(w)) /\ \E kind : Fault(kind)
  <2>1. ~MetricsHasLabels => \A k \in Requests : ~HandlerNext(k)
    BY WorkersHaveNothing DEF UnlabelledInv
  <2> QED BY <2>1 DEF HandlerNext, HandlerMarkFailed, HandlerDeadLetter, WorkerCrash, LostWrite
<1>3. CASE UNCHANGED <<exec, faults>>
  BY <1>1, <1>3, DueSame, RunsSame, PaidWithoutSend
<1>4. CASE (\E w : CrashOf(w)) /\ \E kind : Fault(kind)
  BY <1>1, <1>4, FaultCounts, CrashRuns, PaidWithoutSend
<1> QED BY <1>2, <1>3, <1>4

(* A message reaches the carrier once, and once more at most for each      *)
(* fault: refusals, retries and any interleaving of executions alone never *)
(* send it twice.                                                          *)
THEOREM ResendsAlwaysHaveFaults == Spec => []ResendsHaveFaults
<1>1. ASSUME TypeInv, MetricsHasLabels \/ UnlabelledInv, DeliveryInv, SendsPaidInv, [Next]_vars, NEW m \in Requests PROVE SendsPaid(m)'
  <2>1. IsFiniteSet(Runs(m)) /\ SendsPaid(m)
    BY <1>1 DEF DeliveryInv, MessageOK, SendsPaidInv
  <2>2. CASE UNCHANGED vars
    <3>1. UNCHANGED <<job, exec, sends, faults>>
      BY <2>2 DEF vars, redisVars, workerVars
    <3> QED BY <1>1, <2>1, <3>1, DueSame, RunsSame, PaidWithoutSend
  <2> QED BY <1>1, <2>1, <2>2, RequestPaid, SlotPaid, LapsePaid, HandlerPaid DEF Next
<1>2. TypeInv /\ (MetricsHasLabels \/ UnlabelledInv) /\ DeliveryInv /\ SendsPaidInv /\ [Next]_vars => SendsPaidInv'
  BY <1>1 DEF SendsPaidInv
<1>3. TypeInv /\ DeliveryInv /\ SendsPaidInv => ResendsHaveFaults
  <2> SUFFICES ASSUME TypeInv, DeliveryInv, SendsPaidInv, NEW m \in Requests PROVE sends[m] <= 1 + faults
    BY DEF ResendsHaveFaults
  <2>1. SendsPaid(m) /\ Cardinality(Runs(m)) \in Nat
    BY FS_CardinalityType DEF SendsPaidInv, DeliveryInv, MessageOK
  <2>2. sends[m] \in Nat /\ faults \in Nat
    BY FaultCounts DEF TypeInv, SendsOK
  <2> QED BY <2>1, <2>2, DueBounds DEF SendsPaid
<1> QED BY <1>2, <1>3, InitSendsPaidInv, AlwaysDeliveryInv, AlwaysUnlabelled, PTL DEF Spec

=============================================================================
