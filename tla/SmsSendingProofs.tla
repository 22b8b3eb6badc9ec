-------------------------- MODULE SmsSendingProofs --------------------------
(***************************************************************************)
(* Theorems about SmsSending for every set of users, keys, requests and    *)
(* workers, every limit on attempts, stalls and faults, and both builds of *)
(* the metrics service.                                                    *)
(***************************************************************************)
EXTENDS SmsSending, FiniteSetTheorems, TLAPS

(***************************************************************************)
(* Type correctness.  TypeOK is not inductive: that attempts and stalls    *)
(* stay within their limits rests on which jobs may still run, and that a  *)
(* step of a slot touches a message on the slot being busy.  The invariant *)
(* is cut along the parts of the system, so that a step is only examined   *)
(* for the part it changes.                                                *)
(***************************************************************************)
ApiOK ==
  /\ call \in [Requests -> [user : Users, key : Keys \cup {NoKey, EmptyKey}]]
  /\ pc \in [Requests -> RequestSteps]
  /\ reply \in [Requests -> [code : ReplyCodes, id : Requests \cup {Nobody}]]

DatabaseOK ==
  /\ balance \in [Users -> Nat]
  /\ ledger \subseteq Requests
  /\ sms \in [Requests -> Statuses \cup {"absent"}]

(* Only a job that still may run has a holder, and it has used up neither  *)
(* its attempts nor its stalls.                                            *)
QueueOK ==
  /\ job \in [Requests -> [state    : {"none", "waiting", "active", "completed", "failed"},
                           attempts : 0..MaxAttempts,
                           stalled  : 0..(MaxStalled + 1),
                           holder   : Slots \cup {Nobody}]]
  /\ dlq \subseteq Requests
  /\ \A m \in Requests :
       /\ job[m].state \in {"none", "waiting", "active"} => job[m].attempts < MaxAttempts /\ job[m].stalled <= MaxStalled
       /\ job[m].holder # Nobody => job[m].state = "active"

(* A busy slot works on a message, an idle one on none.                    *)
SlotsOK ==
  /\ exec \in [Slots -> [at : SlotSteps, message : Requests \cup {Nobody}]]
  /\ \A s \in Slots : exec[s].at = "idle" <=> exec[s].message = Nobody

HandlersOK == handler \in [Requests -> [at : {"idle", "markFailed", "deadLetter", "lost"}, host : Workers \cup {Nobody}]]

SendsOK == sends \in [Requests -> Nat]

FaultsOK == faults \in 0..MaxFaults

TypeInv == ApiOK /\ DatabaseOK /\ QueueOK /\ SlotsOK /\ HandlersOK /\ SendsOK /\ FaultsOK

LEMMA InitTypeInv == Init => TypeInv
<1> SUFFICES ASSUME Init PROVE TypeInv
  OBVIOUS
<1>1. ApiOK /\ DatabaseOK
  BY FundsAssumption DEF Init, ApiOK, DatabaseOK, RequestSteps, ReplyCodes, NoReply
<1>2. QueueOK
  BY LimitsAssumption DEF Init, QueueOK
<1>3. SlotsOK /\ HandlersOK /\ SendsOK /\ FaultsOK
  BY LimitsAssumption DEF Init, SlotsOK, HandlersOK, SendsOK, FaultsOK, SlotSteps, IdleSlot
<1> QED BY <1>1, <1>2, <1>3 DEF TypeInv

LEMMA ApiKept ==
  ASSUME ApiOK, NEW r \in Requests
  PROVE  /\ \A step \in RequestSteps : Goto(r, step) => ApiOK'
         /\ \A code \in ReplyCodes, id \in Requests \cup {Nobody} : Answer(r, code, id) => ApiOK'
<1>1. ASSUME NEW step \in RequestSteps, Goto(r, step) PROVE ApiOK'
  BY <1>1 DEF ApiOK, Goto
<1>2. ASSUME NEW code \in ReplyCodes, NEW id \in Requests \cup {Nobody}, Answer(r, code, id) PROVE ApiOK'
  BY <1>2 DEF ApiOK, Answer, RequestSteps
<1> QED BY <1>1, <1>2

LEMMA ApiUnchanged == ApiOK /\ UNCHANGED apiVars => ApiOK'
  BY DEF ApiOK, apiVars

LEMMA DatabaseKept ==
  ASSUME DatabaseOK
  PROVE  /\ \A m : \A status \in Statuses : SetStatus(m, status) => DatabaseOK'
         /\ \A m : \A status \in Statuses : LostWrite(m, status) => DatabaseOK'
         /\ UNCHANGED dbVars => DatabaseOK'
<1>1. ASSUME NEW m, NEW status \in Statuses, SetStatus(m, status) PROVE DatabaseOK'
  BY <1>1 DEF DatabaseOK, SetStatus
<1>2. ASSUME UNCHANGED dbVars PROVE DatabaseOK'
  BY <1>2 DEF DatabaseOK, dbVars
<1> QED BY <1>1, <1>2 DEF LostWrite

LEMMA CommitKept ==
  ASSUME ApiOK, DatabaseOK, NEW r \in Requests, Commit(r)
  PROVE  DatabaseOK'
  BY DEF ApiOK, DatabaseOK, Commit, Cost, Statuses

LEMMA QueueUnchanged == QueueOK /\ UNCHANGED redisVars => QueueOK'
  BY DEF QueueOK, redisVars

LEMMA SlotsKept ==
  ASSUME SlotsOK
  PROVE  /\ \A s \in Slots, step \in SlotSteps \ {"idle"} :
              exec[s].at # "idle" /\ Enter(s, step) => SlotsOK'
         /\ \A s \in Slots : Leave(s) => SlotsOK'
         /\ \A w : CrashOf(w) => SlotsOK'
         /\ UNCHANGED exec => SlotsOK'
<1>1. ASSUME NEW s \in Slots, NEW step \in SlotSteps \ {"idle"}, exec[s].at # "idle", Enter(s, step) PROVE SlotsOK'
  BY <1>1 DEF SlotsOK, Enter
<1>2. ASSUME NEW s \in Slots, Leave(s) PROVE SlotsOK'
  BY <1>2 DEF SlotsOK, Leave, IdleSlot, SlotSteps
<1>3. ASSUME NEW w, CrashOf(w) PROVE SlotsOK'
  BY <1>3 DEF SlotsOK, CrashOf, IdleSlot, SlotSteps
<1>4. ASSUME UNCHANGED exec PROVE SlotsOK'
  BY <1>4 DEF SlotsOK
<1> QED BY <1>1, <1>2, <1>3, <1>4

LEMMA FaultsKept ==
  ASSUME FaultsOK
  PROVE  /\ \A kind : Fault(kind) => FaultsOK'
         /\ UNCHANGED faults => FaultsOK'
  BY LimitsAssumption DEF FaultsOK, Fault

LEMMA RestKept ==
  /\ HandlersOK /\ UNCHANGED handler => HandlersOK'
  /\ SendsOK /\ UNCHANGED sends => SendsOK'
  BY DEF HandlersOK, SendsOK

LEMMA WorkersUnchanged ==
  SlotsOK /\ HandlersOK /\ SendsOK /\ UNCHANGED workerVars => SlotsOK' /\ HandlersOK' /\ SendsOK'
  BY DEF SlotsOK, HandlersOK, SendsOK, workerVars

LEMMA RequestKeepsTypeInv ==
  ASSUME TypeInv, NEW r \in Requests, RequestNext(r) \/ ApiCrash(r)
  PROVE  TypeInv'
<1> USE DEF TypeInv
<1>1. CASE Lookup(r)
  <2>1. ApiOK' /\ FaultsOK'
    BY <1>1, ApiKept, FaultsKept DEF Lookup, Duplicates, RequestSteps, ReplyCodes
  <2> QED BY <1>1, <2>1, DatabaseKept, QueueUnchanged, WorkersUnchanged DEF Lookup
<1>2. CASE Create(r)
  <2>1. ApiOK' /\ FaultsOK'
    BY <1>2, ApiKept, FaultsKept DEF Create, Refuse, RequestSteps, ReplyCodes
  <2>2. DatabaseOK'
    BY <1>2, CommitKept, DatabaseKept DEF Create, Refuse, dbVars
  <2> QED BY <1>2, <2>1, <2>2, QueueUnchanged, WorkersUnchanged DEF Create
<1>3. CASE Enqueue(r)
  <2>1. ApiOK' /\ FaultsOK'
    BY <1>3, ApiKept, FaultsKept DEF Enqueue, RequestSteps
  <2>2. AddJob(r) => QueueOK'
    BY DEF AddJob, QueueOK
  <2> QED BY <1>3, <2>1, <2>2, DatabaseKept, QueueUnchanged, WorkersUnchanged DEF Enqueue
<1>4. CASE MarkQueued(r)
  <2>1. ApiOK' /\ FaultsOK'
    BY <1>4, ApiKept, FaultsKept DEF MarkQueued, LostWrite, RequestSteps
  <2>2. DatabaseOK'
    BY <1>4, DatabaseKept DEF MarkQueued, Statuses
  <2> QED BY <1>4, <2>1, <2>2, QueueUnchanged, WorkersUnchanged DEF MarkQueued
<1>5. CASE MarkFailed(r)
  <2>1. ApiOK' /\ FaultsOK'
    BY <1>5, ApiKept, FaultsKept DEF MarkFailed, LostWrite, ReplyCodes
  <2>2. DatabaseOK'
    BY <1>5, DatabaseKept DEF MarkFailed, Statuses
  <2> QED BY <1>5, <2>1, <2>2, QueueUnchanged, WorkersUnchanged DEF MarkFailed
<1>6. CASE LogUsage(r)
  <2>1. ApiOK' /\ FaultsOK'
    BY <1>6, ApiKept, FaultsKept DEF LogUsage, ReplyCodes
  <2> QED BY <1>6, <2>1, DatabaseKept, QueueUnchanged, WorkersUnchanged DEF LogUsage
<1>7. CASE ApiCrash(r)
  <2>1. ApiOK' /\ FaultsOK'
    BY <1>7, ApiKept, FaultsKept DEF ApiCrash, RequestSteps
  <2> QED BY <1>7, <2>1, DatabaseKept, QueueUnchanged, WorkersUnchanged DEF ApiCrash
<1> QED BY <1>1, <1>2, <1>3, <1>4, <1>5, <1>6, <1>7 DEF RequestNext

(* The message of a busy slot, and what the slot's lock says of its job.   *)
LEMMA BusySlot ==
  ASSUME QueueOK, SlotsOK, NEW s \in Slots, exec[s].at # "idle"
  PROVE  /\ exec[s].message \in Requests
         /\ Holds(s) => job[exec[s].message].state = "active"
  BY NobodyAssumption DEF QueueOK, SlotsOK, Holds, Slots

Jobs ==
  [state    : {"none", "waiting", "active", "completed", "failed"},
   attempts : 0..MaxAttempts,
   stalled  : 0..(MaxStalled + 1),
   holder   : Slots \cup {Nobody}]

(* The execution that held the job of m ends; nobody holds it any more.    *)
JobEnds(m, state, attempts) ==
  /\ \A q \in Requests \ {m} : job'[q] = job[q]
  /\ job'[m] = [state |-> state, attempts |-> attempts, stalled |-> job[m].stalled, holder |-> Nobody]
  /\ job' = [q \in Requests |-> job'[q]]

LEMMA JobReplaced ==
  ASSUME job \in [Requests -> Jobs], NEW m \in Requests, NEW state
  PROVE  /\ job' = [job EXCEPT ![m].state = state, ![m].holder = Nobody]
              => JobEnds(m, state, job[m].attempts)
         /\ job' = [job EXCEPT ![m].state = state, ![m].holder = Nobody, ![m].attempts = @ + 1]
              => JobEnds(m, state, job[m].attempts + 1)
<1>1. ASSUME job' = [job EXCEPT ![m].state = state, ![m].holder = Nobody]
      PROVE  JobEnds(m, state, job[m].attempts)
  BY <1>1 DEF JobEnds, Jobs
<1>2. ASSUME job' = [job EXCEPT ![m].state = state, ![m].holder = Nobody, ![m].attempts = @ + 1]
      PROVE  JobEnds(m, state, job[m].attempts + 1)
  BY <1>2 DEF JobEnds, Jobs
<1> QED BY <1>1, <1>2

LEMMA EndedJob ==
  ASSUME QueueOK, NEW s \in Slots, NEW m, m = exec[s].message, m \in Requests
  PROVE  /\ Complete(s) => JobEnds(m, "completed", job[m].attempts)
         /\ Retry(s) => JobEnds(m, "waiting", job[m].attempts + 1) /\ job[m].attempts + 1 < MaxAttempts
         /\ Exhaust(s) => JobEnds(m, "failed", job[m].attempts + 1)
<1>1. job \in [Requests -> Jobs]
  BY DEF QueueOK, Jobs
<1>2. Complete(s) => job' = [job EXCEPT ![m].state = "completed", ![m].holder = Nobody]
  BY DEF Complete
<1>3. Retry(s) => /\ job' = [job EXCEPT ![m].state = "waiting", ![m].holder = Nobody, ![m].attempts = @ + 1]
                  /\ job[m].attempts + 1 < MaxAttempts
  BY DEF Retry
<1>4. Exhaust(s) => job' = [job EXCEPT ![m].state = "failed", ![m].holder = Nobody, ![m].attempts = @ + 1]
  BY DEF Exhaust
<1> QED BY <1>1, <1>2, <1>3, <1>4, JobReplaced

LEMMA EndKeepsQueue ==
  ASSUME QueueOK, NEW m \in Requests, NEW state \in {"completed", "waiting", "failed"}, NEW attempts \in 0..MaxAttempts,
         JobEnds(m, state, attempts), UNCHANGED dlq,
         state = "waiting" => attempts < MaxAttempts /\ job[m].stalled <= MaxStalled
  PROVE  QueueOK'
  BY LimitsAssumption DEF QueueOK, JobEnds

LEMMA SlotKeepsTypeInv ==
  ASSUME TypeInv, NEW s \in Slots, SlotNext(s)
  PROVE  TypeInv'
<1> USE DEF TypeInv
<1> USE NobodyAssumption DEF SlotSteps
<1>1. ASSUME NEW m \in Requests, Take(s, m) PROVE TypeInv'
  <2>1. QueueOK'
    BY <1>1 DEF Take, QueueOK
  <2>2. SlotsOK'
    BY <1>1 DEF Take, SlotsOK
  <2> QED BY <1>1, <2>1, <2>2, ApiUnchanged, DatabaseKept, RestKept, FaultsKept DEF Take
<1>2. CASE ReadRow(s)
  <2>1. SlotsOK'
    <3>1. sms[exec[s].message] \in Statuses \cup {"absent"}
      BY <1>2, BusySlot DEF ReadRow, DatabaseOK
    <3>2. AfterRead[sms[exec[s].message]] \in SlotSteps \ {"idle"}
      BY <3>1 DEF AfterRead, Statuses
    <3> QED BY <1>2, <3>2, SlotsKept DEF ReadRow
  <2>2. UNCHANGED handler /\ FaultsOK'
    BY <1>2, FaultsKept DEF ReadRow, Enter
  <2> QED BY <1>2, <2>1, <2>2, ApiUnchanged, DatabaseKept, QueueUnchanged, RestKept DEF ReadRow
<1>3. CASE MarkRunning(s)
  <2>1. SlotsOK'
    BY <1>3, SlotsKept DEF MarkRunning
  <2>2. DatabaseOK' /\ FaultsOK' /\ UNCHANGED handler
    BY <1>3, DatabaseKept, FaultsKept DEF MarkRunning, LostWrite, Enter, Statuses
  <2> QED BY <1>3, <2>1, <2>2, ApiUnchanged, QueueUnchanged, RestKept DEF MarkRunning
<1>4. CASE Send(s)
  <2>1. SlotsOK'
    BY <1>4, SlotsKept DEF Send
  <2>2. SendsOK' /\ FaultsOK' /\ UNCHANGED handler
    BY <1>4, FaultsKept, BusySlot DEF Send, Enter, SendsOK
  <2> QED BY <1>4, <2>1, <2>2, ApiUnchanged, DatabaseKept, QueueUnchanged, RestKept DEF Send
<1>5. CASE MarkSent(s)
  <2>1. SlotsOK'
    BY <1>5, SlotsKept DEF MarkSent
  <2>2. DatabaseOK' /\ FaultsOK' /\ UNCHANGED handler
    BY <1>5, DatabaseKept, FaultsKept DEF MarkSent, LostWrite, Enter, Statuses
  <2> QED BY <1>5, <2>1, <2>2, ApiUnchanged, QueueUnchanged, RestKept DEF MarkSent
<1>6. CASE Complete(s)
  <2>1. PICK m \in Requests : m = exec[s].message /\ job[m].state = "active"
    BY <1>6, BusySlot DEF Complete
  <2>2. QueueOK'
    BY <1>6, <2>1, EndedJob, EndKeepsQueue DEF Complete, QueueOK
  <2> QED BY <1>6, <2>2, ApiUnchanged, DatabaseKept, SlotsKept, RestKept, FaultsKept DEF Complete
<1>7. CASE Retry(s)
  <2>1. PICK m \in Requests : m = exec[s].message /\ job[m].state = "active"
    BY <1>7, BusySlot DEF Retry
  <2>2. job[m].attempts \in Nat /\ job[m].stalled <= MaxStalled /\ UNCHANGED dlq
    BY <1>7, <2>1 DEF Retry, QueueOK
  <2>3. JobEnds(m, "waiting", job[m].attempts + 1) /\ job[m].attempts + 1 < MaxAttempts
    BY <1>7, <2>1, EndedJob
  <2>4. job[m].attempts + 1 \in 0..MaxAttempts
    BY <2>2, <2>3, LimitsAssumption
  <2>5. QueueOK'
    BY <2>2, <2>3, <2>4, EndKeepsQueue
  <2> QED BY <1>7, <2>5, ApiUnchanged, DatabaseKept, SlotsKept, RestKept, FaultsKept DEF Retry
<1>8. CASE Exhaust(s)
  <2>1. QueueOK'
    <3>1. PICK m \in Requests : m = exec[s].message /\ job[m].state = "active"
      BY <1>8, BusySlot DEF Exhaust
    <3>2. job[m].attempts + 1 \in 0..MaxAttempts /\ UNCHANGED dlq
      BY <1>8, <3>1, LimitsAssumption DEF Exhaust, QueueOK
    <3>3. JobEnds(m, "failed", job[m].attempts + 1)
      BY <1>8, <3>1, EndedJob
    <3> QED BY <3>2, <3>3, EndKeepsQueue
  <2>2. HandlersOK'
    BY <1>8, BusySlot DEF Exhaust, HandlersOK, Host, Slots
  <2> QED BY <1>8, <2>1, <2>2, ApiUnchanged, DatabaseKept, SlotsKept, RestKept, FaultsKept DEF Exhaust
<1>9. CASE EndStale(s)
  BY <1>9, ApiUnchanged, DatabaseKept, QueueUnchanged, SlotsKept, RestKept, FaultsKept DEF EndStale
<1> QED BY <1>1, <1>2, <1>3, <1>4, <1>5, <1>6, <1>7, <1>8, <1>9 DEF SlotNext

LEMMA LapseKeepsTypeInv ==
  ASSUME TypeInv, NEW m \in Requests, Reclaim(m) \/ Stall(m)
  PROVE  TypeInv'
<1> USE DEF TypeInv
<1>1. QueueOK'
  BY LimitsAssumption DEF Reclaim, Stall, Lapse, QueueOK
<1> QED BY <1>1, ApiUnchanged, DatabaseKept, WorkersUnchanged, FaultsKept DEF Reclaim, Stall, Lapse

LEMMA CrashKeepsHandlers ==
  ASSUME HandlersOK, NEW w, CrashOf(w)
  PROVE  HandlersOK'
  BY DEF HandlersOK, CrashOf

LEMMA HandlerKeepsTypeInv ==
  ASSUME TypeInv, NEW m \in Requests, HandlerNext(m)
  PROVE  TypeInv'
<1> USE DEF TypeInv
<1>1. CASE HandlerMarkFailed(m)
  <2>1. DatabaseOK' /\ FaultsOK'
    BY <1>1, DatabaseKept, FaultsKept DEF HandlerMarkFailed, LostWrite, Statuses
  <2>2. HandlersOK' /\ SlotsOK'
    <3>1. CASE handler' = [handler EXCEPT ![m].at = "deadLetter"] /\ UNCHANGED exec
      BY <3>1, SlotsKept DEF HandlersOK
    <3>2. CASE CrashOf(handler[m].host)
      BY <1>1, <3>2, CrashKeepsHandlers, SlotsKept DEF HandlerMarkFailed
    <3> QED BY <1>1, <3>1, <3>2 DEF HandlerMarkFailed
  <2> QED BY <1>1, <2>1, <2>2, ApiUnchanged, QueueUnchanged, RestKept DEF HandlerMarkFailed
<1>2. CASE HandlerDeadLetter(m)
  <2>1. QueueOK' /\ FaultsOK'
    BY <1>2, FaultsKept DEF HandlerDeadLetter, QueueOK
  <2>2. HandlersOK' /\ SlotsOK'
    <3>1. CASE handler' = [handler EXCEPT ![m] = [at |-> "idle", host |-> Nobody]] /\ UNCHANGED <<exec, faults>>
      BY <3>1, SlotsKept DEF HandlersOK
    <3>2. CASE CrashOf(handler[m].host)
      BY <1>2, <3>2, CrashKeepsHandlers, SlotsKept DEF HandlerDeadLetter
    <3> QED BY <1>2, <3>1, <3>2 DEF HandlerDeadLetter
  <2> QED BY <1>2, <2>1, <2>2, ApiUnchanged, DatabaseKept, RestKept DEF HandlerDeadLetter
<1> QED BY <1>1, <1>2 DEF HandlerNext

LEMMA WorkerCrashKeepsTypeInv ==
  ASSUME TypeInv, NEW w \in Workers, WorkerCrash(w)
  PROVE  TypeInv'
  BY CrashKeepsHandlers, SlotsKept, FaultsKept, QueueUnchanged, ApiUnchanged, DatabaseKept, RestKept
  DEF WorkerCrash, TypeInv

LEMMA NextKeepsTypeInv == TypeInv /\ [Next]_vars => TypeInv'
<1> SUFFICES ASSUME TypeInv, [Next]_vars PROVE TypeInv'
  OBVIOUS
<1>1. CASE UNCHANGED vars
  BY <1>1, ApiUnchanged, DatabaseKept, QueueUnchanged, WorkersUnchanged, FaultsKept DEF TypeInv, vars
<1> QED
  BY <1>1, RequestKeepsTypeInv, SlotKeepsTypeInv, LapseKeepsTypeInv, HandlerKeepsTypeInv, WorkerCrashKeepsTypeInv
  DEF Next

LEMMA AlwaysTypeInv == Spec => []TypeInv
  BY InitTypeInv, NextKeepsTypeInv, PTL DEF Spec

(* Every reachable state has the types of TypeOK: in particular a balance  *)
(* is never negative, because chargeSmsInTransaction compares it with the  *)
(* cost in the UPDATE that decreases it, and a job is never attempted more *)
(* than MaxAttempts times.                                                 *)
THEOREM TypeCorrect == Spec => []TypeOK
<1>1. TypeInv => TypeOK
  BY DEF TypeInv, ApiOK, DatabaseOK, QueueOK, SlotsOK, HandlersOK, SendsOK, FaultsOK, TypeOK
<1> QED BY <1>1, AlwaysTypeInv, PTL

-----------------------------------------------------------------------------
(***************************************************************************)
(* What the charge guarantees.  The strengthening says who has paid: a     *)
(* message has a row exactly when it has a deduction, a request before its *)
(* transaction has neither, and everything downstream of the transaction   *)
(* (a later step of the request, a job, a slot, a handler, the carrier,    *)
(* the dead-letter list) is about a message with both.                     *)
(***************************************************************************)
PaidRows == \A m \in Requests : m \in ledger <=> sms[m] # "absent"

PaidRequests ==
  \A r \in Requests :
    /\ pc[r] \in {"lookup", "create"} => r \notin ledger
    /\ pc[r] \in {"enqueue", "markQueued", "markFailed", "usage"} => r \in ledger

PaidWork ==
  /\ \A m \in Requests : job[m].state # "none" \/ handler[m].at # "idle" \/ sends[m] > 0 => m \in ledger
  /\ \A s \in Slots : exec[s].at # "idle" => exec[s].message \in ledger
  /\ dlq \subseteq ledger

PaidInv == PaidRows /\ PaidRequests /\ PaidWork

(* The row of a paid message is never removed by a status write.           *)
LEMMA StatusWrites ==
  ASSUME TypeInv, PaidInv, NEW m \in ledger, NEW status \in Statuses,
         SetStatus(m, status) \/ LostWrite(m, status)
  PROVE  UNCHANGED <<balance, ledger>> /\ \A q \in Requests : sms'[q] = "absent" <=> sms[q] = "absent"
  BY DEF TypeInv, DatabaseOK, PaidInv, PaidRows, SetStatus, LostWrite, dbVars, Statuses

(* The wallet and the set of stored messages change by a commit only.      *)
WalletKept == UNCHANGED <<balance, ledger>> /\ \A q \in Requests : sms'[q] = "absent" <=> sms[q] = "absent"

LEMMA WalletSteps ==
  ASSUME TypeInv, PaidInv, [Next]_vars
  PROVE  /\ UNCHANGED call
         /\ WalletKept \/ \E r \in Requests : pc[r] = "create" /\ pc'[r] \in {"enqueue", "done"} /\ Commit(r)
<1> DEFINE Goal == /\ UNCHANGED call
                   /\ \/ WalletKept
                      \/ \E r \in Requests : pc[r] = "create" /\ pc'[r] \in {"enqueue", "done"} /\ Commit(r)
<1> USE DEF WalletKept
<1>1. ASSUME NEW r \in Requests, RequestNext(r) \/ ApiCrash(r) PROVE Goal
  <2>1. CASE Create(r)
    BY <2>1 DEF Create, Refuse, Goto, Answer, TypeInv, ApiOK, dbVars
  <2>2. CASE MarkQueued(r)
    <3>1. r \in ledger
      BY <2>2 DEF MarkQueued, PaidInv, PaidRequests
    <3> QED BY <2>2, <3>1, StatusWrites DEF MarkQueued, Goto, Statuses
  <2>3. CASE MarkFailed(r)
    <3>1. r \in ledger
      BY <2>3 DEF MarkFailed, PaidInv, PaidRequests
    <3> QED BY <2>3, <3>1, StatusWrites DEF MarkFailed, Answer, Statuses
  <2>4. CASE Lookup(r) \/ Enqueue(r) \/ LogUsage(r) \/ ApiCrash(r)
    BY <2>4 DEF Lookup, Enqueue, LogUsage, ApiCrash, Goto, Answer, dbVars
  <2> QED BY <1>1, <2>1, <2>2, <2>3, <2>4 DEF RequestNext
<1>2. ASSUME NEW s \in Slots, SlotNext(s) PROVE Goal
  <2>1. CASE MarkRunning(s) \/ MarkSent(s)
    <3>1. exec[s].message \in ledger
      BY <2>1 DEF MarkRunning, MarkSent, PaidInv, PaidWork
    <3> QED BY <2>1, <3>1, StatusWrites DEF MarkRunning, MarkSent, apiVars, Statuses
  <2>2. CASE \/ \E m \in Requests : Take(s, m)
             \/ ReadRow(s) \/ Send(s) \/ Complete(s) \/ Retry(s) \/ Exhaust(s) \/ EndStale(s)
    BY <2>2 DEF Take, ReadRow, Send, Complete, Retry, Exhaust, EndStale, dbVars, apiVars
  <2> QED BY <1>2, <2>1, <2>2 DEF SlotNext
<1>3. ASSUME NEW m \in Requests, HandlerNext(m) PROVE Goal
  <2>1. CASE HandlerMarkFailed(m)
    <3>1. m \in ledger
      BY <2>1 DEF HandlerMarkFailed, PaidInv, PaidWork
    <3> QED BY <2>1, <3>1, StatusWrites DEF HandlerMarkFailed, apiVars, Statuses
  <2>2. CASE HandlerDeadLetter(m)
    BY <2>2 DEF HandlerDeadLetter, dbVars, apiVars
  <2> QED BY <1>3, <2>1, <2>2 DEF HandlerNext
<1>4. ASSUME NEW m \in Requests, Reclaim(m) \/ Stall(m) PROVE Goal
  BY <1>4 DEF Reclaim, Stall, Lapse, dbVars, apiVars
<1>5. ASSUME NEW w \in Workers, WorkerCrash(w) PROVE Goal
  BY <1>5 DEF WorkerCrash, dbVars, apiVars
<1>6. CASE UNCHANGED vars
  BY <1>6 DEF vars, dbVars, apiVars
<1> QED BY <1>1, <1>2, <1>3, <1>4, <1>5, <1>6 DEF Next

LEMMA InitPaidInv == Init => PaidInv
  BY DEF Init, PaidInv, PaidRows, PaidRequests, PaidWork, IdleSlot

(* Which variables the steps of each process leave alone.                  *)
LEMMA WorkersLeaveRequests ==
  /\ \A s \in Slots : SlotNext(s) => UNCHANGED <<call, pc, reply>>
  /\ \A m \in Requests : Reclaim(m) \/ Stall(m) \/ HandlerNext(m) => UNCHANGED <<call, pc, reply>>
  /\ \A w \in Workers : WorkerCrash(w) => UNCHANGED <<call, pc, reply>>
  /\ UNCHANGED vars => UNCHANGED <<call, pc, reply>>
<1>1. ASSUME NEW s \in Slots, SlotNext(s) PROVE UNCHANGED <<call, pc, reply>>
  BY <1>1 DEF SlotNext, Take, ReadRow, MarkRunning, Send, MarkSent, Complete, Retry, Exhaust, EndStale, apiVars
<1>2. ASSUME NEW m \in Requests, Reclaim(m) \/ Stall(m) \/ HandlerNext(m) PROVE UNCHANGED <<call, pc, reply>>
  BY <1>2 DEF Reclaim, Stall, Lapse, HandlerNext, HandlerMarkFailed, HandlerDeadLetter, apiVars
<1>3. ASSUME NEW w \in Workers, WorkerCrash(w) PROVE UNCHANGED <<call, pc, reply>>
  BY <1>3 DEF WorkerCrash, apiVars
<1>4. UNCHANGED vars => UNCHANGED <<call, pc, reply>>
  BY DEF vars, apiVars
<1> QED BY <1>1, <1>2, <1>3, <1>4

LEMMA NextKeepsPaidRows ==
  ASSUME TypeInv, PaidInv, [Next]_vars
  PROVE  PaidRows' /\ ledger \subseteq ledger'
<1>1. ASSUME NEW r \in Requests, Commit(r) PROVE PaidRows' /\ ledger \subseteq ledger'
  BY <1>1 DEF Commit, PaidInv, PaidRows, TypeInv, DatabaseOK
<1>2. CASE WalletKept
  BY <1>2 DEF WalletKept, PaidInv, PaidRows
<1> QED BY <1>1, <1>2, WalletSteps

LEMMA NextKeepsPaidRequests ==
  ASSUME TypeInv, PaidInv, [Next]_vars
  PROVE  PaidRequests'
<1> USE DEF PaidInv, PaidRequests, TypeInv, ApiOK
<1>1. ASSUME NEW r \in Requests, RequestNext(r) \/ ApiCrash(r) PROVE PaidRequests'
  <2>1. CASE Create(r)
    BY <2>1 DEF Create, Commit, Refuse, Goto, Answer, dbVars
  <2>2. CASE Lookup(r) \/ Enqueue(r) \/ LogUsage(r) \/ ApiCrash(r)
    BY <2>2 DEF Lookup, Enqueue, LogUsage, ApiCrash, Goto, Answer, dbVars
  <2>3. CASE MarkQueued(r) \/ MarkFailed(r)
    BY <2>3 DEF MarkQueued, MarkFailed, SetStatus, LostWrite, Goto, Answer, dbVars
  <2> QED BY <1>1, <2>1, <2>2, <2>3 DEF RequestNext
<1>2. CASE UNCHANGED pc
  <2>1. ASSUME NEW r \in Requests, pc[r] = "create", pc'[r] \in {"enqueue", "done"} PROVE FALSE
    BY <1>2, <2>1
  <2> QED BY <1>2, <2>1, WalletSteps DEF WalletKept
<1> QED BY <1>1, <1>2, WorkersLeaveRequests DEF Next

LEMMA NextKeepsPaidWork ==
  ASSUME TypeInv, PaidInv, [Next]_vars
  PROVE  PaidWork'
<1> USE NextKeepsPaidRows DEF PaidInv, PaidWork, TypeInv
<1>1. ASSUME NEW r \in Requests, RequestNext(r) \/ ApiCrash(r) PROVE PaidWork'
  <2>1. CASE Enqueue(r)
    <3>1. r \in ledger
      BY <2>1 DEF Enqueue, PaidRequests
    <3> QED BY <2>1, <3>1 DEF Enqueue, AddJob, QueueOK, workerVars, redisVars
  <2>2. UNCHANGED redisVars /\ UNCHANGED workerVars => PaidWork'
    BY DEF workerVars, redisVars
  <2>3. CASE Lookup(r) \/ Create(r) \/ MarkQueued(r) \/ MarkFailed(r) \/ LogUsage(r) \/ ApiCrash(r)
    BY <2>2, <2>3 DEF Lookup, Create, MarkQueued, MarkFailed, LogUsage, ApiCrash
  <2> QED BY <1>1, <2>1, <2>3 DEF RequestNext
<1>2. ASSUME NEW s \in Slots, SlotNext(s) PROVE PaidWork'
  <2>1. ASSUME NEW m \in Requests, Take(s, m) PROVE PaidWork'
    BY <2>1 DEF Take, QueueOK, SlotsOK
  <2>2. CASE ReadRow(s)
    BY <2>2 DEF ReadRow, Enter, SlotsOK, redisVars
  <2>3. CASE MarkRunning(s) \/ MarkSent(s)
    BY <2>3 DEF MarkRunning, MarkSent, Enter, SlotsOK, redisVars
  <2>4. CASE Send(s)
    BY <2>4 DEF Send, Enter, SlotsOK, SendsOK, redisVars
  <2>5. CASE Complete(s)
    BY <2>5 DEF Complete, Leave, IdleSlot, QueueOK, SlotsOK
  <2>6. CASE Retry(s)
    BY <2>6 DEF Retry, Leave, IdleSlot, QueueOK, SlotsOK
  <2>7. CASE Exhaust(s)
    BY <2>7 DEF Exhaust, Leave, IdleSlot, QueueOK, SlotsOK, HandlersOK
  <2>8. CASE EndStale(s)
    BY <2>8 DEF EndStale, Leave, IdleSlot, SlotsOK, redisVars
  <2> QED BY <1>2, <2>1, <2>2, <2>3, <2>4, <2>5, <2>6, <2>7, <2>8 DEF SlotNext
<1>3. ASSUME NEW m \in Requests, Reclaim(m) \/ Stall(m) PROVE PaidWork'
  BY <1>3 DEF Reclaim, Stall, Lapse, QueueOK, workerVars
<1>4. ASSUME NEW w, CrashOf(w), UNCHANGED <<job, sends>>, dlq' \subseteq ledger PROVE PaidWork'
  BY <1>4 DEF CrashOf, IdleSlot, SlotsOK, HandlersOK
<1>5. ASSUME NEW m \in Requests, HandlerNext(m) PROVE PaidWork'
  <2>1. CASE HandlerMarkFailed(m)
    <3>1. CASE CrashOf(handler[m].host)
      BY <1>4, <2>1, <3>1 DEF HandlerMarkFailed, redisVars
    <3>2. CASE handler' = [handler EXCEPT ![m].at = "deadLetter"] /\ UNCHANGED exec
      BY <2>1, <3>2 DEF HandlerMarkFailed, HandlersOK, redisVars
    <3> QED BY <2>1, <3>1, <3>2 DEF HandlerMarkFailed
  <2>2. CASE HandlerDeadLetter(m)
    <3>1. m \in ledger
      BY <2>2 DEF HandlerDeadLetter
    <3>2. CASE CrashOf(handler[m].host)
      BY <1>4, <2>2, <3>1, <3>2 DEF HandlerDeadLetter
    <3>3. CASE handler' = [handler EXCEPT ![m] = [at |-> "idle", host |-> Nobody]] /\ UNCHANGED <<exec, faults>>
      BY <2>2, <3>1, <3>3 DEF HandlerDeadLetter, HandlersOK
    <3> QED BY <2>2, <3>2, <3>3 DEF HandlerDeadLetter
  <2> QED BY <1>5, <2>1, <2>2 DEF HandlerNext
<1>6. ASSUME NEW w \in Workers, WorkerCrash(w) PROVE PaidWork'
  BY <1>4, <1>6 DEF WorkerCrash, redisVars
<1>7. CASE UNCHANGED vars
  BY <1>7 DEF vars, redisVars, workerVars
<1> QED BY <1>1, <1>2, <1>3, <1>5, <1>6, <1>7 DEF Next

LEMMA AlwaysPaidInv == Spec => [](TypeInv /\ PaidInv)
<1>1. TypeInv /\ PaidInv /\ [Next]_vars => PaidInv'
  BY NextKeepsPaidRows, NextKeepsPaidRequests, NextKeepsPaidWork DEF PaidInv
<1> QED BY <1>1, InitPaidInv, AlwaysTypeInv, PTL DEF Spec

(* Only messages that were paid for and stored reach the queue, a worker,  *)
(* the carrier or the dead-letter list.                                    *)
THEOREM OnlyPaidWorkHolds == Spec => []OnlyPaidWork
<1>1. TypeInv /\ PaidInv => OnlyPaidWork
  BY NobodyAssumption DEF PaidInv, PaidRows, PaidWork, TypeInv, SlotsOK, OnlyPaidWork
<1> QED BY <1>1, AlwaysPaidInv, PTL

-----------------------------------------------------------------------------
(* A user's balance and deduction rows move together.                      *)
LEMMA CommitBalances ==
  ASSUME TypeInv, LedgerBalances, NEW r \in Requests, r \notin ledger, Commit(r), UNCHANGED call
  PROVE  LedgerBalances'
<1> USE DEF TypeInv, ApiOK, DatabaseOK
<1> SUFFICES ASSUME NEW u \in Users
             PROVE  balance'[u] + Cost * Cardinality(ChargesOf(u)') = Funds[u]
  BY DEF LedgerBalances
<1>1. IsFiniteSet(ChargesOf(u)) /\ r \notin ChargesOf(u)
  BY RequestsAssumption, FS_Subset DEF ChargesOf
<1>2. Cardinality(ChargesOf(u)) \in Nat
  BY <1>1, FS_CardinalityType
<1>3. CASE u = call[r].user
  <2>1. ChargesOf(u)' = ChargesOf(u) \cup {r}
    BY <1>3 DEF ChargesOf, Commit
  <2>2. Cardinality(ChargesOf(u)') = Cardinality(ChargesOf(u)) + 1
    BY <1>1, <2>1, FS_AddElement
  <2>3. balance'[u] = balance[u] - 1 /\ balance[u] \in Nat
    BY <1>3 DEF Commit, Cost
  <2>4. balance[u] + Cardinality(ChargesOf(u)) = Funds[u]
    BY <1>2 DEF LedgerBalances, Cost
  <2> QED BY <1>2, <2>2, <2>3, <2>4 DEF Cost
<1>4. CASE u # call[r].user
  <2>1. ChargesOf(u)' = ChargesOf(u)
    BY <1>4 DEF ChargesOf, Commit
  <2>2. balance'[u] = balance[u]
    BY <1>4 DEF Commit
  <2> QED BY <2>1, <2>2 DEF LedgerBalances
<1> QED BY <1>3, <1>4

LEMMA CommitKeepsKeys ==
  ASSUME TypeInv, PaidInv, OneChargePerKey, NEW r \in Requests, Commit(r), UNCHANGED call
  PROVE  OneChargePerKey'
<1>1. \A m \in ledger : ~SameKey(r, m) /\ ~SameKey(m, r)
  BY DEF Commit, Duplicates, PaidInv, PaidRows, TypeInv, DatabaseOK, SameKey
<1> QED BY <1>1 DEF OneChargePerKey, Commit, SameKey

LEMMA AlwaysCharged == Spec => [](TypeInv /\ PaidInv /\ LedgerBalances /\ OneChargePerKey)
<1>1. Init => LedgerBalances /\ OneChargePerKey
  <2> SUFFICES ASSUME Init PROVE LedgerBalances /\ OneChargePerKey
    OBVIOUS
  <2>1. \A u \in Users : Cardinality(ChargesOf(u)) = 0
    <3>1. \A u \in Users : ChargesOf(u) = {}
      BY DEF Init, ChargesOf
    <3> QED BY <3>1, FS_EmptySet
  <2>2. \A u \in Users : balance[u] = Funds[u] /\ Funds[u] \in Nat
    BY FundsAssumption DEF Init
  <2>3. LedgerBalances
    BY <2>1, <2>2 DEF LedgerBalances, Cost
  <2> QED BY <2>3 DEF Init, OneChargePerKey
<1>2. TypeInv /\ PaidInv /\ LedgerBalances /\ OneChargePerKey /\ [Next]_vars => LedgerBalances' /\ OneChargePerKey'
  <2> SUFFICES ASSUME TypeInv, PaidInv, LedgerBalances, OneChargePerKey, [Next]_vars
               PROVE  LedgerBalances' /\ OneChargePerKey'
    OBVIOUS
  <2>1. UNCHANGED call
    BY WalletSteps
  <2>2. CASE WalletKept
    BY <2>1, <2>2 DEF WalletKept, LedgerBalances, ChargesOf, OneChargePerKey, SameKey
  <2>3. ASSUME NEW r \in Requests, pc[r] = "create", Commit(r) PROVE LedgerBalances' /\ OneChargePerKey'
    BY <2>1, <2>3, CommitBalances, CommitKeepsKeys DEF PaidInv, PaidRequests
  <2> QED BY <2>2, <2>3, WalletSteps
<1> QED BY <1>1, <1>2, AlwaysPaidInv, PTL DEF Spec

(* The balance of each user is what the user started with less one price   *)
(* per deduction row, through every fault and every interleaving.          *)
THEOREM LedgerAlwaysBalances == Spec => []LedgerBalances
  BY AlwaysCharged, PTL

(* No user pays twice for one idempotency key.                             *)
THEOREM OneChargeForAKey == Spec => []OneChargePerKey
  BY AlwaysCharged, PTL

-----------------------------------------------------------------------------
(* Replies.  What a request was told names a paid message: its own, or one *)
(* with its user and key.                                                  *)
ReplyOK(r) ==
  /\ pc[r] # "done" => reply[r] = NoReply
  /\ reply[r].code = "insufficient" => r \notin ledger
  /\ reply[r].code = "accepted" => reply[r].id = r /\ r \in ledger
  /\ reply[r].code = "replay" => r \notin ledger /\ reply[r].id \in ledger /\ SameKey(r, reply[r].id)

RepliesInv == \A r \in Requests : ReplyOK(r)

LEMMA InitRepliesInv == Init => RepliesInv
  BY DEF Init, RepliesInv, ReplyOK, NoReply

LEMMA NextKeepsRepliesInv ==
  ASSUME TypeInv, PaidInv, RepliesInv, [Next]_vars
  PROVE  RepliesInv'
<1> USE DEF RepliesInv
<1>1. UNCHANGED call /\ ledger \subseteq ledger'
  BY WalletSteps, NextKeepsPaidRows
<1>2. ASSUME NEW q \in Requests, pc'[q] = pc[q], reply'[q] = reply[q] PROVE ReplyOK(q)'
  <2>1. CASE pc[q] # "done"
    BY <1>2, <2>1 DEF ReplyOK, NoReply
  <2>2. CASE pc[q] = "done"
    <3>1. q \notin ledger => q \notin ledger'
      BY <1>2, <2>2, WalletSteps DEF WalletKept, Commit
    <3> QED BY <1>1, <1>2, <2>2, <3>1 DEF ReplyOK, SameKey
  <2> QED BY <2>1, <2>2
<1>3. ASSUME NEW r \in Requests, RequestNext(r) \/ ApiCrash(r) PROVE RepliesInv'
  <2> USE DEF TypeInv, ApiOK
  <2>1. \A q \in Requests \ {r} : pc'[q] = pc[q] /\ reply'[q] = reply[q]
    BY <1>3 DEF RequestNext, Lookup, Create, Refuse, Enqueue, MarkQueued, MarkFailed, LogUsage, ApiCrash, Goto, Answer
  <2>2. reply[r] = NoReply
    BY <1>3 DEF RequestNext, Lookup, Create, Enqueue, MarkQueued, MarkFailed, LogUsage, ApiCrash, ReplyOK
  <2>3. ASSUME NEW step, Goto(r, step) PROVE ReplyOK(r)'
    BY <2>2, <2>3 DEF Goto, ReplyOK, NoReply
  <2>4. ASSUME NEW code \in {"error", "unavailable"}, Answer(r, code, Nobody) PROVE ReplyOK(r)'
    BY <2>4 DEF Answer, ReplyOK
  <2>5. ASSUME Lookup(r) PROVE ReplyOK(r)'
    <3>1. r \notin ledger /\ UNCHANGED ledger
      BY <2>5 DEF Lookup, PaidInv, PaidRequests, dbVars
    <3>2. ASSUME NEW m \in Duplicates(r), Answer(r, "replay", m) PROVE ReplyOK(r)'
      <4>1. m \in ledger /\ SameKey(r, m)
        BY DEF Duplicates, PaidInv, PaidRows
      <4>2. SameKey(r, m)'
        BY <1>1, <4>1 DEF SameKey
      <4> QED BY <3>1, <3>2, <4>1, <4>2 DEF Answer, ReplyOK
    <3> QED BY <2>3, <2>4, <2>5, <3>2 DEF Lookup
  <2>6. ASSUME Create(r) PROVE ReplyOK(r)'
    <3>1. ASSUME Refuse(r) PROVE ReplyOK(r)'
      BY <2>6, <3>1 DEF Refuse, Answer, ReplyOK, Create, PaidInv, PaidRequests, dbVars
    <3> QED BY <2>3, <2>4, <2>6, <3>1 DEF Create
  <2>7. ASSUME LogUsage(r) PROVE ReplyOK(r)'
    <3>1. r \in ledger'
      BY <1>1, <2>7 DEF LogUsage, PaidInv, PaidRequests
    <3>2. ASSUME Answer(r, "accepted", r) PROVE ReplyOK(r)'
      BY <3>1, <3>2 DEF Answer, ReplyOK
    <3> QED BY <2>4, <2>7, <3>2 DEF LogUsage
  <2>8. ASSUME Enqueue(r) \/ MarkQueued(r) \/ MarkFailed(r) \/ ApiCrash(r) PROVE ReplyOK(r)'
    BY <2>3, <2>4, <2>8 DEF Enqueue, MarkQueued, MarkFailed, ApiCrash
  <2>9. ReplyOK(r)'
    BY <1>3, <2>5, <2>6, <2>7, <2>8 DEF RequestNext
  <2> QED BY <1>2, <2>1, <2>9
<1>4. CASE UNCHANGED <<call, pc, reply>>
  BY <1>2, <1>4
<1> QED BY <1>3, <1>4, WorkersLeaveRequests DEF Next

LEMMA AlwaysReplies == Spec => [](TypeInv /\ PaidInv /\ OneChargePerKey /\ RepliesInv)
<1>1. TypeInv /\ PaidInv /\ RepliesInv /\ [Next]_vars => RepliesInv'
  BY NextKeepsRepliesInv
<1> QED BY <1>1, InitRepliesInv, AlwaysCharged, PTL DEF Spec

(* Retries with one key are told of one message, paid for by its user.     *)
THEOREM RepliesAlwaysAgree == Spec => []RepliesAgree
<1>1. TypeInv /\ OneChargePerKey /\ RepliesInv => RepliesAgree
  <2> SUFFICES ASSUME TypeInv, OneChargePerKey, RepliesInv PROVE RepliesAgree
    OBVIOUS
  <2> DEFINE Told == {r \in Requests : reply[r].code \in {"accepted", "replay"}}
  <2>1. ASSUME NEW r \in Told
        PROVE  reply[r].id \in ledger /\ (reply[r].id = r \/ SameKey(r, reply[r].id))
    BY DEF RepliesInv, ReplyOK
  <2>2. ASSUME NEW r \in Told PROVE reply[r].id \in ChargesOf(call[r].user)
    BY <2>1 DEF ChargesOf, SameKey, TypeInv, ApiOK
  <2>3. ASSUME NEW r \in Told, NEW q \in Told, SameKey(r, q) PROVE reply[r].id = reply[q].id
    <3>1. SameKey(reply[r].id, reply[q].id)
      BY <2>1, <2>3 DEF SameKey
    <3> QED BY <2>1, <3>1 DEF OneChargePerKey
  <2> QED BY <2>2, <2>3 DEF RepliesAgree
<1> QED BY <1>1, AlwaysReplies, PTL

(* A refusal for lack of balance and a replay are free and leave no row.   *)
THEOREM RefusalsAreFree == Spec => []RefusedIsFree
<1>1. PaidInv /\ RepliesInv => RefusedIsFree
  BY DEF PaidInv, PaidRows, RepliesInv, ReplyOK, RefusedIsFree
<1> QED BY <1>1, AlwaysReplies, PTL

-----------------------------------------------------------------------------
(***************************************************************************)
(* The build the repository injects: counters without labels().  The       *)
(* transaction commits and the next line throws, so no request gets past   *)
(* it and nothing downstream of the transaction ever starts.               *)
(***************************************************************************)
NothingDownstream ==
  /\ \A m \in Requests : job[m].state = "none" /\ handler[m].at = "idle" /\ sends[m] = 0
  /\ \A s \in Slots : exec[s].at = "idle"
  /\ dlq = {}

NobodyServed ==
  \A r \in Requests :
    /\ pc[r] \in {"lookup", "create", "done"}
    /\ reply[r].code \notin {"accepted", "replay"}

ChargedIsPending == \A m \in ledger : sms[m] = "PENDING"

UnlabelledInv == NothingDownstream /\ NobodyServed /\ ChargedIsPending

LEMMA InitUnlabelledInv == Init => UnlabelledInv
  BY DEF Init, UnlabelledInv, NothingDownstream, NobodyServed, ChargedIsPending, IdleSlot, NoReply

(* No handler and no execution has anything to do.                         *)
LEMMA WorkersHaveNothing ==
  ASSUME NothingDownstream
  PROVE  /\ \A m \in Requests : ~HandlerNext(m) /\ ~Reclaim(m) /\ ~Stall(m)
         /\ \A s \in Slots : ~SlotNext(s)
<1> USE DEF NothingDownstream
<1>1. ASSUME NEW m \in Requests PROVE ~HandlerNext(m) /\ ~Reclaim(m) /\ ~Stall(m)
  BY DEF HandlerNext, HandlerMarkFailed, HandlerDeadLetter, Reclaim, Stall
<1>2. ASSUME NEW s \in Slots PROVE ~SlotNext(s)
  BY DEF SlotNext, Take, ReadRow, MarkRunning, Send, MarkSent, Complete, Retry, Exhaust, EndStale
<1> QED BY <1>1, <1>2

LEMMA UnlabelledRequest ==
  ASSUME TypeInv, ~MetricsHasLabels, UnlabelledInv, NEW r \in Requests, RequestNext(r) \/ ApiCrash(r)
  PROVE  UnlabelledInv'
<1>1. CASE Lookup(r)
  <2>1. UNCHANGED <<dbVars, redisVars, workerVars>>
    BY <1>1 DEF Lookup
  <2>2. NobodyServed'
    BY <1>1 DEF Lookup, Goto, Answer, UnlabelledInv, NobodyServed, TypeInv, ApiOK
  <2> QED BY <2>1, <2>2 DEF UnlabelledInv, NothingDownstream, ChargedIsPending, dbVars, redisVars, workerVars
<1>2. CASE Create(r)
  <2>1. UNCHANGED <<redisVars, workerVars>>
    BY <1>2 DEF Create
  <2>2. NobodyServed'
    BY <1>2 DEF Create, Refuse, Answer, UnlabelledInv, NobodyServed, TypeInv, ApiOK
  <2>3. Commit(r) \/ UNCHANGED dbVars
    BY <1>2 DEF Create, Refuse
  <2>4. ChargedIsPending'
    BY <2>3 DEF Commit, UnlabelledInv, ChargedIsPending, dbVars, TypeInv, DatabaseOK
  <2> QED BY <2>1, <2>2, <2>4 DEF UnlabelledInv, NothingDownstream, redisVars, workerVars
<1>3. CASE ApiCrash(r)
  <2>1. UNCHANGED <<dbVars, redisVars, workerVars>>
    BY <1>3 DEF ApiCrash
  <2>2. NobodyServed'
    BY <1>3 DEF ApiCrash, Goto, UnlabelledInv, NobodyServed, TypeInv, ApiOK
  <2> QED BY <2>1, <2>2 DEF UnlabelledInv, NothingDownstream, ChargedIsPending, dbVars, redisVars, workerVars
<1>4. ~Enqueue(r) /\ ~MarkQueued(r) /\ ~MarkFailed(r) /\ ~LogUsage(r)
  BY DEF Enqueue, MarkQueued, MarkFailed, LogUsage, UnlabelledInv, NobodyServed
<1> QED BY <1>1, <1>2, <1>3, <1>4 DEF RequestNext

LEMMA NextKeepsUnlabelledInv ==
  ASSUME TypeInv, ~MetricsHasLabels, UnlabelledInv, [Next]_vars
  PROVE  UnlabelledInv'
<1>1. ASSUME NEW w \in Workers, WorkerCrash(w) PROVE UnlabelledInv'
  <2>1. UNCHANGED <<dbVars, redisVars, apiVars, sends>> /\ CrashOf(w)
    BY <1>1 DEF WorkerCrash
  <2>2. NothingDownstream'
    BY <2>1 DEF CrashOf, IdleSlot, UnlabelledInv, NothingDownstream, redisVars
  <2> QED BY <2>1, <2>2 DEF UnlabelledInv, NobodyServed, ChargedIsPending, dbVars, apiVars
<1>2. CASE UNCHANGED vars
  BY <1>2 DEF vars, dbVars, redisVars, apiVars, workerVars, UnlabelledInv, NothingDownstream, NobodyServed, ChargedIsPending
<1> QED BY <1>1, <1>2, UnlabelledRequest, WorkersHaveNothing DEF Next, UnlabelledInv

LEMMA AlwaysUnlabelled == Spec => [](TypeInv /\ (MetricsHasLabels \/ UnlabelledInv))
<1>1. TypeInv /\ (MetricsHasLabels \/ UnlabelledInv) /\ [Next]_vars => (MetricsHasLabels \/ UnlabelledInv)'
  BY NextKeepsUnlabelledInv
<1> QED BY <1>1, InitUnlabelledInv, AlwaysTypeInv, PTL DEF Spec

(* In the build the repository injects no message is ever queued, sent or  *)
(* dead-lettered, no client is told of acceptance, and every message that  *)
(* was charged for stays PENDING, whatever fails: sms.service.ts:63 throws *)
(* after the commit and before the try.                                    *)
THEOREM InjectedBuildSendsNothing ==
  ASSUME ~MetricsHasLabels
  PROVE  Spec => [](/\ \A m \in Requests : job[m].state = "none" /\ sends[m] = 0
                    /\ dlq = {}
                    /\ \A r \in Requests : reply[r].code \notin {"accepted", "replay"}
                    /\ \A m \in ledger : sms[m] = "PENDING")
<1>1. MetricsHasLabels \/ UnlabelledInv
      => /\ \A m \in Requests : job[m].state = "none" /\ sends[m] = 0
         /\ dlq = {}
         /\ \A r \in Requests : reply[r].code \notin {"accepted", "replay"}
         /\ \A m \in ledger : sms[m] = "PENDING"
  BY DEF UnlabelledInv, NothingDownstream, NobodyServed, ChargedIsPending
<1> QED BY <1>1, AlwaysUnlabelled, PTL

-----------------------------------------------------------------------------
(* Every behaviour of the sending pipeline is one of the abstract wallet:  *)
(* a commit charges one message that was not charged before, and no other  *)
(* step touches balances or deductions.                                    *)
THEOREM SendingImplementsWallet == Spec => ImplementsWallet
<1> DEFINE Debits == {[user |-> call[m].user, message |-> m] : m \in ledger}
<1>1. Init => Bank!Init
  BY DEF Init, Bank!Init
<1>2. TypeInv /\ PaidInv /\ [Next]_vars => [Bank!Next]_Bank!walletVars
  <2> SUFFICES ASSUME TypeInv, PaidInv, [Next]_vars PROVE [Bank!Next]_Bank!walletVars
    OBVIOUS
  <2>1. CASE WalletKept
    BY <2>1, WalletSteps DEF WalletKept, Bank!walletVars
  <2>2. ASSUME NEW r \in Requests, pc[r] = "create", Commit(r) PROVE Bank!Next
    <3>1. r \notin ledger /\ UNCHANGED call
      BY <2>2, WalletSteps DEF PaidInv, PaidRequests
    <3>2. Debits' = Debits \cup {[user |-> call[r].user, message |-> r]}
      BY <2>2, <3>1 DEF Commit
    <3>3. r \notin Bank!Charged
      BY <3>1 DEF Bank!Charged
    <3>4. Bank!Charge(call[r].user, r)
      BY <2>2, <3>2, <3>3 DEF Commit, Bank!Charge
    <3>5. call[r].user \in Users
      BY DEF TypeInv, ApiOK
    <3> QED BY <3>4, <3>5 DEF Bank!Next
  <2> QED BY <2>1, <2>2, WalletSteps
<1> QED BY <1>1, <1>2, AlwaysPaidInv, PTL DEF Spec, ImplementsWallet, Bank!Spec

=============================================================================
