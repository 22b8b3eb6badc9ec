---------------------------- MODULE ReplayWindow ----------------------------
(***************************************************************************)
(* How the payment webhook recognises a call it has seen, in time.         *)
(*                                                                         *)
(* PaymentsService.ingestWebhook starts with two checks of the headers.    *)
(* validateWebhookReplay looks at the time stamp and counts the nonce with *)
(* INCR and, for the first, EXPIRE; it does nothing without a nonce.       *)
(* WebhookReplayProtectionService.validate looks at the time stamp again   *)
(* and claims a key with SET NX EX.  Redis forgets both keys after a time. *)
(* PaymentWebhooks has what comes after, with no clock.                    *)
(*                                                                         *)
(* A second is a unit of the clock.  Each action is one Redis command and  *)
(* what the code computes after its answer.                                *)
(***************************************************************************)
EXTENDS Integers

CONSTANTS
  Deliveries,  (* calls of ingestWebhook                                   *)
  Notices,     (* what a provider sends, once or more often                *)
  Provider,    (* of each notice                                           *)
  Stamp,       (* x-webhook-timestamp of each notice                       *)
  Nonce,       (* x-webhook-nonce of each notice, None or Empty            *)
  None,        (* the header is absent                                     *)
  Empty,       (* the header is there with no text: falsy, yet not nullish *)
  Env,         (* the numeric environment variables that are set           *)
  Lag,         (* how long a command and its repetitions may take, and the *)
               (* second that rounding the clock hides                     *)
  MaxTime,     (* bound on the clock                                       *)
  MaxFaults    (* bound on lost commands and crashes                       *)

(* A nonce that the first check counts: `if (!nonce) return`.              *)
HasNonce(n) == Nonce[n] \notin {None, Empty}

Nonces == {Nonce[n] : n \in {m \in Notices : HasNonce(m)}}

(* A fingerprint is nobody's nonce, and the empty one is a text.           *)
ASSUME NoticesAssumption ==
  /\ Stamp \in [Notices -> Nat]
  /\ None \notin Notices
  /\ None # Empty
  /\ (Nonces \cup {Empty}) \cap Notices = {}

ASSUME EnvAssumption == \A name \in DOMAIN Env : Env[name] \in Nat

ASSUME LimitsAssumption == Lag \in Nat /\ MaxTime \in Nat /\ MaxFaults \in Nat

-----------------------------------------------------------------------------
(* AppConfigService and parseEnv                                           *)

num(name, fallback) == IF name \in DOMAIN Env THEN Env[name] ELSE fallback

(* The third key is there twice; the first time its fallback is 600.       *)
parseEnv ==
  [WEBHOOK_TIMESTAMP_TOLERANCE_SECONDS |-> num("WEBHOOK_TIMESTAMP_TOLERANCE_SECONDS", 300),
   WEBHOOK_MAX_DRIFT_SECONDS           |-> num("WEBHOOK_MAX_DRIFT_SECONDS", 300),
   WEBHOOK_NONCE_TTL_SECONDS           |-> num("WEBHOOK_NONCE_TTL_SECONDS", 900)]

Tolerance == parseEnv.WEBHOOK_TIMESTAMP_TOLERANCE_SECONDS

MaxDrift == parseEnv.WEBHOOK_MAX_DRIFT_SECONDS

Ttl == parseEnv.WEBHOOK_NONCE_TTL_SECONDS

(* The keys outlive the time in which a notice may pass.                   *)
ASSUME TtlAssumption == Ttl > 2 * MaxDrift + Lag

-----------------------------------------------------------------------------
VARIABLES
  now,      (* the clock of the servers and of Redis                       *)
  call,     (* each delivery: where it stands, its notice, when its time   *)
            (* stamp was last looked at                                    *)
  counts,   (* the counter of each nonce and when it expires               *)
  claims,   (* when the key of each claim expires                          *)
  faults    (* faults so far                                               *)

vars == <<now, call, counts, claims, faults>>

Pending == {"count", "expire", "claim"}

Answers == {"passed", "drift", "replay", "error"}

(* No EXPIRE was given.                                                    *)
Never == -1

NoCounter == [count |-> 0, until |-> Never]

NoCall == [at |-> "new", notice |-> None, checked |-> 0]

(* Mutated form: an empty nonce is none, and the fingerprint leaves out    *)
(* the body.                                                               *)
KeyOfProvider(n) == <<Provider[n], IF HasNonce(n) THEN Nonce[n] ELSE None>>

(* The key of a claim: the provider, and the nonce or, with no header, a   *)
(* fingerprint of the notice.  `??` takes the empty nonce for a nonce.     *)
KeyOf(n) == <<Provider[n], IF Nonce[n] = None THEN n ELSE Nonce[n]>>

Keys == {KeyOf(n) : n \in Notices}

TypeOK ==
  /\ now \in 0..MaxTime
  /\ call \in [Deliveries -> [at : {"new"} \cup Pending \cup Answers, notice : Notices \cup {None}, checked : 0..MaxTime]]
  /\ \A d \in Deliveries :
       /\ call[d].at # "new" => call[d].notice \in Notices
       /\ call[d].at \in {"count", "expire"} => HasNonce(call[d].notice)
       /\ call[d].checked <= now
  /\ counts \in [Nonces -> [count : 0..2, until : Nat \cup {Never}]]
  /\ claims \in [Keys -> Nat]
  /\ faults \in 0..MaxFaults

NoticeOf(d) == call[d].notice

(* The bound on faults.                                                    *)
Fault == faults < MaxFaults /\ faults' = faults + 1

Place(d, step) == call' = [call EXCEPT ![d] = [at |-> step, notice |-> @.notice, checked |-> now]]

(* Mutated form: a time stamp that lies ahead is taken.                    *)
WithinPast(n, limit) == now - Stamp[n] <= limit

Within(n, limit) == now - Stamp[n] <= limit /\ Stamp[n] - now <= limit

-----------------------------------------------------------------------------
(* PaymentsService.validateWebhookReplay                                   *)

(* Without a nonce the second check follows at once.                       *)
Deliver(d, n) ==
  LET step == IF HasNonce(n)
              THEN IF Within(n, Tolerance) THEN "count" ELSE "drift"
              ELSE IF Within(n, MaxDrift) THEN "claim" ELSE "drift" IN
  /\ call[d].at = "new"
  /\ call' = [call EXCEPT ![d] = [at |-> step, notice |-> n, checked |-> now]]
  /\ UNCHANGED <<now, counts, claims, faults>>

(* The second check: its time stamp, before its claim.                     *)
CheckDrift(d) == Place(d, IF Within(NoticeOf(d), MaxDrift) THEN "claim" ELSE "drift")

Counter(k) == IF counts[k].until # Never /\ counts[k].until <= now THEN NoCounter ELSE counts[k]

Counted(k) == [count |-> IF Counter(k).count = 0 THEN 1 ELSE 2, until |-> Counter(k).until]

(* Mutated form: the second call, not the first, sets the time to live.    *)
CountLate(d) ==
  LET k == Nonce[NoticeOf(d)] IN
  /\ call[d].at = "count"
  /\ counts' = [counts EXCEPT ![k] = Counted(k)]
  /\ IF Counted(k).count = 1 THEN CheckDrift(d) ELSE Place(d, "replay")
  /\ UNCHANGED <<now, claims, faults>>

(* INCR.  More than one is counted as two.  When an answer is lost the     *)
(* command is repeated and counts itself.                                  *)
Count(d) ==
  LET k == Nonce[NoticeOf(d)] IN
  /\ call[d].at = "count"
  /\ \/ /\ counts' = [counts EXCEPT ![k] = Counted(k)]
        /\ Place(d, IF Counted(k).count = 1 THEN "expire" ELSE "replay")
        /\ UNCHANGED faults
     \/ /\ Fault
        /\ counts' = [counts EXCEPT ![k] = [count |-> 2, until |-> Counter(k).until]]
        /\ Place(d, "replay")
  /\ UNCHANGED <<now, claims>>

(* EXPIRE, then the second check.                                          *)
Expire(d) ==
  /\ call[d].at = "expire"
  /\ counts' = [counts EXCEPT ![Nonce[NoticeOf(d)]].until = now + Ttl]
  /\ CheckDrift(d)
  /\ UNCHANGED <<now, claims, faults>>

-----------------------------------------------------------------------------
(* WebhookReplayProtectionService.validate                                 *)

(* SET NX EX.  When its answer is lost it is repeated, and finds itself.   *)
Claim(d) ==
  LET k == KeyOf(NoticeOf(d))
      claimed == claims' = [claims EXCEPT ![k] = now + Ttl] IN
  /\ call[d].at = "claim"
  /\ \/ claims[k] <= now /\ claimed /\ Place(d, "passed") /\ UNCHANGED faults
     \/ claims[k] > now /\ Place(d, "replay") /\ UNCHANGED <<claims, faults>>
     \/ Fault /\ claims[k] <= now /\ claimed /\ Place(d, "replay")
  /\ UNCHANGED <<now, counts>>

-----------------------------------------------------------------------------
(* The process dies, or a command fails for good, done or not: the nonce   *)
(* may be counted and never given its time to live.                        *)
Fail(d) ==
  /\ call[d].at \in Pending
  /\ Fault
  /\ Place(d, "error")
  /\ \/ UNCHANGED <<counts, claims>>
     \/ call[d].at = "count" /\ UNCHANGED claims /\ counts' = [counts EXCEPT ![Nonce[NoticeOf(d)]] = Counted(Nonce[NoticeOf(d)])]
     \/ call[d].at = "expire" /\ UNCHANGED claims /\ counts' = [counts EXCEPT ![Nonce[NoticeOf(d)]].until = now + Ttl]
     \/ /\ call[d].at = "claim"
        /\ claims[KeyOf(NoticeOf(d))] <= now
        /\ claims' = [claims EXCEPT ![KeyOf(NoticeOf(d))] = now + Ttl]
        /\ UNCHANGED counts
  /\ UNCHANGED now

(* A command is answered, or given up, within Lag.                         *)
Tick ==
  /\ now < MaxTime
  /\ \A d \in Deliveries : call[d].at \in Pending => now < call[d].checked + Lag
  /\ now' = now + 1
  /\ UNCHANGED <<call, counts, claims, faults>>

Init ==
  /\ now    = 0
  /\ call   = [d \in Deliveries |-> NoCall]
  /\ counts = [k \in Nonces |-> NoCounter]
  /\ claims = [k \in Keys |-> 0]
  /\ faults = 0

DeliveryNext(d) == Count(d) \/ Expire(d) \/ Claim(d) \/ Fail(d)

Finished == now = MaxTime /\ \A d \in Deliveries : call[d].at \in Answers

Next ==
  \/ \E d \in Deliveries : DeliveryNext(d) \/ \E n \in Notices : Deliver(d, n)
  \/ Tick
  \/ Finished /\ UNCHANGED vars

Spec == Init /\ [][Next]_vars

-----------------------------------------------------------------------------
(* No notice passes twice: when Redis forgets its key its time stamp is    *)
(* too old, however the deliveries overlap and whatever is repeated.       *)
NoReplay ==
  \A d, e \in Deliveries :
    d # e /\ call[d].at = "passed" /\ call[e].at = "passed" => NoticeOf(d) # NoticeOf(e)

(* A counter without a time to live is about to be given one, unless a     *)
(* command or a process failed between INCR and EXPIRE.                    *)
CountersExpire ==
  \A k \in Nonces :
    counts[k].count > 0 /\ counts[k].until = Never =>
      faults > 0 \/ \E d \in Deliveries : call[d].at = "expire" /\ Nonce[NoticeOf(d)] = k

(* A delivery refused as a replay had a predecessor: another one with its  *)
(* nonce, or, without a nonce, of the same notice.  Only a command that    *)
(* was repeated mistakes itself for one.                                   *)
ReplayIsReal ==
  \A d \in Deliveries :
    call[d].at = "replay" =>
      \/ faults > 0
      \/ \E e \in Deliveries \ {d} :
           /\ call[e].at \notin {"new", "count"}
           /\ \/ NoticeOf(e) = NoticeOf(d)
              \/ Nonce[NoticeOf(d)] # None /\ Nonce[NoticeOf(e)] = Nonce[NoticeOf(d)]

=============================================================================
