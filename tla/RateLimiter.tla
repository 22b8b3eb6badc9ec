---------------------------- MODULE RateLimiter ----------------------------
(***************************************************************************)
(* Limiting requests with counters in Redis.                               *)
(*                                                                         *)
(*   - GlobalThrottleGuard and ApiKeyRateLimitGuard run one after the      *)
(*     other before a handler, in every API process.  Each calls           *)
(*     RateLimitService.consume with its key and its limit.                *)
(*   - RedisService.incrementWithExpiry counts with INCR and, when the     *)
(*     count is 1, sets the window with EXPIRE: two commands, between      *)
(*     which others run.                                                   *)
(*   - sendCommandWithRetry repeats a command whose answer it did not      *)
(*     get.  sendCommand reads the answer only when the server closes the  *)
(*     connection; when it does not, the command has taken effect and the  *)
(*     call times out.                                                     *)
(***************************************************************************)
EXTENDS Integers, Sequences

CONSTANTS
  Keys,            (* counters: of addresses and of API keys               *)
  Requests,        (* clients, each with one request at a time             *)
  Route,           (* the keys of each client's guards, in their order     *)
  Limit,           (* the limit of each key                                *)
  Cap,             (* counts are told apart up to this one                 *)
  ServerHangsUp,   (* the server closes the connection after its answer    *)
  FaultKinds,      (* "redis", "crash"                                     *)
  MaxFaults        (* bound on the faults of a behaviour                   *)

ASSUME KeysAssumption ==
  /\ Route \in [Requests -> Seq(Keys) \ {<<>>}]
  /\ Limit \in [Keys -> Nat \ {0}]

ASSUME CapAssumption == Cap \in Nat /\ \A k \in Keys : Limit[k] < Cap

ASSUME FaultsAssumption == ServerHangsUp \in BOOLEAN /\ MaxFaults \in Nat

VARIABLES
  count,      (* the counter of each key, 0 when Redis has none            *)
  expiring,   (* the keys with a time to live                              *)
  granted,    (* requests a key's counter let pass in its present life     *)
  request,    (* where each client's request stands                        *)
  uncounted,  (* requests some guard let pass because consume threw        *)
  faults      (* faults so far                                             *)

vars == <<count, expiring, granted, request, uncounted, faults>>

(* sendCommandWithRetry gives a command three tries.                       *)
Tries == 3

Idle == [at |-> "idle", guard |-> 1, try |-> 1]

Steps == [at : {"idle", "incr", "expire"}, guard : Nat \ {0}, try : 1..Tries]

TypeOK ==
  /\ count \in [Keys -> 0..Cap]
  /\ expiring \subseteq Keys
  /\ granted \in [Keys -> Nat]
  /\ request \in [Requests -> Steps]
  /\ \A r \in Requests : request[r].guard <= Len(Route[r])
  /\ uncounted \subseteq Requests
  /\ faults \in 0..MaxFaults

Key(r) == Route[r][request[r].guard]

(* The bound on faults: each one is of a kind the run allows.              *)
Fault(kind) ==
  /\ kind \in FaultKinds
  /\ faults < MaxFaults
  /\ faults' = faults + 1

-----------------------------------------------------------------------------
(* RateLimitService.consume                                                *)

(* Mutated form: one request too many.                                     *)
AllowsOver(k, n) == n <= Limit[k] + 1

Allows(k, n) == n <= Limit[k]

(* The guard returns true: the next guard, or the handler.                 *)
Pass(r) ==
  request' = [request EXCEPT ![r] =
    IF @.guard < Len(Route[r]) THEN [at |-> "incr", guard |-> @.guard + 1, try |-> 1] ELSE Idle]

(* The guard throws 429.                                                   *)
Refuse(r) == request' = [request EXCEPT ![r] = Idle]

TryAgain(r) == request' = [request EXCEPT ![r].try = @ + 1] /\ UNCHANGED uncounted

PassUncounted(r) == Pass(r) /\ uncounted' = uncounted \cup {r}

(* Mutated form: the last try is followed by another.                      *)
UnansweredAgain(r) == IF request[r].try <= Tries THEN TryAgain(r) ELSE PassUncounted(r)

(* No answer: try again, and after the last try consume lets it pass.      *)
Unanswered(r) == IF request[r].try < Tries THEN TryAgain(r) ELSE PassUncounted(r)

-----------------------------------------------------------------------------
(* RedisService.incrementWithExpiry                                        *)

(* Mutated forms: every call within the limit sets the time to live, or    *)
(* none does.                                                              *)
FirstAny(k, n) == Allows(k, n)

FirstNone(k, n) == n = 0

First(k, n) == n = 1

Begin(r) ==
  /\ request[r].at = "idle"
  /\ request' = [request EXCEPT ![r] = [Idle EXCEPT !.at = "incr"]]
  /\ uncounted' = uncounted \ {r}
  /\ UNCHANGED <<count, expiring, granted, faults>>

Bumped(k) == IF count[k] < Cap THEN count[k] + 1 ELSE Cap

Increment(k) == count' = [count EXCEPT ![k] = Bumped(k)]

Grant(k) == granted' = [granted EXCEPT ![k] = @ + 1]

(* INCR is answered with the count.                                        *)
IncrAnswered(r) ==
  LET k == Key(r) IN
  /\ Increment(k)
  /\ IF Allows(k, Bumped(k)) THEN Grant(k) ELSE UNCHANGED granted
  /\ \/ /\ First(k, Bumped(k))
        /\ request' = [request EXCEPT ![r] = [at |-> "expire", guard |-> @.guard, try |-> 1]]
     \/ ~First(k, Bumped(k)) /\ Allows(k, Bumped(k)) /\ Pass(r)
     \/ ~First(k, Bumped(k)) /\ ~Allows(k, Bumped(k)) /\ Refuse(r)

Incr(r) ==
  /\ request[r].at = "incr"
  /\ \/ ServerHangsUp /\ IncrAnswered(r) /\ UNCHANGED <<uncounted, faults>>
     \/ ~ServerHangsUp /\ Increment(Key(r)) /\ Unanswered(r) /\ UNCHANGED <<granted, faults>>
     \/ Fault("redis") /\ (Increment(Key(r)) \/ UNCHANGED count) /\ Unanswered(r) /\ UNCHANGED granted
  /\ UNCHANGED expiring

(* EXPIRE does nothing to a key that is gone.                              *)
SetExpiry(k) == expiring' = IF count[k] > 0 THEN expiring \cup {k} ELSE expiring

Expire(r) ==
  /\ request[r].at = "expire"
  /\ \/ ServerHangsUp /\ SetExpiry(Key(r)) /\ Pass(r) /\ UNCHANGED <<uncounted, faults>>
     \/ ~ServerHangsUp /\ SetExpiry(Key(r)) /\ Unanswered(r) /\ UNCHANGED faults
     \/ Fault("redis") /\ (SetExpiry(Key(r)) \/ UNCHANGED expiring) /\ Unanswered(r)
  /\ UNCHANGED <<count, granted>>

(* The window ends: Redis drops the key.                                   *)
Forget(k) ==
  /\ k \in expiring
  /\ expiring' = expiring \ {k}
  /\ count'    = [count EXCEPT ![k] = 0]
  /\ granted'  = [granted EXCEPT ![k] = 0]
  /\ UNCHANGED <<request, uncounted, faults>>

(* The API process dies and the request with it.                           *)
Crash(r) ==
  /\ request[r].at # "idle"
  /\ Fault("crash")
  /\ request' = [request EXCEPT ![r] = Idle]
  /\ UNCHANGED <<count, expiring, granted, uncounted>>

-----------------------------------------------------------------------------
Init ==
  /\ count    = [k \in Keys |-> 0]
  /\ expiring = {}
  /\ granted  = [k \in Keys |-> 0]
  /\ request  = [r \in Requests |-> Idle]
  /\ uncounted = {}
  /\ faults   = 0

RequestNext(r) == Incr(r) \/ Expire(r)

Next ==
  \/ \E r \in Requests : Begin(r) \/ RequestNext(r) \/ Crash(r)
  \/ \E k \in Keys : Forget(k)

Spec == Init /\ [][Next]_vars

(* A process that is up runs its requests, and a window ends.              *)
Fairness ==
  /\ \A r \in Requests : WF_vars(RequestNext(r))
  /\ \A k \in Keys : WF_vars(Forget(k))

FairSpec == Spec /\ Fairness

-----------------------------------------------------------------------------
(* However calls interleave, get lost and are repeated, a key's counter    *)
(* lets no more requests pass in one life of the key than its limit.       *)
GrantsWithinLimit ==
  \A k \in Keys : granted[k] <= Limit[k]

(* The requests between their INCR and their EXPIRE of a key.              *)
Setters(k) == {r \in Requests : request[r].at = "expire" /\ Key(r) = k}

(* Without faults each life of a key gets one time to live: it is set, or  *)
(* one request is about to set it.  No counter is immortal and no later    *)
(* request prolongs the window.                                            *)
OneExpiryPerWindow ==
  faults = 0 =>
    \A k \in Keys :
      /\ count[k] > 0 /\ k \notin expiring => Setters(k) # {}
      /\ Setters(k) # {} => count[k] > 0 /\ k \notin expiring
      /\ \A r, q \in Setters(k) : r = q

(* A key over its limit is usable again in time, unless something fails.   *)
RefusalsEnd ==
  \A k \in Keys : count[k] > Limit[k] ~> count[k] = 0 \/ faults > 0

-----------------------------------------------------------------------------
(* What the comments say                                                   *)

(* rate-limit.service.ts:13: consume lets a request pass uncounted only in *)
(* an infrastructure outage.                                               *)
OpenOnlyInOutage ==
  uncounted # {} => faults > 0

=============================================================================
