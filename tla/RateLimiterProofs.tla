------------------------- MODULE RateLimiterProofs -------------------------
(* What RateLimiter guarantees for every number of clients, keys, guards,  *)
(* limits and faults.                                                      *)
EXTENDS RateLimiter, TLAPS

-----------------------------------------------------------------------------
(* Types                                                                   *)

LEMMA KeyInKeys ==
  ASSUME TypeOK, NEW r \in Requests
  PROVE  Key(r) \in Keys /\ Len(Route[r]) \in Nat \ {0}
<1>1. Route[r] \in Seq(Keys) /\ Route[r] # <<>>
  BY KeysAssumption
<1>2. request[r].guard \in 1..Len(Route[r])
  BY DEF TypeOK, Steps
<1>3. QED
  BY <1>1, <1>2 DEF Key

LEMMA BumpedCount ==
  ASSUME TypeOK, NEW k \in Keys
  PROVE  Bumped(k) \in 1..Cap
BY CapAssumption, KeysAssumption DEF TypeOK, Bumped

LEMMA PlacedTyped ==
  ASSUME TypeOK, NEW r \in Requests, NEW s \in Steps, s.guard <= Len(Route[r]),
         request' = [request EXCEPT ![r] = s]
  PROVE  request' \in [Requests -> Steps] /\ \A q \in Requests : request'[q].guard <= Len(Route[q])
BY DEF TypeOK

LEMMA StepsTyped ==
  ASSUME TypeOK, NEW r \in Requests, Pass(r) \/ Unanswered(r) \/ Refuse(r)
  PROVE  request' \in [Requests -> Steps] /\ \A q \in Requests : request'[q].guard <= Len(Route[q])
<1>1. Len(Route[r]) \in Nat \ {0} /\ request[r] \in Steps /\ request[r].guard <= Len(Route[r])
  BY KeyInKeys DEF TypeOK
<1>2. Idle \in Steps /\ Idle.guard <= Len(Route[r])
  BY <1>1 DEF Idle, Steps, Tries
<1>3. CASE Pass(r)
  <2>1. CASE request[r].guard < Len(Route[r])
    <3> DEFINE s == [at |-> "incr", guard |-> request[r].guard + 1, try |-> 1]
    <3>1. s \in Steps /\ s.guard <= Len(Route[r])
      BY <1>1, <2>1 DEF Steps, Tries
    <3>2. request' = [request EXCEPT ![r] = s]
      BY <1>3, <2>1 DEF Pass
    <3>3. QED
      BY <3>1, <3>2, PlacedTyped
  <2>2. CASE ~(request[r].guard < Len(Route[r]))
    <3>1. request' = [request EXCEPT ![r] = Idle]
      BY <1>3, <2>2 DEF Pass
    <3>2. QED
      BY <1>2, <3>1, PlacedTyped
  <2>3. QED
    BY <2>1, <2>2
<1>4. CASE Unanswered(r)
  <2>1. CASE request[r].try < Tries
    <3> DEFINE s == [request[r] EXCEPT !.try = @ + 1]
    <3>1. s \in Steps /\ s.guard <= Len(Route[r])
      BY <1>1, <2>1 DEF Steps, Tries
    <3>2. request' = [request EXCEPT ![r] = s]
      BY <1>4, <2>1 DEF Unanswered, TryAgain
    <3>3. QED
      BY <3>1, <3>2, PlacedTyped
  <2>2. CASE ~(request[r].try < Tries)
    BY <1>3, <1>4, <2>2 DEF Unanswered, PassUncounted
  <2>3. QED
    BY <2>1, <2>2
<1>5. CASE Refuse(r)
  BY <1>2, <1>5, PlacedTyped DEF Refuse
<1>6. QED
  BY <1>3, <1>4, <1>5

LEMMA FaultCounted ==
  ASSUME TypeOK, NEW kind, Fault(kind)
  PROVE  faults' \in 0..MaxFaults /\ faults' > 0
BY FaultsAssumption DEF TypeOK, Fault

(* The type invariant of RateLimiter, for any clients, routes and limits:  *)
(* a request never runs past its guards or its tries.                      *)
THEOREM TypeCorrect == Spec => []TypeOK
<1>1. Init => TypeOK
  <2>1. \A r \in Requests : Len(Route[r]) \in Nat \ {0}
    BY KeysAssumption
  <2>2. QED
    BY <2>1, CapAssumption, FaultsAssumption DEF Init, TypeOK, Idle, Steps, Tries
<1>2. TypeOK /\ [Next]_vars => TypeOK'
  <2> SUFFICES ASSUME TypeOK, [Next]_vars
               PROVE  TypeOK'
    OBVIOUS
  <2>1. ASSUME NEW r \in Requests, Begin(r)
        PROVE  TypeOK'
    <3> DEFINE s == [Idle EXCEPT !.at = "incr"]
    <3>1. Len(Route[r]) \in Nat \ {0}
      BY KeyInKeys
    <3>2. s \in Steps /\ s.guard <= Len(Route[r])
      BY <3>1 DEF Idle, Steps, Tries
    <3>3. request' \in [Requests -> Steps] /\ \A q \in Requests : request'[q].guard <= Len(Route[q])
      BY <2>1, <3>2, PlacedTyped DEF Begin
    <3>4. QED
      BY <2>1, <3>3 DEF Begin, TypeOK
  <2>2. ASSUME NEW r \in Requests, Incr(r)
        PROVE  TypeOK'
    <3>1. Key(r) \in Keys /\ Bumped(Key(r)) \in 1..Cap
      BY KeyInKeys, BumpedCount
    <3>2. count' \in [Keys -> 0..Cap]
      <4>1. Increment(Key(r)) \/ UNCHANGED count
        BY <2>2 DEF Incr, IncrAnswered
      <4>2. \A k \in Keys : \A n \in 0..Cap : [count EXCEPT ![k] = n] \in [Keys -> 0..Cap]
        BY DEF TypeOK
      <4>3. Bumped(Key(r)) \in 0..Cap /\ count \in [Keys -> 0..Cap]
        BY <3>1, CapAssumption DEF TypeOK
      <4>4. QED
        BY <3>1, <4>1, <4>2, <4>3 DEF Increment
    <3>3. granted' \in [Keys -> Nat]
      <4>1. Grant(Key(r)) \/ UNCHANGED granted
        BY <2>2 DEF Incr, IncrAnswered
      <4>2. QED
        BY <3>1, <4>1 DEF Grant, TypeOK
    <3>4. request' \in [Requests -> Steps] /\ \A q \in Requests : request'[q].guard <= Len(Route[q])
      <4>1. CASE request' = [request EXCEPT ![r] = [at |-> "expire", guard |-> @.guard, try |-> 1]]
        <5> DEFINE s == [at |-> "expire", guard |-> request[r].guard, try |-> 1]
        <5>1. request[r] \in Steps /\ request[r].guard <= Len(Route[r])
          BY DEF TypeOK
        <5>2. s \in Steps /\ s.guard <= Len(Route[r])
          BY <5>1 DEF Steps, Tries
        <5>3. request' = [request EXCEPT ![r] = s]
          BY <4>1
        <5>4. QED
          BY <5>2, <5>3, PlacedTyped
      <4>2. CASE Pass(r) \/ Refuse(r) \/ Unanswered(r)
        BY <4>2, StepsTyped
      <4>3. QED
        BY <2>2, <4>1, <4>2 DEF Incr, IncrAnswered
    <3>5. faults' \in 0..MaxFaults
      BY <2>2, FaultCounted DEF Incr, TypeOK
    <3>6. uncounted' \subseteq Requests /\ expiring' \subseteq Keys
      BY <2>2 DEF Incr, Unanswered, TryAgain, PassUncounted, TypeOK
    <3>7. QED
      BY <3>2, <3>3, <3>4, <3>5, <3>6 DEF TypeOK
  <2>3. ASSUME NEW r \in Requests, Expire(r)
        PROVE  TypeOK'
    <3>1. Key(r) \in Keys
      BY KeyInKeys
    <3>2. expiring' \subseteq Keys
      BY <2>3, <3>1 DEF Expire, SetExpiry, TypeOK
    <3>3. request' \in [Requests -> Steps] /\ \A q \in Requests : request'[q].guard <= Len(Route[q])
      BY <2>3, StepsTyped DEF Expire
    <3>4. faults' \in 0..MaxFaults
      BY <2>3, FaultCounted DEF Expire, TypeOK
    <3>5. uncounted' \subseteq Requests
      BY <2>3 DEF Expire, Unanswered, TryAgain, PassUncounted, TypeOK
    <3>6. UNCHANGED <<count, granted>>
      BY <2>3 DEF Expire
    <3>7. QED
      BY <3>2, <3>3, <3>4, <3>5, <3>6 DEF TypeOK
  <2>4. ASSUME NEW r \in Requests, Crash(r)
        PROVE  TypeOK'
    <3>1. Len(Route[r]) \in Nat \ {0}
      BY KeyInKeys
    <3>2. faults' \in 0..MaxFaults
      BY <2>4, FaultCounted DEF Crash
    <3>3. QED
      BY <2>4, <3>1, <3>2 DEF Crash, TypeOK, Idle, Steps, Tries
  <2>5. ASSUME NEW k \in Keys, Forget(k)
        PROVE  TypeOK'
    BY <2>5, CapAssumption DEF Forget, TypeOK
  <2>6. CASE UNCHANGED vars
    BY <2>6 DEF vars, TypeOK
  <2>7. QED
    BY <2>1, <2>2, <2>3, <2>4, <2>5, <2>6 DEF Next, RequestNext
<1>3. QED
  BY <1>1, <1>2, PTL DEF Spec

-----------------------------------------------------------------------------
(* Grants                                                                  *)

(* INCR makes the count of every grant a new one, so that a key never      *)
(* granted more than it counted.                                           *)
GrantsInv ==
  \A k \in Keys : granted[k] <= count[k] /\ granted[k] <= Limit[k]

LEMMA NextKeepsGrantsInv == TypeOK /\ GrantsInv /\ [Next]_vars => GrantsInv'
<1> SUFFICES ASSUME TypeOK, GrantsInv, [Next]_vars
             PROVE  GrantsInv'
  OBVIOUS
<1>1. ASSUME NEW r \in Requests, Incr(r)
      PROVE  GrantsInv'
  <2> DEFINE k == Key(r)
  <2>1. k \in Keys /\ Bumped(k) \in 1..Cap /\ Limit[k] \in Nat \ {0} /\ Limit[k] < Cap /\ Cap \in Nat
    BY KeyInKeys, BumpedCount, KeysAssumption, CapAssumption
  <2>2. count[k] \in 0..Cap /\ granted[k] \in Nat /\ count[k] <= Bumped(k)
    BY <2>1, CapAssumption DEF TypeOK, Bumped
  <2>3. Allows(k, Bumped(k)) => Bumped(k) = count[k] + 1
    BY <2>1, <2>2 DEF Allows, Bumped
  <2>4. \A j \in Keys : count[j] \in Nat /\ granted[j] \in Nat
    BY CapAssumption DEF TypeOK
  <2>5. CASE UNCHANGED granted /\ (Increment(k) \/ UNCHANGED count)
    BY <2>1, <2>2, <2>4, <2>5 DEF Increment, GrantsInv, TypeOK
  <2>6. CASE Increment(k) /\ Allows(k, Bumped(k)) /\ Grant(k)
    BY <2>1, <2>2, <2>3, <2>4, <2>6 DEF Increment, Grant, Allows, GrantsInv, TypeOK
  <2>7. QED
    BY <1>1, <2>5, <2>6 DEF Incr, IncrAnswered
<1>2. ASSUME NEW k \in Keys, Forget(k)
      PROVE  GrantsInv'
  <2>1. \A j \in Keys : Limit[j] \in Nat
    BY KeysAssumption
  <2>2. QED
    BY <1>2, <2>1 DEF Forget, GrantsInv, TypeOK
<1>3. CASE UNCHANGED <<count, granted>>
  BY <1>3 DEF GrantsInv
<1>4. QED
  BY <1>1, <1>2, <1>3 DEF Next, RequestNext, Begin, Expire, Crash, vars

(* GrantsWithinLimit for any number of clients, and with any losses and    *)
(* repetitions of commands.                                                *)
THEOREM LimitHolds == Spec => []GrantsWithinLimit
<1>1. Init => GrantsInv
  <2>1. \A j \in Keys : Limit[j] \in Nat
    BY KeysAssumption
  <2>2. Init => \A j \in Keys : granted[j] = 0 /\ count[j] = 0
    BY DEF Init
  <2>3. QED
    BY <2>1, <2>2 DEF GrantsInv
<1>2. GrantsInv => GrantsWithinLimit
  BY DEF GrantsInv, GrantsWithinLimit
<1>3. QED
  BY <1>1, <1>2, TypeCorrect, NextKeepsGrantsInv, PTL DEF Spec

-----------------------------------------------------------------------------
(* The server as it is deployed                                            *)

(* A server that keeps the connection open leaves every command            *)
(* unanswered: no request comes as far as its EXPIRE.                      *)
StockInv ==
  /\ expiring = {}
  /\ \A k \in Keys : granted[k] = 0
  /\ \A r \in Requests : request[r].at # "expire"

LEMMA UnansweredStays ==
  ASSUME TypeOK, NEW r \in Requests, request[r].at = "incr", Unanswered(r)
  PROVE  /\ \A q \in Requests \ {r} : request'[q] = request[q]
         /\ request'[r].at \in {"idle", "incr"}
         /\ request'[r].at = "idle" => r \in uncounted'
<1>1. request[r] \in Steps
  BY DEF TypeOK
<1>2. CASE request[r].try < Tries
  <2> DEFINE s == [request[r] EXCEPT !.try = request[r].try + 1]
  <2>1. request' = [request EXCEPT ![r] = s]
    BY <1>2 DEF Unanswered, TryAgain
  <2>2. s.at = "incr"
    BY <1>1 DEF Steps
  <2> HIDE DEF s
  <2> QED BY <2>1, <2>2 DEF TypeOK
<1>3. CASE ~(request[r].try < Tries)
  BY <1>3 DEF Unanswered, PassUncounted, Pass, Idle, TypeOK
<1> QED BY <1>2, <1>3

LEMMA NextKeepsStockInv ==
  ASSUME ~ServerHangsUp, TypeOK, StockInv, [Next]_vars
  PROVE  /\ StockInv'
         /\ \A k \in Keys : count[k] <= count'[k]
         /\ \A r \in Requests : request[r].at # "idle" /\ request'[r].at = "idle" => r \in uncounted' \/ faults' > faults
<1>0. \A k \in Keys : count[k] \in Nat
  BY CapAssumption DEF TypeOK
<1>1. ASSUME NEW r \in Requests, Begin(r)
      PROVE  /\ StockInv' /\ count' = count
             /\ \A q \in Requests : request'[q].at = request[q].at \/ request'[q].at = "incr"
  BY <1>1 DEF Begin, Idle, StockInv, TypeOK
<1>2. ASSUME NEW r \in Requests, Incr(r)
      PROVE  /\ StockInv'
             /\ \A k \in Keys : count[k] <= count'[k]
             /\ \A q \in Requests : request[q].at # "idle" /\ request'[q].at = "idle" => q \in uncounted'
  <2>1. request[r].at = "incr" /\ Unanswered(r) /\ UNCHANGED <<expiring, granted>> /\ (Increment(Key(r)) \/ UNCHANGED count)
    BY <1>2 DEF Incr
  <2>2. Key(r) \in Keys /\ count[Key(r)] <= Bumped(Key(r))
    BY <1>0, KeyInKeys, CapAssumption DEF Bumped, TypeOK
  <2>3. \A k \in Keys : count[k] <= count'[k]
    BY <1>0, <2>1, <2>2 DEF Increment, TypeOK
  <2> QED BY <2>1, <2>3, UnansweredStays DEF StockInv
<1>3. ASSUME NEW r \in Requests, Expire(r) PROVE FALSE
  BY <1>3 DEF Expire, StockInv
<1>4. ASSUME NEW r \in Requests, Crash(r)
      PROVE  StockInv' /\ count' = count /\ faults' > faults
  <2>1. faults' = faults + 1 /\ faults \in Nat
    BY <1>4, FaultsAssumption DEF Crash, Fault, TypeOK
  <2> QED BY <1>4, <2>1 DEF Crash, Idle, StockInv, TypeOK
<1>5. ASSUME NEW k \in Keys, Forget(k) PROVE FALSE
  BY <1>5 DEF Forget, StockInv
<1>6. CASE UNCHANGED vars
  BY <1>0, <1>6 DEF vars, StockInv
<1> QED BY <1>0, <1>1, <1>2, <1>3, <1>4, <1>5, <1>6 DEF Next, RequestNext

(* With a Redis that keeps its connections open, as the one the compose    *)
(* file starts does, nobody is limited, for any clients, limits and        *)
(* faults: no counter gets a time to live or ever falls, no guard grants a *)
(* request by its count, and a request that ends was let pass uncounted,   *)
(* however far over its limit, unless its process died.                    *)
THEOREM StockServerLimitsNobody ==
  ASSUME ~ServerHangsUp
  PROVE  Spec => /\ [](expiring = {} /\ \A k \in Keys : granted[k] = 0)
                 /\ [][\A k \in Keys : count[k] <= count'[k]]_vars
                 /\ [][\A r \in Requests :
                         request[r].at # "idle" /\ request'[r].at = "idle" => r \in uncounted' \/ faults' > faults]_vars
<1> DEFINE Climbs == \A k \in Keys : count[k] <= count'[k]
           Ends   == \A r \in Requests :
                       request[r].at # "idle" /\ request'[r].at = "idle" => r \in uncounted' \/ faults' > faults
<1>1. Init => StockInv
  BY DEF Init, Idle, StockInv
<1>2. TypeOK /\ StockInv /\ [Next]_vars => StockInv' /\ [Climbs]_vars /\ [Ends]_vars
  BY NextKeepsStockInv
<1>3. StockInv => expiring = {} /\ \A k \in Keys : granted[k] = 0
  BY DEF StockInv
<1> HIDE DEF Climbs, Ends
<1>4. Spec => [](expiring = {} /\ \A k \in Keys : granted[k] = 0) /\ [][Climbs]_vars /\ [][Ends]_vars
  BY <1>1, <1>2, <1>3, TypeCorrect, PTL DEF Spec
<1> QED BY <1>4 DEF Climbs, Ends

=============================================================================
