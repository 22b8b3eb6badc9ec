------------------------- MODULE ReplayWindowProofs -------------------------
(* What ReplayWindow guarantees for every number of deliveries, notices,   *)
(* settings and faults.                                                    *)
EXTENDS ReplayWindow, TLAPS

-----------------------------------------------------------------------------
(* The settings                                                            *)

LEMMA SettingsTyped == Tolerance \in Nat /\ MaxDrift \in Nat /\ Ttl \in Nat
BY EnvAssumption DEF Tolerance, MaxDrift, Ttl, parseEnv, num

(* With none of the variables set the keys outlive the window, for any lag *)
(* below five minutes: parseEnv takes 900 and 300.                         *)
THEOREM DefaultsSuffice ==
  ASSUME DOMAIN Env = {}, Lag < 300
  PROVE  Ttl > 2 * MaxDrift + Lag
BY LimitsAssumption DEF Ttl, MaxDrift, parseEnv, num

-----------------------------------------------------------------------------
(* Types                                                                   *)

LEMMA KeyOfNotice ==
  ASSUME NEW n \in Notices
  PROVE  KeyOf(n) \in Keys /\ (HasNonce(n) => Nonce[n] \in Nonces)
BY DEF Keys, Nonces

LEMMA CountedTyped ==
  ASSUME TypeOK, NEW k \in Nonces
  PROVE  Counted(k) \in [count : {1, 2}, until : Nat \cup {Never}]
BY DEF TypeOK, Counted, Counter, NoCounter, Never

Calls == [at : {"new"} \cup Pending \cup Answers, notice : Notices \cup {None}, checked : 0..MaxTime]

(* A delivery that moves to a step it may be in stays well typed.          *)
LEMMA PlacedTyped ==
  ASSUME TypeOK, NEW d \in Deliveries, call[d].at # "new", NEW step \in Pending \cup Answers, Place(d, step),
         step \in {"count", "expire"} => HasNonce(NoticeOf(d))
  PROVE  /\ call' \in [Deliveries -> Calls]
         /\ \A e \in Deliveries :
              /\ call'[e].at # "new" => call'[e].notice \in Notices
              /\ call'[e].at \in {"count", "expire"} => HasNonce(call'[e].notice)
              /\ call'[e].checked <= now
<1> DEFINE placed == [at |-> step, notice |-> call[d].notice, checked |-> now]
<1>1. call' = [call EXCEPT ![d] = placed]
  BY DEF Place
<1>2. call \in [Deliveries -> Calls] /\ placed \in Calls /\ placed.notice \in Notices
  BY DEF TypeOK, Calls, Pending, Answers
<1>3. now \in Int /\ now <= now
  BY LimitsAssumption DEF TypeOK
<1>4. QED
  BY <1>1, <1>2, <1>3 DEF TypeOK, NoticeOf

LEMMA DriftTyped ==
  ASSUME TypeOK, NEW d \in Deliveries, call[d].at # "new", CheckDrift(d)
  PROVE  /\ call' \in [Deliveries -> Calls]
         /\ \A e \in Deliveries :
              /\ call'[e].at # "new" => call'[e].notice \in Notices
              /\ call'[e].at \in {"count", "expire"} => HasNonce(call'[e].notice)
              /\ call'[e].checked <= now
BY PlacedTyped DEF CheckDrift, Pending, Answers

THEOREM TypesHold == Spec => []TypeOK
<1>1. Init => TypeOK
  <2> SUFFICES ASSUME Init PROVE TypeOK
    OBVIOUS
  <2> USE LimitsAssumption, NoticesAssumption DEF Init
  <2>1. NoCall \in Calls /\ NoCall.at = "new" /\ NoCall.checked <= 0
    BY DEF NoCall, Calls
  <2>2. NoCounter \in [count : 0..2, until : Nat \cup {Never}]
    BY DEF NoCounter
  <2>3. call \in [Deliveries -> Calls] /\ \A d \in Deliveries : call[d] = NoCall
    BY <2>1
  <2>4. QED
    BY <2>1, <2>2, <2>3 DEF TypeOK, Calls
<1>2. TypeOK /\ [Next]_vars => TypeOK'
  <2> SUFFICES ASSUME TypeOK, [Next]_vars PROVE TypeOK'
    OBVIOUS
  <2> USE LimitsAssumption, SettingsTyped
  <2>0. now \in 0..MaxTime /\ claims \in [Keys -> Nat] /\ faults \in 0..MaxFaults
        /\ counts \in [Nonces -> [count : 0..2, until : Nat \cup {Never}]]
    BY DEF TypeOK
  <2>1. ASSUME NEW d \in Deliveries, NEW n \in Notices, Deliver(d, n) PROVE TypeOK'
    <3> DEFINE step == call'[d].at
    <3>1. PICK s \in {"count", "claim", "drift"} :
            /\ call' = [call EXCEPT ![d] = [at |-> s, notice |-> n, checked |-> now]]
            /\ s = "count" => HasNonce(n)
      BY <2>1 DEF Deliver
    <3>2. [at |-> s, notice |-> n, checked |-> now] \in Calls /\ call \in [Deliveries -> Calls]
      BY <2>0 DEF TypeOK, Calls, Pending, Answers
    <3>3. UNCHANGED <<now, counts, claims, faults>> /\ now <= now
      BY <2>1, <2>0 DEF Deliver
    <3>4. QED
      BY <3>1, <3>2, <3>3 DEF TypeOK, Calls
  <2>2. ASSUME NEW d \in Deliveries, Count(d) PROVE TypeOK'
    <3> DEFINE k == Nonce[NoticeOf(d)]
    <3>1. k \in Nonces /\ call[d].at = "count" /\ HasNonce(NoticeOf(d))
      BY <2>2, KeyOfNotice DEF Count, TypeOK, NoticeOf
    <3>2. PICK c \in [count : {1, 2}, until : Nat \cup {Never}], s \in {"expire", "replay"} :
            counts' = [counts EXCEPT ![k] = c] /\ Place(d, s)
      <4>1. Counted(k) \in [count : {1, 2}, until : Nat \cup {Never}]
        BY <3>1, CountedTyped
      <4>2. [count |-> 2, until |-> Counter(k).until] \in [count : {1, 2}, until : Nat \cup {Never}]
        BY <4>1 DEF Counted
      <4>3. QED
        BY <2>2, <4>1, <4>2 DEF Count
    <3>3. UNCHANGED <<now, claims>> /\ faults' \in 0..MaxFaults
      BY <2>2, <2>0 DEF Count, Fault
    <3>4. counts' \in [Nonces -> [count : 0..2, until : Nat \cup {Never}]]
      BY <3>1, <3>2, <2>0
    <3>5. /\ call' \in [Deliveries -> Calls]
          /\ \A e \in Deliveries :
               /\ call'[e].at # "new" => call'[e].notice \in Notices
               /\ call'[e].at \in {"count", "expire"} => HasNonce(call'[e].notice)
               /\ call'[e].checked <= now
      BY <3>1, <3>2, PlacedTyped DEF Pending, Answers
    <3>6. QED
      BY <3>3, <3>4, <3>5, <2>0 DEF TypeOK, Calls
  <2>3. ASSUME NEW d \in Deliveries, Expire(d) PROVE TypeOK'
    <3>1. Nonce[NoticeOf(d)] \in Nonces
      BY <2>3, KeyOfNotice DEF Expire, TypeOK, NoticeOf
    <3>2. counts' \in [Nonces -> [count : 0..2, until : Nat \cup {Never}]]
      BY <2>3, <3>1, <2>0 DEF Expire
    <3>3. QED
      BY <2>3, <3>2, DriftTyped, <2>0 DEF TypeOK, Expire, Calls
  <2>4. ASSUME NEW d \in Deliveries, Claim(d) PROVE TypeOK'
    <3>1. KeyOf(NoticeOf(d)) \in Keys
      BY <2>4, KeyOfNotice DEF Claim, TypeOK, NoticeOf
    <3>2. PICK s \in {"passed", "replay"} : Place(d, s)
      BY <2>4 DEF Claim
    <3>3. claims' \in [Keys -> Nat] /\ UNCHANGED <<now, counts>> /\ faults' \in 0..MaxFaults
      BY <2>4, <3>1, <2>0 DEF Claim, Fault
    <3>4. QED
      BY <2>4, <3>2, <3>3, PlacedTyped, <2>0 DEF TypeOK, Claim, Calls, Pending, Answers
  <2>5. ASSUME NEW d \in Deliveries, Fail(d) PROVE TypeOK'
    <3>1. call[d].at # "new" /\ Place(d, "error") /\ now' = now /\ faults' \in 0..MaxFaults
      BY <2>5, <2>0 DEF Fail, Pending, Fault
    <3>2. call[d].at \in {"count", "expire"} => Nonce[NoticeOf(d)] \in Nonces
      BY KeyOfNotice DEF TypeOK, NoticeOf
    <3>3. call[d].at = "claim" => KeyOf(NoticeOf(d)) \in Keys
      BY KeyOfNotice DEF TypeOK, NoticeOf
    <3>4. counts' \in [Nonces -> [count : 0..2, until : Nat \cup {Never}]]
      <4>1. CASE counts' = counts
        BY <4>1, <2>0
      <4>2. CASE call[d].at = "count" /\ counts' = [counts EXCEPT ![Nonce[NoticeOf(d)]] = Counted(Nonce[NoticeOf(d)])]
        BY <4>2, <3>2, CountedTyped, <2>0
      <4>3. CASE call[d].at = "expire" /\ counts' = [counts EXCEPT ![Nonce[NoticeOf(d)]].until = now + Ttl]
        BY <4>3, <3>2, <2>0
      <4>4. QED
        BY <2>5, <4>1, <4>2, <4>3 DEF Fail
    <3>5. claims' \in [Keys -> Nat]
      BY <2>5, <3>3, <2>0 DEF Fail
    <3>6. QED
      BY <3>1, <3>4, <3>5, PlacedTyped, <2>0 DEF TypeOK, Calls, Pending, Answers
  <2>6. CASE Tick
    <3>1. now' \in 0..MaxTime /\ now <= now' /\ UNCHANGED <<call, counts, claims, faults>>
      BY <2>6, <2>0 DEF Tick
    <3>2. \A d \in Deliveries : call[d].checked \in Int /\ call[d].checked <= now'
      BY <3>1, <2>0 DEF TypeOK
    <3>3. QED
      BY <3>1, <3>2 DEF TypeOK
  <2>7. CASE UNCHANGED vars
    BY <2>7 DEF TypeOK, vars
  <2>8. QED
    BY <2>1, <2>2, <2>3, <2>4, <2>5, <2>6, <2>7 DEF Next, DeliveryNext
<1>3. QED
  BY <1>1, <1>2, PTL DEF Spec

-----------------------------------------------------------------------------
(* No notice passes twice                                                  *)

(* A delivery that passed claimed its key no earlier than its window       *)
(* opened; one that is about to claim is at most Lag past a time stamp     *)
(* that was good.                                                          *)
PassedClaims ==
  \A d \in Deliveries :
    call[d].at = "passed" => claims[KeyOf(NoticeOf(d))] >= Stamp[NoticeOf(d)] - MaxDrift + Ttl

ClaimsInTime ==
  \A d \in Deliveries :
    call[d].at = "claim" =>
      /\ call[d].checked - Stamp[NoticeOf(d)] <= MaxDrift
      /\ Stamp[NoticeOf(d)] - call[d].checked <= MaxDrift
      /\ now <= call[d].checked + Lag

WindowInv == PassedClaims /\ ClaimsInTime /\ NoReplay

(* The second look at the time stamp opens a claim in time.                *)
LEMMA DriftInTime ==
  ASSUME TypeOK, WindowInv, NEW d \in Deliveries, call[d].at # "new", CheckDrift(d), UNCHANGED <<now, claims>>
  PROVE  WindowInv'
<1>1. NoticeOf(d) \in Notices /\ Stamp[NoticeOf(d)] \in Nat /\ now \in Nat /\ call \in [Deliveries -> Calls]
  BY NoticesAssumption, LimitsAssumption DEF TypeOK, NoticeOf, Calls
<1>2. PICK s \in {"claim", "drift"} :
        /\ call' = [call EXCEPT ![d] = [at |-> s, notice |-> NoticeOf(d), checked |-> now]]
        /\ s = "claim" => Within(NoticeOf(d), MaxDrift)
  BY DEF CheckDrift, Place, NoticeOf
<1>3. \A e \in Deliveries : e # d => call'[e] = call[e]
  BY <1>2, <1>1
<1>4. call'[d] = [at |-> s, notice |-> NoticeOf(d), checked |-> now]
  BY <1>2, <1>1
<1>5. PassedClaims'
  BY <1>3, <1>4 DEF WindowInv, PassedClaims, NoticeOf
<1>6. ClaimsInTime'
  BY <1>1, <1>2, <1>3, <1>4, LimitsAssumption DEF WindowInv, ClaimsInTime, NoticeOf, Within
<1>7. NoReplay'
  BY <1>3, <1>4 DEF WindowInv, NoReplay, NoticeOf
<1>8. QED
  BY <1>5, <1>6, <1>7 DEF WindowInv

(* A delivery that goes anywhere but to its claim or past it, while claims *)
(* only last longer, disturbs nothing.                                     *)
LEMMA OtherwiseInTime ==
  ASSUME TypeOK, WindowInv, NEW d \in Deliveries, NEW s \in {"expire", "replay", "error"}, Place(d, s),
         UNCHANGED now, \A k \in Keys : claims'[k] >= claims[k] /\ claims'[k] \in Int /\ claims[k] \in Int
  PROVE  WindowInv'
<1>1. call \in [Deliveries -> Calls]
  BY DEF TypeOK, Calls
<1>2. \A e \in Deliveries : e # d => call'[e] = call[e]
  BY <1>1 DEF Place
<1>3. call'[d].at = s
  BY <1>1 DEF Place
<1>4. \A e \in Deliveries :
        call[e].at = "passed" =>
          KeyOf(NoticeOf(e)) \in Keys /\ Stamp[NoticeOf(e)] - MaxDrift + Ttl \in Int
  BY KeyOfNotice, SettingsTyped, NoticesAssumption DEF TypeOK, NoticeOf
<1>5. PassedClaims'
  <2> SUFFICES ASSUME NEW e \in Deliveries, call'[e].at = "passed"
               PROVE  claims'[KeyOf(call'[e].notice)] >= Stamp[call'[e].notice] - MaxDrift + Ttl
    BY DEF PassedClaims, NoticeOf
  <2>1. e # d /\ call'[e] = call[e]
    BY <1>2, <1>3
  <2>2. claims[KeyOf(NoticeOf(e))] >= Stamp[NoticeOf(e)] - MaxDrift + Ttl
    BY <2>1 DEF WindowInv, PassedClaims
  <2>3. claims'[KeyOf(NoticeOf(e))] >= claims[KeyOf(NoticeOf(e))]
        /\ claims'[KeyOf(NoticeOf(e))] \in Int /\ claims[KeyOf(NoticeOf(e))] \in Int
    BY <2>1, <1>4
  <2>4. QED
    BY <2>1, <2>2, <2>3, <1>4 DEF NoticeOf
<1>6. ClaimsInTime'
  BY <1>2, <1>3 DEF WindowInv, ClaimsInTime, NoticeOf
<1>7. NoReplay'
  BY <1>2, <1>3 DEF WindowInv, NoReplay, NoticeOf
<1>8. QED
  BY <1>5, <1>6, <1>7 DEF WindowInv

(* No notice passes twice: the property NoReplay of the run.               *)
THEOREM NoticesPassOnce == Spec => []NoReplay
<1>1. Init => WindowInv
  BY DEF Init, WindowInv, PassedClaims, ClaimsInTime, NoReplay, NoCall
<1>2. TypeOK /\ WindowInv /\ [Next]_vars => WindowInv'
  <2> SUFFICES ASSUME TypeOK, WindowInv, [Next]_vars PROVE WindowInv'
    OBVIOUS
  <2>0. now \in Nat /\ claims \in [Keys -> Nat] /\ call \in [Deliveries -> Calls] /\ Ttl \in Nat
    BY SettingsTyped, LimitsAssumption DEF TypeOK, Calls
  <2>1. ASSUME NEW d \in Deliveries, NEW n \in Notices, Deliver(d, n) PROVE WindowInv'
    <3>1. PICK s \in {"count", "claim", "drift"} :
            /\ call' = [call EXCEPT ![d] = [at |-> s, notice |-> n, checked |-> now]]
            /\ s = "claim" => Within(n, MaxDrift)
      BY <2>1 DEF Deliver
    <3>2. \A e \in Deliveries : e # d => call'[e] = call[e]
      BY <3>1, <2>0
    <3>3. call'[d] = [at |-> s, notice |-> n, checked |-> now]
      BY <3>1, <2>0
    <3>4. now' = now /\ claims' = claims
      BY <2>1 DEF Deliver
    <3>5. PassedClaims' /\ NoReplay'
      BY <3>2, <3>3, <3>4 DEF WindowInv, PassedClaims, NoReplay, NoticeOf
    <3>6. Stamp[n] \in Nat /\ MaxDrift \in Nat
      BY SettingsTyped, NoticesAssumption
    <3>7. ClaimsInTime'
      BY <3>1, <3>2, <3>3, <3>4, <3>6, <2>0, LimitsAssumption DEF WindowInv, ClaimsInTime, NoticeOf, Within
    <3>8. QED
      BY <3>5, <3>7 DEF WindowInv
  <2>2. ASSUME NEW d \in Deliveries, Count(d) PROVE WindowInv'
    BY <2>2, <2>0, OtherwiseInTime DEF Count
  <2>3. ASSUME NEW d \in Deliveries, Expire(d) PROVE WindowInv'
    BY <2>3, DriftInTime DEF Expire
  <2>4. ASSUME NEW d \in Deliveries, Claim(d) PROVE WindowInv'
    <3> DEFINE n == NoticeOf(d)
               k == KeyOf(n)
    <3>1. n \in Notices /\ k \in Keys /\ call[d].at = "claim" /\ now' = now
      BY <2>4, KeyOfNotice DEF Claim, TypeOK, NoticeOf
    <3>2. CASE Place(d, "replay")
      <4>1. \/ claims' = claims
            \/ claims' = [claims EXCEPT ![k] = now + Ttl] /\ claims[k] <= now
        BY <2>4 DEF Claim
      <4>2. \A j \in Keys : claims'[j] >= claims[j] /\ claims'[j] \in Int /\ claims[j] \in Int
        BY <4>1, <3>1, <2>0
      <4>3. QED
        BY <3>1, <3>2, <4>2, OtherwiseInTime
    <3>3. CASE claims[k] <= now /\ claims' = [claims EXCEPT ![k] = now + Ttl] /\ Place(d, "passed")
      <4>1. \A e \in Deliveries : e # d => call'[e] = call[e]
        BY <3>3, <2>0 DEF Place
      <4>2. call'[d] = [at |-> "passed", notice |-> n, checked |-> now]
        BY <3>3, <2>0 DEF Place, NoticeOf
      <4>3. /\ Stamp[n] \in Nat /\ MaxDrift \in Nat /\ call[d].checked \in Nat /\ Lag \in Nat
            /\ call[d].checked <= now
        BY <3>1, <2>0, SettingsTyped, NoticesAssumption, LimitsAssumption DEF TypeOK
      <4>4. /\ call[d].checked - Stamp[n] <= MaxDrift
            /\ Stamp[n] - call[d].checked <= MaxDrift
            /\ now <= call[d].checked + Lag
        BY <3>1 DEF WindowInv, ClaimsInTime
      <4>5. claims'[k] = now + Ttl /\ claims'[k] >= Stamp[n] - MaxDrift + Ttl
        BY <3>1, <3>3, <4>3, <4>4, <2>0
      <4>6. ASSUME NEW e \in Deliveries, e # d, call[e].at = "passed" PROVE NoticeOf(e) # n
        <5>1. claims[KeyOf(NoticeOf(e))] >= Stamp[NoticeOf(e)] - MaxDrift + Ttl
          BY <4>6 DEF WindowInv, PassedClaims
        <5>2. SUFFICES ASSUME NoticeOf(e) = n PROVE FALSE
          OBVIOUS
        <5>3. claims[k] \in Nat /\ claims[k] >= Stamp[n] - MaxDrift + Ttl
          BY <5>1, <5>2, <3>1, <2>0
        <5>4. QED
          BY <5>3, <3>3, <4>3, <4>4, <2>0, TtlAssumption
      <4>7. NoReplay'
        BY <4>1, <4>2, <4>6 DEF WindowInv, NoReplay, NoticeOf
      <4>8. ClaimsInTime'
        BY <4>1, <4>2, <3>1 DEF WindowInv, ClaimsInTime, NoticeOf
      <4>9. PassedClaims'
        <5> SUFFICES ASSUME NEW e \in Deliveries, call'[e].at = "passed"
                     PROVE  claims'[KeyOf(call'[e].notice)] >= Stamp[call'[e].notice] - MaxDrift + Ttl
          BY DEF PassedClaims, NoticeOf
        <5>1. CASE e = d
          BY <5>1, <4>2, <4>5
        <5>2. CASE e # d
          <6>1. /\ claims[KeyOf(NoticeOf(e))] >= Stamp[NoticeOf(e)] - MaxDrift + Ttl
                /\ call'[e].notice = NoticeOf(e) /\ KeyOf(NoticeOf(e)) \in Keys
                /\ Stamp[NoticeOf(e)] - MaxDrift + Ttl \in Int
            BY <5>2, <4>1, KeyOfNotice, SettingsTyped, NoticesAssumption
               DEF WindowInv, PassedClaims, TypeOK, NoticeOf
          <6>2. claims'[KeyOf(NoticeOf(e))] >= claims[KeyOf(NoticeOf(e))]
                /\ claims'[KeyOf(NoticeOf(e))] \in Int /\ claims[KeyOf(NoticeOf(e))] \in Int
            BY <6>1, <3>1, <3>3, <2>0
          <6>3. QED
            BY <6>1, <6>2
        <5>3. QED
          BY <5>1, <5>2
      <4>10. QED
        BY <4>7, <4>8, <4>9 DEF WindowInv
    <3>4. QED
      BY <2>4, <3>2, <3>3 DEF Claim
  <2>5. ASSUME NEW d \in Deliveries, Fail(d) PROVE WindowInv'
    <3>1. call[d].at = "claim" => KeyOf(NoticeOf(d)) \in Keys
      BY KeyOfNotice DEF TypeOK, NoticeOf
    <3>2. \A j \in Keys : claims'[j] >= claims[j] /\ claims'[j] \in Int /\ claims[j] \in Int
      BY <2>5, <3>1, <2>0 DEF Fail
    <3>3. QED
      BY <2>5, <3>2, OtherwiseInTime DEF Fail
  <2>6. CASE Tick
    <3>1. now' = now + 1 /\ UNCHANGED <<call, claims>>
      BY <2>6 DEF Tick
    <3>2. \A d \in Deliveries : call[d].at = "claim" => now < call[d].checked + Lag
      BY <2>6 DEF Tick, Pending
    <3>3. ClaimsInTime'
      BY <3>1, <3>2, <2>0, LimitsAssumption DEF WindowInv, ClaimsInTime, NoticeOf, Calls
    <3>4. QED
      BY <3>1, <3>3 DEF WindowInv, PassedClaims, NoReplay, NoticeOf
  <2>7. CASE UNCHANGED vars
    BY <2>7 DEF WindowInv, PassedClaims, ClaimsInTime, NoReplay, NoticeOf, vars
  <2>8. QED
    BY <2>1, <2>2, <2>3, <2>4, <2>5, <2>6, <2>7 DEF Next, DeliveryNext
<1>3. QED
  BY <1>1, <1>2, TypesHold, PTL DEF Spec, WindowInv

-----------------------------------------------------------------------------
(* Counters                                                                *)

(* A counter lives on for ever only if something failed: the property      *)
(* CountersExpire of the run.                                              *)
THEOREM CountersAreGivenALife == Spec => []CountersExpire
<1>1. Init => CountersExpire
  BY DEF Init, CountersExpire, NoCounter
<1>2. TypeOK /\ CountersExpire /\ [Next]_vars => CountersExpire'
  <2> SUFFICES ASSUME TypeOK, CountersExpire, [Next]_vars PROVE CountersExpire'
    OBVIOUS
  <2>0. /\ call \in [Deliveries -> Calls] /\ counts \in [Nonces -> [count : 0..2, until : Nat \cup {Never}]]
        /\ faults \in Nat /\ now \in Nat /\ Ttl \in Nat
    BY SettingsTyped, LimitsAssumption DEF TypeOK, Calls
  <2>1. ASSUME NEW d \in Deliveries, NEW n \in Notices, Deliver(d, n) PROVE CountersExpire'
    <3>1. UNCHANGED <<counts, faults>> /\ call[d].at = "new" /\ \A e \in Deliveries : e # d => call'[e] = call[e]
      BY <2>1, <2>0 DEF Deliver
    <3>2. QED
      BY <3>1 DEF CountersExpire, NoticeOf
  <2>2. ASSUME NEW d \in Deliveries, Count(d) PROVE CountersExpire'
    <3> DEFINE k == Nonce[NoticeOf(d)]
    <3>1. k \in Nonces /\ call[d].at = "count" /\ \A e \in Deliveries : e # d => call'[e] = call[e]
      BY <2>2, <2>0, KeyOfNotice DEF Count, Place, TypeOK, NoticeOf
    <3>2. CASE Fault
      BY <3>2, <2>0 DEF Fault, CountersExpire
    <3>3. CASE /\ counts' = [counts EXCEPT ![k] = Counted(k)]
               /\ Place(d, IF Counted(k).count = 1 THEN "expire" ELSE "replay")
               /\ UNCHANGED faults
      <4>1. \A j \in Nonces : j # k => counts'[j] = counts[j]
        BY <3>3, <2>0
      <4>2. counts'[k] = Counted(k)
        BY <3>1, <3>3, <2>0
      <4>3. CASE Counted(k).count = 1
        <5>1. call'[d].at = "expire" /\ call'[d].notice = NoticeOf(d)
          BY <3>3, <4>3, <2>0 DEF Place, NoticeOf
        <5>2. QED
          BY <3>1, <3>3, <4>1, <5>1 DEF CountersExpire, NoticeOf
      <4>4. CASE Counted(k).count # 1
        <5>1. counts[k].count > 0 /\ Counted(k).until = counts[k].until
          BY <4>4, <3>1, <2>0 DEF Counted, Counter, NoCounter
        <5>2. QED
          BY <3>1, <3>3, <4>1, <4>2, <5>1 DEF CountersExpire, NoticeOf
      <4>5. QED
        BY <4>3, <4>4
    <3>4. QED
      BY <2>2, <3>2, <3>3 DEF Count
  <2>3. ASSUME NEW d \in Deliveries, Expire(d) PROVE CountersExpire'
    <3>1. /\ counts' = [counts EXCEPT ![Nonce[NoticeOf(d)]].until = now + Ttl] /\ faults' = faults
          /\ \A e \in Deliveries : e # d => call'[e] = call[e]
      BY <2>3, <2>0 DEF Expire, CheckDrift, Place
    <3>2. \A k \in Nonces :
            \/ counts'[k] = counts[k] /\ k # Nonce[NoticeOf(d)]
            \/ counts'[k].until = now + Ttl
      BY <3>1, <2>0
    <3>3. now + Ttl # Never
      BY <2>0 DEF Never
    <3>4. QED
      BY <3>1, <3>2, <3>3 DEF CountersExpire, NoticeOf
  <2>4. ASSUME NEW d \in Deliveries, Claim(d) PROVE CountersExpire'
    <3>1. counts' = counts /\ (faults' = faults \/ faults' = faults + 1)
      BY <2>4 DEF Claim, Fault
    <3>2. call[d].at = "claim" /\ \A e \in Deliveries : e # d => call'[e] = call[e]
      BY <2>4, <2>0 DEF Claim, Place
    <3>3. QED
      BY <3>1, <3>2, <2>0 DEF CountersExpire, NoticeOf
  <2>5. ASSUME NEW d \in Deliveries, Fail(d) PROVE CountersExpire'
    BY <2>5, <2>0 DEF Fail, Fault, CountersExpire
  <2>6. CASE Tick \/ UNCHANGED vars
    BY <2>6 DEF Tick, vars, CountersExpire, NoticeOf
  <2>7. QED
    BY <2>1, <2>2, <2>3, <2>4, <2>5, <2>6 DEF Next, DeliveryNext
<1>3. QED
  BY <1>1, <1>2, TypesHold, PTL DEF Spec

-----------------------------------------------------------------------------
(***************************************************************************)
(* A replay had a predecessor.  The strengthening says who filled Redis:   *)
(* behind every counter and every claim, of whatever age, there is a       *)
(* delivery that got past the command that wrote it.  One that is only     *)
(* about to run that command is not it, so the delivery that finds the     *)
(* counter or the claim finds another's.                                   *)
(***************************************************************************)
PastCount(e) == call[e].at \notin {"new", "count"}

CountsHaveCallers ==
  \A k \in Nonces :
    counts[k].count > 0 => faults > 0 \/ \E e \in Deliveries : PastCount(e) /\ Nonce[NoticeOf(e)] = k

ClaimsHaveCallers ==
  \A k \in Keys :
    claims[k] > 0 => faults > 0 \/ \E e \in Deliveries : call[e].at \in Answers /\ KeyOf(NoticeOf(e)) = k

CallersInv == CountsHaveCallers /\ ClaimsHaveCallers /\ ReplayIsReal

(* Two notices with one key: one nonce, or one notice without a nonce.     *)
LEMMA SameKeys ==
  ASSUME NEW n \in Notices, NEW p \in Notices, KeyOf(p) = KeyOf(n)
  PROVE  p = n \/ (Nonce[n] # None /\ Nonce[p] = Nonce[n])
<1>1. (IF Nonce[p] = None THEN p ELSE Nonce[p]) = (IF Nonce[n] = None THEN n ELSE Nonce[n])
  BY DEF KeyOf
<1>2. Nonce[n] # Nonce[p] => Nonce[n] = None /\ Nonce[p] = None
  <2>1. \A q \in Notices : Nonce[q] # None => Nonce[q] \notin Notices
    BY NoticesAssumption DEF Nonces, HasNonce
  <2>2. QED
    BY <1>1, <2>1
<1>3. QED
  BY <1>1, <1>2

(* One delivery moves, and not back.                                       *)
LEMMA MovesOn ==
  ASSUME TypeOK, NEW d \in Deliveries, call[d].at \in Pending, NEW step \in {"expire", "claim"} \cup Answers,
         Place(d, step)
  PROVE  /\ \A e \in Deliveries : e # d => call'[e] = call[e]
         /\ call'[d].at = step /\ call'[d].notice = call[d].notice /\ PastCount(d)'
BY DEF TypeOK, Place, Pending, Answers, PastCount

LEMMA DriftMovesOn ==
  ASSUME TypeOK, NEW d \in Deliveries, call[d].at \in Pending, CheckDrift(d)
  PROVE  /\ \A e \in Deliveries : e # d => call'[e] = call[e]
         /\ call'[d].at \in {"claim", "drift"} /\ call'[d].notice = call[d].notice /\ PastCount(d)'
<1>1. PICK step \in {"claim", "drift"} : Place(d, step)
  BY DEF CheckDrift
<1>2. step \in {"expire", "claim"} \cup Answers
  BY DEF Answers
<1>3. QED
  BY <1>1, <1>2, MovesOn

(* Deliveries move on, and no counter, claim or replay is new.             *)
LEMMA NothingNew ==
  ASSUME TypeOK, CallersInv, NEW d \in Deliveries, call[d].at \notin Answers,
         \A e \in Deliveries : e # d => call'[e] = call[e],
         PastCount(d) => PastCount(d)' /\ call'[d].notice = call[d].notice,
         call'[d].at # "replay",
         \A k \in Nonces : counts'[k].count = counts[k].count,
         \A k \in Keys : claims'[k] = claims[k],
         faults' = faults
  PROVE  CallersInv'
<1>1. CountsHaveCallers'
  BY DEF CallersInv, CountsHaveCallers, PastCount, NoticeOf
<1>2. ClaimsHaveCallers'
  BY DEF CallersInv, ClaimsHaveCallers, NoticeOf
<1>3. ReplayIsReal'
  BY DEF CallersInv, ReplayIsReal, PastCount, NoticeOf
<1>4. QED
  BY <1>1, <1>2, <1>3 DEF CallersInv

(* After a fault the invariant says nothing.                               *)
LEMMA FaultedIsFree ==
  ASSUME TypeOK, Fault
  PROVE  CallersInv'
<1>1. faults' > 0
  BY LimitsAssumption DEF TypeOK, Fault
<1>2. QED
  BY <1>1 DEF CallersInv, CountsHaveCallers, ClaimsHaveCallers, ReplayIsReal

LEMMA CountKeepsCallers ==
  ASSUME TypeOK, CallersInv, NEW d \in Deliveries, Count(d)
  PROVE  CallersInv'
<1> DEFINE k == Nonce[NoticeOf(d)]
<1>1. CASE Fault
  BY <1>1, FaultedIsFree
<1>2. CASE /\ counts' = [counts EXCEPT ![k] = Counted(k)]
           /\ Place(d, IF Counted(k).count = 1 THEN "expire" ELSE "replay")
           /\ UNCHANGED faults
  <2>1. call[d].at = "count" /\ k \in Nonces /\ claims' = claims
    BY KeyOfNotice DEF Count, TypeOK, NoticeOf
  <2>2. PICK step \in {"expire", "replay"} : Place(d, step) /\ (step = "replay" => Counted(k).count # 1)
    BY <1>2
  <2>3. /\ \A e \in Deliveries : e # d => call'[e] = call[e]
        /\ call'[d].at = step /\ call'[d].notice = call[d].notice /\ PastCount(d)'
    BY <2>1, <2>2, MovesOn DEF Pending, Answers
  <2>4. \A j \in Nonces : j # k => counts'[j] = counts[j]
    BY <1>2 DEF TypeOK
  <2>5. CountsHaveCallers'
    BY <1>2, <2>1, <2>3, <2>4 DEF CallersInv, CountsHaveCallers, PastCount, NoticeOf
  <2>6. ClaimsHaveCallers'
    BY <1>2, <2>1, <2>3 DEF CallersInv, ClaimsHaveCallers, NoticeOf, Answers
  <2>7. Counted(k).count # 1 => counts[k].count > 0
    BY <2>1 DEF Counted, Counter, NoCounter, TypeOK
  <2>8. step = "replay" =>
          faults > 0 \/ \E e \in Deliveries \ {d} : PastCount(e) /\ Nonce[NoticeOf(e)] = k /\ k # None
    BY <2>1, <2>2, <2>7 DEF CallersInv, CountsHaveCallers, PastCount, Nonces, HasNonce
  <2>9. ReplayIsReal'
    BY <1>2, <2>1, <2>3, <2>8 DEF CallersInv, ReplayIsReal, PastCount, NoticeOf
  <2>10. QED
    BY <2>5, <2>6, <2>9 DEF CallersInv
<1>3. QED
  BY <1>1, <1>2 DEF Count

LEMMA ClaimKeepsCallers ==
  ASSUME TypeOK, CallersInv, NEW d \in Deliveries, Claim(d)
  PROVE  CallersInv'
<1> DEFINE k == KeyOf(NoticeOf(d))
<1>1. CASE Fault
  BY <1>1, FaultedIsFree
<1>2. ASSUME NEW step \in {"passed", "replay"}, Place(d, step), UNCHANGED faults,
             step = "replay" => claims[k] > now,
             \A j \in Keys : j # k => claims'[j] = claims[j]
      PROVE  CallersInv'
  <2>1. call[d].at = "claim" /\ k \in Keys /\ NoticeOf(d) \in Notices /\ counts' = counts
    BY KeyOfNotice DEF Claim, TypeOK, NoticeOf
  <2>2. /\ \A e \in Deliveries : e # d => call'[e] = call[e]
        /\ call'[d].at = step /\ call'[d].notice = call[d].notice /\ PastCount(d)'
    BY <1>2, <2>1, MovesOn DEF Pending, Answers
  <2>3. CountsHaveCallers'
    BY <1>2, <2>1, <2>2 DEF CallersInv, CountsHaveCallers, PastCount, NoticeOf
  <2>4. ClaimsHaveCallers'
    BY <1>2, <2>1, <2>2 DEF CallersInv, ClaimsHaveCallers, NoticeOf, Answers
  <2>5. step = "replay" =>
          faults > 0 \/ \E e \in Deliveries \ {d} : PastCount(e) /\ NoticeOf(e) \in Notices /\ KeyOf(NoticeOf(e)) = k
    <3>1. SUFFICES ASSUME step = "replay", ~(faults > 0)
                   PROVE  \E e \in Deliveries \ {d} : PastCount(e) /\ NoticeOf(e) \in Notices /\ KeyOf(NoticeOf(e)) = k
      OBVIOUS
    <3>2. claims[k] > 0
      BY <1>2, <2>1, <3>1, LimitsAssumption DEF TypeOK
    <3>3. PICK e \in Deliveries : call[e].at \in Answers /\ KeyOf(NoticeOf(e)) = k
      BY <2>1, <3>1, <3>2 DEF CallersInv, ClaimsHaveCallers
    <3>4. QED
      BY <2>1, <3>3 DEF Answers, PastCount, TypeOK, NoticeOf
  <2>6. step = "replay" =>
          \/ faults > 0
          \/ \E e \in Deliveries \ {d} :
               /\ PastCount(e)
               /\ NoticeOf(e) = NoticeOf(d) \/ (Nonce[NoticeOf(d)] # None /\ Nonce[NoticeOf(e)] = Nonce[NoticeOf(d)])
    BY <2>1, <2>5, SameKeys
  <2>7. ReplayIsReal'
    BY <1>2, <2>1, <2>2, <2>6 DEF CallersInv, ReplayIsReal, PastCount, NoticeOf
  <2>8. QED
    BY <2>3, <2>4, <2>7 DEF CallersInv
<1>3. CASE claims[k] <= now /\ claims' = [claims EXCEPT ![k] = now + Ttl] /\ Place(d, "passed") /\ UNCHANGED faults
  <2>1. \A j \in Keys : j # k => claims'[j] = claims[j]
    BY <1>3 DEF TypeOK
  <2>2. QED
    BY <1>2, <1>3, <2>1
<1>4. CASE claims[k] > now /\ Place(d, "replay") /\ UNCHANGED <<claims, faults>>
  BY <1>2, <1>4
<1>5. QED
  BY <1>1, <1>3, <1>4 DEF Claim

(* A delivery refused as a replay had a predecessor, unless something      *)
(* failed: the property ReplayIsReal of the run.                           *)
THEOREM ReplaysAreReal == Spec => []ReplayIsReal
<1>1. Init => CallersInv
  BY DEF Init, CallersInv, CountsHaveCallers, ClaimsHaveCallers, ReplayIsReal, NoCall, NoCounter
<1>2. TypeOK /\ CallersInv /\ [Next]_vars => CallersInv'
  <2> SUFFICES ASSUME TypeOK, CallersInv, [Next]_vars PROVE CallersInv'
    OBVIOUS
  <2>1. ASSUME NEW d \in Deliveries, NEW n \in Notices, Deliver(d, n) PROVE CallersInv'
    <3>1. /\ call[d].at = "new" /\ UNCHANGED <<counts, claims, faults>> /\ call'[d].at # "replay"
          /\ \A e \in Deliveries : e # d => call'[e] = call[e]
      BY <2>1 DEF Deliver, TypeOK
    <3>2. QED
      BY <3>1, NothingNew DEF PastCount, Answers
  <2>2. ASSUME NEW d \in Deliveries, Expire(d) PROVE CallersInv'
    <3>1. /\ call[d].at = "expire" /\ UNCHANGED <<claims, faults>> /\ CheckDrift(d)
          /\ \A k \in Nonces : counts'[k].count = counts[k].count
      BY <2>2 DEF Expire, TypeOK
    <3>2. QED
      BY <3>1, DriftMovesOn, NothingNew DEF Pending, Answers
  <2>3. ASSUME NEW d \in Deliveries, Fail(d) PROVE CallersInv'
    BY <2>3, FaultedIsFree DEF Fail
  <2>4. CASE Tick \/ UNCHANGED vars
    BY <2>4 DEF Tick, vars, CallersInv, CountsHaveCallers, ClaimsHaveCallers, ReplayIsReal, PastCount, NoticeOf
  <2>5. QED
    BY <2>1, <2>2, <2>3, <2>4, CountKeepsCallers, ClaimKeepsCallers DEF Next, DeliveryNext
<1>3. QED
  BY <1>1, <1>2, TypesHold, PTL DEF Spec, CallersInv

=============================================================================
