---------------------------- MODULE ApiKeysProofs ----------------------------
(***************************************************************************)
(* Theorems about ApiKeys for all users, requests and processes and any    *)
(* faults.                                                                 *)
(***************************************************************************)
EXTENDS ApiKeys, TLAPS

(***************************************************************************)
(* The inductive invariant, request by request: what a request holds to be *)
(* so of the keys it knows, and what its own key, if it created one, looks *)
(* like.  A step changes one request, or ends many by a crash, and changes *)
(* the rows only as KeysGrow says.                                         *)
(***************************************************************************)
RequestTyped(q) ==
  /\ call[q] \in Calls \cup {NoCall}
  /\ at[q] \in {"new"} \cup Pending \cup Answers
  /\ host[q] \in Processes \cup {Nobody}
  /\ at[q] = "new" <=> call[q] = NoCall
  /\ at[q] \in Pending <=> host[q] # Nobody
  /\ at[q] = "insert" => call[q].op = "create"
  /\ at[q] = "revokeKey" => call[q].op = "revoke"
  /\ at[q] = "revokeKeys" => call[q].op = "revokeAll"
  /\ at[q] \in {"touch", "limit"} => call[q].op = "use"

(* The key a request created is its user's.                                *)
OwnKey(q) ==
  /\ key[q] \in Rows \cup {NoRow}
  /\ at[q] \in {"new", "insert"} => key[q] = NoRow
  /\ key[q] \in Rows => call[q].op = "create" /\ key[q].owner = call[q].user
  /\ at[q] = "ok" /\ call[q].op = "create" => key[q] \in Rows

(* The keys a request is about exist, and are revoked once it said so.     *)
KeysSeen(q) ==
  /\ at[q] \in {"revokeKey", "touch", "limit"} => call[q].key \in Requests /\ key[call[q].key] \in Rows
  /\ at[q] = "ok" /\ call[q].op = "revoke" => call[q].key \in Requests /\ key[call[q].key].status = "REVOKED"
  /\ call[q].op = "revokeAll" =>
       \A k \in call[q].known :
         /\ k \in Requests /\ key[k] \in Rows /\ key[k].owner = call[q].user
         /\ at[q] = "ok" => key[k].status = "REVOKED"

LateRefused(q) == call[q] # NoCall /\ call[q].late => at[q] = "invalid"

RequestOK(q) == RequestTyped(q) /\ OwnKey(q) /\ KeysSeen(q) /\ LateRefused(q) /\ (q \in admitted => at[q] # "new")

FunctionsOK ==
  /\ key = [q \in Requests |-> key[q]]
  /\ call = [q \in Requests |-> call[q]]
  /\ at = [q \in Requests |-> at[q]]
  /\ host = [q \in Requests |-> host[q]]
  /\ admitted \subseteq Requests
  /\ faults \in 0..MaxFaults

KeysInv == FunctionsOK /\ \A q \in Requests : RequestOK(q)

LEMMA InitKeysInv == Init => KeysInv
<1> SUFFICES ASSUME Init PROVE KeysInv
  OBVIOUS
<1>1. FunctionsOK
  BY FaultsAssumption DEF Init, FunctionsOK
<1>2. ASSUME NEW q \in Requests PROVE RequestOK(q)
  <2>1. at[q] = "new" /\ call[q] = NoCall /\ host[q] = Nobody /\ key[q] = NoRow /\ admitted = {}
    BY DEF Init
  <2>2. call[q].op = "none" /\ NoRow.status = "absent"
    BY <2>1 DEF NoCall, NoRow
  <2>3. NoRow \notin Rows
    BY DEF NoRow, Rows
  <2> QED BY <2>1, <2>2, <2>3 DEF RequestOK, RequestTyped, OwnKey, KeysSeen, LateRefused, Pending
<1> QED BY <1>1, <1>2 DEF KeysInv

-----------------------------------------------------------------------------
(* Rows stay, with their owner, and stay revoked; only r's own may appear. *)
KeysGrow(r) ==
  \A k \in Requests :
    /\ key[k] \in Rows => key'[k] \in Rows /\ key'[k].owner = key[k].owner
    /\ key[k].status = "REVOKED" => key'[k].status = "REVOKED"
    /\ k # r /\ key[k] = NoRow => key'[k] = NoRow

LEMMA RowOrNone ==
  NoRow \notin Rows /\ \A row \in Rows \cup {NoRow} : row \in Rows <=> row.status \in {"ACTIVE", "REVOKED"}
BY DEF NoRow, Rows

LEMMA CallOrNone == NoCall \notin Calls /\ NoCall.op = "none" /\ \A c \in Calls : c.op \in Operations
BY DEF NoCall, Calls, Operations

LEMMA OthersKept ==
  ASSUME KeysInv, NEW r, KeysGrow(r), NEW q \in Requests, q # r,
         call'[q] = call[q], at'[q] = at[q], host'[q] = host[q], q \in admitted' => q \in admitted
  PROVE  RequestOK(q)'
<1>1. RequestOK(q)
  BY DEF KeysInv
<1>2. RequestTyped(q)' /\ LateRefused(q)' /\ (q \in admitted' => at'[q] # "new")
  BY <1>1 DEF RequestOK, RequestTyped, LateRefused
<1>3. OwnKey(q)'
  BY <1>1, RowOrNone DEF RequestOK, OwnKey, KeysGrow
<1>4. KeysSeen(q)'
  BY <1>1 DEF RequestOK, KeysSeen, KeysGrow
<1> QED BY <1>2, <1>3, <1>4 DEF RequestOK

(* A step of one request.                                                  *)
LEMMA OneStep ==
  ASSUME KeysInv, FunctionsOK', NEW r \in Requests, KeysGrow(r), RequestOK(r)',
         \A q \in Requests \ {r} : call'[q] = call[q] /\ at'[q] = at[q] /\ host'[q] = host[q]
                                   /\ (q \in admitted' => q \in admitted)
  PROVE  KeysInv'
BY OthersKept DEF KeysInv

LEMMA KeysSame == ASSUME NEW r, UNCHANGED key PROVE KeysGrow(r)
BY DEF KeysGrow

(* What an answered creation and an answered revocation leave.             *)
LEMMA KnownKeys ==
  ASSUME KeysInv, NEW u, NEW k \in KnownOf(u)
  PROVE  k \in Requests /\ key[k] \in Rows /\ key[k].owner = u
BY DEF KeysInv, RequestOK, OwnKey, KnownOf

LEMMA RevokedKeys ==
  ASSUME KeysInv, NEW k \in Requests, RevokedFor(k)
  PROVE  key[k].status = "REVOKED"
BY DEF KeysInv, RequestOK, KeysSeen, RevokedFor

-----------------------------------------------------------------------------
(* Every step keeps the invariant                                          *)

LEMMA AskedKeepsInv ==
  ASSUME KeysInv, NEW r \in Requests, NEW u \in Users, NEW h \in Processes, NEW op \in Operations,
         NEW k \in Requests \cup {Nobody}, NEW step \in Pending \cup Answers,
         Ask(r, op, u, k), Begin(r, h, step), UNCHANGED key, UNCHANGED admitted \/ admitted' = admitted \cup {r},
         \/ op = "create" /\ step = "insert"
         \/ op = "revokeAll" /\ step = "revokeKeys"
         \/ op = "revoke" /\ k \in Known /\ step \in {"revokeKey", "notFound"}
         \/ op = "use" /\ k \in KnownOf(u) /\ step = (IF key[k].status = "ACTIVE" THEN "touch" ELSE "invalid")
  PROVE  KeysInv'
<1> DEFINE known == IF op = "revokeAll" THEN KnownOf(u) ELSE {}
           late == op = "use" /\ RevokedFor(k)
           asked == [op |-> op, user |-> u, key |-> k, late |-> late, known |-> known]
<1>1. RequestOK(r) /\ at[r] = "new" /\ call[r] = NoCall /\ key[r] = NoRow
  BY DEF KeysInv, RequestOK, RequestTyped, OwnKey, Ask
<1>2. known \subseteq Requests /\ \A x \in known : key[x] \in Rows /\ key[x].owner = u
  BY KnownKeys DEF KnownOf
<1>3. asked \in Calls
  BY <1>2 DEF Calls
<1>4. call'[r] = asked /\ at'[r] = step /\ host'[r] = (IF step \in Pending THEN h ELSE Nobody)
  BY DEF Ask, Begin, KeysInv, FunctionsOK
<1>5. /\ asked.op = op /\ asked.user = u /\ asked.key = k /\ asked.known = known /\ asked.late = late
      /\ asked # NoCall
  BY <1>3, CallOrNone
<1>6. op \in {"use", "revoke"} => k \in Requests /\ key[k] \in Rows
  BY KnownKeys DEF Known
<1>7. late => step = "invalid"
  BY <1>6, RevokedKeys
<1> HIDE DEF known, late, asked
<1>8. RequestTyped(r)'
  BY <1>3, <1>4, <1>5, NobodyAssumption DEF RequestTyped, Pending, Answers
<1>9. OwnKey(r)'
  BY <1>1, <1>4, <1>5, RowOrNone DEF OwnKey
<1>10. KeysSeen(r)'
  <2>1. step # "ok" /\ (step \in {"revokeKey", "touch", "limit"} => op \in {"use", "revoke"})
    OBVIOUS
  <2>2. op = "revokeAll" => \A x \in asked.known : x \in Requests /\ key[x] \in Rows /\ key[x].owner = asked.user
    BY <1>2, <1>5
  <2> QED BY <1>4, <1>5, <1>6, <2>1, <2>2 DEF KeysSeen
<1>11. LateRefused(r)'
  BY <1>4, <1>5, <1>7 DEF LateRefused
<1>12. RequestOK(r)'
  BY <1>4, <1>8, <1>9, <1>10, <1>11 DEF RequestOK, Pending, Answers
<1>13. FunctionsOK'
  BY DEF KeysInv, FunctionsOK, Ask, Begin
<1>14. \A q \in Requests \ {r} : call'[q] = call[q] /\ at'[q] = at[q] /\ host'[q] = host[q]
                                /\ (q \in admitted' => q \in admitted)
  BY DEF Ask, Begin, KeysInv, FunctionsOK
<1> QED BY <1>12, <1>13, <1>14, KeysSame, OneStep

LEMMA ArriveKeepsInv ==
  ASSUME KeysInv, NEW r \in Requests, NEW u \in Users, NEW h \in Processes, Arrive(r, u, h)
  PROVE  KeysInv'
<1>1. CASE Create(r, u, h)
  BY <1>1, AskedKeepsInv DEF Create, Operations, Pending
<1>2. CASE RevokeAll(r, u, h)
  BY <1>2, AskedKeepsInv DEF RevokeAll, Operations, Pending
<1>3. ASSUME NEW k \in Known, FindKey(r, u, k, h) PROVE KeysInv'
  <2>1. k \in Requests
    BY DEF Known, KnownOf
  <2>2. PICK step \in {"revokeKey", "notFound"} : Begin(r, h, step)
    BY <1>3 DEF FindKey
  <2> QED BY <1>3, <2>1, <2>2, AskedKeepsInv DEF FindKey, Operations, Pending, Answers
<1>4. ASSUME NEW k \in KnownOf(u), FindActive(r, u, k, h) PROVE KeysInv'
  <2>1. k \in Requests
    BY DEF KnownOf
  <2> QED BY <1>4, <2>1, AskedKeepsInv DEF FindActive, Operations, Pending, Answers
<1> QED BY <1>1, <1>2, <1>3, <1>4 DEF Arrive

(* A pending request goes on to its next statement or is answered.         *)
Moved(r, step) ==
  /\ UNCHANGED <<call, admitted>>
  /\ UNCHANGED faults \/ Fault
  /\ \/ step \in Pending /\ Goto(r, step)
     \/ step \in Answers /\ Answer(r, step)

(* A revocation is answered once its keys are revoked.                     *)
Told(r) ==
  \/ at[r] = "revokeKey" /\ key'[call[r].key].status = "REVOKED"
  \/ at[r] = "revokeKeys" /\ \A k \in call[r].known : key'[k].status = "REVOKED"

LEMMA MovedKeepsInv ==
  ASSUME KeysInv, NEW r \in Requests, at[r] \in Pending, NEW step, Moved(r, step),
         KeysGrow(r), key' = [q \in Requests |-> key'[q]],
         step \in Pending => step = "limit" /\ at[r] = "touch",
         OwnKey(r)',
         step = "ok" /\ at[r] \notin {"insert", "limit"} => Told(r)
  PROVE  KeysInv'
<1>1. RequestOK(r)
  BY DEF KeysInv
<1>2. /\ call'[r] = call[r] /\ at'[r] = step /\ step \in Pending \cup Answers
      /\ host'[r] = (IF step \in Pending THEN host[r] ELSE Nobody)
  BY DEF Moved, Goto, Answer, KeysInv, FunctionsOK, Pending, Answers
<1>3. RequestTyped(r)'
  BY <1>1, <1>2 DEF RequestOK, RequestTyped, Pending, Answers
<1>4. KeysSeen(r)'
  BY <1>1, <1>2 DEF RequestOK, RequestTyped, KeysSeen, KeysGrow, Pending, Told
<1>5. LateRefused(r)' /\ (r \in admitted' => at'[r] # "new")
  BY <1>1, <1>2 DEF RequestOK, RequestTyped, LateRefused, Moved, Pending, Answers
<1>6. RequestOK(r)'
  BY <1>3, <1>4, <1>5 DEF RequestOK
<1>7. FunctionsOK'
  BY FaultsAssumption DEF KeysInv, FunctionsOK, Moved, Goto, Answer, Fault
<1>8. \A q \in Requests \ {r} : call'[q] = call[q] /\ at'[q] = at[q] /\ host'[q] = host[q]
                                /\ (q \in admitted' => q \in admitted)
  BY DEF Moved, Goto, Answer, KeysInv, FunctionsOK
<1> QED BY <1>6, <1>7, <1>8, OneStep

LEMMA InsertKeepsInv ==
  ASSUME KeysInv, NEW r \in Requests, Insert(r)
  PROVE  KeysInv'
<1> DEFINE row == [owner |-> call[r].user, status |-> "ACTIVE", used |-> FALSE]
<1>1. at[r] = "insert" /\ RequestOK(r) /\ key[r] = NoRow /\ call[r] \in Calls /\ call[r].op = "create"
  BY DEF KeysInv, RequestOK, RequestTyped, OwnKey, Insert, NoCall
<1>2. row \in Rows /\ row.owner = call[r].user
  BY <1>1 DEF Rows, Calls
<1> HIDE DEF row
<1>3. PICK step \in {"ok", "error"} :
        Moved(r, step) /\ (key' = [key EXCEPT ![r] = row] \/ (step = "error" /\ UNCHANGED key))
  BY DEF Insert, LostAnswer, Moved, Answers, row
<1>4. key' = [q \in Requests |-> key'[q]] /\ (key'[r] = row \/ (step = "error" /\ key'[r] = NoRow))
  BY <1>1, <1>3 DEF KeysInv, FunctionsOK
<1>5. KeysGrow(r)
  BY <1>1, <1>3, RowOrNone DEF KeysGrow, KeysInv, FunctionsOK
<1>6. OwnKey(r)'
  BY <1>1, <1>2, <1>3, <1>4, RowOrNone DEF OwnKey, Moved, Answer, Goto, Pending, KeysInv, FunctionsOK
<1> QED BY <1>1, <1>3, <1>4, <1>5, <1>6, MovedKeepsInv DEF Pending

(* Revocations take rows that are there.                                   *)
LEMMA RevokedGrow ==
  ASSUME KeysInv, NEW r, NEW K, Revoked(K), \A k \in K : key[k] \in Rows
  PROVE  /\ KeysGrow(r) /\ key' = [q \in Requests |-> key'[q]]
         /\ \A k \in K \cap Requests : key'[k].status = "REVOKED"
         /\ \A q \in Requests : /\ key[q] \in Rows <=> key'[q] \in Rows
                               /\ key[q] = NoRow => key'[q] = NoRow
<1>1. \A q \in Requests : key'[q] = IF q \in K THEN [key[q] EXCEPT !.status = "REVOKED"] ELSE key[q]
  BY DEF Revoked
<1>2. \A row \in Rows : /\ [row EXCEPT !.status = "REVOKED"] \in Rows
                       /\ [row EXCEPT !.status = "REVOKED"].owner = row.owner
                       /\ [row EXCEPT !.status = "REVOKED"].status = "REVOKED"
  BY DEF Rows
<1>3. key' = [q \in Requests |-> key'[q]]
  BY DEF Revoked
<1>4. \A q \in Requests : key[q] \in Rows \cup {NoRow}
  BY DEF KeysInv, RequestOK, OwnKey
<1>5. \A q \in Requests :
        /\ key[q] = NoRow => key'[q] = NoRow
        /\ key[q] \in Rows => key'[q] \in Rows /\ key'[q].owner = key[q].owner
        /\ key'[q].status = key[q].status \/ key'[q].status = "REVOKED"
  BY <1>1, <1>2, RowOrNone
<1> QED BY <1>1, <1>2, <1>3, <1>4, <1>5, RowOrNone DEF KeysGrow

(* A step after which the request's own key is what it was, or as good.    *)
LEMMA OwnKeyKept ==
  ASSUME KeysInv, NEW r \in Requests, at[r] \in Pending \ {"insert"}, NEW step, Moved(r, step), KeysGrow(r),
         key[r] = NoRow => key'[r] = NoRow
  PROVE  OwnKey(r)'
<1>1. RequestOK(r) /\ at'[r] = step /\ step \in Pending \cup Answers
  BY DEF Moved, Goto, Answer, KeysInv, FunctionsOK
<1>2. call[r].op # "create" /\ (step \in Pending => step # "insert" \/ key[r] = NoRow \/ key[r] \notin Rows)
  BY <1>1 DEF RequestOK, RequestTyped, OwnKey, Pending
<1>3. key[r] = NoRow
  BY <1>1, <1>2 DEF RequestOK, OwnKey
<1> QED BY <1>1, <1>2, <1>3, RowOrNone DEF OwnKey, Moved

LEMMA RevokeKeepsInv ==
  ASSUME KeysInv, NEW r \in Requests, RevokeKey(r) \/ RevokeKeys(r)
  PROVE  KeysInv'
<1>1. CASE RevokeKey(r)
  <2>1. at[r] = "revokeKey" /\ call[r].key \in Requests /\ key[call[r].key] \in Rows
    BY <1>1 DEF RevokeKey, KeysInv, RequestOK, KeysSeen
  <2>2. PICK step \in {"ok", "error"} : Moved(r, step) /\ (Revoked({call[r].key}) \/ (step = "error" /\ UNCHANGED key))
    BY <1>1 DEF RevokeKey, LostAnswer, Moved, Answers
  <2>3. CASE Revoked({call[r].key})
    <3> PICK K : K = {call[r].key}
      OBVIOUS
    <3>1. Revoked(K) /\ \A k \in K : key[k] \in Rows
      BY <2>1, <2>3
    <3>2. /\ KeysGrow(r) /\ key' = [q \in Requests |-> key'[q]]
          /\ \A k \in K \cap Requests : key'[k].status = "REVOKED"
          /\ key[r] = NoRow => key'[r] = NoRow
      BY <2>1, <3>1, RevokedGrow DEF Revoked, KeysGrow
    <3>3. OwnKey(r)'
      BY <2>1, <2>2, <3>2, OwnKeyKept DEF Pending
    <3>4. Told(r)
      BY <2>1, <3>2 DEF Told
    <3> QED BY <2>1, <2>2, <3>2, <3>3, <3>4, MovedKeepsInv DEF Pending
  <2>4. CASE step = "error" /\ UNCHANGED key
    BY <2>1, <2>2, <2>4, KeysSame, OwnKeyKept, MovedKeepsInv DEF Pending, KeysInv, FunctionsOK
  <2> QED BY <2>2, <2>3, <2>4
<1>2. CASE RevokeKeys(r)
  <2> PICK K : K = ActiveOf(call[r].user)
    OBVIOUS
  <2>1. at[r] = "revokeKeys" /\ RequestOK(r) /\ call[r].op = "revokeAll"
    BY <1>2 DEF RevokeKeys, KeysInv, RequestOK, RequestTyped
  <2>2. \A k \in K : key[k] \in Rows
    BY RowOrNone DEF ActiveOf, KeysInv, RequestOK, OwnKey
  <2>3. \A k \in call[r].known : k \in Requests /\ (k \in K \/ key[k].status = "REVOKED")
    BY <2>1 DEF RequestOK, KeysSeen, ActiveOf, Rows
  <2>4. PICK step \in {"ok", "error"} : Moved(r, step) /\ (Revoked(K) \/ (step = "error" /\ UNCHANGED key))
    BY <1>2 DEF RevokeKeys, LostAnswer, Moved, Answers
  <2>5. CASE Revoked(K)
    <3>1. KeysGrow(r) /\ key' = [q \in Requests |-> key'[q]] /\ (key[r] = NoRow => key'[r] = NoRow)
      BY <2>2, <2>5, RevokedGrow DEF Revoked, KeysGrow
    <3>3. OwnKey(r)'
      BY <2>1, <2>4, <3>1, OwnKeyKept DEF Pending
    <3>2. \A k \in call[r].known : key'[k].status = "REVOKED"
      <4>1. \A k \in K \cap Requests : key'[k].status = "REVOKED"
        BY <2>2, <2>5 DEF Revoked, Rows
      <4>2. ASSUME NEW k \in call[r].known PROVE key'[k].status = "REVOKED"
        <5>1. k \in Requests /\ (k \in K \/ key[k].status = "REVOKED")
          BY <2>3
        <5> QED BY <3>1, <4>1, <5>1 DEF KeysGrow
      <4> QED BY <4>2
    <3>4. Told(r)
      BY <2>1, <3>2 DEF Told
    <3> QED BY <2>1, <2>4, <3>1, <3>3, <3>4, MovedKeepsInv DEF Pending
  <2>6. CASE step = "error" /\ UNCHANGED key
    BY <2>1, <2>4, <2>6, KeysSame, OwnKeyKept, MovedKeepsInv DEF Pending, KeysInv, FunctionsOK
  <2> QED BY <2>4, <2>5, <2>6
<1> QED BY <1>1, <1>2

LEMMA UseKeepsInv ==
  ASSUME KeysInv, NEW r \in Requests, Touch(r) \/ Limit(r)
  PROVE  KeysInv'
<1>1. CASE Touch(r)
  <2> DEFINE k == call[r].key
             touched == [key[k] EXCEPT !.used = TRUE]
  <2>1. at[r] = "touch" /\ k \in Requests /\ key[k] \in Rows
    BY <1>1 DEF Touch, KeysInv, RequestOK, KeysSeen
  <2>2. PICK step \in {"limit", "error"} : Moved(r, step) /\ (key' = [key EXCEPT ![k] = touched] \/ UNCHANGED key)
    BY <1>1 DEF Touch, LostAnswer, Moved, Answers, Pending
  <2>3. touched \in Rows /\ touched.owner = key[k].owner /\ touched.status = key[k].status
    BY <2>1 DEF Rows
  <2> HIDE DEF k, touched
  <2>4. KeysGrow(r) /\ key' = [q \in Requests |-> key'[q]] /\ (key[r] = NoRow => key'[r] = NoRow)
    BY <2>1, <2>2, <2>3, RowOrNone DEF KeysGrow, KeysInv, FunctionsOK
  <2> QED BY <2>1, <2>2, <2>4, OwnKeyKept, MovedKeepsInv DEF Pending, Answers
<1>2. CASE Limit(r)
  <2>1. at[r] = "limit" /\ UNCHANGED key
    BY <1>2 DEF Limit
  <2>2. PICK step \in {"ok", "limited", "error"} : Moved(r, step)
    BY <1>2 DEF Limit, Moved, Answers
  <2> QED BY <2>1, <2>2, KeysSame, OwnKeyKept, MovedKeepsInv DEF Pending, KeysInv, FunctionsOK
<1> QED BY <1>1, <1>2

LEMMA CrashKeepsInv ==
  ASSUME KeysInv, NEW h \in Processes, Crash(h)
  PROVE  KeysInv'
<1>1. FunctionsOK'
  BY FaultsAssumption DEF KeysInv, FunctionsOK, Crash, Fault
<1>2. ASSUME NEW q \in Requests PROVE RequestOK(q)'
  <2>1. RequestOK(q)
    BY DEF KeysInv
  <2>2. CASE host[q] = h
    <3>1. at[q] \in Pending /\ at'[q] = "error" /\ host'[q] = Nobody /\ UNCHANGED <<key, call, admitted>>
      BY <2>1, <2>2, NobodyAssumption DEF RequestOK, RequestTyped, Crash
    <3> QED BY <2>1, <3>1 DEF RequestOK, RequestTyped, OwnKey, KeysSeen, LateRefused, Pending, Answers
  <2>3. CASE host[q] # h
    <3>1. at'[q] = at[q] /\ host'[q] = host[q] /\ UNCHANGED <<key, call, admitted>>
      BY <2>3 DEF Crash
    <3> QED BY <2>1, <3>1 DEF RequestOK, RequestTyped, OwnKey, KeysSeen, LateRefused
  <2> QED BY <2>2, <2>3
<1> QED BY <1>1, <1>2 DEF KeysInv

LEMMA AlwaysKeysInv == Spec => []KeysInv
<1>1. ASSUME KeysInv, UNCHANGED vars PROVE KeysInv'
  <2>1. FunctionsOK'
    BY <1>1 DEF vars, KeysInv, FunctionsOK
  <2>2. ASSUME NEW q \in Requests PROVE RequestOK(q)'
    BY <1>1 DEF vars, KeysInv, RequestOK, RequestTyped, OwnKey, KeysSeen, LateRefused
  <2> QED BY <2>1, <2>2 DEF KeysInv
<1>2. KeysInv /\ [Next]_vars => KeysInv'
  BY <1>1, ArriveKeepsInv, InsertKeepsInv, RevokeKeepsInv, UseKeepsInv, CrashKeepsInv DEF Next, RequestNext
<1> QED BY <1>2, InitKeysInv, PTL DEF Spec

-----------------------------------------------------------------------------
(* The invariants                                                          *)

LEMMA KeysInvTypes == KeysInv => TypeOK
<1> SUFFICES ASSUME KeysInv PROVE TypeOK
  OBVIOUS
<1>1. \A q \in Requests : RequestOK(q)
  BY DEF KeysInv
<1>2. key \in [Requests -> Rows \cup {NoRow}]
  BY <1>1 DEF KeysInv, FunctionsOK, RequestOK, OwnKey
<1>3. /\ call \in [Requests -> Calls \cup {NoCall}]
      /\ at \in [Requests -> {"new"} \cup Pending \cup Answers]
      /\ host \in [Requests -> Processes \cup {Nobody}]
  BY <1>1 DEF KeysInv, FunctionsOK, RequestOK, RequestTyped
<1>4. \A r \in Requests :
        /\ at[r] # "new" => call[r] \in Calls
        /\ at[r] \in Pending <=> host[r] # Nobody
        /\ at[r] \in {"revokeKey", "touch", "limit"} => call[r].key \in Requests /\ key[call[r].key] # NoRow
        /\ at[r] = "ok" /\ call[r].op = "create" => key[r] # NoRow
  BY <1>1, RowOrNone DEF RequestOK, RequestTyped, OwnKey, KeysSeen
<1> QED BY <1>2, <1>3, <1>4 DEF TypeOK, KeysInv, FunctionsOK

(* Every variable keeps to its range, a pending request has a process, and *)
(* a request that writes a row writes one that exists.                     *)
THEOREM TypesHold == Spec => []TypeOK
BY AlwaysKeysInv, KeysInvTypes, PTL

(* ApiKeyGuard lets no request pass that arrives after its key's           *)
(* revocation was answered, whatever is still under way.                   *)
THEOREM RevokedAlwaysRefused == Spec => []RevokedIsRefused
<1>1. KeysInv => RevokedIsRefused
  BY DEF KeysInv, RequestOK, LateRefused, RevokedIsRefused
<1> QED BY AlwaysKeysInv, <1>1, PTL

(* An answered revokeAll leaves none of the keys its user knew, for good.  *)
THEOREM RevokeAllIsFinal == Spec => []RevokeAllLeavesNone
<1>1. KeysInv => RevokeAllLeavesNone
  BY DEF KeysInv, RequestOK, KeysSeen, RevokeAllLeavesNone
<1> QED BY AlwaysKeysInv, <1>1, PTL

-----------------------------------------------------------------------------
(* ApiKeys implements Revocable                                            *)

Statuses == [k \in Requests |-> StatusOf(k)]

Admissions == {<<r, call[r].key>> : r \in admitted}

LEMMA StatusesKept ==
  ASSUME \A k \in Requests : key'[k].status = key[k].status
  PROVE  Statuses' = Statuses
BY DEF Statuses, StatusOf

(* A request that was admitted does not change what it asked for.          *)
LEMMA AdmissionsKept ==
  ASSUME UNCHANGED admitted, \A q \in admitted : call'[q] = call[q]
  PROVE  Admissions' = Admissions
BY DEF Admissions

LEMMA InitImplements == Init => Credential!Init
<1> SUFFICES ASSUME Init PROVE Credential!Init
  OBVIOUS
<1>1. \A k \in Requests : StatusOf(k) = "absent"
  BY DEF Init, StatusOf, NoRow
<1>2. Admissions = {}
  BY DEF Init, Admissions
<1> QED BY <1>1, <1>2 DEF Credential!Init, Admissions

Stutters == UNCHANGED <<Statuses, Admissions>>

LEMMA AskStutters ==
  ASSUME KeysInv, NEW r \in Requests, NEW op, NEW u, NEW k, Ask(r, op, u, k), UNCHANGED <<key, admitted>>
  PROVE  Stutters
<1>1. at[r] = "new" /\ r \notin admitted /\ admitted \subseteq Requests
  BY DEF Ask, KeysInv, FunctionsOK, RequestOK
<1>2. \A q \in admitted : call'[q] = call[q]
  BY <1>1 DEF Ask, KeysInv, FunctionsOK
<1> QED BY <1>2, StatusesKept, AdmissionsKept DEF Stutters

(* A use whose key is found ACTIVE is admitted by a credential that lives. *)
LEMMA FindActiveAdmits ==
  ASSUME KeysInv, NEW r \in Requests, NEW u \in Users, NEW h \in Processes, NEW k \in KnownOf(u), FindActive(r, u, k, h)
  PROVE  Stutters \/ Credential!Admit(r, k)
<1>1. k \in Requests /\ at[r] = "new" /\ r \notin admitted /\ admitted \subseteq Requests
  BY DEF FindActive, Ask, KnownOf, KeysInv, FunctionsOK, RequestOK
<1>2. CASE UNCHANGED admitted
  <2>1. Ask(r, "use", u, k) /\ UNCHANGED <<key, admitted>>
    BY <1>2 DEF FindActive
  <2> QED BY <2>1, AskStutters
<1>3. CASE key[k].status = "ACTIVE" /\ admitted' = admitted \cup {r}
  <2>1. call'[r].key = k /\ \A q \in admitted : call'[q] = call[q]
    BY <1>1 DEF FindActive, Ask, KeysInv, FunctionsOK
  <2>2. Admissions' = Admissions \cup {<<r, k>>}
    BY <1>3, <2>1 DEF Admissions
  <2>3. StatusOf(k) = "live" /\ Statuses' = Statuses
    BY <1>3, StatusesKept DEF StatusOf, FindActive
  <2> QED BY <1>1, <2>2, <2>3 DEF Credential!Admit, Statuses, Admissions
<1> QED BY <1>2, <1>3 DEF FindActive

LEMMA InsertIssues ==
  ASSUME KeysInv, NEW r \in Requests, Insert(r)
  PROVE  Stutters \/ Credential!Issue(r)
<1> DEFINE row == [owner |-> call[r].user, status |-> "ACTIVE", used |-> FALSE]
<1>1. key[r] = NoRow /\ Admissions' = Admissions
  BY AdmissionsKept DEF Insert, KeysInv, RequestOK, OwnKey
<1>2. CASE UNCHANGED key
  BY <1>1, <1>2, StatusesKept DEF Stutters
<1>3. CASE key' = [key EXCEPT ![r] = row]
  <2>1. StatusOf(r) = "absent" /\ row.status = "ACTIVE"
    BY <1>1 DEF StatusOf, NoRow
  <2>2. \A q \in Requests : key'[q] = IF q = r THEN row ELSE key[q]
    BY <1>3 DEF KeysInv, FunctionsOK
  <2> HIDE DEF row
  <2>3. Statuses' = [Statuses EXCEPT ![r] = "live"]
    BY <2>1, <2>2 DEF Statuses, StatusOf
  <2> QED BY <1>1, <2>1, <2>3 DEF Credential!Issue, Statuses, Admissions
<1> QED BY <1>2, <1>3 DEF Insert, LostAnswer

LEMMA RevokedRevokes ==
  ASSUME KeysInv, NEW K \in SUBSET Requests, Revoked(K), \A k \in K : key[k] \in Rows, Admissions' = Admissions
  PROVE  Credential!Revoke(K)
<1>1. \A row \in Rows : row.status # "absent" /\ row.status \in {"ACTIVE", "REVOKED"}
                       /\ [row EXCEPT !.status = "REVOKED"].status = "REVOKED"
  BY DEF Rows
<1>2. \A k \in K : StatusOf(k) # "absent"
  BY <1>1 DEF StatusOf
<1>3. \A q \in Requests : key'[q].status = IF q \in K THEN "REVOKED" ELSE key[q].status
  BY <1>1 DEF Revoked
<1>4. Statuses' = [c \in Requests |-> IF c \in K THEN "revoked" ELSE Statuses[c]]
  BY <1>3 DEF Statuses, StatusOf
<1> QED BY <1>2, <1>4 DEF Credential!Revoke, Statuses, Admissions

LEMMA RevokeRevokes ==
  ASSUME KeysInv, NEW r \in Requests, RevokeKey(r) \/ RevokeKeys(r)
  PROVE  Stutters \/ \E C \in SUBSET Requests : Credential!Revoke(C)
<1>1. Admissions' = Admissions
  BY AdmissionsKept DEF RevokeKey, RevokeKeys
<1>2. CASE UNCHANGED key
  BY <1>1, <1>2, StatusesKept DEF Stutters
<1>3. CASE RevokeKey(r) /\ Revoked({call[r].key})
  <2>1. PICK K : K = {call[r].key}
    OBVIOUS
  <2>2. K \in SUBSET Requests /\ \A k \in K : key[k] \in Rows
    BY <1>3, <2>1 DEF RevokeKey, KeysInv, RequestOK, KeysSeen
  <2> QED BY <1>1, <1>3, <2>1, <2>2, RevokedRevokes
<1>4. CASE RevokeKeys(r) /\ Revoked(ActiveOf(call[r].user))
  <2>1. PICK K : K = ActiveOf(call[r].user)
    OBVIOUS
  <2>2. K \in SUBSET Requests /\ \A k \in K : key[k] \in Rows
    BY <2>1, RowOrNone DEF ActiveOf, KeysInv, RequestOK, OwnKey
  <2> QED BY <1>1, <1>4, <2>1, <2>2, RevokedRevokes
<1> QED BY <1>2, <1>3, <1>4 DEF RevokeKey, RevokeKeys, LostAnswer

LEMMA UseStutters ==
  ASSUME KeysInv, NEW r \in Requests, Touch(r) \/ Limit(r)
  PROVE  Stutters
<1>1. Admissions' = Admissions
  BY AdmissionsKept DEF Touch, Limit
<1>2. CASE UNCHANGED key
  BY <1>1, <1>2, StatusesKept DEF Stutters
<1>3. CASE Touch(r) /\ key' = [key EXCEPT ![call[r].key].used = TRUE]
  <2>1. PICK k : k = call[r].key
    OBVIOUS
  <2>2. k \in Requests /\ key[k] \in Rows /\ key' = [key EXCEPT ![k].used = TRUE]
    BY <1>3, <2>1 DEF Touch, KeysInv, RequestOK, KeysSeen
  <2>3. [key[k] EXCEPT !.used = TRUE].status = key[k].status
    BY <2>2 DEF Rows
  <2>4. \A q \in Requests : key'[q].status = key[q].status
    BY <2>2, <2>3 DEF KeysInv, FunctionsOK
  <2> QED BY <1>1, <2>4, StatusesKept DEF Stutters
<1> QED BY <1>2, <1>3 DEF Touch, Limit, LostAnswer

LEMMA StepImplements ==
  ASSUME KeysInv, [Next]_vars
  PROVE  Credential!Next \/ Stutters
<1>1. CASE UNCHANGED vars
  <2>1. UNCHANGED <<key, call, admitted>>
    BY <1>1 DEF vars
  <2> QED BY <2>1, StatusesKept, AdmissionsKept DEF Stutters
<1>2. ASSUME NEW r \in Requests, NEW u \in Users, NEW h \in Processes, Arrive(r, u, h)
      PROVE  Credential!Next \/ Stutters
  <2>1. CASE Create(r, u, h) \/ RevokeAll(r, u, h)
    BY <2>1, AskStutters DEF Create, RevokeAll
  <2>2. ASSUME NEW k \in Known, FindKey(r, u, k, h) PROVE Stutters
    BY <2>2, AskStutters DEF FindKey
  <2>3. ASSUME NEW k \in KnownOf(u), FindActive(r, u, k, h) PROVE Credential!Next \/ Stutters
    BY <2>3, FindActiveAdmits DEF Credential!Next, KnownOf
  <2> QED BY <1>2, <2>1, <2>2, <2>3 DEF Arrive
<1>3. ASSUME NEW r \in Requests, RequestNext(r) PROVE Credential!Next \/ Stutters
  BY <1>3, InsertIssues, RevokeRevokes, UseStutters DEF RequestNext, Credential!Next
<1>4. ASSUME NEW h \in Processes, Crash(h) PROVE Stutters
  <2>1. UNCHANGED <<key, call, admitted>>
    BY <1>4 DEF Crash
  <2> QED BY <2>1, StatusesKept, AdmissionsKept DEF Stutters
<1> QED BY <1>1, <1>2, <1>3, <1>4 DEF Next

(* ApiKeys implements Revocable: only a live key admits a use, and a       *)
(* revoked key never comes back to life.                                   *)
THEOREM KeysAreRevocable == Spec => ImplementsRevocable
<1>1. KeysInv /\ [Next]_vars => [Credential!Next]_(Credential!credentialVars)
  BY StepImplements DEF Credential!credentialVars, Stutters, Statuses, Admissions
<1> QED BY <1>1, InitImplements, AlwaysKeysInv, PTL DEF Spec, ImplementsRevocable, Credential!Spec

=============================================================================
