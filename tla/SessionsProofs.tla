---------------------------- MODULE SessionsProofs ----------------------------
(***************************************************************************)
(* Theorems about Sessions for all clients, emails, requests, processes,   *)
(* lifetimes of tokens, rotations and faults.                              *)
(***************************************************************************)
EXTENDS Sessions, TLAPS

(***************************************************************************)
(* The inductive invariant, request by request: what a request that got    *)
(* so far has learned of the account or of the token it is about, and that *)
(* the accounts and the rows can only change so that it stays true.        *)
(***************************************************************************)
RequestTyped(q) ==
  /\ call[q] \in Calls \cup {NoCall}
  /\ at[q] \in {"new"} \cup Pending \cup Answers
  /\ host[q] \in Processes \cup {Nobody}
  /\ at[q] = "new" <=> call[q] = NoCall
  /\ at[q] \in Pending <=> host[q] # Nobody
  /\ at[q] = "create" => call[q].op = "register"
  /\ at[q] = "upsert" => call[q].op = "google"
  /\ at[q] \in {"row", "revoke"} => call[q].op = "refresh"
  /\ at[q] = "issue" => call[q].op \in LoginOps \cup {"refresh"}
  /\ call[q].op \in LoginOps => call[q].email \in Emails
  /\ q \in admitted => at[q] # "new"

(* The pair a request was given.                                           *)
OwnPair(q) ==
  /\ pair[q] \in Pairs \cup {NoPair}
  /\ at[q] \in {"new"} \cup Pending => pair[q] = NoPair
  /\ at[q] = "ok" /\ call[q].op # "use" => pair[q] \in Pairs

(* The token it came with: it exists, and is revoked once refresh got past *)
(* its second statement.                                                   *)
TokenSeen(q) ==
  /\ call[q].op \in TokenOps => call[q].token \in Requests /\ pair[call[q].token] \in Pairs
  /\ at[q] = "revoke" => pair[call[q].token].row \in {"live", "revoked"}
  /\ call[q].op = "refresh" /\ at[q] \in {"issue", "ok"} => pair[call[q].token].row = "revoked"

LateUnserved(q) ==
  call[q] # NoCall /\ call[q].late =>
    /\ call[q].op = "refresh"
    /\ pair[call[q].token].row = "revoked"
    /\ at[q] \in {"row", "forged", "expired", "revoked", "error"}
    /\ q \notin admitted
    /\ pair[q] = NoPair

PasswordSeen(q) ==
  at[q] \in {"issue", "ok"} /\ call[q].op \in {"register", "login"} =>
    account[call[q].email].password = call[q].who

RequestOK(q) == RequestTyped(q) /\ OwnPair(q) /\ TokenSeen(q) /\ LateUnserved(q) /\ PasswordSeen(q)

Accounts == [password : Clients \cup {Nobody}, google : Clients \cup {Nobody}]

SharedOK ==
  /\ account \in [Emails -> Accounts]
  /\ pair = [q \in Requests |-> pair[q]]
  /\ call = [q \in Requests |-> call[q]]
  /\ at = [q \in Requests |-> at[q]]
  /\ host = [q \in Requests |-> host[q]]
  /\ admitted \subseteq Requests
  /\ latest \in 0..MaxRotations
  /\ secret \in [Processes -> 0..latest]
  /\ now \in 0..MaxTime
  /\ faults \in 0..MaxFaults

SessionsInv == SharedOK /\ \A q \in Requests : RequestOK(q)

LEMMA PairOrNone ==
  NoPair \notin Pairs /\ NoPair.row = "absent" /\ \A p \in Pairs : p.row \in {"none", "live", "revoked"}
BY DEF NoPair, Pairs

LEMMA CallOrNone ==
  NoCall \notin Calls /\ NoCall.op = "none" /\ \A c \in Calls : c.op \in LoginOps \cup TokenOps
BY DEF NoCall, Calls, LoginOps, TokenOps

LEMMA InitSessionsInv == Init => SessionsInv
<1> SUFFICES ASSUME Init PROVE SessionsInv
  OBVIOUS
<1>1. SharedOK
  BY SettingsAssumption DEF Init, SharedOK, Accounts, NoAccount
<1>2. ASSUME NEW q \in Requests PROVE RequestOK(q)
  <2>1. at[q] = "new" /\ call[q] = NoCall /\ host[q] = Nobody /\ pair[q] = NoPair /\ admitted = {}
    BY DEF Init
  <2> QED BY <2>1, CallOrNone, PairOrNone
      DEF RequestOK, RequestTyped, OwnPair, TokenSeen, LateUnserved, PasswordSeen, Pending, Answers, LoginOps, TokenOps
<1> QED BY <1>1, <1>2 DEF SessionsInv

-----------------------------------------------------------------------------
(* Pairs stay, revoked rows stay revoked, passwords stay; only r's own     *)
(* pair may appear.                                                        *)
Grow(r) ==
  /\ \A k \in Requests :
       /\ pair[k] \in Pairs => pair'[k] \in Pairs
       /\ pair[k].row = "revoked" => pair'[k].row = "revoked"
       /\ pair[k].row \in {"live", "revoked"} => pair'[k].row \in {"live", "revoked"}
       /\ k # r => pair'[k] = pair[k] \/ pair[k] \in Pairs
  /\ \A e \in Emails : account[e].password # Nobody => account'[e].password = account[e].password

LEMMA OthersKept ==
  ASSUME SessionsInv, NEW r, Grow(r), NEW q \in Requests, q # r,
         call'[q] = call[q], at'[q] = at[q], host'[q] = host[q], q \in admitted' => q \in admitted
  PROVE  RequestOK(q)'
<1>1. RequestOK(q)
  BY DEF SessionsInv
<1>2. RequestTyped(q)'
  BY <1>1 DEF RequestOK, RequestTyped
<1>3. OwnPair(q)'
  BY <1>1, PairOrNone DEF RequestOK, OwnPair, Grow
<1>4. TokenSeen(q)'
  <2>1. call[q].op = "refresh" => call[q].op \in TokenOps
    BY DEF TokenOps
  <2>2. at[q] = "revoke" => call[q].op = "refresh"
    BY <1>1 DEF RequestOK, RequestTyped
  <2> QED BY <1>1, <2>1, <2>2 DEF RequestOK, TokenSeen, Grow
<1>5. LateUnserved(q)'
  <2>1. call[q].op = "refresh" => call[q].token \in Requests
    BY <1>1 DEF RequestOK, TokenSeen, TokenOps
  <2> QED BY <1>1, <2>1, PairOrNone DEF RequestOK, LateUnserved, Grow
<1>6. PasswordSeen(q)'
  <2>1. ASSUME call[q].op \in {"register", "login"}
        PROVE  call[q].email \in Emails /\ call[q].who \in Clients
    BY <1>1, <2>1, CallOrNone DEF RequestOK, RequestTyped, LoginOps, Calls
  <2> QED BY <1>1, <2>1, NobodyAssumption DEF RequestOK, PasswordSeen, Grow
<1> QED BY <1>2, <1>3, <1>4, <1>5, <1>6 DEF RequestOK

(* A step of one request.                                                  *)
LEMMA OneStep ==
  ASSUME SessionsInv, SharedOK', NEW r \in Requests, Grow(r), RequestOK(r)',
         \A q \in Requests \ {r} : call'[q] = call[q] /\ at'[q] = at[q] /\ host'[q] = host[q]
                                   /\ (q \in admitted' => q \in admitted)
  PROVE  SessionsInv'
BY OthersKept DEF SessionsInv

LEMMA AllSame == ASSUME NEW r, UNCHANGED <<pair, account>> PROVE Grow(r)
BY DEF Grow

(* A client holds pairs; a token that was exchanged has a revoked row.     *)
LEMMA HeldPairs ==
  ASSUME SessionsInv, NEW c, NEW t \in Held(c)
  PROVE  t \in Requests /\ pair[t] \in Pairs
BY DEF SessionsInv, RequestOK, OwnPair, Held

LEMMA SpentRevoked ==
  ASSUME SessionsInv, NEW t, Spent(t)
  PROVE  pair[t].row = "revoked"
BY DEF SessionsInv, RequestOK, TokenSeen, Spent

-----------------------------------------------------------------------------
(* Every step keeps the invariant                                          *)

LEMMA AskedKeepsInv ==
  ASSUME SessionsInv, NEW r \in Requests, NEW c \in Clients, NEW h \in Processes, NEW op \in LoginOps \cup TokenOps,
         NEW e \in Emails \cup {Nobody}, NEW t \in Requests \cup {Nobody}, NEW step \in Pending \cup Answers,
         Ask(r, c, op, e, t), Begin(r, h, step), Grow(r), pair' = [q \in Requests |-> pair'[q]],
         pair'[r] \in Pairs \cup {NoPair}, step # "ok" => pair'[r] = NoPair,
         step = "ok" /\ op # "use" => pair'[r] \in Pairs,
         op \in LoginOps => e \in Emails,
         op \in TokenOps => t \in Requests /\ pair[t] \in Pairs,
         \/ op = "register" /\ step \in {"create", "refused"}
         \/ op = "login" /\ step \in {"issue", "refused"} /\ (step = "issue" => account[e].password = c)
         \/ op = "google" /\ step \in {"upsert", "refused"}
         \/ op \in {"use", "exchange"} /\ step \in {"forged", "expired", "ok"}
         \/ op = "refresh" /\ step \in {"forged", "expired", "row"}
  PROVE  SessionsInv'
<1> DEFINE late == op = "refresh" /\ Spent(t)
           asked == [op |-> op, who |-> c, email |-> e, token |-> t, late |-> late]
<1>1. RequestOK(r) /\ at[r] = "new" /\ call[r] = NoCall /\ pair[r] = NoPair /\ r \notin admitted
  BY DEF SessionsInv, RequestOK, RequestTyped, OwnPair, Ask
<1>2. asked \in Calls
  BY DEF Calls
<1>3. call'[r] = asked /\ at'[r] = step /\ host'[r] = (IF step \in Pending THEN h ELSE Nobody)
  BY DEF Ask, Begin, SessionsInv, SharedOK
<1>4. /\ asked.op = op /\ asked.who = c /\ asked.email = e /\ asked.token = t /\ asked.late = late
      /\ asked # NoCall
  BY <1>2, CallOrNone
<1>5. late => op = "refresh" /\ pair'[t].row = "revoked"
  BY SpentRevoked DEF Grow, TokenOps
<1>6. op \in TokenOps => pair'[t] \in Pairs
  BY DEF Grow
<1> HIDE DEF late, asked
<1>7. RequestTyped(r)'
  BY <1>1, <1>2, <1>3, <1>4, NobodyAssumption DEF RequestTyped, Pending, Answers, LoginOps, Ask
<1>8. OwnPair(r)'
  BY <1>3, <1>4 DEF OwnPair, Pending
<1>9. TokenSeen(r)'
  BY <1>3, <1>4, <1>6 DEF TokenSeen, TokenOps
<1>10. LateUnserved(r)'
  BY <1>1, <1>3, <1>4, <1>5 DEF LateUnserved, Ask
<1>11. PasswordSeen(r)'
  BY <1>3, <1>4 DEF PasswordSeen, Ask
<1>12. RequestOK(r)'
  BY <1>7, <1>8, <1>9, <1>10, <1>11 DEF RequestOK
<1>13. SharedOK'
  BY DEF SessionsInv, SharedOK, Ask, Begin, fleetVars
<1>14. \A q \in Requests \ {r} : call'[q] = call[q] /\ at'[q] = at[q] /\ host'[q] = host[q]
                                /\ (q \in admitted' => q \in admitted)
  BY DEF Ask, Begin, SessionsInv, SharedOK
<1> QED BY <1>12, <1>13, <1>14, OneStep

(* What TokenService signs is a pair.                                      *)
LEMMA SignedPair ==
  ASSUME SessionsInv, NEW r \in Requests, NEW h \in Processes, NEW email \in Emails, NEW row \in {"none", "live"},
         pair[r] = NoPair, Signed(r, h, email, row), UNCHANGED account
  PROVE  /\ Grow(r) /\ pair' = [q \in Requests |-> pair'[q]] /\ pair'[r] \in Pairs /\ pair'[r].row = row
         /\ \A q \in Requests \ {r} : pair'[q] = pair[q]
<1> DEFINE new == [email |-> email, secret |-> jwtSecret(h), iat |-> now, row |-> row]
<1>1. jwtSecret(h) \in 0..MaxRotations /\ now \in 0..MaxTime
  BY SettingsAssumption DEF jwtSecret, SessionsInv, SharedOK
<1>2. new \in Pairs /\ new.row = row
  BY <1>1 DEF Pairs
<1> HIDE DEF new
<1>3. pair' = [pair EXCEPT ![r] = new]
  BY DEF Signed, new
<1>4. pair'[r] = new /\ (\A q \in Requests \ {r} : pair'[q] = pair[q]) /\ pair' = [q \in Requests |-> pair'[q]]
  BY <1>3 DEF SessionsInv, SharedOK
<1> QED BY <1>2, <1>4, PairOrNone DEF Grow

LEMMA ArriveKeepsInv ==
  ASSUME SessionsInv, NEW r \in Requests, NEW h \in Processes, Arrive(r, h)
  PROVE  SessionsInv'
<1>1. \A c \in Clients, op \in LoginOps \cup TokenOps : \A e, t : Ask(r, c, op, e, t) => pair[r] = NoPair /\ UNCHANGED account
  BY DEF Ask, SessionsInv, RequestOK, OwnPair
<1>2. ASSUME NEW v \in Own, Register(r, v[1], v[2], h) \/ Login(r, v[1], v[2], h) \/ GoogleLogin(r, v[1], v[2], h)
      PROVE  SessionsInv'
  <2>1. PICK c \in Clients, e \in Emails : v = <<c, e>>
    BY OwnAssumption
  <2>2. PICK op \in LoginOps, step \in {"create", "issue", "upsert", "refused"} :
          /\ Ask(r, c, op, e, Nobody) /\ Begin(r, h, step) /\ UNCHANGED pair
          /\ \/ op = "register" /\ step \in {"create", "refused"}
             \/ op = "login" /\ step \in {"issue", "refused"} /\ (step = "issue" => account[e].password = c)
             \/ op = "google" /\ step \in {"upsert", "refused"}
    BY <1>2, <2>1 DEF Register, Login, GoogleLogin, verifyPassword, LoginOps
  <2>3. Grow(r) /\ pair' = [q \in Requests |-> pair'[q]] /\ pair'[r] = NoPair
    BY <1>1, <2>2, AllSame DEF SessionsInv, SharedOK
  <2>4. op \notin TokenOps /\ step \in Pending \cup Answers /\ step # "ok"
    BY DEF LoginOps, TokenOps, Pending, Answers
  <2> QED BY <2>2, <2>3, <2>4, AskedKeepsInv
<1>3. ASSUME NEW c \in Clients, NEW op \in TokenOps, NEW t \in Held(c), Present(r, c, op, t, h)
      PROVE  SessionsInv'
  <2>1. t \in Requests /\ pair[t] \in Pairs /\ op \notin LoginOps
    BY HeldPairs DEF LoginOps, TokenOps
  <2>2. PICK step \in {"forged", "expired", "row", "ok"} :
          /\ Ask(r, c, op, Nobody, t) /\ Begin(r, h, step)
          /\ op = "refresh" => step # "ok"
          /\ op # "refresh" => step # "row"
          /\ \/ UNCHANGED pair /\ (step = "ok" => op = "use")
             \/ op = "exchange" /\ step = "ok" /\ Signed(r, h, pair[t].email, "none")
    BY <1>3 DEF Present
  <2>3. pair[r] = NoPair /\ UNCHANGED account
    BY <1>1, <2>2
  <2>4. /\ Grow(r) /\ pair' = [q \in Requests |-> pair'[q]] /\ pair'[r] \in Pairs \cup {NoPair}
        /\ step # "ok" => pair'[r] = NoPair
        /\ step = "ok" /\ op # "use" => pair'[r] \in Pairs
    <3>1. CASE UNCHANGED pair /\ (step = "ok" => op = "use")
      BY <2>3, <3>1, AllSame DEF SessionsInv, SharedOK
    <3>2. CASE op = "exchange" /\ step = "ok" /\ Signed(r, h, pair[t].email, "none")
      <4>1. PICK email \in Emails : email = pair[t].email
        BY <2>1 DEF Pairs
      <4> QED BY <2>3, <3>2, <4>1, SignedPair
    <3> QED BY <2>2, <3>1, <3>2
  <2>5. step \in Pending \cup Answers /\ op \in {"refresh", "exchange", "use"}
    BY DEF Pending, Answers, TokenOps
  <2> QED BY <2>1, <2>2, <2>4, <2>5, AskedKeepsInv
<1> QED BY <1>2, <1>3 DEF Arrive

(* A pending request goes on to its next statement or is answered.         *)
Moved(r, step) ==
  /\ UNCHANGED <<call, fleetVars, now>>
  /\ UNCHANGED faults \/ Fault
  /\ admitted' = IF step = "revoke" THEN admitted \cup {r} ELSE admitted
  /\ \/ step \in Pending /\ Goto(r, step)
     \/ step \in Answers /\ Answer(r, step)

(* What a request has done to get where it goes.                           *)
Earned(r, step) ==
  \/ at[r] \in {"create", "upsert"} /\ step = "issue"
     /\ (call[r].op = "register" => account'[call[r].email].password = call[r].who)
  \/ at[r] = "row" /\ step = "revoke" /\ pair[call[r].token].row = "live" /\ UNCHANGED <<pair, account>>
  \/ at[r] = "row" /\ step = "revoked" /\ UNCHANGED <<pair, account>>
  \/ at[r] = "revoke" /\ step = "issue" /\ pair'[call[r].token].row = "revoked"
  \/ at[r] = "issue" /\ step = "ok" /\ UNCHANGED account
  \/ at[r] \in Pending \ {"row"} /\ step = "error"

LEMMA MovedKeepsInv ==
  ASSUME SessionsInv, NEW r \in Requests, NEW step, Moved(r, step), Earned(r, step),
         Grow(r), pair' = [q \in Requests |-> pair'[q]], account' \in [Emails -> Accounts],
         pair'[r] \in Pairs \cup {NoPair}, step \notin {"ok", "error"} => pair'[r] = NoPair,
         step = "ok" => pair'[r] \in Pairs
  PROVE  SessionsInv'
<1>1. RequestOK(r) /\ at[r] \in Pending
  BY DEF SessionsInv, Earned, Pending
<1>2. /\ call'[r] = call[r] /\ at'[r] = step /\ step \in Pending \cup Answers
      /\ host'[r] = (IF step \in Pending THEN host[r] ELSE Nobody)
  BY DEF Moved, Goto, Answer, SessionsInv, SharedOK, Pending, Answers
<1>3. call[r] \in Calls /\ call[r] # NoCall
  BY <1>1, CallOrNone DEF RequestOK, RequestTyped, Pending
<1>4. RequestTyped(r)'
  BY <1>1, <1>2, <1>3 DEF RequestOK, RequestTyped, Earned, Pending, Answers, LoginOps
<1>5. OwnPair(r)'
  BY <1>2 DEF OwnPair, Pending
<1>6. TokenSeen(r)'
  <2>1. call[r].op = "refresh" => call[r].op \in TokenOps /\ call[r].op \notin LoginOps
    BY DEF TokenOps, LoginOps
  <2>2. at[r] \in {"create", "upsert"} => call[r].op # "refresh"
    BY <1>1 DEF RequestOK, RequestTyped
  <2>3. at[r] = "row" => call[r].op = "refresh"
    BY <1>1 DEF RequestOK, RequestTyped
  <2>4. call[r].op \in TokenOps => call'[r].token \in Requests /\ pair'[call'[r].token] \in Pairs
    BY <1>1, <1>2 DEF RequestOK, TokenSeen, Grow
  <2>5. at'[r] = "revoke" => pair'[call'[r].token].row \in {"live", "revoked"}
    BY <1>2 DEF Earned
  <2>6. call[r].op = "refresh" /\ at'[r] \in {"issue", "ok"} => pair'[call'[r].token].row = "revoked"
    BY <1>1, <1>2, <2>1, <2>2 DEF RequestOK, TokenSeen, Grow, Earned
  <2> QED BY <1>2, <2>4, <2>5, <2>6 DEF TokenSeen
<1>7. LateUnserved(r)'
  <2>1. call[r].late => /\ at[r] = "row" /\ r \notin admitted /\ call[r].op = "refresh"
                        /\ pair[call[r].token].row = "revoked"
    BY <1>1, <1>3 DEF RequestOK, LateUnserved, Pending
  <2>2. call[r].late => step = "revoked" /\ UNCHANGED <<pair, admitted>>
    BY <2>1 DEF Earned, Moved
  <2>3. call[r].late => pair'[r] = NoPair
    BY <2>2
  <2> QED BY <1>2, <2>1, <2>2, <2>3 DEF LateUnserved
<1>8. PasswordSeen(r)'
  <2>1. ASSUME call[r].op \in {"register", "login"}
        PROVE  /\ call[r].email \in Emails /\ call[r].who \in Clients
               /\ at[r] \notin {"row", "revoke", "upsert"} /\ (at[r] = "create" => call[r].op = "register")
    BY <1>1, <1>3, <2>1 DEF RequestOK, RequestTyped, LoginOps, Calls
  <2> QED BY <1>1, <1>2, <2>1, NobodyAssumption DEF RequestOK, PasswordSeen, Grow, Earned
<1>9. RequestOK(r)'
  BY <1>4, <1>5, <1>6, <1>7, <1>8 DEF RequestOK
<1>10. SharedOK'
  BY SettingsAssumption DEF SessionsInv, SharedOK, Moved, Goto, Answer, Fault, fleetVars
<1>11. \A q \in Requests \ {r} : call'[q] = call[q] /\ at'[q] = at[q] /\ host'[q] = host[q]
                                /\ (q \in admitted' => q \in admitted)
  BY DEF Moved, Goto, Answer, SessionsInv, SharedOK
<1> QED BY <1>9, <1>10, <1>11, OneStep

(* A step that touches no pair and no account.                             *)
LEMMA MovedQuietly ==
  ASSUME SessionsInv, NEW r \in Requests, at[r] \in Pending, NEW step, Moved(r, step), Earned(r, step),
         UNCHANGED <<pair, account>>, step # "ok"
  PROVE  SessionsInv'
<1>1. pair[r] = NoPair /\ pair'[r] = NoPair
  BY DEF SessionsInv, RequestOK, OwnPair
<1>2. pair' = [q \in Requests |-> pair'[q]] /\ account' \in [Emails -> Accounts]
  BY DEF SessionsInv, SharedOK
<1> QED BY <1>1, <1>2, AllSame, MovedKeepsInv

(* A step that changes an account that has no password, or keeps it.       *)
LEMMA AccountKeepsInv ==
  ASSUME SessionsInv, NEW r \in Requests, at[r] \in Pending, NEW step, Moved(r, step), Earned(r, step),
         UNCHANGED pair, step # "ok", NEW e \in Emails, NEW row \in Accounts, account' = [account EXCEPT ![e] = row],
         account[e].password # Nobody => row.password = account[e].password
  PROVE  SessionsInv'
<1>1. pair[r] = NoPair /\ pair'[r] = NoPair
  BY DEF SessionsInv, RequestOK, OwnPair
<1>2. pair' = [q \in Requests |-> pair'[q]] /\ account' \in [Emails -> Accounts]
  BY DEF SessionsInv, SharedOK
<1>3. Grow(r)
  BY DEF Grow, SessionsInv, SharedOK
<1> QED BY <1>1, <1>2, <1>3, MovedKeepsInv

LEMMA CreateAccountKeepsInv ==
  ASSUME SessionsInv, NEW r \in Requests, CreateAccount(r)
  PROVE  SessionsInv'
<1> PICK e : e = call[r].email
  OBVIOUS
<1>1. /\ at[r] = "create" /\ at[r] \in Pending /\ call[r] \in Calls /\ call[r].op = "register" /\ e \in Emails
      /\ UNCHANGED pair
  BY CallOrNone DEF CreateAccount, SessionsInv, RequestOK, RequestTyped, LoginOps, Pending
<1>2. PICK step \in {"issue", "error"} :
        /\ Moved(r, step)
        /\ \/ account[e] = NoAccount /\ account' = [account EXCEPT ![e].password = call[r].who]
           \/ step = "error" /\ UNCHANGED account
  BY DEF CreateAccount, LostAnswer, Moved, Pending, Answers
<1>3. CASE step = "error" /\ UNCHANGED account
  BY <1>1, <1>3, <1>2, MovedQuietly DEF Earned
<1>4. CASE account[e] = NoAccount /\ account' = [account EXCEPT ![e].password = call[r].who]
  <2>1. PICK row : row = [account[e] EXCEPT !.password = call[r].who]
    OBVIOUS
  <2>2. row \in Accounts /\ row.password = call[r].who
    BY <1>1, <2>1 DEF SessionsInv, SharedOK, Accounts, Calls
  <2>3. account' = [account EXCEPT ![e] = row] /\ account'[e] = row
    BY <1>1, <1>4, <2>1 DEF SessionsInv, SharedOK
  <2>4. account[e].password = Nobody
    BY <1>4 DEF NoAccount
  <2>5. Earned(r, step)
    BY <1>1, <1>2, <2>2, <2>3 DEF Earned
  <2> QED BY <1>1, <1>2, <2>2, <2>3, <2>4, <2>5, AccountKeepsInv
<1> QED BY <1>2, <1>3, <1>4

LEMMA UpsertKeepsInv ==
  ASSUME SessionsInv, NEW r \in Requests, Upsert(r)
  PROVE  SessionsInv'
<1> PICK e : e = call[r].email
  OBVIOUS
<1>1. /\ at[r] = "upsert" /\ at[r] \in Pending /\ call[r] \in Calls /\ call[r].op = "google" /\ e \in Emails
      /\ UNCHANGED pair
  BY CallOrNone DEF Upsert, SessionsInv, RequestOK, RequestTyped, LoginOps, Pending
<1>2. PICK step \in {"issue", "error"} :
        /\ Moved(r, step)
        /\ \/ account' = [account EXCEPT ![e].google = call[r].who]
           \/ step = "error" /\ UNCHANGED account
  BY DEF Upsert, LostAnswer, Moved, Pending, Answers
<1>3. Earned(r, step)
  BY <1>1, <1>2 DEF Earned
<1>4. CASE UNCHANGED account
  BY <1>1, <1>2, <1>3, <1>4, MovedQuietly
<1>5. CASE account' = [account EXCEPT ![e].google = call[r].who]
  <2>1. PICK row : row = [account[e] EXCEPT !.google = call[r].who]
    OBVIOUS
  <2>2. row \in Accounts /\ row.password = account[e].password
    BY <1>1, <2>1 DEF SessionsInv, SharedOK, Accounts, Calls
  <2>3. account' = [account EXCEPT ![e] = row]
    BY <1>1, <1>5, <2>1 DEF SessionsInv, SharedOK
  <2> QED BY <1>1, <1>2, <1>3, <2>2, <2>3, AccountKeepsInv
<1> QED BY <1>2, <1>4, <1>5

LEMMA FindRowKeepsInv ==
  ASSUME SessionsInv, NEW r \in Requests, FindRow(r)
  PROVE  SessionsInv'
<1>1. at[r] = "row" /\ at[r] \in Pending /\ UNCHANGED <<pair, account>>
  BY DEF FindRow, Pending
<1>2. PICK step \in {"revoke", "revoked"} : Moved(r, step) /\ (step = "revoke" => pair[call[r].token].row = "live")
  BY DEF FindRow, Moved, Pending, Answers
<1>3. Earned(r, step)
  BY <1>1, <1>2 DEF Earned
<1> QED BY <1>1, <1>2, <1>3, MovedQuietly

LEMMA RevokeKeepsInv ==
  ASSUME SessionsInv, NEW r \in Requests, Revoke(r)
  PROVE  SessionsInv'
<1> PICK t : t = call[r].token
  OBVIOUS
<1>1. /\ at[r] = "revoke" /\ at[r] \in Pending /\ t \in Requests /\ pair[t] \in Pairs /\ pair[r] = NoPair /\ r # t
      /\ pair[t].row \in {"live", "revoked"} /\ UNCHANGED account
  BY PairOrNone DEF Revoke, SessionsInv, RequestOK, RequestTyped, TokenSeen, OwnPair, Pending, TokenOps
<1>2. PICK step \in {"issue", "error"} :
        /\ Moved(r, step)
        /\ pair' = [pair EXCEPT ![t].row = "revoked"] \/ (step = "error" /\ UNCHANGED pair)
  BY DEF Revoke, LostAnswer, Moved, Pending, Answers
<1>3. CASE step = "error" /\ UNCHANGED pair
  BY <1>1, <1>2, <1>3, MovedQuietly DEF Earned
<1>4. CASE pair' = [pair EXCEPT ![t].row = "revoked"]
  <2>1. PICK new : new = [pair[t] EXCEPT !.row = "revoked"]
    OBVIOUS
  <2>2. new \in Pairs /\ new.row = "revoked"
    BY <1>1, <2>1 DEF Pairs
  <2>3. \A q \in Requests : pair'[q] = IF q = t THEN new ELSE pair[q]
    BY <1>1, <1>4, <2>1 DEF SessionsInv, SharedOK
  <2>4. pair' = [q \in Requests |-> pair'[q]] /\ account' \in [Emails -> Accounts]
    BY <1>1, <1>4 DEF SessionsInv, SharedOK
  <2>5. Grow(r) /\ pair'[r] = NoPair
    BY <1>1, <2>2, <2>3 DEF Grow
  <2>6. Earned(r, step)
    BY <1>1, <1>2, <2>2, <2>3 DEF Earned
  <2> QED BY <1>2, <2>4, <2>5, <2>6, MovedKeepsInv
<1> QED BY <1>2, <1>3, <1>4

(* The account a pair is for exists.                                       *)
LEMMA SubjectIsEmail ==
  ASSUME SessionsInv, NEW r \in Requests, at[r] = "issue"
  PROVE  Subject(r) \in Emails /\ host[r] \in Processes /\ pair[r] = NoPair
<1>1. RequestOK(r)
  BY DEF SessionsInv
<1>2. call[r].op \in LoginOps => call[r].email \in Emails
  BY <1>1 DEF RequestOK, RequestTyped
<1>3. call[r].op \notin LoginOps => call[r].op \in TokenOps /\ pair[call[r].token] \in Pairs
  BY <1>1 DEF RequestOK, RequestTyped, TokenSeen, TokenOps
<1>4. \A p \in Pairs : p.email \in Emails
  BY DEF Pairs
<1>5. host[r] \in Processes /\ pair[r] = NoPair
  BY <1>1 DEF RequestOK, RequestTyped, OwnPair, Pending
<1> QED BY <1>2, <1>3, <1>4, <1>5 DEF Subject

LEMMA IssueKeepsInv ==
  ASSUME SessionsInv, NEW r \in Requests, Issue(r)
  PROVE  SessionsInv'
<1>1. at[r] = "issue" /\ at[r] \in Pending /\ UNCHANGED account
  BY DEF Issue, Pending
<1>2. PICK step \in {"ok", "error"} :
        Moved(r, step) /\ (Signed(r, host[r], Subject(r), "live") \/ (step = "error" /\ UNCHANGED pair))
  BY DEF Issue, LostAnswer, Moved, Answers
<1>3. Earned(r, step)
  BY <1>1, <1>2 DEF Earned
<1>4. CASE step = "error" /\ UNCHANGED pair
  BY <1>1, <1>2, <1>3, <1>4, MovedQuietly
<1>5. CASE Signed(r, host[r], Subject(r), "live")
  <2>1. PICK email \in Emails, h \in Processes : email = Subject(r) /\ h = host[r]
    BY <1>1, SubjectIsEmail
  <2>2. pair[r] = NoPair /\ account' \in [Emails -> Accounts]
    BY <1>1, SubjectIsEmail DEF SessionsInv, SharedOK
  <2>3. Grow(r) /\ pair' = [q \in Requests |-> pair'[q]] /\ pair'[r] \in Pairs
    BY <1>1, <1>5, <2>1, <2>2, SignedPair
  <2> QED BY <1>2, <1>3, <2>2, <2>3, MovedKeepsInv
<1> QED BY <1>2, <1>4, <1>5

LEMMA RestartKeepsInv ==
  ASSUME SessionsInv, NEW h \in Processes, Restart(h)
  PROVE  SessionsInv'
<1>1. SharedOK'
  BY SettingsAssumption DEF SessionsInv, SharedOK, Restart, Fault
<1>2. ASSUME NEW q \in Requests PROVE RequestOK(q)'
  <2>1. RequestOK(q)
    BY DEF SessionsInv
  <2>2. CASE host[q] = h
    <3>1. at[q] \in Pending /\ at'[q] = "error" /\ host'[q] = Nobody /\ UNCHANGED <<account, pair, call, admitted>>
      BY <2>1, <2>2, NobodyAssumption DEF RequestOK, RequestTyped, Restart
    <3> QED BY <2>1, <3>1
        DEF RequestOK, RequestTyped, OwnPair, TokenSeen, LateUnserved, PasswordSeen, Pending, Answers
  <2>3. CASE host[q] # h
    <3>1. at'[q] = at[q] /\ host'[q] = host[q] /\ UNCHANGED <<account, pair, call, admitted>>
      BY <2>3 DEF Restart
    <3> QED BY <2>1, <3>1 DEF RequestOK, RequestTyped, OwnPair, TokenSeen, LateUnserved, PasswordSeen
  <2> QED BY <2>2, <2>3
<1> QED BY <1>1, <1>2 DEF SessionsInv

(* What changes no request, account or pair.                               *)
LEMMA RequestsSame ==
  ASSUME SessionsInv, SharedOK', UNCHANGED <<account, pair, call, at, host, admitted>>
  PROVE  SessionsInv'
BY DEF SessionsInv, RequestOK, RequestTyped, OwnPair, TokenSeen, LateUnserved, PasswordSeen

LEMMA AlwaysSessionsInv == Spec => []SessionsInv
<1>1. SessionsInv /\ Rotate => SessionsInv'
  <2> SUFFICES ASSUME SessionsInv, Rotate PROVE SessionsInv'
    OBVIOUS
  <2>1. SharedOK'
    BY SettingsAssumption DEF SessionsInv, SharedOK, Rotate
  <2> QED BY <2>1, RequestsSame DEF Rotate
<1>2. SessionsInv /\ Tick => SessionsInv'
  <2> SUFFICES ASSUME SessionsInv, Tick PROVE SessionsInv'
    OBVIOUS
  <2>1. SharedOK'
    BY SettingsAssumption DEF SessionsInv, SharedOK, Tick, fleetVars
  <2> QED BY <2>1, RequestsSame DEF Tick
<1>3. SessionsInv /\ UNCHANGED vars => SessionsInv'
  <2> SUFFICES ASSUME SessionsInv, UNCHANGED vars PROVE SessionsInv'
    OBVIOUS
  <2>1. SharedOK'
    BY DEF SessionsInv, SharedOK, vars, fleetVars
  <2> QED BY <2>1, RequestsSame DEF vars
<1>4. SessionsInv /\ [Next]_vars => SessionsInv'
  BY <1>1, <1>2, <1>3, ArriveKeepsInv, CreateAccountKeepsInv, UpsertKeepsInv, FindRowKeepsInv, RevokeKeepsInv,
     IssueKeepsInv, RestartKeepsInv DEF Next, RequestNext
<1> QED BY <1>4, InitSessionsInv, PTL DEF Spec

-----------------------------------------------------------------------------
(* The secrets: no process is behind by more than one, and no pair is      *)
(* signed with a secret that is yet to come.                               *)
FleetInv ==
  /\ \A h \in Processes : secret[h] >= latest - 1
  /\ \A k \in Requests : pair[k] \in Pairs => pair[k].secret <= latest

LEMMA SignedKeepsFleet ==
  ASSUME SessionsInv, FleetInv, NEW r \in Requests, NEW h \in Processes, NEW email, NEW row,
         Signed(r, h, email, row), UNCHANGED fleetVars
  PROVE  FleetInv'
<1> DEFINE new == [email |-> email, secret |-> jwtSecret(h), iat |-> now, row |-> row]
<1>1. new.secret <= latest
  BY DEF jwtSecret, SessionsInv, SharedOK
<1> HIDE DEF new
<1>2. \A q \in Requests : pair'[q] = IF q = r THEN new ELSE pair[q]
  BY DEF Signed, new, SessionsInv, SharedOK
<1> QED BY <1>1, <1>2 DEF FleetInv, fleetVars

LEMMA AlwaysFleetInv == Spec => []FleetInv
<1>1. Init => FleetInv
  BY PairOrNone DEF Init, FleetInv
<1>2. ASSUME SessionsInv, FleetInv, [Next]_vars PROVE FleetInv'
  <2>1. CASE UNCHANGED <<pair, fleetVars>>
    BY <1>2, <2>1 DEF FleetInv, fleetVars
  <2>2. ASSUME NEW r \in Requests, NEW h \in Processes, Arrive(r, h) PROVE FleetInv'
    <3>1. \/ UNCHANGED <<pair, fleetVars>>
          \/ UNCHANGED fleetVars /\ \E email, row : Signed(r, h, email, row)
      BY <2>2 DEF Arrive, Register, Login, GoogleLogin, Present, Ask
    <3> QED BY <1>2, <2>1, <3>1, SignedKeepsFleet
  <2>3. ASSUME NEW r \in Requests, Revoke(r) PROVE FleetInv'
    <3>1. PICK t : t = call[r].token
      OBVIOUS
    <3>2. t \in Requests /\ pair[t] \in Pairs
      BY <1>2, <2>3, <3>1 DEF Revoke, SessionsInv, RequestOK, RequestTyped, TokenSeen, TokenOps
    <3>3. UNCHANGED fleetVars /\ (UNCHANGED pair \/ pair' = [pair EXCEPT ![t].row = "revoked"])
      BY <2>3, <3>1 DEF Revoke, LostAnswer
    <3>4. [pair[t] EXCEPT !.row = "revoked"].secret = pair[t].secret
      BY <3>2 DEF Pairs
    <3>5. \A k \in Requests : pair[k] \in Pairs => pair'[k].secret = pair[k].secret
      BY <1>2, <3>2, <3>3, <3>4 DEF SessionsInv, SharedOK
    <3>6. \A k \in Requests : pair'[k] \in Pairs => pair[k] \in Pairs
      BY <1>2, <3>2, <3>3 DEF SessionsInv, SharedOK
    <3> QED BY <1>2, <3>3, <3>5, <3>6 DEF FleetInv, fleetVars
  <2>4. ASSUME NEW r \in Requests, Issue(r) PROVE FleetInv'
    <3>1. PICK h \in Processes, email \in Emails : h = host[r] /\ email = Subject(r)
      BY <1>2, <2>4, SubjectIsEmail DEF Issue
    <3>2. UNCHANGED fleetVars /\ (UNCHANGED pair \/ Signed(r, h, email, "live"))
      BY <2>4, <3>1 DEF Issue, LostAnswer
    <3> QED BY <1>2, <2>1, <3>2, SignedKeepsFleet
  <2>5. ASSUME NEW r \in Requests, CreateAccount(r) \/ Upsert(r) \/ FindRow(r) PROVE FleetInv'
    <3>1. UNCHANGED <<pair, fleetVars>>
      BY <2>5 DEF CreateAccount, Upsert, FindRow
    <3> QED BY <2>1, <3>1
  <2>6. CASE Rotate
    <3>1. /\ UNCHANGED <<pair, secret>> /\ latest' = latest + 1 /\ latest \in Int
          /\ \A h \in Processes : secret[h] = latest
      BY <1>2, <2>6 DEF Rotate, SessionsInv, SharedOK
    <3>2. \A k \in Requests : pair[k] \in Pairs => pair[k].secret \in Int
      BY DEF Pairs
    <3> QED BY <1>2, <3>1, <3>2 DEF FleetInv
  <2>7. ASSUME NEW h \in Processes, Restart(h) PROVE FleetInv'
    <3>1. UNCHANGED <<pair, latest>> /\ \A x \in Processes : secret'[x] = IF x = h THEN latest ELSE secret[x]
      BY <1>2, <2>7 DEF Restart, SessionsInv, SharedOK
    <3>2. latest \in Int
      BY <1>2 DEF SessionsInv, SharedOK
    <3> QED BY <1>2, <3>1, <3>2 DEF FleetInv
  <2>8. CASE Tick
    <3>1. UNCHANGED <<pair, fleetVars>>
      BY <2>8 DEF Tick
    <3> QED BY <2>1, <3>1
  <2>9. CASE UNCHANGED vars
    <3>1. UNCHANGED <<pair, fleetVars>>
      BY <2>9 DEF vars, fleetVars
    <3> QED BY <2>1, <3>1
  <2> QED BY <1>2, <2>2, <2>3, <2>4, <2>5, <2>6, <2>7, <2>8, <2>9 DEF Next, RequestNext
<1>3. SessionsInv /\ FleetInv /\ [Next]_vars => FleetInv'
  BY <1>2
<1> QED BY <1>1, <1>3, AlwaysSessionsInv, PTL DEF Spec

-----------------------------------------------------------------------------
(* The invariants                                                          *)

LEMMA SessionsInvTypes == SessionsInv => TypeOK
<1> SUFFICES ASSUME SessionsInv PROVE TypeOK
  OBVIOUS
<1>1. \A q \in Requests : RequestOK(q)
  BY DEF SessionsInv
<1>2. pair \in [Requests -> Pairs \cup {NoPair}]
  BY <1>1 DEF SessionsInv, SharedOK, RequestOK, OwnPair
<1>3. /\ call \in [Requests -> Calls \cup {NoCall}]
      /\ at \in [Requests -> {"new"} \cup Pending \cup Answers]
      /\ host \in [Requests -> Processes \cup {Nobody}]
  BY <1>1 DEF SessionsInv, SharedOK, RequestOK, RequestTyped
<1>4. ASSUME NEW r \in Requests
      PROVE  /\ at[r] # "new" => call[r] \in Calls
             /\ at[r] \in Pending <=> host[r] # Nobody
             /\ at[r] \in Pending \cup {"ok"} =>
                  IF call[r].op \in LoginOps THEN call[r].email \in Emails
                  ELSE call[r].token \in Requests /\ pair[call[r].token] # NoPair
             /\ at[r] = "ok" /\ call[r].op # "use" => pair[r] # NoPair
  <2>1. RequestTyped(r) /\ OwnPair(r) /\ TokenSeen(r)
    BY <1>1 DEF RequestOK
  <2>2. at[r] # "new" => call[r] \in Calls /\ call[r].op \in LoginOps \cup TokenOps
    BY <2>1, CallOrNone DEF RequestTyped
  <2>3. at[r] \in Pending \cup {"ok"} => at[r] # "new"
    BY DEF Pending
  <2> QED BY <2>1, <2>2, <2>3, PairOrNone DEF RequestTyped, OwnPair, TokenSeen
<1> QED BY <1>2, <1>3, <1>4 DEF TypeOK, SessionsInv, SharedOK, Accounts

(* Every variable keeps to its range, a pending request has a process, and *)
(* each statement finds the account or the token it is about.              *)
THEOREM TypesHold == Spec => []TypeOK
BY AlwaysSessionsInv, SessionsInvTypes, PTL

(* A refresh that arrives after its token was exchanged gets no pair.      *)
THEOREM LateReuseAlwaysRefused == Spec => []LateReuseIsRefused
<1>1. SessionsInv => LateReuseIsRefused
  BY DEF SessionsInv, RequestOK, LateUnserved, LateReuseIsRefused
<1> QED BY AlwaysSessionsInv, <1>1, PTL

(* A password that register or login answered for is good for ever.        *)
THEOREM PasswordsStand == Spec => []PasswordStands
<1>1. SessionsInv => PasswordStands
  BY DEF SessionsInv, RequestOK, PasswordSeen, PasswordStands
<1> QED BY AlwaysSessionsInv, <1>1, PTL

(* What verifies at a process of a rotating fleet, and what does not.      *)
LEMMA PresentedAge ==
  ASSUME SessionsInv, FleetInv, NEW r \in Requests, NEW c \in Clients, NEW op \in TokenOps, NEW t \in Held(c),
         NEW h \in Processes, Present(r, c, op, t, h)
  PROVE  /\ call'[r].token = t
         /\ at'[r] = "forged" => latest - pair[t].secret >= 2 \/ secret[h] # latest
         /\ at'[r] \in {"row", "ok"} => latest - pair[t].secret <= 2
<1>1. t \in Requests /\ pair[t] \in Pairs
  BY HeldPairs
<1>2. pair[t].secret \in Int /\ latest \in Int /\ secret[h] \in Int /\ pair[t].secret <= latest /\ secret[h] >= latest - 1
  BY <1>1 DEF Pairs, SessionsInv, SharedOK, FleetInv
<1>3. call'[r].token = t
  BY DEF Present, Ask, SessionsInv, SharedOK
<1>4. /\ at'[r] = "forged" => ~Known(h, pair[t].secret)
      /\ at'[r] \in {"row", "ok"} => Known(h, pair[t].secret)
  BY DEF Present, Begin, SessionsInv, SharedOK
<1> QED BY <1>2, <1>3, <1>4 DEF Known, verifySignature, jwtSecret, jwtPreviousSecret

(* A token is called forged only two rotations after it was signed, or by  *)
(* a fleet that is still rolling out; and accepted at most two after.      *)
THEOREM RotationAlwaysKeepsTokens == Spec => RotationKeepsTokens
<1> DEFINE Kept(r) ==
      LET age == latest - pair[call'[r].token].secret IN
      at[r] = "new" /\ at'[r] # "new" /\ call'[r].op \in TokenOps =>
        /\ at'[r] = "forged" => age >= 2 \/ \E h \in Processes : secret[h] # latest
        /\ at'[r] \in {"row", "ok"} => age <= 2
<1>1. ASSUME SessionsInv, FleetInv, Next, NEW r \in Requests PROVE Kept(r)
  <2>1. at[r] = "new" => host[r] = Nobody
    BY <1>1 DEF SessionsInv, RequestOK, RequestTyped, Pending
  <2>2. ASSUME NEW q \in Requests, NEW h \in Processes, Arrive(q, h) PROVE Kept(r)
    <3>1. CASE q # r
      BY <1>1, <2>2, <3>1
         DEF Arrive, Register, Login, GoogleLogin, Present, Ask, Begin, SessionsInv, SharedOK
    <3>2. ASSUME q = r, NEW v \in Own, Register(q, v[1], v[2], h) \/ Login(q, v[1], v[2], h) \/ GoogleLogin(q, v[1], v[2], h)
          PROVE  Kept(r)
      <4>1. call'[r].op \in LoginOps
        BY <1>1, <3>2 DEF Register, Login, GoogleLogin, Ask, SessionsInv, SharedOK, LoginOps
      <4> QED BY <4>1 DEF LoginOps, TokenOps
    <3>3. ASSUME q = r, NEW c \in Clients, NEW op \in TokenOps, NEW t \in Held(c), Present(q, c, op, t, h)
          PROVE  Kept(r)
      BY <1>1, <3>3, PresentedAge
    <3> QED BY <2>2, <3>1, <3>2, <3>3 DEF Arrive
  <2>3. CASE at'[r] = at[r]
    BY <2>3
  <2>4. ASSUME NEW q \in Requests, RequestNext(q) PROVE Kept(r)
    <3>1. at[q] # "new"
      BY <2>4 DEF RequestNext, CreateAccount, Upsert, FindRow, Revoke, Issue
    <3>2. q # r => at'[r] = at[r]
      BY <1>1, <2>4 DEF RequestNext, CreateAccount, Upsert, FindRow, Revoke, Issue, LostAnswer, Goto, Answer,
                        SessionsInv, SharedOK
    <3> QED BY <3>1, <3>2
  <2>5. ASSUME NEW h \in Processes, Restart(h) PROVE Kept(r)
    BY <2>1, <2>5, NobodyAssumption DEF Restart
  <2>6. CASE Rotate \/ Tick \/ UNCHANGED vars
    BY <2>6 DEF Rotate, Tick, vars
  <2> QED BY <1>1, <2>2, <2>4, <2>5, <2>6 DEF Next
<1>2. SessionsInv /\ FleetInv /\ [Next]_vars => [\A r \in Requests : Kept(r)]_vars
  BY <1>1
<1> QED BY <1>2, AlwaysSessionsInv, AlwaysFleetInv, PTL DEF Spec, RotationKeepsTokens

-----------------------------------------------------------------------------
(* Sessions implements Revocable                                           *)

Statuses == [t \in Requests |-> RowStatus(t)]

Admissions == {<<r, call[r].token>> : r \in admitted}

Stutters == UNCHANGED <<Statuses, Admissions>>

LEMMA StatusesKept ==
  ASSUME \A k \in Requests : RowStatus(k)' = RowStatus(k)
  PROVE  Statuses' = Statuses
BY DEF Statuses

LEMMA AdmissionsKept ==
  ASSUME UNCHANGED admitted, \A q \in admitted : call'[q] = call[q]
  PROVE  Admissions' = Admissions
BY DEF Admissions

LEMMA InitImplements == Init => Rows!Init
<1> SUFFICES ASSUME Init PROVE Rows!Init
  OBVIOUS
<1>1. \A t \in Requests : RowStatus(t) = "absent"
  BY DEF Init, RowStatus, NoPair
<1>2. Admissions = {}
  BY DEF Init, Admissions
<1> QED BY <1>1, <1>2 DEF Rows!Init, Admissions

LEMMA PairSame == ASSUME UNCHANGED pair PROVE Statuses' = Statuses
<1>1. \A k \in Requests : RowStatus(k)' = RowStatus(k)
  BY DEF RowStatus
<1> QED BY <1>1, StatusesKept

(* A pair that is signed without a row, or with one.                       *)
LEMMA SignedStatuses ==
  ASSUME SessionsInv, NEW r \in Requests, pair[r] = NoPair, NEW h, NEW email, NEW row, Signed(r, h, email, row)
  PROVE  /\ RowStatus(r) = "absent"
         /\ row = "none" => Statuses' = Statuses
         /\ row = "live" => Statuses' = [Statuses EXCEPT ![r] = "live"]
<1> DEFINE new == [email |-> email, secret |-> jwtSecret(h), iat |-> now, row |-> row]
<1>1. RowStatus(r) = "absent" /\ new.row = row
  BY DEF RowStatus, NoPair
<1> HIDE DEF new
<1>2. \A q \in Requests : pair'[q] = IF q = r THEN new ELSE pair[q]
  BY DEF Signed, new, SessionsInv, SharedOK
<1> QED BY <1>1, <1>2 DEF Statuses, RowStatus

LEMMA ArriveStutters ==
  ASSUME SessionsInv, NEW r \in Requests, NEW h \in Processes, Arrive(r, h)
  PROVE  Stutters
<1>1. PICK c, op, e, t :
        /\ Ask(r, c, op, e, t)
        /\ UNCHANGED pair \/ Signed(r, h, pair[t].email, "none")
  BY DEF Arrive, Register, Login, GoogleLogin, Present
<1>2. at[r] = "new" /\ r \notin admitted /\ pair[r] = NoPair
  BY <1>1 DEF Ask, SessionsInv, RequestOK, RequestTyped, OwnPair
<1>3. UNCHANGED admitted /\ \A q \in admitted : call'[q] = call[q]
  BY <1>1, <1>2 DEF Ask, SessionsInv, SharedOK
<1>4. Statuses' = Statuses
  <2>1. PICK email : email = pair[t].email
    OBVIOUS
  <2> QED BY <1>1, <1>2, <2>1, PairSame, SignedStatuses
<1> QED BY <1>3, <1>4, AdmissionsKept DEF Stutters

LEMMA FindRowAdmits ==
  ASSUME SessionsInv, NEW r \in Requests, FindRow(r)
  PROVE  Stutters \/ \E t \in Requests : Rows!Admit(r, t)
<1> PICK t : t = call[r].token
  OBVIOUS
<1>1. Statuses' = Statuses /\ UNCHANGED call
  BY PairSame DEF FindRow
<1>2. CASE UNCHANGED admitted
  BY <1>1, <1>2, AdmissionsKept DEF Stutters
<1>3. CASE pair[t].row = "live" /\ admitted' = admitted \cup {r}
  <2>1. t \in Requests /\ RowStatus(t) = "live"
    BY <1>3 DEF RowStatus, FindRow, SessionsInv, RequestOK, RequestTyped, TokenSeen, TokenOps
  <2>2. Admissions' = Admissions \cup {<<r, t>>}
    BY <1>1, <1>3 DEF Admissions
  <2>3. Rows!Admit(r, t)
    BY <1>1, <2>1, <2>2 DEF Rows!Admit, Statuses, Admissions
  <2> QED BY <2>1, <2>3
<1> QED BY <1>2, <1>3 DEF FindRow

LEMMA RevokeRevokes ==
  ASSUME SessionsInv, NEW r \in Requests, Revoke(r)
  PROVE  Stutters \/ \E C \in SUBSET Requests : Rows!Revoke(C)
<1> PICK t : t = call[r].token
  OBVIOUS
<1>1. t \in Requests /\ pair[t] \in Pairs /\ pair[t].row \in {"live", "revoked"}
  BY DEF Revoke, SessionsInv, RequestOK, RequestTyped, TokenSeen, TokenOps
<1>2. Admissions' = Admissions
  BY AdmissionsKept DEF Revoke
<1>3. CASE UNCHANGED pair
  BY <1>2, <1>3, PairSame DEF Stutters
<1>4. CASE pair' = [pair EXCEPT ![t].row = "revoked"]
  <2>1. [pair[t] EXCEPT !.row = "revoked"].row = "revoked"
    BY <1>1 DEF Pairs
  <2>2. \A q \in Requests : pair'[q].row = IF q = t THEN "revoked" ELSE pair[q].row
    BY <1>1, <1>4, <2>1 DEF SessionsInv, SharedOK
  <2>3. RowStatus(t) # "absent"
    BY <1>1 DEF RowStatus
  <2>4. Statuses' = [c \in Requests |-> IF c \in {t} THEN "revoked" ELSE Statuses[c]]
    BY <2>2 DEF Statuses, RowStatus
  <2>5. Rows!Revoke({t})
    BY <1>1, <1>2, <2>3, <2>4 DEF Rows!Revoke, Statuses, Admissions
  <2> QED BY <1>1, <2>5
<1> QED BY <1>3, <1>4 DEF Revoke, LostAnswer

LEMMA IssueIssues ==
  ASSUME SessionsInv, NEW r \in Requests, Issue(r)
  PROVE  Stutters \/ Rows!Issue(r)
<1>1. Admissions' = Admissions /\ pair[r] = NoPair
  BY AdmissionsKept, SubjectIsEmail DEF Issue
<1>2. CASE UNCHANGED pair
  BY <1>1, <1>2, PairSame DEF Stutters
<1>3. CASE Signed(r, host[r], Subject(r), "live")
  <2>1. PICK h, email : h = host[r] /\ email = Subject(r)
    OBVIOUS
  <2>2. RowStatus(r) = "absent" /\ Statuses' = [Statuses EXCEPT ![r] = "live"]
    BY <1>1, <1>3, <2>1, SignedStatuses
  <2> QED BY <1>1, <2>2 DEF Rows!Issue, Statuses, Admissions
<1> QED BY <1>2, <1>3 DEF Issue, LostAnswer

LEMMA StepImplements ==
  ASSUME SessionsInv, [Next]_vars
  PROVE  Rows!Next \/ Stutters
<1>1. ASSUME UNCHANGED <<pair, call, admitted>> PROVE Stutters
  BY <1>1, PairSame, AdmissionsKept DEF Stutters
<1>2. ASSUME NEW r \in Requests, CreateAccount(r) \/ Upsert(r) PROVE Stutters
  <2>1. UNCHANGED <<pair, call, admitted>>
    BY <1>2 DEF CreateAccount, Upsert
  <2> QED BY <1>1, <2>1
<1>3. ASSUME NEW r \in Requests, FindRow(r) \/ Revoke(r) \/ Issue(r) PROVE Rows!Next \/ Stutters
  BY <1>3, FindRowAdmits, RevokeRevokes, IssueIssues DEF Rows!Next
<1>4. ASSUME NEW h \in Processes, Restart(h) PROVE Stutters
  <2>1. UNCHANGED <<pair, call, admitted>>
    BY <1>4 DEF Restart
  <2> QED BY <1>1, <2>1
<1>5. CASE Rotate \/ Tick \/ UNCHANGED vars
  <2>1. UNCHANGED <<pair, call, admitted>>
    BY <1>5 DEF Rotate, Tick, vars
  <2> QED BY <1>1, <2>1
<1> QED BY <1>2, <1>3, <1>4, <1>5, ArriveStutters DEF Next, RequestNext

(* Sessions implements Revocable: refresh goes on only from a live row,    *)
(* and a revoked row never comes back to life.                             *)
THEOREM RowsAreRevocable == Spec => ImplementsRevocable
<1>1. SessionsInv /\ [Next]_vars => [Rows!Next]_(Rows!credentialVars)
  BY StepImplements DEF Rows!credentialVars, Stutters, Statuses, Admissions
<1> QED BY <1>1, InitImplements, AlwaysSessionsInv, PTL DEF Spec, ImplementsRevocable, Rows!Spec

=============================================================================
