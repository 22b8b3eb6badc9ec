------------------------------ MODULE Sessions ------------------------------
(***************************************************************************)
(* Accounts and the tokens that stand for them.                            *)
(*                                                                         *)
(*   - AuthService.register, login and googleLogin find or create a User   *)
(*     and answer with a pair of tokens.                                   *)
(*   - AuthService.refresh reads the RefreshToken row of a refresh token,  *)
(*     revokes the row in a second statement and answers with a new pair.  *)
(*   - AuthService.refreshToken, the other handler of POST /auth/refresh,  *)
(*     signs a new pair and touches no row.                                *)
(*   - JwtAuthGuard verifies an access token.                              *)
(*   - Every process signs with its JWT_SECRET and verifies with it and    *)
(*     with JWT_PREVIOUS_SECRET.  Both change by a restart, one process    *)
(*     after the other, so processes with old and with new secrets run     *)
(*     side by side.                                                       *)
(*                                                                         *)
(* Secrets are numbered; the previous secret of k is k - 1.  A pair is     *)
(* named by the request that was given it.  Between two awaits anyone may  *)
(* run: each action is one statement, with what the code computes after it.*)
(***************************************************************************)
EXTENDS Integers

CONSTANTS
  Clients,       (* people, each with a password and a Google identity     *)
  Emails,
  Own,           (* which client uses which email, to Google and to us     *)
  Requests,
  Processes,     (* API processes                                          *)
  AccessTtl,     (* JWT_ACCESS_TTL_SECONDS                                 *)
  RefreshTtl,    (* JWT_REFRESH_TTL_SECONDS                                *)
  Nobody,        (* no client, email, token or process                     *)
  MaxTime,       (* bound on the clock                                     *)
  MaxRotations,  (* bound on the rotations of the secret                   *)
  MaxFaults      (* bound on lost database answers and crashes             *)

ASSUME OwnAssumption == Own \subseteq Clients \X Emails

ASSUME NobodyAssumption == Nobody \notin Clients \cup Emails \cup Requests \cup Processes

ASSUME SettingsAssumption ==
  /\ AccessTtl \in Nat /\ RefreshTtl \in Nat
  /\ MaxTime \in Nat /\ MaxRotations \in Nat /\ MaxFaults \in Nat

VARIABLES
  account,   (* User: whose password and whose googleId each email has     *)
  pair,      (* the tokens each request was given, and their row           *)
  call,      (* what each request asks for                                 *)
  at,        (* where each request stands, or its answer                   *)
  host,      (* the process each pending request runs in                   *)
  admitted,  (* history: requests whose refresh token's row was found live *)
  secret,    (* the JWT_SECRET each process runs with                      *)
  latest,    (* the newest JWT_SECRET                                      *)
  now,       (* the clock                                                  *)
  faults     (* faults so far                                              *)

fleetVars == <<secret, latest>>
vars      == <<account, pair, call, at, host, admitted, fleetVars, now, faults>>

LoginOps == {"register", "login", "google"}

TokenOps == {"refresh", "exchange", "use"}

Pending == {"create", "upsert", "row", "revoke", "issue"}

Answers == {"ok", "refused", "forged", "expired", "revoked", "error"}

(* late: when the request arrived, another refresh with its token had been *)
(* answered with a new pair.                                               *)
Calls == [op : LoginOps \cup TokenOps, who : Clients, email : Emails \cup {Nobody},
          token : Requests \cup {Nobody}, late : BOOLEAN]

NoCall == [op |-> "none"]

NoAccount == [password |-> Nobody, google |-> Nobody]

(* A pair of refreshToken has no row.                                      *)
Pairs == [email : Emails, secret : 0..MaxRotations, iat : 0..MaxTime, row : {"none", "live", "revoked"}]

NoPair == [row |-> "absent"]

TypeOK ==
  /\ account \in [Emails -> [password : Clients \cup {Nobody}, google : Clients \cup {Nobody}]]
  /\ pair \in [Requests -> Pairs \cup {NoPair}]
  /\ call \in [Requests -> Calls \cup {NoCall}]
  /\ at \in [Requests -> {"new"} \cup Pending \cup Answers]
  /\ host \in [Requests -> Processes \cup {Nobody}]
  /\ \A r \in Requests :
       /\ at[r] # "new" => call[r] \in Calls
       /\ at[r] \in Pending <=> host[r] # Nobody
       /\ at[r] \in Pending \cup {"ok"} =>
            IF call[r].op \in LoginOps THEN call[r].email \in Emails
            ELSE call[r].token \in Requests /\ pair[call[r].token] # NoPair
       /\ at[r] = "ok" /\ call[r].op # "use" => pair[r] # NoPair
  /\ admitted \subseteq Requests
  /\ latest \in 0..MaxRotations
  /\ secret \in [Processes -> 0..latest]
  /\ now \in 0..MaxTime
  /\ faults \in 0..MaxFaults

Goto(r, step) == at' = [at EXCEPT ![r] = step] /\ UNCHANGED host

Answer(r, a) == at' = [at EXCEPT ![r] = a] /\ host' = [host EXCEPT ![r] = Nobody]

(* A request that just arrived at process h goes on, or is answered.       *)
Begin(r, h, step) ==
  /\ at' = [at EXCEPT ![r] = step]
  /\ host' = [host EXCEPT ![r] = IF step \in Pending THEN h ELSE Nobody]

(* The bound on faults.                                                    *)
Fault == faults < MaxFaults /\ faults' = faults + 1

(* A statement whose answer is lost took effect or did not.                *)
LostAnswer(r, done, undone) == Fault /\ (done \/ undone) /\ Answer(r, "error")

-----------------------------------------------------------------------------
(* Clients.  They keep what they were given, and present it when they like.*)

Held(c) == {t \in Requests : at[t] = "ok" /\ call[t].op # "use" /\ call[t].who = c}

Spent(t) == \E q \in Requests : at[q] = "ok" /\ call[q].op = "refresh" /\ call[q].token = t

(* A request arrives and runs to its first await, which is the statement  *)
(* that reads the account or the row, or to its answer.                    *)
Ask(r, c, op, e, t) ==
  /\ at[r] = "new"
  /\ call' = [call EXCEPT ![r] = [op |-> op, who |-> c, email |-> e, token |-> t,
                                  late |-> op = "refresh" /\ Spent(t)]]
  /\ UNCHANGED <<account, admitted, fleetVars, now, faults>>

-----------------------------------------------------------------------------
(* AuthService.register, login and googleLogin                             *)

Register(r, c, e, h) ==
  /\ Ask(r, c, "register", e, Nobody)
  /\ Begin(r, h, IF account[e] = NoAccount THEN "create" ELSE "refused")
  /\ UNCHANGED pair

verifyPassword(c, e) == account[e].password = c

Login(r, c, e, h) ==
  /\ Ask(r, c, "login", e, Nobody)
  /\ Begin(r, h, IF verifyPassword(c, e) THEN "issue" ELSE "refused")
  /\ UNCHANGED pair

(* Google answers for the token, or refuses it.                            *)
GoogleLogin(r, c, e, h) ==
  /\ Ask(r, c, "google", e, Nobody)
  /\ Begin(r, h, "upsert") \/ Begin(r, h, "refused")
  /\ UNCHANGED pair

(* Mutated form: the email is not unique; the later registration wins.     *)
CreateAccountAnyway(r) ==
  /\ at[r] = "create"
  /\ account' = [account EXCEPT ![call[r].email].password = call[r].who]
  /\ Goto(r, "issue")
  /\ UNCHANGED <<pair, call, admitted, fleetVars, now, faults>>

(* The email is unique in the schema: a registration that comes second     *)
(* fails, although neither found the other.                                *)
CreateAccount(r) ==
  LET e == call[r].email
      created == account[e] = NoAccount /\ account' = [account EXCEPT ![e].password = call[r].who] IN
  /\ at[r] = "create"
  /\ \/ created /\ Goto(r, "issue") /\ UNCHANGED faults
     \/ account[e] # NoAccount /\ Answer(r, "error") /\ UNCHANGED <<account, faults>>
     \/ LostAnswer(r, created, UNCHANGED account)
  /\ UNCHANGED <<pair, call, admitted, fleetVars, now>>

(* The account of the email is created or linked; googleId is unique too.  *)
Upsert(r) ==
  LET e == call[r].email
      c == call[r].who
      taken == \E f \in Emails \ {e} : account[f].google = c
      linked == ~taken /\ account' = [account EXCEPT ![e].google = c] IN
  /\ at[r] = "upsert"
  /\ \/ linked /\ Goto(r, "issue") /\ UNCHANGED faults
     \/ taken /\ Answer(r, "error") /\ UNCHANGED <<account, faults>>
     \/ LostAnswer(r, linked, UNCHANGED account)
  /\ UNCHANGED <<pair, call, admitted, fleetVars, now>>

-----------------------------------------------------------------------------
(* TokenService.verifyToken and signToken                                  *)

jwtSecret(h) == secret[h]

jwtPreviousSecret(h) == secret[h] - 1

verifySignature(signedWith, key) == signedWith = key

(* Mutated form: only the active secret verifies.                          *)
KnownActive(h, k) == verifySignature(k, jwtSecret(h))

Known(h, k) == verifySignature(k, jwtSecret(h)) \/ verifySignature(k, jwtPreviousSecret(h))

Lives(t, ttl) == now < pair[t].iat + ttl

Ttl(op) == IF op = "use" THEN AccessTtl ELSE RefreshTtl

Signed(r, h, email, row) ==
  pair' = [pair EXCEPT ![r] = [email |-> email, secret |-> jwtSecret(h), iat |-> now, row |-> row]]

(* JwtAuthGuard is done then; refreshToken signs at once, on the strength  *)
(* of the token alone; refresh goes on to the row.  One clock never sees a *)
(* token of the future, every token is this service's own, and each half   *)
(* of a pair is presented where it belongs: the checks of iat, of issuer,  *)
(* audience and subject and of the type never refuse and are left out.     *)
Present(r, c, op, t, h) ==
  LET known == Known(h, pair[t].secret)
      lives == Lives(t, Ttl(op)) IN
  /\ Ask(r, c, op, Nobody, t)
  /\ \/ ~known /\ Begin(r, h, "forged") /\ UNCHANGED pair
     \/ known /\ ~lives /\ Begin(r, h, "expired") /\ UNCHANGED pair
     \/ known /\ lives /\ op = "use" /\ Begin(r, h, "ok") /\ UNCHANGED pair
     \/ known /\ lives /\ op = "exchange" /\ Begin(r, h, "ok") /\ Signed(r, h, pair[t].email, "none")
     \/ known /\ lives /\ op = "refresh" /\ Begin(r, h, "row") /\ UNCHANGED pair

-----------------------------------------------------------------------------
(* AuthService.refresh                                                     *)

(* Mutated form: a row is enough, whether or not it was revoked.           *)
FindRowOnly(r) ==
  /\ at[r] = "row"
  /\ pair[call[r].token].row # "none"
  /\ Goto(r, "revoke")
  /\ admitted' = admitted \cup {r}
  /\ UNCHANGED <<account, pair, call, fleetVars, now, faults>>

FindRow(r) ==
  LET t == call[r].token
      valid == pair[t].row = "live" /\ Lives(t, RefreshTtl) IN
  /\ at[r] = "row"
  /\ \/ valid /\ Goto(r, "revoke") /\ admitted' = admitted \cup {r}
     \/ ~valid /\ Answer(r, "revoked") /\ UNCHANGED admitted
  /\ UNCHANGED <<account, pair, call, fleetVars, now, faults>>

(* Mutated form: the row is left alone.                                    *)
RevokeNothing(r) ==
  /\ at[r] = "revoke"
  /\ Goto(r, "issue")
  /\ UNCHANGED <<account, pair, call, admitted, fleetVars, now, faults>>

(* By the row's id, whatever has become of it since it was read.           *)
Revoke(r) ==
  LET revoked == pair' = [pair EXCEPT ![call[r].token].row = "revoked"] IN
  /\ at[r] = "revoke"
  /\ \/ revoked /\ Goto(r, "issue") /\ UNCHANGED faults
     \/ LostAnswer(r, revoked, UNCHANGED pair)
  /\ UNCHANGED <<account, call, admitted, fleetVars, now>>

(* The account the new pair is for.                                        *)
Subject(r) == IF call[r].op \in LoginOps THEN call[r].email ELSE pair[call[r].token].email

(* Mutated form: the insert is not awaited, and fails.                     *)
IssueUnawaited(r) ==
  /\ at[r] = "issue"
  /\ Answer(r, "ok")
  /\ UNCHANGED <<account, pair, call, admitted, fleetVars, now, faults>>

(* issueTokenPair: sign both tokens and store the row of the second.       *)
Issue(r) ==
  LET issued == Signed(r, host[r], Subject(r), "live") IN
  /\ at[r] = "issue"
  /\ \/ issued /\ Answer(r, "ok") /\ UNCHANGED faults
     \/ LostAnswer(r, issued, UNCHANGED pair)
  /\ UNCHANGED <<account, call, admitted, fleetVars, now>>

-----------------------------------------------------------------------------
(* Operations                                                              *)

(* A new secret is introduced once every process has the last one.         *)
Rotate ==
  /\ latest < MaxRotations
  /\ \A h \in Processes : secret[h] = latest
  /\ latest' = latest + 1
  /\ UNCHANGED <<account, pair, call, at, host, admitted, secret, now, faults>>

(* A process starts again, with the newest secret: a deployment or a crash.*)
Restart(h) ==
  /\ \/ secret[h] < latest /\ UNCHANGED faults
     \/ Fault
  /\ secret' = [secret EXCEPT ![h] = latest]
  /\ at' = [r \in Requests |-> IF host[r] = h THEN "error" ELSE at[r]]
  /\ host' = [r \in Requests |-> IF host[r] = h THEN Nobody ELSE host[r]]
  /\ UNCHANGED <<account, pair, call, admitted, latest, now>>

Tick ==
  /\ now < MaxTime
  /\ now' = now + 1
  /\ UNCHANGED <<account, pair, call, at, host, admitted, fleetVars, faults>>

-----------------------------------------------------------------------------
Init ==
  /\ account  = [e \in Emails |-> NoAccount]
  /\ pair     = [r \in Requests |-> NoPair]
  /\ call     = [r \in Requests |-> NoCall]
  /\ at       = [r \in Requests |-> "new"]
  /\ host     = [r \in Requests |-> Nobody]
  /\ admitted = {}
  /\ secret   = [h \in Processes |-> 0]
  /\ latest   = 0
  /\ now      = 0
  /\ faults   = 0

Arrive(r, h) ==
  \/ \E v \in Own : Register(r, v[1], v[2], h) \/ Login(r, v[1], v[2], h) \/ GoogleLogin(r, v[1], v[2], h)
  \/ \E c \in Clients, op \in TokenOps : \E t \in Held(c) : Present(r, c, op, t, h)

RequestNext(r) == CreateAccount(r) \/ Upsert(r) \/ FindRow(r) \/ Revoke(r) \/ Issue(r)

(* Every request is answered and the clock stands at its bound.            *)
Finished == now = MaxTime /\ \A r \in Requests : at[r] \in Answers

Next ==
  \/ \E r \in Requests : RequestNext(r) \/ \E h \in Processes : Arrive(r, h)
  \/ Rotate
  \/ \E h \in Processes : Restart(h)
  \/ Tick
  \/ Finished /\ UNCHANGED vars

Spec == Init /\ [][Next]_vars

-----------------------------------------------------------------------------
(* A refresh token that was exchanged is spent: a refresh that arrives     *)
(* after another one got its answer gets no pair.  refresh reads and       *)
(* revokes in two statements, so only requests that overlap may share it.  *)
LateReuseIsRefused ==
  \A r \in Requests : call[r] # NoCall /\ call[r].late => r \notin admitted /\ pair[r] = NoPair

(* Whoever was told that their registration or login succeeded can log in  *)
(* with that password from then on: neither a second registration that     *)
(* looked before the first one wrote nor a Google login replaces it.       *)
PasswordStands ==
  \A r \in Requests :
    at[r] = "ok" /\ call[r].op \in {"register", "login"} => account[call[r].email].password = call[r].who

(* Signatures survive a rotation: with one secret in the whole fleet, no   *)
(* token signed since the rotation before the last is called forged; and   *)
(* none signed before that is accepted, with or without a rollout.         *)
RotationKeepsTokens ==
  [][\A r \in Requests :
       LET age == latest - pair[call'[r].token].secret IN
       at[r] = "new" /\ at'[r] # "new" /\ call'[r].op \in TokenOps =>
         /\ at'[r] = "forged" => age >= 2 \/ \E h \in Processes : secret[h] # latest
         /\ at'[r] \in {"row", "ok"} => age <= 2]_vars

-----------------------------------------------------------------------------
(* Sessions implements Revocable: the credentials are the rows.            *)
RowStatus(t) == IF pair[t].row \in {"live", "revoked"} THEN pair[t].row ELSE "absent"

Rows == INSTANCE Revocable WITH
  Credentials <- Requests,
  Uses        <- Requests,
  status      <- [t \in Requests |-> RowStatus(t)],
  admissions  <- {<<r, call[r].token>> : r \in admitted}

(* A refresh goes on only if its token's row was live when it was read,    *)
(* and a revoked row stays revoked.                                        *)
ImplementsRevocable == Rows!Spec

=============================================================================
