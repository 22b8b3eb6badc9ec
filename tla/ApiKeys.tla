------------------------------ MODULE ApiKeys ------------------------------
(***************************************************************************)
(* The API keys of the SMS API.                                            *)
(*                                                                         *)
(*   - ApiKeysController creates keys, revokes one of them, revokes all,   *)
(*     for the user of an access token.                                    *)
(*   - ApiKeyGuard lets a request pass whose key is ACTIVE, and records    *)
(*     its use in a second statement; ApiKeyRateLimitGuard then reads the  *)
(*     key's limit in a third.                                             *)
(*                                                                         *)
(* A key is named by the request that created it.  A request is made once. *)
(* Each action is one statement, or an await's end: between two of them    *)
(* anyone may run.                                                         *)
(***************************************************************************)
EXTENDS Integers

CONSTANTS
  Users,
  Requests,
  Processes,  (* API processes                                             *)
  Nobody,     (* no user, no key, no process                               *)
  MaxFaults   (* bound on lost database answers and crashes                *)

ASSUME NobodyAssumption == Nobody \notin Users \cup Requests \cup Processes

ASSUME FaultsAssumption == MaxFaults \in Nat

VARIABLES
  key,       (* ApiKey: owner, status, whether lastUsedAt is set           *)
  call,      (* what each request asks for                                 *)
  at,        (* where each request stands, or its answer                   *)
  host,      (* the process each pending request runs in                   *)
  admitted,  (* history: requests whose key was found ACTIVE               *)
  faults     (* faults so far                                              *)

vars == <<key, call, at, host, admitted, faults>>

Operations == {"create", "revoke", "revokeAll", "use"}

Pending == {"insert", "revokeKey", "revokeKeys", "touch", "limit"}

Answers == {"ok", "notFound", "invalid", "limited", "error"}

(* late: when the request arrived its key's revocation had been answered.  *)
(* known: the keys its user had been given by then.                        *)
Calls == [op : Operations, user : Users, key : Requests \cup {Nobody}, late : BOOLEAN, known : SUBSET Requests]

NoCall == [op |-> "none"]

(* ApiKeyStatus; "absent" is no row.                                       *)
Rows == [owner : Users, status : {"ACTIVE", "REVOKED"}, used : BOOLEAN]

NoRow == [status |-> "absent"]

TypeOK ==
  /\ key \in [Requests -> Rows \cup {NoRow}]
  /\ call \in [Requests -> Calls \cup {NoCall}]
  /\ at \in [Requests -> {"new"} \cup Pending \cup Answers]
  /\ host \in [Requests -> Processes \cup {Nobody}]
  /\ \A r \in Requests :
       /\ at[r] # "new" => call[r] \in Calls
       /\ at[r] \in Pending <=> host[r] # Nobody
       /\ at[r] \in {"revokeKey", "touch", "limit"} => call[r].key \in Requests /\ key[call[r].key] # NoRow
       /\ at[r] = "ok" /\ call[r].op = "create" => key[r] # NoRow
  /\ admitted \subseteq Requests
  /\ faults \in 0..MaxFaults

Goto(r, step) == at' = [at EXCEPT ![r] = step] /\ UNCHANGED host

Answer(r, a) == at' = [at EXCEPT ![r] = a] /\ host' = [host EXCEPT ![r] = Nobody]

(* A request that just arrived at process h goes on, or is answered.       *)
Begin(r, h, step) ==
  /\ at' = [at EXCEPT ![r] = step]
  /\ host' = [host EXCEPT ![r] = IF step \in Pending THEN h ELSE Nobody]

(* The bound on faults.                                                    *)
Fault == faults < MaxFaults /\ faults' = faults + 1

(* A statement whose answer is lost took effect or did not.                *)
LostAnswer(r, done, undone) == Fault /\ (done \/ undone) /\ Answer(r, "error")

-----------------------------------------------------------------------------
(* The clients                                                             *)

(* A user knows a key once its creation was answered.                      *)
KnownOf(u) == {k \in Requests : at[k] = "ok" /\ call[k].op = "create" /\ call[k].user = u}

Known == UNION {KnownOf(u) : u \in Users}

(* A revocation of the key was answered.                                   *)
RevokedFor(k) ==
  \E q \in Requests :
    /\ at[q] = "ok"
    /\ \/ call[q].op = "revoke" /\ call[q].key = k
       \/ call[q].op = "revokeAll" /\ k \in call[q].known

(* A request arrives, and runs to its first await or to its answer.        *)
Ask(r, op, u, k) ==
  /\ at[r] = "new"
  /\ call' = [call EXCEPT ![r] = [op |-> op, user |-> u, key |-> k, late |-> op = "use" /\ RevokedFor(k),
                                  known |-> IF op = "revokeAll" THEN KnownOf(u) ELSE {}]]
  /\ UNCHANGED faults

-----------------------------------------------------------------------------
(* ApiKeysService                                                          *)

Create(r, u, h) ==
  /\ Ask(r, "create", u, Nobody)
  /\ Begin(r, h, "insert")
  /\ UNCHANGED <<key, admitted>>

(* Mutated form: the insert is not awaited, and fails.                     *)
InsertUnawaited(r) ==
  /\ at[r] = "insert"
  /\ Answer(r, "ok")
  /\ UNCHANGED <<key, call, admitted, faults>>

Insert(r) ==
  LET inserted == key' = [key EXCEPT ![r] = [owner |-> call[r].user, status |-> "ACTIVE", used |-> FALSE]] IN
  /\ at[r] = "insert"
  /\ \/ inserted /\ Answer(r, "ok") /\ UNCHANGED faults
     \/ LostAnswer(r, inserted, UNCHANGED key)
  /\ UNCHANGED <<call, admitted>>

(* The key is looked for among the user's own, and ...                     *)
FindKey(r, u, k, h) ==
  /\ Ask(r, "revoke", u, k)
  /\ Begin(r, h, IF key[k].owner = u THEN "revokeKey" ELSE "notFound")
  /\ UNCHANGED <<key, admitted>>

Revoked(K) == key' = [k \in Requests |-> IF k \in K THEN [key[k] EXCEPT !.status = "REVOKED"] ELSE key[k]]

(* Mutated form: the update is not awaited, and fails.                     *)
RevokeKeyUnawaited(r) ==
  /\ at[r] = "revokeKey"
  /\ Answer(r, "ok")
  /\ UNCHANGED <<key, call, admitted, faults>>

(* ... revoked by its id, whatever has become of it.                       *)
RevokeKey(r) ==
  LET revoked == Revoked({call[r].key}) IN
  /\ at[r] = "revokeKey"
  /\ \/ revoked /\ Answer(r, "ok") /\ UNCHANGED faults
     \/ LostAnswer(r, revoked, UNCHANGED key)
  /\ UNCHANGED <<call, admitted>>

RevokeAll(r, u, h) ==
  /\ Ask(r, "revokeAll", u, Nobody)
  /\ Begin(r, h, "revokeKeys")
  /\ UNCHANGED <<key, admitted>>

(* Mutated form: only keys that were used are revoked.                     *)
ActiveUsedOf(u) == {k \in Requests : key[k] # NoRow /\ key[k].owner = u /\ key[k].used}

ActiveOf(u) == {k \in Requests : key[k].status = "ACTIVE" /\ key[k].owner = u}

(* One statement over the keys that are ACTIVE when it runs.               *)
RevokeKeys(r) ==
  LET revoked == Revoked(ActiveOf(call[r].user)) IN
  /\ at[r] = "revokeKeys"
  /\ \/ revoked /\ Answer(r, "ok") /\ UNCHANGED faults
     \/ LostAnswer(r, revoked, UNCHANGED key)
  /\ UNCHANGED <<call, admitted>>

-----------------------------------------------------------------------------
(* ApiKeyGuard and ApiKeyRateLimitGuard                                    *)

(* The key is looked for by its hash among those that are ACTIVE.          *)
FindActive(r, u, k, h) ==
  /\ Ask(r, "use", u, k)
  /\ \/ key[k].status = "ACTIVE" /\ Begin(r, h, "touch") /\ admitted' = admitted \cup {r}
     \/ key[k].status # "ACTIVE" /\ Begin(r, h, "invalid") /\ UNCHANGED admitted
  /\ UNCHANGED key

(* Mutated form: the row is written back as it was read.                   *)
TouchAsRead(r) ==
  /\ at[r] = "touch"
  /\ key' = [key EXCEPT ![call[r].key].used = TRUE, ![call[r].key].status = "ACTIVE"]
  /\ Goto(r, "limit")
  /\ UNCHANGED <<call, admitted, faults>>

(* lastUsedAt is written by the key's id, revoked meanwhile or not.        *)
Touch(r) ==
  LET touched == key' = [key EXCEPT ![call[r].key].used = TRUE] IN
  /\ at[r] = "touch"
  /\ \/ touched /\ Goto(r, "limit") /\ UNCHANGED faults
     \/ LostAnswer(r, touched, UNCHANGED key)
  /\ UNCHANGED <<call, admitted>>

(* The key's limit is read and its window counted, see RateLimiter.        *)
Limit(r) ==
  /\ at[r] = "limit"
  /\ \/ Answer(r, "ok") /\ UNCHANGED faults
     \/ Answer(r, "limited") /\ UNCHANGED faults
     \/ Fault /\ Answer(r, "error")
  /\ UNCHANGED <<key, call, admitted>>

-----------------------------------------------------------------------------
(* A process dies with its requests.                                       *)
Crash(h) ==
  /\ Fault
  /\ at' = [r \in Requests |-> IF host[r] = h THEN "error" ELSE at[r]]
  /\ host' = [r \in Requests |-> IF host[r] = h THEN Nobody ELSE host[r]]
  /\ UNCHANGED <<key, call, admitted>>

Init ==
  /\ key      = [r \in Requests |-> NoRow]
  /\ call     = [r \in Requests |-> NoCall]
  /\ at       = [r \in Requests |-> "new"]
  /\ host     = [r \in Requests |-> Nobody]
  /\ admitted = {}
  /\ faults   = 0

Arrive(r, u, h) ==
  \/ Create(r, u, h)
  \/ RevokeAll(r, u, h)
  \/ \E k \in Known : FindKey(r, u, k, h)
  \/ \E k \in KnownOf(u) : FindActive(r, u, k, h)

RequestNext(r) == Insert(r) \/ RevokeKey(r) \/ RevokeKeys(r) \/ Touch(r) \/ Limit(r)

Finished == \A r \in Requests : at[r] \in Answers

Next ==
  \/ \E r \in Requests : RequestNext(r) \/ \E u \in Users, h \in Processes : Arrive(r, u, h)
  \/ \E h \in Processes : Crash(h)
  \/ Finished /\ UNCHANGED vars

Spec == Init /\ [][Next]_vars

-----------------------------------------------------------------------------
(* A request that arrives after its key's revocation was answered is not   *)
(* let through, whatever requests with the key are still under way: one    *)
(* that was admitted before writes the row after its revocation.           *)
RevokedIsRefused ==
  \A r \in Requests : call[r] # NoCall /\ call[r].late => at[r] = "invalid"

(* Once revokeAll was answered, each key its user knew when asking for it  *)
(* is revoked and stays so; one being created at the time may live.        *)
RevokeAllLeavesNone ==
  \A r \in Requests :
    at[r] = "ok" /\ call[r].op = "revokeAll" => \A k \in call[r].known : key[k].status = "REVOKED"

-----------------------------------------------------------------------------
(* ApiKeys implements Revocable.                                           *)
StatusOf(k) ==
  IF key[k].status = "ACTIVE" THEN "live" ELSE IF key[k].status = "REVOKED" THEN "revoked" ELSE "absent"

Credential == INSTANCE Revocable WITH
  Credentials <- Requests,
  Uses        <- Requests,
  status      <- [k \in Requests |-> StatusOf(k)],
  admissions  <- {<<r, call[r].key>> : r \in admitted}

(* A use is admitted only while its key is live, and a revoked key stays   *)
(* revoked.                                                                *)
ImplementsRevocable == Credential!Spec

=============================================================================
