----------------------------- MODULE Revocable -----------------------------
(***************************************************************************)
(* What a revocable credential promises, with the statements, processes    *)
(* and failures behind it left out.                                        *)
(*                                                                         *)
(* A credential is issued once.  It admits uses while it is live.  Once it *)
(* is revoked it admits none and never comes back to life.  The rows of    *)
(* RefreshToken and of ApiKey in the schema are such credentials: Sessions *)
(* and ApiKeys implement this module, where a use is admitted at the       *)
(* moment its row is read.                                                 *)
(***************************************************************************)
CONSTANTS
  Credentials,
  Uses

VARIABLES
  status,     (* "absent", "live" or "revoked", for each credential        *)
  admissions  (* the uses admitted so far, each with its credential        *)

credentialVars == <<status, admissions>>

Init ==
  /\ status = [c \in Credentials |-> "absent"]
  /\ admissions = {}

Issue(c) ==
  /\ status[c] = "absent"
  /\ status' = [status EXCEPT ![c] = "live"]
  /\ UNCHANGED admissions

Admit(u, c) ==
  /\ status[c] = "live"
  /\ admissions' = admissions \cup {<<u, c>>}
  /\ UNCHANGED status

(* One statement may revoke several credentials.                           *)
Revoke(C) ==
  /\ \A c \in C : status[c] # "absent"
  /\ status' = [c \in Credentials |-> IF c \in C THEN "revoked" ELSE status[c]]
  /\ UNCHANGED admissions

Next ==
  \/ \E c \in Credentials : Issue(c)
  \/ \E c \in Credentials, u \in Uses : Admit(u, c)
  \/ \E C \in SUBSET Credentials : Revoke(C)

Spec == Init /\ [][Next]_credentialVars

=============================================================================
