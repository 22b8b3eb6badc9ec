--------------------------- MODULE MCReplayWindow ---------------------------
(* Small instances of ReplayWindow for TLC.                                *)
EXTENDS ReplayWindow, TLC

CONSTANTS d1, d2, d3, n1, n2, n3, n4, click, payme, x

(* One notice without the header, one with an empty one, and two providers *)
(* that chose the same nonce.                                              *)
MCProvider == [n \in Notices |-> IF n = n4 THEN payme ELSE click]

MCNonce == [n \in Notices |-> IF n = n1 THEN None ELSE IF n = n2 THEN Empty ELSE x]

(* Some clocks are ahead of ours.                                          *)
MCStamp == [n \in Notices |-> IF n = n1 THEN 5 ELSE IF n = n4 THEN 2 ELSE 3]

MCEnv ==
  "WEBHOOK_TIMESTAMP_TOLERANCE_SECONDS" :> 2 @@ "WEBHOOK_MAX_DRIFT_SECONDS" :> 2 @@ "WEBHOOK_NONCE_TTL_SECONDS" :> 6

Symmetry == Permutations(Deliveries)

=============================================================================
