------------------------- MODULE MCPaymentWebhooks -------------------------
(* Small instances of PaymentWebhooks for TLC.                             *)
EXTENDS PaymentWebhooks, TLC

CONSTANTS u1, p1, n1, n2, d1, d2, q1, q2, h1, h2, x1, x2

MCOwner == [p \in Payments |-> u1]

ByClick == [p \in Payments |-> "CLICK"]

ByPayme == [p \in Payments |-> "PAYME"]

(* One payment is of hundredths, 3.05, the other finer, 3.0001.            *)
MCAmount == [p \in Payments |-> 30500]

FinerAmount == [p \in Payments |-> 30001]

MCFunds == [u \in Users |-> 1]

(* The second poll and the second delivery run in the other process.       *)
MCHost == [x \in Payments \cup Deliveries \cup Pollers |-> IF x \in {d2, q2} /\ h2 \in Processes THEN h2 ELSE h1]

Kind(word, time, amount) ==
  [payment |-> p1, word |-> word, time |-> time, amount |-> amount, sameProvider |-> TRUE, signed |-> "body"]

AskedOf(p) == CHOOSE a \in Asked(p) : TRUE

(* What may be said of one payment, half of it in the same second: over    *)
(* 3.00, which is off by one unit, over the hundredths Payme asks for, by  *)
(* the other provider, signed in a header or not at all.                   *)
Outcomes ==
  {Kind("success", 1, 30000), Kind("canceled", 1, 30000), Kind("created", 1, 30000),
   Kind("paid", 2, AskedOf(p1)),
   [Kind("other", 2, 30000) EXCEPT !.sameProvider = FALSE],
   [Kind("cancelled", 2, 30000) EXCEPT !.signed = "header"],
   [Kind("canceled", 2, 30000) EXCEPT !.signed = "nowhere"]}

Symmetry == Permutations(Notices) \cup Permutations(Nonces)

SuccessAndCancel == {Kind("success", 1, AskedOf(p1)), Kind("cancelled", 2, AskedOf(p1))}

=============================================================================
