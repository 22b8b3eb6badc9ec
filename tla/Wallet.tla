------------------------------- MODULE Wallet -------------------------------
(***************************************************************************)
(* What BillingService promises its two callers, with the callers'         *)
(* processes, queues, retries and crashes left out.                        *)
(*                                                                         *)
(* A user owns a prepaid balance.  Sending a message costs one fixed price *)
(* and is paid for once; a payment is credited once.  A balance and its    *)
(* ledger row ("Transaction" in the schema) change in one step, and a      *)
(* charge never takes a balance below zero.  SmsSending and                *)
(* PaymentWebhooks implement this module: every step of theirs is one of   *)
(* the two steps below or leaves the wallet alone.                         *)
(***************************************************************************)
EXTENDS Integers

CONSTANTS
  Users,
  Messages,   (* messages that may be charged                              *)
  Payments,   (* payments that may be credited                             *)
  Amounts,    (* amounts a payment may be worth                            *)
  Cost,       (* what one message costs                                    *)
  Funds       (* the balance each user starts with                         *)

VARIABLES
  balance,    (* User.balance                                              *)
  debits,     (* SMS_DEDUCTION rows: the user and the message charged      *)
  credits     (* PAYMENT_TOPUP rows: the user, the payment and its amount  *)

walletVars == <<balance, debits, credits>>

Charged == {d.message : d \in debits}

Credited == {c.payment : c \in credits}

-----------------------------------------------------------------------------
Init ==
  /\ balance = Funds
  /\ debits  = {}
  /\ credits = {}

(* chargeSmsInTransaction: the conditional UPDATE and the deduction row.   *)
Charge(u, m) ==
  /\ m \notin Charged
  /\ balance[u] >= Cost
  /\ balance' = [balance EXCEPT ![u] = @ - Cost]
  /\ debits'  = debits \cup {[user |-> u, message |-> m]}
  /\ UNCHANGED credits

(* applyPaymentTopupInTransaction: the increment and the top-up row.       *)
Credit(u, p, a) ==
  /\ p \notin Credited
  /\ balance' = [balance EXCEPT ![u] = @ + a]
  /\ credits' = credits \cup {[user |-> u, payment |-> p, amount |-> a]}
  /\ UNCHANGED debits

Next ==
  \/ \E u \in Users, m \in Messages : Charge(u, m)
  \/ \E u \in Users, p \in Payments, a \in Amounts : Credit(u, p, a)

Spec == Init /\ [][Next]_walletVars

=============================================================================
