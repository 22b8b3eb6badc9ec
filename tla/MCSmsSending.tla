---------------------------- MODULE MCSmsSending ----------------------------
(* Small instances of SmsSending for TLC.                                  *)
EXTENDS SmsSending, TLC

CONSTANTS r1, r2, r3, u1, u2, k1, w1, w2, InitialBalance

MCFunds == [u \in Users |-> InitialBalance]

RequestSymmetry == Permutations(Requests)

WorkerSymmetry == Permutations(Workers)

Symmetric == RequestSymmetry \cup WorkerSymmetry

=============================================================================
