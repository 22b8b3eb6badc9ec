----------------------------- MODULE MCApiKeys -----------------------------
(* Small instances of ApiKeys for TLC.                                     *)
EXTENDS ApiKeys, TLC

CONSTANTS u1, u2, r1, r2, r3, r4, r5, h1, h2

Symmetry == Permutations(Users) \cup Permutations(Requests) \cup Permutations(Processes)

=============================================================================
