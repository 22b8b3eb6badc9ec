----------------------------- MODULE MCSessions -----------------------------
(* Small instances of Sessions for TLC.                                    *)
EXTENDS Sessions, TLC

CONSTANTS c1, c2, e1, e2, r1, r2, r3, h1, h2

(* Two clients share an email, and one of them has another.                *)
MCOwn == {<<c1, e1>>, <<c2, e1>>, <<c2, e2>>} \cap (Clients \X Emails)

Symmetry == Permutations(Requests) \cup Permutations(Processes)

=============================================================================
