--------------------------- MODULE MCRateLimiter ---------------------------
(* Small instances of RateLimiter for TLC.                                 *)
EXTENDS RateLimiter

CONSTANTS r1, r2, r3, ip, k1, k2

(* Three clients behind one address, two of them with one API key.         *)
MCRoute == [r \in Requests |-> IF r = r3 THEN <<ip, k2>> ELSE <<ip, k1>>]

MCLimit == [k \in Keys |-> IF k = ip THEN 2 ELSE 1]

=============================================================================
