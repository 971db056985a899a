----------------------------- MODULE MCRateLimiter -----------------------------
(* Two clients; one sends more requests than a window admits. *)
EXTENDS RateLimiter, TLC

CONSTANTS n1, n2, n3, q1

MCClientOf == [r \in Requests |-> IF r = q1 THEN "quiet" ELSE "noisy"]
Interchangeable == Permutations({n1, n2, n3})
=============================================================================
