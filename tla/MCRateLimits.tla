------------------------------ MODULE MCRateLimits ------------------------------
(* Instances of RateLimits for TLC: handlers and meters are interchangeable. *)
EXTENDS RateLimits, TLC

CONSTANTS t1, t2, p1, p2, stress, flood, host, port

Symmetric == Permutations(Threads) \cup Permutations(Meters)
=============================================================================
