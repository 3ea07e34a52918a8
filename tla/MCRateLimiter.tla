---- MODULE MCRateLimiter ----
(* An instance of RateLimiter for TLC. *)
EXTENDS RateLimiter, TLC

Symmetric == Permutations(Peers) \cup Permutations(Requests)
====
