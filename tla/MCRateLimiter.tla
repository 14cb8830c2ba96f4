---------------------------- MODULE MCRateLimiter ----------------------------
(***************************************************************************)
(* RateLimiter for TLC: instances, clients and requests are alike.         *)
(***************************************************************************)
EXTENDS RateLimiter

Symmetry ==
  Permutations(Instances) \cup Permutations(Clients) \cup Permutations(Requests)
=============================================================================
