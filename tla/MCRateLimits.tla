---------------------------- MODULE MCRateLimits ----------------------------
(* A small instance of RateLimits for TLC: two usernames, one address and  *)
(* one fingerprint, whose limit is off; the limits of the scopes differ.   *)
EXTENDS RateLimits, TLC

CONSTANTS u1, u2, i1, f1

MCUserKeys == {u1, u2}
MCIPKeys == {i1}
MCFPKeys == {f1}
MCCount == (u1 :> 1) @@ (u2 :> 1) @@ (i1 :> 2) @@ (f1 :> 0)

Symmetry == Permutations(Requests) \union Permutations(MCUserKeys)
=============================================================================
