---------------------------- MODULE MCRealProfile ----------------------------
(* A small instance of RealProfile for TLC.                                *)
EXTENDS RealProfile, TLC

Symmetry == Permutations(Requests) \union Permutations(Users) \union Permutations(Addresses)
=============================================================================
