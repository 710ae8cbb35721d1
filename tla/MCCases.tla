------------------------------- MODULE MCCases -------------------------------
(* A small instance of Cases for TLC.                                      *)
EXTENDS Cases, TLC

Symmetry == Permutations(Requests) \union Permutations(Reports) \union Permutations(CaseIds)
=============================================================================
