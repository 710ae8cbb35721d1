--------------------------- MODULE MCRegistration ---------------------------
(* Small instances of Registration for TLC.                                *)
EXTENDS Registration, TLC

Symmetry == Permutations(Codes) \union Permutations(Names)
                \union Permutations(Handlers) \union Permutations(Staff)
=============================================================================
