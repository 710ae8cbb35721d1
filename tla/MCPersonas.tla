----------------------------- MODULE MCPersonas -----------------------------
(* Small instances of Personas for TLC.                                    *)
EXTENDS Personas, TLC

Symmetry == Permutations(Requests)
=============================================================================
