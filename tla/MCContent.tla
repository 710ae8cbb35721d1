------------------------------ MODULE MCContent ------------------------------
(* A small instance of Content for TLC: one post in one of two topics, and *)
(* room for two more posts and a comment.                                  *)
EXTENDS Content, TLC

Symmetry == Permutations(Requests) \union Permutations(Posts \ Present)
                \union Permutations(Topics) \union Permutations(Personas)
=============================================================================
