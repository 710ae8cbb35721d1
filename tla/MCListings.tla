----------------------------- MODULE MCListings -----------------------------
(* A small instance of Listings for TLC.                                   *)
EXTENDS Listings

ThreeRows == 1..3
=============================================================================
