------------------------------- MODULE MCCore ------------------------------
(* Core with two query strings that are alike. *)
EXTENDS Core, TLC
CONSTANTS ab, abc
MCQuery == {ab, abc}
Symmetry == Permutations(MCQuery)
=============================================================================
