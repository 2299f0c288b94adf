--------------------------- MODULE MCLocalStorage ---------------------------
(***************************************************************************)
(* LocalStorage on small instances; no action orders keys or writers.      *)
(***************************************************************************)
EXTENDS LocalStorage, TLC

Symmetry == Permutations(Keys) \cup Permutations(Writers)
=============================================================================
