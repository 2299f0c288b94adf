----------------------------- MODULE MCSession -------------------------------
(* Session in one browser with small bounds. *)
EXTENDS Session, TLC

Symmetry == Permutations(Tabs) \cup Permutations(Users)
==============================================================================
