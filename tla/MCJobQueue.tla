----------------------------- MODULE MCJobQueue -----------------------------
(***************************************************************************)
(* JobQueue on small instances: the sets of model values the .cfg files    *)
(* choose from, and the symmetry that is sound for the safety runs (no     *)
(* action orders documents, clients or workers).                           *)
(***************************************************************************)
EXTENDS JobQueue, TLC

Symmetry == Permutations(Docs) \cup Permutations(Clients)
              \cup Permutations(Workers)
=============================================================================
