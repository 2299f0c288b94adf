--------------------------- MODULE MCDocumentStore ---------------------------
(***************************************************************************)
(* DocumentStore on small instances.  No action orders files, bills or     *)
(* requests, so permuting each of them is sound.                           *)
(***************************************************************************)
EXTENDS DocumentStore, TLC

Symmetry == Permutations(Files) \cup Permutations(Bills)
              \cup Permutations(Requests)
=============================================================================
