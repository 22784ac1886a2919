------------------------- MODULE MCManagedResource --------------------------
(* Small instances of ManagedResource for TLC.                             *)
EXTENDS ManagedResource, TLC

(* Identifiers and specs are interchangeable; used in safety runs only.    *)
Symmetry ==
  Permutations(Ids) \cup Permutations(Specs) \cup Permutations(Proc)
=============================================================================
