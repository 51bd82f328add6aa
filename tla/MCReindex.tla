----------------------------- MODULE MCReindex -----------------------------
(* Small instances of the index and its runs. *)
EXTENDS Reindex, TLC

Symmetry == Permutations(Docs) \cup Permutations(Texts) \cup Permutations(Models)
=============================================================================
