-------------------------- MODULE MCFirestoreReads --------------------------
(***************************************************************************)
(* Symmetry of FirestoreReads for the runs.                                *)
(***************************************************************************)
EXTENDS FirestoreReads, TLC

Symmetry == Permutations(Reads)
=============================================================================
