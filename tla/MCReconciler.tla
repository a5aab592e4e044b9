---------------------------- MODULE MCReconciler ----------------------------
(* TLC instances of Reconciler: records and hooks are interchangeable. *)
EXTENDS Reconciler, TLC

Symmetry == Permutations(Recs) \cup Permutations(Hooks)
=============================================================================
