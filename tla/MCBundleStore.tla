--------------------------- MODULE MCBundleStore ----------------------------
(* TLC instances of BundleStore. *)
EXTENDS BundleStore, TLC

Symmetry == Permutations(Bundle) \cup Permutations(Worker)
=============================================================================
