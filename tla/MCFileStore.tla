---------------------------- MODULE MCFileStore -----------------------------
(* TLC instances of FileStore. *)
EXTENDS FileStore, TLC

Symmetry == Permutations(Transfer) \cup Permutations(Worker)
=============================================================================
