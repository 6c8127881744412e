---------------------------- MODULE MCAdmission -----------------------------
(* TLC instances of Admission. *)
EXTENDS Admission, TLC

Symmetric == Permutations(Conn) \cup Permutations(Token)
=============================================================================
