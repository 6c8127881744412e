----------------------------- MODULE MCDelivery -----------------------------
(* TLC instances of Delivery. *)
EXTENDS Delivery, TLC

Symmetry == Permutations(Env) \cup Permutations(Socket)
=============================================================================
