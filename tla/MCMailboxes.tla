---------------------------- MODULE MCMailboxes -----------------------------
(* TLC instances of Mailboxes. *)
EXTENDS Mailboxes, TLC

Symmetry == Permutations(Mailbox) \cup Permutations(Socket) \cup Permutations(Token)
=============================================================================
