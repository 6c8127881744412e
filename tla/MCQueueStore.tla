---------------------------- MODULE MCQueueStore ----------------------------
(* TLC instances of QueueStore. *)
EXTENDS QueueStore, TLC

(* Workers, mailboxes and uuids are interchangeable. *)
Symmetry == Permutations(Worker) \cup Permutations(Mailbox) \cup Permutations(Id)
=============================================================================
