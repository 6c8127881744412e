---------------------------- MODULE MailboxSpec -----------------------------
(***************************************************************************)
(* What the relay promises of one mailbox, without connections, channels   *)
(* or handlers: an envelope is offered to a connected receiver at most     *)
(* once, stored, or both; its sender gets one answer; what was accepted    *)
(* stays stored until the receiver acknowledges it.  Module Delivery       *)
(* implements it.                                                          *)
(***************************************************************************)
CONSTANTS
  Env,           \* envelopes
  Lossy          \* TRUE: the store may refuse an envelope or fail

VARIABLES
  offered,       \* envelopes handed to a live connection
  stored,        \* envelopes in the mailbox's queue
  answered,      \* per envelope: "none", "accepted" or "refused"
  received,      \* envelopes that reached the receiver
  acked          \* envelopes the receiver acknowledged

vars == <<offered, stored, answered, received, acked>>

Init ==
  /\ offered = {} /\ stored = {} /\ received = {} /\ acked = {}
  /\ answered = [e \in Env |-> "none"]

Offer(e) ==
  /\ answered[e] = "none"
  /\ e \notin offered
  /\ offered' = offered \cup {e}
  /\ UNCHANGED <<stored, answered, received, acked>>

Store(e) ==
  /\ answered[e] = "none"
  /\ answered' = [answered EXCEPT ![e] = "accepted"]
  /\ stored' = stored \cup {e}
  /\ UNCHANGED <<offered, received, acked>>

(* Not stored: the answer depends on whether the envelope was offered. *)
Skip(e) ==
  /\ Lossy
  /\ answered[e] = "none"
  /\ answered' = [answered EXCEPT ![e] = IF e \in offered THEN "accepted" ELSE "refused"]
  /\ UNCHANGED <<offered, stored, received, acked>>

Receive(e) ==
  /\ e \in offered \cup stored
  /\ received' = received \cup {e}
  /\ UNCHANGED <<offered, stored, answered, acked>>

(* An acknowledgement may come before the store it is for. *)
Ack(e) ==
  /\ e \in received
  /\ stored' = stored \ {e}
  /\ acked' = acked \cup {e}
  /\ UNCHANGED <<offered, answered, received>>

Next == \E e \in Env : Offer(e) \/ Store(e) \/ Skip(e) \/ Receive(e) \/ Ack(e)

Spec == Init /\ [][Next]_vars

(* What is stored is received in the end. *)
LiveSpec == Spec /\ \A e \in Env : WF_vars(e \in stored /\ Receive(e))
=============================================================================
