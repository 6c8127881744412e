------------------------------ MODULE Delivery ------------------------------
(***************************************************************************)
(* Delivery of envelopes to one mailbox (src/ws.rs): its durable queue, the*)
(* `online` route, and for every connection of its receiver the handler,   *)
(* the bounded outbound channel and the writer task.                       *)
(*                                                                         *)
(* Every envelope is sent by a SendEnvelope handler of its own, past its   *)
(* authorisation and rate check (module Mailboxes).  A guarded access to   *)
(* `online` is one step, and handlers interleave between any two.  Channel *)
(* slots taken by other frames are left out: OUTBOUND_QUEUE_CAPACITY is    *)
(* the room for envelopes.                                                 *)
(***************************************************************************)
EXTENDS Naturals, Sequences, SequencesExt

CONSTANTS
  Env,                       \* envelopes
  Socket,                    \* connections of the receiver
  None, Dead,                \* no route; a route whose receiving end is gone
  Synced,                    \* the frame that ends a backlog
  OUTBOUND_QUEUE_CAPACITY,
  IoErrors,                  \* TRUE: queue transactions may fail
  StoreMayFill,              \* TRUE: the global backstop may refuse an envelope
  MaxBreaks                  \* bound on lost connections and crashes

ASSUME CapacityAssumption == OUTBOUND_QUEUE_CAPACITY \in Nat \ {0}
ASSUME FlagAssumption ==
  IoErrors \in BOOLEAN /\ StoreMayFill \in BOOLEAN /\ MaxBreaks \in Nat
ASSUME NameAssumption ==
  None \notin Socket /\ Dead \notin Socket /\ None # Dead /\ Synced \notin Env

VARIABLES
  queue,       \* the mailbox's stored envelopes, oldest first
  online,      \* the route: a socket, None or Dead
  spc,         \* per envelope: step of its SendEnvelope handler
  live,        \* envelopes put on a live channel (delivered_live)
  outcome,     \* per envelope: the answer its sender got
  pc,          \* per socket: step of the receiver's handler
  backlog,     \* per socket: envelopes the flush has still to send
  chan,        \* per socket: the outbound channel
  writer,      \* per socket: TRUE while the writer task drains the channel
  got,         \* per socket: frames the client received on this connection
  owed,        \* per socket: envelopes the flush read from the queue
  seen,        \* envelopes the client received on any connection
  acked,       \* envelopes the client acknowledged
  breaks       \* connections lost and crashes so far

sends == <<spc, live, outcome>>
conn == <<pc, backlog, chan, writer, got, owed>>
client == <<seen, acked, breaks>>
vars == <<queue, online, sends, conn, client>>

Set(f, x, v) == [f EXCEPT ![x] = v]

-----------------------------------------------------------------------------
(* Hello on a new connection, up to the route.                             *)
Hello(s) ==
  /\ pc[s] = "closed"
  /\ pc' = Set(pc, s, "online")
  /\ writer' = Set(writer, s, TRUE)
  /\ UNCHANGED <<queue, online, sends, backlog, chan, got, owed, client>>

HelloOnline(s) ==
  /\ pc[s] = "online"
  /\ pc' = Set(pc, s, "read")
  /\ online' = s
  /\ UNCHANGED <<queue, sends, backlog, chan, writer, got, owed, client>>

(* Mutant: the flush skips the oldest envelope. *)
HelloRead_mutant(s) ==
  /\ pc[s] = "read"
  /\ pc' = Set(pc, s, "flush")
  /\ backlog' = Set(backlog, s, IF queue = <<>> THEN queue ELSE Tail(queue))
  /\ owed' = Set(owed, s, ToSet(queue))
  /\ UNCHANGED <<queue, online, sends, chan, writer, got, client>>

HelloRead(s) ==
  /\ pc[s] = "read"
  /\ pc' = Set(pc, s, "flush")
  /\ backlog' = Set(backlog, s, queue)
  /\ owed' = Set(owed, s, ToSet(queue))
  /\ UNCHANGED <<queue, online, sends, chan, writer, got, client>>

(* The flush cannot read the queue: the error is swallowed.                *)
HelloReadFails(s) ==
  /\ IoErrors
  /\ pc[s] = "read"
  /\ pc' = Set(pc, s, "flush")
  /\ UNCHANGED <<queue, online, sends, backlog, chan, writer, got, owed, client>>

(* Mutant: a try_send that drops what does not fit. *)
FlushSend_mutant(s) ==
  /\ pc[s] = "flush"
  /\ backlog[s] # <<>>
  /\ writer[s]
  /\ chan' = IF Len(chan[s]) < OUTBOUND_QUEUE_CAPACITY
             THEN Set(chan, s, Append(chan[s], Head(backlog[s]))) ELSE chan
  /\ backlog' = Set(backlog, s, Tail(backlog[s]))
  /\ UNCHANGED <<queue, online, sends, pc, writer, got, owed, client>>

(* Awaited sends: they wait for room and fail once the writer is gone.     *)
FlushSend(s) ==
  /\ pc[s] = "flush"
  /\ backlog[s] # <<>>
  /\ writer[s]
  /\ Len(chan[s]) < OUTBOUND_QUEUE_CAPACITY
  /\ chan' = Set(chan, s, Append(chan[s], Head(backlog[s])))
  /\ backlog' = Set(backlog, s, Tail(backlog[s]))
  /\ UNCHANGED <<queue, online, sends, pc, writer, got, owed, client>>

FlushBroken(s) ==
  /\ pc[s] = "flush"
  /\ ~writer[s]
  /\ pc' = Set(pc, s, "ready")
  /\ backlog' = Set(backlog, s, <<>>)
  /\ UNCHANGED <<queue, online, sends, chan, writer, got, owed, client>>

(* Mutant: an unbounded channel. *)
FlushSynced_mutant(s) ==
  /\ pc[s] = "flush"
  /\ backlog[s] = <<>>
  /\ writer[s]
  /\ chan' = Set(chan, s, Append(chan[s], Synced))
  /\ pc' = Set(pc, s, "ready")
  /\ UNCHANGED <<queue, online, sends, backlog, writer, got, owed, client>>

FlushSynced(s) ==
  /\ pc[s] = "flush"
  /\ backlog[s] = <<>>
  /\ writer[s]
  /\ Len(chan[s]) < OUTBOUND_QUEUE_CAPACITY
  /\ chan' = Set(chan, s, Append(chan[s], Synced))
  /\ pc' = Set(pc, s, "ready")
  /\ UNCHANGED <<queue, online, sends, backlog, writer, got, owed, client>>

-----------------------------------------------------------------------------
(* The writer task hands the next frame to the client.                     *)
Write(s) ==
  /\ writer[s]
  /\ chan[s] # <<>>
  /\ chan' = Set(chan, s, Tail(chan[s]))
  /\ got' = Set(got, s, got[s] \cup {Head(chan[s])})
  /\ seen' = seen \cup ({Head(chan[s])} \ {Synced})
  /\ UNCHANGED <<queue, online, sends, pc, backlog, writer, owed, acked, breaks>>

(* A send error or a write timeout ends the writer; what is on the channel *)
(* goes with it.                                                           *)
WriteFails(s) ==
  /\ writer[s]
  /\ breaks < MaxBreaks
  /\ breaks' = breaks + 1
  /\ writer' = Set(writer, s, FALSE)
  /\ chan' = Set(chan, s, <<>>)
  /\ UNCHANGED <<queue, online, sends, pc, backlog, got, owed, seen, acked>>

(* The client acknowledges something it received, on whichever connection; *)
(* the queue's keys are distinct, so at most one row goes.                 *)
Ack(s, e) ==
  /\ pc[s] = "ready"
  /\ e \in seen
  /\ queue' = RemoveFirst(queue, e)
  /\ acked' = acked \cup {e}
  /\ UNCHANGED <<online, sends, conn, seen, breaks>>

-----------------------------------------------------------------------------
(* The connection loop ends: the connection broke (the idle timeout at the *)
(* latest notices), or the client leaves when it has read everything.      *)
HangUp(s) ==
  /\ pc[s] = "ready"
  /\ \/ ~writer[s] /\ UNCHANGED breaks
     \/ writer[s] /\ breaks < MaxBreaks /\ breaks' = breaks + 1
  /\ pc' = Set(pc, s, "closing")
  /\ UNCHANGED <<queue, online, sends, backlog, chan, writer, got, owed, seen, acked>>

Leave(s) ==
  /\ pc[s] = "ready" /\ writer[s]
  /\ chan[s] = <<>> /\ Synced \in got[s]
  /\ pc' = Set(pc, s, "closing")
  /\ UNCHANGED <<queue, online, sends, backlog, chan, writer, got, owed, client>>

(* The route is looked at under one guard and removed under another.       *)
CloseCheck(s) ==
  /\ pc[s] = "closing"
  /\ pc' = Set(pc, s, IF online = s THEN "unroute" ELSE "close")
  /\ UNCHANGED <<queue, online, sends, backlog, chan, writer, got, owed, client>>

CloseUnroute(s) ==
  /\ pc[s] = "unroute"
  /\ pc' = Set(pc, s, "close")
  /\ online' = None
  /\ UNCHANGED <<queue, sends, backlog, chan, writer, got, owed, client>>

Close(s) ==
  /\ pc[s] = "close"
  /\ pc' = Set(pc, s, "closed")
  /\ online' = IF online = s THEN Dead ELSE online
  /\ writer' = Set(writer, s, FALSE)
  /\ chan' = Set(chan, s, <<>>)
  /\ got' = Set(got, s, {})
  /\ owed' = Set(owed, s, {})
  /\ UNCHANGED <<queue, sends, backlog, client>>

-----------------------------------------------------------------------------
(* SendEnvelope after its checks: live delivery first.                     *)
Accepts(s) == writer[s] /\ Len(chan[s]) < OUTBOUND_QUEUE_CAPACITY

SendLive(e) ==
  /\ spc[e] = "route"
  /\ online \in Socket
  /\ Accepts(online)
  /\ spc' = Set(spc, e, "store")
  /\ live' = live \cup {e}
  /\ chan' = Set(chan, online, Append(chan[online], e))
  /\ UNCHANGED <<queue, online, outcome, pc, backlog, writer, got, owed, client>>

SendOffline(e) ==
  /\ spc[e] = "route"
  /\ online = None
  /\ spc' = Set(spc, e, "store")
  /\ UNCHANGED <<queue, online, live, outcome, conn, client>>

(* try_send fails on a closed or full channel; the guard is dropped before *)
(* the route is removed, whoever it belongs to by then.                    *)
SendLiveFails(e) ==
  /\ spc[e] = "route"
  /\ online # None
  /\ online \in Socket => ~Accepts(online)
  /\ spc' = Set(spc, e, "unroute")
  /\ UNCHANGED <<queue, online, live, outcome, conn, client>>

SendUnroute(e) ==
  /\ spc[e] = "unroute"
  /\ spc' = Set(spc, e, "store")
  /\ online' = None
  /\ UNCHANGED <<queue, live, outcome, conn, client>>

SendStore(e) ==
  /\ spc[e] = "store"
  /\ spc' = Set(spc, e, "done")
  /\ queue' = Append(queue, e)
  /\ outcome' = Set(outcome, e, "send_ok")
  /\ UNCHANGED <<online, live, conn, client>>

(* Mutant: the sender is told all is well. *)
SendStoreFull_mutant(e) ==
  /\ StoreMayFill
  /\ spc[e] = "store"
  /\ spc' = Set(spc, e, "done")
  /\ outcome' = Set(outcome, e, "send_ok")
  /\ UNCHANGED <<queue, online, live, conn, client>>

(* Mutant: the sender is refused although the receiver got it. *)
SendStoreFull_mutant2(e) ==
  /\ StoreMayFill
  /\ spc[e] = "store"
  /\ spc' = Set(spc, e, "done")
  /\ outcome' = Set(outcome, e, "relay_full")
  /\ UNCHANGED <<queue, online, live, conn, client>>

(* would_exceed_global, or the enqueue fails: only a live delivery counts. *)
SendStoreFull(e) ==
  /\ StoreMayFill
  /\ spc[e] = "store"
  /\ spc' = Set(spc, e, "done")
  /\ outcome' = Set(outcome, e, IF e \in live THEN "send_ok" ELSE "relay_full")
  /\ UNCHANGED <<queue, online, live, conn, client>>

SendStoreFails(e) ==
  /\ IoErrors
  /\ spc[e] = "store"
  /\ spc' = Set(spc, e, "done")
  /\ outcome' = Set(outcome, e, IF e \in live THEN "send_ok" ELSE "relay_error")
  /\ UNCHANGED <<queue, online, live, conn, client>>

-----------------------------------------------------------------------------
(* The relay stops and starts again: the queue is on disk, connections,    *)
(* channels and handlers are gone, and a sender whose handler was running  *)
(* never gets an answer.                                                   *)
Crash ==
  /\ breaks < MaxBreaks
  /\ breaks' = breaks + 1
  /\ online' = None
  /\ spc' = [e \in Env |-> IF spc[e] \in {"unroute", "store"} THEN "lost" ELSE spc[e]]
  /\ pc' = [s \in Socket |-> "closed"]
  /\ backlog' = [s \in Socket |-> <<>>]
  /\ chan' = [s \in Socket |-> <<>>]
  /\ writer' = [s \in Socket |-> FALSE]
  /\ got' = [s \in Socket |-> {}]
  /\ owed' = [s \in Socket |-> {}]
  /\ UNCHANGED <<queue, live, outcome, seen, acked>>

-----------------------------------------------------------------------------
Init ==
  /\ queue = <<>> /\ online = None
  /\ spc = [e \in Env |-> "route"] /\ live = {}
  /\ outcome = [e \in Env |-> "none"]
  /\ pc = [s \in Socket |-> "closed"]
  /\ backlog = [s \in Socket |-> <<>>]
  /\ chan = [s \in Socket |-> <<>>]
  /\ writer = [s \in Socket |-> FALSE]
  /\ got = [s \in Socket |-> {}]
  /\ owed = [s \in Socket |-> {}]
  /\ seen = {} /\ acked = {} /\ breaks = 0

SendStep(e) ==
  \/ SendLive(e) \/ SendOffline(e) \/ SendLiveFails(e) \/ SendUnroute(e)
  \/ SendStore(e) \/ SendStoreFull(e) \/ SendStoreFails(e)

HandlerStep(s) ==
  \/ HelloOnline(s) \/ HelloRead(s) \/ HelloReadFails(s)
  \/ FlushSend(s) \/ FlushBroken(s) \/ FlushSynced(s)
  \/ CloseCheck(s) \/ CloseUnroute(s) \/ Close(s)

Next ==
  \/ \E e \in Env : SendStep(e)
  \/ \E s \in Socket :
       \/ Hello(s) \/ HandlerStep(s) \/ Write(s) \/ WriteFails(s) \/ HangUp(s) \/ Leave(s)
       \/ \E e \in Env : Ack(s, e)
  \/ Crash

Spec == Init /\ [][Next]_vars

(* Handlers and writers run; a client connects again when it lost its      *)
(* connection, and sooner or later even when it did not.  Nothing is       *)
(* assumed of what it acknowledges.                                        *)
LiveSpec ==
  /\ Spec
  /\ \A e \in Env : WF_vars(spc[e] \in {"unroute", "store"} /\ SendStep(e))
  /\ \A s \in Socket : WF_vars(HandlerStep(s)) /\ WF_vars(Write(s))
  /\ \A s \in Socket : WF_vars(Hello(s)) /\ WF_vars(~writer[s] /\ HangUp(s)) /\ WF_vars(Leave(s))

-----------------------------------------------------------------------------
(* Type invariant. *)
TypeOK ==
  /\ queue \in Seq(Env)
  /\ online \in Socket \cup {None, Dead}
  /\ spc \in [Env -> {"route", "unroute", "store", "done", "lost"}]
  /\ live \subseteq Env
  /\ outcome \in [Env -> {"none", "send_ok", "relay_full", "relay_error"}]
  /\ pc \in [Socket -> {"closed", "online", "read", "flush", "ready", "closing", "unroute", "close"}]
  /\ backlog \in [Socket -> Seq(Env)]
  /\ chan \in [Socket -> Seq(Env \cup {Synced})]
  /\ \A s \in Socket : Len(chan[s]) <= OUTBOUND_QUEUE_CAPACITY
  /\ writer \in [Socket -> BOOLEAN]
  /\ got \in [Socket -> SUBSET (Env \cup {Synced})]
  /\ owed \in [Socket -> SUBSET Env]
  /\ seen \subseteq Env /\ acked \subseteq Env
  /\ breaks \in 0 .. MaxBreaks

(* A socket whose client has been told it is caught up, with nothing on    *)
(* its way and no send in progress.                                        *)
Settled(s) ==
  /\ pc[s] = "ready" /\ writer[s] /\ chan[s] = <<>> /\ Synced \in got[s]
  /\ \A e \in Env : spc[e] \in {"route", "done", "lost"}

(* No gap between backlog and live route: a connected receiver that was    *)
(* told it is caught up has everything that is stored for it; nothing      *)
(* "would sit queued until the next reconnect (which the client has no     *)
(* reason to trigger)".                                                    *)
CaughtUp ==
  \A s \in Socket : Settled(s) => ToSet(queue) \subseteq got[s]

(* The Synced frame comes last: when it arrives, every envelope the flush  *)
(* read from the queue has arrived on the same connection, through the     *)
(* full channel and among the envelopes that senders put there meanwhile.  *)
SyncedComplete == \A s \in Socket : Synced \in got[s] => owed[s] \subseteq got[s]

(* Live delivery comes on top of storage: an envelope its sender was told  *)
(* is accepted stays stored until its receiver acknowledges it, whatever   *)
(* happens to the channel it may have been put on.  Only when the store    *)
(* refuses it does the live copy count alone.                              *)
AcceptedKept ==
  \A e \in Env : outcome[e] = "send_ok" =>
    \/ e \in ToSet(queue) \cup acked
    \/ e \in live /\ (StoreMayFill \/ IoErrors)

(* The answer as its sender sees it. *)
Answer(e) ==
  CASE outcome[e] = "none" -> "none"
    [] outcome[e] = "send_ok" -> "accepted"
    [] OTHER -> "refused"

Promise == INSTANCE MailboxSpec WITH
  Lossy <- StoreMayFill \/ IoErrors,
  offered <- live,
  stored <- ToSet(queue),
  answered <- [e \in Env |-> Answer(e)],
  received <- seen

(* The handlers, channels and writers together implement the mailbox of    *)
(* MailboxSpec: one answer per envelope, what was accepted stays stored    *)
(* until acknowledged, and what was refused never reaches the receiver.    *)
MailboxPromise == Promise!Spec

(* At-least-once delivery across reconnects and restarts: what was         *)
(* accepted and stored reaches the receiver in the end, through lost       *)
(* connections, full channels, stale routes and connections that overlap.  *)
MailboxPromiseLive == Promise!LiveSpec
=============================================================================
