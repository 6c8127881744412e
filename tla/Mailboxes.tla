----------------------------- MODULE Mailboxes ------------------------------
(***************************************************************************)
(* The mailbox registry: the authoritative in-memory map mailbox_auth, its *)
(* slot counter, the dirty set and the periodic write-back to the MetaStore*)
(* table (src/state.rs, src/meta_store.rs), the idle-mailbox GC, and the   *)
(* steps of the frame handlers of src/ws.rs that touch them.               *)
(*                                                                         *)
(* A Socket runs one handler at a time; the GC and the write-back are two  *)
(* background tasks.  A guarded DashMap access, an atomic operation and a  *)
(* redb transaction are one step each.  Of the queues only emptiness is    *)
(* kept (QueueStore has the rest), of the channels only whether the        *)
(* receiving end still exists (Delivery has the rest).                     *)
(***************************************************************************)
EXTENDS Integers, FiniteSets

CONSTANTS
  Mailbox, Owner, Token, Socket,
  None,                            \* no entry, no mailbox, no route
  Dead,                            \* a route whose receiving end is gone
  MAX_MAILBOXES,
  MAX_DELIVERY_TOKENS_PER_MAILBOX,
  MAILBOX_IDLE_TTL_MS,
  MAILBOX_ACTIVITY_GRANULARITY_MS,
  IoErrors,                        \* TRUE: redb transactions may fail
  OneHello,                        \* TRUE: a client sends one Hello per connection
  MaxNow, MaxCrashes               \* bounds on the clock and on restarts

ASSUME CapAssumption ==
  /\ MAX_MAILBOXES \in Nat
  /\ MAILBOX_IDLE_TTL_MS \in Nat
  /\ MAILBOX_ACTIVITY_GRANULARITY_MS \in Nat \ {0}
ASSUME BoundAssumption ==
  /\ MaxNow \in Nat /\ MaxNow >= MAILBOX_ACTIVITY_GRANULARITY_MS
  /\ MaxCrashes \in Nat /\ IoErrors \in BOOLEAN /\ OneHello \in BOOLEAN
ASSUME SetsAssumption ==
  /\ IsFiniteSet(Mailbox) /\ IsFiniteSet(Socket)
  /\ None \notin Mailbox \cup Socket /\ Dead \notin Socket /\ Dead # None

Entry == [owner : Owner, tokens : SUBSET Token, last_active_ms : Nat]
ASSUME NoneAssumption == None \notin Entry

(* With no more tokens about than the allowlist holds, it never evicts and *)
(* the legacy first hash is always a member, so the list is a set.         *)
ASSUME TokenAssumption == Cardinality(Token) <= MAX_DELIVERY_TOKENS_PER_MAILBOX

VARIABLES
  auth,           \* mailbox_auth: Mailbox -> Entry or None
  mailbox_count,  \* AtomicUsize
  dirty,          \* dirty_auth
  disk,           \* the AUTH table: Mailbox -> Entry or None
  online,         \* Mailbox -> the socket its frames are routed to
  queued,         \* mailboxes with a non-empty queue
  now,            \* wall clock
  crashes,
  pc, reg, dst,   \* per socket: step, recipient_id, mailbox being worked on
  gc,             \* the GC task:    [pc, now, todo, rid]
  fl              \* the write-back: [pc, keys, rid, batch, value]

registry == <<auth, mailbox_count>>
tasks == <<gc, fl>>
sockets == <<pc, reg, dst>>
vars == <<registry, dirty, disk, online, queued, now, crashes, sockets, tasks>>

NoEntries == [m \in Mailbox |-> None]
Registered == {m \in Mailbox : auth[m] # None}

now_activity_ms == now - (now % MAILBOX_ACTIVITY_GRANULARITY_MS)

Idle(entry, at) == at - entry.last_active_ms > MAILBOX_IDLE_TTL_MS

Refreshed(entry) == [entry EXCEPT !.last_active_ms = now_activity_ms]

-----------------------------------------------------------------------------
Begin(h, to, m) ==
  /\ pc[h] = "idle"
  /\ pc' = [pc EXCEPT ![h] = to]
  /\ dst' = [dst EXCEPT ![h] = m]

Goto(h, from, to) ==
  /\ pc[h] = from
  /\ pc' = [pc EXCEPT ![h] = to]
  /\ dst' = [dst EXCEPT ![h] = IF to = "idle" THEN None ELSE @]

MarkDirty(m) == dirty' = dirty \cup {m}

(* Mutant: one more than the cap. *)
reserve_mailbox_slot_mutant ==
  mailbox_count <= MAX_MAILBOXES /\ mailbox_count' = mailbox_count + 1

(* A compare-exchange loop, and a fetch_sub. *)
reserve_mailbox_slot ==
  mailbox_count < MAX_MAILBOXES /\ mailbox_count' = mailbox_count + 1
release_mailbox_slot == mailbox_count' = mailbox_count - 1

(* Hello on a registered mailbox: the auth token must match; the lease is  *)
(* renewed and the delivery token joins the allowlist.                     *)
HelloKnown(h, m, o, t) ==
  /\ Begin(h, "hello_mark", m)
  /\ OneHello => reg[h] = None
  /\ auth[m] # None
  /\ auth[m].owner = o
  /\ auth' = [auth EXCEPT ![m] =
                [owner |-> o, tokens |-> @.tokens \cup {t}, last_active_ms |-> now_activity_ms]]
  /\ UNCHANGED <<mailbox_count, dirty, disk, online, queued, now, crashes, reg, tasks>>

(* Hello on a free id with a valid proof of work.  The slot reservation    *)
(* happens under the entry lock.                                           *)
HelloNew(h, m, o, t) ==
  /\ Begin(h, "hello_mark", m)
  /\ OneHello => reg[h] = None
  /\ auth[m] = None
  /\ reserve_mailbox_slot
  /\ auth' = [auth EXCEPT ![m] =
                [owner |-> o, tokens |-> {t}, last_active_ms |-> now_activity_ms]]
  /\ UNCHANGED <<dirty, disk, online, queued, now, crashes, reg, tasks>>

HelloMark(h, next) ==
  /\ Goto(h, "hello_mark", next)
  /\ MarkDirty(dst[h])
  /\ reg' = [reg EXCEPT ![h] = dst[h]]
  /\ UNCHANGED <<registry, disk, online, queued, now, crashes, tasks>>

(* cert_only connections are never routed to. *)
HelloCertOnly(h) == HelloMark(h, "idle")
HelloReceiver(h) == HelloMark(h, "hello_online")

HelloOnline(h) ==
  /\ Goto(h, "hello_online", "idle")
  /\ online' = [online EXCEPT ![dst[h]] = h]
  /\ UNCHANGED <<registry, dirty, disk, queued, now, crashes, reg, tasks>>

SetDeliveryTokens(h, tokens) ==
  /\ reg[h] # None
  /\ Begin(h, "mark", reg[h])
  /\ tokens # {}
  /\ auth[reg[h]] # None
  /\ auth' = [auth EXCEPT ![reg[h]] = [@ EXCEPT !.tokens = tokens]]
  /\ UNCHANGED <<mailbox_count, dirty, disk, online, queued, now, crashes, reg, tasks>>

(* The last step of several handlers. *)
Mark(h) ==
  /\ Goto(h, "mark", "idle")
  /\ MarkDirty(dst[h])
  /\ UNCHANGED <<registry, disk, online, queued, now, crashes, reg, tasks>>

-----------------------------------------------------------------------------
(* SendEnvelope, from any socket that holds an accepted delivery token.    *)
SendAuthorize(h, m, t) ==
  /\ Begin(h, "send_route", m)
  /\ auth[m] # None
  /\ t \in auth[m].tokens
  /\ auth' = [auth EXCEPT ![m] = Refreshed(@)]
  /\ UNCHANGED <<mailbox_count, dirty, disk, online, queued, now, crashes, reg, tasks>>

(* allow_dest_send says no; its window is not modelled here.               *)
SendRateLimited(h) ==
  /\ Goto(h, "send_route", "idle")
  /\ UNCHANGED <<registry, dirty, disk, online, queued, now, crashes, reg, tasks>>

(* try_send to the live route: it fails on a closed or a full channel.     *)
SendLive(h) ==
  /\ Goto(h, "send_route", "send_store")
  /\ online[dst[h]] # Dead
  /\ UNCHANGED <<registry, dirty, disk, online, queued, now, crashes, reg, tasks>>

SendLiveFails(h) ==
  /\ Goto(h, "send_route", "send_unroute")
  /\ online[dst[h]] # None
  /\ UNCHANGED <<registry, dirty, disk, online, queued, now, crashes, reg, tasks>>

SendUnroute(h) ==
  /\ Goto(h, "send_unroute", "send_store")
  /\ online' = [online EXCEPT ![dst[h]] = None]
  /\ UNCHANGED <<registry, dirty, disk, queued, now, crashes, reg, tasks>>

(* would_exceed_global: the handler returns here, delivered live or not.   *)
SendStoreFull(h) ==
  /\ Goto(h, "send_store", "idle")
  /\ UNCHANGED <<registry, dirty, disk, online, queued, now, crashes, reg, tasks>>

SendEnqueue(h) ==
  /\ Goto(h, "send_store", "mark")
  /\ queued' = queued \cup {dst[h]}
  /\ UNCHANGED <<registry, dirty, disk, online, now, crashes, reg, tasks>>

SendEnqueueFails(h) ==
  /\ IoErrors
  /\ Goto(h, "send_store", "mark")
  /\ UNCHANGED <<registry, dirty, disk, online, queued, now, crashes, reg, tasks>>

-----------------------------------------------------------------------------
(* RetireMailbox: unregister, release the slot, purge, unroute, mark, and  *)
(* leave the connection loop.                                              *)
RetireRemove(h) ==
  /\ reg[h] # None
  /\ Begin(h, IF auth[reg[h]] # None THEN "retire_count" ELSE "retire_purge", reg[h])
  /\ auth' = [auth EXCEPT ![reg[h]] = None]
  /\ UNCHANGED <<mailbox_count, dirty, disk, online, queued, now, crashes, reg, tasks>>

RetireCount(h) ==
  /\ Goto(h, "retire_count", "retire_purge")
  /\ release_mailbox_slot
  /\ UNCHANGED <<auth, dirty, disk, online, queued, now, crashes, reg, tasks>>

RetirePurge(h) ==
  /\ Goto(h, "retire_purge", "retire_online")
  /\ queued' = queued \ {dst[h]}
  /\ UNCHANGED <<registry, dirty, disk, online, now, crashes, reg, tasks>>

RetireOnline(h) ==
  /\ Goto(h, "retire_online", "retire_mark")
  /\ online' = [online EXCEPT ![dst[h]] = None]
  /\ UNCHANGED <<registry, dirty, disk, queued, now, crashes, reg, tasks>>

(* Mutant: the connection forgets its mailbox before it has closed. *)
RetireMark_mutant(h) ==
  /\ Goto(h, "retire_mark", "closing")
  /\ MarkDirty(dst[h])
  /\ reg' = [reg EXCEPT ![h] = None]
  /\ UNCHANGED <<registry, disk, online, queued, now, crashes, tasks>>

RetireMark(h) ==
  /\ Goto(h, "retire_mark", "closing")
  /\ MarkDirty(dst[h])
  /\ UNCHANGED <<registry, disk, online, queued, now, crashes, reg, tasks>>

(* The peer is gone or idle too long, or the handler broke out of the loop.*)
(* The route is looked at under one guard and removed under another; the   *)
(* receiving end of the channel goes with the aborted writer.              *)
HangUp(h) ==
  /\ pc[h] = "idle"
  /\ reg[h] # None
  /\ pc' = [pc EXCEPT ![h] = "closing"]
  /\ UNCHANGED <<registry, dirty, disk, online, queued, now, crashes, reg, dst, tasks>>

CloseCheck(h) ==
  /\ Goto(h, "closing", IF online[reg[h]] = h THEN "close_unroute" ELSE "close")
  /\ UNCHANGED <<registry, dirty, disk, online, queued, now, crashes, reg, tasks>>

(* Mutant: a closed connection leaves its route behind. *)
CloseUnroute_mutant(h) ==
  /\ Goto(h, "close_unroute", "close")
  /\ UNCHANGED <<registry, dirty, disk, online, queued, now, crashes, reg, tasks>>

CloseUnroute(h) ==
  /\ Goto(h, "close_unroute", "close")
  /\ online' = [online EXCEPT ![reg[h]] = None]
  /\ UNCHANGED <<registry, dirty, disk, queued, now, crashes, reg, tasks>>

Close(h) ==
  /\ Goto(h, "close", "idle")
  /\ online' = [m \in Mailbox |-> IF online[m] = h THEN Dead ELSE online[m]]
  /\ reg' = [reg EXCEPT ![h] = None]
  /\ UNCHANGED <<registry, dirty, disk, queued, now, crashes, tasks>>

-----------------------------------------------------------------------------
(* gc_idle_mailboxes, every hour.                                          *)
NoGc == [pc |-> "idle", now |-> 0, todo |-> {}, rid |-> None]

GcScan ==
  /\ gc.pc = "idle"
  /\ gc' = [pc |-> "filter", now |-> now, rid |-> None,
            todo |-> {m \in Registered : Idle(auth[m], now)}]
  /\ UNCHANGED <<registry, dirty, disk, online, queued, now, crashes, sockets, fl>>

(* The queue and the route of every candidate; a queue that cannot be read *)
(* counts as empty.                                                        *)
GcFilter(unreadable) ==
  /\ gc.pc = "filter"
  /\ unreadable \subseteq gc.todo
  /\ ~IoErrors => unreadable = {}
  /\ gc' = [gc EXCEPT !.pc = "next",
                      !.todo = {m \in @ : m \notin queued \ unreadable /\ online[m] = None}]
  /\ UNCHANGED <<registry, dirty, disk, online, queued, now, crashes, sockets, fl>>

(* remove_if: idleness and the route are looked at again under the lock.   *)
Collectable(m) == auth[m] # None /\ Idle(auth[m], gc.now) /\ online[m] = None

GcRemove(m) ==
  /\ gc.pc = "next"
  /\ m \in gc.todo
  /\ IF Collectable(m)
     THEN /\ auth' = [auth EXCEPT ![m] = None]
          /\ gc' = [gc EXCEPT !.pc = "count", !.todo = @ \ {m}, !.rid = m]
     ELSE /\ gc' = [gc EXCEPT !.todo = @ \ {m}]
          /\ UNCHANGED auth
  /\ UNCHANGED <<mailbox_count, dirty, disk, online, queued, now, crashes, sockets, fl>>

(* Mutant: a collected mailbox keeps its slot. *)
GcCount_mutant ==
  /\ gc.pc = "count"
  /\ gc' = [gc EXCEPT !.pc = "mark"]
  /\ UNCHANGED <<registry, dirty, disk, online, queued, now, crashes, sockets, fl>>

GcCount ==
  /\ gc.pc = "count"
  /\ release_mailbox_slot
  /\ gc' = [gc EXCEPT !.pc = "mark"]
  /\ UNCHANGED <<auth, dirty, disk, online, queued, now, crashes, sockets, fl>>

GcMark ==
  /\ gc.pc = "mark"
  /\ MarkDirty(gc.rid)
  /\ gc' = [gc EXCEPT !.pc = "purge"]
  /\ UNCHANGED <<registry, disk, online, queued, now, crashes, sockets, fl>>

GcPurge ==
  /\ gc.pc = "purge"
  /\ queued' = queued \ {gc.rid}
  /\ gc' = [gc EXCEPT !.pc = "next", !.rid = None]
  /\ UNCHANGED <<registry, dirty, disk, online, now, crashes, sockets, fl>>

GcDone ==
  /\ gc.pc = "next"
  /\ gc.todo = {}
  /\ gc' = NoGc
  /\ UNCHANGED <<registry, dirty, disk, online, queued, now, crashes, sockets, fl>>

-----------------------------------------------------------------------------
(* flush_dirty_meta, every few seconds: each dirty key is taken off the    *)
(* set, then its current value is read, then one transaction writes all.   *)
NoFlush == [pc |-> "idle", keys |-> {}, rid |-> None, batch |-> {}, value |-> NoEntries]

FlushScan ==
  /\ fl.pc = "idle"
  /\ dirty # {}
  /\ fl' = [NoFlush EXCEPT !.pc = "take", !.keys = dirty]
  /\ UNCHANGED <<registry, dirty, disk, online, queued, now, crashes, sockets, gc>>

FlushTake(m) ==
  /\ fl.pc = "take"
  /\ m \in fl.keys
  /\ dirty' = dirty \ {m}
  /\ fl' = [fl EXCEPT !.pc = "read", !.keys = @ \ {m}, !.rid = m]
  /\ UNCHANGED <<registry, disk, online, queued, now, crashes, sockets, gc>>

FlushRead ==
  /\ fl.pc = "read"
  /\ fl' = [fl EXCEPT !.pc = "take", !.rid = None,
                      !.batch = @ \cup {fl.rid}, !.value[fl.rid] = auth[fl.rid]]
  /\ UNCHANGED <<registry, dirty, disk, online, queued, now, crashes, sockets, gc>>

(* Mutant: the whole dirty set is cleared once the batch is written. *)
FlushWrite_mutant ==
  /\ fl.pc = "take"
  /\ fl.keys = {}
  /\ disk' = [m \in Mailbox |-> IF m \in fl.batch THEN fl.value[m] ELSE disk[m]]
  /\ dirty' = {}
  /\ fl' = NoFlush
  /\ UNCHANGED <<registry, online, queued, now, crashes, sockets, gc>>

FlushWrite ==
  /\ fl.pc = "take"
  /\ fl.keys = {}
  /\ disk' = [m \in Mailbox |-> IF m \in fl.batch THEN fl.value[m] ELSE disk[m]]
  /\ fl' = NoFlush
  /\ UNCHANGED <<registry, dirty, online, queued, now, crashes, sockets, gc>>

(* The transaction fails: the batch is dropped with the error.             *)
FlushFails ==
  /\ IoErrors
  /\ fl.pc = "take"
  /\ fl.keys = {}
  /\ fl' = NoFlush
  /\ UNCHANGED <<registry, dirty, disk, online, queued, now, crashes, sockets, gc>>

-----------------------------------------------------------------------------
(* Acks and the TTL sweep empty a queue.                                   *)
Drain(m) ==
  /\ m \in queued
  /\ queued' = queued \ {m}
  /\ UNCHANGED <<registry, dirty, disk, online, now, crashes, sockets, tasks>>

(* AppState::build: a lease of 0, from before leases existed, starts now.  *)
Loaded(entry) ==
  IF entry # None /\ entry.last_active_ms = 0 THEN Refreshed(entry) ELSE entry

Crash ==
  /\ crashes < MaxCrashes
  /\ crashes' = crashes + 1
  /\ auth' = [m \in Mailbox |-> Loaded(disk[m])]
  /\ mailbox_count' = Cardinality({m \in Mailbox : disk[m] # None})
  /\ dirty' = {}
  /\ online' = NoEntries
  /\ pc' = [h \in Socket |-> "idle"]
  /\ reg' = [h \in Socket |-> None]
  /\ dst' = [h \in Socket |-> None]
  /\ gc' = NoGc
  /\ fl' = NoFlush
  /\ UNCHANGED <<disk, queued, now>>

(* The unit of time is a day or more (the lease is rounded down to a day): *)
(* no frame handler is still running when it has passed.                   *)
Tick ==
  /\ now < MaxNow
  /\ \A h \in Socket : pc[h] = "idle"
  /\ now' = now + 1
  /\ UNCHANGED <<registry, dirty, disk, online, queued, crashes, sockets, tasks>>

-----------------------------------------------------------------------------
Init ==
  /\ auth = NoEntries /\ disk = NoEntries /\ online = NoEntries
  /\ mailbox_count = 0
  /\ dirty = {} /\ queued = {}
  /\ now = MAILBOX_ACTIVITY_GRANULARITY_MS
  /\ crashes = 0
  /\ pc = [h \in Socket |-> "idle"]
  /\ reg = [h \in Socket |-> None]
  /\ dst = [h \in Socket |-> None]
  /\ gc = NoGc
  /\ fl = NoFlush

Hello(h) ==
  \/ \E m \in Mailbox, o \in Owner, t \in Token : HelloKnown(h, m, o, t) \/ HelloNew(h, m, o, t)
  \/ HelloCertOnly(h) \/ HelloReceiver(h) \/ HelloOnline(h)

Send(h) ==
  \/ \E m \in Mailbox, t \in Token : SendAuthorize(h, m, t)
  \/ SendRateLimited(h) \/ SendLive(h) \/ SendLiveFails(h) \/ SendUnroute(h)
  \/ SendStoreFull(h) \/ SendEnqueue(h) \/ SendEnqueueFails(h)

Retire(h) ==
  \/ RetireRemove(h) \/ RetireCount(h) \/ RetirePurge(h) \/ RetireOnline(h) \/ RetireMark(h)

Disconnect(h) == HangUp(h) \/ CloseCheck(h) \/ CloseUnroute(h) \/ Close(h)

Gc ==
  \/ GcScan \/ GcCount \/ GcMark \/ GcPurge \/ GcDone
  \/ \E unreadable \in SUBSET Mailbox : GcFilter(unreadable)
  \/ \E m \in Mailbox : GcRemove(m)

Flush ==
  \/ FlushScan \/ FlushRead \/ FlushWrite \/ FlushFails
  \/ \E m \in Mailbox : FlushTake(m)

SocketStep(h) ==
  \/ Hello(h) \/ Send(h) \/ Retire(h) \/ Disconnect(h) \/ Mark(h)
  \/ \E tokens \in SUBSET Token : SetDeliveryTokens(h, tokens)

Next ==
  \/ \E h \in Socket : SocketStep(h)
  \/ Gc
  \/ Flush
  \/ \E m \in Mailbox : Drain(m)
  \/ Crash
  \/ Tick

Spec == Init /\ [][Next]_vars

(* A handler that has started finishes, and the GC and write-back tasks of *)
(* main.rs keep running; nothing is assumed of peers.                      *)
LiveSpec ==
  /\ Spec
  /\ \A h \in Socket : WF_vars(pc[h] # "idle" /\ SocketStep(h))
  /\ WF_vars(Gc) /\ WF_vars(Flush)

-----------------------------------------------------------------------------
SocketPC == {"idle", "hello_mark", "hello_online", "mark", "send_route",
             "send_unroute", "send_store", "retire_count", "retire_purge",
             "retire_online", "retire_mark", "closing", "close_unroute", "close"}

(* Type invariant. *)
TypeOK ==
  /\ auth \in [Mailbox -> Entry \cup {None}]
  /\ disk \in [Mailbox -> Entry \cup {None}]
  /\ mailbox_count \in Nat
  /\ dirty \subseteq Mailbox /\ queued \subseteq Mailbox
  /\ online \in [Mailbox -> Socket \cup {None, Dead}]
  /\ now \in 0 .. MaxNow /\ crashes \in 0 .. MaxCrashes
  /\ pc \in [Socket -> SocketPC]
  /\ reg \in [Socket -> Mailbox \cup {None}]
  /\ dst \in [Socket -> Mailbox \cup {None}]
  /\ \A h \in Socket : pc[h] \notin {"idle", "closing", "close_unroute", "close"} => dst[h] # None
  /\ \A h \in Socket :
       pc[h] \in {"retire_count", "retire_purge", "retire_online", "retire_mark",
                 "closing", "close_unroute", "close"} => reg[h] # None
  /\ gc \in [pc : {"idle", "filter", "next", "count", "mark", "purge"}, now : Nat,
             todo : SUBSET Mailbox, rid : Mailbox \cup {None}]
  /\ gc.pc \in {"count", "mark", "purge"} => gc.rid # None
  /\ fl \in [pc : {"idle", "take", "read"}, keys : SUBSET Mailbox, rid : Mailbox \cup {None},
             batch : SUBSET Mailbox, value : [Mailbox -> Entry \cup {None}]]
  /\ fl.pc = "read" => fl.rid # None

(* Calls that have unregistered a mailbox and not yet released its slot.   *)
Releasing == {h \in Socket : pc[h] = "retire_count"}

(* The slot counter is the number of registered mailboxes plus the slots   *)
(* about to be released, whatever interleaves with retire and GC, so it    *)
(* never leaks a slot, never releases one twice and never wraps below 0.   *)
CountExact ==
  mailbox_count = Cardinality(Registered) + Cardinality(Releasing)
                  + (IF gc.pc = "count" THEN 1 ELSE 0)

(* No Hello takes the relay past its mailbox cap, however many run at once.*)
CreationWithinCap ==
  [][(crashes' = crashes /\ \E m \in Mailbox : auth[m] = None /\ auth'[m] # None)
       => Cardinality(Registered') <= MAX_MAILBOXES]_vars

(* The write-back knows of it: some call will still mark the mailbox, or   *)
(* it is marked, or the flush in progress has still to read it or has its  *)
(* current value.                                                          *)
Marking(m) ==
  \/ \E h \in Socket : dst[h] = m /\ pc[h] \in {"hello_mark", "mark", "retire_count",
                          "retire_purge", "retire_online", "retire_mark"}
  \/ gc.rid = m /\ gc.pc \in {"count", "mark"}

Identity(entry) == IF entry = None THEN None ELSE <<entry.owner, entry.tokens>>

Covered(m) ==
  \/ Identity(disk[m]) = Identity(auth[m]) /\ m \notin fl.batch
  \/ m \in dirty
  \/ fl.pc = "read" /\ fl.rid = m
  \/ m \in fl.batch /\ Identity(fl.value[m]) = Identity(auth[m])
  \/ Marking(m)

(* A registration, a retirement, a collection or a new token allowlist is  *)
(* never forgotten by the write-back: a concurrent flush may write it late *)
(* or twice, but no interleaving leaves the table wrong with nothing left  *)
(* to correct it.                                                          *)
IdentityCovered == \A m \in Mailbox : Covered(m)

(* A mailbox nobody is connected to or working on, past its lease.         *)
Abandoned(m) ==
  /\ auth[m] # None /\ Idle(auth[m], now)
  /\ m \notin queued
  /\ \A h \in Socket : reg[h] # m /\ dst[h] # m

(* "A mailbox that sits idle for 30 days with an empty queue and no live   *)
(* connection is garbage-collected": it cannot stay abandoned for ever.    *)
AbandonedCollected == \A m \in Mailbox : []<>~Abandoned(m)
=============================================================================
