----------------------------- MODULE QueueStore -----------------------------
(***************************************************************************)
(* The durable per-mailbox message queues (src/queue_store.rs): one redb   *)
(* table of envelopes and three in-memory accounts of it: the byte total,  *)
(* the enqueue sequence and the per-mailbox (count, bytes) index.          *)
(*                                                                         *)
(* A Worker is one call in progress on behalf of a connection or of the    *)
(* mailbox GC; the Sweeper is the periodic TTL task of main.rs.  A redb    *)
(* transaction, an atomic read-modify-write and a guarded DashMap access   *)
(* are one step each, and calls interleave between any two of them.  redb  *)
(* admits one writer at a time, so a write transaction is one step.        *)
(***************************************************************************)
EXTENDS Integers, FiniteSets, FiniteSetsExt

CONSTANTS
  Mailbox,                       \* mailbox ids
  Id,                            \* envelope uuids
  Lengths,                       \* ciphertext lengths
  Worker,                        \* calls that may be in progress at once
  None,                          \* no mailbox, no uuid
  Sweeper,                       \* the TTL task, which runs one sweep at a time
  MAX_QUEUE_PER_RECIPIENT,
  PER_MAILBOX_QUEUE_BYTES,
  GLOBAL_QUEUE_DISK_CAP_BYTES,
  QUEUE_TTL_MS,
  IoErrors,                      \* TRUE: transactions may fail
  MaxNow,                        \* bound on the wall clock
  MaxSeq,                        \* bound on the enqueue sequence
  MaxCrashes                     \* bound on restarts

ASSUME LenAssumption == Lengths \subseteq Nat \ {0} /\ Lengths # {}
ASSUME CapAssumption ==
  /\ MAX_QUEUE_PER_RECIPIENT \in Nat \ {0}
  /\ PER_MAILBOX_QUEUE_BYTES \in Nat
  /\ GLOBAL_QUEUE_DISK_CAP_BYTES \in Nat
  /\ QUEUE_TTL_MS \in Nat
  /\ PER_MAILBOX_QUEUE_BYTES <= GLOBAL_QUEUE_DISK_CAP_BYTES
  /\ \A len \in Lengths : len <= PER_MAILBOX_QUEUE_BYTES   \* MAX_FRAME_BYTES is far below
ASSUME BoundAssumption ==
  MaxNow \in Nat /\ MaxSeq \in Nat /\ MaxCrashes \in Nat /\ IoErrors \in BOOLEAN
ASSUME SetsAssumption ==
  /\ None \notin Mailbox \cup Id /\ Sweeper \notin Worker
  /\ IsFiniteSet(Mailbox) /\ IsFiniteSet(Worker)

Call == Worker \cup {Sweeper}

VARIABLES
  envelopes,     \* the table: set of rows
  total_bytes,   \* AtomicUsize
  next_seq,      \* AtomicU64
  index,         \* Mailbox -> (count, bytes); a missing entry reads as (0, 0)
  now,           \* wall clock
  crashes,       \* restarts so far
  raced,         \* history: two calls have overlapped since the last restart
  pc,            \* per call: its next step
  env,           \* per call: the row an enqueue stores (a purge: its mailbox)
  evict,         \* per call: the ids an enqueue will evict
  gone,          \* per call, per mailbox: (count, bytes) to take off the accounts
  cutoff         \* the TTL cutoff of the sweep in progress

accounts == <<total_bytes, next_seq, index>>
local == <<env, evict, gone, cutoff>>
vars == <<envelopes, accounts, now, crashes, raced, pc, local>>

Row == [mbx : Mailbox, id : Id, len : Lengths, q : Nat, s : Nat]
Slot == [mbx : Mailbox \cup {None}, id : Id \cup {None}, len : Lengths \cup {0}, q : Nat, s : Nat]
Tally == [count : Nat, bytes : Nat]

(* Steps of enqueue from the handler's admission on; the last steps of     *)
(* ack, purge and sweep, which start with their transaction.               *)
PC == {"idle",
       "enq_start", "enq_check", "enq_read", "enq_write", "enq_add", "enq_sub", "enq_index",
       "ack_sub", "ack_index", "purge_sub", "purge_index",
       "sweep_write", "sweep_sub", "sweep_index"}

(* Mutant: a subtraction that does not saturate. *)
Monus_mutant(a, b) == a - b

Monus(a, b) == IF a >= b THEN a - b ELSE 0

Bytes(rows) == SumFunction([r \in rows |-> r.len])

RowsOf(m) == {r \in envelopes : r.mbx = m}

TallyOf(rows) == [count |-> Cardinality(rows), bytes |-> Bytes(rows)]

NoTally == [count |-> 0, bytes |-> 0]

NoneGone == [m \in Mailbox |-> NoTally]

Less(t, u) == [count |-> Monus(t.count, u.count), bytes |-> Monus(t.bytes, u.bytes)]

FreedBytes(w) == SumFunction([m \in Mailbox |-> gone[w][m].bytes])

(* Mutant: the new envelope itself is not counted. *)
OverCap_mutant(t, incoming_len) ==
  t.count > MAX_QUEUE_PER_RECIPIENT \/ t.bytes > PER_MAILBOX_QUEUE_BYTES

OverCap(t, incoming_len) ==
  \/ t.count + 1 > MAX_QUEUE_PER_RECIPIENT
  \/ t.bytes + incoming_len > PER_MAILBOX_QUEUE_BYTES

(* The oldest rows an enqueue must evict: the shortest prefix of the       *)
(* mailbox, in sequence order, without which the new envelope fits.        *)
Older(rows, r) == {x \in rows : x.s < r.s}
EvictionChoice(rows, incoming_len) ==
  {r \in rows : OverCap(TallyOf(rows \ Older(rows, r)), incoming_len)}

would_exceed_global(incoming_len) ==
  total_bytes + incoming_len > GLOBAL_QUEUE_DISK_CAP_BYTES

(* Mutant: the scan restarts at the largest stored number, not past it. *)
SeqAfterScan_mutant ==
  CHOOSE n \in 1 .. (MaxSeq + 1) :
    /\ \A r \in envelopes : r.s <= n
    /\ n = 1 \/ \E r \in envelopes : r.s = n

(* One past the largest stored sequence number, which counts as 0 when the *)
(* table is empty.                                                         *)
SeqAfterScan ==
  CHOOSE n \in 1 .. (MaxSeq + 1) :
    /\ \A r \in envelopes : r.s < n
    /\ n = 1 \/ \E r \in envelopes : r.s = n - 1

-----------------------------------------------------------------------------
Goto(w, from, to) == pc[w] = from /\ pc' = [pc EXCEPT ![w] = to]

(* A call begins: its first step.                                          *)
Begin(w, to) ==
  /\ Goto(w, "idle", to)
  /\ raced' = (raced \/ \E v \in Call \ {w} : pc[v] # "idle")

(* What a call still needs to know of a row it has written or removed.     *)
Stub(m, len) == [mbx |-> m, id |-> None, len |-> len, q |-> 0, s |-> 0]
NoRow == Stub(None, 0)

Finish(w, from) ==
  /\ Goto(w, from, "idle")
  /\ env' = [env EXCEPT ![w] = NoRow]
  /\ evict' = [evict EXCEPT ![w] = {}]
  /\ gone' = [gone EXCEPT ![w] = NoneGone]
  /\ UNCHANGED cutoff

(* total_bytes gives up what the call took out of the table (for an        *)
(* enqueue: what it chose to take out, whatever was still there).          *)
FreeTotal(w, from, to) ==
  /\ Goto(w, from, to)
  /\ total_bytes' = Monus(total_bytes, FreedBytes(w))
  /\ UNCHANGED <<envelopes, next_seq, index, now, crashes, raced, local>>

-----------------------------------------------------------------------------
(* A uuid is never issued twice: an Id may be used again only when no row  *)
(* and no enqueue that can still write refers to it.                       *)
Writing == {"enq_start", "enq_check", "enq_read", "enq_write"}

Accounting == {"enq_add", "enq_sub", "enq_index", "purge_sub", "purge_index"}

FreshId(id) ==
  /\ \A r \in envelopes : r.id # id
  /\ \A w \in Worker : pc[w] \in Writing => env[w].id # id /\ id \notin evict[w]

(* The SendEnvelope handler creates the uuid and consults the global       *)
(* backstop; the enqueue itself then waits for a blocking thread.          *)
Admit(w, m, id, len) ==
  /\ Begin(w, "enq_start")
  /\ FreshId(id)
  /\ ~would_exceed_global(len)
  /\ env' = [env EXCEPT ![w] = [mbx |-> m, id |-> id, len |-> len, q |-> 0, s |-> 0]]
  /\ UNCHANGED <<envelopes, accounts, now, crashes, evict, gone, cutoff>>

EnqueueStart(w) ==
  /\ Goto(w, "enq_start", "enq_check")
  /\ next_seq <= MaxSeq
  /\ env' = [env EXCEPT ![w] =
                [mbx |-> @.mbx, id |-> @.id, len |-> @.len, q |-> now, s |-> next_seq]]
  /\ next_seq' = next_seq + 1
  /\ UNCHANGED <<envelopes, total_bytes, index, now, crashes, raced, evict, gone, cutoff>>

(* The fast path: only the index is consulted.                             *)
EnqueueCheck(w) ==
  /\ Goto(w, "enq_check",
          IF OverCap(index[env[w].mbx], env[w].len) THEN "enq_read" ELSE "enq_write")
  /\ UNCHANGED <<envelopes, accounts, now, crashes, raced, local>>

(* The slow path: a read transaction, and the choice of victims from it.   *)
EnqueueRead(w) ==
  /\ Goto(w, "enq_read", "enq_write")
  /\ LET m == env[w].mbx
         victims == EvictionChoice(RowsOf(m), env[w].len)
     IN /\ evict' = [evict EXCEPT ![w] = {r.id : r \in victims}]
        /\ gone' = [gone EXCEPT ![w] = [NoneGone EXCEPT ![m] = TallyOf(victims)]]
  /\ UNCHANGED <<envelopes, accounts, now, crashes, raced, env, cutoff>>

(* After the commit only the mailbox and the length are still used.        *)
EnqueueWrite(w) ==
  /\ Goto(w, "enq_write", "enq_add")
  /\ envelopes' =
       {r \in envelopes : ~(r.mbx = env[w].mbx /\ r.id \in evict[w])} \cup {env[w]}
  /\ env' = [env EXCEPT ![w] = Stub(env[w].mbx, env[w].len)]
  /\ evict' = [evict EXCEPT ![w] = {}]
  /\ UNCHANGED <<accounts, now, crashes, raced, gone, cutoff>>

EnqueueAdd(w) ==
  /\ Goto(w, "enq_add", "enq_sub")
  /\ total_bytes' = total_bytes + env[w].len
  /\ UNCHANGED <<envelopes, next_seq, index, now, crashes, raced, local>>

EnqueueSub(w) == FreeTotal(w, "enq_sub", "enq_index")

EnqueueIndex(w) ==
  /\ Finish(w, "enq_index")
  /\ LET m == env[w].mbx
         t == Less(index[m], gone[w][m])
     IN index' = [index EXCEPT ![m] = [count |-> t.count + 1, bytes |-> t.bytes + env[w].len]]
  /\ UNCHANGED <<envelopes, total_bytes, next_seq, now, crashes, raced>>

-----------------------------------------------------------------------------
(* ack: the receiver names any ids; only rows of its own mailbox match.    *)
AckWrite(w, m, ids) ==
  /\ Begin(w, "ack_sub")
  /\ ids # {}
  /\ LET rows == {r \in RowsOf(m) : r.id \in ids}
     IN /\ envelopes' = envelopes \ rows
        /\ gone' = [gone EXCEPT ![w] = [NoneGone EXCEPT ![m] = TallyOf(rows)]]
  /\ UNCHANGED <<accounts, now, crashes, env, evict, cutoff>>

(* Mutant: the acked bytes are never given back. *)
AckSub_mutant(w) ==
  Goto(w, "ack_sub", "ack_index") /\ UNCHANGED <<envelopes, accounts, now, crashes, raced, local>>

AckSub(w) == FreeTotal(w, "ack_sub", "ack_index")

AckIndex(w) ==
  /\ Finish(w, "ack_index")
  /\ index' = [m \in Mailbox |-> Less(index[m], gone[w][m])]
  /\ UNCHANGED <<envelopes, total_bytes, next_seq, now, crashes, raced>>

(* purge_mailbox: retire or garbage collection.                            *)
PurgeWrite(w, m) ==
  /\ Begin(w, "purge_sub")
  /\ envelopes' = envelopes \ RowsOf(m)
  /\ gone' = [gone EXCEPT ![w] = [NoneGone EXCEPT ![m] = TallyOf(RowsOf(m))]]
  /\ env' = [env EXCEPT ![w] = Stub(m, 0)]
  /\ UNCHANGED <<accounts, now, crashes, evict, cutoff>>

PurgeSub(w) == FreeTotal(w, "purge_sub", "purge_index")

(* Mutant: the purged mailbox keeps its index entry. *)
PurgeIndex_mutant(w) ==
  Finish(w, "purge_index") /\ UNCHANGED <<envelopes, accounts, now, crashes, raced>>

PurgeIndex(w) ==
  /\ Finish(w, "purge_index")
  /\ index' = [index EXCEPT ![env[w].mbx] = NoTally]
  /\ UNCHANGED <<envelopes, total_bytes, next_seq, now, crashes, raced>>

-----------------------------------------------------------------------------
(* sweep_expired: the cutoff is fixed before the write transaction.        *)
SweepStart ==
  /\ Begin(Sweeper, "sweep_write")
  /\ cutoff' = Monus(now, QUEUE_TTL_MS)
  /\ UNCHANGED <<envelopes, accounts, now, crashes, env, evict, gone>>

(* Mutant: the comparison is the wrong way round. *)
Expired_mutant(r, limit) == limit < r.q

Expired(r, limit) == r.q < limit

SweepWrite ==
  /\ Goto(Sweeper, "sweep_write", "sweep_sub")
  /\ LET old == {r \in envelopes : Expired(r, cutoff)}
     IN /\ envelopes' = envelopes \ old
        /\ gone' = [gone EXCEPT ![Sweeper] =
                      [m \in Mailbox |-> TallyOf({r \in old : r.mbx = m})]]
  /\ UNCHANGED <<accounts, now, crashes, raced, env, evict, cutoff>>

SweepSub == FreeTotal(Sweeper, "sweep_sub", "sweep_index")

(* One mailbox's entry at a time, in the order of a hash map.              *)
SweepIndex(m) ==
  /\ pc[Sweeper] = "sweep_index"
  /\ gone[Sweeper][m] # NoTally
  /\ index' = [index EXCEPT ![m] = Less(@, gone[Sweeper][m])]
  /\ gone' = [gone EXCEPT ![Sweeper][m] = NoTally]
  /\ UNCHANGED <<envelopes, total_bytes, next_seq, now, crashes, raced, pc, env, evict, cutoff>>

SweepDone ==
  /\ gone[Sweeper] = NoneGone
  /\ Finish(Sweeper, "sweep_index")
  /\ UNCHANGED <<envelopes, accounts, now, crashes, raced>>

-----------------------------------------------------------------------------
(* A transaction of an enqueue or a sweep fails: `?` returns the error and *)
(* nothing further is done.  A failed ack or purge changes nothing at all. *)
TxnFails(w) ==
  /\ IoErrors
  /\ pc[w] \in {"enq_read", "enq_write", "sweep_write"}
  /\ Finish(w, pc[w])
  /\ UNCHANGED <<envelopes, accounts, now, crashes, raced>>

(* The process dies and QueueStore::new scans the table.                   *)
Crash ==
  /\ crashes < MaxCrashes
  /\ crashes' = crashes + 1
  /\ total_bytes' = Bytes(envelopes)
  /\ next_seq' = SeqAfterScan
  /\ index' = [m \in Mailbox |-> TallyOf(RowsOf(m))]
  /\ pc' = [w \in Call |-> "idle"]
  /\ env' = [w \in Call |-> NoRow]
  /\ evict' = [w \in Call |-> {}]
  /\ gone' = [w \in Call |-> NoneGone]
  /\ cutoff' = 0
  /\ raced' = FALSE
  /\ UNCHANGED <<envelopes, now>>

Tick ==
  /\ now < MaxNow
  /\ now' = now + 1
  /\ UNCHANGED <<envelopes, accounts, crashes, raced, pc, local>>

-----------------------------------------------------------------------------
Init ==
  /\ envelopes = {}
  /\ total_bytes = 0
  /\ next_seq = 1
  /\ index = NoneGone
  /\ now = 0
  /\ crashes = 0
  /\ raced = FALSE
  /\ pc = [w \in Call |-> "idle"]
  /\ env = [w \in Call |-> NoRow]
  /\ evict = [w \in Call |-> {}]
  /\ gone = [w \in Call |-> NoneGone]
  /\ cutoff = 0

Enqueue(w) ==
  \/ \E m \in Mailbox, id \in Id, len \in Lengths : Admit(w, m, id, len)
  \/ EnqueueStart(w) \/ EnqueueCheck(w) \/ EnqueueRead(w) \/ EnqueueWrite(w)
  \/ EnqueueAdd(w) \/ EnqueueSub(w) \/ EnqueueIndex(w)

Ack(w) ==
  \/ \E m \in Mailbox, ids \in SUBSET Id : AckWrite(w, m, ids)
  \/ AckSub(w) \/ AckIndex(w)

Purge(w) ==
  \/ \E m \in Mailbox : PurgeWrite(w, m)
  \/ PurgeSub(w) \/ PurgeIndex(w)

Sweep ==
  \/ SweepStart \/ SweepWrite \/ SweepSub \/ SweepDone
  \/ \E m \in Mailbox : SweepIndex(m)

Next ==
  \/ \E w \in Worker : Enqueue(w) \/ Ack(w) \/ Purge(w)
  \/ Sweep
  \/ \E w \in Call : TxnFails(w)
  \/ Crash
  \/ Tick

Spec == Init /\ [][Next]_vars

(* The clock advances and the TTL task of main.rs keeps sweeping, which it *)
(* does again at the next interval when a sweep fails; the disk does not   *)
(* fail every sweep from some time on (SF).  Nothing is assumed of clients.*)
LiveSpec == Spec /\ WF_vars(Tick) /\ WF_vars(Sweep) /\ SF_vars(SweepWrite)

-----------------------------------------------------------------------------
(* Type invariant. *)
TypeOK ==
  /\ envelopes \subseteq Row
  /\ total_bytes \in Nat
  /\ next_seq \in 1 .. (MaxSeq + 1)
  /\ index \in [Mailbox -> Tally]
  /\ now \in 0 .. MaxNow
  /\ crashes \in 0 .. MaxCrashes /\ raced \in BOOLEAN
  /\ pc \in [Call -> PC]
  /\ env \in [Call -> Slot]
  /\ \A w \in Call :
       /\ pc[w] \in Writing => env[w] \in Row
       /\ pc[w] \in Accounting => env[w].mbx \in Mailbox
  /\ evict \in [Call -> SUBSET Id]
  /\ gone \in [Call -> [Mailbox -> Tally]]
  /\ cutoff \in Nat

(* FIFO order is a strict total order that survives restarts: no two       *)
(* stored envelopes, and no stored and about-to-be-stored ones, share a    *)
(* sequence number, and the counter is past every number in use, although  *)
(* it is rebuilt from the table alone after a crash ("Seeded past the max  *)
(* stored sequence on open so ordering survives restarts").                *)
Numbered == {"enq_check", "enq_read", "enq_write"}
SeqOrderSound ==
  /\ \A r \in envelopes : r.s < next_seq
  /\ \A r1, r2 \in envelopes : r1.s = r2.s => r1 = r2
  /\ \A w \in Worker : pc[w] \in Numbered =>
       /\ env[w].s < next_seq
       /\ \A r \in envelopes : r.s # env[w].s
       /\ \A v \in Worker : pc[v] \in Numbered /\ v # w => env[v].s # env[w].s

(* Bytes in the table that total_bytes does not count yet, and bytes it    *)
(* still counts although they left the table.                              *)
UncountedBytes ==
  SumFunction([w \in Worker |-> IF pc[w] = "enq_add" THEN env[w].len ELSE 0])
StillCountedBytes ==
  SumFunction([w \in Call |->
     IF pc[w] \in {"enq_add", "enq_sub", "ack_sub", "purge_sub", "sweep_sub"}
     THEN FreedBytes(w) ELSE 0])

(* The saturating subtraction may forget bytes that were never counted in  *)
(* (an ack may free a row whose enqueue has not added it yet), so          *)
(* total_bytes can overstate the table for good.  The overstatement never  *)
(* exceeds one envelope per concurrent call, however long the relay runs,  *)
(* so races alone can never make an empty store look full.                 *)
PhantomBytesBounded ==
  total_bytes + UncountedBytes
    <= Bytes(envelopes) + StillCountedBytes + Cardinality(Worker) * Max(Lengths)

(* Only overlapping calls can make the accounts drift: until two calls     *)
(* have overlapped, and again after every restart, all three follow the    *)
(* table exactly, through evictions, failed transactions and sweeps.       *)
AccountsExact == ~raced =>
  /\ total_bytes + UncountedBytes = Bytes(envelopes) + StillCountedBytes
  /\ (\A w \in Call : pc[w] = "idle") =>
       \A m \in Mailbox : index[m] = TallyOf(RowsOf(m))

(* The same for the caps: until two calls have overlapped every mailbox    *)
(* stays within its count and byte caps and the table within the backstop  *)
(* (a restart repairs the accounts, not a table that races overfilled, so  *)
(* this is about the first run of the process).                            *)
CapsRespected == ~raced /\ crashes = 0 =>
  /\ \A m \in Mailbox :
       /\ Cardinality(RowsOf(m)) <= MAX_QUEUE_PER_RECIPIENT
       /\ Bytes(RowsOf(m)) <= PER_MAILBOX_QUEUE_BYTES
  /\ Bytes(envelopes) <= GLOBAL_QUEUE_DISK_CAP_BYTES

(* An envelope older than the TTL does not stay: a sweep reaches it even   *)
(* when earlier ones fail or the process dies in the middle of one.        *)
ExpiredEventuallySwept ==
  \A id \in Id :
    (\E r \in envelopes : r.id = id /\ r.q < Monus(MaxNow, QUEUE_TTL_MS))
      ~> ~(\E r \in envelopes : r.id = id /\ r.q < Monus(MaxNow, QUEUE_TTL_MS))
=============================================================================
