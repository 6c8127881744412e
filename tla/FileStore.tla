----------------------------- MODULE FileStore ------------------------------
(***************************************************************************)
(* The chunked file-transfer store (src/file_store.rs): two redb tables    *)
(* (metadata and chunks), a RAM cache of the metadata and two counters,    *)
(* the transfer slots and the reserved bytes.                              *)
(*                                                                         *)
(* A Worker is one store_chunk or delete_transfer call on a blocking       *)
(* thread; the Sweeper is the periodic task of main.rs.  Write             *)
(* transactions exclude each other; everything before and after them       *)
(* interleaves freely.  Requests that are turned down before they touch    *)
(* any state, and fetch_chunk, which only reads, are no steps.             *)
(***************************************************************************)
EXTENDS Integers, FiniteSets, FiniteSetsExt

CONSTANTS
  Transfer,               \* transfer ids
  ChunkCounts,            \* values of total_chunks in requests
  ByteCounts,             \* values of total_bytes in requests
  Lengths,                \* chunk lengths in requests
  Worker,                 \* calls that may be in progress at once
  Sweeper,
  None,                   \* no metadata, no id
  max_transfers,
  max_total_file_bytes,
  max_file_bytes,
  max_chunks,
  file_ttl_ms,
  INCOMPLETE_FILE_TTL_MS,
  IoErrors,               \* TRUE: transactions may fail
  MaxNow,                 \* bound on the wall clock
  MaxCrashes              \* bound on restarts

ASSUME SetsAssumption ==
  /\ IsFiniteSet(Transfer) /\ IsFiniteSet(Worker) /\ Sweeper \notin Worker
  /\ None \notin Transfer
  /\ ChunkCounts \subseteq Nat /\ ByteCounts \subseteq Nat /\ Lengths \subseteq Nat
ASSUME LimitAssumption ==
  /\ max_transfers \in Nat /\ max_total_file_bytes \in Nat
  /\ max_file_bytes \in Nat /\ max_chunks \in Nat \ {0}
  /\ max_file_bytes <= max_total_file_bytes
  /\ file_ttl_ms \in Nat /\ INCOMPLETE_FILE_TTL_MS \in Nat
ASSUME BoundAssumption ==
  MaxNow \in Nat /\ MaxCrashes \in Nat /\ IoErrors \in BOOLEAN

VARIABLES
  file_meta,       \* table: Transfer -> FileMeta or None
  file_chunks,     \* table: Transfer -> index -> length, 0 when absent
  meta,            \* the cache of file_meta
  reserved_bytes,  \* AtomicU64
  transfer_count,  \* AtomicUsize
  now,             \* wall clock
  crashes,         \* restarts so far
  pc,              \* per call: its next step
  req,             \* per call: the request (a delete uses its id only)
  creating,        \* per call: this store_chunk claimed the id
  fresh,           \* per call: the metadata its transaction committed
  owed,            \* per call: reserved bytes it has yet to give back
  sweep            \* the sweep: its start, ids yet to look at, ids found expired

tables == <<file_meta, file_chunks>>
counters == <<reserved_bytes, transfer_count>>
local == <<req, creating, fresh, owed>>
vars == <<tables, meta, counters, now, crashes, pc, local, sweep>>

Call == Worker \cup {Sweeper}
Index == 0 .. (max_chunks - 1)

(* stored_bytes is a u64; that its subtraction never goes below zero       *)
(* follows from MetaDescribesChunks.                                       *)
FileMeta == [total_chunks : Nat, total_bytes : Nat, stored_bytes : Int,
             received_chunks : Nat, created_at_ms : Nat]
ASSUME NoneAssumption == None \notin FileMeta

Request == [id : Transfer, index : Index, total_chunks : ChunkCounts,
            total_bytes : ByteCounts, len : Lengths]

Slot == [id : Transfer \cup {None}, index : Index, total_chunks : ChunkCounts \cup {0},
         total_bytes : ByteCounts \cup {0}, len : Lengths \cup {0}]

PC == {"idle", "reserve", "unclaim", "write", "rollback", "unslot", "trim", "mirror",
       "del_cache", "del_slot", "del_bytes", "sweep_look", "sweep_next"}

Busy == PC \ {"idle", "sweep_look", "sweep_next"}

Monus(a, b) == IF a >= b THEN a - b ELSE 0

NoChunks == [i \in Index |-> 0]

NewMeta(r) ==
  [total_chunks |-> r.total_chunks, total_bytes |-> r.total_bytes,
   stored_bytes |-> 0, received_chunks |-> 0, created_at_ms |-> now]

Complete(m) == m.received_chunks >= m.total_chunks

Stored == {t \in Transfer : file_meta[t] # None}

BytesOf(t) == IF file_meta[t] = None THEN 0 ELSE file_meta[t].stored_bytes
StoredBytes == SumFunction([t \in Transfer |-> BytesOf(t)])

-----------------------------------------------------------------------------
Goto(w, from, to) == pc[w] = from /\ pc' = [pc EXCEPT ![w] = to]

NoRequest == [id |-> None, index |-> 0, total_chunks |-> 0, total_bytes |-> 0, len |-> 0]

(* The call is over and its locals are dropped; a sweep goes on with its   *)
(* next id.                                                                *)
Return(w, from) ==
  /\ Goto(w, from, IF w = Sweeper THEN "sweep_next" ELSE "idle")
  /\ req' = [req EXCEPT ![w] = NoRequest]
  /\ creating' = [creating EXCEPT ![w] = FALSE]
  /\ fresh' = [fresh EXCEPT ![w] = None]
  /\ owed' = [owed EXCEPT ![w] = 0]

(* Mutant: one more than the limit. *)
reserve_slot_mutant == transfer_count <= max_transfers /\ transfer_count' = transfer_count + 1

(* reserve_slot and release_slot: a compare-exchange loop, a fetch_sub.    *)
reserve_slot == transfer_count < max_transfers /\ transfer_count' = transfer_count + 1
release_slot == transfer_count' = transfer_count - 1

(* release_bytes: a saturating compare-exchange loop.                      *)
release_bytes(amount) == reserved_bytes' = Monus(reserved_bytes, amount)

-----------------------------------------------------------------------------
(* store_chunk: the checks of shape that need no state.                    *)
WellFormed(r) ==
  /\ r.len # 0
  /\ r.total_chunks \in 1 .. max_chunks
  /\ r.index < r.total_chunks
  /\ r.total_bytes \in 1 .. max_file_bytes

(* Mutant: the id is looked up but not claimed. *)
ClaimNew_mutant(w, r) ==
  /\ Goto(w, "idle", "reserve")
  /\ WellFormed(r)
  /\ meta[r.id] = None /\ r.index = 0
  /\ req' = [req EXCEPT ![w] = r]
  /\ creating' = [creating EXCEPT ![w] = TRUE]
  /\ UNCHANGED <<tables, meta, counters, now, crashes, fresh, owed, sweep>>

(* The first chunk of an unknown transfer claims the id in the cache.      *)
ClaimNew(w, r) ==
  /\ Goto(w, "idle", "reserve")
  /\ WellFormed(r)
  /\ meta[r.id] = None /\ r.index = 0
  /\ meta' = [meta EXCEPT ![r.id] = NewMeta(r)]
  /\ req' = [req EXCEPT ![w] = r]
  /\ creating' = [creating EXCEPT ![w] = TRUE]
  /\ UNCHANGED <<tables, counters, now, crashes, fresh, owed, sweep>>

(* A chunk of a known transfer must agree with it on the shape.            *)
ClaimKnown(w, r) ==
  /\ Goto(w, "idle", "write")
  /\ WellFormed(r)
  /\ meta[r.id] # None
  /\ meta[r.id].total_chunks = r.total_chunks /\ meta[r.id].total_bytes = r.total_bytes
  /\ req' = [req EXCEPT ![w] = r]
  /\ creating' = [creating EXCEPT ![w] = FALSE]
  /\ UNCHANGED <<tables, meta, counters, now, crashes, fresh, owed, sweep>>

ReserveSlot(w) ==
  /\ Goto(w, "reserve", "write")
  /\ reserve_slot
  /\ UNCHANGED <<tables, meta, reserved_bytes, now, crashes, local, sweep>>

(* Mutant: a creation without a slot returns one. *)
ReserveFull_mutant(w) ==
  /\ Goto(w, "reserve", "unslot")
  /\ transfer_count >= max_transfers
  /\ UNCHANGED <<tables, meta, counters, now, crashes, local, sweep>>

ReserveFull(w) ==
  /\ Goto(w, "reserve", "unclaim")
  /\ transfer_count >= max_transfers
  /\ UNCHANGED <<tables, meta, counters, now, crashes, local, sweep>>

(* meta.remove after a failed creation.                                    *)
Unclaim(w) ==
  /\ Return(w, "unclaim")
  /\ meta' = [meta EXCEPT ![req[w].id] = None]
  /\ UNCHANGED <<tables, counters, now, crashes, sweep>>

-----------------------------------------------------------------------------
(* write_chunk: what the transaction reads, and what it makes of it.       *)
Before(w) == IF creating[w] THEN NewMeta(req[w]) ELSE file_meta[req[w].id]

(* Mutant: a re-upload counts as a new chunk. *)
PrevLen_mutant(w) == 0

PrevLen(w) == file_chunks[req[w].id][req[w].index]

Grown(w) == Monus(req[w].len, PrevLen(w))
Shrunk(w) == Monus(PrevLen(w), req[w].len)

After(w) ==
  [total_chunks |-> Before(w).total_chunks,
   total_bytes |-> Before(w).total_bytes,
   stored_bytes |-> Before(w).stored_bytes - PrevLen(w) + req[w].len,
   received_chunks |-> Before(w).received_chunks + (IF PrevLen(w) = 0 THEN 1 ELSE 0),
   created_at_ms |-> Before(w).created_at_ms]

(* Mutant: the limit is checked without the new bytes. *)
try_reserve_bytes_mutant(amount) == amount > 0 => reserved_bytes <= max_total_file_bytes

try_reserve_bytes(amount) ==
  amount > 0 => reserved_bytes + amount <= max_total_file_bytes

Writable(w) ==
  /\ Before(w) # None
  /\ After(w).stored_bytes <= Before(w).total_bytes
  /\ After(w).stored_bytes <= max_file_bytes
  /\ try_reserve_bytes(Grown(w))

(* Mutant: any failed chunk undoes the claim, not only a creation. *)
Fail_mutant(w, from) ==
  /\ Goto(w, from, "unslot")
  /\ owed' = [owed EXCEPT ![w] = 0]
  /\ UNCHANGED <<req, creating, fresh>>

(* store_chunk on an error of write_chunk: a creation undoes its claim.    *)
Fail(w, from) ==
  \/ /\ creating[w]
     /\ Goto(w, from, "unslot")
     /\ owed' = [owed EXCEPT ![w] = 0]
     /\ UNCHANGED <<req, creating, fresh>>
  \/ ~creating[w] /\ Return(w, from)

(* The bytes are reserved inside the transaction.  Nothing reads the       *)
(* counter but other write transactions, so both are one step.             *)
WriteChunk(w) ==
  /\ Goto(w, "write", IF Shrunk(w) > 0 THEN "trim" ELSE "mirror")
  /\ Writable(w)
  /\ file_meta' = [file_meta EXCEPT ![req[w].id] = After(w)]
  /\ file_chunks' = [file_chunks EXCEPT ![req[w].id][req[w].index] = req[w].len]
  /\ reserved_bytes' = reserved_bytes + Grown(w)
  /\ fresh' = [fresh EXCEPT ![w] = After(w)]
  /\ owed' = [owed EXCEPT ![w] = Shrunk(w)]
  /\ UNCHANGED <<meta, transfer_count, now, crashes, req, creating, sweep>>

(* Refused, or failed before the commit: the reservation is rolled back    *)
(* while the transaction is still open.                                    *)
WriteRefused(w) ==
  /\ Fail(w, "write")
  /\ IoErrors \/ ~Writable(w)
  /\ UNCHANGED <<tables, meta, counters, now, crashes, sweep>>

(* The commit fails: the reservation outlives the transaction for a while. *)
CommitFails(w) ==
  /\ IoErrors
  /\ Goto(w, "write", "rollback")
  /\ Writable(w) /\ Grown(w) > 0
  /\ reserved_bytes' = reserved_bytes + Grown(w)
  /\ owed' = [owed EXCEPT ![w] = Grown(w)]
  /\ UNCHANGED <<tables, meta, transfer_count, now, crashes, req, creating, fresh, sweep>>

Rollback(w) ==
  /\ Fail(w, "rollback")
  /\ release_bytes(owed[w])
  /\ UNCHANGED <<tables, meta, transfer_count, now, crashes, sweep>>

(* Mutant: a smaller re-upload frees nothing. *)
Trim_mutant(w) ==
  /\ Goto(w, "trim", "mirror")
  /\ owed' = [owed EXCEPT ![w] = 0]
  /\ UNCHANGED <<tables, meta, counters, now, crashes, req, creating, fresh, sweep>>

Trim(w) ==
  /\ Goto(w, "trim", "mirror")
  /\ release_bytes(owed[w])
  /\ owed' = [owed EXCEPT ![w] = 0]
  /\ UNCHANGED <<tables, meta, transfer_count, now, crashes, req, creating, fresh, sweep>>

(* Mutant: a failed creation keeps its slot. *)
Unslot_mutant(w) ==
  Goto(w, "unslot", "unclaim") /\ UNCHANGED <<tables, meta, counters, now, crashes, local, sweep>>

Unslot(w) ==
  /\ Goto(w, "unslot", "unclaim")
  /\ release_slot
  /\ UNCHANGED <<tables, meta, reserved_bytes, now, crashes, local, sweep>>

(* The cache update: entry().or_insert() with the shape of the request,    *)
(* then advance, never regress.                                            *)
Cached(w) ==
  IF meta[req[w].id] # None THEN meta[req[w].id]
  ELSE [total_chunks |-> req[w].total_chunks, total_bytes |-> req[w].total_bytes,
        stored_bytes |-> fresh[w].stored_bytes, received_chunks |-> fresh[w].received_chunks,
        created_at_ms |-> fresh[w].created_at_ms]

Advanced(w) ==
  LET newest == IF fresh[w].received_chunks >= Cached(w).received_chunks
                THEN fresh[w] ELSE Cached(w)
  IN [total_chunks |-> Cached(w).total_chunks, total_bytes |-> Cached(w).total_bytes,
      stored_bytes |-> newest.stored_bytes, received_chunks |-> newest.received_chunks,
      created_at_ms |-> Cached(w).created_at_ms]

Mirror(w) ==
  /\ Return(w, "mirror")
  /\ meta' = [meta EXCEPT ![req[w].id] = Advanced(w)]
  /\ UNCHANGED <<tables, counters, now, crashes, sweep>>

-----------------------------------------------------------------------------
(* delete_transfer: one transaction; the cache entry, the slot and the     *)
(* bytes follow one after the other.  An unknown id changes nothing.       *)
DeleteRows(w, t, from) ==
  /\ Goto(w, from, "del_cache")
  /\ file_meta[t] # None
  /\ file_meta' = [file_meta EXCEPT ![t] = None]
  /\ file_chunks' = [file_chunks EXCEPT ![t] = NoChunks]
  /\ req' = [req EXCEPT ![w] = [NoRequest EXCEPT !.id = t]]
  /\ owed' = [owed EXCEPT ![w] = file_meta[t].stored_bytes]
  /\ UNCHANGED <<meta, counters, now, crashes, creating, fresh>>

DeleteTransfer(w, t) == DeleteRows(w, t, "idle") /\ UNCHANGED sweep

DeleteCache(w) ==
  /\ Goto(w, "del_cache", "del_slot")
  /\ meta' = [meta EXCEPT ![req[w].id] = None]
  /\ UNCHANGED <<tables, counters, now, crashes, local, sweep>>

DeleteSlot(w) ==
  /\ Goto(w, "del_slot", "del_bytes")
  /\ release_slot
  /\ UNCHANGED <<tables, meta, reserved_bytes, now, crashes, local, sweep>>

DeleteBytes(w) ==
  /\ Return(w, "del_bytes")
  /\ release_bytes(owed[w])
  /\ UNCHANGED <<tables, meta, transfer_count, now, crashes, sweep>>

-----------------------------------------------------------------------------
(* sweep_expired: the clock is read once, the cache is walked entry by     *)
(* entry, and only then are the expired transfers deleted.                 *)
NoSweep == [start |-> 0, left |-> {}, expired |-> {}]

Cutoff(m) ==
  Monus(sweep.start,
        IF Complete(m) THEN file_ttl_ms
        ELSE IF INCOMPLETE_FILE_TTL_MS <= file_ttl_ms THEN INCOMPLETE_FILE_TTL_MS
        ELSE file_ttl_ms)

(* Mutant: only complete transfers expire. *)
Expired_mutant(m) == m # None /\ Complete(m) /\ m.created_at_ms < Cutoff(m)

Expired(m) == m # None /\ m.created_at_ms < Cutoff(m)

SweepStart ==
  /\ Goto(Sweeper, "idle", "sweep_look")
  /\ sweep' = [start |-> now, left |-> Transfer, expired |-> {}]
  /\ UNCHANGED <<tables, meta, counters, now, crashes, local>>

SweepLook(t) ==
  /\ pc[Sweeper] = "sweep_look" /\ t \in sweep.left
  /\ sweep' = [sweep EXCEPT !.left = @ \ {t},
                            !.expired = IF Expired(meta[t]) THEN @ \cup {t} ELSE @]
  /\ UNCHANGED <<tables, meta, counters, now, crashes, pc, local>>

SweepLooked ==
  /\ Goto(Sweeper, "sweep_look", "sweep_next")
  /\ sweep.left = {}
  /\ UNCHANGED <<tables, meta, counters, now, crashes, local, sweep>>

SweepDelete(t) ==
  /\ t \in sweep.expired
  /\ DeleteRows(Sweeper, t, "sweep_next")
  /\ sweep' = [sweep EXCEPT !.expired = @ \ {t}]

(* delete_transfer found nothing under this id.                            *)
SweepSkip(t) ==
  /\ pc[Sweeper] = "sweep_next" /\ t \in sweep.expired
  /\ file_meta[t] = None
  /\ sweep' = [sweep EXCEPT !.expired = @ \ {t}]
  /\ UNCHANGED <<tables, meta, counters, now, crashes, pc, local>>

(* Every expired id is done, or a delete failed and `?` ends the sweep.    *)
SweepDone ==
  /\ Goto(Sweeper, "sweep_next", "idle")
  /\ sweep.expired = {} \/ IoErrors
  /\ sweep' = NoSweep
  /\ UNCHANGED <<tables, meta, counters, now, crashes, local>>

-----------------------------------------------------------------------------
NoCalls ==
  /\ pc' = [w \in Call |-> "idle"]
  /\ req' = [w \in Call |-> NoRequest]
  /\ creating' = [w \in Call |-> FALSE]
  /\ fresh' = [w \in Call |-> None]
  /\ owed' = [w \in Call |-> 0]
  /\ sweep' = NoSweep

(* The process dies; FileStore::new and scan_meta rebuild RAM from disk.   *)
Crash ==
  /\ crashes < MaxCrashes
  /\ crashes' = crashes + 1
  /\ meta' = file_meta
  /\ reserved_bytes' = StoredBytes
  /\ transfer_count' = Cardinality(Stored)
  /\ NoCalls
  /\ UNCHANGED <<tables, now>>

Tick ==
  /\ now < MaxNow
  /\ now' = now + 1
  /\ UNCHANGED <<tables, meta, counters, crashes, pc, local, sweep>>

Init ==
  /\ file_meta = [t \in Transfer |-> None]
  /\ file_chunks = [t \in Transfer |-> NoChunks]
  /\ meta = [t \in Transfer |-> None]
  /\ reserved_bytes = 0
  /\ transfer_count = 0
  /\ now = 0
  /\ crashes = 0
  /\ pc = [w \in Call |-> "idle"]
  /\ req = [w \in Call |-> NoRequest]
  /\ creating = [w \in Call |-> FALSE]
  /\ fresh = [w \in Call |-> None]
  /\ owed = [w \in Call |-> 0]
  /\ sweep = NoSweep

StoreChunk(w) ==
  \/ \E r \in Request : ClaimNew(w, r) \/ ClaimKnown(w, r)
  \/ ReserveSlot(w) \/ ReserveFull(w) \/ Unclaim(w)
  \/ WriteChunk(w) \/ WriteRefused(w) \/ CommitFails(w)
  \/ Rollback(w) \/ Trim(w) \/ Unslot(w) \/ Mirror(w)

FinishDelete(w) == DeleteCache(w) \/ DeleteSlot(w) \/ DeleteBytes(w)

Delete(w) == (\E t \in Transfer : DeleteTransfer(w, t)) \/ FinishDelete(w)

Sweep ==
  \/ SweepStart \/ SweepLooked \/ SweepDone \/ FinishDelete(Sweeper)
  \/ \E t \in Transfer : SweepLook(t) \/ SweepDelete(t) \/ SweepSkip(t)

Next ==
  \/ \E w \in Worker : StoreChunk(w) \/ Delete(w)
  \/ Sweep
  \/ Crash
  \/ Tick

Spec == Init /\ [][Next]_vars

(* The clock advances and the sweep task of main.rs keeps running; nothing *)
(* is assumed of clients.                                                  *)
LiveSpec == Spec /\ WF_vars(Tick) /\ WF_vars(Sweep)

-----------------------------------------------------------------------------
(* Type invariant. *)
TypeOK ==
  /\ file_meta \in [Transfer -> FileMeta \cup {None}]
  /\ file_chunks \in [Transfer -> [Index -> Lengths \cup {0}]]
  /\ meta \in [Transfer -> FileMeta \cup {None}]
  /\ reserved_bytes \in Nat
  /\ transfer_count \in Nat
  /\ now \in 0 .. MaxNow
  /\ crashes \in 0 .. MaxCrashes
  /\ pc \in [Call -> PC]
  /\ req \in [Call -> Slot]
  /\ \A w \in Call : pc[w] \in {"reserve", "write"} => req[w] \in Request
  /\ \A w \in Call : pc[w] \in Busy => req[w].id \in Transfer
  /\ creating \in [Call -> BOOLEAN]
  /\ fresh \in [Call -> FileMeta \cup {None}]
  /\ owed \in [Call -> Nat]
  /\ sweep.left \subseteq Transfer /\ sweep.expired \subseteq Transfer

(* Calls that hold a slot for a transfer that is not, or no longer, on     *)
(* disk: a creation between its reservation and its commit or its          *)
(* rollback, a deletion between its commit and its release.                *)
HoldsSlot(w) ==
  \/ pc[w] \in {"write", "rollback"} /\ creating[w]
  \/ pc[w] \in {"unslot", "del_cache", "del_slot"}
Holders == {w \in Call : HoldsSlot(w)}

(* The slot counter is exact at every instant, under any interleaving of   *)
(* racing creations of one id, refused and failed writes, deletions,       *)
(* sweeps and restarts: one slot per transfer on disk plus one per call    *)
(* that has reserved one or has yet to return it.  A slot leaked or        *)
(* returned twice would lower the cap, or lift it, until the next restart. *)
SlotsExact == transfer_count = Cardinality(Stored) + Cardinality(Holders)

(* Calls that own an id: a creation from its claim until it commits or     *)
(* withdraws, a deletion until it has cleared the cache.                   *)
Owns(w) ==
  \/ pc[w] \in {"write", "rollback"} /\ creating[w]
  \/ pc[w] \in {"reserve", "unslot", "unclaim", "del_cache"}

(* The cache entry is a lock on the id ("claim the transfer id             *)
(* atomically"): at most one call owns it, the id is on no disk row        *)
(* meanwhile, and nobody takes the owner's cache entry away, although      *)
(* entries are removed by failed creations, deletions and sweeps and       *)
(* written again by late cache updates.                                    *)
ClaimExclusive ==
  \A w \in Call : Owns(w) =>
    /\ file_meta[req[w].id] = None
    /\ meta[req[w].id] # None
    /\ \A v \in Call : Owns(v) /\ req[v].id = req[w].id => v = w

(* The byte counter is exact too: what is on disk plus what calls owe.     *)
BytesExact ==
  reserved_bytes = StoredBytes + SumFunction(owed)

(* The limits the counters exist for, on the disk itself: the number of    *)
(* transfers under racing creations and deletions,                         *)
TransferLimit == Cardinality(Stored) <= max_transfers

(* and the bytes of all chunks together and of each transfer, through      *)
(* uploads, re-uploads, deletions, sweeps and restarts.                    *)
ChunkBytes(t) == SumFunction(file_chunks[t])
ByteLimits ==
  /\ SumFunction([t \in Transfer |-> ChunkBytes(t)]) <= max_total_file_bytes
  /\ \A t \in Transfer : ChunkBytes(t) <= max_file_bytes

(* The metadata row describes the chunk rows beside it, through            *)
(* re-uploads of any length and deletions: the bytes stored, the number of *)
(* chunks received, and no chunk without a transfer.                       *)
MetaDescribesChunks ==
  \A t \in Transfer :
    LET held == {i \in Index : file_chunks[t][i] # 0}
    IN IF t \in Stored
       THEN /\ file_meta[t].stored_bytes = ChunkBytes(t)
            /\ file_meta[t].received_chunks = Cardinality(held)
       ELSE held = {}

(* A transfer on disk is always in the cache, with its own shape and a     *)
(* timestamp no later than the durable one.  The cache is all that         *)
(* fetch_chunk and the sweep look at: a transfer missing from it could be  *)
(* neither fetched nor reclaimed until the next restart.                   *)
StoredIsCached ==
  \A t \in Stored :
    /\ meta[t] # None
    /\ meta[t].total_chunks = file_meta[t].total_chunks
    /\ meta[t].total_bytes = file_meta[t].total_bytes
    /\ meta[t].created_at_ms <= file_meta[t].created_at_ms

(* A transfer past the operator's TTL does not stay on disk, whatever      *)
(* clients and restarts do meanwhile.                                      *)
Overdue(t) ==
  t \in Stored /\ file_meta[t].created_at_ms < Monus(MaxNow, file_ttl_ms)
OverdueReclaimed == \A t \in Transfer : Overdue(t) ~> ~Overdue(t)
=============================================================================
