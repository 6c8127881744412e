-------------------------- MODULE FileStoreProofs ---------------------------
(***************************************************************************)
(* Proofs about FileStore for any number of transfers, calls and requests: *)
(* an id has at most one owner, a transfer on disk is always in the cache, *)
(* the slot counter and the byte counter are exact, each row describes its *)
(* chunks, and what is on disk stays within its limits.                    *)
(***************************************************************************)
EXTENDS FileStore, DataLemmas

(* The part of TypeOK that the arguments below rest on.                    *)
StoreTypeOK ==
  /\ file_meta \in [Transfer -> FileMeta \cup {None}]
  /\ file_chunks \in [Transfer -> [Index -> Lengths \cup {0}]]
  /\ meta \in [Transfer -> FileMeta \cup {None}]
  /\ transfer_count \in Int
  /\ now \in Nat
  /\ pc \in [Call -> PC]
  /\ req \in [Call -> Slot]
  /\ creating \in [Call -> BOOLEAN]
  /\ fresh \in [Call -> FileMeta \cup {None}]

(* What a call knows of its own request at each step.                      *)
CallsKnow ==
  \A w \in Call :
    /\ pc[w] \in {"reserve", "write"} => req[w] \in Request
    /\ pc[w] \in Busy => req[w].id \in Transfer
    /\ pc[w] = "reserve" => creating[w]
    /\ pc[w] \in {"trim", "mirror"} => fresh[w] \in FileMeta

(* The cache entry of a creation in progress carries the shape it declared *)
(* and a timestamp that is not in the future.                              *)
ClaimShape ==
  \A w \in Call :
    pc[w] = "reserve" \/ (pc[w] = "write" /\ creating[w]) =>
      /\ meta[req[w].id].total_chunks = req[w].total_chunks
      /\ meta[req[w].id].total_bytes = req[w].total_bytes
      /\ meta[req[w].id].created_at_ms <= now

(* Bytes a call has reserved, freed or deleted and not yet given back.     *)
Owing == {"rollback", "trim", "del_cache", "del_slot", "del_bytes"}
CallsOwe ==
  /\ owed \in [Call -> Nat]
  /\ \A w \in Call : pc[w] \notin Owing => owed[w] = 0
  /\ \A w \in Call : pc[w] \in {"reserve", "write"} => req[w].len # 0

(* The byte accounts: the counter is exact and within its limit, and each  *)
(* row describes its chunks and is within its own limit.                   *)
ByteInv ==
  /\ CallsOwe
  /\ BytesExact
  /\ reserved_bytes \in 0 .. max_total_file_bytes
  /\ MetaDescribesChunks
  /\ \A t \in Stored : file_meta[t].stored_bytes <= max_file_bytes

StoreInv == StoreTypeOK /\ CallsKnow /\ ClaimExclusive /\ ClaimShape /\ StoredIsCached

-----------------------------------------------------------------------------
(* A number from a set of numbers, or the 0 of an idle call.               *)
LEMMA NatOrZero ==
  ASSUME NEW S, S \subseteq Nat, NEW x, x \in S \cup {0}
  PROVE  x \in Nat
<1>1. CASE x \in S
  BY <1>1
<1>2. CASE x = 0
  BY <1>2
<1> QED
  BY <1>1, <1>2

(* Metadata that the store builds is metadata.                             *)
LEMMA NewMetaType ==
  ASSUME StoreTypeOK, NEW r \in Request
  PROVE  NewMeta(r) \in FileMeta
<1>1. r.total_chunks \in Nat /\ r.total_bytes \in Nat /\ now \in Nat
  BY SetsAssumption DEF StoreTypeOK, Request
<1> QED
  BY <1>1 DEF NewMeta, FileMeta

(* The row a chunk is written with is a row, of the same shape.            *)
LEMMA AfterType ==
  ASSUME StoreTypeOK, CallsKnow, NEW w \in Call, pc[w] = "write", Before(w) # None
  PROVE  /\ After(w) \in FileMeta
         /\ After(w).total_chunks = Before(w).total_chunks
         /\ After(w).total_bytes = Before(w).total_bytes
         /\ After(w).created_at_ms = Before(w).created_at_ms
<1>1. req[w] \in Request /\ req[w].id \in Transfer
  BY DEF CallsKnow, Request
<1>2. Before(w) \in FileMeta
  BY <1>1, NewMetaType DEF Before, StoreTypeOK
<1>3. req[w].len \in Lengths /\ req[w].index \in Index
  BY <1>1 DEF Request
<1>4. PrevLen(w) \in Lengths \cup {0}
  BY <1>1, <1>3 DEF PrevLen, StoreTypeOK
<1>5. PrevLen(w) \in Nat /\ req[w].len \in Nat
  BY <1>3, <1>4, SetsAssumption, NatOrZero
<1> QED
  BY <1>2, <1>5 DEF After, FileMeta

(* So is the cache entry after the chunk.                                  *)
LEMMA AdvancedType ==
  ASSUME StoreTypeOK, CallsKnow, NEW w \in Call, pc[w] = "mirror"
  PROVE  /\ Advanced(w) \in FileMeta
         /\ meta[req[w].id] # None =>
              /\ Advanced(w).total_chunks = meta[req[w].id].total_chunks
              /\ Advanced(w).total_bytes = meta[req[w].id].total_bytes
              /\ Advanced(w).created_at_ms = meta[req[w].id].created_at_ms
<1>1. fresh[w] \in FileMeta /\ req[w].id \in Transfer /\ req[w] \in Slot
  BY DEF CallsKnow, StoreTypeOK, Busy, PC
<1>2. req[w].total_chunks \in Nat /\ req[w].total_bytes \in Nat
  <2>1. req[w].total_chunks \in ChunkCounts \cup {0} /\ req[w].total_bytes \in ByteCounts \cup {0}
    BY <1>1 DEF Slot
  <2> QED
    BY <2>1, SetsAssumption, NatOrZero
<1>3. Cached(w) \in FileMeta
  <2>1. CASE meta[req[w].id] # None
    BY <1>1, <2>1 DEF Cached, StoreTypeOK
  <2>2. CASE meta[req[w].id] = None
    BY <1>1, <1>2, <2>2 DEF Cached, FileMeta
  <2> QED
    BY <2>1, <2>2
<1>4. Advanced(w) \in FileMeta
  BY <1>1, <1>3 DEF Advanced, FileMeta
<1> QED
  BY <1>4 DEF Advanced, Cached

(* A request slot that is not in use is still a slot.                      *)
LEMMA NoRequestType ==
  NoRequest \in Slot /\ \A t \in Transfer : [NoRequest EXCEPT !.id = t] \in Slot
BY LimitAssumption DEF NoRequest, Slot, Index

(* There are finitely many transfers on disk.                              *)
LEMMA StoredFinite == IsFiniteSet(Stored) /\ Cardinality(Stored) \in Nat
BY SetsAssumption, FS_Subset, FS_CardinalityType DEF Stored

(* Typing, action by action.                                               *)
LEMMA TypeStep ==
  ASSUME StoreInv, [Next]_vars
  PROVE  StoreTypeOK' /\ CallsKnow'
<1> USE NoRequestType DEF StoreInv, StoreTypeOK, CallsKnow, Goto, tables, counters, local,
      Call, PC, Busy
<1>1. ASSUME NEW w \in Worker, NEW r \in Request, ClaimNew(w, r)
      PROVE  StoreTypeOK' /\ CallsKnow'
  BY <1>1, NewMetaType DEF ClaimNew, Request, Slot
<1>2. ASSUME NEW w \in Worker, NEW r \in Request, ClaimKnown(w, r)
      PROVE  StoreTypeOK' /\ CallsKnow'
  BY <1>2, NewMetaType DEF ClaimKnown, Request, Slot
<1>3. ASSUME NEW w \in Call, ReserveSlot(w)
      PROVE  StoreTypeOK' /\ CallsKnow'
  BY <1>3 DEF ReserveSlot, reserve_slot
<1>4. ASSUME NEW w \in Call, ReserveFull(w)
      PROVE  StoreTypeOK' /\ CallsKnow'
  BY <1>4 DEF ReserveFull
<1>5. ASSUME NEW w \in Call, Unclaim(w)
      PROVE  StoreTypeOK' /\ CallsKnow'
  BY <1>5 DEF Unclaim, Return
<1>6. ASSUME NEW w \in Call, WriteChunk(w)
      PROVE  StoreTypeOK' /\ CallsKnow'
  BY <1>6, AfterType DEF WriteChunk, Writable, Request
<1>7. ASSUME NEW w \in Call, WriteRefused(w)
      PROVE  StoreTypeOK' /\ CallsKnow'
  <2>1. CASE creating[w]
    BY <1>7, <2>1 DEF WriteRefused, Fail
  <2>2. CASE ~creating[w]
    <3>1. Return(w, pc[w]) /\ pc[w] \in {"write", "rollback"}
      BY <1>7, <2>2 DEF WriteRefused, Fail, Return
    <3>2. UNCHANGED <<tables, meta, transfer_count, now>>
      BY <1>7 DEF WriteRefused
    <3> QED
      BY <3>1, <3>2 DEF Return
  <2> QED
    BY <2>1, <2>2
<1>8. ASSUME NEW w \in Call, CommitFails(w)
      PROVE  StoreTypeOK' /\ CallsKnow'
  BY <1>8 DEF CommitFails
<1>9. ASSUME NEW w \in Call, Rollback(w)
      PROVE  StoreTypeOK' /\ CallsKnow'
  <2>1. CASE creating[w]
    BY <1>9, <2>1 DEF Rollback, Fail
  <2>2. CASE ~creating[w]
    <3>1. Return(w, pc[w]) /\ pc[w] \in {"write", "rollback"}
      BY <1>9, <2>2 DEF Rollback, Fail, Return
    <3>2. UNCHANGED <<tables, meta, transfer_count, now>>
      BY <1>9 DEF Rollback
    <3> QED
      BY <3>1, <3>2 DEF Return
  <2> QED
    BY <2>1, <2>2
<1>10. ASSUME NEW w \in Call, Trim(w)
      PROVE  StoreTypeOK' /\ CallsKnow'
  BY <1>10 DEF Trim
<1>11. ASSUME NEW w \in Call, Unslot(w)
      PROVE  StoreTypeOK' /\ CallsKnow'
  BY <1>11 DEF Unslot, release_slot
<1>12. ASSUME NEW w \in Call, Mirror(w)
      PROVE  StoreTypeOK' /\ CallsKnow'
  BY <1>12, AdvancedType DEF Mirror, Return
<1>13. ASSUME NEW w \in Call, DeleteCache(w)
      PROVE  StoreTypeOK' /\ CallsKnow'
  BY <1>13 DEF DeleteCache
<1>14. ASSUME NEW w \in Call, DeleteSlot(w)
      PROVE  StoreTypeOK' /\ CallsKnow'
  BY <1>14 DEF DeleteSlot, release_slot
<1>15. ASSUME NEW w \in Call, DeleteBytes(w)
      PROVE  StoreTypeOK' /\ CallsKnow'
  BY <1>15 DEF DeleteBytes, Return
<1>16. ASSUME NEW w \in Worker, NEW t \in Transfer, DeleteTransfer(w, t)
      PROVE  StoreTypeOK' /\ CallsKnow'
  BY <1>16 DEF DeleteTransfer, DeleteRows, NoRequest, NoChunks
<1>17. ASSUME NEW t \in Transfer, SweepDelete(t)
      PROVE  StoreTypeOK' /\ CallsKnow'
  BY <1>17 DEF SweepDelete, DeleteRows, NoRequest, NoChunks
<1>18. ASSUME NEW t \in Transfer, SweepLook(t)
      PROVE  StoreTypeOK' /\ CallsKnow'
  BY <1>18 DEF SweepLook
<1>19. ASSUME NEW t \in Transfer, SweepSkip(t)
      PROVE  StoreTypeOK' /\ CallsKnow'
  BY <1>19 DEF SweepSkip
<1>20. CASE SweepStart
  BY <1>20 DEF SweepStart
<1>21. CASE SweepLooked
  BY <1>21 DEF SweepLooked
<1>22. CASE SweepDone
  BY <1>22 DEF SweepDone
<1>23. CASE Tick
  BY <1>23 DEF Tick
<1>24. CASE Crash
  BY <1>24, StoredFinite DEF Crash, NoCalls
<1>25. CASE UNCHANGED vars
  BY <1>25 DEF vars
<1> QED
  BY <1>1, <1>2, <1>3, <1>4, <1>5, <1>6, <1>7, <1>8, <1>9, <1>10, <1>11, <1>12, <1>13, <1>14, <1>15, <1>16, <1>17, <1>18, <1>19, <1>20, <1>21, <1>22, <1>23, <1>24, <1>25
     DEF Next, StoreChunk, Delete, FinishDelete, Sweep

(* Ownership and the cache, action by action.  Only seven actions touch    *)
(* what these speak of; a claim succeeds only where the cache is vacant,   *)
(* so the id is neither on disk nor owned, and a committed creation hands  *)
(* its claim over to the disk row.                                         *)
LEMMA OwnStep ==
  ASSUME StoreInv, [Next]_vars
  PROVE  ClaimExclusive' /\ ClaimShape' /\ StoredIsCached'
<1> USE DEF StoreInv, Goto, tables, counters, local, Owns
<1>0. StoreTypeOK /\ CallsKnow /\ StoreTypeOK' /\ CallsKnow'
  BY TypeStep
<1>1. ASSUME NEW w \in Worker, NEW r \in Request, ClaimNew(w, r)
      PROVE  ClaimExclusive' /\ ClaimShape' /\ StoredIsCached'
  BY <1>0, <1>1, NewMetaType, NoneAssumption DEF ClaimNew, NewMeta, Call, ClaimExclusive, ClaimShape, StoredIsCached, Stored, StoreTypeOK, CallsKnow
<1>2. ASSUME NEW w \in Worker, NEW r \in Request, ClaimKnown(w, r)
      PROVE  ClaimExclusive' /\ ClaimShape' /\ StoredIsCached'
  BY <1>0, <1>2, NewMetaType, NoneAssumption DEF ClaimKnown, NewMeta, Call, ClaimExclusive, ClaimShape, StoredIsCached, Stored, StoreTypeOK, CallsKnow
<1>3. ASSUME NEW w \in Call, ReserveSlot(w)
      PROVE  ClaimExclusive' /\ ClaimShape' /\ StoredIsCached'
  BY <1>0, <1>3 DEF ReserveSlot, reserve_slot, ClaimExclusive, ClaimShape, StoredIsCached, Stored, StoreTypeOK, CallsKnow
<1>4. ASSUME NEW w \in Call, ReserveFull(w)
      PROVE  ClaimExclusive' /\ ClaimShape' /\ StoredIsCached'
  BY <1>0, <1>4 DEF ReserveFull, ClaimExclusive, ClaimShape, StoredIsCached, Stored, StoreTypeOK, CallsKnow
<1>5. ASSUME NEW w \in Call, Unclaim(w)
      PROVE  ClaimExclusive' /\ ClaimShape' /\ StoredIsCached'
  BY <1>0, <1>5 DEF Unclaim, Return, ClaimExclusive, ClaimShape, StoredIsCached, Stored, StoreTypeOK, CallsKnow
<1>6. ASSUME NEW w \in Call, WriteChunk(w)
      PROVE  ClaimExclusive' /\ ClaimShape' /\ StoredIsCached'
  <2> DEFINE t == req[w].id
  <2>1. /\ t \in Transfer /\ req[w] \in Request
        /\ pc[w] = "write" /\ pc' = [pc EXCEPT ![w] = pc'[w]] /\ pc'[w] \in {"trim", "mirror"}
        /\ file_meta' = [file_meta EXCEPT ![t] = After(w)]
        /\ UNCHANGED <<meta, now, req, creating>>
    BY <1>0, <1>6 DEF WriteChunk, CallsKnow, Request, StoreTypeOK
  <2>2. /\ Before(w) # None
        /\ After(w) \in FileMeta
        /\ After(w).total_chunks = Before(w).total_chunks
        /\ After(w).total_bytes = Before(w).total_bytes
        /\ After(w).created_at_ms = Before(w).created_at_ms
    BY <1>0, <1>6, AfterType DEF WriteChunk, Writable
  <2>3. file_meta'[t] # None /\ \A u \in Transfer \ {t} : file_meta'[u] = file_meta[u]
    BY <1>0, <2>1, <2>2, NoneAssumption DEF StoreTypeOK
  <2>4. \A v \in Call : Owns(v)' => Owns(v) /\ req[v].id # t
    <3>1. CASE creating[w]
      BY <1>0, <2>1, <3>1 DEF ClaimExclusive, StoreTypeOK
    <3>2. CASE ~creating[w]
      BY <1>0, <2>1, <2>2, <3>2 DEF ClaimExclusive, StoreTypeOK, Before
    <3> QED
      BY <3>1, <3>2
  <2>5. ClaimExclusive' /\ ClaimShape'
    BY <1>0, <2>1, <2>3, <2>4 DEF ClaimExclusive, ClaimShape, StoreTypeOK, CallsKnow, Busy, PC
  <2>6. /\ meta[t] # None
        /\ meta[t].total_chunks = Before(w).total_chunks
        /\ meta[t].total_bytes = Before(w).total_bytes
        /\ meta[t].created_at_ms <= Before(w).created_at_ms
    <3>1. CASE creating[w]
      BY <2>1, <3>1 DEF ClaimExclusive, ClaimShape, Before, NewMeta
    <3>2. CASE ~creating[w]
      BY <2>1, <2>2, <3>2 DEF StoredIsCached, Stored, Before
    <3> QED
      BY <3>1, <3>2
  <2>7. StoredIsCached'
    BY <1>0, <2>1, <2>2, <2>3, <2>6 DEF StoredIsCached, Stored, StoreTypeOK
  <2> QED
    BY <2>5, <2>7
<1>7. ASSUME NEW w \in Call, WriteRefused(w)
      PROVE  ClaimExclusive' /\ ClaimShape' /\ StoredIsCached'
  BY <1>0, <1>7 DEF WriteRefused, Fail, Return, ClaimExclusive, ClaimShape, StoredIsCached, Stored, StoreTypeOK, CallsKnow
<1>8. ASSUME NEW w \in Call, CommitFails(w)
      PROVE  ClaimExclusive' /\ ClaimShape' /\ StoredIsCached'
  BY <1>0, <1>8 DEF CommitFails, ClaimExclusive, ClaimShape, StoredIsCached, Stored, StoreTypeOK, CallsKnow
<1>9. ASSUME NEW w \in Call, Rollback(w)
      PROVE  ClaimExclusive' /\ ClaimShape' /\ StoredIsCached'
  BY <1>0, <1>9 DEF Rollback, Fail, Return, release_bytes, ClaimExclusive, ClaimShape, StoredIsCached, Stored, StoreTypeOK, CallsKnow
<1>10. ASSUME NEW w \in Call, Trim(w)
      PROVE  ClaimExclusive' /\ ClaimShape' /\ StoredIsCached'
  BY <1>0, <1>10 DEF Trim, ClaimExclusive, ClaimShape, StoredIsCached, Stored, StoreTypeOK, CallsKnow
<1>11. ASSUME NEW w \in Call, Unslot(w)
      PROVE  ClaimExclusive' /\ ClaimShape' /\ StoredIsCached'
  BY <1>0, <1>11 DEF Unslot, release_slot, ClaimExclusive, ClaimShape, StoredIsCached, Stored, StoreTypeOK, CallsKnow
<1>12. ASSUME NEW w \in Call, Mirror(w)
      PROVE  ClaimExclusive' /\ ClaimShape' /\ StoredIsCached'
  BY <1>0, <1>12, AdvancedType, NoneAssumption DEF Mirror, Return, ClaimExclusive, ClaimShape, StoredIsCached, Stored, StoreTypeOK, CallsKnow
<1>13. ASSUME NEW w \in Call, DeleteCache(w)
      PROVE  ClaimExclusive' /\ ClaimShape' /\ StoredIsCached'
  BY <1>0, <1>13 DEF DeleteCache, ClaimExclusive, ClaimShape, StoredIsCached, Stored, StoreTypeOK, CallsKnow
<1>14. ASSUME NEW w \in Call, DeleteSlot(w)
      PROVE  ClaimExclusive' /\ ClaimShape' /\ StoredIsCached'
  BY <1>0, <1>14 DEF DeleteSlot, release_slot, ClaimExclusive, ClaimShape, StoredIsCached, Stored, StoreTypeOK, CallsKnow
<1>15. ASSUME NEW w \in Call, DeleteBytes(w)
      PROVE  ClaimExclusive' /\ ClaimShape' /\ StoredIsCached'
  BY <1>0, <1>15 DEF DeleteBytes, Return, ClaimExclusive, ClaimShape, StoredIsCached, Stored, StoreTypeOK, CallsKnow
<1>16. ASSUME NEW w \in Worker, NEW t \in Transfer, DeleteTransfer(w, t)
      PROVE  ClaimExclusive' /\ ClaimShape' /\ StoredIsCached'
  BY <1>0, <1>16 DEF DeleteTransfer, DeleteRows, NoRequest, Call, ClaimExclusive, ClaimShape, StoredIsCached, Stored, StoreTypeOK, CallsKnow
<1>17. ASSUME NEW t \in Transfer, SweepDelete(t)
      PROVE  ClaimExclusive' /\ ClaimShape' /\ StoredIsCached'
  BY <1>0, <1>17 DEF SweepDelete, DeleteRows, NoRequest, Call, ClaimExclusive, ClaimShape, StoredIsCached, Stored, StoreTypeOK, CallsKnow
<1>18. ASSUME NEW t \in Transfer, SweepLook(t)
      PROVE  ClaimExclusive' /\ ClaimShape' /\ StoredIsCached'
  BY <1>0, <1>18 DEF SweepLook, Call, ClaimExclusive, ClaimShape, StoredIsCached, Stored, StoreTypeOK, CallsKnow
<1>19. ASSUME NEW t \in Transfer, SweepSkip(t)
      PROVE  ClaimExclusive' /\ ClaimShape' /\ StoredIsCached'
  BY <1>0, <1>19 DEF SweepSkip, Call, ClaimExclusive, ClaimShape, StoredIsCached, Stored, StoreTypeOK, CallsKnow
<1>20. CASE SweepStart
  BY <1>0, <1>20 DEF SweepStart, Call, ClaimExclusive, ClaimShape, StoredIsCached, Stored, StoreTypeOK, CallsKnow
<1>21. CASE SweepLooked
  BY <1>0, <1>21 DEF SweepLooked, Call, ClaimExclusive, ClaimShape, StoredIsCached, Stored, StoreTypeOK, CallsKnow
<1>22. CASE SweepDone
  BY <1>0, <1>22 DEF SweepDone, Call, ClaimExclusive, ClaimShape, StoredIsCached, Stored, StoreTypeOK, CallsKnow
<1>23. CASE Tick
  <2>1. \A w \in Call : Owns(w) => meta[req[w].id] \in FileMeta
    BY <1>0 DEF ClaimExclusive, CallsKnow, StoreTypeOK, Busy, PC
  <2>2. \A w \in Call : Owns(w) => meta[req[w].id].created_at_ms \in Nat
    BY <2>1 DEF FileMeta
  <2>3. now \in Nat /\ now' = now + 1 /\ UNCHANGED <<file_meta, meta, pc, req, creating>>
    BY <1>0, <1>23 DEF Tick, StoreTypeOK
  <2>4. ClaimShape'
    BY <2>2, <2>3 DEF ClaimShape
  <2> QED
    BY <2>3, <2>4 DEF ClaimExclusive, StoredIsCached, Stored
<1>24. CASE Crash
  <2>1. \A t \in Stored : file_meta[t].created_at_ms \in Nat
    BY <1>0 DEF Stored, StoreTypeOK, FileMeta
  <2>2. StoredIsCached'
    BY <1>24, <2>1 DEF Crash, StoredIsCached, Stored
  <2> QED
    BY <1>24, <2>2 DEF Crash, NoCalls, ClaimExclusive, ClaimShape
<1>25. CASE UNCHANGED vars
  BY <1>25 DEF vars, ClaimExclusive, ClaimShape, StoredIsCached, Stored
<1> QED
  BY <1>1, <1>2, <1>3, <1>4, <1>5, <1>6, <1>7, <1>8, <1>9, <1>10, <1>11, <1>12, <1>13, <1>14, <1>15, <1>16, <1>17, <1>18, <1>19, <1>20, <1>21, <1>22, <1>23, <1>24, <1>25
     DEF Next, StoreChunk, Delete, FinishDelete, Sweep, Call

-----------------------------------------------------------------------------
(* The six ways a step can move slots between the counter, the disk and    *)
(* the calls.                                                              *)
SlotsKept == Stored' = Stored /\ Holders' = Holders /\ UNCHANGED transfer_count
SlotReserved ==
  \E w \in Call \ Holders :
    /\ Stored' = Stored /\ Holders' = Holders \cup {w}
    /\ transfer_count < max_transfers /\ transfer_count' = transfer_count + 1
SlotCommitted ==
  \E w \in Holders, t \in Transfer \ Stored :
    Stored' = Stored \cup {t} /\ Holders' = Holders \ {w} /\ UNCHANGED transfer_count
SlotReleased ==
  \E w \in Holders :
    Stored' = Stored /\ Holders' = Holders \ {w} /\ transfer_count' = transfer_count - 1
SlotDetached ==
  \E w \in Call \ Holders, t \in Stored :
    Stored' = Stored \ {t} /\ Holders' = Holders \cup {w} /\ UNCHANGED transfer_count
SlotsRecounted ==
  Stored' = Stored /\ Holders' = {} /\ transfer_count' = Cardinality(Stored)
SlotEffect ==
  \/ SlotsKept \/ SlotReserved \/ SlotCommitted
  \/ SlotReleased \/ SlotDetached \/ SlotsRecounted

(* Every step is one of those.                                             *)
LEMMA SlotStep ==
  ASSUME StoreInv, [Next]_vars
  PROVE  SlotEffect
<1> USE DEF Goto, tables, counters, local
<1>0. StoreTypeOK /\ CallsKnow /\ ClaimExclusive /\ (\A w \in Call : creating[w] \in BOOLEAN)
  BY DEF StoreInv, StoreTypeOK
<1>1. ASSUME NEW w \in Worker, NEW r \in Request, ClaimNew(w, r)
      PROVE  SlotsKept
  BY <1>0, <1>1 DEF ClaimNew, Call, SlotsKept, Stored, Holders, HoldsSlot, StoreTypeOK
<1>2. ASSUME NEW w \in Worker, NEW r \in Request, ClaimKnown(w, r)
      PROVE  SlotsKept
  BY <1>0, <1>2 DEF ClaimKnown, Call, SlotsKept, Stored, Holders, HoldsSlot, StoreTypeOK
<1>3. ASSUME NEW w \in Call, ReserveFull(w)
      PROVE  SlotsKept
  BY <1>0, <1>3 DEF ReserveFull, SlotsKept, Stored, Holders, HoldsSlot, StoreTypeOK
<1>4. ASSUME NEW w \in Call, Unclaim(w)
      PROVE  SlotsKept
  BY <1>0, <1>4 DEF Unclaim, Return, SlotsKept, Stored, Holders, HoldsSlot, StoreTypeOK
<1>5. ASSUME NEW w \in Call, WriteRefused(w)
      PROVE  SlotsKept
  BY <1>0, <1>5 DEF WriteRefused, Fail, Return, SlotsKept, Stored, Holders, HoldsSlot, StoreTypeOK
<1>6. ASSUME NEW w \in Call, CommitFails(w)
      PROVE  SlotsKept
  BY <1>0, <1>6 DEF CommitFails, SlotsKept, Stored, Holders, HoldsSlot, StoreTypeOK
<1>7. ASSUME NEW w \in Call, Rollback(w)
      PROVE  SlotsKept
  BY <1>0, <1>7 DEF Rollback, Fail, Return, SlotsKept, Stored, Holders, HoldsSlot, StoreTypeOK
<1>8. ASSUME NEW w \in Call, Trim(w)
      PROVE  SlotsKept
  BY <1>0, <1>8 DEF Trim, SlotsKept, Stored, Holders, HoldsSlot, StoreTypeOK
<1>9. ASSUME NEW w \in Call, Mirror(w)
      PROVE  SlotsKept
  BY <1>0, <1>9 DEF Mirror, Return, SlotsKept, Stored, Holders, HoldsSlot, StoreTypeOK
<1>10. ASSUME NEW w \in Call, DeleteCache(w)
      PROVE  SlotsKept
  BY <1>0, <1>10 DEF DeleteCache, SlotsKept, Stored, Holders, HoldsSlot, StoreTypeOK
<1>11. ASSUME NEW w \in Call, DeleteBytes(w)
      PROVE  SlotsKept
  BY <1>0, <1>11 DEF DeleteBytes, Return, SlotsKept, Stored, Holders, HoldsSlot, StoreTypeOK
<1>12. ASSUME NEW t \in Transfer, SweepLook(t)
      PROVE  SlotsKept
  BY <1>12 DEF SweepLook, SlotsKept, Stored, Holders, HoldsSlot, StoreTypeOK
<1>13. ASSUME NEW t \in Transfer, SweepSkip(t)
      PROVE  SlotsKept
  BY <1>13 DEF SweepSkip, SlotsKept, Stored, Holders, HoldsSlot, StoreTypeOK
<1>14. ASSUME SweepStart
      PROVE  SlotsKept
  BY <1>0, <1>14 DEF SweepStart, Call, SlotsKept, Stored, Holders, HoldsSlot, StoreTypeOK
<1>15. ASSUME SweepLooked
      PROVE  SlotsKept
  BY <1>0, <1>15 DEF SweepLooked, Call, SlotsKept, Stored, Holders, HoldsSlot, StoreTypeOK
<1>16. ASSUME SweepDone
      PROVE  SlotsKept
  BY <1>0, <1>16 DEF SweepDone, Call, SlotsKept, Stored, Holders, HoldsSlot, StoreTypeOK
<1>17. ASSUME Tick
      PROVE  SlotsKept
  BY <1>0, <1>17 DEF Tick, Call, SlotsKept, Stored, Holders, HoldsSlot, StoreTypeOK
<1>18. ASSUME UNCHANGED vars
      PROVE  SlotsKept
  BY <1>18 DEF vars, SlotsKept, Stored, Holders, HoldsSlot, StoreTypeOK
<1>19. ASSUME NEW w \in Call, ReserveSlot(w)
      PROVE  SlotReserved
  <2>1. w \notin Holders /\ Holders' = Holders \cup {w} /\ Stored' = Stored
    BY <1>0, <1>19 DEF ReserveSlot, Stored, Holders, HoldsSlot, StoreTypeOK, CallsKnow
  <2> QED
    BY <1>19, <2>1 DEF ReserveSlot, reserve_slot, SlotReserved
<1>20. ASSUME NEW w \in Call, WriteChunk(w)
      PROVE  SlotsKept \/ SlotCommitted
  <2> DEFINE t == req[w].id
  <2>1. t \in Transfer /\ pc[w] = "write"
    BY <1>0, <1>20 DEF WriteChunk, CallsKnow, Request
  <2>2. After(w) # None
    BY <1>0, <1>20, AfterType, NoneAssumption DEF WriteChunk, Writable
  <2>3. Stored' = Stored \cup {t}
    BY <1>0, <1>20, <2>1, <2>2 DEF WriteChunk, Stored, StoreTypeOK
  <2>4. pc' = [pc EXCEPT ![w] = pc'[w]] /\ pc'[w] \in {"trim", "mirror"} /\ UNCHANGED <<creating, transfer_count>>
    BY <1>0, <1>20 DEF WriteChunk, StoreTypeOK
  <2>5. CASE creating[w]
    <3>1. w \in Holders /\ Holders' = Holders \ {w}
      BY <1>0, <2>1, <2>4, <2>5 DEF Holders, HoldsSlot, StoreTypeOK
    <3>2. t \notin Stored
      BY <1>0, <2>1, <2>5 DEF ClaimExclusive, Owns, Stored
    <3> QED
      BY <2>1, <2>3, <2>4, <3>1, <3>2 DEF SlotCommitted
  <2>6. CASE ~creating[w]
    <3>1. Holders' = Holders
      BY <1>0, <2>1, <2>4, <2>6 DEF Holders, HoldsSlot, StoreTypeOK
    <3>2. t \in Stored
      BY <1>0, <1>20, <2>1, <2>6 DEF WriteChunk, Writable, Before, Stored
    <3> QED
      BY <2>3, <2>4, <3>1, <3>2 DEF SlotsKept
  <2> QED
    BY <2>5, <2>6
<1>21. ASSUME NEW w \in Call, Unslot(w)
      PROVE  SlotReleased
  <2>1. w \in Holders /\ Holders' = Holders \ {w} /\ Stored' = Stored
    BY <1>0, <1>21 DEF Unslot, Stored, Holders, HoldsSlot, StoreTypeOK
  <2> QED
    BY <1>21, <2>1 DEF Unslot, release_slot, SlotReleased
<1>22. ASSUME NEW w \in Call, DeleteSlot(w)
      PROVE  SlotReleased
  <2>1. w \in Holders /\ Holders' = Holders \ {w} /\ Stored' = Stored
    BY <1>0, <1>22 DEF DeleteSlot, Stored, Holders, HoldsSlot, StoreTypeOK
  <2> QED
    BY <1>22, <2>1 DEF DeleteSlot, release_slot, SlotReleased
<1>23. ASSUME NEW w \in Call, NEW t \in Transfer, NEW from \in {"idle", "sweep_next"},
             DeleteRows(w, t, from)
      PROVE  SlotDetached
  <2>1. w \notin Holders /\ Holders' = Holders \cup {w}
    BY <1>0, <1>23 DEF DeleteRows, Holders, HoldsSlot, StoreTypeOK
  <2>2. t \in Stored /\ Stored' = Stored \ {t}
    BY <1>0, <1>23 DEF DeleteRows, Stored, StoreTypeOK
  <2> QED
    BY <1>23, <2>1, <2>2 DEF DeleteRows, SlotDetached
<1>24. ASSUME Crash
      PROVE  SlotsRecounted
  BY <1>24 DEF Crash, NoCalls, SlotsRecounted, Stored, Holders, HoldsSlot
<1> QED
  BY <1>1, <1>2, <1>3, <1>4, <1>5, <1>6, <1>7, <1>8, <1>9, <1>10, <1>11, <1>12, <1>13, <1>14, <1>15, <1>16, <1>17, <1>18, <1>19, <1>20, <1>21, <1>22, <1>23, <1>24
     DEF SlotEffect, Next, StoreChunk, Delete, FinishDelete, Sweep, Call, DeleteTransfer, SweepDelete

(* Finitely many calls hold a slot.                                        *)
LEMMA HoldersFinite == IsFiniteSet(Holders) /\ Cardinality(Holders) \in Nat
<1>1. IsFiniteSet(Call)
  BY SetsAssumption, FS_AddElement DEF Call
<1> QED
  BY <1>1, FS_Subset, FS_CardinalityType DEF Holders

(* The counter stays exact and within the limit, whichever way slots move. *)
SlotInv == SlotsExact /\ transfer_count <= max_transfers

(* Each step keeps the slot counter and the cap.                           *)
LEMMA SlotInvStep ==
  ASSUME StoreInv, SlotInv, [Next]_vars
  PROVE  SlotInv'
<1>1. /\ IsFiniteSet(Stored) /\ Cardinality(Stored) \in Nat
      /\ IsFiniteSet(Holders) /\ Cardinality(Holders) \in Nat
  BY StoredFinite, HoldersFinite
<1>2. /\ transfer_count = Cardinality(Stored) + Cardinality(Holders)
      /\ transfer_count <= max_transfers /\ max_transfers \in Nat
  BY LimitAssumption DEF SlotInv, SlotsExact
<1> SUFFICES /\ transfer_count' = Cardinality(Stored') + Cardinality(Holders')
             /\ transfer_count' <= max_transfers
  BY DEF SlotInv, SlotsExact
<1>3. CASE SlotsKept
  BY <1>1, <1>2, <1>3 DEF SlotsKept
<1>4. CASE SlotReserved
  <2>1. PICK w \in Call \ Holders :
           /\ Stored' = Stored /\ Holders' = Holders \cup {w}
           /\ transfer_count < max_transfers /\ transfer_count' = transfer_count + 1
    BY <1>4 DEF SlotReserved
  <2>2. Cardinality(Holders \cup {w}) = Cardinality(Holders) + 1
    BY <1>1, FS_AddElement
  <2> QED
    BY <1>1, <1>2, <2>1, <2>2
<1>5. CASE SlotCommitted
  <2>1. PICK w \in Holders, t \in Transfer \ Stored :
           Stored' = Stored \cup {t} /\ Holders' = Holders \ {w} /\ UNCHANGED transfer_count
    BY <1>5 DEF SlotCommitted
  <2>2. Cardinality(Stored \cup {t}) = Cardinality(Stored) + 1
    BY <1>1, FS_AddElement
  <2>3. Cardinality(Holders \ {w}) = Cardinality(Holders) - 1
    BY <1>1, FS_RemoveElement
  <2> QED
    BY <1>1, <1>2, <2>1, <2>2, <2>3
<1>6. CASE SlotReleased
  <2>1. PICK w \in Holders :
           Stored' = Stored /\ Holders' = Holders \ {w} /\ transfer_count' = transfer_count - 1
    BY <1>6 DEF SlotReleased
  <2>2. Cardinality(Holders \ {w}) = Cardinality(Holders) - 1
    BY <1>1, FS_RemoveElement
  <2> QED
    BY <1>1, <1>2, <2>1, <2>2
<1>7. CASE SlotDetached
  <2>1. PICK w \in Call \ Holders, t \in Stored :
           Stored' = Stored \ {t} /\ Holders' = Holders \cup {w} /\ UNCHANGED transfer_count
    BY <1>7 DEF SlotDetached
  <2>2. Cardinality(Holders \cup {w}) = Cardinality(Holders) + 1
    BY <1>1, FS_AddElement
  <2>3. Cardinality(Stored \ {t}) = Cardinality(Stored) - 1
    BY <1>1, FS_RemoveElement
  <2> QED
    BY <1>1, <1>2, <2>1, <2>2, <2>3
<1>8. CASE SlotsRecounted
  <2>1. Cardinality(Holders') = 0
    BY <1>8, FS_EmptySet DEF SlotsRecounted
  <2> QED
    BY <1>1, <1>2, <1>8, <2>1 DEF SlotsRecounted
<1> QED
  BY SlotStep, <1>3, <1>4, <1>5, <1>6, <1>7, <1>8 DEF SlotEffect

(* Both invariants hold of an empty store.                                 *)
LEMMA InitInv ==
  ASSUME Init
  PROVE  StoreInv /\ SlotInv
<1>1. StoreTypeOK
  BY NoRequestType, LimitAssumption DEF Init, StoreTypeOK, NoChunks, Index, Call, PC
<1>2. CallsKnow /\ ClaimExclusive /\ ClaimShape /\ StoredIsCached
  BY DEF Init, CallsKnow, Busy, PC, ClaimExclusive, ClaimShape, StoredIsCached, Owns, Stored
<1>3. Stored = {} /\ Holders = {}
  BY DEF Init, Stored, Holders, HoldsSlot
<1>4. SlotInv
  BY <1>3, FS_EmptySet, LimitAssumption DEF Init, SlotInv, SlotsExact
<1> QED
  BY <1>1, <1>2, <1>4 DEF StoreInv

(* So they hold at every moment.                                           *)
LEMMA Invariance == Spec => [](StoreInv /\ SlotInv)
<1>1. Init => StoreInv /\ SlotInv
  BY InitInv
<1>2. StoreInv /\ SlotInv /\ [Next]_vars => (StoreInv /\ SlotInv)'
  BY TypeStep, OwnStep, SlotInvStep DEF StoreInv
<1> QED
  BY <1>1, <1>2, PTL DEF Spec

-----------------------------------------------------------------------------
(* The byte accounts.  Facts about the sets they range over first.         *)
LEMMA Finite == IsFiniteSet(Transfer) /\ IsFiniteSet(Call) /\ IsFiniteSet(Index)
<1>1. IsFiniteSet(Call)
  BY SetsAssumption, FS_AddElement DEF Call
<1>2. IsFiniteSet(Index)
  BY LimitAssumption, FS_Interval DEF Index
<1> QED
  BY <1>1, <1>2, SetsAssumption

Rows == [t \in Transfer |-> BytesOf(t)]

(* The stored bytes are a sum of integers.                                 *)
LEMMA RowsType ==
  ASSUME StoreTypeOK
  PROVE  Rows \in [Transfer -> Int] /\ StoredBytes = SumFunction(Rows)
<1>1. \A t \in Transfer : BytesOf(t) \in Int
  BY DEF StoreTypeOK, BytesOf, FileMeta
<1> QED
  BY <1>1 DEF Rows, StoredBytes

(* The bytes of a transfer's chunks are a number.                          *)
LEMMA ChunksType ==
  ASSUME StoreTypeOK, NEW t \in Transfer
  PROVE  file_chunks[t] \in [Index -> Nat] /\ ChunkBytes(t) \in Nat
<1>1. ASSUME NEW i \in Index PROVE file_chunks[t][i] \in Nat
  <2>1. file_chunks[t][i] \in Lengths \cup {0}
    BY DEF StoreTypeOK
  <2> QED
    BY <2>1, SetsAssumption, NatOrZero
<1>2. file_chunks[t] \in [Index -> Nat]
  BY <1>1 DEF StoreTypeOK
<1> QED
  BY <1>2, Finite, TotalNat DEF ChunkBytes

(* A row's stored_bytes never goes below zero: it is the sum of its chunks.*)
LEMMA RowsNat ==
  ASSUME StoreTypeOK, MetaDescribesChunks
  PROVE  /\ Rows \in [Transfer -> Nat] /\ StoredBytes = SumFunction(Rows)
         /\ StoredBytes \in Nat
         /\ \A t \in Transfer : BytesOf(t) = ChunkBytes(t)
<1>1. ASSUME NEW t \in Transfer PROVE BytesOf(t) = ChunkBytes(t)
  <2>1. CASE file_meta[t] # None
    BY <2>1 DEF BytesOf, MetaDescribesChunks, Stored
  <2>2. CASE file_meta[t] = None
    <3>1. \A i \in Index : file_chunks[t][i] = 0
      BY <2>2 DEF MetaDescribesChunks, Stored
    <3>2. file_chunks[t] = [i \in Index |-> 0]
      BY <3>1 DEF StoreTypeOK
    <3>3. ChunkBytes(t) = 0
      BY <3>2, Finite, TotalZero DEF ChunkBytes
    <3> QED
      BY <2>2, <3>3 DEF BytesOf
  <2> QED
    BY <2>1, <2>2
<1>2. Rows \in [Transfer -> Nat]
  BY <1>1, ChunksType DEF Rows
<1>3. StoredBytes = SumFunction(Rows) /\ SumFunction(Rows) \in Nat
  BY <1>2, Finite, TotalNat DEF StoredBytes, Rows
<1> QED
  BY <1>1, <1>2, <1>3

(* The same of the next state.                                             *)
RowsTotal == Rows \in [Transfer -> Nat] /\ StoredBytes = SumFunction(Rows)

(* The same in the next state.                                             *)
LEMMA RowsNatNext ==
  StoreTypeOK' /\ MetaDescribesChunks' =>
    Rows' \in [Transfer -> Nat] /\ StoredBytes' = SumFunction(Rows')
<1>1. StoreTypeOK /\ MetaDescribesChunks => RowsTotal
  BY RowsNat DEF RowsTotal
<1>2. StoreTypeOK' /\ MetaDescribesChunks' => RowsTotal'
  BY <1>1, PTL
<1> QED
  BY <1>2 DEF RowsTotal

(* What write_chunk computes from the chunk it replaces.                   *)
LEMMA WriteSizes ==
  ASSUME StoreInv, CallsOwe, NEW w \in Call, pc[w] = "write"
  PROVE  /\ req[w].id \in Transfer /\ req[w].index \in Index
         /\ PrevLen(w) \in Nat /\ req[w].len \in Nat \ {0} /\ req[w].len \in Lengths
         /\ Grown(w) \in Nat /\ Shrunk(w) \in Nat
         /\ Grown(w) - Shrunk(w) = req[w].len - PrevLen(w)
<1>1. req[w] \in Request /\ req[w].len # 0
  BY DEF StoreInv, CallsKnow, CallsOwe
<1>2. req[w].id \in Transfer /\ req[w].index \in Index /\ req[w].len \in Lengths
  BY <1>1 DEF Request
<1>3. PrevLen(w) \in Nat
  BY <1>2, ChunksType DEF PrevLen, StoreInv
<1>4. req[w].len \in Nat \ {0}
  BY <1>1, <1>2, SetsAssumption
<1> QED
  BY <1>2, <1>3, <1>4 DEF Grown, Shrunk, Monus

(* What a call owes, action by action: nothing outside the steps of Owing. *)
LEMMA OweStep ==
  ASSUME StoreInv, ByteInv, [Next]_vars
  PROVE  CallsOwe'
<1> USE DEF Goto, tables, counters, local, Owing
<1>0. StoreTypeOK /\ CallsOwe /\ pc \in [Call -> PC] /\ req \in [Call -> Slot]
  BY DEF StoreInv, StoreTypeOK, ByteInv
<1>1. ASSUME NEW w \in Worker, NEW r \in Request, ClaimNew(w, r) \/ ClaimKnown(w, r)
      PROVE  CallsOwe'
  BY <1>0, <1>1 DEF ClaimNew, ClaimKnown, WellFormed, CallsOwe, Call
<1>2. ASSUME NEW w \in Call, ReserveSlot(w) \/ ReserveFull(w) \/ Unslot(w)
      PROVE  CallsOwe'
  BY <1>0, <1>2 DEF ReserveSlot, ReserveFull, Unslot, CallsOwe
<1>3. ASSUME NEW w \in Call, Unclaim(w) \/ Mirror(w) \/ DeleteBytes(w)
      PROVE  CallsOwe'
  BY <1>0, <1>3 DEF Unclaim, Mirror, DeleteBytes, Return, NoRequest, CallsOwe
<1>4. ASSUME NEW w \in Call, WriteChunk(w)
      PROVE  CallsOwe'
  <2>1. Shrunk(w) \in Nat
    BY <1>0, <1>4, WriteSizes DEF WriteChunk
  <2> QED
    BY <1>0, <1>4, <2>1 DEF WriteChunk, CallsOwe
<1>5. ASSUME NEW w \in Call, WriteRefused(w) \/ Rollback(w)
      PROVE  CallsOwe'
  <2>1. CASE creating[w]
    BY <1>0, <1>5, <2>1 DEF WriteRefused, Rollback, Fail, CallsOwe
  <2>2. CASE ~creating[w]
    BY <1>0, <1>5, <2>2 DEF WriteRefused, Rollback, Fail, Return, NoRequest, CallsOwe
  <2> QED
    BY <2>1, <2>2
<1>6. ASSUME NEW w \in Call, CommitFails(w)
      PROVE  CallsOwe'
  <2>1. Grown(w) \in Nat
    BY <1>0, <1>6, WriteSizes DEF CommitFails
  <2> QED
    BY <1>0, <1>6, <2>1 DEF CommitFails, CallsOwe
<1>7. ASSUME NEW w \in Call, Trim(w) \/ DeleteCache(w) \/ DeleteSlot(w)
      PROVE  CallsOwe'
  BY <1>0, <1>7 DEF Trim, DeleteCache, DeleteSlot, CallsOwe
<1>8. ASSUME NEW w \in Call, NEW t \in Transfer, NEW from \in {"idle", "sweep_next"},
             DeleteRows(w, t, from)
      PROVE  CallsOwe'
  <2>1. file_meta[t].stored_bytes \in Nat
    BY <1>0, <1>8, ChunksType DEF DeleteRows, ByteInv, MetaDescribesChunks, Stored
  <2> QED
    BY <1>0, <1>8, <2>1 DEF DeleteRows, CallsOwe
<1>9. ASSUME NEW t \in Transfer, SweepLook(t) \/ SweepSkip(t)
      PROVE  CallsOwe'
  BY <1>0, <1>9 DEF SweepLook, SweepSkip, CallsOwe
<1>10. CASE SweepStart \/ SweepLooked \/ SweepDone
  BY <1>0, <1>10 DEF SweepStart, SweepLooked, SweepDone, CallsOwe, Call
<1>11. CASE Tick \/ UNCHANGED vars
  BY <1>0, <1>11 DEF Tick, vars, CallsOwe
<1>12. CASE Crash
  BY <1>12 DEF Crash, NoCalls, CallsOwe
<1> QED
  BY <1>1, <1>2, <1>3, <1>4, <1>5, <1>6, <1>7, <1>8, <1>9, <1>10, <1>11, <1>12
     DEF Next, StoreChunk, Delete, FinishDelete, Sweep, Call, DeleteTransfer, SweepDelete

(* How a step may move bytes between the rows, the counter and the calls.  *)
BytesKept == UNCHANGED <<file_meta, file_chunks, reserved_bytes, owed>>
BytesReserved ==
  \E w \in Call, n \in Nat :
    /\ UNCHANGED tables
    /\ owed[w] = 0 /\ owed' = [owed EXCEPT ![w] = n]
    /\ reserved_bytes' = reserved_bytes + n
    /\ reserved_bytes + n <= max_total_file_bytes
BytesReturned ==
  \E w \in Call :
    /\ UNCHANGED tables
    /\ owed' = [owed EXCEPT ![w] = 0]
    /\ release_bytes(owed[w])
BytesWritten == \E w \in Call : WriteChunk(w)
BytesDetached ==
  \E w \in Call, t \in Transfer :
    /\ owed[w] = 0 /\ file_meta[t] # None
    /\ file_meta' = [file_meta EXCEPT ![t] = None]
    /\ file_chunks' = [file_chunks EXCEPT ![t] = NoChunks]
    /\ owed' = [owed EXCEPT ![w] = file_meta[t].stored_bytes]
    /\ UNCHANGED reserved_bytes
ByteEffect ==
  BytesKept \/ BytesReserved \/ BytesReturned \/ BytesWritten \/ BytesDetached \/ Crash

(* Every step has one of these effects.                                    *)
LEMMA ByteMoves ==
  ASSUME StoreInv, ByteInv, [Next]_vars
  PROVE  ByteEffect
<1> USE DEF Goto, tables, counters, local, Owing, ByteEffect
<1>0. /\ StoreTypeOK /\ CallsOwe /\ pc \in [Call -> PC] /\ owed \in [Call -> Nat]
      /\ \A w \in Call : pc[w] \notin Owing => owed = [owed EXCEPT ![w] = 0]
  BY DEF StoreInv, StoreTypeOK, ByteInv, CallsOwe
<1>1. ASSUME NEW w \in Worker, NEW r \in Request, ClaimNew(w, r) \/ ClaimKnown(w, r)
      PROVE  ByteEffect
  BY <1>1 DEF ClaimNew, ClaimKnown, BytesKept
<1>2. ASSUME NEW w \in Call, ReserveSlot(w) \/ ReserveFull(w) \/ Unslot(w)
      PROVE  ByteEffect
  BY <1>2 DEF ReserveSlot, ReserveFull, Unslot, BytesKept
<1>3. ASSUME NEW w \in Call, Unclaim(w) \/ Mirror(w)
      PROVE  ByteEffect
  BY <1>0, <1>3 DEF Unclaim, Mirror, Return, BytesKept
<1>4. ASSUME NEW w \in Call, WriteRefused(w)
      PROVE  ByteEffect
  BY <1>0, <1>4 DEF WriteRefused, Fail, Return, BytesKept
<1>5. ASSUME NEW w \in Call, Rollback(w) \/ Trim(w) \/ DeleteBytes(w)
      PROVE  ByteEffect
  BY <1>5 DEF Rollback, Trim, DeleteBytes, Fail, Return, BytesReturned
<1>6. ASSUME NEW w \in Call, CommitFails(w)
      PROVE  ByteEffect
  <2>1. Grown(w) \in Nat /\ owed[w] = 0
    BY <1>0, <1>6, WriteSizes DEF CommitFails, CallsOwe
  <2> QED
    BY <1>6, <2>1 DEF CommitFails, Writable, try_reserve_bytes, BytesReserved
<1>7. ASSUME NEW w \in Call, DeleteCache(w) \/ DeleteSlot(w)
      PROVE  ByteEffect
  BY <1>7 DEF DeleteCache, DeleteSlot, BytesKept
<1>8. ASSUME NEW w \in Call, NEW t \in Transfer, NEW from \in {"idle", "sweep_next"},
             DeleteRows(w, t, from)
      PROVE  ByteEffect
  <2>1. owed[w] = 0
    BY <1>0, <1>8 DEF DeleteRows, CallsOwe
  <2> QED
    BY <1>8, <2>1 DEF DeleteRows, BytesDetached
<1>9. ASSUME NEW t \in Transfer, SweepLook(t) \/ SweepSkip(t)
      PROVE  ByteEffect
  BY <1>9 DEF SweepLook, SweepSkip, BytesKept
<1>10. CASE SweepStart \/ SweepLooked \/ SweepDone
  BY <1>10 DEF SweepStart, SweepLooked, SweepDone, BytesKept
<1>11. CASE Tick \/ UNCHANGED vars
  BY <1>11 DEF Tick, vars, BytesKept
<1>12. ASSUME NEW w \in Call, WriteChunk(w)
       PROVE  ByteEffect
  BY <1>12 DEF BytesWritten
<1> QED
  BY <1>1, <1>2, <1>3, <1>4, <1>5, <1>6, <1>7, <1>8, <1>9, <1>10, <1>11, <1>12
     DEF Next, StoreChunk, Delete, FinishDelete, Sweep, Call, DeleteTransfer, SweepDelete

(* A commit of write_chunk: the row goes on describing its chunks, whether *)
(* the chunk is new, longer or shorter than the one it replaces.           *)
LEMMA WriteDescribes ==
  ASSUME StoreInv, ByteInv, NEW w \in Call, WriteChunk(w), StoreTypeOK'
  PROVE  /\ MetaDescribesChunks'
         /\ BytesOf(req[w].id)' = BytesOf(req[w].id) + Grown(w) - Shrunk(w)
         /\ BytesOf(req[w].id)' <= max_file_bytes
         /\ \A u \in Transfer \ {req[w].id} : BytesOf(u)' = BytesOf(u)
<1> DEFINE t == req[w].id
           i == req[w].index
           held == {j \in Index : file_chunks[t][j] # 0}
           heldN == {j \in Index : file_chunks'[t][j] # 0}
<1>0. StoreTypeOK /\ CallsKnow /\ ClaimExclusive /\ CallsOwe /\ MetaDescribesChunks
  BY DEF StoreInv, ByteInv
<1>1. /\ t \in Transfer /\ i \in Index /\ PrevLen(w) \in Nat
      /\ req[w].len \in Nat \ {0}
      /\ Grown(w) - Shrunk(w) = req[w].len - PrevLen(w)
      /\ Grown(w) \in Nat /\ Shrunk(w) \in Nat
  BY <1>0, WriteSizes DEF WriteChunk, Goto
<1>2. /\ pc[w] = "write" /\ Before(w) # None
      /\ After(w).stored_bytes <= max_file_bytes
      /\ file_meta' = [file_meta EXCEPT ![t] = After(w)]
      /\ file_chunks' = [file_chunks EXCEPT ![t][i] = req[w].len]
  BY DEF WriteChunk, Writable, Goto
<1>3. After(w) \in FileMeta /\ After(w) # None
  BY <1>0, <1>2, AfterType, NoneAssumption
<1>4. /\ file_meta'[t] = After(w)
      /\ \A u \in Transfer \ {t} : file_meta'[u] = file_meta[u] /\ file_chunks'[u] = file_chunks[u]
      /\ file_chunks'[t] = [file_chunks[t] EXCEPT ![i] = req[w].len]
  BY <1>0, <1>1, <1>2 DEF StoreTypeOK
<1>5. BytesOf(t) = ChunkBytes(t) /\ ChunkBytes(t) \in Nat
  BY <1>0, <1>1, RowsNat, ChunksType
<1>6. Before(w).stored_bytes = ChunkBytes(t) /\ Before(w).received_chunks = Cardinality(held)
  <2>1. CASE creating[w]
    <3>1. file_meta[t] = None
      BY <1>0, <1>2, <2>1 DEF ClaimExclusive, Owns
    <3>2. held = {}
      BY <1>0, <1>1, <3>1 DEF MetaDescribesChunks, Stored
    <3>3. ChunkBytes(t) = 0
      BY <1>5, <3>1 DEF BytesOf
    <3> QED
      BY <2>1, <3>2, <3>3, FS_EmptySet DEF Before, NewMeta
  <2>2. CASE ~creating[w]
    BY <1>0, <1>1, <1>2, <2>2 DEF Before, MetaDescribesChunks, Stored
  <2> QED
    BY <2>1, <2>2
<1>7. ChunkBytes(t)' = ChunkBytes(t) - PrevLen(w) + req[w].len
  <2>1. file_chunks[t] \in [Index -> Nat] /\ file_chunks'[t] \in [Index -> Nat]
    BY <1>0, <1>1, <1>4, ChunksType
  <2>2. \A j \in Index \ {i} : file_chunks'[t][j] = file_chunks[t][j]
    BY <1>1, <1>4, <2>1
  <2>3. file_chunks[t][i] = PrevLen(w) /\ file_chunks'[t][i] = req[w].len
    BY <1>1, <1>4, <2>1 DEF PrevLen
  <2>4. file_chunks[t] \in [Index -> Int] /\ file_chunks'[t] \in [Index -> Int]
    BY <2>1
  <2>5. SumFunction(file_chunks'[t]) = SumFunction(file_chunks[t]) - file_chunks[t][i] + file_chunks'[t][i]
    BY <1>1, <2>2, <2>4, Finite, TotalChange
  <2>6. ChunkBytes(t)' = SumFunction(file_chunks'[t])
    BY DEF ChunkBytes, WriteChunk
  <2> QED
    BY <2>3, <2>5, <2>6 DEF ChunkBytes
<1>8. Cardinality(heldN) = Cardinality(held) + (IF PrevLen(w) = 0 THEN 1 ELSE 0)
  <2>1. heldN = held \cup {i}
    BY <1>0, <1>1, <1>4 DEF StoreTypeOK
  <2>2. IsFiniteSet(held) /\ Cardinality(held) \in Nat
    BY Finite, FS_Subset, FS_CardinalityType
  <2>3. i \in held <=> PrevLen(w) # 0
    BY <1>1 DEF PrevLen
  <2> HIDE DEF held, heldN
  <2>4. CASE PrevLen(w) = 0
    BY <2>1, <2>2, <2>3, <2>4, FS_AddElement
  <2>5. CASE PrevLen(w) # 0
    <3>1. heldN = held
      BY <2>1, <2>3, <2>5
    <3> QED
      BY <2>2, <2>5, <3>1
  <2> QED
    BY <2>4, <2>5
<1>9. /\ After(w).stored_bytes = ChunkBytes(t)'
      /\ After(w).received_chunks = Cardinality(heldN)
  BY <1>6, <1>7, <1>8 DEF After
<1>10. MetaDescribesChunks'
  <2> SUFFICES ASSUME NEW u \in Transfer
               PROVE  LET hold == {j \in Index : file_chunks'[u][j] # 0}
                      IN IF file_meta'[u] # None
                         THEN /\ file_meta'[u].stored_bytes = SumFunction(file_chunks'[u])
                              /\ file_meta'[u].received_chunks = Cardinality(hold)
                         ELSE hold = {}
    BY DEF MetaDescribesChunks, Stored, ChunkBytes
  <2>1. CASE u = t
    <3>1. ChunkBytes(t)' = SumFunction(file_chunks'[t])
      BY DEF ChunkBytes, WriteChunk
    <3> QED
      BY <1>3, <1>4, <1>9, <2>1, <3>1
  <2>2. CASE u # t
    BY <1>0, <1>4, <2>2 DEF MetaDescribesChunks, Stored, ChunkBytes
  <2> QED
    BY <2>1, <2>2
<1>11. BytesOf(t)' = After(w).stored_bytes
  BY <1>3, <1>4 DEF BytesOf, WriteChunk
<1>12. \A u \in Transfer \ {t} : BytesOf(u)' = BytesOf(u)
  BY <1>4 DEF BytesOf
<1>13. After(w).stored_bytes = BytesOf(t) + Grown(w) - Shrunk(w)
  BY <1>1, <1>5, <1>7, <1>9
<1>14. req[w]' = req[w]
  BY DEF WriteChunk
<1> QED
  BY <1>2, <1>10, <1>11, <1>12, <1>13, <1>14

(* Each step keeps the byte accounts.                                      *)
LEMMA ByteInvStep ==
  ASSUME StoreInv, ByteInv, [Next]_vars
  PROVE  ByteInv'
<1>0. /\ StoreTypeOK /\ StoreTypeOK' /\ CallsOwe /\ CallsOwe' /\ MetaDescribesChunks
      /\ owed \in [Call -> Nat] /\ owed' \in [Call -> Nat]
      /\ max_total_file_bytes \in Nat /\ max_file_bytes \in Nat
  BY TypeStep, OweStep, LimitAssumption DEF StoreInv, ByteInv, CallsOwe
<1>1. /\ Rows \in [Transfer -> Nat] /\ StoredBytes = SumFunction(Rows) /\ StoredBytes \in Nat
      /\ SumFunction(owed) \in Nat /\ \A w \in Call : owed[w] <= SumFunction(owed)
  BY <1>0, RowsNat, Finite, TotalNat
<1>2. /\ reserved_bytes = StoredBytes + SumFunction(owed)
      /\ reserved_bytes \in Nat /\ reserved_bytes <= max_total_file_bytes
      /\ \A t \in Stored : file_meta[t].stored_bytes <= max_file_bytes
  BY <1>0 DEF ByteInv, BytesExact
<1>3. owed \in [Call -> Int] /\ owed' \in [Call -> Int]
  BY <1>0
<1>4. CASE BytesKept
  BY <1>0, <1>4 DEF ByteInv, BytesKept, BytesExact, StoredBytes, BytesOf, MetaDescribesChunks,
                    Stored, ChunkBytes
<1>5. ASSUME UNCHANGED tables
      PROVE  /\ StoredBytes' = StoredBytes /\ MetaDescribesChunks'
             /\ \A t \in Stored' : file_meta'[t].stored_bytes <= max_file_bytes
  BY <1>0, <1>2, <1>5 DEF tables, StoredBytes, BytesOf, MetaDescribesChunks, Stored, ChunkBytes
<1>6. CASE BytesReserved
  <2>1. PICK w \in Call, n \in Nat :
          /\ UNCHANGED tables
          /\ owed[w] = 0 /\ owed' = [owed EXCEPT ![w] = n]
          /\ reserved_bytes' = reserved_bytes + n
          /\ reserved_bytes + n <= max_total_file_bytes
    BY <1>6 DEF BytesReserved
  <2>2. owed'[w] = n /\ \A v \in Call \ {w} : owed'[v] = owed[v]
    BY <1>0, <2>1
  <2>3. SumFunction(owed') = SumFunction(owed) - owed[w] + owed'[w]
    BY <1>3, <2>2, Finite, TotalChange
  <2>4. reserved_bytes' = StoredBytes' + SumFunction(owed')
    BY <1>1, <1>2, <1>5, <2>1, <2>2, <2>3
  <2>5. reserved_bytes' \in 0 .. max_total_file_bytes
    BY <1>0, <1>2, <2>1
  <2> QED
    BY <1>0, <1>5, <2>1, <2>4, <2>5 DEF ByteInv, BytesExact
<1>7. CASE BytesReturned
  <2>1. PICK w \in Call :
          /\ UNCHANGED tables
          /\ owed' = [owed EXCEPT ![w] = 0]
          /\ reserved_bytes' = Monus(reserved_bytes, owed[w])
    BY <1>7 DEF BytesReturned, release_bytes
  <2>2. owed'[w] = 0 /\ \A v \in Call \ {w} : owed'[v] = owed[v]
    BY <1>0, <2>1
  <2>3. SumFunction(owed') = SumFunction(owed) - owed[w] + owed'[w]
    BY <1>3, <2>2, Finite, TotalChange
  <2>4. owed[w] \in Nat /\ owed[w] <= SumFunction(owed)
    BY <1>0, <1>1
  <2>5. reserved_bytes' = reserved_bytes - owed[w]
    BY <1>1, <1>2, <2>1, <2>4 DEF Monus
  <2>6. reserved_bytes' = StoredBytes' + SumFunction(owed')
    BY <1>1, <1>2, <1>5, <2>1, <2>2, <2>3, <2>4, <2>5
  <2>7. reserved_bytes' \in 0 .. max_total_file_bytes
    BY <1>0, <1>1, <1>2, <2>4, <2>5
  <2> QED
    BY <1>0, <1>5, <2>1, <2>6, <2>7 DEF ByteInv, BytesExact
<1>8. CASE BytesWritten
  <2>1. PICK w \in Call : WriteChunk(w)
    BY <1>8 DEF BytesWritten
  <2> DEFINE t == req[w].id
  <2>2. /\ t \in Transfer /\ Grown(w) \in Nat /\ Shrunk(w) \in Nat /\ pc[w] = "write"
    BY <1>0, <2>1, WriteSizes DEF WriteChunk, Goto
  <2>3. /\ MetaDescribesChunks'
        /\ BytesOf(t)' = BytesOf(t) + Grown(w) - Shrunk(w)
        /\ BytesOf(t)' <= max_file_bytes
        /\ \A u \in Transfer \ {t} : BytesOf(u)' = BytesOf(u)
    BY <1>0, <2>1, WriteDescribes
  <2>4. Rows' \in [Transfer -> Nat] /\ StoredBytes' = SumFunction(Rows')
    BY <1>0, <2>3, RowsNatNext
  <2>5. /\ Rows'[t] = Rows[t] + Grown(w) - Shrunk(w)
        /\ \A u \in Transfer \ {t} : Rows'[u] = Rows[u]
    <3>1. \A u \in Transfer : Rows[u] = BytesOf(u) /\ Rows'[u] = BytesOf(u)'
      BY DEF Rows
    <3>2. BytesOf(t)' = BytesOf(t) + Grown(w) - Shrunk(w) /\ req'[w] = req[w]
      BY <2>1, <2>3 DEF WriteChunk
    <3> QED
      BY <2>2, <2>3, <3>1, <3>2
  <2>6. SumFunction(Rows') = SumFunction(Rows) - Rows[t] + Rows'[t]
    <3>1. Rows \in [Transfer -> Int] /\ Rows' \in [Transfer -> Int]
      BY <1>1, <2>4
    <3> QED
      BY <2>2, <2>5, <3>1, Finite, TotalChange
  <2>7. owed[w] = 0 /\ owed'[w] = Shrunk(w) /\ \A v \in Call \ {w} : owed'[v] = owed[v]
    BY <1>0, <2>1, <2>2 DEF CallsOwe, WriteChunk, Owing
  <2>8. SumFunction(owed') = SumFunction(owed) - owed[w] + owed'[w]
    BY <1>3, <2>7, Finite, TotalChange
  <2>9. reserved_bytes' = reserved_bytes + Grown(w) /\ (Grown(w) > 0 => reserved_bytes + Grown(w) <= max_total_file_bytes)
    BY <2>1 DEF WriteChunk, Writable, try_reserve_bytes
  <2>10. Rows[t] \in Nat /\ Rows'[t] \in Nat
    BY <1>1, <2>2, <2>4
  <2>11. reserved_bytes' = StoredBytes' + SumFunction(owed')
    BY <1>1, <1>2, <2>2, <2>4, <2>5, <2>6, <2>7, <2>8, <2>9, <2>10
  <2>12. reserved_bytes' \in 0 .. max_total_file_bytes
    BY <1>0, <1>2, <2>2, <2>9
  <2>13. \A u \in Stored' : file_meta'[u].stored_bytes <= max_file_bytes
    <3>1. req'[w] = req[w]
      BY <2>1 DEF WriteChunk
    <3>2. \A u \in Transfer : BytesOf(u)' <= max_file_bytes \/ BytesOf(u)' = BytesOf(u)
      BY <2>3, <3>1
    <3>3. \A u \in Transfer : BytesOf(u) <= max_file_bytes
      BY <1>0, <1>2 DEF Stored, BytesOf
    <3>4. \A u \in Transfer : BytesOf(u)' <= max_file_bytes
      BY <3>2, <3>3
    <3> QED
      BY <3>4 DEF Stored, BytesOf
  <2> QED
    BY <1>0, <2>3, <2>11, <2>12, <2>13 DEF ByteInv, BytesExact
<1>9. CASE BytesDetached
  <2>1. PICK w \in Call, t \in Transfer :
          /\ owed[w] = 0 /\ file_meta[t] # None
          /\ file_meta' = [file_meta EXCEPT ![t] = None]
          /\ file_chunks' = [file_chunks EXCEPT ![t] = NoChunks]
          /\ owed' = [owed EXCEPT ![w] = file_meta[t].stored_bytes]
          /\ UNCHANGED reserved_bytes
    BY <1>9 DEF BytesDetached
  <2>2. /\ file_meta'[t] = None /\ file_chunks'[t] = NoChunks
        /\ \A u \in Transfer \ {t} : file_meta'[u] = file_meta[u] /\ file_chunks'[u] = file_chunks[u]
    BY <1>0, <2>1 DEF StoreTypeOK
  <2>3. MetaDescribesChunks'
    <3> SUFFICES ASSUME NEW u \in Transfer
                 PROVE  LET hold == {j \in Index : file_chunks'[u][j] # 0}
                        IN IF file_meta'[u] # None
                           THEN /\ file_meta'[u].stored_bytes = SumFunction(file_chunks'[u])
                                /\ file_meta'[u].received_chunks = Cardinality(hold)
                           ELSE hold = {}
      BY DEF MetaDescribesChunks, Stored, ChunkBytes
    <3>1. CASE u = t
      BY <2>2, <3>1 DEF NoChunks
    <3>2. CASE u # t
      BY <1>0, <2>2, <3>2 DEF MetaDescribesChunks, Stored, ChunkBytes
    <3> QED
      BY <3>1, <3>2
  <2>4. Rows' \in [Transfer -> Nat] /\ StoredBytes' = SumFunction(Rows')
    BY <1>0, <2>3, RowsNatNext
  <2>5. /\ Rows'[t] = 0 /\ Rows[t] = file_meta[t].stored_bytes
        /\ \A u \in Transfer \ {t} : Rows'[u] = Rows[u]
    BY <2>1, <2>2 DEF Rows, BytesOf
  <2>6. SumFunction(Rows') = SumFunction(Rows) - Rows[t] + Rows'[t]
    <3>1. Rows \in [Transfer -> Int] /\ Rows' \in [Transfer -> Int]
      BY <1>1, <2>4
    <3> QED
      BY <2>5, <3>1, Finite, TotalChange
  <2>7. owed'[w] = file_meta[t].stored_bytes /\ \A v \in Call \ {w} : owed'[v] = owed[v]
    BY <1>0, <2>1
  <2>8. SumFunction(owed') = SumFunction(owed) - owed[w] + owed'[w]
    BY <1>3, <2>7, Finite, TotalChange
  <2>9. Rows[t] \in Nat
    BY <1>1
  <2>10. reserved_bytes' = StoredBytes' + SumFunction(owed')
    BY <1>1, <1>2, <2>1, <2>4, <2>5, <2>6, <2>7, <2>8, <2>9
  <2>11. \A u \in Stored' : file_meta'[u].stored_bytes <= max_file_bytes
    BY <1>2, <2>2 DEF Stored
  <2> QED
    BY <1>0, <1>2, <2>1, <2>3, <2>10, <2>11 DEF ByteInv, BytesExact
<1>10. CASE Crash
  <2>1. UNCHANGED tables /\ reserved_bytes' = StoredBytes /\ owed' = [w \in Call |-> 0]
    BY <1>10 DEF Crash, NoCalls
  <2>2. SumFunction(owed') = 0
    BY <2>1, Finite, TotalZero
  <2>3. reserved_bytes' = StoredBytes' + SumFunction(owed')
    BY <1>1, <1>5, <2>1, <2>2
  <2>4. reserved_bytes' \in 0 .. max_total_file_bytes
    BY <1>0, <1>1, <1>2, <2>1
  <2> QED
    BY <1>0, <1>5, <2>1, <2>3, <2>4 DEF ByteInv, BytesExact
<1> QED
  BY ByteMoves, <1>4, <1>6, <1>7, <1>8, <1>9, <1>10 DEF ByteEffect

(* The clock, the restarts and the sweep stay in range.                    *)
RangesOK ==
  /\ now \in 0 .. MaxNow
  /\ crashes \in 0 .. MaxCrashes
  /\ sweep \in [start : Nat, left : SUBSET Transfer, expired : SUBSET Transfer]

(* Each step keeps the remaining ranges of the type invariant.             *)
LEMMA RangesStep ==
  ASSUME RangesOK, [Next]_vars
  PROVE  RangesOK'
<1> USE DEF Goto, RangesOK
<1>1. CASE UNCHANGED <<now, crashes, sweep>>
  BY <1>1
<1>2. CASE SweepStart
  BY <1>2, BoundAssumption DEF SweepStart
<1>3. ASSUME NEW t \in Transfer, SweepLook(t)
      PROVE  RangesOK'
  BY <1>3 DEF SweepLook
<1>4. ASSUME NEW t \in Transfer, SweepDelete(t)
      PROVE  RangesOK'
  BY <1>4 DEF SweepDelete, DeleteRows
<1>5. ASSUME NEW t \in Transfer, SweepSkip(t)
      PROVE  RangesOK'
  BY <1>5 DEF SweepSkip
<1>6. CASE SweepDone
  BY <1>6 DEF SweepDone, NoSweep
<1>7. CASE Crash
  BY <1>7, BoundAssumption DEF Crash, NoCalls, NoSweep
<1>8. CASE Tick
  BY <1>8, BoundAssumption DEF Tick
<1>9. ASSUME NEW w \in Worker, StoreChunk(w) \/ Delete(w)
      PROVE  UNCHANGED <<now, crashes, sweep>>
  BY <1>9 DEF StoreChunk, Delete, FinishDelete, ClaimNew, ClaimKnown, ReserveSlot, ReserveFull,
              Unclaim, WriteChunk, WriteRefused, CommitFails, Rollback, Trim, Unslot, Mirror,
              DeleteTransfer, DeleteRows, DeleteCache, DeleteSlot, DeleteBytes
<1>10. CASE FinishDelete(Sweeper) \/ SweepLooked
  BY <1>10 DEF FinishDelete, DeleteCache, DeleteSlot, DeleteBytes, SweepLooked
<1>11. CASE UNCHANGED vars
  BY <1>11 DEF vars
<1> QED
  BY <1>1, <1>2, <1>3, <1>4, <1>5, <1>6, <1>7, <1>8, <1>9, <1>10, <1>11 DEF Next, Sweep

(* The byte accounts hold of an empty store.                               *)
LEMMA ByteInit ==
  ASSUME Init
  PROVE  ByteInv /\ RangesOK
<1>1. CallsOwe
  BY DEF Init, CallsOwe
<1>2. Rows = [t \in Transfer |-> 0] /\ StoredBytes = SumFunction(Rows) /\ owed = [w \in Call |-> 0]
  BY DEF Init, Rows, BytesOf, StoredBytes
<1>3. StoredBytes = 0 /\ SumFunction(owed) = 0
  BY <1>2, Finite, TotalZero
<1>4. BytesExact /\ reserved_bytes \in 0 .. max_total_file_bytes
  BY <1>3, LimitAssumption DEF Init, BytesExact
<1>5. MetaDescribesChunks /\ Stored = {}
  BY DEF Init, MetaDescribesChunks, Stored, NoChunks
<1>6. RangesOK
  BY BoundAssumption DEF Init, RangesOK, NoSweep
<1> QED
  BY <1>1, <1>4, <1>5, <1>6 DEF ByteInv

FullInv == StoreInv /\ SlotInv /\ ByteInv /\ RangesOK

(* Everything together holds at every moment.                              *)
LEMMA FullInvariance == Spec => []FullInv
<1>1. Init => FullInv
  BY InitInv, ByteInit DEF FullInv
<1>2. FullInv /\ [Next]_vars => FullInv'
  BY TypeStep, OwnStep, SlotInvStep, ByteInvStep, RangesStep DEF FullInv, StoreInv
<1> QED
  BY <1>1, <1>2, PTL DEF Spec

-----------------------------------------------------------------------------
(* At every instant, transfer_count is the number of transfers on disk     *)
(* plus the number of calls that have reserved a slot or have yet to       *)
(* return one: reserve_slot and release_slot are balanced on every path.   *)
THEOREM SlotsAlwaysExact == Spec => []SlotsExact
<1>1. SlotInv => SlotsExact
  BY DEF SlotInv
<1> QED
  BY <1>1, Invariance, PTL

(* Racing creations never put more than max_transfers transfers on disk.   *)
THEOREM TransfersLimited == Spec => []TransferLimit
<1>1. SlotInv => TransferLimit
  BY StoredFinite, HoldersFinite, LimitAssumption DEF SlotInv, SlotsExact, TransferLimit
<1> QED
  BY <1>1, Invariance, PTL

(* The cache entry locks an id: creations and deletions of one transfer    *)
(* never overlap between claim and commit.                                 *)
THEOREM ClaimsExclusive == Spec => []ClaimExclusive
<1>1. StoreInv => ClaimExclusive
  BY DEF StoreInv
<1> QED
  BY <1>1, Invariance, PTL

(* A transfer on disk can always be fetched and swept: it is in the cache, *)
(* with its own shape and a timestamp no later than its own.               *)
THEOREM StoredAlwaysCached == Spec => []StoredIsCached
<1>1. StoreInv => StoredIsCached
  BY DEF StoreInv
<1> QED
  BY <1>1, Invariance, PTL

(* Every variable keeps its type: in particular reserved_bytes and         *)
(* transfer_count, unsigned in the code, never go below zero, and a call   *)
(* between its claim and its return always knows which transfer it is      *)
(* working on.                                                             *)
THEOREM TypeCorrect == Spec => []TypeOK
<1>1. FullInv => TypeOK
  <2> SUFFICES ASSUME FullInv PROVE TypeOK
    OBVIOUS
  <2>1. transfer_count \in Nat
    BY StoredFinite, HoldersFinite DEF FullInv, SlotInv, SlotsExact
  <2>2. reserved_bytes \in Nat /\ owed \in [Call -> Nat]
    BY LimitAssumption DEF FullInv, ByteInv, CallsOwe
  <2>3. sweep.left \subseteq Transfer /\ sweep.expired \subseteq Transfer
    BY DEF FullInv, RangesOK
  <2> QED
    BY <2>1, <2>2, <2>3 DEF FullInv, StoreInv, StoreTypeOK, CallsKnow, RangesOK, TypeOK
<1> QED
  BY <1>1, FullInvariance, PTL

(* reserved_bytes is exactly what is on disk plus what calls in progress   *)
(* have reserved or freed and not yet given back: try_reserve_bytes and    *)
(* release_bytes are balanced on every path, and the saturation of         *)
(* release_bytes never hides a difference.                                 *)
THEOREM BytesAlwaysExact == Spec => []BytesExact
<1>1. FullInv => BytesExact
  BY DEF FullInv, ByteInv
<1> QED
  BY <1>1, FullInvariance, PTL

(* stored_bytes and received_chunks of a metadata row always describe the  *)
(* chunk rows, whatever is uploaded again, shortened or deleted.           *)
THEOREM MetaAlwaysDescribes == Spec => []MetaDescribesChunks
<1>1. FullInv => MetaDescribesChunks
  BY DEF FullInv, ByteInv
<1> QED
  BY <1>1, FullInvariance, PTL

(* The chunks on disk never exceed max_total_file_bytes together nor       *)
(* max_file_bytes in one transfer.                                         *)
THEOREM BytesLimited == Spec => []ByteLimits
<1>1. FullInv => ByteLimits
  <2> SUFFICES ASSUME FullInv PROVE ByteLimits
    OBVIOUS
  <2>1. /\ Rows \in [Transfer -> Nat] /\ StoredBytes = SumFunction(Rows) /\ StoredBytes \in Nat
        /\ \A t \in Transfer : BytesOf(t) = ChunkBytes(t)
    BY RowsNat DEF FullInv, StoreInv, ByteInv
  <2>2. SumFunction(owed) \in Nat
    BY Finite, TotalNat DEF FullInv, ByteInv, CallsOwe
  <2>3. StoredBytes <= max_total_file_bytes
    BY <2>1, <2>2, LimitAssumption DEF FullInv, ByteInv, BytesExact
  <2>4. Rows = [t \in Transfer |-> ChunkBytes(t)]
    BY <2>1 DEF Rows
  <2>5. \A t \in Transfer : BytesOf(t) <= max_file_bytes
    BY LimitAssumption DEF FullInv, ByteInv, Stored, BytesOf
  <2> QED
    BY <2>1, <2>3, <2>4, <2>5 DEF ByteLimits
<1> QED
  BY <1>1, FullInvariance, PTL
=============================================================================
