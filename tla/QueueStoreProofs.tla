-------------------------- MODULE QueueStoreProofs --------------------------
(***************************************************************************)
(* Proofs about QueueStore for any number of mailboxes, envelopes and      *)
(* concurrent calls: type correctness; the enqueue sequence is a strict    *)
(* total order on what is stored; the byte total overstates the table by   *)
(* at most one envelope per call however calls overlap; and until two      *)
(* calls overlap all accounts are exact and all caps are respected.  The   *)
(* argument is one inductive invariant, QueueInv, preserved by evictions,  *)
(* acks, purges, sweeps, failures and restarts.                            *)
(***************************************************************************)
EXTENDS QueueStore, DataLemmas

(* The part of TypeOK that the argument rests on.                          *)
SeqTypeOK ==
  /\ envelopes \subseteq Row
  /\ next_seq \in 1 .. (MaxSeq + 1)
  /\ now \in Nat
  /\ pc \in [Call -> PC]
  /\ env \in [Call -> Slot]
  /\ \A w \in Call : pc[w] \in Writing => env[w] \in Row

SeqInv == SeqTypeOK /\ SeqOrderSound

(* Uuids are unique among the stored and the about-to-be-stored, and no    *)
(* enqueue has chosen to evict one that is yet to be stored.               *)
IdsUnique ==
  /\ \A r1, r2 \in envelopes : r1.id = r2.id => r1 = r2
  /\ \A w \in Worker : pc[w] \in Writing =>
       /\ \A r \in envelopes : r.id # env[w].id
       /\ \A v \in Worker : pc[v] \in Writing =>
            env[v].id \notin evict[w] /\ (v # w => env[v].id # env[w].id)

(* Where calls may be, and what they have dropped by then.                 *)
CallsClean ==
  /\ \A w \in Call : pc[w] # "enq_write" => evict[w] = {}
  /\ \A w \in Call : pc[w] = "idle" => gone[w] = NoneGone
  /\ \A w \in Worker : pc[w] \notin {"sweep_write", "sweep_sub", "sweep_index"}
  /\ pc[Sweeper] \in {"idle", "sweep_write", "sweep_sub", "sweep_index"}

(* The rows an enqueue would evict if it committed now: at most the ones   *)
(* it has chosen.                                                          *)
Taken(w) == {r \in envelopes : r.mbx = env[w].mbx /\ r.id \in evict[w]}
EvictionCovered ==
  \A w \in Worker : pc[w] = "enq_write" => Bytes(Taken(w)) <= gone[w][env[w].mbx].bytes

(* Until two calls overlap, at most one is in progress.                    *)
Serial == ~raced => \A v, w \in Call : pc[v] # "idle" /\ pc[w] # "idle" => v = w

Stored == {"enq_add", "enq_sub", "enq_index"}
Purging == {"purge_sub", "purge_index"}
Pending == Stored \cup Purging \cup {"ack_sub", "ack_index", "sweep_sub", "sweep_index"}

(* What the call in progress has yet to do to the index.                   *)
New(w, m, n) == IF pc[w] \in Stored /\ env[w].mbx = m THEN n ELSE 0
IndexFollows(w) ==
  \A m \in Mailbox :
    /\ index[m].count + New(w, m, 1) = Cardinality(RowsOf(m)) + gone[w][m].count
    /\ index[m].bytes + New(w, m, env[w].len) = Bytes(RowsOf(m)) + gone[w][m].bytes

CallExact(w) ==
  /\ pc[w] \in Pending => IndexFollows(w)
  /\ pc[w] \in Writing =>
       gone[w] = [NoneGone EXCEPT ![env[w].mbx] = TallyOf(Taken(w))]
  /\ pc[w] \in Stored \cup Purging =>
       \A m \in Mailbox \ {env[w].mbx} : gone[w][m] = NoTally
  /\ pc[w] \in Stored =>
       /\ 1 <= Cardinality(RowsOf(env[w].mbx))
       /\ env[w].len <= Bytes(RowsOf(env[w].mbx))
  /\ pc[w] \in Purging => RowsOf(env[w].mbx) = {}

Settled == \A m \in Mailbox : index[m] = TallyOf(RowsOf(m))
TotalFollows == total_bytes + UncountedBytes = Bytes(envelopes) + StillCountedBytes

(* Until two calls overlap, all three accounts follow the table, up to     *)
(* what the call in progress has yet to do.                                *)
SerialExact == ~raced =>
  /\ TotalFollows
  /\ (\A w \in Call : pc[w] \notin Pending) => Settled
  /\ \A w \in Call : CallExact(w)

(* What admission and eviction promise the commit that follows.            *)
CapsAhead == ~raced /\ crashes = 0 =>
  \A w \in Worker :
    /\ pc[w] \in Writing =>
         Bytes(envelopes) + env[w].len <= GLOBAL_QUEUE_DISK_CAP_BYTES
    /\ pc[w] = "enq_write" =>
         ~OverCap(TallyOf(RowsOf(env[w].mbx) \ Taken(w)), env[w].len)

-----------------------------------------------------------------------------
(* Sums over rows of the table.                                            *)
LenOf == [r \in Row |-> r.len]

(* The bytes of a finite set of rows are a natural number.                 *)
LEMMA BytesNat ==
  ASSUME NEW rows, rows \subseteq Row, IsFiniteSet(rows)
  PROVE  /\ Bytes(rows) = SumFunctionOnSet(LenOf, rows)
         /\ \A r \in rows : LenOf[r] \in Nat /\ LenOf[r] = r.len
         /\ Bytes(rows) \in Nat /\ Cardinality(rows) \in Nat
         /\ TallyOf(rows) \in Tally
<1> DEFINE f == [r \in rows |-> r.len]
<1>1. \A r \in rows : r.len \in Nat
  BY LenAssumption DEF Row
<1>2. \A r \in rows : LenOf[r] \in Nat /\ LenOf[r] = r.len
  BY <1>1 DEF LenOf
<1>3. \A r \in rows : f[r] \in Int /\ f[r] = LenOf[r]
  BY <1>1, <1>2
<1>4. Bytes(rows) = SumFunctionOnSet(f, rows)
  BY DEF Bytes, SumFunction
<1> HIDE DEF f
<1>5. SumFunctionOnSet(f, rows) = SumFunctionOnSet(LenOf, rows)
  BY <1>3, SumSame
<1>6. SumFunctionOnSet(LenOf, rows) \in Nat
  BY <1>2, SumNat
<1>7. Cardinality(rows) \in Nat
  BY FS_CardinalityType
<1> QED
  BY <1>2, <1>4, <1>5, <1>6, <1>7 DEF TallyOf, Tally

(* No rows, no bytes.                                                      *)
LEMMA BytesEmpty == Bytes({}) = 0 /\ TallyOf({}) = NoTally
<1>1. Bytes({}) = SumFunctionOnSet(LenOf, {})
  BY BytesNat, FS_EmptySet
<1>2. Bytes({}) = 0
  BY <1>1, SumEmpty
<1> QED
  BY <1>2, FS_EmptySet DEF TallyOf, NoTally

(* Counts and bytes of a part and of the rest add up.                      *)
LEMMA BytesSplit ==
  ASSUME NEW rows, rows \subseteq Row, IsFiniteSet(rows), NEW part, part \subseteq rows
  PROVE  /\ IsFiniteSet(part) /\ IsFiniteSet(rows \ part)
         /\ Bytes(part) \in Nat /\ Bytes(rows \ part) \in Nat
         /\ Cardinality(part) \in Nat /\ Cardinality(rows \ part) \in Nat
         /\ Bytes(rows) = Bytes(part) + Bytes(rows \ part)
         /\ Cardinality(rows) = Cardinality(part) + Cardinality(rows \ part)
<1> DEFINE rest == rows \ part
<1>1. IsFiniteSet(part) /\ IsFiniteSet(rest) /\ part \subseteq Row /\ rest \subseteq Row
  BY FS_Subset
<1> HIDE DEF rest
<1>2. /\ Bytes(part) \in Nat /\ Bytes(rest) \in Nat
      /\ Cardinality(part) \in Nat /\ Cardinality(rest) \in Nat
      /\ Bytes(part) = SumFunctionOnSet(LenOf, part)
      /\ Bytes(rest) = SumFunctionOnSet(LenOf, rest)
  BY <1>1, BytesNat
<1>3. Bytes(rows) = SumFunctionOnSet(LenOf, rows) /\ \A r \in rows : LenOf[r] \in Nat
  BY BytesNat
<1>4. SumFunctionOnSet(LenOf, rows)
        = SumFunctionOnSet(LenOf, part) + SumFunctionOnSet(LenOf, rows \ part)
  BY <1>3, SumSubset
<1>5. Cardinality(rows) = Cardinality(part) + Cardinality(rest)
  <2>1. Cardinality(rows \ part) = Cardinality(rows) - Cardinality(rows \cap part)
    BY FS_Difference
  <2>2. rows \cap part = part
    OBVIOUS
  <2>3. Cardinality(rows) \in Nat
    BY FS_CardinalityType
  <2>4. Cardinality(rest) = Cardinality(rows) - Cardinality(part)
    BY <2>1, <2>2 DEF rest
  <2> QED
    BY <1>2, <2>3, <2>4
<1> QED
  BY <1>1, <1>2, <1>3, <1>4, <1>5 DEF rest

(* One row more adds its length.                                           *)
LEMMA BytesAdd ==
  ASSUME NEW rows, rows \subseteq Row, IsFiniteSet(rows), NEW e \in Row, e \notin rows
  PROVE  /\ IsFiniteSet(rows \cup {e})
         /\ Bytes(rows \cup {e}) = Bytes(rows) + e.len
         /\ Cardinality(rows \cup {e}) = Cardinality(rows) + 1
<1>1. IsFiniteSet(rows \cup {e}) /\ Cardinality(rows \cup {e}) = Cardinality(rows) + 1
  BY FS_AddElement
<1>2. /\ Bytes(rows) = SumFunctionOnSet(LenOf, rows)
      /\ \A r \in rows : LenOf[r] \in Nat /\ LenOf[r] = r.len
  BY BytesNat
<1>3. Bytes(rows \cup {e}) = SumFunctionOnSet(LenOf, rows \cup {e})
  BY <1>1, BytesNat
<1>4. LenOf[e] = e.len /\ e.len \in Nat
  BY LenAssumption DEF LenOf, Row
<1>5. \A r \in rows \cup {e} : LenOf[r] \in Int
  BY <1>2, <1>4
<1>6. SumFunctionOnSet(LenOf, rows \cup {e}) = SumFunctionOnSet(LenOf, rows) + LenOf[e]
  BY <1>5, SumAdd
<1> QED
  BY <1>1, <1>2, <1>3, <1>4, <1>6

(* The bytes of a set of rows are the bytes of its mailboxes together.     *)
LEMMA BytesByMailbox ==
  ASSUME NEW rows, rows \subseteq Row, IsFiniteSet(rows)
  PROVE  Bytes(rows) = SumFunction([m \in Mailbox |-> Bytes({r \in rows : r.mbx = m})])
<1> DEFINE Part(R, m) == {r \in R : r.mbx = m}
           By(R) == [m \in Mailbox |-> Bytes(Part(R, m))]
           B == {R \in SUBSET rows : Bytes(R) # SumFunction(By(R))}
<1>1. ASSUME NEW R \in SUBSET rows
      PROVE  /\ IsFiniteSet(R) /\ R \subseteq Row
             /\ By(R) \in [Mailbox -> Int]
             /\ \A m \in Mailbox : IsFiniteSet(Part(R, m)) /\ Part(R, m) \subseteq Row
  <2>1. IsFiniteSet(R) /\ R \subseteq Row
    BY FS_Subset
  <2>2. ASSUME NEW m \in Mailbox
        PROVE  IsFiniteSet(Part(R, m)) /\ Part(R, m) \subseteq Row /\ Bytes(Part(R, m)) \in Nat
    BY <2>1, FS_Subset, BytesNat
  <2> QED
    BY <2>1, <2>2
<1>2. SUFFICES ASSUME B # {} PROVE FALSE
  <2>1. rows \in SUBSET rows
    OBVIOUS
  <2>2. B = {} => Bytes(rows) = SumFunction(By(rows))
    BY <2>1
  <2> QED
    BY <2>2
<1>3. PICK R \in B : \A x \in R : R \ {x} \notin B
  <2>1. B \subseteq SUBSET rows
    OBVIOUS
  <2> HIDE DEF B
  <2> QED
    BY <1>2, <2>1, MinimalSubset
<1>4. R # {}
  <2>1. By({}) = [m \in Mailbox |-> 0]
    <3>1. \A m \in Mailbox : Part({}, m) = {}
      OBVIOUS
    <3> QED
      BY <3>1, BytesEmpty
  <2>2. SumFunction([m \in Mailbox |-> 0]) = 0
    BY SetsAssumption, TotalZero
  <2>3. {} \notin B
    BY <2>1, <2>2, BytesEmpty
  <2> QED
    BY <2>3
<1>5. PICK x \in R : TRUE
  BY <1>4
<1> DEFINE Q == R \ {x}
<1>6. Q \in SUBSET rows /\ R \in SUBSET rows /\ x \in Row /\ x.mbx \in Mailbox /\ x.len \in Nat
      /\ x \notin Q /\ R = Q \cup {x}
  BY <1>5, LenAssumption DEF Row
<1>7. Bytes(Q) = SumFunction(By(Q))
  BY <1>3, <1>5, <1>6
<1>8. Bytes(R) = Bytes(Q) + x.len
  <2> HIDE DEF Q
  <2> QED
    BY <1>1, <1>6, BytesAdd
<1> DEFINE c == x.mbx
           f == By(Q)
           g == By(R)
<1>9. /\ f \in [Mailbox -> Int] /\ g \in [Mailbox -> Int]
      /\ \A m \in Mailbox \ {c} : g[m] = f[m]
      /\ g[c] = f[c] + x.len
  <2>1. \A m \in Mailbox \ {c} : Part(R, m) = Part(Q, m)
    BY <1>6
  <2>2. Part(R, c) = Part(Q, c) \cup {x} /\ x \notin Part(Q, c)
    BY <1>6
  <2>3. IsFiniteSet(Part(Q, c)) /\ Part(Q, c) \subseteq Row
    BY <1>1, <1>6
  <2>4. Bytes(Part(R, c)) = Bytes(Part(Q, c)) + x.len
    <3> DEFINE P == Part(Q, c)
    <3>1. IsFiniteSet(P) /\ P \subseteq Row /\ x \notin P /\ Part(R, c) = P \cup {x}
      BY <2>2, <2>3
    <3> HIDE DEF P
    <3>2. Bytes(P \cup {x}) = Bytes(P) + x.len
      BY <1>6, <3>1, BytesAdd
    <3> QED
      BY <3>1, <3>2 DEF P
  <2>5. f \in [Mailbox -> Int] /\ g \in [Mailbox -> Int]
    BY <1>1, <1>6
  <2>6. \A m \in Mailbox : f[m] = Bytes(Part(Q, m)) /\ g[m] = Bytes(Part(R, m))
    OBVIOUS
  <2> HIDE DEF Part, By, Q, f, g
  <2> QED
    BY <1>6, <2>1, <2>4, <2>5, <2>6
<1>10. SumFunction(f) \in Int /\ SumFunction(g) = SumFunction(f) - f[c] + g[c]
  <2> HIDE DEF f, g
  <2> QED
    BY <1>6, <1>9, SetsAssumption, TotalChange
<1>11. f[c] \in Int
  BY <1>6, <1>9
<1>12. Bytes(R) = SumFunction(By(R))
  <2>1. SumFunction(g) = SumFunction(f) + x.len
    <3> HIDE DEF f, g
    <3> QED
      BY <1>6, <1>9, <1>10, <1>11
  <2> QED
    BY <1>7, <1>8, <2>1
<1> QED
  BY <1>12

-----------------------------------------------------------------------------
(* The scan of QueueStore::new finds a number past every stored one:       *)
(* next_seq before the restart bounds them all, so a least bound exists.   *)
LEMMA ScanSound ==
  ASSUME SeqInv
  PROVE  SeqAfterScan \in 1 .. (MaxSeq + 1) /\ \A r \in envelopes : r.s < SeqAfterScan
<1> DEFINE Past == {n \in 1 .. (MaxSeq + 1) : \A r \in envelopes : r.s < n}
<1>1. next_seq \in Past
  BY DEF SeqInv, SeqTypeOK, SeqOrderSound
<1>2. PICK n \in Past : \A k \in Past : n <= k
  <2>1. Past \subseteq Nat
    OBVIOUS
  <2> HIDE DEF Past
  <2> QED
    BY <1>1, <2>1, LeastNumber
<1>3. \A r \in envelopes : r.s \in Nat
  BY DEF SeqInv, SeqTypeOK, Row
<1>4. n = 1 \/ \E r \in envelopes : r.s = n - 1
  <2> SUFFICES ASSUME n # 1 PROVE \E r \in envelopes : r.s = n - 1
    OBVIOUS
  <2>1. n - 1 \in 1 .. (MaxSeq + 1) /\ n - 1 \notin Past
    BY <1>2, BoundAssumption
  <2>2. PICK r \in envelopes : ~(r.s < n - 1)
    BY <2>1
  <2> QED
    BY <1>2, <1>3, <2>2, BoundAssumption
<1>5. \E k \in 1 .. (MaxSeq + 1) :
        /\ \A r \in envelopes : r.s < k
        /\ k = 1 \/ \E r \in envelopes : r.s = k - 1
  BY <1>2, <1>4
<1> QED
  BY <1>5 DEF SeqAfterScan

(* The slots of a call without a row.                                      *)
LEMMA StubType ==
  /\ NoRow \in Slot
  /\ \A r \in Slot : Stub(r.mbx, r.len) \in Slot
  /\ \A m \in Mailbox : Stub(m, 0) \in Slot
BY DEF Stub, NoRow, Slot

(* Each step of a call keeps the sequence sound.                           *)
LEMMA SeqStep ==
  ASSUME SeqInv, [Next]_vars
  PROVE  SeqInv'
<1> USE StubType DEF SeqInv, SeqTypeOK, SeqOrderSound, Goto, Begin, accounts, local, Call, Writing,
      Numbered
<1>1. ASSUME NEW w \in Worker, NEW m \in Mailbox, NEW id \in Id, NEW len \in Lengths, Admit(w, m, id, len)
      PROVE  SeqInv'
  BY <1>1 DEF Admit, Row, Slot, PC
<1>2. ASSUME NEW w \in Worker, EnqueueStart(w)
      PROVE  SeqInv'
  <2> DEFINE e == [mbx |-> env[w].mbx, id |-> env[w].id, len |-> env[w].len,
                   q |-> now, s |-> next_seq]
  <2>1. env[w] \in Row /\ next_seq \in Nat /\ next_seq <= MaxSeq
    BY <1>2, BoundAssumption DEF EnqueueStart
  <2>2. e \in Row /\ e \in Slot /\ e.s = next_seq
    BY <2>1 DEF Row, Slot
  <2>3. /\ env' = [env EXCEPT ![w] = e] /\ pc' = [pc EXCEPT ![w] = "enq_check"]
        /\ next_seq' = next_seq + 1 /\ UNCHANGED <<envelopes, now>>
    BY <1>2 DEF EnqueueStart
  <2> HIDE DEF e
  <2>4. SeqTypeOK'
    BY <2>1, <2>2, <2>3, BoundAssumption DEF PC
  <2>5. /\ \A r \in envelopes : r.s \in Nat
        /\ \A v \in Worker : pc[v] \in Numbered => env[v].s \in Nat
    BY DEF Row
  <2>6. SeqOrderSound'
    BY <2>1, <2>2, <2>3, <2>5
  <2> QED
    BY <2>4, <2>6
<1>3. ASSUME NEW w \in Worker, EnqueueCheck(w)
      PROVE  SeqInv'
  BY <1>3 DEF EnqueueCheck, PC
<1>4. ASSUME NEW w \in Worker, EnqueueRead(w)
      PROVE  SeqInv'
  BY <1>4 DEF EnqueueRead, PC
<1>5. ASSUME NEW w \in Worker, EnqueueWrite(w)
      PROVE  SeqInv'
  <2> DEFINE e == Stub(env[w].mbx, env[w].len)
  <2>1. e \in Slot /\ env[w] \in Row /\ pc[w] = "enq_write"
    BY <1>5 DEF EnqueueWrite
  <2>2. /\ env' = [env EXCEPT ![w] = e] /\ pc' = [pc EXCEPT ![w] = "enq_add"]
        /\ UNCHANGED <<next_seq, now>>
    BY <1>5 DEF EnqueueWrite
  <2>3. envelopes' \subseteq envelopes \cup {env[w]}
    BY <1>5 DEF EnqueueWrite
  <2> HIDE DEF e
  <2>4. SeqTypeOK'
    BY <2>1, <2>2, <2>3 DEF PC
  <2>5. SeqOrderSound'
    BY <2>1, <2>2, <2>3
  <2> QED
    BY <2>4, <2>5
<1>6. ASSUME NEW w \in Worker, EnqueueAdd(w)
      PROVE  SeqInv'
  BY <1>6 DEF EnqueueAdd, PC
<1>7. ASSUME NEW w \in Worker, EnqueueSub(w)
      PROVE  SeqInv'
  BY <1>7 DEF EnqueueSub, FreeTotal, PC
<1>8. ASSUME NEW w \in Worker, EnqueueIndex(w)
      PROVE  SeqInv'
  BY <1>8 DEF EnqueueIndex, Finish, PC
<1>9. ASSUME NEW w \in Worker, NEW m \in Mailbox, NEW ids \in SUBSET Id, AckWrite(w, m, ids)
      PROVE  SeqInv'
  BY <1>9 DEF AckWrite, PC
<1>10. ASSUME NEW w \in Worker, AckSub(w)
      PROVE  SeqInv'
  BY <1>10 DEF AckSub, FreeTotal, PC
<1>11. ASSUME NEW w \in Worker, AckIndex(w)
      PROVE  SeqInv'
  BY <1>11 DEF AckIndex, Finish, PC
<1>12. ASSUME NEW w \in Worker, NEW m \in Mailbox, PurgeWrite(w, m)
      PROVE  SeqInv'
  BY <1>12 DEF PurgeWrite, PC
<1>13. ASSUME NEW w \in Worker, PurgeSub(w)
      PROVE  SeqInv'
  BY <1>13 DEF PurgeSub, FreeTotal, PC
<1>14. ASSUME NEW w \in Worker, PurgeIndex(w)
      PROVE  SeqInv'
  BY <1>14 DEF PurgeIndex, Finish, PC
<1>15. ASSUME SweepStart
      PROVE  SeqInv'
  BY <1>15 DEF SweepStart, PC
<1>16. ASSUME SweepWrite
      PROVE  SeqInv'
  BY <1>16 DEF SweepWrite, PC
<1>17. ASSUME SweepSub
      PROVE  SeqInv'
  BY <1>17 DEF SweepSub, FreeTotal, PC
<1>18. ASSUME NEW m \in Mailbox, SweepIndex(m)
      PROVE  SeqInv'
  BY <1>18 DEF SweepIndex, PC
<1>19. ASSUME SweepDone
      PROVE  SeqInv'
  BY <1>19 DEF SweepDone, Finish, PC
<1>20. ASSUME NEW w \in Call, TxnFails(w)
      PROVE  SeqInv'
  BY <1>20 DEF TxnFails, Finish, PC
<1>21. ASSUME Crash
      PROVE  SeqInv'
  BY <1>21, ScanSound DEF Crash, PC
<1>22. ASSUME Tick
      PROVE  SeqInv'
  <2>1. now' = now + 1 /\ UNCHANGED <<envelopes, next_seq, pc, env>>
    BY <1>22 DEF Tick
  <2>2. now' \in Nat
    BY <2>1
  <2> QED
    BY <2>1, <2>2
<1>23. ASSUME UNCHANGED vars
      PROVE  SeqInv'
  BY <1>23 DEF vars, PC
<1> QED
  BY <1>1, <1>2, <1>3, <1>4, <1>5, <1>6, <1>7, <1>8, <1>9, <1>10, <1>11, <1>12, <1>13, <1>14, <1>15, <1>16, <1>17, <1>18, <1>19, <1>20, <1>21, <1>22, <1>23
     DEF Next, Enqueue, Ack, Purge, Sweep

-----------------------------------------------------------------------------
(* Typing.  The table stays finite, so its sums are defined.               *)
StoreTypeOK == TypeOK /\ IsFiniteSet(envelopes)

(* The tallies a call keeps are tallies.                                   *)
LEMMA TalliesType ==
  /\ NoTally \in Tally /\ NoneGone \in [Mailbox -> Tally]
  /\ \A t \in Tally, u \in Tally : Less(t, u) \in Tally
  /\ \A m \in Mailbox, t \in Tally : [NoneGone EXCEPT ![m] = t] \in [Mailbox -> Tally]
<1>1. NoTally \in Tally
  BY DEF NoTally, Tally
<1>2. ASSUME NEW t \in Tally, NEW u \in Tally PROVE Less(t, u) \in Tally
  BY DEF Less, Monus, Tally
<1> QED
  BY <1>1, <1>2 DEF NoneGone

(* Any part of the table has a tally.                                      *)
LEMMA PartType ==
  ASSUME StoreTypeOK, NEW rows, rows \subseteq envelopes
  PROVE  rows \subseteq Row /\ IsFiniteSet(rows) /\ TallyOf(rows) \in Tally
<1>1. rows \subseteq Row /\ IsFiniteSet(rows)
  BY FS_Subset DEF StoreTypeOK, TypeOK
<1> QED
  BY <1>1, BytesNat

(* What a call has freed is a number, of each mailbox and of all.          *)
LEMMA FreedNat ==
  ASSUME StoreTypeOK, NEW w \in Call
  PROVE  /\ FreedBytes(w) \in Nat
         /\ \A m \in Mailbox : gone[w][m].bytes \in Nat /\ gone[w][m].bytes <= FreedBytes(w)
<1> DEFINE f == [m \in Mailbox |-> gone[w][m].bytes]
<1>1. f \in [Mailbox -> Nat]
  BY DEF StoreTypeOK, TypeOK, Tally
<1>2. \A m \in Mailbox : f[m] = gone[w][m].bytes /\ f[m] \in Nat
  BY <1>1
<1> HIDE DEF f
<1>3. SumFunction(f) \in Nat /\ \A m \in Mailbox : f[m] <= SumFunction(f)
  BY <1>1, SetsAssumption, TotalNat
<1> QED
  BY <1>2, <1>3 DEF FreedBytes, f

(* The length of an envelope is a number.                                  *)
LEMMA LengthNat ==
  ASSUME StoreTypeOK
  PROVE  \A w \in Call : env[w].len \in Nat
<1> TAKE w \in Call
<1>1. env[w].len \in Lengths \cup {0}
  BY DEF StoreTypeOK, TypeOK, Slot
<1>2. CASE env[w].len \in Lengths
  BY <1>2, LenAssumption
<1>3. CASE env[w].len = 0
  BY <1>3
<1> QED
  BY <1>1, <1>2, <1>3

(* Each step keeps every variable in its type.                             *)
LEMMA TypeStep ==
  ASSUME StoreTypeOK, SeqInv, [Next]_vars
  PROVE  StoreTypeOK'
<1> USE DEF StoreTypeOK
<1>0. /\ TypeOK /\ IsFiniteSet(envelopes)
      /\ envelopes \subseteq Row /\ next_seq \in 1 .. (MaxSeq + 1) /\ total_bytes \in Nat
      /\ pc \in [Call -> PC] /\ env \in [Call -> Slot] /\ gone \in [Call -> [Mailbox -> Tally]]
      /\ \A w \in Call : pc[w] \in Writing => env[w] \in Row
      /\ \A w \in Call : pc[w] \in Accounting => env[w].mbx \in Mailbox
      /\ \A w \in Call : env[w].len \in Nat
  <2>1. \A w \in Call : env[w].len \in Nat
    BY LengthNat
  <2> QED
    BY <2>1 DEF TypeOK
<1> USE StubType, TalliesType DEF Goto, Begin, accounts, local, PC, Writing, Accounting
<1>1. ASSUME NEW w \in Worker, NEW m \in Mailbox, NEW id \in Id, NEW len \in Lengths, Admit(w, m, id, len)
      PROVE  StoreTypeOK'
  <2> DEFINE e == [mbx |-> m, id |-> id, len |-> len, q |-> 0, s |-> 0]
  <2>1. e \in Row /\ e \in Slot
    BY DEF Row, Slot
  <2>2. /\ pc' = [pc EXCEPT ![w] = "enq_start"] /\ env' = [env EXCEPT ![w] = e]
        /\ raced' \in BOOLEAN
        /\ UNCHANGED <<envelopes, accounts, now, crashes, evict, gone, cutoff>>
    BY <1>1 DEF Admit
  <2> HIDE DEF e
  <2> QED
    BY <1>0, <2>1, <2>2 DEF TypeOK, Call
<1>2. ASSUME NEW w \in Worker, EnqueueStart(w)
      PROVE  StoreTypeOK'
  <2> DEFINE e == [mbx |-> env[w].mbx, id |-> env[w].id, len |-> env[w].len,
                   q |-> now, s |-> next_seq]
  <2>1. env[w] \in Row /\ next_seq \in Nat /\ next_seq <= MaxSeq /\ now \in Nat
    BY <1>0, <1>2, BoundAssumption DEF EnqueueStart, TypeOK, Call
  <2>2. e \in Row /\ e \in Slot
    BY <2>1 DEF Row, Slot
  <2>3. /\ env' = [env EXCEPT ![w] = e] /\ pc' = [pc EXCEPT ![w] = "enq_check"]
        /\ next_seq' = next_seq + 1
        /\ UNCHANGED <<envelopes, total_bytes, index, now, crashes, raced, evict, gone, cutoff>>
    BY <1>2 DEF EnqueueStart
  <2>4. next_seq' \in 1 .. (MaxSeq + 1)
    BY <2>1, <2>3, BoundAssumption
  <2> HIDE DEF e
  <2> QED
    BY <1>0, <2>2, <2>3, <2>4 DEF TypeOK, Call
<1>3. ASSUME NEW w \in Worker, EnqueueCheck(w)
      PROVE  StoreTypeOK'
  <2>1. /\ pc[w] = "enq_check" /\ pc' = [pc EXCEPT ![w] = pc'[w]]
        /\ pc'[w] \in {"enq_read", "enq_write"}
    BY <1>0, <1>3 DEF EnqueueCheck, Call
  <2> QED
    BY <1>0, <1>3, <2>1 DEF EnqueueCheck, TypeOK, Call
<1>4. ASSUME NEW w \in Worker, EnqueueRead(w)
      PROVE  StoreTypeOK'
  <2> DEFINE m == env[w].mbx
             victims == EvictionChoice(RowsOf(m), env[w].len)
             ids == {r.id : r \in victims}
             g == [NoneGone EXCEPT ![m] = TallyOf(victims)]
  <2>1. pc[w] = "enq_read" /\ m \in Mailbox
    BY <1>0, <1>4 DEF EnqueueRead, Call, Row
  <2>2. victims \subseteq envelopes
    BY DEF EvictionChoice, RowsOf
  <2>3. TallyOf(victims) \in Tally
    BY <1>0, <2>2, PartType
  <2>4. ids \in SUBSET Id
    BY <1>0, <2>2 DEF Row
  <2>5. g \in [Mailbox -> Tally]
    BY <2>1, <2>3
  <2>6. /\ evict' = [evict EXCEPT ![w] = ids] /\ gone' = [gone EXCEPT ![w] = g]
        /\ pc' = [pc EXCEPT ![w] = "enq_write"]
        /\ UNCHANGED <<envelopes, accounts, now, crashes, raced, env, cutoff>>
    BY <1>4 DEF EnqueueRead
  <2> HIDE DEF ids, g
  <2> QED
    BY <1>0, <2>1, <2>4, <2>5, <2>6 DEF TypeOK, Call
<1>5. ASSUME NEW w \in Worker, EnqueueWrite(w)
      PROVE  StoreTypeOK'
  <2> DEFINE e == Stub(env[w].mbx, env[w].len)
             kept == {r \in envelopes : ~(r.mbx = env[w].mbx /\ r.id \in evict[w])}
  <2>1. env[w] \in Row /\ env[w] \in Slot /\ pc[w] = "enq_write"
    BY <1>0, <1>5 DEF EnqueueWrite, Call
  <2>2. e \in Slot /\ e.mbx \in Mailbox
    BY <2>1 DEF Row, Stub
  <2>3. kept \subseteq Row /\ IsFiniteSet(kept)
    BY <1>0, FS_Subset
  <2>4. kept \cup {env[w]} \subseteq Row /\ IsFiniteSet(kept \cup {env[w]})
    BY <2>1, <2>3, FS_AddElement
  <2>5. /\ envelopes' = kept \cup {env[w]} /\ env' = [env EXCEPT ![w] = e]
        /\ pc' = [pc EXCEPT ![w] = "enq_add"] /\ evict' = [evict EXCEPT ![w] = {}]
        /\ UNCHANGED <<accounts, now, crashes, raced, gone, cutoff>>
    BY <1>5 DEF EnqueueWrite
  <2> HIDE DEF e, kept
  <2> QED
    BY <1>0, <2>2, <2>4, <2>5 DEF TypeOK, Call
<1>6. ASSUME NEW w \in Worker, EnqueueAdd(w)
      PROVE  StoreTypeOK'
  <2>1. total_bytes' \in Nat
    BY <1>0, <1>6 DEF EnqueueAdd, Call
  <2> QED
    BY <1>0, <1>6, <2>1 DEF EnqueueAdd, TypeOK, Call
<1>7. ASSUME NEW w \in Call, NEW from \in PC, NEW to \in PC, FreeTotal(w, from, to),
             to \notin Writing, to \in Accounting => from \in Accounting
      PROVE  StoreTypeOK'
  <2>1. total_bytes' \in Nat
    BY <1>0, <1>7, FreedNat DEF FreeTotal, Monus
  <2> QED
    BY <1>0, <1>7, <2>1 DEF FreeTotal, TypeOK
<1>8. ASSUME NEW w \in Worker, EnqueueIndex(w)
      PROVE  StoreTypeOK'
  <2> DEFINE m == env[w].mbx
             t == Less(index[m], gone[w][m])
             n == [count |-> t.count + 1, bytes |-> t.bytes + env[w].len]
  <2>1. pc[w] = "enq_index" /\ m \in Mailbox /\ index[m] \in Tally /\ gone[w][m] \in Tally
    BY <1>0, <1>8 DEF EnqueueIndex, Finish, Call, TypeOK
  <2>2. t \in Tally /\ env[w].len \in Nat
    BY <1>0, <2>1 DEF Call
  <2>3. n \in Tally
    BY <2>2 DEF Tally
  <2>4. index' = [index EXCEPT ![m] = n] /\ Finish(w, "enq_index")
        /\ UNCHANGED <<envelopes, total_bytes, next_seq, now, crashes, raced>>
    BY <1>8 DEF EnqueueIndex
  <2> HIDE DEF n
  <2> QED
    BY <1>0, <2>1, <2>3, <2>4 DEF TypeOK, Finish, Call
<1>9. ASSUME NEW w \in Worker, NEW m \in Mailbox, NEW ids \in SUBSET Id, AckWrite(w, m, ids)
      PROVE  StoreTypeOK'
  <2> DEFINE rows == {r \in RowsOf(m) : r.id \in ids}
             g == [NoneGone EXCEPT ![m] = TallyOf(rows)]
  <2>1. TallyOf(rows) \in Tally /\ IsFiniteSet(envelopes \ rows) /\ envelopes \ rows \subseteq Row
    BY <1>0, PartType DEF RowsOf
  <2>2. g \in [Mailbox -> Tally]
    BY <2>1
  <2>3. /\ envelopes' = envelopes \ rows /\ gone' = [gone EXCEPT ![w] = g]
        /\ pc' = [pc EXCEPT ![w] = "ack_sub"] /\ raced' \in BOOLEAN
        /\ UNCHANGED <<accounts, now, crashes, env, evict, cutoff>>
    BY <1>9 DEF AckWrite
  <2> HIDE DEF g, rows
  <2> QED
    BY <1>0, <2>1, <2>2, <2>3 DEF TypeOK, Call
<1>10. ASSUME NEW w \in Worker, AckIndex(w)
      PROVE  StoreTypeOK'
  <2>1. index' \in [Mailbox -> Tally]
    BY <1>0, <1>10 DEF AckIndex, TypeOK, Call
  <2> QED
    BY <1>0, <1>10, <2>1 DEF AckIndex, Finish, TypeOK, Call
<1>11. ASSUME NEW w \in Worker, NEW m \in Mailbox, PurgeWrite(w, m)
      PROVE  StoreTypeOK'
  <2> DEFINE rows == RowsOf(m)
             g == [NoneGone EXCEPT ![m] = TallyOf(rows)]
             e == Stub(m, 0)
  <2>1. TallyOf(rows) \in Tally /\ IsFiniteSet(envelopes \ rows) /\ envelopes \ rows \subseteq Row
    BY <1>0, PartType DEF RowsOf
  <2>2. g \in [Mailbox -> Tally] /\ e \in Slot /\ e.mbx \in Mailbox
    BY <2>1 DEF Stub
  <2>3. /\ envelopes' = envelopes \ rows /\ gone' = [gone EXCEPT ![w] = g]
        /\ pc' = [pc EXCEPT ![w] = "purge_sub"] /\ env' = [env EXCEPT ![w] = e]
        /\ raced' \in BOOLEAN
        /\ UNCHANGED <<accounts, now, crashes, evict, cutoff>>
    BY <1>11 DEF PurgeWrite
  <2> HIDE DEF g, rows, e
  <2> QED
    BY <1>0, <2>1, <2>2, <2>3 DEF TypeOK, Call
<1>12. ASSUME NEW w \in Worker, PurgeIndex(w)
      PROVE  StoreTypeOK'
  <2>1. index' \in [Mailbox -> Tally]
    BY <1>0, <1>12 DEF PurgeIndex, TypeOK, Call
  <2> QED
    BY <1>0, <1>12, <2>1 DEF PurgeIndex, Finish, TypeOK, Call
<1>13. ASSUME SweepStart
      PROVE  StoreTypeOK'
  <2>1. cutoff' \in Nat
    BY <1>0, <1>13, BoundAssumption, CapAssumption DEF SweepStart, TypeOK, Monus
  <2> QED
    BY <1>0, <1>13, <2>1 DEF SweepStart, TypeOK, Call
<1>14. ASSUME SweepWrite
      PROVE  StoreTypeOK'
  <2> DEFINE old == {r \in envelopes : Expired(r, cutoff)}
             g == [m \in Mailbox |-> TallyOf({r \in old : r.mbx = m})]
  <2>1. IsFiniteSet(envelopes \ old) /\ envelopes \ old \subseteq Row
    BY <1>0, PartType
  <2>2. \A m \in Mailbox : TallyOf({r \in old : r.mbx = m}) \in Tally
    <3> TAKE m \in Mailbox
    <3>1. {r \in old : r.mbx = m} \subseteq envelopes
      OBVIOUS
    <3> HIDE DEF old
    <3> QED
      BY <1>0, <3>1, PartType
  <2>3. g \in [Mailbox -> Tally]
    BY <2>2
  <2>4. /\ envelopes' = envelopes \ old /\ gone' = [gone EXCEPT ![Sweeper] = g]
        /\ pc' = [pc EXCEPT ![Sweeper] = "sweep_sub"]
        /\ UNCHANGED <<accounts, now, crashes, raced, env, evict, cutoff>>
    BY <1>14 DEF SweepWrite
  <2> HIDE DEF g, old
  <2> QED
    BY <1>0, <2>1, <2>3, <2>4 DEF TypeOK, Call
<1>15. ASSUME NEW m \in Mailbox, SweepIndex(m)
      PROVE  StoreTypeOK'
  <2>1. index' \in [Mailbox -> Tally] /\ gone' \in [Call -> [Mailbox -> Tally]]
    BY <1>0, <1>15 DEF SweepIndex, TypeOK, Call
  <2> QED
    BY <1>0, <1>15, <2>1 DEF SweepIndex, TypeOK, Call
<1>16. ASSUME SweepDone
      PROVE  StoreTypeOK'
  BY <1>0, <1>16 DEF SweepDone, Finish, TypeOK, Call
<1>17. ASSUME NEW w \in Call, TxnFails(w)
      PROVE  StoreTypeOK'
  BY <1>0, <1>17 DEF TxnFails, Finish, TypeOK
<1>18. ASSUME Crash
      PROVE  StoreTypeOK'
  <2>1. total_bytes' \in Nat /\ index' \in [Mailbox -> Tally]
    <3>1. \A m \in Mailbox : TallyOf(RowsOf(m)) \in Tally
      BY <1>0, PartType DEF RowsOf
    <3>2. Bytes(envelopes) \in Nat
      BY <1>0, BytesNat
    <3> QED
      BY <1>18, <3>1, <3>2 DEF Crash
  <2>2. next_seq' \in 1 .. (MaxSeq + 1) /\ crashes' \in 0 .. MaxCrashes
    BY <1>0, <1>18, ScanSound, BoundAssumption DEF Crash, TypeOK
  <2> QED
    BY <1>0, <1>18, <2>1, <2>2 DEF Crash, TypeOK
<1>19. ASSUME Tick
      PROVE  StoreTypeOK'
  <2>1. now' \in 0 .. MaxNow
    BY <1>0, <1>19, BoundAssumption DEF Tick, TypeOK
  <2> QED
    BY <1>0, <1>19, <2>1 DEF Tick, TypeOK
<1>20. ASSUME UNCHANGED vars
      PROVE  StoreTypeOK'
  BY <1>0, <1>20 DEF vars, TypeOK
<1>21. ASSUME NEW w \in Worker, EnqueueSub(w) \/ AckSub(w) \/ PurgeSub(w)
       PROVE  StoreTypeOK'
  BY <1>7, <1>21 DEF EnqueueSub, AckSub, PurgeSub, Call
<1>22. ASSUME SweepSub
       PROVE  StoreTypeOK'
  BY <1>7, <1>22 DEF SweepSub, Call
<1> QED
  BY <1>1, <1>2, <1>3, <1>4, <1>5, <1>6, <1>8, <1>9, <1>10, <1>11, <1>12, <1>13, <1>14, <1>15, <1>16, <1>17, <1>18, <1>19, <1>20, <1>21, <1>22
     DEF Next, Enqueue, Ack, Purge, Sweep

-----------------------------------------------------------------------------
(* What calls leave behind, and the uniqueness of uuids, step by step.     *)
LEMMA IdsStep ==
  ASSUME StoreTypeOK, CallsClean, IdsUnique, [Next]_vars
  PROVE  CallsClean' /\ IdsUnique'
<1>0. /\ pc \in [Call -> PC] /\ env \in [Call -> Slot] /\ evict \in [Call -> SUBSET Id]
      /\ gone \in [Call -> [Mailbox -> Tally]] /\ Sweeper \in Call /\ Worker \subseteq Call
      /\ Sweeper \notin Worker
  BY SetsAssumption DEF StoreTypeOK, TypeOK, Call
<1> USE DEF Goto, accounts, local, Writing, CallsClean
(* Steps that store nothing, choose nothing and begin no enqueue.          *)
<1>1. ASSUME NEW w \in Call, NEW to \in PC,
             pc' = [pc EXCEPT ![w] = to],
             envelopes' \subseteq envelopes,
             to \in Writing => pc[w] \in Writing,
             \A v \in Call : to \in Writing \/ v # w => env'[v].id = env[v].id,
             \A v \in Call : evict'[v] = evict[v] \/ evict'[v] = {}
      PROVE  IdsUnique'
  BY <1>0, <1>1 DEF IdsUnique
<1>2. ASSUME NEW w \in Worker, NEW m \in Mailbox, NEW id \in Id, NEW len \in Lengths, Admit(w, m, id, len)
      PROVE  CallsClean' /\ IdsUnique'
  <2>1. /\ pc[w] = "idle" /\ pc' = [pc EXCEPT ![w] = "enq_start"] /\ w \in Call
        /\ env'[w].id = id /\ \A v \in Call \ {w} : env'[v] = env[v]
        /\ UNCHANGED <<envelopes, evict, gone>> /\ FreshId(id) /\ evict[w] = {}
    BY <1>0, <1>2 DEF Admit, Begin
  <2>2. CallsClean'
    BY <1>0, <2>1
  <2>3. IdsUnique'
    BY <1>0, <2>1 DEF IdsUnique, FreshId
  <2> QED
    BY <2>2, <2>3
<1>3. ASSUME NEW w \in Worker, EnqueueStart(w)
      PROVE  CallsClean' /\ IdsUnique'
  <2>1. /\ pc[w] = "enq_start" /\ pc' = [pc EXCEPT ![w] = "enq_check"]
        /\ \A v \in Call : env'[v].id = env[v].id
        /\ UNCHANGED <<envelopes, evict, gone>>
    BY <1>0, <1>3 DEF EnqueueStart
  <2>2. CallsClean'
    BY <1>0, <2>1
  <2>3. IdsUnique'
    BY <1>0, <1>1, <2>1 DEF PC
  <2> QED
    BY <2>2, <2>3
<1>4. ASSUME NEW w \in Worker, EnqueueCheck(w)
      PROVE  CallsClean' /\ IdsUnique'
  <2>1. /\ pc[w] = "enq_check" /\ pc' = [pc EXCEPT ![w] = pc'[w]] /\ pc'[w] \in {"enq_read", "enq_write"}
        /\ UNCHANGED <<envelopes, evict, gone, env>>
    BY <1>0, <1>4 DEF EnqueueCheck
  <2>2. CallsClean'
    BY <1>0, <2>1
  <2>3. IdsUnique'
    BY <1>0, <1>1, <2>1 DEF PC
  <2> QED
    BY <2>2, <2>3
<1>5. ASSUME NEW w \in Worker, EnqueueRead(w)
      PROVE  CallsClean' /\ IdsUnique'
  <2> DEFINE victims == EvictionChoice(RowsOf(env[w].mbx), env[w].len)
             ids == {r.id : r \in victims}
  <2>1. victims \subseteq envelopes
    BY DEF EvictionChoice, RowsOf
  <2>2. \A x \in ids : \E r \in envelopes : r.id = x
    BY <2>1
  <2>3. /\ pc[w] = "enq_read" /\ pc' = [pc EXCEPT ![w] = "enq_write"]
        /\ evict' = [evict EXCEPT ![w] = ids]
        /\ \A v \in Call \ {w} : gone'[v] = gone[v]
        /\ UNCHANGED <<envelopes, env>>
    BY <1>0, <1>5 DEF EnqueueRead
  <2> HIDE DEF ids
  <2>4. CallsClean'
    BY <1>0, <2>3
  <2>5. IdsUnique'
    BY <1>0, <2>2, <2>3 DEF IdsUnique
  <2> QED
    BY <2>4, <2>5
<1>6. ASSUME NEW w \in Worker, EnqueueWrite(w)
      PROVE  CallsClean' /\ IdsUnique'
  <2>1. /\ pc[w] = "enq_write" /\ pc' = [pc EXCEPT ![w] = "enq_add"]
        /\ envelopes' \subseteq envelopes \cup {env[w]}
        /\ evict' = [evict EXCEPT ![w] = {}]
        /\ \A v \in Call \ {w} : env'[v] = env[v]
        /\ UNCHANGED gone
    BY <1>0, <1>6 DEF EnqueueWrite
  <2>2. CallsClean'
    BY <1>0, <2>1
  <2>3. IdsUnique'
    BY <1>0, <2>1 DEF IdsUnique
  <2> QED
    BY <2>2, <2>3
<1>7. ASSUME NEW w \in Worker, EnqueueAdd(w)
      PROVE  CallsClean' /\ IdsUnique'
  <2>1. CallsClean'
    BY <1>0, <1>7 DEF EnqueueAdd
  <2>2. IdsUnique'
    BY <1>0, <1>1, <1>7 DEF EnqueueAdd, PC
  <2> QED
    BY <2>1, <2>2
<1>8. ASSUME NEW w \in Worker, EnqueueSub(w) \/ AckSub(w) \/ PurgeSub(w)
      PROVE  CallsClean' /\ IdsUnique'
  <2>1. CallsClean'
    BY <1>0, <1>8 DEF EnqueueSub, AckSub, PurgeSub, FreeTotal
  <2>2. IdsUnique'
    BY <1>0, <1>1, <1>8 DEF EnqueueSub, AckSub, PurgeSub, FreeTotal, PC
  <2> QED
    BY <2>1, <2>2
<1>9. ASSUME NEW w \in Call, NEW from \in PC, Finish(w, from), envelopes' = envelopes
      PROVE  CallsClean' /\ IdsUnique'
  <2>1. CallsClean'
    BY <1>0, <1>9 DEF Finish
  <2>2. IdsUnique'
    BY <1>0, <1>1, <1>9 DEF Finish, PC
  <2> QED
    BY <2>1, <2>2
<1>10. ASSUME NEW w \in Worker, EnqueueIndex(w) \/ AckIndex(w) \/ PurgeIndex(w)
      PROVE  CallsClean' /\ IdsUnique'
  BY <1>0, <1>9, <1>10 DEF EnqueueIndex, AckIndex, PurgeIndex, PC
<1>11. ASSUME NEW w \in Worker, NEW m \in Mailbox, NEW ids \in SUBSET Id, AckWrite(w, m, ids)
      PROVE  CallsClean' /\ IdsUnique'
  <2>1. CallsClean'
    BY <1>0, <1>11 DEF AckWrite, Begin
  <2>2. IdsUnique'
    BY <1>0, <1>1, <1>11 DEF AckWrite, Begin, PC
  <2> QED
    BY <2>1, <2>2
<1>12. ASSUME NEW w \in Worker, NEW m \in Mailbox, PurgeWrite(w, m)
      PROVE  CallsClean' /\ IdsUnique'
  <2>1. CallsClean'
    BY <1>0, <1>12 DEF PurgeWrite, Begin
  <2>2. IdsUnique'
    BY <1>0, <1>1, <1>12 DEF PurgeWrite, Begin, PC
  <2> QED
    BY <2>1, <2>2
<1>13. CASE SweepStart
  <2>1. CallsClean'
    BY <1>0, <1>13 DEF SweepStart, Begin
  <2>2. IdsUnique'
    BY <1>0, <1>1, <1>13 DEF SweepStart, Begin, PC
  <2> QED
    BY <2>1, <2>2
<1>14. CASE SweepWrite
  <2>1. CallsClean'
    BY <1>0, <1>14 DEF SweepWrite
  <2>2. IdsUnique'
    BY <1>0, <1>1, <1>14 DEF SweepWrite, PC
  <2> QED
    BY <2>1, <2>2
<1>15. CASE SweepSub
  <2>1. CallsClean'
    BY <1>0, <1>15 DEF SweepSub, FreeTotal
  <2>2. IdsUnique'
    BY <1>0, <1>1, <1>15 DEF SweepSub, FreeTotal, PC
  <2> QED
    BY <2>1, <2>2
<1>16. ASSUME NEW m \in Mailbox, SweepIndex(m)
       PROVE  CallsClean' /\ IdsUnique'
  <2>1. CallsClean'
    BY <1>0, <1>16 DEF SweepIndex
  <2>2. IdsUnique'
    BY <1>0, <1>16 DEF SweepIndex, IdsUnique
  <2> QED
    BY <2>1, <2>2
<1>17. CASE SweepDone
  BY <1>0, <1>9, <1>17 DEF SweepDone, PC
<1>18. ASSUME NEW w \in Call, TxnFails(w)
       PROVE  CallsClean' /\ IdsUnique'
  BY <1>0, <1>9, <1>18 DEF TxnFails, PC
<1>19. CASE Crash
  BY <1>0, <1>19 DEF Crash, IdsUnique
<1>20. CASE Tick \/ UNCHANGED vars
  BY <1>20 DEF Tick, vars, IdsUnique
<1> QED
  BY <1>2, <1>3, <1>4, <1>5, <1>6, <1>7, <1>8, <1>10, <1>11, <1>12, <1>13, <1>14, <1>15, <1>16, <1>17, <1>18, <1>19, <1>20
     DEF Next, Enqueue, Ack, Purge, Sweep

-----------------------------------------------------------------------------
(* An enqueue about to commit stays so with its locals untouched, and no   *)
(* row that appears meanwhile is among those it has chosen.                *)
WriterKept(v) ==
  /\ pc[v] = "enq_write" /\ env'[v] = env[v] /\ evict'[v] = evict[v] /\ gone'[v] = gone[v]
  /\ \A r \in envelopes' : r \in envelopes \/ r.id \notin evict[v]

(* A worker about to write has just decided to, or was about to before.    *)
LEMMA WriterSteps ==
  ASSUME StoreTypeOK, CallsClean, IdsUnique, [Next]_vars,
         NEW v \in Worker, pc'[v] = "enq_write"
  PROVE  WriterKept(v) \/ EnqueueCheck(v) \/ EnqueueRead(v)
<1>0. /\ pc \in [Call -> PC] /\ env \in [Call -> Slot] /\ evict \in [Call -> SUBSET Id]
      /\ gone \in [Call -> [Mailbox -> Tally]] /\ Sweeper \in Call /\ Worker \subseteq Call
      /\ Sweeper \notin Worker /\ v \in Call
  BY SetsAssumption DEF StoreTypeOK, TypeOK, Call
<1> USE DEF Goto, accounts, local, WriterKept
<1>1. ASSUME NEW w \in Worker, NEW m \in Mailbox, NEW id \in Id, NEW len \in Lengths, Admit(w, m, id, len)
      PROVE  WriterKept(v)
  BY <1>0, <1>1 DEF Admit, Begin
<1>2. ASSUME NEW w \in Worker, EnqueueStart(w)
      PROVE  WriterKept(v)
  BY <1>0, <1>2 DEF EnqueueStart
<1>3. ASSUME NEW w \in Worker, EnqueueCheck(w) \/ EnqueueRead(w), w # v
      PROVE  WriterKept(v)
  BY <1>0, <1>3 DEF EnqueueCheck, EnqueueRead
<1>4. ASSUME NEW w \in Worker, EnqueueWrite(w)
      PROVE  WriterKept(v)
  <2>1. w # v /\ pc[v] = "enq_write" /\ pc[w] = "enq_write"
    BY <1>0, <1>4 DEF EnqueueWrite
  <2>2. env[w].id \notin evict[v]
    BY <2>1 DEF IdsUnique, Writing
  <2>3. env'[v] = env[v] /\ evict'[v] = evict[v] /\ gone'[v] = gone[v]
    BY <1>0, <1>4, <2>1 DEF EnqueueWrite
  <2>4. \A r \in envelopes' : r \in envelopes \/ r = env[w]
    BY <1>4 DEF EnqueueWrite
  <2> QED
    BY <2>1, <2>2, <2>3, <2>4
<1>5. ASSUME NEW w \in Worker, EnqueueAdd(w) \/ EnqueueSub(w) \/ AckSub(w) \/ PurgeSub(w)
      PROVE  WriterKept(v)
  BY <1>0, <1>5 DEF EnqueueAdd, EnqueueSub, AckSub, PurgeSub, FreeTotal
<1>6. ASSUME NEW w \in Call, NEW from \in PC, Finish(w, from), envelopes' = envelopes
      PROVE  WriterKept(v)
  BY <1>0, <1>6 DEF Finish
<1>7. ASSUME NEW w \in Worker, EnqueueIndex(w) \/ AckIndex(w) \/ PurgeIndex(w)
      PROVE  WriterKept(v)
  BY <1>0, <1>6, <1>7 DEF EnqueueIndex, AckIndex, PurgeIndex, PC
<1>8. ASSUME NEW w \in Worker, NEW m \in Mailbox, NEW ids \in SUBSET Id, AckWrite(w, m, ids)
      PROVE  WriterKept(v)
  BY <1>0, <1>8 DEF AckWrite, Begin
<1>9. ASSUME NEW w \in Worker, NEW m \in Mailbox, PurgeWrite(w, m)
      PROVE  WriterKept(v)
  BY <1>0, <1>9 DEF PurgeWrite, Begin
<1>10. ASSUME SweepStart \/ SweepWrite \/ SweepSub
       PROVE  WriterKept(v)
  BY <1>0, <1>10 DEF SweepStart, SweepWrite, SweepSub, FreeTotal, Begin
<1>11. ASSUME NEW m \in Mailbox, SweepIndex(m)
       PROVE  WriterKept(v)
  BY <1>0, <1>11 DEF SweepIndex
<1>12. ASSUME SweepDone
       PROVE  WriterKept(v)
  BY <1>0, <1>6, <1>12 DEF SweepDone, PC
<1>13. ASSUME NEW w \in Call, TxnFails(w)
       PROVE  WriterKept(v)
  BY <1>0, <1>6, <1>13 DEF TxnFails, PC
<1>14. ~Crash
  BY <1>0 DEF Crash
<1>15. ASSUME Tick \/ UNCHANGED vars
       PROVE  WriterKept(v)
  BY <1>15 DEF Tick, vars
<1> QED
  BY <1>1, <1>2, <1>3, <1>4, <1>5, <1>7, <1>8, <1>9, <1>10, <1>11, <1>12, <1>13, <1>14, <1>15
     DEF Next, Enqueue, Ack, Purge, Sweep

(* The read of the slow path chooses exactly the rows it tallies.          *)
LEMMA ReadChooses ==
  ASSUME StoreTypeOK, IdsUnique, NEW w \in Worker, EnqueueRead(w)
  PROVE  LET m == env[w].mbx
             victims == EvictionChoice(RowsOf(m), env[w].len)
         IN /\ m \in Mailbox /\ victims \subseteq RowsOf(m) /\ victims \subseteq envelopes
            /\ Taken(w)' = victims
            /\ gone'[w] = [NoneGone EXCEPT ![m] = TallyOf(victims)]
            /\ gone'[w][m] = TallyOf(victims)
            /\ env' = env /\ envelopes' = envelopes
<1> DEFINE m == env[w].mbx
           victims == EvictionChoice(RowsOf(m), env[w].len)
           ids == {r.id : r \in victims}
<1>0. /\ w \in Call /\ pc[w] = "enq_read" /\ evict \in [Call -> SUBSET Id]
      /\ gone \in [Call -> [Mailbox -> Tally]] /\ env[w] \in Row /\ m \in Mailbox
  BY DEF StoreTypeOK, TypeOK, EnqueueRead, Goto, Call, Writing, Row
<1>1. victims \subseteq RowsOf(m) /\ RowsOf(m) \subseteq envelopes
  BY DEF EvictionChoice, RowsOf
<1>2. /\ evict'[w] = ids /\ gone'[w] = [NoneGone EXCEPT ![m] = TallyOf(victims)]
      /\ env' = env /\ envelopes' = envelopes
  BY <1>0 DEF EnqueueRead
<1>3. gone'[w][m] = TallyOf(victims)
  BY <1>0, <1>2 DEF NoneGone
<1>4. Taken(w)' = {r \in envelopes : r.mbx = m /\ r.id \in ids}
  BY <1>2 DEF Taken
<1>5. \A r \in victims : r.mbx = m
  BY <1>1 DEF RowsOf
<1> HIDE DEF victims
<1>6. {r \in envelopes : r.mbx = m /\ r.id \in ids} = victims
  BY <1>1, <1>5 DEF IdsUnique
<1> QED
  BY <1>0, <1>1, <1>2, <1>3, <1>4, <1>6 DEF victims

(* Each step keeps what an enqueue would evict within what it has chosen.  *)
LEMMA EvictionStep ==
  ASSUME StoreTypeOK, StoreTypeOK', CallsClean, CallsClean', IdsUnique, EvictionCovered, [Next]_vars
  PROVE  EvictionCovered'
<1> SUFFICES ASSUME NEW v \in Worker, pc'[v] = "enq_write"
             PROVE  Bytes(Taken(v))' <= gone'[v][env'[v].mbx].bytes
  BY DEF EvictionCovered
<1>0. v \in Call /\ env'[v] \in Row /\ env'[v].mbx \in Mailbox
  BY DEF StoreTypeOK, TypeOK, Call, Writing, Row
<1>1. gone'[v][env'[v].mbx].bytes \in Nat
  BY <1>0 DEF StoreTypeOK, TypeOK, Tally
<1>2. Bytes(Taken(v))' = Bytes(Taken(v)')
  BY DEF Bytes
<1>3. CASE WriterKept(v)
  <2>1. Taken(v)' \subseteq Taken(v)
    BY <1>3 DEF Taken, WriterKept
  <2>2. Taken(v) \subseteq Row /\ IsFiniteSet(Taken(v))
    <3>1. Taken(v) \subseteq envelopes
      BY DEF Taken
    <3> QED
      BY <3>1, PartType
  <2>3. /\ Bytes(Taken(v)) = Bytes(Taken(v)') + Bytes(Taken(v) \ Taken(v)')
        /\ Bytes(Taken(v)') \in Nat /\ Bytes(Taken(v) \ Taken(v)') \in Nat
    BY <2>1, <2>2, BytesSplit
  <2>4. Bytes(Taken(v)) <= gone[v][env[v].mbx].bytes /\ gone'[v][env'[v].mbx] = gone[v][env[v].mbx]
    BY <1>3 DEF WriterKept, EvictionCovered
  <2> QED
    BY <1>1, <1>2, <2>3, <2>4
<1>4. CASE EnqueueCheck(v)
  <2>1. evict'[v] = {}
    BY <1>0, <1>4 DEF EnqueueCheck, Goto, CallsClean, local
  <2>2. Taken(v)' = {}
    BY <2>1 DEF Taken
  <2> QED
    BY <1>1, <1>2, <2>2, BytesEmpty
<1>5. CASE EnqueueRead(v)
  <2> DEFINE victims == EvictionChoice(RowsOf(env[v].mbx), env[v].len)
  <2>1. Taken(v)' = victims /\ gone'[v][env'[v].mbx] = TallyOf(victims)
    BY <1>5, ReadChooses
  <2>2. gone'[v][env'[v].mbx].bytes = Bytes(Taken(v)')
    BY <2>1 DEF TallyOf
  <2> QED
    BY <1>1, <1>2, <2>2
<1> QED
  BY <1>3, <1>4, <1>5, WriterSteps

-----------------------------------------------------------------------------
(* The byte total.  What each call has yet to add to it and to take off.   *)
Counted == {"enq_add", "enq_sub", "ack_sub", "purge_sub", "sweep_sub"}
AddsOf == [w \in Worker |-> IF pc[w] = "enq_add" THEN env[w].len ELSE 0]
FreesOf == [w \in Call |-> IF pc[w] \in Counted THEN FreedBytes(w) ELSE 0]

(* The shares of the calls in the global counter are numbers.              *)
LEMMA ShareType ==
  ASSUME StoreTypeOK
  PROVE  /\ AddsOf \in [Worker -> Nat] /\ FreesOf \in [Call -> Nat]
         /\ UncountedBytes = SumFunction(AddsOf) /\ StillCountedBytes = SumFunction(FreesOf)
         /\ IsFiniteSet(Call) /\ IsFiniteSet(Worker)
<1>1. \A w \in Worker : env[w].len \in Nat
  BY LengthNat DEF Call
<1>2. AddsOf \in [Worker -> Nat]
  BY <1>1 DEF AddsOf
<1>3. FreesOf \in [Call -> Nat]
  BY FreedNat DEF FreesOf
<1>4. IsFiniteSet(Call) /\ IsFiniteSet(Worker)
  BY SetsAssumption, FS_AddElement DEF Call
<1> QED
  BY <1>2, <1>3, <1>4 DEF UncountedBytes, StillCountedBytes, AddsOf, FreesOf, Counted

(* The same of the next state.                                             *)
ShareTypeOK ==
  /\ AddsOf \in [Worker -> Nat] /\ FreesOf \in [Call -> Nat]
  /\ UncountedBytes = SumFunction(AddsOf) /\ StillCountedBytes = SumFunction(FreesOf)

(* The same in the next state.                                             *)
LEMMA ShareTypeNext ==
  StoreTypeOK' => /\ AddsOf' \in [Worker -> Nat] /\ FreesOf' \in [Call -> Nat]
                  /\ UncountedBytes' = SumFunction(AddsOf')
                  /\ StillCountedBytes' = SumFunction(FreesOf')
<1>1. StoreTypeOK => ShareTypeOK
  BY ShareType DEF ShareTypeOK
<1>2. StoreTypeOK' => ShareTypeOK'
  BY <1>1, PTL
<1> QED
  BY <1>2 DEF ShareTypeOK

(* A step of one call changes that call's share only.                      *)
LEMMA OneShare ==
  ASSUME StoreTypeOK, NEW w \in Call, NEW to \in PC,
         pc' = [pc EXCEPT ![w] = to],
         \A v \in Call \ {w} : env'[v] = env[v] /\ gone'[v] = gone[v]
  PROVE  /\ FreesOf' = [FreesOf EXCEPT ![w] = IF to \in Counted THEN FreedBytes(w)' ELSE 0]
         /\ AddsOf' = [AddsOf EXCEPT ![w] = IF to = "enq_add" THEN env'[w].len ELSE 0]
<1>0. pc \in [Call -> PC] /\ Worker \subseteq Call
  BY DEF StoreTypeOK, TypeOK, Call
<1>1. \A v \in Call \ {w} : FreedBytes(v)' = FreedBytes(v)
  BY DEF FreedBytes
<1>2. \A v \in Call \ {w} : pc'[v] = pc[v]
  BY <1>0
<1>3. pc'[w] = to
  BY <1>0
<1>4. \A v \in Call : FreesOf'[v] = IF v = w THEN (IF to \in Counted THEN FreedBytes(w)' ELSE 0)
                                    ELSE FreesOf[v]
  BY <1>1, <1>2, <1>3 DEF FreesOf
<1>5. \A v \in Worker : AddsOf'[v] = IF v = w THEN (IF to = "enq_add" THEN env'[w].len ELSE 0)
                                     ELSE AddsOf[v]
  BY <1>0, <1>2, <1>3 DEF AddsOf
<1>6. FreesOf' = [FreesOf EXCEPT ![w] = IF to \in Counted THEN FreedBytes(w)' ELSE 0]
  BY <1>4 DEF FreesOf
<1>7. AddsOf' = [AddsOf EXCEPT ![w] = IF to = "enq_add" THEN env'[w].len ELSE 0]
  BY <1>5 DEF AddsOf
<1> QED
  BY <1>6, <1>7

(* What a call that has taken rows of one mailbox owes the total.          *)
LEMMA FreedOne ==
  ASSUME NEW m \in Mailbox, NEW t \in Tally, NEW g, g = [NoneGone EXCEPT ![m] = t]
  PROVE  SumFunction([k \in Mailbox |-> g[k].bytes]) = t.bytes
<1> DEFINE z == [k \in Mailbox |-> 0]
           f == [k \in Mailbox |-> g[k].bytes]
<1>1. /\ z \in [Mailbox -> Int] /\ f \in [Mailbox -> Int]
      /\ \A k \in Mailbox \ {m} : f[k] = z[k]
      /\ f[m] = t.bytes /\ z[m] = 0 /\ t.bytes \in Nat
  BY DEF NoneGone, NoTally, Tally
<1>2. SumFunction(z) = 0
  BY SetsAssumption, TotalZero
<1> HIDE DEF z, f
<1>3. SumFunction(f) = SumFunction(z) - z[m] + f[m]
  BY <1>1, SetsAssumption, TotalChange
<1>4. SumFunction(f) = t.bytes
  BY <1>1, <1>2, <1>3
<1> QED
  BY <1>4 DEF f

(* How a step may move bytes between the table, the total and the calls.   *)
BytesKept ==
  UNCHANGED <<envelopes, total_bytes>> /\ AddsOf' = AddsOf /\ FreesOf' = FreesOf
BytesStored ==
  \E w \in Worker :
    /\ EnqueueWrite(w)
    /\ AddsOf[w] = 0 /\ AddsOf' = [AddsOf EXCEPT ![w] = env[w].len]
    /\ FreesOf[w] = 0 /\ FreesOf' = [FreesOf EXCEPT ![w] = FreedBytes(w)]
    /\ UNCHANGED total_bytes
    /\ env[w].len \in Nat /\ Bytes(Taken(w)) \in Nat
    /\ Bytes(envelopes') = Bytes(envelopes) - Bytes(Taken(w)) + env[w].len
BytesAdded ==
  \E w \in Worker :
    /\ total_bytes' = total_bytes + AddsOf[w]
    /\ AddsOf' = [AddsOf EXCEPT ![w] = 0] /\ FreesOf' = FreesOf
    /\ UNCHANGED envelopes
BytesFreed ==
  \E w \in Call :
    /\ pc[w] \in Counted \ {"enq_add"}
    /\ total_bytes' = Monus(total_bytes, FreesOf[w])
    /\ FreesOf' = [FreesOf EXCEPT ![w] = 0] /\ AddsOf' = AddsOf
    /\ UNCHANGED envelopes
BytesRemoved ==
  \E w \in Call, n \in Nat :
    /\ Bytes(envelopes) = Bytes(envelopes') + n
    /\ FreesOf[w] = 0 /\ FreesOf' = [FreesOf EXCEPT ![w] = n] /\ AddsOf' = AddsOf
    /\ UNCHANGED total_bytes
ByteEffect ==
  BytesKept \/ BytesStored \/ BytesAdded \/ BytesFreed \/ BytesRemoved \/ Crash

(* Every step has one of these effects.                                    *)
LEMMA ByteMoves ==
  ASSUME StoreTypeOK, StoreTypeOK', CallsClean, IdsUnique, [Next]_vars
  PROVE  ByteEffect
<1>0. /\ pc \in [Call -> PC] /\ env \in [Call -> Slot] /\ gone \in [Call -> [Mailbox -> Tally]]
      /\ Sweeper \in Call /\ Worker \subseteq Call /\ Sweeper \notin Worker
      /\ envelopes \subseteq Row /\ IsFiniteSet(envelopes)
      /\ AddsOf \in [Worker -> Nat] /\ FreesOf \in [Call -> Nat]
      /\ \A w \in Worker : env[w].len \in Nat
  BY SetsAssumption, ShareType, LengthNat DEF StoreTypeOK, TypeOK, Call
<1>1. /\ \A w \in Call : pc[w] \notin Counted => FreesOf[w] = 0
      /\ \A w \in Call : pc[w] \in Counted => FreesOf[w] = FreedBytes(w)
      /\ \A w \in Worker : pc[w] # "enq_add" => AddsOf[w] = 0
      /\ \A w \in Worker : pc[w] = "enq_add" => AddsOf[w] = env[w].len
  BY DEF FreesOf, AddsOf
(* A step outside the accounting of bytes.                                 *)
<1>2. ASSUME NEW w \in Call, NEW to \in PC \ Counted, pc[w] \notin Counted,
             pc' = [pc EXCEPT ![w] = to],
             \A v \in Call \ {w} : env'[v] = env[v] /\ gone'[v] = gone[v]
      PROVE  AddsOf' = AddsOf /\ FreesOf' = FreesOf
  <2>1. FreesOf' = [FreesOf EXCEPT ![w] = 0] /\ AddsOf' = [AddsOf EXCEPT ![w] = 0]
    BY <1>0, <1>2, OneShare DEF Counted
  <2>2. FreesOf[w] = 0 /\ (w \in Worker => AddsOf[w] = 0)
    BY <1>1, <1>2 DEF Counted
  <2> QED
    BY <1>0, <2>1, <2>2
(* A step that takes rows of the table off it.                             *)
<1>3. ASSUME NEW w \in Call, NEW to \in Counted \ {"enq_add"}, pc[w] \notin Counted,
             pc' = [pc EXCEPT ![w] = to],
             NEW rows \in SUBSET envelopes, envelopes' = envelopes \ rows,
             FreedBytes(w)' = Bytes(rows),
             \A v \in Call \ {w} : env'[v] = env[v] /\ gone'[v] = gone[v],
             UNCHANGED total_bytes
      PROVE  BytesRemoved
  <2>1. to \in PC
    BY DEF Counted, PC
  <2>2. FreesOf' = [FreesOf EXCEPT ![w] = Bytes(rows)] /\ AddsOf' = [AddsOf EXCEPT ![w] = 0]
    BY <1>0, <1>3, <2>1, OneShare DEF Counted
  <2>3. FreesOf[w] = 0 /\ (w \in Worker => AddsOf[w] = 0)
    BY <1>1, <1>3 DEF Counted
  <2>4. AddsOf' = AddsOf
    BY <1>0, <2>2, <2>3
  <2>5. /\ Bytes(rows) \in Nat /\ Bytes(envelopes \ rows) \in Nat
        /\ Bytes(envelopes) = Bytes(rows) + Bytes(envelopes \ rows)
    BY <1>0, <1>3, BytesSplit
  <2>6. Bytes(envelopes) = Bytes(envelopes') + Bytes(rows)
    BY <1>3, <2>5
  <2> QED
    BY <1>3, <2>2, <2>3, <2>4, <2>5, <2>6 DEF BytesRemoved
<1>4. ASSUME NEW w \in Call, NEW from \in Counted \ {"enq_add"}, NEW to \in PC \ Counted,
             FreeTotal(w, from, to)
      PROVE  BytesFreed
  <2>1. /\ pc[w] = from /\ pc' = [pc EXCEPT ![w] = to] /\ UNCHANGED <<env, gone, envelopes>>
        /\ total_bytes' = Monus(total_bytes, FreedBytes(w))
    BY <1>4 DEF FreeTotal, Goto, local
  <2>2. FreesOf' = [FreesOf EXCEPT ![w] = 0] /\ AddsOf' = [AddsOf EXCEPT ![w] = 0]
    BY <1>0, <1>4, <2>1, OneShare DEF Counted
  <2>3. FreesOf[w] = FreedBytes(w) /\ (w \in Worker => AddsOf[w] = 0)
    BY <1>1, <1>4, <2>1
  <2>4. AddsOf' = AddsOf
    BY <1>0, <2>2, <2>3
  <2> QED
    BY <1>4, <2>1, <2>2, <2>3, <2>4 DEF BytesFreed
<1>5. ASSUME NEW w \in Worker, NEW m \in Mailbox, NEW id \in Id, NEW len \in Lengths, Admit(w, m, id, len)
      PROVE  BytesKept
  BY <1>0, <1>2, <1>5 DEF Admit, Begin, Goto, accounts, BytesKept, PC, Counted
<1>6. ASSUME NEW w \in Worker, EnqueueStart(w)
      PROVE  BytesKept
  BY <1>0, <1>2, <1>6 DEF EnqueueStart, Goto, accounts, BytesKept, PC, Counted
<1>7. ASSUME NEW w \in Worker, EnqueueCheck(w)
      PROVE  BytesKept
  <2>1. \E to \in {"enq_read", "enq_write"} : pc' = [pc EXCEPT ![w] = to]
    BY <1>7 DEF EnqueueCheck, Goto
  <2> QED
    BY <1>0, <1>2, <1>7, <2>1 DEF EnqueueCheck, Goto, accounts, local, BytesKept, PC, Counted
<1>8. ASSUME NEW w \in Worker, EnqueueRead(w)
      PROVE  BytesKept
  BY <1>0, <1>2, <1>8 DEF EnqueueRead, Goto, accounts, BytesKept, PC, Counted
<1>9. ASSUME NEW w \in Worker, EnqueueWrite(w)
      PROVE  BytesStored
  <2> DEFINE kept == {r \in envelopes : ~(r.mbx = env[w].mbx /\ r.id \in evict[w])}
  <2>1. /\ pc[w] = "enq_write" /\ pc' = [pc EXCEPT ![w] = "enq_add"]
        /\ envelopes' = kept \cup {env[w]}
        /\ env' = [env EXCEPT ![w] = Stub(env[w].mbx, env[w].len)]
        /\ UNCHANGED <<total_bytes, gone>>
    BY <1>9 DEF EnqueueWrite, Goto, accounts
  <2>2. env[w] \in Row /\ env[w].len \in Nat /\ \A r \in envelopes : r.id # env[w].id
    BY <1>0, <2>1 DEF IdsUnique, Writing, StoreTypeOK, TypeOK
  <2>3. Taken(w) \subseteq envelopes /\ kept = envelopes \ Taken(w)
    BY DEF Taken
  <2>4. /\ Bytes(Taken(w)) \in Nat /\ Bytes(envelopes \ Taken(w)) \in Nat
        /\ IsFiniteSet(envelopes \ Taken(w))
        /\ Bytes(envelopes) = Bytes(Taken(w)) + Bytes(envelopes \ Taken(w))
    BY <1>0, <2>3, BytesSplit
  <2>5. Bytes(kept \cup {env[w]}) = Bytes(kept) + env[w].len
    <3>1. kept \subseteq Row /\ IsFiniteSet(kept) /\ env[w] \notin kept
      BY <1>0, <2>2, <2>3, <2>4
    <3> HIDE DEF kept
    <3> QED
      BY <2>2, <3>1, BytesAdd
  <2>6. env'[w].len = env[w].len /\ \A v \in Call \ {w} : env'[v] = env[v]
    BY <1>0, <2>1 DEF Stub
  <2>7. FreedBytes(w)' = FreedBytes(w)
    BY <2>1 DEF FreedBytes
  <2>8. /\ FreesOf' = [FreesOf EXCEPT ![w] = FreedBytes(w)]
        /\ AddsOf' = [AddsOf EXCEPT ![w] = env[w].len]
    BY <1>0, <2>1, <2>6, <2>7, OneShare DEF PC, Counted
  <2>9. FreesOf[w] = 0 /\ AddsOf[w] = 0
    BY <1>0, <1>1, <2>1 DEF Counted
  <2>10. Bytes(envelopes') = Bytes(envelopes) - Bytes(Taken(w)) + env[w].len
    <3>1. Bytes(envelopes') = Bytes(envelopes \ Taken(w)) + env[w].len
      BY <2>1, <2>3, <2>5
    <3> QED
      BY <2>2, <2>4, <3>1
  <2> QED
    BY <1>9, <2>1, <2>2, <2>4, <2>8, <2>9, <2>10 DEF BytesStored
<1>10. ASSUME NEW w \in Worker, EnqueueAdd(w)
       PROVE  BytesAdded
  <2>1. /\ pc[w] = "enq_add" /\ pc' = [pc EXCEPT ![w] = "enq_sub"]
        /\ total_bytes' = total_bytes + env[w].len /\ UNCHANGED <<envelopes, env, gone>>
    BY <1>10 DEF EnqueueAdd, Goto, local
  <2>2. FreedBytes(w)' = FreedBytes(w)
    BY <2>1 DEF FreedBytes
  <2>3. /\ FreesOf' = [FreesOf EXCEPT ![w] = FreedBytes(w)] /\ AddsOf' = [AddsOf EXCEPT ![w] = 0]
    BY <1>0, <2>1, <2>2, OneShare DEF PC, Counted
  <2>4. FreesOf[w] = FreedBytes(w) /\ AddsOf[w] = env[w].len
    BY <1>0, <1>1, <2>1 DEF Counted
  <2>5. FreesOf' = FreesOf
    BY <1>0, <2>3, <2>4
  <2> QED
    BY <2>1, <2>3, <2>4, <2>5 DEF BytesAdded
<1>11. ASSUME NEW w \in Worker, EnqueueSub(w) \/ AckSub(w) \/ PurgeSub(w)
       PROVE  BytesFreed
  BY <1>0, <1>4, <1>11 DEF EnqueueSub, AckSub, PurgeSub, PC, Counted
<1>12. ASSUME NEW w \in Call, NEW from \in PC \ Counted, Finish(w, from),
              UNCHANGED <<envelopes, total_bytes>>
       PROVE  BytesKept
  <2>1. pc[w] = from /\ pc' = [pc EXCEPT ![w] = "idle"]
        /\ \A v \in Call \ {w} : env'[v] = env[v] /\ gone'[v] = gone[v]
    BY <1>0, <1>12 DEF Finish, Goto
  <2>2. "idle" \in PC \ Counted
    BY DEF PC, Counted
  <2> QED
    BY <1>2, <1>12, <2>1, <2>2 DEF BytesKept
<1>13. ASSUME NEW w \in Worker, EnqueueIndex(w) \/ AckIndex(w) \/ PurgeIndex(w)
       PROVE  BytesKept
  BY <1>0, <1>12, <1>13 DEF EnqueueIndex, AckIndex, PurgeIndex, PC, Counted
<1>14. ASSUME NEW w \in Worker, NEW m \in Mailbox, NEW ids \in SUBSET Id, AckWrite(w, m, ids)
       PROVE  BytesRemoved
  <2> DEFINE rows == {r \in RowsOf(m) : r.id \in ids}
  <2>1. rows \subseteq envelopes
    BY DEF RowsOf
  <2>2. /\ pc[w] = "idle" /\ pc' = [pc EXCEPT ![w] = "ack_sub"] /\ envelopes' = envelopes \ rows
        /\ gone'[w] = [NoneGone EXCEPT ![m] = TallyOf(rows)]
        /\ \A v \in Call \ {w} : gone'[v] = gone[v]
        /\ UNCHANGED <<env, total_bytes>>
    BY <1>0, <1>14 DEF AckWrite, Begin, Goto, accounts
  <2> HIDE DEF rows
  <2>3. TallyOf(rows) \in Tally
    BY <2>1, PartType
  <2>4. FreedBytes(w)' = Bytes(rows)
    <3>1. SumFunction([k \in Mailbox |-> gone'[w][k].bytes]) = TallyOf(rows).bytes
      BY <2>2, <2>3, FreedOne
    <3> QED
      BY <3>1 DEF FreedBytes, TallyOf
  <2> QED
    BY <1>0, <1>3, <2>1, <2>2, <2>4 DEF Counted
<1>15. ASSUME NEW w \in Worker, NEW m \in Mailbox, PurgeWrite(w, m)
       PROVE  BytesRemoved
  <2> DEFINE rows == RowsOf(m)
  <2>1. rows \subseteq envelopes
    BY DEF RowsOf
  <2>2. /\ pc[w] = "idle" /\ pc' = [pc EXCEPT ![w] = "purge_sub"] /\ envelopes' = envelopes \ rows
        /\ gone'[w] = [NoneGone EXCEPT ![m] = TallyOf(rows)]
        /\ \A v \in Call \ {w} : gone'[v] = gone[v] /\ env'[v] = env[v]
        /\ UNCHANGED total_bytes
    BY <1>0, <1>15 DEF PurgeWrite, Begin, Goto, accounts
  <2> HIDE DEF rows
  <2>3. TallyOf(rows) \in Tally
    BY <2>1, PartType
  <2>4. FreedBytes(w)' = Bytes(rows)
    <3>1. SumFunction([k \in Mailbox |-> gone'[w][k].bytes]) = TallyOf(rows).bytes
      BY <2>2, <2>3, FreedOne
    <3> QED
      BY <3>1 DEF FreedBytes, TallyOf
  <2> QED
    BY <1>0, <1>3, <2>1, <2>2, <2>4 DEF Counted
<1>16. ASSUME SweepWrite
       PROVE  BytesRemoved
  <2> DEFINE old == {r \in envelopes : Expired(r, cutoff)}
  <2>1. old \subseteq envelopes /\ old \subseteq Row /\ IsFiniteSet(old)
    BY PartType
  <2>2. /\ pc[Sweeper] = "sweep_write" /\ pc' = [pc EXCEPT ![Sweeper] = "sweep_sub"]
        /\ envelopes' = envelopes \ old
        /\ gone'[Sweeper] = [m \in Mailbox |-> TallyOf({r \in old : r.mbx = m})]
        /\ \A v \in Call \ {Sweeper} : gone'[v] = gone[v]
        /\ UNCHANGED <<env, total_bytes>>
    BY <1>0, <1>16 DEF SweepWrite, Goto, accounts
  <2> HIDE DEF old
  <2>3. FreedBytes(Sweeper)' = Bytes(old)
    <3>1. [m \in Mailbox |-> gone'[Sweeper][m].bytes]
            = [m \in Mailbox |-> Bytes({r \in old : r.mbx = m})]
      BY <2>2 DEF TallyOf
    <3>2. FreedBytes(Sweeper)' = SumFunction([m \in Mailbox |-> gone'[Sweeper][m].bytes])
      BY DEF FreedBytes
    <3>3. Bytes(old) = SumFunction([m \in Mailbox |-> Bytes({r \in old : r.mbx = m})])
      BY <2>1, BytesByMailbox
    <3> QED
      BY <3>1, <3>2, <3>3
  <2> QED
    BY <1>0, <1>3, <2>1, <2>2, <2>3 DEF Counted
<1>17. ASSUME SweepStart
       PROVE  BytesKept
  BY <1>0, <1>2, <1>17 DEF SweepStart, Begin, Goto, accounts, BytesKept, PC, Counted
<1>18. ASSUME SweepSub
       PROVE  BytesFreed
  BY <1>0, <1>4, <1>18 DEF SweepSub, PC, Counted
<1>19. ASSUME NEW m \in Mailbox, SweepIndex(m)
       PROVE  BytesKept
  <2>1. /\ pc[Sweeper] = "sweep_index" /\ pc' = [pc EXCEPT ![Sweeper] = "sweep_index"]
        /\ \A v \in Call \ {Sweeper} : gone'[v] = gone[v]
        /\ UNCHANGED <<env, envelopes, total_bytes>>
    BY <1>0, <1>19 DEF SweepIndex
  <2>2. "sweep_index" \in PC \ Counted
    BY DEF PC, Counted
  <2> QED
    BY <1>0, <1>2, <2>1, <2>2 DEF BytesKept
<1>20. ASSUME SweepDone
       PROVE  BytesKept
  BY <1>0, <1>12, <1>20 DEF SweepDone, accounts, PC, Counted
<1>21. ASSUME NEW w \in Call, TxnFails(w)
       PROVE  BytesKept
  BY <1>0, <1>12, <1>21 DEF TxnFails, accounts, PC, Counted
<1>22. ASSUME Tick \/ UNCHANGED vars
       PROVE  BytesKept
  BY <1>22 DEF Tick, vars, accounts, local, BytesKept, AddsOf, FreesOf, FreedBytes
<1> QED
  BY <1>5, <1>6, <1>7, <1>8, <1>9, <1>10, <1>11, <1>13, <1>14, <1>15, <1>16, <1>17, <1>18, <1>19, <1>20, <1>21, <1>22
     DEF ByteEffect, Next, Enqueue, Ack, Purge, Sweep

(* The longest envelope bounds them all.                                   *)
LEMMA MaxLength == Max(Lengths) \in Nat /\ \A len \in Lengths : len <= Max(Lengths)
<1> DEFINE Gap == {PER_MAILBOX_QUEUE_BYTES - len : len \in Lengths}
<1>1. PICK g \in Gap : \A h \in Gap : g <= h
  <2>1. \A len \in Lengths : PER_MAILBOX_QUEUE_BYTES - len \in Nat
    <3> TAKE len \in Lengths
    <3>1. len \in Nat /\ PER_MAILBOX_QUEUE_BYTES \in Nat /\ len <= PER_MAILBOX_QUEUE_BYTES
      BY LenAssumption, CapAssumption
    <3> QED
      BY <3>1
  <2>2. Gap \subseteq Nat /\ Gap # {}
    BY <2>1, LenAssumption
  <2> HIDE DEF Gap
  <2> QED
    BY <2>2, LeastNumber
<1>2. PICK x \in Lengths : g = PER_MAILBOX_QUEUE_BYTES - x
  OBVIOUS
<1>3. \A y \in Lengths : x >= y
  <2> TAKE y \in Lengths
  <2>1. g <= PER_MAILBOX_QUEUE_BYTES - y
    BY <1>1
  <2> QED
    BY <1>2, <2>1, LenAssumption, CapAssumption
<1>4. Max(Lengths) \in Lengths /\ \A y \in Lengths : Max(Lengths) >= y
  BY <1>3 DEF Max
<1> QED
  BY <1>4, LenAssumption

PhantomLimit == Cardinality(Worker) * Max(Lengths)

(* The bytes written and not yet counted: at most one envelope for each    *)
(* worker.                                                                 *)
LEMMA UncountedLimit ==
  ASSUME StoreTypeOK
  PROVE  UncountedBytes \in Nat /\ UncountedBytes <= PhantomLimit /\ PhantomLimit \in Nat
<1>1. AddsOf \in [Worker -> Nat] /\ UncountedBytes = SumFunction(AddsOf) /\ IsFiniteSet(Worker)
  BY ShareType
<1>2. Max(Lengths) \in Nat
  BY MaxLength
<1>3. \A w \in Worker : AddsOf[w] <= Max(Lengths)
  <2> TAKE w \in Worker
  <2>1. env[w].len \in Lengths \cup {0}
    BY DEF StoreTypeOK, TypeOK, Slot, Call
  <2>2. AddsOf[w] \in Lengths \cup {0}
    BY <2>1 DEF AddsOf
  <2>3. CASE AddsOf[w] \in Lengths
    BY <2>3, MaxLength
  <2>4. CASE AddsOf[w] = 0
    BY <1>2, <2>4
  <2> QED
    BY <2>2, <2>3, <2>4
<1> HIDE DEF AddsOf
<1>4. SumFunction(AddsOf) <= Cardinality(Worker) * Max(Lengths)
  BY <1>1, <1>2, <1>3, TotalBound
<1>5. SumFunction(AddsOf) \in Nat
  BY <1>1, TotalNat
<1>6. Cardinality(Worker) \in Nat
  BY <1>1, FS_CardinalityType
<1>7. PhantomLimit \in Nat
  BY <1>2, <1>6 DEF PhantomLimit
<1> QED
  BY <1>1, <1>4, <1>5, <1>7 DEF PhantomLimit

(* The sums of the next state, by effect.                                  *)
LEMMA ShareChange ==
  ASSUME StoreTypeOK, StoreTypeOK'
  PROVE  /\ UncountedBytes \in Nat /\ StillCountedBytes \in Nat
         /\ UncountedBytes' \in Nat /\ StillCountedBytes' \in Nat
         /\ \A w \in Call : FreesOf[w] \in Nat /\ FreesOf[w] <= StillCountedBytes
         /\ \A w \in Worker : AddsOf[w] \in Nat /\ AddsOf[w] <= UncountedBytes
         /\ AddsOf' = AddsOf => UncountedBytes' = UncountedBytes
         /\ FreesOf' = FreesOf => StillCountedBytes' = StillCountedBytes
         /\ \A w \in Worker, n \in Nat : AddsOf' = [AddsOf EXCEPT ![w] = n] =>
              UncountedBytes' = UncountedBytes - AddsOf[w] + n
         /\ \A w \in Call, n \in Nat : FreesOf' = [FreesOf EXCEPT ![w] = n] =>
              StillCountedBytes' = StillCountedBytes - FreesOf[w] + n
<1>1. /\ AddsOf \in [Worker -> Nat] /\ FreesOf \in [Call -> Nat]
      /\ UncountedBytes = SumFunction(AddsOf) /\ StillCountedBytes = SumFunction(FreesOf)
      /\ IsFiniteSet(Call) /\ IsFiniteSet(Worker)
  BY ShareType
<1>2. /\ AddsOf' \in [Worker -> Nat] /\ FreesOf' \in [Call -> Nat]
      /\ UncountedBytes' = SumFunction(AddsOf') /\ StillCountedBytes' = SumFunction(FreesOf')
  BY ShareTypeNext
<1>3. /\ SumFunction(AddsOf) \in Nat /\ SumFunction(FreesOf) \in Nat
      /\ SumFunction(AddsOf') \in Nat /\ SumFunction(FreesOf') \in Nat
      /\ \A w \in Call : FreesOf[w] <= SumFunction(FreesOf)
      /\ \A w \in Worker : AddsOf[w] <= SumFunction(AddsOf)
  BY <1>1, <1>2, TotalNat
<1>4. ASSUME NEW w \in Worker, NEW n \in Nat, AddsOf' = [AddsOf EXCEPT ![w] = n]
      PROVE  SumFunction(AddsOf') = SumFunction(AddsOf) - AddsOf[w] + n
  <2>1. /\ AddsOf \in [Worker -> Int] /\ AddsOf' \in [Worker -> Int]
        /\ AddsOf'[w] = n /\ \A v \in Worker \ {w} : AddsOf'[v] = AddsOf[v]
    BY <1>1, <1>2, <1>4
  <2>2. SumFunction(AddsOf') = SumFunction(AddsOf) - AddsOf[w] + AddsOf'[w]
    BY <1>1, <2>1, TotalChange
  <2> QED
    BY <2>1, <2>2
<1>5. ASSUME NEW w \in Call, NEW n \in Nat, FreesOf' = [FreesOf EXCEPT ![w] = n]
      PROVE  SumFunction(FreesOf') = SumFunction(FreesOf) - FreesOf[w] + n
  <2>1. /\ FreesOf \in [Call -> Int] /\ FreesOf' \in [Call -> Int]
        /\ FreesOf'[w] = n /\ \A v \in Call \ {w} : FreesOf'[v] = FreesOf[v]
    BY <1>1, <1>2, <1>5
  <2>2. SumFunction(FreesOf') = SumFunction(FreesOf) - FreesOf[w] + FreesOf'[w]
    BY <1>1, <2>1, TotalChange
  <2> QED
    BY <2>1, <2>2
<1> QED
  BY <1>1, <1>2, <1>3, <1>4, <1>5

(* After a restart nothing is outstanding.                                 *)
LEMMA CrashShare ==
  ASSUME StoreTypeOK', Crash
  PROVE  UncountedBytes' = 0 /\ StillCountedBytes' = 0
<1>1. AddsOf' = [w \in Worker |-> 0] /\ FreesOf' = [w \in Call |-> 0]
  BY DEF Crash, AddsOf, FreesOf, Counted, Call
<1>2. IsFiniteSet(Worker) /\ IsFiniteSet(Call)
  BY SetsAssumption, FS_AddElement DEF Call
<1>3. UncountedBytes' = SumFunction(AddsOf') /\ StillCountedBytes' = SumFunction(FreesOf')
  BY ShareTypeNext
<1> QED
  BY <1>1, <1>2, <1>3, TotalZero

(* The overstatement stays bounded: a step that saturates leaves the total *)
(* at zero, so nothing but the uncounted envelopes is left of it.          *)
LEMMA PhantomStep ==
  ASSUME StoreTypeOK, StoreTypeOK', CallsClean, IdsUnique, EvictionCovered,
         PhantomBytesBounded, [Next]_vars
  PROVE  PhantomBytesBounded'
<1>1. /\ UncountedBytes \in Nat /\ UncountedBytes <= PhantomLimit /\ PhantomLimit \in Nat
      /\ total_bytes \in Nat /\ total_bytes' \in Nat
      /\ Bytes(envelopes) \in Nat /\ Bytes(envelopes') \in Nat
      /\ total_bytes + UncountedBytes <= Bytes(envelopes) + StillCountedBytes + PhantomLimit
  BY UncountedLimit, BytesNat DEF StoreTypeOK, TypeOK, PhantomBytesBounded, PhantomLimit
<1>2. StillCountedBytes \in Nat /\ UncountedBytes' \in Nat /\ StillCountedBytes' \in Nat
  BY ShareChange
<1> SUFFICES total_bytes' + UncountedBytes' <= Bytes(envelopes') + StillCountedBytes' + PhantomLimit
  BY DEF PhantomBytesBounded, PhantomLimit, Bytes
<1>3. CASE BytesKept
  <2>1. /\ UncountedBytes' = UncountedBytes /\ StillCountedBytes' = StillCountedBytes
        /\ total_bytes' = total_bytes /\ envelopes' = envelopes
    BY <1>3, ShareChange DEF BytesKept
  <2> QED
    BY <1>1, <2>1
<1>4. CASE BytesStored
  <2>1. PICK w \in Worker :
          /\ EnqueueWrite(w)
          /\ AddsOf[w] = 0 /\ AddsOf' = [AddsOf EXCEPT ![w] = env[w].len]
          /\ FreesOf[w] = 0 /\ FreesOf' = [FreesOf EXCEPT ![w] = FreedBytes(w)]
          /\ UNCHANGED total_bytes
          /\ env[w].len \in Nat /\ Bytes(Taken(w)) \in Nat
          /\ Bytes(envelopes') = Bytes(envelopes) - Bytes(Taken(w)) + env[w].len
    BY <1>4 DEF BytesStored
  <2>2. w \in Call /\ pc[w] = "enq_write" /\ env[w] \in Row /\ env[w].mbx \in Mailbox
    BY <2>1 DEF EnqueueWrite, Goto, Call, StoreTypeOK, TypeOK, Writing, Row
  <2>3. FreedBytes(w) \in Nat /\ Bytes(Taken(w)) <= FreedBytes(w)
    <3>1. /\ FreedBytes(w) \in Nat /\ gone[w][env[w].mbx].bytes \in Nat
          /\ gone[w][env[w].mbx].bytes <= FreedBytes(w)
      BY <2>2, FreedNat
    <3>2. Bytes(Taken(w)) <= gone[w][env[w].mbx].bytes
      BY <2>2 DEF EvictionCovered
    <3> QED
      BY <2>1, <3>1, <3>2
  <2>4. /\ UncountedBytes' = UncountedBytes - AddsOf[w] + env[w].len
        /\ StillCountedBytes' = StillCountedBytes - FreesOf[w] + FreedBytes(w)
    BY <2>1, <2>2, <2>3, ShareChange
  <2> QED
    BY <1>1, <1>2, <2>1, <2>3, <2>4
<1>5. CASE BytesAdded
  <2>1. PICK w \in Worker :
          /\ total_bytes' = total_bytes + AddsOf[w]
          /\ AddsOf' = [AddsOf EXCEPT ![w] = 0] /\ FreesOf' = FreesOf
          /\ UNCHANGED envelopes
    BY <1>5 DEF BytesAdded
  <2>2. /\ UncountedBytes' = UncountedBytes - AddsOf[w] + 0 /\ AddsOf[w] \in Nat
        /\ StillCountedBytes' = StillCountedBytes
    BY <2>1, ShareChange
  <2> QED
    BY <1>1, <1>2, <2>1, <2>2
<1>6. CASE BytesFreed
  <2>1. PICK w \in Call :
          /\ total_bytes' = Monus(total_bytes, FreesOf[w])
          /\ FreesOf' = [FreesOf EXCEPT ![w] = 0] /\ AddsOf' = AddsOf
          /\ UNCHANGED envelopes
    BY <1>6 DEF BytesFreed
  <2>2. /\ StillCountedBytes' = StillCountedBytes - FreesOf[w] + 0 /\ FreesOf[w] \in Nat
        /\ UncountedBytes' = UncountedBytes
    BY <2>1, ShareChange
  <2> QED
    BY <1>1, <1>2, <2>1, <2>2 DEF Monus
<1>7. CASE BytesRemoved
  <2>1. PICK w \in Call, n \in Nat :
          /\ Bytes(envelopes) = Bytes(envelopes') + n
          /\ FreesOf[w] = 0 /\ FreesOf' = [FreesOf EXCEPT ![w] = n] /\ AddsOf' = AddsOf
          /\ UNCHANGED total_bytes
    BY <1>7 DEF BytesRemoved
  <2>2. /\ StillCountedBytes' = StillCountedBytes - FreesOf[w] + n
        /\ UncountedBytes' = UncountedBytes
    BY <2>1, ShareChange
  <2> QED
    BY <1>1, <1>2, <2>1, <2>2
<1>8. CASE Crash
  <2>1. UncountedBytes' = 0 /\ StillCountedBytes' = 0
    BY <1>8, CrashShare
  <2>2. total_bytes' = Bytes(envelopes) /\ envelopes' = envelopes
    BY <1>8 DEF Crash
  <2> QED
    BY <1>1, <2>1, <2>2
<1> QED
  BY <1>3, <1>4, <1>5, <1>6, <1>7, <1>8, ByteMoves DEF ByteEffect

-----------------------------------------------------------------------------
(* Fewer rows are over a cap only if more rows are.                        *)
LEMMA OverCapMonotone ==
  ASSUME NEW rows, rows \subseteq Row, IsFiniteSet(rows), NEW part, part \subseteq rows,
         NEW len \in Nat, OverCap(TallyOf(part), len)
  PROVE  OverCap(TallyOf(rows), len)
<1>1. /\ Bytes(part) \in Nat /\ Cardinality(part) \in Nat
      /\ Bytes(rows \ part) \in Nat /\ Cardinality(rows \ part) \in Nat
      /\ Bytes(rows) = Bytes(part) + Bytes(rows \ part)
      /\ Cardinality(rows) = Cardinality(part) + Cardinality(rows \ part)
  BY BytesSplit
<1> QED
  BY <1>1, CapAssumption DEF OverCap, TallyOf

(* The slow path of enqueue evicts enough: without the rows it chooses,    *)
(* the mailbox takes the new envelope within both caps.                    *)
LEMMA EvictionFits ==
  ASSUME NEW rows, rows \subseteq Row, IsFiniteSet(rows), NEW len \in Lengths
  PROVE  ~OverCap(TallyOf(rows \ EvictionChoice(rows, len)), len)
<1> DEFINE rest == rows \ EvictionChoice(rows, len)
<1>0. len \in Nat /\ \A r \in rows : r.s \in Nat
  BY LenAssumption DEF Row
<1>1. CASE rest = {}
  <2>1. TallyOf(rest) = NoTally
    BY <1>1, BytesEmpty
  <2> QED
    BY <1>0, <2>1, CapAssumption DEF OverCap, NoTally
<1>2. CASE rest # {}
  <2> DEFINE Seqs == {r.s : r \in rest}
  <2>1. PICK n \in Seqs : \A k \in Seqs : n <= k
    <3>1. Seqs \subseteq Nat /\ Seqs # {}
      BY <1>0, <1>2
    <3> HIDE DEF Seqs
    <3> QED
      BY <3>1, LeastNumber
  <2>2. PICK r \in rest : r.s = n
    OBVIOUS
  <2>3. \A x \in rest : r.s <= x.s
    BY <2>1, <2>2
  <2> DEFINE suffix == rows \ Older(rows, r)
  <2>4. ~OverCap(TallyOf(suffix), len)
    BY <2>2 DEF EvictionChoice
  <2>5. rest \subseteq suffix /\ suffix \subseteq Row /\ IsFiniteSet(suffix)
    <3>1. suffix \subseteq rows
      OBVIOUS
    <3>2. rest \subseteq suffix
      BY <1>0, <2>3 DEF Older
    <3> QED
      BY <3>1, <3>2, FS_Subset
  <2> HIDE DEF rest, suffix
  <2>6. OverCap(TallyOf(rest), len) => OverCap(TallyOf(suffix), len)
    BY <1>0, <2>5, OverCapMonotone
  <2> QED
    BY <2>4, <2>6 DEF rest
<1> QED
  BY <1>1, <1>2

-----------------------------------------------------------------------------
(* Until two calls overlap, the one that takes a step is alone.            *)
Alone(w) == \A v \in Call \ {w} : pc[v] = "idle" /\ pc'[v] = "idle"
CallStep(w) ==
  \/ w \in Worker /\ (Enqueue(w) \/ Ack(w) \/ Purge(w))
  \/ w = Sweeper /\ Sweep
  \/ TxnFails(w)

(* While nothing has raced, a call that steps is alone.                    *)
LEMMA AloneStep ==
  ASSUME StoreTypeOK, CallsClean, Serial, NEW w \in Call, CallStep(w), ~raced'
  PROVE  ~raced /\ Alone(w) /\ crashes' = crashes /\ \E to \in PC : pc' = [pc EXCEPT ![w] = to]
<1>0. pc \in [Call -> PC] /\ Sweeper \in Call
  BY DEF StoreTypeOK, TypeOK, Call
<1>1. ASSUME NEW to \in PC, Begin(w, to)
      PROVE  ~raced /\ Alone(w) /\ pc' = [pc EXCEPT ![w] = to]
  BY <1>0, <1>1 DEF Begin, Goto, Alone
<1>2. ASSUME NEW from \in PC \ {"idle"}, NEW to \in PC, Goto(w, from, to), raced' = raced
      PROVE  ~raced /\ Alone(w) /\ pc' = [pc EXCEPT ![w] = to]
  BY <1>0, <1>2 DEF Goto, Alone, Serial
<1>3. CASE w \in Worker /\ Enqueue(w)
  <2>1. ASSUME NEW m \in Mailbox, NEW id \in Id, NEW len \in Lengths, Admit(w, m, id, len)
        PROVE  ~raced /\ Alone(w) /\ crashes' = crashes /\ \E to \in PC : pc' = [pc EXCEPT ![w] = to]
    BY <1>1, <2>1 DEF Admit, PC
  <2>2. CASE EnqueueCheck(w)
    <3>1. \E to \in {"enq_read", "enq_write"} : Goto(w, "enq_check", to)
      BY <2>2 DEF EnqueueCheck
    <3> QED
      BY <1>2, <2>2, <3>1 DEF EnqueueCheck, PC
  <2>3. CASE EnqueueStart(w) \/ EnqueueRead(w) \/ EnqueueWrite(w) \/ EnqueueAdd(w)
    BY <1>2, <2>3 DEF EnqueueStart, EnqueueRead, EnqueueWrite, EnqueueAdd, PC
  <2>4. CASE EnqueueSub(w) \/ EnqueueIndex(w)
    BY <1>2, <2>4 DEF EnqueueSub, FreeTotal, EnqueueIndex, Finish, PC
  <2> QED
    BY <1>3, <2>1, <2>2, <2>3, <2>4 DEF Enqueue
<1>4. CASE w \in Worker /\ Ack(w)
  <2>1. ASSUME NEW m \in Mailbox, NEW ids \in SUBSET Id, AckWrite(w, m, ids)
        PROVE  ~raced /\ Alone(w) /\ crashes' = crashes /\ \E to \in PC : pc' = [pc EXCEPT ![w] = to]
    BY <1>1, <2>1 DEF AckWrite, PC
  <2>2. CASE AckSub(w) \/ AckIndex(w)
    BY <1>2, <2>2 DEF AckSub, FreeTotal, AckIndex, Finish, PC
  <2> QED
    BY <1>4, <2>1, <2>2 DEF Ack
<1>5. CASE w \in Worker /\ Purge(w)
  <2>1. ASSUME NEW m \in Mailbox, PurgeWrite(w, m)
        PROVE  ~raced /\ Alone(w) /\ crashes' = crashes /\ \E to \in PC : pc' = [pc EXCEPT ![w] = to]
    BY <1>1, <2>1 DEF PurgeWrite, PC
  <2>2. CASE PurgeSub(w) \/ PurgeIndex(w)
    BY <1>2, <2>2 DEF PurgeSub, FreeTotal, PurgeIndex, Finish, PC
  <2> QED
    BY <1>5, <2>1, <2>2 DEF Purge
<1>6. CASE w = Sweeper /\ Sweep
  <2>1. CASE SweepStart
    BY <1>1, <1>6, <2>1 DEF SweepStart, PC
  <2>2. CASE SweepWrite \/ SweepSub \/ SweepDone
    BY <1>2, <1>6, <2>2 DEF SweepWrite, SweepSub, SweepDone, FreeTotal, Finish, PC
  <2>3. ASSUME NEW m \in Mailbox, SweepIndex(m)
        PROVE  ~raced /\ Alone(w) /\ crashes' = crashes /\ \E to \in PC : pc' = [pc EXCEPT ![w] = to]
    <3>1. Goto(w, "sweep_index", "sweep_index") /\ raced' = raced /\ crashes' = crashes
      BY <1>0, <1>6, <2>3 DEF SweepIndex, Goto
    <3> QED
      BY <1>2, <3>1 DEF PC
  <2> QED
    BY <1>6, <2>1, <2>2, <2>3 DEF Sweep
<1>7. CASE TxnFails(w)
  BY <1>2, <1>7 DEF TxnFails, Finish, PC
<1> QED
  BY <1>3, <1>4, <1>5, <1>6, <1>7 DEF CallStep

(* Every step is a step of one call, a restart or a tick.                  *)
LEMMA StepCases ==
  ASSUME [Next]_vars
  PROVE  (\E w \in Call : CallStep(w)) \/ Crash \/ Tick \/ UNCHANGED vars
BY DEF Next, CallStep, Call

(* Each step keeps that.                                                   *)
LEMMA SerialStep ==
  ASSUME StoreTypeOK, CallsClean, Serial, [Next]_vars
  PROVE  Serial'
<1>1. ASSUME NEW w \in Call, CallStep(w)
      PROVE  Serial'
  <2> SUFFICES ASSUME ~raced' PROVE \A u, v \in Call : pc'[u] # "idle" /\ pc'[v] # "idle" => u = v
    BY DEF Serial
  <2>1. Alone(w)
    BY <1>1, AloneStep
  <2> QED
    BY <2>1 DEF Alone
<1>2. CASE Crash
  BY <1>2 DEF Crash, Serial
<1>3. CASE Tick \/ UNCHANGED vars
  BY <1>3 DEF Tick, vars, Serial
<1> QED
  BY <1>1, <1>2, <1>3, StepCases

(* The total: a subtraction never saturates while calls do not overlap.    *)
LEMMA TotalStep ==
  ASSUME StoreTypeOK, StoreTypeOK', CallsClean, IdsUnique, Serial, SerialExact, [Next]_vars, ~raced'
  PROVE  TotalFollows'
<1>1. /\ total_bytes \in Nat /\ total_bytes' \in Nat
      /\ Bytes(envelopes) \in Nat /\ Bytes(envelopes') \in Nat
  BY BytesNat DEF StoreTypeOK, TypeOK
<1>2. /\ UncountedBytes \in Nat /\ StillCountedBytes \in Nat
      /\ UncountedBytes' \in Nat /\ StillCountedBytes' \in Nat
  BY ShareChange
<1> SUFFICES total_bytes' + UncountedBytes' = Bytes(envelopes') + StillCountedBytes'
  BY DEF TotalFollows, Bytes
<1>3. CASE Crash
  <2>1. UncountedBytes' = 0 /\ StillCountedBytes' = 0
    BY <1>3, CrashShare
  <2>2. total_bytes' = Bytes(envelopes) /\ envelopes' = envelopes
    BY <1>3 DEF Crash
  <2> QED
    BY <1>1, <2>1, <2>2
<1>4. SUFFICES ASSUME ~Crash PROVE total_bytes' + UncountedBytes' = Bytes(envelopes') + StillCountedBytes'
  BY <1>3
<1>5. ~raced
  <2>1. CASE \E w \in Call : CallStep(w)
    BY <2>1, AloneStep
  <2>2. CASE Tick \/ UNCHANGED vars
    BY <2>2 DEF Tick, vars
  <2> QED
    BY <1>4, <2>1, <2>2, StepCases
<1>6. /\ total_bytes + UncountedBytes = Bytes(envelopes) + StillCountedBytes
      /\ \A w \in Call : CallExact(w)
  BY <1>5 DEF SerialExact, TotalFollows
<1>7. CASE BytesKept
  <2>1. /\ UncountedBytes' = UncountedBytes /\ StillCountedBytes' = StillCountedBytes
        /\ total_bytes' = total_bytes /\ envelopes' = envelopes
    BY <1>7, ShareChange DEF BytesKept
  <2> QED
    BY <1>6, <2>1
<1>8. CASE BytesStored
  <2>1. PICK w \in Worker :
          /\ EnqueueWrite(w)
          /\ AddsOf[w] = 0 /\ AddsOf' = [AddsOf EXCEPT ![w] = env[w].len]
          /\ FreesOf[w] = 0 /\ FreesOf' = [FreesOf EXCEPT ![w] = FreedBytes(w)]
          /\ UNCHANGED total_bytes
          /\ env[w].len \in Nat /\ Bytes(Taken(w)) \in Nat
          /\ Bytes(envelopes') = Bytes(envelopes) - Bytes(Taken(w)) + env[w].len
    BY <1>8 DEF BytesStored
  <2>2. w \in Call /\ pc[w] = "enq_write" /\ env[w] \in Row /\ env[w].mbx \in Mailbox
    BY <2>1 DEF EnqueueWrite, Goto, Call, StoreTypeOK, TypeOK, Writing, Row
  <2>3. FreedBytes(w) = Bytes(Taken(w))
    <3>1. gone[w] = [NoneGone EXCEPT ![env[w].mbx] = TallyOf(Taken(w))]
      BY <1>6, <2>2 DEF CallExact, Writing
    <3>2. TallyOf(Taken(w)) \in Tally
      <4>1. Taken(w) \subseteq envelopes
        BY DEF Taken
      <4> QED
        BY <4>1, PartType
    <3>3. PICK m \in Mailbox, t \in Tally : m = env[w].mbx /\ t = TallyOf(Taken(w))
      BY <2>2, <3>2
    <3>4. gone[w] = [NoneGone EXCEPT ![m] = t]
      BY <3>1, <3>3
    <3>5. SumFunction([k \in Mailbox |-> gone[w][k].bytes]) = t.bytes
      BY <3>4, FreedOne
    <3> QED
      BY <3>3, <3>5 DEF FreedBytes, TallyOf
  <2>4. /\ UncountedBytes' = UncountedBytes - AddsOf[w] + env[w].len
        /\ StillCountedBytes' = StillCountedBytes - FreesOf[w] + FreedBytes(w)
    BY <2>1, <2>2, <2>3, ShareChange
  <2> QED
    BY <1>1, <1>2, <1>6, <2>1, <2>3, <2>4
<1>9. CASE BytesAdded
  <2>1. PICK w \in Worker :
          /\ total_bytes' = total_bytes + AddsOf[w]
          /\ AddsOf' = [AddsOf EXCEPT ![w] = 0] /\ FreesOf' = FreesOf
          /\ UNCHANGED envelopes
    BY <1>9 DEF BytesAdded
  <2>2. /\ UncountedBytes' = UncountedBytes - AddsOf[w] + 0 /\ AddsOf[w] \in Nat
        /\ StillCountedBytes' = StillCountedBytes
    BY <2>1, ShareChange
  <2> QED
    BY <1>1, <1>2, <1>6, <2>1, <2>2
<1>10. CASE BytesFreed
  <2>1. PICK w \in Call :
          /\ pc[w] \in Counted \ {"enq_add"}
          /\ total_bytes' = Monus(total_bytes, FreesOf[w])
          /\ FreesOf' = [FreesOf EXCEPT ![w] = 0] /\ AddsOf' = AddsOf
          /\ UNCHANGED envelopes
    BY <1>10 DEF BytesFreed
  <2>2. /\ StillCountedBytes' = StillCountedBytes - FreesOf[w] + 0
        /\ FreesOf[w] \in Nat /\ FreesOf[w] <= StillCountedBytes
        /\ UncountedBytes' = UncountedBytes
    BY <2>1, ShareChange
  <2>3. UncountedBytes = 0
    <3>1. \A v \in Worker : pc[v] # "enq_add"
      BY <1>5, <2>1 DEF Serial, Counted, Call
    <3>2. AddsOf = [v \in Worker |-> 0]
      BY <3>1 DEF AddsOf
    <3> QED
      BY <3>2, ShareType, TotalZero
  <2> QED
    BY <1>1, <1>2, <1>6, <2>1, <2>2, <2>3 DEF Monus
<1>11. CASE BytesRemoved
  <2>1. PICK w \in Call, n \in Nat :
          /\ Bytes(envelopes) = Bytes(envelopes') + n
          /\ FreesOf[w] = 0 /\ FreesOf' = [FreesOf EXCEPT ![w] = n] /\ AddsOf' = AddsOf
          /\ UNCHANGED total_bytes
    BY <1>11 DEF BytesRemoved
  <2>2. /\ StillCountedBytes' = StillCountedBytes - FreesOf[w] + n
        /\ UncountedBytes' = UncountedBytes
    BY <2>1, ShareChange
  <2> QED
    BY <1>1, <1>2, <1>6, <2>1, <2>2
<1> QED
  BY <1>4, <1>7, <1>8, <1>9, <1>10, <1>11, ByteMoves DEF ByteEffect

(* What one mailbox has.                                                   *)
LEMMA MailboxNat ==
  ASSUME StoreTypeOK, NEW m \in Mailbox
  PROVE  /\ RowsOf(m) \subseteq envelopes /\ RowsOf(m) \subseteq Row /\ IsFiniteSet(RowsOf(m))
         /\ Cardinality(RowsOf(m)) \in Nat /\ Bytes(RowsOf(m)) \in Nat
         /\ index[m] \in Tally /\ index[m].count \in Nat /\ index[m].bytes \in Nat
         /\ \A w \in Call : /\ gone[w][m] \in Tally
                            /\ gone[w][m].count \in Nat /\ gone[w][m].bytes \in Nat
<1>1. RowsOf(m) \subseteq envelopes
  BY DEF RowsOf
<1>2. RowsOf(m) \subseteq Row /\ IsFiniteSet(RowsOf(m))
  BY <1>1, PartType
<1>3. Cardinality(RowsOf(m)) \in Nat /\ Bytes(RowsOf(m)) \in Nat
  BY <1>2, BytesNat
<1> QED
  BY <1>1, <1>2, <1>3 DEF StoreTypeOK, TypeOK, Tally

(* The two parts of a tally.                                               *)
LEMMA TallyParts ==
  ASSUME NEW rows
  PROVE  TallyOf(rows).count = Cardinality(rows) /\ TallyOf(rows).bytes = Bytes(rows)
BY DEF TallyOf

(* A tally is determined by its parts.                                     *)
LEMMA TallyIs ==
  ASSUME NEW t \in Tally, NEW rows, t.count = Cardinality(rows), t.bytes = Bytes(rows)
  PROVE  t = TallyOf(rows)
BY DEF Tally, TallyOf

(* What is left of a mailbox when rows are taken out of the table.         *)
PartOf(rows, m) == {r \in rows : r.mbx = m}
NextRows(m) == {r \in envelopes' : r.mbx = m}
(* The rows of a mailbox that a deletion leaves, and those it takes.       *)
LEMMA RowsLeft ==
  ASSUME StoreTypeOK, NEW rows, rows \subseteq envelopes, envelopes' = envelopes \ rows,
         NEW m \in Mailbox, NEW part, part = PartOf(rows, m)
  PROVE  /\ NextRows(m) = RowsOf(m) \ part /\ part \subseteq RowsOf(m)
         /\ Cardinality(part) \in Nat /\ Bytes(part) \in Nat
         /\ Cardinality(NextRows(m)) \in Nat /\ Bytes(NextRows(m)) \in Nat
         /\ Cardinality(RowsOf(m)) = Cardinality(NextRows(m)) + Cardinality(part)
         /\ Bytes(RowsOf(m)) = Bytes(NextRows(m)) + Bytes(part)
<1>1. NextRows(m) = RowsOf(m) \ part /\ part \subseteq RowsOf(m)
  BY DEF RowsOf, NextRows, PartOf
<1>2. RowsOf(m) \subseteq Row /\ IsFiniteSet(RowsOf(m))
  BY MailboxNat
<1>3. /\ Bytes(part) \in Nat /\ Bytes(RowsOf(m) \ part) \in Nat
      /\ Cardinality(part) \in Nat /\ Cardinality(RowsOf(m) \ part) \in Nat
      /\ Bytes(RowsOf(m)) = Bytes(part) + Bytes(RowsOf(m) \ part)
      /\ Cardinality(RowsOf(m)) = Cardinality(part) + Cardinality(RowsOf(m) \ part)
  BY <1>1, <1>2, BytesSplit
<1>4. /\ Bytes(RowsOf(m)) = Bytes(RowsOf(m) \ part) + Bytes(part)
      /\ Cardinality(RowsOf(m)) = Cardinality(RowsOf(m) \ part) + Cardinality(part)
  BY <1>3
<1> QED
  BY <1>1, <1>3, <1>4

(* CallExact and Settled after a step, spelled out.                        *)
NextTaken(w) == {r \in envelopes' : r.mbx = env'[w].mbx /\ r.id \in evict'[w]}
NextNew(w, m, n) == IF pc'[w] \in Stored /\ env'[w].mbx = m THEN n ELSE 0
NextFollows(w) ==
  \A m \in Mailbox :
    /\ index'[m].count + NextNew(w, m, 1) = Cardinality(NextRows(m)) + gone'[w][m].count
    /\ index'[m].bytes + NextNew(w, m, env'[w].len) = Bytes(NextRows(m)) + gone'[w][m].bytes
NextSettled == \A m \in Mailbox : index'[m] = TallyOf(NextRows(m))
NextExact(w) ==
  /\ pc'[w] \in Pending => NextFollows(w)
  /\ pc'[w] \notin Pending => NextSettled
  /\ pc'[w] \in Writing =>
       gone'[w] = [NoneGone EXCEPT ![env'[w].mbx] = TallyOf(NextTaken(w))]
  /\ pc'[w] \in Stored \cup Purging =>
       \A m \in Mailbox \ {env'[w].mbx} : gone'[w][m] = NoTally
  /\ pc'[w] \in Stored =>
       /\ 1 <= Cardinality(NextRows(env'[w].mbx))
       /\ env'[w].len <= Bytes(NextRows(env'[w].mbx))
  /\ pc'[w] \in Purging => NextRows(env'[w].mbx) = {}

(* It is what CallExact and Settled say of the next state.                 *)
LEMMA ExactNext ==
  ASSUME NEW w \in Call, NextExact(w)
  PROVE  CallExact(w)' /\ (pc'[w] \notin Pending => Settled')
<1>1. \A m \in Mailbox : /\ RowsOf(m)' = NextRows(m)
                         /\ Cardinality(RowsOf(m))' = Cardinality(NextRows(m))
                         /\ Bytes(RowsOf(m))' = Bytes(NextRows(m))
                         /\ TallyOf(RowsOf(m))' = TallyOf(NextRows(m))
  BY DEF RowsOf, NextRows, Bytes, TallyOf
<1>2. /\ RowsOf(env[w].mbx)' = NextRows(env'[w].mbx)
      /\ Bytes(RowsOf(env[w].mbx))' = Bytes(NextRows(env'[w].mbx))
      /\ TallyOf(Taken(w))' = TallyOf(NextTaken(w))
  BY DEF RowsOf, NextRows, Bytes, TallyOf, Taken, NextTaken
<1>3. \A m \in Mailbox : /\ New(w, m, 1)' = NextNew(w, m, 1)
                         /\ New(w, m, env[w].len)' = NextNew(w, m, env'[w].len)
  BY DEF New, NextNew
<1>4. pc'[w] \in Pending => IndexFollows(w)'
  BY <1>1, <1>3 DEF NextExact, NextFollows, IndexFollows
<1>5. pc'[w] \notin Pending => Settled'
  BY <1>1 DEF NextExact, NextSettled, Settled
<1>6. pc'[w] \in Writing =>
        gone'[w] = [NoneGone EXCEPT ![env'[w].mbx] = TallyOf(Taken(w))']
  BY <1>2 DEF NextExact
<1> QED
  BY <1>2, <1>4, <1>5, <1>6 DEF NextExact, CallExact

(* Steps after which the accounts still follow: nothing they compare       *)
(* changes.                                                                *)
LEMMA QuietExact ==
  ASSUME StoreTypeOK, NEW w \in Call,
         CallExact(w), pc[w] \notin Pending => Settled,
         UNCHANGED <<envelopes, index, evict, gone>>,
         env'[w].mbx = env[w].mbx, env'[w].len = env[w].len,
         pc'[w] \in Pending <=> pc[w] \in Pending, pc'[w] \in Writing <=> pc[w] \in Writing,
         pc'[w] \in Stored <=> pc[w] \in Stored, pc'[w] \in Purging <=> pc[w] \in Purging
  PROVE  NextExact(w)
<1>1. \A m : NextRows(m) = RowsOf(m)
  BY DEF RowsOf, NextRows
<1>2. NextTaken(w) = Taken(w)
  BY DEF Taken, NextTaken
<1>3. \A m, n : NextNew(w, m, n) = New(w, m, n)
  BY DEF New, NextNew
<1>4. pc'[w] \in Pending => NextFollows(w)
  BY <1>1, <1>3 DEF NextFollows, IndexFollows, CallExact
<1>5. pc'[w] \notin Pending => NextSettled
  BY <1>1 DEF NextSettled, Settled
<1>6. pc'[w] \in Writing =>
        gone'[w] = [NoneGone EXCEPT ![env'[w].mbx] = TallyOf(NextTaken(w))]
  BY <1>2 DEF CallExact
<1> QED
  BY <1>1, <1>4, <1>5, <1>6 DEF CallExact, NextExact

(* Steps that take rows out of the table and note how many of each mailbox.*)
LEMMA RemoveExact ==
  ASSUME StoreTypeOK, Settled, NEW w \in Call, NEW rows, rows \subseteq envelopes,
         envelopes' = envelopes \ rows, index' = index, pc'[w] \notin Stored,
         \A m \in Mailbox : gone'[w][m] = TallyOf(PartOf(rows, m))
  PROVE  NextFollows(w)
<1> SUFFICES ASSUME NEW m \in Mailbox
             PROVE  /\ index[m].count = Cardinality(NextRows(m)) + gone'[w][m].count
                    /\ index[m].bytes = Bytes(NextRows(m)) + gone'[w][m].bytes
  <2>1. \A m \in Mailbox : index[m].count \in Nat /\ index[m].bytes \in Nat
    BY MailboxNat
  <2> QED
    BY <2>1 DEF NextFollows, NextNew
<1>1. PICK part : part = PartOf(rows, m)
  OBVIOUS
<1>2. /\ Cardinality(RowsOf(m)) = Cardinality(NextRows(m)) + Cardinality(part)
      /\ Bytes(RowsOf(m)) = Bytes(NextRows(m)) + Bytes(part)
  BY <1>1, RowsLeft
<1>3. gone'[w][m].count = Cardinality(part) /\ gone'[w][m].bytes = Bytes(part)
  <2>1. gone'[w][m] = TallyOf(part)
    BY <1>1
  <2> QED
    BY <2>1, TallyParts
<1>4. index[m].count = Cardinality(RowsOf(m)) /\ index[m].bytes = Bytes(RowsOf(m))
  <2>1. index[m] = TallyOf(RowsOf(m))
    BY DEF Settled
  <2> QED
    BY <2>1, TallyParts
<1> QED
  BY <1>2, <1>3, <1>4

(* Steps that begin or end a call without touching table or index.         *)
LEMMA PlainExact ==
  ASSUME StoreTypeOK, Settled, NEW w \in Call, UNCHANGED <<envelopes, index>>,
         pc'[w] \notin Pending \cup Writing
  PROVE  NextExact(w)
<1>1. \A m : NextRows(m) = RowsOf(m)
  BY DEF RowsOf, NextRows
<1>2. NextSettled
  BY <1>1 DEF NextSettled, Settled
<1> QED
  BY <1>2 DEF NextExact, Pending, Stored, Purging, Writing

(* The commit of an enqueue.                                               *)
LEMMA WriteExact ==
  ASSUME StoreTypeOK, IdsUnique, NEW w \in Worker, EnqueueWrite(w), CallExact(w), Settled
  PROVE  NextExact(w)
<1>0. /\ w \in Call /\ pc \in [Call -> PC] /\ env \in [Call -> Slot] /\ pc[w] = "enq_write"
      /\ env[w] \in Row /\ env[w].mbx \in Mailbox
      /\ \A r \in envelopes : r.id # env[w].id
  BY DEF StoreTypeOK, TypeOK, Call, EnqueueWrite, Goto, Writing, Row, IdsUnique
<1>a. PICK rows, part : rows = RowsOf(env[w].mbx) /\ part = Taken(w)
  OBVIOUS
<1>1. PICK c \in Mailbox, len \in Nat, e \in Row :
        /\ c = env[w].mbx /\ len = env[w].len /\ e = env[w]
        /\ rows = RowsOf(c) /\ part = Taken(w)
  BY <1>0, <1>a, LenAssumption DEF Row
<1>2. /\ pc'[w] = "enq_add" /\ env'[w].mbx = c /\ env'[w].len = len
      /\ index' = index /\ gone' = gone
  BY <1>0, <1>1 DEF EnqueueWrite, Goto, accounts, Stub
<1>3. /\ part \subseteq rows /\ e \notin rows \ part
      /\ NextRows(c) = (rows \ part) \cup {e}
  BY <1>0, <1>1 DEF EnqueueWrite, NextRows, RowsOf, Taken
<1>4. \A m \in Mailbox \ {c} : NextRows(m) = RowsOf(m)
  BY <1>0, <1>1 DEF EnqueueWrite, NextRows, RowsOf
<1>5. /\ rows \subseteq Row /\ IsFiniteSet(rows)
  BY <1>1, MailboxNat
<1>6. /\ IsFiniteSet(rows \ part) /\ rows \ part \subseteq Row
      /\ Bytes(part) \in Nat /\ Bytes(rows \ part) \in Nat
      /\ Cardinality(part) \in Nat /\ Cardinality(rows \ part) \in Nat
      /\ Bytes(rows) = Bytes(part) + Bytes(rows \ part)
      /\ Cardinality(rows) = Cardinality(part) + Cardinality(rows \ part)
  BY <1>3, <1>5, BytesSplit
<1>7. /\ Bytes(NextRows(c)) = Bytes(rows \ part) + len
      /\ Cardinality(NextRows(c)) = Cardinality(rows \ part) + 1
  <2>1. PICK rest : rest = rows \ part
    OBVIOUS
  <2>2. Bytes(rest \cup {e}) = Bytes(rest) + e.len /\ Cardinality(rest \cup {e}) = Cardinality(rest) + 1
    BY <1>3, <1>6, <2>1, BytesAdd
  <2> QED
    BY <1>1, <1>3, <2>1, <2>2
<1>8. gone[w] = [NoneGone EXCEPT ![c] = TallyOf(part)]
  BY <1>0, <1>1 DEF CallExact, Writing
<1>9. /\ gone[w][c] = TallyOf(part)
      /\ \A m \in Mailbox \ {c} : gone[w][m] = NoTally
  BY <1>8 DEF NoneGone
<1>10. gone[w][c].count = Cardinality(part) /\ gone[w][c].bytes = Bytes(part)
  BY <1>9, TallyParts
<1>11. \A m \in Mailbox : index[m].count = Cardinality(RowsOf(m)) /\ index[m].bytes = Bytes(RowsOf(m))
  BY TallyParts DEF Settled
<1>12. NextFollows(w)
  <2> SUFFICES ASSUME NEW m \in Mailbox
               PROVE  /\ index'[m].count + NextNew(w, m, 1) = Cardinality(NextRows(m)) + gone'[w][m].count
                      /\ index'[m].bytes + NextNew(w, m, env'[w].len) = Bytes(NextRows(m)) + gone'[w][m].bytes
    BY DEF NextFollows
  <2>1. CASE m = c
    <3>1. NextNew(w, m, 1) = 1 /\ NextNew(w, m, env'[w].len) = len
      BY <1>2, <2>1 DEF NextNew, Stored
    <3>2. index[m].count = Cardinality(rows) /\ index[m].bytes = Bytes(rows)
      BY <1>1, <1>11, <2>1
    <3> QED
      BY <1>2, <1>6, <1>7, <1>10, <2>1, <3>1, <3>2
  <2>2. CASE m # c
    <3>1. NextNew(w, m, 1) = 0 /\ NextNew(w, m, env'[w].len) = 0
      BY <1>2, <2>2 DEF NextNew
    <3>2. gone[w][m].count = 0 /\ gone[w][m].bytes = 0
      BY <1>9, <2>2 DEF NoTally
    <3>3. Cardinality(RowsOf(m)) \in Nat /\ Bytes(RowsOf(m)) \in Nat
      BY MailboxNat
    <3> QED
      BY <1>2, <1>4, <1>11, <2>2, <3>1, <3>2, <3>3
  <2> QED
    BY <2>1, <2>2
<1>13. 1 <= Cardinality(NextRows(c)) /\ len <= Bytes(NextRows(c))
  BY <1>6, <1>7
<1> QED
  BY <1>2, <1>9, <1>12, <1>13 DEF NextExact, Pending, Stored, Purging, Writing

(* The last step of an enqueue: the subtraction does not saturate.         *)
LEMMA IndexExact ==
  ASSUME StoreTypeOK, NEW w \in Worker, EnqueueIndex(w), CallExact(w)
  PROVE  NextSettled
<1>0. /\ w \in Call /\ pc \in [Call -> PC] /\ env \in [Call -> Slot] /\ pc[w] = "enq_index"
      /\ env[w].mbx \in Mailbox /\ index \in [Mailbox -> Tally] /\ env[w].len \in Nat
      /\ envelopes' = envelopes
  BY LengthNat DEF StoreTypeOK, TypeOK, Call, EnqueueIndex, Finish, Goto, Accounting
<1>1. PICK c \in Mailbox, len \in Nat : c = env[w].mbx /\ len = env[w].len
  BY <1>0
<1>2. index' = [index EXCEPT ![c] = [count |-> Less(index[c], gone[w][c]).count + 1,
                                     bytes |-> Less(index[c], gone[w][c]).bytes + len]]
  BY <1>1 DEF EnqueueIndex
<1>3. \A m : NextRows(m) = RowsOf(m)
  BY <1>0 DEF RowsOf, NextRows
<1>4. /\ \A m \in Mailbox : /\ index[m].count + New(w, m, 1) = Cardinality(RowsOf(m)) + gone[w][m].count
                            /\ index[m].bytes + New(w, m, len) = Bytes(RowsOf(m)) + gone[w][m].bytes
      /\ \A m \in Mailbox \ {c} : gone[w][m] = NoTally
      /\ 1 <= Cardinality(RowsOf(c)) /\ len <= Bytes(RowsOf(c))
  BY <1>0, <1>1 DEF CallExact, IndexFollows, Pending, Stored
<1> SUFFICES ASSUME NEW m \in Mailbox PROVE index'[m] = TallyOf(RowsOf(m))
  BY <1>3 DEF NextSettled
<1>5. /\ Cardinality(RowsOf(m)) \in Nat /\ Bytes(RowsOf(m)) \in Nat
      /\ index[m] \in Tally /\ index[m].count \in Nat /\ index[m].bytes \in Nat
      /\ gone[w][m].count \in Nat /\ gone[w][m].bytes \in Nat
  BY <1>0, MailboxNat
<1>6. CASE m = c
  <2>1. New(w, c, 1) = 1 /\ New(w, c, len) = len
    BY <1>0, <1>1 DEF New, Stored
  <2>2. /\ index[c].count >= gone[w][c].count /\ index[c].count - gone[w][c].count + 1 = Cardinality(RowsOf(c))
        /\ index[c].bytes >= gone[w][c].bytes /\ index[c].bytes - gone[w][c].bytes + len = Bytes(RowsOf(c))
    BY <1>4, <1>5, <1>6, <2>1
  <2>3. index'[c] = [count |-> index[c].count - gone[w][c].count + 1,
                     bytes |-> index[c].bytes - gone[w][c].bytes + len]
    BY <1>0, <1>2, <2>2 DEF Less, Monus
  <2> QED
    BY <1>6, <2>2, <2>3 DEF TallyOf
<1>7. CASE m # c
  <2>1. New(w, m, 1) = 0 /\ New(w, m, len) = 0
    BY <1>1, <1>7 DEF New
  <2>2. gone[w][m].count = 0 /\ gone[w][m].bytes = 0
    BY <1>4, <1>7 DEF NoTally
  <2>3. index[m].count = Cardinality(RowsOf(m)) /\ index[m].bytes = Bytes(RowsOf(m))
    BY <1>4, <1>5, <2>1, <2>2
  <2>4. index'[m] = index[m]
    BY <1>0, <1>2, <1>7
  <2> QED
    BY <1>5, <2>3, <2>4, TallyIs
<1> QED
  BY <1>6, <1>7

(* A call that owes the index what it has taken out, and nothing else.     *)
LEMMA OwedExact ==
  ASSUME StoreTypeOK, NEW w \in Call, CallExact(w), pc[w] \in Pending \ Stored, NEW m \in Mailbox
  PROVE  /\ Less(index[m], gone[w][m]) = TallyOf(RowsOf(m))
         /\ gone[w][m] = NoTally => index[m] = TallyOf(RowsOf(m))
<1>1. /\ Cardinality(RowsOf(m)) \in Nat /\ Bytes(RowsOf(m)) \in Nat
      /\ index[m] \in Tally /\ index[m].count \in Nat /\ index[m].bytes \in Nat
      /\ gone[w][m].count \in Nat /\ gone[w][m].bytes \in Nat
  BY MailboxNat
<1>2. New(w, m, 1) = 0 /\ New(w, m, env[w].len) = 0
  BY DEF New
<1>3. /\ index[m].count = Cardinality(RowsOf(m)) + gone[w][m].count
      /\ index[m].bytes = Bytes(RowsOf(m)) + gone[w][m].bytes
  <2>1. /\ index[m].count + New(w, m, 1) = Cardinality(RowsOf(m)) + gone[w][m].count
        /\ index[m].bytes + New(w, m, env[w].len) = Bytes(RowsOf(m)) + gone[w][m].bytes
    BY DEF CallExact, IndexFollows
  <2> QED
    BY <1>1, <1>2, <2>1
<1>4. Less(index[m], gone[w][m]) = TallyOf(RowsOf(m))
  <2>1. /\ Monus(index[m].count, gone[w][m].count) = Cardinality(RowsOf(m))
        /\ Monus(index[m].bytes, gone[w][m].bytes) = Bytes(RowsOf(m))
    BY <1>1, <1>3 DEF Monus
  <2> QED
    BY <2>1 DEF Less, TallyOf
<1>5. ASSUME gone[w][m] = NoTally PROVE index[m] = TallyOf(RowsOf(m))
  <2>1. gone[w][m].count = 0 /\ gone[w][m].bytes = 0
    BY <1>5 DEF NoTally
  <2>2. index[m].count = Cardinality(RowsOf(m)) /\ index[m].bytes = Bytes(RowsOf(m))
    BY <1>1, <1>3, <2>1
  <2> QED
    BY <1>1, <2>2, TallyIs
<1> QED
  BY <1>4, <1>5

(* Rows of one mailbox are a part of that mailbox and of no other.         *)
LEMMA TakenTally ==
  ASSUME NEW m \in Mailbox, NEW rows, rows = PartOf(rows, m)
  PROVE  \A k \in Mailbox \ {m} : TallyOf(PartOf(rows, k)) = NoTally
<1> TAKE k \in Mailbox \ {m}
<1>1. PartOf(rows, k) = {}
  BY DEF PartOf
<1> QED
  BY <1>1, BytesEmpty

(* A step of the only call in progress.                                    *)
LEMMA ExactStep ==
  ASSUME StoreTypeOK, CallsClean, CallsClean', IdsUnique, NEW w \in Call, CallStep(w),
         CallExact(w), pc[w] \notin Pending => Settled
  PROVE  NextExact(w)
<1>0. /\ pc \in [Call -> PC] /\ env \in [Call -> Slot] /\ evict \in [Call -> SUBSET Id]
      /\ gone \in [Call -> [Mailbox -> Tally]] /\ index \in [Mailbox -> Tally]
      /\ Sweeper \in Call
  BY DEF StoreTypeOK, TypeOK, Call
<1> USE DEF Goto, accounts, local
<1>1. ASSUME UNCHANGED <<envelopes, index, evict, gone>>,
             env'[w].mbx = env[w].mbx, env'[w].len = env[w].len,
             \/ pc[w] \in Writing /\ pc'[w] \in Writing
             \/ pc[w] \in Stored /\ pc'[w] \in Stored
             \/ pc[w] \in Purging /\ pc'[w] \in Purging
             \/ pc[w] \in {"ack_sub", "sweep_sub"} /\ pc'[w] \in {"ack_index", "sweep_index"}
      PROVE  NextExact(w)
  <2>1. /\ pc'[w] \in Pending <=> pc[w] \in Pending
        /\ pc'[w] \in Writing <=> pc[w] \in Writing
        /\ pc'[w] \in Stored <=> pc[w] \in Stored
        /\ pc'[w] \in Purging <=> pc[w] \in Purging
    BY <1>1 DEF Pending, Writing, Stored, Purging
  <2> QED
    BY <1>1, <2>1, QuietExact
<1>2. ASSUME UNCHANGED <<envelopes, index>>, pc'[w] \notin Pending \cup Writing,
             pc[w] \notin Pending
      PROVE  NextExact(w)
  BY <1>2, PlainExact
<1>3. ASSUME NEW m \in Mailbox, NEW id \in Id, NEW len \in Lengths, w \in Worker, Admit(w, m, id, len)
      PROVE  NextExact(w)
  <2>1. /\ pc[w] = "idle" /\ pc'[w] = "enq_start" /\ UNCHANGED <<envelopes, index, gone>>
        /\ gone[w] = NoneGone /\ evict'[w] = {} /\ env'[w].mbx = m
    BY <1>0, <1>3 DEF Admit, Begin, CallsClean
  <2>2. NextSettled
    <3>1. \A k : NextRows(k) = RowsOf(k)
      BY <2>1 DEF RowsOf, NextRows
    <3>2. Settled
      BY <2>1 DEF Pending, Stored, Purging
    <3> QED
      BY <2>1, <3>1, <3>2 DEF NextSettled, Settled
  <2>3. NextTaken(w) = {}
    BY <2>1 DEF NextTaken
  <2>4. gone'[w] = [NoneGone EXCEPT ![env'[w].mbx] = TallyOf(NextTaken(w))]
    <3>1. TallyOf(NextTaken(w)) = NoTally
      BY <2>3, BytesEmpty
    <3> QED
      BY <2>1, <3>1 DEF NoneGone
  <2> QED
    BY <2>1, <2>2, <2>4 DEF NextExact, Pending, Stored, Purging
<1>4. CASE w \in Worker /\ (EnqueueStart(w) \/ EnqueueCheck(w))
  BY <1>0, <1>1, <1>4 DEF EnqueueStart, EnqueueCheck, Writing
<1>5. CASE w \in Worker /\ EnqueueRead(w)
  <2>1. /\ pc[w] = "enq_read" /\ pc'[w] = "enq_write" /\ UNCHANGED <<envelopes, index, env>>
    BY <1>0, <1>5 DEF EnqueueRead
  <2>2. NextSettled
    <3>1. \A k : NextRows(k) = RowsOf(k)
      BY <2>1 DEF RowsOf, NextRows
    <3>2. Settled
      BY <2>1 DEF Pending, Stored, Purging
    <3> QED
      BY <2>1, <3>1, <3>2 DEF NextSettled, Settled
  <2>3. PICK victims : /\ Taken(w)' = victims
                       /\ gone'[w] = [NoneGone EXCEPT ![env[w].mbx] = TallyOf(victims)]
    BY <1>5, ReadChooses
  <2>4. NextTaken(w) = victims
    BY <2>3 DEF Taken, NextTaken
  <2> QED
    BY <2>1, <2>2, <2>3, <2>4 DEF NextExact, Pending, Stored, Purging
<1>6. CASE w \in Worker /\ EnqueueWrite(w)
  <2>1. Settled
    BY <1>6 DEF EnqueueWrite, Pending, Stored, Purging
  <2> QED
    BY <1>6, <2>1, WriteExact
<1>7. CASE w \in Worker /\ (EnqueueAdd(w) \/ EnqueueSub(w) \/ PurgeSub(w) \/ AckSub(w))
  BY <1>0, <1>1, <1>7 DEF EnqueueAdd, EnqueueSub, PurgeSub, AckSub, FreeTotal, Stored, Purging
<1>8. CASE w \in Worker /\ EnqueueIndex(w)
  <2>1. NextSettled
    BY <1>8, IndexExact
  <2>2. pc'[w] = "idle"
    BY <1>0, <1>8 DEF EnqueueIndex, Finish
  <2> QED
    BY <2>1, <2>2 DEF NextExact, Pending, Stored, Purging, Writing
<1>9. ASSUME NEW m \in Mailbox, NEW ids \in SUBSET Id, w \in Worker, AckWrite(w, m, ids)
      PROVE  NextExact(w)
  <2>1. PICK rows : rows = {r \in RowsOf(m) : r.id \in ids}
    OBVIOUS
  <2>2. /\ pc[w] = "idle" /\ pc'[w] = "ack_sub" /\ envelopes' = envelopes \ rows /\ index' = index
        /\ gone'[w] = [NoneGone EXCEPT ![m] = TallyOf(rows)]
    BY <1>0, <1>9, <2>1 DEF AckWrite, Begin
  <2>3. rows \subseteq envelopes /\ rows = PartOf(rows, m)
    BY <2>1 DEF RowsOf, PartOf
  <2>4. NextFollows(w)
    <3>1. \A k \in Mailbox : gone'[w][k] = TallyOf(PartOf(rows, k))
      <4>1. gone'[w][m] = TallyOf(rows) /\ \A k \in Mailbox \ {m} : gone'[w][k] = NoTally
        BY <2>2 DEF NoneGone
      <4>2. \A k \in Mailbox \ {m} : TallyOf(PartOf(rows, k)) = NoTally
        BY <2>3, TakenTally
      <4> QED
        BY <2>3, <4>1, <4>2
    <3>2. Settled /\ pc'[w] \notin Stored
      BY <2>2 DEF Pending, Stored, Purging
    <3> QED
      BY <2>2, <2>3, <3>1, <3>2, RemoveExact
  <2> QED
    BY <2>2, <2>4 DEF NextExact, Pending, Stored, Purging, Writing
<1>10. CASE w \in Worker /\ AckIndex(w)
  <2>1. /\ pc[w] = "ack_index" /\ pc'[w] = "idle" /\ envelopes' = envelopes
        /\ index' = [m \in Mailbox |-> Less(index[m], gone[w][m])]
    BY <1>0, <1>10 DEF AckIndex, Finish
  <2>2. \A m \in Mailbox : Less(index[m], gone[w][m]) = TallyOf(RowsOf(m))
    BY <2>1, OwedExact DEF Pending, Stored, Purging
  <2>3. NextSettled
    BY <2>1, <2>2 DEF NextSettled, NextRows, RowsOf
  <2> QED
    BY <2>1, <2>3 DEF NextExact, Pending, Stored, Purging, Writing
<1>11. ASSUME NEW m \in Mailbox, w \in Worker, PurgeWrite(w, m)
       PROVE  NextExact(w)
  <2>1. PICK rows : rows = RowsOf(m)
    OBVIOUS
  <2>2. /\ pc[w] = "idle" /\ pc'[w] = "purge_sub" /\ envelopes' = envelopes \ rows /\ index' = index
        /\ gone'[w] = [NoneGone EXCEPT ![m] = TallyOf(rows)] /\ env'[w].mbx = m
    BY <1>0, <1>11, <2>1 DEF PurgeWrite, Begin, Stub
  <2>3. rows \subseteq envelopes /\ rows = PartOf(rows, m)
    BY <2>1 DEF RowsOf, PartOf
  <2>4. NextFollows(w)
    <3>1. \A k \in Mailbox : gone'[w][k] = TallyOf(PartOf(rows, k))
      <4>1. gone'[w][m] = TallyOf(rows) /\ \A k \in Mailbox \ {m} : gone'[w][k] = NoTally
        BY <2>2 DEF NoneGone
      <4>2. \A k \in Mailbox \ {m} : TallyOf(PartOf(rows, k)) = NoTally
        BY <2>3, TakenTally
      <4> QED
        BY <2>3, <4>1, <4>2
    <3>2. Settled /\ pc'[w] \notin Stored
      BY <2>2 DEF Pending, Stored, Purging
    <3> QED
      BY <2>2, <2>3, <3>1, <3>2, RemoveExact
  <2>5. NextRows(m) = {}
    BY <2>1, <2>2 DEF NextRows, RowsOf
  <2>6. \A k \in Mailbox \ {m} : gone'[w][k] = NoTally
    BY <2>2 DEF NoneGone
  <2> QED
    BY <2>2, <2>4, <2>5, <2>6 DEF NextExact, Pending, Stored, Purging, Writing
<1>12. CASE w \in Worker /\ PurgeIndex(w)
  <2>1. PICK c \in Mailbox : c = env[w].mbx
    BY <1>12 DEF StoreTypeOK, TypeOK, PurgeIndex, Finish, Accounting
  <2>2. /\ pc[w] = "purge_index" /\ pc'[w] = "idle" /\ envelopes' = envelopes
        /\ index' = [index EXCEPT ![c] = NoTally]
    BY <1>0, <1>12, <2>1 DEF PurgeIndex, Finish
  <2>3. RowsOf(c) = {} /\ \A m \in Mailbox \ {c} : gone[w][m] = NoTally
    BY <2>1, <2>2 DEF CallExact, Stored, Purging
  <2>4. \A m \in Mailbox \ {c} : index[m] = TallyOf(RowsOf(m))
    BY <2>2, <2>3, OwedExact DEF Pending, Stored, Purging
  <2>5. TallyOf(RowsOf(c)) = NoTally
    BY <2>3, BytesEmpty
  <2>6. \A m \in Mailbox : index'[m] = TallyOf(RowsOf(m))
    BY <1>0, <2>2, <2>4, <2>5
  <2>7. NextSettled
    BY <2>2, <2>6 DEF NextSettled, NextRows, RowsOf
  <2> QED
    BY <2>2, <2>7 DEF NextExact, Pending, Stored, Purging, Writing
<1>13. CASE w = Sweeper /\ SweepStart
  <2>1. /\ pc[w] = "idle" /\ pc'[w] = "sweep_write" /\ UNCHANGED <<envelopes, index>>
    BY <1>0, <1>13 DEF SweepStart, Begin
  <2> QED
    BY <1>2, <2>1 DEF Pending, Stored, Purging, Writing
<1>14. CASE w = Sweeper /\ SweepWrite
  <2>1. PICK rows : rows = {r \in envelopes : Expired(r, cutoff)}
    OBVIOUS
  <2>2. /\ pc[w] = "sweep_write" /\ pc'[w] = "sweep_sub" /\ envelopes' = envelopes \ rows
        /\ index' = index
        /\ gone'[w] = [m \in Mailbox |-> TallyOf(PartOf(rows, m))]
    BY <1>0, <1>14, <2>1 DEF SweepWrite, PartOf
  <2>3. rows \subseteq envelopes /\ \A m \in Mailbox : gone'[w][m] = TallyOf(PartOf(rows, m))
    BY <2>1, <2>2
  <2>4. NextFollows(w)
    BY <2>2, <2>3, RemoveExact DEF Pending, Stored, Purging
  <2> QED
    BY <2>2, <2>4 DEF NextExact, Pending, Stored, Purging, Writing
<1>15. CASE w = Sweeper /\ SweepSub
  BY <1>0, <1>1, <1>15 DEF SweepSub, FreeTotal
<1>16. CASE w = Sweeper /\ SweepDone
  <2>1. /\ pc[w] = "sweep_index" /\ pc'[w] = "idle" /\ UNCHANGED <<envelopes, index>>
        /\ gone[w] = NoneGone
    BY <1>0, <1>16 DEF SweepDone, Finish
  <2>2. \A m \in Mailbox : gone[w][m] = NoTally
    BY <2>1 DEF NoneGone
  <2>3. \A m \in Mailbox : index[m] = TallyOf(RowsOf(m))
    BY <2>1, <2>2, OwedExact DEF Pending, Stored, Purging
  <2>4. NextSettled
    BY <2>1, <2>3 DEF NextSettled, NextRows, RowsOf
  <2> QED
    BY <2>1, <2>4 DEF NextExact, Pending, Stored, Purging, Writing
<1>17. ASSUME NEW m \in Mailbox, w = Sweeper, SweepIndex(m)
       PROVE  NextExact(w)
  <2>1. /\ pc[w] = "sweep_index" /\ pc'[w] = "sweep_index" /\ envelopes' = envelopes
        /\ index' = [index EXCEPT ![m] = Less(index[m], gone[w][m])]
        /\ gone'[w] = [gone[w] EXCEPT ![m] = NoTally]
    BY <1>0, <1>17 DEF SweepIndex
  <2>2. Less(index[m], gone[w][m]) = TallyOf(RowsOf(m))
    BY <2>1, OwedExact DEF Pending, Stored, Purging
  <2>3. index'[m] = TallyOf(RowsOf(m)) /\ gone'[w][m] = NoTally
    BY <1>0, <2>1, <2>2
  <2>4. /\ index'[m].count = Cardinality(RowsOf(m)) /\ index'[m].bytes = Bytes(RowsOf(m))
        /\ gone'[w][m].count = 0 /\ gone'[w][m].bytes = 0
    BY <2>3, TallyParts DEF NoTally
  <2>5. \A k \in Mailbox \ {m} : index'[k] = index[k] /\ gone'[w][k] = gone[w][k]
    BY <1>0, <2>1
  <2>6. \A k \in Mailbox : /\ NextRows(k) = RowsOf(k)
                           /\ NextNew(w, k, 1) = 0 /\ New(w, k, 1) = 0
                           /\ NextNew(w, k, env'[w].len) = 0 /\ New(w, k, env[w].len) = 0
    BY <2>1 DEF NextRows, RowsOf, NextNew, New, Stored
  <2>7. \A k \in Mailbox : /\ index[k].count + New(w, k, 1) = Cardinality(RowsOf(k)) + gone[w][k].count
                           /\ index[k].bytes + New(w, k, env[w].len) = Bytes(RowsOf(k)) + gone[w][k].bytes
    BY <2>1 DEF CallExact, IndexFollows, Pending
  <2>8. NextFollows(w)
    <3> SUFFICES ASSUME NEW k \in Mailbox
                 PROVE  /\ index'[k].count + 0 = Cardinality(RowsOf(k)) + gone'[w][k].count
                        /\ index'[k].bytes + 0 = Bytes(RowsOf(k)) + gone'[w][k].bytes
      BY <2>6 DEF NextFollows
    <3>1. Cardinality(RowsOf(k)) \in Nat /\ Bytes(RowsOf(k)) \in Nat
      BY MailboxNat
    <3>2. CASE k = m
      BY <2>4, <3>1, <3>2
    <3>3. CASE k # m
      <4>1. index'[k] = index[k] /\ gone'[w][k] = gone[w][k]
        BY <2>5, <3>3
      <4>2. /\ index[k].count + 0 = Cardinality(RowsOf(k)) + gone[w][k].count
            /\ index[k].bytes + 0 = Bytes(RowsOf(k)) + gone[w][k].bytes
        BY <2>6, <2>7
      <4> QED
        BY <4>1, <4>2
    <3> QED
      BY <3>2, <3>3
  <2> QED
    BY <2>1, <2>8 DEF NextExact, Pending, Stored, Purging, Writing
<1>18. CASE TxnFails(w)
  <2>1. /\ pc[w] \in {"enq_read", "enq_write", "sweep_write"} /\ pc'[w] = "idle"
        /\ UNCHANGED <<envelopes, index>>
    BY <1>0, <1>18 DEF TxnFails, Finish
  <2> QED
    BY <1>2, <2>1 DEF Pending, Stored, Purging, Writing
<1> QED
  BY <1>3, <1>4, <1>5, <1>6, <1>7, <1>8, <1>9, <1>10, <1>11, <1>12, <1>13, <1>14, <1>15, <1>16,
     <1>17, <1>18 DEF CallStep, Enqueue, Ack, Purge, Sweep

(* Until two calls overlap, every account stays exact.                     *)
LEMMA SerialExactStep ==
  ASSUME StoreTypeOK, StoreTypeOK', CallsClean, CallsClean', IdsUnique, Serial, SerialExact, [Next]_vars
  PROVE  SerialExact'
<1> SUFFICES ASSUME ~raced'
             PROVE  /\ (\A w \in Call : pc'[w] \notin Pending) => Settled'
                    /\ \A w \in Call : CallExact(w)'
  <2>1. TotalFollows' \/ raced'
    BY TotalStep
  <2> QED
    BY <2>1 DEF SerialExact
<1>1. ASSUME NEW w \in Call, pc'[w] = "idle"
      PROVE  CallExact(w)'
  BY <1>1 DEF CallExact, Pending, Stored, Purging, Writing
<1>2. ASSUME NEW w \in Call, CallStep(w)
      PROVE  /\ (\A v \in Call : pc'[v] \notin Pending) => Settled'
             /\ \A v \in Call : CallExact(v)'
  <2>1. ~raced /\ Alone(w)
    BY <1>2, AloneStep
  <2>2. CallExact(w)
    BY <2>1 DEF SerialExact
  <2>3. pc[w] \notin Pending => Settled
    <3>1. \A v \in Call \ {w} : pc[v] \notin Pending
      BY <2>1 DEF Alone, Pending, Stored, Purging
    <3> QED
      BY <2>1, <3>1 DEF SerialExact
  <2>4. NextExact(w)
    BY <1>2, <2>2, <2>3, ExactStep
  <2>5. CallExact(w)' /\ (pc'[w] \notin Pending => Settled')
    BY <2>4, ExactNext
  <2>6. \A v \in Call \ {w} : CallExact(v)'
    BY <1>1, <2>1 DEF Alone
  <2> QED
    BY <2>5, <2>6
<1>3. CASE Crash
  <2>1. \A w \in Call : pc'[w] = "idle"
    BY <1>3 DEF Crash
  <2>2. Settled'
    <3>1. envelopes' = envelopes /\ \A m \in Mailbox : index'[m] = TallyOf(RowsOf(m))
      BY <1>3 DEF Crash
    <3>2. \A m \in Mailbox : TallyOf(RowsOf(m))' = TallyOf(RowsOf(m))
      BY <3>1 DEF TallyOf, RowsOf, Bytes
    <3> QED
      BY <3>1, <3>2 DEF Settled
  <2> QED
    BY <1>1, <2>1, <2>2
<1>4. CASE Tick \/ UNCHANGED vars
  <2>1. UNCHANGED <<envelopes, index, raced, pc, env, evict, gone>>
    BY <1>4 DEF Tick, vars, accounts, local
  <2>2. /\ (\A w \in Call : pc[w] \notin Pending) => Settled
        /\ \A w \in Call : CallExact(w)
    BY <2>1 DEF SerialExact
  <2>3. Settled' <=> Settled
    BY <2>1 DEF Settled, TallyOf, RowsOf, Bytes
  <2>4. \A w \in Call : CallExact(w)' <=> CallExact(w)
    <3> TAKE w \in Call
    <3>1. IndexFollows(w)' <=> IndexFollows(w)
      BY <2>1 DEF IndexFollows, New, RowsOf, Bytes
    <3>2. TallyOf(Taken(w))' = TallyOf(Taken(w))
      BY <2>1 DEF TallyOf, Taken, Bytes
    <3>3. RowsOf(env[w].mbx)' = RowsOf(env[w].mbx) /\ Bytes(RowsOf(env[w].mbx))' = Bytes(RowsOf(env[w].mbx))
      BY <2>1 DEF RowsOf, Bytes
    <3> QED
      BY <2>1, <3>1, <3>2, <3>3 DEF CallExact
  <2> QED
    BY <2>1, <2>2, <2>3, <2>4
<1> QED
  BY <1>2, <1>3, <1>4, StepCases

-----------------------------------------------------------------------------
(* Only the steps of an enqueue that has not committed yet matter to the   *)
(* caps: every other one stores nothing and admits nothing.                *)
WriterStep(w) ==
  \/ \E m \in Mailbox, id \in Id, len \in Lengths : Admit(w, m, id, len)
  \/ EnqueueStart(w) \/ EnqueueCheck(w) \/ EnqueueRead(w) \/ EnqueueWrite(w)

(* Of a call's steps, only a writer's adds a row.                          *)
LEMMA OtherSteps ==
  ASSUME StoreTypeOK, NEW w \in Call, CallStep(w)
  PROVE  \/ w \in Worker /\ WriterStep(w)
         \/ envelopes' \subseteq envelopes /\ pc'[w] \notin Writing
<1>0. pc \in [Call -> PC] /\ Sweeper \in Call
  BY DEF StoreTypeOK, TypeOK, Call
<1> USE DEF Goto, accounts, local, Writing
<1>1. CASE w \in Worker /\ (EnqueueAdd(w) \/ EnqueueSub(w) \/ EnqueueIndex(w))
  BY <1>0, <1>1 DEF EnqueueAdd, EnqueueSub, EnqueueIndex, FreeTotal, Finish
<1>2. CASE w \in Worker /\ Ack(w)
  BY <1>0, <1>2 DEF Ack, AckWrite, AckSub, AckIndex, Begin, FreeTotal, Finish
<1>3. CASE w \in Worker /\ Purge(w)
  BY <1>0, <1>3 DEF Purge, PurgeWrite, PurgeSub, PurgeIndex, Begin, FreeTotal, Finish
<1>4. CASE w = Sweeper /\ Sweep
  BY <1>0, <1>4 DEF Sweep, SweepStart, SweepWrite, SweepSub, SweepDone, SweepIndex, Begin, FreeTotal, Finish
<1>5. CASE TxnFails(w)
  BY <1>0, <1>5 DEF TxnFails, Finish
<1> QED
  BY <1>1, <1>2, <1>3, <1>4, <1>5 DEF CallStep, Enqueue, WriterStep

(* A smaller table is within the caps that a larger one respects.          *)
LEMMA LessIsLess ==
  ASSUME NEW rows, rows \subseteq Row, IsFiniteSet(rows), NEW part, part \subseteq rows
  PROVE  /\ Cardinality(part) \in Nat /\ Cardinality(rows) \in Nat
         /\ Bytes(part) \in Nat /\ Bytes(rows) \in Nat
         /\ Cardinality(part) <= Cardinality(rows) /\ Bytes(part) <= Bytes(rows)
<1>1. /\ Bytes(part) \in Nat /\ Bytes(rows \ part) \in Nat
      /\ Cardinality(part) \in Nat /\ Cardinality(rows \ part) \in Nat
      /\ Bytes(rows) = Bytes(part) + Bytes(rows \ part)
      /\ Cardinality(rows) = Cardinality(part) + Cardinality(rows \ part)
  BY BytesSplit
<1> QED
  BY <1>1

(* CapsRespected and CapsAhead after a step, spelled out.                  *)
NextCaps ==
  /\ \A m \in Mailbox :
       /\ Cardinality(NextRows(m)) <= MAX_QUEUE_PER_RECIPIENT
       /\ Bytes(NextRows(m)) <= PER_MAILBOX_QUEUE_BYTES
  /\ Bytes(envelopes') <= GLOBAL_QUEUE_DISK_CAP_BYTES
NextAhead(w) ==
  /\ pc'[w] \in Writing =>
       Bytes(envelopes') + env'[w].len <= GLOBAL_QUEUE_DISK_CAP_BYTES
  /\ pc'[w] = "enq_write" =>
       ~OverCap(TallyOf(NextRows(env'[w].mbx) \ NextTaken(w)), env'[w].len)
CapsNow ==
  /\ \A m \in Mailbox :
       /\ Cardinality(RowsOf(m)) <= MAX_QUEUE_PER_RECIPIENT
       /\ Bytes(RowsOf(m)) <= PER_MAILBOX_QUEUE_BYTES
  /\ Bytes(envelopes) <= GLOBAL_QUEUE_DISK_CAP_BYTES
AheadNow(w) ==
  /\ pc[w] \in Writing =>
       Bytes(envelopes) + env[w].len <= GLOBAL_QUEUE_DISK_CAP_BYTES
  /\ pc[w] = "enq_write" =>
       ~OverCap(TallyOf(RowsOf(env[w].mbx) \ Taken(w)), env[w].len)

(* Steps that store nothing keep the caps.                                 *)
LEMMA ShrinkCaps ==
  ASSUME StoreTypeOK, CapsNow, envelopes' \subseteq envelopes
  PROVE  NextCaps
<1>1. envelopes \subseteq Row /\ IsFiniteSet(envelopes)
  BY DEF StoreTypeOK, TypeOK
<1>2. Bytes(envelopes') <= GLOBAL_QUEUE_DISK_CAP_BYTES
  <2>1. PICK rows : rows = envelopes'
    OBVIOUS
  <2>2. Bytes(rows) \in Nat /\ Bytes(envelopes) \in Nat /\ Bytes(rows) <= Bytes(envelopes)
    BY <1>1, <2>1, LessIsLess
  <2> QED
    BY <2>1, <2>2, CapAssumption DEF CapsNow
<1>3. ASSUME NEW m \in Mailbox
      PROVE  /\ Cardinality(NextRows(m)) <= MAX_QUEUE_PER_RECIPIENT
             /\ Bytes(NextRows(m)) <= PER_MAILBOX_QUEUE_BYTES
  <2>1. PICK rows, part : rows = RowsOf(m) /\ part = NextRows(m)
    OBVIOUS
  <2>2. part \subseteq rows
    BY <2>1 DEF RowsOf, NextRows
  <2>3. rows \subseteq Row /\ IsFiniteSet(rows)
    BY <2>1, MailboxNat
  <2>4. /\ Cardinality(part) \in Nat /\ Cardinality(rows) \in Nat
        /\ Bytes(part) \in Nat /\ Bytes(rows) \in Nat
        /\ Cardinality(part) <= Cardinality(rows) /\ Bytes(part) <= Bytes(rows)
    BY <2>2, <2>3, LessIsLess
  <2>5. Cardinality(rows) <= MAX_QUEUE_PER_RECIPIENT /\ Bytes(rows) <= PER_MAILBOX_QUEUE_BYTES
    BY <2>1 DEF CapsNow
  <2> QED
    BY <2>1, <2>4, <2>5, CapAssumption
<1> QED
  BY <1>2, <1>3 DEF NextCaps

(* With no call in progress the total is the bytes of the table.           *)
LEMMA IdleTotal ==
  ASSUME StoreTypeOK, TotalFollows, \A w \in Call : pc[w] = "idle"
  PROVE  total_bytes = Bytes(envelopes)
<1>1. AddsOf = [w \in Worker |-> 0] /\ FreesOf = [w \in Call |-> 0]
  BY DEF AddsOf, FreesOf, Counted, Call
<1>2. IsFiniteSet(Worker) /\ IsFiniteSet(Call)
  BY ShareType
<1>3. UncountedBytes = SumFunction(AddsOf) /\ StillCountedBytes = SumFunction(FreesOf)
  BY ShareType
<1>4. UncountedBytes = 0 /\ StillCountedBytes = 0
  BY <1>1, <1>2, <1>3, TotalZero
<1>5. total_bytes \in Nat /\ Bytes(envelopes) \in Nat
  BY BytesNat DEF StoreTypeOK, TypeOK
<1> QED
  BY <1>4, <1>5 DEF TotalFollows

(* The commit of an enqueue keeps the caps: the eviction made room in the  *)
(* mailbox, the admission in the table.                                    *)
LEMMA WriteCaps ==
  ASSUME StoreTypeOK, IdsUnique, CapsNow, NEW w \in Worker, AheadNow(w), EnqueueWrite(w)
  PROVE  NextCaps
<1>0. /\ w \in Call /\ pc \in [Call -> PC] /\ pc[w] = "enq_write"
      /\ env[w] \in Row /\ env[w].mbx \in Mailbox
      /\ \A r \in envelopes : r.id # env[w].id
      /\ envelopes \subseteq Row /\ IsFiniteSet(envelopes)
  BY DEF StoreTypeOK, TypeOK, Call, EnqueueWrite, Goto, Writing, Row, IdsUnique
<1>a. PICK rows, rest, kept :
        rows = RowsOf(env[w].mbx) /\ rest = rows \ Taken(w) /\ kept = envelopes \ Taken(w)
  OBVIOUS
<1>1. PICK c \in Mailbox, len \in Nat, e \in Row :
        /\ c = env[w].mbx /\ len = env[w].len /\ e = env[w] /\ len = e.len
        /\ rows = RowsOf(c) /\ rest = rows \ Taken(w) /\ kept = envelopes \ Taken(w)
  BY <1>0, <1>a, LenAssumption DEF Row
<1>2. /\ rest \subseteq rows /\ e \notin rest /\ NextRows(c) = rest \cup {e}
      /\ kept \subseteq envelopes /\ e \notin kept /\ envelopes' = kept \cup {e}
      /\ \A m \in Mailbox \ {c} : NextRows(m) = RowsOf(m)
  BY <1>0, <1>1 DEF EnqueueWrite, NextRows, RowsOf, Taken
<1>3. rows \subseteq Row /\ IsFiniteSet(rows)
  BY <1>1, MailboxNat
<1>4. /\ rest \subseteq Row /\ IsFiniteSet(rest) /\ kept \subseteq Row /\ IsFiniteSet(kept)
      /\ Bytes(kept) \in Nat /\ Bytes(envelopes) \in Nat /\ Bytes(kept) <= Bytes(envelopes)
      /\ Bytes(rest) \in Nat /\ Cardinality(rest) \in Nat
  BY <1>0, <1>2, <1>3, FS_Subset, LessIsLess
<1>5. /\ Bytes(rest \cup {e}) = Bytes(rest) + e.len
      /\ Cardinality(rest \cup {e}) = Cardinality(rest) + 1
      /\ Bytes(kept \cup {e}) = Bytes(kept) + e.len
  BY <1>2, <1>4, BytesAdd
<1>6. Bytes(envelopes) + len <= GLOBAL_QUEUE_DISK_CAP_BYTES
  BY <1>0, <1>1 DEF AheadNow, Writing
<1>7. Cardinality(rest) + 1 <= MAX_QUEUE_PER_RECIPIENT /\ Bytes(rest) + len <= PER_MAILBOX_QUEUE_BYTES
  <2>1. ~OverCap(TallyOf(rest), len)
    BY <1>0, <1>1 DEF AheadNow
  <2> QED
    BY <1>4, <2>1, CapAssumption DEF OverCap, TallyOf
<1>8. Bytes(envelopes') <= GLOBAL_QUEUE_DISK_CAP_BYTES
  <2>1. Bytes(envelopes') = Bytes(kept) + len
    BY <1>1, <1>2, <1>5
  <2> QED
    BY <1>4, <1>6, <2>1, CapAssumption
<1>9. Cardinality(NextRows(c)) <= MAX_QUEUE_PER_RECIPIENT /\ Bytes(NextRows(c)) <= PER_MAILBOX_QUEUE_BYTES
  BY <1>1, <1>2, <1>5, <1>7
<1> QED
  BY <1>2, <1>8, <1>9 DEF NextCaps, CapsNow

(* What the next commit was promised still holds.                          *)
LEMMA AheadStep ==
  ASSUME StoreTypeOK, CallsClean, IdsUnique, TotalFollows, CapsNow,
         NEW w \in Worker, WriterStep(w), AheadNow(w), \A v \in Call \ {w} : pc[v] = "idle",
         pc[w] \notin Pending => Settled
  PROVE  NextAhead(w)
<1>0. /\ w \in Call /\ pc \in [Call -> PC] /\ env \in [Call -> Slot] /\ evict \in [Call -> SUBSET Id]
      /\ pc[w] \in Writing => env[w] \in Row /\ env[w].mbx \in Mailbox /\ env[w].len \in Lengths
      /\ envelopes \subseteq Row /\ IsFiniteSet(envelopes)
  BY DEF StoreTypeOK, TypeOK, Call, Row
<1> USE DEF Goto, accounts, local
<1>1. ASSUME NEW m \in Mailbox, NEW id \in Id, NEW len \in Lengths, Admit(w, m, id, len)
      PROVE  NextAhead(w)
  <2>1. /\ pc[w] = "idle" /\ pc'[w] = "enq_start" /\ envelopes' = envelopes /\ env'[w].len = len
        /\ ~(total_bytes + len > GLOBAL_QUEUE_DISK_CAP_BYTES)
    BY <1>0, <1>1 DEF Admit, Begin, would_exceed_global
  <2>2. total_bytes = Bytes(envelopes)
    <3>1. \A v \in Call : pc[v] = "idle"
      BY <2>1
    <3> QED
      BY <3>1, IdleTotal
  <2>3. total_bytes \in Nat /\ len \in Nat
    BY LenAssumption DEF StoreTypeOK, TypeOK
  <2>4. Bytes(envelopes) + len <= GLOBAL_QUEUE_DISK_CAP_BYTES
    BY <2>1, <2>2, <2>3, CapAssumption
  <2>5. Bytes(envelopes') = Bytes(envelopes)
    BY <2>1
  <2> QED
    BY <2>1, <2>4, <2>5 DEF NextAhead
<1>2. CASE EnqueueStart(w)
  <2>1. /\ pc[w] \in Writing /\ pc'[w] = "enq_check" /\ envelopes' = envelopes /\ env'[w].len = env[w].len
    BY <1>0, <1>2 DEF EnqueueStart, Writing
  <2> QED
    BY <2>1 DEF NextAhead, AheadNow
<1>3. CASE EnqueueCheck(w)
  <2>1. /\ pc[w] = "enq_check" /\ pc[w] \in Writing /\ UNCHANGED <<envelopes, env, evict>> /\ evict[w] = {}
        /\ pc'[w] = IF OverCap(index[env[w].mbx], env[w].len) THEN "enq_read" ELSE "enq_write"
    BY <1>0, <1>3 DEF EnqueueCheck, Writing, CallsClean
  <2>2. PICK c \in Mailbox : c = env[w].mbx
    BY <1>0, <2>1
  <2>3. NextTaken(w) = {} /\ NextRows(c) = RowsOf(c)
    BY <2>1 DEF NextTaken, NextRows, RowsOf
  <2>4. index[c] = TallyOf(RowsOf(c))
    BY <2>1 DEF Settled, Pending, Stored, Purging
  <2>5. ASSUME pc'[w] = "enq_write" PROVE ~OverCap(TallyOf(NextRows(c) \ NextTaken(w)), env[w].len)
    <3>1. ~OverCap(index[c], env[w].len)
      BY <2>1, <2>2, <2>5
    <3>2. NextRows(c) \ NextTaken(w) = RowsOf(c)
      BY <2>3
    <3> QED
      BY <2>4, <3>1, <3>2
  <2> QED
    BY <2>1, <2>2, <2>5 DEF NextAhead, AheadNow
<1>4. CASE EnqueueRead(w)
  <2>1. /\ pc[w] = "enq_read" /\ pc[w] \in Writing /\ pc'[w] = "enq_write" /\ UNCHANGED <<envelopes, env>>
    BY <1>0, <1>4 DEF EnqueueRead, Writing
  <2>a. PICK rows : rows = RowsOf(env[w].mbx)
    OBVIOUS
  <2>2. PICK c \in Mailbox, len \in Lengths :
          c = env[w].mbx /\ len = env[w].len /\ rows = RowsOf(c)
    BY <1>0, <2>1, <2>a
  <2>3. Taken(w)' = EvictionChoice(rows, len)
    BY <1>4, <2>2, ReadChooses
  <2>4. NextTaken(w) = EvictionChoice(rows, len) /\ NextRows(c) = rows
    BY <2>1, <2>2, <2>3 DEF NextTaken, Taken, NextRows, RowsOf
  <2>5. rows \subseteq Row /\ IsFiniteSet(rows)
    BY <2>2, MailboxNat
  <2>6. ~OverCap(TallyOf(rows \ EvictionChoice(rows, len)), len)
    BY <2>5, EvictionFits
  <2> QED
    BY <2>1, <2>2, <2>4, <2>6 DEF NextAhead, AheadNow
<1>5. CASE EnqueueWrite(w)
  <2>1. pc'[w] = "enq_add"
    BY <1>0, <1>5 DEF EnqueueWrite
  <2> QED
    BY <2>1 DEF NextAhead, Writing
<1> QED
  BY <1>1, <1>2, <1>3, <1>4, <1>5 DEF WriterStep

(* Until two calls overlap for the first time, the caps hold.              *)
LEMMA CapsStep ==
  ASSUME StoreTypeOK, CallsClean, IdsUnique, Serial, SerialExact, CapsAhead, CapsRespected,
         [Next]_vars
  PROVE  CapsAhead' /\ CapsRespected'
<1>1. ASSUME NextCaps, \A w \in Worker : NextAhead(w)
      PROVE  CapsAhead' /\ CapsRespected'
  <2>1. \A m \in Mailbox : /\ Cardinality(RowsOf(m))' = Cardinality(NextRows(m))
                           /\ Bytes(RowsOf(m))' = Bytes(NextRows(m))
    BY DEF RowsOf, NextRows, Bytes
  <2>2. Bytes(envelopes)' = Bytes(envelopes')
    BY DEF Bytes
  <2>3. \A w \in Worker : OverCap(TallyOf(RowsOf(env[w].mbx) \ Taken(w)), env[w].len)'
                            <=> OverCap(TallyOf(NextRows(env'[w].mbx) \ NextTaken(w)), env'[w].len)
    BY DEF OverCap, TallyOf, Bytes, RowsOf, NextRows, Taken, NextTaken
  <2>4. CapsRespected'
    BY <1>1, <2>1, <2>2 DEF CapsRespected, NextCaps
  <2> QED
    BY <1>1, <2>2, <2>3, <2>4 DEF CapsAhead, NextAhead
<1>2. ASSUME NEW w \in Call, CallStep(w)
      PROVE  CapsAhead' /\ CapsRespected'
  <2>1. SUFFICES ASSUME ~raced', crashes' = 0 PROVE CapsAhead' /\ CapsRespected'
    BY DEF CapsAhead, CapsRespected
  <2>2. ~raced /\ Alone(w) /\ crashes = 0
    BY <1>2, <2>1, AloneStep
  <2>3. /\ CapsNow /\ TotalFollows /\ \A v \in Worker : AheadNow(v)
        /\ \A v \in Call \ {w} : pc[v] = "idle" /\ pc'[v] = "idle"
    BY <2>2 DEF CapsRespected, CapsNow, CapsAhead, AheadNow, SerialExact, Alone
  <2>4. pc[w] \notin Pending => Settled
    <3>1. \A v \in Call \ {w} : pc[v] \notin Pending
      BY <2>3 DEF Pending, Stored, Purging
    <3> QED
      BY <2>2, <3>1 DEF SerialExact
  <2>5. ASSUME NEW v \in Worker, v # w PROVE NextAhead(v)
    BY <2>3, <2>5 DEF NextAhead, Writing, Call
  <2>6. CASE w \in Worker /\ WriterStep(w)
    <3>1. NextAhead(w)
      BY <2>3, <2>4, <2>6, AheadStep
    <3>2. NextCaps
      <4>1. CASE EnqueueWrite(w)
        BY <2>3, <2>6, <4>1, WriteCaps
      <4>2. CASE ~EnqueueWrite(w)
        <5>1. envelopes' = envelopes
          BY <2>6, <4>2 DEF WriterStep, Admit, EnqueueStart, EnqueueCheck, EnqueueRead
        <5> QED
          BY <2>3, <5>1, ShrinkCaps
      <4> QED
        BY <4>1, <4>2
    <3> QED
      BY <1>1, <2>5, <3>1, <3>2
  <2>7. CASE envelopes' \subseteq envelopes /\ pc'[w] \notin Writing
    <3>1. NextCaps
      BY <2>3, <2>7, ShrinkCaps
    <3>2. w \in Worker => NextAhead(w)
      BY <2>7 DEF NextAhead, Writing
    <3> QED
      BY <1>1, <2>5, <3>1, <3>2
  <2> QED
    BY <1>2, <2>6, <2>7, OtherSteps
<1>3. CASE Crash
  <2>1. crashes' # 0
    BY <1>3 DEF Crash, StoreTypeOK, TypeOK
  <2> QED
    BY <2>1 DEF CapsAhead, CapsRespected
<1>4. CASE Tick \/ UNCHANGED vars
  <2>1. UNCHANGED <<envelopes, raced, crashes, pc, env, evict>>
    BY <1>4 DEF Tick, vars, accounts, local
  <2>2. \A m \in Mailbox : /\ Cardinality(RowsOf(m))' = Cardinality(RowsOf(m))
                           /\ Bytes(RowsOf(m))' = Bytes(RowsOf(m))
    BY <2>1 DEF RowsOf, Bytes
  <2>3. Bytes(envelopes)' = Bytes(envelopes)
    BY <2>1 DEF Bytes
  <2>4. \A w \in Worker : OverCap(TallyOf(RowsOf(env[w].mbx) \ Taken(w)), env[w].len)'
                            <=> OverCap(TallyOf(RowsOf(env[w].mbx) \ Taken(w)), env[w].len)
    BY <2>1 DEF OverCap, TallyOf, Bytes, RowsOf, Taken
  <2> QED
    BY <2>1, <2>2, <2>3, <2>4 DEF CapsAhead, CapsRespected
<1> QED
  BY <1>2, <1>3, <1>4, StepCases

(* The inductive invariant of the module.                                  *)
QueueInv ==
  /\ SeqInv /\ StoreTypeOK /\ CallsClean /\ IdsUnique
  /\ EvictionCovered /\ PhantomBytesBounded
  /\ Serial /\ SerialExact /\ CapsAhead /\ CapsRespected

(* A new store: everything is empty and nothing is in progress.            *)
LEMMA QueueInit == Init => QueueInv
<1> SUFFICES ASSUME Init PROVE QueueInv
  OBVIOUS
<1>0. /\ envelopes = {} /\ total_bytes = 0 /\ next_seq = 1 /\ index = NoneGone /\ now = 0
      /\ crashes = 0 /\ raced = FALSE /\ cutoff = 0
      /\ pc = [w \in Call |-> "idle"] /\ env = [w \in Call |-> NoRow]
      /\ evict = [w \in Call |-> {}] /\ gone = [w \in Call |-> NoneGone]
  BY DEF Init
<1>1. SeqInv
  <2>1. 1 \in 1 .. (MaxSeq + 1) /\ 0 \in Nat
    BY BoundAssumption
  <2> QED
    BY <1>0, <2>1, StubType DEF SeqInv, SeqTypeOK, SeqOrderSound, PC, Writing, Numbered, Call
<1>2. StoreTypeOK
  <2>1. 1 \in 1 .. (MaxSeq + 1) /\ 0 \in 0 .. MaxNow /\ 0 \in 0 .. MaxCrashes
    BY BoundAssumption
  <2>2. IsFiniteSet(envelopes)
    BY <1>0, FS_EmptySet
  <2> QED
    BY <1>0, <2>1, <2>2, StubType, TalliesType DEF StoreTypeOK, TypeOK, PC, Writing, Accounting
<1>3. CallsClean /\ IdsUnique /\ EvictionCovered /\ Serial
  BY <1>0 DEF CallsClean, IdsUnique, EvictionCovered, Serial, Writing, Call
<1>4. Bytes(envelopes) = 0 /\ \A m \in Mailbox : RowsOf(m) = {}
  BY <1>0, BytesEmpty DEF RowsOf
<1>5. UncountedBytes = 0 /\ StillCountedBytes = 0
  <2>1. AddsOf = [w \in Worker |-> 0] /\ FreesOf = [w \in Call |-> 0]
    BY <1>0 DEF AddsOf, FreesOf, Counted, Call
  <2>2. IsFiniteSet(Worker) /\ IsFiniteSet(Call)
    BY <1>2, ShareType
  <2>3. UncountedBytes = SumFunction(AddsOf) /\ StillCountedBytes = SumFunction(FreesOf)
    BY <1>2, ShareType
  <2> QED
    BY <2>1, <2>2, <2>3, TotalZero
<1>6. TotalFollows
  BY <1>0, <1>4, <1>5 DEF TotalFollows
<1>7. PhantomBytesBounded
  <2>1. PhantomLimit \in Nat
    BY <1>2, UncountedLimit
  <2>2. total_bytes + UncountedBytes <= Bytes(envelopes) + StillCountedBytes + PhantomLimit
    BY <1>0, <1>4, <1>5, <2>1
  <2> QED
    BY <2>2 DEF PhantomBytesBounded, PhantomLimit
<1>8. SerialExact
  <2>1. Settled
    <3>1. \A m \in Mailbox : index[m] = NoTally /\ TallyOf(RowsOf(m)) = NoTally
      BY <1>0, <1>4, BytesEmpty DEF NoneGone
    <3> QED
      BY <3>1 DEF Settled
  <2>2. \A w \in Call : CallExact(w)
    BY <1>0 DEF CallExact, Pending, Stored, Purging, Writing
  <2> QED
    BY <1>6, <2>1, <2>2 DEF SerialExact
<1>9. CapsAhead
  BY <1>0 DEF CapsAhead, Writing, Call
<1>10. CapsRespected
  <2>1. \A m \in Mailbox : Cardinality(RowsOf(m)) = 0 /\ Bytes(RowsOf(m)) = 0
    BY <1>4, BytesEmpty, FS_EmptySet
  <2> QED
    BY <1>4, <2>1, CapAssumption DEF CapsRespected
<1> QED
  BY <1>1, <1>2, <1>3, <1>7, <1>8, <1>9, <1>10 DEF QueueInv

(* Every step of every call, and every restart, preserves it.              *)
LEMMA QueueInvariance == Spec => []QueueInv
<1>1. QueueInv /\ [Next]_vars => QueueInv'
  <2> SUFFICES ASSUME QueueInv, [Next]_vars PROVE QueueInv'
    OBVIOUS
  <2>0. /\ SeqInv /\ StoreTypeOK /\ CallsClean /\ IdsUnique
        /\ EvictionCovered /\ PhantomBytesBounded
        /\ Serial /\ SerialExact /\ CapsAhead /\ CapsRespected
    BY DEF QueueInv
  <2>1. SeqInv'
    BY <2>0, SeqStep
  <2>2. StoreTypeOK'
    BY <2>0, TypeStep
  <2>3. CallsClean' /\ IdsUnique'
    BY <2>0, IdsStep
  <2>4. EvictionCovered'
    BY <2>0, <2>2, <2>3, EvictionStep
  <2>5. PhantomBytesBounded'
    BY <2>0, <2>2, PhantomStep
  <2>6. Serial'
    BY <2>0, SerialStep
  <2>7. SerialExact'
    BY <2>0, <2>2, <2>3, SerialExactStep
  <2>8. CapsAhead' /\ CapsRespected'
    BY <2>0, CapsStep
  <2> QED
    BY <2>1, <2>2, <2>3, <2>4, <2>5, <2>6, <2>7, <2>8 DEF QueueInv
<1> QED
  BY <1>1, QueueInit, PTL DEF Spec

-----------------------------------------------------------------------------
(* Every reachable state is well typed: the accounts are naturals, an      *)
(* enqueue that may still write holds a complete row, and a call that has  *)
(* yet to settle the index knows its mailbox.                              *)
THEOREM TypeCorrect == Spec => []TypeOK
<1>1. QueueInv => TypeOK
  BY DEF QueueInv, StoreTypeOK
<1> QED
  BY <1>1, QueueInvariance, PTL

(* However calls overlap, fail and restart, total_bytes overstates the     *)
(* table by at most one envelope per concurrent call.                      *)
THEOREM PhantomAlwaysBounded == Spec => []PhantomBytesBounded
<1>1. QueueInv => PhantomBytesBounded
  BY DEF QueueInv
<1> QED
  BY <1>1, QueueInvariance, PTL

(* Until two calls overlap, and again after every restart, the byte total  *)
(* and the index follow the table exactly.                                 *)
THEOREM AccountsAlwaysExact == Spec => []AccountsExact
<1>1. QueueInv => AccountsExact
  <2>1. (\A w \in Call : pc[w] = "idle") => \A w \in Call : pc[w] \notin Pending
    BY DEF Pending, Stored, Purging
  <2> QED
    BY <2>1 DEF QueueInv, SerialExact, TotalFollows, Settled, AccountsExact
<1> QED
  BY <1>1, QueueInvariance, PTL

(* Until two calls first overlap, no mailbox exceeds its count or byte cap *)
(* and the table stays within the global backstop.                         *)
THEOREM CapsAlwaysRespected == Spec => []CapsRespected
<1>1. QueueInv => CapsRespected
  BY DEF QueueInv
<1> QED
  BY <1>1, QueueInvariance, PTL

-----------------------------------------------------------------------------
(* "Seeded past the max stored sequence on open so ordering survives       *)
(* restarts": no two stored envelopes share a sequence number, none that   *)
(* is about to be stored will share one, and the counter is past them all. *)
THEOREM SequenceSound == Spec => []SeqOrderSound
<1>1. QueueInv => SeqOrderSound
  BY DEF QueueInv, SeqInv
<1> QED
  BY <1>1, QueueInvariance, PTL
=============================================================================
