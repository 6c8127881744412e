---------------------------- MODULE BundleStore -----------------------------
(***************************************************************************)
(* The hosted invite bundles: the in-memory map, its byte total, the       *)
(* rate-limited prune of expired bundles, the write-back to the MetaStore  *)
(* table and the load at start-up (src/state.rs, src/meta_store.rs), and   *)
(* the UploadBundle and FetchBundle handlers of src/ws.rs that use them.   *)
(*                                                                         *)
(* A Worker is a connection whose handler is at one request.  A guarded    *)
(* DashMap access, an atomic operation and a redb transaction are one step *)
(* each.  A ciphertext is named by its length.                             *)
(***************************************************************************)
EXTENDS Integers, FiniteSets, FiniteSetsExt

CONSTANTS
  Bundle,                        \* bundle ids
  Text,                          \* ciphertexts: their lengths
  Worker,
  None,                          \* no bundle
  MAX_BUNDLES,
  MAX_TOTAL_BUNDLE_BYTES,
  MAX_BUNDLE_TTL_MS,
  MIN_BUNDLE_TTL_MS,             \* the literal 60_000 of the upload handler
  BUNDLE_PRUNE_MIN_INTERVAL_MS,
  MaxNow, MaxCrashes,            \* bounds on the clock, on restarts
  MaxRequests                    \* and on the requests made

ASSUME CapAssumption ==
  /\ Text \subseteq Nat /\ IsFiniteSet(Text) /\ Text # {}
  /\ MAX_BUNDLES \in Nat /\ MAX_TOTAL_BUNDLE_BYTES \in Nat
  /\ MIN_BUNDLE_TTL_MS \in Nat \ {0}
  /\ MAX_BUNDLE_TTL_MS \in Nat /\ MIN_BUNDLE_TTL_MS <= MAX_BUNDLE_TTL_MS
  /\ BUNDLE_PRUNE_MIN_INTERVAL_MS \in Nat
ASSUME BoundAssumption ==
  MaxNow \in Nat \ {0} /\ MaxCrashes \in Nat /\ MaxRequests \in Nat
ASSUME SetsAssumption ==
  /\ IsFiniteSet(Bundle) /\ IsFiniteSet(Worker)
  /\ None \notin Bundle

Hosted == [text : Text, expires_at_ms : Nat]
ASSUME NoneAssumption == None \notin Hosted

VARIABLES
  bundles,        \* Bundle -> Hosted or None
  total,          \* total_bundle_bytes, AtomicUsize
  last_prune,     \* last_bundle_prune_ms, AtomicU64
  dirty,          \* dirty_bundles
  disk,           \* the BUNDLES table: Bundle -> Hosted or None
  now, crashes, requests,
  pc,             \* per worker: the next step of its request
  req,            \* per worker: [id, text], the request; text is None for a fetch
  prune,          \* per worker: [now, todo, freed, rid], the prune in progress
  old,            \* per worker: length of the bundle its insert replaced
  fl,             \* the write-back: [pc, keys, rid, batch, value]
  stale,          \* history: Bundle -> workers that looked at the map before the
                  \* bundle's present value was stored and may still act on it
  drifted,        \* history: one of the two accounting races has happened
  dropped         \* history: bundles whose last write-back failed

accounts == <<total, last_prune>>
calls == <<pc, req, prune, old>>
history == <<stale, drifted, dropped>>
env == <<now, crashes, requests>>
vars == <<bundles, accounts, dirty, disk, env, calls, fl, history>>

NoBundles == [b \in Bundle |-> None]
Stored(map) == {b \in Bundle : map[b] # None}
Live(b) == bundles[b] # None /\ bundles[b].expires_at_ms > now

Monus(a, b) == IF a >= b THEN a - b ELSE 0

Size(map, b) == IF map[b] = None THEN 0 ELSE map[b].text
TextBytes(map) == SumFunction([b \in Bundle |-> Size(map, b)])

NoRequest == [id |-> None, text |-> None]
NoPrune == [now |-> 0, todo |-> {}, freed |-> 0, rid |-> None]

(* expires_at_ms.min(now + MAX_BUNDLE_TTL_MS).max(now + 60_000)            *)
ClampExpiry(expires_at_ms) ==
  LET capped == IF expires_at_ms <= now + MAX_BUNDLE_TTL_MS
                THEN expires_at_ms ELSE now + MAX_BUNDLE_TTL_MS
  IN IF capped >= now + MIN_BUNDLE_TTL_MS THEN capped ELSE now + MIN_BUNDLE_TTL_MS

-----------------------------------------------------------------------------
MarkDirty(b) == dirty' = dirty \cup {b} /\ dropped' = dropped \ {b}

Goto(w, from, to) == pc[w] = from /\ pc' = [pc EXCEPT ![w] = to]

(* The request is answered: what the handler knew goes with it.            *)
Answered(w) ==
  /\ pc' = [pc EXCEPT ![w] = "idle"]
  /\ req' = [req EXCEPT ![w] = NoRequest]
  /\ prune' = [prune EXCEPT ![w] = NoPrune]
  /\ old' = [old EXCEPT ![w] = 0]
  /\ stale' = [b \in Bundle |-> stale[b] \ {w}]

(* A new value of b, stored or removed by w: every other request that has  *)
(* already looked at b knows the value before it.                          *)
Looked(v, b) ==
  \/ pc[v] \in {"len", "bytes", "insert"} /\ req[v].id = b
  \/ b \in {x[1] : x \in prune[v].todo}
Renewed(b, w) == stale' = [stale EXCEPT ![b] = {v \in Worker \ {w} : Looked(v, b)}]

(* The bytes of b are not yet in the total: its upload has still to add.   *)
Unadded(b) == \E v \in Worker : pc[v] \in {"sub", "add"} /\ req[v].id = b

(* prune_expired_bundles decides whether the last scan was recent.         *)
PruneRecent == now - last_prune < BUNDLE_PRUNE_MIN_INTERVAL_MS /\ last_prune # 0

AfterPrune(w) == IF req[w].text = None THEN "get" ELSE "check"

Request(w, b, text) ==
  /\ pc[w] = "idle"
  /\ requests < MaxRequests
  /\ requests' = requests + 1
  /\ req' = [req EXCEPT ![w] = [id |-> b, text |-> text]]
  /\ UNCHANGED <<bundles, accounts, dirty, disk, now, crashes, old, fl, history>>

RequestNoPrune(w, b, text) ==
  /\ Request(w, b, text)
  /\ PruneRecent
  /\ pc' = [pc EXCEPT ![w] = IF text = None THEN "get" ELSE "check"]
  /\ UNCHANGED prune

RequestPrune(w, b, text) ==
  /\ Request(w, b, text)
  /\ ~PruneRecent
  /\ pc' = [pc EXCEPT ![w] = "prune_claim"]
  /\ prune' = [prune EXCEPT ![w] = [NoPrune EXCEPT !.now = now]]

PruneClaim(w) ==
  /\ Goto(w, "prune_claim", "prune_scan")
  /\ last_prune' = prune[w].now
  /\ UNCHANGED <<bundles, total, dirty, disk, env, req, prune, old, fl, history>>

(* One look at every entry.  The map is scanned shard by shard, but a      *)
(* bundle stored meanwhile is not expired, so an atomic scan finds at      *)
(* least as much, and as early.                                            *)
ExpiredAt(at) == {<<b, bundles[b].text>> : b \in {x \in Stored(bundles) : bundles[x].expires_at_ms <= at}}

PruneScan(w) ==
  LET expired == ExpiredAt(prune[w].now) IN
  /\ Goto(w, "prune_scan", IF expired = {} THEN AfterPrune(w) ELSE "prune_remove")
  /\ prune' = [prune EXCEPT ![w] = IF expired = {} THEN NoPrune ELSE [@ EXCEPT !.todo = expired]]
  /\ UNCHANGED <<bundles, accounts, dirty, disk, env, req, old, fl, history>>

(* Mutant: what another prune has removed is freed again. *)
PruneRemove_mutant(w, b, len) ==
  /\ Goto(w, "prune_remove", "prune_mark")
  /\ <<b, len>> \in prune[w].todo
  /\ prune' = [prune EXCEPT ![w].todo = @ \ {<<b, len>>}, ![w].freed = @ + len, ![w].rid = b]
  /\ bundles' = [bundles EXCEPT ![b] = None]
  /\ drifted' = (drifted \/ (bundles[b] # None /\ bundles[b].text # len) \/ Unadded(b))
  /\ Renewed(b, w)
  /\ UNCHANGED <<accounts, dirty, disk, env, req, old, fl, dropped>>

(* bundles.remove(&id): whatever is stored there now goes, and the length  *)
(* seen by the scan is what is freed.                                      *)
PruneRemove(w, b, len) ==
  /\ Goto(w, "prune_remove", "prune_mark")
  /\ <<b, len>> \in prune[w].todo
  /\ bundles[b] # None
  /\ prune' = [prune EXCEPT ![w].todo = @ \ {<<b, len>>}, ![w].freed = @ + len, ![w].rid = b]
  /\ bundles' = [bundles EXCEPT ![b] = None]
  /\ drifted' = (drifted \/ bundles[b].text # len \/ Unadded(b))
  /\ Renewed(b, w)
  /\ UNCHANGED <<accounts, dirty, disk, env, req, old, fl, dropped>>

PruneGone(w, b, len) ==
  /\ pc[w] = "prune_remove"
  /\ <<b, len>> \in prune[w].todo
  /\ bundles[b] = None
  /\ prune' = [prune EXCEPT ![w].todo = @ \ {<<b, len>>}]
  /\ UNCHANGED <<bundles, accounts, dirty, disk, env, pc, req, old, fl, history>>

(* Mutant: a pruned bundle is not marked. *)
PruneMark_mutant(w) ==
  /\ Goto(w, "prune_mark", "prune_remove")
  /\ prune' = [prune EXCEPT ![w].rid = None]
  /\ UNCHANGED <<bundles, accounts, dirty, disk, env, req, old, fl, history>>

PruneMark(w) ==
  /\ Goto(w, "prune_mark", "prune_remove")
  /\ MarkDirty(prune[w].rid)
  /\ prune' = [prune EXCEPT ![w].rid = None]
  /\ UNCHANGED <<bundles, accounts, disk, env, req, old, fl, stale, drifted>>

(* Mutant: a wrapping subtraction. *)
PruneSub_mutant(w) ==
  /\ Goto(w, "prune_remove", AfterPrune(w))
  /\ prune[w].todo = {}
  /\ total' = total - prune[w].freed
  /\ prune' = [prune EXCEPT ![w] = NoPrune]
  /\ UNCHANGED <<bundles, last_prune, dirty, disk, env, req, old, fl, history>>

PruneSub(w) ==
  /\ Goto(w, "prune_remove", AfterPrune(w))
  /\ prune[w].todo = {}
  /\ total' = Monus(total, prune[w].freed)
  /\ prune' = [prune EXCEPT ![w] = NoPrune]
  /\ UNCHANGED <<bundles, last_prune, dirty, disk, env, req, old, fl, history>>

-----------------------------------------------------------------------------
(* FetchBundle only reads; an expired bundle is not found.                 *)
FetchGet(w) ==
  /\ pc[w] = "get"
  /\ Answered(w)
  /\ UNCHANGED <<bundles, accounts, dirty, disk, env, fl, drifted, dropped>>

(* UploadBundle.  A live bundle under the id ends the request: with success*)
(* for the same ciphertext, with bundle_exists for another.                *)
UploadExists(w) ==
  /\ pc[w] = "check"
  /\ Live(req[w].id)
  /\ Answered(w)
  /\ UNCHANGED <<bundles, accounts, dirty, disk, env, fl, drifted, dropped>>

(* Mutant: a live bundle does not stop the upload. *)
UploadCheck_mutant(w) ==
  /\ Goto(w, "check", "len")
  /\ UNCHANGED <<bundles, accounts, dirty, disk, env, req, prune, old, fl, history>>

UploadCheck(w) ==
  /\ Goto(w, "check", "len")
  /\ ~Live(req[w].id)
  /\ UNCHANGED <<bundles, accounts, dirty, disk, env, req, prune, old, fl, history>>

TooMany == Cardinality(Stored(bundles)) >= MAX_BUNDLES

(* Mutant: the upload itself is not counted. *)
TooLarge_mutant(len) == total > MAX_TOTAL_BUNDLE_BYTES

TooLarge(len) == total + len > MAX_TOTAL_BUNDLE_BYTES

UploadLen(w) ==
  /\ Goto(w, "len", "bytes")
  /\ ~TooMany
  /\ UNCHANGED <<bundles, accounts, dirty, disk, env, req, prune, old, fl, history>>

UploadBytes(w) ==
  /\ Goto(w, "bytes", "insert")
  /\ ~TooLarge(req[w].text)
  /\ UNCHANGED <<bundles, accounts, dirty, disk, env, req, prune, old, fl, history>>

UploadRefused(w) ==
  /\ \/ pc[w] = "len" /\ TooMany
     \/ pc[w] = "bytes" /\ TooLarge(req[w].text)
  /\ Answered(w)
  /\ UNCHANGED <<bundles, accounts, dirty, disk, env, fl, drifted, dropped>>

UploadInsert(w, expires_at_ms) ==
  LET b == req[w].id IN
  /\ Goto(w, "insert", IF bundles[b] = None THEN "add" ELSE "sub")
  /\ bundles' = [bundles EXCEPT ![b] =
                   [text |-> req[w].text, expires_at_ms |-> ClampExpiry(expires_at_ms)]]
  /\ old' = [old EXCEPT ![w] = IF bundles[b] = None THEN 0 ELSE bundles[b].text]
  /\ drifted' = (drifted \/ (bundles[b] # None /\ Unadded(b)))
  /\ Renewed(b, w)
  /\ UNCHANGED <<accounts, dirty, disk, env, req, prune, fl, dropped>>

UploadSub(w) ==
  /\ Goto(w, "sub", "add")
  /\ total' = Monus(total, old[w])
  /\ old' = [old EXCEPT ![w] = 0]
  /\ UNCHANGED <<bundles, last_prune, dirty, disk, env, req, prune, fl, history>>

UploadAdd(w) ==
  /\ Goto(w, "add", "mark")
  /\ total' = total + req[w].text
  /\ UNCHANGED <<bundles, last_prune, dirty, disk, env, req, prune, old, fl, history>>

(* mark_bundle_dirty, then the acknowledgement. *)
UploadMark(w) ==
  /\ pc[w] = "mark"
  /\ MarkDirty(req[w].id)
  /\ Answered(w)
  /\ UNCHANGED <<bundles, accounts, disk, env, fl, drifted>>

-----------------------------------------------------------------------------
(* The bundle half of flush_dirty_meta.  A failure of the auth half, which *)
(* comes first, leaves the bundles marked and is no step here.             *)
NoFlush == [pc |-> "idle", keys |-> {}, rid |-> None, batch |-> {}, value |-> NoBundles]

FlushScan ==
  /\ fl.pc = "idle"
  /\ dirty # {}
  /\ fl' = [NoFlush EXCEPT !.pc = "take", !.keys = dirty]
  /\ UNCHANGED <<bundles, accounts, dirty, disk, env, calls, history>>

FlushTake(b) ==
  /\ fl.pc = "take"
  /\ b \in fl.keys
  /\ dirty' = dirty \ {b}
  /\ fl' = [fl EXCEPT !.pc = "read", !.keys = @ \ {b}, !.rid = b]
  /\ UNCHANGED <<bundles, accounts, disk, env, calls, history>>

FlushRead ==
  /\ fl.pc = "read"
  /\ fl' = [fl EXCEPT !.pc = "take", !.rid = None,
                      !.batch = @ \cup {fl.rid}, !.value[fl.rid] = bundles[fl.rid]]
  /\ UNCHANGED <<bundles, accounts, dirty, disk, env, calls, history>>

FlushWrite ==
  /\ fl.pc = "take"
  /\ fl.keys = {}
  /\ disk' = [b \in Bundle |-> IF b \in fl.batch THEN fl.value[b] ELSE disk[b]]
  /\ fl' = NoFlush
  /\ UNCHANGED <<bundles, accounts, dirty, env, calls, history>>

FlushFails ==
  /\ fl.pc = "take"
  /\ fl.keys = {}
  /\ fl' = NoFlush
  /\ dropped' = dropped \cup fl.batch
  /\ UNCHANGED <<bundles, accounts, dirty, disk, env, calls, stale, drifted>>

-----------------------------------------------------------------------------
(* AppState::build counts what it loads. *)
Crash ==
  /\ crashes < MaxCrashes
  /\ crashes' = crashes + 1
  /\ bundles' = disk
  /\ total' = TextBytes(disk)
  /\ last_prune' = 0
  /\ dirty' = {}
  /\ pc' = [w \in Worker |-> "idle"]
  /\ req' = [w \in Worker |-> NoRequest]
  /\ prune' = [w \in Worker |-> NoPrune]
  /\ old' = [w \in Worker |-> 0]
  /\ fl' = NoFlush
  /\ stale' = [b \in Bundle |-> {}]
  /\ drifted' = FALSE
  /\ dropped' = {}
  /\ UNCHANGED <<disk, now, requests>>

Tick ==
  /\ now < MaxNow
  /\ now' = now + 1
  /\ UNCHANGED <<bundles, accounts, dirty, disk, crashes, requests, calls, fl, history>>

Init ==
  /\ bundles = NoBundles /\ disk = NoBundles
  /\ total = 0 /\ last_prune = 0
  /\ dirty = {}
  /\ now = 1 /\ crashes = 0 /\ requests = 0
  /\ pc = [w \in Worker |-> "idle"]
  /\ req = [w \in Worker |-> NoRequest]
  /\ prune = [w \in Worker |-> NoPrune]
  /\ old = [w \in Worker |-> 0]
  /\ fl = NoFlush
  /\ stale = [b \in Bundle |-> {}]
  /\ drifted = FALSE
  /\ dropped = {}

Requests(w) ==
  \E b \in Bundle, text \in Text \cup {None} : RequestNoPrune(w, b, text) \/ RequestPrune(w, b, text)

Prune(w) ==
  \/ PruneClaim(w) \/ PruneScan(w) \/ PruneMark(w) \/ PruneSub(w)
  \/ \E b \in Bundle, len \in Text : PruneRemove(w, b, len) \/ PruneGone(w, b, len)

Upload(w) ==
  \/ UploadExists(w) \/ UploadCheck(w) \/ UploadLen(w) \/ UploadBytes(w) \/ UploadRefused(w)
  \/ \E expires_at_ms \in 0 .. MaxNow + MAX_BUNDLE_TTL_MS + 1 : UploadInsert(w, expires_at_ms)
  \/ UploadSub(w) \/ UploadAdd(w) \/ UploadMark(w)

Flush ==
  \/ FlushScan \/ FlushRead \/ FlushWrite \/ FlushFails
  \/ \E b \in Bundle : FlushTake(b)

Next ==
  \/ \E w \in Worker : Requests(w) \/ Prune(w) \/ FetchGet(w) \/ Upload(w)
  \/ Flush
  \/ Crash
  \/ Tick

Spec == Init /\ [][Next]_vars

-----------------------------------------------------------------------------
PC == {"idle", "prune_claim", "prune_scan", "prune_remove", "prune_mark", "get",
       "check", "len", "bytes", "insert", "sub", "add", "mark"}

Value == Hosted \cup {None}
ReqRec == [id : Bundle \cup {None}, text : Text \cup {None}]
PruneRec == [now : 0 .. MaxNow, todo : SUBSET (Bundle \X Text), freed : Nat, rid : Bundle \cup {None}]
FlushRec == [pc : {"idle", "take", "read"}, keys : SUBSET Bundle, rid : Bundle \cup {None},
             batch : SUBSET Bundle, value : [Bundle -> Value]]

(* Type invariant. *)
TypeOK ==
  /\ bundles \in [Bundle -> Value] /\ disk \in [Bundle -> Value]
  /\ total \in Nat /\ last_prune \in 0 .. MaxNow
  /\ dirty \subseteq Bundle
  /\ now \in 1 .. MaxNow /\ crashes \in 0 .. MaxCrashes /\ requests \in 0 .. MaxRequests
  /\ pc \in [Worker -> PC]
  /\ req \in [Worker -> ReqRec] /\ prune \in [Worker -> PruneRec] /\ old \in [Worker -> Text \cup {0}]
  /\ \A w \in Worker :
       /\ pc[w] # "idle" => req[w].id # None
       /\ pc[w] \in {"check", "len", "bytes", "insert", "sub", "add", "mark"} => req[w].text # None
       /\ pc[w] = "prune_mark" => prune[w].rid # None
  /\ fl \in FlushRec /\ (fl.pc = "read" => fl.rid # None)
  /\ stale \in [Bundle -> SUBSET Worker] /\ drifted \in BOOLEAN /\ dropped \subseteq Bundle

(* What requests in progress have still to add to, or take off, the total. *)
Adding == SumFunction([w \in Worker |-> IF pc[w] \in {"sub", "add"} THEN req[w].text ELSE 0])
Taking == SumFunction([w \in Worker |-> old[w] + prune[w].freed])

(* "keeping the bundle byte total in sync": the total is the bytes stored, *)
(* up to what requests in progress still owe, whichever uploads and prunes *)
(* interleave, except after one of two races on a single id: a bundle is   *)
(* replaced or removed before its own upload has added its bytes, or a     *)
(* prune removes a bundle of another length than the one its scan saw.     *)
TotalExact == ~drifted => total + Adding = TextBytes(bundles) + Taking

(* Both caps are checked before the insert, so uploads that run at once    *)
(* may pass them together, but each by one bundle only: no upload leaves   *)
(* more than the caps plus one bundle per other request in progress,       *)
(* whatever expired bundles, prunes and restarts do to the two accounts.   *)
OvershootBounded ==
  [][crashes' = crashes /\ ~drifted' =>
       /\ Stored(bundles') \ Stored(bundles) # {} =>
            Cardinality(Stored(bundles')) <= MAX_BUNDLES + Cardinality(Worker) - 1
       /\ TextBytes(bundles') > TextBytes(bundles) =>
            TextBytes(bundles') <= MAX_TOTAL_BUNDLE_BYTES + (Cardinality(Worker) - 1) * Max(Text)]_vars

(* "Never let one upload replace another live bundle under the same id":   *)
(* a live bundle changes only at the hands of a request that had looked at *)
(* the map before the bundle was stored.                                   *)
LiveKept ==
  [][crashes' = crashes =>
       \A b \in Bundle : Live(b) /\ bundles'[b] # bundles[b] =>
         \E w \in stale[b] : pc'[w] # pc[w]]_vars

(* The write-back will see the present value of b.                         *)
Marking(b) ==
  \E w \in Worker :
    \/ req[w].id = b /\ pc[w] \in {"sub", "add", "mark"}
    \/ prune[w].rid = b
Covered(b) ==
  \/ disk[b] = bundles[b] /\ b \notin fl.batch
  \/ b \in dirty
  \/ fl.pc = "read" /\ fl.rid = b
  \/ b \in fl.batch /\ fl.value[b] = bundles[b]
  \/ Marking(b)

(* "a flush can write a value twice but never loses the latest write": no  *)
(* interleaving of uploads, prunes and flushes leaves the table different  *)
(* from the map with nothing left to correct it, except for the batch of a *)
(* transaction that failed, which nobody marks again.                      *)
WriteBackCovers == \A b \in Bundle : Covered(b) \/ b \in dropped
=============================================================================
