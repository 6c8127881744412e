------------------------- MODULE BundleStoreProofs --------------------------
(***************************************************************************)
(* Proofs about BundleStore for any number of bundles and of concurrent    *)
(* requests: type correctness, the byte total, the write-back, the bound   *)
(* on what concurrent uploads may add to the caps, and that a live bundle  *)
(* is only ever replaced by a request that looked before it was stored.    *)
(***************************************************************************)
EXTENDS BundleStore, DataLemmas

(* What a request holds, by its step; a prune's clock is never ahead.      *)
CallsTidy ==
  \A w \in Worker :
    /\ pc[w] \notin {"prune_remove", "prune_mark"} => prune[w].todo = {} /\ prune[w].freed = 0
    /\ pc[w] # "prune_mark" => prune[w].rid = None
    /\ pc[w] # "sub" => old[w] = 0
    /\ prune[w].now <= now
FlushTidy == fl.pc = "idle" => fl.batch = {}

(* A request that has looked at a bundle knows it is not live, or that it  *)
(* has been stored since.                                                  *)
LookedSound ==
  \A w \in Worker, b \in Bundle : Looked(w, b) => w \in stale[b] \/ ~Live(b)

(* A bundle whose bytes its upload has still to add is there, and no other *)
(* upload of that id has still to add.                                     *)
Owing == {"sub", "add"}
AddsSound == ~drifted =>
  \A w \in Worker : pc[w] \in Owing =>
    /\ bundles[req[w].id] # None /\ bundles[req[w].id].text = req[w].text
    /\ \A v \in Worker : pc[v] \in Owing /\ req[v].id = req[w].id => v = w

(* The bytes the total has counted in.                                     *)
CountedBytes == SumFunction([b \in Bundle |-> IF Unadded(b) THEN 0 ELSE Size(bundles, b)])
TotalSplit == ~drifted =>
  /\ total = CountedBytes + Taking
  /\ TextBytes(bundles) = CountedBytes + Adding

(* What the checks of both caps promise the inserts that follow.           *)
Passed == {w \in Worker : pc[w] \in {"bytes", "insert"}}
Approved == {w \in Worker : pc[w] \in {"insert", "sub", "add"}}
ApprovedBytes == SumFunction([w \in Worker |-> IF w \in Approved THEN req[w].text ELSE 0])
CountAhead ==
  Passed # {} =>
    Cardinality(Stored(bundles)) + Cardinality(Passed) <= MAX_BUNDLES + Cardinality(Worker) - 1
BytesAhead ==
  Approved # {} =>
    total + ApprovedBytes <= MAX_TOTAL_BUNDLE_BYTES + (Cardinality(Worker) - 1) * Max(Text)

-----------------------------------------------------------------------------
Uploading == {"check", "len", "bytes", "insert", "sub", "add", "mark"}

(* The records a call starts and ends with.                                *)
LEMMA EmptyRecords ==
  /\ NoRequest \in ReqRec /\ NoFlush \in FlushRec /\ NoBundles \in [Bundle -> Value]
  /\ \A n \in 0 .. MaxNow : [NoPrune EXCEPT !.now = n] \in PruneRec
  /\ NoPrune \in PruneRec
<1>1. 0 \in 0 .. MaxNow /\ 0 \in Nat
  BY BoundAssumption
<1>2. NoPrune \in PruneRec
  BY <1>1 DEF NoPrune, PruneRec
<1>3. \A n \in 0 .. MaxNow : [NoPrune EXCEPT !.now = n] \in PruneRec
  BY <1>2 DEF PruneRec
<1> QED
  BY <1>2, <1>3 DEF NoRequest, ReqRec, NoFlush, FlushRec, NoBundles, Value

(* The expiry of an upload is a time to come.                              *)
LEMMA ExpiryLater ==
  ASSUME TypeOK, NEW e \in Nat
  PROVE  ClampExpiry(e) \in Nat /\ ClampExpiry(e) > now
BY CapAssumption DEF TypeOK, ClampExpiry

(* The bytes of a map of bundles.                                          *)
LEMMA MapBytes ==
  ASSUME NEW map \in [Bundle -> Value]
  PROVE  /\ [b \in Bundle |-> Size(map, b)] \in [Bundle -> Nat]
         /\ TextBytes(map) \in Nat
<1>1. \A b \in Bundle : Size(map, b) \in Nat
  BY CapAssumption DEF Size, Value, Hosted
<1> DEFINE f == [b \in Bundle |-> Size(map, b)]
<1>2. f \in [Bundle -> Nat]
  BY <1>1
<1> HIDE DEF f
<1>3. SumFunction(f) \in Nat
  BY <1>2, SetsAssumption, TotalNat
<1> QED
  BY <1>2, <1>3 DEF f, TextBytes

(* The lengths calls hold are naturals.                                    *)
LEMMA LengthsNat ==
  ASSUME TypeOK
  PROVE  \A w \in Worker : /\ old[w] \in Nat /\ prune[w].freed \in Nat /\ prune[w].now \in 0 .. MaxNow
                           /\ pc[w] \in Uploading => req[w].text \in Text /\ req[w].text \in Nat
                           /\ pc[w] # "idle" => req[w].id \in Bundle
<1> TAKE w \in Worker
<1>1. old[w] \in Nat
  <2>1. old[w] \in Text \cup {0}
    BY DEF TypeOK
  <2>2. CASE old[w] \in Text
    BY <2>2, CapAssumption
  <2> QED
    BY <2>1, <2>2
<1>2. prune[w].freed \in Nat /\ prune[w].now \in 0 .. MaxNow
  BY DEF TypeOK, PruneRec
<1>3. pc[w] \in Uploading => req[w].text \in Text
  BY DEF TypeOK, Uploading, ReqRec
<1>4. pc[w] # "idle" => req[w].id \in Bundle
  BY DEF TypeOK, ReqRec
<1> QED
  BY <1>1, <1>2, <1>3, <1>4, CapAssumption

(* What the steps of a prune make of its record.                           *)
LEMMA ScanEffect ==
  ASSUME TypeOK, NEW w \in Worker, PruneScan(w),
         NEW expired, expired = ExpiredAt(prune[w].now), expired # {}
  PROVE  /\ prune' \in [Worker -> PruneRec]
         /\ prune'[w].now = prune[w].now /\ prune'[w].todo = expired
         /\ prune'[w].freed = prune[w].freed /\ prune'[w].rid = prune[w].rid
         /\ \A v \in Worker \ {w} : prune'[v] = prune[v]
<1>1. prune \in [Worker -> PruneRec] /\ bundles \in [Bundle -> Value]
  BY DEF TypeOK
<1>2. expired \in SUBSET (Bundle \X Text)
  BY <1>1 DEF ExpiredAt, Stored, Hosted, Value
<1>3. PICK p \in PruneRec : p = prune[w]
  BY <1>1
<1>4. PICK q : q = [p EXCEPT !.todo = expired]
  OBVIOUS
<1>5. prune' = [prune EXCEPT ![w] = q]
  BY <1>3, <1>4 DEF PruneScan
<1>6. q \in PruneRec /\ q.now = p.now /\ q.todo = expired /\ q.freed = p.freed /\ q.rid = p.rid
  BY <1>2, <1>4 DEF PruneRec
<1> QED
  BY <1>1, <1>3, <1>5, <1>6

(* A pruned bundle leaves the prune call's list and its size is owed.      *)
LEMMA RemoveEffect ==
  ASSUME TypeOK, NEW w \in Worker, NEW b \in Bundle, NEW len \in Text, PruneRemove(w, b, len)
  PROVE  /\ prune' \in [Worker -> PruneRec]
         /\ prune'[w].now = prune[w].now /\ prune'[w].todo = prune[w].todo \ {<<b, len>>}
         /\ prune'[w].freed = prune[w].freed + len /\ prune'[w].rid = b
         /\ \A v \in Worker \ {w} : prune'[v] = prune[v]
<1>1. prune \in [Worker -> PruneRec]
  BY DEF TypeOK
<1>2. len \in Nat /\ prune[w].freed + len \in Nat
  BY <1>1, CapAssumption DEF PruneRec
<1>3. prune' = [prune EXCEPT ![w].todo = @ \ {<<b, len>>}, ![w].freed = @ + len, ![w].rid = b]
  BY DEF PruneRemove
<1> QED
  BY <1>1, <1>2, <1>3 DEF PruneRec

(* A bundle that is no longer there leaves the list, and nothing is owed   *)
(* for it.                                                                 *)
LEMMA GoneEffect ==
  ASSUME TypeOK, NEW w \in Worker, NEW b \in Bundle, NEW len \in Text, PruneGone(w, b, len)
  PROVE  /\ prune' \in [Worker -> PruneRec]
         /\ prune'[w].now = prune[w].now /\ prune'[w].todo = prune[w].todo \ {<<b, len>>}
         /\ prune'[w].freed = prune[w].freed /\ prune'[w].rid = prune[w].rid
         /\ \A v \in Worker \ {w} : prune'[v] = prune[v]
<1>1. prune \in [Worker -> PruneRec]
  BY DEF TypeOK
<1>2. prune' = [prune EXCEPT ![w].todo = @ \ {<<b, len>>}]
  BY DEF PruneGone
<1> QED
  BY <1>1, <1>2 DEF PruneRec

(* Marking the pruned bundle dirty ends the work on it.                    *)
LEMMA MarkEffect ==
  ASSUME TypeOK, NEW w \in Worker, PruneMark(w)
  PROVE  /\ prune' \in [Worker -> PruneRec]
         /\ prune'[w].now = prune[w].now /\ prune'[w].todo = prune[w].todo
         /\ prune'[w].freed = prune[w].freed /\ prune'[w].rid = None
         /\ \A v \in Worker \ {w} : prune'[v] = prune[v]
<1>1. prune \in [Worker -> PruneRec]
  BY DEF TypeOK
<1>2. prune' = [prune EXCEPT ![w].rid = None]
  BY DEF PruneMark
<1> QED
  BY <1>1, <1>2 DEF PruneRec

(* A step of one request: the others keep what they hold, and it holds what*)
(* belongs to its next step.                                               *)
OthersKept(w) ==
  \A v \in Worker \ {w} :
    pc'[v] = pc[v] /\ req'[v] = req[v] /\ prune'[v] = prune[v] /\ old'[v] = old[v]
CallTyped(w) ==
  /\ pc'[w] # "idle" => req'[w].id # None
  /\ pc'[w] \in Uploading => req'[w].text # None
  /\ pc'[w] = "prune_mark" => prune'[w].rid # None
  /\ pc'[w] \notin {"prune_remove", "prune_mark"} => prune'[w].todo = {} /\ prune'[w].freed = 0
  /\ pc'[w] # "prune_mark" => prune'[w].rid = None
  /\ pc'[w] # "sub" => old'[w] = 0
  /\ prune'[w].now <= now
CallsTyped ==
  /\ pc' \in [Worker -> PC] /\ req' \in [Worker -> ReqRec]
  /\ prune' \in [Worker -> PruneRec] /\ old' \in [Worker -> Text \cup {0}]
RestTyped ==
  /\ bundles' \in [Bundle -> Value] /\ total' \in Nat /\ last_prune' \in 0 .. MaxNow
  /\ dirty' \subseteq Bundle /\ requests' \in 0 .. MaxRequests
  /\ stale' \in [Bundle -> SUBSET Worker] /\ drifted' \in BOOLEAN /\ dropped' \subseteq Bundle
  /\ UNCHANGED <<disk, now, crashes, fl>>

(* Such a step keeps the types.                                            *)
LEMMA CallStepTyped ==
  ASSUME TypeOK, CallsTidy, FlushTidy, NEW w \in Worker,
         OthersKept(w), CallTyped(w), CallsTyped, RestTyped
  PROVE  TypeOK' /\ CallsTidy' /\ FlushTidy'
<1>1. TypeOK'
  BY DEF TypeOK, OthersKept, CallTyped, CallsTyped, RestTyped, Uploading
<1>2. CallsTidy' /\ FlushTidy'
  BY DEF CallsTidy, FlushTidy, OthersKept, CallTyped, RestTyped
<1> QED
  BY <1>1, <1>2

(* The request is answered.                                                *)
LEMMA AnsweredTyped ==
  ASSUME TypeOK, NEW w \in Worker, Answered(w)
  PROVE  OthersKept(w) /\ CallTyped(w) /\ CallsTyped /\ stale' \in [Bundle -> SUBSET Worker]
<1>0. /\ pc \in [Worker -> PC] /\ req \in [Worker -> ReqRec] /\ prune \in [Worker -> PruneRec]
      /\ old \in [Worker -> Text \cup {0}] /\ stale \in [Bundle -> SUBSET Worker]
  BY DEF TypeOK
<1>1. /\ pc' = [pc EXCEPT ![w] = "idle"] /\ req' = [req EXCEPT ![w] = NoRequest]
      /\ prune' = [prune EXCEPT ![w] = NoPrune] /\ old' = [old EXCEPT ![w] = 0]
  BY DEF Answered
<1>2. OthersKept(w)
  BY <1>0, <1>1 DEF OthersKept
<1>3. CallsTyped
  BY <1>0, <1>1, EmptyRecords DEF CallsTyped, PC
<1>4. pc'[w] = "idle" /\ prune'[w] = NoPrune /\ old'[w] = 0
  BY <1>0, <1>1
<1>5. CallTyped(w)
  BY <1>4 DEF CallTyped, NoPrune, Uploading, TypeOK
<1>6. stale' \in [Bundle -> SUBSET Worker]
  BY <1>0 DEF Answered
<1> QED
  BY <1>2, <1>3, <1>5, <1>6

(* Each step keeps the types and the tidiness of calls and flush.          *)
LEMMA TypeStep ==
  ASSUME TypeOK, CallsTidy, FlushTidy, [Next]_vars
  PROVE  TypeOK' /\ CallsTidy' /\ FlushTidy'
<1> DEFINE Good == TypeOK' /\ CallsTidy' /\ FlushTidy'
<1>0. /\ pc \in [Worker -> PC] /\ req \in [Worker -> ReqRec] /\ prune \in [Worker -> PruneRec]
      /\ old \in [Worker -> Text \cup {0}] /\ fl \in FlushRec
      /\ now \in 1 .. MaxNow /\ crashes \in 0 .. MaxCrashes /\ requests \in 0 .. MaxRequests
      /\ bundles \in [Bundle -> Value] /\ disk \in [Bundle -> Value]
      /\ total \in Nat /\ last_prune \in 0 .. MaxNow /\ dirty \subseteq Bundle
      /\ stale \in [Bundle -> SUBSET Worker] /\ drifted \in BOOLEAN /\ dropped \subseteq Bundle
      /\ \A w \in Worker : /\ pc[w] # "idle" => req[w].id # None
                           /\ pc[w] \in Uploading => req[w].text # None
                           /\ pc[w] = "prune_mark" => prune[w].rid # None
  BY DEF TypeOK, Uploading
<1>00. \A w \in Worker :
         /\ pc[w] \notin {"prune_remove", "prune_mark"} => prune[w].todo = {} /\ prune[w].freed = 0
         /\ pc[w] # "prune_mark" => prune[w].rid = None
         /\ pc[w] # "sub" => old[w] = 0
         /\ prune[w].now <= now
  BY DEF CallsTidy
<1> USE DEF Goto, accounts, calls, history, env
<1>1. ASSUME NEW w \in Worker, NEW b \in Bundle, NEW text \in Text \cup {None},
             RequestNoPrune(w, b, text)
      PROVE  Good
  <2>1. PICK q \in ReqRec : q.id = b /\ q.text = text /\ req' = [req EXCEPT ![w] = q]
    BY <1>1 DEF RequestNoPrune, Request, ReqRec
  <2>2. /\ pc[w] = "idle" /\ pc' = [pc EXCEPT ![w] = IF text = None THEN "get" ELSE "check"]
        /\ prune' = prune /\ old' = old /\ requests' = requests + 1 /\ requests < MaxRequests
        /\ UNCHANGED <<bundles, total, last_prune, dirty, disk, now, crashes, fl, stale, drifted, dropped>>
    BY <1>1 DEF RequestNoPrune, Request
  <2>3. OthersKept(w) /\ CallsTyped
    BY <1>0, <2>1, <2>2 DEF OthersKept, CallsTyped, PC
  <2>4. RestTyped
    BY <1>0, <2>2, BoundAssumption DEF RestTyped
  <2>5. CallTyped(w)
    BY <1>0, <1>00, <2>1, <2>2, SetsAssumption DEF CallTyped, Uploading
  <2> QED
    BY <2>3, <2>4, <2>5, CallStepTyped
<1>2. ASSUME NEW w \in Worker, NEW b \in Bundle, NEW text \in Text \cup {None},
             RequestPrune(w, b, text)
      PROVE  Good
  <2>1. PICK q \in ReqRec : q.id = b /\ q.text = text /\ req' = [req EXCEPT ![w] = q]
    BY <1>2 DEF RequestPrune, Request, ReqRec
  <2>2. /\ pc[w] = "idle" /\ pc' = [pc EXCEPT ![w] = "prune_claim"]
        /\ prune' = [prune EXCEPT ![w] = [NoPrune EXCEPT !.now = now]]
        /\ old' = old /\ requests' = requests + 1 /\ requests < MaxRequests
        /\ UNCHANGED <<bundles, total, last_prune, dirty, disk, now, crashes, fl, stale, drifted, dropped>>
    BY <1>2 DEF RequestPrune, Request
  <2>3. now \in 0 .. MaxNow /\ now <= now
    BY <1>0
  <2>4. PICK p \in PruneRec : /\ p.todo = {} /\ p.freed = 0 /\ p.rid = None /\ p.now = now
                              /\ prune' = [prune EXCEPT ![w] = p]
    BY <2>2, <2>3, EmptyRecords DEF NoPrune
  <2>5. OthersKept(w) /\ CallsTyped
    BY <1>0, <2>1, <2>2, <2>4 DEF OthersKept, CallsTyped, PC
  <2>6. RestTyped
    BY <1>0, <2>2, BoundAssumption DEF RestTyped
  <2>7. CallTyped(w)
    BY <1>0, <1>00, <2>1, <2>2, <2>3, <2>4, SetsAssumption DEF CallTyped, Uploading
  <2> QED
    BY <2>5, <2>6, <2>7, CallStepTyped
<1>3. ASSUME NEW w \in Worker, PruneClaim(w)
      PROVE  Good
  <2>1. OthersKept(w) /\ CallsTyped
    BY <1>0, <1>3 DEF PruneClaim, OthersKept, CallsTyped, PC
  <2>2. RestTyped
    BY <1>0, <1>3, LengthsNat DEF PruneClaim, RestTyped
  <2>3. CallTyped(w)
    BY <1>0, <1>00, <1>3 DEF PruneClaim, CallTyped, Uploading
  <2> QED
    BY <2>1, <2>2, <2>3, CallStepTyped
<1>4. ASSUME NEW w \in Worker, PruneScan(w)
      PROVE  Good
  <2>1. PICK expired : expired = ExpiredAt(prune[w].now)
    OBVIOUS
  <2>2. /\ pc[w] = "prune_scan"
        /\ UNCHANGED <<bundles, accounts, dirty, disk, env, req, old, fl, history>>
    BY <1>4 DEF PruneScan
  <2>3. RestTyped
    BY <1>0, <2>2 DEF RestTyped
  <2>4. CASE expired = {}
    <3>1. pc' = [pc EXCEPT ![w] = AfterPrune(w)] /\ prune' = [prune EXCEPT ![w] = NoPrune]
      BY <1>4, <2>1, <2>4 DEF PruneScan
    <3>2. OthersKept(w) /\ CallsTyped
      BY <1>0, <2>2, <3>1, EmptyRecords DEF OthersKept, CallsTyped, PC, AfterPrune
    <3>3. CallTyped(w)
      BY <1>0, <1>00, <2>2, <3>1 DEF CallTyped, Uploading, NoPrune, AfterPrune
    <3> QED
      BY <2>3, <3>2, <3>3, CallStepTyped
  <2>5. CASE expired # {}
    <3>1. pc' = [pc EXCEPT ![w] = "prune_remove"]
      BY <1>4, <2>1, <2>5 DEF PruneScan
    <3>2. OthersKept(w) /\ CallsTyped
      BY <1>0, <1>4, <2>1, <2>2, <2>5, <3>1, ScanEffect DEF OthersKept, CallsTyped, PC
    <3>3. CallTyped(w)
      BY <1>0, <1>00, <1>4, <2>1, <2>2, <2>5, <3>1, ScanEffect DEF CallTyped, Uploading
    <3> QED
      BY <2>3, <3>2, <3>3, CallStepTyped
  <2> QED
    BY <2>4, <2>5
<1>5. ASSUME NEW w \in Worker, NEW b \in Bundle, NEW len \in Text, PruneRemove(w, b, len)
      PROVE  Good
  <2>1. /\ pc[w] = "prune_remove" /\ pc' = [pc EXCEPT ![w] = "prune_mark"]
        /\ bundles' = [bundles EXCEPT ![b] = None] /\ drifted' \in BOOLEAN
        /\ UNCHANGED <<accounts, dirty, disk, env, req, old, fl, dropped>>
    BY <1>0, <1>5 DEF PruneRemove
  <2>3. OthersKept(w) /\ CallsTyped
    BY <1>0, <1>5, <2>1, RemoveEffect DEF OthersKept, CallsTyped, PC
  <2>4. stale' \in [Bundle -> SUBSET Worker]
    BY <1>0, <1>5 DEF PruneRemove, Renewed
  <2>5. RestTyped
    BY <1>0, <2>1, <2>4 DEF RestTyped, Value
  <2>6. CallTyped(w)
    BY <1>0, <1>00, <1>5, <2>1, RemoveEffect, SetsAssumption DEF CallTyped, Uploading
  <2> QED
    BY <2>3, <2>5, <2>6, CallStepTyped
<1>6. ASSUME NEW w \in Worker, NEW b \in Bundle, NEW len \in Text, PruneGone(w, b, len)
      PROVE  Good
  <2>1. /\ pc[w] = "prune_remove"
        /\ UNCHANGED <<bundles, accounts, dirty, disk, env, pc, req, old, fl, history>>
    BY <1>6 DEF PruneGone
  <2>3. OthersKept(w) /\ CallsTyped
    BY <1>0, <1>6, <2>1, GoneEffect DEF OthersKept, CallsTyped, PC
  <2>4. RestTyped
    BY <1>0, <2>1 DEF RestTyped
  <2>5. CallTyped(w)
    BY <1>0, <1>00, <1>6, <2>1, GoneEffect DEF CallTyped, Uploading
  <2> QED
    BY <2>3, <2>4, <2>5, CallStepTyped
<1>7. ASSUME NEW w \in Worker, PruneMark(w)
      PROVE  Good
  <2>1. /\ pc[w] = "prune_mark" /\ pc' = [pc EXCEPT ![w] = "prune_remove"]
        /\ dirty' = dirty \cup {prune[w].rid} /\ dropped' = dropped \ {prune[w].rid}
        /\ UNCHANGED <<bundles, accounts, disk, env, req, old, fl, stale, drifted>>
    BY <1>7 DEF PruneMark, MarkDirty
  <2>3. OthersKept(w) /\ CallsTyped
    BY <1>0, <1>7, <2>1, MarkEffect DEF OthersKept, CallsTyped, PC
  <2>4. RestTyped
    <3>1. prune[w].rid \in Bundle
      BY <1>0, <2>1 DEF PruneRec
    <3> QED
      BY <1>0, <2>1, <3>1 DEF RestTyped
  <2>5. CallTyped(w)
    BY <1>0, <1>00, <1>7, <2>1, MarkEffect DEF CallTyped, Uploading
  <2> QED
    BY <2>3, <2>4, <2>5, CallStepTyped
<1>8. ASSUME NEW w \in Worker, PruneSub(w)
      PROVE  Good
  <2>1. /\ pc[w] = "prune_remove" /\ pc' = [pc EXCEPT ![w] = AfterPrune(w)]
        /\ prune' = [prune EXCEPT ![w] = NoPrune] /\ total' = Monus(total, prune[w].freed)
        /\ UNCHANGED <<bundles, last_prune, dirty, disk, env, req, old, fl, history>>
    BY <1>8 DEF PruneSub
  <2>2. OthersKept(w) /\ CallsTyped
    BY <1>0, <2>1, EmptyRecords DEF OthersKept, CallsTyped, PC, AfterPrune
  <2>3. Monus(total, prune[w].freed) \in Nat
    BY <1>0, LengthsNat DEF Monus
  <2>4. RestTyped
    BY <1>0, <2>1, <2>3 DEF RestTyped
  <2>5. CallTyped(w)
    BY <1>0, <1>00, <2>1 DEF CallTyped, Uploading, NoPrune, AfterPrune
  <2> QED
    BY <2>2, <2>4, <2>5, CallStepTyped
<1>9. ASSUME NEW w \in Worker, FetchGet(w) \/ UploadExists(w) \/ UploadRefused(w)
      PROVE  Good
  <2>1. Answered(w) /\ UNCHANGED <<bundles, accounts, dirty, disk, env, fl, drifted, dropped>>
    BY <1>9 DEF FetchGet, UploadExists, UploadRefused
  <2>2. RestTyped
    BY <1>0, <2>1, AnsweredTyped DEF RestTyped
  <2> QED
    BY <2>1, <2>2, AnsweredTyped, CallStepTyped
<1>10. ASSUME NEW w \in Worker, UploadMark(w)
       PROVE  Good
  <2>1. /\ Answered(w) /\ UNCHANGED <<bundles, accounts, disk, env, fl, drifted>>
        /\ req[w].id \in Bundle /\ dirty' = dirty \cup {req[w].id} /\ dropped' = dropped \ {req[w].id}
    BY <1>10, LengthsNat DEF UploadMark, MarkDirty
  <2>2. RestTyped
    BY <1>0, <2>1, AnsweredTyped DEF RestTyped
  <2> QED
    BY <2>1, <2>2, AnsweredTyped, CallStepTyped
<1>11. ASSUME NEW w \in Worker, UploadCheck(w) \/ UploadLen(w) \/ UploadBytes(w)
       PROVE  Good
  <2>1. PICK to \in {"len", "bytes", "insert"} :
          /\ pc[w] \in {"check", "len", "bytes"} /\ pc' = [pc EXCEPT ![w] = to]
          /\ UNCHANGED <<bundles, accounts, dirty, disk, env, req, prune, old, fl, history>>
    BY <1>11 DEF UploadCheck, UploadLen, UploadBytes
  <2>2. OthersKept(w) /\ CallsTyped
    BY <1>0, <2>1 DEF OthersKept, CallsTyped, PC
  <2>3. RestTyped
    BY <1>0, <2>1 DEF RestTyped
  <2>4. CallTyped(w)
    BY <1>0, <1>00, <2>1 DEF CallTyped, Uploading
  <2> QED
    BY <2>2, <2>3, <2>4, CallStepTyped
<1>12. ASSUME NEW w \in Worker, NEW e \in 0 .. MaxNow + MAX_BUNDLE_TTL_MS + 1, UploadInsert(w, e)
       PROVE  Good
  <2>1. PICK b \in Bundle : b = req[w].id
    BY <1>12, LengthsNat DEF UploadInsert
  <2>2. PICK h \in Hosted : bundles' = [bundles EXCEPT ![b] = h]
    <3>1. [text |-> req[w].text, expires_at_ms |-> ClampExpiry(e)] \in Hosted
      BY <1>12, LengthsNat, ExpiryLater DEF UploadInsert, Hosted, Uploading
    <3> QED
      BY <1>12, <2>1, <3>1 DEF UploadInsert
  <2>3. PICK to \in Owing, o \in Text \cup {0} :
          /\ pc[w] = "insert" /\ pc' = [pc EXCEPT ![w] = to] /\ old' = [old EXCEPT ![w] = o]
          /\ to # "sub" => o = 0
          /\ UNCHANGED <<accounts, dirty, disk, env, req, prune, fl, dropped>> /\ drifted' \in BOOLEAN
    <3>1. bundles[b] # None => bundles[b].text \in Text
      BY <1>0 DEF Value, Hosted
    <3> QED
      BY <1>0, <1>12, <2>1, <3>1 DEF UploadInsert, Owing
  <2>4. stale' \in [Bundle -> SUBSET Worker]
    BY <1>0, <1>12 DEF UploadInsert, Renewed
  <2>5. OthersKept(w) /\ CallsTyped
    BY <1>0, <2>3 DEF OthersKept, CallsTyped, PC, Owing
  <2>6. RestTyped
    BY <1>0, <2>2, <2>3, <2>4 DEF RestTyped, Value
  <2>7. CallTyped(w)
    BY <1>0, <1>00, <2>3 DEF CallTyped, Uploading, Owing
  <2> QED
    BY <2>5, <2>6, <2>7, CallStepTyped
<1>13. ASSUME NEW w \in Worker, UploadSub(w)
       PROVE  Good
  <2>1. /\ pc[w] = "sub" /\ pc' = [pc EXCEPT ![w] = "add"] /\ old' = [old EXCEPT ![w] = 0]
        /\ total' = Monus(total, old[w])
        /\ UNCHANGED <<bundles, last_prune, dirty, disk, env, req, prune, fl, history>>
    BY <1>13 DEF UploadSub
  <2>2. Monus(total, old[w]) \in Nat
    BY <1>0, LengthsNat DEF Monus
  <2>3. OthersKept(w) /\ CallsTyped
    BY <1>0, <2>1 DEF OthersKept, CallsTyped, PC
  <2>4. RestTyped
    BY <1>0, <2>1, <2>2 DEF RestTyped
  <2>5. CallTyped(w)
    BY <1>0, <1>00, <2>1 DEF CallTyped, Uploading
  <2> QED
    BY <2>3, <2>4, <2>5, CallStepTyped
<1>14. ASSUME NEW w \in Worker, UploadAdd(w)
       PROVE  Good
  <2>1. /\ pc[w] = "add" /\ pc' = [pc EXCEPT ![w] = "mark"] /\ total' = total + req[w].text
        /\ UNCHANGED <<bundles, last_prune, dirty, disk, env, req, prune, old, fl, history>>
    BY <1>14 DEF UploadAdd
  <2>2. total + req[w].text \in Nat
    BY <1>0, <2>1, LengthsNat DEF Uploading
  <2>3. OthersKept(w) /\ CallsTyped
    BY <1>0, <2>1 DEF OthersKept, CallsTyped, PC
  <2>4. RestTyped
    BY <1>0, <2>1, <2>2 DEF RestTyped
  <2>5. CallTyped(w)
    BY <1>0, <1>00, <2>1 DEF CallTyped, Uploading
  <2> QED
    BY <2>3, <2>4, <2>5, CallStepTyped
<1>15. CASE Flush
  <2>1. /\ UNCHANGED <<bundles, accounts, env, calls, stale, drifted>>
        /\ dirty' \subseteq dirty /\ dropped' \subseteq Bundle
    BY <1>0, <1>15 DEF Flush, FlushScan, FlushRead, FlushWrite, FlushFails, FlushTake, FlushRec
  <2>2. disk' \in [Bundle -> Value]
    <3>1. CASE FlushWrite
      BY <1>0, <3>1 DEF FlushWrite, FlushRec
    <3> QED
      BY <1>0, <1>15, <3>1 DEF Flush, FlushScan, FlushRead, FlushFails, FlushTake
  <2>3. fl' \in FlushRec /\ (fl'.pc = "read" => fl'.rid # None) /\ (fl'.pc = "idle" => fl'.batch = {})
    <3>1. CASE FlushScan
      BY <1>0, <3>1 DEF FlushScan, NoFlush, FlushRec, NoBundles, Value
    <3>2. ASSUME NEW b \in Bundle, FlushTake(b)
          PROVE  fl' \in FlushRec /\ fl'.pc = "read" /\ fl'.rid # None
      BY <1>0, <3>2, SetsAssumption DEF FlushTake, FlushRec
    <3>3. CASE FlushRead
      <4>1. fl.rid \in Bundle
        BY <1>0, <3>3 DEF FlushRead, FlushRec, TypeOK
      <4>2. bundles[fl.rid] \in Value
        BY <1>0, <4>1
      <4> QED
        BY <1>0, <3>3, <4>1, <4>2 DEF FlushRead, FlushRec
    <3>4. CASE FlushWrite \/ FlushFails
      BY <3>4, EmptyRecords DEF FlushWrite, FlushFails, NoFlush
    <3> QED
      BY <1>15, <3>1, <3>2, <3>3, <3>4 DEF Flush
  <2>4. TypeOK'
    BY <2>1, <2>2, <2>3 DEF TypeOK
  <2>5. CallsTidy' /\ FlushTidy'
    BY <2>1, <2>3 DEF CallsTidy, FlushTidy
  <2> QED
    BY <2>4, <2>5
<1>16. CASE Crash
  <2>1. TextBytes(disk) \in Nat
    BY <1>0, MapBytes
  <2>2. 0 \in 0 .. MaxNow /\ 0 <= now /\ crashes + 1 \in 0 .. MaxCrashes
    BY <1>0, <1>16, BoundAssumption DEF Crash
  <2>3. NoPrune.todo = {} /\ NoPrune.freed = 0 /\ NoPrune.rid = None /\ NoPrune.now = 0
    BY DEF NoPrune
  <2>4. NoFlush.pc = "idle" /\ NoFlush.batch = {}
    BY DEF NoFlush
  <2>5. TypeOK'
    BY <1>0, <1>16, <2>1, <2>2, <2>4, EmptyRecords DEF Crash, PC, TypeOK
  <2>6. CallsTidy' /\ FlushTidy'
    BY <1>16, <2>2, <2>3, <2>4 DEF Crash, CallsTidy, FlushTidy
  <2> QED
    BY <2>5, <2>6
<1>17. CASE Tick
  <2>1. TypeOK'
    BY <1>0, <1>17, BoundAssumption DEF Tick, TypeOK
  <2>2. \A w \in Worker : prune[w].now <= now + 1
    <3>1. \A w \in Worker : prune[w].now \in Int
      BY LengthsNat, BoundAssumption
    <3> QED
      BY <1>0, <1>00, <3>1, BoundAssumption
  <2>3. CallsTidy' /\ FlushTidy'
    BY <1>17, <2>2 DEF Tick, CallsTidy, FlushTidy
  <2> QED
    BY <2>1, <2>3
<1>18. CASE UNCHANGED vars
  BY <1>18 DEF vars, TypeOK, CallsTidy, FlushTidy
<1> QED
  BY <1>1, <1>2, <1>3, <1>4, <1>5, <1>6, <1>7, <1>8, <1>9, <1>10, <1>11, <1>12, <1>13, <1>14, <1>15,
     <1>16, <1>17, <1>18 DEF Next, Requests, Prune, Upload

-----------------------------------------------------------------------------
(* A step of a request leaves the others alone.                            *)
CallStep(w) == Requests(w) \/ Prune(w) \/ FetchGet(w) \/ Upload(w)
(* A call's step touches no other call, and neither the table nor the      *)
(* flush.                                                                  *)
LEMMA OnlyOne ==
  ASSUME TypeOK, NEW w \in Worker, CallStep(w)
  PROVE  OthersKept(w) /\ UNCHANGED <<disk, now, crashes, fl>>
<1>0. /\ pc \in [Worker -> PC] /\ req \in [Worker -> ReqRec] /\ prune \in [Worker -> PruneRec]
      /\ old \in [Worker -> Text \cup {0}]
  BY DEF TypeOK
<1> USE DEF Goto, accounts, calls, history, env
<1>1. CASE Requests(w)
  BY <1>0, <1>1 DEF Requests, RequestNoPrune, RequestPrune, Request, OthersKept
<1>2. CASE PruneClaim(w) \/ PruneScan(w) \/ PruneSub(w)
  BY <1>0, <1>2 DEF PruneClaim, PruneScan, PruneSub, OthersKept
<1>3. CASE PruneMark(w)
  BY <1>0, <1>3, MarkEffect DEF PruneMark, OthersKept
<1>4. ASSUME NEW b \in Bundle, NEW len \in Text, PruneRemove(w, b, len) \/ PruneGone(w, b, len)
      PROVE  OthersKept(w) /\ UNCHANGED <<disk, now, crashes, fl>>
  BY <1>0, <1>4, RemoveEffect, GoneEffect DEF PruneRemove, PruneGone, OthersKept
<1>5. CASE FetchGet(w) \/ UploadExists(w) \/ UploadRefused(w) \/ UploadMark(w)
  BY <1>0, <1>5 DEF FetchGet, UploadExists, UploadRefused, UploadMark, Answered, OthersKept
<1>6. CASE UploadCheck(w) \/ UploadLen(w) \/ UploadBytes(w) \/ UploadSub(w) \/ UploadAdd(w)
  BY <1>0, <1>6 DEF UploadCheck, UploadLen, UploadBytes, UploadSub, UploadAdd, OthersKept
<1>7. ASSUME NEW e \in 0 .. MaxNow + MAX_BUNDLE_TTL_MS + 1, UploadInsert(w, e)
      PROVE  OthersKept(w) /\ UNCHANGED <<disk, now, crashes, fl>>
  BY <1>0, <1>7 DEF UploadInsert, OthersKept
<1> QED
  BY <1>1, <1>2, <1>3, <1>4, <1>5, <1>6, <1>7 DEF CallStep, Prune, Upload

(* The steps of a request that touch neither the map nor the marks.        *)
Quiet(w) ==
  \/ Requests(w) \/ PruneClaim(w) \/ PruneScan(w) \/ PruneSub(w) \/ FetchGet(w)
  \/ \E b \in Bundle, len \in Text : PruneGone(w, b, len)
  \/ UploadExists(w) \/ UploadCheck(w) \/ UploadLen(w) \/ UploadBytes(w) \/ UploadRefused(w)
  \/ UploadSub(w) \/ UploadAdd(w)

(* Nothing a request has still to mark is forgotten by a quiet step.       *)
LEMMA QuietKeepsMarks ==
  ASSUME TypeOK, CallsTidy, NEW w \in Worker, Quiet(w), NEW b \in Bundle
  PROVE  /\ Marking(b) => Marking(b)'
         /\ UNCHANGED <<bundles, dirty, dropped, disk, fl>>
<1>0. /\ pc \in [Worker -> PC] /\ req \in [Worker -> ReqRec] /\ prune \in [Worker -> PruneRec]
  BY DEF TypeOK
<1>1. CallStep(w)
  BY DEF Quiet, CallStep, Prune, Upload
<1>2. OthersKept(w) /\ UNCHANGED <<disk, fl>>
  BY <1>1, OnlyOne
<1> USE DEF Goto, accounts, calls, history, env
<1>3. UNCHANGED <<bundles, dirty, dropped>>
  BY DEF Quiet, Requests, RequestNoPrune, RequestPrune, Request, PruneClaim, PruneScan, PruneSub, FetchGet,
         PruneGone, UploadExists, UploadCheck, UploadLen, UploadBytes, UploadRefused, UploadSub, UploadAdd
<1>4. pc[w] # "mark" /\ pc[w] # "prune_mark"
  BY DEF Quiet, Requests, RequestNoPrune, RequestPrune, Request, PruneClaim, PruneScan, PruneSub, FetchGet,
         PruneGone, UploadExists, UploadCheck, UploadLen, UploadBytes, UploadRefused, UploadSub, UploadAdd
<1>5. prune[w].rid # b
  BY <1>4, SetsAssumption DEF CallsTidy
<1>6. pc[w] \in {"sub", "add"} => req'[w] = req[w] /\ pc'[w] \in {"add", "mark"}
  BY <1>0 DEF Quiet, Requests, RequestNoPrune, RequestPrune, Request, PruneClaim, PruneScan, PruneSub, FetchGet,
         PruneGone, UploadExists, UploadCheck, UploadLen, UploadBytes, UploadRefused, UploadSub, UploadAdd
<1>7. ASSUME Marking(b)
      PROVE  Marking(b)'
  <2>1. PICK v \in Worker : \/ req[v].id = b /\ pc[v] \in {"sub", "add", "mark"}
                            \/ prune[v].rid = b
    BY <1>7 DEF Marking
  <2>2. CASE v = w
    BY <1>4, <1>5, <1>6, <2>1, <2>2 DEF Marking
  <2>3. CASE v # w
    BY <1>2, <2>1, <2>3 DEF Marking, OthersKept
  <2> QED
    BY <2>2, <2>3
<1> QED
  BY <1>2, <1>3, <1>7

(* Each step leaves every bundle covered, or its write-back failed.        *)
LEMMA CoverStep ==
  ASSUME TypeOK, CallsTidy, FlushTidy, WriteBackCovers, [Next]_vars
  PROVE  WriteBackCovers'
<1> SUFFICES ASSUME NEW b \in Bundle
             PROVE  Covered(b)' \/ b \in dropped'
  BY DEF WriteBackCovers
<1>0. /\ pc \in [Worker -> PC] /\ req \in [Worker -> ReqRec] /\ prune \in [Worker -> PruneRec]
      /\ bundles \in [Bundle -> Value] /\ fl \in FlushRec /\ disk \in [Bundle -> Value]
  BY DEF TypeOK
<1>00. Covered(b) \/ b \in dropped
  BY DEF WriteBackCovers
<1> USE DEF Goto, accounts, calls, history, env
<1>1. ASSUME NEW w \in Worker, Quiet(w)
      PROVE  Covered(b)' \/ b \in dropped'
  BY <1>00, <1>1, QuietKeepsMarks DEF Covered
<1>2. ASSUME NEW w \in Worker, NEW c \in Bundle, NEW len \in Text, PruneRemove(w, c, len)
      PROVE  Covered(b)' \/ b \in dropped'
  <2>1. OthersKept(w) /\ UNCHANGED <<disk, fl>>
    BY <1>2, OnlyOne DEF CallStep, Prune
  <2>2. /\ pc[w] = "prune_remove" /\ prune'[w].rid = c /\ bundles' = [bundles EXCEPT ![c] = None]
        /\ UNCHANGED <<dirty, dropped>>
    BY <1>2, RemoveEffect DEF PruneRemove
  <2>3. CASE b = c
    BY <2>2, <2>3 DEF Covered, Marking
  <2>4. CASE b # c
    <3>1. prune[w].rid # b
      BY <2>2, SetsAssumption DEF CallsTidy
    <3>2. Marking(b) => Marking(b)'
      BY <2>1, <2>2, <3>1 DEF Marking, OthersKept
    <3>3. bundles'[b] = bundles[b]
      BY <1>0, <2>2, <2>4
    <3> QED
      BY <1>00, <2>1, <2>2, <3>2, <3>3 DEF Covered
  <2> QED
    BY <2>3, <2>4
<1>3. ASSUME NEW w \in Worker, PruneMark(w)
      PROVE  Covered(b)' \/ b \in dropped'
  <2>1. OthersKept(w) /\ UNCHANGED <<disk, fl>>
    BY <1>3, OnlyOne DEF CallStep, Prune
  <2>2. /\ pc[w] = "prune_mark" /\ UNCHANGED bundles
        /\ dirty' = dirty \cup {prune[w].rid} /\ dropped' = dropped \ {prune[w].rid}
    BY <1>3 DEF PruneMark, MarkDirty
  <2>3. CASE b = prune[w].rid
    BY <2>2, <2>3 DEF Covered
  <2>4. CASE b # prune[w].rid
    <3>1. Marking(b) => Marking(b)'
      BY <2>1, <2>2, <2>4 DEF Marking, OthersKept
    <3> QED
      BY <1>00, <2>1, <2>2, <2>4, <3>1 DEF Covered
  <2> QED
    BY <2>3, <2>4
<1>4. ASSUME NEW w \in Worker, UploadMark(w)
      PROVE  Covered(b)' \/ b \in dropped'
  <2>1. OthersKept(w) /\ UNCHANGED <<disk, fl>>
    BY <1>4, OnlyOne DEF CallStep, Upload
  <2>2. /\ pc[w] = "mark" /\ UNCHANGED bundles
        /\ dirty' = dirty \cup {req[w].id} /\ dropped' = dropped \ {req[w].id}
    BY <1>4 DEF UploadMark, MarkDirty
  <2>3. CASE b = req[w].id
    BY <2>2, <2>3 DEF Covered
  <2>4. CASE b # req[w].id
    <3>1. prune[w].rid # b
      BY <2>2, SetsAssumption DEF CallsTidy
    <3>2. Marking(b) => Marking(b)'
      BY <2>1, <2>2, <2>4, <3>1 DEF Marking, OthersKept
    <3> QED
      BY <1>00, <2>1, <2>2, <2>4, <3>2 DEF Covered
  <2> QED
    BY <2>3, <2>4
<1>5. ASSUME NEW w \in Worker, NEW e \in 0 .. MaxNow + MAX_BUNDLE_TTL_MS + 1, UploadInsert(w, e)
      PROVE  Covered(b)' \/ b \in dropped'
  <2>1. OthersKept(w) /\ UNCHANGED <<disk, fl>>
    BY <1>5, OnlyOne DEF CallStep, Upload
  <2>2. /\ pc[w] = "insert" /\ pc'[w] \in {"sub", "add"} /\ req'[w] = req[w]
        /\ \A c \in Bundle : c # req[w].id => bundles'[c] = bundles[c]
        /\ UNCHANGED <<dirty, dropped>>
    BY <1>0, <1>5 DEF UploadInsert
  <2>3. CASE b = req[w].id
    BY <2>2, <2>3 DEF Covered, Marking
  <2>4. CASE b # req[w].id
    <3>1. prune[w].rid # b
      BY <2>2, SetsAssumption DEF CallsTidy
    <3>2. Marking(b) => Marking(b)'
      BY <2>1, <2>2, <3>1 DEF Marking, OthersKept
    <3> QED
      BY <1>00, <2>1, <2>2, <2>4, <3>2 DEF Covered
  <2> QED
    BY <2>3, <2>4
<1>6. CASE Flush
  <2>1. UNCHANGED <<bundles, calls>>
    BY <1>6 DEF Flush, FlushScan, FlushRead, FlushWrite, FlushFails, FlushTake
  <2>2. Marking(b) => Marking(b)'
    BY <2>1 DEF Marking
  <2>3. CASE FlushScan
    <3>1. fl.batch = {} /\ fl'.batch = {} /\ UNCHANGED <<dirty, dropped, disk>>
      BY <2>3 DEF FlushScan, FlushTidy, NoFlush
    <3>2. fl.pc = "idle"
      BY <2>3 DEF FlushScan
    <3> QED
      BY <1>00, <2>1, <2>2, <3>1, <3>2 DEF Covered
  <2>4. ASSUME NEW c \in Bundle, FlushTake(c)
        PROVE  Covered(b)' \/ b \in dropped'
    <3>1. /\ fl.pc = "take" /\ fl'.pc = "read" /\ fl'.rid = c /\ fl'.batch = fl.batch /\ fl'.value = fl.value
          /\ dirty' = dirty \ {c} /\ UNCHANGED <<disk, dropped>>
      BY <1>0, <2>4 DEF FlushTake, FlushRec
    <3> QED
      BY <1>00, <2>1, <2>2, <3>1 DEF Covered
  <2>5. CASE FlushRead
    <3>1. PICK r : r = fl.rid
      OBVIOUS
    <3>2. r \in Bundle
      BY <2>5, <3>1 DEF FlushRead, TypeOK, FlushRec
    <3>3. /\ fl'.batch = fl.batch \cup {r}
          /\ fl'.value = [fl.value EXCEPT ![r] = bundles[r]]
          /\ fl.pc = "read" /\ UNCHANGED <<dirty, disk, dropped>>
      BY <1>0, <2>5, <3>1 DEF FlushRead, FlushRec
    <3>4. fl.value \in [Bundle -> Value]
      BY <1>0 DEF FlushRec
    <3>5. CASE b = r
      BY <2>1, <3>2, <3>3, <3>4, <3>5 DEF Covered
    <3>6. CASE b # r
      <4>1. fl'.value[b] = fl.value[b] /\ (b \in fl'.batch <=> b \in fl.batch) /\ fl.rid # b
        BY <3>1, <3>3, <3>4, <3>6
      <4> QED
        BY <1>00, <2>1, <2>2, <3>3, <4>1 DEF Covered
    <3> QED
      BY <3>5, <3>6
  <2>6. CASE FlushWrite
    <3>1. /\ fl.pc = "take" /\ fl'.batch = {} /\ UNCHANGED <<dirty, dropped>>
          /\ disk'[b] = IF b \in fl.batch THEN fl.value[b] ELSE disk[b]
      BY <2>6 DEF FlushWrite, NoFlush
    <3> QED
      BY <1>00, <2>1, <2>2, <3>1 DEF Covered
  <2>7. CASE FlushFails
    <3>1. /\ fl.pc = "take" /\ fl'.batch = {} /\ UNCHANGED <<dirty, disk>>
          /\ dropped' = dropped \cup fl.batch
      BY <2>7 DEF FlushFails, NoFlush
    <3> QED
      BY <1>00, <2>1, <2>2, <3>1 DEF Covered
  <2> QED
    BY <1>6, <2>3, <2>4, <2>5, <2>6, <2>7 DEF Flush
<1>7. CASE Crash
  BY <1>7 DEF Crash, NoFlush, Covered
<1>8. CASE Tick \/ UNCHANGED vars
  <2>1. UNCHANGED <<bundles, dirty, disk, dropped, fl, calls>>
    BY <1>8 DEF Tick, vars
  <2> QED
    BY <1>00, <2>1 DEF Covered, Marking
<1> QED
  BY <1>1, <1>2, <1>3, <1>4, <1>5, <1>6, <1>7, <1>8 DEF Next, Quiet, Prune, Upload

-----------------------------------------------------------------------------
(* What a request has looked at depends on its own record only.            *)
LEMMA OthersLook ==
  ASSUME NEW w \in Worker, OthersKept(w), NEW v \in Worker \ {w}, NEW b \in Bundle
  PROVE  Looked(v, b)' = Looked(v, b)
BY DEF OthersKept, Looked

(* A step that leaves the map alone and looks only at what is not live.    *)
LEMMA LookStep ==
  ASSUME TypeOK, LookedSound, NEW w \in Worker, OthersKept(w), UNCHANGED <<bundles, now>>,
         \A b \in Bundle : Looked(w, b)' => (Looked(w, b) /\ UNCHANGED stale) \/ ~Live(b),
         \A b \in Bundle : \A v \in Worker \ {w} : v \in stale[b] => v \in stale'[b]
  PROVE  LookedSound'
<1> SUFFICES ASSUME NEW v \in Worker, NEW b \in Bundle, Looked(v, b)'
             PROVE  v \in stale'[b] \/ ~Live(b)'
  BY DEF LookedSound
<1>1. Live(b)' = Live(b)
  BY DEF Live
<1>2. CASE v = w
  BY <1>1, <1>2 DEF LookedSound
<1>3. CASE v # w
  BY <1>1, <1>3, OthersLook DEF LookedSound
<1> QED
  BY <1>2, <1>3

(* What the scan of a prune finds is not live.                             *)
LEMMA ExpiredNotLive ==
  ASSUME TypeOK, CallsTidy, NEW w \in Worker, NEW b \in Bundle,
         NEW x \in ExpiredAt(prune[w].now), x[1] = b
  PROVE  ~Live(b)
<1>1. bundles[b].expires_at_ms <= prune[w].now /\ bundles[b] # None
  BY DEF ExpiredAt, Stored
<1>2. bundles[b].expires_at_ms \in Nat
  BY <1>1 DEF TypeOK, Value, Hosted
<1>3. prune[w].now \in Int /\ now \in Int /\ prune[w].now <= now
  BY LengthsNat, BoundAssumption DEF TypeOK, CallsTidy
<1> QED
  BY <1>1, <1>2, <1>3 DEF Live

(* Each step keeps what requests know of the bundles they looked at.       *)
LEMMA LookedStep ==
  ASSUME TypeOK, CallsTidy, LookedSound, [Next]_vars
  PROVE  LookedSound'
<1>0. /\ pc \in [Worker -> PC] /\ req \in [Worker -> ReqRec] /\ prune \in [Worker -> PruneRec]
      /\ bundles \in [Bundle -> Value] /\ stale \in [Bundle -> SUBSET Worker]
  BY DEF TypeOK
<1> USE DEF Goto, accounts, calls, history, env
<1>1. ASSUME NEW w \in Worker, FetchGet(w) \/ UploadExists(w) \/ UploadRefused(w) \/ UploadMark(w)
      PROVE  LookedSound'
  <2>1. OthersKept(w) /\ UNCHANGED now
    BY <1>1, OnlyOne DEF CallStep, Upload
  <2>2. Answered(w) /\ UNCHANGED bundles
    BY <1>1 DEF FetchGet, UploadExists, UploadRefused, UploadMark
  <2>3. pc'[w] = "idle" /\ prune'[w].todo = {}
    BY <1>0, <2>2 DEF Answered, NoPrune
  <2>4. \A b \in Bundle : ~Looked(w, b)'
    BY <2>3 DEF Looked
  <2>5. \A b \in Bundle : \A v \in Worker \ {w} : v \in stale[b] => v \in stale'[b]
    BY <2>2 DEF Answered
  <2> QED
    BY <2>1, <2>2, <2>4, <2>5, LookStep
<1>2. ASSUME NEW w \in Worker,
             Requests(w) \/ PruneClaim(w) \/ PruneSub(w) \/ UploadSub(w) \/ UploadAdd(w)
      PROVE  LookedSound'
  <2>1. OthersKept(w) /\ UNCHANGED now
    BY <1>2, OnlyOne DEF CallStep, Upload, Prune
  <2>2. UNCHANGED <<bundles, stale>>
    BY <1>2 DEF Requests, RequestNoPrune, RequestPrune, Request, PruneClaim, PruneSub, UploadSub, UploadAdd
  <2>3. pc'[w] \notin {"len", "bytes", "insert"}
    BY <1>0, <1>2 DEF Requests, RequestNoPrune, RequestPrune, Request, PruneClaim, PruneSub, UploadSub,
                      UploadAdd, AfterPrune
  <2>4. prune'[w].todo = {}
    <3>1. CASE Requests(w)
      BY <1>0, <3>1 DEF Requests, RequestNoPrune, RequestPrune, Request, NoPrune, CallsTidy
    <3>2. CASE PruneSub(w)
      BY <1>0, <3>2 DEF PruneSub, NoPrune
    <3>3. CASE PruneClaim(w) \/ UploadSub(w) \/ UploadAdd(w)
      BY <1>0, <3>3 DEF PruneClaim, UploadSub, UploadAdd, CallsTidy
    <3> QED
      BY <1>2, <3>1, <3>2, <3>3
  <2>5. \A b \in Bundle : ~Looked(w, b)'
    BY <2>3, <2>4 DEF Looked
  <2> QED
    BY <2>1, <2>2, <2>5, LookStep
<1>3. ASSUME NEW w \in Worker, PruneScan(w)
      PROVE  LookedSound'
  <2>1. OthersKept(w) /\ UNCHANGED now
    BY <1>3, OnlyOne DEF CallStep, Prune
  <2>2. PICK expired : expired = ExpiredAt(prune[w].now)
    OBVIOUS
  <2>3. UNCHANGED <<bundles, stale>> /\ pc'[w] \notin {"len", "bytes", "insert"}
    BY <1>0, <1>3 DEF PruneScan, AfterPrune
  <2>4. prune'[w].todo = expired
    <3>1. CASE expired = {}
      BY <1>0, <1>3, <2>2, <3>1 DEF PruneScan, NoPrune
    <3>2. CASE expired # {}
      BY <1>3, <2>2, <3>2, ScanEffect
    <3> QED
      BY <3>1, <3>2
  <2>5. ASSUME NEW b \in Bundle, Looked(w, b)'
        PROVE  ~Live(b)
    <3>1. PICK x \in expired : x[1] = b
      BY <2>3, <2>4, <2>5 DEF Looked
    <3> QED
      BY <2>2, <3>1, ExpiredNotLive
  <2> QED
    BY <2>1, <2>3, <2>5, LookStep
<1>4. ASSUME NEW w \in Worker, NEW c \in Bundle, NEW len \in Text, PruneGone(w, c, len)
      PROVE  LookedSound'
  <2>1. OthersKept(w) /\ UNCHANGED now
    BY <1>4, OnlyOne DEF CallStep, Prune
  <2>2. UNCHANGED <<bundles, stale, pc, req>> /\ prune'[w].todo \subseteq prune[w].todo
    BY <1>4, GoneEffect DEF PruneGone
  <2>3. \A b \in Bundle : Looked(w, b)' => Looked(w, b)
    BY <2>2 DEF Looked
  <2> QED
    BY <2>1, <2>2, <2>3, LookStep
<1>5. ASSUME NEW w \in Worker, PruneMark(w)
      PROVE  LookedSound'
  <2>1. OthersKept(w) /\ UNCHANGED now
    BY <1>5, OnlyOne DEF CallStep, Prune
  <2>2. UNCHANGED <<bundles, stale, req>> /\ prune'[w].todo = prune[w].todo /\ pc'[w] = "prune_remove"
    BY <1>0, <1>5, MarkEffect DEF PruneMark
  <2>3. \A b \in Bundle : Looked(w, b)' => Looked(w, b)
    BY <2>2 DEF Looked
  <2> QED
    BY <2>1, <2>2, <2>3, LookStep
<1>6. ASSUME NEW w \in Worker, UploadCheck(w) \/ UploadLen(w) \/ UploadBytes(w)
      PROVE  LookedSound'
  <2>1. OthersKept(w) /\ UNCHANGED now
    BY <1>6, OnlyOne DEF CallStep, Upload
  <2>2. UNCHANGED <<bundles, stale, req, prune>>
    BY <1>6 DEF UploadCheck, UploadLen, UploadBytes
  <2>3. \A b \in Bundle : Looked(w, b)' => Looked(w, b) \/ ~Live(b)
    BY <1>6, <2>2 DEF UploadCheck, UploadLen, UploadBytes, Looked
  <2> QED
    BY <2>1, <2>2, <2>3, LookStep
<1>7. ASSUME NEW w \in Worker, NEW c \in Bundle, NEW len \in Text, PruneRemove(w, c, len)
      PROVE  LookedSound'
  <2>1. OthersKept(w) /\ UNCHANGED now
    BY <1>7, OnlyOne DEF CallStep, Prune
  <2>2. /\ bundles'[c] = None /\ \A b \in Bundle \ {c} : bundles'[b] = bundles[b] /\ stale'[b] = stale[b]
        /\ req' = req /\ pc'[w] = "prune_mark"
    BY <1>0, <1>7 DEF PruneRemove, Renewed
  <2>3. prune'[w].todo \subseteq prune[w].todo
    BY <1>7, RemoveEffect
  <2>4. \A b \in Bundle : Looked(w, b)' => Looked(w, b)
    BY <2>2, <2>3 DEF Looked
  <2> SUFFICES ASSUME NEW v \in Worker, NEW b \in Bundle, Looked(v, b)', b # c
               PROVE  v \in stale'[b] \/ ~Live(b)'
    BY <2>2 DEF LookedSound, Live
  <2>5. Looked(v, b)
    BY <2>1, <2>4, OthersLook
  <2> QED
    BY <2>1, <2>2, <2>5 DEF LookedSound, Live
<1>8. ASSUME NEW w \in Worker, NEW e \in 0 .. MaxNow + MAX_BUNDLE_TTL_MS + 1, UploadInsert(w, e)
      PROVE  LookedSound'
  <2>1. OthersKept(w) /\ UNCHANGED now
    BY <1>8, OnlyOne DEF CallStep, Upload
  <2>2. PICK c \in Bundle : c = req[w].id
    BY <1>8, LengthsNat DEF UploadInsert
  <2>3. /\ stale'[c] = {v \in Worker \ {w} : Looked(v, c)}
        /\ \A b \in Bundle \ {c} : bundles'[b] = bundles[b] /\ stale'[b] = stale[b]
    BY <1>0, <1>8, <2>2 DEF UploadInsert, Renewed
  <2>4. pc'[w] \in {"sub", "add"} /\ prune'[w].todo = {}
    BY <1>0, <1>8 DEF UploadInsert, CallsTidy
  <2>5. \A b \in Bundle : ~Looked(w, b)'
    BY <2>4 DEF Looked
  <2> SUFFICES ASSUME NEW v \in Worker \ {w}, NEW b \in Bundle, Looked(v, b)'
               PROVE  v \in stale'[b] \/ ~Live(b)'
    BY <2>5 DEF LookedSound
  <2>6. Looked(v, b)
    BY <2>1, OthersLook
  <2>7. CASE b = c
    BY <2>3, <2>6, <2>7
  <2>8. CASE b # c
    BY <2>1, <2>3, <2>6, <2>8 DEF LookedSound, Live
  <2> QED
    BY <2>7, <2>8
<1>9. CASE Flush \/ UNCHANGED vars
  <2>1. UNCHANGED <<bundles, now, stale, calls>>
    BY <1>9 DEF Flush, FlushScan, FlushRead, FlushWrite, FlushFails, FlushTake, vars
  <2> QED
    BY <2>1 DEF LookedSound, Looked, Live
<1>10. CASE Crash
  <2>1. \A w \in Worker : pc'[w] = "idle" /\ prune'[w].todo = {}
    BY <1>10 DEF Crash, NoPrune
  <2> QED
    BY <2>1 DEF LookedSound, Looked
<1>11. CASE Tick
  <2>1. UNCHANGED <<bundles, stale, calls>> /\ now' = now + 1
    BY <1>11 DEF Tick
  <2>2. ASSUME NEW b \in Bundle, Live(b)'
        PROVE  Live(b)
    <3>1. bundles[b] # None /\ bundles[b].expires_at_ms > now + 1
      BY <2>1, <2>2 DEF Live
    <3>2. bundles[b].expires_at_ms \in Int /\ now \in Int
      BY <1>0, <3>1, BoundAssumption DEF Value, Hosted, TypeOK
    <3> QED
      BY <3>1, <3>2 DEF Live
  <2>3. \A w \in Worker, b \in Bundle : Looked(w, b)' = Looked(w, b)
    BY <2>1 DEF Looked
  <2> QED
    BY <2>1, <2>2, <2>3 DEF LookedSound
<1> QED
  BY <1>1, <1>2, <1>3, <1>4, <1>5, <1>6, <1>7, <1>8, <1>9, <1>10, <1>11 DEF Next, Prune, Upload

(* Only a prune and an upload change the map while the relay runs.         *)
LEMMA MapChange ==
  ASSUME TypeOK, [Next]_vars, crashes' = crashes, NEW b \in Bundle, bundles'[b] # bundles[b]
  PROVE  \E w \in Worker :
           \/ \E c \in Bundle, len \in Text : PruneRemove(w, c, len)
           \/ \E e \in 0 .. MaxNow + MAX_BUNDLE_TTL_MS + 1 : UploadInsert(w, e)
<1> USE DEF Goto, accounts, calls, history, env
<1>1. ~Crash
  BY DEF Crash, TypeOK
<1>2. ~(Flush \/ Tick \/ UNCHANGED vars)
  BY DEF Flush, FlushScan, FlushRead, FlushWrite, FlushFails, FlushTake, Tick, vars
<1>3. ASSUME NEW w \in Worker
      PROVE  /\ ~Requests(w)
             /\ ~(PruneClaim(w) \/ PruneScan(w) \/ PruneMark(w) \/ PruneSub(w))
             /\ ~\E c \in Bundle, len \in Text : PruneGone(w, c, len)
             /\ ~FetchGet(w)
             /\ ~(\/ UploadExists(w) \/ UploadCheck(w) \/ UploadLen(w) \/ UploadBytes(w) \/ UploadRefused(w)
                  \/ UploadSub(w) \/ UploadAdd(w) \/ UploadMark(w))
  BY DEF Requests, RequestNoPrune, RequestPrune, Request, PruneClaim, PruneScan, PruneSub, PruneMark, FetchGet,
         PruneGone, UploadExists, UploadCheck, UploadLen, UploadBytes, UploadRefused, UploadSub, UploadAdd,
         UploadMark
<1> QED
  BY <1>1, <1>2, <1>3 DEF Next, Prune, Upload

(* A live bundle changes only at the hands of a stale request.             *)
LEMMA LiveStep ==
  ASSUME TypeOK, CallsTidy, LookedSound, [Next]_vars, crashes' = crashes,
         NEW b \in Bundle, Live(b), bundles'[b] # bundles[b]
  PROVE  \E w \in stale[b] : pc'[w] # pc[w]
<1>0. pc \in [Worker -> PC] /\ bundles \in [Bundle -> Value]
  BY DEF TypeOK
<1> USE DEF Goto
<1>1. PICK w \in Worker :
           \/ \E c \in Bundle, len \in Text : PruneRemove(w, c, len)
           \/ \E e \in 0 .. MaxNow + MAX_BUNDLE_TTL_MS + 1 : UploadInsert(w, e)
  BY MapChange
<1>2. Looked(w, b) /\ pc'[w] # pc[w]
  <2>1. ASSUME NEW c \in Bundle, NEW len \in Text, PruneRemove(w, c, len)
        PROVE  Looked(w, b) /\ pc'[w] # pc[w]
    <3>1. c = b /\ <<c, len>> \in prune[w].todo /\ pc'[w] # pc[w]
      BY <1>0, <2>1 DEF PruneRemove
    <3>2. <<c, len>>[1] = c
      OBVIOUS
    <3> QED
      BY <3>1, <3>2 DEF Looked
  <2>2. ASSUME NEW e \in 0 .. MaxNow + MAX_BUNDLE_TTL_MS + 1, UploadInsert(w, e)
        PROVE  Looked(w, b) /\ pc'[w] # pc[w]
    <3>1. pc[w] = "insert" /\ pc'[w] # pc[w] /\ req[w].id = b
      BY <1>0, <2>2 DEF UploadInsert
    <3> QED
      BY <3>1 DEF Looked
  <2> QED
    BY <1>1, <2>1, <2>2
<1> QED
  BY <1>2 DEF LookedSound

-----------------------------------------------------------------------------
(* The four sums of the accounts, bundle by bundle and request by request. *)
CountOf == [b \in Bundle |-> IF Unadded(b) THEN 0 ELSE Size(bundles, b)]
SizeOf == [b \in Bundle |-> Size(bundles, b)]
AddOf == [w \in Worker |-> IF pc[w] \in {"sub", "add"} THEN req[w].text ELSE 0]
TakeOf == [w \in Worker |-> old[w] + prune[w].freed]

SharesTyped ==
  /\ CountOf \in [Bundle -> Nat] /\ SizeOf \in [Bundle -> Nat]
  /\ AddOf \in [Worker -> Nat] /\ TakeOf \in [Worker -> Nat]
  /\ CountedBytes = SumFunction(CountOf) /\ TextBytes(bundles) = SumFunction(SizeOf)
  /\ Adding = SumFunction(AddOf) /\ Taking = SumFunction(TakeOf)

(* They are sums of naturals.                                              *)
LEMMA ShareTypes == TypeOK => SharesTyped
<1> SUFFICES ASSUME TypeOK PROVE SharesTyped
  OBVIOUS
<1>1. SizeOf \in [Bundle -> Nat]
  BY MapBytes DEF TypeOK, SizeOf
<1>2. \A b \in Bundle : Size(bundles, b) \in Nat
  BY <1>1 DEF SizeOf
<1>3. CountOf \in [Bundle -> Nat]
  BY <1>2 DEF CountOf
<1>4. AddOf \in [Worker -> Nat]
  BY LengthsNat DEF AddOf, Uploading
<1>5. TakeOf \in [Worker -> Nat]
  BY LengthsNat DEF TakeOf
<1> QED
  BY <1>1, <1>3, <1>4, <1>5
     DEF SharesTyped, CountOf, SizeOf, AddOf, TakeOf, CountedBytes, TextBytes, Adding, Taking

(* The same in the next state.                                             *)
LEMMA ShareTypesNext == TypeOK' => SharesTyped'
BY ShareTypes, PTL

(* The sums are naturals and no request takes more than all of them.       *)
LEMMA SumTypes ==
  ASSUME SharesTyped
  PROVE  /\ CountedBytes \in Nat /\ TextBytes(bundles) \in Nat /\ Adding \in Nat /\ Taking \in Nat
         /\ \A w \in Worker : TakeOf[w] <= Taking
<1>1. CountedBytes \in Nat /\ TextBytes(bundles) \in Nat
  BY SetsAssumption, TotalNat DEF SharesTyped
<1>2. Adding \in Nat /\ Taking \in Nat /\ \A w \in Worker : TakeOf[w] <= Taking
  BY SetsAssumption, TotalNat DEF SharesTyped
<1> QED
  BY <1>1, <1>2

SumsNat == CountedBytes \in Nat /\ TextBytes(bundles) \in Nat /\ Adding \in Nat /\ Taking \in Nat
(* The same in the next state.                                             *)
LEMMA SumTypesNext == SharesTyped' => SumsNat'
<1>1. SharesTyped => SumsNat
  BY SumTypes DEF SumsNat
<1> QED
  BY <1>1, PTL

(* One request changes its own part of what is to be added and taken.      *)
LEMMA CallChange ==
  ASSUME SharesTyped, SharesTyped', NEW w \in Worker, OthersKept(w)
  PROVE  /\ Adding' = Adding - AddOf[w] + AddOf'[w]
         /\ Taking' = Taking - TakeOf[w] + TakeOf'[w]
<1>1. \A v \in Worker \ {w} : AddOf'[v] = AddOf[v] /\ TakeOf'[v] = TakeOf[v]
  BY DEF OthersKept, AddOf, TakeOf
<1>2. PICK f, g, h, k : f = AddOf /\ g = AddOf' /\ h = TakeOf /\ k = TakeOf'
  OBVIOUS
<1>3. /\ f \in [Worker -> Nat] /\ g \in [Worker -> Nat] /\ h \in [Worker -> Nat] /\ k \in [Worker -> Nat]
      /\ Adding = SumFunction(f) /\ Adding' = SumFunction(g)
      /\ Taking = SumFunction(h) /\ Taking' = SumFunction(k)
  BY <1>2 DEF SharesTyped
<1>4. f \in [Worker -> Int] /\ g \in [Worker -> Int] /\ h \in [Worker -> Int] /\ k \in [Worker -> Int]
  BY <1>3
<1>5. \A v \in Worker \ {w} : g[v] = f[v] /\ k[v] = h[v]
  BY <1>1, <1>2
<1>6. SumFunction(g) = SumFunction(f) - f[w] + g[w]
  BY <1>4, <1>5, SetsAssumption, TotalChange
<1>7. SumFunction(k) = SumFunction(h) - h[w] + k[w]
  BY <1>4, <1>5, SetsAssumption, TotalChange
<1> QED
  BY <1>2, <1>3, <1>6, <1>7

(* One bundle changes its own part of the bytes stored and counted.        *)
LEMMA BundleChange ==
  ASSUME SharesTyped, SharesTyped', NEW c \in Bundle,
         \A b \in Bundle \ {c} : CountOf'[b] = CountOf[b] /\ SizeOf'[b] = SizeOf[b]
  PROVE  /\ CountedBytes' = CountedBytes - CountOf[c] + CountOf'[c]
         /\ TextBytes(bundles)' = TextBytes(bundles) - SizeOf[c] + SizeOf'[c]
<1>2. PICK f, g, h, k : f = CountOf /\ g = CountOf' /\ h = SizeOf /\ k = SizeOf'
  OBVIOUS
<1>3. /\ f \in [Bundle -> Nat] /\ g \in [Bundle -> Nat] /\ h \in [Bundle -> Nat] /\ k \in [Bundle -> Nat]
      /\ CountedBytes = SumFunction(f) /\ CountedBytes' = SumFunction(g)
      /\ TextBytes(bundles) = SumFunction(h) /\ TextBytes(bundles)' = SumFunction(k)
  BY <1>2 DEF SharesTyped
<1>4. f \in [Bundle -> Int] /\ g \in [Bundle -> Int] /\ h \in [Bundle -> Int] /\ k \in [Bundle -> Int]
  BY <1>3
<1>5. \A b \in Bundle \ {c} : g[b] = f[b] /\ k[b] = h[b]
  BY <1>2
<1>6. SumFunction(g) = SumFunction(f) - f[c] + g[c]
  BY <1>4, <1>5, SetsAssumption, TotalChange
<1>7. SumFunction(k) = SumFunction(h) - h[c] + k[c]
  BY <1>4, <1>5, SetsAssumption, TotalChange
<1> QED
  BY <1>2, <1>3, <1>6, <1>7

(* The steps of a request that touch neither the map nor the accounts.     *)
Plain(w) ==
  \/ Requests(w) \/ PruneClaim(w) \/ PruneScan(w) \/ PruneMark(w)
  \/ \E b \in Bundle, len \in Text : PruneGone(w, b, len)
  \/ FetchGet(w) \/ UploadExists(w) \/ UploadCheck(w) \/ UploadLen(w) \/ UploadBytes(w)
  \/ UploadRefused(w) \/ UploadMark(w)

(* A plain step leaves what its call owes to the counter as it was.        *)
LEMMA PlainFacts ==
  ASSUME TypeOK, CallsTidy, TypeOK', CallsTidy', NEW w \in Worker, Plain(w)
  PROVE  /\ OthersKept(w) /\ UNCHANGED <<bundles, total, drifted>>
         /\ pc[w] \notin Owing /\ pc'[w] \notin Owing
         /\ old'[w] = old[w] /\ prune'[w].freed = prune[w].freed
<1>0. pc \in [Worker -> PC] /\ prune \in [Worker -> PruneRec]
  BY DEF TypeOK
<1>1. CallStep(w)
  BY DEF Plain, CallStep, Prune, Upload
<1> USE DEF Goto, accounts, calls, history, env
<1>2. UNCHANGED <<bundles, total, drifted>>
  BY DEF Plain, Requests, RequestNoPrune, RequestPrune, Request, PruneClaim, PruneScan, PruneMark, FetchGet,
         PruneGone, UploadExists, UploadCheck, UploadLen, UploadBytes, UploadRefused, UploadMark
<1>3. pc[w] \notin Owing /\ pc'[w] \notin Owing
  BY <1>0 DEF Owing, Plain, Requests, RequestNoPrune, RequestPrune, Request, PruneClaim, PruneScan, PruneMark,
         FetchGet, PruneGone, UploadExists, UploadCheck, UploadLen, UploadBytes, UploadRefused, UploadMark,
         Answered, AfterPrune
<1>4. old'[w] = 0 /\ old[w] = 0
  BY <1>3 DEF CallsTidy, Owing
<1>5. prune'[w].freed = prune[w].freed
  <2>1. CASE \E b \in Bundle, len \in Text : PruneGone(w, b, len)
    BY <2>1, GoneEffect
  <2>2. CASE PruneMark(w)
    BY <2>2, MarkEffect
  <2>3. CASE PruneScan(w)
    <3>1. pc[w] = "prune_scan" /\ prune[w].freed = 0
      BY <2>3 DEF PruneScan, CallsTidy
    <3>2. CASE ExpiredAt(prune[w].now) = {}
      BY <1>0, <2>3, <3>1, <3>2 DEF PruneScan, NoPrune
    <3>3. CASE ExpiredAt(prune[w].now) # {}
      BY <2>3, <3>3, ScanEffect
    <3> QED
      BY <3>2, <3>3
  <2>4. CASE \/ Requests(w) \/ PruneClaim(w) \/ FetchGet(w) \/ UploadExists(w) \/ UploadCheck(w)
             \/ UploadLen(w) \/ UploadBytes(w) \/ UploadRefused(w) \/ UploadMark(w)
    <3>1. pc[w] \notin {"prune_remove", "prune_mark"} /\ pc'[w] \notin {"prune_remove", "prune_mark"}
      BY <1>0, <2>4 DEF Requests, RequestNoPrune, RequestPrune, Request, PruneClaim, FetchGet, UploadExists,
         UploadCheck, UploadLen, UploadBytes, UploadRefused, UploadMark, Answered
    <3> QED
      BY <3>1 DEF CallsTidy
  <2> QED
    BY <2>1, <2>2, <2>3, <2>4 DEF Plain
<1> QED
  BY <1>1, <1>2, <1>3, <1>4, <1>5, OnlyOne

(* Each step keeps what is known of the bundles still to be added.         *)
LEMMA AddsStep ==
  ASSUME TypeOK, CallsTidy, TypeOK', CallsTidy', AddsSound, [Next]_vars
  PROVE  AddsSound'
<1>0. /\ pc \in [Worker -> PC] /\ req \in [Worker -> ReqRec] /\ bundles \in [Bundle -> Value]
  BY DEF TypeOK
<1> USE DEF Goto, accounts, calls, history, env
<1> DEFINE Sound(v) ==
             /\ bundles[req[v].id] # None /\ bundles[req[v].id].text = req[v].text
             /\ \A u \in Worker : pc[u] \in Owing /\ req[u].id = req[v].id => u = v
<1>1. ASSUME NEW w \in Worker, Plain(w)
      PROVE  AddsSound'
  <2>1. /\ OthersKept(w) /\ UNCHANGED <<bundles, drifted>> /\ pc'[w] \notin Owing
    BY <1>1, PlainFacts
  <2> QED
    BY <2>1 DEF AddsSound, OthersKept
<1>2. ASSUME NEW w \in Worker, PruneSub(w) \/ UploadSub(w) \/ UploadAdd(w)
      PROVE  AddsSound'
  <2>1. OthersKept(w)
    BY <1>2, OnlyOne DEF CallStep, Prune, Upload
  <2>2. UNCHANGED <<bundles, drifted, req>> /\ (pc'[w] \in Owing => pc[w] \in Owing)
    BY <1>0, <1>2 DEF PruneSub, UploadSub, UploadAdd, Owing, AfterPrune
  <2> QED
    BY <2>1, <2>2 DEF AddsSound, OthersKept
<1>3. ASSUME NEW w \in Worker, NEW c \in Bundle, NEW len \in Text, PruneRemove(w, c, len), ~drifted'
      PROVE  AddsSound'
  <2>1. OthersKept(w)
    BY <1>3, OnlyOne DEF CallStep, Prune
  <2>2. ~drifted /\ ~Unadded(c)
    BY <1>3 DEF PruneRemove
  <2>3. /\ pc'[w] \notin Owing /\ req' = req
        /\ \A b \in Bundle \ {c} : bundles'[b] = bundles[b]
    BY <1>0, <1>3 DEF PruneRemove, Owing
  <2>4. \A v \in Worker : pc[v] \in Owing => req[v].id \in Bundle \ {c}
    BY <2>2, LengthsNat DEF Unadded, Owing
  <2>5. \A v \in Worker : pc'[v] \in Owing => pc[v] \in Owing
    BY <2>1, <2>3 DEF OthersKept
  <2> QED
    BY <2>2, <2>3, <2>4, <2>5 DEF AddsSound
<1>4. ASSUME NEW w \in Worker, NEW e \in 0 .. MaxNow + MAX_BUNDLE_TTL_MS + 1, UploadInsert(w, e), ~drifted'
      PROVE  AddsSound'
  <2>1. OthersKept(w)
    BY <1>4, OnlyOne DEF CallStep, Upload
  <2>2. PICK c \in Bundle : c = req[w].id
    BY <1>4, LengthsNat DEF UploadInsert
  <2>3. ~drifted /\ (bundles[c] # None => ~Unadded(c))
    BY <1>4, <2>2 DEF UploadInsert
  <2>4. \A v \in Worker : pc[v] \in Owing => req[v].id # c
    BY <2>3 DEF AddsSound, Unadded, Owing
  <2>5. /\ req' = req /\ pc[w] = "insert"
        /\ \A b \in Bundle \ {c} : bundles'[b] = bundles[b]
    BY <1>0, <1>4, <2>2 DEF UploadInsert
  <2>6. bundles'[c] # None /\ bundles'[c].text = req[w].text
    <3>1. bundles'[c] = [text |-> req[w].text, expires_at_ms |-> ClampExpiry(e)]
      BY <1>0, <1>4, <2>2 DEF UploadInsert
    <3>2. bundles'[c] \in Hosted
      BY <1>4, <3>1, LengthsNat, ExpiryLater DEF UploadInsert, Hosted, Uploading
    <3> QED
      BY <3>1, <3>2, NoneAssumption
  <2>7. \A v \in Worker \ {w} : pc'[v] \in Owing => pc[v] \in Owing /\ req[v].id \in Bundle \ {c}
    BY <2>1, <2>4, LengthsNat DEF OthersKept, Owing
  <2> SUFFICES ASSUME NEW v \in Worker, pc'[v] \in Owing
               PROVE  /\ bundles'[req'[v].id] # None /\ bundles'[req'[v].id].text = req'[v].text
                      /\ \A u \in Worker : pc'[u] \in Owing /\ req'[u].id = req'[v].id => u = v
    BY DEF AddsSound
  <2>8. CASE v = w
    BY <2>2, <2>5, <2>6, <2>7, <2>8
  <2>9. CASE v # w
    <3>1. Sound(v)
      BY <2>3, <2>7, <2>9 DEF AddsSound
    <3> QED
      BY <2>2, <2>5, <2>7, <2>9, <3>1
  <2> QED
    BY <2>8, <2>9
<1>5. CASE Flush \/ Tick \/ UNCHANGED vars
  <2>1. UNCHANGED <<bundles, drifted, calls>>
    BY <1>5 DEF Flush, FlushScan, FlushRead, FlushWrite, FlushFails, FlushTake, Tick, vars
  <2> QED
    BY <2>1 DEF AddsSound
<1>6. CASE Crash
  BY <1>6 DEF Crash, AddsSound, Owing
<1>7. ASSUME NEW w \in Worker, NEW c \in Bundle, NEW len \in Text, PruneRemove(w, c, len)
      PROVE  AddsSound'
  <2>1. CASE drifted'
    BY <2>1 DEF AddsSound
  <2>2. CASE ~drifted'
    BY <1>3, <1>7, <2>2
  <2> QED
    BY <2>1, <2>2
<1>8. ASSUME NEW w \in Worker, NEW e \in 0 .. MaxNow + MAX_BUNDLE_TTL_MS + 1, UploadInsert(w, e)
      PROVE  AddsSound'
  <2>1. CASE drifted'
    BY <2>1 DEF AddsSound
  <2>2. CASE ~drifted'
    BY <1>4, <1>8, <2>2
  <2> QED
    BY <2>1, <2>2
<1> QED
  BY <1>1, <1>2, <1>5, <1>6, <1>7, <1>8 DEF Next, Plain, Prune, Upload

(* A bundle's bytes are counted or not: who still owes them.               *)
LEMMA UnaddedStep ==
  ASSUME NEW w \in Worker, OthersKept(w), NEW b \in Bundle,
         (pc'[w] \in Owing /\ req'[w].id = b) <=> (pc[w] \in Owing /\ req[w].id = b)
  PROVE  Unadded(b)' = Unadded(b)
BY DEF Unadded, Owing, OthersKept

(* A step that leaves the map and who owes alone keeps the bytes counted.  *)
LEMMA SameMap ==
  ASSUME NEW w \in Worker, OthersKept(w), UNCHANGED bundles,
         \A b \in Bundle : (pc'[w] \in Owing /\ req'[w].id = b) <=> (pc[w] \in Owing /\ req[w].id = b)
  PROVE  CountedBytes' = CountedBytes /\ TextBytes(bundles)' = TextBytes(bundles)
<1>1. \A b \in Bundle : Unadded(b)' = Unadded(b)
  BY UnaddedStep
<1>2. CountOf' = CountOf
  BY <1>1 DEF CountOf
<1> QED
  BY <1>2 DEF CountOf, CountedBytes

(* Subtracting what is there.                                              *)
LEMMA MonusExact ==
  ASSUME NEW a \in Nat, NEW b \in Nat, b <= a
  PROVE  Monus(a, b) = a - b
BY DEF Monus

(* Each step keeps the split of the byte total.                            *)
LEMMA SplitStep ==
  ASSUME TypeOK, CallsTidy, TypeOK', CallsTidy', AddsSound, TotalSplit, [Next]_vars
  PROVE  TotalSplit'
<1>0. /\ pc \in [Worker -> PC] /\ req \in [Worker -> ReqRec] /\ bundles \in [Bundle -> Value]
      /\ prune \in [Worker -> PruneRec] /\ old \in [Worker -> Text \cup {0}] /\ total \in Nat
  BY DEF TypeOK
<1>s. SharesTyped /\ SharesTyped'
  BY ShareTypes, ShareTypesNext
<1>n. SumsNat /\ SumsNat' /\ \A w \in Worker : TakeOf[w] <= Taking
  BY <1>s, SumTypes, SumTypesNext DEF SumsNat
<1> USE DEF Goto, accounts, calls, history, env
<1>1. ASSUME NEW w \in Worker, Plain(w)
      PROVE  TotalSplit'
  <2>1. /\ OthersKept(w) /\ UNCHANGED <<bundles, total, drifted>>
        /\ pc[w] \notin Owing /\ pc'[w] \notin Owing
        /\ old'[w] = old[w] /\ prune'[w].freed = prune[w].freed
    BY <1>1, PlainFacts
  <2>2. CountedBytes' = CountedBytes /\ TextBytes(bundles)' = TextBytes(bundles)
    BY <2>1, SameMap
  <2>3. AddOf[w] = 0 /\ AddOf'[w] = 0 /\ TakeOf'[w] = TakeOf[w]
    BY <2>1 DEF AddOf, TakeOf, Owing
  <2>4. Adding' = Adding /\ Taking' = Taking
    BY <1>s, <1>n, <2>1, <2>3, CallChange DEF SumsNat, SharesTyped
  <2> QED
    BY <2>1, <2>2, <2>4 DEF TotalSplit
<1>2. ASSUME NEW w \in Worker, PruneSub(w)
      PROVE  TotalSplit'
  <2>1. OthersKept(w)
    BY <1>2, OnlyOne DEF CallStep, Prune
  <2>2. /\ pc[w] \notin Owing /\ pc'[w] \notin Owing /\ old[w] = 0 /\ old'[w] = 0
        /\ UNCHANGED <<bundles, drifted>>
    BY <1>0, <1>2 DEF PruneSub, Owing, AfterPrune, CallsTidy
  <2>3. total' = Monus(total, prune[w].freed) /\ prune'[w].freed = 0
    BY <1>0, <1>2 DEF PruneSub, NoPrune
  <2>4. CountedBytes' = CountedBytes /\ TextBytes(bundles)' = TextBytes(bundles)
    BY <2>1, <2>2, SameMap
  <2>5. prune[w].freed \in Nat
    BY LengthsNat
  <2>6. AddOf[w] = 0 /\ AddOf'[w] = 0 /\ TakeOf'[w] = 0 /\ TakeOf[w] = prune[w].freed
    BY <2>2, <2>3, <2>5 DEF AddOf, TakeOf, Owing
  <2>7. Adding' = Adding /\ Taking' = Taking - prune[w].freed /\ prune[w].freed <= Taking
    BY <1>s, <1>n, <2>1, <2>5, <2>6, CallChange DEF SumsNat
  <2>8. ASSUME ~drifted
        PROVE  total' = CountedBytes + Taking - prune[w].freed
    <3>1. total = CountedBytes + Taking /\ prune[w].freed <= total
      BY <1>n, <2>5, <2>7, <2>8 DEF TotalSplit, SumsNat
    <3>2. total' = total - prune[w].freed
      BY <1>0, <2>3, <2>5, <3>1, MonusExact
    <3> QED
      BY <1>n, <2>5, <3>1, <3>2 DEF SumsNat
  <2> QED
    BY <1>n, <2>2, <2>4, <2>5, <2>7, <2>8 DEF TotalSplit, SumsNat
<1>3. ASSUME NEW w \in Worker, UploadSub(w)
      PROVE  TotalSplit'
  <2>1. OthersKept(w)
    BY <1>3, OnlyOne DEF CallStep, Upload
  <2>2. /\ pc[w] = "sub" /\ pc'[w] = "add" /\ req' = req /\ prune' = prune /\ old'[w] = 0
        /\ UNCHANGED <<bundles, drifted>> /\ total' = Monus(total, old[w])
    BY <1>0, <1>3 DEF UploadSub
  <2>3. prune[w].freed = 0 /\ old[w] \in Nat
    BY <2>2, LengthsNat DEF CallsTidy
  <2>4. CountedBytes' = CountedBytes /\ TextBytes(bundles)' = TextBytes(bundles)
    BY <2>1, <2>2, SameMap DEF Owing
  <2>5. AddOf'[w] = AddOf[w] /\ TakeOf'[w] = 0 /\ TakeOf[w] = old[w]
    BY <2>2, <2>3 DEF AddOf, TakeOf
  <2>6. Adding' = Adding /\ Taking' = Taking - old[w] /\ old[w] <= Taking
    <3>1. AddOf[w] \in Nat
      BY <1>s DEF SharesTyped
    <3> QED
      BY <1>s, <1>n, <2>1, <2>3, <2>5, <3>1, CallChange DEF SumsNat
  <2>7. ASSUME ~drifted
        PROVE  total' = CountedBytes + Taking - old[w]
    <3>1. total = CountedBytes + Taking /\ old[w] <= total
      BY <1>n, <2>3, <2>6, <2>7 DEF TotalSplit, SumsNat
    <3>2. total' = total - old[w]
      BY <1>0, <2>2, <2>3, <3>1, MonusExact
    <3> QED
      BY <1>n, <2>3, <3>1, <3>2 DEF SumsNat
  <2> QED
    BY <1>n, <2>2, <2>3, <2>4, <2>6, <2>7 DEF TotalSplit, SumsNat
<1>4. ASSUME NEW w \in Worker, UploadAdd(w)
      PROVE  TotalSplit'
  <2>1. OthersKept(w)
    BY <1>4, OnlyOne DEF CallStep, Upload
  <2>2. /\ pc[w] = "add" /\ pc'[w] = "mark" /\ req' = req /\ prune' = prune /\ old' = old
        /\ UNCHANGED <<bundles, drifted>> /\ total' = total + req[w].text
    BY <1>0, <1>4 DEF UploadAdd
  <2>3. PICK c \in Bundle, len \in Nat : c = req[w].id /\ len = req[w].text
    BY <2>2, LengthsNat DEF Uploading
  <2>4. AddOf[w] = len /\ AddOf'[w] = 0 /\ TakeOf'[w] = TakeOf[w]
    BY <2>2, <2>3 DEF AddOf, TakeOf
  <2>5. Adding' = Adding - len /\ Taking' = Taking
    <3>1. TakeOf[w] \in Nat
      BY <1>s DEF SharesTyped
    <3> QED
      BY <1>s, <1>n, <2>1, <2>4, <3>1, CallChange DEF SumsNat
  <2> SUFFICES ASSUME ~drifted
               PROVE  /\ total' = CountedBytes' + Taking'
                      /\ TextBytes(bundles)' = CountedBytes' + Adding'
    BY <2>2 DEF TotalSplit
  <2>6. bundles[c] # None /\ bundles[c].text = len /\ \A v \in Worker : pc[v] \in Owing /\ req[v].id = c => v = w
    BY <2>2, <2>3 DEF AddsSound, Owing
  <2>7. Unadded(c) /\ ~Unadded(c)'
    BY <2>1, <2>2, <2>3, <2>6 DEF Unadded, Owing, OthersKept
  <2>8. \A b \in Bundle \ {c} : Unadded(b)' = Unadded(b)
    BY <2>1, <2>2, <2>3, UnaddedStep
  <2>9. CountOf[c] = 0 /\ CountOf'[c] = len /\ SizeOf' = SizeOf
    BY <2>2, <2>6, <2>7 DEF CountOf, SizeOf, Size
  <2>10. \A b \in Bundle \ {c} : CountOf'[b] = CountOf[b] /\ SizeOf'[b] = SizeOf[b]
    BY <2>2, <2>8 DEF CountOf, SizeOf
  <2>11. CountedBytes' = CountedBytes + len /\ TextBytes(bundles)' = TextBytes(bundles)
    <3>1. SizeOf[c] \in Nat
      BY <1>s DEF SharesTyped
    <3> QED
      BY <1>s, <1>n, <2>3, <2>9, <2>10, <3>1, BundleChange DEF SumsNat
  <2> QED
    BY <1>0, <1>n, <2>2, <2>3, <2>5, <2>11 DEF TotalSplit, SumsNat
<1>5. ASSUME NEW w \in Worker, NEW c \in Bundle, NEW len \in Text, PruneRemove(w, c, len), ~drifted'
      PROVE  TotalSplit'
  <2>1. OthersKept(w)
    BY <1>5, OnlyOne DEF CallStep, Prune
  <2>2. /\ ~drifted /\ ~Unadded(c) /\ bundles[c] # None /\ bundles[c].text = len /\ len \in Nat
        /\ pc[w] \notin Owing /\ pc'[w] \notin Owing /\ old' = old /\ total' = total
        /\ bundles' = [bundles EXCEPT ![c] = None]
    BY <1>0, <1>5, CapAssumption DEF PruneRemove, Owing
  <2>3. prune'[w].freed = prune[w].freed + len /\ prune[w].freed \in Nat /\ old[w] \in Nat
    BY <1>5, RemoveEffect, LengthsNat
  <2>4. AddOf[w] = 0 /\ AddOf'[w] = 0 /\ TakeOf'[w] = TakeOf[w] + len
    BY <2>2, <2>3 DEF AddOf, TakeOf, Owing
  <2>5. Adding' = Adding /\ Taking' = Taking + len
    <3>1. TakeOf[w] \in Nat
      BY <1>s DEF SharesTyped
    <3> QED
      BY <1>s, <1>n, <2>1, <2>2, <2>4, <3>1, CallChange DEF SumsNat
  <2>6. \A b \in Bundle : Unadded(b)' = Unadded(b)
    BY <2>1, <2>2, UnaddedStep
  <2>7. CountOf[c] = len /\ CountOf'[c] = 0 /\ SizeOf[c] = len /\ SizeOf'[c] = 0
    BY <1>0, <2>2, <2>6 DEF CountOf, SizeOf, Size
  <2>8. \A b \in Bundle \ {c} : CountOf'[b] = CountOf[b] /\ SizeOf'[b] = SizeOf[b]
    BY <1>0, <2>2, <2>6 DEF CountOf, SizeOf, Size
  <2>9. CountedBytes' = CountedBytes - len /\ TextBytes(bundles)' = TextBytes(bundles) - len
    <3>1. /\ CountedBytes' = CountedBytes - CountOf[c] + CountOf'[c]
          /\ TextBytes(bundles)' = TextBytes(bundles) - SizeOf[c] + SizeOf'[c]
      BY <1>s, <2>8, BundleChange
    <3>2. len \in Nat
      BY <2>2
    <3> QED
      BY <1>n, <2>7, <3>1, <3>2 DEF SumsNat
  <2> QED
    BY <1>n, <2>2, <2>5, <2>9 DEF TotalSplit, SumsNat
<1>6. ASSUME NEW w \in Worker, NEW e \in 0 .. MaxNow + MAX_BUNDLE_TTL_MS + 1, UploadInsert(w, e), ~drifted'
      PROVE  TotalSplit'
  <2>1. OthersKept(w)
    BY <1>6, OnlyOne DEF CallStep, Upload
  <2>2. PICK c \in Bundle, len \in Nat : c = req[w].id /\ len = req[w].text
    BY <1>6, LengthsNat DEF UploadInsert, Uploading
  <2>3. ~drifted /\ (bundles[c] # None => ~Unadded(c))
    BY <1>6, <2>2 DEF UploadInsert
  <2>4. ~Unadded(c)
    BY <2>3 DEF AddsSound, Unadded, Owing
  <2>5. /\ req' = req /\ prune' = prune /\ total' = total /\ pc[w] = "insert" /\ pc'[w] \in Owing
        /\ old'[w] = Size(bundles, c)
        /\ bundles' = [bundles EXCEPT ![c] =
             [text |-> req[w].text, expires_at_ms |-> ClampExpiry(e)]]
    BY <1>0, <1>6, <2>2 DEF UploadInsert, Owing, Size
  <2>6. prune[w].freed = 0 /\ old[w] = 0
    BY <2>5 DEF CallsTidy
  <2>7. PICK o \in Nat : o = Size(bundles, c)
    BY <1>s DEF SharesTyped, SizeOf
  <2>8. AddOf[w] = 0 /\ AddOf'[w] = len /\ TakeOf[w] = 0 /\ TakeOf'[w] = o
    BY <2>2, <2>5, <2>6, <2>7 DEF AddOf, TakeOf, Owing
  <2>9. Adding' = Adding + len /\ Taking' = Taking + o
    BY <1>s, <1>n, <2>1, <2>2, <2>7, <2>8, CallChange DEF SumsNat
  <2>10. Unadded(c)' /\ \A b \in Bundle \ {c} : Unadded(b)' = Unadded(b)
    <3>1. Unadded(c)'
      BY <2>2, <2>5 DEF Unadded, Owing
    <3>2. \A b \in Bundle \ {c} : Unadded(b)' = Unadded(b)
      BY <2>1, <2>2, <2>5, UnaddedStep
    <3> QED
      BY <3>1, <3>2
  <2>11. SizeOf'[c] = len
    <3>1. bundles'[c] = [text |-> req[w].text, expires_at_ms |-> ClampExpiry(e)]
      BY <1>0, <2>5
    <3>2. bundles'[c] \in Hosted
      BY <1>6, <3>1, LengthsNat, ExpiryLater DEF UploadInsert, Hosted, Uploading
    <3> QED
      BY <2>2, <3>1, <3>2, NoneAssumption DEF SizeOf, Size
  <2>12. CountOf[c] = o /\ CountOf'[c] = 0 /\ SizeOf[c] = o
    BY <2>4, <2>7, <2>10 DEF CountOf, SizeOf
  <2>13. \A b \in Bundle \ {c} : bundles'[b] = bundles[b]
    BY <1>0, <2>5
  <2>14. \A b \in Bundle \ {c} : CountOf'[b] = CountOf[b] /\ SizeOf'[b] = SizeOf[b]
    BY <2>10, <2>13 DEF CountOf, SizeOf, Size
  <2>15. CountedBytes' = CountedBytes - o /\ TextBytes(bundles)' = TextBytes(bundles) - o + len
    BY <1>s, <1>n, <2>7, <2>11, <2>12, <2>14, BundleChange DEF SumsNat
  <2> QED
    BY <1>n, <2>3, <2>5, <2>7, <2>9, <2>15 DEF TotalSplit, SumsNat
<1>7. CASE Flush \/ Tick \/ UNCHANGED vars
  <2>1. UNCHANGED <<bundles, total, drifted, calls>>
    BY <1>7 DEF Flush, FlushScan, FlushRead, FlushWrite, FlushFails, FlushTake, Tick, vars
  <2>2. CountedBytes' = CountedBytes /\ Adding' = Adding /\ Taking' = Taking
    BY <2>1 DEF CountedBytes, Unadded, Adding, Taking
  <2> QED
    BY <2>1, <2>2 DEF TotalSplit
<1>8. CASE Crash
  <2>1. \A w \in Worker : pc'[w] = "idle" /\ old'[w] = 0 /\ prune'[w].freed = 0
    BY <1>8 DEF Crash, NoPrune
  <2>2. \A b \in Bundle : ~Unadded(b)'
    BY <2>1 DEF Unadded
  <2>3. CountOf' = SizeOf'
    BY <2>2 DEF CountOf, SizeOf
  <2>4. AddOf' = [w \in Worker |-> 0] /\ TakeOf' = [w \in Worker |-> 0]
    BY <2>1 DEF AddOf, TakeOf
  <2>5. Adding' = 0 /\ Taking' = 0
    BY <1>s, <2>4, SetsAssumption, TotalZero DEF SharesTyped
  <2>6. CountedBytes' = TextBytes(bundles)' /\ total' = TextBytes(bundles)'
    BY <1>8, <1>s, <2>3 DEF SharesTyped, Crash
  <2> QED
    BY <1>n, <2>5, <2>6 DEF TotalSplit, SumsNat
<1>9. CASE drifted'
  BY <1>9 DEF TotalSplit
<1> QED
  BY <1>1, <1>2, <1>3, <1>4, <1>5, <1>6, <1>7, <1>8, <1>9 DEF Next, Plain, Prune, Upload

-----------------------------------------------------------------------------
(* The sets that are counted are finite.                                   *)
LEMMA CountedFinite ==
  /\ IsFiniteSet(Worker) /\ Cardinality(Worker) \in Nat
  /\ \A S \in SUBSET Worker : IsFiniteSet(S) /\ Cardinality(S) \in Nat /\ Cardinality(S) <= Cardinality(Worker)
  /\ \A S \in SUBSET Bundle : IsFiniteSet(S) /\ Cardinality(S) \in Nat
BY SetsAssumption, FS_Subset, FS_CardinalityType

(* A smaller set counts less, and one element less is one less.            *)
LEMMA CountLess ==
  ASSUME NEW S, IsFiniteSet(S), NEW R \in SUBSET S
  PROVE  Cardinality(R) \in Nat /\ Cardinality(S) \in Nat /\ Cardinality(R) <= Cardinality(S)
BY FS_Subset, FS_CardinalityType

(* Taking a member out of a finite set.                                    *)
LEMMA CountOneLess ==
  ASSUME NEW S, IsFiniteSet(S), NEW x \in S
  PROVE  Cardinality(S \ {x}) = Cardinality(S) - 1 /\ Cardinality(S) >= 1
<1>1. Cardinality(S \ {x}) = Cardinality(S) - 1
  BY FS_RemoveElement
<1>2. Cardinality(S \ {x}) \in Nat /\ Cardinality(S) \in Nat
  BY FS_Subset, FS_CardinalityType
<1> QED
  BY <1>1, <1>2

(* Putting one into it.                                                    *)
LEMMA CountOneMore ==
  ASSUME NEW S, IsFiniteSet(S), NEW x
  PROVE  Cardinality(S \cup {x}) <= Cardinality(S) + 1
<1>1. Cardinality(S) \in Nat
  BY FS_CardinalityType
<1>2. CASE x \in S
  <2>1. S \cup {x} = S
    BY <1>2
  <2> QED
    BY <1>1, <2>1
<1>3. CASE x \notin S
  <2>1. Cardinality(S \cup {x}) = Cardinality(S) + 1
    BY <1>3, FS_AddElement
  <2> QED
    BY <1>1, <2>1
<1> QED
  BY <1>2, <1>3

(* Fewer bundles and fewer requests past the count check: still ahead.     *)
LEMMA CountKept ==
  ASSUME CountAhead, Passed' \subseteq Passed, Stored(bundles)' \subseteq Stored(bundles)
  PROVE  CountAhead'
<1>1. PICK P, Q, S, T : P = Passed /\ Q = Passed' /\ S = Stored(bundles) /\ T = Stored(bundles)'
  OBVIOUS
<1>2. P \in SUBSET Worker /\ S \in SUBSET Bundle /\ Q \in SUBSET P /\ T \in SUBSET S
  BY <1>1 DEF Passed, Stored
<1>3. IsFiniteSet(P) /\ IsFiniteSet(S)
  BY <1>2, CountedFinite
<1>4. /\ Cardinality(Q) \in Nat /\ Cardinality(P) \in Nat /\ Cardinality(Q) <= Cardinality(P)
      /\ Cardinality(T) \in Nat /\ Cardinality(S) \in Nat /\ Cardinality(T) <= Cardinality(S)
  BY <1>2, <1>3, CountLess
<1>5. Cardinality(Worker) \in Nat /\ MAX_BUNDLES \in Nat
  BY CountedFinite, CapAssumption
<1>6. P # {} => Cardinality(S) + Cardinality(P) <= MAX_BUNDLES + Cardinality(Worker) - 1
  BY <1>1 DEF CountAhead
<1>7. Q # {} => Cardinality(T) + Cardinality(Q) <= MAX_BUNDLES + Cardinality(Worker) - 1
  BY <1>2, <1>4, <1>5, <1>6
<1> QED
  BY <1>1, <1>7 DEF CountAhead

(* An insert adds one bundle at most and spends one passed check.          *)
LEMMA InsertCount ==
  ASSUME TypeOK, CountAhead, NEW w \in Worker, NEW e \in 0 .. MaxNow + MAX_BUNDLE_TTL_MS + 1, UploadInsert(w, e)
  PROVE  /\ CountAhead'
         /\ Cardinality(Stored(bundles)') <= MAX_BUNDLES + Cardinality(Worker) - 1
<1>0. pc \in [Worker -> PC] /\ bundles \in [Bundle -> Value]
  BY DEF TypeOK
<1>1. PICK P, Q, S, T, c : /\ P = Passed /\ Q = Passed' /\ S = Stored(bundles) /\ T = Stored(bundles)'
                           /\ c = req[w].id
  OBVIOUS
<1>2. w \in P /\ Q = P \ {w} /\ P \in SUBSET Worker
  BY <1>0, <1>1 DEF UploadInsert, Goto, Passed
<1>3. c \in Bundle /\ T \in SUBSET (S \cup {c}) /\ S \in SUBSET Bundle
  BY <1>0, <1>1, LengthsNat DEF UploadInsert, Goto, Stored
<1>4. IsFiniteSet(P) /\ IsFiniteSet(S) /\ IsFiniteSet(S \cup {c})
  BY <1>2, <1>3, CountedFinite
<1>5. Cardinality(T) <= Cardinality(S \cup {c}) /\ Cardinality(T) \in Nat /\ Cardinality(S \cup {c}) \in Nat
  BY <1>3, <1>4, CountLess
<1>6. Cardinality(S \cup {c}) <= Cardinality(S) + 1 /\ Cardinality(S) \in Nat
  BY <1>3, <1>4, CountOneMore, CountedFinite
<1>7. Cardinality(Q) = Cardinality(P) - 1 /\ Cardinality(P) >= 1 /\ Cardinality(P) \in Nat
  BY <1>2, <1>4, CountOneLess, CountedFinite
<1>8. Cardinality(Worker) \in Nat /\ MAX_BUNDLES \in Nat
  BY CountedFinite, CapAssumption
<1>9. Cardinality(S) + Cardinality(P) <= MAX_BUNDLES + Cardinality(Worker) - 1
  BY <1>1, <1>2 DEF CountAhead
<1>10. /\ Cardinality(T) + Cardinality(Q) <= MAX_BUNDLES + Cardinality(Worker) - 1
       /\ Cardinality(T) <= MAX_BUNDLES + Cardinality(Worker) - 1
  BY <1>5, <1>6, <1>7, <1>8, <1>9
<1> QED
  BY <1>1, <1>10 DEF CountAhead

(* The count check leaves room for every request there is.                 *)
LEMMA LenCount ==
  ASSUME TypeOK, NEW w \in Worker, UploadLen(w)
  PROVE  CountAhead'
<1>1. PICK Q, S : Q = Passed' /\ S = Stored(bundles)'
  OBVIOUS
<1>2. Q \in SUBSET Worker /\ S = Stored(bundles) /\ S \in SUBSET Bundle /\ ~(Cardinality(S) >= MAX_BUNDLES)
  BY <1>1 DEF UploadLen, TooMany, Passed, Stored
<1>3. Cardinality(Q) \in Nat /\ Cardinality(S) \in Nat /\ Cardinality(Q) <= Cardinality(Worker)
  BY <1>2, CountedFinite
<1>4. Cardinality(Worker) \in Nat /\ MAX_BUNDLES \in Nat
  BY CountedFinite, CapAssumption
<1>5. Cardinality(S) + Cardinality(Q) <= MAX_BUNDLES + Cardinality(Worker) - 1
  BY <1>2, <1>3, <1>4
<1> QED
  BY <1>1, <1>5 DEF CountAhead

(* Each step keeps the inserts that passed the count cap within the        *)
(* overshoot.                                                              *)
LEMMA CountStep ==
  ASSUME TypeOK, CountAhead, [Next]_vars
  PROVE  CountAhead'
<1>0. pc \in [Worker -> PC] /\ bundles \in [Bundle -> Value]
  BY DEF TypeOK
<1> USE DEF Goto, accounts, calls, history, env
<1>1. ASSUME NEW w \in Worker, CallStep(w), ~UploadLen(w),
             ~\E e \in 0 .. MaxNow + MAX_BUNDLE_TTL_MS + 1 : UploadInsert(w, e)
      PROVE  CountAhead'
  <2>1. OthersKept(w)
    BY <1>1, OnlyOne
  <2>2. CASE \E c \in Bundle, len \in Text : PruneRemove(w, c, len)
    <3>1. Stored(bundles)' \subseteq Stored(bundles) /\ pc'[w] = "prune_mark"
      BY <1>0, <2>2 DEF PruneRemove, Stored
    <3>2. Passed' \subseteq Passed
      BY <2>1, <3>1 DEF Passed, OthersKept
    <3> QED
      BY <3>1, <3>2, CountKept
  <2>3. CASE ~\E c \in Bundle, len \in Text : PruneRemove(w, c, len)
    <3>1. bundles' = bundles
      BY <1>1, <2>3 DEF CallStep, Requests, RequestNoPrune, RequestPrune, Request, Prune, PruneClaim, PruneScan,
         PruneSub, PruneMark, FetchGet, PruneGone, Upload, UploadExists, UploadCheck, UploadBytes,
         UploadRefused, UploadSub, UploadAdd, UploadMark
    <3>2. pc'[w] \in {"bytes", "insert"} => pc[w] \in {"bytes", "insert"}
      BY <1>0, <1>1, <2>3 DEF CallStep, Requests, RequestNoPrune, RequestPrune, Request, Prune, PruneClaim,
         PruneScan, PruneSub, PruneMark, FetchGet, PruneGone, Upload, UploadExists, UploadCheck, UploadBytes,
         UploadRefused, UploadSub, UploadAdd, UploadMark, Answered, AfterPrune
    <3>3. Passed' \subseteq Passed
      BY <2>1, <3>2 DEF Passed, OthersKept
    <3> QED
      BY <3>1, <3>3, CountKept
  <2> QED
    BY <2>2, <2>3
<1>2. CASE Flush \/ Tick \/ UNCHANGED vars
  <2>1. UNCHANGED <<bundles, calls>>
    BY <1>2 DEF Flush, FlushScan, FlushRead, FlushWrite, FlushFails, FlushTake, Tick, vars
  <2> QED
    BY <2>1 DEF CountAhead, Passed
<1>3. CASE Crash
  <2>1. Passed' = {}
    BY <1>3 DEF Crash, Passed
  <2> QED
    BY <2>1 DEF CountAhead
<1> QED
  BY <1>1, <1>2, <1>3, LenCount, InsertCount DEF Next, CallStep, Upload

-----------------------------------------------------------------------------
(* The longest ciphertext.                                                 *)
LEMMA MaxText == Max(Text) \in Nat /\ \A len \in Text : len <= Max(Text)
<1> DEFINE id == [len \in Text |-> len]
<1>1. id \in [Text -> Nat] /\ \A len \in Text : id[len] = len
  BY CapAssumption
<1>2. PICK top \in Nat : \A len \in Text : len <= top
  <2> HIDE DEF id
  <2>1. SumFunction(id) \in Nat /\ \A len \in Text : id[len] <= SumFunction(id)
    BY <1>1, CapAssumption, TotalNat
  <2> QED
    BY <1>1, <2>1
<1> DEFINE Gap == {top - len : len \in Text}
<1>3. PICK g \in Gap : \A h \in Gap : g <= h
  <2>1. \A len \in Text : top - len \in Nat
    BY <1>2, CapAssumption
  <2>2. Gap \subseteq Nat /\ Gap # {}
    BY <2>1, CapAssumption
  <2> HIDE DEF Gap
  <2> QED
    BY <2>2, LeastNumber
<1>4. PICK x \in Text : g = top - x
  OBVIOUS
<1>5. \A y \in Text : x >= y
  <2> TAKE y \in Text
  <2>1. g <= top - y
    BY <1>3
  <2> QED
    BY <1>4, <2>1, CapAssumption
<1>6. Max(Text) \in Text /\ \A y \in Text : Max(Text) >= y
  BY <1>5 DEF Max
<1> QED
  BY <1>6, CapAssumption

(* The bytes the check of the byte cap has approved, request by request.   *)
ApproveOf == [w \in Worker |-> IF w \in Approved THEN req[w].text ELSE 0]
ApprovalTyped ==
  /\ ApproveOf \in [Worker -> Nat] /\ ApprovedBytes = SumFunction(ApproveOf) /\ ApprovedBytes \in Nat
  /\ \A w \in Worker : ApproveOf[w] <= Max(Text)

(* They are numbers, each at most the longest bundle.                      *)
LEMMA ApprovalTypes == TypeOK => ApprovalTyped
<1> SUFFICES ASSUME TypeOK PROVE ApprovalTyped
  OBVIOUS
<1>1. \A w \in Worker : ApproveOf[w] \in Nat /\ ApproveOf[w] <= Max(Text)
  <2> TAKE w \in Worker
  <2>1. CASE w \in Approved
    <3>1. req[w].text \in Text /\ req[w].text \in Nat
      BY <2>1, LengthsNat DEF Approved, Uploading
    <3> QED
      BY <2>1, <3>1, MaxText DEF ApproveOf
  <2>2. CASE w \notin Approved
    BY <2>2, MaxText DEF ApproveOf
  <2> QED
    BY <2>1, <2>2
<1>2. ApproveOf \in [Worker -> Nat]
  BY <1>1 DEF ApproveOf
<1>3. ApprovedBytes = SumFunction(ApproveOf)
  BY DEF ApprovedBytes, ApproveOf
<1>4. SumFunction(ApproveOf) \in Nat
  <2> HIDE DEF ApproveOf
  <2> QED
    BY <1>2, SetsAssumption, TotalNat
<1> QED
  BY <1>1, <1>2, <1>3, <1>4 DEF ApprovalTyped

(* The same in the next state.                                             *)
LEMMA ApprovalTypesNext == TypeOK' => ApprovalTyped'
BY ApprovalTypes, PTL

(* A step of a request changes its own part of the bytes approved.         *)
LEMMA ApprovalChange ==
  ASSUME ApprovalTyped, ApprovalTyped', NEW w \in Worker, OthersKept(w)
  PROVE  ApprovedBytes' = ApprovedBytes - ApproveOf[w] + ApproveOf'[w]
<1>1. PICK f, g : f = ApproveOf /\ g = ApproveOf'
  OBVIOUS
<1>2. \A v \in Worker \ {w} : g[v] = f[v]
  BY <1>1 DEF OthersKept, ApproveOf, Approved
<1>3. /\ f \in [Worker -> Nat] /\ g \in [Worker -> Nat]
      /\ ApprovedBytes = SumFunction(f) /\ ApprovedBytes' = SumFunction(g)
  BY <1>1 DEF ApprovalTyped
<1>4. f \in [Worker -> Int] /\ g \in [Worker -> Int]
  BY <1>3
<1>5. SumFunction(g) = SumFunction(f) - f[w] + g[w]
  BY <1>2, <1>4, SetsAssumption, TotalChange
<1> QED
  BY <1>1, <1>3, <1>5

(* What all the other requests have been approved for.                     *)
LEMMA OthersApproved ==
  ASSUME ApprovalTyped, NEW w \in Worker, ApproveOf[w] = 0
  PROVE  /\ ApprovedBytes <= (Cardinality(Worker) - 1) * Max(Text)
         /\ (Cardinality(Worker) - 1) * Max(Text) \in Nat
<1>1. PICK f, m : f = ApproveOf /\ m = Max(Text)
  OBVIOUS
<1>2. /\ f \in [Worker -> Nat] /\ ApprovedBytes = SumFunction(f) /\ f[w] = 0 /\ m \in Nat
      /\ \A v \in Worker : f[v] <= m
  BY <1>1, MaxText DEF ApprovalTyped
<1>3. PICK g : g = [f EXCEPT ![w] = m]
  OBVIOUS
<1>4. g \in [Worker -> Nat] /\ g[w] = m /\ (\A v \in Worker : g[v] <= m) /\ \A v \in Worker \ {w} : g[v] = f[v]
  BY <1>2, <1>3
<1>5. SumFunction(g) <= Cardinality(Worker) * m
  BY <1>2, <1>4, SetsAssumption, TotalBound
<1>6. f \in [Worker -> Int] /\ g \in [Worker -> Int]
  BY <1>2, <1>4
<1>7. SumFunction(f) \in Int /\ SumFunction(g) = SumFunction(f) - f[w] + g[w]
  BY <1>4, <1>6, SetsAssumption, TotalChange
<1>8. PICK n \in Nat : n = Cardinality(Worker) /\ n >= 1
  BY CountedFinite, CountOneLess
<1>9. (n - 1) * m = n * m - m /\ n * m \in Nat /\ n - 1 \in Nat
  BY <1>2, <1>8
<1>10. (n - 1) * m \in Nat
  BY <1>2, <1>9
<1>11. SumFunction(f) <= (n - 1) * m
  BY <1>2, <1>4, <1>5, <1>7, <1>8, <1>9
<1> QED
  BY <1>1, <1>2, <1>8, <1>10, <1>11

BytesLimit == MAX_TOTAL_BUNDLE_BYTES + (Cardinality(Worker) - 1) * Max(Text)

(* A step that leaves no more counted and approved together.               *)
LEMMA BytesKept ==
  ASSUME ApprovalTyped, ApprovalTyped', total \in Nat, total' \in Nat, BytesAhead,
         Approved' # {} => Approved # {}, total' + ApprovedBytes' <= total + ApprovedBytes,
         BytesLimit \in Int
  PROVE  BytesAhead'
<1>1. ApprovedBytes \in Nat /\ ApprovedBytes' \in Nat
  BY DEF ApprovalTyped
<1>2. Approved # {} => total + ApprovedBytes <= BytesLimit
  BY DEF BytesAhead, BytesLimit
<1>3. Approved' # {} => total' + ApprovedBytes' <= BytesLimit
  <2>1. PICK m, n, k : m = total + ApprovedBytes /\ n = total' + ApprovedBytes' /\ k = BytesLimit
    OBVIOUS
  <2>0. m \in Int /\ n \in Int /\ k \in Int
    BY <1>1, <2>1
  <2>2. n <= m /\ (Approved # {} => m <= k)
    BY <1>2, <2>1
  <2>3. m <= k => n <= k
    BY <2>0, <2>2
  <2> QED
    BY <2>1, <2>2, <2>3
<1> QED
  BY <1>3 DEF BytesAhead, BytesLimit

(* Each step keeps the inserts that passed the byte cap within the         *)
(* overshoot.                                                              *)
LEMMA BytesStep ==
  ASSUME TypeOK, CallsTidy, TypeOK', CallsTidy', BytesAhead, [Next]_vars
  PROVE  BytesAhead'
<1>0. pc \in [Worker -> PC] /\ bundles \in [Bundle -> Value] /\ total \in Nat /\ total' \in Nat
  BY DEF TypeOK
<1>a. ApprovalTyped /\ ApprovalTyped'
  BY ApprovalTypes, ApprovalTypesNext
<1>b. ApprovedBytes \in Nat /\ ApprovedBytes' \in Nat /\ \A w \in Worker : ApproveOf[w] \in Nat /\ ApproveOf'[w] \in Nat
  BY <1>a DEF ApprovalTyped
<1>l. BytesLimit \in Int
  BY CountedFinite, MaxText, CapAssumption DEF BytesLimit
<1> USE DEF Goto, accounts, calls, history, env
<1> DEFINE Counted == {"insert", "sub", "add"}
<1>1. ASSUME NEW w \in Worker, UploadBytes(w)
      PROVE  BytesAhead'
  <2>1. OthersKept(w)
    BY <1>1, OnlyOne DEF CallStep, Upload
  <2>2. PICK len \in Nat : len = req[w].text
    BY <1>1, LengthsNat DEF UploadBytes, Uploading
  <2>3. /\ w \notin Approved /\ w \in Approved' /\ req' = req /\ total' = total
        /\ ~(total + len > MAX_TOTAL_BUNDLE_BYTES)
    BY <1>0, <1>1, <2>2 DEF UploadBytes, Approved, TooLarge
  <2>4. ApproveOf[w] = 0 /\ ApproveOf'[w] = len
    BY <2>2, <2>3 DEF ApproveOf
  <2>5. ApprovedBytes' = ApprovedBytes + len
    BY <1>a, <1>b, <2>1, <2>2, <2>4, ApprovalChange
  <2>6. PICK r \in Nat : r = (Cardinality(Worker) - 1) * Max(Text) /\ ApprovedBytes <= r
    BY <1>a, <2>4, OthersApproved
  <2>7. total' + ApprovedBytes' <= MAX_TOTAL_BUNDLE_BYTES + r
    BY <1>0, <1>b, <2>2, <2>3, <2>5, <2>6, CapAssumption
  <2> QED
    BY <2>6, <2>7 DEF BytesAhead
<1>2. ASSUME NEW w \in Worker, UploadAdd(w)
      PROVE  BytesAhead'
  <2>1. OthersKept(w)
    BY <1>2, OnlyOne DEF CallStep, Upload
  <2>2. PICK len \in Nat : len = req[w].text
    BY <1>2, LengthsNat DEF UploadAdd, Uploading
  <2>3. w \in Approved /\ w \notin Approved' /\ total' = total + len
    BY <1>0, <1>2, <2>2 DEF UploadAdd, Approved
  <2>4. ApproveOf[w] = len /\ ApproveOf'[w] = 0
    BY <2>2, <2>3 DEF ApproveOf
  <2>5. ApprovedBytes' = ApprovedBytes - len
    BY <1>a, <1>b, <2>1, <2>2, <2>4, ApprovalChange
  <2>6. total' + ApprovedBytes' <= total + ApprovedBytes
    BY <1>0, <1>b, <2>2, <2>3, <2>5
  <2> QED
    BY <1>0, <1>a, <1>l, <2>3, <2>6, BytesKept
<1>3. ASSUME NEW w \in Worker, CallStep(w), pc'[w] \in Counted <=> pc[w] \in Counted,
             pc[w] \in Counted => req'[w] = req[w], total' <= total
      PROVE  BytesAhead'
  <2>1. OthersKept(w)
    BY <1>3, OnlyOne
  <2>2. Approved' = Approved
    BY <1>3, <2>1 DEF Approved, OthersKept
  <2>3. ApproveOf'[w] = ApproveOf[w]
    BY <1>3, <2>2 DEF ApproveOf, Approved
  <2>4. ApprovedBytes' = ApprovedBytes
    BY <1>a, <1>b, <2>1, <2>3, ApprovalChange
  <2>5. total' + ApprovedBytes' <= total + ApprovedBytes
    <3>1. PICK t, u, a : t = total /\ u = total' /\ a = ApprovedBytes
      OBVIOUS
    <3>0. t \in Nat /\ u \in Nat /\ a \in Nat /\ u <= t
      BY <1>0, <1>3, <1>b, <3>1
    <3>2. u + a <= t + a
      BY <3>0
    <3> QED
      BY <2>4, <3>1, <3>2
  <2> QED
    BY <1>0, <1>a, <1>l, <2>2, <2>5, BytesKept
<1>4. ASSUME NEW w \in Worker, Plain(w), ~UploadBytes(w)
      PROVE  BytesAhead'
  <2>1. total' <= total
    BY <1>0, <1>4, PlainFacts
  <2>2. pc[w] \notin Counted /\ pc'[w] \notin Counted
    BY <1>0, <1>4 DEF Plain, Requests, RequestNoPrune, RequestPrune, Request, PruneClaim, PruneScan, PruneMark,
         FetchGet, PruneGone, UploadExists, UploadCheck, UploadLen, UploadRefused, UploadMark,
         Answered, AfterPrune
  <2>3. CallStep(w)
    BY <1>4 DEF Plain, CallStep, Prune, Upload
  <2> QED
    BY <1>3, <2>1, <2>2, <2>3
<1>5. ASSUME NEW w \in Worker, PruneSub(w) \/ UploadSub(w)
      PROVE  BytesAhead'
  <2>1. \A n \in Nat : Monus(total, n) <= total
    BY <1>0 DEF Monus
  <2>2. total' <= total
    BY <1>5, <2>1, LengthsNat DEF PruneSub, UploadSub
  <2>3. req' = req /\ (pc'[w] \in Counted <=> pc[w] \in Counted)
    BY <1>0, <1>5 DEF PruneSub, UploadSub, AfterPrune
  <2>4. CallStep(w)
    BY <1>5 DEF CallStep, Prune, Upload
  <2> QED
    BY <1>3, <2>2, <2>3, <2>4
<1>6. ASSUME NEW w \in Worker, NEW c \in Bundle, NEW len \in Text, PruneRemove(w, c, len)
      PROVE  BytesAhead'
  <2>1. total' <= total /\ req' = req /\ (pc'[w] \in Counted <=> pc[w] \in Counted)
    BY <1>0, <1>6 DEF PruneRemove
  <2>2. CallStep(w)
    BY <1>6 DEF CallStep, Prune
  <2> QED
    BY <1>3, <2>1, <2>2
<1>7. ASSUME NEW w \in Worker, NEW e \in 0 .. MaxNow + MAX_BUNDLE_TTL_MS + 1, UploadInsert(w, e)
      PROVE  BytesAhead'
  <2>1. total' <= total /\ req' = req /\ (pc'[w] \in Counted <=> pc[w] \in Counted)
    BY <1>0, <1>7 DEF UploadInsert
  <2>2. CallStep(w)
    BY <1>7 DEF CallStep, Upload
  <2> QED
    BY <1>3, <2>1, <2>2
<1>8. CASE Flush \/ Tick \/ UNCHANGED vars
  <2>1. UNCHANGED <<total, calls>>
    BY <1>8 DEF Flush, FlushScan, FlushRead, FlushWrite, FlushFails, FlushTake, Tick, vars
  <2> QED
    BY <2>1 DEF BytesAhead, ApprovedBytes, Approved
<1>9. CASE Crash
  <2>1. Approved' = {}
    BY <1>9 DEF Crash, Approved
  <2> QED
    BY <2>1 DEF BytesAhead
<1> QED
  BY <1>1, <1>2, <1>4, <1>5, <1>6, <1>7, <1>8, <1>9 DEF Next, Plain, Prune, Upload

-----------------------------------------------------------------------------
(* The inductive invariant.                                                *)
BundleInv ==
  /\ TypeOK /\ CallsTidy /\ FlushTidy /\ WriteBackCovers /\ LookedSound
  /\ AddsSound /\ TotalSplit /\ CountAhead /\ BytesAhead

(* It holds at the start,                                                  *)
LEMMA InitInv == Init => BundleInv
<1> SUFFICES ASSUME Init PROVE BundleInv
  OBVIOUS
<1>1. TypeOK
  <2>1. 1 \in 1 .. MaxNow /\ 0 \in 0 .. MaxNow /\ 0 \in 0 .. MaxCrashes /\ 0 \in 0 .. MaxRequests
    BY BoundAssumption
  <2>2. NoFlush.pc = "idle"
    BY DEF NoFlush
  <2> QED
    BY <2>1, <2>2, EmptyRecords DEF Init, TypeOK, PC
<1>2. \A w \in Worker : pc[w] = "idle" /\ old[w] = 0 /\ prune[w] = NoPrune
  BY DEF Init
<1>3. CallsTidy /\ FlushTidy
  BY <1>2 DEF Init, CallsTidy, FlushTidy, NoPrune, NoFlush
<1>4. WriteBackCovers
  BY DEF Init, WriteBackCovers, Covered, NoFlush
<1>5. LookedSound
  BY <1>2 DEF LookedSound, Looked, NoPrune
<1>6. AddsSound
  BY <1>2 DEF AddsSound, Owing
<1>7. TotalSplit
  <2>1. SharesTyped
    BY <1>1, ShareTypes
  <2>2. AddOf = [w \in Worker |-> 0] /\ TakeOf = [w \in Worker |-> 0]
    BY <1>2 DEF AddOf, TakeOf, NoPrune
  <2>3. SizeOf = [b \in Bundle |-> 0] /\ CountOf = [b \in Bundle |-> 0]
    BY DEF SizeOf, CountOf, Size, Init, NoBundles
  <2>4. Adding = 0 /\ Taking = 0 /\ CountedBytes = 0 /\ TextBytes(bundles) = 0
    BY <2>1, <2>2, <2>3, SetsAssumption, TotalZero DEF SharesTyped
  <2> QED
    BY <2>4 DEF TotalSplit, Init
<1>8. CountAhead /\ BytesAhead
  <2>1. Passed = {} /\ Approved = {}
    BY <1>2 DEF Passed, Approved
  <2> QED
    BY <2>1 DEF CountAhead, BytesAhead
<1> QED
  BY <1>1, <1>3, <1>4, <1>5, <1>6, <1>7, <1>8 DEF BundleInv

(* and every step keeps it.                                                *)
LEMMA InvStep == BundleInv /\ [Next]_vars => BundleInv'
<1> SUFFICES ASSUME BundleInv, [Next]_vars PROVE BundleInv'
  OBVIOUS
<1>1. TypeOK' /\ CallsTidy' /\ FlushTidy'
  BY TypeStep DEF BundleInv
<1>2. WriteBackCovers' /\ LookedSound'
  BY CoverStep, LookedStep DEF BundleInv
<1>3. AddsSound' /\ TotalSplit'
  BY <1>1, AddsStep, SplitStep DEF BundleInv
<1>4. CountAhead' /\ BytesAhead'
  BY <1>1, CountStep, BytesStep DEF BundleInv
<1> QED
  BY <1>1, <1>2, <1>3, <1>4 DEF BundleInv

(* The inductive invariant holds at every moment.                          *)
LEMMA Invariance == Spec => []BundleInv
BY InitInv, InvStep, PTL DEF Spec

(* Every reachable state of the bundle store is well formed: a request     *)
(* past its checks names a bundle and a text, a prune about to mark one    *)
(* names it, and the byte total never runs below zero.                     *)
THEOREM TypeCorrect == Spec => []TypeOK
<1>1. BundleInv => TypeOK
  BY DEF BundleInv
<1> QED
  BY <1>1, Invariance, PTL

(* No interleaving of uploads, prunes, flushes, failed transactions and    *)
(* restarts leaves a bundle's row different from the map with nothing left *)
(* to correct it, except the batch of a transaction that failed            *)
(* (flush_dirty_meta).                                                     *)
THEOREM WriteBackAlwaysCovers == Spec => []WriteBackCovers
<1>1. BundleInv => WriteBackCovers
  BY DEF BundleInv
<1> QED
  BY <1>1, Invariance, PTL

(* total_bundle_bytes is the bytes stored, up to what requests in progress *)
(* owe, for any number of concurrent uploads and prunes, unless one of the *)
(* two accounting races on a single id has happened.                       *)
THEOREM TotalAlwaysExact == Spec => []TotalExact
<1>1. BundleInv => TotalExact
  <2> SUFFICES ASSUME BundleInv, ~drifted
               PROVE  total + Adding = TextBytes(bundles) + Taking
    BY DEF TotalExact
  <2>1. SharesTyped
    BY ShareTypes DEF BundleInv
  <2>2. CountedBytes \in Nat /\ TextBytes(bundles) \in Nat /\ Adding \in Nat /\ Taking \in Nat
    BY <2>1, SumTypes
  <2>3. total = CountedBytes + Taking /\ TextBytes(bundles) = CountedBytes + Adding
    BY DEF BundleInv, TotalSplit
  <2> QED
    BY <2>2, <2>3
<1> QED
  BY <1>1, Invariance, PTL

(* A live bundle is replaced or removed only by a request that looked at   *)
(* the map before that bundle was stored: the check-then-insert of         *)
(* UploadBundle and the scan-then-remove of a prune.                       *)
THEOREM LiveAlwaysKept == Spec => LiveKept
<1>1. ASSUME BundleInv, [Next]_vars
      PROVE  [crashes' = crashes =>
                \A b \in Bundle : Live(b) /\ bundles'[b] # bundles[b] =>
                  \E w \in stale[b] : pc'[w] # pc[w]]_vars
  BY <1>1, LiveStep DEF BundleInv
<1> QED
  BY <1>1, Invariance, PTL DEF Spec, LiveKept

(* Concurrent uploads pass the two caps together by at most one bundle     *)
(* each: no upload leaves more bundles than the cap and one per other      *)
(* request, nor more bytes than the cap and the longest text per other.    *)
THEOREM OvershootAlwaysBounded == Spec => OvershootBounded
<1> DEFINE Bounded ==
      crashes' = crashes /\ ~drifted' =>
       /\ Stored(bundles') \ Stored(bundles) # {} =>
            Cardinality(Stored(bundles')) <= MAX_BUNDLES + Cardinality(Worker) - 1
       /\ TextBytes(bundles') > TextBytes(bundles) =>
            TextBytes(bundles') <= MAX_TOTAL_BUNDLE_BYTES + (Cardinality(Worker) - 1) * Max(Text)
<1>1. ASSUME BundleInv, [Next]_vars, BundleInv', crashes' = crashes, ~drifted'
      PROVE  /\ Stored(bundles') \ Stored(bundles) # {} =>
                  Cardinality(Stored(bundles')) <= MAX_BUNDLES + Cardinality(Worker) - 1
             /\ TextBytes(bundles') > TextBytes(bundles) =>
                  TextBytes(bundles') <= MAX_TOTAL_BUNDLE_BYTES + (Cardinality(Worker) - 1) * Max(Text)
  <2>0. /\ TypeOK /\ CallsTidy /\ CountAhead /\ TypeOK' /\ TotalSplit' /\ BytesAhead'
        /\ bundles \in [Bundle -> Value] /\ bundles' \in [Bundle -> Value] /\ pc \in [Worker -> PC]
    BY <1>1 DEF BundleInv, TypeOK
  <2>1. CASE bundles' = bundles
    <3>1. TextBytes(bundles) \in Nat
      BY <2>0, MapBytes
    <3> QED
      BY <2>1, <3>1
  <2>2. CASE bundles' # bundles
    <3>1. PICK b \in Bundle : bundles'[b] # bundles[b]
      BY <2>0, <2>2
    <3>2. PICK w \in Worker :
           \/ \E c \in Bundle, len \in Text : PruneRemove(w, c, len)
           \/ \E e \in 0 .. MaxNow + MAX_BUNDLE_TTL_MS + 1 : UploadInsert(w, e)
      BY <1>1, <2>0, <3>1, MapChange
    <3>3. ASSUME NEW c \in Bundle, NEW len \in Text, PruneRemove(w, c, len)
          PROVE  Stored(bundles') \subseteq Stored(bundles) /\ ~(TextBytes(bundles') > TextBytes(bundles))
      <4>1. bundles' = [bundles EXCEPT ![c] = None]
        BY <3>3 DEF PruneRemove
      <4>2. Stored(bundles') \subseteq Stored(bundles)
        BY <2>0, <4>1 DEF Stored
      <4>3. PICK f, g : f = SizeOf /\ g = SizeOf'
        OBVIOUS
      <4>4. /\ f \in [Bundle -> Nat] /\ g \in [Bundle -> Nat]
            /\ TextBytes(bundles) = SumFunction(f) /\ TextBytes(bundles') = SumFunction(g)
        BY <2>0, <4>3, ShareTypes, ShareTypesNext DEF SharesTyped
      <4>5. \A x \in Bundle : g[x] = f[x] \/ g[x] = 0
        BY <2>0, <4>1, <4>3 DEF SizeOf, Size
      <4>6. \A x \in Bundle : g[x] <= f[x]
        BY <4>4, <4>5
      <4>7. f \in [Bundle -> Int] /\ g \in [Bundle -> Int]
        BY <4>4
      <4>8. SumFunction(g) <= SumFunction(f) /\ SumFunction(g) \in Nat /\ SumFunction(f) \in Nat
        BY <4>4, <4>6, <4>7, SetsAssumption, TotalMonotone, TotalNat
      <4> QED
        BY <4>2, <4>4, <4>8
    <3>4. ASSUME NEW e \in 0 .. MaxNow + MAX_BUNDLE_TTL_MS + 1, UploadInsert(w, e)
          PROVE  /\ Cardinality(Stored(bundles')) <= MAX_BUNDLES + Cardinality(Worker) - 1
                 /\ TextBytes(bundles') <= BytesLimit
      <4>1. Cardinality(Stored(bundles')) <= MAX_BUNDLES + Cardinality(Worker) - 1
        BY <2>0, <3>4, InsertCount
      <4>2. w \in Approved'
        BY <2>0, <3>4 DEF UploadInsert, Goto, Approved
      <4>3. total' + ApprovedBytes' <= BytesLimit
        BY <2>0, <4>2 DEF BytesAhead, BytesLimit
      <4>4. Adding' <= ApprovedBytes'
        <5>1. PICK f, g : f = AddOf' /\ g = ApproveOf'
          OBVIOUS
        <5>2. /\ f \in [Worker -> Nat] /\ g \in [Worker -> Nat]
              /\ Adding' = SumFunction(f) /\ ApprovedBytes' = SumFunction(g)
          BY <2>0, <5>1, ShareTypesNext, ApprovalTypesNext DEF SharesTyped, ApprovalTyped
        <5>3. \A v \in Worker : f[v] = g[v] \/ f[v] = 0
          BY <5>1 DEF AddOf, ApproveOf, Approved
        <5>4. \A v \in Worker : f[v] <= g[v]
          BY <5>2, <5>3
        <5>5. f \in [Worker -> Int] /\ g \in [Worker -> Int]
          BY <5>2
        <5> QED
          BY <5>2, <5>4, <5>5, SetsAssumption, TotalMonotone
      <4>5. PICK t, a, p, c, k, x, m : /\ t = total' /\ a = Adding' /\ p = ApprovedBytes' /\ c = CountedBytes'
                                       /\ k = Taking' /\ x = TextBytes(bundles)' /\ m = BytesLimit
        OBVIOUS
      <4>6. t \in Nat /\ a \in Nat /\ p \in Nat /\ c \in Nat /\ k \in Nat /\ x \in Nat
        BY <2>0, <4>5, ShareTypesNext, SumTypesNext, ApprovalTypesNext DEF SumsNat, ApprovalTyped, TypeOK
      <4>7. t = c + k /\ x = c + a /\ a <= p /\ t + p <= m
        BY <1>1, <2>0, <4>3, <4>4, <4>5 DEF TotalSplit
      <4>8. m \in Int
        BY <4>5, CountedFinite, MaxText, CapAssumption DEF BytesLimit
      <4>9. x <= m
        BY <4>6, <4>7, <4>8
      <4> QED
        BY <4>1, <4>5, <4>9
    <3> QED
      BY <3>2, <3>3, <3>4 DEF BytesLimit
  <2> QED
    BY <2>1, <2>2
<1>2. BundleInv /\ BundleInv' /\ [Next]_vars => [Bounded]_vars
  BY <1>1
<1> QED
  BY <1>2, Invariance, PTL DEF Spec, OvershootBounded
=============================================================================
