-------------------------- MODULE AdmissionProofs ---------------------------
(***************************************************************************)
(* Proofs about Admission for any number of connections and tokens, any    *)
(* limits and any clock: type correctness, the connection counter and its  *)
(* cap, the delivery-token allowlist, and the send budget of a             *)
(* destination over any span of one window.                                *)
(***************************************************************************)
EXTENDS Admission, DataLemmas

-----------------------------------------------------------------------------
(* The allowlist.  Among the members of a finite set of positions, exactly *)
(* one has a given rank.                                                   *)
Rank(F, i) == Cardinality({j \in F : j <= i})

(* The position Dedup looks for exists, and is the only one of its rank.   *)
LEMMA RankOnto ==
  ASSUME NEW F, IsFiniteSet(F), F \subseteq Nat
  PROVE  /\ \A k \in 1 .. Cardinality(F) : \E i \in F : Rank(F, i) = k
         /\ \A i \in F : Rank(F, i) \in 1 .. Cardinality(F)
<1> DEFINE n == Cardinality(F)
           Below(i) == {j \in F : j <= i}
           f == [i \in F |-> Cardinality(Below(i))]
<1>1. n \in Nat
  BY FS_CardinalityType
<1>2. ASSUME NEW i \in F
      PROVE  IsFiniteSet(Below(i)) /\ Cardinality(Below(i)) \in 1 .. n
  <2>1. Below(i) \in SUBSET F /\ i \in Below(i)
    OBVIOUS
  <2>2. PICK B : B = Below(i)
    OBVIOUS
  <2>3. IsFiniteSet(B) /\ Cardinality(B) <= n
    BY <2>1, <2>2, FS_Subset
  <2>4. Cardinality(B) \in Nat /\ Cardinality(B) # 0
    BY <2>1, <2>2, <2>3, FS_CardinalityType, FS_EmptySet
  <2> QED
    BY <1>1, <2>2, <2>3, <2>4
<1>3. ASSUME NEW i \in F, NEW j \in F, i < j
      PROVE  f[i] # f[j]
  <2>1. PICK A : A = Below(i)
    OBVIOUS
  <2>2. PICK B : B = Below(j)
    OBVIOUS
  <2>6. i \in Nat /\ j \in Nat /\ \A x \in F : x \in Nat
    OBVIOUS
  <2>7. \A x \in F : x <= i => x <= j
    BY <1>3, <2>6
  <2>8. j <= j /\ ~(j <= i)
    BY <1>3, <2>6
  <2>3. A \in SUBSET B /\ j \in B /\ j \notin A
    BY <2>1, <2>2, <2>7, <2>8
  <2>4. IsFiniteSet(B)
    BY <1>2, <2>2
  <2>5. Cardinality(A) # Cardinality(B)
    BY <2>3, <2>4, FS_Subset
  <2> QED
    BY <2>1, <2>2, <2>5
<1>4. \A i, j \in F : f[i] = f[j] => i = j
  <2> SUFFICES ASSUME NEW i \in F, NEW j \in F, i # j
               PROVE  f[i] # f[j]
    OBVIOUS
  <2>1. i < j \/ j < i
    OBVIOUS
  <2> QED
    BY <1>3, <2>1
<1>5. f \in [F -> 1 .. n]
  BY <1>2
<1> HIDE DEF f
<1>6. f \in Injection(F, 1 .. n)
  BY <1>4, <1>5 DEF Injection, IsInjective
<1>7. IsFiniteSet(1 .. n) /\ Cardinality(1 .. n) = n
  BY <1>1, FS_Interval
<1>8. f \in Surjection(F, 1 .. n)
  BY <1>6, <1>7, FS_Injection
<1>9. \A k \in 1 .. n : \E i \in F : f[i] = k
  BY <1>8 DEF Surjection
<1>10. \A i \in F : f[i] = Rank(F, i)
  BY DEF f, Rank
<1> QED
  BY <1>5, <1>9, <1>10

(* The list without its later duplicates: the same tokens, once each.      *)
LEMMA DedupFacts ==
  ASSUME NEW ts \in Seq(Token)
  PROVE  /\ Dedup(ts) \in Seq(Token) /\ Len(Dedup(ts)) <= Len(ts)
         /\ IsInjective(Dedup(ts)) /\ ToSet(Dedup(ts)) \subseteq ToSet(ts)
<1> DEFINE F == {i \in DOMAIN ts : \A j \in 1 .. i - 1 : ts[j] # ts[i]}
           n == Cardinality(F)
           At(k) == CHOOSE i \in F : Rank(F, i) = k
           d == [k \in 1 .. n |-> ts[At(k)]]
<1>1. Len(ts) \in Nat /\ DOMAIN ts = 1 .. Len(ts)
  OBVIOUS
<1>t. \A i \in 1 .. Len(ts) : ts[i] \in Token
  OBVIOUS
<1>2. F \in SUBSET (1 .. Len(ts)) /\ F \subseteq Nat
  BY <1>1
<1>3. IsFiniteSet(F) /\ n \in Nat /\ n <= Len(ts)
  <2>1. IsFiniteSet(1 .. Len(ts)) /\ Cardinality(1 .. Len(ts)) = Len(ts)
    BY <1>1, FS_Interval
  <2> HIDE DEF F
  <2> QED
    BY <1>2, <2>1, FS_Subset, FS_CardinalityType
<1>4. Dedup(ts) = d
  BY DEF Dedup, Rank
<1>5. ASSUME NEW k \in 1 .. n
      PROVE  At(k) \in F /\ Rank(F, At(k)) = k
  <2> HIDE DEF F
  <2>1. \E i \in F : Rank(F, i) = k
    BY <1>2, <1>3, RankOnto
  <2> QED
    BY <2>1
<1>6. \A i, j \in F : ts[i] = ts[j] => i = j
  <2> SUFFICES ASSUME NEW i \in F, NEW j \in F, i < j
               PROVE  ts[i] # ts[j]
    BY <1>2
  <2>1. i \in 1 .. j - 1
    BY <1>1
  <2> QED
    BY <2>1
<1> HIDE DEF At, F
<1>7. \A k \in 1 .. n : At(k) \in 1 .. Len(ts) /\ ts[At(k)] \in Token
  <2> TAKE k \in 1 .. n
  <2>1. At(k) \in F
    BY <1>5
  <2> QED
    BY <1>2, <1>t, <2>1
<1>8. \A k, l \in 1 .. n : ts[At(k)] = ts[At(l)] => k = l
  BY <1>5, <1>6
<1>9. d \in Seq(Token) /\ Len(d) = n /\ DOMAIN d = 1 .. n
  BY <1>3, <1>7
<1>10. IsInjective(d)
  BY <1>8, <1>9 DEF IsInjective
<1>11. ToSet(d) \subseteq ToSet(ts)
  BY <1>1, <1>7, <1>9 DEF ToSet
<1> QED
  BY <1>3, <1>4, <1>9, <1>10, <1>11

(* What AllowlistSound says of the mailbox, of any record.                 *)
Sound(a) ==
  /\ accepts_delivery_hash(a) \subseteq a.granted
  /\ IsInjective(a.delivery_token_hashes)
  /\ Len(a.delivery_token_hashes) <= MAX_DELIVERY_TOKENS_PER_MAILBOX

(* A token joins a list that has made room for it.                         *)
LEMMA EvictFacts ==
  ASSUME NEW ts \in Seq(Token), NEW t \in Token, t \notin ToSet(ts)
  PROVE  LET us == Append(EvictOldest(ts), t)
         IN  /\ us \in Seq(Token) /\ ToSet(us) \subseteq ToSet(ts) \cup {t}
             /\ IsInjective(ts) /\ Len(ts) <= MAX_DELIVERY_TOKENS_PER_MAILBOX =>
                  IsInjective(us) /\ Len(us) <= MAX_DELIVERY_TOKENS_PER_MAILBOX
<1>0. MAX_DELIVERY_TOKENS_PER_MAILBOX \in Nat \ {0}
  BY LimitAssumption
<1>1. PICK vs : vs = EvictOldest(ts)
  OBVIOUS
<1>2. /\ vs \in Seq(Token) /\ ToSet(vs) \subseteq ToSet(ts)
      /\ IsInjective(ts) => IsInjective(vs)
      /\ Len(ts) <= MAX_DELIVERY_TOKENS_PER_MAILBOX => Len(vs) < MAX_DELIVERY_TOKENS_PER_MAILBOX
  <2>1. CASE Len(ts) >= MAX_DELIVERY_TOKENS_PER_MAILBOX
    <3>1. vs = Tail(ts)
      BY <1>1, <2>1 DEF EvictOldest
    <3>2. ts # <<>>
      BY <1>0, <2>1
    <3>3. /\ Tail(ts) \in Seq(Token) /\ Len(Tail(ts)) = Len(ts) - 1
          /\ \A k \in 1 .. Len(ts) - 1 : Tail(ts)[k] = ts[k + 1]
          /\ ToSet(ts) = {Head(ts)} \cup ToSet(Tail(ts))
      BY <3>2, ToSetTail
    <3>4. vs \in Seq(Token) /\ Len(vs) = Len(ts) - 1 /\ \A k \in 1 .. Len(ts) - 1 : vs[k] = ts[k + 1]
      BY <3>1, <3>3
    <3>5. ASSUME IsInjective(ts) PROVE IsInjective(vs)
      <4>1. ASSUME NEW a \in 1 .. Len(ts) - 1, NEW b \in 1 .. Len(ts) - 1, vs[a] = vs[b]
            PROVE  a = b
        <5>1. a + 1 \in 1 .. Len(ts) /\ b + 1 \in 1 .. Len(ts) /\ ts[a + 1] = ts[b + 1]
          BY <3>4, <4>1
        <5>2. a + 1 = b + 1
          BY <3>5, <5>1 DEF IsInjective
        <5> QED
          BY <5>2
      <4> QED
        BY <3>4, <4>1 DEF IsInjective
    <3> QED
      BY <1>0, <3>1, <3>3, <3>4, <3>5
  <2>2. CASE ~(Len(ts) >= MAX_DELIVERY_TOKENS_PER_MAILBOX)
    <3>1. vs = ts
      BY <1>1, <2>2 DEF EvictOldest
    <3> QED
      BY <1>0, <2>2, <3>1
  <2> QED
    BY <2>1, <2>2
<1>3. PICK us : us = Append(vs, t)
  OBVIOUS
<1>4. /\ us \in Seq(Token) /\ Len(us) = Len(vs) + 1 /\ us[Len(vs) + 1] = t
      /\ \A k \in 1 .. Len(vs) : us[k] = vs[k]
      /\ ToSet(us) = ToSet(vs) \cup {t}
  BY <1>2, <1>3, ToSetAppend
<1>5. ASSUME IsInjective(vs) PROVE IsInjective(us)
  <2>1. t \notin ToSet(vs)
    BY <1>2
  <2>2. \A k \in 1 .. Len(vs) : vs[k] # t
    BY <1>2, <2>1, ElementsOf
  <2>3. Len(vs) \in Nat /\ DOMAIN vs = 1 .. Len(vs) /\ DOMAIN us = 1 .. Len(vs) + 1
    BY <1>2, <1>4
  <2>4. ASSUME NEW a \in 1 .. Len(vs) + 1, NEW b \in 1 .. Len(vs) + 1, us[a] = us[b]
        PROVE  a = b
    <3>1. CASE a \in 1 .. Len(vs) /\ b \in 1 .. Len(vs)
      BY <1>4, <1>5, <2>3, <2>4, <3>1 DEF IsInjective
    <3>2. CASE a = Len(vs) + 1 \/ b = Len(vs) + 1
      BY <1>4, <2>2, <2>3, <2>4, <3>2
    <3> QED
      BY <2>3, <3>1, <3>2
  <2> QED
    BY <2>3, <2>4 DEF IsInjective
<1>6. Len(vs) \in Nat
  BY <1>2
<1>7. /\ ToSet(us) \subseteq ToSet(ts) \cup {t}
      /\ IsInjective(ts) => IsInjective(us)
      /\ Len(ts) <= MAX_DELIVERY_TOKENS_PER_MAILBOX => Len(us) <= MAX_DELIVERY_TOKENS_PER_MAILBOX
  BY <1>0, <1>2, <1>4, <1>5, <1>6
<1> QED
  BY <1>1, <1>3, <1>4, <1>7

(* ensure_delivery_hash, which every Hello of a known mailbox calls.       *)
LEMMA EnsureFacts ==
  ASSUME NEW a \in Auths, NEW t \in Token
  PROVE  /\ ensure_delivery_hash(a, t) \in Auths
         /\ Sound(a) => Sound(ensure_delivery_hash(a, t))
<1> DEFINE ts == a.delivery_token_hashes
<1>0. ts \in Seq(Token) /\ a.delivery_token_hash \in Token \cup {None} /\ a.granted \in SUBSET Token
  BY DEF Auths
<1>1. PICK us : us = IF t \in ToSet(ts) THEN ts ELSE Append(EvictOldest(ts), t)
  OBVIOUS
<1>2. /\ us \in Seq(Token) /\ ToSet(us) \subseteq ToSet(ts) \cup {t}
      /\ IsInjective(ts) /\ Len(ts) <= MAX_DELIVERY_TOKENS_PER_MAILBOX =>
           IsInjective(us) /\ Len(us) <= MAX_DELIVERY_TOKENS_PER_MAILBOX
  <2>1. CASE t \in ToSet(ts)
    BY <1>0, <1>1, <2>1
  <2>2. CASE t \notin ToSet(ts)
    <3> HIDE DEF ts
    <3>1. us = Append(EvictOldest(ts), t)
      BY <1>1, <2>2
    <3> QED
      BY <1>0, <2>2, <3>1, EvictFacts
  <2> QED
    BY <2>1, <2>2
<1>3. PICK h \in Token \cup {None} : h = IF a.delivery_token_hash = None THEN t ELSE a.delivery_token_hash
  BY <1>0
<1>4. PICK r : r = ensure_delivery_hash(a, t)
  OBVIOUS
<1>5. r = [delivery_token_hash |-> h, delivery_token_hashes |-> us, granted |-> a.granted \cup {t}]
  BY <1>1, <1>3, <1>4 DEF ensure_delivery_hash
<1>6. r.delivery_token_hash = h /\ r.delivery_token_hashes = us /\ r.granted = a.granted \cup {t}
  BY <1>5
<1>7. r \in Auths
  BY <1>0, <1>2, <1>5 DEF Auths
<1>8. ASSUME Sound(a) PROVE Sound(r)
  <2>1. ToSet(ts) \subseteq a.granted /\ ({a.delivery_token_hash} \ {None}) \subseteq a.granted
    BY <1>8 DEF Sound, accepts_delivery_hash
  <2>2. ToSet(us) \subseteq a.granted \cup {t} /\ ({h} \ {None}) \subseteq a.granted \cup {t}
    BY <1>2, <1>3, <2>1
  <2>3. accepts_delivery_hash(r) \subseteq r.granted
    BY <1>6, <2>2 DEF accepts_delivery_hash
  <2> QED
    BY <1>2, <1>6, <1>8, <2>3 DEF Sound
<1> QED
  BY <1>4, <1>7, <1>8

(* replace_delivery_hashes, with a list that SetDeliveryTokens lets pass.  *)
LEMMA ReplaceFacts ==
  ASSUME NEW a \in Auths, NEW ts \in TokenLists
  PROVE  /\ replace_delivery_hashes(a, ts) \in Auths
         /\ Sound(replace_delivery_hashes(a, ts))
<1>0. MAX_DELIVERY_TOKENS_PER_MAILBOX \in Nat
  BY LimitAssumption
<1>1. ts \in Seq(Token) /\ ts # <<>> /\ Len(ts) <= MAX_DELIVERY_TOKENS_PER_MAILBOX
  <2>1. PICK m \in 0 .. MAX_DELIVERY_TOKENS_PER_MAILBOX : ts \in [1 .. m -> Token]
    BY DEF TokenLists, BoundedSeq, SeqOf
  <2>2. m \in Nat /\ m <= MAX_DELIVERY_TOKENS_PER_MAILBOX
    BY <1>0, <2>1
  <2>3. ts \in Seq(Token) /\ Len(ts) = m
    BY <2>1, <2>2
  <2>4. ts # <<>>
    BY DEF TokenLists
  <2> QED
    BY <2>2, <2>3, <2>4
<1>2. /\ Head(ts) \in Token /\ ToSet(ts) = {Head(ts)} \cup ToSet(Tail(ts)) /\ ToSet(ts) \subseteq Token
  BY <1>1, ToSetTail, ElementsOf
<1>3. PICK d : d = Dedup(ts)
  OBVIOUS
<1>4. d \in Seq(Token) /\ Len(d) <= Len(ts) /\ IsInjective(d) /\ ToSet(d) \subseteq ToSet(ts)
  BY <1>1, <1>3, DedupFacts
<1>5. PICK r : r = replace_delivery_hashes(a, ts)
  OBVIOUS
<1>6. r = [a EXCEPT !.delivery_token_hash = Head(ts), !.delivery_token_hashes = d, !.granted = ToSet(ts)]
  BY <1>3, <1>5 DEF replace_delivery_hashes
<1>7. /\ r \in Auths /\ r.delivery_token_hash = Head(ts)
      /\ r.delivery_token_hashes = d /\ r.granted = ToSet(ts)
  BY <1>2, <1>4, <1>6 DEF Auths
<1>8. accepts_delivery_hash(r) \subseteq r.granted
  BY <1>2, <1>4, <1>7 DEF accepts_delivery_hash
<1>9. Len(d) <= MAX_DELIVERY_TOKENS_PER_MAILBOX
  <2>1. Len(d) \in Nat /\ Len(ts) \in Nat
    BY <1>1, <1>4
  <2> QED
    BY <1>0, <1>1, <1>4, <2>1
<1> QED
  BY <1>4, <1>5, <1>7, <1>8, <1>9 DEF Sound

(* The first token of a new mailbox, and the record from before the tokens.*)
LEMMA FirstFacts ==
  /\ \A t \in Token : MailboxAuth(t) \in Auths /\ Sound(MailboxAuth(t))
  /\ LegacyAuth \in Auths /\ Sound(LegacyAuth)
<1>0. MAX_DELIVERY_TOKENS_PER_MAILBOX \in Nat \ {0}
  BY LimitAssumption
<1>1. ASSUME NEW t \in Token
      PROVE  MailboxAuth(t) \in Auths /\ Sound(MailboxAuth(t))
  <2>1. PICK ts : ts = <<t>>
    OBVIOUS
  <2>2. ts \in Seq(Token) /\ Len(ts) = 1 /\ DOMAIN ts = 1 .. 1 /\ ts[1] = t
    BY <2>1
  <2>3. IsInjective(ts) /\ ToSet(ts) = {t}
    BY <2>2 DEF IsInjective, ToSet
  <2>4. MailboxAuth(t) = [delivery_token_hash |-> t, delivery_token_hashes |-> ts, granted |-> {t}]
    BY <2>1 DEF MailboxAuth
  <2>5. MailboxAuth(t) \in Auths
    BY <2>2, <2>4 DEF Auths
  <2>6. MailboxAuth(t).delivery_token_hash = t /\ MailboxAuth(t).delivery_token_hashes = ts
        /\ MailboxAuth(t).granted = {t}
    BY <2>4
  <2>7. accepts_delivery_hash(MailboxAuth(t)) \subseteq MailboxAuth(t).granted
    BY <2>3, <2>6 DEF accepts_delivery_hash
  <2>8. Len(ts) <= MAX_DELIVERY_TOKENS_PER_MAILBOX
    BY <1>0, <2>2
  <2> QED
    BY <2>3, <2>5, <2>6, <2>7, <2>8 DEF Sound
<1>2. LegacyAuth \in Auths /\ Sound(LegacyAuth)
  <2>1. PICK ts : ts = <<>>
    OBVIOUS
  <2>2. ts \in Seq(Token) /\ Len(ts) = 0 /\ DOMAIN ts = {}
    BY <2>1
  <2>3. IsInjective(ts) /\ ToSet(ts) = {}
    BY <2>2 DEF IsInjective, ToSet
  <2>4. LegacyAuth = [delivery_token_hash |-> None, delivery_token_hashes |-> ts, granted |-> {}]
    BY <2>1 DEF LegacyAuth
  <2>5. LegacyAuth \in Auths
    BY <2>2, <2>4 DEF Auths
  <2>6. LegacyAuth.delivery_token_hash = None /\ LegacyAuth.delivery_token_hashes = ts
        /\ LegacyAuth.granted = {}
    BY <2>4
  <2>7. accepts_delivery_hash(LegacyAuth) \subseteq LegacyAuth.granted
    BY <2>3, <2>6 DEF accepts_delivery_hash
  <2> QED
    BY <1>0, <2>2, <2>3, <2>5, <2>6, <2>7 DEF Sound
<1> QED
  BY <1>1, <1>2

-----------------------------------------------------------------------------
(* The parts of the inductive invariant.  The row of the table is as sound *)
(* as the record in memory: a restart brings it back.                      *)
AllowlistsSound == (auth # None => Sound(auth)) /\ (stored # None => Sound(stored))

(* The sends whose clock reading is t or later.                            *)
ReadSince(t) == {s \in SendTimes : s.read >= t}
AcceptedSince(t) == SumFunctionOnSet(accepted, ReadSince(t))

(* The entry and the sends since it was made.  Of those read after the     *)
(* window began, all but its first send count against this window; of      *)
(* those read at most one window before it began, at most one window's     *)
(* worth less the first belongs to the window before.                      *)
RateTidy ==
  /\ \A c \in Conn : clock[c] <= now
  /\ send_rate = None => accepted = NoSends
  /\ send_rate # None =>
       /\ send_rate.count \in 1 .. MAX_SENDS_PER_DEST_PER_WINDOW /\ send_rate.window_start <= now
       /\ \A s \in SendTimes : accepted[s] # 0 => s.read <= send_rate.window_start + RATE_WINDOW_MS
       /\ \A t \in Time : t > send_rate.window_start => AcceptedSince(t) <= send_rate.count - 1
       /\ \A t \in Time : t + RATE_WINDOW_MS >= send_rate.window_start =>
            AcceptedSince(t) <= MAX_SENDS_PER_DEST_PER_WINDOW - 1 + send_rate.count

AdmissionInv == TypeOK /\ ConnCountExact /\ AllowlistsSound /\ RateTidy /\ DestRateBounded

-----------------------------------------------------------------------------
(* The connection counter.                                                 *)
Counting == {c \in Conn : pc[c] # "closed"}
Active == {c \in Conn : pc[c] \notin {"closed", "refused"}}
Steps == {"ready", "send", "rate", "retire", "retired"}

(* How a step moves connections: one is counted and admitted, one is       *)
(* counted and refused, one gives its slot back, or all stay as they are.  *)
Admitted(c) ==
  /\ c \notin Counting /\ Counting' = Counting \cup {c} /\ Active' = Active \cup {c}
  /\ conn_count < MAX_CONNECTIONS /\ conn_count' = conn_count + 1
Refused(c) ==
  c \notin Counting /\ Counting' = Counting \cup {c} /\ Active' = Active /\ conn_count' = conn_count + 1
Returned(c) ==
  c \in Counting /\ Counting' = Counting \ {c} /\ Active' = Active \ {c} /\ conn_count' = conn_count - 1
Unmoved == Counting' = Counting /\ Active' = Active /\ conn_count' = conn_count
Forgotten == Counting' = {} /\ Active' = {} /\ conn_count' = 0

(* Every step is one of those.                                             *)
LEMMA ConnEffect ==
  ASSUME TypeOK, [Next]_vars
  PROVE  (\E c \in Conn : Admitted(c) \/ Refused(c) \/ Returned(c)) \/ Unmoved \/ Forgotten
<1>0. pc \in [Conn -> PC]
  BY DEF TypeOK
<1>1. ASSUME NEW c \in Conn, pc[c] \in Steps, NEW s \in Steps, pc' = Set(pc, c, s), conn_count' = conn_count
      PROVE  Unmoved
  <2>1. \A d \in Conn : pc'[d] = IF d = c THEN s ELSE pc[d]
    BY <1>0, <1>1 DEF Set
  <2> QED
    BY <1>1, <2>1 DEF Unmoved, Counting, Active, Steps
<1>2. ASSUME NEW c \in Conn, Connect(c)
      PROVE  Admitted(c)
  <2>1. pc[c] = "closed" /\ \A d \in Conn : pc'[d] = IF d = c THEN "ready" ELSE pc[d]
    BY <1>0, <1>2 DEF Connect, Set
  <2> QED
    BY <1>2, <2>1 DEF Admitted, Connect, Counting, Active
<1>3. ASSUME NEW c \in Conn, ConnectRefused(c)
      PROVE  Refused(c)
  <2>1. pc[c] = "closed" /\ \A d \in Conn : pc'[d] = IF d = c THEN "refused" ELSE pc[d]
    BY <1>0, <1>3 DEF ConnectRefused, Set
  <2> QED
    BY <1>3, <2>1 DEF Refused, ConnectRefused, Counting, Active
<1>4. ASSUME NEW c \in Conn, Refuse(c) \/ Close(c) \/ RetireLeave(c)
      PROVE  Returned(c)
  <2>1. pc[c] # "closed" /\ conn_count' = conn_count - 1
        /\ \A d \in Conn : pc'[d] = IF d = c THEN "closed" ELSE pc[d]
    BY <1>0, <1>4 DEF Refuse, Close, RetireLeave, Leave, Set
  <2> QED
    BY <2>1 DEF Returned, Counting, Active
<1>5. ASSUME NEW c \in Conn, FrameLimited(c)
      PROVE  Unmoved
  BY <1>5 DEF FrameLimited, Unmoved, Counting, Active
<1>6. ASSUME NEW c \in Conn, FrameRejected(c) \/ Tokens(c) \/ RetireRemove(c)
                             \/ \E t \in Token : SendAuthorised(c, t)
      PROVE  Unmoved
  <2>1. pc[c] = "ready" /\ conn_count' = conn_count
    BY <1>6 DEF FrameRejected, Tokens, Hello, SetDeliveryTokens, RetireRemove, SendAuthorised, Admit, Frame
  <2>2. \E s \in Steps : pc' = Set(pc, c, s)
    BY <1>6 DEF FrameRejected, Tokens, Hello, SetDeliveryTokens, RetireRemove, SendAuthorised, Admit, Steps
  <2> QED
    BY <1>1, <2>1, <2>2 DEF Steps
<1>7. ASSUME NEW c \in Conn, SendClock(c) \/ SendAllowed(c) \/ SendLimited(c) \/ RetireRate(c)
      PROVE  Unmoved
  <2>1. pc[c] \in Steps /\ conn_count' = conn_count
    BY <1>7 DEF SendClock, SendAllowed, SendLimited, RetireRate, Steps
  <2>2. \E s \in Steps : pc' = Set(pc, c, s)
    BY <1>7 DEF SendClock, SendAllowed, SendLimited, RetireRate, Steps
  <2> QED
    BY <1>1, <2>1, <2>2
<1>8. CASE Flush \/ Tick \/ UNCHANGED vars
  BY <1>8 DEF Flush, Tick, vars, sockets, Unmoved, Counting, Active
<1>9. CASE Crash
  BY <1>9 DEF Crash, Forgotten, Counting, Active
<1> QED
  BY <1>2, <1>3, <1>4, <1>5, <1>6, <1>7, <1>8, <1>9 DEF Next, Connection, Send, Retire

(* The counter follows, and the cap with it.                               *)
LEMMA ConnStep ==
  ASSUME TypeOK, ConnCountExact, [Next]_vars
  PROVE  ConnCountExact' /\ conn_count' \in Nat
<1>0. MAX_CONNECTIONS \in Nat \ {0} /\ conn_count \in Nat
  BY LimitAssumption DEF TypeOK
<1>1. PICK H : H = Counting
  OBVIOUS
<1>2. PICK A : A = Active
  OBVIOUS
<1>3. PICK H2 : H2 = Counting'
  OBVIOUS
<1>4. PICK A2 : A2 = Active'
  OBVIOUS
<1>5. IsFiniteSet(H) /\ IsFiniteSet(A) /\ A \in SUBSET H
  BY <1>1, <1>2, SetsAssumption, FS_Subset DEF Counting, Active
<1>6. Cardinality(H) \in Nat /\ Cardinality(A) \in Nat /\ Cardinality(A) <= Cardinality(H)
  BY <1>5, FS_CardinalityType, FS_Subset
<1>7. conn_count = Cardinality(H) /\ Cardinality(A) <= MAX_CONNECTIONS
  BY <1>1, <1>2 DEF ConnCountExact, Counting, Active
<1>8. SUFFICES conn_count' = Cardinality(H2) /\ Cardinality(A2) <= MAX_CONNECTIONS /\ conn_count' \in Nat
  BY <1>3, <1>4 DEF ConnCountExact, Counting, Active
<1>9. ASSUME NEW c \in Conn, Admitted(c)
      PROVE  conn_count' = Cardinality(H2) /\ Cardinality(A2) <= MAX_CONNECTIONS /\ conn_count' \in Nat
  <2>1. /\ c \notin H /\ c \notin A /\ H2 = H \cup {c} /\ A2 = A \cup {c}
        /\ conn_count < MAX_CONNECTIONS /\ conn_count' = conn_count + 1
    BY <1>1, <1>2, <1>3, <1>4, <1>5, <1>9 DEF Admitted
  <2>2. Cardinality(H2) = Cardinality(H) + 1 /\ Cardinality(A2) = Cardinality(A) + 1
    BY <1>5, <2>1, FS_AddElement
  <2> QED
    BY <1>0, <1>6, <1>7, <2>1, <2>2
<1>10. ASSUME NEW c \in Conn, Refused(c)
       PROVE  conn_count' = Cardinality(H2) /\ Cardinality(A2) <= MAX_CONNECTIONS /\ conn_count' \in Nat
  <2>1. c \notin H /\ H2 = H \cup {c} /\ A2 = A /\ conn_count' = conn_count + 1
    BY <1>1, <1>2, <1>3, <1>4, <1>10 DEF Refused
  <2>2. Cardinality(H2) = Cardinality(H) + 1
    BY <1>5, <2>1, FS_AddElement
  <2> QED
    BY <1>0, <1>6, <1>7, <2>1, <2>2
<1>11. ASSUME NEW c \in Conn, Returned(c)
       PROVE  conn_count' = Cardinality(H2) /\ Cardinality(A2) <= MAX_CONNECTIONS /\ conn_count' \in Nat
  <2>1. c \in H /\ H2 = H \ {c} /\ A2 = A \ {c} /\ conn_count' = conn_count - 1
    BY <1>1, <1>2, <1>3, <1>4, <1>11 DEF Returned
  <2>2. IsFiniteSet(H2) /\ Cardinality(H2) = Cardinality(H) - 1
    BY <1>5, <2>1, FS_RemoveElement
  <2>3. Cardinality(H2) \in Nat
    BY <2>2, FS_CardinalityType
  <2>4. A2 \in SUBSET A
    BY <2>1
  <2>5. IsFiniteSet(A2) /\ Cardinality(A2) <= Cardinality(A)
    BY <1>5, <2>4, FS_Subset
  <2>6. Cardinality(A2) \in Nat
    BY <2>5, FS_CardinalityType
  <2> QED
    BY <1>0, <1>6, <1>7, <2>1, <2>2, <2>3, <2>5, <2>6
<1>12. CASE Unmoved
  BY <1>0, <1>1, <1>2, <1>3, <1>4, <1>7, <1>12 DEF Unmoved
<1>13. CASE Forgotten
  <2>1. H2 = {} /\ A2 = {} /\ conn_count' = 0
    BY <1>3, <1>4, <1>13 DEF Forgotten
  <2>2. Cardinality({}) = 0
    BY FS_EmptySet
  <2> QED
    BY <1>0, <2>1, <2>2
<1> QED
  BY <1>9, <1>10, <1>11, <1>12, <1>13, ConnEffect

-----------------------------------------------------------------------------
(* Types and the allowlist.  The frame window after a frame is a frame     *)
(* window.                                                                 *)
LEMMA CountedType ==
  ASSUME TypeOK, NEW w \in Windows
  PROVE  Counted(w) \in Windows
<1>1. now \in Time /\ w.start_ms \in Time /\ w.frame_count \in Nat
  BY DEF TypeOK, Windows
<1>2. CASE Counted(w) = [start_ms |-> now, frame_count |-> 1]
  BY <1>1, <1>2 DEF Windows
<1>3. CASE Counted(w) = [w EXCEPT !.frame_count = @ + 1]
  BY <1>1, <1>3 DEF Windows
<1> QED
  BY <1>2, <1>3 DEF Counted

(* The budget entry after a send: a new window, the same one with room for *)
(* one more, or a new entry.                                               *)
LEMMA RateEffect ==
  ASSUME TypeOK, NEW c \in Conn, SendAllowed(c)
  PROVE  /\ send_rate' \in Rates
         /\ \/ /\ send_rate # None /\ clock[c] - send_rate.window_start > RATE_WINDOW_MS
               /\ send_rate'.window_start = clock[c] /\ send_rate'.count = 1
            \/ /\ send_rate # None /\ ~(clock[c] - send_rate.window_start > RATE_WINDOW_MS)
               /\ ~(send_rate.count >= MAX_SENDS_PER_DEST_PER_WINDOW)
               /\ send_rate'.window_start = send_rate.window_start /\ send_rate'.count = send_rate.count + 1
            \/ send_rate = None /\ send_rate'.window_start = clock[c] /\ send_rate'.count = 1
<1>0. clock[c] \in Time /\ send_rate \in Rates \cup {None}
  BY DEF TypeOK
<1>1. PICK e : e = Entry(c)
  OBVIOUS
<1>2. /\ (clock[c] - e.window_start > RATE_WINDOW_MS) \/ ~(e.count >= MAX_SENDS_PER_DEST_PER_WINDOW)
      /\ send_rate' = IF clock[c] - e.window_start > RATE_WINDOW_MS
                      THEN [window_start |-> clock[c], count |-> 1]
                      ELSE [e EXCEPT !.count = @ + 1]
  BY <1>1 DEF SendAllowed, NewWindow, OverBudget
<1>3. CASE send_rate = None
  <2>1. e = [window_start |-> clock[c], count |-> 0]
    BY <1>1, <1>3 DEF Entry
  <2>2. e \in Rates /\ e.window_start = clock[c] /\ e.count = 0
    BY <1>0, <2>1 DEF Rates
  <2>3. ~(clock[c] - e.window_start > RATE_WINDOW_MS)
    BY <1>0, <2>2, LimitAssumption, BoundAssumption DEF Time
  <2>4. send_rate' = [e EXCEPT !.count = @ + 1]
    BY <1>2, <2>3
  <2>5. send_rate' \in Rates /\ send_rate'.window_start = clock[c] /\ send_rate'.count = 1
    BY <2>2, <2>4 DEF Rates
  <2> QED
    BY <1>3, <2>5
<1>4. CASE send_rate # None
  <2>1. e = send_rate /\ e \in Rates
    BY <1>0, <1>1, <1>4 DEF Entry
  <2>2. CASE clock[c] - e.window_start > RATE_WINDOW_MS
    <3>1. send_rate' = [window_start |-> clock[c], count |-> 1]
      BY <1>2, <2>2
    <3>2. send_rate' \in Rates /\ send_rate'.window_start = clock[c] /\ send_rate'.count = 1
      BY <1>0, <3>1 DEF Rates
    <3> QED
      BY <1>4, <2>1, <2>2, <3>2
  <2>3. CASE ~(clock[c] - e.window_start > RATE_WINDOW_MS)
    <3>1. send_rate' = [e EXCEPT !.count = @ + 1] /\ ~(e.count >= MAX_SENDS_PER_DEST_PER_WINDOW)
      BY <1>2, <2>3
    <3>2. /\ send_rate' \in Rates /\ send_rate'.window_start = e.window_start
          /\ send_rate'.count = e.count + 1
      BY <2>1, <3>1 DEF Rates
    <3> QED
      BY <1>4, <2>1, <2>3, <3>1, <3>2
  <2> QED
    BY <2>2, <2>3
<1> QED
  BY <1>3, <1>4

(* Every frame, whatever becomes of it.                                    *)
LEMMA FrameTypes ==
  ASSUME TypeOK, NEW c \in Conn, Frame(c)
  PROVE  window' \in [Conn -> Windows] /\ frames' \in 0 .. MaxFrames /\ pc[c] = "ready"
<1>1. window \in [Conn -> Windows] /\ frames \in 0 .. MaxFrames
  BY DEF TypeOK
<1>2. Counted(window[c]) \in Windows
  BY <1>1, CountedType
<1>3. window' = [window EXCEPT ![c] = Counted(window[c])]
  BY DEF Frame, Set
<1>4. window' \in [Conn -> Windows]
  BY <1>1, <1>2, <1>3
<1>5. frames' \in 0 .. MaxFrames
  BY <1>1, BoundAssumption DEF Frame
<1> QED
  BY <1>4, <1>5 DEF Frame

(* The allowlists after each step.                                         *)
LEMMA AllowStep ==
  ASSUME TypeOK, AllowlistsSound, [Next]_vars
  PROVE  AllowlistsSound' /\ auth' \in Auths \cup {None} /\ stored' \in Auths \cup {None}
<1>0. auth \in Auths \cup {None} /\ stored \in Auths \cup {None}
  BY DEF TypeOK
<1>1. ASSUME NEW c \in Conn, NEW t \in Token, Hello(c, t)
      PROVE  stored' = stored /\ auth' \in Auths /\ Sound(auth')
  <2>1. CASE auth = None
    BY <1>1, <2>1, FirstFacts DEF Hello
  <2>2. CASE auth # None
    <3>1. auth' = ensure_delivery_hash(auth, t) /\ stored' = stored /\ auth \in Auths /\ Sound(auth)
      BY <1>0, <1>1, <2>2 DEF Hello, AllowlistsSound
    <3> QED
      BY <3>1, EnsureFacts
  <2> QED
    BY <2>1, <2>2
<1>2. ASSUME NEW c \in Conn, NEW ts \in TokenLists, SetDeliveryTokens(c, ts)
      PROVE  stored' = stored /\ auth' \in Auths /\ Sound(auth')
  <2>1. auth' = replace_delivery_hashes(auth, ts) /\ stored' = stored /\ auth \in Auths
    BY <1>0, <1>2 DEF SetDeliveryTokens
  <2> QED
    BY <2>1, ReplaceFacts
<1>3. CASE \/ \E c \in Conn : Connection(c) \/ Send(c) \/ Retire(c)
           \/ Tick \/ Crash \/ Flush \/ UNCHANGED vars
  <2>1. auth' \in {auth, stored, None} /\ stored' \in {auth, stored}
    BY <1>3 DEF Connection, Send, Retire, Connect, ConnectRefused, Refuse, Close, FrameLimited, FrameRejected,
       SendAuthorised, SendClock, SendAllowed, SendLimited, RetireRemove, RetireRate, RetireLeave,
       Tick, Crash, Flush, vars
  <2> QED
    BY <1>0, <2>1 DEF AllowlistsSound
<1>4. ASSUME stored' = stored /\ auth' \in Auths /\ Sound(auth')
      PROVE  AllowlistsSound' /\ auth' \in Auths \cup {None} /\ stored' \in Auths \cup {None}
  BY <1>0, <1>4 DEF AllowlistsSound
<1> QED
  BY <1>1, <1>2, <1>3, <1>4 DEF Next, Tokens

(* Everything else, action by action.                                      *)
LEMMA TypeStep ==
  ASSUME TypeOK, AllowlistsSound, ConnCountExact, [Next]_vars
  PROVE  TypeOK'
<1>0. /\ pc \in [Conn -> PC] /\ window \in [Conn -> Windows] /\ registered \subseteq Conn
      /\ clock \in [Conn -> Time] /\ send_rate \in Rates \cup {None}
      /\ now \in Time /\ frames \in 0 .. MaxFrames /\ crashes \in 0 .. MaxCrashes
      /\ accepted \in [SendTimes -> Nat]
      /\ \A c \in Conn : pc[c] \in {"closed", "refused"} => c \notin registered
  BY DEF TypeOK
<1>1. /\ conn_count' \in Nat /\ auth' \in Auths \cup {None} /\ stored' \in Auths \cup {None}
  BY ConnStep, AllowStep
<1>2. 0 \in Time /\ NoWindow \in Windows /\ NoSends \in [SendTimes -> Nat]
  BY BoundAssumption DEF Time, NoWindow, Windows, NoSends
<1> USE DEF PC
<1>3. ASSUME NEW c \in Conn, Connect(c) \/ ConnectRefused(c)
      PROVE  TypeOK'
  <2>1. PICK s \in {"ready", "refused"} : pc[c] = "closed" /\ pc' = [pc EXCEPT ![c] = s]
    BY <1>3 DEF Connect, ConnectRefused, Set
  <2>2. window' \in [Conn -> Windows]
    <3>1. [start_ms |-> now, frame_count |-> 0] \in Windows
      BY <1>0 DEF Windows
    <3> QED
      BY <1>0, <1>3, <3>1 DEF Connect, ConnectRefused, Set
  <2>3. UNCHANGED <<registered, clock, send_rate, now, frames, crashes, accepted>>
    BY <1>3 DEF Connect, ConnectRefused, env
  <2>4. pc' \in [Conn -> PC] /\ \A d \in Conn : pc'[d] \in {"closed", "refused"} => d \notin registered
    BY <1>0, <2>1
  <2> QED
    BY <1>0, <1>1, <2>2, <2>3, <2>4 DEF TypeOK
<1>4. ASSUME NEW c \in Conn, Refuse(c) \/ Close(c) \/ RetireLeave(c)
      PROVE  TypeOK'
  <2>1. pc' = [pc EXCEPT ![c] = "closed"] /\ registered' = registered \ {c}
    BY <1>0, <1>4 DEF Refuse, Close, RetireLeave, Leave, Set
  <2>2. window' \in [Conn -> Windows]
    BY <1>0, <1>2, <1>4 DEF Refuse, Close, RetireLeave, Leave, Set
  <2>3. UNCHANGED <<clock, send_rate, now, frames, crashes, accepted>>
    BY <1>4 DEF Refuse, Close, RetireLeave, env
  <2>4. pc' \in [Conn -> PC] /\ \A d \in Conn : pc'[d] \in {"closed", "refused"} => d \notin registered'
    BY <1>0, <2>1
  <2> QED
    BY <1>0, <1>1, <2>1, <2>2, <2>3, <2>4 DEF TypeOK
<1>5. ASSUME NEW c \in Conn,
             \/ FrameLimited(c) \/ FrameRejected(c) \/ Tokens(c) \/ RetireRemove(c)
             \/ \E t \in Token : SendAuthorised(c, t)
      PROVE  TypeOK'
  <2>1. Frame(c) /\ UNCHANGED <<clock, send_rate, now, crashes, accepted>> /\ registered' \in {registered, registered \cup {c}}
    BY <1>5 DEF FrameLimited, FrameRejected, Tokens, Hello, SetDeliveryTokens, RetireRemove, SendAuthorised, Admit
  <2>2. window' \in [Conn -> Windows] /\ frames' \in 0 .. MaxFrames /\ pc[c] = "ready"
    BY <2>1, FrameTypes
  <2>3. \E s \in {"ready", "send", "retire"} : pc' = [pc EXCEPT ![c] = s]
    BY <1>0, <1>5, <2>2 DEF FrameLimited, FrameRejected, Tokens, Hello, SetDeliveryTokens, RetireRemove,
       SendAuthorised, Admit, Set
  <2>4. pc' \in [Conn -> PC] /\ \A d \in Conn : pc'[d] \in {"closed", "refused"} => d \notin registered'
    BY <1>0, <2>1, <2>3
  <2> QED
    BY <1>0, <1>1, <2>1, <2>2, <2>4 DEF TypeOK
<1>6. ASSUME NEW c \in Conn, SendClock(c) \/ SendAllowed(c) \/ SendLimited(c) \/ RetireRate(c)
      PROVE  TypeOK'
  <2>1. /\ pc[c] \in {"send", "rate", "retire"}
        /\ \E s \in {"rate", "ready", "retired"} : pc' = [pc EXCEPT ![c] = s]
        /\ UNCHANGED <<window, registered, now, frames, crashes>>
    BY <1>6 DEF SendClock, SendAllowed, SendLimited, RetireRate, Set, env
  <2>2. clock' \in [Conn -> Time]
    BY <1>0, <1>2, <1>6 DEF SendClock, SendAllowed, SendLimited, RetireRate, Set
  <2>3. send_rate' \in Rates \cup {None}
    BY <1>0, <1>6, RateEffect DEF SendClock, SendLimited, RetireRate
  <2>4. accepted' \in [SendTimes -> Nat]
    BY <1>0, <1>2, <1>6 DEF SendClock, SendAllowed, SendLimited, RetireRate
  <2>5. pc' \in [Conn -> PC] /\ \A d \in Conn : pc'[d] \in {"closed", "refused"} => d \notin registered'
    BY <1>0, <2>1
  <2> QED
    BY <1>0, <1>1, <2>1, <2>2, <2>3, <2>4, <2>5 DEF TypeOK
<1>7. CASE Flush \/ Tick \/ UNCHANGED vars
  <2>1. now' \in Time
    BY <1>0, <1>7, BoundAssumption DEF Flush, Tick, vars, env, Time
  <2> QED
    BY <1>0, <1>1, <1>7, <2>1 DEF Flush, Tick, vars, sockets, env, TypeOK
<1>8. CASE Crash
  <2>1. crashes' \in 0 .. MaxCrashes
    BY <1>0, <1>8, BoundAssumption DEF Crash
  <2>2. pc' \in [Conn -> PC] /\ window' \in [Conn -> Windows] /\ clock' \in [Conn -> Time]
    BY <1>2, <1>8 DEF Crash
  <2> QED
    BY <1>0, <1>1, <1>2, <1>8, <2>1, <2>2 DEF Crash, TypeOK
<1> QED
  BY <1>3, <1>4, <1>5, <1>6, <1>7, <1>8 DEF Next, Connection, Send, Retire

-----------------------------------------------------------------------------
(* The send budget.  There are finitely many pairs of times.               *)
LEMMA SendTimesFinite == IsFiniteSet(SendTimes)
<1>1. IsFiniteSet(Time)
  BY BoundAssumption, FS_Interval DEF Time
<1>2. IsFiniteSet(Time \X Time)
  BY <1>1, FS_Product
<1> DEFINE f == [s \in SendTimes |-> <<s.read, s.at>>]
<1>3. f \in [SendTimes -> Time \X Time]
  BY DEF SendTimes
<1>4. \A r, s \in SendTimes : f[r] = f[s] => r = s
  BY DEF SendTimes
<1> HIDE DEF f
<1>5. f \in Injection(SendTimes, Time \X Time)
  BY <1>3, <1>4 DEF Injection, IsInjective
<1> QED
  BY <1>2, <1>5, FS_Injection

(* A sum of nothing but zeros.                                             *)
LEMMA SumOfZeros ==
  ASSUME NEW S, IsFiniteSet(S), NEW f, \A x \in S : f[x] = 0
  PROVE  SumFunctionOnSet(f, S) = 0
<1> DEFINE z == [x \in S |-> 0]
<1>1. SumFunction(z) = 0
  BY TotalZero
<1>2. DOMAIN z = S /\ \A x \in S : z[x] = 0
  OBVIOUS
<1> HIDE DEF z
<1>3. SumFunction(z) = SumFunctionOnSet(z, S)
  BY <1>2 DEF SumFunction
<1>4. SumFunctionOnSet(f, S) = SumFunctionOnSet(z, S)
  BY <1>2, SumSame
<1> QED
  BY <1>1, <1>3, <1>4

(* One more send counts once, in every set that has its times.             *)
LEMMA OneMoreSend ==
  ASSUME NEW f \in [SendTimes -> Nat], NEW x \in SendTimes, NEW g \in [SendTimes -> Nat],
         g[x] = f[x] + 1, \A s \in SendTimes \ {x} : g[s] = f[s], NEW S \in SUBSET SendTimes
  PROVE  /\ SumFunctionOnSet(f, S) \in Nat /\ SumFunctionOnSet(g, S) \in Nat
         /\ SumFunctionOnSet(g, S) = IF x \in S THEN SumFunctionOnSet(f, S) + 1 ELSE SumFunctionOnSet(f, S)
<1>1. IsFiniteSet(S)
  BY SendTimesFinite, FS_Subset
<1>2. \A s \in S : f[s] \in Nat /\ g[s] \in Nat /\ f[s] \in Int /\ g[s] \in Int
  OBVIOUS
<1>3. SumFunctionOnSet(f, S) \in Nat /\ SumFunctionOnSet(g, S) \in Nat
  BY <1>1, <1>2, SumNat
<1>4. CASE x \in S
  <2>1. \A s \in S \ {x} : g[s] = f[s]
    OBVIOUS
  <2>2. SumFunctionOnSet(g, S) = SumFunctionOnSet(f, S) - f[x] + g[x]
    <3>1. \A s \in S : f[s] \in Int /\ g[s] \in Int
      BY <1>2
    <3> QED
      BY <1>1, <1>4, <2>1, <3>1, SumChange
  <2>3. f[x] \in Nat /\ g[x] = f[x] + 1
    OBVIOUS
  <2>4. PICK a \in Nat : a = SumFunctionOnSet(f, S)
    BY <1>3
  <2>5. SumFunctionOnSet(g, S) = a + 1
    <3>1. PICK b \in Nat : b = f[x]
      BY <2>3
    <3>2. SumFunctionOnSet(g, S) = a - b + (b + 1)
      BY <2>2, <2>3, <2>4, <3>1
    <3> QED
      BY <3>2
  <2> QED
    BY <1>3, <1>4, <2>4, <2>5
<1>5. CASE x \notin S
  <2>1. \A s \in S : f[s] \in Int /\ f[s] = g[s]
    BY <1>5
  <2>2. SumFunctionOnSet(f, S) = SumFunctionOnSet(g, S)
    BY <1>1, <2>1, SumSame
  <2> QED
    BY <1>3, <1>5, <2>2
<1> QED
  BY <1>4, <1>5

(* A dropped entry takes its sends with it.                                *)
LEMMA NoSendsFacts ==
  ASSUME NEW S \in SUBSET SendTimes
  PROVE  SumFunctionOnSet(NoSends, S) = 0
<1>1. IsFiniteSet(S)
  BY SendTimesFinite, FS_Subset
<1>2. \A s \in S : NoSends[s] = 0
  BY DEF NoSends
<1> QED
  BY <1>1, <1>2, SumOfZeros

(* A send is counted against its window, and against the one before no     *)
(* more than that window had room for.                                     *)
LEMMA AllowedStep ==
  ASSUME TypeOK, RateTidy, DestRateBounded, NEW c \in Conn, SendAllowed(c)
  PROVE  RateTidy' /\ DestRateBounded'
<1>0. /\ RATE_WINDOW_MS \in Nat /\ MaxNow \in Nat /\ MAX_SENDS_PER_DEST_PER_WINDOW \in Nat \ {0}
      /\ clock \in [Conn -> Time] /\ now \in Time /\ accepted \in [SendTimes -> Nat]
      /\ send_rate \in Rates \cup {None}
  BY LimitAssumption, BoundAssumption DEF TypeOK
<1>1. PICK r \in Time : r = clock[c]
  BY <1>0
<1>2. PICK x : x = [read |-> r, at |-> now]
  OBVIOUS
<1>3. x \in SendTimes /\ x.read = r /\ x.at = now
  BY <1>0, <1>1, <1>2 DEF SendTimes
<1>4. PICK f \in [SendTimes -> Nat] : f = accepted
  BY <1>0
<1>5. PICK g : g = accepted'
  OBVIOUS
<1>6. g = [f EXCEPT ![x] = @ + 1]
  BY <1>1, <1>2, <1>4, <1>5 DEF SendAllowed
<1>g. g \in [SendTimes -> Nat] /\ g[x] = f[x] + 1 /\ \A s \in SendTimes \ {x} : g[s] = f[s]
  BY <1>3, <1>6
<1>7. PICK W \in Nat : W = RATE_WINDOW_MS
  BY <1>0
<1>8. PICK M \in Nat \ {0} : M = MAX_SENDS_PER_DEST_PER_WINDOW
  BY <1>0
<1>9. PICK ws2 : ws2 = send_rate'.window_start
  OBVIOUS
<1>10. PICK n2 : n2 = send_rate'.count
  OBVIOUS
<1>11. send_rate' \in Rates /\ send_rate' # None /\ ws2 \in Time /\ n2 \in Nat
  <2>1. send_rate' \in Rates
    BY RateEffect
  <2> QED
    BY <1>9, <1>10, <2>1, NoneAssumption DEF Rates
<1>t. \A t \in Time : t \in Nat
  BY <1>0 DEF Time
<1> DEFINE D(h, t) == SumFunctionOnSet(h, ReadSince(t))
<1>12. \A t \in Time : /\ D(f, t) \in Nat /\ D(g, t) \in Nat
                       /\ D(g, t) = IF r >= t THEN D(f, t) + 1 ELSE D(f, t)
  <2> TAKE t \in Time
  <2>1. PICK S \in SUBSET SendTimes : S = ReadSince(t)
    BY DEF ReadSince
  <2>2. /\ SumFunctionOnSet(f, S) \in Nat /\ SumFunctionOnSet(g, S) \in Nat
        /\ SumFunctionOnSet(g, S) = IF x \in S THEN SumFunctionOnSet(f, S) + 1 ELSE SumFunctionOnSet(f, S)
    BY <1>3, <1>g, OneMoreSend
  <2>3. x \in S <=> r >= t
    BY <1>3, <2>1 DEF ReadSince
  <2> QED
    BY <2>1, <2>2, <2>3
<1>13. \A h : (\A s \in SendTimes : h[s] # 0 => s.read <= r) => \A t \in Time : t > r => D(h, t) = 0
  <2> SUFFICES ASSUME NEW h, \A s \in SendTimes : h[s] # 0 => s.read <= r, NEW t \in Time, t > r
               PROVE  D(h, t) = 0
    OBVIOUS
  <2>1. PICK S \in SUBSET SendTimes : S = ReadSince(t)
    BY DEF ReadSince
  <2>2. IsFiniteSet(S)
    BY SendTimesFinite, FS_Subset
  <2>3. ASSUME NEW s \in S PROVE h[s] = 0
    <3>1. s \in SendTimes /\ s.read >= t /\ s.read \in Time
      BY <2>1 DEF ReadSince, SendTimes
    <3>2. ~(s.read <= r)
      BY <1>t, <3>1
    <3> QED
      BY <3>1, <3>2
  <2> QED
    BY <2>1, <2>2, <2>3, SumOfZeros
<1> HIDE DEF D
<1>14. /\ n2 \in 1 .. M /\ ws2 <= now
       /\ \A s \in SendTimes : g[s] # 0 => s.read <= ws2 + W
       /\ \A t \in Time : t > ws2 => D(g, t) <= n2 - 1
       /\ \A t \in Time : t + W >= ws2 => D(g, t) <= M - 1 + n2
  <2>0. r <= now
    BY <1>1 DEF RateTidy
  <2>1. CASE send_rate = None
    <3>1. ws2 = r /\ n2 = 1
      BY <1>1, <1>9, <1>10, <2>1, RateEffect
    <3>2. \A s \in SendTimes : f[s] = 0
      BY <1>4, <2>1 DEF RateTidy, NoSends
    <3>3. \A s \in SendTimes : g[s] # 0 => s = x
      BY <1>6, <3>2
    <3>4. \A s \in SendTimes : g[s] # 0 => s.read <= r
      BY <1>3, <1>t, <3>3
    <3>5. \A t \in Time : t > r => D(g, t) = 0
      BY <1>13, <3>4
    <3>6. \A t \in Time : D(f, t) = 0
      <4> TAKE t \in Time
      <4>1. f = NoSends /\ ReadSince(t) \in SUBSET SendTimes
        BY <1>4, <2>1 DEF RateTidy, ReadSince
      <4> QED
        BY <4>1, NoSendsFacts DEF D
    <3>7. \A t \in Time : D(g, t) <= 1
      BY <1>12, <3>6
    <3>8. \A s \in SendTimes : g[s] # 0 => s.read <= ws2 + W
      BY <1>3, <1>t, <3>1, <3>3
    <3> QED
      BY <1>12, <2>0, <3>1, <3>5, <3>7, <3>8
  <2>2. ASSUME send_rate # None
        PROVE  \E ws \in Time, n \in 1 .. M :
                 /\ ws = send_rate.window_start /\ n = send_rate.count /\ ws <= now
                 /\ \A s \in SendTimes : f[s] # 0 => s.read <= ws + W
                 /\ \A t \in Time : t > ws => D(f, t) <= n - 1
                 /\ \A t \in Time : t + W >= ws => D(f, t) <= M - 1 + n
    <3>1. send_rate.window_start \in Time
      BY <1>0, <2>2 DEF Rates
    <3>2. \A t \in Time : D(f, t) = AcceptedSince(t)
      BY <1>4 DEF D, AcceptedSince
    <3> QED
      BY <1>4, <1>7, <1>8, <2>2, <3>1, <3>2 DEF RateTidy
  <2>3. CASE send_rate # None /\ r - send_rate.window_start > RATE_WINDOW_MS
    <3>1. PICK ws \in Time, n \in 1 .. M :
                 /\ ws = send_rate.window_start /\ n = send_rate.count /\ ws <= now
                 /\ \A s \in SendTimes : f[s] # 0 => s.read <= ws + W
                 /\ \A t \in Time : t > ws => D(f, t) <= n - 1
                 /\ \A t \in Time : t + W >= ws => D(f, t) <= M - 1 + n
      BY <2>2, <2>3
    <3>2. ws2 = r /\ n2 = 1
      BY <1>1, <1>9, <1>10, <2>3, RateEffect
    <3>3. r > ws + W
      BY <1>7, <1>t, <2>3, <3>1
    <3>4. ASSUME NEW s \in SendTimes, g[s] # 0 PROVE s.read <= r
      <4>1. s.read \in Time
        BY DEF SendTimes
      <4>2. s = x \/ f[s] # 0
        BY <1>6, <3>4
      <4>3. CASE s = x
        BY <1>3, <1>t, <4>3
      <4>4. CASE f[s] # 0
        BY <1>t, <3>1, <3>3, <4>1, <4>4
      <4> QED
        BY <4>2, <4>3, <4>4
    <3>5. \A t \in Time : t > r => D(g, t) = 0
      BY <1>13, <3>4
    <3>6. ASSUME NEW t \in Time, t + W >= r PROVE D(g, t) <= M - 1 + 1
      <4>1. t > ws
        BY <1>t, <3>3, <3>6
      <4>2. D(f, t) <= n - 1
        BY <3>1, <4>1
      <4> QED
        BY <1>12, <4>2
    <3>7. \A s \in SendTimes : g[s] # 0 => s.read <= r + W
      <4> TAKE s \in SendTimes
      <4>1. s.read \in Nat /\ r \in Nat
        BY <1>t DEF SendTimes
      <4> QED
        BY <3>4, <4>1
    <3> QED
      BY <2>0, <3>2, <3>5, <3>6, <3>7
  <2>4. CASE send_rate # None /\ ~(r - send_rate.window_start > RATE_WINDOW_MS)
    <3>1. PICK ws \in Time, n \in 1 .. M :
                 /\ ws = send_rate.window_start /\ n = send_rate.count /\ ws <= now
                 /\ \A s \in SendTimes : f[s] # 0 => s.read <= ws + W
                 /\ \A t \in Time : t > ws => D(f, t) <= n - 1
                 /\ \A t \in Time : t + W >= ws => D(f, t) <= M - 1 + n
      BY <2>2, <2>4
    <3>2. ws2 = ws /\ n2 = n + 1 /\ ~(n >= M)
      BY <1>1, <1>8, <1>9, <1>10, <2>4, <3>1, RateEffect
    <3>3. r <= ws + W
      BY <1>7, <1>t, <2>4, <3>1
    <3>4. ASSUME NEW s \in SendTimes, g[s] # 0 PROVE s.read <= ws + W
      <4>1. s = x \/ f[s] # 0
        BY <1>6, <3>4
      <4> QED
        BY <1>3, <3>1, <3>3, <4>1
    <3>5. \A t \in Time : D(g, t) <= D(f, t) + 1
      BY <1>12
    <3>6. ASSUME NEW t \in Time, t > ws PROVE D(g, t) <= n2 - 1
      BY <1>12, <3>1, <3>2, <3>5, <3>6
    <3>7. ASSUME NEW t \in Time, t + W >= ws PROVE D(g, t) <= M - 1 + n2
      BY <1>12, <3>1, <3>2, <3>5, <3>7
    <3>8. n2 \in 1 .. M
      BY <3>2
    <3> QED
      BY <3>1, <3>2, <3>4, <3>6, <3>7, <3>8
  <2> QED
    BY <2>1, <2>3, <2>4
<1>15. RateTidy'
  <2>1. \A d \in Conn : clock'[d] <= now' /\ now' = now
    <3> TAKE d \in Conn
    <3>1. clock' = [clock EXCEPT ![c] = 0] /\ now' = now
      BY DEF SendAllowed, Set, env
    <3>2. clock'[d] = 0 \/ clock'[d] = clock[d]
      BY <1>0, <3>1
    <3>3. 0 <= now
      BY <1>0, <1>t
    <3> QED
      BY <3>1, <3>2, <3>3 DEF RateTidy
  <2>2. \A t \in Time : D(g, t) = AcceptedSince(t)'
    BY <1>5 DEF D, AcceptedSince
  <2> QED
    BY <1>5, <1>7, <1>8, <1>9, <1>10, <1>11, <1>14, <2>1, <2>2 DEF RateTidy
<1>16. DestRateBounded'
  <2> SUFFICES ASSUME NEW t \in Time
               PROVE  SumFunctionOnSet(g, {s \in SendTimes : s.read >= t /\ s.at <= t + W}) < 2 * M
    BY <1>5, <1>7, <1>8 DEF DestRateBounded
  <2>1. PICK S \in SUBSET SendTimes : S = {s \in SendTimes : s.read >= t /\ s.at <= t + W}
    OBVIOUS
  <2>2. /\ SumFunctionOnSet(f, S) \in Nat /\ SumFunctionOnSet(g, S) \in Nat
        /\ SumFunctionOnSet(g, S) = IF x \in S THEN SumFunctionOnSet(f, S) + 1 ELSE SumFunctionOnSet(f, S)
    BY <1>3, <1>g, OneMoreSend
  <2>3. CASE x \notin S
    <3>1. SumFunctionOnSet(f, S) < 2 * M
      BY <1>4, <1>7, <1>8, <2>1 DEF DestRateBounded
    <3> QED
      BY <2>1, <2>2, <2>3, <3>1
  <2>4. CASE x \in S
    <3>1. now <= t + W
      BY <1>3, <2>1, <2>4
    <3>2. t + W >= ws2
      BY <1>0, <1>11, <1>14, <1>t, <3>1
    <3>3. D(g, t) <= M - 1 + n2
      BY <1>14, <3>2
    <3>4. PICK R \in SUBSET SendTimes : R = ReadSince(t)
      BY DEF ReadSince
    <3>5. S \in SUBSET R
      BY <2>1, <3>4 DEF ReadSince
    <3>6. IsFiniteSet(R) /\ \A s \in R : g[s] \in Nat
      BY <1>6, <3>4, SendTimesFinite, FS_Subset
    <3>7. SumFunctionOnSet(g, S) <= SumFunctionOnSet(g, R)
      BY <3>5, <3>6, SumSubset
    <3>8. SumFunctionOnSet(g, S) <= D(g, t)
      BY <3>4, <3>7 DEF D
    <3>9. PICK k \in Nat : k = D(g, t)
      BY <1>12
    <3>10. PICK l \in Nat : l = SumFunctionOnSet(g, S)
      BY <2>2
    <3>11. l < 2 * M
      BY <1>14, <3>3, <3>8, <3>9, <3>10
    <3> QED
      BY <2>1, <3>10, <3>11
  <2> QED
    BY <2>3, <2>4
<1> QED
  BY <1>15, <1>16

(* Every other step leaves the entry and its sends alone, or drops both.   *)
LEMMA RateStep ==
  ASSUME TypeOK, RateTidy, DestRateBounded, [Next]_vars
  PROVE  RateTidy' /\ DestRateBounded'
<1>0. /\ clock \in [Conn -> Time] /\ now \in Time /\ MaxNow \in Nat
      /\ MAX_SENDS_PER_DEST_PER_WINDOW \in Nat \ {0} /\ send_rate \in Rates \cup {None}
  BY LimitAssumption, BoundAssumption DEF TypeOK
<1>t. \A t \in Time : t \in Nat
  BY <1>0 DEF Time
<1>1. CASE \E c \in Conn : SendAllowed(c)
  BY <1>1, AllowedStep
<1>2. ASSUME UNCHANGED <<send_rate, accepted>>, now' \in Nat, now <= now', \A c \in Conn : clock'[c] <= now'
      PROVE  RateTidy' /\ DestRateBounded'
  <2>1. \A t \in Time : AcceptedSince(t)' = AcceptedSince(t)
    BY <1>2 DEF AcceptedSince
  <2>2. DestRateBounded'
    BY <1>2 DEF DestRateBounded
  <2>3. send_rate # None => send_rate.window_start <= now'
    <3> SUFFICES ASSUME send_rate # None
                 PROVE  send_rate.window_start <= now'
      OBVIOUS
    <3>1. PICK ws \in Time : ws = send_rate.window_start
      BY <1>0 DEF Rates
    <3>2. ws <= now
      BY <3>1 DEF RateTidy
    <3> QED
      BY <1>0, <1>2, <1>t, <3>1, <3>2
  <2> QED
    BY <1>2, <2>1, <2>2, <2>3 DEF RateTidy
<1>3. ASSUME send_rate' = None, accepted' = NoSends, \A c \in Conn : clock'[c] <= now'
      PROVE  RateTidy' /\ DestRateBounded'
  <2>1. RateTidy'
    BY <1>3 DEF RateTidy
  <2>2. ASSUME NEW t \in Time
        PROVE  SumFunctionOnSet(NoSends, {s \in SendTimes : s.read >= t /\ s.at <= t + RATE_WINDOW_MS})
                 < 2 * MAX_SENDS_PER_DEST_PER_WINDOW
    <3>1. PICK S \in SUBSET SendTimes : S = {s \in SendTimes : s.read >= t /\ s.at <= t + RATE_WINDOW_MS}
      OBVIOUS
    <3>2. SumFunctionOnSet(NoSends, S) = 0
      BY NoSendsFacts
    <3> QED
      BY <1>0, <3>1, <3>2
  <2>3. DestRateBounded'
    BY <1>3, <2>2 DEF DestRateBounded
  <2> QED
    BY <2>1, <2>3
<1>4. CASE \/ \E c \in Conn : SendClock(c) \/ SendLimited(c)
           \/ \E c \in Conn : Connection(c) \/ Tokens(c) \/ RetireRemove(c) \/ RetireLeave(c)
           \/ \E c \in Conn, t \in Token : SendAuthorised(c, t)
           \/ Flush \/ Tick \/ UNCHANGED vars
  <2>1. UNCHANGED <<send_rate, accepted>>
    BY <1>4 DEF SendClock, SendLimited, Connection, Connect, ConnectRefused, Refuse, Close, FrameLimited,
       FrameRejected, Tokens, Hello, SetDeliveryTokens, RetireRemove, RetireLeave, SendAuthorised, Flush, Tick, vars
  <2>2. now' = now \/ now' = now + 1
    BY <1>4 DEF SendClock, SendLimited, Connection, Connect, ConnectRefused, Refuse, Close, FrameLimited,
       FrameRejected, Tokens, Hello, SetDeliveryTokens, RetireRemove, RetireLeave, SendAuthorised, Flush, Tick, vars, env
  <2>3. \A d \in Conn : clock'[d] \in {clock[d], now, 0}
    BY <1>0, <1>4 DEF SendClock, SendLimited, Set, Connection, Connect, ConnectRefused, Refuse, Close, FrameLimited,
       FrameRejected, Tokens, Hello, SetDeliveryTokens, RetireRemove, RetireLeave, SendAuthorised, Flush, Tick, vars, sockets
  <2>4. now \in Nat /\ now' \in Nat /\ now <= now'
    BY <1>0, <1>t, <2>2
  <2>5. ASSUME NEW d \in Conn PROVE clock'[d] <= now'
    <3>1. PICK k : k = clock'[d]
      OBVIOUS
    <3>2. k \in Nat /\ k <= now
      <4>1. clock[d] \in Nat /\ clock[d] <= now
        BY <1>0, <1>t DEF RateTidy
      <4> QED
        BY <2>3, <2>4, <3>1, <4>1
    <3> QED
      BY <2>4, <3>1, <3>2
  <2> QED
    BY <1>2, <2>1, <2>4, <2>5
<1>5. CASE Crash \/ \E c \in Conn : RetireRate(c)
  <2>1. send_rate' = None /\ accepted' = NoSends /\ now' = now
    BY <1>5 DEF Crash, RetireRate, env
  <2>2. \A d \in Conn : clock'[d] \in {clock[d], 0}
    BY <1>5 DEF Crash, RetireRate
  <2>3. \A d \in Conn : clock'[d] <= now'
    <3> TAKE d \in Conn
    <3>1. clock[d] <= now /\ 0 <= now
      BY <1>0, <1>t DEF RateTidy
    <3> QED
      BY <2>1, <2>2, <3>1
  <2> QED
    BY <1>3, <2>1, <2>3
<1> QED
  BY <1>1, <1>4, <1>5 DEF Next, Send, Retire

-----------------------------------------------------------------------------
(* The inductive invariant holds when the relay starts.                    *)
LEMMA InitInv ==
  ASSUME Init
  PROVE  AdmissionInv
<1>0. /\ MAX_SENDS_PER_DEST_PER_WINDOW \in Nat \ {0} /\ MAX_CONNECTIONS \in Nat
      /\ 0 \in Time /\ NoWindow \in Windows /\ NoSends \in [SendTimes -> Nat]
  BY LimitAssumption, BoundAssumption DEF Time, NoWindow, Windows, NoSends
<1>1. auth \in Auths \cup {None} /\ stored = auth /\ AllowlistsSound
  BY FirstFacts DEF Init, AllowlistsSound
<1>2. TypeOK
  BY <1>0, <1>1, BoundAssumption DEF Init, TypeOK, PC
<1>3. ConnCountExact
  <2>1. {c \in Conn : pc[c] # "closed"} = {} /\ {c \in Conn : pc[c] \notin {"closed", "refused"}} = {}
    BY DEF Init
  <2>2. Cardinality({}) = 0
    BY FS_EmptySet
  <2> QED
    BY <1>0, <2>1, <2>2 DEF Init, ConnCountExact
<1>4. RateTidy
  BY DEF Init, RateTidy
<1>5. DestRateBounded
  <2> SUFFICES ASSUME NEW t \in Time
               PROVE  SumFunctionOnSet(NoSends, {s \in SendTimes : s.read >= t /\ s.at <= t + RATE_WINDOW_MS})
                        < 2 * MAX_SENDS_PER_DEST_PER_WINDOW
    BY DEF Init, DestRateBounded
  <2>1. PICK S \in SUBSET SendTimes : S = {s \in SendTimes : s.read >= t /\ s.at <= t + RATE_WINDOW_MS}
    OBVIOUS
  <2>2. SumFunctionOnSet(NoSends, S) = 0
    BY NoSendsFacts
  <2> QED
    BY <1>0, <2>1, <2>2
<1> QED
  BY <1>1, <1>2, <1>3, <1>4, <1>5 DEF AdmissionInv

(* So it holds at every moment.                                            *)
LEMMA Invariance == Spec => []AdmissionInv
<1>1. Init => AdmissionInv
  BY InitInv
<1>2. AdmissionInv /\ [Next]_vars => AdmissionInv'
  BY TypeStep, ConnStep, AllowStep, RateStep DEF AdmissionInv
<1> QED
  BY <1>1, <1>2, PTL DEF Spec

(* Type correctness; in particular conn_count never wraps below zero.      *)
THEOREM TypeCorrect == Spec => []TypeOK
<1>1. AdmissionInv => TypeOK
  BY DEF AdmissionInv
<1> QED
  BY <1>1, Invariance, PTL

(* Every connection that was counted gives its slot back on every way out, *)
(* and no more than MAX_CONNECTIONS are ever admitted, although each       *)
(* attempt is counted before it is judged.                                 *)
THEOREM ConnCountAlwaysExact == Spec => []ConnCountExact
<1>1. AdmissionInv => ConnCountExact
  BY DEF AdmissionInv
<1> QED
  BY <1>1, Invariance, PTL

(* Whatever Hello, SetDeliveryTokens, evictions and restarts follow each   *)
(* other, the mailbox accepts only tokens its owner presented or set, and  *)
(* its list has no duplicates and keeps to its limit.                      *)
THEOREM AllowlistAlwaysSound == Spec => []AllowlistSound
<1>1. AdmissionInv => AllowlistSound
  BY DEF AdmissionInv, AllowlistsSound, Sound, AllowlistSound
<1> QED
  BY <1>1, Invariance, PTL

(* However many sockets send to a destination, and although each reads the *)
(* clock before it locks the entry, fewer than two windows' worth of sends *)
(* are accepted in any span of one window.                                 *)
THEOREM DestRateAlwaysBounded == Spec => []DestRateBounded
<1>1. AdmissionInv => DestRateBounded
  BY DEF AdmissionInv
<1> QED
  BY <1>1, Invariance, PTL
=============================================================================
