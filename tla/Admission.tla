----------------------------- MODULE Admission ------------------------------
(***************************************************************************)
(* What a frame has to pass: the global connection cap and the per-socket  *)
(* frame window (handle_socket of src/ws.rs), the delivery-token allowlist *)
(* of the destination (MailboxAuth of src/state.rs) and its send-rate      *)
(* window (allow_dest_send), with the handlers that change them: Hello,    *)
(* SetDeliveryTokens, RetireMailbox, the metadata write-back and a crash.  *)
(* The write-back is one step here; module Mailboxes has its own steps.    *)
(*                                                                         *)
(* One mailbox: allowlist and send rate are kept per mailbox.  Every Hello *)
(* presents the right auth token or a valid proof of work, and the mailbox *)
(* cap is not reached (module Mailboxes).  A token stands for its hash.    *)
(***************************************************************************)
EXTENDS Integers, FiniteSets, Sequences, SequencesExt

CONSTANTS
  Conn,                             \* connection attempts
  Token,                            \* delivery tokens
  None,                             \* no mailbox, no window, no token
  MAX_CONNECTIONS,
  MAX_FRAMES_PER_WINDOW,
  MAX_SENDS_PER_DEST_PER_WINDOW,
  MAX_DELIVERY_TOKENS_PER_MAILBOX,
  RATE_WINDOW_MS,
  MaxNow, MaxFrames, MaxCrashes     \* bounds on the clock, frames and restarts

ASSUME LimitAssumption ==
  /\ MAX_CONNECTIONS \in Nat \ {0} /\ MAX_FRAMES_PER_WINDOW \in Nat \ {0}
  /\ MAX_SENDS_PER_DEST_PER_WINDOW \in Nat \ {0}
  /\ MAX_DELIVERY_TOKENS_PER_MAILBOX \in Nat \ {0}
  /\ RATE_WINDOW_MS \in Nat
ASSUME BoundAssumption == MaxNow \in Nat /\ MaxFrames \in Nat /\ MaxCrashes \in Nat
ASSUME SetsAssumption == IsFiniteSet(Conn) /\ None \notin Token

Time == 0 .. MaxNow
Auths ==
  [delivery_token_hash : Token \cup {None}, delivery_token_hashes : Seq(Token), granted : SUBSET Token]
Windows == [start_ms : Time, frame_count : Nat]
Rates == [window_start : Time, count : Nat]
ASSUME NoneAssumption == None \notin Auths /\ None \notin Rates

VARIABLES
  conn_count,     \* AtomicUsize
  pc,             \* per connection: "closed", "refused", "ready" or a handler's step
  window,         \* per connection: [start_ms, frame_count]
  registered,     \* connections whose recipient_id is the mailbox
  clock,          \* per connection: now as allow_dest_send read it
  auth,           \* the mailbox's MailboxAuth or None
  send_rate,      \* [window_start, count] or None
  stored,         \* the mailbox's row in the AUTH table
  now, frames, crashes,
  accepted        \* history: the sends allowed since send_rate was last dropped:
                  \* [read, at] -> how many, by clock reading and time

sockets == <<conn_count, pc, window, registered, clock>>
env == <<now, frames, crashes>>
vars == <<sockets, auth, send_rate, stored, env, accepted>>

Set(f, c, v) == [f EXCEPT ![c] = v]

NoWindow == [start_ms |-> 0, frame_count |-> 0]
SendTimes == [read : Time, at : Time]
NoSends == [s \in SendTimes |-> 0]

-----------------------------------------------------------------------------
(* MailboxAuth.  `granted` is history: the tokens the owner has presented  *)
(* or set since it last replaced the list.                                 *)
MailboxAuth(t) ==
  [delivery_token_hash |-> t, delivery_token_hashes |-> <<t>>, granted |-> {t}]

(* A record from before the tokens: serde fills in defaults. *)
LegacyAuth == [delivery_token_hash |-> None, delivery_token_hashes |-> <<>>, granted |-> {}]

accepts_delivery_hash(a) ==
  ({a.delivery_token_hash} \ {None}) \cup ToSet(a.delivery_token_hashes)

(* The list is full: the oldest makes room. *)
EvictOldest(ts) == IF Len(ts) >= MAX_DELIVERY_TOKENS_PER_MAILBOX THEN Tail(ts) ELSE ts

ensure_delivery_hash(a, t) ==
  [delivery_token_hash   |-> IF a.delivery_token_hash = None THEN t ELSE a.delivery_token_hash,
   delivery_token_hashes |->
     IF t \in ToSet(a.delivery_token_hashes) THEN a.delivery_token_hashes
     ELSE Append(EvictOldest(a.delivery_token_hashes), t),
   granted               |-> a.granted \cup {t}]

(* The first occurrence of each. *)
Dedup(ts) ==
  LET first == {i \in DOMAIN ts : \A j \in 1 .. i - 1 : ts[j] # ts[i]}
  IN [k \in 1 .. Cardinality(first) |->
        ts[CHOOSE i \in first : Cardinality({j \in first : j <= i}) = k]]

(* Mutant: the first hash stays what it was. *)
replace_delivery_hashes_mutant(a, ts) ==
  [a EXCEPT !.delivery_token_hashes = Dedup(ts), !.granted = ToSet(ts)]

replace_delivery_hashes(a, ts) ==
  [a EXCEPT !.delivery_token_hash = Head(ts),
            !.delivery_token_hashes = Dedup(ts),
            !.granted = ToSet(ts)]

-----------------------------------------------------------------------------
(* handle_socket up to the guard: fetch_add, and back when over the cap.   *)
Connect(c) ==
  /\ pc[c] = "closed"
  /\ conn_count < MAX_CONNECTIONS
  /\ conn_count' = conn_count + 1
  /\ pc' = Set(pc, c, "ready")
  /\ window' = Set(window, c, [start_ms |-> now, frame_count |-> 0])
  /\ UNCHANGED <<registered, clock, auth, send_rate, stored, env, accepted>>

ConnectRefused(c) ==
  /\ pc[c] = "closed"
  /\ conn_count >= MAX_CONNECTIONS
  /\ conn_count' = conn_count + 1
  /\ pc' = Set(pc, c, "refused")
  /\ UNCHANGED <<window, registered, clock, auth, send_rate, stored, env, accepted>>

(* Mutant: a refused connection keeps what it added. *)
Refuse_mutant(c) ==
  /\ pc[c] = "refused"
  /\ pc' = Set(pc, c, "closed")
  /\ UNCHANGED <<conn_count, window, registered, clock, auth, send_rate, stored, env, accepted>>

Refuse(c) ==
  /\ pc[c] = "refused"
  /\ conn_count' = conn_count - 1
  /\ pc' = Set(pc, c, "closed")
  /\ UNCHANGED <<window, registered, clock, auth, send_rate, stored, env, accepted>>

(* Mutant: another connection takes over the recipient_id. *)
Leave_mutant(c) ==
  /\ pc' = Set(pc, c, "closed")
  /\ conn_count' = conn_count - 1
  /\ window' = Set(window, c, NoWindow)
  /\ UNCHANGED registered

(* The loop ends and ConnGuard is dropped. *)
Leave(c) ==
  /\ pc' = Set(pc, c, "closed")
  /\ conn_count' = conn_count - 1
  /\ window' = Set(window, c, NoWindow)
  /\ registered' = registered \ {c}

Close(c) ==
  /\ pc[c] = "ready"
  /\ Leave(c)
  /\ UNCHANGED <<clock, auth, send_rate, stored, env, accepted>>

(* The frame window as it is once a frame that came now has been counted.  *)
Counted(w) ==
  IF now - w.start_ms > RATE_WINDOW_MS THEN [start_ms |-> now, frame_count |-> 1]
  ELSE [w EXCEPT !.frame_count = @ + 1]

Frame(c) ==
  /\ pc[c] = "ready"
  /\ frames < MaxFrames
  /\ frames' = frames + 1
  /\ window' = Set(window, c, Counted(window[c]))

(* The frame is within the socket's budget and its handler goes on at s.   *)
Admit(c, s) ==
  /\ Frame(c)
  /\ window'[c].frame_count <= MAX_FRAMES_PER_WINDOW
  /\ pc' = Set(pc, c, s)

FrameLimited(c) ==
  /\ Frame(c)
  /\ window'[c].frame_count > MAX_FRAMES_PER_WINDOW
  /\ UNCHANGED <<conn_count, pc, registered, clock, auth, send_rate, stored,
                 now, crashes, accepted>>

(* too_large, bad_json, not_registered, bad_tokens, delivery_denied...:    *)
(* the frame is counted and nothing else happens.                          *)
FrameRejected(c) ==
  /\ Admit(c, "ready")
  /\ UNCHANGED <<conn_count, registered, clock, auth, send_rate, stored, now, crashes, accepted>>

-----------------------------------------------------------------------------
Hello(c, t) ==
  /\ Admit(c, "ready")
  /\ auth' = IF auth = None THEN MailboxAuth(t) ELSE ensure_delivery_hash(auth, t)
  /\ registered' = registered \cup {c}
  /\ UNCHANGED <<conn_count, clock, send_rate, stored, now, crashes, accepted>>

(* At least one token and no more than the limit, else bad_tokens. *)
TokenLists == BoundedSeq(Token, MAX_DELIVERY_TOKENS_PER_MAILBOX) \ {<<>>}

SetDeliveryTokens(c, ts) ==
  /\ c \in registered
  /\ auth # None
  /\ Admit(c, "ready")
  /\ auth' = replace_delivery_hashes(auth, ts)
  /\ UNCHANGED <<conn_count, registered, clock, send_rate, stored, now, crashes, accepted>>

-----------------------------------------------------------------------------
(* SendEnvelope: authorisation, then allow_dest_send, which reads the      *)
(* clock before it locks the destination's entry.                          *)
SendAuthorised(c, t) ==
  /\ auth # None /\ t \in accepts_delivery_hash(auth)
  /\ Admit(c, "send")
  /\ UNCHANGED <<conn_count, registered, clock, auth, send_rate, stored, now, crashes, accepted>>

SendClock(c) ==
  /\ pc[c] = "send"
  /\ pc' = Set(pc, c, "rate")
  /\ clock' = Set(clock, c, now)
  /\ UNCHANGED <<conn_count, window, registered, auth, send_rate, stored, env, accepted>>

Entry(c) == IF send_rate = None THEN [window_start |-> clock[c], count |-> 0] ELSE send_rate

NewWindow(c) == clock[c] - Entry(c).window_start > RATE_WINDOW_MS

(* Mutant: one too many. *)
OverBudget_mutant(c) == Entry(c).count > MAX_SENDS_PER_DEST_PER_WINDOW

OverBudget(c) == Entry(c).count >= MAX_SENDS_PER_DEST_PER_WINDOW

SendAllowed(c) ==
  /\ pc[c] = "rate"
  /\ NewWindow(c) \/ ~OverBudget(c)
  /\ pc' = Set(pc, c, "ready")
  /\ send_rate' = IF NewWindow(c) THEN [window_start |-> clock[c], count |-> 1]
                  ELSE [Entry(c) EXCEPT !.count = @ + 1]
  /\ accepted' = [accepted EXCEPT ![[read |-> clock[c], at |-> now]] = @ + 1]
  /\ clock' = Set(clock, c, 0)
  /\ UNCHANGED <<conn_count, window, registered, auth, stored, env>>

SendLimited(c) ==
  /\ pc[c] = "rate"
  /\ ~NewWindow(c) /\ OverBudget(c)
  /\ pc' = Set(pc, c, "ready")
  /\ clock' = Set(clock, c, 0)
  /\ UNCHANGED <<conn_count, window, registered, auth, send_rate, stored, env, accepted>>

-----------------------------------------------------------------------------
(* RetireMailbox: the budget goes after the await of the purge, and the    *)
(* loop ends.                                                              *)
RetireRemove(c) ==
  /\ c \in registered
  /\ Admit(c, "retire")
  /\ auth' = None
  /\ UNCHANGED <<conn_count, registered, clock, send_rate, stored, now, crashes, accepted>>

RetireRate(c) ==
  /\ pc[c] = "retire"
  /\ pc' = Set(pc, c, "retired")
  /\ send_rate' = None
  /\ accepted' = NoSends
  /\ UNCHANGED <<conn_count, window, registered, clock, auth, stored, env>>

RetireLeave(c) ==
  /\ pc[c] = "retired"
  /\ Leave(c)
  /\ UNCHANGED <<clock, auth, send_rate, stored, env, accepted>>

-----------------------------------------------------------------------------
(* flush_dirty_meta for the mailbox: the table gets the value of the       *)
(* moment the flush reads it.                                              *)
Flush ==
  /\ stored # auth
  /\ stored' = auth
  /\ UNCHANGED <<sockets, auth, send_rate, env, accepted>>

Crash ==
  /\ crashes < MaxCrashes
  /\ crashes' = crashes + 1
  /\ conn_count' = 0
  /\ pc' = [c \in Conn |-> "closed"]
  /\ window' = [c \in Conn |-> NoWindow]
  /\ registered' = {}
  /\ clock' = [c \in Conn |-> 0]
  /\ auth' = stored
  /\ send_rate' = None
  /\ accepted' = NoSends
  /\ UNCHANGED <<stored, now, frames>>

Tick ==
  /\ now < MaxNow
  /\ now' = now + 1
  /\ UNCHANGED <<sockets, auth, send_rate, stored, frames, crashes, accepted>>

-----------------------------------------------------------------------------
Init ==
  /\ conn_count = 0
  /\ pc = [c \in Conn |-> "closed"]
  /\ window = [c \in Conn |-> NoWindow]
  /\ registered = {}
  /\ clock = [c \in Conn |-> 0]
  /\ auth \in {None, LegacyAuth} \cup {MailboxAuth(t) : t \in Token} /\ stored = auth
  /\ send_rate = None
  /\ now = 0 /\ frames = 0 /\ crashes = 0
  /\ accepted = NoSends

Connection(c) == Connect(c) \/ ConnectRefused(c) \/ Refuse(c) \/ Close(c)
                 \/ FrameLimited(c) \/ FrameRejected(c)
Tokens(c) ==
  \/ \E t \in Token : Hello(c, t)
  \/ \E ts \in TokenLists : SetDeliveryTokens(c, ts)
Send(c) ==
  \/ \E t \in Token : SendAuthorised(c, t)
  \/ SendClock(c) \/ SendAllowed(c) \/ SendLimited(c)
Retire(c) == RetireRemove(c) \/ RetireRate(c) \/ RetireLeave(c)

Next ==
  \/ \E c \in Conn : Connection(c) \/ Tokens(c) \/ Send(c) \/ Retire(c)
  \/ Flush \/ Crash \/ Tick

Spec == Init /\ [][Next]_vars

-----------------------------------------------------------------------------
PC == {"closed", "refused", "ready", "send", "rate", "retire", "retired"}

(* Type invariant. *)
TypeOK ==
  /\ conn_count \in Nat
  /\ pc \in [Conn -> PC]
  /\ window \in [Conn -> Windows]
  /\ registered \subseteq Conn
  /\ clock \in [Conn -> Time]
  /\ auth \in Auths \cup {None} /\ stored \in Auths \cup {None}
  /\ send_rate \in Rates \cup {None}
  /\ now \in Time /\ frames \in 0 .. MaxFrames /\ crashes \in 0 .. MaxCrashes
  /\ accepted \in [SendTimes -> Nat]
  /\ \A c \in Conn : pc[c] \in {"closed", "refused"} => c \notin registered

(* ConnGuard: every connection that was counted gives its slot back, on    *)
(* every way out, and the cap holds although each attempt is counted       *)
(* before it is judged.                                                    *)
ConnCountExact ==
  /\ conn_count = Cardinality({c \in Conn : pc[c] # "closed"})
  /\ Cardinality({c \in Conn : pc[c] \notin {"closed", "refused"}}) <= MAX_CONNECTIONS

(* "authoritative across all sockets": of the sends that read the clock    *)
(* and were counted within any span of one window, fewer than two windows' *)
(* worth are accepted, however many sockets send, and although the clock   *)
(* is read before the entry is locked.                                     *)
DestRateBounded ==
  \A t \in Time :
    SumFunctionOnSet(accepted, {s \in SendTimes : s.read >= t /\ s.at <= t + RATE_WINDOW_MS})
      < 2 * MAX_SENDS_PER_DEST_PER_WINDOW

(* The mailbox accepts only tokens its owner presented or set since it     *)
(* last replaced the list, after evictions and after a restart; the list   *)
(* has no duplicates and keeps to its limit, which only the first token    *)
(* may outlive.                                                            *)
AllowlistSound ==
  auth # None =>
    /\ accepts_delivery_hash(auth) \subseteq auth.granted
    /\ IsInjective(auth.delivery_token_hashes)
    /\ Len(auth.delivery_token_hashes) <= MAX_DELIVERY_TOKENS_PER_MAILBOX
=============================================================================
