--------------------------- MODULE DeliveryProofs ---------------------------
(***************************************************************************)
(* Proofs about Delivery for any number of envelopes and connections and   *)
(* any channel capacity: its types, AcceptedKept, SyncedComplete, and that *)
(* it implements MailboxSpec.                                              *)
(***************************************************************************)
EXTENDS Delivery, DataLemmas

(* Where each envelope is, by the step of its send: no answer before the   *)
(* handler is done, on a live channel only past the route, stored at most  *)
(* once and only by a handler that is done.                                *)
Ledger ==
  /\ IsInjective(queue)
  /\ acked \subseteq seen
  /\ \A e \in Env :
       /\ spc[e] # "done" => outcome[e] = "none"
       /\ spc[e] \in {"route", "unroute"} => e \notin live
       /\ e \in ToSet(queue) => spc[e] = "done"

(* What is on its way to the receiver was offered live, is stored, or was  *)
(* seen before (and may have been acknowledged since).                     *)
Known == live \cup ToSet(queue) \cup seen
Traceable ==
  \A s \in Socket : ToSet(backlog[s]) \subseteq Known /\ ToSet(chan[s]) \subseteq Known \cup {Synced}

(* A connection through its life: what the flush read and has not handed   *)
(* over is in its backlog or on its channel while the writer lives, and is *)
(* ahead of the Synced frame.                                              *)
Before(c, i) == {c[j] : j \in 1 .. i - 1}
ConnOK(s) ==
  /\ ~writer[s] => chan[s] = <<>>
  /\ pc[s] = "closed" => ~writer[s]
  /\ pc[s] # "flush" => backlog[s] = <<>>
  /\ pc[s] \in {"closed", "online", "read"} => owed[s] = {}
  /\ pc[s] \in {"closed", "online", "read", "flush"} => Synced \notin got[s] \cup ToSet(chan[s])
  /\ writer[s] => owed[s] \subseteq ToSet(backlog[s]) \cup ToSet(chan[s]) \cup got[s]
  /\ \A i \in 1 .. Len(chan[s]) : chan[s][i] = Synced => owed[s] \subseteq got[s] \cup Before(chan[s], i)

FlushOrdered == SyncedComplete /\ \A s \in Socket : ConnOK(s)

DeliveryInv == TypeOK /\ Ledger /\ Traceable /\ FlushOrdered /\ AcceptedKept

-----------------------------------------------------------------------------
(* The inductive invariant holds when the relay starts.                    *)
LEMMA InitDelivery == Init => DeliveryInv
<1> SUFFICES ASSUME Init PROVE DeliveryInv
  OBVIOUS
<1>1. TypeOK
  BY CapacityAssumption, FlagAssumption DEF Init, TypeOK
<1>2. ToSet(<<>>) = {} /\ IsInjective(<<>>) /\ Len(<<>>) = 0
  BY DEF ToSet, IsInjective
<1>3. Ledger
  BY <1>2 DEF Init, Ledger
<1>4. Traceable
  BY <1>2 DEF Init, Traceable
<1>5. FlushOrdered
  BY <1>2 DEF Init, FlushOrdered, SyncedComplete, ConnOK
<1>6. AcceptedKept
  BY DEF Init, AcceptedKept
<1> QED
  BY <1>1, <1>3, <1>4, <1>5, <1>6 DEF DeliveryInv

(* The frames of a channel, with one more behind them.                     *)
LEMMA ChannelAppend ==
  ASSUME TypeOK, NEW s \in Socket, NEW x \in Env \cup {Synced}
  PROVE  LET c == chan[s]
             d == Append(c, x)
         IN /\ Len(c) \in Nat /\ ToSet(c) = {c[k] : k \in 1 .. Len(c)}
            /\ d \in Seq(Env \cup {Synced}) /\ Len(d) = Len(c) + 1
            /\ d[Len(c) + 1] = x /\ (\A k \in 1 .. Len(c) : d[k] = c[k])
            /\ ToSet(d) = ToSet(c) \cup {x}
<1> DEFINE c == chan[s]
           Frames == Env \cup {Synced}
<1>1. c \in Seq(Frames) /\ x \in Frames
  BY DEF TypeOK
<1> HIDE DEF c, Frames
<1>2. Len(c) \in Nat /\ ToSet(c) = {c[k] : k \in 1 .. Len(c)}
  BY <1>1, ElementsOf
<1>3. /\ Append(c, x) \in Seq(Frames) /\ Len(Append(c, x)) = Len(c) + 1
      /\ Append(c, x)[Len(c) + 1] = x
      /\ \A k \in 1 .. Len(c) : Append(c, x)[k] = c[k]
      /\ ToSet(Append(c, x)) = ToSet(c) \cup {x}
  BY <1>1, ToSetAppend
<1> QED
  BY <1>2, <1>3 DEF c, Frames

(* Every step keeps the types; the channels stay within their capacity     *)
(* because every send asks for room first.                                 *)
LEMMA TypeStep ==
  ASSUME TypeOK, IsInjective(queue), [Next]_vars
  PROVE  TypeOK'
<1> USE CapacityAssumption, FlagAssumption, NameAssumption
<1>1. ASSUME NEW e \in Env, SendLive(e)
      PROVE  TypeOK'
  <2>1. /\ Append(chan[online], e) \in Seq(Env \cup {Synced})
        /\ Len(Append(chan[online], e)) = Len(chan[online]) + 1
    BY <1>1, ChannelAppend DEF SendLive
  <2> QED
    BY <1>1, <2>1 DEF SendLive, Accepts, TypeOK, Set, sends, conn, client
<1>2. ASSUME NEW e \in Env, SendOffline(e) \/ SendLiveFails(e) \/ SendUnroute(e)
      PROVE  TypeOK'
  BY <1>2 DEF SendOffline, SendLiveFails, SendUnroute, TypeOK, Set, sends, conn, client
<1>3. ASSUME NEW e \in Env, SendStore(e)
      PROVE  TypeOK'
  BY <1>3 DEF SendStore, TypeOK, Set, sends, conn, client
<1>4. ASSUME NEW e \in Env, SendStoreFull(e) \/ SendStoreFails(e)
      PROVE  TypeOK'
  BY <1>4 DEF SendStoreFull, SendStoreFails, TypeOK, Set, sends, conn, client
<1>5. ASSUME NEW s \in Socket, Hello(s) \/ HelloOnline(s) \/ HelloReadFails(s)
      PROVE  TypeOK'
  BY <1>5 DEF Hello, HelloOnline, HelloReadFails, TypeOK, Set, sends, conn, client
<1>6. ASSUME NEW s \in Socket, HelloRead(s)
      PROVE  TypeOK'
  <2>1. ToSet(queue) \subseteq Env
    BY ElementsOf DEF TypeOK
  <2> QED
    BY <1>6, <2>1 DEF HelloRead, TypeOK, Set, sends, conn, client
<1>7. ASSUME NEW s \in Socket, FlushSend(s)
      PROVE  TypeOK'
  <2>1. Head(backlog[s]) \in Env /\ Tail(backlog[s]) \in Seq(Env)
    BY <1>7, ToSetTail DEF FlushSend, TypeOK
  <2>2. /\ Append(chan[s], Head(backlog[s])) \in Seq(Env \cup {Synced})
        /\ Len(Append(chan[s], Head(backlog[s]))) = Len(chan[s]) + 1
    BY <2>1, ChannelAppend
  <2> QED
    BY <1>7, <2>1, <2>2 DEF FlushSend, TypeOK, Set, sends, conn, client
<1>8. ASSUME NEW s \in Socket, FlushBroken(s)
      PROVE  TypeOK'
  BY <1>8 DEF FlushBroken, TypeOK, Set, sends, conn, client
<1>9. ASSUME NEW s \in Socket, FlushSynced(s)
      PROVE  TypeOK'
  <2>1. /\ Append(chan[s], Synced) \in Seq(Env \cup {Synced})
        /\ Len(Append(chan[s], Synced)) = Len(chan[s]) + 1
    BY ChannelAppend
  <2> QED
    BY <1>9, <2>1 DEF FlushSynced, TypeOK, Set, sends, conn, client
<1>10. ASSUME NEW s \in Socket, Write(s)
       PROVE  TypeOK'
  <2>1. /\ Head(chan[s]) \in Env \cup {Synced} /\ Tail(chan[s]) \in Seq(Env \cup {Synced})
        /\ Len(Tail(chan[s])) = Len(chan[s]) - 1
    BY <1>10, ToSetTail DEF Write, TypeOK
  <2> QED
    BY <1>10, <2>1 DEF Write, TypeOK, Set, sends, conn, client
<1>11. ASSUME NEW s \in Socket, WriteFails(s)
       PROVE  TypeOK'
  BY <1>11 DEF WriteFails, TypeOK, Set, sends, conn, client
<1>12. ASSUME NEW s \in Socket, NEW e \in Env, Ack(s, e)
       PROVE  TypeOK'
  <2>1. RemoveFirst(queue, e) \in Seq(Env)
    BY RemoveFirstFacts DEF TypeOK
  <2> QED
    BY <1>12, <2>1 DEF Ack, TypeOK, sends, conn, client
<1>13. ASSUME NEW s \in Socket, HangUp(s) \/ Leave(s) \/ CloseCheck(s) \/ CloseUnroute(s)
       PROVE  TypeOK'
  <2>1. CASE HangUp(s)
    BY <2>1 DEF HangUp, TypeOK, Set, sends, conn, client
  <2>2. CASE Leave(s) \/ CloseCheck(s) \/ CloseUnroute(s)
    BY <2>2 DEF Leave, CloseCheck, CloseUnroute, TypeOK, Set, sends, conn, client
  <2> QED
    BY <1>13, <2>1, <2>2
<1>14. ASSUME NEW s \in Socket, Close(s)
       PROVE  TypeOK'
  BY <1>14 DEF Close, TypeOK, Set, sends, conn, client
<1>15. CASE Crash
  BY <1>15 DEF Crash, TypeOK
<1>16. CASE UNCHANGED vars
  BY <1>16 DEF vars, sends, conn, client, TypeOK
<1> QED
  BY <1>1, <1>2, <1>3, <1>4, <1>5, <1>6, <1>7, <1>8, <1>9, <1>10, <1>11, <1>12,
     <1>13, <1>14, <1>15, <1>16 DEF Next, SendStep, HandlerStep

-----------------------------------------------------------------------------
(* The variables that the receiver's own steps leave alone.                *)
SendsKept == UNCHANGED <<queue, spc, live, outcome>>

(* What the steps of a receiving socket leave alone.                       *)
LEMMA ReceiverSteps ==
  ASSUME NEW s \in Socket,
         Hello(s) \/ HandlerStep(s) \/ Write(s) \/ WriteFails(s) \/ HangUp(s) \/ Leave(s)
  PROVE  /\ SendsKept /\ acked' = acked
         /\ ~Write(s) => seen' = seen
         /\ ~CloseUnroute(s) /\ ~Close(s) /\ ~HelloOnline(s) => online' = online
BY DEF SendsKept, HandlerStep, Hello, HelloOnline, HelloRead, HelloReadFails, FlushSend,
       FlushBroken, FlushSynced, CloseCheck, CloseUnroute, Close, Write, WriteFails,
       HangUp, Leave, sends, conn, client

(* What the steps of a send leave alone.                                   *)
LEMMA SendSteps ==
  ASSUME NEW e \in Env, SendStep(e)
  PROVE  /\ UNCHANGED <<pc, backlog, writer, got, owed, seen, acked>>
         /\ ~SendLive(e) => chan' = chan /\ live' = live
         /\ ~SendStore(e) => queue' = queue
         /\ ~SendStore(e) /\ ~SendStoreFull(e) /\ ~SendStoreFails(e) => outcome' = outcome
BY DEF SendStep, SendLive, SendOffline, SendLiveFails, SendUnroute, SendStore,
       SendStoreFull, SendStoreFails, sends, conn, client

(* What SendStore and Ack do to the stored set.                            *)
LEMMA StoreAppends ==
  ASSUME TypeOK, Ledger, NEW e \in Env, SendStore(e)
  PROVE  /\ ToSet(queue)' = ToSet(queue) \cup {e}
         /\ IsInjective(queue')
<1>1. queue \in Seq(Env) /\ queue' = Append(queue, e) /\ e \notin ToSet(queue)
  BY DEF SendStore, TypeOK, Ledger
<1>2. /\ queue' \in Seq(Env) /\ Len(queue') = Len(queue) + 1 /\ queue'[Len(queue) + 1] = e
      /\ \A k \in 1 .. Len(queue) : queue'[k] = queue[k]
      /\ ToSet(queue') = ToSet(queue) \cup {e}
  BY <1>1, ToSetAppend
<1>3. Len(queue) \in Nat /\ \A k \in 1 .. Len(queue) : queue[k] # e
  BY <1>1, ElementsOf
<1>4. \A k, l \in 1 .. Len(queue) : queue[k] = queue[l] => k = l
  BY <1>1, ElementsOf DEF Ledger, IsInjective
<1>5. DOMAIN queue' = 1 .. Len(queue) + 1
  BY <1>2
<1>6. IsInjective(queue')
  BY <1>2, <1>3, <1>4, <1>5 DEF IsInjective
<1> QED
  BY <1>2, <1>6

(* An ack removes its envelope, and only it, from the queue.               *)
LEMMA AckRemoves ==
  ASSUME TypeOK, Ledger, NEW s \in Socket, NEW e \in Env, Ack(s, e)
  PROVE  /\ ToSet(queue)' = ToSet(queue) \ {e}
         /\ IsInjective(queue')
BY RemoveFirstFacts DEF Ack, TypeOK, Ledger

(* Each step keeps the account of accepted, stored and acknowledged        *)
(* envelopes.                                                              *)
LEMMA LedgerStep ==
  ASSUME TypeOK, Ledger, [Next]_vars
  PROVE  Ledger'
<1>1. ASSUME NEW e \in Env, SendLive(e)
      PROVE  Ledger'
  BY <1>1 DEF SendLive, Ledger, TypeOK, Set, sends, conn, client
<1>2. ASSUME NEW e \in Env, SendOffline(e) \/ SendLiveFails(e) \/ SendUnroute(e)
      PROVE  Ledger'
  BY <1>2 DEF SendOffline, SendLiveFails, SendUnroute, Ledger, TypeOK, Set, sends, conn, client
<1>3. ASSUME NEW e \in Env, SendStore(e)
      PROVE  Ledger'
  <2>1. ToSet(queue)' = ToSet(queue) \cup {e} /\ IsInjective(queue')
    BY <1>3, StoreAppends
  <2> QED
    BY <1>3, <2>1 DEF SendStore, Ledger, TypeOK, Set, sends, conn, client
<1>4. ASSUME NEW e \in Env, SendStoreFull(e) \/ SendStoreFails(e)
      PROVE  Ledger'
  BY <1>4 DEF SendStoreFull, SendStoreFails, Ledger, TypeOK, Set, sends, conn, client
<1>5. ASSUME NEW s \in Socket,
             Hello(s) \/ HandlerStep(s) \/ WriteFails(s) \/ HangUp(s) \/ Leave(s)
      PROVE  Ledger'
  <2>1. SendsKept /\ acked' = acked /\ (Write(s) \/ seen' = seen)
    BY <1>5, ReceiverSteps
  <2>2. Write(s) => seen \subseteq seen'
    BY DEF Write
  <2> QED
    BY <2>1, <2>2 DEF SendsKept, Ledger
<1>6. ASSUME NEW s \in Socket, Write(s)
      PROVE  Ledger'
  BY <1>6 DEF Write, Ledger, sends, conn, client
<1>7. ASSUME NEW s \in Socket, NEW e \in Env, Ack(s, e)
      PROVE  Ledger'
  <2>1. ToSet(queue)' = ToSet(queue) \ {e} /\ IsInjective(queue')
    BY <1>7, AckRemoves
  <2> QED
    BY <1>7, <2>1 DEF Ack, Ledger, sends, conn, client
<1>8. CASE Crash
  BY <1>8 DEF Crash, Ledger, TypeOK
<1>9. CASE UNCHANGED vars
  BY <1>9 DEF vars, sends, conn, client, Ledger
<1> QED
  BY <1>1, <1>2, <1>3, <1>4, <1>5, <1>6, <1>7, <1>8, <1>9 DEF Next, SendStep

(* An accepted envelope is stored, acknowledged, or was at least offered.  *)
LEMMA KeptStep ==
  ASSUME TypeOK, Ledger, AcceptedKept, [Next]_vars
  PROVE  AcceptedKept'
<1>1. ASSUME NEW e \in Env, SendLive(e)
      PROVE  AcceptedKept'
  BY <1>1 DEF SendLive, AcceptedKept, sends, conn, client
<1>2. ASSUME NEW e \in Env, SendOffline(e) \/ SendLiveFails(e) \/ SendUnroute(e)
      PROVE  AcceptedKept'
  BY <1>2 DEF SendOffline, SendLiveFails, SendUnroute, AcceptedKept, sends, conn, client
<1>3. ASSUME NEW e \in Env, SendStore(e)
      PROVE  AcceptedKept'
  <2>1. ToSet(queue)' = ToSet(queue) \cup {e}
    BY <1>3, StoreAppends
  <2> QED
    BY <1>3, <2>1 DEF SendStore, AcceptedKept, TypeOK, Set, sends, conn, client
<1>4. ASSUME NEW e \in Env, SendStoreFull(e) \/ SendStoreFails(e)
      PROVE  AcceptedKept'
  BY <1>4 DEF SendStoreFull, SendStoreFails, AcceptedKept, TypeOK, Set, sends, conn, client
<1>5. ASSUME NEW s \in Socket,
             Hello(s) \/ HandlerStep(s) \/ Write(s) \/ WriteFails(s) \/ HangUp(s) \/ Leave(s)
      PROVE  AcceptedKept'
  BY <1>5, ReceiverSteps DEF SendsKept, AcceptedKept
<1>6. ASSUME NEW s \in Socket, NEW e \in Env, Ack(s, e)
      PROVE  AcceptedKept'
  <2>1. ToSet(queue)' = ToSet(queue) \ {e}
    BY <1>6, AckRemoves
  <2> QED
    BY <1>6, <2>1 DEF Ack, AcceptedKept, sends, conn, client
<1>7. CASE Crash
  BY <1>7 DEF Crash, AcceptedKept
<1>8. CASE UNCHANGED vars
  BY <1>8 DEF vars, sends, conn, client, AcceptedKept
<1> QED
  BY <1>1, <1>2, <1>3, <1>4, <1>5, <1>6, <1>7, <1>8 DEF Next, SendStep

-----------------------------------------------------------------------------
(* What was once offered, stored or seen stays so: an envelope leaves the  *)
(* queue only after the receiver saw it.                                   *)
LEMMA KnownGrows ==
  ASSUME TypeOK, Ledger, [Next]_vars
  PROVE  Known \subseteq Known'
<1>1. ASSUME NEW e \in Env, SendStep(e)
      PROVE  Known \subseteq Known'
  <2>1. SendStore(e) => ToSet(queue)' = ToSet(queue) \cup {e}
    BY StoreAppends
  <2>2. SendLive(e) => live \subseteq live'
    BY DEF SendLive
  <2> QED
    BY <1>1, <2>1, <2>2, SendSteps DEF Known
<1>2. ASSUME NEW s \in Socket,
             Hello(s) \/ HandlerStep(s) \/ Write(s) \/ WriteFails(s) \/ HangUp(s) \/ Leave(s)
      PROVE  Known \subseteq Known'
  <2>1. Write(s) => seen \subseteq seen'
    BY DEF Write
  <2> QED
    BY <1>2, <2>1, ReceiverSteps DEF SendsKept, Known
<1>3. ASSUME NEW s \in Socket, NEW e \in Env, Ack(s, e)
      PROVE  Known \subseteq Known'
  <2>1. ToSet(queue)' = ToSet(queue) \ {e}
    BY <1>3, AckRemoves
  <2> QED
    BY <1>3, <2>1 DEF Ack, Known, sends, conn, client
<1>4. CASE Crash
  BY <1>4 DEF Crash, Known
<1>5. CASE UNCHANGED vars
  BY <1>5 DEF vars, sends, conn, client, Known
<1> QED
  BY <1>1, <1>2, <1>3, <1>4, <1>5 DEF Next

(* Each step keeps what is on its way to a receiver known.                 *)
LEMMA TraceableStep ==
  ASSUME TypeOK, Ledger, Traceable, [Next]_vars
  PROVE  Traceable'
<1>0. Known \subseteq Known'
  BY KnownGrows
<1>a. ToSet(<<>>) = {}
  BY DEF ToSet
<1>1. ASSUME UNCHANGED <<backlog, chan>> PROVE Traceable'
  BY <1>0, <1>1 DEF Traceable
<1>2. ASSUME NEW e \in Env, SendLive(e)
      PROVE  Traceable'
  <2>1. ToSet(Append(chan[online], e)) = ToSet(chan[online]) \cup {e}
    BY <1>2, ChannelAppend DEF SendLive
  <2>2. e \in Known'
    BY <1>2 DEF SendLive, Known
  <2> QED
    BY <1>0, <1>2, <2>1, <2>2 DEF SendLive, Traceable, TypeOK, Set
<1>3. ASSUME NEW s \in Socket, HelloRead(s)
      PROVE  Traceable'
  BY <1>0, <1>3 DEF HelloRead, Traceable, Known, TypeOK, Set
<1>4. ASSUME NEW s \in Socket, FlushSend(s)
      PROVE  Traceable'
  <2>1. /\ Head(backlog[s]) \in Env
        /\ ToSet(backlog[s]) = {Head(backlog[s])} \cup ToSet(Tail(backlog[s]))
    BY <1>4, ToSetTail DEF FlushSend, TypeOK
  <2>2. ToSet(Append(chan[s], Head(backlog[s]))) = ToSet(chan[s]) \cup {Head(backlog[s])}
    BY <2>1, ChannelAppend
  <2> QED
    BY <1>0, <1>4, <2>1, <2>2 DEF FlushSend, Traceable, TypeOK, Set
<1>5. ASSUME NEW s \in Socket, FlushBroken(s) \/ WriteFails(s) \/ Close(s)
      PROVE  Traceable'
  BY <1>0, <1>a, <1>5 DEF FlushBroken, WriteFails, Close, Traceable, TypeOK, Set
<1>6. ASSUME NEW s \in Socket, FlushSynced(s)
      PROVE  Traceable'
  <2>1. ToSet(Append(chan[s], Synced)) = ToSet(chan[s]) \cup {Synced}
    BY ChannelAppend
  <2> QED
    BY <1>0, <1>6, <2>1 DEF FlushSynced, Traceable, TypeOK, Set
<1>7. ASSUME NEW s \in Socket, Write(s)
      PROVE  Traceable'
  <2>1. ToSet(chan[s]) = {Head(chan[s])} \cup ToSet(Tail(chan[s]))
    BY <1>7, ToSetTail DEF Write, TypeOK
  <2> QED
    BY <1>0, <1>7, <2>1 DEF Write, Traceable, TypeOK, Set
<1>8. CASE Crash
  BY <1>a, <1>8 DEF Crash, Traceable
<1>9. ASSUME NEW e \in Env, SendStep(e), ~SendLive(e)
      PROVE  Traceable'
  BY <1>1, <1>9, SendSteps
<1>10. ASSUME NEW s \in Socket,
              \/ Hello(s) \/ HelloOnline(s) \/ HelloReadFails(s) \/ CloseCheck(s)
              \/ CloseUnroute(s) \/ HangUp(s) \/ Leave(s)
       PROVE  Traceable'
  BY <1>1, <1>10 DEF Hello, HelloOnline, HelloReadFails, CloseCheck, CloseUnroute, HangUp, Leave
<1>11. ASSUME NEW s \in Socket, NEW e \in Env, Ack(s, e)
       PROVE  Traceable'
  BY <1>1, <1>11 DEF Ack, conn
<1>12. CASE UNCHANGED vars
  BY <1>1, <1>12 DEF vars, conn
<1> QED
  BY <1>2, <1>3, <1>4, <1>5, <1>6, <1>7, <1>8, <1>9, <1>10, <1>11, <1>12
     DEF Next, HandlerStep

-----------------------------------------------------------------------------
(* ConnOK and SyncedComplete of a socket depend on its own variables only. *)
SocketKept(s) ==
  /\ pc'[s] = pc[s] /\ backlog'[s] = backlog[s] /\ chan'[s] = chan[s]
  /\ writer'[s] = writer[s] /\ got'[s] = got[s] /\ owed'[s] = owed[s]

SocketOK(s) == ConnOK(s) /\ (Synced \in got[s] => owed[s] \subseteq got[s])

(* A socket that a step leaves alone stays in order.                       *)
LEMMA KeptSocketOK ==
  ASSUME NEW s \in Socket, SocketKept(s), SocketOK(s)
  PROVE  SocketOK(s)'
BY DEF SocketKept, SocketOK, ConnOK, Before

(* A frame that goes on the channel behind the others, Synced only when    *)
(* the backlog is empty.                                                   *)
LEMMA AppendedSocketOK ==
  ASSUME TypeOK, NEW s \in Socket, SocketOK(s), NEW x \in Env \cup {Synced},
         writer[s], writer'[s], chan'[s] = Append(chan[s], x),
         got'[s] = got[s], owed'[s] = owed[s], pc[s] # "closed", pc'[s] # "closed",
         pc'[s] # "flush" => backlog'[s] = <<>>,
         pc'[s] \in {"online", "read"} => pc[s] \in {"online", "read"},
         pc'[s] = "flush" => pc[s] \in {"online", "read", "flush"},
         ToSet(backlog[s]) \subseteq ToSet(backlog'[s]) \cup {x},
         x = Synced => ToSet(backlog[s]) = {} /\ pc'[s] \notin {"online", "read", "flush"}
  PROVE  SocketOK(s)'
<1> DEFINE c == chan[s]
           d == Append(c, x)
<1>1. /\ Len(c) \in Nat /\ ToSet(c) = {c[k] : k \in 1 .. Len(c)} /\ Len(d) = Len(c) + 1
      /\ d[Len(c) + 1] = x /\ (\A k \in 1 .. Len(c) : d[k] = c[k])
      /\ ToSet(d) = ToSet(c) \cup {x}
  BY ChannelAppend
<1>2. /\ c = chan[s] /\ d = chan'[s]
      /\ owed[s] \subseteq ToSet(backlog[s]) \cup ToSet(c) \cup got[s]
      /\ \A i \in 1 .. Len(c) : c[i] = Synced => owed[s] \subseteq got[s] \cup Before(c, i)
  BY DEF SocketOK, ConnOK
<1> HIDE DEF c, d
<1>3. ASSUME NEW i \in 1 .. Len(c) PROVE Before(d, i) = Before(c, i)
  <2>1. \A j \in 1 .. i - 1 : d[j] = c[j]
    BY <1>1
  <2> QED
    BY <2>1 DEF Before
<1>4. Before(d, Len(c) + 1) = ToSet(c)
  <2>1. Before(d, Len(c) + 1) = {d[j] : j \in 1 .. Len(c)}
    BY <1>1 DEF Before
  <2> QED
    BY <1>1, <2>1
<1>5. \A i \in 1 .. Len(d) : d[i] = Synced => owed[s] \subseteq got[s] \cup Before(d, i)
  <2> SUFFICES ASSUME NEW i \in 1 .. Len(d), d[i] = Synced
               PROVE  owed[s] \subseteq got[s] \cup Before(d, i)
    OBVIOUS
  <2>1. CASE i \in 1 .. Len(c)
    BY <1>1, <1>2, <1>3, <2>1
  <2>2. CASE i = Len(c) + 1
    BY <1>1, <1>2, <1>4, <2>2
  <2> QED
    BY <1>1, <2>1, <2>2
<1>6. x # Synced => (Synced \in ToSet(d) => Synced \in ToSet(c))
  BY <1>1
<1> QED
  BY <1>1, <1>2, <1>5, <1>6 DEF SocketOK, ConnOK

(* The writer takes the first frame: whatever was ahead of Synced has then *)
(* reached the client or is still ahead of it.                             *)
LEMMA WrittenSocketOK ==
  ASSUME TypeOK, NEW s \in Socket, SocketOK(s), Write(s)
  PROVE  SocketOK(s)'
<1> DEFINE c == chan[s]
           d == Tail(c)
           h == Head(c)
           g == got[s] \cup {h}
<1>1. /\ Len(c) \in Nat \ {0} /\ h = c[1] /\ Len(d) = Len(c) - 1
      /\ \A k \in 1 .. Len(d) : d[k] = c[k + 1]
      /\ ToSet(c) = {h} \cup ToSet(d) /\ ToSet(d) = {d[k] : k \in 1 .. Len(d)}
  <2> DEFINE Frames == Env \cup {Synced}
  <2>1. c \in Seq(Frames) /\ c # <<>>
    BY DEF Write, TypeOK
  <2> HIDE DEF Frames, c
  <2>2. Len(c) \in Nat \ {0} /\ h = c[1]
    BY <2>1
  <2>3. /\ d \in Seq(Frames) /\ Len(d) = Len(c) - 1
        /\ \A k \in 1 .. Len(c) - 1 : d[k] = c[k + 1]
        /\ ToSet(c) = {h} \cup ToSet(d)
    BY <2>1, ToSetTail
  <2> HIDE DEF d
  <2>4. ToSet(d) = {d[k] : k \in 1 .. Len(d)}
    BY <2>3, ElementsOf
  <2> QED
    BY <2>2, <2>3, <2>4
<1>2. /\ writer[s] /\ writer'[s] /\ pc'[s] = pc[s] /\ backlog'[s] = backlog[s]
      /\ owed'[s] = owed[s] /\ got'[s] = g /\ chan'[s] = d
  BY DEF Write, TypeOK, Set
<1>3. /\ owed[s] \subseteq ToSet(backlog[s]) \cup ToSet(c) \cup got[s]
      /\ \A i \in 1 .. Len(c) : c[i] = Synced => owed[s] \subseteq got[s] \cup Before(c, i)
  BY <1>2 DEF SocketOK, ConnOK
<1> HIDE DEF c, d, h
<1>4. ASSUME NEW i \in 1 .. Len(d), d[i] = Synced
      PROVE  owed[s] \subseteq g \cup Before(d, i)
  <2>1. i + 1 \in 1 .. Len(c) /\ c[i + 1] = Synced
    BY <1>1, <1>4
  <2>2. owed[s] \subseteq got[s] \cup Before(c, i + 1)
    BY <1>3, <2>1
  <2>3. ASSUME NEW j \in 1 .. (i + 1) - 1 PROVE c[j] = h \/ c[j] \in Before(d, i)
    <3>1. CASE j # 1
      <4>1. j - 1 \in 1 .. i - 1 /\ j - 1 \in 1 .. Len(d) /\ (j - 1) + 1 = j
        BY <1>1, <1>4, <3>1
      <4>2. d[j - 1] = c[j]
        BY <1>1, <4>1
      <4> QED
        BY <4>1, <4>2 DEF Before
    <3> QED
      BY <1>1, <3>1
  <2>4. Before(c, i + 1) \subseteq {h} \cup Before(d, i)
    BY <2>3 DEF Before
  <2> QED
    BY <2>2, <2>4
<1>5. h = Synced => owed[s] \subseteq g
  <2>1. Before(c, 1) = {} /\ 1 \in 1 .. Len(c)
    BY <1>1 DEF Before
  <2>2. c[1] = Synced => owed[s] \subseteq got[s] \cup Before(c, 1)
    BY <1>3, <2>1
  <2> QED
    BY <1>1, <2>1, <2>2
<1>6. Synced \in g => owed[s] \subseteq g
  BY <1>5 DEF SocketOK
<1>7. pc[s] \in {"closed", "online", "read", "flush"} => Synced \notin g \cup ToSet(d)
  BY <1>1 DEF SocketOK, ConnOK, c
<1> QED
  BY <1>1, <1>2, <1>3, <1>4, <1>6, <1>7 DEF SocketOK, ConnOK

(* Every step keeps the order of the flush on every connection.            *)
LEMMA FlushStep ==
  ASSUME TypeOK, FlushOrdered, [Next]_vars
  PROVE  FlushOrdered'
<1>0. \A s \in Socket : SocketOK(s)
  BY DEF FlushOrdered, SyncedComplete, SocketOK
<1> SUFFICES ASSUME NEW r \in Socket PROVE SocketOK(r)'
  BY DEF FlushOrdered, SyncedComplete, SocketOK
<1>a. SocketKept(r) => SocketOK(r)'
  BY <1>0, KeptSocketOK
<1>b. ToSet(<<>>) = {} /\ Len(<<>>) = 0
  BY DEF ToSet
<1>1. ASSUME NEW e \in Env, SendLive(e)
      PROVE  SocketOK(r)'
  <2>1. CASE r = online
    <3>1. /\ writer[r] /\ writer'[r] /\ chan'[r] = Append(chan[r], e) /\ got'[r] = got[r]
          /\ owed'[r] = owed[r] /\ pc'[r] = pc[r] /\ backlog'[r] = backlog[r]
      BY <1>1, <2>1 DEF SendLive, Accepts, TypeOK, Set
    <3>2. pc[r] # "closed" /\ (pc[r] # "flush" => backlog[r] = <<>>) /\ e # Synced
      BY <1>0, <3>1, NameAssumption DEF SocketOK, ConnOK
    <3> QED
      BY <1>0, <3>1, <3>2, AppendedSocketOK
  <2>2. CASE r # online
    BY <1>1, <1>a, <2>2 DEF SendLive, SocketKept, TypeOK, Set
  <2> QED
    BY <2>1, <2>2
<1>2. ASSUME NEW e \in Env, SendStep(e), ~SendLive(e)
      PROVE  SocketOK(r)'
  BY <1>2, <1>a, SendSteps DEF SocketKept
<1>3. ASSUME NEW s \in Socket, r # s,
             \/ Hello(s) \/ HandlerStep(s) \/ Write(s) \/ WriteFails(s) \/ HangUp(s) \/ Leave(s)
      PROVE  SocketOK(r)'
  <2>1. CASE Hello(s) \/ Write(s) \/ WriteFails(s) \/ HangUp(s) \/ Leave(s)
    BY <1>3, <1>a, <2>1 DEF Hello, Write, WriteFails, HangUp, Leave, SocketKept, TypeOK, Set
  <2>2. CASE HelloOnline(s) \/ HelloRead(s) \/ HelloReadFails(s) \/ FlushSend(s) \/ FlushBroken(s)
    BY <1>3, <1>a, <2>2
       DEF HelloOnline, HelloRead, HelloReadFails, FlushSend, FlushBroken, SocketKept, TypeOK, Set
  <2>3. CASE FlushSynced(s) \/ CloseCheck(s) \/ CloseUnroute(s) \/ Close(s)
    BY <1>3, <1>a, <2>3 DEF FlushSynced, CloseCheck, CloseUnroute, Close, SocketKept, TypeOK, Set
  <2> QED
    BY <1>3, <2>1, <2>2, <2>3 DEF HandlerStep
<1>4. CASE Hello(r)
  BY <1>0, <1>4, <1>b DEF Hello, SocketOK, ConnOK, TypeOK, Set
<1>5. CASE HelloOnline(r) \/ HelloReadFails(r)
  BY <1>0, <1>5 DEF HelloOnline, HelloReadFails, SocketOK, ConnOK, TypeOK, Set
<1>6. CASE HelloRead(r)
  <2>1. /\ pc[r] = "read" /\ pc'[r] = "flush" /\ backlog'[r] = queue /\ owed'[r] = ToSet(queue)
        /\ chan' = chan /\ writer' = writer /\ got' = got
    BY <1>6 DEF HelloRead, TypeOK, Set
  <2>2. Synced \notin got[r] \cup ToSet(chan[r])
    BY <1>0, <2>1 DEF SocketOK, ConnOK
  <2>3. \A i \in 1 .. Len(chan[r]) : chan[r][i] # Synced
    <3>1. chan[r] \in Seq(Env \cup {Synced})
      BY DEF TypeOK
    <3> QED
      BY <2>2, <3>1, ElementsOf
  <2> QED
    BY <1>0, <2>1, <2>2, <2>3 DEF SocketOK, ConnOK
<1>7. CASE FlushSend(r)
  <2>1. /\ Head(backlog[r]) \in Env
        /\ ToSet(backlog[r]) = {Head(backlog[r])} \cup ToSet(Tail(backlog[r]))
    BY <1>7, ToSetTail DEF FlushSend, TypeOK
  <2>2. /\ writer[r] /\ writer'[r] /\ chan'[r] = Append(chan[r], Head(backlog[r]))
        /\ got'[r] = got[r] /\ owed'[r] = owed[r] /\ pc[r] = "flush" /\ pc'[r] = "flush"
        /\ backlog'[r] = Tail(backlog[r])
    BY <1>7 DEF FlushSend, TypeOK, Set
  <2>3. Head(backlog[r]) # Synced
    BY <2>1, NameAssumption
  <2> QED
    BY <1>0, <2>1, <2>2, <2>3, AppendedSocketOK
<1>8. CASE FlushBroken(r)
  BY <1>0, <1>8, <1>b DEF FlushBroken, SocketOK, ConnOK, TypeOK, Set
<1>9. CASE FlushSynced(r)
  <2>1. /\ writer[r] /\ writer'[r] /\ chan'[r] = Append(chan[r], Synced)
        /\ got'[r] = got[r] /\ owed'[r] = owed[r] /\ pc[r] = "flush" /\ pc'[r] = "ready"
        /\ backlog[r] = <<>> /\ backlog'[r] = <<>>
    BY <1>9 DEF FlushSynced, TypeOK, Set
  <2> QED
    BY <1>0, <1>b, <2>1, AppendedSocketOK
<1>10. CASE Write(r)
  BY <1>0, <1>10, WrittenSocketOK
<1>11. CASE WriteFails(r)
  BY <1>0, <1>11, <1>b DEF WriteFails, SocketOK, ConnOK, TypeOK, Set
<1>12. CASE HangUp(r) \/ Leave(r) \/ CloseCheck(r) \/ CloseUnroute(r)
  BY <1>0, <1>12 DEF HangUp, Leave, CloseCheck, CloseUnroute, SocketOK, ConnOK, TypeOK, Set
<1>13. CASE Close(r)
  BY <1>0, <1>13, <1>b DEF Close, SocketOK, ConnOK, TypeOK, Set
<1>14. ASSUME NEW s \in Socket, NEW e \in Env, Ack(s, e)
       PROVE  SocketOK(r)'
  BY <1>14, <1>a DEF Ack, conn, SocketKept
<1>15. CASE Crash
  BY <1>15, <1>b DEF Crash, SocketOK, ConnOK
<1>16. CASE UNCHANGED vars
  BY <1>16, <1>a DEF vars, conn, SocketKept
<1> QED
  BY <1>1, <1>2, <1>3, <1>4, <1>5, <1>6, <1>7, <1>8, <1>9, <1>10, <1>11, <1>12, <1>13,
     <1>14, <1>15, <1>16 DEF Next, HandlerStep

(* Every step keeps the inductive invariant.                               *)
LEMMA DeliveryStep == DeliveryInv /\ [Next]_vars => DeliveryInv'
<1> SUFFICES ASSUME DeliveryInv, [Next]_vars PROVE DeliveryInv'
  OBVIOUS
<1> USE DEF DeliveryInv
<1>1. TypeOK'
  BY TypeStep DEF Ledger
<1>2. Ledger'
  BY LedgerStep
<1>3. Traceable'
  BY TraceableStep
<1>4. FlushOrdered'
  BY FlushStep
<1>5. AcceptedKept'
  BY KeptStep
<1> QED
  BY <1>1, <1>2, <1>3, <1>4, <1>5

(* So it holds at every moment.                                            *)
LEMMA DeliveryInvariant == Spec => []DeliveryInv
BY InitDelivery, DeliveryStep, PTL DEF Spec

-----------------------------------------------------------------------------
(* Every variable keeps to its type; in particular no channel ever holds   *)
(* more than OUTBOUND_QUEUE_CAPACITY frames.                               *)
THEOREM TypeCorrect == Spec => []TypeOK
BY DeliveryInvariant, PTL DEF DeliveryInv

(* An accepted envelope stays stored until it is acknowledged, whatever    *)
(* happens to the connections, the channels and the relay.                 *)
THEOREM AcceptedAlwaysKept == Spec => []AcceptedKept
BY DeliveryInvariant, PTL DEF DeliveryInv

(* When a client has the Synced frame it has everything the flush read.    *)
THEOREM SyncedAlwaysComplete == Spec => []SyncedComplete
BY DeliveryInvariant, PTL DEF DeliveryInv, FlushOrdered

-----------------------------------------------------------------------------
(* The refinement: what each step of a handler, a writer or a client is to *)
(* the mailbox of MailboxSpec.                                             *)
LEMMA InitPromise == Init => Promise!Init
<1>1. ToSet(<<>>) = {}
  BY DEF ToSet
<1> QED
  BY <1>1 DEF Init, Promise!Init, Answer

(* Every step of the relay is a step of the promise, or none.              *)
LEMMA PromiseStep ==
  ASSUME DeliveryInv, [Next]_vars
  PROVE  [Promise!Next]_(Promise!vars)
<1> USE DEF DeliveryInv
<1> DEFINE answered == [e \in Env |-> Answer(e)]
<1>a. outcome' = outcome => answered' = answered
  BY DEF Answer
<1>1. ASSUME NEW e \in Env, SendLive(e)
      PROVE  Promise!Offer(e)
  <2>1. answered[e] = "none" /\ e \notin live
    BY <1>1 DEF SendLive, Ledger, Answer
  <2>2. live' = live \cup {e} /\ UNCHANGED <<queue, outcome, seen, acked>>
    BY <1>1 DEF SendLive, client
  <2> QED
    BY <1>a, <2>1, <2>2 DEF Promise!Offer
<1>2. ASSUME NEW e \in Env, SendStore(e)
      PROVE  Promise!Store(e)
  <2>1. answered[e] = "none"
    BY <1>2 DEF SendStore, Ledger, Answer
  <2>2. ToSet(queue)' = ToSet(queue) \cup {e}
    BY <1>2, StoreAppends
  <2>3. answered' = [answered EXCEPT ![e] = "accepted"]
    BY <1>2 DEF SendStore, Answer, Set, TypeOK
  <2>4. UNCHANGED <<live, seen, acked>>
    BY <1>2 DEF SendStore, client
  <2> QED
    BY <2>1, <2>2, <2>3, <2>4 DEF Promise!Store
<1>3. ASSUME NEW e \in Env, SendStoreFull(e) \/ SendStoreFails(e)
      PROVE  Promise!Skip(e)
  <2>1. answered[e] = "none" /\ (StoreMayFill \/ IoErrors)
    BY <1>3 DEF SendStoreFull, SendStoreFails, Ledger, Answer
  <2>2. answered' = [answered EXCEPT ![e] = IF e \in live THEN "accepted" ELSE "refused"]
    BY <1>3 DEF SendStoreFull, SendStoreFails, Answer, Set, TypeOK
  <2>3. UNCHANGED <<queue, live, seen, acked>>
    BY <1>3 DEF SendStoreFull, SendStoreFails, client
  <2> QED
    BY <2>1, <2>2, <2>3 DEF Promise!Skip
<1>4. ASSUME NEW s \in Socket, Write(s)
      PROVE  (\E e \in Env : Promise!Receive(e)) \/ UNCHANGED Promise!vars
  <2>1. UNCHANGED <<queue, live, outcome, acked>> /\ seen' = seen \cup ({Head(chan[s])} \ {Synced})
    BY <1>4 DEF Write, sends
  <2>2. Head(chan[s]) \in Env \cup {Synced} /\ Head(chan[s]) \in Known \cup {Synced}
    <3> DEFINE Frames == Env \cup {Synced}
    <3>1. chan[s] \in Seq(Frames) /\ chan[s] # <<>>
      BY <1>4 DEF Write, TypeOK
    <3> HIDE DEF Frames
    <3>2. Head(chan[s]) \in Frames /\ Head(chan[s]) \in ToSet(chan[s])
      BY <3>1, ToSetTail
    <3> QED
      BY <3>2 DEF Frames, Traceable
  <2>3. CASE Head(chan[s]) \in Env /\ Head(chan[s]) \in live \cup ToSet(queue)
    <3>1. Promise!Receive(Head(chan[s]))
      BY <1>a, <2>1, <2>3, NameAssumption DEF Promise!Receive
    <3> QED
      BY <2>3, <3>1
  <2>4. CASE Head(chan[s]) \in seen \cup {Synced}
    BY <1>a, <2>1, <2>4 DEF Promise!vars
  <2> QED
    BY <2>2, <2>3, <2>4 DEF Known
<1>5. ASSUME NEW s \in Socket, NEW e \in Env, Ack(s, e)
      PROVE  Promise!Ack(e)
  <2>1. ToSet(queue)' = ToSet(queue) \ {e}
    BY <1>5, AckRemoves
  <2>2. e \in seen /\ acked' = acked \cup {e} /\ UNCHANGED <<live, outcome, seen>>
    BY <1>5 DEF Ack, sends
  <2> QED
    BY <1>a, <2>1, <2>2 DEF Promise!Ack
<1>6. ASSUME UNCHANGED <<queue, live, outcome, seen, acked>>
      PROVE  UNCHANGED Promise!vars
  BY <1>6, <1>a DEF Promise!vars
<1>7. ASSUME NEW s \in Socket, ~Write(s),
             Hello(s) \/ HandlerStep(s) \/ WriteFails(s) \/ HangUp(s) \/ Leave(s)
      PROVE  UNCHANGED Promise!vars
  BY <1>6, <1>7, ReceiverSteps DEF SendsKept
<1>8. ASSUME NEW e \in Env, SendOffline(e) \/ SendLiveFails(e) \/ SendUnroute(e)
      PROVE  UNCHANGED Promise!vars
  BY <1>6, <1>8 DEF SendOffline, SendLiveFails, SendUnroute, client
<1>9. CASE Crash \/ UNCHANGED vars
  BY <1>6, <1>9 DEF Crash, vars, sends, client
<1> QED
  BY <1>1, <1>2, <1>3, <1>4, <1>5, <1>7, <1>8, <1>9 DEF Next, SendStep, Promise!Next

(* Handlers, channels, writers, broken connections and restarts implement  *)
(* the mailbox of MailboxSpec: one answer per envelope, what was accepted  *)
(* stays stored until acknowledged, and nothing reaches the receiver that  *)
(* was neither offered nor stored.                                         *)
THEOREM PromiseKept == Spec => MailboxPromise
<1>1. Spec => []DeliveryInv
  BY DeliveryInvariant
<1>2. DeliveryInv /\ [Next]_vars => [Promise!Next]_(Promise!vars)
  BY PromiseStep
<1> QED
  BY <1>1, <1>2, InitPromise, PTL DEF Spec, MailboxPromise, Promise!Spec
=============================================================================
