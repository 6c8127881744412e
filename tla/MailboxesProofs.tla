-------------------------- MODULE MailboxesProofs ---------------------------
(***************************************************************************)
(* Proofs about Mailboxes for any number of mailboxes, sockets and tokens: *)
(* type correctness, the exact slot counter, and the mailbox cap.          *)
(***************************************************************************)
EXTENDS Mailboxes, FiniteSetTheorems, TLAPS

(* A remainder is no more than what is divided.                            *)
LEMMA ModBound ==
  ASSUME NEW a \in Nat, NEW b \in Nat \ {0}
  PROVE  a % b \in Nat /\ a % b <= a
OBVIOUS

(* The rounded time of an activity is a time.                              *)
LEMMA ActivityType ==
  ASSUME TypeOK
  PROVE  now_activity_ms \in Nat
<1>1. now \in Nat
  BY BoundAssumption DEF TypeOK
<1> QED
  BY <1>1, ModBound, CapAssumption DEF now_activity_ms

(* Everything but the counter, action by action.                           *)
LEMMA TypeStep ==
  ASSUME TypeOK, [Next]_vars, mailbox_count' \in Nat
  PROVE  TypeOK'
<1> USE SetsAssumption DEF TypeOK, Begin, Goto, MarkDirty, registry, tasks, sockets, SocketPC
<1>1. ASSUME NEW h \in Socket, NEW m \in Mailbox, NEW o \in Owner, NEW t \in Token, HelloKnown(h, m, o, t)
      PROVE  TypeOK'
  <2>1. [owner |-> o, tokens |-> auth[m].tokens \cup {t}, last_active_ms |-> now_activity_ms]
          \in Entry
    BY <1>1, ActivityType DEF HelloKnown, Entry
  <2>2. auth' \in [Mailbox -> Entry \cup {None}]
    BY <1>1, <2>1 DEF HelloKnown
  <2> QED
    BY <1>1, <2>2 DEF HelloKnown
<1>2. ASSUME NEW h \in Socket, NEW m \in Mailbox, NEW o \in Owner, NEW t \in Token, HelloNew(h, m, o, t)
      PROVE  TypeOK'
  <2>1. [owner |-> o, tokens |-> {t}, last_active_ms |-> now_activity_ms] \in Entry
    BY ActivityType DEF Entry
  <2>2. auth' \in [Mailbox -> Entry \cup {None}]
    BY <1>2, <2>1 DEF HelloNew
  <2> QED
    BY <1>2, <2>2 DEF HelloNew
<1>3. ASSUME NEW h \in Socket, HelloCertOnly(h)
      PROVE  TypeOK'
  BY <1>3 DEF HelloCertOnly, HelloMark
<1>4. ASSUME NEW h \in Socket, HelloReceiver(h)
      PROVE  TypeOK'
  BY <1>4 DEF HelloReceiver, HelloMark
<1>5. ASSUME NEW h \in Socket, HelloOnline(h)
      PROVE  TypeOK'
  BY <1>5 DEF HelloOnline
<1>6. ASSUME NEW h \in Socket, NEW tokens \in SUBSET Token, SetDeliveryTokens(h, tokens)
      PROVE  TypeOK'
  <2>1. reg[h] \in Mailbox /\ auth[reg[h]] \in Entry
    BY <1>6 DEF SetDeliveryTokens
  <2>2. [auth[reg[h]] EXCEPT !.tokens = tokens] \in Entry
    BY <2>1 DEF Entry
  <2>3. auth' \in [Mailbox -> Entry \cup {None}]
    BY <1>6, <2>1, <2>2 DEF SetDeliveryTokens
  <2> QED
    BY <1>6, <2>3 DEF SetDeliveryTokens
<1>7. ASSUME NEW h \in Socket, Mark(h)
      PROVE  TypeOK'
  BY <1>7 DEF Mark
<1>8. ASSUME NEW h \in Socket, NEW m \in Mailbox, NEW t \in Token, SendAuthorize(h, m, t)
      PROVE  TypeOK'
  <2>1. Refreshed(auth[m]) \in Entry
    BY <1>8, ActivityType DEF SendAuthorize, Refreshed, Entry
  <2>2. auth' \in [Mailbox -> Entry \cup {None}]
    BY <1>8, <2>1 DEF SendAuthorize
  <2> QED
    BY <1>8, <2>2 DEF SendAuthorize
<1>9. ASSUME NEW h \in Socket, SendRateLimited(h)
      PROVE  TypeOK'
  BY <1>9 DEF SendRateLimited
<1>10. ASSUME NEW h \in Socket, SendLive(h)
      PROVE  TypeOK'
  BY <1>10 DEF SendLive
<1>11. ASSUME NEW h \in Socket, SendLiveFails(h)
      PROVE  TypeOK'
  BY <1>11 DEF SendLiveFails
<1>12. ASSUME NEW h \in Socket, SendUnroute(h)
      PROVE  TypeOK'
  BY <1>12 DEF SendUnroute
<1>13. ASSUME NEW h \in Socket, SendStoreFull(h)
      PROVE  TypeOK'
  BY <1>13 DEF SendStoreFull
<1>14. ASSUME NEW h \in Socket, SendEnqueue(h)
      PROVE  TypeOK'
  BY <1>14 DEF SendEnqueue
<1>15. ASSUME NEW h \in Socket, SendEnqueueFails(h)
      PROVE  TypeOK'
  BY <1>15 DEF SendEnqueueFails
<1>16. ASSUME NEW h \in Socket, RetireRemove(h)
      PROVE  TypeOK'
  BY <1>16 DEF RetireRemove
<1>17. ASSUME NEW h \in Socket, RetireCount(h)
      PROVE  TypeOK'
  BY <1>17 DEF RetireCount
<1>18. ASSUME NEW h \in Socket, RetirePurge(h)
      PROVE  TypeOK'
  BY <1>18 DEF RetirePurge
<1>19. ASSUME NEW h \in Socket, RetireOnline(h)
      PROVE  TypeOK'
  BY <1>19 DEF RetireOnline
<1>20. ASSUME NEW h \in Socket, RetireMark(h)
      PROVE  TypeOK'
  BY <1>20 DEF RetireMark
<1>21. ASSUME NEW h \in Socket, HangUp(h)
      PROVE  TypeOK'
  BY <1>21 DEF HangUp
<1>22. ASSUME NEW h \in Socket, CloseCheck(h)
      PROVE  TypeOK'
  BY <1>22 DEF CloseCheck
<1>23. ASSUME NEW h \in Socket, CloseUnroute(h)
      PROVE  TypeOK'
  BY <1>23 DEF CloseUnroute
<1>24. ASSUME NEW h \in Socket, Close(h)
      PROVE  TypeOK'
  BY <1>24 DEF Close
<1>25. CASE GcScan
  BY <1>25 DEF GcScan, Registered
<1>26. ASSUME NEW unreadable \in SUBSET Mailbox, GcFilter(unreadable)
      PROVE  TypeOK'
  BY <1>26 DEF GcFilter
<1>27. ASSUME NEW m \in Mailbox, GcRemove(m)
      PROVE  TypeOK'
  <2>1. CASE Collectable(m)
    <3>1. auth' \in [Mailbox -> Entry \cup {None}]
      BY <1>27, <2>1 DEF GcRemove
    <3>2. /\ gc' = [gc EXCEPT !.pc = "count", !.todo = @ \ {m}, !.rid = m]
          /\ UNCHANGED <<dirty, disk, online, queued, now, crashes, sockets, fl>>
      BY <1>27, <2>1 DEF GcRemove
    <3> QED
      BY <3>1, <3>2
  <2>2. CASE ~Collectable(m)
    BY <1>27, <2>2 DEF GcRemove
  <2> QED
    BY <2>1, <2>2
<1>28. CASE GcCount
  BY <1>28 DEF GcCount
<1>29. CASE GcMark
  BY <1>29 DEF GcMark
<1>30. CASE GcPurge
  BY <1>30 DEF GcPurge
<1>31. CASE GcDone
  BY <1>31 DEF GcDone, NoGc
<1>32. CASE FlushScan
  BY <1>32 DEF FlushScan, NoFlush, NoEntries
<1>33. ASSUME NEW m \in Mailbox, FlushTake(m)
      PROVE  TypeOK'
  BY <1>33 DEF FlushTake
<1>34. CASE FlushRead
  BY <1>34 DEF FlushRead
<1>35. CASE FlushWrite
  BY <1>35 DEF FlushWrite, NoFlush, NoEntries
<1>36. CASE FlushFails
  BY <1>36 DEF FlushFails, NoFlush, NoEntries
<1>37. ASSUME NEW m \in Mailbox, Drain(m)
      PROVE  TypeOK'
  BY <1>37 DEF Drain
<1>38. CASE Crash
  <2>1. \A m \in Mailbox : Loaded(disk[m]) \in Entry \cup {None}
    BY ActivityType DEF Loaded, Refreshed, Entry
  <2>2. crashes' \in 0 .. MaxCrashes
    BY <1>38, BoundAssumption DEF Crash
  <2> QED
    BY <1>38, <2>1, <2>2 DEF Crash, NoGc, NoFlush, NoEntries
<1>39. CASE Tick
  BY <1>39, BoundAssumption DEF Tick
<1>40. CASE UNCHANGED vars
  BY <1>40 DEF vars
<1> QED
  BY <1>1, <1>2, <1>3, <1>4, <1>5, <1>6, <1>7, <1>8, <1>9, <1>10, <1>11, <1>12, <1>13, <1>14, <1>15, <1>16, <1>17, <1>18, <1>19, <1>20, <1>21, <1>22, <1>23, <1>24, <1>25, <1>26, <1>27, <1>28, <1>29, <1>30, <1>31, <1>32, <1>33, <1>34, <1>35, <1>36, <1>37, <1>38, <1>39, <1>40
     DEF Next, SocketStep, Hello, Send, Retire, Disconnect, Gc, Flush

-----------------------------------------------------------------------------
(* The ways a step can move slots between the counter, the registry, the   *)
(* retiring sockets and the GC.                                            *)
Collecting == gc.pc = "count"
SlotsKept ==
  /\ Registered' = Registered /\ Releasing' = Releasing /\ Collecting' = Collecting
  /\ UNCHANGED mailbox_count
SlotTaken ==
  \E m \in Mailbox \ Registered :
    /\ Registered' = Registered \cup {m} /\ Releasing' = Releasing /\ Collecting' = Collecting
    /\ mailbox_count < MAX_MAILBOXES /\ mailbox_count' = mailbox_count + 1
SlotRetired ==
  \E m \in Registered, h \in Socket \ Releasing :
    /\ Registered' = Registered \ {m} /\ Releasing' = Releasing \cup {h}
    /\ Collecting' = Collecting /\ UNCHANGED mailbox_count
SlotReleased ==
  \E h \in Releasing :
    /\ Registered' = Registered /\ Releasing' = Releasing \ {h} /\ Collecting' = Collecting
    /\ mailbox_count' = mailbox_count - 1
SlotCollected ==
  \E m \in Registered :
    /\ Registered' = Registered \ {m} /\ Releasing' = Releasing
    /\ ~Collecting /\ Collecting' /\ UNCHANGED mailbox_count
SlotFreed ==
  /\ Registered' = Registered /\ Releasing' = Releasing
  /\ Collecting /\ ~Collecting' /\ mailbox_count' = mailbox_count - 1
SlotsRecounted ==
  /\ Releasing' = {} /\ ~Collecting' /\ mailbox_count' = Cardinality(Registered')
  /\ crashes' # crashes
SlotEffect ==
  \/ SlotsKept \/ SlotTaken \/ SlotRetired \/ SlotReleased
  \/ SlotCollected \/ SlotFreed \/ SlotsRecounted

(* Every step is one of those.                                             *)
LEMMA SlotStep ==
  ASSUME TypeOK, [Next]_vars
  PROVE  SlotEffect
<1> USE DEF Begin, Goto, MarkDirty, registry, tasks, sockets
<1>1. ASSUME NEW h \in Socket, NEW m \in Mailbox, NEW o \in Owner, NEW t \in Token, HelloKnown(h, m, o, t)
      PROVE  SlotsKept
  BY <1>1, NoneAssumption, ActivityType DEF HelloKnown, Entry, SlotsKept, Registered, Releasing, Collecting, TypeOK
<1>2. ASSUME NEW h \in Socket, HelloCertOnly(h)
      PROVE  SlotsKept
  BY <1>2 DEF HelloCertOnly, HelloMark, SlotsKept, Registered, Releasing, Collecting, TypeOK
<1>3. ASSUME NEW h \in Socket, HelloReceiver(h)
      PROVE  SlotsKept
  BY <1>3 DEF HelloReceiver, HelloMark, SlotsKept, Registered, Releasing, Collecting, TypeOK
<1>4. ASSUME NEW h \in Socket, HelloOnline(h)
      PROVE  SlotsKept
  BY <1>4 DEF HelloOnline, SlotsKept, Registered, Releasing, Collecting, TypeOK
<1>5. ASSUME NEW h \in Socket, NEW tokens \in SUBSET Token, SetDeliveryTokens(h, tokens)
      PROVE  SlotsKept
  BY <1>5, NoneAssumption DEF SetDeliveryTokens, Entry, SlotsKept, Registered, Releasing, Collecting, TypeOK
<1>6. ASSUME NEW h \in Socket, Mark(h)
      PROVE  SlotsKept
  BY <1>6 DEF Mark, SlotsKept, Registered, Releasing, Collecting, TypeOK
<1>7. ASSUME NEW h \in Socket, NEW m \in Mailbox, NEW t \in Token, SendAuthorize(h, m, t)
      PROVE  SlotsKept
  BY <1>7, NoneAssumption, ActivityType DEF SendAuthorize, Refreshed, Entry, SlotsKept, Registered, Releasing, Collecting, TypeOK
<1>8. ASSUME NEW h \in Socket, SendRateLimited(h)
      PROVE  SlotsKept
  BY <1>8 DEF SendRateLimited, SlotsKept, Registered, Releasing, Collecting, TypeOK
<1>9. ASSUME NEW h \in Socket, SendLive(h)
      PROVE  SlotsKept
  BY <1>9 DEF SendLive, SlotsKept, Registered, Releasing, Collecting, TypeOK
<1>10. ASSUME NEW h \in Socket, SendLiveFails(h)
      PROVE  SlotsKept
  BY <1>10 DEF SendLiveFails, SlotsKept, Registered, Releasing, Collecting, TypeOK
<1>11. ASSUME NEW h \in Socket, SendUnroute(h)
      PROVE  SlotsKept
  BY <1>11 DEF SendUnroute, SlotsKept, Registered, Releasing, Collecting, TypeOK
<1>12. ASSUME NEW h \in Socket, SendStoreFull(h)
      PROVE  SlotsKept
  BY <1>12 DEF SendStoreFull, SlotsKept, Registered, Releasing, Collecting, TypeOK
<1>13. ASSUME NEW h \in Socket, SendEnqueue(h)
      PROVE  SlotsKept
  BY <1>13 DEF SendEnqueue, SlotsKept, Registered, Releasing, Collecting, TypeOK
<1>14. ASSUME NEW h \in Socket, SendEnqueueFails(h)
      PROVE  SlotsKept
  BY <1>14 DEF SendEnqueueFails, SlotsKept, Registered, Releasing, Collecting, TypeOK
<1>15. ASSUME NEW h \in Socket, RetirePurge(h)
      PROVE  SlotsKept
  BY <1>15 DEF RetirePurge, SlotsKept, Registered, Releasing, Collecting, TypeOK
<1>16. ASSUME NEW h \in Socket, RetireOnline(h)
      PROVE  SlotsKept
  BY <1>16 DEF RetireOnline, SlotsKept, Registered, Releasing, Collecting, TypeOK
<1>17. ASSUME NEW h \in Socket, RetireMark(h)
      PROVE  SlotsKept
  BY <1>17 DEF RetireMark, SlotsKept, Registered, Releasing, Collecting, TypeOK
<1>18. ASSUME NEW h \in Socket, HangUp(h)
      PROVE  SlotsKept
  BY <1>18 DEF HangUp, SlotsKept, Registered, Releasing, Collecting, TypeOK
<1>19. ASSUME NEW h \in Socket, CloseCheck(h)
      PROVE  SlotsKept
  BY <1>19 DEF CloseCheck, SlotsKept, Registered, Releasing, Collecting, TypeOK
<1>20. ASSUME NEW h \in Socket, CloseUnroute(h)
      PROVE  SlotsKept
  BY <1>20 DEF CloseUnroute, SlotsKept, Registered, Releasing, Collecting, TypeOK
<1>21. ASSUME NEW h \in Socket, Close(h)
      PROVE  SlotsKept
  BY <1>21 DEF Close, SlotsKept, Registered, Releasing, Collecting, TypeOK
<1>22. ASSUME GcScan
      PROVE  SlotsKept
  BY <1>22 DEF GcScan, SlotsKept, Registered, Releasing, Collecting, TypeOK
<1>23. ASSUME NEW unreadable \in SUBSET Mailbox, GcFilter(unreadable)
      PROVE  SlotsKept
  BY <1>23 DEF GcFilter, SlotsKept, Registered, Releasing, Collecting, TypeOK
<1>24. ASSUME GcMark
      PROVE  SlotsKept
  BY <1>24 DEF GcMark, SlotsKept, Registered, Releasing, Collecting, TypeOK
<1>25. ASSUME GcPurge
      PROVE  SlotsKept
  BY <1>25 DEF GcPurge, SlotsKept, Registered, Releasing, Collecting, TypeOK
<1>26. ASSUME GcDone
      PROVE  SlotsKept
  BY <1>26 DEF GcDone, NoGc, SlotsKept, Registered, Releasing, Collecting, TypeOK
<1>27. ASSUME FlushScan
      PROVE  SlotsKept
  BY <1>27 DEF FlushScan, SlotsKept, Registered, Releasing, Collecting, TypeOK
<1>28. ASSUME NEW m \in Mailbox, FlushTake(m)
      PROVE  SlotsKept
  BY <1>28 DEF FlushTake, SlotsKept, Registered, Releasing, Collecting, TypeOK
<1>29. ASSUME FlushRead
      PROVE  SlotsKept
  BY <1>29 DEF FlushRead, SlotsKept, Registered, Releasing, Collecting, TypeOK
<1>30. ASSUME FlushWrite
      PROVE  SlotsKept
  BY <1>30 DEF FlushWrite, SlotsKept, Registered, Releasing, Collecting, TypeOK
<1>31. ASSUME FlushFails
      PROVE  SlotsKept
  BY <1>31 DEF FlushFails, SlotsKept, Registered, Releasing, Collecting, TypeOK
<1>32. ASSUME NEW m \in Mailbox, Drain(m)
      PROVE  SlotsKept
  BY <1>32 DEF Drain, SlotsKept, Registered, Releasing, Collecting, TypeOK
<1>33. ASSUME Tick
      PROVE  SlotsKept
  BY <1>33 DEF Tick, SlotsKept, Registered, Releasing, Collecting, TypeOK
<1>34. ASSUME UNCHANGED vars
      PROVE  SlotsKept
  BY <1>34 DEF vars, SlotsKept, Registered, Releasing, Collecting, TypeOK
<1>35. ASSUME NEW h \in Socket, NEW m \in Mailbox, NEW o \in Owner, NEW t \in Token,
             HelloNew(h, m, o, t)
      PROVE  SlotTaken
  <2>1. [owner |-> o, tokens |-> {t}, last_active_ms |-> now_activity_ms] # None
    BY ActivityType, NoneAssumption DEF Entry
  <2>2. m \notin Registered /\ Registered' = Registered \cup {m}
    BY <1>35, <2>1 DEF HelloNew, Registered, TypeOK
  <2>3. Releasing' = Releasing /\ Collecting' = Collecting
    BY <1>35 DEF HelloNew, Releasing, Collecting, TypeOK
  <2> QED
    BY <1>35, <2>2, <2>3 DEF HelloNew, reserve_mailbox_slot, SlotTaken
<1>36. ASSUME NEW h \in Socket, RetireRemove(h)
      PROVE  SlotsKept \/ SlotRetired
  <2>1. reg[h] \in Mailbox
    BY <1>36 DEF RetireRemove, TypeOK
  <2>2. CASE auth[reg[h]] = None
    BY <1>36, <2>1, <2>2 DEF RetireRemove, SlotsKept, Registered, Releasing, Collecting, TypeOK
  <2>3. CASE auth[reg[h]] # None
    <3>1. reg[h] \in Registered /\ Registered' = Registered \ {reg[h]}
      BY <1>36, <2>1, <2>3 DEF RetireRemove, Registered, TypeOK
    <3>2. h \notin Releasing /\ Releasing' = Releasing \cup {h} /\ Collecting' = Collecting
      BY <1>36, <2>3 DEF RetireRemove, Releasing, Collecting, TypeOK
    <3> QED
      BY <1>36, <3>1, <3>2 DEF RetireRemove, SlotRetired
  <2> QED
    BY <2>2, <2>3
<1>37. ASSUME NEW h \in Socket, RetireCount(h)
      PROVE  SlotReleased
  <2>1. h \in Releasing /\ Releasing' = Releasing \ {h}
    BY <1>37 DEF RetireCount, Releasing, TypeOK
  <2> QED
    BY <1>37, <2>1 DEF RetireCount, release_mailbox_slot, SlotReleased, Registered, Collecting
<1>38. ASSUME NEW m \in Mailbox, GcRemove(m)
      PROVE  SlotsKept \/ SlotCollected
  <2>1. CASE Collectable(m)
    <3>1. m \in Registered /\ Registered' = Registered \ {m}
      BY <1>38, <2>1 DEF GcRemove, Collectable, Registered, TypeOK
    <3>2. ~Collecting /\ Collecting' /\ Releasing' = Releasing
      BY <1>38, <2>1 DEF GcRemove, Collecting, Releasing, TypeOK
    <3> QED
      BY <1>38, <3>1, <3>2 DEF GcRemove, SlotCollected
  <2>2. CASE ~Collectable(m)
    BY <1>38, <2>2 DEF GcRemove, SlotsKept, Registered, Releasing, Collecting, TypeOK
  <2> QED
    BY <2>1, <2>2
<1>39. ASSUME GcCount
      PROVE  SlotFreed
  BY <1>39 DEF GcCount, release_mailbox_slot, SlotFreed, Registered, Releasing, Collecting, TypeOK
<1>40. ASSUME Crash
      PROVE  SlotsRecounted
  <2>1. \A m \in Mailbox : Loaded(disk[m]) # None <=> disk[m] # None
    BY ActivityType, NoneAssumption DEF Loaded, Refreshed, Entry, TypeOK
  <2>2. Registered' = {m \in Mailbox : disk[m] # None}
    BY <1>40, <2>1 DEF Crash, Registered
  <2>3. Releasing' = {} /\ ~Collecting' /\ crashes' # crashes
    BY <1>40 DEF Crash, NoGc, Releasing, Collecting, TypeOK
  <2> QED
    BY <1>40, <2>2, <2>3 DEF Crash, SlotsRecounted
<1> QED
  BY <1>1, <1>2, <1>3, <1>4, <1>5, <1>6, <1>7, <1>8, <1>9, <1>10, <1>11, <1>12, <1>13, <1>14, <1>15, <1>16, <1>17, <1>18, <1>19, <1>20, <1>21, <1>22, <1>23, <1>24, <1>25, <1>26, <1>27, <1>28, <1>29, <1>30, <1>31, <1>32, <1>33, <1>34, <1>35, <1>36, <1>37, <1>38, <1>39, <1>40
     DEF SlotEffect, Next, SocketStep, Hello, Send, Retire, Disconnect, Gc, Flush

(* The sets that are counted are finite.                                   *)
LEMMA SlotSetsFinite ==
  /\ IsFiniteSet(Registered) /\ Cardinality(Registered) \in Nat
  /\ IsFiniteSet(Releasing) /\ Cardinality(Releasing) \in Nat
BY SetsAssumption, FS_Subset, FS_CardinalityType DEF Registered, Releasing

(* The same in the next state.                                             *)
LEMMA SlotSetsFiniteNext ==
  /\ IsFiniteSet(Registered') /\ Cardinality(Registered') \in Nat
  /\ IsFiniteSet(Releasing') /\ Cardinality(Releasing') \in Nat
BY SetsAssumption, FS_Subset, FS_CardinalityType DEF Registered, Releasing

(* Each move keeps the counter exact, and only a registration enlarges the *)
(* registry while the process runs, within the cap.                        *)
LEMMA CountStep ==
  ASSUME TypeOK, CountExact, [Next]_vars
  PROVE  /\ CountExact'
         /\ mailbox_count' \in Nat
         /\ \/ Registered' \subseteq Registered
            \/ Cardinality(Registered') <= MAX_MAILBOXES
            \/ crashes' # crashes
<1> DEFINE g == IF Collecting THEN 1 ELSE 0
<1> USE SlotSetsFinite, SlotSetsFiniteNext
<1>1. mailbox_count = Cardinality(Registered) + Cardinality(Releasing) + g
  BY DEF CountExact, Collecting
<1>2. g \in {0, 1} /\ g' \in {0, 1} /\ mailbox_count \in Nat /\ MAX_MAILBOXES \in Nat
  BY CapAssumption DEF TypeOK
<1> SUFFICES /\ mailbox_count' = Cardinality(Registered') + Cardinality(Releasing') + g'
             /\ \/ Registered' \subseteq Registered
                \/ Cardinality(Registered') <= MAX_MAILBOXES
                \/ crashes' # crashes
  BY <1>2 DEF CountExact, Collecting
<1>3. CASE SlotsKept
  BY <1>1, <1>3 DEF SlotsKept
<1>4. CASE SlotTaken
  <2>1. PICK m \in Mailbox \ Registered :
          /\ Registered' = Registered \cup {m} /\ Releasing' = Releasing
          /\ Collecting' = Collecting
          /\ mailbox_count < MAX_MAILBOXES /\ mailbox_count' = mailbox_count + 1
    BY <1>4 DEF SlotTaken
  <2>2. Cardinality(Registered') = Cardinality(Registered) + 1
    BY <2>1, FS_AddElement
  <2>3. g' = g
    BY <2>1
  <2> HIDE DEF g
  <2> QED
    BY <1>1, <1>2, <2>1, <2>2, <2>3
<1>5. CASE SlotRetired
  <2>1. PICK m \in Registered, h \in Socket \ Releasing :
          /\ Registered' = Registered \ {m} /\ Releasing' = Releasing \cup {h}
          /\ Collecting' = Collecting /\ UNCHANGED mailbox_count
    BY <1>5 DEF SlotRetired
  <2>2. Cardinality(Registered') = Cardinality(Registered) - 1
    BY <2>1, FS_RemoveElement
  <2>3. Cardinality(Releasing') = Cardinality(Releasing) + 1
    BY <2>1, FS_AddElement
  <2>4. g' = g
    BY <2>1
  <2> HIDE DEF g
  <2> QED
    BY <1>1, <1>2, <2>1, <2>2, <2>3, <2>4
<1>6. CASE SlotReleased
  <2>1. PICK h \in Releasing :
          /\ Registered' = Registered /\ Releasing' = Releasing \ {h}
          /\ Collecting' = Collecting /\ mailbox_count' = mailbox_count - 1
    BY <1>6 DEF SlotReleased
  <2>2. Cardinality(Releasing') = Cardinality(Releasing) - 1
    BY <2>1, FS_RemoveElement
  <2>3. g' = g
    BY <2>1
  <2> HIDE DEF g
  <2> QED
    BY <1>1, <1>2, <2>1, <2>2, <2>3
<1>7. CASE SlotCollected
  <2>1. PICK m \in Registered :
          /\ Registered' = Registered \ {m} /\ Releasing' = Releasing
          /\ ~Collecting /\ Collecting' /\ UNCHANGED mailbox_count
    BY <1>7 DEF SlotCollected
  <2>2. Cardinality(Registered') = Cardinality(Registered) - 1
    BY <2>1, FS_RemoveElement
  <2>3. g = 0 /\ g' = 1
    BY <2>1
  <2> HIDE DEF g
  <2> QED
    BY <1>1, <1>2, <2>1, <2>2, <2>3
<1>8. CASE SlotFreed
  <2>1. g = 1 /\ g' = 0
    BY <1>8 DEF SlotFreed
  <2> HIDE DEF g
  <2> QED
    BY <1>1, <1>2, <1>8, <2>1 DEF SlotFreed
<1>9. CASE SlotsRecounted
  <2>1. g' = 0 /\ Cardinality(Releasing') = 0
    BY <1>9, FS_EmptySet DEF SlotsRecounted
  <2> HIDE DEF g
  <2> QED
    BY <1>9, <2>1 DEF SlotsRecounted
<1> QED
  BY SlotStep, <1>3, <1>4, <1>5, <1>6, <1>7, <1>8, <1>9 DEF SlotEffect

(* The invariant holds of an empty registry.                               *)
LEMMA InitInv ==
  ASSUME Init
  PROVE  TypeOK /\ CountExact
<1>1. TypeOK
  BY BoundAssumption, CapAssumption DEF Init, TypeOK, NoEntries, NoGc, NoFlush, SocketPC
<1>2. Registered = {} /\ Releasing = {} /\ gc.pc = "idle" /\ mailbox_count = 0
  BY DEF Init, NoEntries, NoGc, Registered, Releasing
<1>3. CountExact
  BY <1>2, FS_EmptySet DEF CountExact
<1> QED
  BY <1>1, <1>3

(* So it holds at every moment.                                            *)
LEMMA Invariance == Spec => [](TypeOK /\ CountExact)
<1>1. Init => TypeOK /\ CountExact
  BY InitInv
<1>2. TypeOK /\ CountExact /\ [Next]_vars => (TypeOK /\ CountExact)'
  BY TypeStep, CountStep
<1> QED
  BY <1>1, <1>2, PTL DEF Spec

-----------------------------------------------------------------------------
(* Type correctness; in particular mailbox_count never wraps below zero.   *)
THEOREM TypeCorrect == Spec => []TypeOK
BY Invariance, PTL

(* The slot counter is exact under any interleaving of registrations,      *)
(* retirements, collections and restarts.                                  *)
THEOREM CountAlwaysExact == Spec => []CountExact
BY Invariance, PTL

(* No registration takes the relay past MAX_MAILBOXES.                     *)
THEOREM CreationsWithinCap == Spec => CreationWithinCap
<1>1. TypeOK /\ CountExact /\ [Next]_vars
        => [(crashes' = crashes /\ \E m \in Mailbox : auth[m] = None /\ auth'[m] # None)
              => Cardinality(Registered') <= MAX_MAILBOXES]_vars
  BY CountStep DEF Registered
<1> QED
  BY <1>1, Invariance, PTL DEF Spec, CreationWithinCap

-----------------------------------------------------------------------------
(* What every step outside the write-back and a restart does for it: it    *)
(* leaves the table and the flush alone, and whoever changes what a        *)
(* mailbox is, or stops being about to mark it, is about to mark it or     *)
(* has marked it.                                                          *)
Announced ==
  /\ disk' = disk /\ fl' = fl /\ dirty \subseteq dirty'
  /\ \A m \in Mailbox :
       /\ Identity(auth[m])' = Identity(auth[m]) \/ Marking(m)'
       /\ Marking(m) => Marking(m)' \/ m \in dirty'

MarkingSteps ==
  {"hello_mark", "mark", "retire_count", "retire_purge", "retire_online", "retire_mark"}

(* A socket that leaves the steps before its mark has made the mark.       *)
LEMMA SocketAnnounces ==
  ASSUME TypeOK, NEW h \in Socket, gc' = gc, dirty \subseteq dirty',
         pc' = [pc EXCEPT ![h] = pc'[h]], dst' = [dst EXCEPT ![h] = dst'[h]],
         pc[h] \in MarkingSteps =>
           dst[h] \in dirty' \/ (pc'[h] \in MarkingSteps /\ dst'[h] = dst[h])
  PROVE  \A m \in Mailbox : Marking(m) => Marking(m)' \/ m \in dirty'
<1> SUFFICES ASSUME NEW m \in Mailbox, Marking(m)
             PROVE  Marking(m)' \/ m \in dirty'
  OBVIOUS
<1>1. pc \in [Socket -> SocketPC] /\ dst \in [Socket -> Mailbox \cup {None}]
  BY DEF TypeOK
<1>2. CASE gc.rid = m /\ gc.pc \in {"count", "mark"}
  BY <1>2 DEF Marking
<1>3. CASE \E g \in Socket : dst[g] = m /\ pc[g] \in MarkingSteps
  <2>1. PICK g \in Socket : dst[g] = m /\ pc[g] \in MarkingSteps
    BY <1>3
  <2>2. CASE g # h
    <3>1. pc'[g] = pc[g] /\ dst'[g] = dst[g]
      BY <1>1, <2>2
    <3> QED
      BY <2>1, <3>1 DEF Marking, MarkingSteps
  <2>3. CASE g = h
    BY <2>1, <2>3 DEF Marking, MarkingSteps
  <2> QED
    BY <2>2, <2>3
<1> QED
  BY <1>2, <1>3 DEF Marking, MarkingSteps

(* Every step of a frame handler announces what it does to its mailbox.    *)
LEMMA HandlerAnnounces ==
  ASSUME TypeOK, NEW h \in Socket, SocketStep(h)
  PROVE  Announced
<1>0. /\ pc \in [Socket -> SocketPC] /\ dst \in [Socket -> Mailbox \cup {None}]
      /\ reg \in [Socket -> Mailbox \cup {None}] /\ auth \in [Mailbox -> Entry \cup {None}]
      /\ (pc[h] \notin {"idle", "closing", "close_unroute", "close"} => dst[h] \in Mailbox)
  BY DEF TypeOK
<1> USE DEF Begin, Goto, MarkDirty, registry, tasks, sockets
<1>1. ASSUME NEW m \in Mailbox, NEW o \in Owner, NEW t \in Token, HelloKnown(h, m, o, t) \/ HelloNew(h, m, o, t)
      PROVE  Announced
  <2>1. /\ pc[h] = "idle" /\ pc' = [pc EXCEPT ![h] = "hello_mark"] /\ dst' = [dst EXCEPT ![h] = m]
        /\ UNCHANGED <<disk, fl, dirty, gc>>
        /\ \A n \in Mailbox \ {m} : auth'[n] = auth[n]
    BY <1>0, <1>1 DEF HelloKnown, HelloNew
  <2>2. pc'[h] = "hello_mark" /\ dst'[h] = m
    BY <1>0, <2>1
  <2>3. Marking(m)'
    BY <2>2 DEF Marking
  <2>4. \A n \in Mailbox : Marking(n) => Marking(n)' \/ n \in dirty'
    BY <2>1, <2>2, SocketAnnounces DEF MarkingSteps
  <2> QED
    BY <2>1, <2>3, <2>4 DEF Announced, Identity
<1>2. ASSUME NEW tokens \in SUBSET Token, SetDeliveryTokens(h, tokens)
      PROVE  Announced
  <2>1. /\ pc[h] = "idle" /\ pc' = [pc EXCEPT ![h] = "mark"] /\ dst' = [dst EXCEPT ![h] = reg[h]]
        /\ UNCHANGED <<disk, fl, dirty, gc>> /\ reg[h] \in Mailbox
        /\ \A n \in Mailbox \ {reg[h]} : auth'[n] = auth[n]
    BY <1>0, <1>2 DEF SetDeliveryTokens
  <2>2. pc'[h] = "mark" /\ dst'[h] = reg[h]
    BY <1>0, <2>1
  <2>4. \A n \in Mailbox : Marking(n) => Marking(n)' \/ n \in dirty'
    BY <2>1, <2>2, SocketAnnounces DEF MarkingSteps
  <2>5. \A n \in Mailbox : Identity(auth[n])' = Identity(auth[n]) \/ Marking(n)'
    <3> TAKE n \in Mailbox
    <3>1. CASE n = reg[h]
      BY <2>2, <3>1 DEF Marking
    <3>2. CASE n # reg[h]
      BY <2>1, <3>2 DEF Identity
    <3> QED
      BY <3>1, <3>2
  <2> QED
    BY <2>1, <2>4, <2>5 DEF Announced
<1>3. ASSUME RetireRemove(h)
      PROVE  Announced
  <2>1. PICK to \in {"retire_count", "retire_purge"} :
          /\ pc[h] = "idle" /\ pc' = [pc EXCEPT ![h] = to] /\ dst' = [dst EXCEPT ![h] = reg[h]]
          /\ UNCHANGED <<disk, fl, dirty, gc>> /\ reg[h] \in Mailbox
          /\ \A n \in Mailbox \ {reg[h]} : auth'[n] = auth[n]
    BY <1>0, <1>3 DEF RetireRemove
  <2>2. pc'[h] = to /\ dst'[h] = reg[h]
    BY <1>0, <2>1
  <2>4. \A n \in Mailbox : Marking(n) => Marking(n)' \/ n \in dirty'
    BY <2>1, <2>2, SocketAnnounces DEF MarkingSteps
  <2>5. \A n \in Mailbox : Identity(auth[n])' = Identity(auth[n]) \/ Marking(n)'
    <3> TAKE n \in Mailbox
    <3>1. CASE n = reg[h]
      BY <2>2, <3>1 DEF Marking
    <3>2. CASE n # reg[h]
      BY <2>1, <3>2 DEF Identity
    <3> QED
      BY <3>1, <3>2
  <2> QED
    BY <2>1, <2>4, <2>5 DEF Announced
<1>4. ASSUME NEW m \in Mailbox, NEW t \in Token, SendAuthorize(h, m, t)
      PROVE  Announced
  <2>1. /\ pc[h] = "idle" /\ pc' = [pc EXCEPT ![h] = "send_route"] /\ dst' = [dst EXCEPT ![h] = m]
        /\ UNCHANGED <<disk, fl, dirty, gc>> /\ auth[m] \in Entry
        /\ auth' = [auth EXCEPT ![m] = Refreshed(@)]
    BY <1>0, <1>4 DEF SendAuthorize
  <2>2. pc'[h] = "send_route" /\ dst'[h] = m
    BY <1>0, <2>1
  <2>3. Identity(Refreshed(auth[m])) = Identity(auth[m])
    <3>1. PICK a \in Nat : a = now_activity_ms
      BY ActivityType
    <3>2. Refreshed(auth[m]) = [auth[m] EXCEPT !.last_active_ms = a]
      BY <3>1 DEF Refreshed
    <3>3. Refreshed(auth[m]) \in Entry /\ Refreshed(auth[m]).owner = auth[m].owner
          /\ Refreshed(auth[m]).tokens = auth[m].tokens
      BY <2>1, <3>2 DEF Entry
    <3> QED
      BY <2>1, <3>3, NoneAssumption DEF Identity
  <2>4. \A n \in Mailbox : Marking(n) => Marking(n)' \/ n \in dirty'
    BY <2>1, <2>2, SocketAnnounces DEF MarkingSteps
  <2>5. \A n \in Mailbox : Identity(auth'[n]) = Identity(auth[n])
    BY <1>0, <2>1, <2>3
  <2> QED
    BY <2>1, <2>4, <2>5 DEF Announced, Identity
<1>5. CASE HelloCertOnly(h) \/ HelloReceiver(h) \/ Mark(h) \/ RetireMark(h)
  <2>1. /\ pc' = [pc EXCEPT ![h] = pc'[h]] /\ dst' = [dst EXCEPT ![h] = dst'[h]]
        /\ UNCHANGED <<disk, fl, gc, auth>> /\ dirty' = dirty \cup {dst[h]}
    BY <1>0, <1>5 DEF HelloCertOnly, HelloReceiver, HelloMark, Mark, RetireMark
  <2>4. \A n \in Mailbox : Marking(n) => Marking(n)' \/ n \in dirty'
    BY <2>1, SocketAnnounces
  <2> QED
    BY <2>1, <2>4 DEF Announced, Identity
<1>6. CASE \/ HelloOnline(h) \/ SendRateLimited(h) \/ SendLive(h) \/ SendLiveFails(h) \/ SendUnroute(h)
           \/ SendStoreFull(h) \/ SendEnqueue(h) \/ SendEnqueueFails(h) \/ Disconnect(h)
           \/ RetireCount(h) \/ RetirePurge(h) \/ RetireOnline(h)
  <2>1. /\ pc' = [pc EXCEPT ![h] = pc'[h]] /\ dst' = [dst EXCEPT ![h] = dst'[h]]
        /\ UNCHANGED <<disk, fl, gc, auth, dirty>>
        /\ (pc[h] \in MarkingSteps => pc'[h] \in MarkingSteps /\ dst'[h] = dst[h])
    BY <1>0, <1>6 DEF HelloOnline, SendRateLimited, SendLive, SendLiveFails, SendUnroute, SendStoreFull,
       SendEnqueue, SendEnqueueFails, Disconnect, HangUp, CloseCheck, CloseUnroute, Close,
       RetireCount, RetirePurge, RetireOnline, MarkingSteps
  <2>4. \A n \in Mailbox : Marking(n) => Marking(n)' \/ n \in dirty'
    BY <2>1, SocketAnnounces
  <2> QED
    BY <2>1, <2>4 DEF Announced, Identity
<1> QED
  BY <1>1, <1>2, <1>3, <1>4, <1>5, <1>6 DEF SocketStep, Hello, Send, Retire

(* So does every step of the GC.                                           *)
LEMMA GcAnnounces ==
  ASSUME TypeOK, Gc
  PROVE  Announced
<1>0. /\ auth \in [Mailbox -> Entry \cup {None}] /\ gc.rid \in Mailbox \cup {None}
      /\ gc \in [pc : {"idle", "filter", "next", "count", "mark", "purge"}, now : Nat,
                 todo : SUBSET Mailbox, rid : Mailbox \cup {None}]
  BY DEF TypeOK
<1> USE DEF registry, sockets
<1>1. ASSUME NEW m \in Mailbox, GcRemove(m), Collectable(m)
      PROVE  Announced
  <2>1. /\ gc.pc = "next" /\ gc' = [gc EXCEPT !.pc = "count", !.todo = @ \ {m}, !.rid = m]
        /\ UNCHANGED <<disk, fl, dirty, pc, dst>>
        /\ \A n \in Mailbox \ {m} : auth'[n] = auth[n]
    BY <1>0, <1>1 DEF GcRemove
  <2>2. gc'.pc = "count" /\ gc'.rid = m
    BY <1>0, <2>1
  <2>3. Marking(m)'
    BY <2>2 DEF Marking
  <2>4. \A n \in Mailbox : Marking(n) => Marking(n)'
    BY <2>1 DEF Marking
  <2> QED
    BY <2>1, <2>3, <2>4 DEF Announced, Identity
<1>2. ASSUME NEW m \in Mailbox, GcRemove(m), ~Collectable(m)
      PROVE  Announced
  <2>1. gc.pc = "next" /\ UNCHANGED <<auth, disk, fl, dirty, pc, dst>>
    BY <1>2 DEF GcRemove
  <2> QED
    BY <2>1 DEF Announced, Identity, Marking
<1>3. CASE GcMark
  <2>1. gc.pc = "mark" /\ dirty' = dirty \cup {gc.rid} /\ UNCHANGED <<auth, disk, fl, pc, dst>>
    BY <1>3 DEF GcMark, MarkDirty
  <2> QED
    BY <2>1 DEF Announced, Identity, Marking
<1>4. CASE GcCount
  <2>1. gc.pc = "count" /\ gc' = [gc EXCEPT !.pc = "mark"] /\ UNCHANGED <<auth, disk, fl, dirty, pc, dst>>
    BY <1>4 DEF GcCount
  <2>2. gc'.pc = "mark" /\ gc'.rid = gc.rid
    BY <1>0, <2>1
  <2> QED
    BY <2>1, <2>2 DEF Announced, Identity, Marking
<1>5. CASE GcScan \/ GcPurge \/ GcDone \/ \E unreadable \in SUBSET Mailbox : GcFilter(unreadable)
  <2>1. gc.pc \notin {"count", "mark"} /\ UNCHANGED <<auth, disk, fl, dirty, pc, dst>>
    BY <1>5 DEF GcScan, GcPurge, GcDone, GcFilter
  <2> QED
    BY <2>1 DEF Announced, Identity, Marking
<1> QED
  BY <1>1, <1>2, <1>3, <1>4, <1>5 DEF Gc

(* What is announced stays covered.                                        *)
LEMMA AnnouncedCovers ==
  ASSUME IdentityCovered, Announced
  PROVE  IdentityCovered'
<1> SUFFICES ASSUME NEW m \in Mailbox
             PROVE  Covered(m)'
  BY DEF IdentityCovered
<1>1. Covered(m)
  BY DEF IdentityCovered
<1>2. /\ disk' = disk /\ fl' = fl /\ dirty \subseteq dirty'
      /\ Identity(auth[m])' = Identity(auth[m]) \/ Marking(m)'
      /\ Marking(m) => Marking(m)' \/ m \in dirty'
  BY DEF Announced
<1>3. Identity(disk[m])' = Identity(disk[m]) /\ Identity(fl.value[m])' = Identity(fl.value[m])
  BY <1>2 DEF Identity
<1> QED
  BY <1>1, <1>2, <1>3 DEF Covered

(* Between two flushes there is no batch.                                  *)
FlushIdle == fl.pc = "idle" => fl.batch = {}

(* The write-back covers what it takes off the dirty set until the table   *)
(* has it, provided its transaction does not fail.                         *)
LEMMA FlushCovers ==
  ASSUME TypeOK, FlushIdle, IdentityCovered, Flush, ~IoErrors
  PROVE  IdentityCovered'
<1>0. /\ fl \in [pc : {"idle", "take", "read"}, keys : SUBSET Mailbox, rid : Mailbox \cup {None},
                 batch : SUBSET Mailbox, value : [Mailbox -> Entry \cup {None}]]
      /\ (fl.pc = "read" => fl.rid \in Mailbox) /\ disk \in [Mailbox -> Entry \cup {None}]
  BY DEF TypeOK
<1> USE DEF registry, sockets
<1> SUFFICES ASSUME NEW m \in Mailbox
             PROVE  Covered(m)'
  BY DEF IdentityCovered
<1>1. Covered(m)
  BY DEF IdentityCovered
<1>2. CASE FlushScan
  <2>1. fl.pc = "idle" /\ fl'.batch = {} /\ UNCHANGED <<auth, disk, dirty, pc, dst, gc>>
    BY <1>2 DEF FlushScan, NoFlush
  <2>2. m \notin fl.batch
    BY <2>1 DEF FlushIdle
  <2> QED
    BY <1>1, <2>1, <2>2 DEF Covered, Marking, Identity
<1>3. ASSUME NEW n \in Mailbox, FlushTake(n)
      PROVE  Covered(m)'
  <2>1. /\ fl.pc = "take" /\ dirty' = dirty \ {n} /\ UNCHANGED <<auth, disk, pc, dst, gc>>
        /\ fl' = [fl EXCEPT !.pc = "read", !.keys = @ \ {n}, !.rid = n]
    BY <1>3 DEF FlushTake
  <2>2. fl'.pc = "read" /\ fl'.rid = n /\ fl'.batch = fl.batch /\ fl'.value = fl.value
    BY <1>0, <2>1
  <2> QED
    BY <1>1, <2>1, <2>2 DEF Covered, Marking, Identity
<1>4. CASE FlushRead
  <2>1. PICK n : n = fl.rid
    OBVIOUS
  <2>2. /\ fl.pc = "read" /\ n \in Mailbox /\ UNCHANGED <<auth, disk, dirty, pc, dst, gc>>
        /\ fl' = [fl EXCEPT !.pc = "take", !.rid = None, !.batch = @ \cup {n}, !.value[n] = auth[n]]
    BY <1>0, <1>4, <2>1 DEF FlushRead
  <2>3. fl'.batch = fl.batch \cup {n} /\ fl'.value = [fl.value EXCEPT ![n] = auth[n]]
    BY <1>0, <2>2
  <2>4. CASE m = n
    <3>1. m \in fl'.batch /\ fl'.value[m] = auth'[m]
      BY <1>0, <2>2, <2>3, <2>4
    <3> QED
      BY <3>1 DEF Covered, Identity
  <2>5. CASE m # n
    <3>1. (m \in fl'.batch <=> m \in fl.batch) /\ fl'.value[m] = fl.value[m]
      BY <1>0, <2>3, <2>5
    <3>2. Marking(m)' <=> Marking(m)
      BY <2>2 DEF Marking
    <3> QED
      BY <1>1, <2>1, <2>2, <2>5, <3>1, <3>2 DEF Covered, Identity
  <2> QED
    BY <2>4, <2>5
<1>5. CASE FlushWrite
  <2>1. /\ fl.pc = "take" /\ fl'.batch = {} /\ UNCHANGED <<auth, dirty, pc, dst, gc>>
        /\ disk'[m] = IF m \in fl.batch THEN fl.value[m] ELSE disk[m]
    BY <1>5 DEF FlushWrite, NoFlush
  <2>2. Marking(m)' <=> Marking(m)
    BY <2>1 DEF Marking
  <2>3. Identity(auth[m])' = Identity(auth[m])
    BY <2>1 DEF Identity
  <2>4. Identity(disk[m])' = IF m \in fl.batch THEN Identity(fl.value[m]) ELSE Identity(disk[m])
    BY <2>1 DEF Identity
  <2> QED
    BY <1>1, <2>1, <2>2, <2>3, <2>4 DEF Covered
<1>6. ~FlushFails
  BY DEF FlushFails
<1> QED
  BY <1>2, <1>3, <1>4, <1>5, <1>6 DEF Flush

(* A restart forgets the dirty set and begins with what the table has.     *)
LEMMA CrashCovers ==
  ASSUME TypeOK, Crash
  PROVE  IdentityCovered'
<1> SUFFICES ASSUME NEW m \in Mailbox
             PROVE  Covered(m)'
  BY DEF IdentityCovered
<1>1. auth'[m] = Loaded(disk[m]) /\ disk' = disk /\ fl'.batch = {}
  BY DEF Crash, NoFlush
<1>2. disk[m] \in Entry \cup {None}
  BY DEF TypeOK
<1>3. Identity(Loaded(disk[m])) = Identity(disk[m])
  <2>1. CASE Loaded(disk[m]) = disk[m]
    BY <2>1
  <2>2. CASE Loaded(disk[m]) = Refreshed(disk[m]) /\ disk[m] \in Entry
    <3>1. PICK a \in Nat : a = now_activity_ms
      BY ActivityType
    <3>2. Loaded(disk[m]) = [disk[m] EXCEPT !.last_active_ms = a]
      BY <2>2, <3>1 DEF Refreshed
    <3>3. Loaded(disk[m]) \in Entry /\ Loaded(disk[m]).owner = disk[m].owner
          /\ Loaded(disk[m]).tokens = disk[m].tokens
      BY <2>2, <3>2 DEF Entry
    <3> QED
      BY <2>2, <3>3, NoneAssumption DEF Identity
  <2> QED
    BY <1>2, <2>1, <2>2 DEF Loaded
<1> QED
  BY <1>1, <1>3 DEF Covered, Identity

(* So every step keeps the invariant, when transactions do not fail.       *)
LEMMA CoverStep ==
  ASSUME TypeOK, FlushIdle, IdentityCovered, ~IoErrors, [Next]_vars
  PROVE  FlushIdle' /\ IdentityCovered'
<1>1. ASSUME NEW h \in Socket, SocketStep(h)
      PROVE  FlushIdle' /\ IdentityCovered'
  <2>1. Announced
    BY <1>1, HandlerAnnounces
  <2> QED
    BY <2>1, AnnouncedCovers DEF Announced, FlushIdle
<1>2. CASE Gc
  <2>1. Announced
    BY <1>2, GcAnnounces
  <2> QED
    BY <2>1, AnnouncedCovers DEF Announced, FlushIdle
<1>3. CASE Flush
  <2>1. fl' = NoFlush \/ fl'.pc \in {"take", "read"}
    BY <1>3 DEF Flush, FlushScan, FlushTake, FlushRead, FlushWrite, FlushFails, TypeOK, NoFlush
  <2> QED
    BY <1>3, <2>1, FlushCovers DEF FlushIdle, NoFlush
<1>4. CASE (\E m \in Mailbox : Drain(m)) \/ Tick \/ UNCHANGED vars
  <2>1. UNCHANGED <<auth, disk, dirty, pc, dst, gc, fl>>
    BY <1>4 DEF Drain, Tick, vars, registry, sockets, tasks
  <2>2. Announced
    BY <2>1 DEF Announced, Marking, Identity
  <2> QED
    BY <2>2, AnnouncedCovers DEF Announced, FlushIdle
<1>5. CASE Crash
  <2>1. FlushIdle'
    BY <1>5 DEF Crash, NoFlush, FlushIdle
  <2> QED
    BY <1>5, <2>1, CrashCovers
<1> QED
  BY <1>1, <1>2, <1>3, <1>4, <1>5 DEF Next

(* As long as no transaction fails, no interleaving of handlers, GC,       *)
(* write-back and restarts leaves a registration, retirement, collection   *)
(* or token list in memory that the table lacks and nothing will write:    *)
(* taking a key off the dirty set before reading its value is enough.      *)
THEOREM IdentityAlwaysCovered ==
  ASSUME ~IoErrors
  PROVE  Spec => []IdentityCovered
<1>1. Init => FlushIdle /\ IdentityCovered
  BY DEF Init, NoFlush, NoEntries, FlushIdle, IdentityCovered, Covered, Identity
<1>2. TypeOK /\ FlushIdle /\ IdentityCovered /\ [Next]_vars => (FlushIdle /\ IdentityCovered)'
  BY CoverStep
<1> QED
  BY <1>1, <1>2, TypeCorrect, PTL DEF Spec
=============================================================================
