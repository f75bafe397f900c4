----------------------- MODULE ConcurrencySlots_proofs -----------------------
(***************************************************************************)
(* The safety of ConcurrencySlots for any instances, requests and limits,  *)
(* when no instance starts beside another: the inductive invariant says    *)
(* whose slot is in the set, how old it is, and how the lifetime of the    *)
(* wait counter covers those who wait.                                     *)
(***************************************************************************)
EXTENDS ConcurrencySlots, FiniteSetTheorems, TLAPS

\* Only requests of live instances do anything.
Served == \A r \in Requests : pc[r] # "idle" \/ r \in held \cup queued => Home[r] \in up

\* The slot of a request that holds one is in the set and young.
SlotsYoung == \A r \in held : r \in slots /\ age[r] < SlotTTL

\* The set itself never outgrows the limit.
SlotsWithinLimit == Cardinality(slots) <= MaxConcurrency

SlotInv == TypeOK /\ Served /\ SlotsYoung /\ SlotsWithinLimit

\* A request that has to decrement the counter is one that waits or has just stopped.
Queueing ==
    \A r \in Requests :
        /\ pc[r] \in {"touch_wait", "waiting", "decrement"} => r \in queued
        /\ r \in queued => pc[r] \in {"touch_wait", "waiting", "touch", "decrement"}

\* The counter outlives every wait it counts.
CounterLives ==
    \A r \in queued : pc[r] \in {"touch_wait", "waiting"} => waitLeft + age[r] >= WaitTTL

WaitInv == Queueing /\ WaitersCounted /\ CounterLives

-----------------------------------------------------------------------------
LEMMA Limits ==
    /\ MaxConcurrency \in Nat /\ MaxConcurrency > 0 /\ QueueLimit \in Nat /\ QueueLimit > 0
    /\ SlotTTL \in Nat /\ SlotTTL > 0 /\ WaitTTL \in Nat /\ Patience \in Nat /\ Patience < WaitTTL
    /\ MaxTTL \in Nat /\ SlotTTL <= MaxTTL /\ WaitTTL <= MaxTTL /\ Patience <= MaxTTL
    /\ Home \in [Requests -> Instances]
<1> QED
  BY LimitsAssumption, HomeAssumption DEF MaxTTL

\* The variables of requests are functions of them, and their sets are finite.
LEMMA Kinds ==
    ASSUME TypeOK
    PROVE  /\ pc \in [Requests -> Labels] /\ age \in [Requests -> 0..MaxTTL]
           /\ slots \subseteq Requests /\ held \subseteq Requests /\ queued \subseteq Requests
           /\ wait \in Nat /\ waitLeft \in Nat
           /\ IsFiniteSet(slots) /\ IsFiniteSet(held) /\ IsFiniteSet(queued)
           /\ Cardinality(slots) \in Nat /\ Cardinality(held) \in Nat /\ Cardinality(queued) \in Nat
<1>1. slots \subseteq Requests /\ held \subseteq Requests /\ queued \subseteq Requests
  BY DEF TypeOK
<1>2. IsFiniteSet(slots) /\ IsFiniteSet(held) /\ IsFiniteSet(queued)
  BY <1>1, HomeAssumption, FS_Subset
<1> QED
  BY <1>1, <1>2, FS_CardinalityType DEF TypeOK

\* What a refresh of the index writes is a lifetime.
LEMMA LoadIsLifetime ==
    ASSUME NEW live
    PROVE  Load(live) \in 0..MaxTTL
<1> QED
  BY Limits DEF Load

LEMMA TypeInit == Init => TypeOK
<1> SUFFICES ASSUME Init PROVE TypeOK
  OBVIOUS
<1>1. sweeping \in BOOLEAN
  BY DEF Init
<1>2. /\ up \subseteq Instances /\ slots \subseteq Requests
      /\ held \subseteq Requests /\ queued \subseteq Requests
      /\ pc \in [Requests -> Labels] /\ index \in {Absent} \cup 0..MaxTTL
  BY DEF Init, Labels
<1>3. /\ age \in [Requests -> 0..MaxTTL] /\ wait \in 0..QueueLimit /\ waitLeft \in 0..WaitTTL
      /\ seen \in [Requests \cup {Sweeper} -> 0..MaxTTL]
  BY Limits DEF Init
<1> QED
  BY <1>1, <1>2, <1>3 DEF TypeOK

LEMMA TypeStep ==
    ASSUME TypeOK, [Next]_vars
    PROVE  TypeOK'
<1> USE Limits DEF TypeOK, Goto, Proceed, Labels, slotVars, waitVars, Absent
<1>1. ASSUME NEW r \in Requests, AcquireSlot(r) PROVE TypeOK'
  BY <1>1 DEF AcquireSlot, Admit, Refuse, Purged
<1>2. ASSUME NEW r \in Requests, Enqueue(r) PROVE TypeOK'
  BY <1>2 DEF Enqueue, HasRoom, Lifetime
<1>3. ASSUME NEW r \in Requests, TouchIndex(r) \/ GiveUp(r) PROVE TypeOK'
  BY <1>3 DEF TouchIndex, GiveUp
<1>4. ASSUME NEW r \in Requests, Decrement(r) PROVE TypeOK'
  BY <1>4 DEF Decrement, Decremented
<1>5. ASSUME NEW r \in Requests, RefreshIndex(r) PROVE TypeOK'
  BY <1>5, LoadIsLifetime DEF RefreshIndex, Purged
<1>6. ASSUME NEW r \in Requests, WriteIndex(r) PROVE TypeOK'
  BY <1>6 DEF WriteIndex, IndexAfter
<1>7. ASSUME NEW r \in Requests, ReleaseSlot(r) PROVE TypeOK'
  BY <1>7 DEF ReleaseSlot
<1>8. CASE ReadLoad \/ SweepRead
  <2>1. sweeping' \in BOOLEAN
    BY <1>8 DEF ReadLoad, SweepRead
  <2>2. UNCHANGED <<up, age, waitVars, index, pc, held, queued>> /\ slots' \subseteq Requests
    BY <1>8 DEF ReadLoad, SweepRead, Purged
  <2>3. seen' \in [Requests \cup {Sweeper} -> 0..MaxTTL]
    BY <1>8, LoadIsLifetime DEF ReadLoad, SweepRead
  <2> QED
    BY <2>1, <2>2, <2>3
<1>9. CASE SweepWrite \/ SweepFails
  <2>1. sweeping' \in BOOLEAN
    BY <1>9 DEF SweepWrite, SweepFails
  <2>2. UNCHANGED <<up, slotVars, waitVars, pc, held, queued>>
    BY <1>9 DEF SweepWrite, SweepFails
  <2>3. index' \in {Absent} \cup 0..MaxTTL /\ seen' \in [Requests \cup {Sweeper} -> 0..MaxTTL]
    BY <1>9 DEF SweepWrite, SweepFails, IndexAfter
  <2> QED
    BY <2>1, <2>2, <2>3
<1>10. ASSUME NEW i \in Instances, Crash(i) PROVE TypeOK'
  <2>1. seen' \in [Requests \cup {Sweeper} -> 0..MaxTTL]
    BY <1>10 DEF Crash
  <2>2. sweeping' \in BOOLEAN
    BY <1>10 DEF Crash
  <2> QED
    BY <1>10, <2>1, <2>2 DEF Crash
<1>11. ASSUME NEW i \in Instances, Start(i) PROVE TypeOK'
  BY <1>11 DEF Start
<1>12. CASE Tick
  <2>1. age' \in [Requests -> 0..MaxTTL]
    <3>1. \A r \in Requests : age[r] < SlotTTL \/ r \in queued => age[r] + 1 \in 0..MaxTTL
      BY <1>12 DEF Tick
    <3> QED
      BY <1>12, <3>1 DEF Tick
  <2>2. waitLeft' \in 0..WaitTTL /\ wait' \in 0..QueueLimit
    BY <1>12 DEF Tick
  <2>3. index' \in {Absent} \cup 0..MaxTTL
    BY <1>12 DEF Tick
  <2> QED
    BY <1>12, <2>1, <2>2, <2>3 DEF Tick
<1>13. CASE UNCHANGED vars
  BY <1>13 DEF vars
<1> QED
  BY <1>1, <1>2, <1>3, <1>4, <1>5, <1>6, <1>7, <1>8, <1>9, <1>10, <1>11, <1>12, <1>13
  DEF Next, Work

-----------------------------------------------------------------------------
\* Slots.
LEMMA ServedStep ==
    ASSUME TypeOK, Served, [Next]_vars
    PROVE  Served'
<1> USE DEF Served, Goto
<1>0. pc \in [Requests -> Labels]
  BY DEF TypeOK
<1>1. ASSUME up' = up, NEW r \in Requests, Home[r] \in up,
             \A q \in Requests : q # r => pc'[q] = pc[q],
             held' \subseteq held \cup {r}, queued' \subseteq queued \cup {r}
      PROVE  Served'
  BY <1>1
<1>2. ASSUME NEW r \in Requests, AcquireSlot(r) PROVE Served'
  BY <1>0, <1>1, <1>2 DEF AcquireSlot
<1>3. ASSUME NEW r \in Requests, Work(r) PROVE Served'
  <2>1. pc[r] # "idle"
    BY <1>3 DEF Work, Enqueue, TouchIndex, GiveUp, Decrement, RefreshIndex, WriteIndex, ReleaseSlot
  <2>2. \E l : pc' = [pc EXCEPT ![r] = l]
    BY <1>3 DEF Work, Enqueue, TouchIndex, GiveUp, Decrement, RefreshIndex, WriteIndex, ReleaseSlot,
                Proceed
  <2>3. up' = up /\ held' \subseteq held \cup {r} /\ queued' \subseteq queued \cup {r}
    BY <1>3 DEF Work, Enqueue, TouchIndex, GiveUp, Decrement, RefreshIndex, WriteIndex, ReleaseSlot
  <2> QED
    BY <1>0, <1>1, <2>1, <2>2, <2>3
<1>4. CASE UNCHANGED <<up, pc, held, queued>>
  BY <1>4
<1>5. CASE ReadLoad \/ SweepRead \/ SweepWrite \/ SweepFails \/ Tick \/ UNCHANGED vars
  BY <1>4, <1>5 DEF ReadLoad, SweepRead, SweepWrite, SweepFails, Tick, vars
<1>6. ASSUME NEW i \in Instances, Crash(i) PROVE Served'
  BY <1>0, <1>6 DEF Crash
<1>7. ASSUME NEW i \in Instances, Start(i) PROVE Served'
  BY <1>7 DEF Start
<1> QED
  BY <1>2, <1>3, <1>5, <1>6, <1>7 DEF Next

\* A purge spares the requests that hold a slot.
LEMMA PurgeSpares ==
    ASSUME TypeOK, SlotsYoung
    PROVE  held \subseteq Purged /\ Purged \subseteq slots
<1> QED
  BY DEF SlotsYoung, Purged

LEMMA SlotsYoungStep ==
    ASSUME TypeOK, Served, SlotsYoung, ~Overlap, [Next]_vars
    PROVE  SlotsYoung'
<1> USE DEF SlotsYoung
<1>0. /\ age \in [Requests -> 0..MaxTTL] /\ held \subseteq Requests /\ queued \subseteq Requests
      /\ SlotTTL \in Nat /\ SlotTTL > 0
  BY Limits DEF TypeOK
<1>1. CASE held' \subseteq held /\ age' = age /\ (slots' = slots \/ slots' = Purged)
  BY <1>1, PurgeSpares
<1>2. ASSUME NEW r \in Requests, AcquireSlot(r) PROVE SlotsYoung'
  <2>1. CASE Admit(r) /\ held' \subseteq held \cup {r}
    BY <1>0, <2>1, PurgeSpares DEF Admit
  <2>2. CASE (Refuse \/ UNCHANGED slotVars) /\ held' = held
    BY <1>1, <2>2 DEF Refuse, slotVars
  <2> QED
    BY <1>2, <2>1, <2>2 DEF AcquireSlot
<1>3. ASSUME NEW r \in Requests, Enqueue(r) PROVE SlotsYoung'
  BY <1>0, <1>3 DEF Enqueue
<1>4. ASSUME NEW r \in Requests,
             TouchIndex(r) \/ GiveUp(r) \/ Decrement(r) \/ RefreshIndex(r) \/ WriteIndex(r)
      PROVE  SlotsYoung'
  BY <1>1, <1>4 DEF TouchIndex, GiveUp, Decrement, RefreshIndex, WriteIndex, slotVars
<1>5. ASSUME NEW r \in Requests, ReleaseSlot(r) PROVE SlotsYoung'
  BY <1>5 DEF ReleaseSlot
<1>6. CASE ReadLoad \/ SweepRead \/ SweepWrite \/ SweepFails \/ UNCHANGED vars
  BY <1>1, <1>6 DEF ReadLoad, SweepRead, SweepWrite, SweepFails, vars, slotVars
<1>7. ASSUME NEW i \in Instances, Crash(i) PROVE SlotsYoung'
  BY <1>1, <1>7 DEF Crash, slotVars
<1>8. ASSUME NEW i \in Instances, Start(i) PROVE SlotsYoung'
  <2>1. up = {} /\ held' = held
    BY <1>8 DEF Start, MayStart
  <2>2. held = {}
    BY <1>0, <2>1 DEF Served
  <2> QED
    BY <2>1, <2>2
<1>9. CASE Tick
  <2>1. /\ slots' = slots /\ held' = held
        /\ \A r \in held : age[r] + 1 < SlotTTL /\ age'[r] \in {0, age[r], age[r] + 1}
    BY <1>0, <1>9 DEF Tick
  <2> QED
    BY <1>0, <2>1
<1> QED
  BY <1>2, <1>3, <1>4, <1>5, <1>6, <1>7, <1>8, <1>9 DEF Next, Work

LEMMA SlotsWithinLimitStep ==
    ASSUME TypeOK, SlotsWithinLimit, [Next]_vars
    PROVE  SlotsWithinLimit'
<1>0. IsFiniteSet(slots) /\ Cardinality(slots) \in Nat /\ MaxConcurrency \in Nat
  BY Kinds, Limits
<1>1. ASSUME slots' \subseteq slots PROVE SlotsWithinLimit'
  BY <1>0, <1>1, FS_Subset, FS_CardinalityType DEF SlotsWithinLimit
<1>2. ASSUME NEW r \in Requests, Admit(r) PROVE SlotsWithinLimit'
  <2>1. Purged \subseteq slots
    BY DEF Purged
  <2>2. IsFiniteSet(Purged) /\ Cardinality(Purged) \in Nat
    BY <1>0, <2>1, FS_Subset, FS_CardinalityType
  <2>3. Cardinality(Purged \cup {r}) <= Cardinality(Purged) + 1
    BY <2>2, FS_AddElement
  <2>4. Cardinality(Purged \cup {r}) \in Nat
    BY <2>2, FS_AddElement, FS_CardinalityType
  <2> QED
    BY <1>0, <1>2, <2>2, <2>3, <2>4 DEF Admit, Admits, SlotsWithinLimit
<1>3. ASSUME NEW r \in Requests, AcquireSlot(r) PROVE SlotsWithinLimit'
  BY <1>1, <1>2, <1>3 DEF AcquireSlot, Refuse, Purged, slotVars
<1>4. ASSUME ~\E r \in Requests : AcquireSlot(r) PROVE slots' \subseteq slots
  BY <1>4 DEF Next, Work, Enqueue, TouchIndex, GiveUp, Decrement, RefreshIndex, WriteIndex,
              ReleaseSlot, ReadLoad, SweepRead, SweepWrite, SweepFails, Crash, Start, Tick,
              Purged, vars, slotVars
<1> QED
  BY <1>1, <1>3, <1>4

LEMMA SlotInvHolds ==
    ASSUME ~Overlap
    PROVE  Spec => []SlotInv
<1>1. Init => SlotInv
  BY TypeInit, FS_EmptySet, Limits DEF Init, SlotInv, Served, SlotsYoung, SlotsWithinLimit
<1>2. SlotInv /\ [Next]_vars => SlotInv'
  BY TypeStep, ServedStep, SlotsYoungStep, SlotsWithinLimitStep DEF SlotInv
<1> QED
  BY <1>1, <1>2, PTL DEF Spec

-----------------------------------------------------------------------------
\* Waiters.
LEMMA QueueingStep ==
    ASSUME TypeOK, Queueing, [Next]_vars
    PROVE  Queueing'
<1> USE DEF Queueing, Goto, Proceed
<1>0. pc \in [Requests -> Labels] /\ queued \subseteq Requests
  BY DEF TypeOK
<1>1. ASSUME NEW r \in Requests, AcquireSlot(r) PROVE Queueing'
  BY <1>0, <1>1 DEF AcquireSlot
<1>2. ASSUME NEW r \in Requests, Enqueue(r) PROVE Queueing'
  BY <1>0, <1>2 DEF Enqueue
<1>3. ASSUME NEW r \in Requests, TouchIndex(r) \/ GiveUp(r) PROVE Queueing'
  BY <1>0, <1>3 DEF TouchIndex, GiveUp
<1>4. ASSUME NEW r \in Requests, Decrement(r) PROVE Queueing'
  BY <1>0, <1>4 DEF Decrement
<1>5. ASSUME NEW r \in Requests, RefreshIndex(r) \/ WriteIndex(r) \/ ReleaseSlot(r) PROVE Queueing'
  BY <1>0, <1>5 DEF RefreshIndex, WriteIndex, ReleaseSlot
<1>6. CASE UNCHANGED <<pc, queued>>
  BY <1>6
<1>7. CASE ReadLoad \/ SweepRead \/ SweepWrite \/ SweepFails \/ Tick \/ UNCHANGED vars
  BY <1>6, <1>7 DEF ReadLoad, SweepRead, SweepWrite, SweepFails, Tick, vars
<1>8. ASSUME NEW i \in Instances, Crash(i) PROVE Queueing'
  BY <1>0, <1>8 DEF Crash
<1>9. ASSUME NEW i \in Instances, Start(i) PROVE Queueing'
  BY <1>6, <1>9 DEF Start
<1> QED
  BY <1>1, <1>2, <1>3, <1>4, <1>5, <1>7, <1>8, <1>9 DEF Next, Work

LEMMA CounterLivesStep ==
    ASSUME TypeOK, Served, Queueing, CounterLives, ~Overlap, [Next]_vars,
           "uncounted" \notin MayFail
    PROVE  CounterLives'
<1> USE Limits DEF CounterLives, Goto, Proceed
<1>0. /\ pc \in [Requests -> Labels] /\ queued \subseteq Requests
      /\ age \in [Requests -> 0..MaxTTL] /\ waitLeft \in 0..WaitTTL
  BY DEF TypeOK
<1>1. ASSUME NEW r \in Requests, AcquireSlot(r) PROVE CounterLives'
  <2>1. /\ waitLeft' = waitLeft /\ queued' = queued
        /\ \A q \in Requests : q # r => pc'[q] = pc[q] /\ age'[q] = age[q]
        /\ \/ pc'[r] = pc[r] /\ age'[r] = age[r]
           \/ pc'[r] \notin {"touch_wait", "waiting"}
    BY <1>0, <1>1 DEF AcquireSlot, Admit, Refuse, waitVars, slotVars
  <2> QED
    BY <1>0, <2>1
<1>2. ASSUME NEW r \in Requests, Enqueue(r) PROVE CounterLives'
  <2>1. CASE waitLeft' = WaitTTL /\ age' = [age EXCEPT ![r] = 0]
    <3>1. \A q \in Requests : age'[q] \in Nat
      BY <1>0, <2>1
    <3>2. queued' \subseteq Requests
      BY <1>0, <1>2 DEF Enqueue
    <3> QED
      BY <2>1, <3>1, <3>2
  <2>2. CASE pc' = [pc EXCEPT ![r] = "idle"] /\ UNCHANGED <<waitVars, queued, age>>
    BY <1>0, <2>2 DEF waitVars
  <2> QED
    BY <1>2, <2>1, <2>2 DEF Enqueue, Lifetime
<1>3. ASSUME NEW r \in Requests,
             TouchIndex(r) \/ GiveUp(r) \/ Decrement(r) \/ RefreshIndex(r) \/ WriteIndex(r)
             \/ ReleaseSlot(r)
      PROVE  CounterLives'
  <2>1. UNCHANGED <<waitLeft, age>> /\ queued' \subseteq queued
    BY <1>3 DEF TouchIndex, GiveUp, Decrement, RefreshIndex, WriteIndex, ReleaseSlot,
                waitVars, slotVars
  <2>2. \A q \in Requests : q # r => pc'[q] = pc[q]
    BY <1>0, <1>3 DEF TouchIndex, GiveUp, Decrement, RefreshIndex, WriteIndex, ReleaseSlot
  <2>3. pc'[r] \in {"touch_wait", "waiting"} => pc[r] = "touch_wait"
    BY <1>0, <1>3 DEF TouchIndex, GiveUp, Decrement, RefreshIndex, WriteIndex, ReleaseSlot
  <2> QED
    BY <1>0, <2>1, <2>2, <2>3
<1>4. CASE UNCHANGED <<pc, age, waitLeft, queued>>
  BY <1>4
<1>5. CASE ReadLoad \/ SweepRead \/ SweepWrite \/ SweepFails \/ UNCHANGED vars
  BY <1>4, <1>5 DEF ReadLoad, SweepRead, SweepWrite, SweepFails, vars, waitVars, slotVars
<1>6. ASSUME NEW i \in Instances, Crash(i) PROVE CounterLives'
  BY <1>0, <1>6 DEF Crash, waitVars, slotVars
<1>7. ASSUME NEW i \in Instances, Start(i) PROVE CounterLives'
  <2>1. up = {} /\ queued' = queued
    BY <1>7 DEF Start, MayStart
  <2>2. queued = {}
    BY <1>0, <2>1 DEF Served
  <2> QED
    BY <2>1, <2>2
<1>8. CASE Tick
  <2>1. pc' = pc /\ queued' = queued /\ waitLeft' = IF waitLeft = 0 THEN 0 ELSE waitLeft - 1
    BY <1>8 DEF Tick
  <2>2. ASSUME NEW r \in queued, pc[r] \in {"touch_wait", "waiting"}
        PROVE  waitLeft' + age'[r] >= WaitTTL
    <3>1. age[r] \in Nat /\ age[r] < Patience /\ age'[r] = age[r] + 1
      BY <1>0, <1>8, <2>2 DEF Tick
    <3>2. waitLeft + age[r] >= WaitTTL
      BY <2>2
    <3> QED
      BY <1>0, <2>1, <3>1, <3>2
  <2> QED
    BY <2>1, <2>2
<1> QED
  BY <1>1, <1>2, <1>3, <1>5, <1>6, <1>7, <1>8 DEF Next, Work

LEMMA WaitersCountedStep ==
    ASSUME TypeOK, Served, Queueing, CounterLives, WaitersCounted, ~Overlap, [Next]_vars,
           "uncounted" \notin MayFail
    PROVE  WaitersCounted'
<1> USE DEF WaitersCounted
<1>0. /\ queued \subseteq Requests /\ IsFiniteSet(queued) /\ Cardinality(queued) \in Nat
      /\ wait \in Nat /\ waitLeft \in Nat
  BY Kinds
<1>1. CASE UNCHANGED <<queued, wait>>
  BY <1>1
<1>2. ASSUME NEW r \in Requests, Enqueue(r) PROVE WaitersCounted'
  <2>1. CASE wait' = wait + 1 /\ queued' = queued \cup {r}
    <3>a. IsFiniteSet(queued) /\ Cardinality(queued) \in Nat
      BY <1>0
    <3>1. Cardinality(queued \cup {r}) <= Cardinality(queued) + 1
      BY <3>a, FS_AddElement
    <3>2. Cardinality(queued \cup {r}) \in Nat
      BY <1>0, FS_AddElement, FS_CardinalityType
    <3> QED
      BY <1>0, <2>1, <3>1, <3>2
  <2> QED
    BY <1>1, <1>2, <2>1 DEF Enqueue, waitVars
<1>3. ASSUME NEW r \in Requests, Decrement(r) PROVE WaitersCounted'
  <2>1. r \in queued /\ queued' = queued \ {r} /\ (wait' = wait \/ wait' = Decremented)
    BY <1>3 DEF Decrement, Queueing
  <2>2. Cardinality(queued \ {r}) = Cardinality(queued) - 1 /\ IsFiniteSet(queued \ {r})
    BY <1>0, <2>1, FS_RemoveElement
  <2>3. Cardinality(queued \ {r}) \in Nat
    BY <2>2, FS_CardinalityType
  <2> QED
    BY <1>0, <2>1, <2>2, <2>3 DEF Decremented
<1>4. ASSUME NEW i \in Instances, Crash(i) PROVE WaitersCounted'
  <2>1. wait' = wait /\ queued' \subseteq queued
    BY <1>4 DEF Crash, waitVars
  <2>2. Cardinality(queued') <= Cardinality(queued) /\ Cardinality(queued') \in Nat
    BY <1>0, <2>1, FS_Subset, FS_CardinalityType
  <2> QED
    BY <1>0, <2>1, <2>2
<1>5. ASSUME NEW i \in Instances, Start(i) PROVE WaitersCounted'
  <2>1. up = {} /\ queued' = queued /\ wait' \in {wait, 0}
    BY <1>5 DEF Start, MayStart, waitVars
  <2>2. queued = {}
    BY <1>0, <2>1 DEF Served
  <2> QED
    BY <1>0, <2>1, <2>2, FS_EmptySet
<1>6. CASE Tick
  <2>1. queued' = queued /\ wait' = IF waitLeft' = 0 THEN 0 ELSE wait
    BY <1>6 DEF Tick
  <2>2. CASE queued = {}
    BY <1>0, <2>1, <2>2, FS_EmptySet
  <2>3. ASSUME NEW r \in queued PROVE waitLeft' # 0
    <3>1. pc[r] = "waiting" /\ age[r] < Patience /\ age[r] \in Nat
      BY <1>0, <1>6, Kinds, Limits DEF Tick, Queueing
    <3>2. waitLeft + age[r] >= WaitTTL
      BY <3>1 DEF CounterLives
    <3> QED
      BY <1>0, <1>6, <3>1, <3>2, Limits DEF Tick
  <2> QED
    BY <2>1, <2>2, <2>3
<1>7. ASSUME ~\E r \in Requests : Enqueue(r) \/ Decrement(r),
             ~\E i \in Instances : Crash(i) \/ Start(i), ~Tick
      PROVE  UNCHANGED <<queued, wait>>
  BY <1>7 DEF Next, Work, AcquireSlot, TouchIndex, GiveUp, RefreshIndex, WriteIndex,
              ReleaseSlot, ReadLoad, SweepRead, SweepWrite, SweepFails, vars, waitVars
<1> QED
  BY <1>1, <1>2, <1>3, <1>4, <1>5, <1>6, <1>7

-----------------------------------------------------------------------------
\* The scripts and the index keep every variable in its type, whatever fails, and also
\* when instances start beside one another: the counter stays between 0 and its limit.
THEOREM TypeCorrect == Spec => []TypeOK
<1> QED
  BY TypeInit, TypeStep, PTL DEF Spec

\* A running request never loses its slot to a purge, a release or a cleanup, unless an
\* instance starts beside it or it outlives the slot.
THEOREM SlotKept ==
    ASSUME ~Overlap
    PROVE  Spec => []HeldMeansSlot
<1>1. SlotInv => HeldMeansSlot
  BY DEF SlotInv, SlotsYoung, HeldMeansSlot
<1> QED
  BY <1>1, SlotInvHolds, PTL

\* With any number of instances and requests, lost replies and crashes, never more are
\* admitted at once than the limit of the account or user.
THEOREM LimitHolds ==
    ASSUME ~Overlap
    PROVE  Spec => []AdmittedWithinLimit
<1>1. SlotInv => AdmittedWithinLimit
  <2> SUFFICES ASSUME SlotInv PROVE AdmittedWithinLimit
    OBVIOUS
  <2>1. held \subseteq slots
    BY DEF SlotInv, SlotsYoung
  <2>2. Cardinality(held) <= Cardinality(slots) /\ Cardinality(held) \in Nat
        /\ Cardinality(slots) \in Nat
    BY <2>1, Kinds, FS_Subset DEF SlotInv
  <2> QED
    BY <2>2, Limits DEF SlotInv, SlotsWithinLimit, AdmittedWithinLimit
<1> QED
  BY <1>1, SlotInvHolds, PTL

\* The wait counter covers all who wait, as long as no failed increment lets a request
\* wait uncounted: no expiry, cleanup or decrement of another takes a place away.
THEOREM EveryWaiterCounted ==
    ASSUME ~Overlap, "uncounted" \notin MayFail
    PROVE  Spec => []WaitersCounted
<1>1. Init => WaitInv
  BY FS_EmptySet DEF Init, WaitInv, Queueing, WaitersCounted, CounterLives
<1>2. SlotInv /\ WaitInv /\ [Next]_vars => WaitInv'
  BY QueueingStep, CounterLivesStep, WaitersCountedStep DEF SlotInv, WaitInv
<1>3. WaitInv => WaitersCounted
  BY DEF WaitInv
<1> QED
  BY <1>1, <1>2, <1>3, SlotInvHolds, PTL DEF Spec
=============================================================================
