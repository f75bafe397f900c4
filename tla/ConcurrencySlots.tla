-------------------------- MODULE ConcurrencySlots --------------------------
(***************************************************************************)
(* The concurrency slots and the wait queue of one account or one user:    *)
(* a Redis sorted set of slots, a wait counter and a member of the active  *)
(* index, shared by the requests of several gateway instances.             *)
(* Every step is one Redis script, command or pipeline.  Times are ages    *)
(* and remaining lifetimes, in units no sequence of Redis calls outlasts.  *)
(***************************************************************************)
EXTENDS Integers, FiniteSets

CONSTANTS
    Instances,       \* gateway processes that share the Redis
    Requests,        \* requests for the account or user
    Home,            \* Home[r] is the instance that serves request r
    MaxConcurrency,  \* slots of the account or user
    QueueLimit,      \* requests that may wait
    SlotTTL,         \* lifetime of a slot
    WaitTTL,         \* lifetime of the wait counter after an increment
    Patience,        \* longest wait of a request
    Overlap,         \* environment: an instance may start while another is up
    MayFail          \* environment: steps at which Redis may fail

ASSUME LimitsAssumption ==
    /\ MaxConcurrency \in Nat \ {0} /\ QueueLimit \in Nat \ {0}
    /\ SlotTTL \in Nat \ {0} /\ WaitTTL \in Nat /\ Patience \in Nat
    /\ Patience < WaitTTL
ASSUME HomeAssumption == Home \in [Requests -> Instances] /\ IsFiniteSet(Requests)
ASSUME OverlapAssumption == Overlap \in BOOLEAN

VARIABLES
    up,        \* instances that run
    slots,     \* members of the sorted set
    age,       \* since a member was added, or since a request waits
    wait,      \* the wait counter
    waitLeft,  \* remaining lifetime of the counter
    index,     \* remaining time of the member of the active index, or Absent
    pc,        \* where each request is
    held,      \* requests admitted and not ended: they hold a release function
    queued,    \* requests that are to decrement the counter
    seen,      \* lifetime a refresh of the index will write, 0 to remove the member
    sweeping   \* the cleanup worker is between its read and its write

slotVars == <<slots, age>>
waitVars == <<wait, waitLeft>>
vars == <<up, slots, age, wait, waitLeft, index, pc, held, queued, seen, sweeping>>

Absent == -1
Sweeper == "sweeper"
Labels == {"idle", "touch", "enqueue", "touch_wait", "waiting", "decrement", "refresh",
           "write", "running"}
MaxTTL == IF SlotTTL < WaitTTL THEN WaitTTL ELSE SlotTTL

-----------------------------------------------------------------------------
Init ==
    /\ up = Instances
    /\ slots = {} /\ age = [r \in Requests |-> 0]
    /\ wait = 0 /\ waitLeft = 0 /\ index = Absent
    /\ pc = [r \in Requests |-> "idle"]
    /\ held = {} /\ queued = {}
    /\ seen = [x \in Requests \cup {Sweeper} |-> 0] /\ sweeping = FALSE

Goto(r, l) == pc' = [pc EXCEPT ![r] = l]

\* A request whose Redis work is done goes on with its slot, or ends.
Proceed(r) == Goto(r, IF r \in held THEN "running" ELSE "idle")

-----------------------------------------------------------------------------
\* ZREMRANGEBYSCORE key -inf now-ttl
Purged_early == {r \in slots : age[r] + 1 < SlotTTL}
Purged == {r \in slots : age[r] < SlotTTL}

\* ZCARD < maxConcurrency, after the purge
Admits_one_more(live) == Cardinality(live) <= MaxConcurrency
Admits(live) == Cardinality(live) < MaxConcurrency

Admit(r) == Admits(Purged) /\ slots' = Purged \cup {r} /\ age' = [age EXCEPT ![r] = 0]
Refuse == ~Admits(Purged) /\ slots' = Purged /\ UNCHANGED age

\* The first attempt of a request and the polls of one that waits, each with a fresh
\* request id.  When the reply is lost the slot stays in the set with no request.
AcquireSlot(r) ==
    /\ pc[r] \in {"idle", "waiting"} /\ Home[r] \in up
    /\ r \notin slots
    /\ \/ Admit(r) /\ held' = held \cup {r} /\ Goto(r, "touch")
       \/ Refuse /\ UNCHANGED held
          /\ Goto(r, IF pc[r] = "idle" THEN "enqueue" ELSE "waiting")
       \/ /\ "acquire" \in MayFail
          /\ Admit(r) \/ Refuse \/ UNCHANGED slotVars
          /\ UNCHANGED held
          /\ Goto(r, IF pc[r] = "idle" THEN "idle" ELSE "decrement")
    /\ UNCHANGED <<up, waitVars, index, queued, seen, sweeping>>

HasRoom_off_by_one == wait <= QueueLimit
HasRoom == wait < QueueLimit

\* EXPIRE on every increment
Lifetime_of_first == IF waitLeft = 0 THEN WaitTTL ELSE waitLeft
Lifetime == WaitTTL

\* IncrementWaitCount: a Redis error lets the request wait, counted or not.
Enqueue(r) ==
    /\ pc[r] = "enqueue"
    /\ \/ HasRoom /\ wait' = wait + 1 /\ waitLeft' = Lifetime
          /\ queued' = queued \cup {r} /\ age' = [age EXCEPT ![r] = 0]
          /\ \/ Goto(r, "touch_wait")
             \/ "enqueue" \in MayFail /\ Goto(r, "waiting")
       \/ ~HasRoom /\ Goto(r, "idle") /\ UNCHANGED <<waitVars, queued, age>>
       \/ /\ "uncounted" \in MayFail
          /\ queued' = queued \cup {r} /\ age' = [age EXCEPT ![r] = 0]
          /\ Goto(r, "waiting") /\ UNCHANGED waitVars
    /\ UNCHANGED <<up, slots, index, held, seen, sweeping>>

\* touchActiveIndexAt, after a successful acquire or increment
TouchIndex(r) ==
    /\ pc[r] \in {"touch", "touch_wait"}
    /\ \/ index' = IF pc[r] = "touch" THEN SlotTTL ELSE WaitTTL
       \/ "touch" \in MayFail /\ UNCHANGED index
    /\ Goto(r, CASE pc[r] = "touch_wait" -> "waiting"
                 [] r \in queued -> "decrement"
                 [] OTHER -> "running")
    /\ UNCHANGED <<up, slotVars, waitVars, held, queued, seen, sweeping>>

\* The wait times out, or the client is gone.
GiveUp(r) ==
    /\ pc[r] = "waiting"
    /\ Goto(r, "decrement")
    /\ UNCHANGED <<up, slotVars, waitVars, index, held, queued, seen, sweeping>>

Decremented == IF wait > 0 THEN wait - 1 ELSE wait

\* The deferred DecrementWaitCount
Decrement(r) ==
    /\ pc[r] = "decrement"
    /\ queued' = queued \ {r}
    /\ \/ wait' = Decremented /\ Goto(r, "refresh")
       \/ "decrement" \in MayFail /\ wait' \in {wait, Decremented} /\ Proceed(r)
    /\ UNCHANGED <<up, slotVars, waitLeft, index, held, seen, sweeping>>

\* The lifetime the load still needs in the index: 0 when there is no load.
Load_never_empty(live) == MaxTTL
Load(live) ==
    IF live = {} THEN IF wait = 0 THEN 0 ELSE WaitTTL
    ELSE IF wait = 0 THEN SlotTTL ELSE MaxTTL

\* refreshActiveIndex: the load is read first,
RefreshIndex(r) ==
    /\ pc[r] = "refresh"
    /\ \/ slots' = Purged /\ seen' = [seen EXCEPT ![r] = Load(Purged)] /\ Goto(r, "write")
       \/ "refresh" \in MayFail /\ Proceed(r) /\ UNCHANGED <<slots, seen>>
    /\ UNCHANGED <<up, age, waitVars, index, held, queued, sweeping>>

IndexAfter(x) == IF seen[x] = 0 THEN Absent ELSE seen[x]

\* and the member is written or removed by what was read.
WriteIndex(r) ==
    /\ pc[r] = "write"
    /\ \/ index' = IndexAfter(r)
       \/ "refresh" \in MayFail /\ UNCHANGED index
    /\ seen' = [seen EXCEPT ![r] = 0]
    /\ Proceed(r)
    /\ UNCHANGED <<up, slotVars, waitVars, held, queued, sweeping>>

\* The release function: ZREM, then the index is refreshed.
ReleaseSlot(r) ==
    /\ pc[r] = "running"
    /\ held' = held \ {r}
    /\ \/ slots' = slots \ {r} /\ Goto(r, "refresh")
       \/ "release" \in MayFail /\ slots' \in {slots, slots \ {r}} /\ Goto(r, "idle")
    /\ UNCHANGED <<up, age, waitVars, index, queued, seen, sweeping>>

-----------------------------------------------------------------------------
\* GetAccountsLoadBatch and the other readers purge as they count.
ReadLoad ==
    /\ slots' = Purged
    /\ UNCHANGED <<up, age, waitVars, index, pc, held, queued, seen, sweeping>>

\* The cleanup worker: a member of the index whose time is over is checked against
\* the load, then written or removed.
SweepRead ==
    /\ up # {} /\ ~sweeping /\ index = 0
    /\ slots' = Purged /\ seen' = [seen EXCEPT ![Sweeper] = Load(Purged)]
    /\ sweeping' = TRUE
    /\ UNCHANGED <<up, age, waitVars, index, pc, held, queued>>

SweepWrite ==
    /\ sweeping
    /\ index' = IndexAfter(Sweeper)
    /\ seen' = [seen EXCEPT ![Sweeper] = 0] /\ sweeping' = FALSE
    /\ UNCHANGED <<up, slotVars, waitVars, pc, held, queued>>

SweepFails ==
    /\ sweeping /\ "sweep" \in MayFail
    /\ seen' = [seen EXCEPT ![Sweeper] = 0] /\ sweeping' = FALSE
    /\ UNCHANGED <<up, slotVars, waitVars, index, pc, held, queued>>

-----------------------------------------------------------------------------
\* A process dies: its requests are gone, their slots and counts are not.
Crash(i) ==
    /\ i \in up
    /\ up' = up \ {i}
    /\ pc' = [r \in Requests |-> IF Home[r] = i THEN "idle" ELSE pc[r]]
    /\ held' = {r \in held : Home[r] # i}
    /\ queued' = {r \in queued : Home[r] # i}
    /\ sweeping' = (sweeping /\ up' # {})
    /\ seen' = [x \in DOMAIN seen |->
                  IF x = Sweeper THEN IF sweeping' THEN seen[x] ELSE 0
                  ELSE IF Home[x] = i THEN 0 ELSE seen[x]]
    /\ UNCHANGED <<slotVars, waitVars, index>>

MayStart == Overlap \/ up = {}

\* A process starts: before it serves, CleanupStaleProcessSlots removes the slots
\* without its prefix, all there are, the counter and the member, if the index has it.
Start(i) ==
    /\ i \notin up /\ MayStart
    /\ up' = up \cup {i}
    /\ \/ /\ index # Absent
          /\ slots' = {} /\ wait' = 0 /\ waitLeft' = 0 /\ index' = Absent
       \/ index = Absent /\ UNCHANGED <<slots, waitVars, index>>
       \/ /\ index # Absent /\ "start" \in MayFail
          /\ \/ slots' \in {slots, {}} /\ UNCHANGED waitVars
             \/ slots' = {} /\ wait' = 0 /\ waitLeft' = 0
          /\ UNCHANGED index
    /\ UNCHANGED <<age, pc, held, queued, seen, sweeping>>

\* Time passes.  No Redis call takes a unit, no request runs for a slot's lifetime and
\* none waits longer than Patience.
Tick ==
    /\ \A r \in Requests : pc[r] \in {"idle", "waiting", "running"}
    /\ ~sweeping
    /\ \A r \in held : age[r] + 1 < SlotTTL
    /\ \A r \in queued : age[r] < Patience
    /\ age' = [r \in Requests |-> IF r \notin slots \cup queued THEN 0
                                  ELSE IF age[r] < SlotTTL \/ r \in queued THEN age[r] + 1
                                  ELSE age[r]]
    /\ waitLeft' = IF waitLeft = 0 THEN 0 ELSE waitLeft - 1
    /\ wait' = IF waitLeft' = 0 THEN 0 ELSE wait
    /\ index' = IF index \in {Absent, 0} THEN index ELSE index - 1
    /\ UNCHANGED <<up, slots, pc, held, queued, seen, sweeping>>

-----------------------------------------------------------------------------
Work(r) ==
    \/ Enqueue(r) \/ TouchIndex(r) \/ GiveUp(r) \/ Decrement(r)
    \/ RefreshIndex(r) \/ WriteIndex(r) \/ ReleaseSlot(r)

Next ==
    \/ \E r \in Requests : AcquireSlot(r) \/ Work(r)
    \/ ReadLoad \/ SweepRead \/ SweepWrite \/ SweepFails
    \/ \E i \in Instances : Crash(i) \/ Start(i)
    \/ Tick

Spec == Init /\ [][Next]_vars

-----------------------------------------------------------------------------
\* Every variable holds a value of its kind; the counter never passes its limit.
TypeOK ==
    /\ up \subseteq Instances
    /\ slots \subseteq Requests /\ age \in [Requests -> 0..MaxTTL]
    /\ wait \in 0..QueueLimit /\ waitLeft \in 0..WaitTTL
    /\ index \in {Absent} \cup 0..MaxTTL
    /\ pc \in [Requests -> Labels]
    /\ held \subseteq Requests /\ queued \subseteq Requests
    /\ seen \in [Requests \cup {Sweeper} -> 0..MaxTTL]
    /\ sweeping \in BOOLEAN

\* The account never serves more requests at once than its limit, over all instances,
\* lost replies, leaked slots, crashes and restarts.
AdmittedWithinLimit == Cardinality(held) <= MaxConcurrency

\* A running request's slot is not purged, released or cleaned away under it.
HeldMeansSlot == held \subseteq slots

\* The counter covers every request that waits: nobody's place is taken from it by a
\* cleanup, an expiry or the decrement of another.
WaitersCounted == Cardinality(queued) <= wait

-----------------------------------------------------------------------------
\* Requests go on and end, instances come back, time passes, and the cleanup worker runs
\* again and again: not every run of it fails.
Fairness ==
    /\ \A r \in Requests : WF_vars(Work(r))
    /\ \A i \in Instances : WF_vars(Start(i))
    /\ WF_vars(Tick) /\ SF_vars(SweepRead) /\ SF_vars(SweepWrite)

FairSpec == Spec /\ Fairness

\* The active index does not accumulate members: one without slots or waiters is
\* removed in the end, or has load again.
IndexDrains ==
    slots = {} /\ wait = 0 /\ index # Absent ~> slots # {} \/ wait > 0 \/ index = Absent
=============================================================================
