------------------------- MODULE IngressLease_proofs -------------------------
(***************************************************************************)
(* The safety of IngressLease for any connections, cap and times: the      *)
(* inductive invariant relates the client's view of a lease (confirmed,    *)
(* ticker, call) to its age at Redis.                                      *)
(***************************************************************************)
EXTENDS IngressLease, FiniteSetTheorems, TLAPS

\* The refresh loop never lets its clocks run past the next tick, call or check.
Timed ==
    \A c \in Connections :
        /\ pc[c] = "open" => ticker[c] <= Interval /\ confirmed[c] < TTL + ticker[c]
        /\ pc[c] = "calling" =>
              ticker[c] <= call[c] /\ confirmed[c] < TTL + Interval + call[c]
        /\ pc[c] = "cancelled" => confirmed[c] < Horizon

\* A member is at Redis, and no older than its last answer and the call of that answer.
Fresh ==
    \A c \in Connections :
        /\ pc[c] = "acquiring" \/ (pc[c] = "calling" /\ reply[c] = "owned") =>
              c \in members /\ score[c] <= call[c]
        /\ c \in Live /\ confirmed[c] + Timeout < TTL =>
              c \in members /\ score[c] <= confirmed[c] + Timeout

\* Redis never holds more unexpired members than the cap.
MembersWithinCap == Cardinality(Unexpired) <= MaxConnections

Inv == TypeOK /\ Timed /\ Fresh /\ MembersWithinCap

-----------------------------------------------------------------------------
LEMMA Times ==
    /\ TTL \in Nat /\ Interval \in Nat /\ Timeout \in Nat
    /\ 0 < Timeout /\ Timeout < Interval /\ Interval < TTL
    /\ Horizon = TTL + Interval + Timeout
<1> QED
  BY TimesAssumption DEF Horizon

\* The clocks of a connection are numbers.
LEMMA Clocks ==
    ASSUME TypeOK, NEW c \in Connections
    PROVE  /\ score[c] \in 0..TTL /\ confirmed[c] \in 0..Horizon
           /\ ticker[c] \in 0..Interval + Timeout /\ call[c] \in 0..Timeout
           /\ score[c] \in Nat /\ confirmed[c] \in Nat /\ ticker[c] \in Nat /\ call[c] \in Nat
<1>1. /\ score[c] \in 0..TTL /\ confirmed[c] \in 0..Horizon
      /\ ticker[c] \in 0..Interval + Timeout /\ call[c] \in 0..Timeout
  BY DEF TypeOK
<1> QED
  BY <1>1

LEMMA InvInit == Init => Inv
<1> SUFFICES ASSUME Init PROVE Inv
  OBVIOUS
<1> USE Times DEF Init
<1>1. TypeOK
  BY DEF TypeOK
<1>2. Timed
  BY DEF Timed
<1>3. Fresh
  BY DEF Fresh, Live
<1>4. MembersWithinCap
  <2>1. Unexpired = {}
    BY DEF Unexpired
  <2> QED
    BY <2>1, FS_EmptySet, CapAssumption DEF MembersWithinCap
<1> QED
  BY <1>1, <1>2, <1>3, <1>4 DEF Inv

-----------------------------------------------------------------------------
\* What Redis keeps: whoever acquires is counted, and a refresh revives nobody.
LEMMA Shrinking ==
    ASSUME TypeOK, MembersWithinCap, NEW S, S \subseteq Unexpired
    PROVE  Cardinality(S) <= MaxConnections
<1>1. IsFiniteSet(Unexpired)
  BY FS_Subset, CapAssumption DEF TypeOK, Unexpired
<1> QED
  BY <1>1, FS_Subset, FS_CardinalityType, CapAssumption DEF MembersWithinCap

LEMMA MembersStep ==
    ASSUME TypeOK, TypeOK', MembersWithinCap, [Next]_vars
    PROVE  MembersWithinCap'
<1>0. /\ members \subseteq Connections /\ score \in [Connections -> 0..TTL]
      /\ IsFiniteSet(Unexpired) /\ Cardinality(Unexpired) \in Nat
  BY FS_Subset, FS_CardinalityType, CapAssumption DEF TypeOK, Unexpired
<1>1. ASSUME Unexpired' \subseteq Unexpired PROVE MembersWithinCap'
  BY <1>1, Shrinking DEF MembersWithinCap
<1>2. ASSUME NEW c \in Connections, Acquire(c) PROVE MembersWithinCap'
  <2>1. CASE BelowCap /\ members' = Unexpired \cup {c} /\ score' = [score EXCEPT ![c] = 0]
    <3>1. Unexpired' \subseteq Unexpired \cup {c}
      BY <2>1 DEF Unexpired
    <3>2. c \notin Unexpired
      BY <1>2 DEF Acquire, Unexpired
    <3>3. Cardinality(Unexpired \cup {c}) = Cardinality(Unexpired) + 1 /\ IsFiniteSet(Unexpired \cup {c})
      BY <1>0, <3>2, FS_AddElement
    <3>4. Cardinality(Unexpired') <= Cardinality(Unexpired \cup {c}) /\ Cardinality(Unexpired') \in Nat
      BY <3>1, <3>3, FS_Subset, FS_CardinalityType
    <3> QED
      BY <1>0, <2>1, <3>3, <3>4, CapAssumption DEF MembersWithinCap, BelowCap
  <2>2. CASE members' = Unexpired /\ UNCHANGED score
    BY <1>1, <2>2 DEF Unexpired
  <2> QED
    BY <1>2, <2>1, <2>2 DEF Acquire
<1>3. ASSUME NEW c \in Connections, RunRefresh(c) PROVE MembersWithinCap'
  <2>1. members' = Unexpired
    BY <1>3 DEF RunRefresh, Refreshed
  <2> QED
    BY <1>1, <2>1 DEF Unexpired
<1>4. ASSUME NEW c \in Connections, Release(c) PROVE MembersWithinCap'
  <2>1. members' \subseteq members /\ score' = score
    BY <1>4 DEF Release
  <2> QED
    BY <1>1, <2>1 DEF Unexpired
<1>5. CASE Tick
  <2>1. members' = members /\ \A c \in members : score'[c] < TTL => score[c] < TTL
    BY <1>0, <1>5, Times DEF Tick
  <2> QED
    BY <1>1, <2>1 DEF Unexpired
<1>6. CASE UNCHANGED <<members, score>>
  BY <1>1, <1>6 DEF Unexpired
<1> QED
  BY <1>2, <1>3, <1>4, <1>5, <1>6
  DEF Next, vars, clientVars, Acquired, SendRefresh, Reply, RefreshFails, Crash, LateLost

-----------------------------------------------------------------------------
\* What one connection does to its own clocks, and what time does to all of them.
LEMMA TypeStep ==
    ASSUME TypeOK, Timed, [Next]_vars
    PROVE  TypeOK'
<1> USE Times DEF TypeOK
<1>1. ASSUME NEW c \in Connections,
             \/ Acquire(c) \/ Acquired(c) \/ SendRefresh(c) \/ Reply(c) \/ RefreshFails(c)
             \/ Release(c) \/ Crash(c) \/ LateLost(c)
      PROVE  TypeOK'
  BY <1>1 DEF Acquire, Acquired, SendRefresh, Reply, RefreshFails, Release, Crash, LateLost,
              Unexpired, clientVars
<1>2. ASSUME NEW c \in Connections, RunRefresh(c) PROVE TypeOK'
  BY <1>2 DEF RunRefresh, Refreshed, Unexpired
<1>3. CASE Tick
  <2>1. UNCHANGED <<members, pc, reply, late>>
    BY <1>3 DEF Tick
  <2>2. score' \in [Connections -> 0..TTL]
    BY <1>3 DEF Tick
  <2>3. \A c \in Connections : c \in Live =>
           \/ pc[c] = "open" /\ ticker[c] < Interval /\ confirmed[c] < TTL + ticker[c]
           \/ /\ pc[c] = "calling" /\ call[c] < Timeout
              /\ ticker[c] <= call[c] /\ confirmed[c] < TTL + Interval + call[c]
    BY <1>3 DEF Tick, Live, Timed
  <2>4. \A c \in Live : confirmed[c] + 1 \in 0..Horizon /\ ticker[c] + 1 \in 0..Interval + Timeout
    BY <2>3, Clocks DEF Live
  <2>5. confirmed' \in [Connections -> 0..Horizon] /\ ticker' \in [Connections -> 0..Interval + Timeout]
    BY <1>3, <2>4 DEF Tick
  <2>6. call' \in [Connections -> 0..Timeout]
    BY <1>3 DEF Tick
  <2> QED
    BY <2>1, <2>2, <2>5, <2>6
<1>4. CASE UNCHANGED vars
  BY <1>4 DEF vars
<1> QED
  BY <1>1, <1>2, <1>3, <1>4 DEF Next

LEMMA TimedStep ==
    ASSUME TypeOK, Timed, [Next]_vars
    PROVE  Timed'
<1> USE Times
<1>0. /\ pc \in [Connections -> {"closed", "acquiring", "open", "calling", "cancelled"}]
      /\ confirmed \in [Connections -> 0..Horizon] /\ ticker \in [Connections -> 0..Interval + Timeout]
      /\ call \in [Connections -> 0..Timeout]
  BY DEF TypeOK
<1>1. ASSUME NEW c \in Connections, Acquire(c) \/ Release(c) \/ Crash(c) PROVE Timed'
  BY <1>0, <1>1 DEF Acquire, Release, Crash, Timed
<1>2. ASSUME NEW c \in Connections, Acquired(c) PROVE Timed'
  BY <1>0, <1>2 DEF Acquired, Timed
<1>3. ASSUME NEW c \in Connections, SendRefresh(c) PROVE Timed'
  BY <1>0, <1>3 DEF SendRefresh, Timed
<1>4. ASSUME NEW c \in Connections, Reply(c) PROVE Timed'
  BY <1>0, <1>4 DEF Reply, Timed
<1>5. ASSUME NEW c \in Connections, RefreshFails(c) PROVE Timed'
  BY <1>0, <1>5 DEF RefreshFails, TooLong, Timed
<1>6. ASSUME NEW c \in Connections, RunRefresh(c) \/ LateLost(c) PROVE Timed'
  BY <1>6 DEF RunRefresh, LateLost, clientVars, Timed
<1>7. CASE Tick
  <2>1. pc' = pc
    BY <1>7 DEF Tick
  <2>2. ASSUME NEW c \in Connections, pc[c] = "open"
        PROVE  ticker'[c] <= Interval /\ confirmed'[c] < TTL + ticker'[c]
    <3>1. ticker'[c] = ticker[c] + 1 /\ confirmed'[c] = confirmed[c] + 1 /\ ticker[c] < Interval
      BY <1>7, <2>2 DEF Tick, Live
    <3>2. confirmed[c] < TTL + ticker[c]
      BY <2>2 DEF Timed
    <3> QED
      BY <3>1, <3>2, Clocks
  <2>3. ASSUME NEW c \in Connections, pc[c] = "calling"
        PROVE  ticker'[c] <= call'[c] /\ confirmed'[c] < TTL + Interval + call'[c]
    <3>1. ticker'[c] = ticker[c] + 1 /\ confirmed'[c] = confirmed[c] + 1 /\ call'[c] = call[c] + 1
      BY <1>7, <2>3 DEF Tick, Live
    <3>2. ticker[c] <= call[c] /\ confirmed[c] < TTL + Interval + call[c]
      BY <2>3 DEF Timed
    <3> QED
      BY <3>1, <3>2, Clocks
  <2>4. \A c \in Connections : pc[c] # "cancelled"
    BY <1>7 DEF Tick
  <2> QED
    BY <2>1, <2>2, <2>3, <2>4 DEF Timed
<1>8. CASE UNCHANGED vars
  BY <1>8 DEF vars, Timed
<1> QED
  BY <1>1, <1>2, <1>3, <1>4, <1>5, <1>6, <1>7, <1>8 DEF Next

\* No purge removes a member whose answer is fresh.
LEMMA FreshIsUnexpired ==
    ASSUME TypeOK, Fresh, NEW c \in Connections,
           \/ pc[c] = "acquiring" \/ (pc[c] = "calling" /\ reply[c] = "owned")
           \/ c \in Live /\ confirmed[c] + Timeout < TTL
    PROVE  c \in Unexpired
<1>1. c \in members /\ score[c] < TTL
  BY Clocks, Times DEF Fresh
<1> QED
  BY <1>1 DEF Unexpired

LEMMA FreshStep ==
    ASSUME TypeOK, Fresh, [Next]_vars
    PROVE  Fresh'
<1> USE Times
<1>0. /\ pc \in [Connections -> {"closed", "acquiring", "open", "calling", "cancelled"}]
      /\ confirmed \in [Connections -> 0..Horizon] /\ reply \in [Connections -> {"none", "owned", "missing"}]
      /\ call \in [Connections -> 0..Timeout] /\ score \in [Connections -> 0..TTL]
  BY DEF TypeOK
<1> DEFINE expected(c) == pc[c] = "acquiring" \/ (pc[c] = "calling" /\ reply[c] = "owned")
<1>1. ASSUME NEW c \in Connections, Acquire(c) PROVE Fresh'
  <2>1. UNCHANGED <<confirmed, reply>> /\ \A d \in Connections : d # c => pc'[d] = pc[d] /\ call'[d] = call[d]
    BY <1>0, <1>1 DEF Acquire
  <2>2. \A d \in Connections : d \in Unexpired /\ d # c => d \in members' /\ score'[d] = score[d]
    BY <1>0, <1>1 DEF Acquire, Unexpired
  <2>3. \/ pc'[c] = "closed"
        \/ pc'[c] = "acquiring" /\ c \in members' /\ score'[c] = 0 /\ call'[c] = 0
    BY <1>0, <1>1 DEF Acquire
  <2> QED
    BY <2>1, <2>2, <2>3, FreshIsUnexpired DEF Fresh, Live
<1>2. ASSUME NEW c \in Connections, Acquired(c) PROVE Fresh'
  <2>1. /\ UNCHANGED <<members, score, reply>> /\ pc[c] = "acquiring"
        /\ \A d \in Connections : d # c => pc'[d] = pc[d] /\ call'[d] = call[d] /\ confirmed'[d] = confirmed[d]
        /\ pc'[c] = "closed" \/ (pc'[c] = "open" /\ confirmed'[c] = 0)
    BY <1>0, <1>2 DEF Acquired
  <2>2. c \in members /\ score[c] <= Timeout
    BY <2>1, Clocks DEF Fresh
  <2> QED
    BY <2>1, <2>2 DEF Fresh, Live
<1>3. ASSUME NEW c \in Connections, SendRefresh(c) PROVE Fresh'
  <2>1. /\ UNCHANGED <<members, score, confirmed>> /\ pc[c] = "open" /\ pc'[c] = "calling" /\ reply'[c] = "none"
        /\ \A d \in Connections : d # c => pc'[d] = pc[d] /\ call'[d] = call[d] /\ reply'[d] = reply[d]
    BY <1>0, <1>3 DEF SendRefresh
  <2> QED
    BY <2>1 DEF Fresh, Live
<1>4. ASSUME NEW c \in Connections, RunRefresh(c) PROVE Fresh'
  <2>1. /\ UNCHANGED <<pc, confirmed, call>> /\ members' = Unexpired
        /\ \A d \in Connections : d # c => reply'[d] = reply[d] /\ score'[d] = score[d]
        /\ c \in members' => score'[c] = 0
        /\ reply'[c] = "owned" /\ pc[c] = "calling" => c \in members' \/ reply[c] = "owned"
    BY <1>0, <1>4 DEF RunRefresh, Refreshed
  <2>2. score'[c] = 0 \/ score'[c] = score[c]
    BY <1>0, <1>4 DEF RunRefresh
  <2> QED
    BY <2>1, <2>2, FreshIsUnexpired, Clocks DEF Fresh, Live
<1>5. ASSUME NEW c \in Connections, Reply(c) PROVE Fresh'
  <2>1. /\ UNCHANGED <<members, score>> /\ pc[c] = "calling" /\ reply'[c] = "none"
        /\ \A d \in Connections : d # c =>
              pc'[d] = pc[d] /\ call'[d] = call[d] /\ confirmed'[d] = confirmed[d] /\ reply'[d] = reply[d]
        /\ \/ reply[c] = "owned" /\ pc'[c] = "open" /\ confirmed'[c] = 0
           \/ pc'[c] = "cancelled" /\ confirmed'[c] = confirmed[c]
    BY <1>0, <1>5 DEF Reply, Owned
  <2>2. reply[c] = "owned" => c \in members /\ score[c] <= Timeout
    BY <2>1, Clocks DEF Fresh
  <2> QED
    BY <2>1, <2>2 DEF Fresh, Live
<1>6. ASSUME NEW c \in Connections, RefreshFails(c) \/ Crash(c) PROVE Fresh'
  <2>1. /\ UNCHANGED <<members, score, confirmed>> /\ reply'[c] = "none" /\ pc'[c] \in {"open", "cancelled", "closed"}
        /\ \A d \in Connections : d # c => pc'[d] = pc[d] /\ call'[d] = call[d] /\ reply'[d] = reply[d]
        /\ pc'[c] = "closed" \/ pc[c] = "calling"
    BY <1>0, <1>6 DEF RefreshFails, Crash
  <2> QED
    BY <2>1 DEF Fresh, Live
<1>7. ASSUME NEW c \in Connections, Release(c) PROVE Fresh'
  <2>1. /\ UNCHANGED <<score, confirmed, call, reply>> /\ pc'[c] = "closed"
        /\ members \ {c} \subseteq members'
        /\ \A d \in Connections : d # c => pc'[d] = pc[d]
    BY <1>0, <1>7 DEF Release
  <2> QED
    BY <2>1 DEF Fresh, Live
<1>8. CASE Tick
  <2>1. UNCHANGED <<members, pc, reply>>
    BY <1>8 DEF Tick
  <2>2. \A c \in members : c \in Connections => score'[c] \in Nat /\ score'[c] <= score[c] + 1
    BY <1>0, <1>8 DEF Tick
  <2>3. ASSUME NEW c \in Connections, expected(c) PROVE c \in members /\ score'[c] <= call'[c]
    <3>1. c \in members /\ score[c] <= call[c]
      BY <2>3 DEF Fresh
    <3>2. call'[c] = call[c] + 1
      BY <1>8, <2>3 DEF Tick
    <3> QED
      BY <2>2, <3>1, <3>2, Clocks
  <2>4. ASSUME NEW c \in Connections, c \in Live, confirmed'[c] + Timeout < TTL
        PROVE  c \in members /\ score'[c] <= confirmed'[c] + Timeout
    <3>1. confirmed'[c] = confirmed[c] + 1
      BY <1>8, <2>4 DEF Tick
    <3>2. confirmed[c] + Timeout < TTL
      BY <2>4, <3>1, Clocks
    <3>3. c \in members /\ score[c] <= confirmed[c] + Timeout
      BY <2>4, <3>2 DEF Fresh
    <3> QED
      BY <2>2, <3>1, <3>3, Clocks
  <2> QED
    BY <2>1, <2>3, <2>4 DEF Fresh, Live
<1>9. CASE UNCHANGED <<members, score, clientVars>>
  BY <1>9 DEF clientVars, Fresh, Live
<1> QED
  BY <1>1, <1>2, <1>3, <1>4, <1>5, <1>6, <1>7, <1>8, <1>9 DEF Next, LateLost, vars, clientVars

LEMMA InvHolds == Spec => []Inv
<1>1. Inv /\ [Next]_vars => Inv'
  BY TypeStep, TimedStep, FreshStep, MembersStep DEF Inv
<1> QED
  BY <1>1, InvInit, PTL DEF Spec

-----------------------------------------------------------------------------
\* The clocks of the refresh loop stay within the bounds that the constants of
\* concurrency_service.go give them.
THEOREM TypeCorrect == Spec => []TypeOK
<1>1. Inv => TypeOK
  BY DEF Inv
<1> QED
  BY <1>1, InvHolds, PTL

\* Over any number of instances and connections, lost and late refreshes and crashes, at
\* most MaxConnections are served with a lease confirmed within its lifetime.
THEOREM CapHolds == Spec => []ConfirmedWithinCap
<1>1. Inv => ConfirmedWithinCap
  <2> SUFFICES ASSUME Inv PROVE ConfirmedWithinCap
    OBVIOUS
  <2>1. {c \in Live : confirmed[c] + Timeout < TTL} \subseteq Unexpired
    BY FreshIsUnexpired DEF Inv, Live
  <2> QED
    BY <2>1, Shrinking DEF Inv, ConfirmedWithinCap
<1> QED
  BY <1>1, InvHolds, PTL

\* However many refreshes fail, no connection is served unconfirmed for the lifetime of a
\* lease, one interval of the loop and one timeout.
THEOREM UnconfirmedIsBounded == Spec => []UnconfirmedBounded
<1>1. Inv => UnconfirmedBounded
  <2> SUFFICES ASSUME Inv, NEW c \in Live PROVE confirmed[c] < Horizon
    BY DEF UnconfirmedBounded
  <2>1. c \in Connections
    BY DEF Live
  <2>2. CASE pc[c] = "open"
    <3>1. ticker[c] <= Interval /\ confirmed[c] < TTL + ticker[c]
      BY <2>1, <2>2 DEF Inv, Timed
    <3> QED
      BY <2>1, <3>1, Clocks, Times DEF Inv
  <2>3. CASE pc[c] = "calling"
    <3>1. confirmed[c] < TTL + Interval + call[c]
      BY <2>1, <2>3 DEF Inv, Timed
    <3> QED
      BY <2>1, <3>1, Clocks, Times DEF Inv
  <2>4. CASE pc[c] = "cancelled"
    BY <2>1, <2>4 DEF Inv, Timed
  <2> QED
    BY <2>2, <2>3, <2>4 DEF Live
<1> QED
  BY <1>1, InvHolds, PTL
=============================================================================
