------------------------- MODULE Idempotency_proofs -------------------------
(***************************************************************************)
(* For every set of calls and every choice of the times: the types, and    *)
(* mutual exclusion of the owners of a record. Exclusion needs two bounds  *)
(* on the environment, both stated in the theorem: a call claims within    *)
(* ProcessingTimeout of its clock read, and ends within TTL of it.         *)
(***************************************************************************)
EXTENDS Idempotency, TLAPS

\* Every answer without a body is an answer.
LEMMA AnswerType == \A k \in Kinds : Answer(k) \in Answers
  BY DEF Answer, Answers, Bodies

\* Going to a label, returning and owning keep the types of what they write.
LEMMA GotoType ==
  ASSUME TypeOK, NEW r \in Requests, NEW l \in Labels, Goto(r, l)
  PROVE  pc' \in [Requests -> Labels]
  BY DEF TypeOK, Goto

LEMMA ReturnType ==
  ASSUME TypeOK, NEW r \in Requests, NEW a \in Answers, Return(r, a)
  PROVE  pc' \in [Requests -> Labels] /\ result' \in [Requests -> Answers]
<1>1. result' = [result EXCEPT ![r] = a] /\ Goto(r, "done")
  BY DEF Return
<1>2. "done" \in Labels
  BY DEF Labels
<1>3. QED
  BY <1>1, <1>2, GotoType DEF TypeOK

CallTypes == /\ pc' \in [Requests -> Labels]
             /\ result' \in [Requests -> Answers]
             /\ rid' \in [Requests -> Nat]
             /\ claimed' \in [Requests -> Nat]

LEMMA OwnType ==
  ASSUME TypeOK, NEW r \in Requests, NEW id \in Nat, Own(r, id) \/ ReplyLost(r)
  PROVE  CallTypes
<1>1. CASE Own(r, id)
  BY <1>1, GotoType DEF Own, TypeOK, CallTypes, Labels, Active, Owning
<1>2. CASE ReplyLost(r)
  <2>1. Answer("unavailable") \in Answers
    BY AnswerType DEF Kinds
  <2>2. Return(r, Answer("unavailable")) /\ UNCHANGED <<rid, claimed>>
    BY <1>2 DEF ReplyLost
  <2>3. QED
    BY <2>1, <2>2, ReturnType DEF TypeOK, CallTypes
<1>3. QED
  BY <1>1, <1>2

LEMMA ByStatusType ==
  ASSUME TypeOK, NEW r \in Requests, ByStatus(r, row)
  PROVE  pc' \in [Requests -> Labels] /\ result' \in [Requests -> Answers]
<1>1. /\ Answer("unavailable") \in Answers /\ Answer("in_progress") \in Answers
      /\ Answer("backoff") \in Answers /\ Answer("key_conflict") \in Answers
  BY AnswerType DEF Kinds
<1>2. [kind |-> "replay", body |-> row.body] \in Answers
  BY DEF TypeOK, Rows, Answers, Kinds
<1>3. CASE row.status = "succeeded"
  BY <1>1, <1>2, <1>3, ReturnType DEF ByStatus
<1>4. CASE row.status = "processing"
  BY <1>1, <1>4, ReturnType DEF ByStatus
<1>5. CASE row.status = "failed_retryable"
  BY <1>1, <1>5, ReturnType, GotoType DEF ByStatus, TypeOK, Labels, Active, Preparing
<1>6. CASE row.status \notin {"succeeded", "processing", "failed_retryable"}
  BY <1>1, <1>6, ReturnType DEF ByStatus
<1>7. QED
  BY <1>3, <1>4, <1>5, <1>6

LEMMA TryReclaimType ==
  ASSUME TypeOK, NEW r \in Requests, TryReclaim(r)
  PROVE  CallTypes /\ row' \in Rows
<1>1. seen[r].id \in Nat
  BY DEF TypeOK
<1>2. CallTypes
  BY <1>1, OwnType DEF TryReclaim
<1>3. row' \in Rows
  <2>1. row' = [id |-> row.id, fp |-> row.fp, status |-> "processing",
                locked |-> at[r] + ProcessingTimeout, expires |-> at[r] + TTL,
                body |-> row.body]
    BY DEF TryReclaim, TypeOK, Rows
  <2>2. QED
    BY <2>1, TimesAssumption DEF TypeOK, Rows, Statuses
<1>4. QED
  BY <1>2, <1>3

\* Every step of a call, of the cleanup or of the clock keeps the types.
LEMMA TypeStep == TypeOK /\ [Next]_vars => TypeOK'
<1> SUFFICES ASSUME TypeOK, [Next]_vars PROVE TypeOK'
  OBVIOUS
<1>a. \A k \in Kinds : Answer(k) \in Answers
  BY AnswerType
<1>s. [id |-> row.id, status |-> row.status] \in [id : Nat, status : Statuses]
  BY DEF TypeOK, Rows
<1>1. ASSUME NEW r \in Requests, Begin(r) PROVE TypeOK'
  BY <1>1, GotoType DEF Begin, TypeOK, Labels, Active, Preparing
<1>2. ASSUME NEW r \in Requests, CreateProcessing(r) PROVE TypeOK'
  <2>1. CASE Absent
    <3>1. row' \in Rows
      BY <1>2, <2>1, TimesAssumption
         DEF CreateProcessing, NoConflict, TypeOK, Rows, Statuses, Bodies, Payloads
    <3>2. CallTypes
      BY <1>2, <2>1, OwnType DEF CreateProcessing, NoConflict, TypeOK
    <3>3. QED
      BY <1>2, <2>1, <3>1, <3>2 DEF CreateProcessing, NoConflict, CallTypes, TypeOK
  <2>2. CASE ~Absent
    BY <1>2, <2>2, GotoType DEF CreateProcessing, NoConflict, TypeOK, Labels, Active, Preparing
  <2>3. QED
    BY <2>1, <2>2
<1>3. ASSUME NEW r \in Requests, GetExisting(r) PROVE TypeOK'
  <2>1. pc' \in [Requests -> Labels] /\ result' \in [Requests -> Answers]
    <3>1. CASE Return(r, Answer("unavailable")) \/ Return(r, Answer("key_conflict"))
      BY <1>a, <3>1, ReturnType DEF Kinds
    <3>2. CASE Goto(r, "reclaim_expired") /\ UNCHANGED result
      BY <3>2, GotoType DEF TypeOK, Labels, Active, Preparing
    <3>3. CASE ByStatus(r, row)
      BY <3>3, ByStatusType
    <3>4. QED
      BY <1>3, <3>1, <3>2, <3>3 DEF GetExisting
  <2>2. QED
    BY <1>3, <1>s, <2>1 DEF GetExisting, TypeOK
<1>4. ASSUME NEW r \in Requests, GetLatest(r) PROVE TypeOK'
  <2>1. pc' \in [Requests -> Labels] /\ result' \in [Requests -> Answers]
    <3>1. CASE Return(r, Answer("unavailable")) \/ Return(r, Answer("key_conflict"))
      BY <1>a, <3>1, ReturnType DEF Kinds
    <3>2. CASE ByStatus(r, row)
      BY <3>2, ByStatusType
    <3>3. QED
      BY <1>4, <3>1, <3>2 DEF GetLatest
  <2>2. QED
    BY <1>4, <1>s, <2>1 DEF GetLatest, TypeOK
<1>5. ASSUME NEW r \in Requests, ReclaimExpired(r) PROVE TypeOK'
  <2>1. CASE TryReclaim(r)
    BY <1>5, <2>1, TryReclaimType DEF ReclaimExpired, TypeOK, CallTypes
  <2>2. CASE Goto(r, "get_latest") /\ UNCHANGED <<row, rid, claimed, result>>
    BY <1>5, <2>2, GotoType DEF ReclaimExpired, TypeOK, Labels, Active, Preparing
  <2>3. QED
    BY <1>5, <2>1, <2>2 DEF ReclaimExpired
<1>6. ASSUME NEW r \in Requests, ReclaimFailed(r) PROVE TypeOK'
  <2>1. CASE TryReclaim(r)
    BY <1>6, <2>1, TryReclaimType DEF ReclaimFailed, TypeOK, CallTypes
  <2>2. CASE Return(r, Answer("in_progress")) /\ UNCHANGED <<row, rid, claimed>>
    BY <1>6, <1>a, <2>2, ReturnType DEF ReclaimFailed, TypeOK, Kinds
  <2>3. QED
    BY <1>6, <2>1, <2>2 DEF ReclaimFailed
<1>7. ASSUME NEW r \in Requests, Execute(r) PROVE TypeOK'
  <2>1. effects' \subseteq Requests
    BY <1>7 DEF Execute, TypeOK
  <2>2. pc' \in [Requests -> Labels] /\ result' \in [Requests -> Answers]
    BY <1>7, <1>a, ReturnType, GotoType
       DEF Execute, AfterFailure, TypeOK, Labels, Active, Owning, Kinds
  <2>3. QED
    BY <1>7, <2>1, <2>2 DEF Execute, TypeOK
<1>8. ASSUME NEW r \in Requests, MarkSucceeded(r) PROVE TypeOK'
  <2>1. row' \in Rows
    <3>1. CASE UNCHANGED row
      BY <3>1 DEF TypeOK
    <3>2. CASE \E b \in {r, Garbled} :
                 row' = [row EXCEPT !.status = "succeeded", !.body = b,
                                    !.locked = 0, !.expires = at[r] + TTL]
      <4>1. PICK b \in {r, Garbled} :
                 row' = [id |-> row.id, fp |-> row.fp, status |-> "succeeded", locked |-> 0,
                         expires |-> at[r] + TTL, body |-> b]
        BY <3>2 DEF TypeOK, Rows
      <4>2. QED
        BY <4>1, TimesAssumption DEF TypeOK, Rows, Bodies, Statuses
    <3>3. QED
      BY <1>8, <3>1, <3>2 DEF MarkSucceeded
  <2>2. [kind |-> "ok", body |-> r] \in Answers
    BY DEF Answers, Kinds, Bodies
  <2>3. pc' \in [Requests -> Labels] /\ result' \in [Requests -> Answers]
    BY <1>8, <1>a, <2>2, ReturnType DEF MarkSucceeded, Kinds
  <2>4. QED
    BY <1>8, <2>1, <2>3 DEF MarkSucceeded, TypeOK
<1>9. ASSUME NEW r \in Requests, MarkFailedRetryable(r) PROVE TypeOK'
  <2>1. row' \in Rows
    <3>1. CASE UNCHANGED row
      BY <3>1 DEF TypeOK
    <3>2. CASE row' = [row EXCEPT !.status = FailedStatus,
                                  !.locked = clock + FailedRetryBackoff,
                                  !.expires = at[r] + TTL]
      <4>1. row' = [id |-> row.id, fp |-> row.fp, status |-> "failed_retryable",
                    locked |-> clock + FailedRetryBackoff, expires |-> at[r] + TTL,
                    body |-> row.body]
        BY <3>2 DEF TypeOK, Rows, FailedStatus
      <4>2. QED
        BY <4>1, TimesAssumption DEF TypeOK, Rows, Statuses
    <3>3. QED
      BY <1>9, <3>1, <3>2 DEF MarkFailedRetryable
  <2>2. pc' \in [Requests -> Labels] /\ result' \in [Requests -> Answers]
    BY <1>9, <1>a, ReturnType DEF MarkFailedRetryable, Kinds
  <2>3. QED
    BY <1>9, <2>1, <2>2 DEF MarkFailedRetryable, TypeOK
<1>10. ASSUME NEW r \in Requests, StoreError(r) PROVE TypeOK'
  <2>1. pc' \in [Requests -> Labels] /\ result' \in [Requests -> Answers]
    BY <1>10, <1>a, ReturnType DEF StoreError, Kinds
  <2>2. QED
    BY <1>10, <2>1 DEF StoreError, TypeOK
<1>11. ASSUME NEW r \in Requests, Crash(r) PROVE TypeOK'
  <2>1. pc' \in [Requests -> Labels]
    BY <1>11, GotoType DEF Crash, Labels
  <2>2. QED
    BY <1>11, <2>1 DEF Crash, TypeOK
<1>12. CASE DeleteExpired
  <2>1. row' \in Rows
    BY <1>12 DEF DeleteExpired, TypeOK, Rows, Statuses, Bodies
  <2>2. QED
    BY <1>12, <2>1 DEF DeleteExpired, callVars, TypeOK
<1>13. CASE Tick
  BY <1>13 DEF Tick, callVars, TypeOK
<1>14. CASE UNCHANGED vars
  BY <1>14 DEF vars, TypeOK
<1>15. QED
  BY <1>1, <1>2, <1>3, <1>4, <1>5, <1>6, <1>7, <1>8, <1>9, <1>10, <1>11, <1>12,
     <1>13, <1>14 DEF Next, Call

LEMMA TypeInit == Init => TypeOK
  BY DEF Init, TypeOK, Rows, Bodies, Statuses, Answers, Answer, Kinds, Labels

\* The types hold in every state of Execute, the repository and the cleanup.
THEOREM TypeCorrect == Spec => []TypeOK
  BY TypeInit, TypeStep, PTL DEF Spec

-----------------------------------------------------------------------------
\* What the clock knows: calls started in the past and did not overstay.
OnTime ==
    /\ \A r \in Requests : at[r] <= clock
    /\ \A r \in Requests : pc[r] \in Preparing => clock < at[r] + ClaimTime
    /\ \A r \in Requests : pc[r] \in Active => clock < at[r] + Life

\* The record an owner works under is the one it claimed.
OwnerHolds ==
    \A r \in Requests :
        pc[r] \in Owning =>
            /\ row.id # 0 /\ row.id = rid[r]
            /\ row.status = "processing"
            /\ row.locked = at[r] + ProcessingTimeout
            /\ row.expires = at[r] + TTL

\* A call about to reclaim has seen a record; while there is an owner, a call that
\* saw the record expire started before the owner's lock ends.
ReclaimersLate ==
    \A s \in Requests :
        /\ pc[s] \in {"reclaim_expired", "reclaim_failed"} => seen[s].id # 0
        /\ pc[s] = "reclaim_expired" =>
            \A r \in Requests : pc[r] \in Owning => at[s] < row.locked

IInv == TypeOK /\ OnTime /\ OwnerHolds /\ ReclaimersLate /\ OneOwner

Bounded == ClaimTime <= ProcessingTimeout /\ Life <= TTL

LEMMA InvInit == Init => IInv
  BY TypeInit DEF Init, IInv, OnTime, OwnerHolds, ReclaimersLate, OneOwner, Preparing,
     Owning, Active

LEMMA InvStep == Bounded /\ IInv /\ [Next]_vars => IInv'
<1> SUFFICES ASSUME Bounded, IInv, [Next]_vars PROVE IInv'
  OBVIOUS
<1>t. TypeOK'
  BY TypeStep DEF IInv
<1> USE TimesAssumption DEF IInv, TypeOK, OnTime, OwnerHolds, ReclaimersLate, OneOwner,
      Active, Preparing, Owning, Rows, Labels
<1>1. ASSUME NEW r \in Requests, Begin(r) PROVE IInv'
  BY <1>t, <1>1 DEF Begin, Goto
<1>2. ASSUME NEW r \in Requests, CreateProcessing(r) PROVE IInv'
  <2>1. CASE Absent
    <3>1. \A s \in Requests : pc[s] \notin Owning
      BY <2>1 DEF Absent
    <3>2. row'.id = nextId /\ row'.id # 0
      BY <1>2, <2>1 DEF CreateProcessing, NoConflict
    <3>3. CASE Own(r, nextId)
      <4>1. pc' = [pc EXCEPT ![r] = "run"] /\ rid' = [rid EXCEPT ![r] = nextId]
        BY <3>3 DEF Own, Goto
      <4>2. /\ row'.status = "processing" /\ row'.locked = at[r] + ProcessingTimeout
            /\ row'.expires = at[r] + TTL
            /\ at' = at /\ clock' = clock /\ seen' = seen
        BY <1>2, <2>1 DEF CreateProcessing, NoConflict
      <4>3. pc[r] = "create"
        BY <1>2 DEF CreateProcessing
      <4>4. \A s \in Requests : at[s] < row'.locked
        BY <4>2, <4>3 DEF Bounded
      <4>5. QED
        BY <1>t, <3>1, <3>2, <4>1, <4>2, <4>3, <4>4
    <3>4. CASE ReplyLost(r)
      BY <1>t, <1>2, <2>1, <3>1, <3>4 DEF CreateProcessing, NoConflict, ReplyLost, Return, Goto
    <3>5. QED
      BY <1>2, <2>1, <3>3, <3>4 DEF CreateProcessing, NoConflict
  <2>2. CASE ~Absent
    BY <1>t, <1>2, <2>2 DEF CreateProcessing, NoConflict, Goto
  <2>3. QED
    BY <2>1, <2>2
<1>3. ASSUME NEW r \in Requests, GetExisting(r) PROVE IInv'
  BY <1>t, <1>3 DEF GetExisting, ByStatus, Return, Goto, Bounded, Absent
<1>4. ASSUME NEW r \in Requests, GetLatest(r) PROVE IInv'
  BY <1>t, <1>4 DEF GetLatest, ByStatus, Return, Goto, Bounded, Absent
<1>c. ASSUME NEW r \in Requests, row.id = seen[r].id, row.locked <= at[r], TryReclaim(r),
             \/ pc[r] = "reclaim_expired"
             \/ pc[r] = "reclaim_failed" /\ row.status = "failed_retryable",
             UNCHANGED <<clock, nextId, at, seen, effects>>
      PROVE  IInv'
  <2>1. \A s \in Requests : pc[s] \notin Owning
    BY <1>c
  <2>2. /\ row'.id = seen[r].id /\ row'.id # 0 /\ row'.status = "processing"
        /\ row'.locked = at[r] + ProcessingTimeout /\ row'.expires = at[r] + TTL
    BY <1>c DEF TryReclaim
  <2>3. \A s \in Requests : at[s] < row'.locked
    BY <1>c, <2>2 DEF Bounded
  <2>4. CASE Own(r, seen[r].id)
    <3>1. pc' = [pc EXCEPT ![r] = "run"] /\ rid' = [rid EXCEPT ![r] = seen[r].id]
      BY <2>4 DEF Own, Goto
    <3>2. QED
      BY <1>t, <1>c, <2>1, <2>2, <2>3, <3>1
  <2>5. CASE ReplyLost(r)
    <3>1. pc' = [pc EXCEPT ![r] = "done"]
      BY <2>5 DEF ReplyLost, Return, Goto
    <3>2. QED
      BY <1>t, <1>c, <2>1, <3>1
  <2>6. QED
    BY <1>c, <2>4, <2>5 DEF TryReclaim
<1>5. ASSUME NEW r \in Requests, ReclaimExpired(r) PROVE IInv'
  <2>1. CASE Reclaimable(r, seen[r].status)
    <3>1. /\ pc[r] = "reclaim_expired" /\ TryReclaim(r)
          /\ UNCHANGED <<clock, nextId, at, seen, effects>>
          /\ row.id = seen[r].id /\ row.locked <= at[r]
      BY <1>5, <2>1 DEF ReclaimExpired, Reclaimable
    <3>2. QED
      BY <1>c, <3>1
  <2>2. CASE ~Reclaimable(r, seen[r].status)
    BY <1>t, <1>5, <2>2 DEF ReclaimExpired, Goto
  <2>3. QED
    BY <2>1, <2>2
<1>6. ASSUME NEW r \in Requests, ReclaimFailed(r) PROVE IInv'
  <2>1. CASE Reclaimable(r, "failed_retryable")
    BY <1>6, <1>c, <2>1 DEF ReclaimFailed, Reclaimable
  <2>2. CASE ~Reclaimable(r, "failed_retryable")
    BY <1>t, <1>6, <2>2 DEF ReclaimFailed, Return, Goto
  <2>3. QED
    BY <2>1, <2>2
<1>7. ASSUME NEW r \in Requests, Execute(r) PROVE IInv'
  <2>1. PICK l \in {"mark_ok", "mark_failed", "done"} : pc' = [pc EXCEPT ![r] = l]
    BY <1>7 DEF Execute, AfterFailure, Return, Goto
  <2>2. pc[r] = "run" /\ UNCHANGED <<clock, row, at, seen, rid>>
    BY <1>7 DEF Execute
  <2>3. QED
    BY <1>t, <2>1, <2>2
<1>8. ASSUME NEW r \in Requests, MarkSucceeded(r) PROVE IInv'
  <2>1. /\ pc[r] = "mark_ok" /\ pc' = [pc EXCEPT ![r] = "done"]
        /\ UNCHANGED <<clock, at, seen, rid>>
    BY <1>8 DEF MarkSucceeded, Return, Goto
  <2>2. \A s \in Requests : pc'[s] \notin Owning
    BY <2>1
  <2>3. QED
    BY <1>t, <2>1, <2>2
<1>9. ASSUME NEW r \in Requests, MarkFailedRetryable(r) PROVE IInv'
  <2>1. /\ pc[r] = "mark_failed" /\ pc' = [pc EXCEPT ![r] = "done"]
        /\ UNCHANGED <<clock, at, seen, rid>>
    BY <1>9 DEF MarkFailedRetryable, Return, Goto
  <2>2. \A s \in Requests : pc'[s] \notin Owning
    BY <2>1
  <2>3. QED
    BY <1>t, <2>1, <2>2
<1>10. ASSUME NEW r \in Requests, StoreError(r) PROVE IInv'
  BY <1>t, <1>10 DEF StoreError, Return, Goto
<1>11. ASSUME NEW r \in Requests, Crash(r) PROVE IInv'
  BY <1>t, <1>11 DEF Crash, Goto
<1>12. CASE DeleteExpired
  BY <1>t, <1>12 DEF DeleteExpired, callVars, Bounded
<1>13. CASE Tick
  BY <1>t, <1>13 DEF Tick, callVars
<1>14. CASE UNCHANGED vars
  BY <1>t, <1>14 DEF vars
<1>15. QED
  BY <1>1, <1>2, <1>3, <1>4, <1>5, <1>6, <1>7, <1>8, <1>9, <1>10, <1>11, <1>12,
     <1>13, <1>14 DEF Next, Call

\* Owners of a record exclude one another, for any number of calls and any times
\* with ClaimTime <= ProcessingTimeout and Life <= TTL.
THEOREM OwnersExclude == Bounded => (Spec => []OneOwner)
<1> SUFFICES ASSUME Bounded PROVE Spec => []OneOwner
  OBVIOUS
<1>1. IInv /\ [Next]_vars => IInv'
  BY InvStep
<1>2. IInv => OneOwner
  BY DEF IInv
<1>3. QED
  BY InvInit, <1>1, <1>2, PTL DEF Spec
-----------------------------------------------------------------------------
\* A call that is done preparing keeps what it read, claimed and was given.
LEMMA PastMoves ==
    ASSUME TypeOK, [Next]_vars, NEW q \in Requests, pc[q] \notin Preparing \cup {"idle"}
    PROVE  /\ pc'[q] \notin Preparing \cup {"idle"}
           /\ seen'[q] = seen[q] /\ at'[q] = at[q] /\ rid'[q] = rid[q] /\ claimed'[q] = claimed[q]
           /\ result'[q].kind = "replay" => result[q].kind = "replay"
<1> DEFINE Kept == /\ pc'[q] \notin Preparing \cup {"idle"}
                   /\ seen'[q] = seen[q] /\ at'[q] = at[q] /\ rid'[q] = rid[q]
                   /\ claimed'[q] = claimed[q]
                   /\ result'[q].kind = "replay" => result[q].kind = "replay"
<1> USE DEF TypeOK, Preparing, Owning
<1>1. ASSUME NEW r \in Requests, Begin(r) PROVE Kept
  BY <1>1 DEF Begin, Goto
<1>2. ASSUME NEW r \in Requests, CreateProcessing(r) PROVE Kept
  <2>1. pc[r] = "create" /\ UNCHANGED <<at, seen>>
    BY <1>2 DEF CreateProcessing
  <2>2. \A p \in Requests \ {r} : /\ pc'[p] = pc[p] /\ rid'[p] = rid[p]
                                 /\ claimed'[p] = claimed[p] /\ result'[p] = result[p]
    BY <1>2 DEF CreateProcessing, Own, ReplyLost, Return, Goto
  <2> QED
    BY <2>1, <2>2
<1>3. ASSUME NEW r \in Requests, GetExisting(r) \/ GetLatest(r) PROVE Kept
  <2>1. pc[r] \in {"get", "get_latest"} /\ UNCHANGED <<at, rid, claimed>>
    BY <1>3 DEF GetExisting, GetLatest
  <2>2. \A p \in Requests \ {r} : pc'[p] = pc[p] /\ seen'[p] = seen[p] /\ result'[p] = result[p]
    BY <1>3 DEF GetExisting, GetLatest, ByStatus, Return, Goto
  <2> QED
    BY <2>1, <2>2
<1>4. ASSUME NEW r \in Requests, ReclaimExpired(r) \/ ReclaimFailed(r) PROVE Kept
  <2>1. pc[r] \in {"reclaim_expired", "reclaim_failed"} /\ UNCHANGED <<at, seen>>
    BY <1>4 DEF ReclaimExpired, ReclaimFailed
  <2>2. \A p \in Requests \ {r} : /\ pc'[p] = pc[p] /\ rid'[p] = rid[p]
                                 /\ claimed'[p] = claimed[p] /\ result'[p] = result[p]
    BY <1>4 DEF ReclaimExpired, ReclaimFailed, TryReclaim, Own, ReplyLost, Return, Goto
  <2> QED
    BY <2>1, <2>2
<1>5. ASSUME NEW r \in Requests, Execute(r) PROVE Kept
  BY <1>5 DEF Execute, AfterFailure, Return, Goto, Answer
<1>6. ASSUME NEW r \in Requests, MarkSucceeded(r) PROVE Kept
  <2>1. UNCHANGED <<at, seen, rid, claimed>> /\ pc' = [pc EXCEPT ![r] = "done"]
    BY <1>6 DEF MarkSucceeded, Return, Goto
  <2>2. \/ result' = [result EXCEPT ![r] = [kind |-> "ok", body |-> r]]
        \/ result' = [result EXCEPT ![r] = [kind |-> "unavailable", body |-> NoBody]]
    BY <1>6 DEF MarkSucceeded, Return, Answer
  <2> QED
    BY <2>1, <2>2
<1>7. ASSUME NEW r \in Requests, MarkFailedRetryable(r) \/ StoreError(r) PROVE Kept
  <2>1. UNCHANGED <<at, seen, rid, claimed>> /\ pc' = [pc EXCEPT ![r] = "done"]
    BY <1>7 DEF MarkFailedRetryable, StoreError, Return, Goto
  <2>2. \E k \in {"error", "unavailable"} :
           result' = [result EXCEPT ![r] = [kind |-> k, body |-> NoBody]]
    BY <1>7 DEF MarkFailedRetryable, StoreError, Return, Answer
  <2> QED
    BY <2>1, <2>2
<1>8. ASSUME NEW r \in Requests, Crash(r) PROVE Kept
  BY <1>8 DEF Crash, Goto
<1>9. CASE DeleteExpired \/ Tick \/ UNCHANGED vars
  BY <1>9 DEF DeleteExpired, Tick, callVars, vars
<1> QED
  BY <1>1, <1>2, <1>3, <1>4, <1>5, <1>6, <1>7, <1>8, <1>9 DEF Next, Call

-----------------------------------------------------------------------------
\* What a call holds or is about to reclaim carries its payload, ids are not used twice, and a
\* succeeded record holds the response of a call of its payload.
Faithful ==
    /\ row.id < nextId
    /\ \A r \in Requests :
         /\ pc[r] \in Owning =>
              rid[r] < nextId /\ rid[r] # 0 /\ (row.id = rid[r] => row.fp = Fingerprint[r])
         /\ pc[r] \in {"reclaim_expired", "reclaim_failed"} =>
              seen[r].id < nextId /\ seen[r].id # 0 /\ (row.id = seen[r].id => row.fp = Fingerprint[r])
         /\ pc[r] = "mark_ok" => r \in effects
    /\ row.status = "succeeded" =>
         row.body = Garbled \/ (row.body \in effects /\ Fingerprint[row.body] = row.fp)
    /\ ReplayFaithful

LEMMA FaithfulInit == Init => Faithful
  BY DEF Init, Faithful, ReplayFaithful, Owning, Answer

LEMMA FaithfulStep == TypeOK /\ Faithful /\ [Next]_vars => Faithful'
<1> SUFFICES ASSUME TypeOK, Faithful, [Next]_vars PROVE Faithful'
  OBVIOUS
<1> USE DEF TypeOK, Faithful, ReplayFaithful, Owning, Rows
<1>1. ASSUME NEW r \in Requests, Begin(r) PROVE Faithful'
  BY <1>1 DEF Begin, Goto
<1>2. ASSUME NEW r \in Requests, CreateProcessing(r) PROVE Faithful'
  <2>1. CASE Absent
    <3>1. /\ row'.id = nextId /\ row'.fp = Fingerprint[r] /\ row'.status = "processing"
          /\ nextId' = nextId + 1 /\ UNCHANGED <<at, seen, effects>>
      BY <1>2, <2>1 DEF CreateProcessing, NoConflict
    <3>2. CASE Own(r, nextId)
      BY <3>1, <3>2 DEF Own, Goto
    <3>3. CASE ReplyLost(r)
      BY <3>1, <3>3 DEF ReplyLost, Return, Goto, Answer
    <3> QED
      BY <1>2, <2>1, <3>2, <3>3 DEF CreateProcessing, NoConflict
  <2>2. CASE ~Absent
    BY <1>2, <2>2 DEF CreateProcessing, NoConflict, Goto
  <2> QED
    BY <2>1, <2>2
<1>3. ASSUME NEW r \in Requests, GetExisting(r) \/ GetLatest(r) PROVE Faithful'
  <2>1. /\ UNCHANGED <<row, nextId, rid, effects>>
        /\ seen' = [seen EXCEPT ![r] = [id |-> row.id, status |-> row.status]]
    BY <1>3 DEF GetExisting, GetLatest
  <2>2. \/ pc' = [pc EXCEPT ![r] = "done"]
        \/ /\ pc' = [pc EXCEPT ![r] = "reclaim_expired"] \/ pc' = [pc EXCEPT ![r] = "reclaim_failed"]
           /\ row.id # 0 /\ row.fp = Fingerprint[r]
    BY <1>3 DEF GetExisting, GetLatest, ByStatus, Return, Goto, Absent, SamePayload
  <2>3. \/ UNCHANGED result
        \/ \E k \in Kinds \ {"replay"} : result' = [result EXCEPT ![r] = [kind |-> k, body |-> NoBody]]
        \/ /\ row.status = "succeeded" /\ row.body # Garbled /\ row.fp = Fingerprint[r]
           /\ result' = [result EXCEPT ![r] = [kind |-> "replay", body |-> row.body]]
    BY <1>3 DEF GetExisting, GetLatest, ByStatus, Return, Absent, SamePayload, Answer, Kinds
  <2>4. ReplayFaithful'
    BY <2>1, <2>3
  <2>5. /\ seen'[r] = [id |-> row.id, status |-> row.status]
        /\ \A p \in Requests \ {r} : seen'[p] = seen[p] /\ pc'[p] = pc[p]
        /\ pc'[r] \in {"done", "reclaim_expired", "reclaim_failed"}
        /\ pc'[r] # "done" => row.id # 0 /\ row.fp = Fingerprint[r]
    BY <2>1, <2>2
  <2>6. \A p \in Requests : pc'[p] \in Owning \cup {"mark_ok"} => pc'[p] = pc[p]
    BY <2>5
  <2>7. \A p \in Requests : pc'[p] \in {"reclaim_expired", "reclaim_failed"} =>
           seen'[p].id < nextId /\ seen'[p].id # 0 /\ (row.id = seen'[p].id => row.fp = Fingerprint[p])
    BY <2>5
  <2> QED
    BY <2>1, <2>4, <2>6, <2>7
<1>c. ASSUME NEW r \in Requests, row.id = seen[r].id, TryReclaim(r),
             pc[r] \in {"reclaim_expired", "reclaim_failed"},
             UNCHANGED <<nextId, at, seen, effects>>
      PROVE  Faithful'
  <2>1. row'.id = row.id /\ row'.fp = row.fp /\ row'.status = "processing"
    BY <1>c DEF TryReclaim
  <2>2. CASE Own(r, seen[r].id)
    BY <1>c, <2>1, <2>2 DEF Own, Goto
  <2>3. CASE ReplyLost(r)
    BY <1>c, <2>1, <2>3 DEF ReplyLost, Return, Goto, Answer
  <2> QED
    BY <1>c, <2>2, <2>3 DEF TryReclaim
<1>5. ASSUME NEW r \in Requests, ReclaimExpired(r) PROVE Faithful'
  <2>1. CASE Reclaimable(r, seen[r].status)
    BY <1>5, <1>c, <2>1 DEF ReclaimExpired, Reclaimable
  <2>2. CASE ~Reclaimable(r, seen[r].status)
    BY <1>5, <2>2 DEF ReclaimExpired, Goto
  <2> QED
    BY <2>1, <2>2
<1>6. ASSUME NEW r \in Requests, ReclaimFailed(r) PROVE Faithful'
  <2>1. CASE Reclaimable(r, "failed_retryable")
    BY <1>6, <1>c, <2>1 DEF ReclaimFailed, Reclaimable
  <2>2. CASE ~Reclaimable(r, "failed_retryable")
    BY <1>6, <2>2 DEF ReclaimFailed, Return, Goto, Answer
  <2> QED
    BY <2>1, <2>2
<1>7. ASSUME NEW r \in Requests, Execute(r) PROVE Faithful'
  <2>1. pc[r] = "run" /\ UNCHANGED <<row, nextId, seen, rid>>
    BY <1>7 DEF Execute
  <2>2. \/ pc' = [pc EXCEPT ![r] = "mark_ok"] /\ effects' = effects \cup {r} /\ UNCHANGED result
        \/ /\ pc' = [pc EXCEPT ![r] = "done"] /\ effects' = effects \cup {r}
           /\ result' = [result EXCEPT ![r] = [kind |-> "unavailable", body |-> NoBody]]
        \/ pc' = [pc EXCEPT ![r] = "mark_failed"] /\ UNCHANGED <<effects, result>>
    BY <1>7 DEF Execute, AfterFailure, Return, Goto, Answer
  <2> QED
    BY <2>1, <2>2
<1>8. ASSUME NEW r \in Requests, MarkSucceeded(r) PROVE Faithful'
  <2>1. /\ pc[r] = "mark_ok" /\ pc' = [pc EXCEPT ![r] = "done"]
        /\ UNCHANGED <<nextId, seen, rid, effects>>
    BY <1>8 DEF MarkSucceeded, Return, Goto
  <2>2. \/ result' = [result EXCEPT ![r] = [kind |-> "ok", body |-> r]]
        \/ result' = [result EXCEPT ![r] = [kind |-> "unavailable", body |-> NoBody]]
    BY <1>8 DEF MarkSucceeded, Return, Answer
  <2>3. \/ UNCHANGED row
        \/ /\ row.id = rid[r] /\ row'.id = row.id /\ row'.fp = row.fp /\ row'.body \in {r, Garbled}
    BY <1>8 DEF MarkSucceeded
  <2>4. ReplayFaithful'
    BY <2>1, <2>2
  <2>5. \A p \in Requests : pc'[p] # "done" => pc'[p] = pc[p]
    BY <2>1
  <2>6. row'.id = row.id /\ row'.fp = row.fp
    BY <2>3
  <2>7. r \in effects /\ (row.id = rid[r] => row.fp = Fingerprint[r])
    BY <2>1
  <2>8. row'.status = "succeeded" =>
           row'.body = Garbled \/ (row'.body \in effects /\ Fingerprint[row'.body] = row'.fp)
    <3>1. CASE UNCHANGED row
      BY <3>1
    <3>2. CASE row.id = rid[r] /\ row'.fp = row.fp /\ row'.body \in {r, Garbled}
      <4>1. r \in effects /\ Fingerprint[r] = row'.fp
        BY <2>7, <3>2
      <4> QED
        BY <3>2, <4>1
    <3> QED
      BY <2>3, <3>1, <3>2
  <2> QED
    BY <2>1, <2>4, <2>5, <2>6, <2>8
<1>9. ASSUME NEW r \in Requests, MarkFailedRetryable(r) PROVE Faithful'
  <2>1. /\ pc[r] = "mark_failed" /\ pc' = [pc EXCEPT ![r] = "done"]
        /\ UNCHANGED <<nextId, seen, rid, effects>>
        /\ result' = [result EXCEPT ![r] = [kind |-> "error", body |-> NoBody]]
    BY <1>9 DEF MarkFailedRetryable, Return, Goto, Answer
  <2>2. \/ UNCHANGED row
        \/ row'.id = row.id /\ row'.fp = row.fp /\ row'.status = "failed_retryable"
    BY <1>9 DEF MarkFailedRetryable, FailedStatus
  <2> QED
    BY <2>1, <2>2
<1>10. ASSUME NEW r \in Requests, StoreError(r) PROVE Faithful'
  BY <1>10 DEF StoreError, Return, Goto, Answer
<1>11. ASSUME NEW r \in Requests, Crash(r) PROVE Faithful'
  BY <1>11 DEF Crash, Goto
<1>12. CASE DeleteExpired
  <2>1. /\ row'.id = 0 /\ row'.status = "none"
        /\ UNCHANGED <<nextId, callVars>>
    BY <1>12 DEF DeleteExpired
  <2> QED
    BY <2>1 DEF callVars
<1>13. CASE Tick \/ UNCHANGED vars
  BY <1>13 DEF Tick, callVars, vars
<1> QED
  BY <1>1, <1>2, <1>3, <1>5, <1>6, <1>7, <1>8, <1>9, <1>10, <1>11, <1>12, <1>13 DEF Next, Call

\* Whatever the times and however long calls take, a replayed answer is the response of a call
\* of the same payload that took effect.
THEOREM ReplaysAreFaithful == Spec => []ReplayFaithful
<1>1. Faithful => ReplayFaithful
  BY DEF Faithful
<1> QED
  BY <1>1, TypeInit, TypeStep, FaithfulInit, FaithfulStep, PTL DEF Spec
-----------------------------------------------------------------------------
SuccessRecorded == row.status = "succeeded" => row.id # 0

\* Only the reclaims and the cleanup touch a record that says succeeded, and only a reclaim by a
\* call that read it so, for the owners that mark find their own record in processing.
LEMMA SuccessMoves ==
    ASSUME IInv, SuccessRecorded, [Next]_vars
    PROVE  /\ SuccessRecorded'
           /\ row.status = "succeeded" =>
                \/ row' = row
                \/ row.expires <= clock
                \/ \E r \in Requests : /\ pc[r] = "reclaim_expired" /\ seen[r].status = "succeeded"
                                      /\ pc'[r] \in {"run", "done"}
<1> DEFINE Reclaimed == \E r \in Requests : /\ pc[r] = "reclaim_expired"
                                           /\ seen[r].status = "succeeded"
                                           /\ pc'[r] \in {"run", "done"}
           Touched == /\ row.status = "succeeded" => row.expires <= clock \/ Reclaimed
                      /\ row'.status = "succeeded" => row'.id # 0
<1> SUFFICES row' = row \/ Touched
  BY DEF SuccessRecorded
<1> USE DEF IInv, TypeOK, Rows, SuccessRecorded
<1>1. ASSUME NEW r \in Requests, CreateProcessing(r) PROVE row' = row \/ Touched
  <2>1. CASE Absent
    <3>1. row'.status = "processing"
      BY <1>1, <2>1 DEF CreateProcessing, NoConflict
    <3> QED
      BY <2>1, <3>1 DEF Absent
  <2>2. CASE ~Absent
    BY <1>1, <2>2 DEF CreateProcessing, NoConflict
  <2> QED
    BY <2>1, <2>2
<1>2. ASSUME NEW r \in Requests, ReclaimExpired(r) PROVE row' = row \/ Touched
  <2>1. CASE Reclaimable(r, seen[r].status)
    <3>1. row'.status = "processing"
      BY <1>2, <2>1 DEF ReclaimExpired, TryReclaim
    <3>2. pc[r] = "reclaim_expired" /\ pc'[r] \in {"run", "done"} /\ row.status = seen[r].status
      BY <1>2, <2>1 DEF ReclaimExpired, Reclaimable, TryReclaim, Own, ReplyLost, Return, Goto
    <3> QED
      BY <3>1, <3>2
  <2>2. CASE ~Reclaimable(r, seen[r].status)
    BY <1>2, <2>2 DEF ReclaimExpired
  <2> QED
    BY <2>1, <2>2
<1>3. ASSUME NEW r \in Requests, ReclaimFailed(r) PROVE row' = row \/ Touched
  BY <1>3 DEF ReclaimFailed, Reclaimable, TryReclaim
<1>4. ASSUME NEW r \in Requests, MarkSucceeded(r) PROVE row' = row \/ Touched
  <2>1. row.status = "processing" /\ row.id # 0 /\ row'.id = row.id
    BY <1>4 DEF MarkSucceeded, OwnerHolds, Owning
  <2> QED
    BY <2>1
<1>5. ASSUME NEW r \in Requests, MarkFailedRetryable(r) PROVE row' = row \/ Touched
  <2>1. row.status = "processing"
    BY <1>5 DEF MarkFailedRetryable, OwnerHolds, Owning
  <2>2. UNCHANGED row \/ row'.status = "failed_retryable"
    BY <1>5 DEF MarkFailedRetryable, FailedStatus
  <2> QED
    BY <2>1, <2>2
<1>6. CASE DeleteExpired
  BY <1>6 DEF DeleteExpired
<1>7. CASE \/ \E r \in Requests : \/ Begin(r) \/ GetExisting(r) \/ GetLatest(r) \/ Execute(r)
                                \/ StoreError(r) \/ Crash(r)
           \/ Tick \/ UNCHANGED vars
  BY <1>7 DEF Begin, GetExisting, GetLatest, Execute, StoreError, Crash, Tick, vars
<1> QED
  BY <1>1, <1>2, <1>3, <1>4, <1>5, <1>6, <1>7 DEF Next, Call

\* While calls claim and end in time, a success is turned back into work before it expires by a
\* reclaim alone, of a call that had read an earlier success.
THEOREM SuccessesLast == Bounded => (Spec => SucceededUntilExpiry)
<1> SUFFICES ASSUME Bounded PROVE Spec => SucceededUntilExpiry
  OBVIOUS
<1>1. Init => SuccessRecorded
  BY DEF Init, SuccessRecorded
<1>2. IInv /\ SuccessRecorded /\ [Next]_vars => (IInv /\ SuccessRecorded)'
  BY InvStep, SuccessMoves
<1>3. IInv /\ SuccessRecorded /\ [Next]_vars
        => [row.status = "succeeded" =>
               \/ row' = row
               \/ row.expires <= clock
               \/ \E r \in Requests : pc[r] = "reclaim_expired" /\ seen[r].status = "succeeded"
                                     /\ pc'[r] \in {"run", "done"}]_vars
  BY SuccessMoves
<1> QED
  BY InvInit, <1>1, <1>2, <1>3, PTL DEF Spec, SucceededUntilExpiry

-----------------------------------------------------------------------------
\* The record still holds the effect of r: no other call owns it, and none that is about to
\* reclaim it from processing began after r's lock ends, unless the window is over.
Bearing(r) ==
    /\ row.id # 0 /\ row.id = rid[r] /\ row.status \in {"processing", "succeeded"}
    /\ row.expires = at[r] + TTL
    /\ row.status = "processing" => row.locked = at[r] + ProcessingTimeout
    /\ \A t \in Requests : pc[t] \in Owning => t = r
    /\ \A t \in Requests :
         pc[t] = "reclaim_expired" /\ seen[t].status = "processing" =>
             clock >= at[r] + TTL \/ at[t] < at[r] + ProcessingTimeout

Borne(r) == clock >= at[r] + TTL \/ Bearing(r) \/ Excused(r)

Apart(r, s) ==
    \/ claimed[s] >= at[r] + TTL
    \/ claimed[r] >= at[s] + TTL
    \/ Excused(r) \/ Excused(s)

\* Effects are those of past owners, each still borne by the record, and apart from those of the
\* others, the present owner's to come included.
Effective ==
    /\ \A r \in Requests : pc[r] # "done" => result[r].kind = "pending"
    /\ \A r \in effects : pc[r] \in {"mark_ok", "done", "dead"} /\ Borne(r)
    /\ \A r \in effects, s \in Requests :
         (s \in effects \/ pc[s] \in Owning) /\ r # s => Apart(r, s)

LEMMA ExcuseStays ==
    ASSUME TypeOK, [Next]_vars, NEW r \in Requests, rid'[r] = rid[r], Excused(r)
    PROVE  Excused(r)'
<1>1. PICK q \in Requests : ReclaimedSuccess(q) /\ seen[q].id = rid[r]
  BY DEF Excused
<1>2. ReclaimedSuccess(q)'
  BY <1>1, PastMoves DEF ReclaimedSuccess
<1>3. seen'[q] = seen[q]
  BY <1>1, PastMoves DEF ReclaimedSuccess
<1> QED
  BY <1>1, <1>2, <1>3 DEF Excused

\* What two calls that have claimed are to one another they stay.
LEMMA ApartStays ==
    ASSUME TypeOK, [Next]_vars, NEW r \in Requests, NEW s \in Requests, Apart(r, s),
           pc[r] \notin Preparing \cup {"idle"}, pc[s] \notin Preparing \cup {"idle"}
    PROVE  Apart(r, s)'
<1>1. /\ at'[r] = at[r] /\ at'[s] = at[s] /\ rid'[r] = rid[r] /\ rid'[s] = rid[s]
      /\ claimed'[r] = claimed[r] /\ claimed'[s] = claimed[s]
  BY PastMoves
<1> QED
  BY <1>1, ExcuseStays DEF Apart

\* A step in which a call comes to own the record.
Claims(t) ==
    /\ pc'[t] = "run" /\ claimed'[t] = clock
    /\ effects' = effects /\ UNCHANGED <<seen, clock, at>>
    /\ \/ pc[t] = "create" /\ row.id = 0
       \/ /\ pc[t] = "reclaim_expired" /\ row.id = seen[t].id /\ row.status = seen[t].status
          /\ row.locked <= at[t] /\ UNCHANGED result
       \/ pc[t] = "reclaim_failed" /\ row.status = "failed_retryable"

\* A call is answered when it returns.
LEMMA UnansweredStays ==
    ASSUME TypeOK, Effective, [Next]_vars, NEW s \in Requests, pc'[s] # "done"
    PROVE  result'[s].kind = "pending"
<1> DEFINE Silent == pc'[s] # "done" => result'[s].kind = "pending"
<1> USE DEF TypeOK, Effective
<1>1. ASSUME NEW r \in Requests,
             \/ Begin(r) \/ CreateProcessing(r) \/ GetExisting(r) \/ GetLatest(r)
             \/ ReclaimExpired(r) \/ ReclaimFailed(r) \/ Execute(r) \/ MarkSucceeded(r)
             \/ MarkFailedRetryable(r) \/ StoreError(r) \/ Crash(r)
      PROVE  Silent
  <2>1. \/ pc' = [pc EXCEPT ![r] = "done"] /\ \A q \in Requests \ {r} : result'[q] = result[q]
        \/ UNCHANGED result /\ pc[r] # "done" /\ \A q \in Requests \ {r} : pc'[q] = pc[q]
    BY <1>1 DEF Begin, CreateProcessing, GetExisting, GetLatest, ByStatus, ReclaimExpired,
         ReclaimFailed, TryReclaim, Own, ReplyLost, Execute, MarkSucceeded, MarkFailedRetryable,
         StoreError, Crash, Return, Goto, Preparing, Active, Owning
  <2> QED
    BY <2>1
<1>2. CASE DeleteExpired \/ Tick \/ UNCHANGED vars
  BY <1>2 DEF DeleteExpired, Tick, callVars, vars
<1> QED
  BY <1>1, <1>2 DEF Next, Call

\* What a step does to the owners and to the effects.
LEMMA OwnersMove ==
    ASSUME TypeOK, [Next]_vars, NEW s \in Requests
    PROVE  /\ pc'[s] \in Owning /\ pc[s] \notin Owning => Claims(s)
           /\ s \in effects' /\ s \notin effects =>
                /\ pc[s] = "run" /\ pc'[s] \in {"mark_ok", "done", "dead"}
                /\ effects' = effects \cup {s} /\ UNCHANGED <<row, clock, seen>>
                /\ \A t \in Requests \ {s} : pc'[t] = pc[t]
           /\ effects \subseteq effects' /\ clock <= clock'
           /\ pc[s] \in {"mark_ok", "done", "dead"} => pc'[s] \in {"mark_ok", "done", "dead"}
<1> DEFINE Moves == /\ pc'[s] \in Owning /\ pc[s] \notin Owning => Claims(s)
                    /\ s \in effects' /\ s \notin effects =>
                         /\ pc[s] = "run" /\ pc'[s] \in {"mark_ok", "done", "dead"}
                         /\ effects' = effects \cup {s} /\ UNCHANGED <<row, clock, seen>>
                         /\ \A t \in Requests \ {s} : pc'[t] = pc[t]
                    /\ effects \subseteq effects' /\ clock <= clock'
                    /\ pc[s] \in {"mark_ok", "done", "dead"} => pc'[s] \in {"mark_ok", "done", "dead"}
<1> USE DEF TypeOK, Owning, Rows
<1>1. ASSUME NEW r \in Requests, Begin(r) PROVE Moves
  BY <1>1 DEF Begin, Goto
<1>2. ASSUME NEW r \in Requests, CreateProcessing(r) PROVE Moves
  <2>1. pc[r] = "create" /\ UNCHANGED <<at, seen, clock, effects>>
    BY <1>2 DEF CreateProcessing
  <2>2. \/ /\ row.id = 0 /\ pc' = [pc EXCEPT ![r] = "run"]
           /\ claimed' = [claimed EXCEPT ![r] = clock]
        \/ pc' = [pc EXCEPT ![r] = "done"] \/ pc' = [pc EXCEPT ![r] = "get"]
    BY <1>2 DEF CreateProcessing, NoConflict, Absent, Own, ReplyLost, Return, Goto
  <2> QED
    BY <2>1, <2>2 DEF Claims
<1>3. ASSUME NEW r \in Requests, GetExisting(r) \/ GetLatest(r) PROVE Moves
  <2>1. pc[r] \in {"get", "get_latest"} /\ UNCHANGED <<clock, effects>>
    BY <1>3 DEF GetExisting, GetLatest
  <2>2. \E l \in {"done", "reclaim_expired", "reclaim_failed"} : pc' = [pc EXCEPT ![r] = l]
    BY <1>3 DEF GetExisting, GetLatest, ByStatus, Return, Goto
  <2> QED
    BY <2>1, <2>2
<1>4. ASSUME NEW r \in Requests, ReclaimExpired(r) PROVE Moves
  <2>1. pc[r] = "reclaim_expired" /\ UNCHANGED <<at, seen, clock, effects>>
    BY <1>4 DEF ReclaimExpired
  <2>2. \/ /\ row.id = seen[r].id /\ row.status = seen[r].status /\ row.locked <= at[r]
           /\ pc' = [pc EXCEPT ![r] = "run"] /\ claimed' = [claimed EXCEPT ![r] = clock]
           /\ UNCHANGED result
        \/ pc' = [pc EXCEPT ![r] = "done"] \/ pc' = [pc EXCEPT ![r] = "get_latest"]
    BY <1>4 DEF ReclaimExpired, Reclaimable, TryReclaim, Own, ReplyLost, Return, Goto
  <2> QED
    BY <2>1, <2>2 DEF Claims
<1>5. ASSUME NEW r \in Requests, ReclaimFailed(r) PROVE Moves
  <2>1. pc[r] = "reclaim_failed" /\ UNCHANGED <<at, seen, clock, effects>>
    BY <1>5 DEF ReclaimFailed
  <2>2. \/ /\ row.status = "failed_retryable"
           /\ pc' = [pc EXCEPT ![r] = "run"] /\ claimed' = [claimed EXCEPT ![r] = clock]
        \/ pc' = [pc EXCEPT ![r] = "done"]
    BY <1>5 DEF ReclaimFailed, Reclaimable, TryReclaim, Own, ReplyLost, Return, Goto
  <2> QED
    BY <2>1, <2>2 DEF Claims
<1>6. ASSUME NEW r \in Requests, Execute(r) PROVE Moves
  <2>1. pc[r] = "run" /\ UNCHANGED <<row, clock, seen>>
    BY <1>6 DEF Execute
  <2>2. \/ effects' = effects \cup {r} /\ \E l \in {"mark_ok", "done"} : pc' = [pc EXCEPT ![r] = l]
        \/ effects' = effects /\ pc' = [pc EXCEPT ![r] = "mark_failed"]
    BY <1>6 DEF Execute, AfterFailure, Return, Goto
  <2> QED
    BY <2>1, <2>2
<1>7. ASSUME NEW r \in Requests, MarkSucceeded(r) \/ MarkFailedRetryable(r) \/ StoreError(r)
      PROVE Moves
  <2>1. UNCHANGED <<clock, effects>> /\ pc' = [pc EXCEPT ![r] = "done"]
    BY <1>7 DEF MarkSucceeded, MarkFailedRetryable, StoreError, Return, Goto
  <2> QED
    BY <2>1
<1>8. ASSUME NEW r \in Requests, Crash(r) PROVE Moves
  <2>1. UNCHANGED <<row, clock, seen>> /\ pc' = [pc EXCEPT ![r] = "dead"]
    BY <1>8 DEF Crash, Goto
  <2>2. effects' = effects \/ (pc[r] = "run" /\ effects' = effects \cup {r})
    BY <1>8 DEF Crash
  <2> QED
    BY <2>1, <2>2
<1>9. CASE DeleteExpired \/ UNCHANGED vars
  BY <1>9 DEF DeleteExpired, callVars, vars
<1>10. CASE Tick
  BY <1>10 DEF Tick, callVars
<1> QED
  BY <1>1, <1>2, <1>3, <1>4, <1>5, <1>6, <1>7, <1>8, <1>9, <1>10 DEF Next, Call

\* The record goes on holding an effect until its window is over, or a call reclaims what it had
\* read as succeeded.
LEMMA BorneStays ==
    ASSUME IInv, [Next]_vars, Effective, NEW r \in effects
    PROVE  Borne(r)'
<1>1. r \in Requests /\ pc[r] \in {"mark_ok", "done", "dead"} /\ Borne(r)
  BY DEF IInv, TypeOK, Effective
<1>2. rid'[r] = rid[r] /\ at'[r] = at[r] /\ clock <= clock' /\ clock \in Nat /\ clock' \in Nat
      /\ pc'[r] \in {"mark_ok", "done", "dead"}
  BY <1>1, PastMoves, OwnersMove, TypeStep DEF IInv, TypeOK, Preparing
<1>3. CASE clock >= at[r] + TTL
  BY <1>1, <1>2, <1>3, TimesAssumption DEF Borne, IInv, TypeOK
<1>4. CASE Excused(r)
  BY <1>1, <1>2, <1>4, ExcuseStays DEF Borne, IInv
<1>5. CASE Bearing(r) /\ ~(clock >= at[r] + TTL)
  <2> DEFINE SameRow == /\ row' = row
                        /\ \A t \in Requests : pc'[t] \in Owning => pc[t] \in Owning
                        /\ \A t \in Requests :
                             pc'[t] = "reclaim_expired" => pc[t] = pc'[t] /\ seen'[t] = seen[t]
                                                          /\ at'[t] = at[t]
  <2>0. SameRow => Borne(r)'
    BY <1>1, <1>2, <1>5, TimesAssumption DEF Borne, Bearing, IInv, TypeOK
  <2> USE DEF IInv, TypeOK, Owning, Rows
  <2>1. ASSUME NEW t \in Requests, Begin(t) PROVE SameRow
    BY <2>1 DEF Begin, Goto
  <2>2. ASSUME NEW t \in Requests, CreateProcessing(t) PROVE SameRow
    BY <1>5, <2>2 DEF CreateProcessing, NoConflict, Absent, Bearing, Goto
  <2>3. ASSUME NEW t \in Requests, GetExisting(t) PROVE SameRow
    <3>1. UNCHANGED <<row, at>> /\ \A q \in Requests \ {t} : seen'[q] = seen[q] /\ pc'[q] = pc[q]
      BY <2>3 DEF GetExisting, ByStatus, Return, Goto
    <3>2. ~(row.expires <= at[t])
      BY <1>1, <1>5, TimesAssumption DEF Bearing, OnTime
    <3>3. pc'[t] \in {"done", "reclaim_failed"}
      BY <2>3, <3>2 DEF GetExisting, ByStatus, Return, Goto
    <3> QED
      BY <3>1, <3>3
  <2>4. ASSUME NEW t \in Requests, GetLatest(t) PROVE SameRow
    <3>1. /\ UNCHANGED <<row, at>>
          /\ \A q \in Requests \ {t} : seen'[q] = seen[q] /\ pc'[q] = pc[q]
          /\ pc'[t] \in {"done", "reclaim_failed"}
      BY <2>4 DEF GetLatest, ByStatus, Return, Goto
    <3> QED
      BY <3>1
  <2>5. ASSUME NEW t \in Requests, ReclaimExpired(t) PROVE SameRow \/ Excused(r)'
    <3>1. CASE Reclaimable(t, seen[t].status)
      <4>1. /\ pc[t] = "reclaim_expired" /\ row.id = seen[t].id /\ row.status = seen[t].status
            /\ row.locked <= at[t] /\ UNCHANGED <<seen, at>>
        BY <2>5, <3>1 DEF ReclaimExpired, Reclaimable
      <4>2. row.status = "succeeded"
        BY <1>1, <1>5, <4>1, TimesAssumption DEF Bearing
      <4>3. pc'[t] \in {"run", "done"} /\ (pc'[t] # "done" => UNCHANGED result)
            /\ (pc'[t] = "done" => result'[t].kind = "unavailable")
        BY <2>5, <3>1 DEF ReclaimExpired, TryReclaim, Own, ReplyLost, Return, Goto, Answer
      <4>4. result'[t].kind # "replay"
        BY <4>1, <4>3 DEF Effective
      <4>5. ReclaimedSuccess(t)' /\ seen'[t].id = rid'[r]
        BY <1>2, <1>5, <4>1, <4>2, <4>3, <4>4 DEF ReclaimedSuccess, Preparing, Bearing
      <4> QED
        BY <4>5 DEF Excused
    <3>2. CASE ~Reclaimable(t, seen[t].status)
      BY <2>5, <3>2 DEF ReclaimExpired, Goto
    <3> QED
      BY <3>1, <3>2
  <2>6. ASSUME NEW t \in Requests, ReclaimFailed(t) PROVE SameRow
    BY <1>5, <2>6 DEF ReclaimFailed, Reclaimable, Bearing, Return, Goto
  <2>7. ASSUME NEW t \in Requests, Execute(t) PROVE SameRow
    BY <2>7 DEF Execute, Return, Goto, AfterFailure
  <2>8. ASSUME NEW t \in Requests, MarkSucceeded(t) PROVE Borne(r)'
    <3>1. t = r
      BY <1>5, <2>8 DEF MarkSucceeded, Bearing
    <3>2. UNCHANGED <<seen, clock, at>> /\ pc' = [pc EXCEPT ![r] = "done"]
      BY <2>8, <3>1 DEF MarkSucceeded, Return, Goto
    <3>3. CASE row' = row
      BY <2>0, <3>2, <3>3
    <3>4. CASE \E b \in {r, Garbled} :
                 row' = [row EXCEPT !.status = "succeeded", !.body = b,
                                    !.locked = 0, !.expires = at[r] + TTL]
      <4>1. row'.id = row.id /\ row'.status = "succeeded" /\ row'.expires = at[r] + TTL
        BY <3>4
      <4>2. Bearing(r)'
        <5>1. \A q \in Requests : pc'[q] # "done" => pc'[q] = pc[q]
          BY <3>2
        <5> QED
          BY <1>2, <1>5, <3>2, <4>1, <5>1 DEF Bearing
      <4> QED
        BY <4>2 DEF Borne
    <3> QED
      BY <2>8, <3>1, <3>3, <3>4 DEF MarkSucceeded
  <2>9. ASSUME NEW t \in Requests, MarkFailedRetryable(t) PROVE FALSE
    BY <1>1, <1>5, <2>9 DEF MarkFailedRetryable, Bearing
  <2>10. ASSUME NEW t \in Requests, StoreError(t) \/ Crash(t) PROVE SameRow
    BY <2>10 DEF StoreError, Crash, Return, Goto
  <2>11. CASE DeleteExpired
    BY <1>1, <1>5, <2>11 DEF DeleteExpired, Bearing
  <2>12. CASE Tick \/ UNCHANGED vars
    <3>1. row' = row /\ pc' = pc /\ seen' = seen /\ at' = at
      BY <2>12 DEF Tick, callVars, vars
    <3>2. SameRow
      BY <3>1
    <3> QED
      BY <2>0, <3>2
  <2> QED
    BY <2>0, <2>1, <2>2, <2>3, <2>4, <2>5, <2>6, <2>7, <2>8, <2>9, <2>10, <2>11, <2>12
       DEF Next, Call, Borne
<1> QED
  BY <1>1, <1>3, <1>4, <1>5 DEF Borne

\* A call that comes to own the record is apart from every effect before it.
LEMMA ClaimsApart ==
    ASSUME IInv, [Next]_vars, Effective, NEW r \in effects, NEW t \in Requests, Claims(t)
    PROVE  Apart(r, t)'
<1>1. r \in Requests /\ pc[r] \in {"mark_ok", "done", "dead"} /\ Borne(r)
  BY DEF IInv, TypeOK, Effective
<1>2. rid'[r] = rid[r] /\ at'[r] = at[r] /\ claimed'[t] = clock
  BY <1>1, PastMoves DEF IInv, Preparing, Claims
<1>3. CASE clock >= at[r] + TTL
  BY <1>2, <1>3 DEF Apart
<1>4. CASE Excused(r)
  BY <1>1, <1>2, <1>4, ExcuseStays DEF Apart, IInv
<1>5. CASE Bearing(r) /\ ~(clock >= at[r] + TTL)
  <2>1. /\ pc[t] = "reclaim_expired" /\ row.id = seen[t].id /\ row.status = seen[t].status
        /\ row.locked <= at[t] /\ UNCHANGED <<seen, result>>
    BY <1>5 DEF Claims, Bearing
  <2>2. row.status = "succeeded"
    BY <1>1, <1>5, <2>1, TimesAssumption DEF Bearing, IInv, TypeOK
  <2>3. result'[t].kind # "replay"
    BY <2>1 DEF Effective
  <2>4. ReclaimedSuccess(t)' /\ seen'[t].id = rid'[r]
    BY <1>2, <1>5, <2>1, <2>2, <2>3 DEF ReclaimedSuccess, Preparing, Bearing, Claims
  <2> QED
    BY <2>4 DEF Apart, Excused
<1> QED
  BY <1>1, <1>3, <1>4, <1>5 DEF Borne

LEMMA EffectiveInit == Init => Effective
  BY DEF Init, Effective, Owning, Answer

LEMMA EffectiveStep == IInv /\ Effective /\ [Next]_vars => Effective'
<1> SUFFICES ASSUME IInv, Effective, [Next]_vars PROVE Effective'
  OBVIOUS
<1>0. effects' \subseteq Requests /\ effects \subseteq Requests
  BY TypeStep DEF IInv, TypeOK
<1>1. \A r \in Requests : pc'[r] # "done" => result'[r].kind = "pending"
  BY UnansweredStays DEF IInv
<1>2. ASSUME NEW r \in effects', r \notin effects
      PROVE  /\ pc[r] = "run" /\ pc'[r] \in {"mark_ok", "done", "dead"}
             /\ effects' = effects \cup {r} /\ UNCHANGED <<row, clock, seen>>
             /\ \A t \in Requests \ {r} : pc'[t] = pc[t]
  BY <1>0, <1>2, OwnersMove DEF IInv
<1>3. ASSUME NEW r \in effects' PROVE pc'[r] \in {"mark_ok", "done", "dead"} /\ Borne(r)'
  <2>1. CASE r \in effects
    BY <1>0, <2>1, BorneStays, OwnersMove DEF IInv, Effective
  <2>2. CASE r \notin effects
    <3>1. pc[r] = "run" /\ UNCHANGED <<row, clock, seen>> /\ r \in Requests
          /\ \A t \in Requests \ {r} : pc'[t] = pc[t]
      BY <1>0, <1>2, <2>2
    <3>2. \A t \in Requests : pc[t] = "reclaim_expired" => at'[t] = at[t]
      BY <1>2, <2>2, <3>1 DEF Next, Call, Begin, CreateProcessing, GetExisting, GetLatest,
           ReclaimExpired, ReclaimFailed, Execute, MarkSucceeded, MarkFailedRetryable,
           StoreError, Crash, DeleteExpired, Tick, callVars, vars
    <3>3. rid'[r] = rid[r] /\ at'[r] = at[r]
      BY <3>1, PastMoves DEF IInv, Preparing
    <3>4. /\ row.id # 0 /\ row.id = rid[r] /\ row.status = "processing"
          /\ row.locked = at[r] + ProcessingTimeout /\ row.expires = at[r] + TTL
          /\ \A t \in Requests : pc[t] \in Owning => t = r
          /\ \A t \in Requests : pc[t] = "reclaim_expired" => at[t] < row.locked
      BY <3>1 DEF IInv, OwnerHolds, ReclaimersLate, OneOwner, Owning
    <3>5. Bearing(r)'
      BY <1>2, <2>2, <3>1, <3>2, <3>3, <3>4 DEF Bearing
    <3> QED
      BY <1>2, <2>2, <3>5 DEF Borne
  <2> QED
    BY <2>1, <2>2
<1>4. ASSUME NEW r \in effects', NEW s \in Requests, s \in effects' \/ pc'[s] \in Owning, r # s
      PROVE  Apart(r, s)'
  <2>1. r \in Requests
    BY <1>0
  <2>2. CASE r \in effects /\ (s \in effects \/ pc[s] \in Owning)
    <3>1. Apart(r, s) /\ pc[r] \notin Preparing \cup {"idle"} /\ pc[s] \notin Preparing \cup {"idle"}
      BY <1>4, <2>2 DEF Effective, Preparing, Owning
    <3> QED
      BY <2>1, <3>1, ApartStays DEF IInv
  <2>3. CASE r \in effects /\ s \notin effects /\ pc[s] \notin Owning
    <3>1. Claims(s)
      BY <1>2, <1>4, <2>3, OwnersMove DEF IInv, Owning
    <3> QED
      BY <2>3, <3>1, ClaimsApart
  <2>4. CASE r \notin effects
    <3>1. pc[r] = "run" /\ effects' = effects \cup {r} /\ \A t \in Requests \ {r} : pc'[t] = pc[t]
      BY <1>2, <2>4
    <3>2. s \in effects
      BY <1>4, <2>1, <3>1 DEF IInv, OneOwner, Owning
    <3>3. Apart(s, r) /\ pc[r] \notin Preparing \cup {"idle"} /\ pc[s] \notin Preparing \cup {"idle"}
      BY <1>4, <2>1, <3>1, <3>2 DEF Effective, Preparing, Owning
    <3>4. Apart(r, s)
      BY <3>3 DEF Apart
    <3> QED
      BY <2>1, <3>3, <3>4, ApartStays DEF IInv
  <2> QED
    BY <2>2, <2>3, <2>4
<1> QED
  BY <1>1, <1>3, <1>4 DEF Effective

\* While calls claim and end in time, the function takes effect once per window of the record,
\* unless a call reclaims a record it had read as succeeded.
THEOREM EffectOncePerWindow == Bounded => (Spec => []OneEffectUnlessSeenSucceeded)
<1> SUFFICES ASSUME Bounded PROVE Spec => []OneEffectUnlessSeenSucceeded
  OBVIOUS
<1>1. IInv /\ Effective /\ [Next]_vars => (IInv /\ Effective)'
  BY InvStep, EffectiveStep
<1>2. IInv /\ Effective => OneEffectUnlessSeenSucceeded
  BY DEF IInv, TypeOK, Effective, Apart, OneEffectUnlessSeenSucceeded
<1> QED
  BY InvInit, EffectiveInit, <1>1, <1>2, PTL DEF Spec
=============================================================================
