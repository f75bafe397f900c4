------------------------- MODULE BatchImage_proofs -------------------------
(***************************************************************************)
(* The money of a batch image job, for any requests, workers, failing and  *)
(* lost calls and deaths. What the ledger has recorded is tied to the row  *)
(* (a paid job is settling or later, a job whose hold went back gets no    *)
(* further) and every place of a thread to the row it has seen, which the  *)
(* single submitter and either the job lock or the provider's verdict keep *)
(* true until it acts. A frozen hold is remembered by the row, the queue   *)
(* or a thread.                                                            *)
(***************************************************************************)
EXTENDS BatchImage, FiniteSetTheorems, TLAPS

\* Places of a submission: those that lead to the provider, and those before the job is named.
Forward == {"reserve", "items", "uploading", "upstream", "submitted"}
PreSubmit == Forward \cup {"abandon", "withdraw", "record", "record_retry"}

\* Places of a worker that has seen a job the provider works on.
Working == {"poll", "poll_running", "running", "to_indexing", "index", "to_settling",
            "to_failed", "to_cancelled"}

Paying == {"settling", "completed", "output_deleted"}
Failed == {"failed", "cancelled"}

\* Until the provider's job is recorded one request at most submits, and it holds the money.
OneSubmitter ==
    /\ \A c \in Clients : pc[c] \in PreSubmit => ~named /\ status # "absent"
    /\ \A c \in Clients : pc[c] \in Forward \ {"reserve"} => "hold" \in claims
    /\ \A c, d \in Clients : pc[c] \in PreSubmit /\ pc[d] \in PreSubmit => c = d

\* What a status says about the steps before it.
RowKnown ==
    /\ status \in {"submitted", "running", "indexing"} \cup Paying => named
    /\ named => "hold" \in claims
    /\ "hold" \in claims => status # "absent"
    /\ status \in {"completed", "output_deleted"} => Charged

\* A job whose hold was returned does not get on to a charge.
Gone == \/ status \in Failed
        \/ ~named /\ \A c \in Clients : pc[c] \notin Forward
        \/ cost > Hold

ChargedOnce ==
    /\ Charged => status \in Paying /\ cost <= Hold
    /\ returned => Gone /\ {"hold", "release"} \subseteq claims
    /\ Held => frozen >= Hold

Releasing ==
    \A t \in Threads : pc[t] \in {"cancel_release", "sweep_release", "release"} => status \in Failed

\* What a worker at each place has seen is still so, as far as the money depends on it.
AtWork ==
    \A w \in Workers :
        /\ pc[w] \in Working => named
        /\ pc[w] \in {"to_failed", "to_cancelled"} => status \notin Paying
        /\ pc[w] = "capture" => status \in Paying /\ cost <= Hold
        /\ pc[w] = "mark" => Charged
        /\ pc[w] \in {"give_up", "exhausted", "release_failed"} => cost > Hold

\* Two reasons why no worker ends a job that is being paid for. While no heartbeat stalls, the
\* lock: the one worker that holds it moves the job on.
LockHeld == \A w \in Workers : pc[w] \in Processing => lock = w
Unpaid == \A w \in Workers : pc[w] \in Working => status \notin Paying

\* While indexing fails by the output only, the provider: its verdict is final, and a worker
\* ends the job by a verdict under which no other worker gets it to its settlement.
Final == {"succeeded", "unreadable", "failed", "cancelled"}
Conveyed ==
    /\ status = "indexing" => upstream \in {"succeeded", "unreadable"}
    /\ status \in Paying => upstream = "succeeded"
    /\ \A w \in Workers :
        /\ pc[w] \in {"to_indexing", "index"} => upstream \in {"succeeded", "unreadable"}
        /\ pc[w] = "to_settling" => upstream = "succeeded"
        /\ pc[w] = "to_failed" => upstream \in {"failed", "unreadable"}
        /\ pc[w] = "to_cancelled" => upstream = "cancelled"

Apart ==
    /\ MayStall = {} => LockHeld /\ Unpaid
    /\ "index" \notin MayFail => Conveyed

\* A job that can be paid for spends no attempt without a fault.
Attempting == {w \in Workers : pc[w] = "settle_failed"}
Patience ==
    /\ faults <= MaxFaults /\ IsFiniteSet(Attempting)
    /\ cost <= Hold => retries + Cardinality(Attempting) <= faults

Safe == OneSubmitter /\ RowKnown /\ ChargedOnce /\ Releasing /\ AtWork /\ Apart /\ Patience

\* Only a settlement whose cost is within the hold captures.
Covered == \A w \in Workers : pc[w] = "capture" => cost <= Hold

\* The types, the Boolean variables apart from the others.
Numbers ==
    /\ status \in Statuses /\ retries \in Nat /\ cost \in Costs
    /\ claims \subseteq {"hold", "capture", "release"}
    /\ balance \in Nat /\ frozen \in Nat /\ ready \in Nat
    /\ lock \in Workers \cup {NoOne}
    /\ upstream \in {"none", "running", "succeeded", "unreadable", "failed", "cancelled"}
    /\ pc \in [Threads -> Labels]
    /\ faults \in Nat
Booleans ==
    /\ named \in BOOLEAN /\ hidden \in BOOLEAN /\ stale \in BOOLEAN /\ returned \in BOOLEAN
    /\ delayed \in BOOLEAN /\ active \in BOOLEAN /\ inflight \in BOOLEAN /\ usable \in BOOLEAN

-----------------------------------------------------------------------------
\* Every step is a step of one thread, or moves none of them.
LEMMA PcMoves ==
    ASSUME [Next]_vars
    PROVE  UNCHANGED pc \/ \E t \in Threads, l \in Labels : Goto(t, l)
<1> DEFINE P == UNCHANGED pc \/ \E t \in Threads, l \in Labels : Goto(t, l)
<1> USE DEF Try, Threads, Labels, Submitting, Cancelling, Processing
<1>1. ASSUME NEW c \in Clients, Request(c) PROVE P
  BY <1>1 DEF Request, Submit, Resubmit, Cancel
<1>2. ASSUME NEW c \in Clients,
             \/ ReserveHold(c) \/ CreatePendingItems(c) \/ StartUpload(c) \/ ProviderSubmit(c)
             \/ MarkSubmitted(c) \/ AbortOrphan(c) \/ CancelUpstream(c) \/ CancelMark(c)
      PROVE  P
  BY <1>2 DEF ReserveHold, CreatePendingItems, StartUpload, ProviderSubmit, MarkSubmitted,
              AbortOrphan, CancelUpstream, CancelMark, Transition
<1>3. ASSUME NEW c \in Clients, RecordSubmitFailure(c) PROVE P
  BY <1>3 DEF RecordSubmitFailure
<1>4. ASSUME NEW t \in Threads, NEW ok \in Labels, NEW failed \in Labels,
             Release(t, ok, failed) \/ Enqueue(t, ok, failed)
      PROVE  P
  BY <1>4 DEF Release, Enqueue
<1>5. ASSUME NEW w \in Workers,
             \/ Reserve(w) \/ TryAcquireJobLock(w) \/ RequeueAfter(w) \/ Ack(w) \/ ReleaseLock(w)
             \/ PipelineRead(w) \/ ProcessRead(w) \/ Poll(w)
      PROVE  P
  BY <1>5 DEF Reserve, TryAcquireJobLock, RequeueAfter, Ack, ReleaseLock, PipelineRead,
              ProcessRead, Poll, Read
<1>6. ASSUME NEW w \in Workers,
             \/ ProcessorTransition(w) \/ IndexResult(w) \/ SettleRead(w) \/ CaptureHold(w)
             \/ MarkSettled(w) \/ RecordSettlementFailure(w)
      PROVE  P
  BY <1>6 DEF ProcessorTransition, Transition, IndexResult, SettleRead, Read, CaptureHold,
              MarkSettled, RecordSettlementFailure
<1>7. CASE \/ FailStale \/ Timers \/ UpstreamEnds \/ LoseAccount
           \/ DeleteRecord \/ MarkOutputDeleted \/ UNCHANGED vars
  BY <1>7 DEF FailStale, Timers, GrowStale, ListStale, MoveDueDelayed, RecoverStaleActive,
              LockLapses, UpstreamEnds, LoseAccount, DeleteRecord, MarkOutputDeleted, vars
<1>8. ASSUME NEW t \in Threads, Crash(t) PROVE P
  BY <1>8 DEF Crash
<1>9. ASSUME NEW c \in Clients, ClientStep(c) PROVE P
  BY <1>2, <1>3, <1>4, <1>9
     DEF ClientStep, EnqueueSubmitted, ReleaseFailedSubmit, EnqueueRetry, CancelEnqueue,
         CancelRelease, ReleaseRetry
<1>10. ASSUME NEW w \in Workers, WorkerStep(w) PROVE P
  BY <1>4, <1>5, <1>6, <1>10 DEF WorkerStep, ReleaseTerminalHold, FailExhausted
<1>11. CASE SweepStep
  BY <1>4, <1>7, <1>11 DEF SweepStep, SweepRelease, EnqueueRetry, ReleaseRetry
<1> QED
  BY <1>1, <1>5, <1>7, <1>8, <1>9, <1>10, <1>11 DEF Next

\* Faults are counted, up to their bound.
LEMMA FaultMoves ==
    ASSUME [Next]_vars
    PROVE  UNCHANGED faults \/ (faults < MaxFaults /\ faults' = faults + 1)
<1> DEFINE P == UNCHANGED faults \/ Faulty
<1> USE DEF Try, NoFault
<1>1. ASSUME NEW c \in Clients, Request(c) PROVE P
  BY <1>1 DEF Request, Submit, Resubmit, Cancel
<1>2. ASSUME NEW c \in Clients,
             \/ ReserveHold(c) \/ CreatePendingItems(c) \/ StartUpload(c) \/ ProviderSubmit(c)
             \/ MarkSubmitted(c) \/ AbortOrphan(c) \/ CancelUpstream(c) \/ CancelMark(c)
             \/ RecordSubmitFailure(c)
      PROVE  P
  BY <1>2 DEF ReserveHold, CreatePendingItems, StartUpload, ProviderSubmit, MarkSubmitted,
              AbortOrphan, CancelUpstream, CancelMark, Transition, RecordSubmitFailure
<1>3. ASSUME NEW t, NEW ok, NEW failed, Release(t, ok, failed) \/ Enqueue(t, ok, failed)
      PROVE  P
  BY <1>3 DEF Release, Enqueue
<1>4. ASSUME NEW w \in Workers,
             \/ Reserve(w) \/ TryAcquireJobLock(w) \/ RequeueAfter(w) \/ Ack(w) \/ ReleaseLock(w)
             \/ PipelineRead(w) \/ ProcessRead(w) \/ Poll(w)
      PROVE  P
  BY <1>4 DEF Reserve, TryAcquireJobLock, RequeueAfter, Ack, ReleaseLock, PipelineRead,
              ProcessRead, Poll, Read
<1>5. ASSUME NEW w \in Workers,
             \/ ProcessorTransition(w) \/ IndexResult(w) \/ SettleRead(w) \/ CaptureHold(w)
             \/ MarkSettled(w) \/ RecordSettlementFailure(w)
      PROVE  P
  BY <1>5 DEF ProcessorTransition, Transition, IndexResult, SettleRead, Read, CaptureHold,
              MarkSettled, RecordSettlementFailure
<1>6. CASE \/ FailStale \/ Timers \/ UpstreamEnds \/ LoseAccount
           \/ DeleteRecord \/ MarkOutputDeleted \/ UNCHANGED vars
  <2>1. CASE FailStale
    BY <2>1 DEF FailStale, Faulty
  <2>2. CASE RecoverStaleActive \/ LockLapses
    BY <2>2 DEF RecoverStaleActive, LockLapses, Unattended, Faulty
  <2>3. CASE \/ GrowStale \/ ListStale \/ MoveDueDelayed \/ UpstreamEnds \/ LoseAccount
             \/ DeleteRecord \/ MarkOutputDeleted
    BY <2>3 DEF GrowStale, ListStale, MoveDueDelayed, UpstreamEnds, LoseAccount,
                DeleteRecord, MarkOutputDeleted
  <2>4. CASE UNCHANGED vars
    BY <2>4 DEF vars
  <2> QED
    BY <1>6, <2>1, <2>2, <2>3, <2>4 DEF Timers
<1>7. ASSUME NEW t \in Threads, Crash(t) PROVE P
  BY <1>7 DEF Crash
<1>8. ASSUME NEW c \in Clients, ClientStep(c) PROVE P
  BY <1>2, <1>3, <1>8
     DEF ClientStep, EnqueueSubmitted, ReleaseFailedSubmit, EnqueueRetry, CancelEnqueue,
         CancelRelease
<1>9. ASSUME NEW w \in Workers, WorkerStep(w) PROVE P
  BY <1>3, <1>4, <1>5, <1>9 DEF WorkerStep, ReleaseTerminalHold, FailExhausted
<1>10. CASE SweepStep
  BY <1>3, <1>6, <1>10 DEF SweepStep, SweepRelease, EnqueueRetry, ReleaseRetry, Faulty
<1> QED
  BY <1>1, <1>4, <1>6, <1>7, <1>8, <1>9, <1>10 DEF Next, Faulty

\* The money moves in three kinds of step only.
MoneyStep ==
    \/ UNCHANGED moneyVars
    \/ \E c \in Clients : ReserveHold(c) /\ ReserveBatchImageBalance
    \/ \E w \in Workers : CaptureHold(w) /\ CaptureBatchImageBalance
    \/ /\ ReleaseBatchImageBalance /\ UNCHANGED jobVars
       /\ \/ \E c \in Clients : ReleaseFailedSubmit(c)
          \/ \E t \in Threads : pc[t] \in {"cancel_release", "sweep_release", "release"}
          \/ \E w \in Workers : FailExhausted(w)

LEMMA MoneyMoves == ASSUME [Next]_vars PROVE MoneyStep
<1> USE DEF MoneyStep
<1>1. ASSUME NEW c \in Clients, Request(c) PROVE UNCHANGED moneyVars
  BY <1>1 DEF Request, Submit, Resubmit, Cancel
<1>2. ASSUME NEW c \in Clients,
             \/ CreatePendingItems(c) \/ StartUpload(c) \/ ProviderSubmit(c)
             \/ MarkSubmitted(c) \/ AbortOrphan(c) \/ CancelUpstream(c) \/ CancelMark(c)
             \/ RecordSubmitFailure(c)
      PROVE  UNCHANGED moneyVars
  BY <1>2 DEF CreatePendingItems, StartUpload, ProviderSubmit, MarkSubmitted,
              AbortOrphan, CancelUpstream, CancelMark, RecordSubmitFailure
<1>3. ASSUME NEW t, NEW ok, NEW failed, Enqueue(t, ok, failed)
      PROVE  UNCHANGED moneyVars
  BY <1>3 DEF Enqueue
<1>4. ASSUME NEW t, NEW ok, NEW failed, Release(t, ok, failed)
      PROVE  UNCHANGED moneyVars \/ (ReleaseBatchImageBalance /\ UNCHANGED jobVars)
  BY <1>4 DEF Release, Try
<1>5. ASSUME NEW c \in Clients, ReserveHold(c) PROVE MoneyStep
  BY <1>5 DEF ReserveHold, Try
<1>6. ASSUME NEW w \in Workers, CaptureHold(w) PROVE MoneyStep
  BY <1>6 DEF CaptureHold, Try
<1>7. ASSUME NEW w \in Workers,
             \/ Reserve(w) \/ TryAcquireJobLock(w) \/ RequeueAfter(w) \/ Ack(w) \/ ReleaseLock(w)
             \/ PipelineRead(w) \/ ProcessRead(w) \/ Poll(w) \/ ProcessorTransition(w)
             \/ IndexResult(w) \/ SettleRead(w) \/ MarkSettled(w) \/ RecordSettlementFailure(w)
      PROVE  UNCHANGED moneyVars
  BY <1>7 DEF Reserve, TryAcquireJobLock, RequeueAfter, Ack, ReleaseLock, PipelineRead,
              ProcessRead, Poll, Read, ProcessorTransition, IndexResult, SettleRead,
              MarkSettled, RecordSettlementFailure
<1>8. CASE \/ FailStale \/ Timers \/ UpstreamEnds \/ LoseAccount
           \/ DeleteRecord \/ MarkOutputDeleted \/ UNCHANGED vars
  BY <1>8 DEF FailStale, Timers, GrowStale, ListStale, MoveDueDelayed, RecoverStaleActive,
              LockLapses, UpstreamEnds, LoseAccount, DeleteRecord, MarkOutputDeleted, vars
<1>9. ASSUME NEW t \in Threads, Crash(t) PROVE UNCHANGED moneyVars
  BY <1>9 DEF Crash
<1>10. ASSUME NEW c \in Clients, ClientStep(c) PROVE MoneyStep
  <2>0. c \in Threads
    BY DEF Threads
  <2>1. CASE EnqueueSubmitted(c) \/ EnqueueRetry(c) \/ CancelEnqueue(c)
    BY <1>3, <2>1 DEF EnqueueSubmitted, EnqueueRetry, CancelEnqueue
  <2>2. CASE ReleaseFailedSubmit(c)
    <3>1. UNCHANGED moneyVars \/ (ReleaseBatchImageBalance /\ UNCHANGED jobVars)
      BY <1>4, <2>2 DEF ReleaseFailedSubmit
    <3> QED
      BY <2>2, <3>1
  <2>3. CASE CancelRelease(c)
    BY <1>4, <2>0, <2>3 DEF CancelRelease
  <2> QED
    BY <1>2, <1>5, <1>10, <2>1, <2>2, <2>3 DEF ClientStep
<1>11. ASSUME NEW w \in Workers, WorkerStep(w) PROVE MoneyStep
  <2>0. w \in Threads
    BY DEF Threads
  <2>1. CASE ReleaseTerminalHold(w)
    BY <1>4, <2>0, <2>1 DEF ReleaseTerminalHold
  <2>2. CASE FailExhausted(w)
    <3>1. UNCHANGED moneyVars \/ (ReleaseBatchImageBalance /\ UNCHANGED jobVars)
      BY <1>4, <2>2 DEF FailExhausted
    <3> QED
      BY <2>2, <3>1
  <2> QED
    BY <1>6, <1>7, <1>11, <2>1, <2>2 DEF WorkerStep
<1>12. CASE SweepStep
  <2>0. Sweep \in Threads
    BY DEF Threads
  <2>1. CASE SweepRelease
    BY <1>4, <2>0, <2>1 DEF SweepRelease
  <2> QED
    BY <1>3, <1>8, <1>12, <2>1 DEF SweepStep, EnqueueRetry
<1> QED
  BY <1>1, <1>7, <1>8, <1>9, <1>10, <1>11, <1>12 DEF Next

\* Every step that changes the status, or names the provider's job.
RowStep ==
    \/ UNCHANGED <<status, named>>
    \/ /\ status' = "submitted" /\ named' = TRUE /\ CanTransition("submitted")
       /\ \E c \in Clients : MarkSubmitted(c)
    \/ /\ UNCHANGED named
       /\ \/ status = "absent" /\ status' = "created"
          \/ status' = "uploading" /\ CanTransition("uploading")
          \/ /\ status' = "failed"
             /\ \E c \in Clients : pc[c] \in {"record", "record_retry"} /\ RecordSubmitFailure(c)
          \/ status' = "failed" /\ status \in Unsubmitted /\ FailStale
          \/ /\ status' = "failed" /\ CanTransition("failed")
             /\ \E w \in Workers : pc[w] \in {"to_failed", "exhausted"}
          \/ /\ status' = "cancelled" /\ CanTransition("cancelled")
             /\ \/ \E c \in Clients : CancelMark(c)
                \/ \E w \in Workers : pc[w] = "to_cancelled"
          \/ status' = "running" /\ CanTransition("running")
          \/ /\ status' = "indexing" /\ CanTransition("indexing")
             /\ \E w \in Workers : pc[w] = "to_indexing"
          \/ /\ status' = "settling" /\ CanTransition("settling")
             /\ \E w \in Workers : pc[w] = "to_settling" /\ ProcessorTransition(w)
          \/ status = "settling" /\ status' = "completed" /\ \E w \in Workers : pc[w] = "mark"
          \/ status = "completed" /\ status' = "output_deleted"

LEMMA RowMoves == ASSUME [Next]_vars PROVE RowStep
<1> USE DEF RowStep, jobVars
<1>1. ASSUME NEW c \in Clients, Request(c) PROVE RowStep
  BY <1>1 DEF Request, Submit, Resubmit, Cancel
<1>2. ASSUME NEW c \in Clients, StartUpload(c) \/ CancelMark(c) PROVE RowStep
  BY <1>2 DEF StartUpload, CancelMark, Transition, Try
<1>3. ASSUME NEW c \in Clients, MarkSubmitted(c) PROVE RowStep
  BY <1>3 DEF MarkSubmitted, Try
<1>4. ASSUME NEW c \in Clients, RecordSubmitFailure(c) PROVE RowStep
  BY <1>4 DEF RecordSubmitFailure, Try
<1>5. ASSUME NEW t, NEW ok, NEW failed, Enqueue(t, ok, failed) \/ Release(t, ok, failed) PROVE RowStep
  BY <1>5 DEF Enqueue, Release
<1>6. ASSUME NEW c \in Clients,
             ReserveHold(c) \/ CreatePendingItems(c) \/ ProviderSubmit(c) \/ AbortOrphan(c)
             \/ CancelUpstream(c)
      PROVE  RowStep
  BY <1>6 DEF ReserveHold, CreatePendingItems, ProviderSubmit, AbortOrphan, CancelUpstream
<1>7. ASSUME NEW w \in Workers, ProcessorTransition(w) PROVE RowStep
  BY <1>7 DEF ProcessorTransition, Transition, Try
<1>8. ASSUME NEW w \in Workers, MarkSettled(w) PROVE RowStep
  BY <1>8 DEF MarkSettled, Try
<1>9. ASSUME NEW w \in Workers,
             \/ Reserve(w) \/ TryAcquireJobLock(w) \/ RequeueAfter(w) \/ Ack(w) \/ ReleaseLock(w)
             \/ PipelineRead(w) \/ ProcessRead(w) \/ Poll(w)
             \/ IndexResult(w) \/ SettleRead(w) \/ CaptureHold(w) \/ RecordSettlementFailure(w)
      PROVE  RowStep
  BY <1>9 DEF Reserve, TryAcquireJobLock, RequeueAfter, Ack, ReleaseLock, PipelineRead,
              ProcessRead, Poll, Read, IndexResult, SettleRead, CaptureHold,
              RecordSettlementFailure
<1>10. CASE FailStale
  BY <1>10 DEF FailStale, Try, IsStale
<1>11. CASE \/ Timers \/ UpstreamEnds \/ LoseAccount
            \/ DeleteRecord \/ MarkOutputDeleted \/ UNCHANGED vars
  BY <1>11 DEF Timers, GrowStale, ListStale, MoveDueDelayed, RecoverStaleActive,
              LockLapses, UpstreamEnds, LoseAccount, DeleteRecord, MarkOutputDeleted, vars
<1>12. ASSUME NEW t \in Threads, Crash(t) PROVE RowStep
  BY <1>12 DEF Crash
<1>13. ASSUME NEW c \in Clients, ClientStep(c) PROVE RowStep
  BY <1>2, <1>3, <1>4, <1>5, <1>6, <1>13
     DEF ClientStep, EnqueueSubmitted, ReleaseFailedSubmit, EnqueueRetry, CancelEnqueue,
         CancelRelease
<1>14. ASSUME NEW w \in Workers, WorkerStep(w) PROVE RowStep
  BY <1>5, <1>7, <1>8, <1>9, <1>14 DEF WorkerStep, ReleaseTerminalHold, FailExhausted
<1>15. CASE SweepStep
  BY <1>5, <1>10, <1>15 DEF SweepStep, SweepRelease, EnqueueRetry
<1> QED
  BY <1>1, <1>9, <1>11, <1>12, <1>13, <1>14, <1>15 DEF Next

\* What else the steps write.
LEMMA ScalarMoves ==
    ASSUME [Next]_vars
    PROVE  /\ \/ retries' = retries
              \/ retries' = retries + 1 /\ \E w \in Workers : RecordSettlementFailure(w)
           /\ ready' \in {ready, ready + 1} \/ (ready > 0 /\ ready' = ready - 1)
           /\ lock' \in Workers \cup {lock, NoOne}
           /\ upstream' \in {upstream, "running", "succeeded", "unreadable", "failed", "cancelled"}
<1> DEFINE P ==
           /\ \/ retries' = retries
              \/ retries' = retries + 1 /\ \E w \in Workers : RecordSettlementFailure(w)
           /\ ready' \in {ready, ready + 1} \/ (ready > 0 /\ ready' = ready - 1)
           /\ lock' \in Workers \cup {lock, NoOne}
           /\ upstream' \in {upstream, "running", "succeeded", "unreadable", "failed", "cancelled"}
<1> USE DEF Try, jobVars, queueVars, providerVars
<1>1. ASSUME NEW c \in Clients, Request(c) PROVE P
  BY <1>1 DEF Request, Submit, Resubmit, Cancel
<1>2. ASSUME NEW c \in Clients, ReserveHold(c) \/ CreatePendingItems(c) PROVE P
  BY <1>2 DEF ReserveHold, CreatePendingItems
<1>3. ASSUME NEW c \in Clients, StartUpload(c) \/ CancelMark(c) PROVE P
  BY <1>3 DEF StartUpload, CancelMark
<1>4. ASSUME NEW c \in Clients, ProviderSubmit(c) \/ AbortOrphan(c) \/ CancelUpstream(c) PROVE P
  BY <1>4 DEF ProviderSubmit, AbortOrphan, CancelUpstream
<1>5. ASSUME NEW c \in Clients, MarkSubmitted(c) \/ RecordSubmitFailure(c) PROVE P
  BY <1>5 DEF MarkSubmitted, RecordSubmitFailure
<1>6. ASSUME NEW t, NEW ok, NEW failed, Enqueue(t, ok, failed) \/ Release(t, ok, failed) PROVE P
  BY <1>6 DEF Enqueue, Release
<1>7. ASSUME NEW w \in Workers, Reserve(w) PROVE P
  BY <1>7 DEF Reserve
<1>8. ASSUME NEW w \in Workers, TryAcquireJobLock(w) \/ ReleaseLock(w) PROVE P
  BY <1>8 DEF TryAcquireJobLock, ReleaseLock
<1>9. ASSUME NEW w \in Workers, RequeueAfter(w) \/ Ack(w) PROVE P
  BY <1>9 DEF RequeueAfter, Ack
<1>10. ASSUME NEW w \in Workers,
              PipelineRead(w) \/ ProcessRead(w) \/ Poll(w) \/ IndexResult(w) \/ SettleRead(w)
       PROVE  P
  BY <1>10 DEF PipelineRead, ProcessRead, Poll, IndexResult, SettleRead, Read
<1>11. ASSUME NEW w \in Workers, ProcessorTransition(w) \/ MarkSettled(w) PROVE P
  BY <1>11 DEF ProcessorTransition, MarkSettled
<1>12. ASSUME NEW w \in Workers, CaptureHold(w) \/ RecordSettlementFailure(w) PROVE P
  BY <1>12 DEF CaptureHold, RecordSettlementFailure
<1>13. CASE FailStale
  BY <1>13 DEF FailStale
<1>14. CASE GrowStale \/ ListStale \/ MoveDueDelayed \/ RecoverStaleActive \/ LockLapses
  BY <1>14 DEF GrowStale, ListStale, MoveDueDelayed, RecoverStaleActive, LockLapses
<1>15. CASE UpstreamEnds \/ LoseAccount \/ DeleteRecord \/ MarkOutputDeleted \/ UNCHANGED vars
  BY <1>15 DEF UpstreamEnds, LoseAccount, DeleteRecord, MarkOutputDeleted, vars
<1>16. ASSUME NEW t \in Threads, Crash(t) PROVE P
  BY <1>16 DEF Crash
<1>17. ASSUME NEW c \in Clients, ClientStep(c) PROVE P
  BY <1>2, <1>3, <1>4, <1>5, <1>6, <1>17
     DEF ClientStep, EnqueueSubmitted, ReleaseFailedSubmit, EnqueueRetry, CancelEnqueue,
         CancelRelease
<1>18. ASSUME NEW w \in Workers, WorkerStep(w) PROVE P
  BY <1>6, <1>8, <1>9, <1>10, <1>11, <1>12, <1>18
     DEF WorkerStep, ReleaseTerminalHold, FailExhausted
<1>19. CASE SweepStep
  BY <1>6, <1>13, <1>19 DEF SweepStep, SweepRelease, EnqueueRetry
<1> QED
  BY <1>1, <1>7, <1>14, <1>15, <1>16, <1>17, <1>18, <1>19 DEF Next, Timers

LEMMA FlagMoves ==
    ASSUME Booleans, [Next]_vars
    PROVE  Booleans'
<1> USE DEF Try, Booleans, jobVars, moneyVars, queueVars, providerVars
<1>1. ASSUME NEW c \in Clients, Request(c) PROVE Booleans'
  BY <1>1 DEF Request, Submit, Resubmit, Cancel
<1>2. ASSUME NEW c \in Clients, ReserveHold(c) \/ CreatePendingItems(c) PROVE Booleans'
  BY <1>2 DEF ReserveHold, CreatePendingItems, ReserveBatchImageBalance
<1>3. ASSUME NEW c \in Clients, StartUpload(c) \/ CancelMark(c) PROVE Booleans'
  BY <1>3 DEF StartUpload, CancelMark, Transition
<1>4. ASSUME NEW c \in Clients, ProviderSubmit(c) \/ AbortOrphan(c) \/ CancelUpstream(c)
      PROVE  Booleans'
  BY <1>4 DEF ProviderSubmit, AbortOrphan, CancelUpstream
<1>5. ASSUME NEW c \in Clients, MarkSubmitted(c) \/ RecordSubmitFailure(c) PROVE Booleans'
  BY <1>5 DEF MarkSubmitted, RecordSubmitFailure
<1>6. ASSUME NEW t, NEW ok, NEW failed, Enqueue(t, ok, failed) \/ Release(t, ok, failed)
      PROVE  Booleans'
  BY <1>6 DEF Enqueue, Release, ReleaseBatchImageBalance
<1>7. ASSUME NEW w \in Workers, Reserve(w) PROVE Booleans'
  BY <1>7 DEF Reserve
<1>8. ASSUME NEW w \in Workers, TryAcquireJobLock(w) \/ ReleaseLock(w) PROVE Booleans'
  BY <1>8 DEF TryAcquireJobLock, ReleaseLock
<1>9. ASSUME NEW w \in Workers, RequeueAfter(w) \/ Ack(w) PROVE Booleans'
  BY <1>9 DEF RequeueAfter, Ack
<1>10. ASSUME NEW w \in Workers,
              PipelineRead(w) \/ ProcessRead(w) \/ Poll(w) \/ IndexResult(w) \/ SettleRead(w)
       PROVE  Booleans'
  BY <1>10 DEF PipelineRead, ProcessRead, Poll, IndexResult, SettleRead, Read
<1>11. ASSUME NEW w \in Workers, ProcessorTransition(w) \/ MarkSettled(w) PROVE Booleans'
  BY <1>11 DEF ProcessorTransition, MarkSettled, Transition
<1>12. ASSUME NEW w \in Workers, CaptureHold(w) \/ RecordSettlementFailure(w) PROVE Booleans'
  BY <1>12 DEF CaptureHold, RecordSettlementFailure, CaptureBatchImageBalance
<1>13. CASE FailStale
  BY <1>13 DEF FailStale
<1>14. CASE GrowStale \/ ListStale \/ MoveDueDelayed \/ RecoverStaleActive \/ LockLapses
  BY <1>14 DEF GrowStale, ListStale, MoveDueDelayed, RecoverStaleActive, LockLapses
<1>15. CASE UpstreamEnds \/ LoseAccount \/ DeleteRecord \/ MarkOutputDeleted \/ UNCHANGED vars
  BY <1>15 DEF UpstreamEnds, LoseAccount, DeleteRecord, MarkOutputDeleted, vars
<1>16. ASSUME NEW t \in Threads, Crash(t) PROVE Booleans'
  BY <1>16 DEF Crash
<1>17. ASSUME NEW c \in Clients, ClientStep(c) PROVE Booleans'
  BY <1>2, <1>3, <1>4, <1>5, <1>6, <1>17
     DEF ClientStep, EnqueueSubmitted, ReleaseFailedSubmit, EnqueueRetry, CancelEnqueue,
         CancelRelease
<1>18. ASSUME NEW w \in Workers, WorkerStep(w) PROVE Booleans'
  BY <1>6, <1>8, <1>9, <1>10, <1>11, <1>12, <1>18
     DEF WorkerStep, ReleaseTerminalHold, FailExhausted
<1>19. CASE SweepStep
  BY <1>6, <1>13, <1>19 DEF SweepStep, SweepRelease, EnqueueRetry
<1> QED
  BY <1>1, <1>7, <1>14, <1>15, <1>16, <1>17, <1>18, <1>19 DEF Next, Timers

-----------------------------------------------------------------------------
\* Where a thread may go next, of the places the invariant speaks of.
ClientMoves(c) ==
    /\ pc'[c] \in PreSubmit => pc[c] \in PreSubmit \/ (Submit(c) /\ pc'[c] = "reserve")
    /\ pc'[c] \in Forward => pc[c] \in Forward \/ Submit(c)
    /\ pc'[c] \in Forward \ {"reserve"} =>
           pc[c] \in Forward \ {"reserve"} \/ ReserveBatchImageBalance
    /\ pc'[c] = "reserve" => Submit(c)
    /\ pc'[c] = "record" => ReserveHold(c) \/ ReleaseBatchImageBalance
    /\ pc'[c] = "cancel_release" => status' \in Failed
    /\ pc'[c] \notin {"sweep_release", "release"}

WorkerMoves(w) ==
    /\ pc'[w] \in Processing => lock' = w \/ (pc[w] \in Processing /\ lock' = lock)
    /\ pc'[w] \in Working =>
           \/ pc[w] \in Working /\ status' \in {status, "indexing"}
           \/ named /\ status \notin Paying /\ status' = status
    /\ pc'[w] = "to_indexing" => pc[w] \in Working /\ upstream \in {"succeeded", "unreadable"}
    /\ pc'[w] = "index" => pc[w] = "to_indexing" \/ status = "indexing"
    /\ pc'[w] = "to_settling" => pc[w] = "index" /\ upstream # "unreadable"
    /\ pc'[w] = "to_failed" => \/ pc[w] \in Working /\ upstream \in {"failed", "unreadable"}
                              \/ "index" \in MayFail
    /\ pc'[w] = "to_cancelled" => pc[w] \in Working /\ upstream = "cancelled"
    /\ pc'[w] = "capture" => status = "settling" /\ status' = status /\ cost <= Hold
    /\ pc'[w] = "mark" => "capture" \in claims'
    /\ pc'[w] \in {"give_up", "exhausted", "release_failed"} =>
           \/ pc[w] = "give_up"
           \/ pc[w] = "settle" /\ retries >= MaxRetries
           \/ pc[w] = "settle_failed" /\ retries + 1 >= MaxRetries
    /\ pc'[w] = "settle_failed" =>
           \/ cost > Hold
           \/ pc[w] = "capture" /\ faults' = faults + 1
           \/ pc[w] = "capture" /\ ~Charged /\ frozen < Hold
    /\ pc'[w] = "settle_failed" => retries' = retries
    /\ pc'[w] = "release" => status' \in Failed
    /\ pc'[w] = "process" => status # "settling" /\ status' = status
    /\ pc'[w] \in {"ack", "exhausted"} =>
           \/ status \in {"completed", "output_deleted"} \/ pc[w] \in {"mark", "exhausted"}
           \/ pc[w] = "process" /\ status = "settling"
           \/ ReleaseBatchImageBalance
    /\ pc'[w] \notin {"sweep_release", "cancel_release"}

Threaded == pc \in [Threads -> Labels]
OthersStay(t) == \A u \in Threads : u # t => pc'[u] = pc[u]

LEMMA GoesTo ==
    ASSUME Threaded, NEW t \in Threads, NEW l, Goto(t, l)
    PROVE  pc'[t] = l /\ OthersStay(t)
<1> QED
  BY DEF Threaded, Goto, OthersStay

LEMMA ReleaseGoes ==
    ASSUME NEW t \in Threads, NEW ok, NEW failed, Release(t, ok, failed)
    PROVE  /\ Goto(t, ok) \/ Goto(t, failed)
           /\ UNCHANGED <<jobVars, lock>>
<1> QED
  BY DEF Release, Try

\* A call that goes on at ok has taken effect.
LEMMA ReleaseTakes ==
    ASSUME Threaded, NEW t \in Threads, NEW ok, NEW failed, Release(t, ok, failed),
           pc'[t] # failed
    PROVE  ReleaseBatchImageBalance
<1> QED
  BY GoesTo DEF Release, Try

LEMMA EnqueueGoes ==
    ASSUME NEW t \in Threads, Enqueue(t, "idle", "idle")
    PROVE  Goto(t, "idle") /\ UNCHANGED <<jobVars, lock>>
<1> QED
  BY DEF Enqueue, Try

LEMMA ClientGoes ==
    ASSUME Threaded, NEW c \in Clients, Request(c) \/ ClientStep(c)
    PROVE  ClientMoves(c) /\ OthersStay(c)
<1> USE DEF ClientMoves, PreSubmit, Forward, Failed
<1>0. c \in Threads
  BY DEF Threads
<1>1. CASE Request(c)
  BY <1>0, <1>1, GoesTo DEF Request, Submit, Resubmit, Cancel, jobVars
<1>2. CASE ReserveHold(c)
  BY <1>0, <1>2, GoesTo DEF ReserveHold, Try
<1>3. CASE CreatePendingItems(c) \/ ProviderSubmit(c) \/ AbortOrphan(c) \/ CancelUpstream(c)
  BY <1>0, <1>3, GoesTo DEF CreatePendingItems, ProviderSubmit, AbortOrphan, CancelUpstream, Try
<1>4. CASE StartUpload(c)
  BY <1>0, <1>4, GoesTo DEF StartUpload, Transition, Try
<1>5. CASE MarkSubmitted(c)
  BY <1>0, <1>5, GoesTo DEF MarkSubmitted, Try
<1>6. CASE EnqueueSubmitted(c) \/ EnqueueRetry(c) \/ CancelEnqueue(c)
  BY <1>0, <1>6, GoesTo, EnqueueGoes DEF EnqueueSubmitted, EnqueueRetry, CancelEnqueue
<1>7. CASE ReleaseFailedSubmit(c)
  BY <1>0, <1>7, GoesTo, ReleaseGoes, ReleaseTakes DEF ReleaseFailedSubmit
<1>8. CASE RecordSubmitFailure(c)
  BY <1>0, <1>8, GoesTo DEF RecordSubmitFailure, Try
<1>9. CASE CancelMark(c)
  BY <1>0, <1>9, GoesTo DEF CancelMark, Transition, Try
<1>10. CASE CancelRelease(c)
  BY <1>0, <1>10, GoesTo, ReleaseGoes DEF CancelRelease, ReleaseRetry
<1> QED
  BY <1>1, <1>2, <1>3, <1>4, <1>5, <1>6, <1>7, <1>8, <1>9, <1>10 DEF ClientStep

LEMMA WorkerGoes ==
    ASSUME Threaded, cost \in Nat, NEW w \in Workers, Reserve(w) \/ WorkerStep(w)
    PROVE  WorkerMoves(w) /\ OthersStay(w)
<1> USE DEF WorkerMoves, Processing, Working, Failed, Paying, jobVars, moneyVars, Ended
<1>0. w \in Threads
  BY DEF Threads
<1>1. CASE Reserve(w) \/ TryAcquireJobLock(w) \/ ReleaseLock(w)
  BY <1>0, <1>1, GoesTo DEF Reserve, TryAcquireJobLock, ReleaseLock, Try
<1>2. CASE RequeueAfter(w) \/ Ack(w)
  BY <1>0, <1>2, GoesTo DEF RequeueAfter, Ack, Try
<1>3. CASE PipelineRead(w)
  BY <1>0, <1>3, GoesTo DEF PipelineRead, Read
<1>4. CASE ProcessRead(w)
  BY <1>0, <1>4, GoesTo DEF ProcessRead, Workable, Read
<1>5. CASE Poll(w)
  BY <1>0, <1>5, GoesTo DEF Poll, Read
<1>6. CASE ProcessorTransition(w)
  BY <1>0, <1>6, GoesTo DEF ProcessorTransition, Transition, Try
<1>7. CASE IndexResult(w)
  BY <1>0, <1>7, GoesTo DEF IndexResult
<1>8. CASE ReleaseTerminalHold(w)
  BY <1>0, <1>8, GoesTo, ReleaseGoes, ReleaseTakes DEF ReleaseTerminalHold
<1>9. CASE FailExhausted(w)
  BY <1>0, <1>9, GoesTo, ReleaseGoes, ReleaseTakes DEF FailExhausted
<1>10. CASE SettleRead(w)
  BY <1>0, <1>10, GoesTo, AmountsAssumption DEF SettleRead, Read, Exhausted
<1>11. CASE CaptureHold(w)
  BY <1>0, <1>11, GoesTo DEF CaptureHold, Try, CaptureBatchImageBalance, Claim, Captured, Charged,
                             Faulty
<1>12. CASE MarkSettled(w)
  BY <1>0, <1>12, GoesTo DEF MarkSettled, Try
<1>13. CASE RecordSettlementFailure(w)
  BY <1>0, <1>13, GoesTo DEF RecordSettlementFailure, Try
<1> QED
  BY <1>1, <1>2, <1>3, <1>4, <1>5, <1>6, <1>7, <1>8, <1>9, <1>10, <1>11, <1>12, <1>13 DEF WorkerStep

LEMMA SweepGoes ==
    ASSUME Threaded, SweepStep
    PROVE  /\ OthersStay(Sweep)
           /\ pc'[Sweep] \in {"sweep_release", "idle", "retry"}
           /\ pc'[Sweep] = "sweep_release" => status' \in Failed
<1> USE DEF Failed
<1>0. Sweep \in Threads
  BY DEF Threads
<1>1. CASE FailStale
  BY <1>0, <1>1, GoesTo DEF FailStale, Try
<1>2. CASE SweepRelease
  BY <1>0, <1>2, GoesTo, ReleaseGoes DEF SweepRelease, ReleaseRetry
<1>3. CASE EnqueueRetry(Sweep)
  BY <1>0, <1>3, GoesTo, EnqueueGoes DEF EnqueueRetry
<1> QED
  BY <1>1, <1>2, <1>3 DEF SweepStep

\* The rest of the steps move threads to places the invariant does not speak of.
Rest == \/ Timers \/ UpstreamEnds \/ LoseAccount \/ DeleteRecord \/ MarkOutputDeleted
        \/ (\E t \in Threads : Crash(t)) \/ UNCHANGED vars

LEMMA RestGoes ==
    ASSUME Threaded, Rest
    PROVE  \A t \in Threads : pc'[t] \in {pc[t], "idle", "sweep"}
<1>1. CASE UNCHANGED pc
  BY <1>1
<1>2. CASE ListStale
  BY <1>2, GoesTo DEF ListStale, OthersStay, Threads
<1>3. ASSUME NEW t \in Threads, Crash(t) PROVE \A u \in Threads : pc'[u] \in {pc[u], "idle", "sweep"}
  BY <1>3, GoesTo DEF Crash, OthersStay
<1> QED
  BY <1>1, <1>2, <1>3
     DEF Rest, Timers, GrowStale, MoveDueDelayed, RecoverStaleActive, LockLapses, UpstreamEnds,
         LoseAccount, DeleteRecord, MarkOutputDeleted, vars

LEMMA StepKinds ==
    ASSUME [Next]_vars
    PROVE  \/ \E c \in Clients : Request(c) \/ ClientStep(c)
           \/ \E w \in Workers : Reserve(w) \/ WorkerStep(w)
           \/ SweepStep
           \/ Rest
<1> QED
  BY DEF Next, Rest

-----------------------------------------------------------------------------
\* Types

LEMMA Amounts ==
    ASSUME Numbers
    PROVE  Hold \in Nat /\ Hold > 0 /\ cost \in Nat /\ MaxRetries \in Nat /\ MaxFaults \in Nat
<1> QED
  BY AmountsAssumption, BoundsAssumption DEF Numbers

LEMMA MoneyTyped ==
    ASSUME Numbers, Covered, [Next]_vars
    PROVE  /\ claims' \subseteq {"hold", "capture", "release"}
           /\ balance' \in Nat /\ frozen' \in Nat /\ cost' = cost
<1>0. /\ Hold \in Nat /\ cost \in Nat /\ balance \in Nat /\ frozen \in Nat
      /\ claims \subseteq {"hold", "capture", "release"}
  BY Amounts DEF Numbers
<1> USE DEF moneyVars, Claim
<1>1. CASE UNCHANGED moneyVars
  BY <1>0, <1>1
<1>2. CASE ReserveBatchImageBalance
  BY <1>0, <1>2 DEF ReserveBatchImageBalance, Affordable
<1>3. ASSUME NEW w \in Workers, CaptureHold(w) /\ CaptureBatchImageBalance
      PROVE  /\ claims' \subseteq {"hold", "capture", "release"}
             /\ balance' \in Nat /\ frozen' \in Nat /\ cost' = cost
  <2>1. cost <= Hold
    BY <1>3 DEF CaptureHold, Covered
  <2>2. \/ claims' = claims /\ balance' = balance /\ frozen' = frozen /\ cost' = cost
        \/ /\ frozen >= Hold /\ frozen' = frozen - Hold /\ balance' = balance + (Hold - cost)
           /\ claims' = claims \cup {"capture"} /\ cost' = cost
    BY <1>3 DEF CaptureBatchImageBalance
  <2>3. claims' \subseteq {"hold", "capture", "release"}
    BY <1>0, <2>1, <2>2
  <2>4. balance' \in Nat /\ frozen' \in Nat /\ cost' = cost
    BY <1>0, <2>1, <2>2
  <2> QED
    BY <2>3, <2>4
<1>4. CASE ReleaseBatchImageBalance
  <2>1. \/ claims' = claims \/ claims' = claims \cup {"release"}
    BY <1>4 DEF ReleaseBatchImageBalance
  <2>2. /\ cost' = cost
        /\ \/ balance' = balance /\ frozen' = frozen
           \/ frozen >= Hold /\ frozen' = frozen - Hold /\ balance' = balance + Hold
    BY <1>4 DEF ReleaseBatchImageBalance
  <2>3. claims' \subseteq {"hold", "capture", "release"}
    BY <1>0, <2>1, <2>2
  <2>4. balance' \in Nat /\ frozen' \in Nat /\ cost' = cost
    BY <1>0, <2>1, <2>2
  <2> QED
    BY <2>3, <2>4
<1> QED
  BY <1>1, <1>2, <1>3, <1>4, MoneyMoves DEF MoneyStep

LEMMA StatusTyped ==
    ASSUME Numbers, [Next]_vars
    PROVE  status' \in Statuses
<1> QED
  BY RowMoves DEF RowStep, Numbers, Statuses, Ended, Unsubmitted

LEMMA NumbersStep ==
    ASSUME Numbers, Covered, [Next]_vars
    PROVE  Numbers'
<1>1. pc' \in [Threads -> Labels]
  BY PcMoves DEF Numbers, Goto
<1>2. faults' \in Nat
  BY FaultMoves DEF Numbers
<1>3. retries' \in Nat /\ ready' \in Nat /\ lock' \in Workers \cup {NoOne}
  BY ScalarMoves DEF Numbers
<1>4. upstream' \in {"none", "running", "succeeded", "unreadable", "failed", "cancelled"}
  BY ScalarMoves DEF Numbers
<1> QED
  BY <1>1, <1>2, <1>3, <1>4, MoneyTyped, StatusTyped DEF Numbers

LEMMA CoveredStep ==
    ASSUME Numbers, Covered, [Next]_vars
    PROVE  Covered'
<1>0. Threaded /\ cost \in Nat /\ cost' = cost
  BY Amounts, MoneyTyped DEF Numbers, Threaded
<1>1. ASSUME NEW w \in Workers, pc'[w] = "capture" PROVE pc[w] = "capture" \/ cost <= Hold
  <2>0. w \in Threads
    BY DEF Threads
  <2>1. CASE \E c \in Clients : Request(c) \/ ClientStep(c)
    BY <1>0, <1>1, <2>0, <2>1, ClientGoes, ThreadsAssumption DEF OthersStay
  <2>2. CASE \E v \in Workers : Reserve(v) \/ WorkerStep(v)
    BY <1>0, <1>1, <2>0, <2>2, WorkerGoes DEF OthersStay, WorkerMoves
  <2>3. CASE SweepStep
    BY <1>0, <1>1, <2>0, <2>3, SweepGoes DEF OthersStay
  <2>4. CASE Rest
    BY <1>0, <1>1, <2>0, <2>4, RestGoes
  <2> QED
    BY <2>1, <2>2, <2>3, <2>4, StepKinds
<1> QED
  BY <1>0, <1>1 DEF Covered

LEMMA TypeInit == Init => Numbers /\ Booleans /\ Covered
<1> SUFFICES ASSUME Init PROVE Numbers /\ Booleans /\ Covered
  OBVIOUS
<1>1. Booleans
  BY DEF Init, Booleans
<1>2. Covered
  BY DEF Init, Covered, Threads
<1>3. Numbers
  BY AmountsAssumption DEF Init, Numbers, Statuses, Labels
<1> QED
  BY <1>1, <1>2, <1>3

\* For any environment, every step of the job's threads keeps the variables in their types.
THEOREM TypeCorrect == Spec => []TypeOK
<1>1. Init => Numbers /\ Booleans /\ Covered
  BY TypeInit
<1>2. Numbers /\ Booleans /\ Covered /\ [Next]_vars => (Numbers /\ Booleans /\ Covered)'
  BY NumbersStep, FlagMoves, CoveredStep
<1>3. Numbers /\ Booleans => TypeOK
  BY DEF Numbers, Booleans, TypeOK
<1> QED
  BY <1>1, <1>2, <1>3, PTL DEF Spec

-----------------------------------------------------------------------------
\* The invariant

Still == {"idle", "sweep"}

LEMMA ThreadMoves ==
    ASSUME Numbers, [Next]_vars
    PROVE  /\ \A c \in Clients : pc'[c] \in {pc[c]} \cup Still \/ ClientMoves(c)
           /\ \A w \in Workers : pc'[w] \in {pc[w]} \cup Still \/ WorkerMoves(w)
           /\ \/ pc'[Sweep] \in {pc[Sweep], "retry"} \cup Still
              \/ pc'[Sweep] = "sweep_release" /\ status' \in Failed
<1> USE DEF Still
<1>0. /\ Threaded /\ cost \in Nat
      /\ Clients \subseteq Threads /\ Workers \subseteq Threads /\ Sweep \in Threads
      /\ Clients \cap Workers = {} /\ Sweep \notin Clients \cup Workers
  BY Amounts, ThreadsAssumption DEF Numbers, Threaded, Threads
<1>1. ASSUME NEW c \in Clients, Request(c) \/ ClientStep(c)
      PROVE  ClientMoves(c) /\ \A t \in Threads : t # c => pc'[t] = pc[t]
  BY <1>0, <1>1, ClientGoes DEF OthersStay
<1>2. ASSUME NEW w \in Workers, Reserve(w) \/ WorkerStep(w)
      PROVE  WorkerMoves(w) /\ \A t \in Threads : t # w => pc'[t] = pc[t]
  BY <1>0, <1>2, WorkerGoes DEF OthersStay
<1>3. CASE SweepStep
  BY <1>0, <1>3, SweepGoes DEF OthersStay
<1>4. CASE Rest
  BY <1>0, <1>4, RestGoes
<1>5. CASE \E c \in Clients : Request(c) \/ ClientStep(c)
  BY <1>0, <1>1, <1>5
<1>6. CASE \E w \in Workers : Reserve(w) \/ WorkerStep(w)
  BY <1>0, <1>2, <1>6
<1> QED
  BY <1>3, <1>4, <1>5, <1>6, StepKinds

\* What the ledger has recorded stays, and the money moves once.
LEMMA LedgerMoves ==
    ASSUME [Next]_vars
    PROVE  /\ cost' = cost /\ claims \subseteq claims'
           /\ returned => returned'
           /\ "hold" \in claims' => \/ "hold" \in claims
                                    \/ /\ \E c \in Clients : pc[c] = "reserve"
                                       /\ ReserveBatchImageBalance
           /\ "capture" \in claims' => \/ "capture" \in claims
                                       \/ \E w \in Workers : pc[w] = "capture" /\ UNCHANGED jobVars
           /\ returned' => \/ returned
                           \/ "hold" \in claims /\ "release" \in claims' /\ UNCHANGED jobVars
                              /\ \/ \E c \in Clients : ReleaseFailedSubmit(c)
                                 \/ \E t \in Threads :
                                       pc[t] \in {"cancel_release", "sweep_release", "release"}
                                 \/ \E w \in Workers : pc[w] = "give_up"
           /\ \/ frozen' = frozen
              \/ ReserveBatchImageBalance
              \/ "capture" \in claims'
              \/ returned'
<1> USE DEF moneyVars, Claim
<1>1. CASE UNCHANGED moneyVars
  BY <1>1
<1>2. ASSUME NEW c \in Clients, ReserveHold(c), ReserveBatchImageBalance
      PROVE  /\ pc[c] = "reserve" /\ claims' = claims \cup {"hold"}
             /\ cost' = cost /\ returned' = returned
  BY <1>2 DEF ReserveHold, ReserveBatchImageBalance
<1>3. ASSUME NEW w \in Workers, CaptureHold(w), CaptureBatchImageBalance
      PROVE  /\ pc[w] = "capture" /\ UNCHANGED jobVars
             /\ claims' \in {claims, claims \cup {"capture"}} /\ "capture" \in claims'
             /\ cost' = cost /\ returned' = returned
  BY <1>3 DEF CaptureHold, CaptureBatchImageBalance, Captured
<1>4. ASSUME ReleaseBatchImageBalance
      PROVE  /\ claims' \in {claims, claims \cup {"release"}}
             /\ cost' = cost
             /\ \/ returned' = returned /\ frozen' = frozen
                \/ returned' /\ "hold" \in claims /\ "release" \in claims'
  BY <1>4 DEF ReleaseBatchImageBalance, WasHeld
<1>5. CASE \E c \in Clients : ReserveHold(c) /\ ReserveBatchImageBalance
  BY <1>2, <1>5
<1>6. CASE \E w \in Workers : CaptureHold(w) /\ CaptureBatchImageBalance
  BY <1>3, <1>6
<1>7. CASE /\ ReleaseBatchImageBalance /\ UNCHANGED jobVars
           /\ \/ \E c \in Clients : ReleaseFailedSubmit(c)
              \/ \E t \in Threads : pc[t] \in {"cancel_release", "sweep_release", "release"}
              \/ \E w \in Workers : FailExhausted(w)
  BY <1>4, <1>7 DEF FailExhausted
<1> QED
  BY <1>1, <1>5, <1>6, <1>7, MoneyMoves DEF MoneyStep

LEMMA MarkSubmittedGoes ==
    ASSUME Threaded, NEW c \in Clients, MarkSubmitted(c)
    PROVE  pc[c] = "submitted" /\ pc'[c] \in {"enqueue", "abort"}
<1> QED
  BY GoesTo DEF MarkSubmitted, Try, Threads

LEMMA NamedMoves ==
    ASSUME Numbers, [Next]_vars, OneSubmitter
    PROVE  /\ named => named'
           /\ named' => named \/ "hold" \in claims
           /\ status # "absent" => status' # "absent"
           /\ \A c \in Clients : pc[c] \in PreSubmit /\ pc'[c] \in PreSubmit => named' = named
<1>0. Threaded
  BY DEF Numbers, Threaded
<1>1. ASSUME NEW c \in Clients, MarkSubmitted(c)
      PROVE  /\ "hold" \in claims
             /\ \A d \in Clients : pc[d] \in PreSubmit => pc'[d] \notin PreSubmit
  BY <1>0, <1>1, MarkSubmittedGoes DEF OneSubmitter, PreSubmit, Forward
<1>2. CASE \E c \in Clients : MarkSubmitted(c) /\ named' = TRUE /\ status' = "submitted"
  BY <1>1, <1>2
<1>3. CASE named' = named /\ (status' # status => status' # "absent")
  BY <1>3
<1>4. \/ \E c \in Clients : MarkSubmitted(c) /\ named' = TRUE /\ status' = "submitted"
      \/ named' = named /\ (status' # status => status' # "absent")
  BY RowMoves DEF RowStep
<1> QED
  BY <1>2, <1>3, <1>4

LEMMA SubmitterStep ==
    ASSUME Numbers, OneSubmitter, RowKnown, [Next]_vars
    PROVE  OneSubmitter'
<1>0. \A c \in Clients : pc'[c] \in PreSubmit =>
          \/ pc[c] \in PreSubmit
          \/ Submit(c)
  BY ThreadMoves DEF Still, ClientMoves, PreSubmit, Forward
<1>1. ASSUME NEW c \in Clients, Submit(c)
      PROVE  /\ status = "absent" /\ ~named /\ status' = "created" /\ named' = named
             /\ \A d \in Clients : pc[d] \notin PreSubmit
  BY <1>1 DEF Submit, RowKnown, OneSubmitter
<1>2. ASSUME NEW c \in Clients, NEW d \in Clients, Submit(c), pc'[d] \in PreSubmit PROVE c = d
  <2>1. Threaded /\ c \in Threads /\ d \in Threads
    BY DEF Numbers, Threaded, Threads
  <2>2. OthersStay(c)
    BY <1>2, <2>1, GoesTo DEF Submit
  <2> QED
    BY <1>1, <1>2, <2>1, <2>2 DEF OthersStay
<1>3. \A c \in Clients : pc'[c] \in PreSubmit => ~named' /\ status' # "absent"
  BY <1>0, <1>1, NamedMoves DEF OneSubmitter
<1>4. \A c \in Clients : pc'[c] \in Forward \ {"reserve"} => "hold" \in claims'
  <2> SUFFICES ASSUME NEW c \in Clients, pc'[c] \in Forward \ {"reserve"}
               PROVE  "hold" \in claims'
    OBVIOUS
  <2>1. pc[c] \in Forward \ {"reserve"} \/ ReserveBatchImageBalance
    BY ThreadMoves DEF Still, ClientMoves, Forward
  <2> QED
    BY <2>1, LedgerMoves DEF OneSubmitter, ReserveBatchImageBalance, Claim
<1>5. \A c, d \in Clients : pc'[c] \in PreSubmit /\ pc'[d] \in PreSubmit => c = d
  BY <1>0, <1>1, <1>2 DEF OneSubmitter
<1> QED
  BY <1>3, <1>4, <1>5 DEF OneSubmitter

LEMMA LockMoves ==
    ASSUME [Next]_vars, MayStall = {}
    PROVE  \/ UNCHANGED lock
           \/ lock = NoOne
           \/ lock' = NoOne /\ (lock \in Workers => pc[lock] \notin Processing)
<1> DEFINE P == \/ UNCHANGED lock
                \/ lock = NoOne
                \/ lock' = NoOne /\ (lock \in Workers => pc[lock] \notin Processing)
<1> USE DEF Try
<1>1. ASSUME NEW c \in Clients, Request(c) PROVE P
  BY <1>1 DEF Request, Submit, Resubmit, Cancel
<1>2. ASSUME NEW c \in Clients,
             \/ ReserveHold(c) \/ CreatePendingItems(c) \/ StartUpload(c) \/ ProviderSubmit(c)
             \/ MarkSubmitted(c) \/ AbortOrphan(c) \/ CancelUpstream(c) \/ CancelMark(c)
             \/ RecordSubmitFailure(c)
      PROVE  P
  BY <1>2 DEF ReserveHold, CreatePendingItems, StartUpload, ProviderSubmit, MarkSubmitted,
              AbortOrphan, CancelUpstream, CancelMark, RecordSubmitFailure
<1>3. ASSUME NEW t, NEW ok, NEW failed, Release(t, ok, failed) \/ Enqueue(t, ok, failed)
      PROVE  P
  BY <1>3 DEF Release, Enqueue
<1>4. ASSUME NEW w \in Workers, TryAcquireJobLock(w) \/ ReleaseLock(w) PROVE P
  BY <1>4 DEF TryAcquireJobLock, ReleaseLock, Processing
<1>5. ASSUME NEW w \in Workers,
             \/ Reserve(w) \/ RequeueAfter(w) \/ Ack(w) \/ PipelineRead(w) \/ ProcessRead(w)
             \/ Poll(w) \/ ProcessorTransition(w) \/ IndexResult(w) \/ SettleRead(w)
             \/ CaptureHold(w) \/ MarkSettled(w) \/ RecordSettlementFailure(w)
      PROVE  P
  BY <1>5 DEF Reserve, RequeueAfter, Ack, PipelineRead, ProcessRead, Poll, ProcessorTransition,
              IndexResult, SettleRead, Read, CaptureHold, MarkSettled, RecordSettlementFailure
<1>6. CASE LockLapses
  BY <1>6 DEF LockLapses, Unattended
<1>7. CASE FailStale \/ GrowStale \/ ListStale \/ MoveDueDelayed \/ RecoverStaleActive
           \/ UpstreamEnds \/ LoseAccount \/ DeleteRecord \/ MarkOutputDeleted \/ UNCHANGED vars
  BY <1>7 DEF FailStale, GrowStale, ListStale, MoveDueDelayed, RecoverStaleActive,
              UpstreamEnds, LoseAccount, DeleteRecord, MarkOutputDeleted, vars
<1>8. ASSUME NEW t \in Threads, Crash(t) PROVE P
  BY <1>8 DEF Crash
<1>9. ASSUME NEW c \in Clients, ClientStep(c) PROVE P
  BY <1>2, <1>3, <1>9
     DEF ClientStep, EnqueueSubmitted, ReleaseFailedSubmit, EnqueueRetry, CancelEnqueue,
         CancelRelease
<1>10. ASSUME NEW w \in Workers, WorkerStep(w) PROVE P
  BY <1>3, <1>4, <1>5, <1>10 DEF WorkerStep, ReleaseTerminalHold, FailExhausted
<1>11. CASE SweepStep
  BY <1>3, <1>7, <1>11 DEF SweepStep, SweepRelease, EnqueueRetry
<1> QED
  BY <1>1, <1>5, <1>6, <1>7, <1>8, <1>9, <1>10, <1>11 DEF Next, Timers

LEMMA LockStep ==
    ASSUME Numbers, LockHeld, [Next]_vars, MayStall = {}
    PROVE  LockHeld'
<1> SUFFICES ASSUME NEW w \in Workers, pc'[w] \in Processing PROVE lock' = w
  BY DEF LockHeld
<1>1. lock' = w \/ pc[w] \in Processing
  BY ThreadMoves DEF Still, WorkerMoves, Processing
<1>2. CASE pc[w] \in Processing
  <2>1. lock = w /\ lock # NoOne
    BY <1>2, NoOneAssumption DEF LockHeld
  <2> QED
    BY <1>2, <2>1, LockMoves
<1> QED
  BY <1>1, <1>2

LEMMA OneWorks ==
    ASSUME LockHeld, NEW v \in Workers, NEW w \in Workers,
           pc[v] \in Processing, pc[w] \in Processing
    PROVE  v = w
<1> QED
  BY DEF LockHeld

\* Once the job is paid for, or failed, its status goes no other way.
LEMMA PayingStays ==
    ASSUME Numbers, OneSubmitter, RowKnown, AtWork, [Next]_vars, status \in Paying, cost <= Hold
    PROVE  status' \in Paying
<1>1. named /\ \A c \in Clients : pc[c] \notin PreSubmit
  BY DEF RowKnown, OneSubmitter
<1>2. \A w \in Workers : pc[w] \notin {"to_failed", "to_cancelled"}
  BY DEF AtWork
<1>3. \A w \in Workers : pc[w] # "exhausted"
  BY Amounts DEF AtWork
<1>4. \A to \in {"uploading", "submitted", "cancelled", "running", "indexing"} : ~CanTransition(to)
  BY DEF CanTransition, Allowed, Paying, Ended
<1> QED
  BY <1>1, <1>2, <1>3, <1>4, RowMoves DEF RowStep, Paying, PreSubmit, Forward, Unsubmitted

LEMMA FailedStays ==
    ASSUME [Next]_vars, status \in Failed
    PROVE  status' \in Failed
<1>1. \A to \in {"uploading", "submitted", "running", "indexing", "settling"} : ~CanTransition(to)
  BY DEF CanTransition, Allowed, Failed, Ended
<1> QED
  BY <1>1, RowMoves DEF RowStep, Failed, Unsubmitted

LEMMA NamedStays ==
    ASSUME Numbers, OneSubmitter, RowKnown, AtWork, [Next]_vars
    PROVE  RowKnown'
<1>1. "hold" \in claims' => status' # "absent"
  <2>1. status # "absent" => status' # "absent"
    BY NamedMoves
  <2>2. \A c \in Clients : pc[c] = "reserve" => status # "absent"
    BY DEF OneSubmitter, PreSubmit, Forward
  <2> QED
    BY <2>1, <2>2, LedgerMoves DEF RowKnown
<1>2. named' => "hold" \in claims'
  BY NamedMoves, LedgerMoves DEF RowKnown
<1>3. status' \in {"completed", "output_deleted"} => Charged'
  <2>1. "capture" \in claims => "capture" \in claims'
    BY LedgerMoves
  <2>2. \A w \in Workers : pc[w] = "mark" => "capture" \in claims
    BY DEF AtWork, Charged
  <2>3. status \in {"completed", "output_deleted"} => "capture" \in claims
    BY DEF RowKnown, Charged
  <2> QED
    BY <2>1, <2>2, <2>3, RowMoves DEF RowStep, Charged
<1>4. status' \in {"submitted", "running", "indexing"} \cup Paying => named'
  <2>1. CASE named
    BY <2>1, NamedMoves
  <2>2. CASE ~named
    <3>1. status \notin {"submitted", "running", "indexing"} \cup Paying
      BY <2>2 DEF RowKnown
    <3>2. \A w \in Workers : pc[w] # "to_settling"
      BY <2>2 DEF AtWork, Working
    <3>3. ~CanTransition("running") /\ ~CanTransition("indexing")
      BY <3>1 DEF CanTransition, Allowed, Ended
    <3> QED
      BY <3>1, <3>2, <3>3, RowMoves DEF RowStep, Paying
  <2> QED
    BY <2>1, <2>2
<1> QED
  BY <1>1, <1>2, <1>3, <1>4 DEF RowKnown

LEMMA ReleasingStep ==
    ASSUME Numbers, Releasing, [Next]_vars
    PROVE  Releasing'
<1> SUFFICES ASSUME NEW t \in Threads, pc'[t] \in {"cancel_release", "sweep_release", "release"}
             PROVE  status' \in Failed
  BY DEF Releasing
<1>1. pc'[t] = pc[t] \/ status' \in Failed
  <2>1. CASE t \in Clients
    BY <2>1, ThreadMoves DEF Still, ClientMoves
  <2>2. CASE t \in Workers
    BY <2>2, ThreadMoves DEF Still, WorkerMoves
  <2>3. CASE t = Sweep
    BY <2>3, ThreadMoves DEF Still
  <2> QED
    BY <2>1, <2>2, <2>3 DEF Threads
<1>2. pc'[t] = pc[t] => status \in Failed
  BY DEF Releasing
<1> QED
  BY <1>1, <1>2, FailedStays

LEMMA GoneStays ==
    ASSUME Numbers, OneSubmitter, RowKnown, [Next]_vars, Gone, "hold" \in claims
    PROVE  Gone'
<1>1. CASE status \in Failed
  BY <1>1, FailedStays DEF Gone
<1>2. CASE ~named /\ \A c \in Clients : pc[c] \notin Forward
  <2>1. status # "absent"
    BY DEF RowKnown
  <2>2. \A c \in Clients : pc'[c] \notin Forward
    BY <1>2, <2>1, ThreadMoves DEF Still, ClientMoves, Forward, Submit
  <2>3. \A c \in Clients : ~MarkSubmitted(c)
    BY <1>2 DEF MarkSubmitted, Forward
  <2>4. ~named'
    BY <1>2, <2>3, RowMoves DEF RowStep
  <2> QED
    BY <2>2, <2>4 DEF Gone
<1>3. CASE cost > Hold
  BY <1>3, LedgerMoves DEF Gone
<1> QED
  BY <1>1, <1>2, <1>3 DEF Gone

LEMMA ReleaseFailedSubmitGoes ==
    ASSUME Numbers, OneSubmitter, NEW c \in Clients, ReleaseFailedSubmit(c)
    PROVE  ~named /\ \A d \in Clients : pc'[d] \notin Forward
<1>1. pc[c] \in {"abandon", "withdraw"} /\ c \in Threads /\ Threaded
  BY DEF ReleaseFailedSubmit, Threads, Numbers, Threaded
<1>2. OthersStay(c) /\ pc'[c] \in {"record", "record_retry", "idle"}
  BY <1>1, ReleaseGoes, GoesTo DEF ReleaseFailedSubmit
<1>3. \A d \in Clients : pc[d] \in PreSubmit => d = c
  BY <1>1 DEF OneSubmitter, PreSubmit
<1> QED
  BY <1>1, <1>2, <1>3 DEF OneSubmitter, PreSubmit, Forward, OthersStay, Threads

LEMMA ChargedStep ==
    ASSUME Numbers, OneSubmitter, RowKnown, ChargedOnce, Releasing, AtWork, [Next]_vars
    PROVE  ChargedOnce'
<1>0. cost' = cost
  BY LedgerMoves
<1>1. Charged' => status' \in Paying /\ cost' <= Hold
  <2>1. CASE Charged
    BY <1>0, <2>1, PayingStays DEF ChargedOnce
  <2>2. CASE ~Charged
    <3>1. Charged' => \E w \in Workers : pc[w] = "capture" /\ UNCHANGED jobVars
      BY <2>2, LedgerMoves DEF Charged
    <3> QED
      BY <1>0, <3>1 DEF AtWork, Paying, jobVars
  <2> QED
    BY <2>1, <2>2
<1>2. returned' => {"hold", "release"} \subseteq claims'
  BY LedgerMoves DEF ChargedOnce
<1>3. returned' => Gone'
  <2>1. CASE returned
    BY <2>1, GoneStays DEF ChargedOnce, Gone
  <2>2. ASSUME NEW c \in Clients, ReleaseFailedSubmit(c), UNCHANGED jobVars PROVE Gone'
    BY <2>2, ReleaseFailedSubmitGoes DEF Gone, jobVars
  <2>3. ASSUME NEW t \in Threads, pc[t] \in {"cancel_release", "sweep_release", "release"} PROVE Gone'
    BY <2>3, FailedStays DEF Releasing, Gone
  <2>4. ASSUME NEW w \in Workers, pc[w] = "give_up" PROVE Gone'
    BY <1>0, <2>4 DEF AtWork, Gone
  <2> QED
    BY <2>1, <2>2, <2>3, <2>4, LedgerMoves
<1>4. Held' => frozen' >= Hold
  <2> SUFFICES ASSUME Held' PROVE frozen' >= Hold
    OBVIOUS
  <2>1. "capture" \notin claims' /\ ~returned' /\ "hold" \in claims'
    BY DEF Held, Charged
  <2>2. CASE ReserveBatchImageBalance
    BY <2>2, Amounts DEF ReserveBatchImageBalance, Numbers
  <2>3. CASE ~ReserveBatchImageBalance
    <3>1. Held /\ frozen' = frozen
      BY <2>1, <2>3, LedgerMoves DEF Held, Charged
    <3> QED
      BY <3>1 DEF ChargedOnce
  <2> QED
    BY <2>2, <2>3
<1> QED
  BY <1>1, <1>2, <1>3, <1>4 DEF ChargedOnce, Gone

LEMMA SettlingGoes ==
    ASSUME Threaded, NEW w \in Workers, ProcessorTransition(w), pc[w] = "to_settling"
    PROVE  pc'[w] = "requeue"
<1> QED
  BY GoesTo DEF ProcessorTransition, Transition, Try, Threads

\* While a worker holds the lock no other moves the job on.
LEMMA UnpaidStep ==
    ASSUME Numbers, LockHeld, Unpaid, [Next]_vars
    PROVE  Unpaid'
<1> SUFFICES ASSUME NEW w \in Workers, pc'[w] \in Working PROVE status' \notin Paying
  BY DEF Unpaid
<1>1. CASE pc[w] \in Working
  <2>1. status \notin Paying
    BY <1>1 DEF Unpaid
  <2>2. ASSUME NEW v \in Workers, pc[v] = "to_settling", ProcessorTransition(v) PROVE FALSE
    <3>1. v = w
      BY <1>1, <2>2, OneWorks DEF Processing, Working
    <3>2. pc'[v] = "requeue"
      BY <2>2, SettlingGoes DEF Numbers, Threaded
    <3> QED
      BY <3>1, <3>2 DEF Working
  <2> QED
    BY <2>1, <2>2, RowMoves DEF RowStep, Paying
<1>2. CASE pc[w] \notin Working
  BY <1>2, ThreadMoves DEF Still, WorkerMoves, Working
<1> QED
  BY <1>1, <1>2

\* The provider's verdict is final once the job is named.
LEMMA UpstreamMoves ==
    ASSUME [Next]_vars
    PROVE  \/ UNCHANGED upstream
           \/ upstream = "running"
           \/ \E c \in Clients : pc[c] = "upstream"
<1> DEFINE P == \/ UNCHANGED upstream
                \/ upstream = "running"
                \/ \E c \in Clients : pc[c] = "upstream"
<1> USE DEF Try, providerVars
<1>1. ASSUME NEW c \in Clients, Request(c) PROVE P
  BY <1>1 DEF Request, Submit, Resubmit, Cancel
<1>2. ASSUME NEW c \in Clients,
             \/ ReserveHold(c) \/ CreatePendingItems(c) \/ StartUpload(c)
             \/ MarkSubmitted(c) \/ CancelMark(c) \/ RecordSubmitFailure(c)
      PROVE  P
  BY <1>2 DEF ReserveHold, CreatePendingItems, StartUpload, MarkSubmitted, CancelMark,
              RecordSubmitFailure
<1>3. ASSUME NEW c \in Clients, ProviderSubmit(c) \/ AbortOrphan(c) \/ CancelUpstream(c) PROVE P
  BY <1>3 DEF ProviderSubmit, AbortOrphan, CancelUpstream
<1>4. ASSUME NEW t, NEW ok, NEW failed, Release(t, ok, failed) \/ Enqueue(t, ok, failed)
      PROVE  P
  BY <1>4 DEF Release, Enqueue
<1>5. ASSUME NEW w \in Workers,
             \/ Reserve(w) \/ TryAcquireJobLock(w) \/ RequeueAfter(w) \/ Ack(w) \/ ReleaseLock(w)
             \/ PipelineRead(w) \/ ProcessRead(w) \/ Poll(w)
      PROVE  P
  BY <1>5 DEF Reserve, TryAcquireJobLock, RequeueAfter, Ack, ReleaseLock, PipelineRead,
              ProcessRead, Poll, Read
<1>6. ASSUME NEW w \in Workers,
             \/ ProcessorTransition(w) \/ IndexResult(w) \/ SettleRead(w) \/ CaptureHold(w)
             \/ MarkSettled(w) \/ RecordSettlementFailure(w)
      PROVE  P
  BY <1>6 DEF ProcessorTransition, IndexResult, SettleRead, Read, CaptureHold, MarkSettled,
              RecordSettlementFailure
<1>7. CASE \/ FailStale \/ Timers \/ UpstreamEnds \/ LoseAccount
           \/ DeleteRecord \/ MarkOutputDeleted \/ UNCHANGED vars
  BY <1>7 DEF FailStale, Timers, GrowStale, ListStale, MoveDueDelayed, RecoverStaleActive,
              LockLapses, UpstreamEnds, LoseAccount, DeleteRecord, MarkOutputDeleted, vars
<1>8. ASSUME NEW t \in Threads, Crash(t) PROVE P
  BY <1>8 DEF Crash
<1>9. ASSUME NEW c \in Clients, ClientStep(c) PROVE P
  BY <1>2, <1>3, <1>4, <1>9
     DEF ClientStep, EnqueueSubmitted, ReleaseFailedSubmit, EnqueueRetry, CancelEnqueue,
         CancelRelease
<1>10. ASSUME NEW w \in Workers, WorkerStep(w) PROVE P
  BY <1>4, <1>5, <1>6, <1>10 DEF WorkerStep, ReleaseTerminalHold, FailExhausted
<1>11. CASE SweepStep
  BY <1>4, <1>7, <1>11 DEF SweepStep, SweepRelease, EnqueueRetry
<1> QED
  BY <1>1, <1>5, <1>7, <1>8, <1>9, <1>10, <1>11 DEF Next

LEMMA FinalStays ==
    ASSUME OneSubmitter, [Next]_vars, named, upstream \in Final
    PROVE  upstream' = upstream
<1>1. \A c \in Clients : pc[c] # "upstream"
  BY DEF OneSubmitter, PreSubmit, Forward
<1> QED
  BY <1>1, UpstreamMoves DEF Final

LEMMA ConveyedStep ==
    ASSUME "index" \notin MayFail, Numbers, OneSubmitter, RowKnown, AtWork, Conveyed, [Next]_vars
    PROVE  Conveyed'
<1> USE DEF Final
<1>0. named /\ upstream \in Final => upstream' = upstream
  BY FinalStays
<1>1. status' = "indexing" => upstream' \in {"succeeded", "unreadable"}
  <2>1. CASE status = "indexing"
    BY <1>0, <2>1 DEF Conveyed, RowKnown
  <2>2. ASSUME NEW w \in Workers, pc[w] = "to_indexing"
        PROVE  upstream' \in {"succeeded", "unreadable"}
    BY <1>0, <2>2 DEF Conveyed, AtWork, Working
  <2> QED
    BY <2>1, <2>2, RowMoves DEF RowStep
<1>2. status' \in Paying => upstream' = "succeeded"
  <2>1. CASE status \in Paying
    BY <1>0, <2>1 DEF Conveyed, RowKnown
  <2>2. ASSUME NEW w \in Workers, pc[w] = "to_settling" PROVE upstream' = "succeeded"
    BY <1>0, <2>2 DEF Conveyed, AtWork, Working
  <2> QED
    BY <2>1, <2>2, RowMoves DEF RowStep, Paying
<1>3. ASSUME NEW w \in Workers
      PROVE  /\ pc'[w] \in {"to_indexing", "index"} => upstream' \in {"succeeded", "unreadable"}
             /\ pc'[w] = "to_settling" => upstream' = "succeeded"
             /\ pc'[w] = "to_failed" => upstream' \in {"failed", "unreadable"}
             /\ pc'[w] = "to_cancelled" => upstream' = "cancelled"
  <2>1. /\ pc[w] \in Working => named
        /\ status = "indexing" => named /\ upstream \in {"succeeded", "unreadable"}
        /\ pc[w] \in {"to_indexing", "index"} => upstream \in {"succeeded", "unreadable"}
        /\ pc[w] = "to_settling" => upstream = "succeeded"
        /\ pc[w] = "to_failed" => upstream \in {"failed", "unreadable"}
        /\ pc[w] = "to_cancelled" => upstream = "cancelled"
    BY DEF AtWork, RowKnown, Conveyed
  <2>2. pc'[w] \in {pc[w]} \cup Still \/ WorkerMoves(w)
    BY ThreadMoves
  <2> QED
    BY <1>0, <2>1, <2>2 DEF Still, WorkerMoves, Working
<1> QED
  BY <1>1, <1>2, <1>3 DEF Conveyed

LEMMA ApartStep ==
    ASSUME Numbers, OneSubmitter, RowKnown, AtWork, Apart, [Next]_vars
    PROVE  Apart'
<1>1. MayStall = {} => LockHeld' /\ Unpaid'
  BY LockStep, UnpaidStep DEF Apart
<1>2. "index" \notin MayFail => Conveyed'
  BY ConveyedStep DEF Apart
<1> QED
  BY <1>1, <1>2 DEF Apart

LEMMA PatienceMeans ==
    ASSUME Numbers, Patience, cost <= Hold
    PROVE  retries <= faults /\ \A w \in Workers : pc[w] = "settle_failed" => retries < faults
<1>1. IsFiniteSet(Attempting) /\ retries + Cardinality(Attempting) <= faults
  BY DEF Patience
<1>2. Cardinality(Attempting) \in Nat /\ retries \in Nat /\ faults \in Nat
  BY <1>1, FS_CardinalityType DEF Numbers
<1>3. \A w \in Workers : pc[w] = "settle_failed" => Cardinality(Attempting) # 0
  BY <1>1, FS_EmptySet DEF Attempting
<1> QED
  BY <1>1, <1>2, <1>3

LEMMA AtWorkStep ==
    ASSUME NoStrayFailure, MaxFaults < MaxRetries,
           Numbers, OneSubmitter, RowKnown, AtWork, Patience, Apart', [Next]_vars
    PROVE  AtWork'
<1> SUFFICES ASSUME NEW w \in Workers
             PROVE  /\ pc'[w] \in Working => named'
                    /\ pc'[w] \in {"to_failed", "to_cancelled"} => status' \notin Paying
                    /\ pc'[w] = "capture" => status' \in Paying /\ cost' <= Hold
                    /\ pc'[w] = "mark" => Charged'
                    /\ pc'[w] \in {"give_up", "exhausted", "release_failed"} => cost' > Hold
  BY DEF AtWork
<1>0. cost' = cost /\ (named => named') /\ claims \subseteq claims'
  BY LedgerMoves, NamedMoves
<1>1. pc'[w] \in {pc[w]} \cup Still \/ WorkerMoves(w)
  BY ThreadMoves
<1>2. ASSUME pc'[w] \in Working PROVE named'
  BY <1>0, <1>1, <1>2 DEF Still, WorkerMoves, AtWork, Working
<1>3. ASSUME pc'[w] \in {"to_failed", "to_cancelled"} PROVE status' \notin Paying
  <2>1. CASE MayStall = {}
    BY <1>3, <2>1 DEF Apart, Unpaid, Working
  <2>2. CASE "index" \notin MayFail
    BY <1>3, <2>2 DEF Apart, Conveyed
  <2> QED
    BY <2>1, <2>2 DEF NoStrayFailure
<1>4. ASSUME pc'[w] = "capture" PROVE status' \in Paying /\ cost' <= Hold
  <2>1. CASE pc[w] = "capture"
    BY <1>0, <2>1, PayingStays DEF AtWork
  <2>2. CASE pc[w] # "capture"
    BY <1>0, <1>1, <1>4, <2>2 DEF Still, WorkerMoves, Paying
  <2> QED
    BY <2>1, <2>2
<1>5. ASSUME pc'[w] = "mark" PROVE Charged'
  BY <1>0, <1>1, <1>5 DEF Still, WorkerMoves, AtWork, Charged
<1>6. ASSUME pc'[w] \in {"give_up", "exhausted", "release_failed"} PROVE cost' > Hold
  <2>1. CASE pc[w] \in {"give_up", "exhausted", "release_failed"}
    BY <1>0, <2>1 DEF AtWork
  <2>2. CASE \/ pc[w] = "settle" /\ retries >= MaxRetries
             \/ pc[w] = "settle_failed" /\ retries + 1 >= MaxRetries
    <3> SUFFICES ASSUME cost <= Hold PROVE FALSE
      BY <1>0, Amounts DEF Numbers
    <3>1. retries <= faults /\ (pc[w] = "settle_failed" => retries < faults)
      BY PatienceMeans
    <3>2. faults <= MaxFaults /\ retries \in Nat /\ faults \in Nat
      BY DEF Patience, Numbers
    <3> QED
      BY <2>2, <3>1, <3>2, Amounts
  <2> QED
    BY <1>1, <1>6, <2>1, <2>2 DEF Still, WorkerMoves
<1> QED
  BY <1>2, <1>3, <1>4, <1>5, <1>6

LEMMA FailureGoes ==
    ASSUME Threaded, NEW w \in Workers, RecordSettlementFailure(w)
    PROVE  pc[w] \in {"settle_failed", "release_failed"} /\ pc'[w] # "settle_failed"
<1> QED
  BY GoesTo DEF RecordSettlementFailure, Try, Threads

\* A thread moves by a step of its own.
LEMMA OwnStep ==
    ASSUME Numbers, [Next]_vars, NEW t \in Threads, pc'[t] # pc[t]
    PROVE  \/ t \in Clients /\ (Request(t) \/ ClientStep(t))
           \/ t \in Workers /\ (Reserve(t) \/ WorkerStep(t))
           \/ t = Sweep /\ (SweepStep \/ ListStale)
           \/ pc[t] \in MayCrash /\ pc'[t] = "idle"
<1>0. Threaded /\ cost \in Nat
  BY Amounts DEF Numbers, Threaded
<1>1. CASE \E c \in Clients : Request(c) \/ ClientStep(c)
  BY <1>0, <1>1, ClientGoes DEF OthersStay
<1>2. CASE \E w \in Workers : Reserve(w) \/ WorkerStep(w)
  BY <1>0, <1>2, WorkerGoes DEF OthersStay
<1>3. CASE SweepStep
  BY <1>0, <1>3, SweepGoes DEF OthersStay
<1>4. CASE ListStale
  <2>1. Sweep \in Threads /\ Goto(Sweep, "sweep")
    BY <1>4 DEF ListStale, Threads
  <2> QED
    BY <1>0, <1>4, <2>1, GoesTo DEF OthersStay
<1>5. ASSUME NEW u \in Threads, Crash(u) PROVE t = u /\ pc[t] \in MayCrash /\ pc'[t] = "idle"
  BY <1>0, <1>5, GoesTo DEF Crash, OthersStay
<1>6. CASE UNCHANGED pc
  BY <1>6
<1>7. Rest => UNCHANGED pc \/ ListStale \/ \E u \in Threads : Crash(u)
  BY DEF Rest, Timers, GrowStale, MoveDueDelayed, RecoverStaleActive, LockLapses, UpstreamEnds,
         LoseAccount, DeleteRecord, MarkOutputDeleted, vars
<1> QED
  BY <1>1, <1>2, <1>3, <1>4, <1>5, <1>6, <1>7, StepKinds

LEMMA FailureMoves ==
    ASSUME Threaded, NEW v \in Workers, RecordSettlementFailure(v)
    PROVE  pc'[v] # pc[v]
<1> QED
  BY GoesTo DEF RecordSettlementFailure, Try, Threads

\* A settlement of a job that can be paid for fails by a fault only.
LEMMA AttemptFails ==
    ASSUME Numbers, RowKnown, ChargedOnce, AtWork, [Next]_vars, cost <= Hold,
           NEW w \in Workers, Reserve(w) \/ WorkerStep(w),
           pc'[w] = "settle_failed", pc[w] # "settle_failed"
    PROVE  faults' = faults + 1 /\ retries' = retries
<1>1. WorkerMoves(w)
  BY Amounts, WorkerGoes DEF Numbers, Threaded
<1>2. ASSUME pc[w] = "capture", ~Charged, frozen < Hold PROVE FALSE
  <2>1. status \in Paying
    BY <1>2 DEF AtWork
  <2>2. named /\ "hold" \in claims
    BY <2>1 DEF RowKnown
  <2>3. ~returned
    BY <2>1, <2>2, Amounts DEF ChargedOnce, Gone, Failed, Paying
  <2> QED
    BY <1>2, <2>2, <2>3, Amounts DEF ChargedOnce, Held, Numbers
<1> QED
  BY <1>1, <1>2, Amounts DEF WorkerMoves

LEMMA PatienceStep ==
    ASSUME Numbers, RowKnown, ChargedOnce, AtWork, Patience, [Next]_vars
    PROVE  Patience'
<1>0. /\ Threaded /\ cost \in Nat /\ Workers \subseteq Threads
      /\ retries \in Nat /\ faults \in Nat /\ MaxFaults \in Nat /\ cost' = cost
      /\ faults' \in {faults, faults + 1} /\ faults' <= MaxFaults
      /\ IsFiniteSet(Attempting) /\ Cardinality(Attempting) \in Nat
  BY Amounts, LedgerMoves, FaultMoves, FS_CardinalityType DEF Numbers, Patience, Threaded, Threads
<1> DEFINE Kept == Attempting' \subseteq Attempting /\ retries' = retries
           Left(w) == /\ w \in Attempting /\ Attempting' = Attempting \ {w}
                      /\ retries' \in {retries, retries + 1}
           Came(w) == /\ w \notin Attempting /\ Attempting' = Attempting \cup {w}
                      /\ retries' = retries /\ (cost <= Hold => faults' = faults + 1)
<1>1. Kept => Patience'
  <2> SUFFICES ASSUME Kept PROVE Patience'
    OBVIOUS
  <2>1. IsFiniteSet(Attempting') /\ Cardinality(Attempting') <= Cardinality(Attempting)
    BY <1>0, FS_Subset
  <2>2. Cardinality(Attempting') \in Nat
    BY <2>1, FS_CardinalityType
  <2> QED
    BY <1>0, <2>1, <2>2, Amounts DEF Patience
<1>2. ASSUME NEW w \in Workers, Left(w) PROVE Patience'
  <2>1. IsFiniteSet(Attempting') /\ Cardinality(Attempting') = Cardinality(Attempting) - 1
    BY <1>0, <1>2, FS_RemoveElement
  <2> QED
    BY <1>0, <1>2, <2>1, Amounts DEF Patience
<1>3. ASSUME NEW w \in Workers, Came(w) PROVE Patience'
  <2>1. IsFiniteSet(Attempting') /\ Cardinality(Attempting') = Cardinality(Attempting) + 1
    BY <1>0, <1>3, FS_AddElement
  <2> QED
    BY <1>0, <1>3, <2>1, Amounts DEF Patience
<1>4. (\A w \in Workers : ~RecordSettlementFailure(w)) => retries' = retries
  BY ScalarMoves
<1>5. CASE /\ \A w \in Workers : pc'[w] = "settle_failed" => pc[w] = "settle_failed"
           /\ \A w \in Workers : ~RecordSettlementFailure(w)
  BY <1>1, <1>4, <1>5 DEF Attempting
<1>6. ASSUME NEW w \in Workers, Reserve(w) \/ WorkerStep(w) PROVE Patience'
  <2>0. \A v \in Workers : v # w => pc'[v] = pc[v]
    BY <1>0, <1>6, WorkerGoes DEF OthersStay
  <2>1. CASE RecordSettlementFailure(w) /\ pc[w] = "settle_failed"
    <3>1. pc'[w] # "settle_failed" /\ retries' \in {retries, retries + 1}
      BY <1>0, <2>1, FailureGoes, ScalarMoves
    <3>2. w \in Attempting /\ Attempting' = Attempting \ {w}
      BY <2>0, <2>1, <3>1 DEF Attempting
    <3> QED
      BY <1>2, <3>1, <3>2
  <2>2. CASE RecordSettlementFailure(w) /\ pc[w] = "release_failed"
    <3>1. cost > Hold
      BY <2>2 DEF AtWork
    <3>2. pc'[w] # "settle_failed"
      BY <1>0, <2>2, FailureGoes
    <3>3. Attempting' \subseteq Attempting
      BY <2>0, <3>2 DEF Attempting
    <3>4. IsFiniteSet(Attempting')
      BY <1>0, <3>3, FS_Subset
    <3> QED
      BY <1>0, <3>1, <3>4, Amounts DEF Patience
  <2>3. CASE pc'[w] = "settle_failed" /\ pc[w] # "settle_failed"
    <3>1. retries' = retries
      BY <1>0, <1>6, <2>3, WorkerGoes DEF WorkerMoves
    <3>2. cost <= Hold => faults' = faults + 1
      BY <1>6, <2>3, AttemptFails
    <3>3. w \notin Attempting /\ Attempting' = Attempting \cup {w}
      BY <2>0, <2>3 DEF Attempting
    <3> QED
      BY <1>3, <3>1, <3>2, <3>3
  <2>4. CASE /\ ~RecordSettlementFailure(w)
             /\ pc'[w] = "settle_failed" => pc[w] = "settle_failed"
    <3>1. \A v \in Workers : RecordSettlementFailure(v) => v = w
      BY <1>0, <2>0, FailureMoves
    <3> QED
      BY <1>1, <1>4, <2>0, <2>4, <3>1 DEF Attempting
  <2> QED
    BY <1>0, <2>1, <2>2, <2>3, <2>4, FailureGoes
<1>7. CASE ~\E w \in Workers : Reserve(w) \/ WorkerStep(w)
  <2>1. \A w \in Workers : ~RecordSettlementFailure(w)
    BY <1>7 DEF WorkerStep
  <2>2. \A w \in Workers : pc'[w] = "settle_failed" => pc[w] = "settle_failed"
    <3>1. \A w \in Workers : pc'[w] # pc[w] => pc'[w] = "idle"
      BY <1>0, <1>7, OwnStep, ThreadsAssumption
    <3> QED
      BY <3>1
  <2> QED
    BY <1>5, <2>1, <2>2
<1> QED
  BY <1>6, <1>7

LEMMA SafeInit == Init => Safe
<1> SUFFICES ASSUME Init PROVE Safe
  OBVIOUS
<1>1. /\ status = "absent" /\ named = FALSE /\ claims = {} /\ returned = FALSE /\ retries = 0
      /\ faults = 0 /\ pc = [t \in Threads |-> "idle"]
      /\ Clients \subseteq Threads /\ Workers \subseteq Threads
  BY DEF Init, Threads
<1>2. OneSubmitter /\ RowKnown
  BY <1>1 DEF OneSubmitter, RowKnown, PreSubmit, Forward, Paying
<1>3. ChargedOnce /\ Releasing
  BY <1>1 DEF ChargedOnce, Charged, Held, Releasing
<1>4. AtWork /\ Apart
  BY <1>1 DEF AtWork, Apart, LockHeld, Unpaid, Conveyed, Processing, Working, Paying
<1>5. Patience
  <2>1. Attempting = {}
    BY <1>1 DEF Attempting
  <2> QED
    BY <1>1, <2>1, BoundsAssumption, FS_EmptySet DEF Patience
<1> QED
  BY <1>2, <1>3, <1>4, <1>5 DEF Safe

LEMMA SafeStep ==
    ASSUME NoStrayFailure, MaxFaults < MaxRetries, Numbers, Safe, [Next]_vars
    PROVE  Safe'
<1>1. OneSubmitter /\ RowKnown /\ ChargedOnce /\ Releasing /\ AtWork /\ Apart /\ Patience
  BY DEF Safe
<1>2. OneSubmitter' /\ RowKnown' /\ ChargedOnce' /\ Releasing'
  BY <1>1, SubmitterStep, NamedStays, ChargedStep, ReleasingStep
<1>3. Apart' /\ AtWork' /\ Patience'
  BY <1>1, ApartStep, AtWorkStep, PatienceStep
<1> QED
  BY <1>2, <1>3 DEF Safe

-----------------------------------------------------------------------------
LEMMA PromiseStep ==
    ASSUME Numbers, Safe, [Next]_vars
    PROVE  [Promise!Next]_<<phase, balance, frozen>>
<1> DEFINE Q == Promise!Next \/ UNCHANGED <<phase, balance, frozen>>
<1>0. /\ ChargedOnce /\ AtWork /\ RowKnown
      /\ Hold \in Nat /\ cost \in Nat
  BY Amounts DEF Safe
<1> USE DEF phase, Charged, moneyVars, Claim, Promise!Next
<1>1. CASE UNCHANGED moneyVars
  BY <1>1
<1>2. CASE ReserveBatchImageBalance
  BY <1>0, <1>2 DEF ReserveBatchImageBalance, Affordable, ChargedOnce, RowKnown, Promise!Freeze, Paying
<1>3. ASSUME NEW w \in Workers, CaptureHold(w), CaptureBatchImageBalance PROVE Q
  <2>1. pc[w] = "capture" /\ status \in Paying /\ cost <= Hold /\ named
    BY <1>0, <1>3 DEF CaptureHold, AtWork, RowKnown
  <2>2. ~returned /\ "hold" \in claims
    BY <1>0, <2>1 DEF ChargedOnce, Gone, Failed, RowKnown, Paying
  <2>3. CASE UNCHANGED moneyVars
    BY <2>3
  <2>4. CASE ~UNCHANGED moneyVars
    <3>1. /\ "capture" \notin claims /\ claims' = claims \cup {"capture"} /\ returned' = returned
          /\ frozen' = frozen - Hold /\ balance' = balance + (Hold - cost)
      BY <1>3, <2>4 DEF CaptureBatchImageBalance
    <3>2. phase = "held" /\ phase' = "charged"
      BY <2>2, <3>1
    <3>3. cost \in 0..Hold
      BY <1>0, <2>1
    <3> QED
      BY <3>1, <3>2, <3>3 DEF Promise!Charge
  <2> QED
    BY <2>3, <2>4
<1>4. ASSUME ReleaseBatchImageBalance, UNCHANGED jobVars,
             \/ \E c \in Clients : ReleaseFailedSubmit(c)
             \/ \E t \in Threads : pc[t] \in {"cancel_release", "sweep_release", "release"}
             \/ \E w \in Workers : FailExhausted(w)
      PROVE  Q
  <2>1. "capture" \notin claims
    <3> SUFFICES ASSUME Charged PROVE FALSE
      OBVIOUS
    <3>1. status \in Paying /\ named /\ cost <= Hold
      BY <1>0 DEF ChargedOnce, RowKnown
    <3>2. \A c \in Clients : ~ReleaseFailedSubmit(c)
      BY <3>1 DEF Safe, OneSubmitter, ReleaseFailedSubmit, PreSubmit
    <3>3. \A t \in Threads : pc[t] \notin {"cancel_release", "sweep_release", "release"}
      BY <3>1 DEF Safe, Releasing, Paying, Failed
    <3>4. \A w \in Workers : ~FailExhausted(w)
      BY <1>0, <3>1 DEF FailExhausted, AtWork
    <3> QED
      BY <1>4, <3>2, <3>3, <3>4
  <2>2. CASE UNCHANGED moneyVars
    BY <2>2
  <2>3. CASE /\ claims' = claims \cup {"release"} /\ "hold" \notin claims
             /\ UNCHANGED <<balance, frozen, returned, cost>>
    BY <2>3
  <2>4. CASE /\ "release" \notin claims /\ claims' = claims \cup {"release"} /\ "hold" \in claims
             /\ frozen' = frozen - Hold /\ balance' = balance + Hold /\ returned' = TRUE
    <3>1. ~returned
      BY <1>0, <2>4 DEF ChargedOnce
    <3>2. phase = "held" /\ phase' = "returned"
      BY <2>1, <2>4, <3>1
    <3> QED
      BY <2>4, <3>2 DEF Promise!Return
  <2> QED
    BY <1>4, <2>2, <2>3, <2>4 DEF ReleaseBatchImageBalance, WasHeld
<1> QED
  BY <1>1, <1>2, <1>3, <1>4, MoneyMoves DEF MoneyStep

LEMMA SafeHolds ==
    ASSUME NoStrayFailure, MaxFaults < MaxRetries
    PROVE  Spec => [](Numbers /\ Safe)
<1>1. Init => Numbers /\ Booleans /\ Covered /\ Safe
  BY TypeInit, SafeInit
<1>2. Numbers /\ Booleans /\ Covered /\ Safe /\ [Next]_vars
        => (Numbers /\ Booleans /\ Covered /\ Safe)'
  BY NumbersStep, FlagMoves, CoveredStep, SafeStep
<1> QED
  BY <1>1, <1>2, PTL DEF Spec

\* If no straggler fails the job by an indexing error and there are fewer faults than settlement
\* attempts, the job's threads keep the promise of the ledger, whatever calls fail or lose
\* their replies, whoever dies, however many workers stall and have their job delivered to
\* others, and however many requests and workers there are: the hold is frozen once and then
\* charged or returned, never both.
THEOREM ImplementsPromise ==
    ASSUME NoStrayFailure, MaxFaults < MaxRetries
    PROVE  Spec => KeepsPromise
<1>1. Init => Promise!Init
  <2> SUFFICES ASSUME Init PROVE Promise!Init
    OBVIOUS
  <2>1. claims = {} /\ ~returned /\ balance \in StartBalances /\ frozen \in StartFrozen
    BY DEF Init
  <2>2. phase = "none"
    BY <2>1 DEF phase, Charged
  <2> QED
    BY <2>1, <2>2 DEF Promise!Init
<1>2. Numbers /\ Safe /\ [Next]_vars => [Promise!Next]_<<phase, balance, frozen>>
  BY PromiseStep
<1> QED
  BY <1>1, <1>2, SafeHolds, PTL DEF Spec, KeepsPromise, Promise!Spec

\* In the same environments a job shown as completed was paid for, and nothing given back.
THEOREM CompletedIsCharged ==
    ASSUME NoStrayFailure, MaxFaults < MaxRetries
    PROVE  Spec => []CompletedMeansCharged
<1>1. Numbers /\ Safe => CompletedMeansCharged
  <2> SUFFICES ASSUME Numbers, Safe, status \in {"completed", "output_deleted"}
               PROVE  Charged /\ ~returned
    BY DEF CompletedMeansCharged
  <2>1. Charged /\ named /\ cost <= Hold
    BY DEF Safe, RowKnown, ChargedOnce, Paying
  <2> QED
    BY <2>1, Amounts DEF Safe, ChargedOnce, Gone, Failed
<1> QED
  BY <1>1, SafeHolds, PTL

-----------------------------------------------------------------------------
\* Who remembers a frozen hold. Until the hold is reserved nobody else knows of the job, and
\* no worker acknowledges a job whose hold is frozen.

Queued == ready > 0 \/ delayed \/ active
Trackers == {"enqueue", "retry", "sweep_release", "cancel_release"}

\* Nothing has happened to the job, and these threads know nothing of it.
Quiet(others) == claims = {} /\ ~stale /\ ~Queued /\ \A t \in others : pc[t] = "idle"

Unreserved ==
    /\ status = "absent" => Quiet(Threads)
    /\ \A c \in Clients : pc[c] = "reserve" => status = "created" /\ Quiet(Threads \ {c})

Settled ==
    /\ inflight => Queued
    /\ Held => "release" \notin claims
    /\ \A w \in Workers : pc[w] \in {"ack", "exhausted"} => ~Held
    /\ \A c \in Clients : pc[c] = "record" => ~Held
    /\ \A w \in Workers : pc[w] = "process" => status # "settling"

\* What the steps do to the queue: only an acknowledgement forgets the job.
LEMMA QueueMoves ==
    ASSUME ready \in Nat, [Next]_vars
    PROVE  \/ UNCHANGED queueVars
           \/ Queued'
           \/ ~inflight' /\ \E w \in Workers : pc[w] = "ack"
<1> DEFINE P == \/ UNCHANGED queueVars
                \/ Queued'
                \/ ~inflight' /\ \E w \in Workers : pc[w] = "ack"
<1> USE DEF Try, queueVars
<1>1. ASSUME NEW c \in Clients, Request(c) PROVE P
  BY <1>1 DEF Request, Submit, Resubmit, Cancel
<1>2. ASSUME NEW c \in Clients,
             \/ ReserveHold(c) \/ CreatePendingItems(c) \/ StartUpload(c) \/ ProviderSubmit(c)
             \/ MarkSubmitted(c) \/ AbortOrphan(c) \/ CancelUpstream(c) \/ CancelMark(c)
             \/ RecordSubmitFailure(c)
      PROVE  P
  BY <1>2 DEF ReserveHold, CreatePendingItems, StartUpload, ProviderSubmit, MarkSubmitted,
              AbortOrphan, CancelUpstream, CancelMark, RecordSubmitFailure
<1>3. ASSUME NEW t, NEW ok, NEW failed, Enqueue(t, ok, failed) PROVE P
  BY <1>3 DEF Enqueue, Queued
<1>4. ASSUME NEW t, NEW ok, NEW failed, Release(t, ok, failed) PROVE P
  BY <1>4 DEF Release
<1>5. ASSUME NEW w \in Workers, Reserve(w) PROVE P
  BY <1>5 DEF Reserve, Queued
<1>6. ASSUME NEW w \in Workers, RequeueAfter(w) PROVE P
  BY <1>6 DEF RequeueAfter, Queued
<1>7. ASSUME NEW w \in Workers, Ack(w) PROVE P
  BY <1>7 DEF Ack
<1>8. ASSUME NEW w \in Workers,
             \/ TryAcquireJobLock(w) \/ ReleaseLock(w) \/ PipelineRead(w) \/ ProcessRead(w)
             \/ Poll(w) \/ ProcessorTransition(w) \/ IndexResult(w) \/ SettleRead(w)
             \/ CaptureHold(w) \/ MarkSettled(w) \/ RecordSettlementFailure(w)
      PROVE  P
  BY <1>8 DEF TryAcquireJobLock, ReleaseLock, PipelineRead, ProcessRead, Poll,
              ProcessorTransition, IndexResult, SettleRead, Read, CaptureHold, MarkSettled,
              RecordSettlementFailure
<1>9. CASE MoveDueDelayed \/ RecoverStaleActive
  BY <1>9 DEF MoveDueDelayed, RecoverStaleActive, Queued
<1>10. CASE FailStale \/ GrowStale \/ ListStale \/ LockLapses
            \/ UpstreamEnds \/ LoseAccount \/ DeleteRecord \/ MarkOutputDeleted \/ UNCHANGED vars
  BY <1>10 DEF FailStale, GrowStale, ListStale, LockLapses, UpstreamEnds, LoseAccount, DeleteRecord,
               MarkOutputDeleted, vars
<1>11. ASSUME NEW t \in Threads, Crash(t) PROVE P
  BY <1>11 DEF Crash
<1>12. ASSUME NEW c \in Clients, ClientStep(c) PROVE P
  BY <1>2, <1>3, <1>4, <1>12
     DEF ClientStep, EnqueueSubmitted, ReleaseFailedSubmit, EnqueueRetry, CancelEnqueue,
         CancelRelease
<1>13. ASSUME NEW w \in Workers, WorkerStep(w) PROVE P
  BY <1>4, <1>6, <1>7, <1>8, <1>13 DEF WorkerStep, ReleaseTerminalHold, FailExhausted
<1>14. CASE SweepStep
  BY <1>3, <1>4, <1>10, <1>14 DEF SweepStep, SweepRelease, EnqueueRetry
<1> QED
  BY <1>1, <1>5, <1>9, <1>10, <1>11, <1>12, <1>13, <1>14 DEF Next, Timers

LEMMA ReleaseFrees ==
    ASSUME Held => "release" \notin claims, ReleaseBatchImageBalance
    PROVE  ~Held'
<1> QED
  BY DEF ReleaseBatchImageBalance, Held, Charged, Claim, WasHeld, moneyVars

\* A thread that knows nothing of the job takes no step of a submission or a worker.
LEMMA IdleWaits ==
    ASSUME NEW t \in Threads, pc[t] = "idle"
    PROVE  /\ t \in Clients => ~ClientStep(t)
           /\ t \in Workers => ~WorkerStep(t)
           /\ t = Sweep => ~SweepStep
<1>1. t \in Clients => ~ClientStep(t)
  BY DEF ClientStep, ReserveHold, CreatePendingItems, StartUpload, ProviderSubmit, MarkSubmitted,
         EnqueueSubmitted, AbortOrphan, ReleaseFailedSubmit, RecordSubmitFailure, EnqueueRetry,
         CancelUpstream, CancelEnqueue, CancelMark, CancelRelease
<1>2. t \in Workers => ~WorkerStep(t)
  BY DEF WorkerStep, TryAcquireJobLock, RequeueAfter, Ack, ReleaseLock, PipelineRead, ProcessRead,
         Poll, ProcessorTransition, IndexResult, ReleaseTerminalHold, SettleRead, CaptureHold,
         MarkSettled, RecordSettlementFailure, FailExhausted
<1>3. t = Sweep => ~SweepStep
  BY DEF SweepStep, FailStale, SweepRelease, EnqueueRetry
<1> QED
  BY <1>1, <1>2, <1>3

\* Before the hold is reserved the job changes by its submission alone.
LEMMA QuietStep ==
    ASSUME "reserve" \in Prompt \cap Unseen, Numbers, [Next]_vars, NEW c \in Threads,
           \/ status = "absent" /\ pc[c] = "idle"
           \/ c \in Clients /\ status = "created" /\ pc[c] = "reserve",
           Quiet(Threads \ {c})
    PROVE  \/ UNCHANGED <<pc, status, stale, claims, queueVars>>
           \/ \E d \in Clients : Submit(d)
           \/ c \in Clients /\ ReserveHold(c)
           \/ Crash(c) /\ pc[c] = "reserve"
<1> DEFINE P == \/ UNCHANGED <<pc, status, stale, claims, queueVars>>
                \/ \E d \in Clients : Submit(d)
                \/ c \in Clients /\ ReserveHold(c)
                \/ Crash(c) /\ pc[c] = "reserve"
<1>0. /\ Threaded /\ ready \in Nat /\ ~(ready > 0) /\ ~delayed /\ ~active /\ ~stale
      /\ status \in {"absent", "created"}
      /\ \A t \in Threads : t # c => pc[t] = "idle"
  BY DEF Numbers, Threaded, Quiet, Queued
<1>1. ASSUME NEW d \in Clients, Request(d) PROVE P
  <2>1. ~Resubmit(d)
    BY <1>0 DEF Resubmit
  <2>2. ~Cancel(d)
    BY <1>0 DEF Cancel
  <2> QED
    BY <1>1, <2>1, <2>2 DEF Request
<1>2. ASSUME NEW d \in Clients, ClientStep(d) PROVE P
  <2>1. pc[d] # "idle" /\ d \in Threads
    BY <1>2, IdleWaits DEF Threads
  <2>2. d = c /\ pc[c] = "reserve"
    BY <1>0, <2>1
  <2>3. ReserveHold(c)
    BY <1>2, <2>2
       DEF ClientStep, CreatePendingItems, StartUpload, ProviderSubmit, MarkSubmitted,
           EnqueueSubmitted, AbortOrphan, ReleaseFailedSubmit, RecordSubmitFailure, EnqueueRetry,
           CancelUpstream, CancelEnqueue, CancelMark, CancelRelease
  <2> QED
    BY <1>2, <2>2, <2>3
<1>3. ASSUME NEW w \in Workers PROVE ~Reserve(w) /\ ~WorkerStep(w)
  <2>1. w \in Threads /\ pc[w] = "idle"
    BY <1>0, ThreadsAssumption DEF Threads
  <2> QED
    BY <1>0, <2>1, IdleWaits DEF Reserve
<1>4. ~SweepStep
  <2>1. Sweep \in Threads /\ pc[Sweep] = "idle"
    BY <1>0, ThreadsAssumption DEF Threads
  <2> QED
    BY <2>1, IdleWaits
<1>5. ~GrowStale /\ ~ListStale /\ ~MoveDueDelayed /\ ~RecoverStaleActive
  BY <1>0 DEF GrowStale, ListStale, MoveDueDelayed, RecoverStaleActive, Unsubmitted
<1>6. CASE \/ LockLapses \/ UpstreamEnds \/ LoseAccount
           \/ DeleteRecord \/ MarkOutputDeleted \/ UNCHANGED vars
  BY <1>0, <1>6 DEF LockLapses, UpstreamEnds, LoseAccount, DeleteRecord, MarkOutputDeleted, vars,
                    jobVars, moneyVars, Ended
<1>7. ASSUME NEW t \in Threads, Crash(t) PROVE P
  <2>1. CASE pc[t] = "idle"
    BY <1>0, <1>7, <2>1 DEF Crash, Threaded, Goto, jobVars, moneyVars
  <2>2. CASE pc[t] # "idle"
    BY <1>0, <1>7, <2>2
  <2> QED
    BY <2>1, <2>2
<1> QED
  BY <1>1, <1>2, <1>3, <1>4, <1>5, <1>6, <1>7 DEF Next, Timers

LEMMA SubmitGoes ==
    ASSUME Threaded, NEW c \in Clients, Submit(c)
    PROVE  /\ status = "absent" /\ status' = "created"
           /\ pc'[c] = "reserve" /\ OthersStay(c)
           /\ UNCHANGED <<stale, claims, queueVars>>
<1> QED
  BY GoesTo DEF Submit, Threads, moneyVars

LEMMA ReserveGoes ==
    ASSUME Threaded, NEW c \in Clients, ReserveHold(c)
    PROVE  /\ pc'[c] \in {"items", "record"} /\ OthersStay(c)
           /\ UNCHANGED jobVars
           /\ pc'[c] = "record" /\ "reserve" \notin MayLose => claims' = claims
<1> QED
  BY GoesTo DEF ReserveHold, Try, Threads, moneyVars

LEMMA UnreservedStep ==
    ASSUME "reserve" \in Prompt \cap Unseen, Numbers, Unreserved, [Next]_vars
    PROVE  Unreserved'
<1>0. Threaded /\ Clients \subseteq Threads
  BY DEF Numbers, Threaded, Threads
<1>1. CASE status = "absent"
  <2>1. Quiet(Threads)
    BY <1>1 DEF Unreserved
  <2>2. PICK t \in Threads : pc[t] = "idle" /\ Quiet(Threads \ {t})
    BY <2>1 DEF Quiet, Threads
  <2>3. CASE UNCHANGED <<pc, status, stale, claims, queueVars>>
    BY <1>0, <1>1, <2>1, <2>3 DEF Unreserved, Quiet, Queued, queueVars
  <2>4. ASSUME NEW c \in Clients, Submit(c) PROVE Unreserved'
    BY <1>0, <2>1, <2>4, SubmitGoes DEF Unreserved, Quiet, Queued, queueVars, OthersStay
  <2>5. ~(t \in Clients /\ ReserveHold(t))
    BY <2>2 DEF ReserveHold
  <2> QED
    BY <1>1, <2>2, <2>3, <2>4, <2>5, QuietStep
<1>2. ASSUME NEW c \in Clients, pc'[c] = "reserve", status # "absent"
      PROVE  status' = "created" /\ Quiet(Threads \ {c})'
  <2>1. pc[c] = "reserve"
    BY <1>2, ThreadMoves DEF Still, ClientMoves, Submit
  <2>2. status = "created" /\ Quiet(Threads \ {c})
    BY <2>1 DEF Unreserved
  <2>3. c \in Threads /\ pc'[c] = pc[c]
    BY <1>0, <1>2, <2>1
  <2>4. ~ReserveHold(c)
    BY <1>0, <1>2, ReserveGoes
  <2>5. \A d \in Clients : ~Submit(d)
    BY <1>2 DEF Submit
  <2>6. ~Crash(c)
    BY <1>0, <1>2, <2>3, GoesTo DEF Crash
  <2>7. UNCHANGED <<pc, status, stale, claims, queueVars>>
    BY <2>1, <2>2, <2>3, <2>4, <2>5, <2>6, QuietStep
  <2> QED
    BY <2>2, <2>7 DEF Quiet, Queued, queueVars
<1>3. CASE status # "absent"
  BY <1>2, <1>3, RowMoves DEF Unreserved, RowStep
<1> QED
  BY <1>1, <1>3

LEMMA UnreservedInit == Init => Unreserved
<1> SUFFICES ASSUME Init PROVE Unreserved
  OBVIOUS
<1>1. /\ claims = {} /\ ~stale /\ ready = 0 /\ ~delayed /\ ~active
      /\ \A t \in Threads : pc[t] = "idle"
  BY DEF Init
<1>2. Clients \subseteq Threads
  BY DEF Threads
<1> QED
  BY <1>1, <1>2 DEF Unreserved, Quiet, Queued

\* Money is frozen by the reservation only, when the other threads still know nothing.
LEMMA HeldMoves ==
    ASSUME NothingDropped, Numbers, Unreserved, [Next]_vars, ~Held, Held'
    PROVE  \E c \in Clients : /\ status' = "created" /\ claims' = {"hold"}
                             /\ pc'[c] # "record"
                             /\ \A t \in Threads \ {c} : pc'[t] = "idle"
<1>1. /\ "capture" \notin claims /\ "capture" \notin claims'
      /\ ~returned /\ "hold" \in claims' /\ "hold" \notin claims
  BY LedgerMoves DEF Held, Charged
<1>2. PICK c \in Clients : ReserveHold(c) /\ ReserveBatchImageBalance
  <2>1. CASE UNCHANGED moneyVars
    BY <1>1, <2>1 DEF moneyVars
  <2>2. CASE CaptureBatchImageBalance \/ ReleaseBatchImageBalance
    BY <1>1, <2>2 DEF CaptureBatchImageBalance, ReleaseBatchImageBalance, Claim, moneyVars
  <2> QED
    BY <2>1, <2>2, MoneyMoves DEF MoneyStep
<1>3. Threaded /\ c \in Threads /\ pc[c] = "reserve"
  BY <1>2 DEF Numbers, Threaded, Threads, ReserveHold
<1>4. status = "created" /\ claims = {} /\ \A t \in Threads \ {c} : pc[t] = "idle"
  BY <1>3 DEF Unreserved, Quiet
<1>5. OthersStay(c) /\ status' = status /\ (pc'[c] = "record" => claims' = claims)
  BY <1>2, <1>3, ReserveGoes DEF NothingDropped, jobVars
<1>6. claims' = {"hold"}
  BY <1>2, <1>4 DEF ReserveBatchImageBalance, Claim
<1> QED
  BY <1>4, <1>5, <1>6 DEF OthersStay

LEMMA SettledStep ==
    ASSUME NothingDropped, Numbers, RowKnown, LockHeld, AtWork, Unreserved, Settled, [Next]_vars
    PROVE  Settled'
<1>1. inflight' => Queued'
  BY QueueMoves DEF Settled, Numbers, Queued, queueVars
<1>2. Held' => "release" \notin claims'
  <2>1. CASE Held
    <3>1. ReleaseBatchImageBalance => ~Held'
      BY <2>1, ReleaseFrees DEF Settled
    <3>2. "release" \notin claims
      BY <2>1 DEF Settled
    <3> QED
      BY <3>1, <3>2, MoneyMoves
         DEF MoneyStep, moneyVars, ReserveBatchImageBalance, CaptureBatchImageBalance, Claim
  <2> QED
    BY <2>1, HeldMoves
<1>3. ASSUME NEW w \in Workers, pc'[w] \in {"ack", "exhausted"} PROVE ~Held'
  <2>0. w \in Threads
    BY DEF Threads
  <2>1. CASE ~Held
    BY <1>3, <2>0, <2>1, HeldMoves, ThreadsAssumption
  <2>2. CASE Held
    <3>1. pc[w] \notin {"ack", "exhausted"} /\ pc'[w] # pc[w]
      BY <1>3, <2>2 DEF Settled
    <3>2. status \notin {"completed", "output_deleted"} /\ pc[w] # "mark"
      BY <2>2 DEF Held, RowKnown, AtWork
    <3>3. ~(pc[w] = "process" /\ status = "settling")
      BY DEF Settled
    <3>4. ReleaseBatchImageBalance
      BY <1>3, <3>1, <3>2, <3>3, ThreadMoves DEF Still, WorkerMoves
    <3> QED
      BY <3>4, ReleaseFrees DEF Settled
  <2> QED
    BY <2>1, <2>2
<1>4. ASSUME NEW c \in Clients, pc'[c] = "record" PROVE ~Held'
  <2>0. c \in Threads
    BY DEF Threads
  <2>1. CASE ~Held
    BY <1>4, <2>0, <2>1, HeldMoves
  <2>2. CASE Held
    <3>1. pc[c] # "record" /\ pc[c] # "reserve"
      BY <2>2 DEF Settled, Unreserved, Quiet, Held
    <3>2. ~ReserveHold(c)
      BY <3>1 DEF ReserveHold
    <3>3. ReleaseBatchImageBalance
      BY <1>4, <3>1, <3>2, ThreadMoves DEF Still, ClientMoves
    <3> QED
      BY <3>3, ReleaseFrees DEF Settled
  <2> QED
    BY <2>1, <2>2
<1>5. ASSUME NEW w \in Workers, pc'[w] = "process" PROVE status' # "settling"
  <2>1. CASE pc[w] = "process"
    <3>1. \A v \in Workers : pc[v] # "to_settling"
      BY <2>1, OneWorks DEF Processing
    <3>2. status # "settling"
      BY <2>1 DEF Settled
    <3> QED
      BY <3>1, <3>2, RowMoves DEF RowStep
  <2> QED
    BY <1>5, <2>1, ThreadMoves DEF Still, WorkerMoves
<1> QED
  BY <1>1, <1>2, <1>3, <1>4, <1>5 DEF Settled

\* A thread that is to put the job into the queue, or to release its hold, does so or retries.
LEMMA EnqueueQueues ==
    ASSUME NothingDropped, ready \in Nat, inflight => Queued,
           NEW t \in Threads, Enqueue(t, "idle", "idle"), pc[t] \in {"enqueue", "retry"}
    PROVE  Queued'
<1>1. pc[t] \notin MayFail
  BY DEF NothingDropped
<1> QED
  BY <1>1 DEF Enqueue, Try, Queued, queueVars

LEMMA TrackerGoes ==
    ASSUME NothingDropped, Numbers, Settled, [Next]_vars, Held',
           NEW t \in Threads, pc[t] \in Trackers
    PROVE  pc'[t] \in Trackers \/ Queued'
<1> USE DEF Trackers
<1>0. Threaded /\ ready \in Nat /\ (inflight => Queued)
  BY DEF Numbers, Threaded, Settled
<1>1. CASE pc'[t] = pc[t]
  BY <1>1
<1>2. ASSUME Enqueue(t, "idle", "idle"), pc[t] \in {"enqueue", "retry"} PROVE Queued'
  BY <1>0, <1>2, EnqueueQueues
<1>3. ASSUME Release(t, "idle", "retry") PROVE pc'[t] = "retry"
  BY <1>0, <1>3, ReleaseTakes, ReleaseFrees DEF Settled
<1>4. CASE t \in Clients /\ (Request(t) \/ ClientStep(t))
  <2>1. ~Request(t)
    BY DEF Request, Submit, Resubmit, Cancel
  <2>2. EnqueueSubmitted(t) \/ EnqueueRetry(t) \/ CancelRelease(t)
    BY <1>4, <2>1
       DEF ClientStep, ReserveHold, CreatePendingItems, StartUpload, ProviderSubmit, MarkSubmitted,
           AbortOrphan, ReleaseFailedSubmit, RecordSubmitFailure, CancelUpstream, CancelEnqueue,
           CancelMark
  <2> QED
    BY <1>2, <1>3, <2>2 DEF EnqueueSubmitted, EnqueueRetry, CancelRelease, ReleaseRetry
<1>5. ~(t \in Workers /\ (Reserve(t) \/ WorkerStep(t)))
  BY DEF Reserve, WorkerStep, TryAcquireJobLock, RequeueAfter, Ack, ReleaseLock, PipelineRead,
         ProcessRead, Poll, ProcessorTransition, IndexResult, ReleaseTerminalHold, SettleRead,
         CaptureHold, MarkSettled, RecordSettlementFailure, FailExhausted
<1>6. CASE t = Sweep /\ (SweepStep \/ ListStale)
  <2>1. SweepRelease \/ EnqueueRetry(t)
    BY <1>6 DEF SweepStep, ListStale, FailStale
  <2> QED
    BY <1>2, <1>3, <1>6, <2>1 DEF SweepRelease, EnqueueRetry, ReleaseRetry
<1>7. pc[t] \notin MayCrash
  BY DEF NothingDropped
<1> QED
  BY <1>1, <1>4, <1>5, <1>6, <1>7, OwnStep

\* The row of a frozen hold is left to the recovery until a thread takes it over.
LEMMA RowTracked ==
    ASSUME NothingDropped, Numbers, AtWork, Settled, [Next]_vars, Held,
           status \in Unsubmitted, ~named
    PROVE  (status' \in Unsubmitted /\ ~named') \/ \E t \in Threads : pc'[t] \in Trackers
<1> USE DEF Trackers, Unsubmitted
<1>0. Threaded /\ Clients \subseteq Threads /\ Sweep \in Threads
  BY DEF Numbers, Threaded, Threads
<1>1. ASSUME NEW c \in Clients, MarkSubmitted(c), named' PROVE pc'[c] = "enqueue"
  BY <1>0, <1>1, GoesTo DEF MarkSubmitted, Try, NothingDropped
<1>2. ASSUME NEW c \in Clients, RecordSubmitFailure(c) PROVE pc'[c] = "retry"
  <2>1. pc[c] # "record"
    BY DEF Settled
  <2> QED
    BY <1>0, <1>2, <2>1, GoesTo DEF RecordSubmitFailure, Try
<1>3. ASSUME FailStale, status' = "failed" PROVE pc'[Sweep] = "sweep_release"
  BY <1>0, <1>3, GoesTo DEF FailStale, Try, NothingDropped
<1>4. ASSUME NEW c \in Clients, CancelMark(c), status' = "cancelled"
      PROVE  pc'[c] = "cancel_release"
  BY <1>0, <1>4, GoesTo DEF CancelMark, Transition, Try, NothingDropped
<1>5. \A w \in Workers : pc[w] \notin {"to_failed", "to_cancelled", "to_settling", "exhausted"}
  BY DEF AtWork, Working, Settled
<1>6. ~CanTransition("running") /\ ~CanTransition("indexing") /\ ~CanTransition("settling")
  BY DEF CanTransition, Allowed, Ended
<1> QED
  BY <1>0, <1>1, <1>2, <1>3, <1>4, <1>5, <1>6, RowMoves DEF RowStep

LEMMA HoldTrackedStep ==
    ASSUME NothingDropped, Numbers, OneSubmitter, AtWork, Unreserved, Settled, HoldTracked,
           Settled', [Next]_vars
    PROVE  HoldTracked'
<1> SUFFICES ASSUME Held'
             PROVE  \/ status' \in Unsubmitted /\ ~named'
                    \/ Queued'
                    \/ \E t \in Threads : pc'[t] \in Trackers
  BY DEF HoldTracked, Settled, Queued, Trackers
<1>1. CASE ~Held
  <2>1. \E c \in Clients : pc[c] = "reserve"
    BY <1>1, LedgerMoves DEF Held, Charged
  <2>2. status = "created" /\ ~named /\ status' = "created"
    BY <1>1, <2>1, HeldMoves DEF Unreserved, OneSubmitter, PreSubmit, Forward
  <2> QED
    BY <2>2, RowMoves DEF RowStep, Unsubmitted
<1>2. CASE Held /\ status \in Unsubmitted /\ ~named
  BY <1>2, RowTracked
<1>3. CASE Held /\ Queued
  BY <1>3, QueueMoves DEF Numbers, Settled, Queued, queueVars
<1>4. CASE \E t \in Threads : pc[t] \in Trackers
  BY <1>4, TrackerGoes
<1> QED
  BY <1>1, <1>2, <1>3, <1>4 DEF HoldTracked, Queued, Trackers

\* In the environments that drop nothing, with attempts to spare and heartbeats that do not
\* stall, a frozen hold is never forgotten, whatever else fails, loses its reply or dies: the
\* row, the queue or a thread remembers it, so that the recovery or a worker comes back to it.
THEOREM HoldIsTracked ==
    ASSUME NothingDropped, MayStall = {}, MaxFaults < MaxRetries
    PROVE  Spec => []HoldTracked
<1>1. Init => Unreserved /\ Settled /\ HoldTracked
  <2> SUFFICES ASSUME Init PROVE Unreserved /\ Settled /\ HoldTracked
    OBVIOUS
  <2>1. /\ claims = {} /\ ~stale /\ ready = 0 /\ ~delayed /\ ~active /\ ~inflight
        /\ status = "absent" /\ \A t \in Threads : pc[t] = "idle"
    BY DEF Init
  <2>2. Clients \subseteq Threads /\ Workers \subseteq Threads
    BY DEF Threads
  <2>3. Settled /\ HoldTracked
    BY <2>1, <2>2 DEF Settled, HoldTracked, Held
  <2> QED
    BY <2>3, UnreservedInit
<1>2. /\ Numbers /\ Safe /\ Unreserved /\ Settled /\ HoldTracked /\ [Next]_vars
      => (Unreserved /\ Settled /\ HoldTracked)'
  <2>1. Safe => LockHeld
    BY DEF Safe, Apart
  <2>2. NothingDropped => "reserve" \in Prompt \cap Unseen
    BY DEF NothingDropped
  <2> QED
    BY <2>1, <2>2, UnreservedStep, SettledStep, HoldTrackedStep DEF Safe
<1> QED
  BY <1>1, <1>2, SafeHolds, PTL DEF Spec, NoStrayFailure

\* When a submission is neither cancelled nor swept before its reservation, a claimed release
\* has returned what the job froze, whatever else happens: the early release is the only way
\* to a release that is skipped as done with the money still frozen.
THEOREM ReleaseIsReturned ==
    ASSUME "reserve" \in Prompt \cap Unseen
    PROVE  Spec => []ReleaseClaimMeansReturned
<1> DEFINE IInv == Numbers /\ Covered /\ Unreserved /\ ReleaseClaimMeansReturned
<1>1. Init => IInv
  BY TypeInit, UnreservedInit DEF Init, ReleaseClaimMeansReturned
<1>2. IInv /\ [Next]_vars => IInv'
  <2> SUFFICES ASSUME IInv, [Next]_vars PROVE IInv'
    OBVIOUS
  <2>1. (Numbers /\ Covered /\ Unreserved)'
    BY NumbersStep, CoveredStep, UnreservedStep
  <2>2. ReleaseClaimMeansReturned'
    <3> USE DEF ReleaseClaimMeansReturned, Claim, moneyVars
    <3>1. CASE \E c \in Clients : ReserveHold(c) /\ ReserveBatchImageBalance
      BY <3>1 DEF ReserveHold, ReserveBatchImageBalance, Unreserved, Quiet
    <3>2. CASE CaptureBatchImageBalance
      BY <3>2 DEF CaptureBatchImageBalance
    <3>3. CASE ReleaseBatchImageBalance
      BY <3>3 DEF ReleaseBatchImageBalance, WasHeld
    <3>4. CASE UNCHANGED moneyVars
      BY <3>4
    <3> QED
      BY <3>1, <3>2, <3>3, <3>4, MoneyMoves DEF MoneyStep
  <2> QED
    BY <2>1, <2>2
<1>3. IInv => ReleaseClaimMeansReturned
  OBVIOUS
<1> QED
  BY <1>1, <1>2, <1>3, PTL DEF Spec

=============================================================================
