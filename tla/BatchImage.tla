----------------------------- MODULE BatchImage -----------------------------
(***************************************************************************)
(* One batch image job: submitted by an API request that freezes money,    *)
(* worked on by queue workers until the upstream batch has ended and its   *)
(* result is indexed and paid for, possibly cancelled by its owner, and    *)
(* swept up when its submission dies. Every step is one SQL statement or   *)
(* transaction, one Redis script or one provider call.                     *)
(***************************************************************************)
EXTENDS Naturals, FiniteSets

CONSTANTS
    Clients,        \* threads of the owner's API requests
    Workers,        \* threads of the queue workers
    Sweep,          \* the thread of the billing recovery
    Hold,           \* the amount to freeze
    StartBalances,  \* what the user may have at first
    StartFrozen,    \* what the user's other jobs may have frozen
    Costs,          \* what the images of the job may cost in the end
    MaxRetries,     \* settlement attempts before the job is given up (5 in the code)
    Prompt,         \* environment: labels no request stays at until its job is stale
    Unseen,         \* environment: labels at which the owner does not know the job yet
    MayFail,        \* environment: labels at which a call may fail without effect
    MayLose,        \* environment: labels at which a call may take effect but report an error
    MayCrash,       \* environment: labels at which a thread may die
    MayStall,       \* environment: labels at which a worker's heartbeats may stop
    MaxFaults       \* bound on all of these

Threads == Clients \cup Workers \cup {Sweep}

ASSUME ThreadsAssumption == Clients \cap Workers = {} /\ Sweep \notin Clients \cup Workers
ASSUME AmountsAssumption ==
    Hold \in Nat \ {0} /\ StartBalances \subseteq Nat /\ StartFrozen \subseteq Nat
    /\ Costs \subseteq Nat
ASSUME BoundsAssumption == MaxRetries \in Nat /\ MaxFaults \in Nat

VARIABLES
    status,    \* batch_image_jobs.status, or absent
    named,     \* provider_job_name is set
    hidden,    \* user_deleted_at is set
    stale,     \* updated_at is older than the recovery cutoff
    retries,   \* retry_count
    claims,    \* request ids of the job in usage_billing_dedup
    balance, frozen,  \* users.balance and users.frozen_balance
    cost,      \* price times successful images, fixed by the snapshot and the provider's output
    returned,  \* history: a release gave the frozen money back
    ready,     \* how often the job is in the ready list
    delayed, active,  \* the job is in the sorted set of that name
    inflight,  \* the deduplication key of the job exists
    lock,      \* the worker whose token the job lock holds
    upstream,  \* the provider's batch; unreadable: succeeded with an output that does not parse
    usable,    \* the job's account is found and supported, and the provider answers for it
    pc,        \* where each thread is
    faults     \* faults so far

jobVars == <<status, named, hidden, stale, retries>>
moneyVars == <<claims, balance, frozen, returned, cost>>
queueVars == <<ready, delayed, active, inflight>>
providerVars == <<upstream, usable>>
vars == <<jobVars, moneyVars, queueVars, lock, providerVars, pc, faults>>

Ended == {"completed", "failed", "cancelled", "output_deleted"}
Unsubmitted == {"created", "uploading"}
Statuses == {"absent", "submitted", "running", "indexing", "settling"} \cup Unsubmitted \cup Ended

Submitting == {"reserve", "items", "uploading", "upstream", "submitted", "enqueue", "abort",
               "abandon", "withdraw", "record", "record_retry"}
Cancelling == {"cancel_mark", "cancel_release", "cancel_upstream", "cancel_enqueue"}
Processing == {"read", "process", "poll", "poll_running", "running", "to_indexing", "index",
               "to_settling", "to_failed", "to_cancelled", "release", "settle", "capture",
               "mark", "settle_failed", "give_up", "exhausted", "release_failed", "ack", "requeue"}
Labels == {"idle", "lock", "conflict", "unlock", "sweep", "sweep_release", "retry"}
              \cup Submitting \cup Cancelling \cup Processing

NoOne == "no one"

ASSUME NoOneAssumption == NoOne \notin Workers

-----------------------------------------------------------------------------
Init ==
    /\ status = "absent" /\ named = FALSE /\ hidden = FALSE /\ stale = FALSE /\ retries = 0
    /\ claims = {} /\ balance \in StartBalances /\ frozen \in StartFrozen /\ returned = FALSE
    /\ ready = 0 /\ delayed = FALSE /\ active = FALSE /\ inflight = FALSE
    /\ lock = NoOne /\ upstream = "none" /\ usable = TRUE /\ cost \in Costs
    /\ pc = [t \in Threads |-> "idle"] /\ faults = 0

Goto(t, l) == pc' = [pc EXCEPT ![t] = l]

Faulty == faults < MaxFaults /\ faults' = faults + 1
NoFault == UNCHANGED faults

\* A call with the given effect: done, done but reported as an error, or failed.
Try(t, Effect, unchanged, ok, failed) ==
    \/ Effect /\ Goto(t, ok) /\ NoFault
    \/ Effect /\ Goto(t, failed) /\ pc[t] \in MayLose /\ Faulty
    \/ UNCHANGED unchanged /\ Goto(t, failed) /\ pc[t] \in MayFail /\ Faulty

-----------------------------------------------------------------------------
\* The job row.

Allowed ==
    [created   |-> {"uploading", "submitted", "cancelled"},
     uploading |-> {"submitted", "cancelled"},
     submitted |-> {"running", "indexing", "cancelled"},
     running   |-> {"running", "indexing", "cancelled"},
     indexing  |-> {"settling"},
     settling  |-> {"completed"}]

CanTransition_from_anywhere(to) == TRUE
CanTransition(to) ==
    \/ status \in DOMAIN Allowed /\ to \in Allowed[status] \cup {"failed"}
    \/ status \in Ended \ {"output_deleted"} /\ to = "output_deleted"

\* TransitionBatchImageJobStatus, whose caller goes on at ok, failed or (an illegal
\* transition) refused.
Transition(t, to, ok, failed, refused) ==
    \/ /\ CanTransition(to)
       /\ Try(t, status' = to /\ stale' = FALSE, <<status, stale>>, ok, failed)
    \/ /\ ~CanTransition(to)
       /\ Goto(t, refused) /\ NoFault /\ UNCHANGED <<status, stale>>

-----------------------------------------------------------------------------
\* The ledger: a claim row and the movement of the money in one transaction. A request id
\* claimed before has no effect and succeeds.

Claim(id) == id \notin claims /\ claims' = claims \cup {id}

Affordable_unchecked == TRUE
Affordable == balance >= Hold

ReserveBatchImageBalance ==
    /\ Affordable
    /\ Claim("hold")
    /\ balance' = balance - Hold /\ frozen' = frozen + Hold
    /\ UNCHANGED <<returned, cost>>

Captured_by_hold_id == "hold" \in claims
Captured == "capture" \in claims

\* The cost is within the hold: Settle has checked it.
CaptureBatchImageBalance ==
    \/ Captured /\ UNCHANGED moneyVars
    \/ /\ Claim("capture") /\ frozen >= Hold
       /\ frozen' = frozen - Hold
       /\ balance' = balance + (Hold - cost)
       /\ UNCHANGED <<returned, cost>>

WasHeld_unchecked == TRUE
WasHeld == "hold" \in claims

\* A job that never froze anything gets nothing back, but its release is claimed all the same.
ReleaseBatchImageBalance ==
    \/ "release" \in claims /\ UNCHANGED moneyVars
    \/ Claim("release") /\ ~WasHeld /\ UNCHANGED <<balance, frozen, returned, cost>>
    \/ /\ Claim("release") /\ WasHeld /\ frozen >= Hold
       /\ frozen' = frozen - Hold /\ balance' = balance + Hold /\ returned' = TRUE
       /\ UNCHANGED cost

\* Where a thread goes that is the only one left to release a hold, and fails to.
ReleaseRetry_dropped == "idle"
ReleaseRetry == "retry"

\* The release fails when the frozen pool is too small as well.
Release(t, ok, failed) ==
    /\ \/ Try(t, ReleaseBatchImageBalance, moneyVars, ok, failed)
       \/ /\ "release" \notin claims /\ WasHeld /\ frozen < Hold
          /\ Goto(t, failed) /\ NoFault /\ UNCHANGED moneyVars
    /\ UNCHANGED <<jobVars, queueVars, lock, providerVars>>

-----------------------------------------------------------------------------
\* The queue.

Enqueue(t, ok, failed) ==
    /\ Try(t, IF inflight THEN UNCHANGED queueVars
              ELSE inflight' = TRUE /\ ready' = ready + 1 /\ UNCHANGED <<delayed, active>>,
           queueVars, ok, failed)
    /\ UNCHANGED <<jobVars, moneyVars, lock, providerVars>>

-----------------------------------------------------------------------------
\* Submit

\* CreateBatchImageJob
Submit(c) ==
    /\ pc[c] = "idle" /\ status = "absent"
    /\ status' = "created"
    /\ Goto(c, "reserve")
    /\ UNCHANGED <<named, hidden, stale, retries, moneyVars, queueVars, lock, providerVars, faults>>

\* The same request again, with its idempotency key: an idle submitted job is put back.
Resubmit(c) ==
    /\ pc[c] = "idle" /\ status = "submitted"
    /\ Goto(c, "enqueue")
    /\ UNCHANGED <<jobVars, moneyVars, queueVars, lock, providerVars, faults>>

ReserveHold(c) ==
    /\ pc[c] = "reserve"
    /\ \/ Try(c, ReserveBatchImageBalance, moneyVars, "items", "record")
       \/ ~Affordable /\ Goto(c, "record") /\ NoFault /\ UNCHANGED moneyVars
    /\ UNCHANGED <<jobVars, queueVars, lock, providerVars>>

CreatePendingItems(c) ==
    /\ pc[c] = "items"
    /\ Try(c, TRUE, <<>>, "uploading", "abandon")
    /\ UNCHANGED <<jobVars, moneyVars, queueVars, lock, providerVars>>

StartUpload(c) ==
    /\ pc[c] = "uploading"
    /\ Transition(c, "uploading", "upstream", "abandon", "withdraw")
    /\ UNCHANGED <<named, hidden, retries, moneyVars, queueVars, lock, providerVars>>

\* Minutes, during which a heartbeat keeps the row from becoming stale.
ProviderSubmit(c) ==
    /\ pc[c] = "upstream"
    /\ Try(c, upstream' = "running", upstream, "submitted", "abandon")
    /\ UNCHANGED <<jobVars, moneyVars, queueVars, lock, usable>>

\* UpdateBatchImageJobProviderSubmit
MarkSubmitted(c) ==
    /\ pc[c] = "submitted"
    /\ \/ /\ CanTransition("submitted")
          /\ Try(c, status' = "submitted" /\ named' = TRUE /\ stale' = FALSE,
                 <<status, named, stale>>, "enqueue", "abort")
       \/ /\ ~CanTransition("submitted")
          /\ Goto(c, "abort") /\ NoFault /\ UNCHANGED <<status, named, stale>>
    /\ UNCHANGED <<hidden, retries, moneyVars, queueVars, lock, providerVars>>

EnqueueSubmitted(c) == pc[c] = "enqueue" /\ Enqueue(c, "idle", "idle")

AbortOrphan(c) ==
    /\ pc[c] = "abort"
    /\ Try(c, upstream' = IF upstream = "running" THEN "cancelled" ELSE upstream, upstream,
           "idle", "idle")
    /\ UNCHANGED <<jobVars, moneyVars, queueVars, lock, usable>>

\* releaseFailedSubmitHold; after it, a submission that found its job already ended
\* (withdraw) leaves the row alone.
ReleaseFailedSubmit(c) ==
    \/ pc[c] = "abandon" /\ Release(c, "record", "record_retry")
    \/ pc[c] = "withdraw" /\ Release(c, "idle", "record_retry")

\* RecordBatchImageJobSubmitFailure, whatever the status is, then the record is hidden from
\* the owner if it has ended; neither failure is reported.
RecordSubmitFailure(c) ==
    /\ \/ /\ pc[c] = "record"
          /\ \/ status' = "failed" /\ hidden' = TRUE /\ NoFault
             \/ status' = "failed" /\ hidden' = hidden /\ pc[c] \in MayFail /\ Faulty
             \/ status' = status /\ hidden' = (hidden \/ status \in Ended)
                /\ pc[c] \in MayFail /\ Faulty
          /\ Goto(c, "idle")
       \/ /\ pc[c] = "record_retry"
          /\ Try(c, status' = "failed", status, "retry", "retry")
          /\ UNCHANGED hidden
    /\ stale' = (stale /\ status' = status)
    /\ UNCHANGED <<named, retries, moneyVars, queueVars, lock, providerVars>>

\* enqueueBillingRetry and enqueueReleaseRetry
EnqueueRetry(t) == pc[t] = "retry" /\ Enqueue(t, "idle", "idle")

-----------------------------------------------------------------------------
\* Cancel: what is done depends on the row read here.
Cancel(c) ==
    /\ pc[c] = "idle" /\ status # "absent" /\ ~hidden
    /\ \A d \in Clients : pc[d] \notin Unseen
    /\ \/ status \in {"failed", "cancelled"} /\ Goto(c, "cancel_release")
       \/ /\ status \notin Ended \cup {"settling"}
          /\ Goto(c, IF named THEN "cancel_upstream" ELSE "cancel_mark")
    /\ UNCHANGED <<jobVars, moneyVars, queueVars, lock, providerVars, faults>>

\* The account is looked up and the provider takes the request; the batch may still end
\* otherwise.
CancelUpstream(c) ==
    /\ pc[c] = "cancel_upstream"
    /\ \/ Try(c, upstream' \in {upstream} \cup (IF upstream = "running" THEN {"cancelled"} ELSE {}),
              upstream, "cancel_enqueue", "idle")
       \/ ~usable /\ Goto(c, "idle") /\ NoFault /\ UNCHANGED upstream
    /\ UNCHANGED <<jobVars, moneyVars, queueVars, lock, usable>>

CancelEnqueue(c) == pc[c] = "cancel_enqueue" /\ Enqueue(c, "idle", "idle")

CancelMark(c) ==
    /\ pc[c] = "cancel_mark"
    /\ Transition(c, "cancelled", "cancel_release", "idle", "idle")
    /\ UNCHANGED <<named, hidden, retries, moneyVars, queueVars, lock, providerVars>>

CancelRelease(c) == pc[c] = "cancel_release" /\ Release(c, "idle", ReleaseRetry)

\* DeleteRecord and the output cleanup.
DeleteRecord ==
    /\ status \in Ended /\ ~hidden
    /\ hidden' = TRUE
    /\ UNCHANGED <<status, named, stale, retries, moneyVars, queueVars, lock, providerVars, pc,
                   faults>>

MarkOutputDeleted ==
    /\ status = "completed"
    /\ status' = "output_deleted"
    /\ UNCHANGED <<named, hidden, stale, retries, moneyVars, queueVars, lock, providerVars, pc,
                   faults>>

-----------------------------------------------------------------------------
\* ReleaseStaleUnsubmittedOnce

IsStale_uploading == status = "uploading" /\ ~named /\ stale
IsStale == status \in Unsubmitted /\ ~named /\ stale

GrowStale ==
    /\ status \in Unsubmitted /\ ~stale
    /\ \A c \in Clients : pc[c] \notin Prompt
    /\ stale' = TRUE
    /\ UNCHANGED <<status, named, hidden, retries, moneyVars, queueVars, lock, providerVars, pc,
                   faults>>

ListStale ==
    /\ pc[Sweep] = "idle" /\ status \in Unsubmitted /\ ~named /\ stale
    /\ Goto(Sweep, "sweep")
    /\ UNCHANGED <<jobVars, moneyVars, queueVars, lock, providerVars, faults>>

\* The UPDATE checks the conditions of the list again.
FailStale ==
    /\ pc[Sweep] = "sweep"
    /\ \/ IsStale /\ Try(Sweep, status' = "failed" /\ stale' = FALSE, <<status, stale>>,
                         "sweep_release", "idle")
       \/ ~IsStale /\ Goto(Sweep, "idle") /\ NoFault /\ UNCHANGED <<status, stale>>
    /\ UNCHANGED <<named, hidden, retries, moneyVars, queueVars, lock, providerVars>>

SweepRelease == pc[Sweep] = "sweep_release" /\ Release(Sweep, "idle", ReleaseRetry)

-----------------------------------------------------------------------------
\* The worker around the processor: RunOnce.

Reserve(w) ==
    /\ pc[w] = "idle" /\ ready > 0
    /\ ready' = ready - 1 /\ active' = TRUE
    /\ Goto(w, "lock")
    /\ UNCHANGED <<jobVars, moneyVars, delayed, inflight, lock, providerVars, faults>>

TryAcquireJobLock(w) ==
    /\ pc[w] = "lock"
    /\ \/ lock = NoOne /\ Try(w, lock' = w, lock, "read", "conflict")
       \/ lock # NoOne /\ Goto(w, "conflict") /\ NoFault /\ UNCHANGED lock
    /\ UNCHANGED <<jobVars, moneyVars, queueVars, providerVars>>

RequeueAfter(w) ==
    /\ pc[w] \in {"requeue", "conflict"}
    /\ LET done == IF pc[w] = "conflict" THEN "idle" ELSE "unlock"
       IN Try(w, active' = FALSE /\ delayed' = TRUE, <<active, delayed>>, done, done)
    /\ UNCHANGED <<jobVars, moneyVars, ready, inflight, lock, providerVars>>

Ack(w) ==
    /\ pc[w] = "ack"
    /\ Try(w, active' = FALSE /\ delayed' = FALSE /\ inflight' = FALSE,
           <<active, delayed, inflight>>, "unlock", "unlock")
    /\ UNCHANGED <<jobVars, moneyVars, ready, lock, providerVars>>

ReleaseLock(w) ==
    /\ pc[w] = "unlock"
    /\ Try(w, lock' = IF lock = w THEN NoOne ELSE lock, lock, "idle", "idle")
    /\ UNCHANGED <<jobVars, moneyVars, queueVars, providerVars>>

MoveDueDelayed ==
    /\ delayed
    /\ delayed' = FALSE /\ ready' = ready + 1
    /\ UNCHANGED <<jobVars, moneyVars, active, inflight, lock, providerVars, pc, faults>>

\* A worker that processes the job keeps its active entry and its lock alive, unless its
\* heartbeats stall.
Unattended(ws) ==
    LET beating == {w \in ws : pc[w] \in Processing}
    IN \/ beating = {} /\ NoFault
       \/ beating # {} /\ (\A w \in beating : pc[w] \in MayStall) /\ Faulty

RecoverStaleActive ==
    /\ active
    /\ \A w \in Workers : pc[w] \notin {"lock", "conflict"}
    /\ Unattended(Workers)
    /\ active' = FALSE /\ ready' = ready + 1
    /\ UNCHANGED <<jobVars, moneyVars, delayed, inflight, lock, providerVars, pc>>

LockLapses ==
    /\ lock # NoOne
    /\ Unattended({lock})
    /\ lock' = NoOne
    /\ UNCHANGED <<jobVars, moneyVars, queueVars, providerVars, pc>>

-----------------------------------------------------------------------------
\* The processor: BatchImagePipelineProcessor.Process reads the row, and if it is not
\* settling BatchImageProviderProcessor.Process reads it again.

Read(w, next) ==
    /\ \/ Goto(w, next) /\ NoFault
       \/ Goto(w, "requeue") /\ pc[w] \in MayFail /\ Faulty
    /\ UNCHANGED <<jobVars, moneyVars, queueVars, lock, providerVars>>

PipelineRead(w) ==
    pc[w] = "read" /\ Read(w, IF status = "settling" THEN "settle" ELSE "process")

\* A job under way is only looked at with the provider's name for it and its account.
Workable == named /\ usable

ProcessRead(w) ==
    /\ pc[w] = "process"
    /\ Read(w, CASE status \in {"failed", "cancelled"} -> "release"
                 [] status \in {"completed", "output_deleted", "settling"} -> "ack"
                 [] status \notin Ended \cup {"settling"} /\ ~Workable -> "requeue"
                 [] status = "indexing" /\ Workable -> "index"
                 [] status = "running" /\ Workable -> "poll_running"
                 [] OTHER -> "poll")

\* provider.Get; a batch that runs may also be reported as queued.
Poll(w) ==
    /\ pc[w] \in {"poll", "poll_running"}
    /\ \/ upstream = "running" /\ \E l \in {"requeue", "running"} :
              (l = "running" => pc[w] = "poll") /\ Read(w, l)
       \/ upstream \in {"succeeded", "unreadable"} /\ Read(w, "to_indexing")
       \/ upstream = "failed" /\ Read(w, "to_failed")
       \/ upstream = "cancelled" /\ Read(w, "to_cancelled")
       \/ ~usable /\ Read(w, "requeue")

\* The next transition of each kind; a refused or failed one is tried again later.
ProcessorTransition(w) ==
    /\ \/ pc[w] = "running" /\ Transition(w, "running", "requeue", "requeue", "requeue")
       \/ pc[w] = "to_indexing" /\ Transition(w, "indexing", "index", "requeue", "requeue")
       \/ pc[w] = "to_settling" /\ Transition(w, "settling", "requeue", "requeue", "requeue")
       \/ pc[w] = "to_failed" /\ Transition(w, "failed", "release", "requeue", "requeue")
       \/ pc[w] = "to_cancelled" /\ Transition(w, "cancelled", "release", "requeue", "requeue")
       \/ pc[w] = "exhausted" /\ Transition(w, "failed", "ack", "requeue", "requeue")
    /\ UNCHANGED <<named, hidden, retries, moneyVars, queueVars, lock, providerVars>>

\* The output may be missing for now; the items are only replaced in the indexing status.
IndexResult(w) ==
    /\ pc[w] = "index"
    /\ \/ upstream = "unreadable" /\ Goto(w, "to_failed") /\ NoFault
       \/ /\ upstream # "unreadable" /\ NoFault
          /\ Goto(w, IF status = "indexing" THEN "to_settling" ELSE "requeue")
       \/ ~usable /\ Goto(w, "requeue") /\ NoFault
       \/ pc[w] \in MayFail /\ Faulty /\ \E l \in {"to_failed", "requeue"} : Goto(w, l)
    /\ UNCHANGED <<jobVars, moneyVars, queueVars, lock, providerVars>>

ReleaseTerminalHold(w) == pc[w] = "release" /\ Release(w, "ack", "requeue")

-----------------------------------------------------------------------------
\* Settle

Exhausted == retries >= MaxRetries

SettleRead(w) ==
    /\ pc[w] = "settle"
    /\ \/ status = "completed" /\ Read(w, "ack")
       \/ status \notin {"completed", "settling"} /\ Read(w, "requeue")
       \/ status = "settling" /\ Exhausted /\ Read(w, "give_up")
       \/ /\ status = "settling" /\ ~Exhausted
          /\ Read(w, IF cost > Hold THEN "settle_failed" ELSE "capture")

CaptureHold(w) ==
    /\ pc[w] = "capture"
    /\ \/ Try(w, CaptureBatchImageBalance, moneyVars, "mark", "settle_failed")
       \/ /\ ~Captured /\ frozen < Hold
          /\ Goto(w, "settle_failed") /\ NoFault /\ UNCHANGED moneyVars
    /\ UNCHANGED <<jobVars, queueVars, lock, providerVars>>

\* UPDATE ... WHERE status = 'settling'
MarkSettled(w) ==
    /\ pc[w] = "mark"
    /\ \/ status = "settling" /\ Try(w, status' = "completed", status, "ack", "requeue")
       \/ status # "settling" /\ Goto(w, "requeue") /\ NoFault /\ UNCHANGED status
    /\ UNCHANGED <<named, hidden, stale, retries, moneyVars, queueVars, lock, providerVars>>

RecordSettlementFailure(w) ==
    /\ \/ /\ pc[w] = "settle_failed"
          /\ Try(w, retries' = retries + 1, retries,
                 IF retries + 1 >= MaxRetries THEN "give_up" ELSE "requeue", "requeue")
       \/ /\ pc[w] = "release_failed"
          /\ Try(w, retries' = retries + 1, retries, "requeue", "requeue")
    /\ UNCHANGED <<status, named, hidden, stale, moneyVars, queueVars, lock, providerVars>>

\* failExhaustedSettlement: the hold is returned before the job fails.
FailExhausted(w) == pc[w] = "give_up" /\ Release(w, "exhausted", "release_failed")

-----------------------------------------------------------------------------
UpstreamEnds ==
    /\ upstream = "running"
    /\ upstream' \in {"succeeded", "unreadable", "failed"}
    /\ UNCHANGED <<jobVars, moneyVars, queueVars, lock, usable, pc, faults>>

\* The account is deleted, whatever its jobs, or the provider no longer answers for the batch.
LoseAccount ==
    /\ status # "absent" /\ usable
    /\ usable' = FALSE
    /\ UNCHANGED <<jobVars, moneyVars, queueVars, lock, upstream, pc, faults>>

Crash(t) ==
    /\ pc[t] \in MayCrash /\ Faulty
    /\ Goto(t, "idle")
    /\ UNCHANGED <<jobVars, moneyVars, queueVars, lock, providerVars>>

Request(c) == Submit(c) \/ Resubmit(c) \/ Cancel(c)

ClientStep(c) ==
    \/ ReserveHold(c) \/ CreatePendingItems(c) \/ StartUpload(c) \/ ProviderSubmit(c)
    \/ MarkSubmitted(c) \/ EnqueueSubmitted(c) \/ AbortOrphan(c)
    \/ ReleaseFailedSubmit(c) \/ RecordSubmitFailure(c) \/ EnqueueRetry(c)
    \/ CancelUpstream(c) \/ CancelEnqueue(c) \/ CancelMark(c) \/ CancelRelease(c)

SweepStep == FailStale \/ SweepRelease \/ EnqueueRetry(Sweep)

WorkerStep(w) ==
    \/ TryAcquireJobLock(w) \/ RequeueAfter(w) \/ Ack(w) \/ ReleaseLock(w)
    \/ PipelineRead(w) \/ ProcessRead(w) \/ Poll(w) \/ ProcessorTransition(w) \/ IndexResult(w)
    \/ ReleaseTerminalHold(w) \/ SettleRead(w) \/ CaptureHold(w) \/ MarkSettled(w)
    \/ RecordSettlementFailure(w) \/ FailExhausted(w)

Timers == GrowStale \/ ListStale \/ MoveDueDelayed \/ RecoverStaleActive \/ LockLapses

Next ==
    \/ \E c \in Clients : Request(c) \/ ClientStep(c)
    \/ SweepStep
    \/ \E w \in Workers : Reserve(w) \/ WorkerStep(w)
    \/ Timers \/ UpstreamEnds \/ LoseAccount \/ DeleteRecord \/ MarkOutputDeleted
    \/ \E t \in Threads : Crash(t)

Spec == Init /\ [][Next]_vars

-----------------------------------------------------------------------------
\* Every variable holds a value of its kind.
TypeOK ==
    /\ status \in Statuses /\ named \in BOOLEAN /\ hidden \in BOOLEAN /\ stale \in BOOLEAN
    /\ retries \in Nat /\ cost \in Costs
    /\ claims \subseteq {"hold", "capture", "release"}
    /\ balance \in Nat /\ frozen \in Nat /\ returned \in BOOLEAN
    /\ ready \in Nat /\ delayed \in BOOLEAN /\ active \in BOOLEAN /\ inflight \in BOOLEAN
    /\ lock \in Workers \cup {NoOne}
    /\ upstream \in {"none", "running", "succeeded", "unreadable", "failed", "cancelled"}
    /\ usable \in BOOLEAN
    /\ pc \in [Threads -> Labels]
    /\ faults \in Nat

Charged == "capture" \in claims
Held == "hold" \in claims /\ ~Charged /\ ~returned

phase == CASE "hold" \notin claims -> "none"
           [] returned -> "returned"
           [] Charged -> "charged"
           [] OTHER -> "held"

\* Environments in which no worker that lags behind fails a job others have moved on: none
\* stalls, or indexing fails by the provider's output only.
NoStrayFailure == MayStall = {} \/ "index" \notin MayFail

\* The job's threads keep the promise of the ledger: its money is frozen once, then charged
\* or returned, never both, and the frozen money of other jobs is never touched, through
\* repeated settlements, releases by several threads, lost replies and crashes.
Promise == INSTANCE HoldPromise
KeepsPromise == Promise!Spec

\* A job is shown as completed only if it was paid for, and none of it was given back.
CompletedMeansCharged ==
    status \in {"completed", "output_deleted"} => Charged /\ ~returned

\* Environments that leave no hold to nobody: a retry is enqueued, no reply is lost and no
\* thread dies between a committed step and the one that must follow it, and a job is neither
\* swept nor cancelled before its hold is reserved.
NothingDropped ==
    /\ MayFail \cap {"enqueue", "retry"} = {}
    /\ MayLose \cap {"reserve", "submitted", "sweep", "cancel_mark"} = {}
    /\ MayCrash \cap {"enqueue", "retry", "sweep_release", "cancel_release"} = {}
    /\ "reserve" \in Prompt \cap Unseen

\* Someone always remembers a frozen hold: the recovery finds the row, the queue delivers
\* the job, or a thread is about to put it there or to release the hold.
HoldTracked ==
    Held => /\ "release" \notin claims
            /\ \/ status \in Unsubmitted /\ ~named
               \/ ready > 0 \/ delayed \/ active
               \/ \E t \in Threads : pc[t] \in {"enqueue", "retry", "sweep_release", "cancel_release"}

\* What releases rely on: a claimed release of a job that froze money has returned it.
ReleaseClaimMeansReturned == {"hold", "release"} \subseteq claims => returned

-----------------------------------------------------------------------------
\* Requests and workers that run go on, the periodic scans run, the provider ends a batch.
Fairness ==
    /\ \A c \in Clients : WF_vars(ClientStep(c))
    /\ WF_vars(SweepStep)
    /\ \A w \in Workers : WF_vars(Reserve(w)) /\ WF_vars(WorkerStep(w))
    /\ WF_vars(GrowStale) /\ WF_vars(ListStale) /\ WF_vars(MoveDueDelayed)
    /\ WF_vars(RecoverStaleActive) /\ WF_vars(LockLapses)
    /\ WF_vars(UpstreamEnds)

FairSpec == Spec /\ Fairness

\* A job the provider still has when its account is lost: every delivery and every
\* cancellation fails, and its hold stays frozen.
Stranded == ~usable /\ status \in {"submitted", "running", "indexing"}

\* Money does not stay frozen but by the loss of the account: the hold of a job is charged
\* or returned in the end, also that of a job which the provider has not got yet, or which
\* is being settled or has ended, when its account is lost.
HoldIsSettled == Held ~> ~Held \/ Stranded
=============================================================================
