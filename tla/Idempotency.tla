---------------------------- MODULE Idempotency ----------------------------
(***************************************************************************)
(* IdempotencyCoordinator.Execute over the idempotency_records table, for  *)
(* one (scope, key) pair: every request of Requests carries the same       *)
(* Idempotency-Key, Fingerprint[r] stands for the hash of its payload.     *)
(* A step is one SQL statement, or one run of the business function; time  *)
(* passes between any two of them.                                         *)
(***************************************************************************)
EXTENDS Naturals, FiniteSets

CONSTANTS
    Requests,           \* calls of Execute
    Fingerprint,        \* [Requests -> fingerprints]
    TTL,                \* opts.TTL, the life of a record
    ProcessingTimeout,  \* cfg.ProcessingTimeout, the processing lock
    FailedRetryBackoff, \* cfg.FailedRetryBackoff
    ClaimTime,          \* environment: longest time from Execute's clock read to its claim
    Life,               \* environment: longest time a call of Execute runs
    MaxTime             \* bound on the clock

ASSUME TimesAssumption ==
    /\ TTL \in Nat \ {0}
    /\ ProcessingTimeout \in Nat \ {0}
    /\ FailedRetryBackoff \in Nat
    /\ ClaimTime \in Nat \ {0} /\ Life \in Nat \ {0} /\ MaxTime \in Nat

VARIABLES
    clock,    \* time.Now()
    row,      \* the record of the key; id 0 when there is none
    nextId,   \* the id sequence of the table
    pc,       \* where each call of Execute is
    at,       \* the `now` a call read when it started
    seen,     \* `existing`: the id and status of the record a call read last
    rid,      \* record.ID of a call
    claimed,  \* history: when a call became the owner
    effects,  \* history: the calls whose business function took effect
    result    \* what a call returned

vars == <<clock, row, nextId, pc, at, seen, rid, claimed, effects, result>>
callVars == <<pc, at, seen, rid, claimed, effects, result>>

Statuses == {"none", "processing", "succeeded", "failed_retryable"}
NoBody == "no body"
Garbled == "truncated body"
Bodies == Requests \cup {NoBody, Garbled}

Payloads == {Fingerprint[r] : r \in Requests}
\* LockedUntil is 0 when the column is NULL: both are "not after now".
Rows == [id : Nat, fp : Payloads, status : Statuses,
         locked : Nat, expires : Nat, body : Bodies]

Preparing == {"create", "get", "reclaim_expired", "get_latest", "reclaim_failed"}
Owning == {"run", "mark_ok", "mark_failed"}
Active == Preparing \cup Owning
Labels == Active \cup {"idle", "done", "dead"}

Kinds == {"pending", "ok", "error", "unavailable", "key_conflict", "in_progress",
          "backoff", "replay"}
Answers == [kind : Kinds, body : Bodies]
Answer(kind) == [kind |-> kind, body |-> NoBody]

Absent == row.id = 0

-----------------------------------------------------------------------------
Init ==
    /\ clock = 0
    /\ row \in [id : {0}, fp : Payloads, status : {"none"},
                locked : {0}, expires : {0}, body : {NoBody}]
    /\ nextId = 1
    /\ pc = [r \in Requests |-> "idle"]
    /\ at = [r \in Requests |-> 0]
    /\ seen = [r \in Requests |-> [id |-> 0, status |-> "none"]]
    /\ rid = [r \in Requests |-> 0]
    /\ claimed = [r \in Requests |-> 0]
    /\ effects = {}
    /\ result = [r \in Requests |-> Answer("pending")]

Goto(r, l) == pc' = [pc EXCEPT ![r] = l]

Return(r, answer) ==
    /\ Goto(r, "done")
    /\ result' = [result EXCEPT ![r] = answer]

\* The call owns record id and goes on to the business function.
Own(r, id) ==
    /\ Goto(r, "run")
    /\ rid' = [rid EXCEPT ![r] = id]
    /\ claimed' = [claimed EXCEPT ![r] = clock]
    /\ UNCHANGED result

\* A statement whose reply is lost: the call answers "store unavailable".
ReplyLost(r) == Return(r, Answer("unavailable")) /\ UNCHANGED <<rid, claimed>>

Begin(r) ==
    /\ pc[r] = "idle"
    /\ at' = [at EXCEPT ![r] = clock]
    /\ Goto(r, "create")
    /\ UNCHANGED <<clock, row, nextId, seen, rid, claimed, effects, result>>

\* ON CONFLICT (scope, idempotency_key_hash) DO NOTHING
NoConflict_upsert == TRUE
NoConflict == Absent

CreateProcessing(r) ==
    /\ pc[r] = "create"
    /\ IF NoConflict
       THEN /\ row' = [id |-> nextId, fp |-> Fingerprint[r], status |-> "processing",
                       locked |-> at[r] + ProcessingTimeout, expires |-> at[r] + TTL,
                       body |-> NoBody]
            /\ nextId' = nextId + 1
            /\ Own(r, nextId) \/ ReplyLost(r)
       ELSE Goto(r, "get") /\ UNCHANGED <<row, nextId, rid, claimed, result>>
    /\ UNCHANGED <<clock, at, seen, effects>>

SamePayload_any(r) == TRUE
SamePayload(r) == row.fp = Fingerprint[r]

\* What a live record of another call says to r (the switch on existing.Status).
ByStatus(r, rec) ==
    CASE rec.status = "succeeded" ->
            Return(r, IF rec.body = Garbled THEN Answer("unavailable")
                      ELSE [kind |-> "replay", body |-> rec.body])
      [] rec.status = "processing" -> Return(r, Answer("in_progress"))
      [] rec.status = "failed_retryable" ->
            IF rec.locked > at[r] THEN Return(r, Answer("backoff"))
            ELSE Goto(r, "reclaim_failed") /\ UNCHANGED result
      [] OTHER -> Return(r, Answer("key_conflict"))

GetExisting(r) ==
    /\ pc[r] = "get"
    /\ seen' = [seen EXCEPT ![r] = [id |-> row.id, status |-> row.status]]
    /\ CASE Absent -> Return(r, Answer("unavailable"))
         [] ~Absent /\ ~SamePayload(r) -> Return(r, Answer("key_conflict"))
         [] ~Absent /\ SamePayload(r) /\ row.expires <= at[r] ->
                Goto(r, "reclaim_expired") /\ UNCHANGED result
         [] OTHER -> ByStatus(r, row)
    /\ UNCHANGED <<clock, row, nextId, at, rid, claimed, effects>>

\* After a lost race for an expired record: the expiry is not looked at again.
GetLatest(r) ==
    /\ pc[r] = "get_latest"
    /\ seen' = [seen EXCEPT ![r] = [id |-> row.id, status |-> row.status]]
    /\ CASE Absent -> Return(r, Answer("unavailable"))
         [] ~Absent /\ ~SamePayload(r) -> Return(r, Answer("key_conflict"))
         [] OTHER -> ByStatus(r, row)
    /\ UNCHANGED <<clock, row, nextId, at, rid, claimed, effects>>

\* mutants of Reclaimable: without the status, without the lock
Reclaimable_any_status(r, fromStatus) == row.id = seen[r].id /\ row.locked <= at[r]
Reclaimable_locked(r, fromStatus) == row.id = seen[r].id /\ row.status = fromStatus

\* WHERE id = $1 AND status = $5 AND (locked_until IS NULL OR locked_until <= $6)
Reclaimable(r, fromStatus) ==
    /\ row.id = seen[r].id
    /\ row.status = fromStatus
    /\ row.locked <= at[r]

TryReclaim(r) ==
    /\ row' = [row EXCEPT !.status = "processing",
                          !.locked = at[r] + ProcessingTimeout,
                          !.expires = at[r] + TTL]
    /\ Own(r, seen[r].id) \/ ReplyLost(r)

ReclaimExpired(r) ==
    /\ pc[r] = "reclaim_expired"
    /\ IF Reclaimable(r, seen[r].status)
       THEN TryReclaim(r)
       ELSE Goto(r, "get_latest") /\ UNCHANGED <<row, rid, claimed, result>>
    /\ UNCHANGED <<clock, nextId, at, seen, effects>>

ReclaimFailed(r) ==
    /\ pc[r] = "reclaim_failed"
    /\ IF Reclaimable(r, "failed_retryable")
       THEN TryReclaim(r)
       ELSE Return(r, Answer("in_progress")) /\ UNCHANGED <<row, rid, claimed>>
    /\ UNCHANGED <<clock, nextId, at, seen, effects>>

\* Where a call goes whose business function failed.
AfterFailure_swallowed == "mark_ok"
AfterFailure == "mark_failed"

\* The business function; the response it returns is marshalled before it is stored.
Execute(r) ==
    /\ pc[r] = "run"
    /\ \/ effects' = effects \cup {r} /\ Goto(r, "mark_ok") /\ UNCHANGED result
       \/ effects' = effects \cup {r} /\ Return(r, Answer("unavailable"))
       \/ Goto(r, AfterFailure) /\ UNCHANGED <<effects, result>>
    /\ UNCHANGED <<clock, row, nextId, at, seen, rid, claimed>>

\* WHERE id = $1, whatever the row holds now; a deleted row is no error.
MarkSucceeded(r) ==
    /\ pc[r] = "mark_ok"
    /\ \/ /\ IF row.id = rid[r]
             THEN \E b \in {r, Garbled} :
                    row' = [row EXCEPT !.status = "succeeded", !.body = b,
                                       !.locked = 0, !.expires = at[r] + TTL]
             ELSE UNCHANGED row
          /\ Return(r, [kind |-> "ok", body |-> r]) \/ Return(r, Answer("unavailable"))
       \/ UNCHANGED row /\ Return(r, Answer("unavailable"))
    /\ UNCHANGED <<clock, nextId, at, seen, rid, claimed, effects>>

FailedStatus_misspelt == "failed"
FailedStatus == "failed_retryable"

MarkFailedRetryable(r) ==
    /\ pc[r] = "mark_failed"
    /\ \/ /\ row.id = rid[r]
          /\ row' = [row EXCEPT !.status = FailedStatus,
                                !.locked = clock + FailedRetryBackoff,
                                !.expires = at[r] + TTL]
       \/ UNCHANGED row
    /\ Return(r, Answer("error"))
    /\ UNCHANGED <<clock, nextId, at, seen, rid, claimed, effects>>

\* A read or write of the store that fails without having had an effect.
StoreError(r) ==
    /\ pc[r] \in Preparing
    /\ Return(r, Answer("unavailable"))
    /\ UNCHANGED <<clock, row, nextId, at, seen, rid, claimed, effects>>

\* The process dies; what it had not written yet is lost.
Crash(r) ==
    /\ pc[r] \in Active
    /\ Goto(r, "dead")
    /\ \/ pc[r] = "run" /\ effects' = effects \cup {r}
       \/ UNCHANGED effects
    /\ UNCHANGED <<clock, row, nextId, at, seen, rid, claimed, result>>

\* IdempotencyCleanupService: DELETE ... WHERE expires_at <= now
DeleteExpired ==
    /\ ~Absent
    /\ row.expires <= clock
    /\ row' = [row EXCEPT !.id = 0, !.status = "none", !.locked = 0, !.expires = 0,
                          !.body = NoBody]
    /\ UNCHANGED <<clock, nextId, callVars>>

Tick ==
    /\ clock < MaxTime
    /\ \A r \in Requests : pc[r] \in Preparing => clock + 1 < at[r] + ClaimTime
    /\ \A r \in Requests : pc[r] \in Active => clock + 1 < at[r] + Life
    /\ clock' = clock + 1
    /\ UNCHANGED <<row, nextId, callVars>>

Call(r) ==
    \/ Begin(r) \/ CreateProcessing(r) \/ GetExisting(r) \/ GetLatest(r)
    \/ ReclaimExpired(r) \/ ReclaimFailed(r)
    \/ Execute(r) \/ MarkSucceeded(r) \/ MarkFailedRetryable(r)

Next ==
    \/ \E r \in Requests : Call(r) \/ StoreError(r) \/ Crash(r)
    \/ DeleteExpired
    \/ Tick

Spec == Init /\ [][Next]_vars

-----------------------------------------------------------------------------
\* Every variable holds a value of its kind, whatever Execute and the cleanup do.
TypeOK ==
    /\ clock \in Nat
    /\ row \in Rows
    /\ nextId \in Nat \ {0}
    /\ pc \in [Requests -> Labels]
    /\ at \in [Requests -> Nat]
    /\ seen \in [Requests -> [id : Nat, status : Statuses]]
    /\ rid \in [Requests -> Nat]
    /\ claimed \in [Requests -> Nat]
    /\ effects \subseteq Requests
    /\ result \in [Requests -> Answers]

\* Two requests with the same key are never both between winning the record
\* (CreateProcessing or TryReclaim) and marking it: the business function never
\* runs twice at once, through retries, expiry and the hourly cleanup.
OneOwner ==
    \A r, s \in Requests : pc[r] \in Owning /\ pc[s] \in Owning => r = s

\* The business function takes effect at most once in the life of a record: a
\* second effect under the same key is only by a call that claimed it after the
\* first call's expires_at, also when MarkSucceeded failed or the owner crashed.
OneEffectPerWindow ==
    \A r, s \in effects :
        r # s => \/ claimed[s] >= at[r] + TTL
                 \/ claimed[r] >= at[s] + TTL

\* A call that went on to reclaim a record it had read as succeeded and expired.
ReclaimedSuccess(q) ==
    /\ pc[q] \notin Preparing \cup {"idle"}
    /\ seen[q].status = "succeeded" /\ result[q].kind # "replay"

Excused(r) == \E q \in Requests : ReclaimedSuccess(q) /\ seen[q].id = rid[r]

\* The same but for records that a call reclaims after it read them as succeeded: TryReclaim
\* takes a record that was read as processing or failed only while it still holds no effect.
OneEffectUnlessSeenSucceeded ==
    \A r, s \in effects :
        r # s => \/ claimed[s] >= at[r] + TTL
                 \/ claimed[r] >= at[s] + TTL
                 \/ Excused(r) \/ Excused(s)

\* A replayed answer is the response of a call that did take effect, for the same
\* payload: neither a reclaimed record's old body nor another payload's leaks out.
ReplayFaithful ==
    \A r \in Requests :
        result[r].kind = "replay" =>
            /\ result[r].body \in effects
            /\ Fingerprint[result[r].body] = Fingerprint[r]

\* A record that says "succeeded" says so until it expires: no late mark, retry or
\* reclaim by another call turns it back into work to be done, except the reclaim of a call
\* that had read an earlier success.
SucceededUntilExpiry ==
    [][row.status = "succeeded" =>
          \/ row' = row
          \/ row.expires <= clock
          \/ \E r \in Requests : pc[r] = "reclaim_expired" /\ seen[r].status = "succeeded"
                                /\ pc'[r] \in {"run", "done"}]_vars
=============================================================================
