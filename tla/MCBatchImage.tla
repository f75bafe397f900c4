---------------------------- MODULE MCBatchImage ----------------------------
(***************************************************************************)
(* Instances of BatchImage for TLC.                                        *)
(***************************************************************************)
EXTENDS BatchImage, TLC

CONSTANTS c1, c2, w1, w2, sweep

\* The reservation and, thanks to its heartbeat, the upload do not become stale.
PromptSubmit == {"reserve", "upstream"}

\* The owner does not cancel a job before its hold is reserved.
UnseenJob == {"reserve"}
AlwaysSeen == {}

\* Failures nothing is there to make up for are left out: no retry is enqueued.
FailElsewhere == Labels \ {"enqueue", "retry"}

\* Workers that stall beside other failures: indexing fails by the provider's output only.
FailButIndexing == FailElsewhere \ {"index"}

\* So are lost replies that leave a hold to nobody.
LoseElsewhere == Labels \ {"enqueue", "retry", "reserve", "submitted", "sweep", "cancel_mark"}

\* And deaths between a committed step and the one that must follow it.
CrashElsewhere == Labels \ {"idle", "enqueue", "retry", "sweep_release", "cancel_release"}

StallNowhere == {}

\* The heartbeats of a worker stop during its reads, provider calls and ledger calls.
StallAtCalls == {"process", "poll", "poll_running", "index", "capture", "mark"}

\* The instances are environments the theorems are about.
ASSUME EnvironmentsClaimed ==
    Unseen = UnseenJob => NothingDropped /\ NoStrayFailure /\ MaxFaults < MaxRetries

Symmetry == Permutations(Workers)
=============================================================================
