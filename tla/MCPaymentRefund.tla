--------------------------- MODULE MCPaymentRefund ---------------------------
(***************************************************************************)
(* Instances of PaymentRefund for TLC.                                     *)
(***************************************************************************)
EXTENDS PaymentRefund

CONSTANTS w1, w2, w3

\* What a synchronous gateway that knows no repeated request, a database that fails and a
\* process that dies can do to refunds; hasAuditLog and the audit row of a failed rollback go
\* through.
Synchronous ==
    [traded |-> TRUE, keyed |-> FALSE, asynchronous |-> FALSE,
     workers |-> {w1, w2, w3}, amounts |-> {1, Amount},
     mayFail |-> {"lock", "deduct", "restore", "ok", "log_ok", "undo_failed", "failed"},
     mayCrash |-> Labels]

\* The same for two admins and an order without a trade number.
Untraded == [Synchronous EXCEPT !.traded = FALSE, !.workers = {w1, w2}]

\* A gateway that leaves refunds pending and knows them by order and amount, with one admin
\* and one amount: the rollback and the mark after the final deduction go through.
Asynchronous ==
    [traded |-> TRUE, keyed |-> TRUE, asynchronous |-> TRUE, workers |-> {w1}, amounts |-> {1},
     mayFail |-> Labels \ {"undo_pending", "undo_failed", "ok"},
     mayCrash |-> Labels \ {"ok"}]

\* The same where each request is a refund of its own, for the whole order.
AsynchronousFresh == [Asynchronous EXCEPT !.keyed = FALSE, !.amounts = {Amount}]

AllEnvironments == {Synchronous, Untraded, Asynchronous, AsynchronousFresh}

ASSUME EnvironmentsClaimed ==
    \A e \in AllEnvironments : AnswersAtOnce(e) \/ OneAdmin(e)

\* A gateway's refund is refused after the deduction, and the rollback fails.
RollbackFails ==
    {[Asynchronous EXCEPT !.amounts = {2}, !.mayFail = {"undo_failed"}, !.mayCrash = {}]}
=============================================================================
