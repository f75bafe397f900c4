---------------------------- MODULE PaymentRefund ----------------------------
(***************************************************************************)
(* The refund of one completed balance order: the user's request, the      *)
(* admin's refund (deduct, ask the gateway, roll back or mark), and the    *)
(* later query of a refund the gateway left pending, by the request        *)
(* threads of Workers.  Every step is one SQL statement or gateway call.   *)
(***************************************************************************)
EXTENDS Integers, FiniteSetsExt

CONSTANTS
    Workers,      \* admin requests that may run at once
    Amount,       \* the order's amount
    Environments, \* what a behaviour may run in
    MaxTries,     \* bound on the refunds a gateway makes of one amount
    MaxFaults     \* bound on crashes and failed statements

ASSUME AmountAssumption == Amount \in Nat \ {0}
ASSUME TriesAssumption == MaxTries \in Nat \ {0}
ASSUME FaultsAssumption == MaxFaults \in Nat

VARIABLES
    status,       \* payment_orders.status
    refundAmount, \* payment_orders.refund_amount
    balance,      \* the user's balance
    audit,        \* REFUND_ROLLBACK_FAILED and REFUND_SUCCESS rows of the order
    pending,      \* detail of the REFUND_PENDING audit row, or NoDetail
    gateway,      \* the gateway's refunds of the order, by amount and number
    pc, plan,     \* where each worker is, and its RefundPlan
    deducted,     \* history: what refunds took from the user, less what they gave back
    faults,       \* faults so far
    env           \* the environment, never changed

vars == <<status, refundAmount, balance, audit, pending, gateway, pc, plan, deducted,
          faults, env>>
orderVars == <<status, refundAmount, audit, pending>>
moneyVars == <<balance, deducted>>

Statuses == {"COMPLETED", "REFUND_REQUESTED", "REFUNDING", "REFUND_PENDING",
             "REFUND_FAILED", "REFUNDED", "PARTIALLY_REFUNDED"}
Refunded == {"REFUNDED", "PARTIALLY_REFUNDED"}

Labels == {"idle", "lock", "check", "deduct", "restore", "gateway", "ok", "undo_pending",
           "log_pending", "pending", "undo_failed", "log_failed", "failed", "log_ok",
           "log_refund_pending", "detail", "query", "final_check", "final_deduct", "final_failed"}

\* A refund at the gateway: its amount, and which of that amount it is.
Refunds == (1..Amount) \X (1..MaxTries)
NoRefund == <<0, 0>>

\* traded: the order has the gateway's number of its payment; keyed: the request names the
\* refund by order and amount (WeChat Pay, Airwallex), so that a repeated one is the same,
\* instead of by a number of its own or none (Alipay, Stripe, EasyPay);
\* asynchronous: the gateway may leave a refund pending; workers, amounts: the admins that
\* work on the order and the amounts they ask for; mayFail, mayCrash: labels at which a
\* statement or a reply may be lost, and at which the process may die.
EnvironmentsAssumed ==
    Environments \subseteq [traded : BOOLEAN, keyed : BOOLEAN, asynchronous : BOOLEAN,
                           workers : SUBSET Workers, amounts : SUBSET (1..Amount),
                           mayFail : SUBSET Labels, mayCrash : SUBSET Labels]
ASSUME EnvironmentsAssumption == EnvironmentsAssumed

NoDetail == [refund |-> NoRefund, rolledBack |-> TRUE]
NoPlan == [amount |-> 0, deduct |-> 0, restore |-> "COMPLETED", rolledBack |-> TRUE,
           refund |-> NoRefund]
Plans == [amount : 0..Amount, deduct : Int, restore : {"COMPLETED", "REFUND_REQUESTED"},
          rolledBack : BOOLEAN, refund : Refunds \cup {NoRefund}]

-----------------------------------------------------------------------------
\* The order is completed and its amount credited.
Init ==
    /\ status = "COMPLETED" /\ refundAmount = 0 /\ balance = Amount
    /\ audit = {} /\ pending = NoDetail
    /\ gateway = [r \in Refunds |-> "none"]
    /\ pc = [w \in Workers |-> "idle"] /\ plan = [w \in Workers |-> NoPlan]
    /\ deducted = 0 /\ faults = 0 /\ env \in Environments

Plan(w, p, l) ==
    pc' = [pc EXCEPT ![w] = l] /\ plan' = [plan EXCEPT ![w] = p] /\ UNCHANGED env
Goto(w, l) == Plan(w, plan[w], l)
End(w) == Plan(w, NoPlan, "idle")

Fault(w) == pc[w] \in env.mayFail /\ faults < MaxFaults /\ faults' = faults + 1
NoFault == UNCHANGED faults

Deduct(w) ==
    /\ balance' = balance - plan[w].deduct
    /\ deducted' = deducted + plan[w].deduct

-----------------------------------------------------------------------------
\* Requests to the upstream models use up the balance.
Spend ==
    /\ balance > 0
    /\ balance' = balance - 1
    /\ UNCHANGED <<orderVars, gateway, pc, plan, deducted, faults, env>>

RequestRefund ==
    /\ status = "COMPLETED" /\ balance >= Amount
    /\ status' = "REFUND_REQUESTED" /\ refundAmount' = Amount
    /\ UNCHANGED <<moneyVars, audit, pending, gateway, pc, plan, faults, env>>

-----------------------------------------------------------------------------
Refundable == status \in {"COMPLETED", "REFUND_REQUESTED", "REFUND_PENDING", "REFUND_FAILED"}

\* prepDeduct: what is deducted is bounded by the balance read here.
Deduction(wanted, a) == IF wanted THEN Min({a, balance}) ELSE 0

PrepareRefund(w) ==
    /\ w \in env.workers /\ pc[w] = "idle" /\ Refundable
    /\ \E a \in env.amounts, wanted \in BOOLEAN :
         /\ Plan(w, [NoPlan EXCEPT !.amount = a, !.deduct = Deduction(wanted, a),
                         !.restore = IF status = "REFUND_REQUESTED" THEN status ELSE "COMPLETED"],
                 "lock")
    /\ UNCHANGED <<orderVars, moneyVars, gateway, faults>>

\* UPDATE ... SET status = REFUNDING WHERE status is still refundable
LockRefund(w) ==
    /\ pc[w] = "lock"
    /\ \/ /\ Refundable /\ NoFault
          /\ status' = "REFUNDING"
          /\ Goto(w, IF plan[w].deduct > 0 THEN "check" ELSE "gateway")
       \/ ~Refundable /\ NoFault /\ End(w) /\ UNCHANGED status
       \/ Fault(w) /\ End(w) /\ UNCHANGED status
    /\ UNCHANGED <<refundAmount, audit, pending, moneyVars, gateway>>

\* A retry after a failed rollback does not deduct again; hasAuditLog reads an error as no.
AlreadyDeducted_ignored == FALSE
AlreadyDeducted == "REFUND_ROLLBACK_FAILED" \in audit

CheckDeducted(w) ==
    /\ pc[w] = "check"
    /\ \/ AlreadyDeducted /\ NoFault /\ Plan(w, [plan[w] EXCEPT !.deduct = 0], "gateway")
       \/ ~AlreadyDeducted /\ NoFault /\ Goto(w, "deduct")
       \/ Fault(w) /\ Goto(w, "deduct")
    /\ UNCHANGED <<orderVars, moneyVars, gateway>>

DeductBalance(w) ==
    /\ pc[w] = "deduct"
    /\ \/ Deduct(w) /\ Goto(w, "gateway") /\ NoFault
       \/ Fault(w) /\ Goto(w, "restore") /\ UNCHANGED moneyVars
    /\ UNCHANGED <<orderVars, gateway>>

\* restoreStatus: in whatever status the order is; an error is ignored.
RestoreStatus(w) ==
    /\ pc[w] = "restore" /\ End(w)
    /\ \/ status' = plan[w].restore /\ NoFault
       \/ Fault(w) /\ UNCHANGED status
    /\ UNCHANGED <<refundAmount, audit, pending, moneyVars, gateway>>

-----------------------------------------------------------------------------
Accepted == {r \in Refunds : gateway[r] \in {"processing", "done"}}
PaidBack == {r \in Refunds : gateway[r] = "done"}

\* The gateway refunds no more than was paid: no two refunds together do.
Room(a) == \A r \in Accepted : r[1] + a <= Amount

\* What a request for an amount is taken for: the refund the gateway has under the same name,
\* or a new one.
Repeated(a) == env.keyed /\ <<a, 1>> \in Accepted
Requested(a) ==
    IF Repeated(a) THEN {<<a, 1>>}
    ELSE {r \in Refunds \ Accepted :
            /\ Room(a) /\ r[1] = a
            /\ IF env.keyed THEN r[2] = 1 ELSE gateway[r] = "none"}

RefundReplies(r) ==
    IF r \in Accepted THEN {gateway[r]}
    ELSE IF env.asynchronous THEN {"done", "processing"} ELSE {"done"}

\* validateRefundProviderResponse and finishRefund
Succeeded_unknown(reply) == FALSE
Succeeded(reply) == reply = "done"

\* gwRefund without a trade number: success, and the gateway is not called.
GatewaySkipped(w) ==
    /\ pc[w] = "gateway" /\ ~env.traded
    /\ Goto(w, "ok") /\ NoFault
    /\ UNCHANGED <<orderVars, moneyVars, gateway>>

\* gwRefund and finishRefund; a lost reply is handled like a refusal.
GatewayRefund(w) ==
    /\ pc[w] = "gateway" /\ env.traded
    /\ \E r \in Requested(plan[w].amount) : \E reply \in RefundReplies(r) :
         /\ gateway' = [gateway EXCEPT ![r] = reply]
         /\ \/ /\ NoFault
               /\ Plan(w, [plan[w] EXCEPT !.refund = r],
                       CASE Succeeded(reply) -> "ok"
                         [] reply = "processing" -> "undo_pending"
                         [] OTHER -> "undo_failed")
            \/ Fault(w) /\ Goto(w, "undo_failed")
    /\ UNCHANGED <<orderVars, moneyVars>>

GatewayRefuses(w) ==
    /\ pc[w] = "gateway" /\ env.traded /\ ~Repeated(plan[w].amount)
    /\ Goto(w, "undo_failed") /\ NoFault
    /\ UNCHANGED <<orderVars, moneyVars, gateway>>

\* The gateway ends a refund it had left pending.
GatewaySettles ==
    \E r \in Refunds, result \in {"done", "failed"} :
        /\ gateway[r] = "processing"
        /\ gateway' = [gateway EXCEPT ![r] = result]
        /\ UNCHANGED <<orderVars, moneyVars, pc, plan, faults, env>>

FinalStatus_misspelt(w) == IF plan[w].amount < Amount THEN "PARTIAL_REFUND" ELSE "REFUND"
FinalStatus(w) == IF plan[w].amount < Amount THEN "PARTIALLY_REFUNDED" ELSE "REFUNDED"

FinalAmount_of_order(w) == Amount
FinalAmount(w) == plan[w].amount

MarkRefundOk(w) ==
    /\ pc[w] = "ok"
    /\ \/ /\ NoFault /\ Goto(w, "log_ok")
          /\ status' = FinalStatus(w) /\ refundAmount' = FinalAmount(w)
       \/ Fault(w) /\ End(w) /\ UNCHANGED <<status, refundAmount>>
    /\ UNCHANGED <<audit, pending, moneyVars, gateway>>

LogRefundOk(w) ==
    /\ pc[w] = "log_ok" /\ End(w)
    /\ \/ audit' = audit \cup {"REFUND_SUCCESS"} /\ NoFault
       \/ Fault(w) /\ UNCHANGED audit
    /\ UNCHANGED <<status, refundAmount, pending, moneyVars, gateway>>

-----------------------------------------------------------------------------
\* RollbackRefund gives the deduction back, before the order is marked.
GiveBack_forgotten(w) == 0
GiveBack(w) == Max({plan[w].deduct, 0})

RollbackRefund(w) ==
    /\ pc[w] \in {"undo_pending", "undo_failed"}
    /\ LET during(onPending, onFailed) == IF pc[w] = "undo_pending" THEN onPending ELSE onFailed
       IN \/ /\ NoFault
             /\ balance' = balance + GiveBack(w) /\ deducted' = deducted - GiveBack(w)
             /\ Plan(w, [plan[w] EXCEPT !.deduct = 0], during("pending", "restore"))
          \/ /\ Fault(w) /\ plan[w].deduct > 0
             /\ Plan(w, [plan[w] EXCEPT !.rolledBack = FALSE],
                     during("log_pending", "log_failed"))
             /\ UNCHANGED moneyVars
    /\ UNCHANGED <<orderVars, gateway>>

\* writeAuditLog ignores its own failure.
LogRollbackFailed(w) ==
    /\ pc[w] \in {"log_pending", "log_failed"}
    /\ Goto(w, IF pc[w] = "log_pending" THEN "pending" ELSE "failed")
    /\ \/ audit' = audit \cup {"REFUND_ROLLBACK_FAILED"} /\ NoFault
       \/ Fault(w) /\ UNCHANGED audit
    /\ UNCHANGED <<status, refundAmount, pending, moneyVars, gateway>>

MarkRefundPending(w) ==
    /\ pc[w] = "pending"
    /\ \/ /\ NoFault /\ Goto(w, "log_refund_pending")
          /\ status' = "REFUND_PENDING" /\ refundAmount' = plan[w].amount
       \/ Fault(w) /\ End(w) /\ UNCHANGED <<status, refundAmount>>
    /\ UNCHANGED <<audit, pending, moneyVars, gateway>>

\* UNIQUE (order_id, action): only the first REFUND_PENDING row is kept.
LogRefundPending(w) ==
    /\ pc[w] = "log_refund_pending" /\ End(w)
    /\ \/ /\ NoFault
          /\ pending' = IF pending = NoDetail
                        THEN [refund |-> plan[w].refund, rolledBack |-> plan[w].rolledBack]
                        ELSE pending
       \/ Fault(w) /\ UNCHANGED pending
    /\ UNCHANGED <<status, refundAmount, audit, moneyVars, gateway>>

\* handleGwFail after a failed rollback, and finalizeRefundFailed
MarkRefundFailed(w) ==
    /\ pc[w] \in {"failed", "final_failed"} /\ End(w)
    /\ \/ status' = "REFUND_FAILED" /\ NoFault
       \/ Fault(w) /\ UNCHANGED status
    /\ UNCHANGED <<refundAmount, audit, pending, moneyVars, gateway>>

-----------------------------------------------------------------------------
\* QueryAndFinalizeRefund: the order is read, then the pending row, then the gateway is
\* asked for that row's refund.
QueryRefund(w) ==
    /\ w \in env.workers /\ pc[w] = "idle" /\ status = "REFUND_PENDING"
    /\ Plan(w, [NoPlan EXCEPT !.amount = refundAmount], "detail")
    /\ UNCHANGED <<orderVars, moneyVars, gateway, faults>>

\* What was rolled back is deducted now, from a balance order always and in full.
FinalDeduction(w, detail) == IF detail.rolledBack THEN plan[w].amount ELSE 0

\* latestRefundPendingDetail: a failed read is a row without a refund id.
ReadDetail(w) ==
    /\ pc[w] = "detail"
    /\ \E detail \in {pending, NoDetail} :
         /\ \/ detail = pending /\ NoFault
            \/ detail = NoDetail /\ Fault(w)
         /\ Plan(w, [plan[w] EXCEPT !.refund = detail.refund, !.deduct = FinalDeduction(w, detail)],
                 "query")
    /\ UNCHANGED <<orderVars, moneyVars, gateway>>

\* Without an id WeChat Pay is asked by order and amount, Stripe for the last refund of the
\* payment, Airwallex not at all.
LookedUp(w) ==
    {r \in Refunds :
       IF plan[w].refund # NoRefund THEN r = plan[w].refund
       ELSE IF env.keyed THEN r = <<plan[w].amount, 1>> ELSE gateway[r] # "none"}

GatewayAnswers(w) ==
    /\ pc[w] = "query"
    /\ \/ (\E r \in LookedUp(w) : gateway[r] = "done") /\ Goto(w, "final_check") /\ NoFault
       \/ (\E r \in LookedUp(w) : gateway[r] = "failed") /\ Goto(w, "final_failed") /\ NoFault
       \/ /\ \/ plan[w].refund = NoRefund
             \/ \E r \in LookedUp(w) : gateway[r] \in {"processing", "none"}
          /\ End(w) /\ NoFault
       \/ Fault(w) /\ End(w)
    /\ UNCHANGED <<orderVars, moneyVars, gateway>>

\* applyRefundFinalDeduction
CheckFinalized(w) ==
    /\ pc[w] = "final_check"
    /\ \/ "REFUND_SUCCESS" \in audit /\ NoFault /\ Plan(w, [plan[w] EXCEPT !.deduct = 0], "ok")
       \/ "REFUND_SUCCESS" \notin audit /\ NoFault /\ Goto(w, "final_deduct")
       \/ Fault(w) /\ Goto(w, "final_deduct")
    /\ UNCHANGED <<orderVars, moneyVars, gateway>>

FinalDeduct(w) ==
    /\ pc[w] = "final_deduct"
    /\ \/ Deduct(w) /\ Goto(w, "ok") /\ NoFault
       \/ Fault(w) /\ End(w) /\ UNCHANGED moneyVars
    /\ UNCHANGED <<orderVars, gateway>>

Crash(w) ==
    /\ pc[w] \in env.mayCrash \ {"idle"}
    /\ faults < MaxFaults /\ faults' = faults + 1
    /\ End(w)
    /\ UNCHANGED <<orderVars, moneyVars, gateway>>

-----------------------------------------------------------------------------
ExecuteRefund(w) ==
    \/ LockRefund(w) \/ CheckDeducted(w) \/ DeductBalance(w)
    \/ GatewaySkipped(w) \/ GatewayRefund(w) \/ GatewayRefuses(w)
    \/ MarkRefundOk(w) \/ LogRefundOk(w) \/ RollbackRefund(w) \/ LogRollbackFailed(w)
    \/ MarkRefundPending(w) \/ LogRefundPending(w) \/ MarkRefundFailed(w) \/ RestoreStatus(w)

FinalizeRefund(w) == ReadDetail(w) \/ GatewayAnswers(w) \/ CheckFinalized(w) \/ FinalDeduct(w)

Next ==
    \/ Spend \/ RequestRefund \/ GatewaySettles
    \/ \E w \in Workers :
         PrepareRefund(w) \/ QueryRefund(w) \/ ExecuteRefund(w) \/ FinalizeRefund(w) \/ Crash(w)

Spec == Init /\ [][Next]_vars

-----------------------------------------------------------------------------
\* Every variable holds a value of its kind.
TypeOK ==
    /\ status \in Statuses /\ refundAmount \in 0..Amount
    /\ balance \in Int /\ deducted \in Int
    /\ audit \subseteq {"REFUND_ROLLBACK_FAILED", "REFUND_SUCCESS"}
    /\ pending \in [refund : Refunds \cup {NoRefund}, rolledBack : BOOLEAN]
    /\ gateway \in [Refunds -> {"none", "processing", "done", "failed"}]
    /\ pc \in [Workers -> Labels] /\ plan \in [Workers -> Plans]
    /\ faults \in Nat /\ env \in Environments

\* What the properties are claimed for. The gateway answers at once and is heard, and the
\* audit row of a failed rollback is written and read.
AnswersAtOnce(e) ==
    ~e.asynchronous /\ e.mayFail \cap {"check", "gateway", "log_failed"} = {}

\* Or one admin asks for one amount, of which the gateway has one refund at a time, the
\* rollback goes through, and nothing comes between the final deduction and the mark.
OneAdmin(e) ==
    /\ \A v, w \in e.workers : v = w
    /\ \A a, b \in e.amounts : a = b
    /\ e.keyed \/ e.amounts \subseteq {Amount}
    /\ e.mayFail \cap {"undo_pending", "undo_failed", "ok"} = {} /\ "ok" \notin e.mayCrash

\* However often the admin tries again, through refusals, failed rollbacks and pending
\* refunds, the user never loses more than the order had credited.
NeverDeductedTwice == deducted <= Amount

\* An order shown as refunded was paid back by the gateway by the amount it shows, and by
\* one refund alone, through attempts for different amounts. Only if the order has no trade
\* number did the gateway pay nothing at all: the order is shown as refunded all the same.
RefundedMeansPaidBack ==
    status \in Refunded =>
        IF env.traded THEN \E n \in 1..MaxTries : PaidBack = {<<refundAmount, n>>}
        ELSE PaidBack = {}

\* An order given back to COMPLETED or REFUND_REQUESTED has its deduction undone, unless
\* the failed rollback is on record for the next attempt.
RestoredMeansReturned ==
    status \in {"COMPLETED", "REFUND_REQUESTED"} /\ deducted > 0
    => "REFUND_ROLLBACK_FAILED" \in audit

\* At a gateway that answers at once, no money is on its way back for an order that is
\* offered as not refunded.
RestoredMeansNotRefunded ==
    ~env.asynchronous /\ status \in {"COMPLETED", "REFUND_REQUESTED"} => Accepted = {}

\* The amount the order is shown as refunded by, 0 while it is not.
Shown == IF status \in Refunded THEN refundAmount ELSE 0

\* The threads of all admins keep the promise about the refund of an order, through attempts
\* for different amounts, failed rollbacks, pending refunds and crashes: no second deduction
\* while a first one stands, no second refund, and nothing moves once the order is refunded.
Promise == INSTANCE RefundPromise WITH
               shown <- Shown, taken <- deducted, paid <- PaidBack, known <- env.traded
KeepsPromise == Promise!Spec
=============================================================================
