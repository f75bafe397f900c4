------------------------- MODULE PaymentFulfillment -------------------------
(***************************************************************************)
(* One payment order from PENDING to COMPLETED: notifications, active      *)
(* queries, cancellation, expiry, and fulfillment under a lease, by the    *)
(* threads of Workers (webhook handlers, sweeps, user and admin requests). *)
(* Every step is one SQL statement or transaction or one provider call.    *)
(***************************************************************************)
EXTENDS Naturals, FiniteSets

CONSTANTS
    Workers,     \* threads that may work on the order at once
    OrderTypes,  \* "balance" and "subscription": what the order may be for
    Prompt,      \* environment: labels no worker stays at for a lease duration
    MayFail,     \* environment: labels at which a statement or a provider call may fail
    MaxFaults    \* bound on crashes and failed statements

ASSUME OrderTypesAssumption == OrderTypes \subseteq {"balance", "subscription"}
ASSUME FaultsAssumption == MaxFaults \in Nat

VARIABLES
    orderType,  \* payment_orders.order_type, never changed
    status,     \* payment_orders.status
    aged,       \* updated_at is older than the lease duration (and the grace period)
    current,    \* workers whose lease.version is the order's updated_at
    expired,    \* expires_at has passed
    paidAt,     \* paid_at is set
    code,       \* the order's redeem code: absent, unused or used
    audit,      \* actions in payment_audit_logs, unique per order
    provider,   \* the payment at the provider: open, paid or closed
    pc,         \* where each worker is
    granted,    \* history: how often the user got what the order is for
    rebates,    \* history: how often the inviter got the rebate
    owner,      \* history: the worker that acquired the lease last
    handled,    \* history: a payment notification was answered with success
    unread,     \* history: one was, because the order could not be read
    faults      \* faults so far

orderVars == <<status, aged, current>>
vars == <<orderType, status, aged, current, expired, paidAt, code, audit, provider, pc,
          granted, rebates, owner, handled, unread, faults>>

RefundStatuses == {"REFUND_REQUESTED", "REFUNDING", "REFUND_PENDING", "REFUNDED",
                   "PARTIALLY_REFUNDED", "REFUND_FAILED"}
Unpaid == {"PENDING", "CANCELLED", "EXPIRED"}
InFulfillment == {"PAID", "RECHARGING", "FAILED"}
Statuses == Unpaid \cup InFulfillment \cup {"COMPLETED"} \cup RefundStatuses

AuditActions == {"SUBSCRIPTION_ASSIGNED", "AFFILIATE_REBATE", "PAYMENT_AFTER_EXPIRY",
                 "RECHARGE_SUCCESS", "SUBSCRIPTION_SUCCESS"}

Querying == {"query_cancel", "query_expire", "query_verify"}
Leased == {"lookup", "create", "redeem", "use", "assign", "commit", "rebate",
           "complete", "fail"}
Labels == {"idle", "persist", "confirm", "to_paid", "already", "start", "acquire", "reload",
           "cancel", "expire"} \cup Querying \cup Leased

NoOne == "no one"

-----------------------------------------------------------------------------
Init ==
    /\ orderType \in OrderTypes
    /\ status = "PENDING" /\ aged = FALSE /\ current = {}
    /\ expired = FALSE /\ paidAt = FALSE
    /\ code = "absent" /\ audit = {} /\ provider = "open"
    /\ pc = [w \in Workers |-> "idle"]
    /\ granted = 0 /\ rebates = 0 /\ owner = NoOne /\ handled = FALSE /\ unread = FALSE
    /\ faults = 0

Goto(w, l) == pc' = [pc EXCEPT ![w] = l]

\* Any UPDATE of the order moves updated_at: no lease version matches it any more.
SetStatus(s) == status' = s /\ aged' = FALSE /\ current' = {}

\* The worker's request ends; its lease, if it had one, is forgotten with it.
End(w) == Goto(w, "idle")
EndIdle(w) == End(w) /\ current' = current \ {w} /\ UNCHANGED <<status, aged>>

Fails == faults < MaxFaults /\ faults' = faults + 1
Fault(w) == pc[w] \in MayFail /\ Fails
NoFault == UNCHANGED faults

-----------------------------------------------------------------------------
\* The payer and the clock.

Pay ==
    /\ provider = "open"
    /\ provider' = "paid"
    /\ UNCHANGED <<orderType, orderVars, expired, paidAt, code, audit, pc, granted, rebates, owner,
                   handled, unread, faults>>

TimeOut ==
    /\ ~expired
    /\ expired' = TRUE
    /\ UNCHANGED <<orderType, orderVars, paidAt, code, audit, provider, pc, granted, rebates, owner,
                   handled, unread, faults>>

Age ==
    /\ ~aged
    /\ \A w \in Workers : pc[w] \notin Prompt
    /\ aged' = TRUE
    /\ UNCHANGED <<orderType, status, current, expired, paidAt, code, audit, provider, pc, granted,
                   rebates, owner, handled, unread, faults>>

-----------------------------------------------------------------------------
\* Who starts work on the order.

Starts(w, l) ==
    /\ pc[w] = "idle"
    /\ Goto(w, l)
    /\ UNCHANGED <<orderType, orderVars, expired, paidAt, code, audit, provider, granted, rebates,
                   owner, handled, unread, faults>>

\* A webhook, delivered again until it is answered with success, or later still. A failed
\* lookup by out_trade_no answers it with an error, as if it had not come.
Notify(w) == provider = "paid" /\ Starts(w, "confirm")

CancelOrder(w) == status = "PENDING" /\ Starts(w, "query_cancel")

ExpireTimedOutOrders(w) == status = "PENDING" /\ expired /\ Starts(w, "query_expire")

\* VerifyOrderByOutTradeNo, and ReconcilePendingWxpayOrders with PENDING only.
VerifyOrder(w) == status \in {"PENDING", "EXPIRED"} /\ Starts(w, "query_verify")

RetryFulfillment(w) == paidAt /\ status \in InFulfillment /\ Starts(w, "start")

-----------------------------------------------------------------------------
\* Ask the provider; an unpaid order being cancelled is closed there too, if it can be.
\* A failed query is treated like an unpaid answer.
ReportedPaid_unless_closed == provider # "closed"
ReportedPaid == provider = "paid"

CheckPaid(w) ==
    /\ pc[w] \in Querying
    /\ LET unpaid == CASE pc[w] = "query_cancel" -> "cancel"
                       [] pc[w] = "query_expire" -> "expire"
                       [] OTHER -> "idle"
       IN \/ ReportedPaid /\ Goto(w, "persist") /\ NoFault /\ UNCHANGED provider
          \/ ~ReportedPaid /\ Goto(w, unpaid) /\ NoFault
             /\ \/ UNCHANGED provider
                \/ pc[w] # "query_verify" /\ provider' = "closed"
          \/ Goto(w, unpaid) /\ Fault(w) /\ UNCHANGED provider
    /\ UNCHANGED <<orderType, orderVars, expired, paidAt, code, audit, granted, rebates, owner,
                   handled, unread>>

\* Backfill of the upstream trade number: WHERE id = $1, in whatever status.
PersistTradeNo(w) ==
    /\ pc[w] = "persist"
    /\ Goto(w, "confirm")
    /\ \/ SetStatus(status)
       \/ UNCHANGED orderVars
    /\ UNCHANGED <<orderType, expired, paidAt, code, audit, provider, granted, rebates, owner,
                   handled, unread, faults>>

\* UPDATE ... WHERE status = PENDING
MayCancel_any == status \in Unpaid \cup {"PAID"}
MayCancel == status = "PENDING"

CancelCore(w) ==
    /\ pc[w] \in {"cancel", "expire"}
    /\ End(w)
    /\ \/ /\ NoFault
          /\ IF MayCancel
             THEN SetStatus(IF pc[w] = "cancel" THEN "CANCELLED" ELSE "EXPIRED")
             ELSE UNCHANGED orderVars
       \/ Fault(w) /\ UNCHANGED orderVars
    /\ UNCHANGED <<orderType, expired, paidAt, code, audit, provider, granted, rebates, owner,
                   handled, unread>>

-----------------------------------------------------------------------------
\* confirmPayment reads the order again, by id: when that fails, whatever the error, the
\* notification is answered with success and nothing is done.
ConfirmPayment(w) ==
    /\ pc[w] = "confirm"
    /\ \/ NoFault /\ Goto(w, "to_paid") /\ UNCHANGED unread
       \/ Fault(w) /\ End(w) /\ unread' = TRUE
    /\ UNCHANGED <<orderType, orderVars, expired, paidAt, code, audit, provider, granted, rebates,
                   owner, handled>>

Payable == status \in {"PENDING", "CANCELLED"} \/ (status = "EXPIRED" /\ ~aged)

ToPaid(w) ==
    /\ pc[w] = "to_paid"
    /\ \/ /\ Payable /\ NoFault
          /\ SetStatus("PAID") /\ paidAt' = TRUE
          /\ Goto(w, "start")
       \/ ~Payable /\ NoFault /\ Goto(w, "already") /\ UNCHANGED <<orderVars, paidAt>>
       \/ Fault(w) /\ End(w) /\ UNCHANGED <<orderVars, paidAt>>
    /\ UNCHANGED <<orderType, expired, code, audit, provider, granted, rebates, owner, handled,
                   unread>>

\* The statuses in which a redelivered notification resumes the fulfillment.
Resumable_not_failed == {"PAID", "RECHARGING"}
Resumable == {"FAILED", "PAID", "RECHARGING"}

\* The status is read again; a failed read is answered with success here too.
AlreadyProcessed(w) ==
    /\ pc[w] = "already"
    /\ \/ /\ status \in Resumable /\ NoFault
          /\ Goto(w, "start") /\ UNCHANGED <<audit, handled, unread>>
       \/ /\ status \notin Resumable /\ NoFault
          /\ End(w) /\ handled' = TRUE /\ UNCHANGED unread
          /\ audit' = IF status = "EXPIRED" THEN audit \cup {"PAYMENT_AFTER_EXPIRY"} ELSE audit
       \/ Fault(w) /\ End(w) /\ unread' = TRUE /\ UNCHANGED <<audit, handled>>
    /\ UNCHANGED <<orderType, orderVars, expired, paidAt, code, provider, granted, rebates, owner>>

\* ExecuteBalanceFulfillment and ExecuteSubscriptionFulfillment up to the lease.
ExecuteFulfillment(w) ==
    /\ pc[w] = "start"
    /\ \/ /\ status \in InFulfillment /\ NoFault
          /\ Goto(w, "acquire") /\ UNCHANGED handled
       \/ /\ status \notin InFulfillment /\ NoFault
          /\ End(w) /\ handled' = (handled \/ status = "COMPLETED")
       \/ Fault(w) /\ End(w) /\ UNCHANGED handled
    /\ UNCHANGED <<orderType, orderVars, expired, paidAt, code, audit, provider, granted, rebates,
                   owner,
                   unread>>

MayAcquire_always == status \in InFulfillment
MayAcquire == status \in {"PAID", "FAILED"} \/ (status = "RECHARGING" /\ aged)

AcquireLease(w) ==
    /\ pc[w] = "acquire"
    /\ \/ /\ MayAcquire /\ NoFault
          /\ SetStatus("RECHARGING") /\ owner' = w
          /\ Goto(w, "reload") /\ UNCHANGED handled
       \/ /\ ~MayAcquire /\ NoFault
          /\ End(w) /\ handled' = (handled \/ status = "COMPLETED")
          /\ UNCHANGED <<orderVars, owner>>
       \/ Fault(w) /\ End(w) /\ UNCHANGED <<orderVars, owner, handled>>
    /\ UNCHANGED <<orderType, expired, paidAt, code, audit, provider, granted, rebates, unread>>

\* The lease version is whatever updated_at the order has at the reload.
ReloadLease(w) ==
    /\ pc[w] = "reload"
    /\ \/ /\ status = "RECHARGING" /\ NoFault
          /\ current' = current \cup {w}
          /\ Goto(w, IF orderType = "balance" THEN "lookup" ELSE "assign")
       \/ status # "RECHARGING" /\ NoFault /\ End(w) /\ UNCHANGED current
       \/ Fault(w) /\ End(w) /\ UNCHANGED current
    /\ UNCHANGED <<orderType, status, aged, expired, paidAt, code, audit, provider, granted,
                   rebates,
                   owner, handled, unread>>

-----------------------------------------------------------------------------
\* doBalance

\* resolveRedeemAction: a failed lookup counts as a missing code.
AlreadyRedeemed_exists == code # "absent"
AlreadyRedeemed == code = "used"

LookupCode(w) ==
    /\ pc[w] = "lookup"
    /\ \/ /\ NoFault
          /\ Goto(w, CASE AlreadyRedeemed -> "rebate"
                       [] code = "unused" -> "redeem"
                       [] OTHER -> "create")
       \/ Fault(w) /\ Goto(w, "create")
    /\ UNCHANGED <<orderType, orderVars, expired, paidAt, code, audit, provider, granted, rebates,
                   owner, handled, unread>>

\* The code is unique: a second INSERT fails.
CreateCode(w) ==
    /\ pc[w] = "create"
    /\ \/ code = "absent" /\ code' = "unused" /\ Goto(w, "redeem") /\ NoFault
       \/ code # "absent" /\ Goto(w, "fail") /\ NoFault /\ UNCHANGED code
       \/ Fault(w) /\ Goto(w, "fail") /\ code' \in {code, "unused"} /\ (code = "used" => code' = code)
    /\ UNCHANGED <<orderType, orderVars, expired, paidAt, audit, provider, granted, rebates, owner,
                   handled, unread>>

\* RedeemService.Redeem before its transaction: the Redis lock, which lapses and which
\* a Redis error bypasses, then the status of the code.
RedeemCheck(w) ==
    /\ pc[w] = "redeem"
    /\ \/ code = "unused" /\ Goto(w, "use") /\ NoFault
       \/ code # "unused" /\ Goto(w, "fail") /\ NoFault
       \/ (\E v \in Workers \ {w} : pc[v] = "use") /\ Goto(w, "fail") /\ NoFault
       \/ Fault(w) /\ Goto(w, "fail")
    /\ UNCHANGED <<orderType, orderVars, expired, paidAt, code, audit, provider, granted, rebates,
                   owner, handled, unread>>

\* UPDATE redeem_codes ... WHERE status = 'unused', in one transaction with the credit
Unused_unchecked == TRUE
Unused == code = "unused"

RedeemUse(w) ==
    /\ pc[w] = "use"
    /\ \/ /\ Unused
          /\ code' = "used" /\ granted' = granted + 1
          /\ \/ Goto(w, "rebate") /\ NoFault
             \/ Goto(w, "fail") /\ Fault(w)
       \/ ~Unused /\ Goto(w, "fail") /\ NoFault /\ UNCHANGED <<code, granted>>
       \/ Fault(w) /\ Goto(w, "fail") /\ UNCHANGED <<code, granted>>
    /\ UNCHANGED <<orderType, orderVars, expired, paidAt, audit, provider, rebates, owner, handled,
                   unread>>

-----------------------------------------------------------------------------
\* doSub: ensurePaymentSubscriptionAssigned

Assigned_any_audit == audit # {}
Assigned == audit \cap {"SUBSCRIPTION_ASSIGNED", "SUBSCRIPTION_SUCCESS"} # {}

\* The audit row is looked for first; then the transaction assigns and inserts it.
CheckAssigned(w) ==
    /\ pc[w] = "assign"
    /\ \/ Assigned /\ Goto(w, "rebate") /\ NoFault
       \/ ~Assigned /\ Goto(w, "commit") /\ NoFault
       \/ Fault(w) /\ Goto(w, "fail")
    /\ UNCHANGED <<orderType, orderVars, expired, paidAt, code, audit, provider, granted, rebates,
                   owner, handled, unread>>

\* UNIQUE (order_id, action): a second insert rolls the whole assignment back.
AuditFree_not_unique == TRUE
AuditFree == "SUBSCRIPTION_ASSIGNED" \notin audit

AssignSubscription(w) ==
    /\ pc[w] = "commit"
    /\ \/ /\ AuditFree
          /\ audit' = audit \cup {"SUBSCRIPTION_ASSIGNED"} /\ granted' = granted + 1
          /\ \/ Goto(w, "rebate") /\ NoFault
             \/ Goto(w, "fail") /\ Fault(w)
       \/ ~AuditFree /\ Goto(w, "rebate") /\ NoFault /\ UNCHANGED <<audit, granted>>
       \/ Fault(w) /\ Goto(w, "fail") /\ UNCHANGED <<audit, granted>>
    /\ UNCHANGED <<orderType, orderVars, expired, paidAt, code, provider, rebates, owner, handled,
                   unread>>

-----------------------------------------------------------------------------
\* INSERT ... ON CONFLICT (order_id, action) DO NOTHING, in one transaction with the accrual
RebateFree_always == TRUE
RebateFree == "AFFILIATE_REBATE" \notin audit

ApplyRebate(w) ==
    /\ pc[w] = "rebate"
    /\ \/ /\ RebateFree
          /\ audit' = audit \cup {"AFFILIATE_REBATE"} /\ rebates' = rebates + 1
          /\ \/ Goto(w, "complete") /\ NoFault
             \/ Goto(w, "fail") /\ Fault(w)
       \/ ~RebateFree /\ Goto(w, "complete") /\ NoFault /\ UNCHANGED <<audit, rebates>>
       \/ Fault(w) /\ Goto(w, "fail") /\ UNCHANGED <<audit, rebates>>
    /\ UNCHANGED <<orderType, orderVars, expired, paidAt, code, provider, granted, owner, handled,
                   unread>>

\* WHERE status = RECHARGING AND updated_at = lease.version
HoldsLease_status_only(w) == status = "RECHARGING"
HoldsLease(w) == status = "RECHARGING" /\ w \in current

SuccessAudit_by_type == IF orderType = "balance" THEN "BALANCE_SUCCESS" ELSE "SUCCESS"
SuccessAudit == IF orderType = "balance" THEN "RECHARGE_SUCCESS" ELSE "SUBSCRIPTION_SUCCESS"

MarkCompleted(w) ==
    /\ pc[w] = "complete"
    /\ \/ /\ HoldsLease(w) /\ NoFault
          /\ SetStatus("COMPLETED") /\ audit' = audit \cup {SuccessAudit}
          /\ End(w) /\ handled' = TRUE
       \/ /\ ~HoldsLease(w) /\ NoFault
          /\ IF status = "COMPLETED"
             THEN EndIdle(w) /\ handled' = TRUE
             ELSE Goto(w, "fail") /\ UNCHANGED <<orderVars, handled>>
          /\ UNCHANGED audit
       \/ HoldsLease(w) /\ Fault(w) /\ SetStatus("COMPLETED") /\ Goto(w, "fail")
          /\ UNCHANGED <<audit, handled>>
       \/ Fault(w) /\ Goto(w, "fail") /\ UNCHANGED <<orderVars, audit, handled>>
    /\ UNCHANGED <<orderType, expired, paidAt, code, provider, granted, rebates, owner, unread>>

MarkFailed(w) ==
    /\ pc[w] = "fail"
    /\ \/ /\ HoldsLease(w) /\ NoFault
          /\ SetStatus("FAILED") /\ End(w)
       \/ ~HoldsLease(w) /\ NoFault /\ EndIdle(w)
       \/ Fault(w) /\ EndIdle(w)
    /\ UNCHANGED <<orderType, expired, paidAt, code, audit, provider, granted, rebates, owner,
                   handled, unread>>

\* The process dies, or the request's context ends, between two steps.
Crash(w) ==
    /\ pc[w] # "idle" /\ Fails
    /\ EndIdle(w)
    /\ UNCHANGED <<orderType, expired, paidAt, code, audit, provider, granted, rebates, owner,
                   handled, unread>>

-----------------------------------------------------------------------------
Work(w) ==
    \/ CheckPaid(w) \/ PersistTradeNo(w) \/ CancelCore(w)
    \/ ConfirmPayment(w) \/ ToPaid(w) \/ AlreadyProcessed(w) \/ ExecuteFulfillment(w)
    \/ AcquireLease(w) \/ ReloadLease(w)
    \/ LookupCode(w) \/ CreateCode(w) \/ RedeemCheck(w) \/ RedeemUse(w)
    \/ CheckAssigned(w) \/ AssignSubscription(w)
    \/ ApplyRebate(w) \/ MarkCompleted(w) \/ MarkFailed(w)

Starting(w) ==
    \/ Notify(w) \/ CancelOrder(w) \/ ExpireTimedOutOrders(w) \/ VerifyOrder(w)
    \/ RetryFulfillment(w)

Next ==
    \/ Pay \/ TimeOut \/ Age
    \/ \E w \in Workers : Starting(w) \/ Work(w) \/ Crash(w)

Spec == Init /\ [][Next]_vars

-----------------------------------------------------------------------------
\* Every variable holds a value of its kind.
TypeOK ==
    /\ orderType \in OrderTypes
    /\ status \in Statuses /\ aged \in BOOLEAN /\ current \subseteq Workers
    /\ expired \in BOOLEAN /\ paidAt \in BOOLEAN
    /\ code \in {"absent", "unused", "used"}
    /\ audit \subseteq AuditActions
    /\ provider \in {"open", "paid", "closed"}
    /\ pc \in [Workers -> Labels]
    /\ granted \in Nat /\ rebates \in Nat
    /\ owner \in Workers \cup {NoOne}
    /\ handled \in BOOLEAN /\ unread \in BOOLEAN /\ faults \in Nat

\* However many notifications, retries, stale workers and crashes there are, the user
\* gets what the order is for at most once, and the inviter one rebate.
GrantedOnce == granted <= 1 /\ rebates <= 1

\* The user gets nothing the provider did not report as paid.
GrantedMeansPaid == granted > 0 => paidAt /\ provider = "paid"

\* An order is COMPLETED (and so refundable) only when the grant and the rebate are
\* both durable, whichever worker did them.
CompletedMeansGranted ==
    status \in {"COMPLETED"} \cup RefundStatuses => granted >= 1 /\ rebates >= 1

\* A notification answered with success after a look at the order, which the provider will
\* not repeat, left an order that was granted, or an audit row that a payment came after the
\* expiry. (The answers given because the order could not be read are in unread.)
HandledMeansSettled ==
    handled => status \in {"COMPLETED"} \cup RefundStatuses \/ "PAYMENT_AFTER_EXPIRY" \in audit

\* A lease version only matches for the worker that acquired the lease last: a worker
\* taken over can neither complete nor fail the order of its successor.
LeaseIsOwners == \A w \in current : owner = w

\* What the customer sees of the order.
Stage == IF status \in Unpaid THEN "unpaid"
         ELSE IF status \in InFulfillment THEN "paid" ELSE "completed"

Promise == INSTANCE OrderPromise WITH
               money <- provider = "paid", stage <- Stage, grants <- granted

\* All threads together keep the promise to the customer, whatever interleaves, fails or is
\* taken over: no cancellation, expiry or late notification undoes a payment, nothing is
\* granted before it or twice, and a completed order never goes back into fulfillment.
KeepsPromise == Promise!Spec

-----------------------------------------------------------------------------
\* The provider repeats a notification until it is answered with success; a request that
\* runs goes on; time passes.
Fairness ==
    /\ WF_vars(Age)
    /\ \A w \in Workers : WF_vars(Work(w))
    /\ SF_vars(~handled /\ ~unread /\ \E w \in Workers : Notify(w))

FairSpec == Spec /\ Fairness

\* A paid order whose notification is still unanswered ends in a grant, through crashes,
\* failed statements, lost leases and takeovers; unless the notification is answered with
\* success because the order could not be read, and so is not repeated.
PaidIsGranted ==
    status \in InFulfillment /\ ~handled
        ~> status \in {"COMPLETED"} \cup RefundStatuses \/ unread
=============================================================================
