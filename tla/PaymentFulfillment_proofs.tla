---------------------- MODULE PaymentFulfillment_proofs ----------------------
(***************************************************************************)
(* The safety of PaymentFulfillment for any workers, faults and failing    *)
(* statements.  The inductive invariant ties the histories of grants and   *)
(* rebates to the rows that guard them, and every place a worker can be at *)
(* to what must have happened before.                                      *)
(***************************************************************************)
EXTENDS PaymentFulfillment, TLAPS

Reached == Unpaid \cup InFulfillment \cup {"COMPLETED"}

\* A grant and a rebate each leave a row, and nothing else makes that row.
Ledger ==
    /\ granted = IF code = "used" \/ "SUBSCRIPTION_ASSIGNED" \in audit THEN 1 ELSE 0
    /\ orderType = "balance" => "SUBSCRIPTION_ASSIGNED" \notin audit
    /\ orderType = "subscription" => code # "used"
    /\ rebates = IF "AFFILIATE_REBATE" \in audit THEN 1 ELSE 0

\* Each kind of order has a path of its own, and no step is reached without the ones before.
Paths ==
    \A w \in Workers :
        /\ pc[w] \in {"lookup", "create", "redeem", "use"} => orderType = "balance"
        /\ pc[w] \in {"assign", "commit"} => orderType = "subscription"
        /\ pc[w] \in {"rebate", "complete"} => granted = 1
        /\ pc[w] = "complete" => rebates = 1

\* What an order that was completed has seen.
Completed ==
    /\ status \in Reached
    /\ status = "COMPLETED" => granted = 1 /\ rebates = 1
    /\ "SUBSCRIPTION_SUCCESS" \in audit => granted = 1

\* Nobody fulfills an order the provider has not reported as paid.
Payment ==
    /\ paidAt => provider = "paid"
    /\ status \notin Unpaid => paidAt
    /\ granted > 0 => paidAt
    /\ \A w \in Workers :
          /\ pc[w] \in {"persist", "confirm", "to_paid"} => provider = "paid"
          /\ pc[w] \in Leased => paidAt

\* A worker that has acquired the lease and not read it back yet is its owner.
Reloading ==
    \A w \in Workers : pc[w] = "reload" =>
        owner = w /\ status = "RECHARGING" /\ ~aged /\ current = {}

\* paid_at is only set together with the status.
PaidAtIsPaid == paidAt => status \notin Unpaid

\* A notification is found "already processed" only after the order was paid or expired.
Already == \A w \in Workers : pc[w] = "already" => status \notin {"PENDING", "CANCELLED"}

Inv == TypeOK /\ Ledger /\ Paths /\ Completed /\ Payment

-----------------------------------------------------------------------------
LEMMA InvInit == Init => Inv
<1> SUFFICES ASSUME Init PROVE Inv
  OBVIOUS
<1>1. /\ orderType \in OrderTypes /\ status = "PENDING" /\ current = {} /\ audit = {}
      /\ code = "absent" /\ provider = "open" /\ pc = [w \in Workers |-> "idle"]
      /\ granted = 0 /\ rebates = 0 /\ owner = NoOne /\ faults = 0
  BY DEF Init
<1>2. /\ aged \in BOOLEAN /\ expired \in BOOLEAN /\ paidAt \in BOOLEAN /\ handled \in BOOLEAN
      /\ unread \in BOOLEAN /\ ~paidAt
  BY DEF Init
<1>3. TypeOK
  BY <1>1, <1>2 DEF TypeOK, Statuses, Unpaid, Labels
<1>4. Ledger /\ Paths /\ Completed
  BY <1>1 DEF Ledger, Paths, Completed, Reached, Unpaid
<1>5. Payment
  BY <1>1, <1>2 DEF Payment, Unpaid, Leased
<1> QED
  BY <1>3, <1>4, <1>5 DEF Inv

-----------------------------------------------------------------------------
\* The Boolean variables apart from the others.
Booleans ==
    /\ aged \in BOOLEAN /\ expired \in BOOLEAN /\ paidAt \in BOOLEAN /\ handled \in BOOLEAN
    /\ unread \in BOOLEAN
Rest ==
    /\ orderType \in OrderTypes /\ status \in Statuses /\ current \subseteq Workers
    /\ code \in {"absent", "unused", "used"} /\ audit \subseteq AuditActions
    /\ provider \in {"open", "paid", "closed"} /\ pc \in [Workers -> Labels]
    /\ granted \in Nat /\ rebates \in Nat
    /\ owner \in Workers \cup {NoOne} /\ faults \in Nat

LEMMA BooleanMoves ==
    ASSUME [Next]_vars
    PROVE  /\ aged' \in {aged, TRUE, FALSE}
           /\ expired' \in {expired, TRUE}
           /\ paidAt' \in {paidAt, TRUE}
           /\ handled' \in {handled, TRUE, handled \/ status = "COMPLETED"}
           /\ unread' \in {unread, TRUE}
<1> USE DEF Next, vars, orderVars, Pay, TimeOut, Age, Starting, Starts, Notify, CancelOrder,
         ExpireTimedOutOrders, VerifyOrder, RetryFulfillment, Work, CheckPaid, PersistTradeNo,
         CancelCore, ConfirmPayment, ToPaid, AlreadyProcessed, ExecuteFulfillment, AcquireLease,
         ReloadLease,
         LookupCode, CreateCode, RedeemCheck, RedeemUse, CheckAssigned, AssignSubscription,
         ApplyRebate, MarkCompleted, MarkFailed, Crash, SetStatus, EndIdle
<1>1. aged' \in {aged, TRUE, FALSE}
  OBVIOUS
<1>2. expired' \in {expired, TRUE}
  OBVIOUS
<1>3. paidAt' \in {paidAt, TRUE}
  OBVIOUS
<1>4. handled' \in {handled, TRUE, handled \/ status = "COMPLETED"}
  OBVIOUS
<1>5. unread' \in {unread, TRUE}
  OBVIOUS
<1> QED
  BY <1>1, <1>2, <1>3, <1>4, <1>5

LEMMA BooleansStep ==
    ASSUME Booleans, [Next]_vars
    PROVE  Booleans'
<1> QED
  BY BooleanMoves DEF Booleans

LEMMA RestStep ==
    ASSUME Rest, [Next]_vars
    PROVE  Rest'
<1> USE FaultsAssumption
    DEF Rest, Goto, SetStatus, End, EndIdle, Fails, Fault, NoFault, orderVars, Labels, Leased,
        Querying, Statuses, Unpaid, InFulfillment, AuditActions
<1>1. CASE Pay \/ TimeOut \/ Age
  BY <1>1 DEF Pay, TimeOut, Age
<1>2. ASSUME NEW w \in Workers, Starting(w) PROVE Rest'
  BY <1>2 DEF Starting, Starts, Notify, CancelOrder, ExpireTimedOutOrders, VerifyOrder,
              RetryFulfillment
<1>3. ASSUME NEW w \in Workers, CheckPaid(w) PROVE Rest'
  BY <1>3 DEF CheckPaid
<1>4. ASSUME NEW w \in Workers, PersistTradeNo(w) PROVE Rest'
  BY <1>4 DEF PersistTradeNo
<1>5. ASSUME NEW w \in Workers, CancelCore(w) PROVE Rest'
  BY <1>5 DEF CancelCore
<1>6. ASSUME NEW w \in Workers, ConfirmPayment(w) \/ ToPaid(w) PROVE Rest'
  <2>1. CASE ConfirmPayment(w)
    BY <2>1 DEF ConfirmPayment
  <2>2. CASE ToPaid(w)
    BY <2>2 DEF ToPaid
  <2> QED
    BY <1>6, <2>1, <2>2
<1>7. ASSUME NEW w \in Workers, AlreadyProcessed(w) PROVE Rest'
  <2>1. audit' \subseteq AuditActions
    BY <1>7 DEF AlreadyProcessed
  <2>2. pc' \in [Workers -> Labels] /\ status' \in Statuses /\ current' \subseteq Workers
    BY <1>7 DEF AlreadyProcessed
  <2>3. rebates' \in Nat /\ granted' \in Nat /\ faults' \in Nat
    BY <1>7 DEF AlreadyProcessed
  <2> QED
    BY <1>7, <2>1, <2>2, <2>3 DEF AlreadyProcessed
<1>8. ASSUME NEW w \in Workers, ExecuteFulfillment(w) PROVE Rest'
  BY <1>8 DEF ExecuteFulfillment
<1>9. ASSUME NEW w \in Workers, AcquireLease(w) PROVE Rest'
  BY <1>9 DEF AcquireLease
<1>10. ASSUME NEW w \in Workers, ReloadLease(w) PROVE Rest'
  BY <1>10 DEF ReloadLease
<1>11. ASSUME NEW w \in Workers, LookupCode(w) \/ CreateCode(w) \/ RedeemCheck(w) PROVE Rest'
  BY <1>11 DEF LookupCode, CreateCode, RedeemCheck
<1>12. ASSUME NEW w \in Workers, RedeemUse(w) PROVE Rest'
  BY <1>12 DEF RedeemUse
<1>13. ASSUME NEW w \in Workers, CheckAssigned(w) \/ AssignSubscription(w) PROVE Rest'
  <2>1. audit' \subseteq AuditActions /\ UNCHANGED <<orderVars, rebates>>
    BY <1>13 DEF CheckAssigned, AssignSubscription
  <2>2. pc' \in [Workers -> Labels]
    BY <1>13 DEF CheckAssigned, AssignSubscription
  <2>3. granted' \in Nat /\ faults' \in Nat
    BY <1>13 DEF CheckAssigned, AssignSubscription
  <2> QED
    BY <1>13, <2>1, <2>2, <2>3 DEF CheckAssigned, AssignSubscription
<1>14. ASSUME NEW w \in Workers, ApplyRebate(w) PROVE Rest'
  <2>1. audit' \subseteq AuditActions
    BY <1>14 DEF ApplyRebate
  <2>2. pc' \in [Workers -> Labels] /\ status' \in Statuses /\ current' \subseteq Workers
    BY <1>14 DEF ApplyRebate
  <2>3. rebates' \in Nat /\ granted' \in Nat /\ faults' \in Nat
    BY <1>14 DEF ApplyRebate
  <2> QED
    BY <1>14, <2>1, <2>2, <2>3 DEF ApplyRebate
<1>15. ASSUME NEW w \in Workers, MarkCompleted(w) PROVE Rest'
  <2>1. audit' \subseteq AuditActions
    BY <1>15 DEF MarkCompleted, SuccessAudit
  <2>2. pc' \in [Workers -> Labels] /\ status' \in Statuses /\ current' \subseteq Workers
    BY <1>15 DEF MarkCompleted
  <2>3. rebates' \in Nat /\ granted' \in Nat /\ faults' \in Nat
    BY <1>15 DEF MarkCompleted
  <2> QED
    BY <1>15, <2>1, <2>2, <2>3 DEF MarkCompleted
<1>16. ASSUME NEW w \in Workers, MarkFailed(w) PROVE Rest'
  BY <1>16 DEF MarkFailed
<1>17. ASSUME NEW w \in Workers, Crash(w) PROVE Rest'
  BY <1>17 DEF Crash
<1>18. CASE UNCHANGED vars
  BY <1>18 DEF vars
<1> QED
  BY <1>1, <1>2, <1>3, <1>4, <1>5, <1>6, <1>7, <1>8, <1>9, <1>10, <1>11, <1>12, <1>13, <1>14,
     <1>15, <1>16, <1>17, <1>18 DEF Next, Work

LEMMA TypeStep ==
    ASSUME TypeOK, [Next]_vars
    PROVE  TypeOK'
<1>1. Rest /\ Booleans
  BY DEF TypeOK, Rest, Booleans
<1>2. Rest' /\ Booleans'
  BY <1>1, RestStep, BooleansStep
<1> QED
  BY <1>2 DEF TypeOK, Rest, Booleans

-----------------------------------------------------------------------------
\* What each step may change.
LEMMA OnlyOneMoves ==
    ASSUME TypeOK, NEW w \in Workers, Starting(w) \/ Work(w) \/ Crash(w)
    PROVE  \A v \in Workers : v # w => pc'[v] = pc[v]
<1>1. pc \in [Workers -> Labels]
  BY DEF TypeOK
<1>2. \E l : pc' = [pc EXCEPT ![w] = l]
  BY DEF Starting, Starts, Notify, CancelOrder, ExpireTimedOutOrders, VerifyOrder, RetryFulfillment,
         Work, CheckPaid, PersistTradeNo, CancelCore, ConfirmPayment, ToPaid, AlreadyProcessed,
         ExecuteFulfillment,
         AcquireLease, ReloadLease, LookupCode, CreateCode, RedeemCheck, RedeemUse, CheckAssigned,
         AssignSubscription, ApplyRebate, MarkCompleted, MarkFailed, Crash, Goto, End, EndIdle
<1> QED
  BY <1>1, <1>2

LEMMA LedgerFrame ==
    ASSUME [Next]_vars,
           ~\E w \in Workers :
               \/ AlreadyProcessed(w) \/ CreateCode(w) \/ RedeemUse(w) \/ AssignSubscription(w)
               \/ ApplyRebate(w) \/ MarkCompleted(w)
    PROVE  UNCHANGED <<orderType, granted, code, audit, rebates>>
<1> QED
  BY DEF Next, vars, Pay, TimeOut, Age, Starting, Starts, Notify, CancelOrder, ExpireTimedOutOrders,
         VerifyOrder, RetryFulfillment, Work, CheckPaid, PersistTradeNo, CancelCore,
         ConfirmPayment, ToPaid,
         ExecuteFulfillment, AcquireLease, ReloadLease, LookupCode, RedeemCheck, CheckAssigned,
         MarkFailed, Crash

LEMMA LedgerStep ==
    ASSUME TypeOK, Ledger, Paths, [Next]_vars
    PROVE  /\ Ledger' /\ orderType' = orderType
           /\ granted' \in {granted, 1} /\ rebates' \in {rebates, 1}
<1> USE DEF Ledger, NoFault
<1>1. orderType \in {"balance", "subscription"}
  BY OrderTypesAssumption DEF TypeOK
<1>2. ASSUME NEW w \in Workers, AlreadyProcessed(w) \/ MarkCompleted(w)
      PROVE  Ledger' /\ UNCHANGED <<orderType, granted, rebates>>
  <2>1. UNCHANGED <<orderType, granted, rebates, code>>
    BY <1>2 DEF AlreadyProcessed, MarkCompleted
  <2>2. \/ audit' = audit \/ audit' = audit \cup {"PAYMENT_AFTER_EXPIRY"}
        \/ audit' = audit \cup {"RECHARGE_SUCCESS"} \/ audit' = audit \cup {"SUBSCRIPTION_SUCCESS"}
    BY <1>2 DEF AlreadyProcessed, MarkCompleted, SuccessAudit
  <2> QED
    BY <2>1, <2>2
<1>3. ASSUME NEW w \in Workers, CreateCode(w)
      PROVE  Ledger' /\ UNCHANGED <<orderType, granted, rebates>>
  BY <1>3 DEF CreateCode
<1>4. ASSUME NEW w \in Workers, RedeemUse(w)
      PROVE  Ledger' /\ orderType' = orderType /\ rebates' = rebates /\ granted' \in {granted, 1}
  <2>1. orderType = "balance" /\ UNCHANGED <<orderType, rebates, audit>>
    BY <1>4 DEF RedeemUse, Paths
  <2>2. \/ code = "unused" /\ code' = "used" /\ granted' = granted + 1
        \/ UNCHANGED <<code, granted>>
    BY <1>4 DEF RedeemUse, Unused
  <2> QED
    BY <2>1, <2>2
<1>5. ASSUME NEW w \in Workers, AssignSubscription(w)
      PROVE  Ledger' /\ orderType' = orderType /\ rebates' = rebates /\ granted' \in {granted, 1}
  <2>1. orderType = "subscription" /\ UNCHANGED <<orderType, rebates, code>>
    BY <1>5 DEF AssignSubscription, Paths
  <2>2. \/ /\ "SUBSCRIPTION_ASSIGNED" \notin audit /\ granted' = granted + 1
           /\ audit' = audit \cup {"SUBSCRIPTION_ASSIGNED"}
        \/ UNCHANGED <<audit, granted>>
    BY <1>5 DEF AssignSubscription, AuditFree
  <2> QED
    BY <2>1, <2>2
<1>6. ASSUME NEW w \in Workers, ApplyRebate(w)
      PROVE  Ledger' /\ UNCHANGED <<orderType, granted>> /\ rebates' \in {rebates, 1}
  <2>1. UNCHANGED <<orderType, granted, code>>
    BY <1>6 DEF ApplyRebate
  <2>2. \/ /\ "AFFILIATE_REBATE" \notin audit /\ rebates' = rebates + 1
           /\ audit' = audit \cup {"AFFILIATE_REBATE"}
        \/ UNCHANGED <<audit, rebates>>
    BY <1>6 DEF ApplyRebate, RebateFree
  <2> QED
    BY <2>1, <2>2
<1> QED
  BY <1>2, <1>3, <1>4, <1>5, <1>6, LedgerFrame

LEMMA PathsStep ==
    ASSUME TypeOK, Ledger, Paths, Completed, [Next]_vars
    PROVE  Paths'
<1> USE DEF Goto, End, EndIdle
<1>0. /\ pc \in [Workers -> Labels] /\ orderType \in {"balance", "subscription"}
      /\ orderType' = orderType /\ granted' \in {granted, 1} /\ rebates' \in {rebates, 1}
  BY LedgerStep, OrderTypesAssumption DEF TypeOK
<1>1. ASSUME NEW w \in Workers, \A v \in Workers : v # w => pc'[v] = pc[v],
             pc'[w] \in {"lookup", "create", "redeem", "use"} => orderType = "balance",
             pc'[w] \in {"assign", "commit"} => orderType = "subscription",
             pc'[w] \in {"rebate", "complete"} => granted' = 1,
             pc'[w] = "complete" => rebates' = 1
      PROVE  Paths'
  BY <1>0, <1>1 DEF Paths
<1>2. CASE UNCHANGED pc
  BY <1>0, <1>2 DEF Paths
<1>3. ASSUME NEW w \in Workers, Starting(w) \/ Crash(w) PROVE Paths'
  <2>1. pc'[w] \in {"confirm", "query_cancel", "query_expire", "query_verify", "start", "idle"}
    BY <1>0, <1>3 DEF Starting, Starts, Notify, CancelOrder, ExpireTimedOutOrders, VerifyOrder,
                      RetryFulfillment, Crash
  <2> QED
    BY <1>1, <1>3, <2>1, OnlyOneMoves
<1>4. ASSUME NEW w \in Workers, Work(w) PROVE Paths'
  <2>0. \A v \in Workers : v # w => pc'[v] = pc[v]
    BY <1>4, OnlyOneMoves
  <2>1. CASE \/ CheckPaid(w) \/ PersistTradeNo(w) \/ CancelCore(w) \/ ConfirmPayment(w)
             \/ ToPaid(w) \/ AlreadyProcessed(w)
             \/ ExecuteFulfillment(w) \/ AcquireLease(w) \/ MarkCompleted(w) \/ MarkFailed(w)
    <3>1. pc'[w] \in {"persist", "cancel", "expire", "idle", "confirm", "to_paid", "start",
    "already", "acquire",
                      "reload", "fail"}
      BY <1>0, <2>1 DEF CheckPaid, PersistTradeNo, CancelCore, ConfirmPayment, ToPaid,
          AlreadyProcessed,
                        ExecuteFulfillment, AcquireLease, MarkCompleted, MarkFailed, Querying
    <3> QED
      BY <1>1, <2>0, <3>1
  <2>2. CASE ReloadLease(w)
    <3>1. \/ pc'[w] = "idle" \/ (orderType = "balance" /\ pc'[w] = "lookup")
          \/ (orderType = "subscription" /\ pc'[w] = "assign")
      BY <1>0, <2>2 DEF ReloadLease
    <3> QED
      BY <1>1, <2>0, <3>1
  <2>3. CASE LookupCode(w) \/ CreateCode(w) \/ RedeemCheck(w)
    <3>1. pc[w] \in {"lookup", "create", "redeem"}
      BY <2>3 DEF LookupCode, CreateCode, RedeemCheck
    <3>2. \/ pc'[w] \in {"create", "redeem", "use", "fail"}
          \/ pc'[w] = "rebate" /\ code = "used" /\ granted' = granted
      BY <1>0, <2>3 DEF LookupCode, CreateCode, RedeemCheck, AlreadyRedeemed
    <3>3. orderType = "balance"
      BY <3>1 DEF Paths
    <3> QED
      BY <1>1, <2>0, <3>2, <3>3 DEF Ledger
  <2>4. CASE RedeemUse(w)
    <3>1. \/ pc'[w] = "fail" \/ (pc'[w] = "rebate" /\ granted' = granted + 1)
      BY <1>0, <2>4 DEF RedeemUse
    <3>2. granted \in {0, 1}
      BY DEF Ledger
    <3> QED
      BY <1>0, <1>1, <2>0, <3>1, <3>2
  <2>5. CASE CheckAssigned(w)
    <3>1. \/ pc'[w] = "fail" \/ (pc'[w] = "rebate" /\ Assigned) \/ pc'[w] = "commit"
      BY <1>0, <2>5 DEF CheckAssigned
    <3>2. orderType = "subscription" /\ granted' = granted
      BY <2>5 DEF CheckAssigned, Paths
    <3>3. Assigned => granted = 1
      BY DEF Assigned, Ledger, Completed
    <3> QED
      BY <1>1, <2>0, <3>1, <3>2, <3>3
  <2>6. CASE AssignSubscription(w)
    <3>1. \/ pc'[w] = "fail" \/ (pc'[w] = "rebate" /\ granted' = granted + 1)
          \/ (pc'[w] = "rebate" /\ granted' = granted /\ "SUBSCRIPTION_ASSIGNED" \in audit)
      BY <1>0, <2>6 DEF AssignSubscription, AuditFree
    <3>2. granted \in {0, 1} /\ ("SUBSCRIPTION_ASSIGNED" \in audit => granted = 1)
      BY DEF Ledger
    <3> QED
      BY <1>0, <1>1, <2>0, <3>1, <3>2
  <2>7. CASE ApplyRebate(w)
    <3>1. \/ pc'[w] = "fail" \/ (pc'[w] = "complete" /\ rebates' = rebates + 1)
          \/ (pc'[w] = "complete" /\ rebates' = rebates /\ "AFFILIATE_REBATE" \in audit)
      BY <1>0, <2>7 DEF ApplyRebate, RebateFree
    <3>2. rebates \in {0, 1} /\ ("AFFILIATE_REBATE" \in audit => rebates = 1)
      BY DEF Ledger
    <3>3. granted' = 1
      BY <1>0, <2>7 DEF ApplyRebate, Paths
    <3> QED
      BY <1>0, <1>1, <2>0, <3>1, <3>2, <3>3
  <2> QED
    BY <1>4, <2>1, <2>2, <2>3, <2>4, <2>5, <2>6, <2>7 DEF Work
<1> QED
  BY <1>2, <1>3, <1>4 DEF Next, Pay, TimeOut, Age, vars

-----------------------------------------------------------------------------
\* How the status of the order moves.
LEMMA StatusFrame ==
    ASSUME [Next]_vars,
           ~\E w \in Workers :
               \/ CancelCore(w) \/ ToPaid(w) \/ AcquireLease(w) \/ MarkCompleted(w) \/ MarkFailed(w)
    PROVE  status' = status
<1> QED
  BY DEF Next, vars, orderVars, Pay, TimeOut, Age, Starting, Starts, Notify, CancelOrder,
         ExpireTimedOutOrders, VerifyOrder, RetryFulfillment, Work, CheckPaid, PersistTradeNo,
         ConfirmPayment, AlreadyProcessed, ExecuteFulfillment, ReloadLease, LookupCode, CreateCode,
         RedeemCheck, RedeemUse, CheckAssigned, AssignSubscription, ApplyRebate, Crash, SetStatus, EndIdle

LEMMA StatusMoves ==
    ASSUME [Next]_vars
    PROVE  \/ status' = status
           \/ status = "PENDING" /\ status' \in {"CANCELLED", "EXPIRED"}
           \/ status \in Unpaid /\ status' = "PAID" /\ \E w \in Workers : ToPaid(w) /\ paidAt'
           \/ status \in InFulfillment /\ status' \in {"RECHARGING", "FAILED"}
           \/ status = "RECHARGING" /\ status' = "COMPLETED" /\ \E w \in Workers : MarkCompleted(w)
<1> DEFINE Moved ==
      \/ status' = status
      \/ status = "PENDING" /\ status' \in {"CANCELLED", "EXPIRED"}
      \/ status \in Unpaid /\ status' = "PAID" /\ \E w \in Workers : ToPaid(w) /\ paidAt'
      \/ status \in InFulfillment /\ status' \in {"RECHARGING", "FAILED"}
      \/ status = "RECHARGING" /\ status' = "COMPLETED" /\ \E w \in Workers : MarkCompleted(w)
<1> SUFFICES Moved
  OBVIOUS
<1> USE DEF SetStatus, orderVars, EndIdle
<1>1. ASSUME NEW w \in Workers, CancelCore(w) PROVE Moved
  BY <1>1 DEF CancelCore, MayCancel
<1>2. ASSUME NEW w \in Workers, ToPaid(w) PROVE Moved
  <2>1. status' = status \/ (Payable /\ status' = "PAID" /\ paidAt')
    BY <1>2 DEF ToPaid
  <2>2. Payable => status \in Unpaid
    BY DEF Payable, Unpaid
  <2> QED
    BY <1>2, <2>1, <2>2
<1>3. ASSUME NEW w \in Workers, AcquireLease(w) PROVE Moved
  <2>1. status' = status \/ (MayAcquire /\ status' = "RECHARGING")
    BY <1>3 DEF AcquireLease
  <2>2. MayAcquire => status \in InFulfillment
    BY DEF MayAcquire, InFulfillment
  <2> QED
    BY <2>1, <2>2
<1>4. ASSUME NEW w \in Workers, MarkCompleted(w) PROVE Moved
  <2>1. status' = status \/ (HoldsLease(w) /\ status' = "COMPLETED")
    BY <1>4 DEF MarkCompleted
  <2> QED
    BY <1>4, <2>1 DEF HoldsLease
<1>5. ASSUME NEW w \in Workers, MarkFailed(w) PROVE Moved
  <2>1. status' = status \/ (HoldsLease(w) /\ status' = "FAILED")
    BY <1>5 DEF MarkFailed
  <2> QED
    BY <2>1 DEF HoldsLease, InFulfillment
<1> QED
  BY <1>1, <1>2, <1>3, <1>4, <1>5, StatusFrame

LEMMA CompletedStep ==
    ASSUME TypeOK, Ledger, Paths, Completed, [Next]_vars
    PROVE  Completed'
<1>0. granted' \in {granted, 1} /\ rebates' \in {rebates, 1}
  BY LedgerStep
<1>1. status' \in Reached
  BY StatusMoves DEF Completed, Reached, Unpaid, InFulfillment
<1>2. ASSUME status' = "COMPLETED" PROVE granted' = 1 /\ rebates' = 1
  <2>1. status = "COMPLETED" \/ \E w \in Workers : MarkCompleted(w)
    BY <1>2, StatusMoves
  <2>2. granted = 1 /\ rebates = 1
    BY <2>1 DEF MarkCompleted, Paths, Completed
  <2> QED
    BY <1>0, <2>2
<1>3. ASSUME "SUBSCRIPTION_SUCCESS" \in audit' PROVE granted' = 1
  <2>1. CASE "SUBSCRIPTION_SUCCESS" \in audit
    BY <1>0, <2>1 DEF Completed
  <2>2. ASSUME NEW w \in Workers, MarkCompleted(w) PROVE granted' = 1
    BY <1>0, <2>2 DEF MarkCompleted, Paths
  <2>3. ASSUME NEW w \in Workers,
               \/ AlreadyProcessed(w) \/ CreateCode(w) \/ RedeemUse(w) \/ AssignSubscription(w)
               \/ ApplyRebate(w)
        PROVE  "SUBSCRIPTION_SUCCESS" \in audit
    BY <1>3, <2>3 DEF AlreadyProcessed, CreateCode, RedeemUse, AssignSubscription, ApplyRebate
  <2> QED
    BY <1>3, <2>1, <2>2, <2>3, LedgerFrame
<1> QED
  BY <1>1, <1>2, <1>3 DEF Completed

LEMMA PaymentFrame ==
    ASSUME [Next]_vars
    PROVE  /\ provider = "paid" => provider' = "paid"
           /\ paidAt => paidAt'
           /\ (\E w \in Workers : ToPaid(w)) \/ paidAt' = paidAt
           /\ (\E w \in Workers : RedeemUse(w) \/ AssignSubscription(w)) \/ granted' = granted
<1> USE DEF Next, vars, Pay, TimeOut, Age, Starting, Starts, Notify, CancelOrder,
ExpireTimedOutOrders,
         VerifyOrder, RetryFulfillment, Work, CheckPaid, PersistTradeNo, CancelCore,
         ConfirmPayment, ToPaid,
         AlreadyProcessed, ExecuteFulfillment, AcquireLease, ReloadLease, LookupCode, CreateCode,
         RedeemCheck, RedeemUse, CheckAssigned, AssignSubscription, ApplyRebate, MarkCompleted,
         MarkFailed, Crash, ReportedPaid
<1>1. provider = "paid" => provider' = "paid"
  OBVIOUS
<1>2. (\E w \in Workers : ToPaid(w)) \/ paidAt' = paidAt
  OBVIOUS
<1>3. paidAt => paidAt'
  OBVIOUS
<1>4. (\E w \in Workers : RedeemUse(w) \/ AssignSubscription(w)) \/ granted' = granted
  OBVIOUS
<1> QED
  BY <1>1, <1>2, <1>3, <1>4

LEMMA PaymentStep ==
    ASSUME TypeOK, Payment, [Next]_vars
    PROVE  Payment'
<1> USE DEF Goto, End, EndIdle
<1>0. pc \in [Workers -> Labels]
  BY DEF TypeOK
<1>1. ASSUME NEW w \in Workers, ToPaid(w) PROVE provider = "paid"
  BY <1>1 DEF ToPaid, Payment
<1>2. paidAt' => provider' = "paid"
  BY <1>1, PaymentFrame DEF Payment
<1>3. status' \notin Unpaid => paidAt'
  BY StatusMoves, PaymentFrame DEF Payment, Unpaid, InFulfillment
<1>4. granted' > 0 => paidAt'
  <2>1. ASSUME NEW w \in Workers, RedeemUse(w) \/ AssignSubscription(w) PROVE paidAt
    BY <2>1 DEF RedeemUse, AssignSubscription, Payment, Leased
  <2> QED
    BY <2>1, PaymentFrame DEF Payment
<1>5. ASSUME NEW w \in Workers, \A v \in Workers : v # w => pc'[v] = pc[v],
             pc'[w] \in {"persist", "confirm", "to_paid"} => provider' = "paid",
             pc'[w] \in Leased => paidAt'
      PROVE  Payment'
  BY <1>2, <1>3, <1>4, <1>5, PaymentFrame DEF Payment
<1>6. CASE UNCHANGED pc
  BY <1>2, <1>3, <1>4, <1>6, PaymentFrame DEF Payment
<1>7. ASSUME NEW w \in Workers, Starting(w) \/ Crash(w) PROVE Payment'
  <2>1. /\ pc'[w] \in {"confirm", "query_cancel", "query_expire", "query_verify", "start", "idle"}
        /\ pc'[w] = "confirm" => provider' = "paid"
    BY <1>0, <1>7 DEF Starting, Starts, Notify, CancelOrder, ExpireTimedOutOrders, VerifyOrder,
                      RetryFulfillment, Crash
  <2> QED
    BY <1>5, <1>7, <2>1, OnlyOneMoves DEF Leased
<1>8. ASSUME NEW w \in Workers, Work(w) PROVE Payment'
  <2>0. \A v \in Workers : v # w => pc'[v] = pc[v]
    BY <1>8, OnlyOneMoves
  <2>1. CASE CheckPaid(w) \/ PersistTradeNo(w) \/ ConfirmPayment(w)
    <3>1. /\ pc'[w] \in {"persist", "confirm", "to_paid", "cancel", "expire", "idle"}
          /\ pc'[w] \in {"persist", "confirm", "to_paid"} => provider = "paid"
      BY <1>0, <2>1 DEF CheckPaid, PersistTradeNo, ConfirmPayment, ReportedPaid, Payment
    <3> QED
      BY <1>5, <2>0, <3>1, PaymentFrame DEF Leased
  <2>2. CASE \/ CancelCore(w) \/ ToPaid(w) \/ AlreadyProcessed(w) \/ ExecuteFulfillment(w)
             \/ AcquireLease(w)
    <3>1. pc'[w] \in {"idle", "start", "already", "acquire", "reload"}
      BY <1>0, <2>2 DEF CancelCore, ToPaid, AlreadyProcessed, ExecuteFulfillment, AcquireLease
    <3> QED
      BY <1>5, <2>0, <3>1 DEF Leased
  <2>3. CASE ReloadLease(w)
    <3>1. pc'[w] \in {"idle", "lookup", "assign"}
      BY <1>0, <2>3 DEF ReloadLease
    <3>2. pc'[w] # "idle" => status = "RECHARGING"
      BY <1>0, <2>3 DEF ReloadLease
    <3>3. status = "RECHARGING" => paidAt
      BY DEF Payment, Unpaid
    <3> QED
      BY <1>5, <2>0, <3>1, <3>2, <3>3, PaymentFrame DEF Leased
  <2>4. CASE \/ LookupCode(w) \/ CreateCode(w) \/ RedeemCheck(w) \/ RedeemUse(w)
             \/ CheckAssigned(w) \/ AssignSubscription(w) \/ ApplyRebate(w)
             \/ MarkCompleted(w) \/ MarkFailed(w)
    <3>1. pc[w] \in Leased
      BY <2>4 DEF LookupCode, CreateCode, RedeemCheck, RedeemUse, CheckAssigned, AssignSubscription,
                  ApplyRebate, MarkCompleted, MarkFailed, Leased
    <3>2. pc'[w] \in Leased \cup {"idle"}
      BY <1>0, <2>4 DEF LookupCode, CreateCode, RedeemCheck, RedeemUse, CheckAssigned,
                  AssignSubscription, ApplyRebate, MarkCompleted, MarkFailed, Leased
    <3>3. paidAt
      BY <3>1 DEF Payment
    <3> QED
      BY <1>5, <2>0, <3>2, <3>3, PaymentFrame DEF Leased
  <2> QED
    BY <1>8, <2>1, <2>2, <2>3, <2>4 DEF Work
<1> QED
  BY <1>6, <1>7, <1>8 DEF Next, Pay, TimeOut, Age, vars

LEMMA InvHolds == Spec => []Inv
<1>1. Inv /\ [Next]_vars => Inv'
  BY TypeStep, LedgerStep, PathsStep, CompletedStep, PaymentStep DEF Inv
<1> QED
  BY <1>1, InvInit, PTL DEF Spec

-----------------------------------------------------------------------------
\* The lease, when nobody stays between acquiring it and reading it back for its duration.
LEMMA OwnerStep ==
    ASSUME TypeOK, Reloading, LeaseIsOwners, "reload" \in Prompt, [Next]_vars
    PROVE  Reloading' /\ LeaseIsOwners'
<1> USE DEF Reloading, LeaseIsOwners, Goto, End, EndIdle, SetStatus, orderVars
<1>0. pc \in [Workers -> Labels] /\ current \subseteq Workers
  BY DEF TypeOK
<1>1. CASE Pay \/ TimeOut \/ UNCHANGED vars
  <2>1. UNCHANGED <<pc, status, aged, current, owner>>
    BY <1>1 DEF Pay, TimeOut, vars
  <2> QED
    BY <2>1
<1>2. CASE Age
  <2>1. UNCHANGED <<pc, status, current, owner>> /\ \A v \in Workers : pc[v] # "reload"
    BY <1>2 DEF Age
  <2> QED
    BY <2>1
<1>3. ASSUME NEW w \in Workers, \A v \in Workers : v # w => pc'[v] = pc[v], pc'[w] # "reload",
             UNCHANGED <<status, owner>>, aged' = aged \/ ~aged',
             current' = current \/ current' = current \ {w} \/ current' = {}
      PROVE  Reloading' /\ LeaseIsOwners'
  <2>1. LeaseIsOwners'
    BY <1>3
  <2>2. ASSUME NEW v \in Workers, pc'[v] = "reload"
        PROVE  owner' = v /\ status' = "RECHARGING" /\ ~aged' /\ current' = {}
    <3>1. v # w /\ pc[v] = "reload"
      BY <1>3, <2>2
    <3>2. owner = v /\ status = "RECHARGING" /\ ~aged /\ current = {}
      BY <3>1
    <3> QED
      BY <1>3, <3>2
  <2> QED
    BY <2>1, <2>2
<1>4. ASSUME NEW w \in Workers, \A v \in Workers : pc'[v] # "reload", owner' = owner,
             current' \subseteq current
      PROVE  Reloading' /\ LeaseIsOwners'
  BY <1>4
<1>5. ASSUME NEW w \in Workers, Starting(w) \/ Crash(w) PROVE Reloading' /\ LeaseIsOwners'
  <2>1. /\ pc'[w] # "reload" /\ UNCHANGED <<status, owner, aged>>
        /\ current' = current \/ current' = current \ {w}
    BY <1>0, <1>5 DEF Starting, Starts, Notify, CancelOrder, ExpireTimedOutOrders, VerifyOrder,
                      RetryFulfillment, Crash
  <2> QED
    BY <1>3, <1>5, <2>1, OnlyOneMoves
<1>6. ASSUME NEW w \in Workers, Work(w) PROVE Reloading' /\ LeaseIsOwners'
  <2>0. \A v \in Workers : v # w => pc'[v] = pc[v]
    BY <1>6, OnlyOneMoves
  <2>1. CASE \/ CheckPaid(w) \/ PersistTradeNo(w) \/ ConfirmPayment(w)
             \/ AlreadyProcessed(w) \/ ExecuteFulfillment(w) \/ LookupCode(w) \/ CreateCode(w) \/ RedeemCheck(w) \/ RedeemUse(w)
             \/ CheckAssigned(w) \/ AssignSubscription(w) \/ ApplyRebate(w)
    <3>1. pc'[w] # "reload"
      BY <1>0, <2>1 DEF CheckPaid, PersistTradeNo, ConfirmPayment, AlreadyProcessed, ExecuteFulfillment,
           LookupCode, CreateCode, RedeemCheck, RedeemUse, CheckAssigned, AssignSubscription, ApplyRebate,
           Querying
    <3>2. UNCHANGED <<status, owner>>
      BY <2>1 DEF CheckPaid, PersistTradeNo, ConfirmPayment, AlreadyProcessed, ExecuteFulfillment,
           LookupCode, CreateCode, RedeemCheck, RedeemUse, CheckAssigned, AssignSubscription, ApplyRebate
    <3>3. (UNCHANGED <<aged, current>>) \/ (aged' = FALSE /\ current' = {})
      BY <2>1 DEF CheckPaid, PersistTradeNo, ConfirmPayment, AlreadyProcessed, ExecuteFulfillment,
           LookupCode, CreateCode, RedeemCheck, RedeemUse, CheckAssigned, AssignSubscription, ApplyRebate
    <3>4. aged' = aged \/ ~aged'
      BY <3>3
    <3> QED
      BY <1>3, <2>0, <3>1, <3>2, <3>3, <3>4
  <2>2. CASE CancelCore(w) \/ ToPaid(w)
    <3>1. pc'[w] # "reload" /\ owner' = owner
      BY <1>0, <2>2 DEF CancelCore, ToPaid
    <3>2. CASE UNCHANGED orderVars
      BY <1>3, <2>0, <3>1, <3>2
    <3>3. CASE current' = {} /\ status \in Unpaid
      <4>1. \A v \in Workers : pc[v] # "reload"
        BY <3>3 DEF Unpaid
      <4> QED
        BY <1>4, <2>0, <3>1, <3>3, <4>1
    <3>4. MayCancel \/ Payable => status \in Unpaid
      BY DEF MayCancel, Payable, Unpaid
    <3>5. UNCHANGED orderVars \/ (current' = {} /\ (MayCancel \/ Payable))
      BY <2>2 DEF CancelCore, ToPaid
    <3> QED
      BY <3>2, <3>3, <3>4, <3>5
  <2>3. CASE AcquireLease(w)
    <3>1. CASE MayAcquire /\ status' = "RECHARGING" /\ aged' = FALSE /\ current' = {} /\ owner' = w
      <4>1. \A v \in Workers : pc[v] # "reload"
        BY <3>1 DEF MayAcquire
      <4> QED
        BY <2>0, <3>1, <4>1
    <3>2. CASE UNCHANGED orderVars /\ owner' = owner /\ pc'[w] # "reload"
      BY <1>3, <2>0, <3>2
    <3>3. CASE pc' = [pc EXCEPT ![w] = "idle"] /\ UNCHANGED <<orderVars, owner>>
      <4>1. pc'[w] = "idle"
        BY <1>0, <3>3
      <4> QED
        BY <3>2, <3>3, <4>1
    <3> QED
      BY <2>3, <3>1, <3>3 DEF AcquireLease
  <2>4. CASE ReloadLease(w)
    <3>1. /\ pc[w] = "reload" /\ pc'[w] # "reload" /\ UNCHANGED <<status, aged, owner>>
          /\ current' = current \/ current' = current \cup {w}
      BY <1>0, <2>4 DEF ReloadLease
    <3>2. owner = w /\ \A v \in Workers : v # w => pc[v] # "reload"
      BY <3>1
    <3> QED
      BY <2>0, <3>1, <3>2
  <2>5. CASE MarkCompleted(w) \/ MarkFailed(w)
    <3>1. pc'[w] # "reload" /\ owner' = owner
      BY <1>0, <2>5 DEF MarkCompleted, MarkFailed
    <3>2. CASE HoldsLease(w) /\ current' = {}
      <4>1. \A v \in Workers : pc[v] # "reload"
        BY <3>2 DEF HoldsLease
      <4> QED
        BY <1>4, <2>0, <3>1, <3>2, <4>1
    <3>3. CASE UNCHANGED <<status, aged>> /\ (current' = current \/ current' = current \ {w})
      BY <1>3, <2>0, <3>1, <3>3
    <3>4. \/ HoldsLease(w) /\ current' = {}
          \/ UNCHANGED <<status, aged>> /\ (current' = current \/ current' = current \ {w})
      BY <2>5 DEF MarkCompleted, MarkFailed
    <3> QED
      BY <3>2, <3>3, <3>4
  <2> QED
    BY <1>6, <2>1, <2>2, <2>3, <2>4, <2>5 DEF Work
<1> QED
  BY <1>1, <1>2, <1>5, <1>6 DEF Next

-----------------------------------------------------------------------------
\* Answered notifications.
LEMMA AlreadyStep ==
    ASSUME TypeOK, Already, [Next]_vars
    PROVE  Already'
<1> SUFFICES ASSUME NEW v \in Workers, pc'[v] = "already"
             PROVE  status' \notin {"PENDING", "CANCELLED"}
  BY DEF Already
<1>0. pc \in [Workers -> Labels]
  BY DEF TypeOK
<1>1. CASE pc[v] = "already"
  <2>1. status \notin {"PENDING", "CANCELLED"}
    BY <1>1 DEF Already
  <2> QED
    BY <2>1, StatusMoves
<1>2. CASE pc[v] # "already"
  <2>1. PICK w \in Workers : Starting(w) \/ Work(w) \/ Crash(w)
    BY <1>2 DEF Next, Pay, TimeOut, Age, vars
  <2>2. v = w
    BY <1>2, <2>1, OnlyOneMoves
  <2>3. ToPaid(w) /\ ~Payable /\ UNCHANGED orderVars
    BY <1>0, <2>1, <2>2
    DEF Starting, Starts, Notify, CancelOrder, ExpireTimedOutOrders, VerifyOrder, RetryFulfillment,
        Work, CheckPaid, PersistTradeNo, CancelCore, ConfirmPayment, ToPaid, AlreadyProcessed,
        ExecuteFulfillment,
        AcquireLease, ReloadLease, LookupCode, CreateCode, RedeemCheck, RedeemUse, CheckAssigned,
        AssignSubscription, ApplyRebate, MarkCompleted, MarkFailed, Crash, Goto, End, EndIdle,
        Querying
  <2> QED
    BY <2>3 DEF Payable, orderVars
<1> QED
  BY <1>1, <1>2

LEMMA HandledStep ==
    ASSUME TypeOK, Completed, Already, HandledMeansSettled, [Next]_vars
    PROVE  HandledMeansSettled'
<1>1. status = "COMPLETED" => status' = "COMPLETED"
  BY StatusMoves DEF Unpaid, InFulfillment
<1>2. audit \subseteq audit'
  BY LedgerFrame DEF AlreadyProcessed, CreateCode, RedeemUse, AssignSubscription, ApplyRebate,
                     MarkCompleted
<1>3. status \in {"COMPLETED"} \cup RefundStatuses => status = "COMPLETED"
  BY DEF Completed, Reached, Unpaid, InFulfillment, RefundStatuses
<1>4. CASE handled
  BY <1>1, <1>2, <1>3, <1>4 DEF HandledMeansSettled
<1>5. CASE handled' /\ ~handled
  <2>1. PICK w \in Workers :
          AlreadyProcessed(w) \/ ExecuteFulfillment(w) \/ AcquireLease(w) \/ MarkCompleted(w)
    BY <1>5 DEF Next, vars, Pay, TimeOut, Age, Starting, Starts, Notify, CancelOrder,
         ExpireTimedOutOrders, VerifyOrder, RetryFulfillment, Work, CheckPaid, PersistTradeNo,
         CancelCore, ConfirmPayment, ToPaid, ReloadLease, LookupCode, CreateCode, RedeemCheck,
         RedeemUse,
         CheckAssigned, AssignSubscription, ApplyRebate, MarkFailed, Crash
  <2>2. CASE AlreadyProcessed(w)
    <3>1. pc[w] = "already" /\ status \notin Resumable /\ UNCHANGED orderVars
          /\ (status = "EXPIRED" => "PAYMENT_AFTER_EXPIRY" \in audit')
      BY <1>5, <2>2 DEF AlreadyProcessed
    <3>2. status \in {"EXPIRED", "COMPLETED"}
      BY <3>1 DEF Already, Resumable, Completed, Reached, Unpaid, InFulfillment
    <3> QED
      BY <1>1, <3>1, <3>2 DEF HandledMeansSettled
  <2>3. CASE ExecuteFulfillment(w) \/ AcquireLease(w)
    <3>1. status = "COMPLETED"
      BY <1>5, <2>3 DEF ExecuteFulfillment, AcquireLease
    <3> QED
      BY <1>1, <3>1 DEF HandledMeansSettled
  <2>4. CASE MarkCompleted(w)
    <3>1. status' = "COMPLETED" \/ status = "COMPLETED"
      BY <1>5, <2>4 DEF MarkCompleted, SetStatus
    <3> QED
      BY <1>1, <3>1 DEF HandledMeansSettled
  <2> QED
    BY <2>1, <2>2, <2>3, <2>4
<1> QED
  BY <1>4, <1>5 DEF HandledMeansSettled

-----------------------------------------------------------------------------
\* Every statement and provider call of the fulfillment keeps the variables in their types.
THEOREM TypeCorrect == Spec => []TypeOK
<1>1. Inv => TypeOK
  BY DEF Inv
<1> QED
  BY <1>1, InvHolds, PTL

\* Whatever notifications, retries, takeovers and crashes there are, the order is granted
\* at most once and its rebate paid at most once: the unique rows decide, not the lease.
THEOREM GrantsAtMostOnce == Spec => []GrantedOnce
<1>1. Inv => GrantedOnce
  BY DEF Inv, Ledger, GrantedOnce
<1> QED
  BY <1>1, InvHolds, PTL

\* No path of the order's lifecycle grants what the provider has not reported as paid.
THEOREM NothingForFree == Spec => []GrantedMeansPaid
<1>1. Inv => GrantedMeansPaid
  BY DEF Inv, Payment, GrantedMeansPaid
<1> QED
  BY <1>1, InvHolds, PTL

\* Only an order whose grant and rebate are durable is ever COMPLETED.
THEOREM CompletedIsGranted == Spec => []CompletedMeansGranted
<1>1. Inv => CompletedMeansGranted
  <2> SUFFICES ASSUME Inv, status \in {"COMPLETED"} \cup RefundStatuses
               PROVE  granted >= 1 /\ rebates >= 1
    BY DEF CompletedMeansGranted
  <2>1. status = "COMPLETED"
    BY DEF Inv, Completed, Reached, Unpaid, InFulfillment, RefundStatuses
  <2> QED
    BY <2>1 DEF Inv, Completed
<1> QED
  BY <1>1, InvHolds, PTL

\* What is seen of the order changes by the steps of the promise only, one at a time.
LEMMA PromiseStep ==
    ASSUME Inv, Inv', PaidAtIsPaid, [Next]_vars
    PROVE  [Promise!Next]_<<provider = "paid", Stage, granted, rebates>>
<1> DEFINE Seen == <<provider = "paid", Stage, granted, rebates>>
<1> USE DEF Stage
<1>0. /\ granted \in {0, 1} /\ granted' \in {0, 1} /\ rebates \in {0, 1} /\ rebates' \in {0, 1}
      /\ status \in Reached
  BY DEF Inv, Ledger, Completed
<1>1. ASSUME status' \in Unpaid <=> status \in Unpaid,
             status' \in InFulfillment <=> status \in InFulfillment
      PROVE  Stage' = Stage
  BY <1>1
<1>2. CASE status' = status
  <2>1. Stage' = Stage
    BY <1>1, <1>2
  <2>2. CASE Pay
    <3>1. Promise!Receive
      BY <2>1, <2>2 DEF Pay, Promise!Receive
    <3> QED
      BY <3>1 DEF Promise!Next
  <2>3. ASSUME NEW w \in Workers, RedeemUse(w) \/ AssignSubscription(w)
        PROVE  Promise!Grant \/ UNCHANGED Seen
    <3>1. UNCHANGED <<provider, rebates>> /\ pc[w] \in {"use", "commit"}
      BY <2>3 DEF RedeemUse, AssignSubscription
    <3>2. granted' = granted \/ granted' = granted + 1
      BY <2>3 DEF RedeemUse, AssignSubscription
    <3>3. status \notin Unpaid
      BY <3>1 DEF Inv, Payment, PaidAtIsPaid, Leased
    <3>4. CASE granted' = granted + 1
      <4>1. granted = 0 /\ granted' = 1
        BY <1>0, <3>4
      <4>2. status \in InFulfillment
        BY <1>0, <3>3, <4>1 DEF Inv, Completed, Reached
      <4> QED
        BY <2>1, <3>1, <3>3, <4>1, <4>2 DEF Promise!Grant
    <3>5. CASE granted' = granted
      BY <2>1, <3>1, <3>5
    <3> QED
      BY <3>2, <3>4, <3>5
  <2>4. ASSUME NEW w \in Workers, ApplyRebate(w)
        PROVE  Promise!Reward \/ UNCHANGED Seen
    <3>1. UNCHANGED <<provider, granted>> /\ pc[w] = "rebate"
      BY <2>4 DEF ApplyRebate
    <3>2. rebates' = rebates \/ rebates' = rebates + 1
      BY <2>4 DEF ApplyRebate
    <3>3. status \notin Unpaid /\ granted = 1
      BY <3>1 DEF Inv, Payment, Paths, PaidAtIsPaid, Leased
    <3>4. CASE rebates' = rebates + 1
      <4>1. rebates = 0 /\ rebates' = 1
        BY <1>0, <3>4
      <4>2. status \in InFulfillment
        BY <1>0, <3>3, <4>1 DEF Inv, Completed, Reached
      <4> QED
        BY <2>1, <3>1, <3>3, <4>1, <4>2 DEF Promise!Reward
    <3>5. CASE rebates' = rebates
      BY <2>1, <3>1, <3>5
    <3> QED
      BY <3>2, <3>4, <3>5
  <2>5. CASE ~Pay /\ ~\E w \in Workers : RedeemUse(w) \/ AssignSubscription(w) \/ ApplyRebate(w)
    <3>1. UNCHANGED <<granted, rebates>>
      BY <2>5, <1>2 DEF Next, vars, TimeOut, Age, Starting, Starts, Notify, CancelOrder,
         ExpireTimedOutOrders, VerifyOrder, RetryFulfillment, Work, CheckPaid, PersistTradeNo,
         CancelCore, ConfirmPayment, ToPaid, AlreadyProcessed, ExecuteFulfillment, AcquireLease,
         ReloadLease,
         LookupCode, CreateCode, RedeemCheck, CheckAssigned, MarkCompleted, MarkFailed, Crash
    <3>2. provider' = "paid" <=> provider = "paid"
      BY <2>5 DEF Next, vars, TimeOut, Age, Starting, Starts, Notify, CancelOrder,
         ExpireTimedOutOrders, VerifyOrder, RetryFulfillment, Work, CheckPaid, PersistTradeNo,
         CancelCore, ConfirmPayment, ToPaid, AlreadyProcessed, ExecuteFulfillment, AcquireLease,
         ReloadLease,
         LookupCode, CreateCode, RedeemCheck, CheckAssigned, MarkCompleted, MarkFailed, Crash,
         ReportedPaid
    <3> QED
      BY <2>1, <3>1, <3>2
  <2> QED
    BY <2>2, <2>3, <2>4, <2>5 DEF Promise!Next
<1>3. CASE status' # status
  <2>1. PICK w \in Workers :
          CancelCore(w) \/ ToPaid(w) \/ AcquireLease(w) \/ MarkCompleted(w) \/ MarkFailed(w)
    BY <1>3, StatusFrame
  <2>2. UNCHANGED <<provider, granted, rebates>>
    BY <2>1 DEF CancelCore, ConfirmPayment, ToPaid, AcquireLease, MarkCompleted, MarkFailed
  <2>3. CASE status \in Unpaid /\ status' = "PAID" /\ \E v \in Workers : ToPaid(v)
    <3>1. provider = "paid"
      BY <2>3 DEF ToPaid, Inv, Payment
    <3>2. Promise!Accept
      BY <2>2, <2>3, <3>1 DEF Promise!Accept, Unpaid, InFulfillment
    <3> QED
      BY <3>2 DEF Promise!Next
  <2>4. CASE status = "RECHARGING" /\ status' = "COMPLETED"
    <3>1. granted = 1 /\ rebates = 1
      BY <2>2, <2>4 DEF Inv, Completed
    <3>2. Promise!Complete
      BY <2>2, <2>4, <3>1 DEF Promise!Complete, Unpaid, InFulfillment
    <3> QED
      BY <3>2 DEF Promise!Next
  <2>5. CASE \/ status = "PENDING" /\ status' \in {"CANCELLED", "EXPIRED"}
             \/ status \in InFulfillment /\ status' \in {"RECHARGING", "FAILED"}
    BY <2>2, <2>5 DEF Unpaid, InFulfillment
  <2> QED
    BY <1>3, <2>3, <2>4, <2>5, StatusMoves
<1> QED
  BY <1>2, <1>3

\* For any workers, faults and failing statements the lifecycle and the fulfillment
\* implement the promise to the customer: a payment is never undone, the grant and the
\* rebate come once each, after it, and completion after both, for good.
THEOREM ImplementsPromise == Spec => KeepsPromise
<1>1. Init => PaidAtIsPaid /\ Promise!Init
  BY DEF Init, PaidAtIsPaid, Promise!Init, Stage, Unpaid
<1>2. PaidAtIsPaid /\ [Next]_vars => PaidAtIsPaid'
  <2> SUFFICES ASSUME PaidAtIsPaid, [Next]_vars, paidAt', status' \in Unpaid
               PROVE  FALSE
    BY DEF PaidAtIsPaid
  <2>1. status \in Unpaid
    BY StatusMoves DEF Unpaid, InFulfillment
  <2>2. PICK w \in Workers : ToPaid(w)
    BY <2>1, PaymentFrame DEF PaidAtIsPaid
  <2>3. status' = "PAID"
    BY <2>1, <2>2 DEF ToPaid, PaidAtIsPaid, SetStatus
  <2> QED
    BY <2>3 DEF Unpaid
<1>3. Inv /\ Inv' /\ PaidAtIsPaid /\ [Next]_vars
        => [Promise!Next]_<<provider = "paid", Stage, granted, rebates>>
  BY PromiseStep
<1> QED
  BY <1>1, <1>2, <1>3, InvHolds, PTL DEF Spec, KeepsPromise, Promise!Spec

\* If no worker stays between acquiring the lease and reading it back for its duration,
\* a lease version matches for the last worker to acquire the lease only.
THEOREM LeaseHasOneOwner ==
    ASSUME "reload" \in Prompt
    PROVE  Spec => []LeaseIsOwners
<1>1. Init => Reloading /\ LeaseIsOwners
  BY DEF Init, Reloading, LeaseIsOwners
<1>2. Inv /\ Reloading /\ LeaseIsOwners /\ [Next]_vars => (Reloading /\ LeaseIsOwners)'
  BY OwnerStep DEF Inv
<1> QED
  BY <1>1, <1>2, InvHolds, PTL DEF Spec

\* Whatever fails, a notification answered with success after a look at the order left a
\* granted order or the audit row of a payment after the expiry.
THEOREM AnsweredIsSettled == Spec => []HandledMeansSettled
<1>1. Init => Already /\ HandledMeansSettled
  <2> SUFFICES ASSUME Init PROVE Already /\ HandledMeansSettled
    OBVIOUS
  <2>1. ~handled /\ pc = [w \in Workers |-> "idle"]
    BY DEF Init
  <2> QED
    BY <2>1 DEF Already, HandledMeansSettled
<1>2. Inv /\ Already /\ HandledMeansSettled /\ [Next]_vars => (Already /\ HandledMeansSettled)'
  BY AlreadyStep, HandledStep DEF Inv
<1> QED
  BY <1>1, <1>2, InvHolds, PTL DEF Spec
=============================================================================
