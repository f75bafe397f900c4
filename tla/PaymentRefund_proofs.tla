------------------------ MODULE PaymentRefund_proofs ------------------------
(***************************************************************************)
(* Types for every gateway and environment, and the money of refunds. At a *)
(* gateway that answers at once, whatever statements fail and wherever a   *)
(* process dies, what was deducted is known to the worker that holds       *)
(* REFUNDING, or to the audit row of a failed rollback. At one that leaves *)
(* refunds pending, a single admin's request knows it at every place.      *)
(***************************************************************************)
EXTENDS PaymentRefund, TLAPS

LEMMA MinOfTwo == \A a, b \in Int : Min({a, b}) \in {a, b} /\ Min({a, b}) <= a
<1> SUFFICES ASSUME NEW a \in Int, NEW b \in Int
             PROVE  Min({a, b}) \in {a, b} /\ Min({a, b}) <= a
  OBVIOUS
<1>1. \E x \in {a, b} : \A y \in {a, b} : x <= y
  <2>1. CASE a <= b
    BY <2>1
  <2>2. CASE b <= a
    BY <2>2
  <2> QED
    BY <2>1, <2>2
<1> QED
  BY <1>1 DEF Min

LEMMA MaxOfTwo == \A a \in Int : Max({a, 0}) = IF a > 0 THEN a ELSE 0
<1> SUFFICES ASSUME NEW a \in Int PROVE Max({a, 0}) = IF a > 0 THEN a ELSE 0
  OBVIOUS
<1>1. \E x \in {a, 0} : \A y \in {a, 0} : x >= y
  <2>1. CASE a <= 0
    BY <2>1
  <2>2. CASE a > 0
    BY <2>2
  <2> QED
    BY <2>1, <2>2
<1>2. Max({a, 0}) \in {a, 0} /\ Max({a, 0}) >= a /\ Max({a, 0}) >= 0
  BY <1>1 DEF Max
<1> QED
  BY <1>2

-----------------------------------------------------------------------------
\* Going somewhere with a plan keeps the types of what it writes.
LEMMA PlanType ==
    ASSUME TypeOK, NEW w \in Workers, NEW l \in Labels, NEW p \in Plans, Plan(w, p, l)
    PROVE  pc' \in [Workers -> Labels] /\ plan' \in [Workers -> Plans] /\ env' \in Environments
  BY DEF TypeOK, Plan

LEMMA GotoType ==
    ASSUME TypeOK, NEW w \in Workers, NEW l \in Labels, Goto(w, l)
    PROVE  pc' \in [Workers -> Labels] /\ plan' \in [Workers -> Plans] /\ env' \in Environments
<1>1. plan[w] \in Plans
  BY DEF TypeOK
<1> QED
  BY <1>1, PlanType DEF Goto

LEMMA NoPlanType == NoPlan \in Plans /\ NoPlan.deduct = 0 /\ NoPlan.rolledBack = TRUE
<1>1. NoPlan \in Plans
  BY AmountAssumption DEF NoPlan, Plans
<1> QED
  BY <1>1 DEF NoPlan

LEMMA EndType ==
    ASSUME TypeOK, NEW w \in Workers, End(w)
    PROVE  pc' \in [Workers -> Labels] /\ plan' \in [Workers -> Plans] /\ env' \in Environments
<1>1. "idle" \in Labels
  BY DEF Labels
<1> QED
  BY <1>1, NoPlanType, PlanType DEF End

LEMMA PlanMoves ==
    ASSUME TypeOK, NEW w \in Workers, NEW l, NEW p, Plan(w, p, l)
    PROVE  /\ pc'[w] = l /\ plan'[w] = p
           /\ \A v \in Workers \ {w} : pc'[v] = pc[v] /\ plan'[v] = plan[v]
  BY DEF TypeOK, Plan

\* The plan of an attempt: an amount of the environment, and no more deducted than that.
LEMMA PreparedPlan ==
    ASSUME TypeOK, NEW w \in Workers, PrepareRefund(w)
    PROVE  \E p \in Plans : /\ Plan(w, p, "lock") /\ p.amount \in env.amounts
                            /\ p.deduct <= Amount /\ p.rolledBack = TRUE
<1>1. PICK a \in env.amounts, wanted \in BOOLEAN :
         Plan(w, [NoPlan EXCEPT !.amount = a, !.deduct = Deduction(wanted, a),
                     !.restore = IF status = "REFUND_REQUESTED" THEN status ELSE "COMPLETED"],
              "lock")
  BY DEF PrepareRefund
<1>2. a \in 1..Amount /\ Amount \in Int /\ balance \in Int
  BY EnvironmentsAssumption, AmountAssumption DEF EnvironmentsAssumed, TypeOK
<1>3. Deduction(wanted, a) \in Int /\ Deduction(wanted, a) <= Amount
  <2>1. Min({a, balance}) <= a /\ Min({a, balance}) \in Int
    BY <1>2, MinOfTwo
  <2> QED
    BY <1>2, <2>1 DEF Deduction
<1>4. PICK back \in {"COMPLETED", "REFUND_REQUESTED"} :
         back = IF status = "REFUND_REQUESTED" THEN status ELSE "COMPLETED"
  OBVIOUS
<1>5. PICK d \in Int : d = Deduction(wanted, a) /\ d <= Amount
  BY <1>3
<1> DEFINE p == [NoPlan EXCEPT !.amount = a, !.deduct = d, !.restore = back]
<1>6. p \in Plans /\ p.amount = a /\ p.deduct = d /\ p.rolledBack = TRUE
  <2>1. a \in 0..Amount
    BY <1>2
  <2> QED
    BY <2>1, NoPlanType DEF Plans
<1>7. Plan(w, p, "lock")
  BY <1>1, <1>4, <1>5
<1> HIDE DEF p
<1> QED
  BY <1>5, <1>6, <1>7

\* The plan of a query: the amount the order shows as pending.
LEMMA QueryPlan ==
    ASSUME TypeOK, NEW w \in Workers, QueryRefund(w)
    PROVE  \E p \in Plans : /\ Plan(w, p, "detail") /\ p.amount = refundAmount
                            /\ p.deduct = 0 /\ p.rolledBack = TRUE
<1> DEFINE p == [NoPlan EXCEPT !.amount = refundAmount]
<1>1. refundAmount \in 0..Amount
  BY DEF TypeOK
<1>2. p \in Plans /\ p.amount = refundAmount /\ p.deduct = 0 /\ p.rolledBack = TRUE
  BY <1>1, NoPlanType DEF Plans
<1>3. Plan(w, p, "detail")
  BY DEF QueryRefund
<1> HIDE DEF p
<1> QED
  BY <1>2, <1>3

\* What the steps that change a plan in one place leave as it is.
LEMMA PlanKeeps ==
    ASSUME NEW p \in Plans
    PROVE  /\ LET q == [p EXCEPT !.deduct = 0]
              IN  /\ q \in Plans /\ q.deduct = 0 /\ q.amount = p.amount
                  /\ q.rolledBack = p.rolledBack /\ q.refund = p.refund
           /\ LET q == [p EXCEPT !.rolledBack = FALSE]
              IN  q \in Plans /\ q.deduct = p.deduct /\ q.amount = p.amount
           /\ \A r \in Refunds :
                LET q == [p EXCEPT !.refund = r]
                IN  /\ q \in Plans /\ q.deduct = p.deduct /\ q.amount = p.amount
                    /\ q.rolledBack = p.rolledBack
<1>1. LET q == [p EXCEPT !.deduct = 0]
      IN  /\ q \in Plans /\ q.deduct = 0 /\ q.amount = p.amount
          /\ q.rolledBack = p.rolledBack /\ q.refund = p.refund
  BY DEF Plans
<1>2. LET q == [p EXCEPT !.rolledBack = FALSE]
      IN  q \in Plans /\ q.deduct = p.deduct /\ q.amount = p.amount
  BY DEF Plans
<1>3. ASSUME NEW r \in Refunds
      PROVE  LET q == [p EXCEPT !.refund = r]
             IN  /\ q \in Plans /\ q.deduct = p.deduct /\ q.amount = p.amount
                 /\ q.rolledBack = p.rolledBack
  BY DEF Plans
<1> QED
  BY <1>1, <1>2, <1>3

\* A request that reaches the gateway: it gets the refund there is under its name, or a new
\* one for which there is room, and the worker goes on by what it hears of it.
Asked(w, r, reply) ==
    /\ r[1] = plan[w].amount /\ (env.keyed => r[2] = 1)
    /\ IF r \in Accepted THEN reply = gateway[r] ELSE Room(r[1])
    /\ r \notin Accepted /\ ~env.asynchronous => reply = "done"
    /\ gateway' = [gateway EXCEPT ![r] = reply]
    /\ pc'[w] \in {"ok", "undo_pending", "undo_failed"}
    /\ pc'[w] = "ok" => reply = "done"
    /\ pc'[w] = "undo_pending" => reply = "processing"
    /\ reply = "done" => pc'[w] = "ok" \/ "gateway" \in env.mayFail
    /\ plan'[w] \in Plans /\ plan'[w].deduct = plan[w].deduct
    /\ plan'[w].amount = plan[w].amount /\ plan'[w].rolledBack = plan[w].rolledBack
    /\ Plan(w, plan'[w], pc'[w])
    /\ \A v \in Workers \ {w} : pc'[v] = pc[v] /\ plan'[v] = plan[v]

LEMMA RefundMoves ==
    ASSUME TypeOK, NEW w \in Workers, GatewayRefund(w)
    PROVE  \E r \in Refunds, reply \in {"processing", "done"} : Asked(w, r, reply)
<1>p. plan[w] \in Plans
  BY DEF TypeOK
<1>1. PICK r \in Requested(plan[w].amount) : \E reply \in RefundReplies(r) :
         /\ gateway' = [gateway EXCEPT ![r] = reply]
         /\ \/ /\ NoFault
               /\ Plan(w, [plan[w] EXCEPT !.refund = r],
                       CASE Succeeded(reply) -> "ok"
                         [] reply = "processing" -> "undo_pending"
                         [] OTHER -> "undo_failed")
            \/ Fault(w) /\ Goto(w, "undo_failed")
  BY DEF GatewayRefund
<1>2. PICK reply \in RefundReplies(r) :
         /\ gateway' = [gateway EXCEPT ![r] = reply]
         /\ \/ Plan(w, [plan[w] EXCEPT !.refund = r],
                    CASE Succeeded(reply) -> "ok"
                      [] reply = "processing" -> "undo_pending"
                      [] OTHER -> "undo_failed")
            \/ Fault(w) /\ Plan(w, plan[w], "undo_failed")
  BY <1>1 DEF Goto
<1>3. /\ r \in Refunds /\ r[1] = plan[w].amount /\ (env.keyed => r[2] = 1)
      /\ r \notin Accepted => Room(r[1])
  BY DEF Requested, Repeated, Accepted
<1>4. /\ reply \in {"processing", "done"}
      /\ r \in Accepted => reply = gateway[r]
      /\ r \notin Accepted /\ ~env.asynchronous => reply = "done"
  BY DEF RefundReplies, Accepted
<1>5. CASE Fault(w) /\ Plan(w, plan[w], "undo_failed")
  <2>1. "gateway" \in env.mayFail
    BY <1>5 DEF Fault, GatewayRefund
  <2>2. /\ pc'[w] = "undo_failed" /\ plan'[w] = plan[w]
        /\ \A v \in Workers \ {w} : pc'[v] = pc[v] /\ plan'[v] = plan[v]
    BY <1>5, PlanMoves
  <2>3. Plan(w, plan'[w], pc'[w])
    BY <1>5, <2>2
  <2>4. Asked(w, r, reply)
    BY <1>p, <1>2, <1>3, <1>4, <2>1, <2>2, <2>3 DEF Asked
  <2> QED
    BY <1>3, <1>4, <2>4
<1>6. CASE Plan(w, [plan[w] EXCEPT !.refund = r],
                CASE Succeeded(reply) -> "ok"
                  [] reply = "processing" -> "undo_pending"
                  [] OTHER -> "undo_failed")
  <2>1. /\ [plan[w] EXCEPT !.refund = r] \in Plans
        /\ [plan[w] EXCEPT !.refund = r].deduct = plan[w].deduct
        /\ [plan[w] EXCEPT !.refund = r].amount = plan[w].amount
        /\ [plan[w] EXCEPT !.refund = r].rolledBack = plan[w].rolledBack
    BY <1>p, <1>3, PlanKeeps
  <2>2. /\ pc'[w] = (IF reply = "done" THEN "ok" ELSE "undo_pending")
        /\ plan'[w] = [plan[w] EXCEPT !.refund = r]
        /\ \A v \in Workers \ {w} : pc'[v] = pc[v] /\ plan'[v] = plan[v]
    BY <1>4, <1>6, PlanMoves DEF Succeeded
  <2>3. Plan(w, plan'[w], pc'[w])
    BY <1>4, <1>6, <2>2 DEF Succeeded
  <2>4. Asked(w, r, reply)
    BY <1>2, <1>3, <1>4, <2>1, <2>2, <2>3 DEF Asked
  <2> QED
    BY <1>3, <1>4, <2>4
<1> QED
  BY <1>2, <1>5, <1>6

\* Every step of a refund, of the gateway and of the user keeps the types.
LEMMA TypeStep == TypeOK /\ [Next]_vars => TypeOK'
<1> SUFFICES ASSUME TypeOK, [Next]_vars PROVE TypeOK'
  OBVIOUS
<1> DEFINE Places == /\ pc' \in [Workers -> Labels] /\ plan' \in [Workers -> Plans]
                     /\ env' \in Environments
<1>p. \A w \in Workers : /\ plan[w] \in Plans /\ plan[w].amount \in 0..Amount
                         /\ plan[w].deduct \in Int
                         /\ plan[w].restore \in {"COMPLETED", "REFUND_REQUESTED"}
                         /\ plan[w].rolledBack \in BOOLEAN
  BY DEF TypeOK, Plans
<1>l. {"idle", "lock", "check", "deduct", "restore", "gateway", "ok", "undo_pending",
       "log_pending", "pending", "undo_failed", "log_failed", "failed", "log_ok",
       "log_refund_pending", "detail", "query", "final_check", "final_deduct",
       "final_failed"} \subseteq Labels
  BY DEF Labels
<1>f. ASSUME NEW w \in Workers, NoFault \/ Fault(w) PROVE faults' \in Nat
  BY <1>f DEF TypeOK, NoFault, Fault
<1>1. CASE Spend \/ RequestRefund \/ UNCHANGED vars
  <2>1. CASE Spend
    BY <2>1 DEF Spend, TypeOK, orderVars
  <2>2. CASE RequestRefund
    BY <2>2, AmountAssumption DEF RequestRefund, TypeOK, Statuses, moneyVars
  <2>3. CASE UNCHANGED vars
    BY <2>3 DEF vars, TypeOK
  <2> QED
    BY <1>1, <2>1, <2>2, <2>3
<1>2. CASE GatewaySettles
  BY <1>2 DEF GatewaySettles, TypeOK, orderVars, moneyVars
<1>3. ASSUME NEW w \in Workers, PrepareRefund(w) \/ QueryRefund(w) PROVE TypeOK'
  <2>1. Places
    BY <1>3, <1>l, PreparedPlan, QueryPlan, PlanType
  <2> QED
    BY <1>3, <2>1 DEF PrepareRefund, QueryRefund, TypeOK, orderVars, moneyVars
<1>4. ASSUME NEW w \in Workers, LockRefund(w) PROVE TypeOK'
  <2>1. Places
    BY <1>4, <1>l, GotoType, EndType DEF LockRefund
  <2>2. faults' \in Nat
    BY <1>4, <1>f DEF LockRefund
  <2> QED
    BY <1>4, <2>1, <2>2 DEF LockRefund, TypeOK, Statuses, moneyVars
<1>5. ASSUME NEW w \in Workers, CheckDeducted(w) \/ CheckFinalized(w) PROVE TypeOK'
  <2>1. [plan[w] EXCEPT !.deduct = 0] \in Plans
    BY <1>p DEF Plans
  <2>2. Places
    BY <1>5, <1>l, <2>1, GotoType, PlanType DEF CheckDeducted, CheckFinalized
  <2>3. faults' \in Nat
    BY <1>5, <1>f DEF CheckDeducted, CheckFinalized
  <2> QED
    BY <1>5, <2>2, <2>3 DEF CheckDeducted, CheckFinalized, TypeOK, orderVars, moneyVars
<1>6. ASSUME NEW w \in Workers, DeductBalance(w) \/ FinalDeduct(w) PROVE TypeOK'
  <2>1. Places
    BY <1>6, <1>l, GotoType, EndType DEF DeductBalance, FinalDeduct
  <2>2. balance' \in Int /\ deducted' \in Int
    BY <1>6, <1>p DEF DeductBalance, FinalDeduct, Deduct, moneyVars, TypeOK
  <2>3. faults' \in Nat
    BY <1>6, <1>f DEF DeductBalance, FinalDeduct
  <2> QED
    BY <1>6, <2>1, <2>2, <2>3 DEF DeductBalance, FinalDeduct, TypeOK, orderVars
<1>7. ASSUME NEW w \in Workers, RestoreStatus(w) \/ MarkRefundFailed(w) PROVE TypeOK'
  <2>1. Places
    BY <1>7, EndType DEF RestoreStatus, MarkRefundFailed
  <2>2. status' \in Statuses
    BY <1>7, <1>p DEF RestoreStatus, MarkRefundFailed, TypeOK, Statuses
  <2>3. faults' \in Nat
    BY <1>7, <1>f DEF RestoreStatus, MarkRefundFailed
  <2> QED
    BY <1>7, <2>1, <2>2, <2>3 DEF RestoreStatus, MarkRefundFailed, TypeOK, moneyVars
<1>8. ASSUME NEW w \in Workers, GatewayRefund(w) PROVE TypeOK'
  <2>1. PICK r \in Refunds, reply \in {"processing", "done"} :
           gateway' = [gateway EXCEPT ![r] = reply]
    BY <1>8, RefundMoves DEF Asked
  <2>2. gateway' \in [Refunds -> {"none", "processing", "done", "failed"}]
    BY <2>1 DEF TypeOK
  <2>3. plan'[w] \in Plans /\ pc'[w] \in Labels /\ Plan(w, plan'[w], pc'[w])
    BY <1>8, <1>l, RefundMoves DEF Asked
  <2>4. Places
    BY <2>3, PlanType
  <2>5. faults' \in Nat
    BY <1>8, <1>f DEF GatewayRefund
  <2> QED
    BY <1>8, <2>2, <2>4, <2>5 DEF GatewayRefund, TypeOK, orderVars, moneyVars
<1>9. ASSUME NEW w \in Workers, MarkRefundOk(w) \/ LogRefundOk(w) PROVE TypeOK'
  <2>1. Places
    BY <1>9, <1>l, GotoType, EndType DEF MarkRefundOk, LogRefundOk
  <2>2. status' \in Statuses /\ refundAmount' \in 0..Amount
    BY <1>9, <1>p DEF MarkRefundOk, LogRefundOk, FinalStatus, FinalAmount, TypeOK, Statuses
  <2>3. faults' \in Nat
    BY <1>9, <1>f DEF MarkRefundOk, LogRefundOk
  <2>4. audit' \subseteq {"REFUND_ROLLBACK_FAILED", "REFUND_SUCCESS"}
    BY <1>9 DEF MarkRefundOk, LogRefundOk, TypeOK
  <2> QED
    BY <1>9, <2>1, <2>2, <2>3, <2>4 DEF MarkRefundOk, LogRefundOk, TypeOK, moneyVars
<1>10. ASSUME NEW w \in Workers, RollbackRefund(w) PROVE TypeOK'
  <2>0. [plan[w] EXCEPT !.deduct = 0] \in Plans
    BY <1>p DEF Plans
  <2>1. [plan[w] EXCEPT !.rolledBack = FALSE] \in Plans
    BY <1>p DEF Plans
  <2>2. Places
    BY <2>0, <1>10, <1>l, <2>1, PlanType DEF RollbackRefund
  <2>3. GiveBack(w) \in Int
    BY <1>p, MaxOfTwo DEF GiveBack
  <2>4. balance' \in Int /\ deducted' \in Int
    BY <1>10, <2>3 DEF RollbackRefund, moneyVars, TypeOK
  <2>5. faults' \in Nat
    BY <1>10, <1>f DEF RollbackRefund
  <2> QED
    BY <1>10, <2>2, <2>4, <2>5 DEF RollbackRefund, TypeOK, orderVars
<1>11. ASSUME NEW w \in Workers, LogRollbackFailed(w) PROVE TypeOK'
  <2>1. Places
    BY <1>11, <1>l, GotoType DEF LogRollbackFailed
  <2>2. audit' \subseteq {"REFUND_ROLLBACK_FAILED", "REFUND_SUCCESS"}
    BY <1>11 DEF LogRollbackFailed, TypeOK
  <2>3. faults' \in Nat
    BY <1>11, <1>f DEF LogRollbackFailed
  <2> QED
    BY <1>11, <2>1, <2>2, <2>3 DEF LogRollbackFailed, TypeOK, moneyVars
<1>12. ASSUME NEW w \in Workers, MarkRefundPending(w) \/ LogRefundPending(w) PROVE TypeOK'
  <2>1. Places
    BY <1>12, <1>l, GotoType, EndType DEF MarkRefundPending, LogRefundPending
  <2>2. status' \in Statuses /\ refundAmount' \in 0..Amount
    BY <1>12, <1>p DEF MarkRefundPending, LogRefundPending, TypeOK, Statuses
  <2>3. pending' \in [refund : Refunds \cup {NoRefund}, rolledBack : BOOLEAN]
    BY <1>12, <1>p DEF MarkRefundPending, LogRefundPending, TypeOK, Plans
  <2>4. faults' \in Nat
    BY <1>12, <1>f DEF MarkRefundPending, LogRefundPending
  <2> QED
    BY <1>12, <2>1, <2>2, <2>3, <2>4 DEF MarkRefundPending, LogRefundPending, TypeOK, moneyVars
<1>13. ASSUME NEW w \in Workers, ReadDetail(w) PROVE TypeOK'
  <2>1. PICK detail \in {pending, NoDetail} :
           /\ NoFault \/ Fault(w)
           /\ Plan(w, [plan[w] EXCEPT !.refund = detail.refund,
                                      !.deduct = FinalDeduction(w, detail)], "query")
    BY <1>13 DEF ReadDetail
  <2>2. detail.refund \in Refunds \cup {NoRefund} /\ FinalDeduction(w, detail) \in Int
    BY <1>p, AmountAssumption DEF TypeOK, NoDetail, FinalDeduction
  <2>3. [plan[w] EXCEPT !.refund = detail.refund, !.deduct = FinalDeduction(w, detail)] \in Plans
    BY <1>p, <2>2 DEF Plans
  <2>4. Places /\ faults' \in Nat
    BY <1>f, <1>l, <2>1, <2>3, PlanType
  <2> QED
    BY <1>13, <2>4 DEF ReadDetail, TypeOK, orderVars, moneyVars
<1>14. ASSUME NEW w \in Workers, GatewayAnswers(w) \/ GatewaySkipped(w) \/ GatewayRefuses(w)
       PROVE  TypeOK'
  <2>1. Places
    BY <1>14, <1>l, GotoType, EndType DEF GatewayAnswers, GatewaySkipped, GatewayRefuses
  <2>2. faults' \in Nat
    BY <1>14, <1>f DEF GatewayAnswers, GatewaySkipped, GatewayRefuses
  <2> QED
    BY <1>14, <2>1, <2>2
       DEF GatewayAnswers, GatewaySkipped, GatewayRefuses, TypeOK, orderVars, moneyVars
<1>15. ASSUME NEW w \in Workers, Crash(w) PROVE TypeOK'
  BY <1>15, EndType DEF Crash, TypeOK, orderVars, moneyVars
<1> QED
  BY <1>1, <1>2, <1>3, <1>4, <1>5, <1>6, <1>7, <1>8, <1>9, <1>10, <1>11, <1>12, <1>13, <1>14, <1>15
     DEF Next, ExecuteRefund, FinalizeRefund

LEMMA TypeInit == Init => TypeOK
  BY AmountAssumption DEF Init, TypeOK, Statuses, NoDetail, NoPlan, Plans, Labels

\* For any workers, environments and faults, refunds keep every variable in its type.
THEOREM TypeCorrect == Spec => []TypeOK
  BY TypeInit, TypeStep, PTL DEF Spec
-----------------------------------------------------------------------------
\* A behaviour stays in its environment.
LEMMA EnvStays == [Next]_vars => env' = env
<1> SUFFICES ASSUME [Next]_vars PROVE env' = env
  OBVIOUS
<1> USE DEF Goto, End, Plan
<1>1. CASE Spend \/ RequestRefund \/ GatewaySettles \/ UNCHANGED vars
  BY <1>1 DEF Spend, RequestRefund, GatewaySettles, vars
<1>2. ASSUME NEW w \in Workers, PrepareRefund(w) \/ QueryRefund(w) \/ FinalizeRefund(w) \/ Crash(w)
      PROVE  env' = env
  BY <1>2 DEF PrepareRefund, QueryRefund, FinalizeRefund, ReadDetail, GatewayAnswers,
              CheckFinalized, FinalDeduct, Crash
<1>3. ASSUME NEW w \in Workers, ExecuteRefund(w) PROVE env' = env
  BY <1>3 DEF ExecuteRefund, LockRefund, CheckDeducted, DeductBalance, GatewaySkipped,
              GatewayRefund, GatewayRefuses, MarkRefundOk, LogRefundOk, RollbackRefund,
              LogRollbackFailed, MarkRefundPending, LogRefundPending, MarkRefundFailed,
              RestoreStatus
<1> QED
  BY <1>1, <1>2, <1>3 DEF Next

-----------------------------------------------------------------------------
\* At a gateway that answers at once.

\* Where a worker has set REFUNDING and not left it, and where it has no part in the order.
Holding == {"check", "deduct", "restore", "gateway", "ok", "undo_failed", "log_failed", "failed"}

Free == {"idle", "lock", "log_ok"}

Holder ==
    /\ status # "REFUND_PENDING"
    /\ \A w \in Workers : pc[w] \in Holding \cup Free
    /\ \A w \in Workers : pc[w] \in Holding => status = "REFUNDING"
    /\ \A v, w \in Workers : pc[v] \in Holding /\ pc[w] \in Holding => v = w

\* The gateway has refunded nothing until the order is marked.
NothingBack == \A r \in Refunds : gateway[r] = "none"

AtGateway ==
    /\ \A r \in Refunds : gateway[r] \in {"none", "done"}
    /\ Refundable => NothingBack
    /\ \A w \in Workers : pc[w] \in Holding \ {"ok"} => NothingBack

Taken(w) == IF plan[w].deduct > 0 THEN plan[w].deduct ELSE 0
Logged == "REFUND_ROLLBACK_FAILED" \in audit

\* What was deducted is in the plan of the holder, or the failed rollback is on record and the
\* holder deducts and gives back nothing.
Money ==
    /\ 0 <= deducted /\ deducted <= Amount
    /\ status = "REFUND_FAILED" => Logged
    /\ ~Logged /\ Refundable => deducted = 0
    /\ \A w \in Workers :
         /\ pc[w] # "idle" => plan[w].deduct <= Amount
         /\ pc[w] \in {"check", "deduct"} => plan[w].deduct > 0
         /\ pc[w] = "deduct" => ~Logged
         /\ pc[w] = "failed" => Logged
         /\ ~Logged /\ pc[w] \in {"check", "deduct", "restore"} => deducted = 0
         /\ ~Logged /\ pc[w] \in {"gateway", "undo_failed"} => deducted = Taken(w)
         /\ Logged /\ pc[w] \in {"gateway", "undo_failed"} => plan[w].deduct <= 0

Safe == Holder /\ AtGateway /\ Money

LEMMA SafeInit == Init => Safe
<1> SUFFICES ASSUME Init PROVE Safe
  OBVIOUS
<1>1. /\ status = "COMPLETED" /\ deducted = 0 /\ gateway = [r \in Refunds |-> "none"]
      /\ pc = [w \in Workers |-> "idle"]
  BY DEF Init
<1>2. Holder
  BY <1>1 DEF Holder, Holding, Free
<1>3. AtGateway
  BY <1>1 DEF AtGateway, NothingBack, Holding
<1>4. Money
  BY <1>1, AmountAssumption DEF Money
<1> QED
  BY <1>2, <1>3, <1>4 DEF Safe

\* A step of a worker that holds REFUNDING, or takes it: what there is to show of it.
LEMMA HolderMoves ==
    ASSUME Holder, NEW w \in Workers,
           \A v \in Workers \ {w} : pc'[v] = pc[v],
           \/ pc[w] \in Holding
           \/ Refundable,
           \/ pc'[w] \in Holding /\ status' = "REFUNDING"
           \/ pc'[w] \in Free /\ status' # "REFUND_PENDING"
    PROVE  /\ Holder'
           /\ \A v \in Workers : pc'[v] \in Holding => v = w
           /\ \A v \in Workers \ {w} : pc[v] \in Free
<1>1. \A v \in Workers \ {w} : pc[v] \notin Holding
  BY DEF Holder, Refundable
<1>2. \A v \in Workers : pc'[v] \in Holding => v = w
  BY <1>1
<1>3. \A v \in Workers \ {w} : pc[v] \in Free
  BY <1>1 DEF Holder
<1>4. \A v \in Workers : pc'[v] \in Holding \cup Free
  BY <1>3
<1> QED
  BY <1>1, <1>2, <1>3, <1>4 DEF Holder, Holding, Free

\* A step of a worker that holds nothing, before and after, and of those who are no workers.
LEMMA OthersMove ==
    ASSUME TypeOK, Safe,
           \A v \in Workers : \/ pc'[v] = pc[v] /\ plan'[v] = plan[v]
                              \/ pc'[v] = "idle"
                              \/ pc'[v] = "lock" /\ plan'[v].deduct <= Amount,
           UNCHANGED <<gateway, deducted>>, Logged' = Logged,
           \/ status' = status
           \/ status = "COMPLETED" /\ status' = "REFUND_REQUESTED"
    PROVE  Safe'
<1>1. Refundable' = Refundable /\ NothingBack' = NothingBack
  BY DEF Refundable, NothingBack
<1>2. Holder'
  BY DEF Safe, Holder, Holding, Free
<1>3. AtGateway'
  BY <1>1 DEF Safe, AtGateway, Holding
<1>4. \A v \in Workers : pc'[v] \notin {"idle", "lock"} => pc'[v] = pc[v] /\ plan'[v] = plan[v]
  OBVIOUS
<1>5. \A v \in Workers : pc'[v] # "idle" => plan'[v].deduct <= Amount
  BY DEF Safe, Money
<1>6. status' = "REFUND_FAILED" => Logged
  BY DEF Safe, Money
<1>7. Money'
  BY <1>1, <1>4, <1>5, <1>6 DEF Safe, Money, Taken
<1> QED
  BY <1>2, <1>3, <1>7 DEF Safe

\* A step of the holder: the others have nothing at stake.
LEMMA MoneyMoves ==
    ASSUME TypeOK, Safe, NEW w \in Workers,
           \A v \in Workers \ {w} : /\ pc[v] \in Free
                                    /\ pc'[v] = pc[v] /\ plan'[v] = plan[v],
           0 <= deducted', deducted' <= Amount,
           status' = "REFUND_FAILED" => Logged',
           (~Logged /\ Refundable)' => deducted' = 0,
           pc'[w] # "idle" => plan'[w].deduct <= Amount,
           pc'[w] \in {"check", "deduct"} => plan'[w].deduct > 0,
           pc'[w] = "deduct" => ~Logged',
           pc'[w] = "failed" => Logged',
           ~Logged' /\ pc'[w] \in {"check", "deduct", "restore"} => deducted' = 0,
           ~Logged' /\ pc'[w] \in {"gateway", "undo_failed"} => deducted' = Taken(w)',
           Logged' /\ pc'[w] \in {"gateway", "undo_failed"} => plan'[w].deduct <= 0
    PROVE  Money'
<1>1. \A v \in Workers \ {w} : pc'[v] \in Free /\ (pc'[v] # "idle" => plan'[v].deduct <= Amount)
  BY DEF Safe, Money
<1>2. \A v \in Workers : pc'[v] \notin Free => v = w
  BY <1>1
<1> QED
  BY <1>1, <1>2 DEF Money, Free

LEMMA SafeStep == AnswersAtOnce(env) /\ TypeOK /\ Safe /\ [Next]_vars => Safe'
<1> SUFFICES ASSUME AnswersAtOnce(env), TypeOK, Safe, [Next]_vars PROVE Safe'
  OBVIOUS
<1>p. \A w \in Workers : plan[w] \in Plans /\ plan[w].deduct \in Int
  BY DEF TypeOK, Plans
<1>e. ~env.asynchronous /\ env.mayFail \cap {"check", "gateway", "log_failed"} = {}
  BY DEF AnswersAtOnce, TypeOK
<1>i. deducted \in Int /\ Amount \in Int /\ 0 <= deducted /\ deducted <= Amount
  BY AmountAssumption DEF TypeOK, Safe, Money
<1>1. CASE Spend \/ RequestRefund \/ UNCHANGED vars
  <2>1. /\ \A v \in Workers : pc'[v] = pc[v] /\ plan'[v] = plan[v]
        /\ UNCHANGED <<gateway, deducted, audit>>
        /\ status' = status \/ (status = "COMPLETED" /\ status' = "REFUND_REQUESTED")
    BY <1>1 DEF Spend, RequestRefund, vars, orderVars, moneyVars
  <2> QED
    BY <2>1, OthersMove DEF Logged
<1>2. CASE GatewaySettles
  BY <1>2 DEF GatewaySettles, Safe, AtGateway
<1>3. ASSUME NEW w \in Workers, PrepareRefund(w) PROVE Safe'
  <2>1. PICK p \in Plans : Plan(w, p, "lock") /\ p.deduct <= Amount
    BY <1>3, PreparedPlan
  <2>2. /\ pc'[w] = "lock" /\ plan'[w].deduct <= Amount
        /\ \A v \in Workers \ {w} : pc'[v] = pc[v] /\ plan'[v] = plan[v]
    BY <2>1, PlanMoves
  <2>3. UNCHANGED <<gateway, deducted, status>> /\ Logged' = Logged
    BY <1>3 DEF PrepareRefund, orderVars, moneyVars, Logged
  <2> QED
    BY <2>2, <2>3, OthersMove
<1>4. ASSUME NEW w \in Workers, LockRefund(w) PROVE Safe'
  <2>1. pc[w] = "lock" /\ UNCHANGED <<gateway, deducted, audit>>
    BY <1>4 DEF LockRefund, moneyVars
  <2>2. CASE End(w) /\ UNCHANGED status
    <3>1. pc'[w] = "idle" /\ \A v \in Workers \ {w} : pc'[v] = pc[v] /\ plan'[v] = plan[v]
      BY <2>2, PlanMoves DEF End
    <3> QED
      BY <2>1, <2>2, <3>1, OthersMove DEF Logged
  <2>3. CASE /\ Refundable /\ status' = "REFUNDING"
             /\ Goto(w, IF plan[w].deduct > 0 THEN "check" ELSE "gateway")
    <3>1. /\ pc'[w] = (IF plan[w].deduct > 0 THEN "check" ELSE "gateway") /\ plan'[w] = plan[w]
          /\ \A v \in Workers \ {w} : pc'[v] = pc[v] /\ plan'[v] = plan[v]
      BY <2>3, PlanMoves DEF Goto
    <3>2. /\ Holder' /\ \A v \in Workers : pc'[v] \in Holding => v = w
          /\ \A v \in Workers \ {w} : pc[v] \in Free
      BY <2>3, <3>1, HolderMoves DEF Safe, Holding
    <3>3. AtGateway'
      BY <2>1, <2>3 DEF Safe, AtGateway, NothingBack, Refundable
    <3>4. /\ Logged' = Logged /\ ~Refundable' /\ Taken(w)' = Taken(w)
          /\ ~Logged => deducted = 0
      BY <2>1, <2>3, <3>1 DEF Logged, Refundable, Taken, Safe, Money
    <3>5. plan[w].deduct <= Amount
      BY <2>1 DEF Safe, Money
    <3>6. Money'
      BY <1>p, <1>i, <2>1, <2>3, <3>1, <3>2, <3>4, <3>5, MoneyMoves DEF Taken
    <3> QED
      BY <3>2, <3>3, <3>6 DEF Safe
  <2> QED
    BY <1>4, <2>2, <2>3 DEF LockRefund
<1>5. ASSUME NEW w \in Workers, CheckDeducted(w) PROVE Safe'
  <2>1. /\ pc[w] = "check" /\ UNCHANGED <<gateway, deducted, audit, status>>
        /\ plan[w].deduct > 0 /\ plan[w].deduct <= Amount /\ status = "REFUNDING"
    BY <1>5 DEF CheckDeducted, orderVars, moneyVars, Safe, Money, Holder, Holding
  <2>2. \/ Logged /\ Plan(w, [plan[w] EXCEPT !.deduct = 0], "gateway")
        \/ ~Logged /\ Plan(w, plan[w], "deduct")
    BY <1>5, <1>e, <2>1 DEF CheckDeducted, Fault, Logged, AlreadyDeducted, Goto
  <2>3. /\ \/ Logged /\ pc'[w] = "gateway" /\ plan'[w].deduct = 0
           \/ ~Logged /\ pc'[w] = "deduct" /\ plan'[w] = plan[w]
        /\ \A v \in Workers \ {w} : pc'[v] = pc[v] /\ plan'[v] = plan[v]
    <3>1. [plan[w] EXCEPT !.deduct = 0].deduct = 0
      BY <1>p DEF Plans
    <3>2. CASE Logged /\ Plan(w, [plan[w] EXCEPT !.deduct = 0], "gateway")
      BY <1>p, <3>2 DEF Plan, TypeOK, Plans
    <3>3. CASE ~Logged /\ Plan(w, plan[w], "deduct")
      BY <3>3, PlanMoves
    <3> QED
      BY <2>2, <3>2, <3>3
  <2>4. /\ Holder' /\ \A v \in Workers : pc'[v] \in Holding => v = w
        /\ \A v \in Workers \ {w} : pc[v] \in Free
    BY <2>1, <2>3, HolderMoves DEF Safe, Holding
  <2>5. NothingBack /\ NothingBack' /\ AtGateway'
    BY <2>1, <2>4 DEF Safe, AtGateway, NothingBack, Refundable, Holding
  <2>6. Logged' = Logged /\ ~Refundable' /\ (~Logged => deducted = 0)
    BY <2>1 DEF Logged, Refundable, Safe, Money
  <2>7. Money'
    BY <1>i, <2>1, <2>3, <2>4, <2>6, MoneyMoves
  <2> QED
    BY <2>4, <2>5, <2>7 DEF Safe
<1>6. ASSUME NEW w \in Workers, DeductBalance(w) PROVE Safe'
  <2>1. /\ pc[w] = "deduct" /\ UNCHANGED <<gateway, audit, status>> /\ status = "REFUNDING"
        /\ plan[w].deduct > 0 /\ plan[w].deduct <= Amount /\ ~Logged /\ deducted = 0
    BY <1>6 DEF DeductBalance, orderVars, Safe, Money, Holder, Holding
  <2>2. \/ deducted' = deducted + plan[w].deduct /\ Plan(w, plan[w], "gateway")
        \/ deducted' = deducted /\ Plan(w, plan[w], "restore")
    BY <1>6 DEF DeductBalance, Deduct, moneyVars, Goto
  <2>3. /\ plan'[w] = plan[w]
        /\ \/ pc'[w] = "gateway" /\ deducted' = plan[w].deduct
           \/ pc'[w] = "restore" /\ deducted' = 0
        /\ \A v \in Workers \ {w} : pc'[v] = pc[v] /\ plan'[v] = plan[v]
    BY <1>p, <2>1, <2>2, PlanMoves
  <2>4. /\ Holder' /\ \A v \in Workers : pc'[v] \in Holding => v = w
        /\ \A v \in Workers \ {w} : pc[v] \in Free
    BY <2>1, <2>3, HolderMoves DEF Safe, Holding
  <2>5. NothingBack /\ NothingBack' /\ AtGateway'
    BY <2>1, <2>4 DEF Safe, AtGateway, NothingBack, Refundable, Holding
  <2>6. Logged' = Logged /\ ~Refundable' /\ Taken(w)' = plan[w].deduct
    BY <2>1, <2>3 DEF Logged, Refundable, Taken
  <2>7. Money'
    BY <1>i, <1>p, <2>1, <2>3, <2>4, <2>6, MoneyMoves
  <2> QED
    BY <2>4, <2>5, <2>7 DEF Safe
<1>7. ASSUME NEW w \in Workers, RestoreStatus(w) \/ MarkRefundFailed(w) PROVE Safe'
  <2>1. /\ UNCHANGED <<gateway, deducted, audit>> /\ pc[w] \in {"restore", "failed"}
        /\ status = "REFUNDING"
        /\ status' \in (IF pc[w] = "failed" THEN {"REFUND_FAILED", status}
                        ELSE {"COMPLETED", "REFUND_REQUESTED", status})
    BY <1>7, <1>p DEF RestoreStatus, MarkRefundFailed, moneyVars, Plans, Safe, Holder, Holding, Free
  <2>2. pc'[w] = "idle" /\ \A v \in Workers \ {w} : pc'[v] = pc[v] /\ plan'[v] = plan[v]
    BY <1>7, PlanMoves DEF RestoreStatus, MarkRefundFailed, End
  <2>3. /\ Holder' /\ \A v \in Workers : pc'[v] \in Holding => v = w
        /\ \A v \in Workers \ {w} : pc[v] \in Free
    BY <2>1, <2>2, HolderMoves DEF Safe, Holding, Free
  <2>4. NothingBack /\ NothingBack' /\ AtGateway'
    BY <2>1 DEF Safe, AtGateway, NothingBack, Holding
  <2>5. /\ Logged' = Logged
        /\ pc[w] = "failed" => Logged
        /\ ~Logged /\ pc[w] = "restore" => deducted = 0
    BY <2>1 DEF Logged, Safe, Money
  <2>6. /\ status' = "REFUND_FAILED" => Logged'
        /\ (~Logged /\ Refundable)' => deducted' = 0
    <3>1. CASE pc[w] = "failed"
      <4>1. Logged /\ Logged'
        BY <2>5, <3>1
      <4> QED
        BY <4>1
    <3>2. CASE pc[w] = "restore"
      <4>1. status' \in {"COMPLETED", "REFUND_REQUESTED", "REFUNDING"}
        BY <2>1, <3>2
      <4>2. ~Logged' => deducted' = 0
        BY <2>1, <2>5, <3>2
      <4> QED
        BY <4>1, <4>2
    <3> QED
      BY <2>1, <3>1, <3>2
  <2>7. Money'
    BY <1>i, <2>1, <2>2, <2>3, <2>6, MoneyMoves
  <2> QED
    BY <2>3, <2>4, <2>7 DEF Safe
<1>8. ASSUME NEW w \in Workers, GatewaySkipped(w) \/ GatewayRefund(w) \/ GatewayRefuses(w)
      PROVE  Safe'
  <2>1. /\ pc[w] = "gateway" /\ UNCHANGED <<deducted, audit, status>> /\ status = "REFUNDING"
        /\ NothingBack
    BY <1>8 DEF GatewaySkipped, GatewayRefund, GatewayRefuses, orderVars, moneyVars, Safe, Holder,
                Holding, AtGateway
  <2>2. /\ plan'[w].deduct = plan[w].deduct
        /\ \/ pc'[w] \in {"ok", "undo_failed"} /\ gateway' = gateway
           \/ pc'[w] = "ok" /\ \E r \in Refunds : gateway' = [gateway EXCEPT ![r] = "done"]
        /\ \A v \in Workers \ {w} : pc'[v] = pc[v] /\ plan'[v] = plan[v]
    <3>1. CASE GatewaySkipped(w) \/ GatewayRefuses(w)
      BY <3>1, PlanMoves DEF GatewaySkipped, GatewayRefuses, Goto
    <3>2. CASE GatewayRefund(w)
      <4>1. PICK r \in Refunds, reply \in {"processing", "done"} : Asked(w, r, reply)
        BY <3>2, RefundMoves
      <4>2. reply = "done" /\ pc'[w] = "ok"
        BY <1>e, <2>1, <4>1 DEF Asked, Accepted, NothingBack
      <4> QED
        BY <4>1, <4>2 DEF Asked
    <3> QED
      BY <1>8, <3>1, <3>2
  <2>3. /\ Holder' /\ \A v \in Workers : pc'[v] \in Holding => v = w
        /\ \A v \in Workers \ {w} : pc[v] \in Free
    BY <2>1, <2>2, HolderMoves DEF Safe, Holding
  <2>4. \A r \in Refunds : gateway'[r] \in {"none", "done"}
    BY <2>1, <2>2 DEF NothingBack, TypeOK
  <2>5. pc'[w] # "ok" => NothingBack'
    BY <2>1, <2>2 DEF NothingBack
  <2>6. AtGateway'
    BY <2>1, <2>3, <2>4, <2>5 DEF AtGateway, Refundable
  <2>7. /\ Logged' = Logged /\ ~Refundable' /\ Taken(w)' = Taken(w)
        /\ ~Logged => deducted = Taken(w)
        /\ Logged => plan[w].deduct <= 0
        /\ plan[w].deduct <= Amount
    BY <2>1, <2>2 DEF Logged, Refundable, Taken, Safe, Money
  <2>8. Money'
    BY <1>i, <2>1, <2>2, <2>3, <2>7, MoneyMoves
  <2> QED
    BY <2>3, <2>6, <2>8 DEF Safe
<1>9. ASSUME NEW w \in Workers, MarkRefundOk(w) PROVE Safe'
  <2>1. /\ UNCHANGED <<deducted, gateway>> /\ Logged' = Logged
        /\ pc[w] = "ok" /\ pc[w] \in Holding /\ status = "REFUNDING"
        /\ status' \in {"PARTIALLY_REFUNDED", "REFUNDED", status}
        /\ plan[w].deduct <= Amount
    BY <1>9 DEF MarkRefundOk, FinalStatus, moneyVars, Logged, Safe, Holder, Holding, Money
  <2>2. /\ pc'[w] \in {"idle", "log_ok"} /\ (pc'[w] # "idle" => plan'[w] = plan[w])
        /\ \A v \in Workers \ {w} : pc'[v] = pc[v] /\ plan'[v] = plan[v]
    BY <1>9, PlanMoves DEF MarkRefundOk, End, Goto
  <2>3. /\ Holder' /\ \A v \in Workers : pc'[v] \in Holding => v = w
        /\ \A v \in Workers \ {w} : pc[v] \in Free
    BY <2>1, <2>2, HolderMoves DEF Safe, Holding, Free
  <2>4. AtGateway' /\ ~Refundable'
    BY <2>1, <2>2, <2>3 DEF Safe, AtGateway, Refundable, Holding
  <2>5. Money'
    BY <1>i, <2>1, <2>2, <2>3, <2>4, MoneyMoves
  <2> QED
    BY <2>3, <2>4, <2>5 DEF Safe
<1>10. ASSUME NEW w \in Workers, RollbackRefund(w) PROVE Safe'
  <2>1. /\ pc[w] = "undo_failed" /\ UNCHANGED <<gateway, audit, status>> /\ status = "REFUNDING"
    BY <1>10 DEF RollbackRefund, orderVars, Safe, Holder, Holding, Free
  <2>2. GiveBack(w) = Taken(w)
    BY <1>p, MaxOfTwo DEF GiveBack, Taken
  <2>3. \/ /\ deducted' = deducted - Taken(w)
           /\ Plan(w, [plan[w] EXCEPT !.deduct = 0], "restore")
        \/ /\ deducted' = deducted /\ plan[w].deduct > 0
           /\ Plan(w, [plan[w] EXCEPT !.rolledBack = FALSE], "log_failed")
    BY <1>10, <2>1, <2>2 DEF RollbackRefund, moneyVars
  <2>4. /\ [plan[w] EXCEPT !.deduct = 0].deduct = 0
        /\ [plan[w] EXCEPT !.rolledBack = FALSE].deduct = plan[w].deduct
    BY <1>p DEF Plans
  <2>5. /\ \/ pc'[w] = "restore" /\ deducted' = deducted - Taken(w) /\ plan'[w].deduct = 0
           \/ /\ pc'[w] = "log_failed" /\ deducted' = deducted /\ plan'[w].deduct = plan[w].deduct
        /\ \A v \in Workers \ {w} : pc'[v] = pc[v] /\ plan'[v] = plan[v]
    <3>1. CASE /\ deducted' = deducted - Taken(w)
               /\ Plan(w, [plan[w] EXCEPT !.deduct = 0], "restore")
      BY <1>p, <3>1 DEF Plan, TypeOK, Plans
    <3>2. CASE /\ deducted' = deducted /\ plan[w].deduct > 0
               /\ Plan(w, [plan[w] EXCEPT !.rolledBack = FALSE], "log_failed")
      BY <1>p, <3>2 DEF Plan, TypeOK, Plans
    <3> QED
      BY <2>3, <3>1, <3>2
  <2>6. /\ Holder' /\ \A v \in Workers : pc'[v] \in Holding => v = w
        /\ \A v \in Workers \ {w} : pc[v] \in Free
    BY <2>1, <2>5, HolderMoves DEF Safe, Holding
  <2>7. NothingBack /\ NothingBack' /\ AtGateway'
    BY <2>1, <2>6 DEF Safe, AtGateway, NothingBack, Refundable, Holding
  <2>8. /\ Logged' = Logged /\ ~Refundable'
        /\ ~Logged => deducted = Taken(w)
        /\ Logged => Taken(w) = 0
        /\ plan[w].deduct <= Amount
    BY <1>p, <2>1 DEF Logged, Refundable, Taken, Safe, Money
  <2>9. Taken(w) \in Int
    BY <1>p DEF Taken
  <2>10. 0 <= deducted' /\ deducted' <= Amount /\ (~Logged /\ pc'[w] = "restore" => deducted' = 0)
    BY <1>i, <2>5, <2>8, <2>9
  <2>11. Money'
    BY <1>i, <2>1, <2>5, <2>6, <2>8, <2>10, MoneyMoves
  <2> QED
    BY <2>6, <2>7, <2>11 DEF Safe
<1>11. ASSUME NEW w \in Workers, LogRollbackFailed(w) PROVE Safe'
  <2>1. /\ pc[w] = "log_failed" /\ UNCHANGED <<gateway, deducted, status>> /\ status = "REFUNDING"
        /\ plan[w].deduct <= Amount
    BY <1>11 DEF LogRollbackFailed, moneyVars, Safe, Holder, Holding, Free, Money
  <2>2. Logged' /\ Plan(w, plan[w], "failed")
    BY <1>11, <1>e, <2>1 DEF LogRollbackFailed, Fault, Logged, Goto
  <2>3. /\ pc'[w] = "failed" /\ plan'[w] = plan[w]
        /\ \A v \in Workers \ {w} : pc'[v] = pc[v] /\ plan'[v] = plan[v]
    BY <2>2, PlanMoves
  <2>4. /\ Holder' /\ \A v \in Workers : pc'[v] \in Holding => v = w
        /\ \A v \in Workers \ {w} : pc[v] \in Free
    BY <2>1, <2>3, HolderMoves DEF Safe, Holding
  <2>5. NothingBack /\ NothingBack' /\ AtGateway' /\ ~Refundable'
    BY <2>1, <2>4 DEF Safe, AtGateway, NothingBack, Refundable, Holding
  <2>6. Money'
    BY <1>i, <2>1, <2>2, <2>3, <2>4, <2>5, MoneyMoves
  <2> QED
    BY <2>4, <2>5, <2>6 DEF Safe
<1>12. ASSUME NEW w \in Workers,
              \/ MarkRefundPending(w) \/ LogRefundPending(w) \/ QueryRefund(w) \/ ReadDetail(w)
              \/ GatewayAnswers(w) \/ CheckFinalized(w) \/ FinalDeduct(w)
       PROVE  FALSE
  BY <1>12 DEF MarkRefundPending, LogRefundPending, QueryRefund, ReadDetail, GatewayAnswers,
     CheckFinalized, FinalDeduct, Safe, Holder, Holding, Free
<1>13. ASSUME NEW w \in Workers, Crash(w) \/ LogRefundOk(w) PROVE Safe'
  <2>1. pc'[w] = "idle" /\ \A v \in Workers \ {w} : pc'[v] = pc[v] /\ plan'[v] = plan[v]
    BY <1>13, PlanMoves DEF Crash, LogRefundOk, End
  <2>2. UNCHANGED <<gateway, deducted, status>> /\ Logged' = Logged
    BY <1>13 DEF Crash, LogRefundOk, orderVars, moneyVars, Logged
  <2> QED
    BY <2>1, <2>2, OthersMove
<1> QED
  BY <1>1, <1>2, <1>3, <1>4, <1>5, <1>6, <1>7, <1>8, <1>9, <1>10, <1>11, <1>12, <1>13
     DEF Next, ExecuteRefund, FinalizeRefund

\* An order is marked as refunded in one place, and a worker comes there in four.
LEMMA MarkMoves ==
    ASSUME TypeOK, [Next]_vars
    PROVE  /\ \/ UNCHANGED <<status, refundAmount>> \/ status' \notin Refunded
              \/ \E w \in Workers : MarkRefundOk(w) /\ refundAmount' = plan[w].amount
           /\ \A w \in Workers : pc'[w] = "ok" =>
                 \/ pc[w] = "ok" /\ plan'[w] = plan[w]
                 \/ GatewaySkipped(w) \/ GatewayRefund(w)
                 \/ CheckFinalized(w) \/ FinalDeduct(w)
<1> DEFINE Row == \/ UNCHANGED <<status, refundAmount>> \/ status' \notin Refunded
                  \/ \E w \in Workers : MarkRefundOk(w) /\ refundAmount' = plan[w].amount
           Place(w) == pc'[w] = "ok" => pc[w] = "ok" /\ plan'[w] = plan[w]
<1> USE DEF Refunded, orderVars
<1>1. CASE Spend \/ RequestRefund \/ GatewaySettles \/ UNCHANGED vars
  BY <1>1 DEF Spend, RequestRefund, GatewaySettles, vars
<1>2. ASSUME NEW w \in Workers, NEW l, NEW p, Plan(w, p, l) PROVE
             /\ \A v \in Workers \ {w} : Place(v)
             /\ l # "ok" => \A v \in Workers : Place(v)
  BY <1>2, PlanMoves
<1>3. ASSUME NEW w \in Workers, PrepareRefund(w) \/ QueryRefund(w)
      PROVE  Row /\ \A v \in Workers : Place(v)
  <2>1. \E l, p : Plan(w, p, l) /\ l # "ok"
    <3>1. CASE PrepareRefund(w)
      <4>1. PICK p \in Plans : Plan(w, p, "lock")
        BY <3>1, PreparedPlan
      <4> QED
        BY <4>1
    <3>2. CASE QueryRefund(w)
      BY <3>2 DEF QueryRefund
    <3> QED
      BY <1>3, <3>1, <3>2
  <2>2. Row
    BY <1>3 DEF PrepareRefund, QueryRefund
  <2> QED
    BY <1>2, <2>1, <2>2
<1>4. ASSUME NEW w \in Workers,
             \/ GatewaySkipped(w) \/ GatewayRefund(w) \/ CheckFinalized(w) \/ FinalDeduct(w)
      PROVE  Row /\ \A v \in Workers \ {w} : Place(v)
  <2>1. \E l, p : Plan(w, p, l)
    BY <1>4, RefundMoves DEF GatewaySkipped, Asked, CheckFinalized, FinalDeduct, Goto, End
  <2> QED
    BY <1>2, <1>4, <2>1 DEF GatewaySkipped, GatewayRefund, CheckFinalized, FinalDeduct
<1>5. ASSUME NEW w \in Workers,
             \/ LockRefund(w) \/ CheckDeducted(w) \/ DeductBalance(w) \/ RollbackRefund(w)
             \/ LogRollbackFailed(w) \/ GatewayRefuses(w) \/ GatewayAnswers(w) \/ ReadDetail(w)
      PROVE  Row /\ \A v \in Workers : Place(v)
  <2>1. \E l, p : Plan(w, p, l) /\ l # "ok"
    BY <1>5 DEF LockRefund, CheckDeducted, DeductBalance, RollbackRefund, LogRollbackFailed,
                GatewayRefuses, GatewayAnswers, ReadDetail, Goto, End
  <2>2. Row
    BY <1>5 DEF LockRefund, CheckDeducted, DeductBalance, RollbackRefund, LogRollbackFailed,
                GatewayRefuses, GatewayAnswers, ReadDetail
  <2> QED
    BY <1>2, <2>1, <2>2
<1>6. ASSUME NEW w \in Workers,
             \/ MarkRefundPending(w) \/ LogRefundPending(w) \/ MarkRefundFailed(w)
             \/ RestoreStatus(w) \/ LogRefundOk(w) \/ Crash(w)
      PROVE  Row /\ \A v \in Workers : Place(v)
  <2>1. plan[w].restore \notin Refunded
    BY DEF TypeOK, Plans
  <2>2. Row
    BY <1>6, <2>1 DEF MarkRefundPending, LogRefundPending, MarkRefundFailed, RestoreStatus,
                      LogRefundOk, Crash
  <2>3. \E l, p : Plan(w, p, l) /\ l # "ok"
    BY <1>6 DEF MarkRefundPending, LogRefundPending, MarkRefundFailed, RestoreStatus, LogRefundOk,
                Crash, Goto, End
  <2> QED
    BY <1>2, <2>2, <2>3
<1>7. ASSUME NEW w \in Workers, MarkRefundOk(w) PROVE Row /\ \A v \in Workers : Place(v)
  <2>1. \E l, p : Plan(w, p, l) /\ l # "ok"
    BY <1>7 DEF MarkRefundOk, Goto, End
  <2> QED
    BY <1>2, <1>7, <2>1 DEF MarkRefundOk, FinalAmount
<1> QED
  BY <1>1, <1>3, <1>4, <1>5, <1>6, <1>7 DEF Next, ExecuteRefund, FinalizeRefund

\* The gateway has paid back an amount, by one refund; or nothing, if it cannot be asked.
Matches(a) ==
    IF env.traded THEN \E n \in 1..MaxTries : PaidBack = {<<a, n>>} ELSE PaidBack = {}

\* It has paid back what is about to be marked, or is, and nothing else.
Paid ==
    /\ \A w \in Workers : pc[w] # "idle" => plan[w].amount \in 1..Amount
    /\ \A w \in Workers : pc[w] = "ok" => Matches(plan[w].amount)
    /\ status \in Refunded => Matches(refundAmount)

\* What a worker asks for stays what it asked for.
LEMMA AmountMoves ==
    ASSUME TypeOK, [Next]_vars
    PROVE  \A w \in Workers : pc'[w] # "idle" =>
              \/ pc[w] # "idle" /\ plan'[w].amount = plan[w].amount
              \/ PrepareRefund(w) /\ plan'[w].amount \in env.amounts
              \/ QueryRefund(w) /\ plan'[w].amount = refundAmount
<1> DEFINE P(w) == pc'[w] # "idle" =>
                     \/ pc[w] # "idle" /\ plan'[w].amount = plan[w].amount
                     \/ PrepareRefund(w) /\ plan'[w].amount \in env.amounts
                     \/ QueryRefund(w) /\ plan'[w].amount = refundAmount
<1>p. \A w \in Workers : plan[w] \in Plans
  BY DEF TypeOK
<1>0. ASSUME NEW w \in Workers, NEW l, NEW p, Plan(w, p, l),
             l = "idle" \/ (pc[w] # "idle" /\ p.amount = plan[w].amount) \/ P(w)
      PROVE  \A v \in Workers : P(v)
  BY <1>0, PlanMoves
<1>1. CASE Spend \/ RequestRefund \/ GatewaySettles \/ UNCHANGED vars
  BY <1>1 DEF Spend, RequestRefund, GatewaySettles, vars
<1>2. ASSUME NEW w \in Workers, PrepareRefund(w) PROVE \A v \in Workers : P(v)
  <2>1. PICK p \in Plans : Plan(w, p, "lock") /\ p.amount \in env.amounts
    BY <1>2, PreparedPlan
  <2>2. plan'[w].amount \in env.amounts
    BY <2>1, PlanMoves
  <2> QED
    BY <1>0, <1>2, <2>1, <2>2
<1>3. ASSUME NEW w \in Workers, QueryRefund(w) PROVE \A v \in Workers : P(v)
  <2>1. PICK p \in Plans : Plan(w, p, "detail") /\ p.amount = refundAmount
    BY <1>3, QueryPlan
  <2>2. plan'[w].amount = refundAmount
    BY <2>1, PlanMoves
  <2> QED
    BY <1>0, <1>3, <2>1, <2>2
<1>4. ASSUME NEW w \in Workers, ExecuteRefund(w) \/ FinalizeRefund(w) \/ Crash(w)
      PROVE  \A v \in Workers : P(v)
  <2>1. \E l : \E p : /\ Plan(w, p, l)
                      /\ l = "idle" \/ (pc[w] # "idle" /\ p.amount = plan[w].amount)
    <3>1. /\ [plan[w] EXCEPT !.deduct = 0].amount = plan[w].amount
          /\ [plan[w] EXCEPT !.rolledBack = FALSE].amount = plan[w].amount
      BY <1>p DEF Plans
    <3>2. CASE LockRefund(w) \/ DeductBalance(w) \/ GatewaySkipped(w) \/ GatewayRefuses(w)
               \/ LogRollbackFailed(w) \/ GatewayAnswers(w) \/ FinalDeduct(w)
      BY <3>2 DEF LockRefund, DeductBalance, GatewaySkipped, GatewayRefuses, LogRollbackFailed,
                  GatewayAnswers, FinalDeduct, Goto, End
    <3>3. CASE CheckDeducted(w) \/ CheckFinalized(w)
      BY <3>1, <3>3 DEF CheckDeducted, CheckFinalized, Goto
    <3>4. CASE RollbackRefund(w)
      BY <3>1, <3>4 DEF RollbackRefund
    <3>5. CASE GatewayRefund(w)
      <4>1. PICK r \in Refunds, reply \in {"processing", "done"} : Asked(w, r, reply)
        BY <3>5, RefundMoves
      <4> QED
        BY <3>5, <4>1 DEF Asked, GatewayRefund
    <3>6. CASE ReadDetail(w)
      <4>1. PICK detail \in {pending, NoDetail} :
               Plan(w, [plan[w] EXCEPT !.refund = detail.refund,
                                       !.deduct = FinalDeduction(w, detail)], "query")
        BY <3>6 DEF ReadDetail
      <4>2. [plan[w] EXCEPT !.refund = detail.refund,
                            !.deduct = FinalDeduction(w, detail)].amount = plan[w].amount
        BY <1>p DEF Plans
      <4>3. pc[w] # "idle"
        BY <3>6 DEF ReadDetail
      <4> QED
        BY <4>1, <4>2, <4>3
    <3>7. CASE MarkRefundOk(w) \/ LogRefundOk(w) \/ MarkRefundPending(w) \/ LogRefundPending(w)
               \/ MarkRefundFailed(w) \/ RestoreStatus(w) \/ Crash(w)
      BY <3>7 DEF MarkRefundOk, LogRefundOk, MarkRefundPending, LogRefundPending,
                  MarkRefundFailed, RestoreStatus, Crash, Goto, End
    <3> QED
      BY <1>4, <3>2, <3>3, <3>4, <3>5, <3>6, <3>7 DEF ExecuteRefund, FinalizeRefund
  <2> QED
    BY <1>0, <2>1
<1> QED
  BY <1>1, <1>2, <1>3, <1>4 DEF Next

LEMMA PaidStep == AnswersAtOnce(env) /\ TypeOK /\ Safe /\ Paid /\ [Next]_vars => Paid'
<1> SUFFICES ASSUME AnswersAtOnce(env), TypeOK, Safe, Paid, [Next]_vars PROVE Paid'
  OBVIOUS
<1>0. \A w \in Workers : pc'[w] # "idle" => plan'[w].amount \in 1..Amount
  <2>1. env.amounts \subseteq 1..Amount
    BY EnvironmentsAssumption DEF EnvironmentsAssumed, TypeOK
  <2>2. \A w \in Workers : ~QueryRefund(w)
    BY DEF QueryRefund, Safe, Holder
  <2> QED
    BY <2>1, <2>2, AmountMoves DEF Paid
<1>1. ASSUME NEW w \in Workers, GatewayRefund(w) PROVE Paid'
  <2>1. /\ pc[w] = "gateway" /\ status' = status /\ status = "REFUNDING" /\ NothingBack
        /\ plan[w].amount \in 1..Amount /\ env.traded
    BY <1>1 DEF GatewayRefund, orderVars, Safe, Holder, Holding, AtGateway, Paid
  <2>2. \A v \in Workers : pc[v] = "ok" => FALSE
    BY <2>1 DEF Safe, Holder, Holding
  <2>3. PICK r \in Refunds, reply \in {"processing", "done"} : Asked(w, r, reply)
    BY <1>1, RefundMoves
  <2>4. /\ \A v \in Workers \ {w} : pc'[v] = pc[v]
        /\ plan'[w].amount = plan[w].amount /\ (pc'[w] = "ok" => reply = "done")
        /\ gateway' = [gateway EXCEPT ![r] = reply] /\ r[1] = plan[w].amount
    BY <2>3 DEF Asked
  <2>5. r[2] \in 1..MaxTries /\ r = <<plan[w].amount, r[2]>>
    BY <2>4 DEF Refunds
  <2>6. reply = "done" => PaidBack' = {r}
    BY <2>1, <2>4 DEF PaidBack, NothingBack, TypeOK
  <2>7. env' = env
    BY EnvStays
  <2>8. pc'[w] = "ok" => Matches(plan[w].amount)'
    BY <2>1, <2>4, <2>5, <2>6, <2>7 DEF Matches
  <2> QED
    BY <1>0, <2>1, <2>2, <2>4, <2>8 DEF Paid, Refunded, Matches
<1>2. CASE \A w \in Workers : ~GatewayRefund(w)
  <2>1. \A w \in Workers : ~CheckFinalized(w) /\ ~FinalDeduct(w)
    BY DEF CheckFinalized, FinalDeduct, Safe, Holder, Holding, Free
  <2>2. PaidBack' = PaidBack
    <3>1. ~GatewaySettles
      BY DEF GatewaySettles, Safe, AtGateway
    <3>2. gateway' = gateway
      BY <1>2, <3>1 DEF Next, vars, Spend, RequestRefund, PrepareRefund, QueryRefund, ExecuteRefund,
         FinalizeRefund, LockRefund, CheckDeducted, DeductBalance, GatewaySkipped, GatewayRefuses,
         MarkRefundOk, LogRefundOk, RollbackRefund, LogRollbackFailed, MarkRefundPending,
         LogRefundPending, MarkRefundFailed, RestoreStatus, ReadDetail, GatewayAnswers,
         CheckFinalized, FinalDeduct, Crash
    <3> QED
      BY <3>2 DEF PaidBack
  <2>3. \A a : Matches(a)' = Matches(a)
    BY <2>2, EnvStays DEF Matches
  <2>4. ASSUME NEW w \in Workers, GatewaySkipped(w) PROVE \A a : Matches(a)
    <3>1. ~env.traded /\ NothingBack
      BY <2>4 DEF GatewaySkipped, Safe, AtGateway, Holding
    <3> QED
      BY <3>1 DEF Matches, PaidBack, NothingBack
  <2>5. \A w \in Workers : pc'[w] = "ok" =>
           (pc[w] = "ok" /\ plan'[w] = plan[w]) \/ GatewaySkipped(w)
    BY <1>2, <2>1, MarkMoves
  <2>6. \A w \in Workers : MarkRefundOk(w) => pc[w] = "ok"
    BY DEF MarkRefundOk
  <2>7. status' \in Refunded => Matches(refundAmount')
    BY <2>6, MarkMoves DEF Paid
  <2>8. \A w \in Workers : pc'[w] = "ok" => Matches(plan'[w].amount)
    BY <2>4, <2>5 DEF Paid
  <2>9. \A a : Matches(a) => Matches(a)'
    BY <2>3
  <2> QED
    BY <1>0, <2>2, <2>7, <2>8, EnvStays DEF Paid, Matches
<1> QED
  BY <1>1, <1>2

-----------------------------------------------------------------------------
\* One admin who asks for one amount, at any gateway.

Attempting == {"check", "deduct", "restore", "gateway", "undo_pending", "undo_failed", "pending"}
Finalizing == {"detail", "query", "final_check", "final_deduct", "final_failed"}

\* The gateway has one refund of the order at most, if it can be asked at all.
Gate ==
    /\ \A r \in Refunds :
         gateway[r] # "none" => env.traded /\ r[1] \in env.amounts /\ (env.keyed => r[2] = 1)
    /\ \A r, s \in Accepted : r = s
Returned == env.traded => PaidBack # {}

\* What is on record: every refund is for the one amount, and nothing is deducted from an order
\* that can be refunded, unless it is about to be marked.
Book ==
    /\ ~Logged
    /\ pending.rolledBack = TRUE
    /\ Gate
    /\ status = "REFUND_PENDING" => refundAmount \in env.amounts
    /\ status \in Refunded => refundAmount \in env.amounts /\ Returned
    /\ 0 <= deducted /\ deducted <= Amount
    /\ Refundable => deducted = 0 \/ \E w \in Workers : pc[w] = "ok"

\* What the admin's request knows at each place.
Entry(w) ==
    /\ w \in env.workers /\ plan[w].amount \in env.amounts
    /\ plan[w].rolledBack = TRUE /\ plan[w].deduct <= Amount
    /\ pc[w] \in Attempting \cup Finalizing \cup {"lock", "ok", "log_ok", "log_refund_pending"}
    /\ pc[w] \in Attempting => status = "REFUNDING"
    /\ pc[w] \in Finalizing => status = "REFUND_PENDING" /\ plan[w].deduct >= 0
    /\ pc[w] \in {"check", "deduct"} => plan[w].deduct > 0
    /\ pc[w] \in {"check", "deduct", "restore", "pending"} \cup Finalizing => deducted = 0
    /\ pc[w] \in {"gateway", "undo_pending", "undo_failed"} => deducted = Taken(w)
    /\ pc[w] \in {"final_check", "final_deduct", "ok"} => Returned
    /\ pc[w] = "ok" => status \in {"REFUNDING", "REFUND_PENDING"}

Alone == Book /\ \A w \in Workers : pc[w] # "idle" => Entry(w)

\* A request that is not a repeated one finds no other refund at the gateway.
LEMMA OneAccepted ==
    ASSUME OneAdmin(env), TypeOK, Book, NEW r \in Refunds, r[1] \in env.amounts,
           env.keyed => r[2] = 1, r \notin Accepted, Room(r[1])
    PROVE  Accepted = {}
<1> SUFFICES ASSUME NEW q \in Accepted PROVE FALSE
  OBVIOUS
<1>0. env.amounts \subseteq 1..Amount /\ Amount \in Int
  BY AmountAssumption, EnvironmentsAssumption DEF TypeOK, EnvironmentsAssumed
<1>1. q \in Refunds /\ q[1] \in env.amounts /\ (env.keyed => q[2] = 1)
  BY DEF Book, Gate, Accepted
<1>2. q[1] = r[1] /\ q[1] \in 1..Amount
  BY <1>0, <1>1 DEF OneAdmin
<1>3. q[1] + r[1] <= Amount
  BY DEF Room
<1>4. CASE env.keyed
  <2>1. q = <<q[1], q[2]>> /\ r = <<r[1], r[2]>>
    BY <1>1 DEF Refunds
  <2> QED
    BY <1>1, <1>2, <1>4, <2>1
<1>5. CASE ~env.keyed
  <2>1. q[1] = Amount
    BY <1>1, <1>5 DEF OneAdmin
  <2> QED
    BY <1>0, <1>2, <1>3, <2>1
<1> QED
  BY <1>4, <1>5

LEMMA AloneInit == Init => Alone
<1> SUFFICES ASSUME Init PROVE Alone
  OBVIOUS
<1>1. \A w \in Workers : pc[w] = "idle"
  BY DEF Init
<1>2. Book
  BY AmountAssumption DEF Init, Book, Gate, Accepted, Logged, NoDetail, Refunded
<1> QED
  BY <1>1, <1>2 DEF Alone

\* The other threads are idle: a step of the admin's request need only keep its own entry.
LEMMA AloneMoves ==
    ASSUME OneAdmin(env), Alone, env' = env, NEW w \in Workers, w \in env.workers,
           \A v \in Workers \ {w} : pc'[v] = pc[v],
           Book', pc'[w] # "idle" => Entry(w)'
    PROVE  Alone'
<1>1. \A v \in Workers \ {w} : pc[v] = "idle"
  BY DEF OneAdmin, Alone, Entry
<1> QED
  BY <1>1 DEF Alone

LEMMA AloneStep == OneAdmin(env) /\ TypeOK /\ Alone /\ [Next]_vars => Alone'
<1> SUFFICES ASSUME OneAdmin(env), TypeOK, Alone, [Next]_vars PROVE Alone'
  OBVIOUS
<1>p. \A w \in Workers : plan[w] \in Plans /\ plan[w].deduct \in Int
  BY DEF TypeOK, Plans
<1>i. /\ deducted \in Int /\ Amount \in Int /\ Amount > 0 /\ env' = env
      /\ env.amounts \subseteq 1..Amount
  BY AmountAssumption, EnvironmentsAssumption, EnvStays DEF TypeOK, EnvironmentsAssumed
<1>b. Book
  BY DEF Alone
<1>g. ASSUME UNCHANGED gateway PROVE Gate' /\ Returned' = Returned
  <2>1. Accepted' = Accepted /\ PaidBack' = PaidBack
    BY <1>g DEF Accepted, PaidBack
  <2> QED
    BY <1>b, <1>g, <1>i, <2>1 DEF Book, Gate, Returned
<1>a. ASSUME NEW w \in Workers, pc[w] # "idle"
      PROVE  Entry(w) /\ \A v \in Workers \ {w} : pc[v] = "idle"
  BY <1>a DEF Alone, OneAdmin, Entry
<1>1. CASE Spend \/ RequestRefund \/ UNCHANGED vars
  <2>1. /\ UNCHANGED <<audit, pending, gateway, deducted, pc, plan, env>>
        /\ \/ UNCHANGED <<status, refundAmount>>
           \/ status = "COMPLETED" /\ status' = "REFUND_REQUESTED"
    BY <1>1 DEF Spend, RequestRefund, vars, orderVars, moneyVars
  <2>2. Book'
    BY <1>b, <1>g, <2>1 DEF Book, Logged, Refundable, Refunded
  <2>3. ASSUME NEW w \in Workers, pc'[w] # "idle" PROVE Entry(w)'
    <3>1. Entry(w)
      BY <1>a, <2>1, <2>3
    <3> QED
      BY <1>g, <2>1, <3>1 DEF Entry, Taken, Attempting, Finalizing
  <2> QED
    BY <2>2, <2>3 DEF Alone
<1>2. CASE GatewaySettles
  <2>1. PICK r \in Refunds, result \in {"done", "failed"} :
           gateway[r] = "processing" /\ gateway' = [gateway EXCEPT ![r] = result]
    BY <1>2 DEF GatewaySettles
  <2>2. UNCHANGED <<status, refundAmount, audit, pending, deducted, pc, plan, env>>
    BY <1>2 DEF GatewaySettles, orderVars, moneyVars
  <2>3. /\ PaidBack \subseteq PaidBack' /\ Accepted' \subseteq Accepted
        /\ \A q \in Refunds : gateway'[q] # "none" => gateway[q] # "none"
    BY <2>1 DEF TypeOK, PaidBack, Accepted
  <2>4. Gate' /\ (Returned => Returned')
    BY <1>b, <2>2, <2>3 DEF Book, Gate, Returned
  <2>5. Book'
    BY <1>b, <1>i, <2>2, <2>4 DEF Book, Logged, Refundable, Refunded
  <2>6. ASSUME NEW w \in Workers, pc'[w] # "idle" PROVE Entry(w)'
    <3>1. Entry(w)
      BY <1>a, <2>2, <2>6
    <3> QED
      BY <2>2, <2>4, <3>1 DEF Entry, Taken, Attempting, Finalizing
  <2> QED
    BY <2>5, <2>6 DEF Alone
<1>3. ASSUME NEW w \in Workers, PrepareRefund(w) PROVE Alone'
  <2>1. PICK p \in Plans : /\ Plan(w, p, "lock") /\ p.amount \in env.amounts
                           /\ p.deduct <= Amount /\ p.rolledBack = TRUE
    BY <1>3, PreparedPlan
  <2>2. /\ pc'[w] = "lock" /\ plan'[w] = p
        /\ \A v \in Workers \ {w} : pc'[v] = pc[v] /\ plan'[v] = plan[v]
    BY <2>1, PlanMoves
  <2>3. /\ UNCHANGED <<gateway, deducted, audit, pending, status, refundAmount>>
        /\ w \in env.workers /\ pc[w] = "idle"
    BY <1>3 DEF PrepareRefund, orderVars, moneyVars
  <2>4. Book'
    BY <1>b, <1>g, <1>i, <2>2, <2>3 DEF Book, Logged, Refundable, Refunded
  <2>5. Entry(w)'
    BY <1>i, <2>1, <2>2, <2>3 DEF Entry, Attempting, Finalizing
  <2> QED
    BY <1>i, <2>2, <2>3, <2>4, <2>5, AloneMoves
<1>4. ASSUME NEW w \in Workers, LockRefund(w) PROVE Alone'
  <2>1. /\ pc[w] = "lock" /\ Entry(w)
        /\ UNCHANGED <<gateway, deducted, audit, pending, refundAmount>>
    BY <1>4, <1>a DEF LockRefund, moneyVars
  <2>0. w \in env.workers /\ \A v \in Workers : pc[v] # "ok"
    BY <1>a, <2>1 DEF Entry
  <2>2. CASE End(w) /\ UNCHANGED status
    <3>1. pc'[w] = "idle" /\ \A v \in Workers \ {w} : pc'[v] = pc[v] /\ plan'[v] = plan[v]
      BY <2>2, PlanMoves DEF End
    <3>2. Book'
      BY <1>b, <1>g, <1>i, <2>0, <2>1, <2>2 DEF Book, Logged, Refundable, Refunded
    <3> QED
      BY <1>i, <2>0, <3>1, <3>2, AloneMoves
  <2>3. CASE /\ Refundable /\ status' = "REFUNDING"
             /\ Goto(w, IF plan[w].deduct > 0 THEN "check" ELSE "gateway")
    <3>1. /\ pc'[w] = (IF plan[w].deduct > 0 THEN "check" ELSE "gateway") /\ plan'[w] = plan[w]
          /\ \A v \in Workers \ {w} : pc'[v] = pc[v] /\ plan'[v] = plan[v]
      BY <2>3, PlanMoves DEF Goto
    <3>2. deducted = 0
      BY <1>b, <2>0, <2>3 DEF Book
    <3>3. Book'
      BY <1>b, <1>g, <1>i, <2>1, <2>3 DEF Book, Logged, Refundable, Refunded
    <3>4. Entry(w)'
      BY <1>i, <1>p, <2>1, <2>3, <3>1, <3>2 DEF Entry, Attempting, Finalizing, Taken
    <3> QED
      BY <1>i, <2>0, <3>1, <3>3, <3>4, AloneMoves
  <2> QED
    BY <1>4, <2>2, <2>3 DEF LockRefund
<1>5. ASSUME NEW w \in Workers, CheckDeducted(w) PROVE Alone'
  <2>1. /\ pc[w] = "check" /\ Entry(w) /\ w \in env.workers
        /\ UNCHANGED <<gateway, deducted, audit, pending, status, refundAmount>>
    BY <1>5, <1>a DEF CheckDeducted, orderVars, moneyVars, Entry
  <2>2. Plan(w, plan[w], "deduct")
    BY <1>5, <1>b DEF CheckDeducted, AlreadyDeducted, Book, Logged, Goto
  <2>3. /\ pc'[w] = "deduct" /\ plan'[w] = plan[w]
        /\ \A v \in Workers \ {w} : pc'[v] = pc[v] /\ plan'[v] = plan[v]
    BY <2>2, PlanMoves
  <2>4. Book'
    BY <1>b, <1>g, <1>i, <2>1 DEF Book, Logged, Refundable, Refunded, Entry, Attempting
  <2>5. Entry(w)'
    BY <1>i, <2>1, <2>3 DEF Entry, Attempting, Finalizing
  <2> QED
    BY <1>i, <2>1, <2>3, <2>4, <2>5, AloneMoves
<1>6. ASSUME NEW w \in Workers, DeductBalance(w) PROVE Alone'
  <2>1. /\ pc[w] = "deduct" /\ Entry(w) /\ w \in env.workers /\ status = "REFUNDING"
        /\ UNCHANGED <<gateway, audit, pending, status, refundAmount>> /\ deducted = 0
        /\ plan[w].deduct > 0 /\ plan[w].deduct <= Amount
    BY <1>6, <1>a DEF DeductBalance, orderVars, Entry, Attempting
  <2>2. \/ deducted' = deducted + plan[w].deduct /\ Plan(w, plan[w], "gateway")
        \/ deducted' = deducted /\ Plan(w, plan[w], "restore")
    BY <1>6 DEF DeductBalance, Deduct, moneyVars, Goto
  <2>3. /\ plan'[w] = plan[w]
        /\ \/ pc'[w] = "gateway" /\ deducted' = plan[w].deduct
           \/ pc'[w] = "restore" /\ deducted' = 0
        /\ \A v \in Workers \ {w} : pc'[v] = pc[v] /\ plan'[v] = plan[v]
    BY <1>p, <2>1, <2>2, PlanMoves
  <2>4. Book'
    BY <1>b, <1>g, <1>i, <1>p, <2>1, <2>3 DEF Book, Logged, Refundable, Refunded
  <2>5. Entry(w)'
    BY <1>i, <1>p, <2>1, <2>3 DEF Entry, Attempting, Finalizing, Taken
  <2> QED
    BY <1>i, <2>1, <2>3, <2>4, <2>5, AloneMoves
<1>7. ASSUME NEW w \in Workers, RestoreStatus(w) \/ MarkRefundFailed(w) PROVE Alone'
  <2>1. /\ pc[w] \in {"restore", "final_failed"} /\ Entry(w) /\ w \in env.workers
        /\ UNCHANGED <<gateway, deducted, audit, pending, refundAmount>> /\ deducted = 0
        /\ status' \in {"REFUND_FAILED", "COMPLETED", "REFUND_REQUESTED", status}
    BY <1>7, <1>a, <1>p
       DEF RestoreStatus, MarkRefundFailed, moneyVars, Plans, Entry, Attempting, Finalizing
  <2>2. pc'[w] = "idle" /\ \A v \in Workers \ {w} : pc'[v] = pc[v] /\ plan'[v] = plan[v]
    BY <1>7, PlanMoves DEF RestoreStatus, MarkRefundFailed, End
  <2>3. Book'
    BY <1>b, <1>g, <1>i, <2>1 DEF Book, Logged, Refundable, Refunded
  <2> QED
    BY <1>i, <2>1, <2>2, <2>3, AloneMoves
<1>8. ASSUME NEW w \in Workers, GatewaySkipped(w) \/ GatewayRefund(w) \/ GatewayRefuses(w)
      PROVE  Alone'
  <2>1. /\ pc[w] = "gateway" /\ Entry(w) /\ w \in env.workers /\ status = "REFUNDING"
        /\ UNCHANGED <<deducted, audit, pending, status, refundAmount>>
        /\ plan[w].amount \in env.amounts
    BY <1>8, <1>a DEF GatewaySkipped, GatewayRefund, GatewayRefuses, orderVars, moneyVars, Entry,
                      Attempting
  <2>2. /\ plan'[w].deduct = plan[w].deduct /\ plan'[w].amount = plan[w].amount
        /\ plan'[w].rolledBack = plan[w].rolledBack
        /\ pc'[w] \in {"ok", "undo_pending", "undo_failed"}
        /\ pc'[w] = "ok" => Returned'
        /\ \A v \in Workers \ {w} : pc'[v] = pc[v] /\ plan'[v] = plan[v]
        /\ Gate'
    <3>1. CASE GatewaySkipped(w) \/ GatewayRefuses(w)
      <4>1. /\ plan'[w] = plan[w]
            /\ pc'[w] = "undo_failed" \/ (pc'[w] = "ok" /\ ~env.traded)
            /\ \A v \in Workers \ {w} : pc'[v] = pc[v] /\ plan'[v] = plan[v]
            /\ UNCHANGED gateway
        BY <3>1, PlanMoves DEF GatewaySkipped, GatewayRefuses, Goto
      <4> QED
        BY <1>g, <1>i, <4>1 DEF Returned
    <3>2. CASE GatewayRefund(w)
      <4>1. PICK r \in Refunds, reply \in {"processing", "done"} : Asked(w, r, reply)
        BY <3>2, RefundMoves
      <4>2. /\ plan'[w].deduct = plan[w].deduct /\ plan'[w].amount = plan[w].amount
            /\ plan'[w].rolledBack = plan[w].rolledBack
            /\ pc'[w] \in {"ok", "undo_pending", "undo_failed"}
            /\ pc'[w] = "ok" => reply = "done"
            /\ \A v \in Workers \ {w} : pc'[v] = pc[v] /\ plan'[v] = plan[v]
            /\ gateway' = [gateway EXCEPT ![r] = reply]
            /\ r[1] = plan[w].amount /\ (env.keyed => r[2] = 1)
            /\ r \notin Accepted => Room(r[1])
        BY <4>1 DEF Asked
      <4>3. reply = "done" => PaidBack' # {}
        BY <4>2 DEF PaidBack, TypeOK
      <4>4. r \notin Accepted => Accepted = {}
        BY <1>b, <2>1, <4>2, OneAccepted
      <4>5. Accepted' \subseteq Accepted \cup {r}
        BY <4>2 DEF Accepted, TypeOK
      <4>6. \A p, q \in Accepted' : p = q
        BY <1>b, <4>4, <4>5 DEF Book, Gate
      <4>7. \A q \in Refunds : gateway'[q] # "none" => gateway[q] # "none" \/ q = r
        BY <4>2 DEF TypeOK
      <4>8. Gate'
        BY <1>b, <1>i, <2>1, <3>2, <4>2, <4>6, <4>7 DEF Book, Gate, GatewayRefund
      <4> QED
        BY <4>2, <4>3, <4>8 DEF Returned
    <3> QED
      BY <1>8, <3>1, <3>2
  <2>3. Book'
    BY <1>b, <1>i, <2>1, <2>2 DEF Book, Logged, Refundable, Refunded
  <2>4. Entry(w)'
    BY <1>i, <2>1, <2>2 DEF Entry, Attempting, Finalizing, Taken
  <2> QED
    BY <1>i, <2>1, <2>2, <2>3, <2>4, AloneMoves
<1>9. ASSUME NEW w \in Workers, MarkRefundOk(w) PROVE Alone'
  <2>1. /\ pc[w] = "ok" /\ Entry(w) /\ w \in env.workers
        /\ UNCHANGED <<gateway, deducted, pending, audit>>
        /\ plan[w].amount \in env.amounts /\ Returned
    BY <1>9, <1>a DEF MarkRefundOk, moneyVars, Entry
  <2>2. /\ status' \in Refunded /\ refundAmount' = plan[w].amount
        /\ Plan(w, plan[w], "log_ok")
    BY <1>9, <2>1 DEF MarkRefundOk, FinalStatus, FinalAmount, Refunded, Fault, OneAdmin, Goto
  <2>3. /\ pc'[w] = "log_ok" /\ plan'[w] = plan[w]
        /\ \A v \in Workers \ {w} : pc'[v] = pc[v] /\ plan'[v] = plan[v]
    BY <2>2, PlanMoves
  <2>4. Book'
    BY <1>b, <1>g, <1>i, <2>1, <2>2 DEF Book, Logged, Refundable, Refunded
  <2>5. Entry(w)'
    BY <1>i, <2>1, <2>3 DEF Entry, Attempting, Finalizing
  <2> QED
    BY <1>i, <2>1, <2>3, <2>4, <2>5, AloneMoves
<1>10. ASSUME NEW w \in Workers, RollbackRefund(w) PROVE Alone'
  <2>1. /\ pc[w] \in {"undo_pending", "undo_failed"} /\ Entry(w) /\ w \in env.workers
        /\ UNCHANGED <<gateway, audit, pending, status, refundAmount>> /\ status = "REFUNDING"
        /\ deducted = Taken(w)
    BY <1>10, <1>a DEF RollbackRefund, orderVars, Entry, Attempting
  <2>2. GiveBack(w) = Taken(w) /\ Taken(w) \in Int
    BY <1>p, MaxOfTwo DEF GiveBack, Taken
  <2>3. /\ deducted' = 0
        /\ Plan(w, [plan[w] EXCEPT !.deduct = 0],
                IF pc[w] = "undo_pending" THEN "pending" ELSE "restore")
    BY <1>10, <1>i, <2>1, <2>2 DEF RollbackRefund, Fault, OneAdmin
  <2>4. /\ pc'[w] \in {"pending", "restore"} /\ plan'[w].deduct = 0
        /\ plan'[w].amount = plan[w].amount /\ plan'[w].rolledBack = plan[w].rolledBack
        /\ \A v \in Workers \ {w} : pc'[v] = pc[v] /\ plan'[v] = plan[v]
    BY <1>p, <2>3 DEF Plan, TypeOK, Plans
  <2>5. Book'
    BY <1>b, <1>g, <1>i, <2>1, <2>3 DEF Book, Logged, Refundable, Refunded
  <2>6. Entry(w)'
    BY <1>i, <2>1, <2>3, <2>4 DEF Entry, Attempting, Finalizing
  <2> QED
    BY <1>i, <2>1, <2>4, <2>5, <2>6, AloneMoves
<1>11. ASSUME NEW w \in Workers, LogRollbackFailed(w) PROVE FALSE
  BY <1>11, <1>a DEF LogRollbackFailed, Entry, Attempting, Finalizing
<1>12. ASSUME NEW w \in Workers, MarkRefundPending(w) \/ LogRefundPending(w) \/ LogRefundOk(w)
       PROVE  Alone'
  <2>1. /\ pc[w] \in {"pending", "log_refund_pending", "log_ok"} /\ Entry(w) /\ w \in env.workers
        /\ UNCHANGED <<gateway, deducted>> /\ Logged' = Logged
        /\ plan[w].amount \in env.amounts /\ plan[w].rolledBack = TRUE
        /\ pc[w] = "pending" => status = "REFUNDING" /\ deducted = 0
    <3>1. /\ pc[w] \in {"pending", "log_refund_pending", "log_ok"}
          /\ UNCHANGED <<gateway, deducted>>
      BY <1>12 DEF MarkRefundPending, LogRefundPending, LogRefundOk, moneyVars
    <3>2. Logged' = Logged
      BY <1>12 DEF MarkRefundPending, LogRefundPending, LogRefundOk, Logged
    <3>3. Entry(w)
      BY <1>a, <3>1
    <3> QED
      BY <3>1, <3>2, <3>3 DEF Entry, Attempting
  <2>2. \/ UNCHANGED <<status, refundAmount>>
        \/ /\ pc[w] = "pending" /\ status' = "REFUND_PENDING"
           /\ refundAmount' = plan[w].amount
    BY <1>12 DEF MarkRefundPending, LogRefundPending, LogRefundOk
  <2>3. /\ \/ pc'[w] = "idle"
           \/ pc'[w] = "log_refund_pending" /\ plan'[w] = plan[w]
        /\ \A v \in Workers \ {w} : pc'[v] = pc[v] /\ plan'[v] = plan[v]
    BY <1>12, PlanMoves DEF MarkRefundPending, LogRefundPending, LogRefundOk, End, Goto
  <2>4. pending'.rolledBack = TRUE
    BY <1>12, <1>b, <2>1 DEF MarkRefundPending, LogRefundPending, LogRefundOk, Book
  <2>5. \A v \in Workers : pc[v] # "ok"
    BY <1>a, <2>1
  <2>6. Book'
    BY <1>b, <1>g, <1>i, <2>1, <2>2, <2>4, <2>5 DEF Book, Refundable, Refunded
  <2>7. pc'[w] # "idle" => Entry(w)'
    BY <1>i, <2>1, <2>3 DEF Entry, Attempting, Finalizing
  <2> QED
    BY <1>i, <2>1, <2>3, <2>6, <2>7, AloneMoves
<1>13. ASSUME NEW w \in Workers, QueryRefund(w) PROVE Alone'
  <2>1. /\ w \in env.workers /\ pc[w] = "idle" /\ status = "REFUND_PENDING"
        /\ UNCHANGED <<gateway, deducted, audit, pending, status, refundAmount>>
    BY <1>13 DEF QueryRefund, orderVars, moneyVars
  <2>2. refundAmount \in env.amounts
    BY <1>b, <2>1 DEF Book
  <2>3. PICK p \in Plans : /\ Plan(w, p, "detail") /\ p.amount = refundAmount
                           /\ p.deduct = 0 /\ p.rolledBack = TRUE
    BY <1>13, QueryPlan
  <2>4. /\ pc'[w] = "detail" /\ plan'[w] = p
        /\ \A v \in Workers \ {w} : pc'[v] = pc[v] /\ plan'[v] = plan[v]
    BY <2>3, PlanMoves
  <2>5. \A v \in Workers : pc[v] = "idle"
    BY <2>1 DEF OneAdmin, Alone, Entry
  <2>6. deducted = 0
    BY <1>b, <2>1, <2>5 DEF Book, Refundable
  <2>7. Book'
    BY <1>b, <1>g, <1>i, <2>1, <2>6 DEF Book, Logged, Refunded
  <2>8. Entry(w)'
    BY <1>i, <2>1, <2>2, <2>3, <2>4, <2>6 DEF Entry, Attempting, Finalizing
  <2> QED
    BY <1>i, <2>1, <2>4, <2>7, <2>8, AloneMoves
<1>13a. ASSUME NEW w \in Workers, ReadDetail(w) PROVE Alone'
  <2>1. /\ pc[w] = "detail" /\ Entry(w) /\ w \in env.workers
        /\ UNCHANGED <<gateway, deducted, audit, pending, status, refundAmount>>
        /\ status = "REFUND_PENDING" /\ deducted = 0 /\ plan[w].amount \in 1..Amount
    BY <1>13a, <1>a, <1>i DEF ReadDetail, orderVars, moneyVars, Entry, Finalizing
  <2>2. PICK detail \in {pending, NoDetail} :
           Plan(w, [plan[w] EXCEPT !.refund = detail.refund,
                                   !.deduct = FinalDeduction(w, detail)], "query")
    BY <1>13a DEF ReadDetail
  <2>3. FinalDeduction(w, detail) = plan[w].amount
    BY <1>b DEF FinalDeduction, Book, NoDetail
  <2>4. PICK f, d : /\ d = plan[w].amount
                    /\ Plan(w, [plan[w] EXCEPT !.refund = f, !.deduct = d], "query")
    BY <2>2, <2>3
  <2>5. /\ pc'[w] = "query" /\ plan'[w] = [plan[w] EXCEPT !.refund = f, !.deduct = d]
        /\ \A v \in Workers \ {w} : pc'[v] = pc[v] /\ plan'[v] = plan[v]
    BY <2>4, PlanMoves
  <2>6. /\ plan'[w].amount = plan[w].amount /\ plan'[w].rolledBack = plan[w].rolledBack
        /\ plan'[w].deduct = plan[w].amount
    BY <1>p, <2>4, <2>5 DEF Plans
  <2>7. Book'
    BY <1>b, <1>g, <1>i, <2>1 DEF Book, Logged, Refunded
  <2>8. Entry(w)'
    BY <1>i, <2>1, <2>5, <2>6 DEF Entry, Attempting, Finalizing
  <2> QED
    BY <1>i, <2>1, <2>5, <2>7, <2>8, AloneMoves
<1>14. ASSUME NEW w \in Workers, GatewayAnswers(w) \/ CheckFinalized(w) PROVE Alone'
  <2>1. /\ pc[w] \in {"query", "final_check"} /\ Entry(w) /\ w \in env.workers
        /\ UNCHANGED <<gateway, deducted, audit, pending, status, refundAmount>>
        /\ status = "REFUND_PENDING" /\ deducted = 0
        /\ plan[w].amount \in env.amounts
    BY <1>14, <1>a DEF GatewayAnswers, CheckFinalized, orderVars, moneyVars, Entry, Finalizing
  <2>2. (\E r \in LookedUp(w) : gateway[r] = "done") => Returned
    BY DEF LookedUp, Returned, PaidBack
  <2>3. \/ End(w)
        \/ pc[w] = "query" /\ Plan(w, plan[w], "final_failed")
        \/ /\ pc[w] = "query" /\ Plan(w, plan[w], "final_check")
           /\ Returned
        \/ pc[w] = "final_check" /\ Plan(w, plan[w], "final_deduct")
        \/ pc[w] = "final_check" /\ Plan(w, [plan[w] EXCEPT !.deduct = 0], "ok")
    BY <1>14, <2>2 DEF GatewayAnswers, CheckFinalized, Goto
  <2>4. \A v \in Workers \ {w} : pc'[v] = pc[v] /\ plan'[v] = plan[v]
    BY <2>3, PlanMoves DEF End
  <2>5. Book'
    BY <1>b, <1>g, <1>i, <2>1 DEF Book, Logged, Refunded
  <2>6. pc'[w] # "idle" => Entry(w)'
    <3>1. CASE End(w)
      BY <3>1, PlanMoves DEF End
    <3>2. CASE pc[w] = "query" /\ Plan(w, plan[w], "final_failed")
      <4>1. pc'[w] = "final_failed" /\ plan'[w] = plan[w]
        BY <3>2, PlanMoves
      <4> QED
        BY <1>g, <1>i, <2>1, <3>2, <4>1 DEF Entry, Attempting, Finalizing
    <3>3. CASE /\ pc[w] = "query" /\ Plan(w, plan[w], "final_check")
               /\ Returned
      <4>1. pc'[w] = "final_check" /\ plan'[w] = plan[w]
        BY <3>3, PlanMoves
      <4> QED
        BY <1>g, <1>i, <2>1, <3>3, <4>1 DEF Entry, Attempting, Finalizing
    <3>4. CASE pc[w] = "final_check" /\ Plan(w, plan[w], "final_deduct")
      <4>1. pc'[w] = "final_deduct" /\ plan'[w] = plan[w]
        BY <3>4, PlanMoves
      <4> QED
        BY <1>g, <1>i, <2>1, <3>4, <4>1 DEF Entry, Attempting, Finalizing
    <3>5. CASE pc[w] = "final_check" /\ Plan(w, [plan[w] EXCEPT !.deduct = 0], "ok")
      <4>1. /\ pc'[w] = "ok" /\ plan'[w].deduct = 0
            /\ plan'[w].amount = plan[w].amount /\ plan'[w].rolledBack = plan[w].rolledBack
        BY <1>p, <3>5 DEF Plan, TypeOK, Plans
      <4> QED
        BY <1>g, <1>i, <2>1, <3>5, <4>1 DEF Entry, Attempting, Finalizing
    <3> QED
      BY <2>3, <3>1, <3>2, <3>3, <3>4, <3>5
  <2> QED
    BY <1>i, <2>1, <2>4, <2>5, <2>6, AloneMoves
<1>15. ASSUME NEW w \in Workers, FinalDeduct(w) PROVE Alone'
  <2>1. /\ pc[w] = "final_deduct" /\ Entry(w) /\ w \in env.workers
        /\ UNCHANGED <<gateway, audit, pending, status, refundAmount>>
        /\ status = "REFUND_PENDING" /\ deducted = 0
        /\ 0 <= plan[w].deduct /\ plan[w].deduct <= Amount
    BY <1>15, <1>a DEF FinalDeduct, orderVars, Entry, Finalizing
  <2>2. \/ deducted' = deducted + plan[w].deduct /\ Plan(w, plan[w], "ok")
        \/ deducted' = deducted /\ End(w)
    BY <1>15 DEF FinalDeduct, Deduct, moneyVars, Goto
  <2>3. /\ \/ pc'[w] = "ok" /\ deducted' = plan[w].deduct /\ plan'[w] = plan[w]
           \/ pc'[w] = "idle" /\ deducted' = 0
        /\ \A v \in Workers \ {w} : pc'[v] = pc[v] /\ plan'[v] = plan[v]
    BY <1>p, <2>1, <2>2, PlanMoves DEF End
  <2>4. Book'
    BY <1>b, <1>g, <1>i, <1>p, <2>1, <2>3 DEF Book, Logged, Refunded
  <2>5. pc'[w] # "idle" => Entry(w)'
    BY <1>g, <1>i, <2>1, <2>3 DEF Entry, Attempting, Finalizing
  <2> QED
    BY <1>i, <2>1, <2>3, <2>4, <2>5, AloneMoves
<1>16. ASSUME NEW w \in Workers, Crash(w) PROVE Alone'
  <2>1. /\ UNCHANGED <<gateway, deducted, audit, pending, status, refundAmount>>
        /\ pc[w] \notin {"idle", "ok"}
    BY <1>16 DEF Crash, orderVars, moneyVars, OneAdmin
  <2>2. pc'[w] = "idle" /\ \A v \in Workers \ {w} : pc'[v] = pc[v] /\ plan'[v] = plan[v]
    BY <1>16, PlanMoves DEF Crash, End
  <2>3. w \in env.workers /\ \A v \in Workers : pc[v] # "ok"
    BY <1>a, <2>1 DEF Entry
  <2>4. Book'
    BY <1>b, <1>g, <1>i, <2>1, <2>3 DEF Book, Logged, Refundable, Refunded
  <2> QED
    BY <1>i, <2>2, <2>3, <2>4, AloneMoves
<1> QED
  BY <1>1, <1>2, <1>3, <1>4, <1>5, <1>6, <1>7, <1>8, <1>9, <1>10, <1>11, <1>12, <1>13,
     <1>13a, <1>14,
     <1>15, <1>16
     DEF Next, ExecuteRefund, FinalizeRefund

-----------------------------------------------------------------------------
\* Each behaviour keeps the invariant of the environment it is in.
Sound == (AnswersAtOnce(env) => Safe /\ Paid) /\ (OneAdmin(env) => Alone)

LEMMA SoundHolds == Spec => [](TypeOK /\ Sound)
<1>1. Init => Sound
  <2> SUFFICES ASSUME Init PROVE Sound
    OBVIOUS
  <2>1. Paid
    BY DEF Init, Paid, Refunded
  <2> QED
    BY <2>1, SafeInit, AloneInit DEF Sound
<1>2. TypeOK /\ Sound /\ [Next]_vars => (TypeOK /\ Sound)'
  <2> SUFFICES ASSUME TypeOK, Sound, [Next]_vars PROVE (TypeOK /\ Sound)'
    OBVIOUS
  <2>1. AnswersAtOnce(env)' = AnswersAtOnce(env) /\ OneAdmin(env)' = OneAdmin(env)
    BY EnvStays DEF AnswersAtOnce, OneAdmin
  <2> QED
    BY <2>1, TypeStep, SafeStep, PaidStep, AloneStep DEF Sound
<1> QED
  BY TypeInit, <1>1, <1>2, PTL DEF Spec

\* At a gateway that answers at once, for any number of admins and amounts, or at one that
\* leaves refunds pending, for one admin and one amount: refunds never take more from the user
\* than the order had credited, whatever else fails and however often they are tried.
THEOREM DeductedOnce ==
    ASSUME \A e \in Environments : AnswersAtOnce(e) \/ OneAdmin(e)
    PROVE  Spec => []NeverDeductedTwice
<1>1. TypeOK /\ Sound => NeverDeductedTwice
  BY DEF Sound, TypeOK, Safe, Money, Alone, Book, NeverDeductedTwice
<1> QED
  BY <1>1, SoundHolds, PTL

\* There, an order shown as refunded was paid back by that amount and no other; or the gateway
\* has paid nothing back, because it was not asked about an order without a trade number.
THEOREM RefundedIsPaidBack ==
    ASSUME \A e \in Environments : AnswersAtOnce(e) \/ OneAdmin(e)
    PROVE  Spec => []RefundedMeansPaidBack
<1>1. TypeOK /\ Sound => RefundedMeansPaidBack
  <2> SUFFICES ASSUME TypeOK, Sound, status \in Refunded PROVE Matches(refundAmount)
    BY DEF RefundedMeansPaidBack, Matches
  <2>0. env \in Environments
    BY DEF TypeOK
  <2>1. CASE AnswersAtOnce(env)
    BY <2>1 DEF Sound, Paid
  <2>2. CASE OneAdmin(env)
    <3>1. refundAmount \in env.amounts /\ Returned /\ Gate
      BY <2>2 DEF Sound, Alone, Book
    <3>2. CASE env.traded
      <4>1. PICK r \in PaidBack : TRUE
        BY <3>1, <3>2 DEF Returned
      <4>2. r \in Refunds /\ r \in Accepted /\ r[1] \in env.amounts
        BY <3>1, <4>1 DEF PaidBack, Accepted, Gate
      <4>3. r[1] = refundAmount
        BY <2>2, <3>1, <4>2 DEF OneAdmin
      <4>4. r[2] \in 1..MaxTries /\ r = <<refundAmount, r[2]>>
        BY <4>2, <4>3 DEF Refunds
      <4>5. PaidBack = {r}
        BY <3>1, <4>1, <4>2 DEF PaidBack, Accepted, Gate
      <4> QED
        BY <3>2, <4>4, <4>5 DEF Matches
    <3>3. CASE ~env.traded
      BY <3>1, <3>3 DEF Matches, Gate, PaidBack
    <3> QED
      BY <3>2, <3>3
  <2> QED
    BY <2>0, <2>1, <2>2
<1> QED
  BY <1>1, SoundHolds, PTL

\* There, an order given back has its deduction undone, or the failed rollback on record.
THEOREM RestoredIsReturned ==
    ASSUME \A e \in Environments : AnswersAtOnce(e) \/ OneAdmin(e)
    PROVE  Spec => []RestoredMeansReturned
<1>1. TypeOK /\ Sound => RestoredMeansReturned
  <2> SUFFICES ASSUME TypeOK, Sound, status \in {"COMPLETED", "REFUND_REQUESTED"},
                      deducted > 0, ~Logged
               PROVE  FALSE
    BY DEF RestoredMeansReturned, Logged
  <2>0. env \in Environments /\ Refundable
    BY DEF TypeOK, Refundable
  <2>1. CASE AnswersAtOnce(env)
    BY <2>0, <2>1 DEF Sound, Safe, Money
  <2>2. CASE OneAdmin(env)
    <3>1. \A w \in Workers : pc[w] # "ok"
      BY <2>2 DEF Sound, Alone, Entry
    <3> QED
      BY <2>0, <2>2, <3>1 DEF Sound, Alone, Book
  <2> QED
    BY <2>0, <2>1, <2>2
<1> QED
  BY <1>1, SoundHolds, PTL

\* At a gateway that answers at once, no money is on its way back for an order that is offered
\* as not refunded.
THEOREM RestoredIsNotRefunded ==
    ASSUME \A e \in Environments : e.asynchronous \/ AnswersAtOnce(e)
    PROVE  Spec => []RestoredMeansNotRefunded
<1>1. TypeOK /\ Sound => RestoredMeansNotRefunded
  BY DEF Sound, TypeOK, Safe, AtGateway, NothingBack, RestoredMeansNotRefunded, Accepted, Refundable
<1> QED
  BY <1>1, SoundHolds, PTL

-----------------------------------------------------------------------------
\* The refinement of RefundPromise. What a request knows at the places from which a step of it
\* can be seen.
Exposed == {"deduct", "restore", "gateway", "ok", "undo_pending", "undo_failed", "pending",
            "failed", "final_deduct", "final_failed"}

Known(w) ==
    /\ pc[w] \in Exposed => status \notin Refunded
    /\ pc[w] \in {"deduct", "final_deduct"} =>
          deducted = 0 /\ 0 <= plan[w].deduct /\ plan[w].deduct <= Amount
    /\ pc[w] \in {"undo_pending", "undo_failed"} => GiveBack(w) \in {0, deducted}
    /\ pc[w] = "gateway" /\ Accepted # {} => OneAdmin(env) /\ Book /\ plan[w].amount \in env.amounts
    /\ pc[w] = "ok" => /\ plan[w].amount \in 1..Amount
                       /\ env.traded => \E r \in PaidBack : r[1] = plan[w].amount

LEMMA WorkersKnow ==
    ASSUME TypeOK, Sound, AnswersAtOnce(env) \/ OneAdmin(env)
    PROVE  0 <= deducted /\ deducted <= Amount /\ \A w \in Workers : Known(w)
<1>p. \A w \in Workers : plan[w].deduct \in Int
  BY DEF TypeOK, Plans
<1>g. \A w \in Workers : GiveBack(w) = Taken(w)
  BY <1>p, MaxOfTwo DEF GiveBack, Taken
<1>1. CASE AnswersAtOnce(env)
  <2>1. Safe /\ Paid
    BY <1>1 DEF Sound
  <2>2. ASSUME NEW w \in Workers PROVE Known(w)
    <3>1. pc[w] \in Exposed => status = "REFUNDING"
      BY <2>1 DEF Safe, Holder, Holding, Free, Exposed
    <3>2. pc[w] \in {"deduct", "final_deduct"} =>
             deducted = 0 /\ 0 <= plan[w].deduct /\ plan[w].deduct <= Amount
      BY <1>p, <2>1 DEF Safe, Holder, Holding, Free, Money
    <3>3. pc[w] \in {"undo_pending", "undo_failed"} => GiveBack(w) \in {0, deducted}
      BY <1>g, <1>p, <2>1 DEF Safe, Holder, Holding, Free, Money, Taken
    <3>4. pc[w] = "gateway" => Accepted = {}
      BY <2>1 DEF Safe, AtGateway, Holding, NothingBack, Accepted
    <3>5. pc[w] = "ok" => /\ plan[w].amount \in 1..Amount
                          /\ env.traded => \E r \in PaidBack : r[1] = plan[w].amount
      <4> SUFFICES ASSUME pc[w] = "ok", env.traded
                   PROVE  \E r \in PaidBack : r[1] = plan[w].amount
        BY <2>1 DEF Paid
      <4>1. PICK n \in 1..MaxTries : PaidBack = {<<plan[w].amount, n>>}
        BY <2>1 DEF Paid, Matches
      <4> QED
        BY <4>1
    <3> QED
      BY <3>1, <3>2, <3>3, <3>4, <3>5 DEF Known, Refunded
  <2> QED
    BY <2>1, <2>2 DEF Safe, Money
<1>2. CASE OneAdmin(env)
  <2>1. Alone /\ env.amounts \subseteq 1..Amount
    BY <1>2, EnvironmentsAssumption DEF Sound, TypeOK, EnvironmentsAssumed
  <2>2. ASSUME NEW w \in Workers PROVE Known(w)
    <3>0. CASE pc[w] = "idle"
      BY <3>0 DEF Known, Exposed
    <3> SUFFICES ASSUME Entry(w) PROVE Known(w)
      BY <2>1, <3>0 DEF Alone
    <3>1. pc[w] \in Exposed => status \notin Refunded
      BY DEF Entry, Attempting, Finalizing, Exposed, Refunded
    <3>2. pc[w] \in {"deduct", "final_deduct"} =>
             deducted = 0 /\ 0 <= plan[w].deduct /\ plan[w].deduct <= Amount
      BY <1>p DEF Entry, Finalizing
    <3>3. pc[w] \in {"undo_pending", "undo_failed"} => GiveBack(w) \in {0, deducted}
      BY <1>g DEF Entry
    <3>4. Book /\ plan[w].amount \in env.amounts /\ plan[w].amount \in 1..Amount
      BY <2>1 DEF Alone, Entry
    <3>5. pc[w] = "ok" /\ env.traded => \E r \in PaidBack : r[1] = plan[w].amount
      <4> SUFFICES ASSUME pc[w] = "ok", env.traded
                   PROVE  \E r \in PaidBack : r[1] = plan[w].amount
        OBVIOUS
      <4>1. PICK r \in PaidBack : TRUE
        BY DEF Entry, Returned
      <4>2. r[1] \in env.amounts
        BY <3>4, <4>1 DEF Book, Gate, PaidBack
      <4> QED
        BY <1>2, <3>4, <4>1, <4>2 DEF OneAdmin
    <3> QED
      BY <1>2, <3>1, <3>2, <3>3, <3>4, <3>5 DEF Known
  <2> QED
    BY <2>1, <2>2 DEF Alone, Book
<1> QED
  BY <1>1, <1>2

\* A gateway that settles a refund has paid back nothing yet, and the order is not shown as
\* refunded.
LEMMA SettlesOnce ==
    ASSUME TypeOK, Sound, AnswersAtOnce(env) \/ OneAdmin(env),
           NEW r \in Refunds, gateway[r] = "processing"
    PROVE  status \notin Refunded /\ PaidBack = {} /\ env.traded
<1>1. ~AnswersAtOnce(env)
  BY DEF Sound, Safe, AtGateway
<1>2. Book
  BY <1>1 DEF Sound, Alone
<1>3. env.traded /\ \A q \in Accepted : q = r
  BY <1>2 DEF Book, Gate, Accepted
<1>4. PaidBack = {}
  BY <1>3 DEF PaidBack, Accepted
<1> QED
  BY <1>2, <1>3, <1>4 DEF Book, Returned

\* Where the amount an order is shown by can change, where its deduction and where its refunds.
LEMMA PromiseStep ==
    ASSUME TypeOK, Sound, AnswersAtOnce(env) \/ OneAdmin(env), [Next]_vars
    PROVE  [Promise!Next]_<<Shown, deducted, PaidBack, env.traded>>
<1> DEFINE Q == Promise!Next \/ UNCHANGED <<Shown, deducted, PaidBack, env.traded>>
<1> SUFFICES Q
  OBVIOUS
<1>i. /\ deducted \in Int /\ Amount \in Int /\ 0 <= deducted /\ deducted <= Amount
      /\ \A w \in Workers : Known(w) /\ plan[w] \in Plans /\ plan[w].deduct \in Int
  BY WorkersKnow, AmountAssumption DEF TypeOK, Plans
<1>s. UNCHANGED <<status, refundAmount>> => Shown' = Shown
  BY DEF Shown, Refunded
<1>h. status \notin Refunded => Shown = 0
  BY DEF Shown
<1>h2. status' \notin Refunded => Shown' = 0
  BY DEF Shown, Refunded
<1>g. UNCHANGED gateway => PaidBack' = PaidBack
  BY DEF PaidBack
<1>v. UNCHANGED env.traded
  BY EnvStays
<1> USE DEF Promise!Next
<1>1. CASE Spend \/ RequestRefund \/ UNCHANGED vars
  <2>1. UNCHANGED <<deducted, gateway>>
    BY <1>1 DEF Spend, RequestRefund, vars, orderVars, moneyVars
  <2>2. \/ UNCHANGED <<status, refundAmount>>
        \/ status \notin Refunded /\ status' \notin Refunded
    BY <1>1 DEF Spend, RequestRefund, vars, orderVars, Refunded
  <2> QED
    BY <1>s, <1>h, <1>h2, <1>g, <1>v, <2>1, <2>2
<1>2. CASE GatewaySettles
  <2>1. PICK r \in Refunds, result \in {"done", "failed"} :
          gateway[r] = "processing" /\ gateway' = [gateway EXCEPT ![r] = result]
    BY <1>2 DEF GatewaySettles
  <2>2. UNCHANGED <<status, refundAmount, deducted>>
    BY <1>2 DEF GatewaySettles, orderVars, moneyVars
  <2>3. status \notin Refunded /\ PaidBack = {} /\ env.traded
    BY <2>1, SettlesOnce
  <2>4. PaidBack' = IF result = "done" THEN {r} ELSE {}
    BY <2>1, <2>3 DEF PaidBack, TypeOK
  <2> QED
    BY <1>s, <1>h, <1>v, <2>2, <2>3, <2>4 DEF Promise!PayBack
<1>3. ASSUME NEW w \in Workers,
             \/ PrepareRefund(w) \/ QueryRefund(w) \/ CheckDeducted(w) \/ LogRollbackFailed(w)
             \/ GatewaySkipped(w) \/ GatewayRefuses(w) \/ LogRefundOk(w) \/ LogRefundPending(w)
             \/ ReadDetail(w) \/ GatewayAnswers(w) \/ CheckFinalized(w) \/ Crash(w)
      PROVE  Q
  <2>1. UNCHANGED <<status, refundAmount, deducted, gateway>>
    BY <1>3 DEF PrepareRefund, QueryRefund, CheckDeducted, LogRollbackFailed, GatewaySkipped,
                GatewayRefuses, LogRefundOk, LogRefundPending, ReadDetail, GatewayAnswers,
                CheckFinalized, Crash, orderVars, moneyVars
  <2> QED
    BY <1>s, <1>g, <1>v, <2>1
<1>4. ASSUME NEW w \in Workers,
             LockRefund(w) \/ RestoreStatus(w) \/ MarkRefundPending(w) \/ MarkRefundFailed(w)
      PROVE  Q
  <2>1. UNCHANGED <<deducted, gateway>>
    BY <1>4 DEF LockRefund, RestoreStatus, MarkRefundPending, MarkRefundFailed, moneyVars
  <2>2. plan[w].restore \notin Refunded
    BY DEF TypeOK, Plans, Refunded
  <2>3. \/ UNCHANGED <<status, refundAmount>>
        \/ status \notin Refunded /\ status' \notin Refunded
    <3>1. CASE LockRefund(w)
      BY <3>1 DEF LockRefund, Refundable, Refunded
    <3>2. CASE RestoreStatus(w) \/ MarkRefundPending(w) \/ MarkRefundFailed(w)
      <4>1. status \notin Refunded
        BY <1>i, <3>2 DEF Known, Exposed, RestoreStatus, MarkRefundPending, MarkRefundFailed
      <4> QED
        BY <2>2, <3>2, <4>1 DEF RestoreStatus, MarkRefundPending, MarkRefundFailed, Refunded
    <3> QED
      BY <1>4, <3>1, <3>2
  <2> QED
    BY <1>s, <1>h, <1>h2, <1>g, <1>v, <2>1, <2>3
<1>5. ASSUME NEW w \in Workers, DeductBalance(w) \/ FinalDeduct(w) PROVE Q
  <2>1. UNCHANGED <<status, refundAmount, gateway>>
    BY <1>5 DEF DeductBalance, FinalDeduct, orderVars
  <2>2. deducted = 0 /\ plan[w].deduct \in 0..Amount /\ status \notin Refunded
    BY <1>5, <1>i DEF DeductBalance, FinalDeduct, Known, Exposed
  <2>3. deducted' = deducted \/ deducted' = plan[w].deduct
    BY <1>5, <2>2 DEF DeductBalance, FinalDeduct, Deduct, moneyVars
  <2> QED
    BY <1>s, <1>h, <1>g, <1>i, <1>v, <2>1, <2>2, <2>3 DEF Promise!Take
<1>6. ASSUME NEW w \in Workers, RollbackRefund(w) PROVE Q
  <2>1. UNCHANGED <<status, refundAmount, gateway>>
    BY <1>6 DEF RollbackRefund, orderVars
  <2>2. GiveBack(w) \in {0, deducted} /\ status \notin Refunded
    BY <1>6, <1>i DEF RollbackRefund, Known, Exposed
  <2>3. deducted' = deducted \/ deducted' = 0
    BY <1>6, <1>i, <2>2 DEF RollbackRefund, moneyVars
  <2> QED
    BY <1>s, <1>h, <1>g, <1>i, <1>v, <2>1, <2>2, <2>3 DEF Promise!GiveBack
<1>7. ASSUME NEW w \in Workers, GatewayRefund(w) PROVE Q
  <2>1. UNCHANGED <<status, refundAmount, deducted>>
    BY <1>7 DEF GatewayRefund, orderVars, moneyVars
  <2>2. pc[w] = "gateway" /\ env.traded /\ status \notin Refunded
    BY <1>7, <1>i DEF GatewayRefund, Known, Exposed
  <2>3. PICK r \in Refunds, reply \in {"processing", "done"} : Asked(w, r, reply)
    BY <1>7, RefundMoves
  <2>4. gateway' = [gateway EXCEPT ![r] = reply]
    BY <2>3 DEF Asked
  <2>5. CASE r \in Accepted
    <3>1. UNCHANGED gateway
      BY <2>3, <2>4, <2>5 DEF Asked, TypeOK
    <3> QED
      BY <1>s, <1>g, <1>v, <2>1, <3>1
  <2>6. CASE r \notin Accepted
    <3>1. Accepted = {}
      <4> SUFFICES ASSUME Accepted # {} PROVE FALSE
        OBVIOUS
      <4>1. OneAdmin(env) /\ Book /\ r[1] \in env.amounts
        BY <1>i, <2>2, <2>3 DEF Known, Asked
      <4> QED
        BY <2>3, <2>6, <4>1, OneAccepted DEF Asked
    <3>2. PaidBack = {} /\ PaidBack' = IF reply = "done" THEN {r} ELSE {}
      BY <2>4, <3>1 DEF Accepted, PaidBack, TypeOK
    <3> QED
      BY <1>s, <1>h, <1>v, <2>1, <2>2, <3>2 DEF Promise!PayBack
  <2> QED
    BY <2>5, <2>6
<1>8. ASSUME NEW w \in Workers, MarkRefundOk(w) PROVE Q
  <2>1. UNCHANGED <<deducted, gateway>>
    BY <1>8 DEF MarkRefundOk, moneyVars
  <2>2. /\ plan[w].amount \in 1..Amount /\ status \notin Refunded
        /\ env.traded => \E r \in PaidBack : r[1] = plan[w].amount
    BY <1>8, <1>i DEF MarkRefundOk, Known, Exposed
  <2>3. \/ UNCHANGED <<status, refundAmount>>
        \/ status' \in Refunded /\ refundAmount' = plan[w].amount
    BY <1>8 DEF MarkRefundOk, FinalStatus, FinalAmount, Refunded
  <2>4. Shown' = Shown \/ Shown' = plan[w].amount
    BY <1>s, <2>3 DEF Shown, Refunded
  <2> QED
    BY <1>h, <1>g, <1>v, <2>1, <2>2, <2>4 DEF Promise!Close
<1> QED
  BY <1>1, <1>2, <1>3, <1>4, <1>5, <1>6, <1>7, <1>8 DEF Next, ExecuteRefund, FinalizeRefund

\* There, the refund of an order keeps its promise: one deduction stands at a time and is given
\* back as a whole, the gateway pays back once, the order is shown as refunded by that amount (by
\* any, if it has no trade number), and then neither the money nor the order moves any more.
THEOREM ImplementsPromise ==
    ASSUME \A e \in Environments : AnswersAtOnce(e) \/ OneAdmin(e)
    PROVE  Spec => KeepsPromise
<1>1. Init => Promise!Init
  BY EnvironmentsAssumption DEF Init, Promise!Init, Shown, Refunded, PaidBack, EnvironmentsAssumed
<1>2. TypeOK /\ Sound /\ [Next]_vars => [Promise!Next]_<<Shown, deducted, PaidBack, env.traded>>
  BY PromiseStep DEF TypeOK
<1> QED
  BY <1>1, <1>2, SoundHolds, PTL DEF Spec, KeepsPromise, Promise!Spec

-----------------------------------------------------------------------------
\* What remains in every environment: however many admins work on the order at whatever gateway,
\* and whatever fails.
Confirmed == {"final_check", "final_deduct", "ok"}

Backed ==
    /\ \A w \in Workers : pc[w] \in Confirmed => Returned
    /\ status \in Refunded => Returned

\* What the gateway has paid back stays so.
LEMMA PaidStays == TypeOK /\ [Next]_vars => PaidBack \subseteq PaidBack'
<1> SUFFICES ASSUME TypeOK, [Next]_vars PROVE PaidBack \subseteq PaidBack'
  OBVIOUS
<1>1. CASE UNCHANGED gateway
  BY <1>1 DEF PaidBack
<1>2. CASE GatewaySettles
  BY <1>2 DEF GatewaySettles, PaidBack, TypeOK
<1>3. ASSUME NEW w \in Workers, GatewayRefund(w) PROVE PaidBack \subseteq PaidBack'
  <2>1. PICK r \in Refunds, reply \in {"processing", "done"} : Asked(w, r, reply)
    BY <1>3, RefundMoves
  <2>2. /\ gateway' = [gateway EXCEPT ![r] = reply]
        /\ gateway[r] = "done" => reply = "done"
    BY <2>1 DEF Asked, Accepted
  <2> QED
    BY <2>2 DEF PaidBack, TypeOK
<1>4. CASE ~GatewaySettles /\ \A w \in Workers : ~GatewayRefund(w)
  <2>1. UNCHANGED gateway
    BY <1>4 DEF Next, vars, Spend, RequestRefund, PrepareRefund, QueryRefund, ExecuteRefund,
         FinalizeRefund, LockRefund, CheckDeducted, DeductBalance, GatewaySkipped, GatewayRefuses,
         MarkRefundOk, LogRefundOk, RollbackRefund, LogRollbackFailed, MarkRefundPending,
         LogRefundPending, MarkRefundFailed, RestoreStatus, ReadDetail, GatewayAnswers,
         CheckFinalized, FinalDeduct, Crash
  <2> QED
    BY <1>1, <2>1
<1> QED
  BY <1>2, <1>3, <1>4

\* A worker comes to a confirmed refund from one, because the gateway says that it is done, or
\* because it cannot be asked.
LEMMA ConfirmedMoves ==
    ASSUME TypeOK, [Next]_vars
    PROVE  \A w \in Workers : pc'[w] \in Confirmed => pc[w] \in Confirmed \/ Returned'
<1> DEFINE P(w) == pc'[w] \in Confirmed => pc[w] \in Confirmed \/ Returned'
<1> USE DEF Confirmed
<1>v. env' = env
  BY EnvStays
<1>0. ASSUME NEW w \in Workers, NEW l, NEW p, Plan(w, p, l), P(w) PROVE \A v \in Workers : P(v)
  BY <1>0, PlanMoves
<1>00. ASSUME NEW w \in Workers, NEW l, NEW p, Plan(w, p, l), l \notin Confirmed
       PROVE  \A v \in Workers : P(v)
  BY <1>0, <1>00, PlanMoves
<1>1. CASE Spend \/ RequestRefund \/ GatewaySettles \/ UNCHANGED vars
  BY <1>1 DEF Spend, RequestRefund, GatewaySettles, vars
<1>2. ASSUME NEW w \in Workers, PrepareRefund(w) PROVE \A v \in Workers : P(v)
  <2>1. PICK p \in Plans : Plan(w, p, "lock")
    BY <1>2, PreparedPlan
  <2> QED
    BY <1>00, <2>1
<1>3. ASSUME NEW w \in Workers,
             \/ QueryRefund(w) \/ LockRefund(w) \/ CheckDeducted(w) \/ DeductBalance(w)
             \/ GatewayRefuses(w) \/ RollbackRefund(w) \/ LogRollbackFailed(w) \/ MarkRefundOk(w)
             \/ LogRefundOk(w) \/ MarkRefundPending(w) \/ LogRefundPending(w)
             \/ MarkRefundFailed(w) \/ RestoreStatus(w) \/ ReadDetail(w) \/ Crash(w)
      PROVE  \A v \in Workers : P(v)
  <2>1. \E l, p : Plan(w, p, l) /\ l \notin Confirmed
    BY <1>3 DEF QueryRefund, LockRefund, CheckDeducted, DeductBalance, GatewayRefuses,
                RollbackRefund, LogRollbackFailed, MarkRefundOk, LogRefundOk, MarkRefundPending,
                LogRefundPending, MarkRefundFailed, RestoreStatus, ReadDetail, Crash, Goto, End
  <2> QED
    BY <1>00, <2>1
<1>4. ASSUME NEW w \in Workers, CheckFinalized(w) \/ FinalDeduct(w) PROVE \A v \in Workers : P(v)
  <2>1. pc[w] \in Confirmed /\ \E l, p : Plan(w, p, l)
    BY <1>4 DEF CheckFinalized, FinalDeduct, Goto, End
  <2> QED
    BY <1>0, <2>1
<1>5. ASSUME NEW w \in Workers, GatewayAnswers(w) PROVE \A v \in Workers : P(v)
  <2>1. CASE \E r \in LookedUp(w) : gateway[r] = "done"
    <3>1. Returned'
      BY <1>5, <2>1 DEF GatewayAnswers, LookedUp, PaidBack, Returned
    <3>2. \E l, p : Plan(w, p, l)
      BY <1>5 DEF GatewayAnswers, Goto, End
    <3> QED
      BY <1>0, <3>1, <3>2
  <2>2. CASE ~\E r \in LookedUp(w) : gateway[r] = "done"
    <3>1. \E l, p : Plan(w, p, l) /\ l \notin Confirmed
      BY <1>5, <2>2 DEF GatewayAnswers, Goto, End
    <3> QED
      BY <1>00, <3>1
  <2> QED
    BY <2>1, <2>2
<1>6. ASSUME NEW w \in Workers, GatewayRefund(w) PROVE \A v \in Workers : P(v)
  <2>1. PICK r \in Refunds, reply \in {"processing", "done"} : Asked(w, r, reply)
    BY <1>6, RefundMoves
  <2>2. pc'[w] \in Confirmed => reply = "done"
    BY <2>1 DEF Asked
  <2>3. reply = "done" => PaidBack' # {}
    BY <2>1 DEF Asked, PaidBack, TypeOK
  <2>4. Plan(w, plan'[w], pc'[w])
    BY <2>1 DEF Asked
  <2> QED
    BY <1>0, <2>2, <2>3, <2>4 DEF Returned
<1>7. ASSUME NEW w \in Workers, GatewaySkipped(w) PROVE \A v \in Workers : P(v)
  <2>1. Returned' /\ \E l, p : Plan(w, p, l)
    BY <1>7, <1>v DEF GatewaySkipped, Returned, Goto
  <2> QED
    BY <1>0, <2>1
<1> QED
  BY <1>1, <1>2, <1>3, <1>4, <1>5, <1>6, <1>7 DEF Next, ExecuteRefund, FinalizeRefund

LEMMA BackedStep == TypeOK /\ Backed /\ [Next]_vars => Backed'
<1> SUFFICES ASSUME TypeOK, Backed, [Next]_vars PROVE Backed'
  OBVIOUS
<1>1. Returned => Returned'
  BY PaidStays, EnvStays DEF Returned
<1>2. \A w \in Workers : pc'[w] \in Confirmed => Returned'
  BY <1>1, ConfirmedMoves DEF Backed
<1>3. \A w \in Workers : MarkRefundOk(w) => pc[w] \in Confirmed
  BY DEF MarkRefundOk, Confirmed
<1> QED
  BY <1>1, <1>2, <1>3, MarkMoves DEF Backed

\* In every environment, however many admins refund the order at once, by whatever amounts, at a
\* gateway that leaves refunds pending or takes each request for a new one, and whatever fails: an
\* order shown as refunded was paid back by the gateway, unless it has no trade number.
THEOREM NoneShownUnpaid == Spec => [](status \in Refunded /\ env.traded => PaidBack # {})
<1>1. Init => Backed
  BY DEF Init, Backed, Refunded, Confirmed
<1>2. TypeOK /\ Backed /\ [Next]_vars => (TypeOK /\ Backed)'
  BY TypeStep, BackedStep
<1>3. Backed => (status \in Refunded /\ env.traded => PaidBack # {})
  BY DEF Backed, Returned
<1> QED
  BY TypeInit, <1>1, <1>2, <1>3, PTL DEF Spec
=============================================================================
