---------------------------- MODULE OrderPromise ----------------------------
(***************************************************************************)
(* What a customer is promised about one order: it becomes paid only after *)
(* the provider has the money, once paid it stays paid, then it is granted *)
(* once and the inviter rewarded once, and only then it is completed, for  *)
(* good.                                                                   *)
(***************************************************************************)
EXTENDS Naturals

VARIABLES
    money,   \* the provider has the money
    stage,   \* unpaid, paid or completed
    grants,  \* how often the order was granted
    rebates  \* how often its inviter was rewarded

Init ==
    /\ money = FALSE
    /\ stage = "unpaid"
    /\ grants = 0 /\ rebates = 0

Receive ==
    /\ ~money /\ money' = TRUE
    /\ UNCHANGED <<stage, grants, rebates>>

Accept ==
    /\ stage = "unpaid" /\ money
    /\ stage' = "paid"
    /\ UNCHANGED <<money, grants, rebates>>

Grant ==
    /\ stage = "paid" /\ grants = 0
    /\ grants' = 1
    /\ UNCHANGED <<money, stage, rebates>>

Reward ==
    /\ stage = "paid" /\ grants = 1 /\ rebates = 0
    /\ rebates' = 1
    /\ UNCHANGED <<money, stage, grants>>

Complete ==
    /\ stage = "paid" /\ grants = 1 /\ rebates = 1
    /\ stage' = "completed"
    /\ UNCHANGED <<money, grants, rebates>>

Next == Receive \/ Accept \/ Grant \/ Reward \/ Complete

Spec == Init /\ [][Next]_<<money, stage, grants, rebates>>
=============================================================================
