---------------------------- MODULE HoldPromise ----------------------------
(***************************************************************************)
(* What the ledger promises about the money one batch job freezes: it is   *)
(* frozen at most once, and then either a part of it is charged and the    *)
(* rest returned, or all of it is returned. Never both, never twice, and   *)
(* nothing else moves the user's two balances.                             *)
(***************************************************************************)
EXTENDS Naturals

CONSTANTS
    Hold,           \* the amount the job freezes
    StartBalances,  \* what the user may have
    StartFrozen     \* what the user's other jobs may have frozen

VARIABLES phase, balance, frozen

Init ==
    /\ phase = "none"
    /\ balance \in StartBalances
    /\ frozen \in StartFrozen

Freeze ==
    /\ phase = "none" /\ phase' = "held"
    /\ balance >= Hold
    /\ balance' = balance - Hold /\ frozen' = frozen + Hold

Charge ==
    /\ phase = "held" /\ phase' = "charged"
    /\ frozen' = frozen - Hold
    /\ \E cost \in 0..Hold : balance' = balance + (Hold - cost)

Return ==
    /\ phase = "held" /\ phase' = "returned"
    /\ frozen' = frozen - Hold
    /\ balance' = balance + Hold

Next == Freeze \/ Charge \/ Return

Spec == Init /\ [][Next]_<<phase, balance, frozen>>
=============================================================================
