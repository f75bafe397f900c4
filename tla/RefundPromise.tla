--------------------------- MODULE RefundPromise ---------------------------
(***************************************************************************)
(* What a customer and the operator are promised about the refund of an    *)
(* order: money is taken from the customer for one attempt at a time and   *)
(* given back as a whole, the gateway pays back at most once, the order is *)
(* shown as refunded by the amount it has paid, and then nothing moves any *)
(* more.  A payment the gateway cannot be asked for is left to the         *)
(* operator: the order is shown as refunded, and the gateway pays nothing. *)
(***************************************************************************)
EXTENDS Naturals

CONSTANTS
    Amount,  \* what the order has credited
    Refunds  \* what the gateway may pay back: amounts, each with a number

VARIABLES
    shown,  \* the amount the order is shown as refunded by, 0 while it is not
    taken,  \* what the customer has lost by refunds of this order
    paid,   \* the refunds the gateway has paid
    known   \* the gateway can be asked for the payment, never changed

Init == shown = 0 /\ taken = 0 /\ paid = {} /\ known \in BOOLEAN

Take ==
    /\ shown = 0 /\ taken = 0
    /\ taken' \in 1..Amount
    /\ UNCHANGED <<shown, paid, known>>

GiveBack ==
    /\ shown = 0 /\ taken > 0
    /\ taken' = 0
    /\ UNCHANGED <<shown, paid, known>>

PayBack ==
    /\ shown = 0 /\ paid = {} /\ known
    /\ \E r \in Refunds : paid' = {r}
    /\ UNCHANGED <<shown, taken, known>>

Close ==
    /\ shown = 0
    /\ IF known THEN \E r \in paid : shown' = r[1] ELSE shown' \in 1..Amount
    /\ UNCHANGED <<taken, paid, known>>

Next == Take \/ GiveBack \/ PayBack \/ Close

Spec == Init /\ [][Next]_<<shown, taken, paid, known>>
=============================================================================
