------------------------ MODULE MCPaymentFulfillment ------------------------
(***************************************************************************)
(* Instances of PaymentFulfillment for TLC.                                *)
(***************************************************************************)
EXTENDS PaymentFulfillment, TLC

CONSTANTS w1, w2, w3

\* No worker waits a lease duration between acquiring the lease and reading it back.
PromptReload == {"reload"}

\* No worker takes a lease duration to do its work.
PromptWork == {"reload"} \cup Leased

\* Every statement and every provider call may fail.
Anywhere == Labels

Symmetry == Permutations(Workers)
=============================================================================
