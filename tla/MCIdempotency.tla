--------------------------- MODULE MCIdempotency ---------------------------
(***************************************************************************)
(* Instances of Idempotency for TLC: three calls with one payload, and     *)
(* one that reuses the key with another payload.                           *)
(***************************************************************************)
EXTENDS Idempotency, TLC

CONSTANTS r1, r2, r3, r4, fpA, fpB

MCFingerprint == [r \in Requests |-> IF r = r4 THEN fpB ELSE fpA]

\* The calls with the same payload are interchangeable.
Retries == Permutations({r1, r2, r3})
=============================================================================
