------------------------- MODULE MCConcurrencySlots -------------------------
\* Two instances; the first serves one request, the second the others.
EXTENDS ConcurrencySlots

CONSTANTS i1, i2, r1, r2, r3

MCHome == [r \in Requests |-> IF r = r1 THEN i1 ELSE i2]
\* Everywhere but "uncounted", a waiter the counter does not know.
Everywhere == {"acquire", "enqueue", "touch", "decrement", "refresh", "release", "sweep", "start"}
=============================================================================
