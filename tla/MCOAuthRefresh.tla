--------------------------- MODULE MCOAuthRefresh ---------------------------
\* Two refreshers of one process and one of another, or some of them and administrators.
EXTENDS OAuthRefresh, TLC

CONSTANTS w1, w2, w3, a1, a2, p1, p2

MCHome == [w \in Refreshers |-> IF w = w3 THEN p2 ELSE p1]
MCParties ==
    {[members |-> {w1, w2, w3}, rotations |-> 2], [members |-> {w1, a1}, rotations |-> 2],
     [members |-> {w1, w3, a1}, rotations |-> 1], [members |-> {w1, a1, a2}, rotations |-> 1]}
Symmetry == Permutations(Refreshers \ {w3}) \cup Permutations(Admins)
=============================================================================
