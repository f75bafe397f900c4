--------------------------- MODULE MCIngressLease ---------------------------
\* Two connections of one API key.
EXTENDS IngressLease

CONSTANTS c1, c2
=============================================================================
