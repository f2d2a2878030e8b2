------------------------- MODULE MCSessionLifetime -------------------------
(* Three connections: one that lingers, its resume, and an agent channel.   *)
EXTENDS SessionLifetime

CONSTANTS c1, c2, c3
=============================================================================
