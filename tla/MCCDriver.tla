------------------------------ MODULE MCCDriver ------------------------------
(* One database, two connections and streams, and a statement.             *)
EXTENDS CDriver, TLC

CONSTANTS d, k1, k2, s, t1, t2

\* Connections are interchangeable, and so are streams.
Swaps == Permutations({k1, k2}) \cup Permutations({t1, t2})

\* No action reads what the last call returned.
WhatIsHeld == state

=============================================================================
