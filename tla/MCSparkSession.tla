--------------------------- MODULE MCSparkSession ---------------------------
(* Two connections of one database, two users.  The connections are        *)
(* interchangeable, and so are the users.                                  *)
EXTENDS SparkSession, TLC

CONSTANTS c1, c2, u1, u2, pinned

TwoClients == {c1, c2}
TwoUsers   == {u1, u2}
Symmetry   == Permutations(TwoClients) \cup Permutations(TwoUsers)

=============================================================================
