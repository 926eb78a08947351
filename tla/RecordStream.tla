---------------------------- MODULE RecordStream ----------------------------
(***************************************************************************)
(* What the consumer of a query result is promised, without batches,       *)
(* buffers or reference counts: the records of a growing result are given  *)
(* out one by one from the first on; the reader says "end" only when the   *)
(* result has ended and all of it was given out; it may say "error" at any *)
(* time before that; and what it said last of the two stays.               *)
(***************************************************************************)
EXTENDS Naturals

CONSTANT MaxRecords     \* bound: records of the result

VARIABLES
    produced,   \* records of the result that exist
    ended,      \* the result will not grow any more
    delivered,  \* records given to the consumer
    outcome     \* "none", "record", "end", "error"

svars == <<produced, ended, delivered, outcome>>

Init == produced = 0 /\ ended = FALSE /\ delivered = 0 /\ outcome = "none"

Grow ==
    /\ ~ended
    /\ produced' \in produced..MaxRecords
    /\ UNCHANGED <<ended, delivered, outcome>>

End ==
    /\ ~ended
    /\ ended' = TRUE
    /\ UNCHANGED <<produced, delivered, outcome>>

Deliver ==
    /\ outcome \in {"none", "record"}
    /\ delivered < produced
    /\ delivered' = delivered + 1
    /\ outcome' = "record"
    /\ UNCHANGED <<produced, ended>>

SayEnd ==
    /\ outcome \in {"none", "record"}
    /\ ended /\ delivered = produced
    /\ outcome' = "end"
    /\ UNCHANGED <<produced, ended, delivered>>

SayError ==
    /\ outcome \in {"none", "record"}
    /\ outcome' = "error"
    /\ UNCHANGED <<produced, ended, delivered>>

Next == Grow \/ End \/ Deliver \/ SayEnd \/ SayError

Spec == Init /\ [][Next]_svars

=============================================================================
