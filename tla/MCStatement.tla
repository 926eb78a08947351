------------------------------ MODULE MCStatement ------------------------------
(* One record with one column of any type, at the ends and in the middle of *)
(* its scaled width, and one with a column of another type beside it, no    *)
(* rows or two.                                                             *)
EXTENDS Statement

Of(t, u, v) == [type |-> t, unit |-> u, value |-> v]
One(col)    == [rows |-> 1, cols |-> <<col>>]
First       == Of("int64", "s", 1)

Ends(S) == {v \in S : \/ v \in -4..4
                       \/ {v - 2, v + 2} \cap S # {v - 2, v + 2}}

MCContents ==
    [r1 |-> UNION {{One(Of(t, u, v)) :
                       u \in IF t \in Timestamps THEN Units ELSE {"s"},
                       v \in Ends(Domain(t))} : t \in Types},
     r2 |-> {[rows |-> 1, cols |-> <<First, Of(t, "s", 0)>>] :
                       t \in {"string", OtherType}}
            \cup {[rows |-> k, cols |-> <<First>>] : k \in {0, 2}}]

=============================================================================
