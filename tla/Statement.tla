------------------------------- MODULE Statement -------------------------------
(***************************************************************************)
(* A statement (driver/spark/statement.go): the query and the bound record *)
(* it collects, and the plans it sends.  Calls on one statement are        *)
(* serialised (adbc.h); its connection may be closed at any time between   *)
(* them.  After Close the caller makes no call but Execute, which checks.  *)
(*                                                                         *)
(* Arrow records are counted: the caller owns one reference on each it has *)
(* built, and gives it up when it likes.  The C driver's Bind is such a    *)
(* caller: it imports, binds and releases.                                 *)
(***************************************************************************)
EXTENDS ParamLiterals, Sequences, FiniteSets

CONSTANTS
    Records,   \* names of Arrow records
    Contents,  \* for each, what it may hold: its rows and, in the first, columns
    Queries,   \* SQL texts, NoQuery among them
    MaxPlans   \* bound: plans sent

NoQuery == "no query"   \* ""

Column == [type : Types, unit : Units, value : Int]
IsContents(c) ==
    /\ c \in [rows : Nat, cols : Seq(Column)]
    /\ \A n \in DOMAIN c.cols : c.cols[n].value \in Domain(c.cols[n].type)

\* A record that is not built yet holds Nothing.
Nothing == [rows |-> 0, cols |-> <<>>]
Nil     == "nil"

ASSUME ContentsAssumption ==
    \A r \in Records : \A c \in Contents[r] : IsContents(c) /\ c # Nothing
ASSUME NilIsNoRecord == Nil \notin Records
ASSUME QueriesAssumption == NoQuery \in Queries
ASSUME PlansBound == MaxPlans \in Nat

VARIABLES
    query, params, prepared,  \* fields of the statement; params: a record or Nil
    open,      \* the statement has its connection
    client,    \* the connection has its client
    content,   \* what each record holds
    refs,      \* references on each record
    held,      \* records the caller still owns a reference on
    bound,     \* what the last Bind that returned OK was given
    plan,      \* the last plan sent, and what was bound then
    plans,     \* plans sent so far
    status     \* of the last call: "ok" or an error

fields == <<query, params, prepared>>
arrow  == <<content, refs, held>>
vars   == <<fields, open, client, arrow, bound, plan, plans, status>>

NoPlan  == [query |-> NoQuery, literals |-> <<>>, of |-> Nothing]

Init ==
    /\ query = NoQuery /\ params = Nil /\ prepared = FALSE
    /\ open = TRUE /\ client = TRUE
    /\ content = [r \in Records |-> Nothing] /\ refs = [r \in Records |-> 0]
    /\ held = {}
    /\ bound = Nothing /\ plan = NoPlan /\ plans = 0 /\ status = "ok"

-----------------------------------------------------------------------------
(* The caller and its records.                                             *)

Build(r) ==
    /\ content[r] = Nothing
    /\ \E c \in Contents[r] : content' = [content EXCEPT ![r] = c]
    /\ refs' = [refs EXCEPT ![r] = 1]
    /\ held' = held \cup {r}
    /\ UNCHANGED <<fields, open, client, bound, plan, plans, status>>

Drop(r) ==
    /\ r \in held
    /\ held' = held \ {r}
    /\ refs' = [refs EXCEPT ![r] = @ - 1]
    /\ UNCHANGED <<content, fields, open, client, bound, plan, plans, status>>

-----------------------------------------------------------------------------
(* The statement.                                                          *)

Fail(code) == status' = code /\ UNCHANGED <<fields, open, refs, bound, plan, plans>>

SetSqlQuery(q) ==
    /\ open
    /\ query' = q /\ status' = "ok"
    /\ UNCHANGED <<params, prepared, open, client, arrow, bound, plan, plans>>

Prepare ==
    /\ open
    /\ IF query = NoQuery THEN Fail("INVALID_STATE")
       ELSE /\ prepared' = TRUE /\ status' = "ok"
            /\ UNCHANGED <<query, params, open, refs, bound, plan, plans>>
    /\ UNCHANGED <<client, content, held>>

\* What SetOption, SetSubstraitPlan, BindStream, GetParameterSchema and
\* ExecutePartitions have in common.
Unsupported ==
    /\ open
    /\ Fail("NOT_IMPLEMENTED")
    /\ UNCHANGED <<client, content, held>>

\* The references after Release of the old record and Retain of the new one.
Rebound(old, new) ==
    [r \in Records |->
        refs[r] - (IF r = old THEN 1 ELSE 0) + (IF r = new THEN 1 ELSE 0)]

\* Mutant: the new record is kept though it has too many rows.
BindFirst(r) ==
    /\ open /\ r \in held \cup {Nil}
    /\ refs' = Rebound(params, r) /\ params' = r
    /\ IF r # Nil /\ content[r].rows > 1
       THEN status' = "NOT_IMPLEMENTED" /\ UNCHANGED bound
       ELSE status' = "ok" /\ bound' = IF r = Nil THEN Nothing ELSE content[r]
    /\ UNCHANGED <<query, prepared, open, client, content, held, plan, plans>>

Bind(r) ==
    /\ open /\ r \in held \cup {Nil}
    /\ IF r # Nil /\ content[r].rows > 1 THEN Fail("NOT_IMPLEMENTED")
       ELSE /\ refs' = Rebound(params, r)
            /\ params' = r /\ status' = "ok"
            /\ bound' = IF r = Nil THEN Nothing ELSE content[r]
            /\ UNCHANGED <<query, prepared, open, plan, plans>>
    /\ UNCHANGED <<client, content, held>>

\* Mutant: a column that cannot be bound is left out.
LiteralsThatFit ==
    IF params = Nil \/ content[params].rows = 0 THEN <<>>
    ELSE LET Fits(l) == l.kind # "error"
             cols == content[params].cols
         IN SelectSeq([n \in DOMAIN cols |-> columnToLiteral(cols[n])], Fits)

positionalLiterals ==
    IF params = Nil \/ content[params].rows = 0 THEN <<>>
    ELSE LET cols == content[params].cols
         IN [n \in DOMAIN cols |-> columnToLiteral(cols[n])]

\* The error of the first column that cannot be bound.
Refused(literals) == {n \in DOMAIN literals : literals[n].kind = "error"}
FirstError(literals) ==
    literals[CHOOSE n \in Refused(literals) :
                 \A k \in Refused(literals) : n <= k].value

\* ExecuteQuery, and ExecuteUpdate, which drains what ExecuteQuery returns.
\* Whatever the server makes of the plan, the statement stays as it is.
Execute ==
    /\ IF ~open \/ ~client \/ query = NoQuery THEN Fail("INVALID_STATE")
       ELSE IF Refused(positionalLiterals) # {}
       THEN Fail(FirstError(positionalLiterals))
       ELSE /\ plans < MaxPlans /\ plans' = plans + 1
            /\ plan' = [query |-> query, literals |-> positionalLiterals,
                        of |-> bound]
            /\ status' = "ok"
            /\ UNCHANGED <<fields, open, refs, bound>>
    /\ UNCHANGED <<client, content, held>>

\* Mutant: the record is forgotten, not released.
CloseForgetsRecord ==
    /\ open
    /\ params' = Nil /\ open' = FALSE /\ status' = "ok"
    /\ UNCHANGED <<query, prepared, client, arrow, bound, plan, plans>>

Close ==
    /\ open
    /\ refs' = Rebound(params, Nil)
    /\ params' = Nil /\ open' = FALSE /\ status' = "ok"
    /\ UNCHANGED <<query, prepared, client, content, held, bound, plan, plans>>

\* connection.Close: client = nil.
ConnectionClose ==
    /\ client
    /\ client' = FALSE /\ status' = "ok"
    /\ UNCHANGED <<fields, open, arrow, bound, plan, plans>>

-----------------------------------------------------------------------------

Next ==
    \/ \E r \in Records : Build(r) \/ Drop(r)
    \/ \E q \in Queries : SetSqlQuery(q)
    \/ \E r \in Records \cup {Nil} : Bind(r)
    \/ Prepare \/ Unsupported \/ Execute \/ Close \/ ConnectionClose

Spec == Init /\ [][Next]_vars

-----------------------------------------------------------------------------
(* Properties.                                                             *)

TypeOK ==
    /\ query \in Queries /\ params \in Records \cup {Nil}
    /\ {prepared, open, client} \subseteq BOOLEAN
    /\ \A r \in Records : IsContents(content[r])
    /\ refs \in [Records -> 0..2] /\ held \subseteq Records
    /\ IsContents(bound)
    /\ plans \in 0..MaxPlans /\ (plan = NoPlan <=> plans = 0)
    /\ status \in {"ok", "INVALID_STATE", "NOT_IMPLEMENTED", "INVALID_ARGUMENT"}

\* A bound record lives until the next Bind or Close and no longer, however
\* soon the caller releases it and however often it is bound: every reference
\* is the caller's or the statement's.
ParamsAccounted ==
    \A r \in Records :
        refs[r] = (IF r \in held THEN 1 ELSE 0) + (IF r = params THEN 1 ELSE 0)

\* A plan has one literal for every column of the record of the last Bind that
\* succeeded, in its place, of the kind for the column's type and of a value
\* that the kind can hold; one column that cannot be bound keeps the whole plan
\* from being sent.
PlanHasAllParameters ==
    plan # NoPlan =>
        LET cols == IF plan.of.rows = 0 THEN <<>> ELSE plan.of.cols IN
        /\ plan.query # NoQuery
        /\ Len(plan.literals) = Len(cols)
        /\ \A n \in DOMAIN cols :
               /\ IsKindFor(plan.literals[n].kind, cols[n].type)
               /\ plan.literals[n].value \in ValuesOf(plan.literals[n].kind)

\* Every literal says what was bound, wherever Spark has a value for that,
\* save for the days before 1970 that a Date64 gives a time of day.
LiteralsSayWhatWasBound ==
    plan # NoPlan =>
        \A n \in DOMAIN plan.literals :
            LET col == plan.of.cols[n] IN
            col.type # Null /\ Representable(col) /\ ~WithinDayBeforeEpoch(col)
                => SaysAs(col, plan.literals[n].value)

\* "Floor-divide so any intra-day component is dropped" (params.go): the
\* day of any Date64.
Date64IsFloored ==
    plan # NoPlan =>
        \A n \in DOMAIN plan.literals :
            LET col == plan.of.cols[n] IN
            col.type = "date64" /\ Representable(col)
                => SaysAs(col, plan.literals[n].value)

\* A call that fails leaves the statement as it was: an Execute after a
\* failed Bind or Prepare sends what it would have sent without it.
FailureChangesNothing ==
    [][status' # "ok" => UNCHANGED <<fields, open, bound, plan>>]_vars

=============================================================================
