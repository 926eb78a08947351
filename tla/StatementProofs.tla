--------------------------- MODULE StatementProofs ---------------------------
(***************************************************************************)
(* Proofs about Statement and ParamLiterals, for any records, any widths,  *)
(* days and units of time: what a literal says, what a plan holds, and     *)
(* that no record is released too early or too late.                       *)
(***************************************************************************)
EXTENDS Statement, TLAPS

-----------------------------------------------------------------------------
(* Arithmetic, as Go has it.                                               *)

LEMMA ModRange ==
  ASSUME NEW a \in Int, NEW m \in Nat, m > 0
  PROVE  a % m \in 0..m-1
  OBVIOUS

LEMMA ModId ==
  ASSUME NEW m \in Nat, m > 0, NEW a \in 0..m-1
  PROVE  a % m = a
  OBVIOUS

LEMMA DivBounds ==
  ASSUME NEW a \in Int, NEW m \in Nat, m > 0
  PROVE  a \div m \in Int /\ m * (a \div m) <= a /\ m * (a \div m) > a - m
  OBVIOUS

LEMMA DivExact ==
  ASSUME NEW a \in Int, NEW m \in Nat, m > 0, a % m = 0
  PROVE  a = m * (a \div m)
  OBVIOUS

LEMMA DivUnique ==
  ASSUME NEW a \in Int, NEW q \in Int, NEW m \in Nat, m > 0, a >= m * q, a < m * q + m
  PROVE  a \div m = q
  OBVIOUS

LEMMA DivSmaller ==
  ASSUME NEW a \in Nat, NEW m \in Nat, m > 0
  PROVE  a \div m \in 0..a
  OBVIOUS

\* A conversion to an integer of some width stays in it, and leaves alone what
\* is in it already.
LEMMA WrapInRange ==
  ASSUME NEW max \in Nat, NEW v \in Int
  PROVE  Wrap(v, max) \in Signed(max)
  BY ModRange DEF Wrap, Signed

LEMMA WrapKeeps ==
  ASSUME NEW max \in Nat, NEW v \in Signed(max)
  PROVE  Wrap(v, max) = v
  BY ModId DEF Wrap, Signed

\* A truncated quotient is no larger than the dividend, off by less than one
\* divisor, and exact where there is no remainder.
LEMMA QuotientBounds ==
  ASSUME NEW max \in Nat, NEW a \in Signed(max), NEW m \in Nat, m > 0
  PROVE  /\ Quotient(a, m) \in Signed(max)
         /\ Quotient(a, m) * m - a \in 1 - m .. m - 1
<1>1. CASE a >= 0
  <2>1. a \in Nat /\ Quotient(a, m) = a \div m
    BY <1>1 DEF Quotient, Signed
  <2>2. Quotient(a, m) \in Signed(max)
    BY <2>1, DivSmaller DEF Signed
  <2>3. PICK q \in Int : q = a \div m /\ m * q <= a /\ m * q > a - m
    BY <2>1, DivBounds
  <2> QED
    BY <2>1, <2>2, <2>3 DEF Signed
<1>2. CASE a < 0
  <2>1. -a \in Nat /\ Quotient(a, m) = -((-a) \div m)
    BY <1>2 DEF Quotient, Signed
  <2>2. (-a) \div m \in 0..(-a)
    BY <2>1, DivSmaller
  <2>3. PICK q \in Int : q = (-a) \div m /\ m * q <= -a /\ m * q > (-a) - m
    BY <2>1, DivBounds
  <2>4. Quotient(a, m) \in Signed(max)
    BY <1>2, <2>1, <2>2 DEF Signed
  <2>5. (-q) * m = -(m * q)
    BY <2>3
  <2> QED
    BY <2>1, <2>3, <2>4, <2>5 DEF Signed
<1> QED
  BY <1>1, <1>2 DEF Signed

LEMMA QuotientExact ==
  ASSUME NEW a \in Int, NEW m \in Nat, m > 0, a >= 0 \/ a % m = 0
  PROVE  Quotient(a, m) = a \div m
<1>1. CASE a >= 0
  BY <1>1 DEF Quotient
<1>2. CASE a < 0
  <2>1. PICK q \in Int : q = a \div m /\ a = m * q
    BY <1>2, DivExact, DivBounds
  <2>2. -a = m * (-q)
    BY <2>1
  <2>3. (-a) \div m = -q
    BY <2>1, <2>2, DivUnique
  <2> QED
    BY <1>2, <2>1, <2>3 DEF Quotient
<1> QED
  BY <1>1, <1>2

-----------------------------------------------------------------------------
(* Literals.                                                               *)

LEMMA Constants ==
  /\ Max8 \in Nat /\ Max16 \in Nat /\ Max32 \in Nat /\ Max64 \in Nat
  /\ MsPerDay \in Nat /\ MsPerDay > 0 /\ Kilo \in Nat /\ Kilo > 0
  BY WidthsAssumption, UnitsAssumption

LEMMA MicrosInRange ==
  ASSUME NEW v \in Signed(Max64), NEW unit \in Units
  PROVE  timestampToMicros(v, unit) \in Signed(Max64)
<1>1. v \in Int /\ v * Kilo \in Int /\ v * Kilo * Kilo \in Int
  BY Constants DEF Signed
<1>2. CASE unit = "s"
  BY <1>1, <1>2, Constants, WrapInRange DEF timestampToMicros
<1>3. CASE unit = "ms"
  BY <1>1, <1>3, Constants, WrapInRange DEF timestampToMicros
<1>4. CASE unit = "us"
  BY <1>4 DEF timestampToMicros
<1>5. CASE unit = "ns"
  BY <1>5, Constants, QuotientBounds DEF timestampToMicros
<1> QED
  BY <1>2, <1>3, <1>4, <1>5 DEF Units

\* The definitions by cases, a case at a time.
LEMMA Values ==
  /\ ValuesOf("byte") = Signed(Max8) /\ ValuesOf("short") = Signed(Max16)
  /\ ValuesOf("integer") = Signed(Max32) /\ ValuesOf("date") = Signed(Max32)
  /\ ValuesOf("long") = Signed(Max64)
  /\ ValuesOf("timestamp") = Signed(Max64) /\ ValuesOf("timestamp_ntz") = Signed(Max64)
  /\ \A kind \in {"null", "boolean", "float", "double", "string", "binary", "decimal"} :
         ValuesOf(kind) = 0..1
  BY DEF ValuesOf

LEMMA Domains ==
  /\ Domain("int8") = Signed(Max8) /\ Domain("uint8") = Unsigned(Max8)
  /\ Domain("int16") = Signed(Max16) /\ Domain("uint16") = Unsigned(Max16)
  /\ Domain("int32") = Signed(Max32) /\ Domain("uint32") = Unsigned(Max32)
  /\ Domain("date32") = Signed(Max32)
  /\ Domain("int64") = Signed(Max64) /\ Domain("uint64") = Unsigned(Max64)
  /\ Domain("date64") = Signed(Max64)
  /\ Domain("timestamp") = Signed(Max64) /\ Domain("local") = Signed(Max64)
  /\ \A type \in {"bool", "float", "double", "string", "binary", "decimal"} :
         Domain(type) = 0..1
  BY DEF Domain, Timestamps

\* A literal that is made holds a value of its kind.
LEMMA LiteralInRange ==
  ASSUME NEW col \in Column, col.value \in Domain(col.type),
         columnToLiteral(col).kind # "error"
  PROVE  columnToLiteral(col).value \in ValuesOf(columnToLiteral(col).kind)
<1>1. CASE col.type = Null
  <2>1. columnToLiteral(col) = Literal("null", 0)
    BY <1>1 DEF columnToLiteral, Null, OtherType
  <2> QED
    BY <2>1, Values DEF Literal
<1>2. CASE col.type = OtherType
  BY <1>2 DEF columnToLiteral, Error, Null, OtherType
<1>3. CASE col.type \in Supported
  <2>1. /\ columnToLiteral(col) = Literal(LiteralOf[col.type], Converted(col))
        /\ col.type = "uint64" => col.value <= Max64
    <3>1. ~(col.type = "uint64" /\ col.value > Max64)
      BY <1>3 DEF columnToLiteral, Error, Null, OtherType, Supported, LiteralOf
    <3>2. columnToLiteral(col) = Literal(LiteralOf[col.type], Converted(col))
      BY <1>3, <3>1 DEF columnToLiteral, Null, OtherType, Supported, LiteralOf
    <3> QED
      BY <3>1, <3>2, Constants DEF Column
  <2>2. CASE col.type \in Timestamps
    <3>1. col.value \in Signed(Max64) /\ col.unit \in Units
      BY <2>2 DEF Domain, Timestamps, Column
    <3>2. Converted(col) \in Signed(Max64)
      BY <2>2, <3>1, MicrosInRange DEF Converted, Timestamps
    <3>3. LiteralOf[col.type] \in {"timestamp", "timestamp_ntz"}
      BY <2>2 DEF LiteralOf, Timestamps
    <3> QED
      BY <2>1, <3>2, <3>3 DEF Literal, ValuesOf
  <2>3. CASE col.type = "date64"
    <3>1. col.value \in Signed(Max64)
      BY <2>3, Domains
    <3>2. Quotient(col.value, MsPerDay) \in Signed(Max64)
      BY <3>1, Constants, QuotientBounds
    <3>3. Quotient(col.value, MsPerDay) \in Int
      BY <3>2, Constants DEF Signed
    <3>4. Converted(col) = Wrap(Quotient(col.value, MsPerDay), Max32)
      BY <2>3 DEF Converted, Timestamps
    <3>5. Converted(col) \in Signed(Max32)
      BY <3>3, <3>4, Constants, WrapInRange
    <3>6. LiteralOf[col.type] = "date"
      BY <2>3 DEF LiteralOf
    <3> QED
      BY <2>1, <3>5, <3>6, Values DEF Literal
  <2>4. CASE col.type \notin Timestamps \cup {"date64"}
    <3>1. columnToLiteral(col) = Literal(LiteralOf[col.type], col.value)
      BY <2>1, <2>4 DEF Converted
    <3>2. CASE col.type \in {"int8", "int16", "int32", "date32", "int64"}
      BY <3>1, <3>2 DEF Domain, ValuesOf, LiteralOf, Literal, Timestamps
    <3>3. CASE col.type \in {"uint8", "uint16", "uint32", "uint64"}
      <4>1. /\ col.type = "uint8" => col.value \in Unsigned(Max8) /\ LiteralOf[col.type] = "short"
            /\ col.type = "uint16" => col.value \in Unsigned(Max16) /\ LiteralOf[col.type] = "integer"
            /\ col.type = "uint32" => col.value \in Unsigned(Max32) /\ LiteralOf[col.type] = "long"
            /\ col.type = "uint64" => col.value \in Unsigned(Max64) /\ LiteralOf[col.type] = "long"
        BY Domains DEF LiteralOf
      <4>2. /\ Unsigned(Max8) \subseteq Signed(Max16) /\ Unsigned(Max16) \subseteq Signed(Max32)
            /\ Unsigned(Max32) \subseteq Signed(Max64)
            /\ \A x \in Unsigned(Max64) : x <= Max64 => x \in Signed(Max64)
        BY Constants, WidthsAssumption DEF Unsigned, Signed
      <4> QED
        BY <2>1, <3>1, <3>3, <4>1, <4>2, Values DEF Literal
    <3>4. CASE col.type \in {"bool", "float", "double", "string", "binary", "decimal"}
      BY <3>1, <3>4 DEF Domain, ValuesOf, LiteralOf, Literal, Timestamps
    <3> QED
      BY <1>3, <2>4, <3>2, <3>3, <3>4 DEF Supported, LiteralOf, Timestamps
  <2> QED
    BY <2>2, <2>3, <2>4
<1> QED
  BY <1>1, <1>2, <1>3 DEF Column, Types

\* Which ranges lie in which: a signed type in each as wide, an unsigned type
\* only in wider ones.
LEMMA Ranges ==
  ASSUME NEW a \in Nat, NEW b \in Nat
  PROVE  /\ a <= b => Signed(a) \subseteq Signed(b)
         /\ b < a => ~(Signed(a) \subseteq Signed(b))
         /\ 2 * a + 1 <= b => Unsigned(a) \subseteq Signed(b)
         /\ b < 2 * a + 1 => ~(Unsigned(a) \subseteq Signed(b))
<1>1. a \in Signed(a) /\ 2 * a + 1 \in Unsigned(a)
  BY DEF Signed, Unsigned
<1>2. b < a => a \notin Signed(b)
  BY DEF Signed
<1>3. b < 2 * a + 1 => 2 * a + 1 \notin Signed(b)
  BY DEF Signed
<1>4. (a <= b => Signed(a) \subseteq Signed(b)) /\ (2 * a + 1 <= b => Unsigned(a) \subseteq Signed(b))
  BY DEF Signed, Unsigned
<1> QED
  BY <1>1, <1>2, <1>3, <1>4

\* Each integer type becomes the narrowest kind that has its values.
LEMMA NarrowestKind ==
  ASSUME NEW type \in IntegerTypes
  PROVE  IsKindFor(LiteralOf[type], type)
<1>1. /\ Max8 < Max16 /\ Max16 < Max32 /\ Max32 < Max64
      /\ Max8 < 2 * Max8 + 1 /\ Max16 < 2 * Max16 + 1 /\ Max32 < 2 * Max32 + 1
      /\ Max64 < 2 * Max64 + 1
  BY Constants, WidthsAssumption
<1> DEFINE Narrowest(n, t) ==
      /\ HoldsAll(IntegerKinds[n], t) \/ n = 4
      /\ \A m \in 1..(n - 1) : ~HoldsAll(IntegerKinds[m], t)
<1>2. /\ IntegerKinds[1] = "byte" /\ IntegerKinds[2] = "short"
      /\ IntegerKinds[3] = "integer" /\ IntegerKinds[4] = "long"
  BY DEF IntegerKinds
<1>3. Narrowest(1, "int8")
  BY <1>2, Constants, Ranges, Domains, Values DEF HoldsAll
<1>4. Narrowest(2, "int16") /\ Narrowest(2, "uint8")
  BY <1>1, <1>2, Constants, WidthsAssumption, Ranges, Domains, Values DEF HoldsAll
<1>5. Narrowest(3, "int32") /\ Narrowest(3, "uint16")
  BY <1>1, <1>2, Constants, WidthsAssumption, Ranges, Domains, Values DEF HoldsAll
<1>6. Narrowest(4, "int64") /\ Narrowest(4, "uint32") /\ Narrowest(4, "uint64")
  BY <1>1, <1>2, Constants, WidthsAssumption, Ranges, Domains, Values DEF HoldsAll
<1>7. \E n \in 1..4 : LiteralOf[type] = IntegerKinds[n] /\ Narrowest(n, type)
  <2> HIDE DEF Narrowest
  <2> QED
    BY <1>2, <1>3, <1>4, <1>5, <1>6 DEF IntegerTypes, LiteralOf
<1> QED
  BY <1>7 DEF IsKindFor, IntegerTypes, Null

\* A literal that is made is of the kind for the type of its column.
LEMMA LiteralOfType ==
  ASSUME NEW col \in Column, columnToLiteral(col).kind # "error"
  PROVE  IsKindFor(columnToLiteral(col).kind, col.type)
<1>1. CASE col.type = Null
  BY <1>1 DEF columnToLiteral, Literal, IsKindFor, IntegerTypes, Null, OtherType
<1>2. CASE col.type = OtherType
  BY <1>2 DEF columnToLiteral, Error, Null, OtherType
<1>3. CASE col.type \in Supported
  <2>1. columnToLiteral(col).kind = LiteralOf[col.type]
    BY <1>3 DEF columnToLiteral, Literal, Error, Null, OtherType, Supported, LiteralOf
  <2>2. CASE col.type \in IntegerTypes
    BY <2>1, <2>2, NarrowestKind
  <2>3. CASE col.type \notin IntegerTypes
    BY <1>3, <2>1, <2>3 DEF IsKindFor, Supported, LiteralOf, IntegerTypes, Null
  <2> QED
    BY <2>2, <2>3
<1> QED
  BY <1>1, <1>2, <1>3 DEF Column, Types

\* Where Spark has a value for what a column says, the literal is that value,
\* save for a time of day before 1970.
LEMMA LiteralSays ==
  ASSUME NEW col \in Column, col.value \in Domain(col.type), col.type # Null,
         columnToLiteral(col).kind # "error",
         Representable(col), ~WithinDayBeforeEpoch(col)
  PROVE  SaysAs(col, columnToLiteral(col).value)
<1>1. col.type \in Supported /\ columnToLiteral(col).value = Converted(col)
  <2>1. col.type # OtherType
    BY DEF columnToLiteral, Error, Null, OtherType
  <2>2. ~(col.type = "uint64" /\ col.value > Max64)
    BY DEF columnToLiteral, Error, Null, OtherType
  <2> QED
    BY <2>1, <2>2 DEF columnToLiteral, Literal, Column, Types
<1>2. PICK v \in ValuesOf(LiteralOf[col.type]) : SaysAs(col, v)
  BY DEF Representable
<1>3. CASE col.type \in Timestamps
  <2>1. /\ col.value \in Signed(Max64) /\ col.unit \in Units /\ v \in Signed(Max64)
        /\ Converted(col) = timestampToMicros(col.value, col.unit)
    BY <1>2, <1>3 DEF Domain, Timestamps, Column, ValuesOf, LiteralOf, Converted
  <2>2. CASE col.unit = "s"
    <3>1. v = col.value * Kilo * Kilo
      BY <1>2, <1>3, <2>2 DEF SaysAs
    <3> QED
      BY <1>1, <1>3, <2>1, <2>2, <3>1, Constants, WrapKeeps DEF SaysAs, timestampToMicros
  <2>3. CASE col.unit = "ms"
    <3>1. v = col.value * Kilo
      BY <1>2, <1>3, <2>3 DEF SaysAs
    <3> QED
      BY <1>1, <1>3, <2>1, <2>3, <3>1, Constants, WrapKeeps DEF SaysAs, timestampToMicros
  <2>4. CASE col.unit = "us"
    BY <1>1, <1>3, <2>1, <2>4 DEF SaysAs, timestampToMicros
  <2>5. CASE col.unit = "ns"
    BY <1>1, <1>3, <2>1, <2>5, Constants, QuotientBounds DEF SaysAs, timestampToMicros
  <2> QED
    BY <2>1, <2>2, <2>3, <2>4, <2>5 DEF Units
<1>4. CASE col.type = "date64"
  <2>1. col.value \in Int /\ (col.value >= 0 \/ col.value % MsPerDay = 0)
    BY <1>4 DEF Column, WithinDayBeforeEpoch
  <2>2. Quotient(col.value, MsPerDay) = col.value \div MsPerDay
    BY <2>1, Constants, QuotientExact
  <2>3. v = col.value \div MsPerDay /\ v \in Signed(Max32)
    BY <1>2, <1>4 DEF SaysAs, Timestamps, ValuesOf, LiteralOf
  <2>4. Converted(col) = v
    <3>1. Converted(col) = Wrap(v, Max32)
      BY <1>4, <2>2, <2>3 DEF Converted, Timestamps
    <3> QED
      BY <2>3, <3>1, Constants, WrapKeeps
  <2> QED
    BY <1>1, <1>2, <2>4
<1>5. CASE col.type \notin Timestamps \cup {"date64"}
  BY <1>1, <1>5 DEF Converted, SaysAs
<1> QED
  BY <1>3, <1>4, <1>5

-----------------------------------------------------------------------------
(* The inductive invariant.                                                *)

Params(c)   == IF c.rows = 0 THEN <<>> ELSE c.cols
Literals(c) == [n \in DOMAIN Params(c) |-> columnToLiteral(Params(c)[n])]

\* The records: what is owned is built, and what is bound stays bound.
RecordsOK ==
    /\ params \in Records \cup {Nil} /\ held \subseteq Records
    /\ refs \in [Records -> Int] /\ DOMAIN content = Records
    /\ \A r \in Records : IsContents(content[r])
    /\ \A r \in Records : r \in held \/ r = params => content[r] # Nothing
    /\ IsContents(bound)
    /\ open => bound = IF params = Nil THEN Nothing ELSE content[params]
    /\ ~open => params = Nil

\* The plan: one literal for each column of what was bound.
PlanOK ==
    plan # NoPlan =>
        /\ plan.query # NoQuery /\ IsContents(plan.of)
        /\ plan.literals = Literals(plan.of)
        /\ \A n \in DOMAIN Params(plan.of) :
               columnToLiteral(Params(plan.of)[n]).kind # "error"

IInv == RecordsOK /\ ParamsAccounted /\ PlanOK

LEMMA NothingIsContents == IsContents(Nothing)
  BY DEF IsContents, Nothing

LEMMA InitIInv == Init => IInv
<1> SUFFICES ASSUME Init PROVE IInv
  OBVIOUS
<1>1. RecordsOK
  BY NothingIsContents, NilIsNoRecord DEF Init, RecordsOK
<1>2. ParamsAccounted
  BY NilIsNoRecord DEF Init, ParamsAccounted
<1>3. PlanOK
  BY DEF Init, PlanOK
<1> QED
  BY <1>1, <1>2, <1>3 DEF IInv

LEMMA BuildKeeps == ASSUME IInv, NEW r \in Records, Build(r) PROVE IInv'
<1>1. PICK c \in Contents[r] : content' = [content EXCEPT ![r] = c]
  BY DEF Build
<1>2. IsContents(c) /\ c # Nothing
  BY ContentsAssumption
<1>3. /\ content[r] = Nothing /\ refs' = [refs EXCEPT ![r] = 1] /\ held' = held \cup {r}
      /\ UNCHANGED <<params, open, bound, plan>>
  BY DEF Build, fields
<1>4. r \notin held /\ r # params
  BY <1>3 DEF IInv, RecordsOK
<1>5. /\ DOMAIN content' = Records /\ content'[r] = c
      /\ \A s \in Records : s # r => content'[s] = content[s]
  BY <1>1 DEF IInv, RecordsOK
<1>6. RecordsOK'
  <2>1. params # Nil => params \in Records /\ content'[params] = content[params]
    BY <1>4, <1>5 DEF IInv, RecordsOK
  <2>2. (open => bound = IF params = Nil THEN Nothing ELSE content[params])'
    BY <1>3, <2>1 DEF IInv, RecordsOK
  <2>3. /\ \A s \in Records : IsContents(content'[s])
        /\ \A s \in Records : s \in held' \/ s = params => content'[s] # Nothing
    BY <1>2, <1>3, <1>5 DEF IInv, RecordsOK
  <2>4. refs' \in [Records -> Int]
    BY <1>3 DEF IInv, RecordsOK
  <2> QED
    BY <1>3, <1>5, <2>2, <2>3, <2>4 DEF IInv, RecordsOK
<1>7. ParamsAccounted'
  BY <1>3, <1>4 DEF IInv, RecordsOK, ParamsAccounted
<1>8. PlanOK'
  BY <1>3 DEF IInv, PlanOK
<1> QED
  BY <1>6, <1>7, <1>8 DEF IInv

LEMMA DropKeeps == ASSUME IInv, NEW r \in Records, Drop(r) PROVE IInv'
<1>1. /\ r \in held /\ held' = held \ {r} /\ refs' = [refs EXCEPT ![r] = @ - 1]
      /\ UNCHANGED <<content, params, open, bound, plan>>
  BY DEF Drop, fields
<1>2. RecordsOK'
  BY <1>1 DEF IInv, RecordsOK
<1>3. ParamsAccounted'
  BY <1>1 DEF IInv, RecordsOK, ParamsAccounted
<1>4. PlanOK'
  BY <1>1 DEF IInv, PlanOK
<1> QED
  BY <1>2, <1>3, <1>4 DEF IInv

\* Whatever leaves records, parameters and plan alone.
LEMMA QuietKeeps ==
  ASSUME IInv, UNCHANGED <<params, open, arrow, bound, plan>>
  PROVE  IInv'
<1>1. UNCHANGED <<params, open, content, refs, held, bound, plan>>
  BY DEF arrow
<1>2. RecordsOK' /\ ParamsAccounted' /\ PlanOK'
  BY <1>1 DEF IInv, RecordsOK, ParamsAccounted, PlanOK
<1> QED
  BY <1>2 DEF IInv

\* Binding a record releases the one before.
LEMMA BindKeeps == ASSUME IInv, NEW r \in Records \cup {Nil}, Bind(r) PROVE IInv'
<1>1. CASE r # Nil /\ content[r].rows > 1
  BY <1>1, QuietKeeps DEF Bind, Fail, fields, arrow
<1>2. CASE ~(r # Nil /\ content[r].rows > 1)
  <2>1. /\ open /\ r \in held \cup {Nil}
        /\ refs' = Rebound(params, r) /\ params' = r
        /\ bound' = IF r = Nil THEN Nothing ELSE content[r]
        /\ UNCHANGED <<open, content, held, plan>>
    BY <1>2 DEF Bind
  <2>2. RecordsOK'
    <3>1. refs' \in [Records -> Int]
      BY <2>1 DEF IInv, RecordsOK, Rebound
    <3>2. IsContents(bound')
      BY <2>1, NothingIsContents DEF IInv, RecordsOK
    <3>3. \A s \in Records : s \in held \/ s = r => content[s] # Nothing
      BY <2>1, NilIsNoRecord DEF IInv, RecordsOK
    <3> QED
      BY <2>1, <3>1, <3>2, <3>3 DEF IInv, RecordsOK
  <2>3. ParamsAccounted'
    BY <2>1 DEF IInv, RecordsOK, ParamsAccounted, Rebound
  <2>4. PlanOK'
    BY <2>1 DEF IInv, PlanOK
  <2> QED
    BY <2>2, <2>3, <2>4 DEF IInv
<1> QED
  BY <1>1, <1>2

LEMMA CloseKeeps == ASSUME IInv, Close PROVE IInv'
<1>1. /\ refs' = Rebound(params, Nil) /\ params' = Nil /\ open' = FALSE
      /\ UNCHANGED <<content, held, bound, plan>>
  BY DEF Close
<1>2. RecordsOK'
  <2>1. refs' \in [Records -> Int]
    BY <1>1 DEF IInv, RecordsOK, Rebound
  <2> QED
    BY <1>1, <2>1, NilIsNoRecord DEF IInv, RecordsOK
<1>3. ParamsAccounted'
  BY <1>1, NilIsNoRecord DEF IInv, RecordsOK, ParamsAccounted, Rebound
<1>4. PlanOK'
  BY <1>1 DEF IInv, PlanOK
<1> QED
  BY <1>2, <1>3, <1>4 DEF IInv

\* What Execute makes of the fields is what was bound.
LEMMA LiteralsOfBound ==
  ASSUME IInv, open
  PROVE  positionalLiterals = Literals(bound)
<1>1. CASE params = Nil
  <2>1. bound = Nothing
    BY <1>1 DEF IInv, RecordsOK
  <2>2. Params(bound) = <<>>
    BY <2>1 DEF Params, Nothing
  <2> QED
    BY <1>1, <2>2 DEF positionalLiterals, Literals
<1>2. CASE params # Nil
  BY <1>2 DEF IInv, RecordsOK, positionalLiterals, Literals, Params
<1> QED
  BY <1>1, <1>2

LEMMA ExecuteKeeps == ASSUME IInv, Execute PROVE IInv'
<1>1. CASE plan' = plan /\ UNCHANGED <<fields, open, refs, bound>>
  BY <1>1, QuietKeeps DEF Execute, fields, arrow
<1>2. CASE ~(plan' = plan /\ UNCHANGED <<fields, open, refs, bound>>)
  <2>1. /\ open /\ query # NoQuery /\ Refused(positionalLiterals) = {}
        /\ plan' = [query |-> query, literals |-> positionalLiterals, of |-> bound]
        /\ UNCHANGED <<fields, open, refs, bound, content, held>>
    BY <1>2 DEF Execute, Fail
  <2>2. positionalLiterals = Literals(bound)
    BY <2>1, LiteralsOfBound
  <2>3. \A n \in DOMAIN Params(bound) : columnToLiteral(Params(bound)[n]).kind # "error"
    BY <2>1, <2>2 DEF Refused, Literals
  <2>4. PlanOK'
    BY <2>1, <2>2, <2>3 DEF PlanOK, IInv, RecordsOK
  <2>5. RecordsOK' /\ ParamsAccounted'
    BY <2>1 DEF IInv, RecordsOK, ParamsAccounted, fields
  <2> QED
    BY <2>4, <2>5 DEF IInv
<1> QED
  BY <1>1, <1>2

LEMMA NextIInv == ASSUME IInv, [Next]_vars PROVE IInv'
<1>1. CASE \E q \in Queries : SetSqlQuery(q)
  BY <1>1, QuietKeeps DEF SetSqlQuery
<1>2. CASE Prepare \/ Unsupported \/ ConnectionClose
  BY <1>2, QuietKeeps DEF Prepare, Unsupported, ConnectionClose, Fail, fields, arrow
<1>3. CASE UNCHANGED vars
  BY <1>3, QuietKeeps DEF vars, fields
<1> QED
  BY <1>1, <1>2, <1>3, BuildKeeps, DropKeeps, BindKeeps, ExecuteKeeps, CloseKeeps DEF Next

LEMMA InvHolds == Spec => []IInv
<1>1. Init => IInv
  BY InitIInv
<1>2. IInv /\ [Next]_vars => IInv'
  BY NextIInv
<1> QED
  BY <1>1, <1>2, PTL DEF Spec

-----------------------------------------------------------------------------
(* The theorems.                                                           *)

\* Every reference on a record is the caller's or the statement's, in any
\* order of Bind, Close and the caller's Release.
THEOREM ParamsAreAccounted == Spec => []ParamsAccounted
  BY InvHolds, PTL DEF IInv

LEMMA ColumnsOfPlan ==
  ASSUME IInv, plan # NoPlan, NEW n \in DOMAIN Params(plan.of)
  PROVE  /\ n \in DOMAIN plan.of.cols /\ Params(plan.of) = plan.of.cols
         /\ plan.of.cols[n] \in Column
         /\ plan.of.cols[n].value \in Domain(plan.of.cols[n].type)
         /\ plan.literals[n] = columnToLiteral(plan.of.cols[n])
         /\ plan.literals[n].kind # "error"
<1>1. plan.of.rows # 0 /\ Params(plan.of) = plan.of.cols
  BY DEF Params
<1>2. IsContents(plan.of) /\ plan.literals = Literals(plan.of)
  BY DEF IInv, PlanOK
<1>3. plan.of.cols \in Seq(Column)
  BY <1>2 DEF IsContents
<1> QED
  BY <1>1, <1>2, <1>3 DEF IInv, PlanOK, IsContents, Literals

\* A plan has a literal for each column that was bound, in its place and of a
\* value its kind can hold, for the widths of any machine.
THEOREM PlansAreComplete == Spec => []PlanHasAllParameters
<1> SUFFICES ASSUME IInv, plan # NoPlan
             PROVE  LET cols == Params(plan.of) IN
                    /\ plan.query # NoQuery
                    /\ Len(plan.literals) = Len(cols)
                    /\ \A n \in DOMAIN cols :
                           /\ IsKindFor(plan.literals[n].kind, cols[n].type)
                           /\ plan.literals[n].value \in ValuesOf(plan.literals[n].kind)
  BY InvHolds, PTL DEF PlanHasAllParameters, Params
<1>1. Params(plan.of) \in Seq(Column)
  BY DEF IInv, PlanOK, IsContents, Params
<1>2. Len(plan.literals) = Len(Params(plan.of))
  <2>1. PICK k \in Nat : DOMAIN Params(plan.of) = 1..k /\ Len(Params(plan.of)) = k
    BY <1>1
  <2>2. plan.literals = [n \in 1..k |-> columnToLiteral(Params(plan.of)[n])]
    BY <2>1 DEF IInv, PlanOK, Literals
  <2> QED
    BY <2>1, <2>2
<1>3. \A n \in DOMAIN Params(plan.of) :
         /\ IsKindFor(plan.literals[n].kind, Params(plan.of)[n].type)
         /\ plan.literals[n].value \in ValuesOf(plan.literals[n].kind)
  <2> TAKE n \in DOMAIN Params(plan.of)
  <2> DEFINE col == plan.of.cols[n]
  <2>0. Params(plan.of) = plan.of.cols
    BY ColumnsOfPlan
  <2>1. /\ col \in Column /\ col.value \in Domain(col.type)
        /\ plan.literals[n] = columnToLiteral(col)
        /\ columnToLiteral(col).kind # "error"
    BY ColumnsOfPlan
  <2> HIDE DEF col
  <2>2. IsKindFor(columnToLiteral(col).kind, col.type)
    BY <2>1, LiteralOfType
  <2>3. columnToLiteral(col).value \in ValuesOf(columnToLiteral(col).kind)
    BY <2>1, LiteralInRange
  <2>4. /\ IsKindFor(plan.literals[n].kind, col.type)
        /\ plan.literals[n].value \in ValuesOf(plan.literals[n].kind)
    BY <2>1, <2>2, <2>3
  <2> QED
    BY <2>0, <2>4 DEF col
<1> QED
  BY <1>2, <1>3 DEF IInv, PlanOK

\* The literals say what was bound wherever Spark can, for any widths and any
\* units of time, except for times of day before 1970.
THEOREM LiteralsSay == Spec => []LiteralsSayWhatWasBound
<1>1. ASSUME IInv PROVE LiteralsSayWhatWasBound
  <2>1. ASSUME plan # NoPlan, NEW n \in DOMAIN plan.literals,
               plan.of.cols[n].type # Null, Representable(plan.of.cols[n]),
               ~WithinDayBeforeEpoch(plan.of.cols[n])
        PROVE  SaysAs(plan.of.cols[n], plan.literals[n].value)
    <3>1. n \in DOMAIN Params(plan.of)
      BY <1>1, <2>1 DEF IInv, PlanOK, Literals
    <3> QED
      BY <1>1, <2>1, <3>1, ColumnsOfPlan, LiteralSays
  <2> QED
    BY <2>1 DEF LiteralsSayWhatWasBound
<1> QED
  BY <1>1, InvHolds, PTL

\* A call that fails leaves query, parameters, what was bound and the plan.
THEOREM FailuresChangeNothing == Spec => FailureChangesNothing
<1>1. [Next]_vars => [status' # "ok" => UNCHANGED <<fields, open, bound, plan>>]_vars
  <2> SUFFICES ASSUME Next, status' # "ok"
               PROVE  UNCHANGED <<fields, open, bound, plan>>
    OBVIOUS
  <2>1. ASSUME NEW r \in Records, Build(r) \/ Drop(r)
        PROVE  UNCHANGED <<fields, open, bound, plan>>
    BY <2>1 DEF Build, Drop
  <2>2. ASSUME NEW r \in Records \cup {Nil}, Bind(r)
        PROVE  UNCHANGED <<fields, open, bound, plan>>
    BY <2>2 DEF Bind, Fail
  <2>3. CASE (\E q \in Queries : SetSqlQuery(q)) \/ Close \/ ConnectionClose
    BY <2>3 DEF SetSqlQuery, Close, ConnectionClose
  <2>4. CASE Prepare \/ Unsupported \/ Execute
    BY <2>4 DEF Prepare, Unsupported, Execute, Fail
  <2> QED
    BY <2>1, <2>2, <2>3, <2>4 DEF Next
<1> QED
  BY <1>1, PTL DEF Spec, FailureChangesNothing

=============================================================================
