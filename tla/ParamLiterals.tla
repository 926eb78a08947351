----------------------------- MODULE ParamLiterals -----------------------------
(***************************************************************************)
(* columnToLiteral (driver/spark/params.go): the value of a bound Arrow    *)
(* column as a Spark Connect literal.                                      *)
(*                                                                         *)
(* A column is its type, the unit of a timestamp, and the value in its     *)
(* first row, an integer of the type's width; text, bytes, floats and      *)
(* decimals are carried unchanged and stand here as small integers.        *)
(* Widths and units are parameters: the code's are Max8 = 2^7 - 1 to       *)
(* Max64 = 2^63 - 1, MsPerDay = 86400000 and Kilo = 1000.                  *)
(***************************************************************************)
EXTENDS Integers

CONSTANTS
    Max8, Max16, Max32, Max64,  \* largest signed integer of each width
    MsPerDay,                   \* milliseconds in a day
    Kilo                        \* from a unit of time to the next smaller one

ASSUME WidthsAssumption ==
    /\ {Max8, Max16, Max32, Max64} \subseteq Nat
    /\ 2 * Max8 + 1 <= Max16 /\ 2 * Max16 + 1 <= Max32 /\ 2 * Max32 + 1 <= Max64
ASSUME UnitsAssumption == MsPerDay \in Nat \ {0} /\ Kilo \in Nat \ {0}

Signed(max)   == -(max + 1) .. max
Unsigned(max) == 0 .. 2 * max + 1

\* Mutant: a timestamp without a time zone is taken for an instant.
AlwaysInstant ==
    [bool |-> "boolean", int8 |-> "byte", int16 |-> "short",
     int32 |-> "integer", int64 |-> "long", uint8 |-> "short",
     uint16 |-> "integer", uint32 |-> "long", uint64 |-> "long",
     float |-> "float", double |-> "double", string |-> "string",
     binary |-> "binary", decimal |-> "decimal", date32 |-> "date",
     date64 |-> "date", timestamp |-> "timestamp", local |-> "timestamp"]

\* The types the switch has a case for, with the literal each becomes; a
\* timestamp is local when its type names no time zone.
LiteralOf ==
    [bool |-> "boolean", int8 |-> "byte", int16 |-> "short",
     int32 |-> "integer", int64 |-> "long", uint8 |-> "short",
     uint16 |-> "integer", uint32 |-> "long", uint64 |-> "long",
     float |-> "float", double |-> "double", string |-> "string",
     binary |-> "binary", decimal |-> "decimal", date32 |-> "date",
     date64 |-> "date", timestamp |-> "timestamp", local |-> "timestamp_ntz"]

Supported  == DOMAIN LiteralOf
Timestamps == {"timestamp", "local"}
Units      == {"s", "ms", "us", "ns"}
Null       == "null"
OtherType  == "list"
Types      == Supported \cup {Null, OtherType}

\* The values an Arrow column of a type can hold.
Domain(type) ==
    CASE type = "int8" -> Signed(Max8) [] type = "uint8" -> Unsigned(Max8)
      [] type = "int16" -> Signed(Max16) [] type = "uint16" -> Unsigned(Max16)
      [] type \in {"int32", "date32"} -> Signed(Max32)
      [] type = "uint32" -> Unsigned(Max32)
      [] type \in {"int64", "date64"} \cup Timestamps -> Signed(Max64)
      [] type = "uint64" -> Unsigned(Max64)
      [] OTHER -> 0..1

\* The values a literal of a kind can hold.
ValuesOf(kind) ==
    CASE kind = "byte" -> Signed(Max8) [] kind = "short" -> Signed(Max16)
      [] kind \in {"integer", "date"} -> Signed(Max32)
      [] kind \in {"long", "timestamp", "timestamp_ntz"} -> Signed(Max64)
      [] OTHER -> 0..1

\* Go: a conversion or an operation keeps the low bits, `/` truncates.
Wrap(v, max)   == ((v + max + 1) % (2 * (max + 1))) - (max + 1)
Quotient(a, b) == IF a >= 0 THEN a \div b ELSE -((-a) \div b)

Error(code) == [kind |-> "error", value |-> code]
Literal(kind, v) == [kind |-> kind, value |-> v]

\* Mutant: milliseconds taken for microseconds.
MillisAsMicros(v, unit) ==
    CASE unit = "s"  -> Wrap(v * Kilo * Kilo, Max64)
      [] unit = "ms" -> v
      [] unit = "us" -> v
      [] unit = "ns" -> Quotient(v, Kilo)

timestampToMicros(v, unit) ==
    CASE unit = "s"  -> Wrap(v * Kilo * Kilo, Max64)
      [] unit = "ms" -> Wrap(v * Kilo, Max64)
      [] unit = "us" -> v
      [] unit = "ns" -> Quotient(v, Kilo)

\* The value of the literal.
Converted(col) ==
    CASE col.type = "date64" -> Wrap(Quotient(col.value, MsPerDay), Max32)
      [] col.type \in Timestamps -> timestampToMicros(col.value, col.unit)
      [] OTHER -> col.value

columnToLiteral(col) ==
    CASE col.type = Null      -> Literal("null", 0)
      [] col.type = OtherType -> Error("NOT_IMPLEMENTED")
      [] col.type = "uint64" /\ col.value > Max64 -> Error("INVALID_ARGUMENT")
      [] OTHER -> Literal(LiteralOf[col.type], Converted(col))

-----------------------------------------------------------------------------
(* What a column says, for comparison: the type of Spark's that it is of,  *)
(* the day of a Date64, the instant of a timestamp in microseconds.        *)

IntegerTypes == {"int8", "int16", "int32", "int64",
                 "uint8", "uint16", "uint32", "uint64"}
IntegerKinds == <<"byte", "short", "integer", "long">>
HoldsAll(kind, type) == Domain(type) \subseteq ValuesOf(kind)

\* The literal of a type: the narrowest of Spark's integers that has all its
\* values, or the widest; for the rest the mapping of docs/type-mapping.md,
\* where only a timestamp with a time zone is an instant.
IsKindFor(kind, type) ==
    /\ type \in IntegerTypes =>
           \E n \in 1..4 :
               /\ kind = IntegerKinds[n]
               /\ HoldsAll(kind, type) \/ n = 4
               /\ \A m \in 1..(n - 1) : ~HoldsAll(IntegerKinds[m], type)
    /\ type = "bool" => kind = "boolean"
    /\ type \in {"date32", "date64"} => kind = "date"
    /\ type = "timestamp" => kind = "timestamp"
    /\ type = "local" => kind = "timestamp_ntz"
    /\ type \in {"float", "double", "string", "binary", "decimal", Null} =>
           kind = type

\* Whether Spark's literal v, of the kind for the type, says what col says;
\* nanoseconds are rounded to whole microseconds.
SaysAs(col, v) ==
    IF col.type \in Timestamps
    THEN CASE col.unit = "s"  -> v = col.value * Kilo * Kilo
           [] col.unit = "ms" -> v = col.value * Kilo
           [] col.unit = "us" -> v = col.value
           [] col.unit = "ns" -> v * Kilo - col.value \in 1 - Kilo .. Kilo - 1
    ELSE v = IF col.type = "date64" THEN col.value \div MsPerDay ELSE col.value

\* Spark has a value for what col says.
Representable(col) ==
    \E v \in ValuesOf(LiteralOf[col.type]) : SaysAs(col, v)

\* A Date64 before 1970 that is not at midnight.
WithinDayBeforeEpoch(col) ==
    /\ col.type = "date64" /\ col.value < 0
    /\ col.value % MsPerDay # 0

=============================================================================
