------------------------------ MODULE ErrorExport ------------------------------
(***************************************************************************)
(* How errors leave the driver: the AdbcError structs that a C program     *)
(* passes to every call (setErr, setErrWithDetails, errToAdbcErr, poison   *)
(* in c/driver.go and the release callbacks in c/utils.c), and the one     *)
(* that an exported ArrowArrayStream keeps for its last error (maybeError  *)
(* and the stream's callbacks).  The reader behind the stream is what      *)
(* RecordStream promises of it.                                            *)
(*                                                                         *)
(* A struct of ADBC 1.0.0 ends before private_data; a caller of 1.1.0 sets *)
(* vendor_code to PRIVATE to say that the field is there.  What C          *)
(* allocates is a block of the heap.  This driver attaches no details to   *)
(* an error, so that a SparkError is one block.                            *)
(***************************************************************************)
EXTENDS Naturals, FiniteSets

CONSTANTS
    Old, New,     \* the caller's structs, of ADBC 1.0.0 and of 1.1.0
    Blocks,       \* the heap, without the null pointer
    MaxRecords    \* bound: records of the result

ASSUME StructsApart == Old \cap New = {}
ASSUME Heap         == Blocks \subseteq Nat \ {0} /\ IsFiniteSet(Blocks)
ASSUME RecordBound  == MaxRecords \in Nat

VARIABLES
    structs,      \* the contents of the caller's structs
    live,         \* blocks allocated and not freed
    discipline,   \* "tidy": the caller releases an error before it passes the
                  \* struct again; or "reuse"
    stream,       \* "exported", "released"
    adbcErr,      \* cArrayStream.adbcErr, or NoStruct
    status,       \* cArrayStream.status
    returned,     \* by the last get_next: "none", "array", 0 or an errno
    held,         \* what get_last_error returned, until the next operation
    fault,        \* the error the reader will have if it says "error"
    produced, ended, delivered, outcome    \* the reader

R == INSTANCE RecordStream

readerVars == <<produced, ended, delivered, outcome>>
callVars   == <<structs, discipline>>
streamVars == <<stream, adbcErr, status, returned, held, fault>>
vars == <<callVars, streamVars, live, readerVars>>

Structs == Old \cup New
Null    == 0

NoStruct == [none |-> "none"]

\* vendor_code: 0, PRIVATE, or a code of the server.  AdbcError is a struct
\* and Errors what errToAdbcErr tells apart: "plain" is no adbc.Error, the
\* others are, by their VendorCode.
VendorCodes == {"0", "code", "PRIVATE"}
Errors      == {"plain"} \cup VendorCodes
Status(err) == CASE err = "plain" -> "UNKNOWN"
                 [] err = "code"  -> "CANCELLED"
                 [] OTHER         -> "INTERNAL"
AdbcError   == [message : Blocks \cup {Null}, vendor_code : VendorCodes,
                release : {"NULL", "plain", "details"},
                private_data : Blocks \cup {Null}]

Zeroed(code) == [message |-> Null, vendor_code |-> code, release |-> "NULL",
                 private_data |-> Null]

-----------------------------------------------------------------------------
(* What becomes of a struct and the heap: [err, live].                     *)

\* Spark_release_error and SparkReleaseErrWithDetails, called by pointer.
Released(s) ==
    CASE s.err.release = "plain" ->
           [err  |-> [s.err EXCEPT !.message = Null, !.release = "NULL"],
            live |-> s.live \ {s.err.message}]
      [] s.err.release = "details" /\ s.err.private_data # Null ->
           [err  |-> Zeroed(s.err.vendor_code),
            live |-> s.live \ {s.err.message, s.err.private_data}]
      [] OTHER -> [s EXCEPT !.err.release = "NULL"]

Malloc(heap) == CHOOSE b \in Blocks : b \notin heap

setErr(s) ==
    LET r == Released(s)  b == Malloc(r.live) IN
    [err  |-> [r.err EXCEPT !.message = b, !.release = "plain"],
     live |-> r.live \cup {b}]

\* A SparkError; what the struct held before is overwritten.
AllocateDetails(s) ==
    LET b == Malloc(s.live)  c == Malloc(s.live \cup {b}) IN
    [err  |-> [s.err EXCEPT !.message = b, !.release = "details", !.private_data = c],
     live |-> s.live \cup {b, c}]

SetCode(s, code) == [s EXCEPT !.err.vendor_code = code]

\* Mutant: the code is stored whatever it is.
StoreAnyCode(s, code) ==
    IF s.err.vendor_code # "PRIVATE" THEN setErr(SetCode(s, code))
    ELSE IF code \notin {"0", "PRIVATE"} THEN setErr(SetCode(s, code))
    ELSE AllocateDetails(s)

setErrWithDetails(s, code) ==
    IF s.err.vendor_code # "PRIVATE"
    THEN setErr(IF code = "PRIVATE" THEN s ELSE SetCode(s, code))
    ELSE IF code \notin {"0", "PRIVATE"} THEN setErr(SetCode(s, code))
    ELSE AllocateDetails(s)

errToAdbcErr(s, err) == IF err = "plain" THEN setErr(s) ELSE setErrWithDetails(s, err)

errno(st) ==
    CASE st = "NOT_IMPLEMENTED" -> "ENOTSUP"
      [] st = "NOT_FOUND"       -> "ENOENT"
      [] st = "ALREADY_EXISTS"  -> "EEXIST"
      [] st \in {"INVALID_ARGUMENT", "INVALID_STATE"} -> "EINVAL"
      [] st = "CANCELLED"       -> "ECANCELED"
      [] st = "TIMEOUT"         -> "ETIMEDOUT"
      [] st \in {"UNAUTHENTICATED", "UNAUTHORIZED"} -> "EACCES"
      [] OTHER                  -> "EIO"

\* Mutant: the error of before is not released.
OwnStructAsIs ==
    [err |-> IF adbcErr = NoStruct THEN Zeroed("0")
             ELSE [adbcErr EXCEPT !.release = "NULL"], live |-> live]

\* The stream's struct: allocated once, each time released and set again.
OwnStruct ==
    IF adbcErr = NoStruct THEN [err |-> Zeroed("0"), live |-> live]
    ELSE Released([err |-> adbcErr, live |-> live])

\* Mutant: an unknown error is no error.
maybeErrorKnown(err) ==
    IF err \in {"nil", "plain"}
    THEN returned' = "0" /\ UNCHANGED <<adbcErr, live, status>>
    ELSE LET s == errToAdbcErr(SetCode(OwnStruct, "PRIVATE"), err) IN
         /\ adbcErr' = s.err /\ live' = s.live /\ status' = Status(err)
         /\ returned' = errno(Status(err))

\* maybeError, given rdr.Err().
maybeError(err) ==
    IF err = "nil" THEN returned' = "0" /\ UNCHANGED <<adbcErr, live, status>>
    ELSE LET s == errToAdbcErr(SetCode(OwnStruct, "PRIVATE"), err) IN
         /\ adbcErr' = s.err /\ live' = s.live /\ status' = Status(err)
         /\ returned' = errno(Status(err))

-----------------------------------------------------------------------------
(* The caller's structs.                                                   *)

Init ==
    /\ structs = [e \in Structs |-> Zeroed(IF e \in New THEN "PRIVATE" ELSE "0")]
    /\ discipline \in {"tidy", "reuse"}
    /\ live = {} /\ stream = "exported" /\ adbcErr = NoStruct /\ status = "OK"
    /\ returned = "none" /\ held = Null
    /\ fault \in Errors
    /\ R!Init

\* A call fails: by errToAdbcErr, or with a text of its own (setErr), as every
\* check of a handle and poison do, which is "plain" too.
FailCall(e) == \E err \in Errors :
    LET s == errToAdbcErr([err |-> structs[e], live |-> live], err) IN
    /\ Cardinality(Blocks \ live) >= 2
    /\ discipline = "tidy" => structs[e].release = "NULL"
    /\ structs' = [structs EXCEPT ![e] = s.err] /\ live' = s.live
    /\ UNCHANGED <<discipline, streamVars, readerVars>>

\* The caller releases an error, or makes a released struct new.
ReleaseError(e) ==
    LET s == Released([err |-> structs[e], live |-> live]) IN
    /\ structs[e].release # "NULL"
    /\ structs' = [structs EXCEPT ![e] = s.err] /\ live' = s.live
    /\ UNCHANGED <<discipline, streamVars, readerVars>>

Reinitialize(e) ==
    /\ structs[e].release = "NULL"
    /\ structs' = [structs EXCEPT ![e] = Zeroed(IF e \in New THEN "PRIVATE" ELSE "0")]
    /\ UNCHANGED <<discipline, live, streamVars, readerVars>>

-----------------------------------------------------------------------------
(* The stream.                                                             *)

\* The result grows and ends.
Server == (R!Grow \/ R!End) /\ UNCHANGED <<callVars, streamVars, live>>

GetNextArray ==
    /\ stream = "exported" /\ R!Deliver
    /\ returned' = "array" /\ held' = Null
    /\ UNCHANGED <<callVars, stream, adbcErr, status, fault, live>>

\* Next() is false, for the first time or again.
GetNextDone ==
    /\ stream = "exported" /\ Cardinality(Blocks \ live) >= 2
    /\ R!SayEnd \/ R!SayError \/ (outcome \in {"end", "error"} /\ UNCHANGED readerVars)
    /\ maybeError(IF outcome' = "error" THEN fault ELSE "nil")
    /\ held' = Null
    /\ UNCHANGED <<callVars, stream, fault>>

\* A reader that is exported has a schema.
GetSchema ==
    /\ stream = "exported"
    /\ held' = Null
    /\ UNCHANGED <<callVars, stream, adbcErr, status, returned, fault, live, readerVars>>

GetLastError ==
    /\ stream = "exported"
    /\ held' = IF adbcErr = NoStruct THEN Null ELSE adbcErr.message
    /\ UNCHANGED <<callVars, stream, adbcErr, status, returned, fault, live, readerVars>>

ReleaseStream ==
    /\ stream = "exported" /\ stream' = "released"
    /\ live' = IF adbcErr = NoStruct THEN live
               ELSE Released([err |-> adbcErr, live |-> live]).live
    /\ adbcErr' = NoStruct /\ held' = Null
    /\ UNCHANGED <<callVars, status, returned, fault, readerVars>>

Next ==
    \/ \E e \in Structs : FailCall(e) \/ ReleaseError(e) \/ Reinitialize(e)
    \/ Server
    \/ GetNextArray \/ GetNextDone \/ GetSchema \/ GetLastError
    \/ ReleaseStream

Spec == Init /\ [][Next]_vars

-----------------------------------------------------------------------------
(* Properties.                                                             *)

TypeOK ==
    /\ structs \in [Structs -> AdbcError] /\ live \subseteq Blocks
    /\ discipline \in {"tidy", "reuse"} /\ stream \in {"exported", "released"}
    /\ adbcErr \in AdbcError \cup {NoStruct}
    /\ status \in {"OK"} \cup {Status(err) : err \in Errors}
    /\ returned \in {"none", "array", "0"} \cup {errno(Status(err)) : err \in Errors}
    /\ held \in Blocks \cup {Null} /\ fault \in Errors

Filled == {[at |-> e, err |-> structs[e]] : e \in {e \in Structs : structs[e].release # "NULL"}}
          \cup (IF adbcErr = NoStruct THEN {} ELSE {[at |-> NoStruct, err |-> adbcErr]})
Held(f) == {f.err.message} \cup (IF f.err.release = "details" THEN {f.err.private_data} ELSE {})

\* No block has two owners, whose releases would free it twice, and none that
\* a struct refers to is freed already, whatever the caller does; a caller
\* that releases its errors leaks none, and the stream never leaks its own.
BlocksOwned ==
    /\ \A f \in Filled : Held(f) \subseteq live
    /\ \A f, g \in Filled : f # g => Held(f) \cap Held(g) = {}
    /\ discipline = "tidy" => live = UNION {Held(f) : f \in Filled}

\* A struct of ADBC 1.0.0 has no private_data: no sequence of errors makes the
\* driver believe otherwise, and one that was passed as 1.1.0 has details only
\* while it says PRIVATE.
DetailsOnlyWhereAsked ==
    /\ \A e \in Old : structs[e].vendor_code # "PRIVATE" /\ structs[e].private_data = Null
    /\ \A e \in New : structs[e].release = "details" => structs[e].vendor_code = "PRIVATE"

\* The stream's last error is the reader's: get_next fails if and only if the
\* reader has failed, from then on always, and only then is there an error to
\* ask for, with the reader's status; and what get_last_error returned is the
\* caller's to read until it does something else with the stream, whatever
\* else fails in between.
StreamErrorIsReaders ==
    /\ returned = CASE outcome = "none" -> "none" [] outcome = "record" -> "array"
                    [] outcome = "end" -> "0" [] outcome = "error" -> errno(Status(fault))
    /\ status = IF outcome = "error" THEN Status(fault) ELSE "OK"
    /\ stream = "exported" => ((adbcErr # NoStruct) <=> (outcome = "error"))
    /\ held # Null => held \in live /\ held = adbcErr.message

=============================================================================
