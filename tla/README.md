# A formal model of adbc-driver-spark

TLA+ models of the ADBC driver for Apache Spark Connect, the TLC
configurations that check them on small instances, and TLAPS proofs of the
parts that matter most for every instance. Everything is translated from the
Go source; paths below are relative to the repository; modules and configurations
are files of this directory.

    tlc -workers 2 -config MCResultReader.cfg MCResultReader   # any run below
    tlapm ResultReaderProofs.tla                                # any *Proofs module

`PROJECT.json` maps each definition to the lines it models, lists the runs, a
mutant of the model for every property (a plausible bug that makes the property
fail), the hazards, the findings and the theorems.

## 1. Inventory

### The parts and how they interact

A Go program uses `driver/spark` directly; every other language loads the
shared library built from `c/`, whose exported C functions hold Go objects by
handle. Below both is one client of the Spark Connect server per connection.

    application threads
      |  C ABI: handles, ArrowArrayStream              c/driver.go
      |    one cancel slot per connection and statement
      v
    database --Open--> connection --NewStatement--> statement    driver/spark
      | shared *Config      |                          | query, bound record
      v                     v                          v
    Dial ------------->  Client  <------ ExecuteSQL ---+   internal/sparkconnect
                           | session id, user, token, headers per request
                           v                           \
                     Spark Connect server  == stream ==> resultReader --> consumer

| component | state | operations | hard behaviours |
|---|---|---|---|
| result reader (`internal/sparkconnect/result_reader.go`) | reference count, schema, records of one batch with a position, current record, `err`, `done`, the stream and its cancel function | construct (primes the first batch), `Next`, `Retain`, `Release`, `Err`, `Schema` | errors after partial results; batches that break in the middle; abandoning at any point; Arrow reference counts; waiting in `Recv` |
| error mapping (`errors.go`) | none | `wrapGRPC` | none by itself; what an error becomes decides what the reader says |
| client (`client.go`) | session id, last server-side session id, `closed`, the `Config` by pointer | `Dial`, `ExecuteSQL`, `SchemaOf`, `SetConf`/`GetConf`, `ServerSparkVersion`, `Interrupt` (no caller), `Close` | late and lost requests; concurrent `Close`; server restart; sessions shared by id |
| database (`database.go`) | current `Config` under a mutex | `SetOptions`, `Open`, `Close` (nothing) | `SetOptions` half done; writes to a `Config` that connections already use |
| connection (`connection.go`) | its client | `NewStatement`, `Close`, `GetObjects`, `GetTableSchema`, `GetInfo`, `GetTableTypes`; `Commit`, `Rollback`, `ReadPartition` refuse | closing under statements and readers |
| statement (`statement.go`, `params.go`) | query, `prepared`, the bound record | `SetSqlQuery`, `Prepare`, `Bind`, `ExecuteQuery`, `ExecuteUpdate`, `Close`; the rest refuse | who owns the bound record; conversion of values at the ends of their width |
| `GetObjects` (`objects.go`) | the walk so far | one call, many questions to the server | one question of many fails; objects change meanwhile; filters applied twice, by two languages |
| LIKE matching (`objects.go`) | four indices | `likeMatch`, `likeClause` | backtracking; agreement with Spark's regex |
| cancel slot (`c/driver.go`) | `ctx`, `cancel`, per handle | `newContext`, `cancelContext` by the exported functions | unlocked, used by two threads |
| handles and streams (`c/driver.go`) | `private_data` per handle, `globalPoison`, options kept until Init | New, Init, Release, every call on a handle, `ArrowArrayStream` callbacks | order of releases; failing Init; panics; a stream bound to a statement |
| error export (`c/driver.go`, `c/utils.c`) | the caller's `AdbcError` structs, each stream's own error and status | `setErr`, `setErrWithDetails`, `errToAdbcErr`, `poison`, `maybeError`, the release callbacks | two layouts of one struct told apart by a flag the driver overwrites; who frees what; a pointer into an error that is filled anew |
| connection string (`config.go`) | none; its result is the database's `Config` | `ParseConnectionString`, `splitHostPort`, `applyParam`, `Endpoint` | where host and parameters divide; what a value may contain; which of two names wins |
| `GetInfo`, `GetTableTypes`, driver | none | one batch each | none |
| Python package | none | finds the library | none |

### What makes each of them correct

* **Result reader**: the consumer gets the records in order, all of them before
  an error-free end, an error otherwise, and the same answer for ever after.
  Every record is released once. Only one batch is in memory. The server's
  operation lives exactly as long as somebody holds the reader.
* **Client and database**: a connection keeps its identity; `Close` takes its
  session from the server and nobody else's.
* **Statement**: a plan has every parameter and each says what was bound; the
  bound record is neither leaked nor freed early; a failing call changes
  nothing.
* **GetObjects**: complete when nothing fails, short only where something did,
  and failing only where it must.
* **LIKE**: the loop decides SQL LIKE, ends, and the clause sent to Spark only
  narrows.
* **Cancel slot**: a Cancel reaches the running operation, only that one, and
  what waits then returns.
* **Error export**: a block of the C heap has one owner and is freed once; a
  struct of ADBC 1.0.0 is never written past its end; a stream's last error is
  its reader's.
* **Connection string and options**: the parser reads what the documented form
  says; options win over the string; a refused call leaves the database as it
  was.
* **Handles and streams**: whatever the order of New, Init, Execute and Release,
  nothing is freed twice, nothing used after it was freed, nothing left open
  that nobody can close; after a panic the driver does no more.

The hazards behind these, each at its line, are in `PROJECT.json`.

## 2. Plan

| step | modules | state |
|---|---|---|
| 1 | `GrpcStatus`, `RecordStream` (abstract), `ResultReader`, `ResultReaderProofs` | done; refinement and all safety properties proved |
| 2 | `CancellableContext`, `CancellableContextProofs` | done; all safety properties proved |
| 3 | `SparkSession`, `SparkSessionProofs` | done; all properties proved |
| 4 | `ParamLiterals`, `Statement`, `StatementProofs` | done; all properties proved |
| 5 | `LikeMatch`, `GetObjects`, `GetObjectsProofs` | done; all safety properties proved (`LikeMatch` in `StringProofs`) |
| 6 | `CDriver`, `CDriverProofs` | done, every exported function; all properties proved |
| 7 | `ConnectionConfig` | done; all properties proved (`StringProofs`) |
| 8 | `ErrorExport`, over `RecordStream`; `ErrorExportProofs` | done; all properties proved |
| 9 | composition of `CancellableContext` and `ResultReader`: Cancel until the operation is freed at the server (the two halves are `CancelStopsWait` and `CancelUnblocks`, `OperationFreed`) | open |

No module uses a `RECURSIVE` operator; the only recursion is the function `m` in
`LikeMatch!Matches`. Which module uses which: `ResultReader` extends
`GrpcStatus` and instantiates `RecordStream`, which it implements;
`ErrorExport` instantiates `RecordStream` as the reader behind its stream;
`Statement` extends `ParamLiterals`; a `...Proofs` module extends the module it
is about, and an `MC...` module gives its constants values. `StringProofs`
is about two modules, `LikeMatch` and `ConnectionConfig`, which share no state
but are proved from the same facts about strings; so that it can extend both,
the initial condition, steps and specification of the first are called
`LikeInit`, `LikeNext` and `LikeSpec`. `MCMetadata` runs the two halves of
GetObjects, `LikeMatch` and `GetObjects`, as one specification: they share no
state either, and a behaviour is the matching of one name and then, where the
pattern is the trivial one, one walk.

## 3. The modules and the code

### ResultReader, RecordStream, GrpcStatus

`ResultReader` has one variable for each field of `resultReader`, the reference
count of every record, and the environment: the messages on the stream, the
server's operation, the caller's context, the gRPC channel, and the consumer's
own references. A record is its place in the result. `fill` waits in
`stream.Recv`, so a call that needs it is a step up to `Recv` (`NextFill`,
`ExecutePlan`; `pc = "next"` or `"prime"`) and one per message (`RecvNothing`,
`RecvBatch`, `RecvUndecodable`, `RecvError`, `RecvEOF`), between which everyone
else moves. The call's end belongs to the last of them: the constructor's
`Release` on error and its made-up empty schema are in `FailWith` and `RecvEOF`.
`Next` has a step per way out (`NextBuffered`, `NextFill`, `NextNoMore`).
Concurrent calls on one reader are left out: Arrow readers are not for that,
only `Retain` and `Release` are atomic.

The environment (`Send`, `EndStream`, `StopCancelled`, `EndContext`,
`CloseConn`, the errors `Recv` may return) is what gRPC-Go and the server may
do: a batch may be oversized, broken at its header, or broken after some of its
records; a cancelled or closed stream fails with its code at the next `Recv`
whether or not messages were left. `GrpcStatus` is the mapping of codes.

`RecordStream` is what a consumer may rely on, without batches or buffers:
records one by one, "end" only for a whole result, "error" at any time before,
and no second thoughts. `ResultReader` implements it with
`ended <- srv = "eof"` and `outcome <- told`.

### CancellableContext

The slot is `ctx` and `cancel`. `cancelContext` is four steps (test, call, two
stores) and `newContext` three more, for any thread; the field named twice in
`if c.cancel != nil { c.cancel() }` may be read once or twice, as the compiler
likes. The worker makes the calls that adbc.h wants serialised (`Begin`
to `EndCall`, `GetNext`, `ReleaseStream`, Release); the `Cancellers` call Cancel.
The variable `discipline` is the application's: "serial" keeps Cancel apart from
whatever else is at the slot, "concurrent" does not. adbc.h asks for no
discipline; the properties say what holds under which.

### SparkSession

`configs` are the `Config` objects ever allocated and `dbCfg`, `cfgOf` the
pointers to them, so that writing an option through one is seen through all.
Everything read per request (user, token, headers) is `user`; the session id is
copied by `Dial`. `Open` and `Dial` are two steps because the mutex covers the
first only. The options of one call are written in the random order of a Go
map and stop at a bad one: any subset. A request carries `Key`, the user and
session id, and has a life of its own: it may arrive after the client gave up
(`adrift`). The server makes sessions on demand, keeps tombstones of released
ones, and forgets both in a restart. `Close` sends ReleaseSession and waits for
the answer or five seconds, which is `CloseChannel` at any time. The C driver
never reaches `SetOptionsOverlay` (its databases take no options after Init);
Go programs do.

### Statement, ParamLiterals

A statement's fields, the Arrow records with their reference counts, who of the
caller and the statement owns one, and the last plan. `Bind`
releases the old record and retains the new; `Execute` stands for `ExecuteQuery`
and `ExecuteUpdate`, which build the plan the same way. What comes back is
`ResultReader`'s. Which kind of literal a type calls for is said apart from the
code, by what the kinds can hold (`IsKindFor`): of the integer kinds the narrowest
that has every value of the type, of the two for timestamps the instant exactly
for those with a time zone. `columnToLiteral` is an operator over a column's type, unit
and value, of a `Column`; the widths 2^7-1 .. 2^63-1, the milliseconds of a day and the factor
1000 are parameters so that TLC can reach the ends of every width.

### GetObjects

The walk is a question at a time: `ListCatalogs` and its alternatives,
then `Visit` a listed path, ask for its children, append those that pass their
filter (`Report`). Each question may be answered, fail because the server does
not support it, fail because of the caller's context, or fail this time only
(`Failure`), and has the code's way out: `ListDefaultCatalog`, `FallBack`,
`NoSchemas`, `FailTables`, `SkipColumns`. The nesting into Arrow builders is the
path of a reported object.

### CDriver

A C struct's `private_data` is the number of a `cgo.Handle`, whose Go object
(`cDatabase`, `cConn`, `cStmt`, `cArrayStream`) is in `objects` until it is
deleted. Every exported function on a database, connection, statement or stream
is an action or a way out of one: those that make, initialise, use up or release
a handle with all their refusals, and those that only answer (the option getters
and setters, the calls this driver does not support) with the checks they make
first, by `Answer` and `AnswerInSlot`. `code` is what the call returned. No
action reads it, so that the run's `VIEW` leaves it out of the state; a step
property, which `PoisonFreezes` is, sees it on every transition.
The clients that `Open` made and the references on each result reader are what
the handles stand for. Every call that goes through a cancel slot (`newContext`,
`cancelContext`) may panic: that takes a second thread in Cancel, as
`CancellableContext` has it, and is a nondeterministic choice here, where calls
are made one at a time. A panic in Release comes before the handle is freed,
because the deferred function begins with `cancelContext`. "IO" stands for every
error of the server. The caller passes a stream that is not in use, which the
code does not check.

`BindStream` imports the stream it is given before the statement refuses it. If
it is one that this driver exported, its `private_data` moves into the importer
(`imported`), the caller's struct is empty, and only arrow-go's finalizer
(`Finalize`, external) releases it; `SparkArrayStreamRelease` calls
`runtime.GC()` (`c/driver.go:436`) for such things, but nothing says when it
runs.

### ErrorExport

A struct is a record of the fields of `AdbcError`, a heap block a number, and
`live` the blocks allocated and not freed; what a call does to a struct and to
the heap is an operator from and to `[err, live]` (`Released`, `setErr`,
`AllocateDetails`, `setErrWithDetails`, `errToAdbcErr`), line by line as the C
and Go code has it. `Old` structs end before `private_data`, `New` ones say
PRIVATE in `vendor_code`. `Errors` are the cases that `errToAdbcErr` tells apart:
an error that is no `adbc.Error`, and those by their vendor code: none, one of
the server's, one that equals the flag. `FailCall` is any call that fails;
`discipline` says whether the caller releases an error before it passes the
struct again. The stream keeps its error in `adbcErr`, made at the first failure
and released and filled at each later one (`OwnStruct`, `maybeError`). The
reader is `RecordStream`, of which `get_next` sees the steps `Deliver`, `SayEnd`
and `SayError` and then the same answer again.

### ConnectionConfig

A string is a sequence of tokens: each character the parser looks for is one,
each word between them another. The parser is written as the code is, with
`strings.Index`, `Cut`, `Split` and `TrimSuffix` as operators
(`ParseConnectionString`, `HostAndParams`, `splitHostPort`, `Param`,
`applyParam`). What it should yield is defined without it: an address is what a
caller means, `Render` writes it in the documented form, `Meaning` is what
`docs/connecting.md` says of it, `Valid` when it says anything. In two fields the
code is known not to follow, `Disputed`: the documents infer TLS from a token,
and give the default user agent a version. The property compares the others.
`IsAddress` says which records are addresses:
a host is a name or an IPv6 literal in brackets, a key has no `=` and no `;`, a
value no `;`, and so on; the strings that callers pass are of these
(`CallsAssumption`), of any length and with any number of parameters. `Words` are
the tokens that are not punctuation (`WordsAssumption`). `Plain` excludes three
forms that the parser cannot read as meant (see below).

`SetOptions` finds or allocates the `Config` (`configs`, `cfg`, `dbCfg` are
pointers to it); `ApplyOption` is one round of the loop over the options, for any
option left, because a Go map is walked in random order; `AssignConfig` is the
assignment at its end. The mutex makes the call one action to others; its steps
are apart so that a bad option can stop it anywhere. `Candidates` is what a
header may end up with on a request, `Dialled` how gRPC splits the endpoint.

### LikeMatch

An iteration of the loop in `likeMatch` is a step. The reference `SqlLike` is
the textbook recursion over the ends of both strings. `likeClause` is compared
with `SparkLike`, what Spark's `StringUtils.filterPattern` does with the clause:
alternatives split at `|`, then a case-insensitive regex. Patterns and names are
any sequences (`InputsAssumption`). What `unicode.SimpleFold` and ASCII case
identify are sets of characters, of which `AlphabetsAssumption` says what the
two have to do with each other: a percent sign folds to itself only, and two
ASCII characters that fold to each other are cases of one letter.

## 4. The runs

| run | asks | bounds and why they are enough |
|---|---|---|
| `reader` | all of the reader | 3 records in 3 messages, batches of up to 2, 2 references: a batch is left with unread records while the next one exists, messages without records come before, between and after, and a second holder outlives the first. Proved for all bounds. |
| `cancel` | the slot, disciplined or racing | 2 cancelling threads, 3 operations, 3 Cancels: two Cancels can race with one renewal, and a late one meets the operation after the next. Proved for all bounds. |
| `session` | sessions and Close | 2 clients of one database, 2 users, one id to share, 2 connection strings, 2 SetOptions, 2 operations, 1 restart: one client can be disturbed by the other before and after each of its own steps. Clients and users are interchangeable (symmetry; the cfg has only invariants and a step property). Proved for all bounds. |
| `statement` | parameters and plans | 2 records, so that one replaces another; a column of each type with the values at both ends, around zero and at the boundaries of the scaled widths (1, 3, 7, 31 for 2^7-1 .. 2^63-1, each more than twice the one before, as in the code), a day of 3 ms and a factor of 2; a second column that cannot be bound; no rows, two rows; one plan, because a later one depends on the fields alone. Proved for all bounds. |
| `metadata` | the walk of GetObjects; the loop and the clause of its matching | The walk: 2 catalogs sharing a schema name, 5 tables of which one is a temporary view, filters that cut each level, 2 changes, 1 passing failure: the change can undo itself, and a failure can meet either branch. The matching: patterns up to 5 characters (up to 3 of all letters, longer ones of two letters and the percent) and names up to 4: two characters before a percent and two after it can overlap in the name, so that coming back to a place too early would show. One pattern is followed by a walk, one request preceded by all patterns: nothing is gained by their product. Proved for all bounds, patterns and names, `Terminates` excepted. |
| `cdriver` | the handles | 1 database, 2 connections, 1 statement and 2 streams, 6 handles and 2 results in all: every struct can be used once, or fewer of them released and made anew, and two results can outlive their statement, connection and database. Connections and streams are interchangeable (symmetry; invariants and a step property only). Proved for all bounds. |
| `config` | strings, options, refusals | two calls. The first has any of some 2,000 strings: every scheme, host, port and form without parameters, both forms with up to two parameters of every kind of key and of values that contain `=`, `/`, `+`, `://` and good and bad escapes; or a fixed string with up to three options, so that two names of one field meet a third. The second has no string, or a bad one: options over what is there, and refusals. Proved for all addresses, options and calls. |
| `errors` | the errors of calls and of a stream | one struct of each version and 7 blocks: the two structs and the stream take five, so that a caller that reuses its structs can leak and still fail again; a result of one record, which may fail before it, after it, or not. Proved for all bounds. |

`CHECK_DEADLOCK FALSE` is in every configuration because every one of these
systems stops: a result is released, a handle closed, a bound used up, a walk
finished. The four runs that end in a violation use the same modules with small
bounds of their own: a counterexample needs no more.

### Properties that hold

* reader: `RecordsAccounted`, `OneBatchInMemory`, `CleanEndIsComplete`,
  `NothingDroppedBeforeEnd`, `SchemaKnown`, `StreamOwned`, `DeliveryInOrder`,
  `ImplementsRecordStream`; eventually `OperationFreed` and `CancelUnblocks`.
  Proved but not part of the run: `TypeOK`, `OutcomeIsFinal`, `SchemaFixed`,
  `NoRecvAfterDone`.
* cancel: disciplined, `NoStrayContext`, `NeverPoisoned`, `CancelReaches`, and
  eventually `CancelStopsWait`; racing too, `CancelledByOverlap`, a late Cancel
  cannot hit an operation that began after it returned, and `NoLastingRace`: what a
  race did to the slot ends with the operation it met, and one that no Cancel
  overlaps has a live context of its own, which the slot can cancel.
* session: `ReleasesItsSession`, `Isolation`, `IdentityKept`.
* statement: `ParamsAccounted`, `PlanHasAllParameters`,
  `LiteralsSayWhatWasBound`, `FailureChangesNothing`.
* metadata, the walk: `Complete`, `OnlyFailuresHide`, `FailsOnlyWhenDisturbed`,
  `FiltersHold` (below the catalogs). The call may fail where the schema is one of
  another catalog (`AskedElsewhere`), which the run `objects_degrade` is about.
* metadata, the matching: `IndicesInRange`, `DecidesLike` (for names without `%`,
  see below), `ClauseOnlyNarrows` (for ASCII names), and it `Terminates`.
* cdriver: `HandlesOwned`, `NothingOrphaned`, `PoisonFreezes`.
* config: `StringMeansWhatItSays` (of `Plain` addresses and undisputed fields,
  see below), `OptionsTakePrecedence`, `FailedCallKeepsConfig`.
* errors: `BlocksOwned`, `DetailsOnlyWhereAsked`, `StreamErrorIsReaders`.

The type invariants of `CancellableContext`, `SparkSession`, `Statement`,
`GetObjects`, `CDriver` and `ErrorExport` are in the modules; where a proof needs them they are part of its
inductive invariant.

### Runs that end in a violation

Each shows the code doing something else than a document or a comment of the
repository says; the quotes are in `PROJECT.json`.

| run | shown |
|---|---|
| `cancel_thread_safe` | Cancel racing with a new operation, or another Cancel, clears the new cancel function: it returns OK, the query runs on and cannot be cancelled any more (`CancelIsThreadSafe`). |
| `session_pinned` | `Close` releases a pinned session under the other connections that share it, and the server refuses the id from then on (`PinnedSessionPersists`). |
| `date64` | The "floor-divide" of a Date64 truncates towards zero: before 1970 the day is off by one (`Date64IsFloored`). |
| `objects_degrade` | Where `SHOW NAMESPACES IN` a catalog is not supported, `listSchemas` returns the current catalog's namespaces as that catalog's; `SHOW TABLES` in one that it does not have then fails the whole call, which the comment says it does not (`DegradesToNoSchemas`). |

### Observed while modelling, without a run

Sessions:

* `rememberServerSession` notes the server-side session id "so that later
  requests can assert continuity if desired" (`client.go:133-134`), but no
  request carries it: after a server restart operations succeed in a fresh
  session, temporary views and configuration gone, where
  `docs/troubleshooting.md:39-46` documents the error "server session id
  changed". `Restart` and `EndOp` of `SparkSession` show it.
* `SetOptions` without a URI writes into the `Config` that open connections share
  by pointer (`database.go:56`, `:72`), and `userContext` reads the user for
  every request (`client.go:125`). After a new user the connection's `Close`
  releases that user's session of the same id and leaves its own. It is a data
  race, too. Against `docs/architecture.md:52-54` and `docs/compatibility.md:55`
  (one session per connection, released by Close). Hence `overlaid` in
  `ReleasesItsSession` and `IdentityKept`.

C driver:
* `SparkConnectionInit` keeps the opened connection before it applies the
  options set before Init, and connections take no options: Init returns
  NOT_IMPLEMENTED although the connection is open and usable, and a second Init
  is refused. Only Release helps, which `NothingOrphaned` says it does.
  `ConnectionSetOption` before Init has returned OK for those options.
* The callbacks of an exported stream do not look at `globalPoison`; that is
  what lets results be given up after a panic. Databases, connections and
  statements cannot be (`PoisonFreezes`): sessions stay at the server.
* `errToAdbcErr` gives `setErr` an error's text as the format of `fmt.Sprintf`
  (`c/driver.go:120`, `:129`, `:182`): a `%` in a message of the server is not
  printed as it stands.
* A `SparkError` is written over what a 1.1.0 struct held, where `setErr`
  releases it first: a caller that reuses a struct without releasing it leaks in
  one case and not in the other. The stream's `release` callback stays set after
  it ran; a second call does nothing.
* `SparkStatementBindStream` imports the stream, hands it to the statement, which
  refuses, and releases it nowhere; the importer's finalizer has to.
* `AdbcStatementCancel` with nothing to cancel returns OK; adbc.h documents
  `ADBC_STATUS_INVALID_STATE` (`c/arrow-adbc/adbc.h:1489`, `:2142`).

GetObjects and LIKE:

* `likeMatch` tests for equal characters before it tests for the wildcard, so a
  `%` in a name uses up a `%` of the pattern: `likeMatch("%", "%a")` is false.
  Hence the condition of `DecidesLike`.
* The clause sent to Spark folds ASCII case only: a name with, say, the Kelvin
  sign is matched by `k` on the client and never listed by the server. Hence
  the condition of `ClauseOnlyNarrows`.
* When `SHOW CATALOGS` fails, `listCatalogs` returns the default catalog without
  looking at the catalog filter (`driver/spark/objects.go:166-170`), though
  filters "are always matched on the client" (`:32-35`). Hence "below the
  catalogs" in `FiltersHold`. An empty catalog filter is treated as none, where
  adbc.h:1647-1653 has it select objects without a catalog.
* `listCatalogs`, `listSchemas` and `appendColumns` swallow every error, a
  cancelled context included: a cancelled `GetObjects` may return OK and short.

Statements:

* `timestampToMicros` multiplies and Date64 narrows to 32 bits without a check:
  far dates wrap around silently, where an oversized uint64 is refused.
  `LiteralsSayWhatWasBound` is stated for representable values.

Connection strings and options:

* An IPv6 host loses its brackets (`config.go:164-172`) and `Endpoint` joins it
  with the port as it is (`:184`): gRPC cannot read `::1:15002` as it was meant.
  Hence "a host that is a name" in `StringMeansWhatItSays`.
* After a bare `;` the parser may find the first `/;` in the middle of the
  parameters, if one ends in `/`, and takes everything before it for the host;
  without a scheme a `://` in a value is taken for the end of one. Hence
  `Plain`.
* A port is not checked to be one; an empty header name is accepted in a string and
  refused as an option.
* A header given as an option does not replace the string's if they differ in
  case: both are kept, and the order of a Go map decides which one a request
  carries. `docs/connecting.md:29` has option keys take precedence.
* "When a token is supplied the driver enables TLS automatically"
  (`docs/connecting.md:111-113`; also `:21`, `docs/configuration.md:21-22`,
  `docs/troubleshooting.md:30-32`): neither the parser nor `SetOptions` does, for a
  token of a string or of an option; without `use_ssl` or `grpcs://` the token goes
  out in plaintext. And with `use_ssl=false` and a token "the credential will not
  be sent" (`troubleshooting.md:31-32`); `outgoingContext` sends it
  (`client.go:109-111`). `Disputed` has the first for strings; for options,
  `OptionsTakePrecedence` admits TLS with a token (`Inferred`), so that neither
  property depends on which of code and documents is changed.
* The user agent's default is `adbc-driver-spark` (`config.go:49`), documented as
  `adbc-driver-spark/<version>` (`docs/connecting.md:23`,
  `docs/configuration.md:24`). The other field of `Disputed`.
* The documents give `host:port` and the `uri` option the default
  `localhost:15002` (`docs/connecting.md:13-14`, `:19`, `docs/configuration.md:20`): a
  string without a host is refused, or has an empty host if it has a port, and a
  missing `uri` is INVALID_ARGUMENT. Hence the host in `Plain`.

Documents:

* Documented as supported but refused: `BindStream` (`docs/compatibility.md:29`,
  `docs/querying.md:413-415`) and with it `executemany`
  (`docs/python-dbapi.md:67`).
* `Client.Interrupt` has no caller, though `docs/compatibility.md:54` lists it
  for cancelling; cancelling works by the stream's context. Table schemas come
  from executing `... LIMIT 0`, not from `AnalyzePlan` as
  `docs/architecture.md` says.

## 5. Fairness

* `ResultReader`: weak fairness of `Fill` (a call in `Recv` returns when there
  is something to return: a message, the end, an ended context, a closed
  channel; gRPC-Go guarantees it) and of `StopCancelled` (the server stops a
  cancelled operation). None of the server's sending, none of the consumer.
* `CancellableContext`: a thread inside `cancelContext` goes on, and a wait
  whose context was cancelled returns, which is `CancelUnblocks` above.
* `SparkSession`: only the five-second timer of `Close`. Its properties are all
  safety.
* `LikeMatch`: the loop runs.
* `Statement`, `GetObjects`, `CDriver`, `ConnectionConfig`, `ErrorExport`: none;
  all their properties are safety.

## 6. Proofs

The proof modules cover every value of the constants, under the assumptions named
in the modules: bounds are natural numbers (`MaxRefs` at least 1;
`BoundsAssumption` and its like), server codes are gRPC codes other than OK
(`CodesAssumption`), the worker is not a cancelling thread
(`WorkerIsNoCanceller`), the kinds of C structs are apart (`StructsApart`), the
heap is a finite set of blocks (`Heap`), what a record may hold is a table of
typed columns (`ContentsAssumption`). TLC evaluates them in each run. Every
invariant was checked by TLC before it was proved.

All have the same shape: a lemma that `Init` establishes the inductive invariant
`IInv`, one per action that the action keeps it, `InvHolds` from these, and the
theorems from `InvHolds`. What `IInv` adds to the properties is what follows.

**ResultReaderProofs.** None of the reader's invariants is inductive:
`RecordsAccounted` says nothing about which records are in `buf`, and
`CleanEndIsComplete` nothing about what is still on the wire. `IInv` adds the
missing picture: number the records of the result; those up to `delivered` were
given out, from there to `received` they lie in `buf` (`BufOK`), from there to
`produced` on the wire, message after message (`WireOK`); and `ControlOK` ties
`pc`, `done`, `err`, `told`, `refCount` and the stream's context together. The
proof has a lemma per action, and under it a step per conjunct the action
touches. From `IInv` follow the type invariant, all seven safety invariants,
the three step properties, and `Refinement`: `Init` implies the initial
condition of `RecordStream`, and every step is one of its steps or a stutter.

**CancellableContextProofs.** `IInv` says for a disciplined application that one
thread is at the slot and that the slot is as that thread's place in the code
says (`SlotInv`): called but not cleared, cleared but not renewed, made but not
stored. For a racing one it needs only `Alone`: while no Cancel has overlapped
the last operation, no canceller is anywhere in the code, so nothing but the
worker itself, in the next call's `newContext` or in Release, can have
cancelled it, and the slot holds what the worker's own steps have put there,
whatever was in it before. It follows that `CancelledByOverlap` and
`NoLastingRace` hold under any interleaving (`RacesPass`), and `NoStrayContext`, `NeverPoisoned` and `CancelReaches` under
discipline.

**SparkSessionProofs.** `Isolation` and `ReleasesItsSession` speak of the
server's sessions, but what breaks them is on its way there: a request of an
operation or of a Close that arrives late. `IInv` says which requests a client
may have under way in each phase and whose key they carry (`ClientOK`), and what
the server may have under the id that was made up for a client: a tombstone only
once that client's Close has begun, a session only if the client has sent an
operation, under its own key, and after an answered Close only if an operation
raced with it (`ServerOK`). That a key stays what it was depends on nobody
writing into the `Config`, which is why `overlaid` is part of it. A restart only
takes away.

**StatementProofs.** `IInv` is `ParamsAccounted` with the content of what is held
(`RecordsOK`), and that the last plan is the literals of what was bound then
(`PlanOK`). The rest is arithmetic, proved as lemmas on the operators for any
width and any unit: `Wrap` is the identity on its range and stays within it,
`Quotient` truncates, products by the units are monotonic; from these,
`columnToLiteral` has a value of its kind and, in its domain, the column's. That
the kind is the one for the column's type (`LiteralOfType`) compares the ranges of
the eight integer types with those of the four kinds (`Ranges`, `NarrowestKind`).
The
units of time are natural numbers other than zero there; nothing ties them to
1000 or to a day.

**CDriverProofs.** `HandlesOwned` alone does not survive a Release, which needs
that no other struct has the same handle, nor `NothingOrphaned` an export, which
needs that no other stream has the same reader. `HandlesOK`, `ClientsOK` and
`ReadersOK` make these one-to-one: live handles with structs (or `imported`),
connections with clients, streams with readers. `PoisonFreezes` needs besides
that after a panic every answer is a refusal.

**ErrorExportProofs.** `BlocksOwned` relates all structs to the heap. `IInv`
splits it: each struct is whole (`Sound`: what it says it holds, it holds), its
blocks are allocated, two structs' are apart (`Apart`), an old one never says
PRIVATE (`OldStaysOld`), and the message that was handed out is the stream's own
(`HeldIsOwn`). A lemma says of any struct what releasing and filling it does to
it and to the heap (the blocks it had go, the ones it gets were free); every
action is an instance of it for one struct and leaves the others' blocks alone.

**GetObjectsProofs.** `OnlyFailuresHide` says nothing of a walk that is under way.
`IInv` covers each expected object at any time (`AllCovered`): it was reported, or
a question above it failed that excuses it, or something above it, a node still
to be visited or the one whose question is open, will lead to it; each answer
reports the next node on the way, each failure adds its excuse. `AllExpected`
is the other direction, for walks without failures. `Sound` and `PlacesOK` say
what a path at each place of the walk looks like. Above all of it are lemmas on
paths (prefixes, appending) and the two that turn `Expected` into conditions on
the places of a path (`Shaped`). `Complete` follows from both directions.
`FailsOnlyWhenDisturbed` has an invariant of its own, `FailInv`, over `IInv`: as
long as nothing changed, a schema that was reported is one of its catalog, unless
the listing of another catalog stood in, so that `SHOW TABLES` in it can be
answered.

**StringProofs: LIKE.** The prover has no induction over strings, so there are
two detours. `NatSetInduction` is induction over a set of natural numbers instead of a
predicate, from the well-foundedness of `<`; and matching is restated without
recursion: an *alignment* of k places of a pattern with l characters of a name is
a function that says where each place ends. `RuleDetermines` proves, by that
induction, that any solution of the recursion in `Matches` says which prefixes
have an alignment. From there `LikeInv` has what the loop knows: what it has
passed is matched, and the pattern up to the last percent with any longer part of
the name (`PassedMatches`); since that percent it went forward a character at a
time (`SincePercent`); and no alignment of the whole has that percent end before
`mark` (`MarkIsLeast`), which is why one percent to come back to is enough. A
"yes" is then an alignment, and a "no" leaves none (`LoopDecidesLike`).
`LoopIsBounded` says that every iteration moves `mark` forward, or leaves it and
moves `i` forward, so that there are finitely many; that the loop goes on at all
is fairness, and TLC's. For `ClauseNeverDrops` an alignment of the pattern is one of the clause,
whose hits are no fewer.

**StringProofs: the parser.** `FoldLeft` is, in the library, a recursion over sets
of indices. `StepTableExists` and `Traced` (again by `NatSetInduction`) turn it
into the trace of its partial results, for each of the three folds: `Split`, the
loop over the parameters, and `Join`. `ParsesAsRead` is then a chain of equalities, for any
plain address a: the scheme is cut where it ends (`SchemeIsCut`), host and port
are cut from the parameters for each of the four forms (`HostAndParamsIs`), and
from each other (`HostPortSplits`); splitting the joined parameters gives them
back (`SplitOfJoin`, which is `SplitGrows` by induction over the length of a part
and then over the parts); each parameter is cut into its key and value (`ParamOfKey`);
and after k rounds of the loop the Config is what the first k parameters say, or
the parser has failed because one of them is not accepted (`ParamsRead`). Hence
`ParseConnectionString(Render(a))` is `ReadAs(a)` if `Valid(a)`, and `Fail`
otherwise; and `ReadAs` has every field of `Meaning` that is not disputed
(`ReadsMeaning`). `NamesAreDialled` is the target.

**StringProofs: options.** `ConfigInv` is about the loop half-way: the Config being
written is its base with the options taken so far over it (`WritesOver`), field by
field and header by header, where of several options for one field any may have
won; and it is the database's own only if there is no connection string
(`WritesInto`). The second gives `RefusedCallKeepsConfig`, the first, at the end of
the loop, `LastWordIsTheOption`, and both with the parser
`StringsMeanWhatTheySay`.

These assume of the constants that patterns, names, hosts, keys and values are
what the types in the code make them, sequences (`InputsAssumption`,
`CallsAssumption`), that words are not punctuation, and that the table `Meant`,
where it has a value, has its decoded form (`WordsAssumption`). The tokens that decoding
and lower-casing change are the fixed few of the model; that these change as
documented is seen in the run, where `Meant` is written out by hand.

**Left to TLC.** Liveness (`OperationFreed`, `CancelUnblocks`,
`CancelStopsWait`, `Terminates`) and anything with ENABLED, which the
prover does not do. Every safety property of every run that passes is proved. That the
four disagreements of section 4 occur is shown by their counterexamples.

## 7. Not modelled

* `AdbcDriverSparkInit` (a table of function pointers for the version asked for)
  and the choice of a log level: constants that nothing later changes. C memory
  layout beyond the fields of `AdbcError`. `exportStringOption` and
  `exportBytesOption`, which nothing reaches: no object of this driver implements
  `GetSetOptions`. Error details: no error of this driver has any.
* `GetInfo`, `GetTableTypes`: constants in one batch.
* gRPC, Arrow IPC, Spark, arrow-go: environment. Their actions are marked external
  in the map and allow what the code has to cope with: flow control, keep-alive
  and retries inside gRPC are not told apart from a late message or a failed
  stream.
* Message texts, SQL quoting, logging. Spaces around the keys of a connection
  string.
* `decodeIPC` takes an error that is `io.EOF` for the end of a batch, not for a
  fault (`result_reader.go:154`): arrow-go ends a batch without an error, so that
  a batch is whole or broken in the model. A message cut so that the reader did
  report `io.EOF` would be taken for a shorter batch.
* Concurrent calls on one statement, reader or connection other than Cancel and
  Close: adbc.h leaves them to the caller.
* Generated code: `internal/sparkconnect/proto`, about 33,700 of the 38,000 lines
  of Go outside tests, is protobuf accessors without logic of their own; its
  messages are records of the models. `c/utils.c` but for its release callbacks.
  Of the 4,100 lines written by hand most of those with state or decisions are in
  the map, so that the share of the map in all lines stays low.
* The vendored header, the Python package, examples, tests, build files.
