------------------------------- MODULE CDriver -------------------------------
(***************************************************************************)
(* The handles of the C driver (c/driver.go): what New, Init and Release   *)
(* of databases, connections and statements make of the structs a C        *)
(* program holds, the ArrowArrayStreams that results are exported to, and  *)
(* what every other exported function answers.                             *)
(*                                                                         *)
(* A struct's private_data is the number of a cgo.Handle, which stands for *)
(* a Go object until it is deleted; numbers are not used again.  Any call  *)
(* may be made on any struct at any time, released ones included, one call *)
(* at a time.  The cancel slot of an object is CancellableContext's, which *)
(* also says when a call that uses it panics; here any of them may, and    *)
(* what matters is what it leaves behind.                                  *)
(***************************************************************************)
EXTENDS Integers, Sequences, FiniteSets

CONSTANTS
    Databases, Connections, Statements, Streams,  \* C structs, by name
    MaxHandles,   \* bound: cgo.Handles created
    MaxReaders    \* bound: results

Parents == Databases \cup Connections \cup Statements
Structs == Parents \cup Streams

ASSUME HandleBounds == MaxHandles \in Nat /\ MaxReaders \in Nat
ASSUME StructsApart ==
    /\ Databases \cap Connections = {} /\ Databases \cap Statements = {}
    /\ Connections \cap Statements = {} /\ Parents \cap Streams = {}

VARIABLES
    private_data,  \* of each struct: a handle, or Nil
    objects,       \* the Go object of each handle created, or Deleted
    clients,       \* the clients that Open made: "open", "closed"
    readers,       \* references on each result reader
    imported,      \* handles of streams that a statement was given to bind
    globalPoison,  \* "no", "yes"
    code           \* what the last call returned

state == <<private_data, objects, clients, readers, imported, globalPoison>>
vars  == <<state, code>>

Nil     == 0
Deleted == [kind |-> "deleted"]

cDatabases   == [kind : {"database"}, opts : {"bad", "good"}, db : {"no", "yes"}]
cConns       == [kind : {"connection"}, cnxn : Nat, initArgs : {"no", "yes"}]
cStmts       == [kind : {"statement"}, cnxn : Nat]
cArrayStreams == [kind : {"stream"}, rdr : Nat]

Object(s) == objects[private_data[s]]

Init ==
    /\ private_data = [s \in Structs |-> Nil]
    /\ objects = <<>> /\ clients = <<>> /\ readers = <<>> /\ imported = {}
    /\ globalPoison = "no" /\ code = "OK"

-----------------------------------------------------------------------------
(* What the exported functions have in common.                             *)

Refuse(c) == code' = c /\ UNCHANGED state

\* Mutant: a poisoned driver goes on.
IsAllocThough(s) == private_data[s] # Nil
\* checkDBAlloc, checkConnAlloc, checkStmtAlloc
IsAlloc(s) == globalPoison = "no" /\ private_data[s] # Nil

\* checkDBInit, checkConnInit; a statement is made with its Go statement.
IsInitDB(d)   == IsAlloc(d) /\ Object(d).db = "yes"
IsInitConn(k) == IsAlloc(k) /\ Object(k).cnxn # Nil

Update(s, obj) == objects' = [objects EXCEPT ![private_data[s]] = obj]

\* cgo.NewHandle, createHandle
Allocate(s, obj) ==
    /\ Len(objects) < MaxHandles
    /\ objects' = Append(objects, obj)
    /\ private_data' = [private_data EXCEPT ![s] = Len(objects) + 1]

\* Mutant: the handle is not deleted.
FreeOnly(s) == private_data' = [private_data EXCEPT ![s] = Nil] /\ UNCHANGED objects
Free(s) ==
    /\ private_data' = [private_data EXCEPT ![s] = Nil]
    /\ Update(s, Deleted)

\* The deferred recover: the driver refuses all that follows.
Poison == globalPoison' = "yes" /\ code' = "INTERNAL"

\* newContext or cancelContext panics, as CancellableContext has it.
PanicAtSlot ==
    /\ Poison
    /\ UNCHANGED <<private_data, objects, clients, readers, imported>>

\* New on a struct.
MayBeNew(s) == globalPoison = "no" /\ private_data[s] = Nil
RefuseNew(s) ==
    \/ globalPoison = "yes" /\ Refuse("INTERNAL")
    \/ globalPoison = "no" /\ private_data[s] # Nil /\ Refuse("INVALID_STATE")

-----------------------------------------------------------------------------
(* Databases.                                                              *)

DatabaseNew(d) ==
    \/ RefuseNew(d)
    \/ /\ MayBeNew(d)
       /\ Allocate(d, [kind |-> "database", opts |-> "bad", db |-> "no"])
       /\ code' = "OK"
       /\ UNCHANGED <<clients, readers, imported, globalPoison>>

\* Before Init the options are kept; a database takes none afterwards.
DatabaseSetOption(d) ==
    \/ ~IsAlloc(d) /\ Refuse("INVALID_STATE")
    \/ IsInitDB(d) /\ Refuse("NOT_IMPLEMENTED")
    \/ /\ IsAlloc(d) /\ ~IsInitDB(d)
       /\ \E o \in {"bad", "good"} : Update(d, [Object(d) EXCEPT !.opts = o])
       /\ code' = "OK"
       /\ UNCHANGED <<private_data, clients, readers, imported, globalPoison>>

\* NewDatabase reads the options; Init may be tried again with others.
DatabaseInit(d) ==
    \/ (~IsAlloc(d) \/ IsInitDB(d)) /\ Refuse("INVALID_STATE")
    \/ /\ IsAlloc(d) /\ ~IsInitDB(d)
       /\ IF Object(d).opts = "bad" THEN Refuse("INVALID_ARGUMENT")
          ELSE /\ Update(d, [Object(d) EXCEPT !.db = "yes"])
               /\ code' = "OK"
               /\ UNCHANGED <<private_data, clients, readers, imported, globalPoison>>

DatabaseRelease(d) ==
    \/ ~IsAlloc(d) /\ Refuse("INVALID_STATE")
    \/ /\ IsAlloc(d)
       /\ Free(d) /\ code' = "OK"
       /\ UNCHANGED <<clients, readers, imported, globalPoison>>

-----------------------------------------------------------------------------
(* Connections.                                                            *)

ConnectionNew(k) ==
    \/ RefuseNew(k)
    \/ /\ MayBeNew(k)
       /\ Allocate(k, [kind |-> "connection", cnxn |-> Nil, initArgs |-> "no"])
       /\ code' = "OK"
       /\ UNCHANGED <<clients, readers, imported, globalPoison>>

ConnectionSetOption(k) ==
    \/ ~IsAlloc(k) /\ Refuse("INVALID_STATE")
    \/ IsInitConn(k) /\ Refuse("NOT_IMPLEMENTED")
    \/ /\ IsAlloc(k) /\ ~IsInitConn(k)
       /\ Update(k, [Object(k) EXCEPT !.initArgs = "yes"])
       /\ code' = "OK"
       /\ UNCHANGED <<private_data, clients, readers, imported, globalPoison>>

\* Mutant: the connection is kept once its options are set.
InitThenKeep(k, d) ==
    /\ IsAlloc(k) /\ ~IsInitConn(k) /\ IsInitDB(d)
    /\ clients' = Append(clients, "open")
    /\ IF Object(k).initArgs = "no"
       THEN Update(k, [Object(k) EXCEPT !.cnxn = Len(clients')]) /\ code' = "OK"
       ELSE code' = "NOT_IMPLEMENTED" /\ UNCHANGED objects
    /\ UNCHANGED <<private_data, readers, imported, globalPoison>>

\* Open makes a client, or fails.  The connection is kept before the options
\* from before Init are set; it takes none, so that then Init fails although
\* the connection is open.
OpenAndKeep(k, d) ==
    /\ IsAlloc(k) /\ ~IsInitConn(k) /\ IsInitDB(d)
    /\ clients' = Append(clients, "open")
    /\ Update(k, [Object(k) EXCEPT !.cnxn = Len(clients')])
    /\ code' = IF Object(k).initArgs = "no" THEN "OK" ELSE "NOT_IMPLEMENTED"
    /\ UNCHANGED <<private_data, readers, imported, globalPoison>>

ConnectionInit(k, d) ==
    \/ (~IsAlloc(k) \/ IsInitConn(k) \/ ~IsInitDB(d)) /\ Refuse("INVALID_STATE")
    \/ IsAlloc(k) /\ ~IsInitConn(k) /\ IsInitDB(d) /\ Refuse("IO")
    \/ OpenAndKeep(k, d)

\* The client is closed, with or without an error; what is deferred begins
\* with cancelContext, and a panic there skips the rest.
ConnectionRelease(k) ==
    \/ ~IsAlloc(k) /\ Refuse("INVALID_STATE")
    \/ /\ IsAlloc(k)
       /\ LET n == Object(k).cnxn IN
          /\ clients' = [i \in DOMAIN clients |->
                            IF i = n THEN "closed" ELSE clients[i]]
          /\ \/ /\ Free(k)
                /\ code' \in IF n = Nil THEN {"OK"} ELSE {"OK", "IO"}
                /\ UNCHANGED globalPoison
             \/ Poison /\ UNCHANGED <<private_data, objects>>
       /\ UNCHANGED <<readers, imported>>

-----------------------------------------------------------------------------
(* Statements.                                                             *)

StatementNew(s, k) ==
    \/ RefuseNew(s)
    \/ MayBeNew(s) /\ ~IsInitConn(k) /\ Refuse("INVALID_STATE")
    \/ /\ MayBeNew(s) /\ IsInitConn(k)
       /\ Allocate(s, [kind |-> "statement", cnxn |-> Object(k).cnxn])
       /\ code' = "OK"
       /\ UNCHANGED <<clients, readers, imported, globalPoison>>

StatementRelease(s) ==
    \/ globalPoison = "yes" /\ Refuse("INTERNAL")
    \/ globalPoison = "no" /\ ~IsAlloc(s) /\ Refuse("INVALID_STATE")
    \/ /\ IsAlloc(s)
       /\ \/ /\ Free(s) /\ code' = "OK"
             /\ UNCHANGED globalPoison
          \/ Poison /\ UNCHANGED <<private_data, objects>>
       /\ UNCHANGED <<clients, readers, imported>>

-----------------------------------------------------------------------------
(* Results.                                                                *)

\* Mutant: the function keeps its own reference.
ExportRetained(t) ==
    /\ Len(readers) < MaxReaders
    /\ Allocate(t, [kind |-> "stream", rdr |-> Len(readers) + 1])
    /\ readers' = Append(readers, 2)
    /\ code' = "OK"
    /\ UNCHANGED <<clients, imported, globalPoison>>

\* exportRecordReader: the reader gets a reference for the stream, and the
\* deferred Release gives up the function's.
ExportReader(t) ==
    /\ Len(readers) < MaxReaders
    /\ Allocate(t, [kind |-> "stream", rdr |-> Len(readers) + 1])
    /\ readers' = Append(readers, 1)
    /\ code' = "OK"
    /\ UNCHANGED <<clients, imported, globalPoison>>

\* ExecuteQuery and Execute without a result, into a stream that is not in
\* use; a closed connection refuses.
ExecuteQuery(s, t) ==
    \/ ~IsAlloc(s) /\ Refuse("INVALID_STATE")
    \/ /\ IsAlloc(s)
       /\ \/ PanicAtSlot
          \/ IF clients[Object(s).cnxn] = "closed" THEN Refuse("INVALID_STATE")
             ELSE \/ \E c \in {"OK", "IO"} : Refuse(c)   \* out is NULL, or failed
                  \/ private_data[t] = Nil /\ ExportReader(t)

\* GetInfo, GetObjects, GetTableTypes.
ConnectionQuery(k, t) ==
    \/ ~IsInitConn(k) /\ Refuse("INVALID_STATE")
    \/ /\ IsInitConn(k)
       /\ \/ PanicAtSlot
          \/ Refuse("IO")
          \/ private_data[t] = Nil /\ ExportReader(t)

\* The callbacks of a stream do not look at globalPoison; a second Release
\* does nothing.
ArrayStreamRelease(t) ==
    \/ private_data[t] = Nil /\ UNCHANGED vars
    \/ /\ private_data[t] # Nil
       /\ readers' = [readers EXCEPT ![Object(t).rdr] = @ - 1]
       /\ Free(t)
       /\ UNCHANGED <<clients, imported, globalPoison, code>>

-----------------------------------------------------------------------------
(* The functions that change nothing a C program holds.                    *)

Answer(ready, codes) ==
    \/ ~ready /\ Refuse("INVALID_STATE")
    \/ ready /\ \E c \in codes : Refuse(c)

\* The call begins with the object's slot.
AnswerInSlot(ready, codes) == Answer(ready, codes) \/ (ready /\ PanicAtSlot)

StatementCancel(s)  == AnswerInSlot(IsAlloc(s), {"OK"})
ConnectionCancel(k) == AnswerInSlot(IsInitConn(k), {"OK"})

\* Nothing in the driver is an adbc.GetSetOptions.  (GetOption stands for its
\* Bytes, Double and Int forms too, SetOptionTyped for those of SetOption.)
DatabaseGetOption(d)        == Answer(IsInitDB(d), {"NOT_IMPLEMENTED"})
DatabaseSetOptionTyped(d)   == Answer(IsInitDB(d), {"NOT_IMPLEMENTED"})
ConnectionGetOption(k)      == Answer(IsInitConn(k), {"NOT_IMPLEMENTED"})
ConnectionSetOptionTyped(k) == Answer(IsInitConn(k), {"NOT_IMPLEMENTED"})
StatementGetOption(s)       == Answer(IsAlloc(s), {"NOT_IMPLEMENTED"})
StatementSetOption(s)       == Answer(IsAlloc(s), {"NOT_IMPLEMENTED"})

GetStatistics(k)  == Answer(IsInitConn(k), {"NOT_IMPLEMENTED"})
GetTableSchema(k) == AnswerInSlot(IsInitConn(k), {"OK", "IO"})
ReadPartition(k)  == AnswerInSlot(IsInitConn(k), {"NOT_IMPLEMENTED"})
Commit(k)         == AnswerInSlot(IsInitConn(k), {"NOT_IMPLEMENTED"})

Prepare(s)            == AnswerInSlot(IsAlloc(s), {"OK", "INVALID_STATE"})
ExecuteSchema(s)      == Answer(IsAlloc(s), {"NOT_IMPLEMENTED"})
SetSqlQuery(s)        == Answer(IsAlloc(s), {"OK"})
SetSubstraitPlan(s)   == Answer(IsAlloc(s), {"NOT_IMPLEMENTED"})
GetParameterSchema(s) == Answer(IsAlloc(s), {"NOT_IMPLEMENTED"})
ExecutePartitions(s)  == AnswerInSlot(IsAlloc(s), {"NOT_IMPLEMENTED"})

\* UNKNOWN: what was passed could not be imported.
Bind(s) == AnswerInSlot(IsAlloc(s), {"OK", "NOT_IMPLEMENTED", "UNKNOWN"})

\* BindStream of one of the driver's own results, or of another's stream: the
\* import takes it from the caller before the statement refuses it, and the
\* function does not release what was imported.
Import(s, t) ==
    /\ IsAlloc(s) /\ private_data[t] # Nil
    /\ imported' = imported \cup {private_data[t]}
    /\ private_data' = [private_data EXCEPT ![t] = Nil]
    /\ \/ code' = "NOT_IMPLEMENTED" /\ UNCHANGED globalPoison
       \/ Poison
    /\ UNCHANGED <<objects, clients, readers>>

BindStream(s, t) ==
    \/ AnswerInSlot(IsAlloc(s), {"NOT_IMPLEMENTED", "UNKNOWN"})
    \/ Import(s, t)

\* The Go runtime finalizes an imported stream: the importer releases it.
Finalize(h) ==
    /\ readers' = [readers EXCEPT ![objects[h].rdr] = @ - 1]
    /\ objects' = [objects EXCEPT ![h] = Deleted]
    /\ imported' = imported \ {h}
    /\ UNCHANGED <<private_data, clients, globalPoison, code>>

-----------------------------------------------------------------------------

Next ==
    \/ \E d \in Databases : DatabaseNew(d) \/ DatabaseSetOption(d)
                            \/ DatabaseInit(d) \/ DatabaseRelease(d)
                            \/ DatabaseGetOption(d) \/ DatabaseSetOptionTyped(d)
    \/ \E k \in Connections :
          \/ ConnectionNew(k) \/ ConnectionSetOption(k) \/ ConnectionRelease(k)
          \/ ConnectionCancel(k) \/ ConnectionGetOption(k) \/ ConnectionSetOptionTyped(k)
          \/ GetStatistics(k) \/ GetTableSchema(k) \/ ReadPartition(k) \/ Commit(k)
          \/ \E d \in Databases : ConnectionInit(k, d)
          \/ \E t \in Streams : ConnectionQuery(k, t)
    \/ \E s \in Statements :
          \/ StatementRelease(s)
          \/ StatementCancel(s) \/ StatementGetOption(s) \/ StatementSetOption(s)
          \/ Prepare(s) \/ SetSqlQuery(s) \/ SetSubstraitPlan(s) \/ Bind(s)
          \/ ExecuteSchema(s) \/ GetParameterSchema(s) \/ ExecutePartitions(s)
          \/ \E k \in Connections : StatementNew(s, k)
          \/ \E t \in Streams : ExecuteQuery(s, t) \/ BindStream(s, t)
    \/ \E t \in Streams : ArrayStreamRelease(t)
    \/ \E h \in imported : Finalize(h)

Spec == Init /\ [][Next]_vars

-----------------------------------------------------------------------------
(* Properties.                                                             *)

Codes == {"OK", "INVALID_STATE", "INVALID_ARGUMENT", "NOT_IMPLEMENTED",
          "INTERNAL", "IO", "UNKNOWN"}

TypeOK ==
    /\ private_data \in [Structs -> 0..Len(objects)]
    /\ Len(objects) <= MaxHandles
    /\ objects \in Seq(cDatabases \cup cConns \cup cStmts \cup cArrayStreams
                       \cup {Deleted})
    /\ clients \in Seq({"open", "closed"})
    /\ readers \in Seq(0..1) /\ Len(readers) <= MaxReaders
    /\ imported \subseteq DOMAIN objects
    /\ globalPoison \in {"no", "yes"} /\ code \in Codes

KindOf(s) == IF s \in Databases THEN "database"
             ELSE IF s \in Connections THEN "connection"
             ELSE IF s \in Statements THEN "statement" ELSE "stream"

\* Whatever the order of New, Init and Release, and after a panic too: a
\* struct never refers to a handle that was deleted or is another's or of
\* another type, and a handle nobody can reach any more was deleted.
Owners(h) == {s \in Structs : private_data[s] = h}
             \cup (IF h \in imported THEN {"importer"} ELSE {})
HandlesOwned ==
    /\ \A s \in Structs : private_data[s] # Nil => Object(s).kind = KindOf(s)
    /\ \A h \in imported : objects[h].kind = "stream"
    /\ \A h \in DOMAIN objects : objects[h] # Deleted => Cardinality(Owners(h)) = 1

\* A client that Open made is open only while a connection handle holds it, a
\* connection whose Init failed included (until a poison, after which only
\* streams can be released, it can still be closed); and a result reader has
\* its one reference exactly as long as its stream, even if the statement,
\* connection or database go first, the driver is poisoned, or the stream was
\* bound and refused.
Held(S) == {private_data[s] : s \in S} \ {Nil}
NothingOrphaned ==
    /\ \A n \in DOMAIN clients : clients[n] = "open" =>
           Cardinality({h \in Held(Connections) : objects[h].cnxn = n}) = 1
    /\ \A n \in DOMAIN readers : readers[n] =
           Cardinality({h \in Held(Streams) \cup imported : objects[h].rdr = n})

\* "We panicked; make all API functions error": nothing but the release of
\* streams changes a poisoned driver, and no call on a handle succeeds.
PoisonFreezes ==
    [][globalPoison = "yes" =>
          /\ \A s \in Parents : private_data'[s] = private_data[s]
          /\ clients' = clients /\ globalPoison' = "yes"
          /\ Len(objects') = Len(objects)
          /\ code' \in {"INTERNAL", "INVALID_STATE"}]_vars

=============================================================================
