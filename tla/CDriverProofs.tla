---------------------------- MODULE CDriverProofs ----------------------------
(***************************************************************************)
(* Proofs about CDriver, for any structs and bounds: handles have one      *)
(* owner each, clients and results none too many or too few, and a         *)
(* poisoned driver stays as it is.                                         *)
(***************************************************************************)
EXTENDS CDriver, FiniteSetTheorems, TLAPS

AnyObject == cDatabases \cup cConns \cup cStmts \cup cArrayStreams \cup {Deleted}

HandlesOf(kind) == {h \in 1..Len(objects) : objects[h].kind = kind}

\* Each handle in use is one struct's, of its type, or the importer's.
HandlesOK ==
    /\ private_data \in [Structs -> 0..Len(objects)]
    /\ objects \in Seq(AnyObject) /\ imported \subseteq HandlesOf("stream")
    /\ \A s \in Structs : private_data[s] # Nil => Object(s).kind = KindOf(s)
    /\ \A s, t \in Structs :
           private_data[s] = private_data[t] /\ private_data[s] # Nil => s = t
    /\ \A s \in Structs : private_data[s] \notin imported
    /\ \A h \in 1..Len(objects) : objects[h] # Deleted =>
           h \in imported \/ \E s \in Structs : private_data[s] = h

\* Each client is one connection's at most, and an open one's exactly.
ClientsOK ==
    /\ clients \in Seq({"open", "closed"})
    /\ \A h \in HandlesOf("connection") : objects[h].cnxn \in 0..Len(clients)
    /\ \A g, h \in HandlesOf("connection") :
           objects[g].cnxn = objects[h].cnxn /\ objects[g].cnxn # Nil => g = h
    /\ \A n \in 1..Len(clients) : clients[n] = "open" =>
           \E h \in HandlesOf("connection") : objects[h].cnxn = n

\* Each reader is one stream's at most, and has a reference if it is.
ReadersOK ==
    /\ readers \in Seq(0..1)
    /\ \A h \in HandlesOf("stream") : objects[h].rdr \in 1..Len(readers)
    /\ \A g, h \in HandlesOf("stream") : objects[g].rdr = objects[h].rdr => g = h
    /\ \A n \in 1..Len(readers) :
           readers[n] = 1 <=> \E h \in HandlesOf("stream") : objects[h].rdr = n

Refusals == {"INTERNAL", "INVALID_STATE"}

IInv == /\ HandlesOK /\ ClientsOK /\ ReadersOK
        /\ globalPoison = "yes" => code \in Refusals

-----------------------------------------------------------------------------
(* Kinds.                                                                  *)

LEMMA Kinds ==
  ASSUME NEW s \in Structs
  PROVE  /\ s \in Databases => KindOf(s) = "database"
         /\ s \in Connections => KindOf(s) = "connection"
         /\ s \in Statements => KindOf(s) = "statement"
         /\ s \in Streams => KindOf(s) = "stream"
         /\ KindOf(s) # "deleted"
  BY StructsApart DEF KindOf, Structs, Parents

LEMMA KindDecides ==
  ASSUME NEW o \in AnyObject
  PROVE  /\ o.kind = "database" => o \in cDatabases
         /\ o.kind = "connection" => o \in cConns
         /\ o.kind = "statement" => o \in cStmts
         /\ o.kind = "stream" => o \in cArrayStreams
         /\ o # Deleted => o.kind # "deleted"
  BY DEF AnyObject, cDatabases, cConns, cStmts, cArrayStreams, Deleted

LEMMA DeletedKind == Deleted.kind = "deleted"
  BY DEF Deleted

-----------------------------------------------------------------------------
(* What becomes of the handles.                                            *)

\* A new object for a struct that has none.
LEMMA AllocateHandles ==
  ASSUME HandlesOK, NEW s \in Structs, NEW o \in AnyObject,
         o.kind = KindOf(s), private_data[s] = Nil, Allocate(s, o),
         UNCHANGED imported
  PROVE  /\ HandlesOK'
         /\ Len(objects') = Len(objects) + 1
         /\ objects'[Len(objects) + 1] = o
         /\ \A h \in 1..Len(objects) : objects'[h] = objects[h]
         /\ \A kind : kind # o.kind => HandlesOf(kind)' = HandlesOf(kind)
         /\ HandlesOf(o.kind)' = HandlesOf(o.kind) \cup {Len(objects) + 1}
<1> DEFINE N == Len(objects) + 1
<1>1. N \in Nat /\ Len(objects) \in Nat
  BY DEF HandlesOK
<1>2. /\ objects' \in Seq(AnyObject) /\ Len(objects') = N /\ objects'[N] = o
      /\ \A h \in 1..Len(objects) : objects'[h] = objects[h]
  BY DEF Allocate, HandlesOK
<1>3. /\ private_data' \in [Structs -> 0..N]
      /\ \A t \in Structs : private_data'[t] = IF t = s THEN N ELSE private_data[t]
  BY <1>1 DEF Allocate, HandlesOK
<1>4. \A t \in Structs : private_data[t] \in 0..Len(objects)
  BY DEF HandlesOK
<1>5. \A kind : kind # o.kind => HandlesOf(kind)' = HandlesOf(kind)
  BY <1>1, <1>2 DEF HandlesOf
<1>6. HandlesOf(o.kind)' = HandlesOf(o.kind) \cup {N}
  BY <1>1, <1>2 DEF HandlesOf
<1>7. (imported \subseteq HandlesOf("stream"))'
  BY <1>5, <1>6 DEF HandlesOK
<1>8. (\A t \in Structs : private_data[t] # Nil => Object(t).kind = KindOf(t))'
  BY <1>1, <1>2, <1>3, <1>4 DEF HandlesOK, Object, KindOf, Nil
<1>9. (\A t, u \in Structs :
          private_data[t] = private_data[u] /\ private_data[t] # Nil => t = u)'
  BY <1>1, <1>3, <1>4 DEF HandlesOK
<1>10. (\A t \in Structs : private_data[t] \notin imported)'
  BY <1>1, <1>3 DEF HandlesOK, HandlesOf
<1>11. (\A h \in 1..Len(objects) : objects[h] # Deleted =>
           h \in imported \/ \E t \in Structs : private_data[t] = h)'
  <2> SUFFICES ASSUME NEW h \in 1..N, objects'[h] # Deleted
               PROVE  h \in imported \/ \E t \in Structs : private_data'[t] = h
    BY <1>2
  <2>1. CASE h = N
    BY <1>3, <2>1
  <2>2. CASE h # N
    <3>1. h \in 1..Len(objects) /\ objects[h] # Deleted
      BY <1>1, <1>2, <2>2
    <3>2. CASE h \in imported
      BY <3>2
    <3>3. CASE \E t \in Structs : private_data[t] = h
      <4>1. PICK t \in Structs : private_data[t] = h
        BY <3>3
      <4>2. t # s
        BY <4>1, <3>1 DEF Nil
      <4> QED
        BY <1>3, <4>1, <4>2
    <3> QED
      BY <3>1, <3>2, <3>3 DEF HandlesOK
  <2> QED
    BY <2>1, <2>2
<1>12. HandlesOK'
  BY <1>2, <1>3, <1>7, <1>8, <1>9, <1>10, <1>11 DEF HandlesOK
<1> QED
  BY <1>2, <1>5, <1>6, <1>12

\* A struct's object changes and keeps its kind.
LEMMA UpdateHandles ==
  ASSUME HandlesOK, NEW s \in Structs, private_data[s] # Nil, NEW o \in AnyObject,
         o.kind = KindOf(s), Update(s, o), UNCHANGED <<private_data, imported>>
  PROVE  /\ HandlesOK'
         /\ Len(objects') = Len(objects)
         /\ private_data[s] \in HandlesOf(KindOf(s))
         /\ objects'[private_data[s]] = o
         /\ \A h \in 1..Len(objects) : h # private_data[s] => objects'[h] = objects[h]
         /\ \A kind : HandlesOf(kind)' = HandlesOf(kind)
<1> DEFINE p == private_data[s]
<1>1. p \in 1..Len(objects) /\ objects[p].kind = KindOf(s)
  BY DEF HandlesOK, Object, Nil
<1>2. /\ objects' \in Seq(AnyObject) /\ Len(objects') = Len(objects) /\ objects'[p] = o
      /\ \A h \in 1..Len(objects) : h # p => objects'[h] = objects[h]
  BY <1>1 DEF Update, HandlesOK
<1>3. \A h \in 1..Len(objects) : objects'[h].kind = objects[h].kind
  BY <1>1, <1>2
<1>4. \A kind : HandlesOf(kind)' = HandlesOf(kind)
  BY <1>2, <1>3 DEF HandlesOf
<1>5. (\A t \in Structs : private_data[t] # Nil => Object(t).kind = KindOf(t))'
  BY <1>3 DEF HandlesOK, Object, KindOf, Nil
<1>6. (\A h \in 1..Len(objects) : objects[h] # Deleted =>
           h \in imported \/ \E t \in Structs : private_data[t] = h)'
  BY <1>2 DEF HandlesOK
<1>7. HandlesOK'
  BY <1>2, <1>4, <1>5, <1>6 DEF HandlesOK
<1>8. p \in HandlesOf(KindOf(s))
  BY <1>1 DEF HandlesOf
<1> QED
  BY <1>2, <1>4, <1>7, <1>8

\* A struct's handle is deleted.
LEMMA FreeHandles ==
  ASSUME HandlesOK, NEW s \in Structs, private_data[s] # Nil, Free(s),
         UNCHANGED imported
  PROVE  /\ HandlesOK'
         /\ private_data[s] \in HandlesOf(KindOf(s))
         /\ \A h \in 1..Len(objects) : h # private_data[s] => objects'[h] = objects[h]
         /\ HandlesOf(KindOf(s))' = HandlesOf(KindOf(s)) \ {private_data[s]}
         /\ \A kind : kind # "deleted" /\ kind # KindOf(s) =>
                HandlesOf(kind)' = HandlesOf(kind)
<1> DEFINE p == private_data[s]
<1>1. p \in 1..Len(objects) /\ objects[p].kind = KindOf(s)
  BY DEF HandlesOK, Object, Nil
<1>2. /\ objects' \in Seq(AnyObject) /\ Len(objects') = Len(objects)
      /\ objects'[p] = Deleted
      /\ \A h \in 1..Len(objects) : h # p => objects'[h] = objects[h]
  BY <1>1 DEF Free, Update, HandlesOK, AnyObject
<1>3. /\ private_data' \in [Structs -> 0..Len(objects)]
      /\ \A t \in Structs : private_data'[t] = IF t = s THEN Nil ELSE private_data[t]
  BY DEF Free, HandlesOK, Nil
<1>4. HandlesOf(KindOf(s))' = HandlesOf(KindOf(s)) \ {p}
  BY <1>1, <1>2, Kinds, DeletedKind DEF HandlesOf
<1>5. \A kind : kind # "deleted" /\ kind # KindOf(s) => HandlesOf(kind)' = HandlesOf(kind)
  BY <1>1, <1>2, DeletedKind DEF HandlesOf
<1>6. p \notin imported
  BY DEF HandlesOK
<1>7. (imported \subseteq HandlesOf("stream"))'
  BY <1>4, <1>5, <1>6 DEF HandlesOK
<1>8. (\A t \in Structs : private_data[t] # Nil => Object(t).kind = KindOf(t))'
  <2> SUFFICES ASSUME NEW t \in Structs, private_data'[t] # Nil
               PROVE  objects'[private_data'[t]].kind = KindOf(t)
    BY DEF Object, KindOf
  <2>1. t # s /\ private_data'[t] = private_data[t]
    BY <1>3
  <2>2. private_data[t] # p /\ private_data[t] \in 1..Len(objects)
    BY <2>1 DEF HandlesOK, Nil
  <2> QED
    BY <1>2, <2>1, <2>2 DEF HandlesOK, Object
<1>9. (\A t, u \in Structs :
          private_data[t] = private_data[u] /\ private_data[t] # Nil => t = u)'
  BY <1>3 DEF HandlesOK
<1>10. (\A t \in Structs : private_data[t] \notin imported)'
  BY <1>3 DEF HandlesOK, HandlesOf, Nil
<1>11. (\A h \in 1..Len(objects) : objects[h] # Deleted =>
           h \in imported \/ \E t \in Structs : private_data[t] = h)'
  <2> SUFFICES ASSUME NEW h \in 1..Len(objects), objects'[h] # Deleted
               PROVE  h \in imported \/ \E t \in Structs : private_data'[t] = h
    BY <1>2
  <2>1. h # p /\ objects[h] # Deleted
    BY <1>2
  <2>2. CASE h \in imported
    BY <2>2
  <2>3. CASE \E t \in Structs : private_data[t] = h
    BY <1>3, <2>1, <2>3
  <2> QED
    BY <2>1, <2>2, <2>3 DEF HandlesOK
<1>12. HandlesOK'
  BY <1>2, <1>3, <1>7, <1>8, <1>9, <1>10, <1>11 DEF HandlesOK
<1>13. p \in HandlesOf(KindOf(s))
  BY <1>1 DEF HandlesOf
<1> QED
  BY <1>2, <1>4, <1>5, <1>12, <1>13

-----------------------------------------------------------------------------
(* What becomes of clients and readers.                                    *)

\* Nothing, while the connections stay as they are.
LEMMA SameClients ==
  ASSUME ClientsOK, UNCHANGED clients,
         HandlesOf("connection")' = HandlesOf("connection"),
         \A h \in HandlesOf("connection") : objects'[h].cnxn = objects[h].cnxn
  PROVE  ClientsOK'
  BY DEF ClientsOK

LEMMA SameReaders ==
  ASSUME ReadersOK, UNCHANGED readers,
         HandlesOf("stream")' = HandlesOf("stream"),
         \A h \in HandlesOf("stream") : objects'[h].rdr = objects[h].rdr
  PROVE  ReadersOK'
  BY DEF ReadersOK

\* A stream that goes takes its reader's reference along.
LEMMA FreeReader ==
  ASSUME ReadersOK, NEW p \in HandlesOf("stream"),
         HandlesOf("stream")' = HandlesOf("stream") \ {p},
         \A h \in HandlesOf("stream") \ {p} : objects'[h] = objects[h],
         readers' = [readers EXCEPT ![objects[p].rdr] = @ - 1]
  PROVE  ReadersOK'
<1> DEFINE n == objects[p].rdr
<1>1. n \in 1..Len(readers) /\ readers[n] = 1
  BY DEF ReadersOK
<1>2. /\ readers' \in Seq(0..1) /\ Len(readers') = Len(readers) /\ readers'[n] = 0
      /\ \A m \in 1..Len(readers) : m # n => readers'[m] = readers[m]
  BY <1>1 DEF ReadersOK
<1>3. \A h \in HandlesOf("stream") : objects[h].rdr = n => h = p
  BY DEF ReadersOK
<1>4. (\A m \in 1..Len(readers) :
          readers[m] = 1 <=> \E h \in HandlesOf("stream") : objects[h].rdr = m)'
  <2> SUFFICES ASSUME NEW m \in 1..Len(readers)
               PROVE  readers'[m] = 1 <=>
                          \E h \in HandlesOf("stream") \ {p} : objects[h].rdr = m
    BY <1>2
  <2>1. CASE m = n
    BY <1>2, <1>3, <2>1
  <2>2. CASE m # n
    BY <1>2, <2>2 DEF ReadersOK
  <2> QED
    BY <2>1, <2>2
<1> QED
  BY <1>2, <1>4 DEF ReadersOK

-----------------------------------------------------------------------------
(* The actions.                                                            *)

Held5 == <<private_data, objects, clients, readers, imported>>
Poisoned == globalPoison = "yes" => code \in Refusals

LEMMA InitIInv == Init => IInv
<1> SUFFICES ASSUME Init PROVE IInv
  OBVIOUS
<1>1. Len(objects) = 0 /\ Len(clients) = 0 /\ Len(readers) = 0
  BY DEF Init
<1>2. \A kind : HandlesOf(kind) = {}
  BY <1>1 DEF HandlesOf
<1>3. HandlesOK
  BY <1>1, <1>2 DEF Init, HandlesOK, Nil
<1>4. ClientsOK /\ ReadersOK
  BY <1>1, <1>2 DEF Init, ClientsOK, ReadersOK
<1> QED
  BY <1>3, <1>4 DEF Init, IInv

LEMMA QuietKeeps ==
  ASSUME IInv, UNCHANGED Held5, Poisoned'
  PROVE  IInv'
<1>1. UNCHANGED <<private_data, objects, clients, readers, imported>>
  BY DEF Held5
<1>2. HandlesOK'
  BY <1>1 DEF IInv, HandlesOK, HandlesOf, Object, KindOf
<1>3. ClientsOK' /\ ReadersOK'
  BY <1>1 DEF IInv, ClientsOK, ReadersOK, HandlesOf
<1> QED
  BY <1>2, <1>3 DEF IInv, Poisoned

LEMMA RefuseKeeps ==
  ASSUME IInv, NEW c, Refuse(c), globalPoison = "no" \/ c \in Refusals
  PROVE  IInv'
<1>1. UNCHANGED Held5 /\ Poisoned'
  BY DEF Refuse, state, Held5, Poisoned
<1> QED
  BY <1>1, QuietKeeps

LEMMA PanicKeeps == ASSUME IInv, PanicAtSlot PROVE IInv'
<1>1. UNCHANGED Held5 /\ Poisoned'
  BY DEF PanicAtSlot, Poison, Held5, Poisoned, Refusals
<1> QED
  BY <1>1, QuietKeeps

\* The functions that only answer, on any handle.
Answers(d, k, s) ==
    \/ DatabaseGetOption(d) \/ DatabaseSetOptionTyped(d)
    \/ ConnectionCancel(k) \/ ConnectionGetOption(k) \/ ConnectionSetOptionTyped(k)
    \/ GetStatistics(k) \/ GetTableSchema(k) \/ ReadPartition(k) \/ Commit(k)
    \/ StatementCancel(s) \/ StatementGetOption(s) \/ StatementSetOption(s)
    \/ Prepare(s) \/ SetSqlQuery(s) \/ SetSubstraitPlan(s) \/ Bind(s)
    \/ ExecuteSchema(s) \/ GetParameterSchema(s) \/ ExecutePartitions(s)
    \/ AnswerInSlot(IsAlloc(s), {"NOT_IMPLEMENTED", "UNKNOWN"})

LEMMA AnswersRefuse ==
  ASSUME NEW d, NEW k, NEW s, Answers(d, k, s)
  PROVE  \/ PanicAtSlot /\ globalPoison = "no"
         \/ Refuse("INVALID_STATE")
         \/ globalPoison = "no" /\ \E c \in Codes : Refuse(c)
<1>1. ASSUME NEW x, NEW cs \in SUBSET Codes,
             \/ AnswerInSlot(IsAlloc(x), cs) \/ AnswerInSlot(IsInitConn(x), cs)
             \/ Answer(IsAlloc(x), cs) \/ Answer(IsInitConn(x), cs) \/ Answer(IsInitDB(x), cs)
      PROVE  \/ PanicAtSlot /\ globalPoison = "no"
             \/ Refuse("INVALID_STATE")
             \/ globalPoison = "no" /\ \E c \in Codes : Refuse(c)
  BY <1>1 DEF AnswerInSlot, Answer, IsAlloc, IsInitConn, IsInitDB
<1>2. {{"OK"}, {"NOT_IMPLEMENTED"}, {"OK", "IO"}, {"OK", "INVALID_STATE"},
       {"OK", "NOT_IMPLEMENTED", "UNKNOWN"}, {"NOT_IMPLEMENTED", "UNKNOWN"}}
         \subseteq SUBSET Codes
  BY DEF Codes
<1> QED
  BY <1>1, <1>2
     DEF Answers, DatabaseGetOption, DatabaseSetOptionTyped, ConnectionCancel,
         ConnectionGetOption, ConnectionSetOptionTyped, GetStatistics, GetTableSchema,
         ReadPartition, Commit, StatementCancel, StatementGetOption, StatementSetOption,
         Prepare, SetSqlQuery, SetSubstraitPlan, Bind, ExecuteSchema, GetParameterSchema,
         ExecutePartitions

LEMMA AnswersKeep ==
  ASSUME IInv, NEW d, NEW k, NEW s, Answers(d, k, s)
  PROVE  IInv'
<1>1. CASE PanicAtSlot
  BY <1>1, PanicKeeps
<1>2. CASE Refuse("INVALID_STATE")
  BY <1>2, RefuseKeeps DEF Refusals
<1>3. ASSUME globalPoison = "no", NEW c \in Codes, Refuse(c) PROVE IInv'
  BY <1>3, RefuseKeeps
<1> QED
  BY <1>1, <1>2, <1>3, AnswersRefuse

LEMMA RefuseNewKeeps == ASSUME IInv, NEW s, RefuseNew(s) PROVE IInv'
  BY RefuseKeeps DEF RefuseNew, Refusals

\* New, of what has neither a client nor a reader yet.
LEMMA NewKeeps ==
  ASSUME IInv, NEW s \in Parents, NEW o \in AnyObject, MayBeNew(s), Allocate(s, o),
         o.kind = KindOf(s), o.kind = "connection" => o.cnxn = Nil,
         UNCHANGED <<clients, readers, imported, globalPoison>>
  PROVE  IInv'
<1> DEFINE N == Len(objects) + 1
<1>1. s \in Structs /\ o.kind # "stream" /\ private_data[s] = Nil
  BY StructsApart DEF Structs, Parents, KindOf, MayBeNew
<1>2. /\ HandlesOK' /\ objects'[N] = o
      /\ \A h \in 1..Len(objects) : objects'[h] = objects[h]
      /\ \A kind : kind # o.kind => HandlesOf(kind)' = HandlesOf(kind)
      /\ HandlesOf(o.kind)' = HandlesOf(o.kind) \cup {N}
  BY <1>1, AllocateHandles DEF IInv
<1>3. \A kind : HandlesOf(kind) \subseteq 1..Len(objects)
  BY DEF HandlesOf
<1>4. ReadersOK'
  <2>1. HandlesOf("stream")' = HandlesOf("stream")
    BY <1>1, <1>2
  <2>2. \A h \in HandlesOf("stream") : objects'[h].rdr = objects[h].rdr
    BY <1>2, <1>3
  <2> QED
    BY <2>1, <2>2, SameReaders DEF IInv
<1>5. ClientsOK'
  <2>1. CASE o.kind # "connection"
    <3>1. HandlesOf("connection")' = HandlesOf("connection")
      BY <1>2, <2>1
    <3>2. \A h \in HandlesOf("connection") : objects'[h].cnxn = objects[h].cnxn
      BY <1>2, <1>3
    <3> QED
      BY <3>1, <3>2, SameClients DEF IInv
  <2>2. CASE o.kind = "connection"
    <3>1. HandlesOf("connection")' = HandlesOf("connection") \cup {N}
      BY <1>2, <2>2
    <3>2. \A h \in HandlesOf("connection") : objects'[h].cnxn = objects[h].cnxn
      BY <1>2, <1>3
    <3>3. objects'[N].cnxn = 0 /\ Len(clients) \in Nat
      BY <1>2, <2>2 DEF Nil, IInv, ClientsOK
    <3> QED
      BY <3>1, <3>2, <3>3 DEF IInv, ClientsOK, Nil
  <2> QED
    BY <2>1, <2>2
<1> QED
  BY <1>2, <1>4, <1>5 DEF IInv, MayBeNew

\* A change of a struct's object that concerns neither.
LEMMA UpdateKeeps ==
  ASSUME IInv, NEW s \in Parents, IsAlloc(s), NEW o \in AnyObject, Update(s, o),
         o.kind = KindOf(s), o.kind = "connection" => o.cnxn = Object(s).cnxn,
         UNCHANGED <<private_data, clients, readers, imported, globalPoison>>
  PROVE  IInv'
<1> DEFINE p == private_data[s]
<1>1. s \in Structs /\ o.kind # "stream" /\ p # Nil
  BY StructsApart DEF Structs, Parents, KindOf, IsAlloc
<1>2. /\ HandlesOK' /\ p \in HandlesOf(o.kind) /\ objects'[p] = o
      /\ \A h \in 1..Len(objects) : h # p => objects'[h] = objects[h]
      /\ \A kind : HandlesOf(kind)' = HandlesOf(kind)
  BY <1>1, UpdateHandles DEF IInv
<1>3. ReadersOK'
  <2>1. \A h \in HandlesOf("stream") : objects'[h].rdr = objects[h].rdr
    BY <1>1, <1>2 DEF HandlesOf
  <2> QED
    BY <1>2, <2>1, SameReaders DEF IInv
<1>4. ClientsOK'
  <2>1. \A h \in HandlesOf("connection") : objects'[h].cnxn = objects[h].cnxn
    BY <1>2 DEF HandlesOf, Object
  <2> QED
    BY <1>2, <2>1, SameClients DEF IInv
<1> QED
  BY <1>2, <1>3, <1>4 DEF IInv, IsAlloc

\* Release of what has neither.
LEMMA FreeKeeps ==
  ASSUME IInv, NEW s \in Databases \cup Statements, IsAlloc(s), Free(s),
         UNCHANGED <<clients, readers, imported, globalPoison>>
  PROVE  IInv'
<1> DEFINE p == private_data[s]
<1>1. s \in Structs /\ KindOf(s) \in {"database", "statement"} /\ p # Nil
  BY StructsApart DEF Structs, Parents, KindOf, IsAlloc
<1>2. /\ HandlesOK' /\ p \in HandlesOf(KindOf(s))
      /\ \A h \in 1..Len(objects) : h # p => objects'[h] = objects[h]
      /\ \A kind : kind # "deleted" /\ kind # KindOf(s) =>
             HandlesOf(kind)' = HandlesOf(kind)
  BY <1>1, FreeHandles DEF IInv
<1>3. \A h \in HandlesOf("stream") \cup HandlesOf("connection") : objects'[h] = objects[h]
  BY <1>1, <1>2 DEF HandlesOf
<1>4. ReadersOK'
  BY <1>1, <1>2, <1>3, SameReaders DEF IInv
<1>5. ClientsOK'
  BY <1>1, <1>2, <1>3, SameClients DEF IInv
<1> QED
  BY <1>2, <1>4, <1>5 DEF IInv, IsAlloc

LEMMA DatabasesKeep ==
  ASSUME IInv, NEW d \in Databases,
         \/ DatabaseNew(d) \/ DatabaseSetOption(d) \/ DatabaseInit(d) \/ DatabaseRelease(d)
  PROVE  IInv'
<1>1. d \in Parents /\ d \in Structs /\ KindOf(d) = "database"
  BY DEF Structs, Parents, KindOf
<1>2. CASE DatabaseNew(d)
  <2> DEFINE o == [kind |-> "database", opts |-> "bad", db |-> "no"]
  <2>1. o \in AnyObject /\ o.kind = "database"
    BY DEF AnyObject, cDatabases
  <2>2. CASE RefuseNew(d)
    BY <2>2, RefuseNewKeeps
  <2>3. CASE MayBeNew(d) /\ Allocate(d, o) /\ UNCHANGED <<clients, readers, imported, globalPoison>>
    BY <1>1, <2>1, <2>3, NewKeeps
  <2> QED
    BY <1>2, <2>2, <2>3 DEF DatabaseNew
<1>3. ASSUME IsAlloc(d) PROVE Object(d) \in cDatabases
  <2>1. private_data[d] \in 1..Len(objects) /\ Object(d).kind = "database"
    BY <1>1, <1>3 DEF IInv, HandlesOK, IsAlloc, Nil
  <2> QED
    BY <2>1, KindDecides DEF IInv, HandlesOK, Object
<1>4. CASE DatabaseSetOption(d)
  <2>1. CASE Refuse("INVALID_STATE")
    BY <2>1, RefuseKeeps DEF Refusals
  <2>2. CASE IsInitDB(d) /\ Refuse("NOT_IMPLEMENTED")
    BY <2>2, RefuseKeeps DEF IsInitDB, IsAlloc
  <2>3. ASSUME IsAlloc(d), NEW v \in {"bad", "good"},
               Update(d, [Object(d) EXCEPT !.opts = v]),
               UNCHANGED <<private_data, clients, readers, imported, globalPoison>>
        PROVE  IInv'
    <3> DEFINE o == [Object(d) EXCEPT !.opts = v]
    <3>1. o \in AnyObject /\ o.kind = "database"
      BY <1>3, <2>3 DEF AnyObject, cDatabases
    <3> QED
      BY <1>1, <2>3, <3>1, UpdateKeeps
  <2> QED
    BY <1>4, <2>1, <2>2, <2>3 DEF DatabaseSetOption
<1>5. CASE DatabaseInit(d)
  <2>1. CASE Refuse("INVALID_STATE")
    BY <2>1, RefuseKeeps DEF Refusals
  <2>2. CASE IsAlloc(d) /\ Refuse("INVALID_ARGUMENT")
    BY <2>2, RefuseKeeps DEF IsAlloc
  <2>3. ASSUME IsAlloc(d), Update(d, [Object(d) EXCEPT !.db = "yes"]),
               UNCHANGED <<private_data, clients, readers, imported, globalPoison>>
        PROVE  IInv'
    <3> DEFINE o == [Object(d) EXCEPT !.db = "yes"]
    <3>1. o \in AnyObject /\ o.kind = "database"
      BY <1>3, <2>3 DEF AnyObject, cDatabases
    <3> QED
      BY <1>1, <2>3, <3>1, UpdateKeeps
  <2> QED
    BY <1>5, <2>1, <2>2, <2>3 DEF DatabaseInit
<1>6. CASE DatabaseRelease(d)
  BY <1>1, <1>6, RefuseKeeps, FreeKeeps DEF DatabaseRelease, Refusals
<1> QED
  BY <1>2, <1>4, <1>5, <1>6

LEMMA ConnectionObject ==
  ASSUME IInv, NEW k \in Connections, IsAlloc(k)
  PROVE  /\ k \in Parents /\ k \in Structs /\ KindOf(k) = "connection"
         /\ private_data[k] \in HandlesOf("connection") /\ Object(k) \in cConns
<1>1. k \in Parents /\ k \in Structs /\ KindOf(k) = "connection"
  BY StructsApart DEF Structs, Parents, KindOf
<1>2. private_data[k] \in 1..Len(objects) /\ Object(k).kind = "connection"
  BY <1>1 DEF IInv, HandlesOK, IsAlloc, Nil
<1>3. Object(k) \in cConns
  BY <1>2, KindDecides DEF IInv, HandlesOK, Object
<1> QED
  BY <1>1, <1>2, <1>3 DEF HandlesOf, Object

LEMMA ConnectionNewKeeps ==
  ASSUME IInv, NEW k \in Connections, ConnectionNew(k) \/ ConnectionSetOption(k)
  PROVE  IInv'
<1>1. k \in Parents /\ KindOf(k) = "connection"
  BY StructsApart DEF Structs, Parents, KindOf
<1>2. CASE ConnectionNew(k)
  <2> DEFINE o == [kind |-> "connection", cnxn |-> Nil, initArgs |-> "no"]
  <2>1. o \in AnyObject /\ o.kind = "connection" /\ o.cnxn = Nil
    BY DEF AnyObject, cConns, Nil
  <2>2. CASE RefuseNew(k)
    BY <2>2, RefuseNewKeeps
  <2>3. CASE MayBeNew(k) /\ Allocate(k, o) /\ UNCHANGED <<clients, readers, imported, globalPoison>>
    <3> HIDE DEF o
    <3> QED
      BY <1>1, <2>1, <2>3, NewKeeps
  <2> QED
    BY <1>2, <2>2, <2>3 DEF ConnectionNew
<1>3. CASE ConnectionSetOption(k)
  <2>1. CASE Refuse("INVALID_STATE")
    BY <2>1, RefuseKeeps DEF Refusals
  <2>2. CASE IsInitConn(k) /\ Refuse("NOT_IMPLEMENTED")
    BY <2>2, RefuseKeeps DEF IsInitConn, IsAlloc
  <2>3. ASSUME IsAlloc(k), Update(k, [Object(k) EXCEPT !.initArgs = "yes"]),
               UNCHANGED <<private_data, clients, readers, imported, globalPoison>>
        PROVE  IInv'
    <3> DEFINE o == [Object(k) EXCEPT !.initArgs = "yes"]
    <3>1. o \in AnyObject /\ o.kind = "connection" /\ o.cnxn = Object(k).cnxn
      BY <2>3, ConnectionObject DEF AnyObject, cConns
    <3> QED
      BY <1>1, <2>3, <3>1, UpdateKeeps
  <2> QED
    BY <1>3, <2>1, <2>2, <2>3 DEF ConnectionSetOption
<1> QED
  BY <1>2, <1>3

\* Open makes a client, and the connection has it whatever comes after.
LEMMA OpenKeeps ==
  ASSUME IInv, NEW k \in Connections, NEW d \in Databases, OpenAndKeep(k, d)
  PROVE  IInv'
<1> DEFINE p == private_data[k]  N == Len(clients) + 1
           o == [Object(k) EXCEPT !.cnxn = N]
<1>1. /\ IsAlloc(k) /\ Object(k).cnxn = Nil /\ clients' = Append(clients, "open")
      /\ UNCHANGED <<private_data, readers, imported, globalPoison>>
  BY DEF OpenAndKeep, IsInitConn
<1>2. /\ k \in Structs /\ KindOf(k) = "connection" /\ p \in HandlesOf("connection")
      /\ Object(k) \in cConns /\ p # Nil
  BY <1>1, ConnectionObject DEF IsAlloc
<1>3. /\ clients' \in Seq({"open", "closed"}) /\ Len(clients') = N
      /\ clients'[N] = "open" /\ N \in Nat /\ Len(clients) \in Nat
      /\ \A n \in 1..Len(clients) : clients'[n] = clients[n]
  BY <1>1 DEF IInv, ClientsOK
<1>4. Update(k, o)
  BY <1>3 DEF OpenAndKeep
<1>5. o \in AnyObject /\ o.kind = "connection" /\ o.cnxn = N
  BY <1>2, <1>3 DEF AnyObject, cConns
<1> HIDE DEF o
<1>6. /\ HandlesOK' /\ objects'[p] = o
      /\ \A h \in 1..Len(objects) : h # p => objects'[h] = objects[h]
      /\ \A kind : HandlesOf(kind)' = HandlesOf(kind)
  BY <1>1, <1>2, <1>4, <1>5, UpdateHandles DEF IInv
<1>7. ReadersOK'
  <2>1. \A h \in HandlesOf("stream") : objects'[h].rdr = objects[h].rdr
    BY <1>2, <1>6 DEF HandlesOf
  <2> QED
    BY <1>1, <1>6, <2>1, SameReaders DEF IInv
<1>8. ClientsOK'
  <2>1. \A h \in HandlesOf("connection") :
           objects'[h].cnxn = IF h = p THEN N ELSE objects[h].cnxn
    BY <1>5, <1>6 DEF HandlesOf
  <2>2. \A h \in HandlesOf("connection") : objects[h].cnxn \in 0..Len(clients)
    BY DEF IInv, ClientsOK
  <2>3. (\A g, h \in HandlesOf("connection") :
            objects[g].cnxn = objects[h].cnxn /\ objects[g].cnxn # Nil => g = h)'
    BY <1>3, <1>6, <2>1, <2>2 DEF IInv, ClientsOK
  <2>4. (\A n \in 1..Len(clients) : clients[n] = "open" =>
            \E h \in HandlesOf("connection") : objects[h].cnxn = n)'
    <3> SUFFICES ASSUME NEW n \in 1..N, clients'[n] = "open"
                 PROVE  \E h \in HandlesOf("connection") : objects'[h].cnxn = n
      BY <1>3, <1>6
    <3>1. CASE n = N
      BY <1>2, <2>1, <3>1
    <3>2. CASE n # N
      <4>1. n \in 1..Len(clients) /\ clients[n] = "open"
        BY <1>3, <3>2
      <4>2. PICK h \in HandlesOf("connection") : objects[h].cnxn = n
        BY <4>1 DEF IInv, ClientsOK
      <4>3. h # p
        BY <1>1, <4>1, <4>2 DEF Object, Nil
      <4> QED
        BY <2>1, <4>2, <4>3
    <3> QED
      BY <3>1, <3>2
  <2>5. (\A h \in HandlesOf("connection") : objects[h].cnxn \in 0..Len(clients))'
    BY <1>3, <1>6, <2>1, <2>2
  <2> QED
    BY <1>3, <2>3, <2>4, <2>5 DEF ClientsOK
<1> QED
  BY <1>1, <1>6, <1>7, <1>8 DEF IInv, IsAlloc

LEMMA ConnectionInitKeeps ==
  ASSUME IInv, NEW k \in Connections, NEW d \in Databases, ConnectionInit(k, d)
  PROVE  IInv'
<1>1. CASE Refuse("INVALID_STATE")
  BY <1>1, RefuseKeeps DEF Refusals
<1>2. CASE IsAlloc(k) /\ Refuse("IO")
  BY <1>2, RefuseKeeps DEF IsAlloc
<1> QED
  BY <1>1, <1>2, OpenKeeps DEF ConnectionInit

LEMMA ConnectionReleaseKeeps ==
  ASSUME IInv, NEW k \in Connections, ConnectionRelease(k)
  PROVE  IInv'
<1> DEFINE p == private_data[k]  n == objects[p].cnxn
<1>1. CASE Refuse("INVALID_STATE")
  BY <1>1, RefuseKeeps DEF Refusals
<1>2. CASE IsAlloc(k) /\ ~Refuse("INVALID_STATE")
  <2>1. /\ clients' = [i \in DOMAIN clients |-> IF i = n THEN "closed" ELSE clients[i]]
        /\ \/ Free(k) /\ UNCHANGED globalPoison
           \/ Poison /\ UNCHANGED <<private_data, objects>>
        /\ UNCHANGED <<readers, imported>>
    BY <1>2 DEF ConnectionRelease, Object
  <2>2. /\ k \in Structs /\ KindOf(k) = "connection" /\ p \in HandlesOf("connection")
        /\ p # Nil
    BY <1>2, ConnectionObject DEF IsAlloc
  <2>3. /\ clients' \in Seq({"open", "closed"}) /\ Len(clients') = Len(clients)
        /\ \A i \in 1..Len(clients) : clients'[i] = IF i = n THEN "closed" ELSE clients[i]
    BY <2>1 DEF IInv, ClientsOK
  <2>4. CASE Free(k) /\ UNCHANGED globalPoison
    <3>1. /\ HandlesOK'
          /\ \A h \in 1..Len(objects) : h # p => objects'[h] = objects[h]
          /\ HandlesOf("connection")' = HandlesOf("connection") \ {p}
          /\ HandlesOf("stream")' = HandlesOf("stream")
      BY <2>1, <2>2, <2>4, FreeHandles DEF IInv
    <3>2. ReadersOK'
      <4>1. \A h \in HandlesOf("stream") : objects'[h].rdr = objects[h].rdr
        BY <2>2, <3>1 DEF HandlesOf
      <4> QED
        BY <2>1, <3>1, <4>1, SameReaders DEF IInv
    <3>3. ClientsOK'
      <4>1. \A h \in HandlesOf("connection") \ {p} : objects'[h].cnxn = objects[h].cnxn
        BY <3>1 DEF HandlesOf
      <4>2. \A i \in 1..Len(clients) : clients'[i] = "open" =>
               \E h \in HandlesOf("connection") \ {p} : objects[h].cnxn = i
        BY <2>3 DEF IInv, ClientsOK
      <4> QED
        BY <2>3, <3>1, <4>1, <4>2 DEF IInv, ClientsOK
    <3> QED
      BY <1>2, <2>4, <3>1, <3>2, <3>3 DEF IInv, IsAlloc
  <2>5. CASE Poison /\ UNCHANGED <<private_data, objects>>
    <3>1. HandlesOK'
      BY <2>1, <2>5 DEF IInv, HandlesOK, HandlesOf, Object, KindOf
    <3>2. HandlesOf("connection")' = HandlesOf("connection")
          /\ HandlesOf("stream")' = HandlesOf("stream")
      BY <2>5 DEF HandlesOf
    <3>3. ReadersOK'
      BY <2>1, <2>5, <3>2, SameReaders DEF IInv
    <3>4. ClientsOK'
      BY <2>3, <2>5, <3>2 DEF IInv, ClientsOK
    <3> QED
      BY <2>5, <3>1, <3>3, <3>4 DEF IInv, Poison, Refusals
  <2> QED
    BY <2>1, <2>4, <2>5
<1> QED
  BY <1>1, <1>2 DEF ConnectionRelease

LEMMA StatementsKeep ==
  ASSUME IInv, NEW s \in Statements,
         StatementRelease(s) \/ \E k \in Connections : StatementNew(s, k)
  PROVE  IInv'
<1>1. s \in Parents /\ KindOf(s) = "statement"
  BY StructsApart DEF Structs, Parents, KindOf
<1>2. CASE StatementRelease(s)
  <2>1. CASE Refuse("INTERNAL") \/ Refuse("INVALID_STATE")
    BY <2>1, RefuseKeeps DEF Refusals
  <2>2. CASE IsAlloc(s) /\ Free(s) /\ UNCHANGED <<clients, readers, imported, globalPoison>>
    BY <2>2, FreeKeeps
  <2>3. CASE Poison /\ UNCHANGED Held5
    BY <2>3, QuietKeeps DEF Poison, Poisoned, Refusals
  <2> QED
    BY <1>2, <2>1, <2>2, <2>3 DEF StatementRelease, Held5
<1>3. ASSUME NEW k \in Connections, StatementNew(s, k) PROVE IInv'
  <2> DEFINE o == [kind |-> "statement", cnxn |-> Object(k).cnxn]
  <2>1. CASE RefuseNew(s)
    BY <2>1, RefuseNewKeeps
  <2>2. CASE Refuse("INVALID_STATE")
    BY <2>2, RefuseKeeps DEF Refusals
  <2>3. CASE /\ MayBeNew(s) /\ IsInitConn(k) /\ Allocate(s, o)
             /\ UNCHANGED <<clients, readers, imported, globalPoison>>
    <3>1. Object(k) \in cConns
      BY <2>3, ConnectionObject DEF IsInitConn
    <3>2. o \in AnyObject /\ o.kind = "statement"
      BY <3>1 DEF AnyObject, cStmts, cConns
    <3> HIDE DEF o
    <3> QED
      BY <1>1, <2>3, <3>2, NewKeeps
  <2> QED
    BY <1>3, <2>1, <2>2, <2>3 DEF StatementNew
<1> QED
  BY <1>2, <1>3

LEMMA StreamStruct ==
  ASSUME NEW t \in Streams
  PROVE  t \in Structs /\ KindOf(t) = "stream"
  BY StructsApart DEF Structs, Parents, KindOf

LEMMA ExportKeeps ==
  ASSUME IInv, NEW t \in Streams, private_data[t] = Nil, globalPoison = "no",
         ExportReader(t)
  PROVE  IInv'
<1> DEFINE M == Len(readers) + 1
           N == Len(objects) + 1
           o == [kind |-> "stream", rdr |-> M]
<1>1. /\ Allocate(t, o) /\ readers' = Append(readers, 1)
      /\ UNCHANGED <<clients, imported, globalPoison>>
  BY DEF ExportReader
<1>2. /\ readers' \in Seq(0..1) /\ Len(readers') = M /\ M \in Nat /\ readers'[M] = 1
      /\ Len(readers) \in Nat /\ \A n \in 1..Len(readers) : readers'[n] = readers[n]
  BY <1>1 DEF IInv, ReadersOK
<1>3. o \in AnyObject /\ o.kind = "stream" /\ o.rdr = M
  BY <1>2 DEF AnyObject, cArrayStreams
<1> HIDE DEF o
<1>4. /\ HandlesOK' /\ objects'[N] = o
      /\ \A h \in 1..Len(objects) : objects'[h] = objects[h]
      /\ HandlesOf("connection")' = HandlesOf("connection")
      /\ HandlesOf("stream")' = HandlesOf("stream") \cup {N}
  BY <1>1, <1>3, StreamStruct, AllocateHandles DEF IInv
<1>5. /\ \A h \in HandlesOf("connection") : objects'[h].cnxn = objects[h].cnxn
      /\ \A h \in HandlesOf("stream") : objects'[h].rdr = objects[h].rdr
  BY <1>4 DEF HandlesOf
<1>6. ClientsOK'
  BY <1>1, <1>4, <1>5, SameClients DEF IInv
<1>7. ReadersOK'
  <2>1. objects'[N].rdr = M
    BY <1>3, <1>4
  <2>2. \A h \in HandlesOf("stream") : objects'[h].rdr \in 1..Len(readers)
    BY <1>5 DEF IInv, ReadersOK
  <2>3. (\A h \in HandlesOf("stream") : objects[h].rdr \in 1..Len(readers))'
    BY <1>2, <1>4, <2>1, <2>2
  <2>4. (\A g, h \in HandlesOf("stream") : objects[g].rdr = objects[h].rdr => g = h)'
    BY <1>2, <1>4, <1>5, <2>1, <2>2 DEF IInv, ReadersOK
  <2>5. (\A n \in 1..Len(readers) :
            readers[n] = 1 <=> \E h \in HandlesOf("stream") : objects[h].rdr = n)'
    <3> SUFFICES ASSUME NEW n \in 1..M
                 PROVE  readers'[n] = 1 <=>
                            \E h \in HandlesOf("stream") \cup {N} : objects'[h].rdr = n
      BY <1>2, <1>4
    <3>1. CASE n = M
      BY <1>2, <2>1, <3>1
    <3>2. CASE n # M
      <4>1. n \in 1..Len(readers) /\ readers'[n] = readers[n]
        BY <1>2, <3>2
      <4> QED
        BY <1>5, <2>1, <3>2, <4>1 DEF IInv, ReadersOK
    <3> QED
      BY <3>1, <3>2
  <2> QED
    BY <1>2, <2>3, <2>4, <2>5 DEF ReadersOK
<1> QED
  BY <1>1, <1>4, <1>6, <1>7 DEF IInv

LEMMA QueriesKeep ==
  ASSUME IInv, NEW s, NEW t \in Streams, ExecuteQuery(s, t) \/ ConnectionQuery(s, t)
  PROVE  IInv'
<1>1. \/ PanicAtSlot
      \/ Refuse("INVALID_STATE")
      \/ globalPoison = "no" /\ \E c \in Codes : Refuse(c)
      \/ globalPoison = "no" /\ private_data[t] = Nil /\ ExportReader(t)
  BY DEF ExecuteQuery, ConnectionQuery, IsAlloc, IsInitConn, Codes
<1>2. CASE Refuse("INVALID_STATE")
  BY <1>2, RefuseKeeps DEF Refusals
<1>3. ASSUME globalPoison = "no", NEW c \in Codes, Refuse(c) PROVE IInv'
  BY <1>3, RefuseKeeps
<1> QED
  BY <1>1, <1>2, <1>3, PanicKeeps, ExportKeeps

LEMMA StreamReleaseKeeps ==
  ASSUME IInv, NEW t \in Streams, ArrayStreamRelease(t)
  PROVE  IInv'
<1> DEFINE p == private_data[t]
<1>1. CASE UNCHANGED vars
  BY <1>1, QuietKeeps DEF vars, state, Held5, IInv, Poisoned
<1>2. CASE p # Nil /\ ~UNCHANGED vars
  <2>1. /\ readers' = [readers EXCEPT ![objects[p].rdr] = @ - 1] /\ Free(t)
        /\ UNCHANGED <<clients, imported, globalPoison, code>>
    BY <1>2 DEF ArrayStreamRelease, Object
  <2>2. /\ HandlesOK' /\ p \in HandlesOf("stream")
        /\ \A h \in 1..Len(objects) : h # p => objects'[h] = objects[h]
        /\ HandlesOf("stream")' = HandlesOf("stream") \ {p}
        /\ HandlesOf("connection")' = HandlesOf("connection")
    BY <1>2, <2>1, StreamStruct, FreeHandles DEF IInv
  <2>3. /\ \A h \in HandlesOf("connection") : objects'[h] = objects[h]
        /\ \A h \in HandlesOf("stream") \ {p} : objects'[h] = objects[h]
    BY <2>2 DEF HandlesOf
  <2>4. ReadersOK'
    BY <2>1, <2>2, <2>3, FreeReader DEF IInv
  <2>5. ClientsOK'
    BY <2>1, <2>2, <2>3, SameClients DEF IInv
  <2> QED
    BY <2>1, <2>2, <2>4, <2>5 DEF IInv
<1> QED
  BY <1>1, <1>2 DEF ArrayStreamRelease

\* The handle of a bound stream passes from the struct to the importer.
LEMMA ImportKeeps ==
  ASSUME IInv, NEW s, NEW t \in Streams, Import(s, t)
  PROVE  IInv'
<1> DEFINE p == private_data[t]
<1>1. /\ IsAlloc(s) /\ p # Nil /\ imported' = imported \cup {p}
      /\ private_data' = [private_data EXCEPT ![t] = Nil]
      /\ UNCHANGED <<objects, clients, readers>>
      /\ globalPoison' = globalPoison \/ code' = "INTERNAL"
  BY DEF Import, Poison
<1>2. p \in 1..Len(objects) /\ p \in HandlesOf("stream")
  BY <1>1, StreamStruct DEF IInv, HandlesOK, HandlesOf, Object, Nil
<1>3. /\ private_data' \in [Structs -> 0..Len(objects)]
      /\ \A u \in Structs : private_data'[u] = IF u = t THEN Nil ELSE private_data[u]
  <2>1. private_data \in [Structs -> 0..Len(objects)] /\ 0 \in 0..Len(objects)
    BY DEF IInv, HandlesOK
  <2> QED
    BY <1>1, <2>1 DEF Nil
<1>4. \A kind : HandlesOf(kind)' = HandlesOf(kind)
  BY <1>1 DEF HandlesOf
<1>5. HandlesOK'
  <2>1. (\A u \in Structs : private_data[u] # Nil => Object(u).kind = KindOf(u))'
    BY <1>1, <1>3 DEF IInv, HandlesOK, Object, KindOf
  <2>2. (\A u, v \in Structs :
            private_data[u] = private_data[v] /\ private_data[u] # Nil => u = v)'
    BY <1>3 DEF IInv, HandlesOK
  <2>3. (\A u \in Structs : private_data[u] \notin imported)'
    <3> SUFFICES ASSUME NEW u \in Structs PROVE private_data'[u] \notin imported \cup {p}
      BY <1>1
    <3>1. CASE u = t
      BY <1>1, <1>3, <3>1 DEF IInv, HandlesOK, HandlesOf, Nil
    <3>2. CASE u # t
      BY <1>1, <1>3, <3>2, StreamStruct DEF IInv, HandlesOK
    <3> QED
      BY <3>1, <3>2
  <2>4. (\A h \in 1..Len(objects) : objects[h] # Deleted =>
            h \in imported \/ \E u \in Structs : private_data[u] = h)'
    <3> SUFFICES ASSUME NEW h \in 1..Len(objects), objects[h] # Deleted, h # p, h \notin imported
                 PROVE  \E u \in Structs : private_data'[u] = h
      BY <1>1
    <3>1. PICK u \in Structs : private_data[u] = h
      BY DEF IInv, HandlesOK
    <3>2. u # t
      BY <3>1
    <3> QED
      BY <1>3, <3>1, <3>2
  <2>5. (imported \subseteq HandlesOf("stream"))'
    BY <1>1, <1>2, <1>4 DEF IInv, HandlesOK
  <2> QED
    BY <1>1, <1>3, <2>1, <2>2, <2>3, <2>4, <2>5 DEF IInv, HandlesOK
<1>6. ClientsOK' /\ ReadersOK'
  BY <1>1, <1>4 DEF IInv, ClientsOK, ReadersOK
<1> QED
  BY <1>1, <1>5, <1>6 DEF IInv, IsAlloc, Refusals

LEMMA FinalizeKeeps ==
  ASSUME IInv, NEW p \in imported, Finalize(p)
  PROVE  IInv'
<1>1. /\ readers' = [readers EXCEPT ![objects[p].rdr] = @ - 1]
      /\ objects' = [objects EXCEPT ![p] = Deleted] /\ imported' = imported \ {p}
      /\ UNCHANGED <<private_data, clients, globalPoison, code>>
  BY DEF Finalize
<1>2. p \in 1..Len(objects) /\ objects[p].kind = "stream" /\ p \in HandlesOf("stream")
  BY DEF IInv, HandlesOK, HandlesOf
<1>3. /\ objects' \in Seq(AnyObject) /\ Len(objects') = Len(objects)
      /\ objects'[p] = Deleted
      /\ \A h \in 1..Len(objects) : h # p => objects'[h] = objects[h]
  BY <1>1, <1>2 DEF IInv, HandlesOK, AnyObject
<1>4. /\ HandlesOf("stream")' = HandlesOf("stream") \ {p}
      /\ HandlesOf("connection")' = HandlesOf("connection")
  BY <1>2, <1>3, DeletedKind DEF HandlesOf
<1>5. /\ \A h \in HandlesOf("connection") : objects'[h] = objects[h]
      /\ \A h \in HandlesOf("stream") \ {p} : objects'[h] = objects[h]
  BY <1>2, <1>3 DEF HandlesOf
<1>6. HandlesOK'
  <2>1. \A s \in Structs : private_data[s] # p
    BY DEF IInv, HandlesOK
  <2>2. (\A s \in Structs : private_data[s] # Nil => Object(s).kind = KindOf(s))'
    <3> SUFFICES ASSUME NEW s \in Structs, private_data[s] # Nil
                 PROVE  objects'[private_data[s]].kind = KindOf(s)
      BY <1>1 DEF Object, KindOf
    <3>1. private_data[s] \in 1..Len(objects) /\ private_data[s] # p
      BY <2>1 DEF IInv, HandlesOK, Nil
    <3> QED
      BY <1>3, <3>1 DEF IInv, HandlesOK, Object
  <2>3. (\A h \in 1..Len(objects) : objects[h] # Deleted =>
            h \in imported \/ \E s \in Structs : private_data[s] = h)'
    BY <1>1, <1>3 DEF IInv, HandlesOK
  <2>4. (imported \subseteq HandlesOf("stream"))'
    BY <1>1, <1>4 DEF IInv, HandlesOK
  <2> QED
    BY <1>1, <1>3, <2>2, <2>3, <2>4 DEF IInv, HandlesOK
<1>7. ReadersOK'
  BY <1>1, <1>2, <1>4, <1>5, FreeReader DEF IInv
<1>8. ClientsOK'
  BY <1>1, <1>4, <1>5, SameClients DEF IInv
<1> QED
  BY <1>1, <1>6, <1>7, <1>8 DEF IInv

LEMMA NextIInv == ASSUME IInv, [Next]_vars PROVE IInv'
<1>1. ASSUME NEW d \in Databases,
             \/ DatabaseNew(d) \/ DatabaseSetOption(d) \/ DatabaseInit(d)
             \/ DatabaseRelease(d) \/ DatabaseGetOption(d) \/ DatabaseSetOptionTyped(d)
      PROVE  IInv'
  BY <1>1, DatabasesKeep, AnswersKeep DEF Answers
<1>2. ASSUME NEW k \in Connections,
             \/ ConnectionNew(k) \/ ConnectionSetOption(k) \/ ConnectionRelease(k)
             \/ \E d \in Databases : ConnectionInit(k, d)
             \/ \E t \in Streams : ConnectionQuery(k, t)
      PROVE  IInv'
  BY <1>2, ConnectionNewKeeps, ConnectionReleaseKeeps, ConnectionInitKeeps, QueriesKeep
<1>3. ASSUME NEW k \in Connections,
             \/ ConnectionCancel(k) \/ ConnectionGetOption(k)
             \/ ConnectionSetOptionTyped(k) \/ GetStatistics(k) \/ GetTableSchema(k)
             \/ ReadPartition(k) \/ Commit(k)
      PROVE  IInv'
  BY <1>3, AnswersKeep DEF Answers
<1>4. ASSUME NEW s \in Statements,
             \/ StatementRelease(s) \/ \E k \in Connections : StatementNew(s, k)
             \/ \E t \in Streams : ExecuteQuery(s, t) \/ BindStream(s, t)
      PROVE  IInv'
  BY <1>4, StatementsKeep, QueriesKeep, AnswersKeep, ImportKeeps DEF Answers, BindStream
<1>5. ASSUME NEW s \in Statements,
             \/ StatementCancel(s) \/ StatementGetOption(s) \/ StatementSetOption(s)
             \/ Prepare(s) \/ SetSqlQuery(s) \/ SetSubstraitPlan(s) \/ Bind(s)
             \/ ExecuteSchema(s) \/ GetParameterSchema(s) \/ ExecutePartitions(s)
      PROVE  IInv'
  BY <1>5, AnswersKeep DEF Answers
<1>6. CASE UNCHANGED vars
  BY <1>6, QuietKeeps DEF vars, state, Held5, IInv, Poisoned
<1> QED
  BY <1>1, <1>2, <1>3, <1>4, <1>5, <1>6, StreamReleaseKeeps, FinalizeKeeps DEF Next

LEMMA InvHolds == Spec => []IInv
<1>1. Init => IInv
  BY InitIInv
<1>2. IInv /\ [Next]_vars => IInv'
  BY NextIInv
<1> QED
  BY <1>1, <1>2, PTL DEF Spec

-----------------------------------------------------------------------------
(* The theorems.                                                           *)

LEMMA HeldHandles ==
  ASSUME IInv
  PROVE  /\ Held(Connections) = HandlesOf("connection")
         /\ Held(Streams) \cup imported = HandlesOf("stream")
<1>1. ASSUME NEW h \in 1..Len(objects), objects[h].kind \in {"connection", "stream"},
             h \notin imported
      PROVE  \E s \in Structs : private_data[s] = h /\ KindOf(s) = objects[h].kind
  <2>1. objects[h] # Deleted
    BY <1>1, DeletedKind
  <2>2. PICK s \in Structs : private_data[s] = h
    BY <1>1, <2>1 DEF IInv, HandlesOK
  <2> QED
    BY <2>2 DEF IInv, HandlesOK, Object, Nil
<1>2. \A s \in Structs : private_data[s] # Nil =>
         private_data[s] \in 1..Len(objects) /\ objects[private_data[s]].kind = KindOf(s)
  BY DEF IInv, HandlesOK, Object, Nil
<1>3. /\ \A s \in Structs : KindOf(s) = "connection" <=> s \in Connections
      /\ \A s \in Structs : KindOf(s) = "stream" <=> s \in Streams
      /\ Connections \subseteq Structs /\ Streams \subseteq Structs
  BY StructsApart DEF KindOf, Structs, Parents
<1>4. Held(Connections) = HandlesOf("connection")
  <2>1. Held(Connections) \subseteq HandlesOf("connection")
    BY <1>2, <1>3 DEF Held, HandlesOf
  <2>2. ASSUME NEW h \in HandlesOf("connection") PROVE h \in Held(Connections)
    <3>1. h \in 1..Len(objects) /\ h # Nil /\ h \notin imported
      BY DEF HandlesOf, Nil, IInv, HandlesOK
    <3> QED
      BY <1>1, <1>3, <3>1 DEF Held, HandlesOf
  <2> QED
    BY <2>1, <2>2
<1>5. Held(Streams) \cup imported = HandlesOf("stream")
  <2>1. Held(Streams) \cup imported \subseteq HandlesOf("stream")
    BY <1>2, <1>3 DEF Held, HandlesOf, IInv, HandlesOK
  <2>2. ASSUME NEW h \in HandlesOf("stream"), h \notin imported PROVE h \in Held(Streams)
    <3>1. h \in 1..Len(objects) /\ h # Nil
      BY DEF HandlesOf, Nil
    <3> QED
      BY <1>1, <1>3, <2>2, <3>1 DEF Held, HandlesOf
  <2> QED
    BY <2>1, <2>2
<1> QED
  BY <1>4, <1>5

\* Whatever the order of New, Init and Release, panics included: a struct's
\* handle is alive, its own and of its type, and one that is alive can still
\* be released.
THEOREM HandlesAreOwned == Spec => []HandlesOwned
<1> SUFFICES ASSUME IInv PROVE HandlesOwned
  BY InvHolds, PTL
<1>1. \A s \in Structs : private_data[s] # Nil => Object(s).kind = KindOf(s)
  BY DEF IInv, HandlesOK
<1>2. \A h \in imported : objects[h].kind = "stream"
  BY DEF IInv, HandlesOK, HandlesOf
<1>3. ASSUME NEW h \in DOMAIN objects, objects[h] # Deleted
      PROVE  Cardinality(Owners(h)) = 1
  <2>1. h \in 1..Len(objects) /\ h # Nil
    BY DEF IInv, HandlesOK, Nil
  <2>2. CASE h \in imported
    <3>1. Owners(h) = {"importer"}
      BY <2>2 DEF Owners, IInv, HandlesOK
    <3> QED
      BY <3>1, FS_Singleton
  <2>3. CASE h \notin imported
    <3>1. PICK s \in Structs : private_data[s] = h
      BY <1>3, <2>1, <2>3 DEF IInv, HandlesOK
    <3>2. Owners(h) = {s}
      BY <2>1, <2>3, <3>1 DEF Owners, IInv, HandlesOK
    <3> QED
      BY <3>2, FS_Singleton
  <2> QED
    BY <2>2, <2>3
<1> QED
  BY <1>1, <1>2, <1>3 DEF HandlesOwned

\* An open client has the one connection that will close it, and a reader's
\* reference is its stream's.
THEOREM NothingIsOrphaned == Spec => []NothingOrphaned
<1> SUFFICES ASSUME IInv PROVE NothingOrphaned
  BY InvHolds, PTL
<1>1. ASSUME NEW n \in DOMAIN clients, clients[n] = "open"
      PROVE  Cardinality({h \in Held(Connections) : objects[h].cnxn = n}) = 1
  <2>1. n \in 1..Len(clients)
    BY DEF IInv, ClientsOK
  <2>2. PICK h \in HandlesOf("connection") : objects[h].cnxn = n
    BY <1>1, <2>1 DEF IInv, ClientsOK
  <2>3. {g \in Held(Connections) : objects[g].cnxn = n} = {h}
    BY <2>1, <2>2, HeldHandles DEF IInv, ClientsOK, Nil
  <2> QED
    BY <2>3, FS_Singleton
<1>2. ASSUME NEW n \in DOMAIN readers
      PROVE  readers[n] = Cardinality({h \in Held(Streams) \cup imported : objects[h].rdr = n})
  <2> DEFINE S == {h \in Held(Streams) \cup imported : objects[h].rdr = n}
  <2>1. n \in 1..Len(readers) /\ readers[n] \in 0..1
    BY DEF IInv, ReadersOK
  <2>2. CASE readers[n] = 1
    <3>1. PICK h \in HandlesOf("stream") : objects[h].rdr = n
      BY <2>1, <2>2 DEF IInv, ReadersOK
    <3>2. S = {h}
      BY <3>1, HeldHandles DEF IInv, ReadersOK
    <3> QED
      BY <2>2, <3>2, FS_Singleton
  <2>3. CASE readers[n] = 0
    <3>1. S = {}
      BY <2>1, <2>3, HeldHandles DEF IInv, ReadersOK
    <3> QED
      BY <2>3, <3>1, FS_EmptySet
  <2> QED
    BY <2>1, <2>2, <2>3
<1> QED
  BY <1>1, <1>2 DEF NothingOrphaned

\* After a panic no call on a handle succeeds, and none changes what the
\* databases, connections and statements hold.
THEOREM PoisonIsFinal == Spec => PoisonFreezes
<1> DEFINE Frozen ==
             /\ \A s \in Parents : private_data'[s] = private_data[s]
             /\ clients' = clients /\ globalPoison' = "yes"
             /\ Len(objects') = Len(objects)
             /\ code' \in {"INTERNAL", "INVALID_STATE"}
<1>1. ASSUME IInv, [Next]_vars, globalPoison = "yes" PROVE Frozen
  <2>1. code \in Refusals
    BY <1>1 DEF IInv
  <2>2. ASSUME NEW c \in Refusals, Refuse(c) PROVE Frozen
    BY <1>1, <2>2 DEF Refuse, state, Refusals
  <2>3. ASSUME NEW d \in Databases,
               \/ DatabaseNew(d) \/ DatabaseSetOption(d) \/ DatabaseInit(d) \/ DatabaseRelease(d)
        PROVE  \E c \in Refusals : Refuse(c)
    BY <1>1, <2>3 DEF DatabaseNew, DatabaseSetOption, DatabaseInit, DatabaseRelease,
                      RefuseNew, MayBeNew, IsInitDB, IsAlloc, Refusals
  <2>4. ASSUME NEW k \in Connections,
               \/ ConnectionNew(k) \/ ConnectionSetOption(k) \/ ConnectionRelease(k)
               \/ \E d \in Databases : ConnectionInit(k, d)
               \/ \E t \in Streams : ConnectionQuery(k, t)
        PROVE  \E c \in Refusals : Refuse(c)
    BY <1>1, <2>4 DEF ConnectionNew, ConnectionSetOption, ConnectionRelease, ConnectionInit,
                      OpenAndKeep, ConnectionQuery, RefuseNew, MayBeNew, IsInitConn, IsAlloc,
                      Refusals
  <2>5. ASSUME NEW s \in Statements,
               \/ StatementRelease(s) \/ \E k \in Connections : StatementNew(s, k)
               \/ \E t \in Streams : ExecuteQuery(s, t) \/ Import(s, t)
        PROVE  \E c \in Refusals : Refuse(c)
    BY <1>1, <2>5 DEF StatementRelease, StatementNew, ExecuteQuery, Import, RefuseNew,
                      MayBeNew, IsAlloc, Refusals
  <2>6. ASSUME NEW d, NEW k, NEW s, Answers(d, k, s) PROVE \E c \in Refusals : Refuse(c)
    BY <1>1, <2>6, AnswersRefuse DEF Refusals
  <2>7. ASSUME NEW t \in Streams, ArrayStreamRelease(t) PROVE Frozen
    <3>1. \A s \in Parents : s # t /\ s \in Structs
      BY StructsApart DEF Structs
    <3> QED
      BY <1>1, <2>1, <2>7, <3>1
         DEF ArrayStreamRelease, Free, Update, vars, state, IInv, HandlesOK, Refusals
  <2>8. ASSUME NEW h \in imported, Finalize(h) PROVE Frozen
    BY <1>1, <2>1, <2>8 DEF Finalize, IInv, HandlesOK, Refusals
  <2>9. CASE UNCHANGED vars
    BY <1>1, <2>1, <2>9 DEF vars, state, Refusals
  <2>10. ASSUME NEW k \in Connections,
               \/ ConnectionCancel(k) \/ ConnectionGetOption(k)
               \/ ConnectionSetOptionTyped(k) \/ GetStatistics(k) \/ GetTableSchema(k)
               \/ ReadPartition(k) \/ Commit(k)
        PROVE  \E c \in Refusals : Refuse(c)
    BY <2>6, <2>10 DEF Answers
  <2>11. ASSUME NEW s \in Statements,
               \/ StatementCancel(s) \/ StatementGetOption(s) \/ StatementSetOption(s)
               \/ Prepare(s) \/ SetSqlQuery(s) \/ SetSubstraitPlan(s) \/ Bind(s)
               \/ ExecuteSchema(s) \/ GetParameterSchema(s) \/ ExecutePartitions(s)
               \/ \E t \in Streams : BindStream(s, t)
        PROVE  \E c \in Refusals : Refuse(c)
    BY <2>5, <2>6, <2>11 DEF Answers, BindStream
  <2>12. ASSUME NEW d \in Databases, DatabaseGetOption(d) \/ DatabaseSetOptionTyped(d)
         PROVE  \E c \in Refusals : Refuse(c)
    BY <2>6, <2>12 DEF Answers
  <2> HIDE DEF Frozen
  <2> QED
    BY <1>1, <2>2, <2>3, <2>4, <2>5, <2>7, <2>8, <2>9, <2>10, <2>11, <2>12 DEF Next
<1> QED
  BY <1>1, InvHolds, PTL DEF Spec, PoisonFreezes

=============================================================================
