---------------------------- MODULE ResultReader ----------------------------
(***************************************************************************)
(* The lazily decoded result of one ExecutePlan call: Client.executePlan   *)
(* (internal/sparkconnect/client.go) and the resultReader it returns       *)
(* (internal/sparkconnect/result_reader.go).                               *)
(*                                                                         *)
(* Four parties take steps.  The Spark server puts messages on the         *)
(* response stream and ends it; the caller's context may be cancelled or   *)
(* time out; another goroutine may close the gRPC channel; and the         *)
(* consumer calls Next, Retain and Release and may keep the records it     *)
(* gets.  A call of Next or of newResultReader that reaches stream.Recv    *)
(* waits there (pc = "next", "prime") while the others go on; everything   *)
(* it does between two calls of Recv is one step.                          *)
(*                                                                         *)
(* A record is the number of its place in the result, 1, 2, ..., and 0 is  *)
(* Go's nil.                                                               *)
(***************************************************************************)
EXTENDS Integers, Sequences, GrpcStatus

CONSTANTS
    MaxRecords,    \* bound: records the server produces for the result
    MaxMsgs,       \* bound: messages the server puts on the stream
    MaxBatch,      \* bound: records of one ArrowBatch
    MaxRefs,       \* bound: references the consumer takes on the reader
    ServerCodes    \* the codes a server or a broken transport ends a stream with

ASSUME BoundsAssumption ==
    /\ MaxRecords \in Nat /\ MaxMsgs \in Nat
    /\ MaxBatch \in Nat /\ MaxRefs \in Nat \ {0}
ASSUME CodesAssumption == ServerCodes \subseteq GrpcCodes \ {"OK"}

VARIABLES
    \* The server and the transport.
    wire,       \* messages sent and not yet received, in order
    srv,        \* "idle", "running", "eof", a code of ServerCodes, "stopped"
    produced,   \* number of records put on the stream so far
    sent,       \* number of messages put on the stream so far
    ctx,        \* caller's context: "live", "Canceled", "DeadlineExceeded"
    conn,       \* the gRPC channel: "open", "closed"
    streamCtx,  \* the derived context: "none", "live", "cancelled"
    serverSessionID,   \* the client's note of the server: "unset", "server"
    \* The resultReader.
    pc,         \* "start", "prime", "idle", "next", "gone"
    refCount, schema, buf, bufPos, cur, err,
    done,       \* "no", "yes"
    refs,       \* reference count of each record
    \* The consumer.
    held,       \* its own references on records
    told,       \* what the last call said: "none", "record", "end", "error"
    delivered,  \* the last record it was given
    received    \* the last record of the batches decoded without fault

srvVars    == <<srv, produced, sent>>
envVars    == <<ctx, conn>>
readerVars == <<refCount, schema, buf, bufPos, cur, err, done>>
seenVars   == <<told, delivered, received>>
vars == <<wire, srvVars, envVars, streamCtx, serverSessionID, pc, readerVars,
          refs, held, seenVars>>

RecordIds == 1..MaxRecords
Nil       == 0

\* Spark gives every batch of a result the schema of its plan; "empty" is the
\* schema without columns that newResultReader makes up.
Schemas == {"nil", "plan", "empty"}

\* "other" has no ArrowBatch (ResultComplete, metrics, ...), "empty" an
\* ArrowBatch without data; a "batch" has an Arrow IPC stream of n records
\* from `first` on.  A fault is where its reading fails: the message is larger
\* than maxRecvMsgSize, or ipc.NewReader, or the (n+1)-st rdr.Next.
Messages ==
    [kind : {"other", "empty", "batch"}, first : Nat, n : 0..MaxBatch,
     fault : {"none", "oversize", "header", "body"}]

RecordsOf(m) == [i \in 1..m.n |-> m.first + i - 1]

Elements(s) == {s[i] : i \in DOMAIN s}

\* The records of buf that Next has not yielded yet.
Unread == {buf[i] : i \in bufPos + 1 .. Len(buf)}

\* One reference less on each record of a set.
UnrefNothing(f, S) == f    \* mutant: the release is forgotten
Unref(f, S) == [r \in RecordIds |-> IF r \in S THEN f[r] - 1 ELSE f[r]]
Ref(f, S)   == [r \in RecordIds |-> IF r \in S THEN f[r] + 1 ELSE f[r]]

Receiving == pc \in {"prime", "next"}

Init ==
    /\ wire = <<>> /\ srv = "idle" /\ produced = 0 /\ sent = 0
    /\ ctx = "live" /\ conn = "open" /\ streamCtx = "none"
    /\ serverSessionID = "unset" /\ pc = "start"
    /\ refCount = 0 /\ schema = "nil" /\ buf = <<>> /\ bufPos = 0
    /\ cur = Nil /\ err = "none" /\ done = "no"
    /\ refs = [r \in RecordIds |-> 0] /\ held = [r \in RecordIds |-> 0]
    /\ told = "none" /\ delivered = 0 /\ received = 0

-----------------------------------------------------------------------------
(* The server and the transport, as gRPC shows them to the client.         *)

Send(m) ==
    /\ srv = "running" /\ sent < MaxMsgs
    /\ wire' = Append(wire, m)
    /\ sent' = sent + 1
    /\ produced' = produced + m.n
    /\ UNCHANGED <<srv, envVars, streamCtx, serverSessionID, pc, readerVars,
                   refs, held, seenVars>>

SendOther == \E k \in {"other", "empty"} :
    Send([kind |-> k, first |-> produced + 1, n |-> 0, fault |-> "none"])

\* A batch of no records is legal: it still carries the schema.
SendBatch == \E n \in 0..MaxBatch, f \in {"none", "oversize", "header", "body"} :
    /\ produced + n <= MaxRecords
    /\ Send([kind |-> "batch", first |-> produced + 1, n |-> n, fault |-> f])

\* The operation ends; what is on the wire can still be received.
EndStream ==
    /\ srv = "running"
    /\ srv' \in {"eof"} \cup ServerCodes
    /\ UNCHANGED <<wire, produced, sent, envVars, streamCtx, serverSessionID,
                   pc, readerVars, refs, held, seenVars>>

\* The server learns that the client has cancelled the stream and stops.
StopCancelled ==
    /\ srv = "running"
    /\ streamCtx = "cancelled" \/ ctx # "live" \/ conn = "closed"
    /\ srv' = "stopped"
    /\ UNCHANGED <<wire, produced, sent, envVars, streamCtx, serverSessionID,
                   pc, readerVars, refs, held, seenVars>>

\* The caller's context is cancelled or reaches its deadline.
EndContext ==
    /\ ctx = "live"
    /\ ctx' \in {"Canceled", "DeadlineExceeded"}
    /\ UNCHANGED <<wire, srvVars, conn, streamCtx, serverSessionID, pc,
                   readerVars, refs, held, seenVars>>

\* Client.Close runs on another goroutine and closes the channel.
CloseConn ==
    /\ conn = "open"
    /\ conn' = "closed"
    /\ UNCHANGED <<wire, srvVars, ctx, streamCtx, serverSessionID, pc,
                   readerVars, refs, held, seenVars>>

\* The codes Recv may fail with now.  Messages that arrived before a
\* cancellation may or may not be received after it.
RecvErrors ==
    (IF wire = <<>> /\ srv \in ServerCodes THEN {srv} ELSE {})
    \cup (IF wire # <<>> /\ Head(wire).fault = "oversize"
          THEN {"ResourceExhausted"} ELSE {})
    \cup (IF ctx # "live" THEN {ctx} ELSE {})
    \cup (IF conn = "closed" THEN {"Canceled", "Unavailable"} ELSE {})

-----------------------------------------------------------------------------
(* Client.executePlan, up to the first Recv of newResultReader.            *)

\* svc.ExecutePlan fails: the derived context is cancelled at once.
ExecutePlanFails ==
    /\ pc = "start"
    /\ \E code \in ServerCodes \cup (IF ctx # "live" THEN {ctx} ELSE {})
                   \cup (IF conn = "closed" THEN {"Canceled"} ELSE {}) :
          err' = grpcToADBC(code)
    /\ streamCtx' = "cancelled"
    /\ told' = "error"
    /\ pc' = "gone"
    /\ UNCHANGED <<wire, srvVars, envVars, serverSessionID, refCount, schema,
                   buf, bufPos, cur, done, refs, held, delivered, received>>

ExecutePlan ==
    /\ pc = "start" /\ ctx = "live" /\ conn = "open"
    /\ srv' = "running"
    /\ streamCtx' = "live"
    /\ refCount' = 1
    /\ pc' = "prime"
    /\ UNCHANGED <<wire, produced, sent, envVars, serverSessionID, schema, buf,
                   bufPos, cur, err, done, refs, held, seenVars>>

-----------------------------------------------------------------------------
(* fill, one Recv at a time, and what newResultReader or Next does when it *)
(* returns.                                                                *)

\* What a message that was received leaves behind whatever it holds.
Take ==
    /\ Receiving /\ wire # <<>>
    /\ wire' = Tail(wire)
    /\ serverSessionID' = "server"
    /\ UNCHANGED <<srvVars, envVars, held>>

CapturedSchema == IF schema = "nil" THEN "plan" ELSE schema

\* Mutants: the error is reported once but not kept; fill tries again.
FailForgets(e) ==
    /\ done' = "yes" /\ told' = "error" /\ pc' = "idle"
    /\ UNCHANGED <<refCount, streamCtx, err, buf, bufPos, cur, refs, delivered,
                   received>>
FailRetries(e) ==
    UNCHANGED <<done, told, pc, refCount, streamCtx, err, buf, bufPos, cur,
                refs, delivered, received>>

\* fill returns with err set.  newResultReader then releases the reader and
\* returns the error; Next returns false.
FailWith(e) ==
    /\ err' = e
    /\ done' = "yes"
    /\ told' = "error"
    /\ IF pc = "prime"
       THEN pc' = "gone" /\ refCount' = 0 /\ streamCtx' = "cancelled"
       ELSE pc' = "idle" /\ UNCHANGED <<refCount, streamCtx>>
    /\ UNCHANGED <<buf, bufPos, cur, refs, delivered, received>>

\* Mutant: fill returns instead of going on.
RecvNothingReturns ==
    /\ Take /\ Head(wire).fault = "none" /\ Head(wire).n = 0
    /\ schema' = IF Head(wire).kind = "batch" THEN CapturedSchema ELSE schema
    /\ pc' = "idle"
    /\ UNCHANGED <<streamCtx, refCount, buf, bufPos, cur, err, done, refs,
                   seenVars>>

\* A message without records: fill goes on to the next Recv.
RecvNothing ==
    /\ Take
    /\ Head(wire).fault = "none" /\ Head(wire).n = 0
    /\ schema' = IF Head(wire).kind = "batch" THEN CapturedSchema ELSE schema
    /\ UNCHANGED <<streamCtx, pc, refCount, buf, bufPos, cur, err, done, refs,
                   seenVars>>

\* decodeIPC gives at least one record.  newResultReader leaves the batch in
\* buf; Next yields its first record.
RecvBatch ==
    /\ Take
    /\ Head(wire).kind = "batch"
    /\ Head(wire).fault = "none" /\ Head(wire).n > 0
    /\ LET recs == RecordsOf(Head(wire)) IN
        /\ buf' = recs
        /\ schema' = CapturedSchema
        /\ refs' = Ref(refs, Elements(recs))
        /\ received' = Head(wire).first + Head(wire).n - 1
        /\ IF pc = "prime"
           THEN bufPos' = 0 /\ UNCHANGED <<cur, delivered, told>>
           ELSE bufPos' = 1 /\ cur' = recs[1] /\ delivered' = recs[1]
                /\ told' = "record"
    /\ pc' = "idle"
    /\ UNCHANGED <<streamCtx, refCount, err, done>>

\* decodeIPC fails, at once or after records that it releases again; the
\* schema is captured before the records are read.
RecvUndecodable ==
    /\ Take
    /\ Head(wire).fault \in {"header", "body"}
    /\ schema' = IF Head(wire).fault = "body" THEN CapturedSchema ELSE schema
    /\ FailWith("Unknown")

\* Recv returns an error other than io.EOF.
RecvError ==
    /\ Receiving
    /\ \E code \in RecvErrors : FailWith(grpcToADBC(code))
    /\ UNCHANGED <<wire, srvVars, envVars, serverSessionID, schema, held>>

\* Recv returns io.EOF.  newResultReader makes up a schema when no batch gave
\* one; Next finds nothing in buf and the stream done.
RecvEOF ==
    /\ Receiving /\ wire = <<>> /\ srv = "eof"
    /\ done' = "yes"
    /\ schema' = IF pc = "prime" /\ schema = "nil" THEN "empty" ELSE schema
    /\ told' = IF pc = "prime" THEN told ELSE "end"
    /\ pc' = "idle"
    /\ UNCHANGED <<wire, srvVars, envVars, streamCtx, serverSessionID, refCount,
                   buf, bufPos, cur, err, refs, held, delivered, received>>

Fill == RecvNothing \/ RecvBatch \/ RecvUndecodable \/ RecvError \/ RecvEOF

-----------------------------------------------------------------------------
(* The consumer's calls.                                                   *)

\* Every call of Next first gives up the current record.
CallNext ==
    /\ pc = "idle"
    /\ refs' = Unref(refs, {cur})
    /\ UNCHANGED <<wire, srvVars, envVars, streamCtx, serverSessionID, refCount,
                   schema, err, done, held, received>>

\* Mutant: bufPos is advanced twice.
NextSkips ==
    /\ CallNext
    /\ err = "none" /\ bufPos < Len(buf)
    /\ cur' = buf[bufPos + 1] /\ bufPos' = bufPos + 2
    /\ told' = "record" /\ delivered' = cur'
    /\ UNCHANGED <<pc, buf>>

\* The batch in buf has another record.
NextBuffered ==
    /\ CallNext
    /\ err = "none" /\ bufPos < Len(buf)
    /\ cur' = buf[bufPos + 1]
    /\ bufPos' = bufPos + 1
    /\ told' = "record"
    /\ delivered' = cur'
    /\ UNCHANGED <<pc, buf>>

\* It has none: the next batch is needed.
NextFill ==
    /\ CallNext
    /\ err = "none" /\ bufPos >= Len(buf) /\ done = "no"
    /\ cur' = Nil
    /\ buf' = <<>> /\ bufPos' = 0
    /\ pc' = "next"
    /\ UNCHANGED <<told, delivered>>

\* There is nothing to come: false, and Err says why.
NextNoMore ==
    /\ CallNext
    /\ \/ err # "none" /\ told' = "error"
       \/ err = "none" /\ bufPos >= Len(buf) /\ done = "yes" /\ told' = "end"
    /\ cur' = Nil
    /\ UNCHANGED <<pc, buf, bufPos, delivered>>

ReaderNext == NextBuffered \/ NextFill \/ NextNoMore

Retain ==
    /\ pc = "idle" /\ refCount < MaxRefs
    /\ refCount' = refCount + 1
    /\ UNCHANGED <<wire, srvVars, envVars, streamCtx, serverSessionID, pc,
                   schema, buf, bufPos, cur, err, done, refs, held, seenVars>>

ReleaseSome ==
    /\ pc = "idle" /\ refCount > 1
    /\ refCount' = refCount - 1
    /\ UNCHANGED <<wire, srvVars, envVars, streamCtx, serverSessionID, pc,
                   schema, buf, bufPos, cur, err, done, refs, held, seenVars>>

\* Mutant: the records go but the stream is left alone.
ReleaseWithoutCancel ==
    /\ pc = "idle" /\ refCount = 1
    /\ refCount' = 0 /\ refs' = Unref(refs, {cur} \cup Unread)
    /\ cur' = Nil /\ buf' = <<>> /\ pc' = "gone"
    /\ UNCHANGED <<wire, srvVars, envVars, streamCtx, serverSessionID, schema,
                   bufPos, err, done, held, seenVars>>

\* The last reference: the current and the unread records and the stream go.
ReleaseLast ==
    /\ pc = "idle" /\ refCount = 1
    /\ refCount' = 0
    /\ refs' = Unref(refs, {cur} \cup Unread)
    /\ cur' = Nil
    /\ buf' = <<>>
    /\ streamCtx' = "cancelled"
    /\ pc' = "gone"
    /\ UNCHANGED <<wire, srvVars, envVars, serverSessionID, schema, bufPos, err,
                   done, held, seenVars>>

\* The consumer keeps the current record beyond the next call, ...
KeepRecord ==
    /\ pc = "idle" /\ cur # Nil /\ held[cur] = 0
    /\ refs' = Ref(refs, {cur})
    /\ held' = Ref(held, {cur})
    /\ UNCHANGED <<wire, srvVars, envVars, streamCtx, serverSessionID, pc,
                   readerVars, seenVars>>

\* ... and gives it back at any time, the reader's end included.
DropRecord == \E r \in RecordIds :
    /\ held[r] > 0
    /\ refs' = Unref(refs, {r})
    /\ held' = Unref(held, {r})
    /\ UNCHANGED <<wire, srvVars, envVars, streamCtx, serverSessionID, pc,
                   readerVars, seenVars>>

-----------------------------------------------------------------------------

Server   == SendOther \/ SendBatch \/ EndStream \/ StopCancelled
Env      == EndContext \/ CloseConn
Consumer == ExecutePlan \/ ExecutePlanFails \/ ReaderNext \/ Retain
            \/ ReleaseSome \/ ReleaseLast \/ KeepRecord \/ DropRecord

Next == Server \/ Env \/ Fill \/ Consumer

\* A call waiting in Recv returns when it can, and a cancelled operation
\* stops at the server; nobody owes the consumer anything else.
Fairness == WF_vars(Fill) /\ WF_vars(StopCancelled)

Spec == Init /\ [][Next]_vars /\ Fairness

-----------------------------------------------------------------------------
(* Properties.                                                             *)

TypeOK ==
    /\ wire \in Seq(Messages)
    /\ srv \in {"idle", "running", "eof", "stopped"} \cup ServerCodes
    /\ produced \in 0..MaxRecords /\ sent \in 0..MaxMsgs
    /\ ctx \in {"live", "Canceled", "DeadlineExceeded"}
    /\ conn \in {"open", "closed"}
    /\ streamCtx \in {"none", "live", "cancelled"}
    /\ serverSessionID \in {"unset", "server"}
    /\ pc \in {"start", "prime", "idle", "next", "gone"}
    /\ refCount \in 0..MaxRefs
    /\ schema \in Schemas
    /\ buf \in Seq(RecordIds) /\ bufPos \in Nat
    /\ cur \in RecordIds \cup {Nil}
    /\ err \in AdbcStatuses \cup {"none"} /\ done \in {"no", "yes"}
    /\ refs \in [RecordIds -> Int] /\ held \in [RecordIds -> {0, 1}]
    /\ told \in {"none", "record", "end", "error"}
    /\ delivered \in 0..MaxRecords /\ received \in 0..MaxRecords

\* The reader's own reference on a record: the current one and each that waits
\* in buf has exactly one.
Owned(r) == IF r = cur \/ r \in Unread THEN 1 ELSE 0

\* Every record has as many references as the reader and the consumer hold on
\* it, whatever order Next, Release, decoding failures and the consumer's
\* Retain and Release come in: none is released twice, none is freed while it
\* is current, and after the last Release none is left (Release and Next
\* share buf, bufPos and cur between the two of them).
RecordsAccounted == \A r \in RecordIds : refs[r] = Owned(r) + held[r]

\* "Only the records of a single ArrowBatch are held in memory at a time":
\* what the reader owns never exceeds one batch, however large the result.
OneBatchInMemory ==
    \A r, s \in RecordIds :
        refs[r] > held[r] /\ refs[s] > held[s] => r - s < MaxBatch

\* Next says "end of result, no error" only when the server ended the stream
\* itself and the consumer has been given every record of it: a lost
\* connection, a cancellation or a batch that cannot be read is never
\* presented as a shorter result.
CleanEndIsComplete == told = "end" => srv = "eof" /\ delivered = produced

\* Records are yielded in the order of the result, none twice and none left
\* out, across batches, empty batches and messages without a batch.
DeliveryInOrder ==
    [][delivered' # delivered => delivered' = delivered + 1 /\ cur' = delivered']_vars

\* Next reports the end or the error of the stream only after the last record
\* decoded before it: an error does not overtake records already in buf.
NothingDroppedBeforeEnd ==
    pc = "idle" /\ told \in {"end", "error"} => delivered = received

\* Once Next has returned false it never returns true again, and the error of
\* the stream is not replaced by another outcome.
OutcomeIsFinal ==
    [][/\ told = "error" => told' = "error" /\ err' = err
       /\ told = "end" => told' = "end" /\ err' = "none"]_vars

\* A reader that reached its consumer has a schema; it is the plan's when
\* any record follows, the made-up empty one only for a result without any
\* batch, and no later batch changes it under a consumer that has read it.
SchemaKnown ==
    /\ pc \in {"idle", "next"} => schema # "nil"
    /\ schema = "empty" => srv = "eof" /\ produced = 0
SchemaFixed == [][(pc \in {"idle", "next"}) => schema' = schema]_vars

\* "done: no further Recv calls are made after it is true."
NoRecvAfterDone == done = "yes" => ~Receiving

\* The derived context that keeps the server's operation alive is cancelled
\* with the last reference and not before: not by a partial Release, and
\* also when the constructor fails and nobody is given the reader.
StreamOwned == streamCtx = "live" <=> refCount > 0

\* An abandoned result does not keep its operation running on the server.
OperationFreed == (pc = "gone") ~> (srv # "running")

\* A call that waits in Recv returns once the caller's context has ended:
\* cancellation is all that bounds it, there is no timeout of its own.
CancelUnblocks == (Receiving /\ ctx # "live") ~> ~Receiving

\* What a consumer may rely on, whatever the batching: see RecordStream.
Promise == INSTANCE RecordStream WITH
    ended <- (srv = "eof"), outcome <- told

ImplementsRecordStream == Promise!Spec

=============================================================================
