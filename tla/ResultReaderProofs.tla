-------------------------- MODULE ResultReaderProofs --------------------------
(***************************************************************************)
(* Proofs about ResultReader for every number of records, messages,        *)
(* references and every set of server codes.                               *)
(*                                                                         *)
(* The invariant IInv says where every record is.  Numbering the records   *)
(* of the result, they lie in this order: given to the consumer (up to     *)
(* `delivered'), waiting in buf (up to `received'), on the wire (up to     *)
(* `produced').  The rest of it relates pc, done, err and told.            *)
(***************************************************************************)
EXTENDS ResultReader, TLAPS

\* The messages on the wire continue the records received and end with the
\* last one produced.
WireOK ==
    /\ \A i \in 1..Len(wire) :
         /\ wire[i].first >= 1
         /\ wire[i].first + wire[i].n <= produced + 1
         /\ wire[i].first + wire[i].n =
              IF i = Len(wire) THEN produced + 1 ELSE wire[i+1].first
    /\ done = "no" => IF wire = <<>> THEN received = produced
                                ELSE wire[1].first = received + 1
    /\ received <= produced

\* buf holds the last records received, bufPos of them yielded, and the
\* current record is the last one yielded.
BufOK ==
    /\ Len(buf) <= MaxBatch
    /\ \A i \in 1..Len(buf) : buf[i] = (received - Len(buf)) + i
    /\ pc # "idle" => buf = <<>> /\ cur = Nil
    /\ pc \notin {"idle", "gone"} => bufPos = 0
    /\ pc = "idle" => bufPos <= Len(buf)
    /\ pc # "gone" => delivered = (received - Len(buf)) + bufPos
    /\ cur # Nil => cur = delivered /\ bufPos >= 1
    /\ pc \in {"start", "prime"} => received = 0

\* What the control state says of the reader's fields.
ControlOK ==
    /\ pc \in {"start", "gone"} => refCount = 0
    /\ pc \in {"prime", "idle", "next"} => refCount > 0 /\ srv # "idle"
    /\ pc = "start" => srv = "idle"
    /\ streamCtx = "live" <=> refCount > 0
    /\ pc \in {"start", "prime", "next"} => done = "no" /\ told \in {"none", "record"}
    /\ pc \in {"idle", "next"} => schema # "nil"
    /\ schema = "empty" => srv = "eof" /\ produced = 0
    /\ err # "none" <=> told = "error"
    /\ pc = "idle" /\ err # "none" => bufPos = Len(buf) /\ done = "yes"
    /\ done = "yes" /\ err = "none" => srv = "eof" /\ received = produced
    /\ told = "end" => /\ done = "yes" /\ pc \in {"idle", "gone"} /\ cur = Nil
                       /\ delivered = received
                       /\ bufPos >= Len(buf)
    /\ told = "error" => pc \in {"idle", "gone"} /\ cur = Nil

IInv == TypeOK /\ WireOK /\ BufOK /\ ControlOK /\ RecordsAccounted

-----------------------------------------------------------------------------
(* Lemmas about the helpers.                                               *)

\* grpcToADBC gives an ADBC status for every gRPC code.
LEMMA StatusTyped ==
  ASSUME NEW code \in GrpcCodes
  PROVE  grpcToADBC(code) \in AdbcStatuses
BY DEF grpcToADBC, NamedCodes, GrpcCodes, AdbcStatuses

\* "none" (Go's nil error) is not the status of any error.
LEMMA NoneIsNoStatus == "none" \notin AdbcStatuses
BY DEF AdbcStatuses

\* Recv fails with gRPC codes.
LEMMA RecvErrorsAreCodes == TypeOK => RecvErrors \subseteq GrpcCodes
BY CodesAssumption DEF TypeOK, RecvErrors, GrpcCodes

\* A code is never mistaken for another state of the server.
LEMMA CodesAreNoStates ==
  /\ "idle" \notin ServerCodes /\ "running" \notin ServerCodes
  /\ "eof" \notin ServerCodes /\ "stopped" \notin ServerCodes
BY CodesAssumption DEF GrpcCodes

\* What Ref and Unref do to a count.
LEMMA RefTyped ==
  ASSUME NEW f \in [RecordIds -> Int], NEW S
  PROVE  /\ Ref(f, S) \in [RecordIds -> Int]
         /\ \A r \in RecordIds : Ref(f, S)[r] = IF r \in S THEN f[r] + 1 ELSE f[r]
         /\ Unref(f, S) \in [RecordIds -> Int]
         /\ \A r \in RecordIds : Unref(f, S)[r] = IF r \in S THEN f[r] - 1 ELSE f[r]
BY DEF Ref, Unref

\* The unread records are those between `delivered' and `received'.
LEMMA UnreadIsInterval ==
  ASSUME TypeOK, BufOK, pc # "gone"
  PROVE  Unread = delivered + 1 .. received
<1>1. ASSUME NEW r \in Unread PROVE r \in delivered + 1 .. received
  <2>1. PICK i \in bufPos + 1 .. Len(buf) : r = buf[i]
    BY <1>1 DEF Unread
  <2>2. QED
    BY SMTT(30), <2>1 DEF TypeOK, BufOK
<1>2. ASSUME NEW r \in delivered + 1 .. received PROVE r \in Unread
  <2> DEFINE i == r - (received - Len(buf))
  <2>1. i \in bufPos + 1 .. Len(buf) /\ i \in 1..Len(buf)
    BY DEF TypeOK, BufOK
  <2> HIDE DEF i
  <2>2. buf[i] = (received - Len(buf)) + i
    BY <2>1 DEF BufOK
  <2>3. buf[i] = r
    BY <2>2 DEF i, TypeOK
  <2>4. QED
    BY <2>1, <2>3 DEF Unread
<1>3. QED
  BY <1>1, <1>2

\* A reader that is gone has no unread record.
LEMMA UnreadWhenGone == ASSUME TypeOK, BufOK, pc = "gone" PROVE Unread = {}
<1>1. Len(buf) = 0 /\ bufPos \in Nat
  BY DEF TypeOK, BufOK
<1>2. QED
  BY <1>1 DEF Unread

\* The records of a message are consecutive numbers.
LEMMA RecordsOfTyped ==
  ASSUME NEW m \in Messages, m.first >= 1, m.first + m.n <= MaxRecords + 1
  PROVE  /\ RecordsOf(m) \in Seq(RecordIds)
         /\ Len(RecordsOf(m)) = m.n
         /\ \A i \in 1..m.n : RecordsOf(m)[i] = m.first + i - 1
         /\ Elements(RecordsOf(m)) = m.first .. m.first + m.n - 1
<1>1. m.n \in Nat /\ m.first \in Nat
  BY BoundsAssumption DEF Messages
<1>2. RecordsOf(m) \in [1..m.n -> RecordIds]
  BY <1>1, BoundsAssumption DEF RecordsOf, RecordIds
<1>3. RecordsOf(m) \in Seq(RecordIds) /\ Len(RecordsOf(m)) = m.n
  BY <1>1, <1>2
<1>4. \A i \in 1..m.n : RecordsOf(m)[i] = m.first + i - 1
  BY DEF RecordsOf
<1>5. DOMAIN RecordsOf(m) = 1..m.n
  BY DEF RecordsOf
<1>6. Elements(RecordsOf(m)) = m.first .. m.first + m.n - 1
  <2>1. ASSUME NEW r \in m.first .. m.first + m.n - 1
        PROVE  r \in Elements(RecordsOf(m))
    <3>1. r - m.first + 1 \in 1..m.n /\ RecordsOf(m)[r - m.first + 1] = r
      BY <1>1, <1>4
    <3>2. QED
      BY <3>1, <1>5 DEF Elements
  <2>2. ASSUME NEW r \in Elements(RecordsOf(m))
        PROVE  r \in m.first .. m.first + m.n - 1
    <3>1. PICK i \in 1..m.n : r = RecordsOf(m)[i]
      BY <1>5 DEF Elements
    <3>2. QED
      BY <3>1, <1>1, <1>4
  <2>3. QED
    BY <2>1, <2>2
<1>7. QED
  BY <1>3, <1>4, <1>6

-----------------------------------------------------------------------------
(* The invariant: one lemma for each step or group of steps.               *)

\* The invariant holds at the start.
LEMMA InitHolds == Init => IInv
<1> SUFFICES ASSUME Init PROVE IInv
  OBVIOUS
<1>0. bufPos = 0 /\ cur = 0 /\ pc = "start" /\ delivered = 0 /\ received = 0
  BY DEF Init, Nil
<1>1. TypeOK
  BY BoundsAssumption DEF Init, TypeOK, Schemas, AdbcStatuses, RecordIds
<1>2. WireOK
  BY DEF Init, WireOK
<1>3. BufOK
  <2>1. Len(buf) = 0 /\ buf = <<>>
    BY DEF Init
  <2>2. \A i \in 1..Len(buf) : buf[i] = (received - Len(buf)) + i
    BY <2>1
  <2>3. delivered = (received - Len(buf)) + bufPos /\ Len(buf) <= MaxBatch
    <3>1. Len(buf) = 0
      BY <2>1
    <3>2. QED
      BY <1>0, <3>1, BoundsAssumption
  <2>4. QED
    BY <1>0, <2>1, <2>2, <2>3 DEF BufOK, Nil
<1>4. ControlOK
  BY DEF Init, ControlOK
<1>5. RecordsAccounted
  BY DEF Init, RecordsAccounted, Owned, Unread, RecordIds, Nil
<1>6. QED
  BY <1>1, <1>2, <1>3, <1>4, <1>5 DEF IInv

\* A message that continues the stream may be put on the wire.
LEMMA SendStep ==
  ASSUME IInv, NEW m \in Messages, m.first = produced + 1,
         produced + m.n <= MaxRecords, Send(m)
  PROVE  IInv'
<1> USE DEF IInv
<1>1. m.n \in Nat /\ m.first \in Nat
  BY BoundsAssumption DEF Messages
<1>2. /\ wire' = Append(wire, m) /\ produced' = produced + m.n
      /\ sent' = sent + 1 /\ sent < MaxMsgs /\ srv = "running"
      /\ UNCHANGED <<srv, ctx, conn, streamCtx, serverSessionID, pc, refCount,
                     schema, buf, bufPos, cur, err, done, refs, held, told,
                     delivered, received>>
  BY DEF Send, envVars, readerVars, seenVars
<1>3. wire' \in Seq(Messages) /\ Len(wire') = Len(wire) + 1
  BY <1>2 DEF TypeOK
<1>4. TypeOK'
  BY <1>1, <1>2, <1>3, BoundsAssumption DEF TypeOK
<1>5. WireOK'
  <2>1. wire'[Len(wire) + 1] = m
    BY <1>2 DEF TypeOK
  <2>2. \A i \in 1..Len(wire) : wire'[i] = wire[i] /\ wire[i] \in Messages
    BY <1>2 DEF TypeOK
  <2>3. \A i \in 1..Len(wire) : wire[i].n \in Nat /\ wire[i].first \in Nat
    BY <2>2, BoundsAssumption DEF Messages
  <2>4. produced \in Nat /\ Len(wire) \in Nat /\ received \in Nat
    BY DEF TypeOK
  <2>5. ASSUME NEW i \in 1..Len(wire')
        PROVE  /\ wire'[i].first >= 1
               /\ wire'[i].first + wire'[i].n <= produced' + 1
               /\ wire'[i].first + wire'[i].n =
                    IF i = Len(wire') THEN produced' + 1 ELSE wire'[i+1].first
    <3>1. CASE i = Len(wire) + 1
      BY <3>1, <1>1, <1>2, <1>3, <2>1, <2>4
    <3>2. CASE i = Len(wire)
      BY <3>2, <1>1, <1>2, <1>3, <2>1, <2>2, <2>3, <2>4 DEF WireOK
    <3>3. CASE i \in 1..(Len(wire) - 1)
      <4>1. /\ wire'[i] = wire[i] /\ wire'[i+1] = wire[i+1]
            /\ wire[i].first >= 1
            /\ wire[i].first + wire[i].n <= produced + 1
            /\ wire[i].first + wire[i].n = wire[i+1].first
        BY <3>3, <2>2, <2>4 DEF WireOK
      <4>2. wire[i].n \in Nat /\ wire[i].first \in Nat
        BY <3>3, <2>3, <2>4
      <4>3. QED
        BY SMTT(30), <4>1, <4>2, <3>3, <1>1, <1>2, <1>3, <2>4
    <3>4. QED
      BY <3>1, <3>2, <3>3, <2>4, <1>3
  <2>6. wire' # <<>>
    BY <1>3, <2>4
  <2>7. done' = "no" => wire'[1].first = received' + 1
    <3>1. CASE wire = <<>>
      BY <3>1, <1>2, <2>1 DEF WireOK
    <3>2. CASE wire # <<>>
      <4>1. 1 \in 1..Len(wire)
        BY <3>2, <2>4 DEF TypeOK
      <4>2. QED
        BY <3>2, <4>1, <2>2, <1>2 DEF WireOK
    <3>3. QED
      BY <3>1, <3>2
  <2>8. received' <= produced'
    BY <1>1, <1>2, <2>4 DEF WireOK
  <2>9. QED
    BY <2>5, <2>6, <2>7, <2>8 DEF WireOK
<1>6. BufOK'
  BY <1>2 DEF BufOK
<1>7. ControlOK'
  BY <1>2 DEF ControlOK
<1>8. RecordsAccounted'
  BY <1>2 DEF RecordsAccounted, Owned, Unread
<1>9. QED
  BY <1>4, <1>5, <1>6, <1>7, <1>8

\* A message without records is such a message.
LEMMA SendOtherStep == IInv /\ SendOther => IInv'
<1> SUFFICES ASSUME IInv, NEW k \in {"other", "empty"},
                    Send([kind |-> k, first |-> produced + 1, n |-> 0,
                          fault |-> "none"])
             PROVE  IInv'
  BY DEF SendOther
<1> DEFINE m == [kind |-> k, first |-> produced + 1, n |-> 0, fault |-> "none"]
<1>1. m \in Messages /\ m.first = produced + 1 /\ produced + m.n <= MaxRecords
  BY BoundsAssumption DEF Messages, IInv, TypeOK
<1> HIDE DEF m
<1>2. QED
  BY <1>1, SendStep DEF m

\* So is a batch, faulty or not.
LEMMA SendBatchStep == IInv /\ SendBatch => IInv'
<1> SUFFICES ASSUME IInv, NEW n \in 0..MaxBatch,
                    NEW f \in {"none", "oversize", "header", "body"},
                    produced + n <= MaxRecords,
                    Send([kind |-> "batch", first |-> produced + 1, n |-> n,
                          fault |-> f])
             PROVE  IInv'
  BY DEF SendBatch
<1> DEFINE m == [kind |-> "batch", first |-> produced + 1, n |-> n, fault |-> f]
<1>1. m \in Messages /\ m.first = produced + 1 /\ produced + m.n <= MaxRecords
  BY BoundsAssumption DEF Messages, IInv, TypeOK
<1> HIDE DEF m
<1>2. QED
  BY <1>1, SendStep DEF m

\* The end of the server's operation leaves the reader alone.
LEMMA ServerEndStep == IInv /\ (EndStream \/ StopCancelled) => IInv'
<1> SUFFICES ASSUME IInv, EndStream \/ StopCancelled PROVE IInv'
  OBVIOUS
<1> USE DEF IInv
<1>1. /\ srv = "running"
      /\ srv' \in {"eof", "stopped"} \cup ServerCodes
      /\ UNCHANGED <<wire, produced, sent, ctx, conn, streamCtx,
                     serverSessionID, pc, refCount, schema, buf, bufPos, cur,
                     err, done, refs, held, told, delivered, received>>
  BY DEF EndStream, StopCancelled, envVars, readerVars, seenVars
<1>2. TypeOK'
  BY <1>1 DEF TypeOK
<1>3. WireOK'
  BY <1>1 DEF WireOK
<1>4. BufOK'
  BY <1>1 DEF BufOK
<1>5. ControlOK'
  <2>1. srv' # "idle"
    BY <1>1, CodesAreNoStates
  <2>2. schema # "empty" /\ pc # "start" /\ ~ (done = "yes" /\ err = "none")
    BY <1>1 DEF ControlOK
  <2>3. QED
    BY <1>1, <2>1, <2>2 DEF ControlOK
<1>6. RecordsAccounted'
  BY <1>1 DEF RecordsAccounted, Owned, Unread
<1>7. QED
  BY <1>2, <1>3, <1>4, <1>5, <1>6

\* So do a cancellation and the closing of the channel.
LEMMA EnvStep == IInv /\ Env => IInv'
<1> SUFFICES ASSUME IInv, Env PROVE IInv'
  OBVIOUS
<1> USE DEF IInv
<1>1. /\ ctx' \in {"live", "Canceled", "DeadlineExceeded"}
      /\ conn' \in {"open", "closed"}
      /\ UNCHANGED <<wire, srv, produced, sent, streamCtx, serverSessionID, pc,
                     refCount, schema, buf, bufPos, cur, err, done, refs, held,
                     told, delivered, received>>
  BY DEF Env, EndContext, CloseConn, srvVars, readerVars, seenVars, TypeOK
<1>2. TypeOK'
  BY <1>1 DEF TypeOK
<1>3. WireOK' /\ BufOK' /\ ControlOK'
  BY <1>1 DEF WireOK, BufOK, ControlOK
<1>4. RecordsAccounted'
  BY <1>1 DEF RecordsAccounted, Owned, Unread
<1>5. QED
  BY <1>2, <1>3, <1>4


\* What is known of the first message on the wire.
LEMMA HeadOfWire ==
  ASSUME IInv, wire # <<>>
  PROVE  /\ Head(wire) \in Messages /\ Head(wire) = wire[1]
         /\ Tail(wire) \in Seq(Messages) /\ Len(Tail(wire)) = Len(wire) - 1
         /\ \A i \in 1..Len(Tail(wire)) : Tail(wire)[i] = wire[i + 1]
         /\ Len(wire) \in Nat \ {0}
         /\ Head(wire).n \in Nat /\ Head(wire).n <= MaxBatch
         /\ Head(wire).first \in Nat /\ Head(wire).first >= 1
         /\ Head(wire).first + Head(wire).n <= produced + 1
         /\ done = "no" => Head(wire).first = received + 1
<1>1. wire \in Seq(Messages) /\ Len(wire) \in Nat \ {0} /\ Head(wire) = wire[1]
  BY DEF IInv, TypeOK
<1>2. Head(wire) \in Messages
  BY <1>1
<1>3. /\ Tail(wire) \in Seq(Messages) /\ Len(Tail(wire)) = Len(wire) - 1
      /\ \A i \in 1..Len(Tail(wire)) : Tail(wire)[i] = wire[i + 1]
  BY <1>1
<1>4. /\ Head(wire).n \in Nat /\ Head(wire).n <= MaxBatch
      /\ Head(wire).first \in Nat
  BY <1>2, BoundsAssumption DEF Messages
<1>5. /\ Head(wire).first >= 1
      /\ Head(wire).first + Head(wire).n <= produced + 1
      /\ done = "no" => Head(wire).first = received + 1
  <2>1. 1 \in 1..Len(wire)
    BY <1>1
  <2>2. QED
    BY <1>1, <2>1 DEF IInv, WireOK
<1>6. QED
  BY <1>1, <1>2, <1>3, <1>4, <1>5

\* The messages left on the wire by a Recv continue the ones received.
LEMMA TakeKeepsWire ==
  ASSUME IInv, wire # <<>>, done = "no", wire' = Tail(wire),
         produced' = produced, received' \in Nat, received' <= produced',
         done' = "no" => received' = Head(wire).first + Head(wire).n - 1
  PROVE  WireOK'
<1> DEFINE t == Tail(wire)
<1>1. /\ t \in Seq(Messages) /\ Len(t) = Len(wire) - 1
      /\ \A i \in 1..Len(t) : t[i] = wire[i + 1]
      /\ Len(wire) \in Nat \ {0} /\ Head(wire) = wire[1]
      /\ Head(wire).n \in Nat /\ Head(wire).first \in Nat
  BY HeadOfWire
<1>2. produced \in Nat
  BY DEF IInv, TypeOK
<1> HIDE DEF t
<1>3. ASSUME NEW i \in 1..Len(t)
      PROVE  /\ t[i].first >= 1
             /\ t[i].first + t[i].n <= produced + 1
             /\ t[i].first + t[i].n =
                  IF i = Len(t) THEN produced + 1 ELSE t[i+1].first
  <2>1. i + 1 \in 1..Len(wire)
    BY <1>1, <1>3
  <2>2. /\ wire[i+1].first >= 1
        /\ wire[i+1].first + wire[i+1].n <= produced + 1
        /\ wire[i+1].first + wire[i+1].n =
             IF i + 1 = Len(wire) THEN produced + 1 ELSE wire[(i+1)+1].first
    BY <2>1 DEF IInv, WireOK
  <2>3. CASE i = Len(t)
    BY <2>2, <2>3, <1>1
  <2>4. CASE i # Len(t)
    <3>1. i + 1 \in 1..Len(t) /\ i + 1 # Len(wire)
      BY <2>4, <1>1
    <3>2. t[i] = wire[i+1] /\ t[i+1] = wire[(i+1)+1]
      BY <3>1, <1>1
    <3>3. QED
      BY <3>1, <3>2, <2>2, <2>4
  <2>5. QED
    BY <2>3, <2>4
<1>4. 1 \in 1..Len(wire) /\
      wire[1].first + wire[1].n =
        IF 1 = Len(wire) THEN produced + 1 ELSE wire[1+1].first
  BY <1>1 DEF IInv, WireOK
<1>5. ASSUME done' = "no"
      PROVE  IF t = <<>> THEN received' = produced
                         ELSE t[1].first = received' + 1
  <2>1. CASE t = <<>>
    <3>1. Len(t) = 0
      BY <2>1
    <3>2. 1 = Len(wire)
      BY <3>1, <1>1
    <3>3. QED
      BY <3>2, <2>1, <1>1, <1>2, <1>4, <1>5
  <2>2. CASE t # <<>>
    <3>1. 1 \in 1..Len(t)
      BY <2>2, <1>1
    <3>2. t[1] = wire[1+1] /\ 1 # Len(wire)
      BY <3>1, <1>1
    <3>3. QED
      BY <3>2, <2>2, <1>1, <1>2, <1>4, <1>5
  <2>3. QED
    BY <2>1, <2>2
<1>6. wire' = t
  BY DEF t
<1>7. QED
  BY <1>3, <1>5, <1>6 DEF WireOK

\* A skipped message changes the wire and perhaps the schema.
LEMMA RecvNothingStep == IInv /\ RecvNothing => IInv'
<1> SUFFICES ASSUME IInv, RecvNothing PROVE IInv'
  OBVIOUS
<1>1. /\ wire # <<>> /\ wire' = Tail(wire) /\ pc \in {"prime", "next"}
      /\ Head(wire).n = 0
      /\ serverSessionID' = "server"
      /\ schema' = schema \/ schema' = CapturedSchema
      /\ UNCHANGED <<srv, produced, sent, ctx, conn, held, streamCtx, pc,
                     refCount, buf, bufPos, cur, err, done, refs, told,
                     delivered, received>>
  BY DEF RecvNothing, Take, Receiving, srvVars, envVars, seenVars
<1>2. /\ Head(wire).first \in Nat /\ Tail(wire) \in Seq(Messages)
      /\ done = "no" => Head(wire).first = received + 1
  BY <1>1, HeadOfWire
<1>3. done = "no"
  BY <1>1 DEF IInv, ControlOK
<1>4. TypeOK'
  BY <1>1, <1>2 DEF IInv, TypeOK, Schemas, CapturedSchema
<1>5. WireOK'
  <2>1. received' \in Nat /\ received' <= produced'
    BY <1>1 DEF IInv, TypeOK, WireOK
  <2>2. received' = Head(wire).first + Head(wire).n - 1
    BY <1>1, <1>2, <1>3, <2>1
  <2>3. QED
    BY <1>1, <1>3, <2>1, <2>2, TakeKeepsWire
<1>6. BufOK'
  BY <1>1 DEF IInv, BufOK
<1>7. ControlOK'
  BY <1>1 DEF IInv, ControlOK, CapturedSchema
<1>8. RecordsAccounted'
  BY <1>1 DEF IInv, RecordsAccounted, Owned, Unread
<1>9. QED
  BY <1>4, <1>5, <1>6, <1>7, <1>8 DEF IInv

\* Both ways of failing leave the reader as FailWith does.
LEMMA FailStep ==
  ASSUME IInv, Receiving, NEW e \in AdbcStatuses, FailWith(e),
         \/ wire' = wire
         \/ wire # <<>> /\ wire' = Tail(wire),
         serverSessionID' \in {"unset", "server"},
         schema' = schema \/ schema' = CapturedSchema,
         UNCHANGED <<srvVars, envVars, held>>
  PROVE  IInv'
<1>1. /\ pc \in {"prime", "next"} /\ err' = e /\ done' = "yes"
      /\ told' = "error"
      /\ \/ pc = "prime" /\ pc' = "gone" /\ refCount' = 0
            /\ streamCtx' = "cancelled"
         \/ pc = "next" /\ pc' = "idle" /\ refCount' = refCount
            /\ streamCtx' = streamCtx
      /\ UNCHANGED <<srv, produced, sent, ctx, conn, held, buf, bufPos, cur,
                     refs, delivered, received>>
  BY DEF FailWith, Receiving, srvVars, envVars
<1>2. /\ pc = "next" => schema # "nil"
      /\ srv # "idle" /\ done = "no" /\ e # "none"
      /\ schema = "empty" => srv = "eof" /\ produced = 0
      /\ buf = <<>> /\ cur = 0 /\ bufPos = 0
      /\ pc = "next" => refCount > 0
      /\ streamCtx = "live" <=> refCount > 0
  BY <1>1, NoneIsNoStatus DEF IInv, ControlOK, BufOK, Nil
<1>3. TypeOK'
  <2>1. wire' \in Seq(Messages)
    BY HeadOfWire DEF IInv, TypeOK
  <2>2. QED
    BY <1>1, <2>1, BoundsAssumption
    DEF IInv, TypeOK, Schemas, CapturedSchema
<1>4. WireOK'
  <2>1. received' \in Nat /\ received' <= produced'
    BY <1>1 DEF IInv, TypeOK, WireOK
  <2>2. CASE wire' = wire
    BY <2>2, <1>1 DEF IInv, WireOK
  <2>3. CASE wire # <<>> /\ wire' = Tail(wire)
    BY <2>3, <1>1, <1>2, <2>1, TakeKeepsWire
  <2>4. QED
    BY <2>2, <2>3
<1>5. BufOK'
  <2>1. Len(buf) = 0
    BY <1>2
  <2>2. pc # "start" /\ pc # "gone"
    BY <1>1
  <2>3. QED
    BY <1>1, <1>2, <2>1, <2>2 DEF IInv, BufOK, Nil
<1>6. ControlOK'
  <2>1. Len(buf) = 0
    BY <1>2
  <2>2. QED
    BY <1>1, <1>2, <2>1 DEF ControlOK, CapturedSchema, Nil
<1>7. RecordsAccounted'
  BY <1>1 DEF IInv, RecordsAccounted, Owned, Unread
<1>8. QED
  BY <1>3, <1>4, <1>5, <1>6, <1>7 DEF IInv

\* A batch that cannot be decoded fails the reader.
LEMMA RecvUndecodableStep == IInv /\ RecvUndecodable => IInv'
<1> SUFFICES ASSUME IInv, RecvUndecodable PROVE IInv'
  OBVIOUS
<1>1. "Unknown" \in AdbcStatuses
  BY DEF AdbcStatuses
<1>2. QED
  BY <1>1, FailStep DEF RecvUndecodable, Take

\* An error of Recv fails the reader.
LEMMA RecvErrorStep == IInv /\ RecvError => IInv'
<1> SUFFICES ASSUME IInv, RecvError PROVE IInv'
  OBVIOUS
<1>1. PICK code \in RecvErrors : FailWith(grpcToADBC(code))
  BY DEF RecvError
<1>2. grpcToADBC(code) \in AdbcStatuses
  BY RecvErrorsAreCodes, StatusTyped DEF IInv
<1>3. serverSessionID \in {"unset", "server"}
  BY DEF IInv, TypeOK
<1>4. QED
  BY <1>1, <1>2, <1>3, FailStep DEF RecvError

\* What RecvBatch changes, and what is known of the batch.
LEMMA BatchFacts ==
  ASSUME IInv, RecvBatch
  PROVE  /\ wire # <<>> /\ wire' = Tail(wire) /\ pc \in {"prime", "next"}
         /\ buf' = RecordsOf(Head(wire)) /\ buf' \in Seq(RecordIds)
         /\ Len(buf') = Head(wire).n
         /\ Head(wire).n \in Nat /\ Head(wire).n > 0 /\ Head(wire).n <= MaxBatch
         /\ \A i \in 1..Len(buf') : buf'[i] = received + i
         /\ received' = received + Len(buf') /\ received' \in Nat
         /\ received' <= produced
         /\ refs' = Ref(refs, received + 1 .. received')
         /\ pc' = "idle" /\ schema' = CapturedSchema
         /\ serverSessionID' = "server"
         /\ \/ pc = "prime" /\ bufPos' = 0 /\ cur' = cur
               /\ delivered' = delivered /\ told' = told
            \/ pc = "next" /\ bufPos' = 1 /\ cur' = received + 1
               /\ delivered' = received + 1 /\ told' = "record"
         /\ UNCHANGED <<srv, produced, sent, ctx, conn, held, streamCtx,
                        refCount, err, done>>
         /\ done = "no" /\ cur = 0 /\ delivered = received
<1> DEFINE m == Head(wire)
<1>1. /\ wire # <<>> /\ wire' = Tail(wire) /\ pc \in {"prime", "next"}
      /\ buf' = RecordsOf(m) /\ m.n > 0
      /\ refs' = Ref(refs, Elements(RecordsOf(m)))
      /\ received' = m.first + m.n - 1
      /\ pc' = "idle" /\ schema' = CapturedSchema
      /\ serverSessionID' = "server"
      /\ \/ pc = "prime" /\ bufPos' = 0 /\ cur' = cur
            /\ delivered' = delivered /\ told' = told
         \/ pc = "next" /\ bufPos' = 1 /\ cur' = RecordsOf(m)[1]
            /\ delivered' = RecordsOf(m)[1] /\ told' = "record"
      /\ UNCHANGED <<srv, produced, sent, ctx, conn, held, streamCtx, refCount,
                     err, done>>
  BY DEF RecvBatch, Take, Receiving, srvVars, envVars
<1>2. done = "no" /\ cur = 0 /\ delivered = received
  <2>1. done = "no" /\ cur = 0 /\ buf = <<>> /\ bufPos = 0
        /\ delivered = (received - Len(buf)) + bufPos
    BY <1>1 DEF IInv, ControlOK, BufOK, Nil
  <2>2. Len(buf) = 0 /\ received \in Nat
    BY <2>1 DEF IInv, TypeOK
  <2>3. QED
    BY <2>1, <2>2
<1>3. /\ m \in Messages /\ m.n \in Nat /\ m.n <= MaxBatch
      /\ m.first \in Nat /\ m.first >= 1 /\ m.first = received + 1
      /\ m.first + m.n <= produced + 1
  BY <1>1, <1>2, HeadOfWire
<1>4. produced \in Nat /\ produced <= MaxRecords /\ received \in Nat
  BY BoundsAssumption DEF IInv, TypeOK
<1> HIDE DEF m
<1>5. m.first + m.n <= MaxRecords + 1
  BY <1>3, <1>4, BoundsAssumption
<1>6. /\ RecordsOf(m) \in Seq(RecordIds) /\ Len(RecordsOf(m)) = m.n
      /\ \A i \in 1..m.n : RecordsOf(m)[i] = m.first + i - 1
      /\ Elements(RecordsOf(m)) = m.first .. m.first + m.n - 1
  BY <1>3, <1>5, RecordsOfTyped
<1>7. /\ buf' \in Seq(RecordIds) /\ Len(buf') = m.n
      /\ received' = received + m.n /\ received' \in Nat
      /\ received' <= produced
  BY <1>1, <1>3, <1>4, <1>6
<1>8. \A i \in 1..m.n : RecordsOf(m)[i] = received + i
  BY <1>3, <1>4, <1>6
<1>9. 1 \in 1..m.n
  BY <1>1, <1>3
<1>10. RecordsOf(m)[1] = received + 1
  BY <1>8, <1>9
<1>11. Elements(RecordsOf(m)) = received + 1 .. received'
  BY <1>3, <1>6, <1>1
<1>12. QED
  BY <1>1, <1>2, <1>3, <1>7, <1>8, <1>10, <1>11 DEF m

\* A decoded batch fills buf, which was empty.
LEMMA RecvBatchStep == IInv /\ RecvBatch => IInv'
<1> SUFFICES ASSUME IInv, RecvBatch PROVE IInv'
  OBVIOUS
<1>1. /\ wire # <<>> /\ wire' = Tail(wire) /\ pc \in {"prime", "next"}
      /\ buf' \in Seq(RecordIds)
      /\ Len(buf') = Head(wire).n
      /\ Len(buf') \in Nat /\ Len(buf') > 0 /\ Len(buf') <= MaxBatch
      /\ \A i \in 1..Len(buf') : buf'[i] = received + i
      /\ received' = received + Len(buf') /\ received' \in Nat
      /\ received' <= produced
      /\ refs' = Ref(refs, received + 1 .. received')
      /\ pc' = "idle" /\ schema' = CapturedSchema
      /\ serverSessionID' = "server"
      /\ \/ pc = "prime" /\ bufPos' = 0 /\ cur' = cur
            /\ delivered' = delivered /\ told' = told
         \/ pc = "next" /\ bufPos' = 1 /\ cur' = received + 1
            /\ delivered' = received + 1 /\ told' = "record"
      /\ UNCHANGED <<srv, produced, sent, ctx, conn, held, streamCtx,
                     refCount, err, done>>
      /\ done = "no" /\ cur = 0 /\ delivered = received
  BY BatchFacts
<1>2. /\ produced \in 0..MaxRecords /\ produced \in Nat /\ received \in Nat
      /\ MaxRecords \in Nat /\ refs \in [RecordIds -> Int]
      /\ held \in [RecordIds -> {0, 1}]
  BY BoundsAssumption DEF IInv, TypeOK
<1>r. /\ refs' \in [RecordIds -> Int]
      /\ \A r \in RecordIds :
           refs'[r] = IF r \in received + 1 .. received'
                      THEN refs[r] + 1 ELSE refs[r]
  <2> DEFINE S == received + 1 .. received'
  <2> HIDE DEF S
  <2>1. refs' = Ref(refs, S)
    BY <1>1 DEF S
  <2>2. /\ Ref(refs, S) \in [RecordIds -> Int]
        /\ \A r \in RecordIds :
             Ref(refs, S)[r] = IF r \in S THEN refs[r] + 1 ELSE refs[r]
    BY <1>2, RefTyped
  <2>3. QED
    BY <2>1, <2>2 DEF S
<1>3. TypeOK'
  <2>2. wire' \in Seq(Messages)
    BY <1>1, HeadOfWire
  <2>3. /\ received' \in 0..MaxRecords /\ received + 1 \in RecordIds
        /\ received + 1 \in 0..MaxRecords
    BY SMTT(30), <1>1, <1>2 DEF RecordIds
  <2>4. refs' \in [RecordIds -> Int] /\ held' \in [RecordIds -> {0, 1}]
    BY <1>1, <1>r, <1>2
  <2>5. /\ delivered' \in 0..MaxRecords /\ cur' \in RecordIds \cup {Nil}
        /\ told' \in {"none", "record", "end", "error"} /\ bufPos' \in Nat
    BY SMTT(30), <1>1, <2>3 DEF IInv, TypeOK
  <2>6. schema' \in Schemas
    BY <1>1 DEF IInv, TypeOK, Schemas, CapturedSchema
  <2>7. QED
    BY <1>1, <2>2, <2>3, <2>4, <2>5, <2>6 DEF IInv, TypeOK
<1>4. WireOK'
  <2>1. received' = Head(wire).first + Head(wire).n - 1
    BY DEF RecvBatch
  <2>2. QED
    BY <1>1, <2>1, TakeKeepsWire
<1>5. BufOK'
  <2>1. \A i \in 1..Len(buf') : buf'[i] = (received' - Len(buf')) + i
    BY <1>1, <1>2
  <2>2. delivered' = (received' - Len(buf')) + bufPos'
    BY <1>1, <1>2
  <2>3. QED
    BY <1>1, <1>2, <2>1, <2>2 DEF BufOK, Nil
<1>6. ControlOK'
  BY <1>1 DEF IInv, ControlOK, CapturedSchema, Nil
<1>7. RecordsAccounted'
  <2>1. TypeOK /\ BufOK /\ pc # "gone"
    BY <1>1 DEF IInv
  <2>2. Unread = {} /\ Unread' = delivered' + 1 .. received'
    <3>1. Unread = delivered + 1 .. received
      BY <2>1, UnreadIsInterval
    <3>2. Unread = {}
      BY <3>1, <1>1, <1>2
    <3>3. (TypeOK /\ BufOK /\ pc # "gone" => Unread = delivered + 1 .. received)'
      BY UnreadIsInterval, PTL
    <3>4. QED
      BY <3>2, <3>3, <1>1, <1>3, <1>5
  <2>3. ASSUME NEW r \in RecordIds PROVE refs'[r] = Owned(r)' + held'[r]
    <3>1. refs[r] = held[r]
      <4>1. cur # r
        BY <1>1 DEF RecordIds
      <4>2. Owned(r) = 0
        BY <4>1, <2>2 DEF Owned
      <4>3. refs[r] = Owned(r) + held[r]
        BY DEF IInv, RecordsAccounted
      <4>4. QED
        BY <4>2, <4>3, <1>2
    <3>2. refs'[r] = IF r \in received + 1 .. received'
                     THEN refs[r] + 1 ELSE refs[r]
      BY <1>r
    <3>3. Owned(r)' = IF r \in received + 1 .. received' THEN 1 ELSE 0
      <4>1. Owned(r)' = IF r = cur' \/ r \in Unread' THEN 1 ELSE 0
        BY DEF Owned
      <4>2. r \in Int /\ r >= 1
        BY <1>2 DEF RecordIds
      <4>3. \/ cur' = 0 /\ delivered' = received
            \/ cur' = received + 1 /\ delivered' = received + 1
        BY <1>1
      <4>4. received' >= received + 1 /\ received' \in Int /\ received \in Int
        BY <1>1, <1>2
      <4>5. r = cur' \/ r \in delivered' + 1 .. received'
              <=> r \in received + 1 .. received'
        BY <4>2, <4>3, <4>4
      <4>6. QED
        BY <4>1, <4>5, <2>2
    <3>4. held[r] \in Int
      BY <1>2
    <3>5. QED
      BY <3>1, <3>2, <3>3, <3>4, <1>1
  <2>4. QED
    BY <2>3 DEF RecordsAccounted
<1>8. QED
  BY <1>3, <1>4, <1>5, <1>6, <1>7 DEF IInv

\* io.EOF ends a result of which everything was received.
LEMMA RecvEOFStep == IInv /\ RecvEOF => IInv'
<1> SUFFICES ASSUME IInv, RecvEOF PROVE IInv'
  OBVIOUS
<1>1. /\ pc \in {"prime", "next"} /\ wire = <<>> /\ srv = "eof"
      /\ done' = "yes" /\ pc' = "idle"
      /\ \/ pc = "prime" /\ told' = told
            /\ schema' = IF schema = "nil" THEN "empty" ELSE schema
         \/ pc = "next" /\ told' = "end" /\ schema' = schema
      /\ UNCHANGED <<wire, srv, produced, sent, ctx, conn, streamCtx,
                     serverSessionID, refCount, buf, bufPos, cur, err, refs,
                     held, delivered, received>>
  BY DEF RecvEOF, Receiving, srvVars, envVars
<1>2. /\ done = "no" /\ received = produced /\ received \in Nat
      /\ pc = "prime" => received = 0
      /\ buf = <<>> /\ cur = 0 /\ bufPos = 0 /\ Len(buf) = 0
      /\ delivered = received
  <2>1. /\ done = "no" /\ buf = <<>> /\ cur = 0 /\ bufPos = 0
        /\ pc = "prime" => received = 0
        /\ delivered = (received - Len(buf)) + bufPos
    BY <1>1 DEF IInv, ControlOK, BufOK, Nil
  <2>2. Len(buf) = 0 /\ received \in Nat
    BY <2>1 DEF IInv, TypeOK
  <2>3. received = produced
    BY <1>1, <2>1 DEF IInv, WireOK
  <2>4. QED
    BY <2>1, <2>2, <2>3
<1>3. TypeOK'
  BY <1>1 DEF IInv, TypeOK, Schemas
<1>4. WireOK'
  BY <1>1, <1>2 DEF IInv, WireOK
<1>5. BufOK'
  <2>1. Len(buf) = 0
    BY <1>2
  <2>2. pc # "gone"
    BY <1>1
  <2>3. QED
    BY <1>1, <2>1, <2>2 DEF IInv, BufOK
<1>6. ControlOK'
  <2>1. Len(buf) = 0
    BY <1>2
  <2>2. /\ refCount > 0 /\ (streamCtx = "live" <=> refCount > 0)
        /\ err = "none" /\ told # "error" /\ told # "end"
        /\ pc = "next" => schema # "nil"
        /\ schema = "empty" => srv = "eof" /\ produced = 0
    BY <1>1 DEF IInv, ControlOK
  <2>3. QED
    BY <1>1, <1>2, <2>1, <2>2 DEF ControlOK, Nil
<1>7. RecordsAccounted'
  BY <1>1 DEF IInv, RecordsAccounted, Owned, Unread
<1>8. QED
  BY <1>3, <1>4, <1>5, <1>6, <1>7 DEF IInv

\* The reader starts with one reference and nothing received.
LEMMA ExecutePlanStep == IInv /\ ExecutePlan => IInv'
<1> SUFFICES ASSUME IInv, ExecutePlan PROVE IInv'
  OBVIOUS
<1> USE BoundsAssumption DEF IInv, ExecutePlan, envVars, seenVars
<1>1. TypeOK'
  BY DEF TypeOK
<1>2. WireOK' /\ BufOK'
  BY DEF WireOK, BufOK
<1>3. ControlOK'
  BY DEF ControlOK
<1>4. RecordsAccounted'
  BY DEF RecordsAccounted, Owned, Unread
<1>5. QED
  BY <1>1, <1>2, <1>3, <1>4

\* No reader is made when the call itself fails.
LEMMA ExecutePlanFailsStep == IInv /\ ExecutePlanFails => IInv'
<1> SUFFICES ASSUME IInv, ExecutePlanFails PROVE IInv'
  OBVIOUS
<1>1. /\ pc = "start" /\ streamCtx' = "cancelled" /\ told' = "error"
      /\ pc' = "gone"
      /\ UNCHANGED <<wire, srv, produced, sent, ctx, conn, serverSessionID,
                     refCount, schema, buf, bufPos, cur, done, refs, held,
                     delivered, received>>
  BY DEF ExecutePlanFails, srvVars, envVars
<1>2. err' \in AdbcStatuses /\ err' # "none"
  <2>1. PICK code \in ServerCodes \cup (IF ctx # "live" THEN {ctx} ELSE {})
                \cup (IF conn = "closed" THEN {"Canceled"} ELSE {}) :
           err' = grpcToADBC(code)
    BY DEF ExecutePlanFails
  <2>2. code \in GrpcCodes
    BY <2>1, CodesAssumption DEF GrpcCodes, IInv, TypeOK
  <2>3. QED
    BY <2>1, <2>2, StatusTyped, NoneIsNoStatus
<1>3. cur = 0 /\ buf = <<>> /\ refCount = 0 /\ done = "no" /\ bufPos = 0
      /\ schema # "empty"
  BY <1>1 DEF IInv, ControlOK, BufOK, Nil
<1>4. TypeOK'
  BY <1>1, <1>2 DEF IInv, TypeOK
<1>5. WireOK' /\ BufOK'
  BY <1>1 DEF IInv, WireOK, BufOK
<1>6. ControlOK'
  BY <1>1, <1>2, <1>3 DEF ControlOK, Nil
<1>7. RecordsAccounted'
  BY <1>1 DEF IInv, RecordsAccounted, Owned, Unread
<1>8. QED
  BY <1>4, <1>5, <1>6, <1>7 DEF IInv

\* Retain, and Release of a reference that is not the last.
LEMMA RetainStep ==
  IInv /\ (Retain \/ ReleaseSome) => IInv'
<1> SUFFICES ASSUME IInv, Retain \/ ReleaseSome PROVE IInv'
  OBVIOUS
<1>1. /\ pc = "idle" /\ refCount' \in 1..MaxRefs
      /\ UNCHANGED <<wire, srv, produced, sent, ctx, conn, streamCtx,
                     serverSessionID, pc, schema, buf, bufPos, cur, err, done,
                     refs, held, told, delivered, received>>
  BY BoundsAssumption
  DEF Retain, ReleaseSome, srvVars, envVars, seenVars, IInv, TypeOK
<1>2. refCount > 0
  BY <1>1 DEF IInv, ControlOK
<1>3. TypeOK'
  BY <1>1, BoundsAssumption DEF IInv, TypeOK
<1>4. WireOK' /\ BufOK'
  BY <1>1 DEF IInv, WireOK, BufOK
<1>5. ControlOK'
  BY <1>1, <1>2, BoundsAssumption DEF IInv, ControlOK, TypeOK
<1>6. RecordsAccounted'
  BY <1>1 DEF IInv, RecordsAccounted, Owned, Unread
<1>7. QED
  BY <1>3, <1>4, <1>5, <1>6 DEF IInv

\* The reader gives up one reference on each record of S, all of them its own.
LEMMA GiveUpAccounted ==
  ASSUME IInv, NEW S, refs' = Unref(refs, S), held' = held,
         \A r \in RecordIds : r \in S => Owned(r) = 1,
         \A r \in RecordIds : Owned(r)' = IF r \in S THEN 0 ELSE Owned(r)
  PROVE  refs' \in [RecordIds -> Int] /\ RecordsAccounted'
<1>1. refs \in [RecordIds -> Int] /\ held \in [RecordIds -> {0, 1}]
  BY DEF IInv, TypeOK
<1>2. /\ refs' \in [RecordIds -> Int]
      /\ \A r \in RecordIds : refs'[r] = IF r \in S THEN refs[r] - 1 ELSE refs[r]
  BY <1>1, RefTyped
<1>3. ASSUME NEW r \in RecordIds PROVE refs'[r] = Owned(r)' + held'[r]
  <2>1. refs[r] = Owned(r) + held[r]
    BY DEF IInv, RecordsAccounted
  <2>2. held[r] \in Int /\ held'[r] = held[r]
    BY <1>1
  <2>3. Owned(r) \in {0, 1}
    BY DEF Owned
  <2>4. CASE r \in S
    BY <2>1, <2>2, <2>3, <2>4, <1>2
  <2>5. CASE r \notin S
    BY <2>1, <2>2, <2>3, <2>5, <1>2
  <2>6. QED
    BY <2>4, <2>5
<1>4. QED
  BY <1>2, <1>3 DEF RecordsAccounted

\* The current record, the unread ones and their numbers while no call runs.
LEMMA IdleFacts ==
  ASSUME IInv, pc = "idle"
  PROVE  /\ Unread = delivered + 1 .. received
         /\ cur = Nil \/ cur = delivered
         /\ delivered \in Nat /\ received \in Nat /\ bufPos \in Nat
         /\ Len(buf) \in Nat /\ bufPos <= Len(buf)
         /\ delivered = (received - Len(buf)) + bufPos
         /\ Nil \notin RecordIds
         /\ \A r \in RecordIds :
              Owned(r) = IF r = cur \/ r \in delivered + 1 .. received
                         THEN 1 ELSE 0
<1>1. Unread = delivered + 1 .. received
  BY UnreadIsInterval DEF IInv
<1>2. QED
  BY <1>1 DEF IInv, TypeOK, BufOK, Owned, RecordIds, Nil

\* The first unread record becomes the current one.
LEMMA NextBufferedStep == IInv /\ NextBuffered => IInv'
<1> SUFFICES ASSUME IInv, NextBuffered PROVE IInv'
  OBVIOUS
<1>1. /\ pc = "idle" /\ refs' = Unref(refs, {cur}) /\ err = "none"
      /\ bufPos < Len(buf) /\ cur' = buf[bufPos + 1] /\ bufPos' = bufPos + 1
      /\ told' = "record" /\ delivered' = cur'
      /\ UNCHANGED <<wire, srv, produced, sent, ctx, conn, streamCtx,
                     serverSessionID, pc, refCount, schema, buf, err, done,
                     held, received>>
  BY DEF NextBuffered, CallNext, srvVars, envVars
<1>2. /\ Unread = delivered + 1 .. received
      /\ cur = Nil \/ cur = delivered
      /\ delivered \in Nat /\ received \in Nat /\ bufPos \in Nat
      /\ Len(buf) \in Nat
      /\ delivered = (received - Len(buf)) + bufPos
      /\ Nil \notin RecordIds
      /\ \A r \in RecordIds :
           Owned(r) = IF r = cur \/ r \in delivered + 1 .. received
                      THEN 1 ELSE 0
  BY <1>1, IdleFacts
<1>3. /\ bufPos + 1 \in 1..Len(buf)
      /\ buf[bufPos + 1] = delivered + 1 /\ buf[bufPos + 1] \in RecordIds
  <2>1. bufPos + 1 \in 1..Len(buf)
    BY <1>1, <1>2
  <2>2. buf[bufPos + 1] = (received - Len(buf)) + (bufPos + 1)
    BY <2>1 DEF IInv, BufOK
  <2>3. buf[bufPos + 1] \in RecordIds
    BY <2>1 DEF IInv, TypeOK
  <2>4. QED
    BY <2>1, <2>2, <2>3, <1>2
<1>4. cur' = delivered + 1 /\ delivered' = delivered + 1
  BY <1>1, <1>3
<1>5. BufOK'
  <2>1. delivered' = (received' - Len(buf')) + bufPos' /\ bufPos' <= Len(buf')
        /\ bufPos' >= 1
    BY <1>1, <1>2, <1>4
  <2>2. QED
    BY <1>1, <1>4, <2>1 DEF IInv, BufOK
<1>t. TypeOK'
  <2>1. delivered' \in 0..MaxRecords /\ cur' \in RecordIds /\ bufPos' \in Nat
    BY <1>1, <1>2, <1>3, <1>4 DEF RecordIds
  <2>2. refs' \in [RecordIds -> Int]
    BY <1>1, RefTyped DEF IInv, TypeOK
  <2>3. QED
    BY <1>1, <2>1, <2>2 DEF IInv, TypeOK
<1>6. \A r \in RecordIds : Owned(r)' = IF r \in {cur} THEN 0 ELSE Owned(r)
  <2>1. (TypeOK /\ BufOK /\ pc # "gone" => Unread = delivered + 1 .. received)'
    BY UnreadIsInterval, PTL
  <2>2. Unread' = delivered + 2 .. received
    BY <2>1, <1>1, <1>2, <1>4, <1>5, <1>t
  <2>3. ASSUME NEW r \in RecordIds
        PROVE  Owned(r)' = IF r = delivered + 1 \/ r \in delivered + 2 .. received
                           THEN 1 ELSE 0
    BY <2>2, <1>4 DEF Owned
  <2>4. received >= delivered + 1
    BY <1>1, <1>2
  <2>5. ASSUME NEW r \in RecordIds
        PROVE  Owned(r)' = IF r \in {cur} THEN 0 ELSE Owned(r)
    <3>1. r \in Int
      BY DEF RecordIds
    <3>2. (r = delivered + 1 \/ r \in delivered + 2 .. received)
             <=> r \in delivered + 1 .. received
      BY <3>1, <2>4, <1>2
    <3>3. r = cur => r \notin delivered + 1 .. received
      BY <3>1, <1>2
    <3>4. QED
      BY <2>3, <3>2, <3>3, <1>2
  <2>6. QED
    BY <2>5
<1>7. RecordsAccounted'
  <2>1. \A r \in RecordIds : r \in {cur} => Owned(r) = 1
    BY <1>2
  <2>2. QED
    BY <1>1, <1>6, <2>1, GiveUpAccounted
<1>9. WireOK'
  BY <1>1 DEF IInv, WireOK
<1>10. ControlOK'
  <2>1. told # "end" /\ told # "error"
    <3>1. told = "end" => bufPos >= Len(buf)
      BY DEF IInv, ControlOK
    <3>2. told # "error"
      BY <1>1 DEF IInv, ControlOK
    <3>3. QED
      BY <3>1, <3>2, <1>1, <1>2
  <2>2. QED
    BY <1>1, <2>1 DEF IInv, ControlOK
<1>11. QED
  BY <1>5, <1>7, <1>t, <1>9, <1>10 DEF IInv

\* With nothing unread, Next goes to fetch a batch.
LEMMA NextFillStep == IInv /\ NextFill => IInv'
<1> SUFFICES ASSUME IInv, NextFill PROVE IInv'
  OBVIOUS
<1>1. /\ pc = "idle" /\ refs' = Unref(refs, {cur}) /\ err = "none"
      /\ bufPos >= Len(buf) /\ done = "no" /\ cur' = 0 /\ buf' = <<>>
      /\ bufPos' = 0 /\ pc' = "next"
      /\ UNCHANGED <<wire, srv, produced, sent, ctx, conn, streamCtx,
                     serverSessionID, refCount, schema, err, done, held, told,
                     delivered, received>>
  BY DEF NextFill, CallNext, srvVars, envVars, Nil
<1>2. /\ cur = Nil \/ cur = delivered
      /\ delivered \in Nat /\ received \in Nat /\ bufPos \in Nat
      /\ Len(buf) \in Nat /\ bufPos <= Len(buf)
      /\ delivered = (received - Len(buf)) + bufPos
      /\ \A r \in RecordIds :
           Owned(r) = IF r = cur \/ r \in delivered + 1 .. received
                      THEN 1 ELSE 0
  BY <1>1, IdleFacts
<1>3. delivered = received
  BY <1>1, <1>2
<1>4. Len(buf') = 0 /\ 0 \notin RecordIds /\ buf' \in Seq(RecordIds)
  BY <1>1 DEF RecordIds
<1>5. Unread' = {}
  BY <1>1, <1>4 DEF Unread
<1>6. refs' \in [RecordIds -> Int] /\ RecordsAccounted'
  <2>1. \A r \in RecordIds : r \in {cur} => Owned(r) = 1
    BY <1>2
  <2>2. \A r \in RecordIds : Owned(r)' = IF r \in {cur} THEN 0 ELSE Owned(r)
    <3>1. \A r \in RecordIds : Owned(r)' = 0
      BY <1>1, <1>4, <1>5 DEF Owned
    <3>2. \A r \in RecordIds : r \notin {cur} => Owned(r) = 0
      BY <1>2, <1>3
    <3>3. QED
      BY <3>1, <3>2
  <2>3. QED
    BY <1>1, <2>1, <2>2, GiveUpAccounted
<1>7. TypeOK'
  BY <1>1, <1>4, <1>6 DEF IInv, TypeOK, Nil
<1>8. WireOK'
  BY <1>1 DEF IInv, WireOK
<1>9. BufOK'
  <2>1. delivered' = (received' - Len(buf')) + bufPos' /\ Len(buf') <= MaxBatch
    BY <1>1, <1>2, <1>3, <1>4, BoundsAssumption
  <2>2. \A i \in 1..Len(buf') : buf'[i] = (received' - Len(buf')) + i
    BY <1>4
  <2>3. QED
    BY <1>1, <2>1, <2>2 DEF BufOK, Nil
<1>10. ControlOK'
  <2>1. refCount > 0 /\ srv # "idle" /\ told \in {"none", "record"}
    BY <1>1 DEF IInv, ControlOK, TypeOK
  <2>2. QED
    BY <1>1, <2>1 DEF IInv, ControlOK
<1>11. QED
  BY <1>6, <1>7, <1>8, <1>9, <1>10 DEF IInv

\* With nothing to come, Next says so.
LEMMA NextNoMoreStep == IInv /\ NextNoMore => IInv'
<1> SUFFICES ASSUME IInv, NextNoMore PROVE IInv'
  OBVIOUS
<1>1. /\ pc = "idle" /\ refs' = Unref(refs, {cur}) /\ cur' = 0
      /\ \/ err # "none" /\ told' = "error"
         \/ /\ err = "none" /\ bufPos >= Len(buf) /\ done = "yes"
            /\ told' = "end"
      /\ UNCHANGED <<wire, srv, produced, sent, ctx, conn, streamCtx,
                     serverSessionID, pc, refCount, schema, buf, bufPos, err,
                     done, held, delivered, received>>
  BY DEF NextNoMore, CallNext, srvVars, envVars, Nil
<1>2. /\ Unread = delivered + 1 .. received
      /\ delivered \in Nat /\ received \in Nat /\ bufPos \in Nat
      /\ Len(buf) \in Nat /\ bufPos <= Len(buf)
      /\ delivered = (received - Len(buf)) + bufPos
      /\ Nil \notin RecordIds
      /\ \A r \in RecordIds :
           Owned(r) = IF r = cur \/ r \in delivered + 1 .. received
                      THEN 1 ELSE 0
  BY <1>1, IdleFacts
<1>3. /\ err # "none" => bufPos = Len(buf) /\ done = "yes"
      /\ err # "none" <=> told = "error"
      /\ done = "yes" /\ err = "none" => srv = "eof" /\ received = produced
  BY <1>1 DEF IInv, ControlOK
<1>4. delivered = received /\ done = "yes" /\ bufPos = Len(buf)
  BY <1>1, <1>2, <1>3
<1>5. Unread = {} /\ Unread' = Unread
  BY <1>1, <1>2, <1>4 DEF Unread
<1>6. refs' \in [RecordIds -> Int] /\ RecordsAccounted'
  <2>1. \A r \in RecordIds : r \in {cur} => Owned(r) = 1
    BY <1>2
  <2>2. \A r \in RecordIds : Owned(r)' = IF r \in {cur} THEN 0 ELSE Owned(r)
    <3>1. \A r \in RecordIds : Owned(r)' = 0
      BY <1>1, <1>2, <1>5 DEF Owned, Nil
    <3>2. \A r \in RecordIds : r \notin {cur} => Owned(r) = 0
      BY <1>2, <1>4
    <3>3. QED
      BY <3>1, <3>2
  <2>3. QED
    BY <1>1, <2>1, <2>2, GiveUpAccounted
<1>7. TypeOK'
  BY <1>1, <1>6 DEF IInv, TypeOK, Nil
<1>8. WireOK' /\ BufOK'
  BY <1>1 DEF IInv, WireOK, BufOK, Nil
<1>9. ControlOK'
  <2>1. /\ pc \in {"prime", "idle", "next"} => refCount > 0 /\ srv # "idle"
        /\ streamCtx = "live" <=> refCount > 0
        /\ schema # "nil"
        /\ schema = "empty" => srv = "eof" /\ produced = 0
    BY <1>1 DEF IInv, ControlOK
  <2>2. QED
    BY <1>1, <1>3, <1>4, <1>2, <2>1 DEF ControlOK, Nil
<1>10. QED
  BY <1>6, <1>7, <1>8, <1>9 DEF IInv

\* The last Release gives up all the reader owns.
LEMMA ReleaseLastStep == IInv /\ ReleaseLast => IInv'
<1> SUFFICES ASSUME IInv, ReleaseLast PROVE IInv'
  OBVIOUS
<1>1. /\ pc = "idle" /\ refCount' = 0 /\ refs' = Unref(refs, {cur} \cup Unread)
      /\ cur' = 0 /\ buf' = <<>> /\ streamCtx' = "cancelled" /\ pc' = "gone"
      /\ UNCHANGED <<wire, srv, produced, sent, ctx, conn, serverSessionID,
                     schema, bufPos, err, done, held, told, delivered,
                     received>>
  BY DEF ReleaseLast, srvVars, envVars, seenVars, Nil
<1>2. Len(buf') = 0 /\ 0 \notin RecordIds /\ buf' \in Seq(RecordIds)
      /\ bufPos \in Nat
  BY <1>1 DEF RecordIds, IInv, TypeOK
<1>3. Unread' = {}
  BY <1>1, <1>2 DEF Unread
<1>4. refs' \in [RecordIds -> Int] /\ RecordsAccounted'
  <2> DEFINE S == {cur} \cup Unread
  <2>1. \A r \in RecordIds : r \in S => Owned(r) = 1
    BY DEF Owned
  <2>2. \A r \in RecordIds : Owned(r)' = IF r \in S THEN 0 ELSE Owned(r)
    BY <1>1, <1>2, <1>3 DEF Owned
  <2>3. refs' = Unref(refs, S) /\ held' = held
    BY <1>1
  <2> HIDE DEF S
  <2>4. QED
    BY <2>1, <2>2, <2>3, GiveUpAccounted
<1>5. TypeOK'
  <2>1. refCount' \in 0..MaxRefs
    BY <1>1, BoundsAssumption
  <2>2. QED
    BY <1>1, <1>2, <1>4, <2>1 DEF IInv, TypeOK, Nil
<1>6. WireOK'
  BY <1>1 DEF IInv, WireOK
<1>7. BufOK'
  <2>1. Len(buf') <= MaxBatch /\ \A i \in 1..Len(buf') : FALSE
    BY <1>2, BoundsAssumption
  <2>2. QED
    BY <1>1, <2>1 DEF BufOK, Nil
<1>8. ControlOK'
  <2>1. /\ schema = "empty" => srv = "eof" /\ produced = 0
        /\ err # "none" <=> told = "error"
        /\ done = "yes" /\ err = "none" => srv = "eof" /\ received = produced
        /\ told = "end" => done = "yes" /\ delivered = received
    BY DEF IInv, ControlOK
  <2>2. bufPos >= Len(buf')
    BY <1>2
  <2>3. QED
    BY <1>1, <2>1, <2>2 DEF ControlOK, Nil
<1>9. QED
  BY <1>4, <1>5, <1>6, <1>7, <1>8 DEF IInv

\* The consumer's own references are counted too.
LEMMA HoldStep == IInv /\ (KeepRecord \/ DropRecord) => IInv'
<1> SUFFICES ASSUME IInv, KeepRecord \/ DropRecord PROVE IInv'
  OBVIOUS
<1>1. UNCHANGED <<wire, srv, produced, sent, ctx, conn, streamCtx,
                  serverSessionID, pc, refCount, schema, buf, bufPos, cur, err,
                  done, told, delivered, received>>
  BY DEF KeepRecord, DropRecord, srvVars, envVars, readerVars, seenVars
<1>2. PICK r \in RecordIds :
        \/ held[r] = 0 /\ refs' = Ref(refs, {r}) /\ held' = Ref(held, {r})
        \/ held[r] > 0 /\ refs' = Unref(refs, {r}) /\ held' = Unref(held, {r})
  <2>1. CASE KeepRecord
    BY <2>1 DEF KeepRecord, IInv, TypeOK
  <2>2. CASE DropRecord
    BY <2>2 DEF DropRecord
  <2>3. QED
    BY <2>1, <2>2
<1>3. refs \in [RecordIds -> Int] /\ held \in [RecordIds -> {0, 1}]
      /\ held \in [RecordIds -> Int]
  BY DEF IInv, TypeOK
<1>4. \/ /\ held[r] = 0
         /\ refs' = [s \in RecordIds |-> IF s = r THEN refs[s] + 1 ELSE refs[s]]
         /\ held' = [s \in RecordIds |-> IF s = r THEN held[s] + 1 ELSE held[s]]
      \/ /\ held[r] = 1
         /\ refs' = [s \in RecordIds |-> IF s = r THEN refs[s] - 1 ELSE refs[s]]
         /\ held' = [s \in RecordIds |-> IF s = r THEN held[s] - 1 ELSE held[s]]
  BY <1>2, <1>3 DEF Ref, Unref
<1>5. refs' \in [RecordIds -> Int] /\ held' \in [RecordIds -> {0, 1}]
  BY <1>3, <1>4
<1>6. TypeOK'
  BY <1>1, <1>5 DEF IInv, TypeOK
<1>7. WireOK' /\ BufOK' /\ ControlOK'
  BY <1>1 DEF IInv, WireOK, BufOK, ControlOK
<1>8. RecordsAccounted'
  <2>1. ASSUME NEW s \in RecordIds PROVE refs'[s] = Owned(s)' + held'[s]
    <3>1. Owned(s)' = Owned(s) /\ Owned(s) \in {0, 1}
      BY <1>1 DEF Owned, Unread
    <3>2. refs[s] = Owned(s) + held[s]
      BY DEF IInv, RecordsAccounted
    <3>3. refs[s] \in Int /\ held[s] \in Int
      BY <1>3
    <3>4. QED
      BY <3>1, <3>2, <3>3, <1>4
  <2>2. QED
    BY <2>1 DEF RecordsAccounted
<1>9. QED
  BY <1>6, <1>7, <1>8 DEF IInv

\* The invariant depends on the variables alone.
LEMMA StutterStep == IInv /\ UNCHANGED vars => IInv'
BY DEF IInv, vars, srvVars, envVars, readerVars, seenVars, TypeOK, WireOK,
       BufOK, ControlOK, RecordsAccounted, Owned, Unread

\* IInv is an invariant: every step of every party preserves it.
THEOREM Inductive == Spec => []IInv
<1>1. IInv /\ [Next]_vars => IInv'
  <2> SUFFICES ASSUME IInv, [Next]_vars PROVE IInv'
    OBVIOUS
  <2>1. CASE Server
    BY <2>1, SendOtherStep, SendBatchStep, ServerEndStep DEF Server
  <2>2. CASE Env
    BY <2>2, EnvStep
  <2>3. CASE Fill
    BY <2>3, RecvNothingStep, RecvBatchStep, RecvUndecodableStep,
       RecvErrorStep, RecvEOFStep DEF Fill
  <2>4. CASE Consumer
    BY <2>4, ExecutePlanStep, ExecutePlanFailsStep, NextBufferedStep,
       NextFillStep, NextNoMoreStep, RetainStep, ReleaseLastStep, HoldStep
    DEF Consumer, ReaderNext
  <2>5. CASE UNCHANGED vars
    BY <2>5, StutterStep
  <2>6. QED
    BY <2>1, <2>2, <2>3, <2>4, <2>5 DEF Next
<1>2. QED
  BY InitHolds, <1>1, PTL DEF Spec

-----------------------------------------------------------------------------
(* What the invariant gives.                                               *)

\* Every variable stays in its type.
THEOREM TypeCorrect == Spec => []TypeOK
BY Inductive, PTL DEF IInv

\* No record is leaked, released twice or freed while it is current.
THEOREM RecordsAreAccounted == Spec => []RecordsAccounted
BY Inductive, PTL DEF IInv

\* The reader never owns records of more than one batch.
THEOREM MemoryIsBounded == Spec => []OneBatchInMemory
<1>1. ASSUME IInv PROVE OneBatchInMemory
  <2> SUFFICES ASSUME NEW r \in RecordIds, NEW s \in RecordIds,
                      refs[r] > held[r], refs[s] > held[s]
               PROVE  r - s < MaxBatch
    BY DEF OneBatchInMemory
  <2>1. TypeOK /\ BufOK /\ RecordsAccounted
    BY <1>1 DEF IInv
  <2>2. ASSUME NEW x \in RecordIds, refs[x] > held[x]
        PROVE  /\ x >= received - Len(buf) + 1
               /\ x <= received
               /\ Len(buf) > 0
    <3>1. held[x] \in Int /\ refs[x] = Owned(x) + held[x]
      BY <2>1 DEF TypeOK, RecordsAccounted
    <3>2. x = cur \/ x \in Unread
      BY <2>2, <3>1 DEF Owned
    <3>3. /\ received \in Nat /\ delivered \in Nat /\ bufPos \in Nat
          /\ Len(buf) \in Nat /\ x \in Int /\ x # Nil
      BY <2>1 DEF TypeOK, RecordIds, Nil
    <3>4. CASE pc # "gone"
      <4>1. Unread = delivered + 1 .. received
        BY <2>1, <3>4, UnreadIsInterval
      <4>2. delivered = (received - Len(buf)) + bufPos
        BY <2>1, <3>4 DEF BufOK
      <4>3. CASE x = cur
        <5>1. pc = "idle" /\ x = delivered /\ bufPos >= 1 /\ bufPos <= Len(buf)
          BY <4>3, <2>1, <3>3 DEF BufOK
        <5>2. QED
          BY <5>1, <4>2, <3>3
      <4>4. CASE x \in Unread
        BY <4>4, <4>1, <4>2, <3>3
      <4>5. QED
        BY <3>2, <4>3, <4>4
    <3>5. CASE pc = "gone"
      BY <3>5, <3>2, <3>3, <2>1, UnreadWhenGone DEF BufOK
    <3>6. QED
      BY <3>4, <3>5
  <2>3. Len(buf) <= MaxBatch /\ Len(buf) \in Nat /\ received \in Nat
    BY <2>1 DEF TypeOK, BufOK
  <2>4. /\ r >= received - Len(buf) + 1 /\ r <= received
        /\ s >= received - Len(buf) + 1 /\ s <= received
    BY <2>2
  <2>5. r \in Int /\ s \in Int
    BY DEF RecordIds
  <2>6. QED
    BY <2>3, <2>4, <2>5, BoundsAssumption
<1>2. QED
  BY Inductive, <1>1, PTL

\* "End of result" is only said of a result that was delivered in full.
THEOREM CleanEnd == Spec => []CleanEndIsComplete
<1>1. IInv => CleanEndIsComplete
  BY DEF IInv, ControlOK, TypeOK, CleanEndIsComplete
<1>2. QED
  BY Inductive, <1>1, PTL

\* An error or the end is reported after all that was decoded before it.
THEOREM NothingDropped == Spec => []NothingDroppedBeforeEnd
<1>1. ASSUME IInv, pc = "idle", told \in {"end", "error"}
      PROVE  delivered = received
  <2>1. CASE told = "end"
    BY <1>1, <2>1 DEF IInv, ControlOK
  <2>2. CASE told = "error"
    <3>1. bufPos = Len(buf)
      BY <1>1, <2>2 DEF IInv, ControlOK
    <3>2. delivered = (received - Len(buf)) + bufPos
      BY <1>1 DEF IInv, BufOK
    <3>3. received \in Nat /\ Len(buf) \in Nat
      BY <1>1 DEF IInv, TypeOK
    <3>4. QED
      BY <3>1, <3>2, <3>3
  <2>3. QED
    BY <1>1, <2>1, <2>2
<1>2. IInv => NothingDroppedBeforeEnd
  BY <1>1 DEF NothingDroppedBeforeEnd
<1>3. QED
  BY Inductive, <1>2, PTL

\* The stream's context lives as long as somebody holds the reader.
THEOREM StreamIsOwned == Spec => []StreamOwned
<1>1. IInv => StreamOwned
  BY DEF IInv, ControlOK, StreamOwned
<1>2. QED
  BY Inductive, <1>1, PTL

\* A reader in the consumer's hands knows its schema.
THEOREM SchemaIsKnown == Spec => []SchemaKnown
<1>1. IInv => SchemaKnown
  BY DEF IInv, ControlOK, SchemaKnown
<1>2. QED
  BY Inductive, <1>1, PTL

\* Once done is set the reader is not in Recv.
THEOREM DoneMeansDone == Spec => []NoRecvAfterDone
<1>1. IInv => NoRecvAfterDone
  BY DEF IInv, ControlOK, NoRecvAfterDone, Receiving
<1>2. QED
  BY Inductive, <1>1, PTL

-----------------------------------------------------------------------------
(* What one step may do to the things a consumer sees.                     *)

\* The next record, and why it is the next one.
DeliverEffect ==
    /\ delivered' = delivered + 1 /\ cur' = delivered' /\ told' = "record"
    /\ told \in {"none", "record"} /\ delivered < produced
    /\ UNCHANGED <<produced, srv, err>>
    /\ pc \in {"idle", "next"} => schema' = schema

QuietEffect ==
    /\ UNCHANGED <<delivered, told>>
    /\ pc \in {"idle", "next"} => schema' = schema

\* Every step that is not quiet, with what makes it legal.
LEMMA StepEffect ==
  ASSUME IInv, Next
  PROVE  \/ DeliverEffect
         \/ QuietEffect /\ UNCHANGED <<produced, srv, err>>
         \/ QuietEffect /\ UNCHANGED <<srv, err>> /\ srv = "running"
            /\ produced' \in produced..MaxRecords
         \/ QuietEffect /\ UNCHANGED <<produced, err>>
            /\ srv \in {"idle", "running"}
         \/ /\ told' = "error" /\ told \in {"none", "record"}
            /\ UNCHANGED <<delivered, produced, srv>>
            /\ pc \in {"idle", "next"} => schema' = schema
         \/ /\ told' = "end" /\ told \in {"none", "record", "end"}
            /\ srv = "eof" /\ delivered = produced
            /\ UNCHANGED <<delivered, produced, srv, err>>
            /\ pc \in {"idle", "next"} => schema' = schema
<1>1. CASE SendOther \/ SendBatch
  <2>1. produced \in Nat
    BY DEF IInv, TypeOK
  <2>2. PICK m : /\ Send(m) /\ m.n \in Nat /\ produced + m.n <= MaxRecords
    <3>1. CASE SendOther
      <4>1. PICK k \in {"other", "empty"} :
              Send([kind |-> k, first |-> produced + 1, n |-> 0,
                    fault |-> "none"])
        BY <3>1 DEF SendOther
      <4>2. produced + 0 <= MaxRecords
        BY BoundsAssumption DEF IInv, TypeOK
      <4>3. QED
        BY <4>1, <4>2
    <3>2. CASE SendBatch
      <4>1. PICK n \in 0..MaxBatch, f \in {"none", "oversize", "header", "body"} :
              /\ produced + n <= MaxRecords
              /\ Send([kind |-> "batch", first |-> produced + 1, n |-> n,
                       fault |-> f])
        BY <3>2 DEF SendBatch
      <4>2. n \in Nat
        BY <4>1, BoundsAssumption
      <4>3. QED
        BY <4>1, <4>2
    <3>3. QED
      BY <1>1, <3>1, <3>2
  <2>3. /\ srv = "running" /\ produced' = produced + m.n
        /\ UNCHANGED <<srv, err, delivered, told, schema>>
    BY <2>2 DEF Send, readerVars, seenVars
  <2>4. produced' \in produced..MaxRecords
    BY <2>1, <2>2, <2>3, BoundsAssumption
  <2>5. QED
    BY <2>3, <2>4 DEF QuietEffect
<1>2. CASE EndStream \/ StopCancelled \/ ExecutePlan
  <2>1. srv \in {"idle", "running"}
    BY <1>2 DEF EndStream, StopCancelled, ExecutePlan, IInv, ControlOK
  <2>2. UNCHANGED <<produced, err, delivered, told, schema>>
    BY <1>2 DEF EndStream, StopCancelled, ExecutePlan, readerVars, seenVars
  <2>3. QED
    BY <2>1, <2>2 DEF QuietEffect
<1>3. CASE Env \/ Retain \/ ReleaseSome \/ ReleaseLast \/ KeepRecord
           \/ DropRecord \/ NextFill
  <2>1. UNCHANGED <<produced, srv, err, delivered, told, schema>>
    BY <1>3 DEF Env, EndContext, CloseConn, Retain, ReleaseSome, ReleaseLast,
       KeepRecord, DropRecord, NextFill, CallNext, srvVars, readerVars, seenVars
  <2>2. QED
    BY <2>1 DEF QuietEffect
<1>4. CASE ExecutePlanFails
  <2>1. pc = "start" /\ told \in {"none", "record"}
    BY <1>4 DEF ExecutePlanFails, IInv, ControlOK
  <2>2. QED
    BY <2>1, <1>4 DEF ExecutePlanFails, srvVars
<1>5. CASE RecvNothing
  <2>1. UNCHANGED <<produced, srv, err, delivered, told>>
    BY <1>5 DEF RecvNothing, Take, srvVars, seenVars
  <2>2. pc = "next" => schema' = schema
    BY <1>5 DEF RecvNothing, CapturedSchema, IInv, ControlOK
  <2>3. pc # "idle"
    BY <1>5 DEF RecvNothing, Take, Receiving
  <2>4. QED
    BY <2>1, <2>2, <2>3 DEF QuietEffect
<1>6. CASE RecvBatch
  <2>1. /\ Len(buf') \in Nat /\ Len(buf') > 0
        /\ received' = received + Len(buf') /\ received' \in Nat
        /\ received' <= produced /\ schema' = CapturedSchema
        /\ \/ pc = "prime" /\ UNCHANGED <<delivered, told>>
           \/ pc = "next" /\ cur' = received + 1
              /\ delivered' = received + 1 /\ told' = "record"
        /\ UNCHANGED <<srv, produced, err>> /\ delivered = received
    BY <1>6, BatchFacts
  <2>2. received \in Nat /\ produced \in Nat
    BY DEF IInv, TypeOK
  <2>3. received < produced
    BY <2>1, <2>2
  <2>4. pc = "next" => schema' = schema /\ told \in {"none", "record"}
    BY <2>1 DEF CapturedSchema, IInv, ControlOK
  <2>5. QED
    BY <2>1, <2>3, <2>4 DEF DeliverEffect, QuietEffect
<1>7. CASE RecvUndecodable \/ RecvError
  <2>1. /\ pc \in {"prime", "next"} /\ told' = "error"
        /\ UNCHANGED <<delivered, produced, srv>>
        /\ schema' = schema \/ schema' = CapturedSchema
    BY <1>7 DEF RecvUndecodable, RecvError, FailWith, Take, Receiving, srvVars
  <2>2. told \in {"none", "record"} /\ (pc = "next" => schema # "nil")
    BY <2>1 DEF IInv, ControlOK
  <2>3. QED
    BY <2>1, <2>2 DEF CapturedSchema
<1>8. CASE RecvEOF
  <2>1. /\ pc \in {"prime", "next"} /\ wire = <<>> /\ srv = "eof"
        /\ \/ pc = "prime" /\ told' = told
           \/ pc = "next" /\ told' = "end" /\ schema' = schema
        /\ UNCHANGED <<delivered, produced, srv, err>>
    BY <1>8 DEF RecvEOF, Receiving, srvVars
  <2>2. told \in {"none", "record"} /\ done = "no" /\ buf = <<>> /\ bufPos = 0
        /\ delivered = (received - Len(buf)) + bufPos
    BY <2>1 DEF IInv, ControlOK, BufOK
  <2>3. received = produced /\ received \in Nat
    BY <2>1, <2>2 DEF IInv, WireOK, TypeOK
  <2>4. delivered = produced
    <3>1. Len(buf) = 0
      BY <2>2
    <3>2. QED
      BY <3>1, <2>2, <2>3
  <2>5. QED
    BY <2>1, <2>2, <2>4 DEF QuietEffect
<1>9. CASE NextBuffered
  <2>1. /\ pc = "idle" /\ bufPos < Len(buf) /\ cur' = buf[bufPos + 1]
        /\ delivered' = cur' /\ told' = "record" /\ err = "none"
        /\ UNCHANGED <<produced, srv, err, schema>>
    BY <1>9 DEF NextBuffered, CallNext, srvVars
  <2>2. /\ delivered \in Nat /\ received \in Nat /\ bufPos \in Nat
        /\ Len(buf) \in Nat
        /\ delivered = (received - Len(buf)) + bufPos
    BY <2>1, IdleFacts
  <2>3. cur' = (received - Len(buf)) + (bufPos + 1)
    <3>1. bufPos + 1 \in 1..Len(buf)
      BY <2>1, <2>2
    <3>2. QED
      BY <3>1, <2>1 DEF IInv, BufOK
  <2>4. delivered < received /\ cur' = delivered + 1
    BY <2>1, <2>2, <2>3
  <2>5. delivered < produced
    BY <2>2, <2>4 DEF IInv, WireOK, TypeOK
  <2>6. told \in {"none", "record"}
    <3>1. told # "end"
      BY <2>1, <2>2 DEF IInv, ControlOK
    <3>2. told # "error"
      BY <2>1 DEF IInv, ControlOK
    <3>3. QED
      BY <3>1, <3>2 DEF IInv, TypeOK
  <2>7. QED
    BY <2>1, <2>4, <2>5, <2>6 DEF DeliverEffect
<1>10. CASE NextNoMore
  <2>1. /\ pc = "idle"
        /\ \/ err # "none" /\ told' = "error"
           \/ /\ err = "none" /\ bufPos >= Len(buf) /\ done = "yes"
              /\ told' = "end"
        /\ UNCHANGED <<produced, srv, err, schema, delivered>>
    BY <1>10 DEF NextNoMore, CallNext, srvVars
  <2>2. /\ delivered = (received - Len(buf)) + bufPos /\ received \in Nat
        /\ bufPos \in Nat /\ Len(buf) \in Nat /\ bufPos <= Len(buf)
    BY <2>1, IdleFacts
  <2>3. err # "none" => told = "error"
    BY DEF IInv, ControlOK
  <2>4. CASE err # "none"
    BY <2>1, <2>3, <2>4 DEF QuietEffect
  <2>5. CASE err = "none"
    <3>1. srv = "eof" /\ received = produced /\ told # "error"
      BY <2>1, <2>5 DEF IInv, ControlOK
    <3>2. delivered = produced
      BY <2>1, <2>2, <2>5, <3>1
    <3>3. told \in {"none", "record", "end"}
      BY <3>1 DEF IInv, TypeOK
    <3>4. QED
      BY <2>1, <2>5, <3>1, <3>2, <3>3
  <2>6. QED
    BY <2>4, <2>5
<1>11. QED
  BY <1>1, <1>2, <1>3, <1>4, <1>5, <1>6, <1>7, <1>8, <1>9, <1>10
  DEF Next, Server, Fill, Consumer, ReaderNext

\* Records are delivered in order, none twice and none left out.
THEOREM InOrder == Spec => DeliveryInOrder
<1>1. IInv /\ [Next]_vars =>
        [delivered' # delivered =>
           delivered' = delivered + 1 /\ cur' = delivered']_vars
  BY StepEffect DEF DeliverEffect, QuietEffect
<1>2. QED
  BY Inductive, <1>1, PTL DEF Spec, DeliveryInOrder

\* What Next said when it returned false it says for ever.
THEOREM OutcomeStays == Spec => OutcomeIsFinal
<1>1. ASSUME IInv, Next
      PROVE  /\ told = "error" => told' = "error" /\ err' = err
             /\ told = "end" => told' = "end" /\ err' = "none"
  <2>1. told = "end" => err = "none"
    BY <1>1 DEF IInv, ControlOK
  <2>2. QED
    BY <1>1, <2>1, StepEffect DEF DeliverEffect, QuietEffect
<1>2. IInv /\ [Next]_vars =>
        [/\ told = "error" => told' = "error" /\ err' = err
         /\ told = "end" => told' = "end" /\ err' = "none"]_vars
  BY <1>1
<1>3. QED
  BY Inductive, <1>2, PTL DEF Spec, OutcomeIsFinal

\* The schema a consumer has read does not change.
THEOREM SchemaStays == Spec => SchemaFixed
<1>1. IInv /\ [Next]_vars =>
        [(pc \in {"idle", "next"}) => schema' = schema]_vars
  BY StepEffect DEF DeliverEffect, QuietEffect
<1>2. QED
  BY Inductive, <1>1, PTL DEF Spec, SchemaFixed

\* The reader keeps what RecordStream promises: its initial states are initial
\* there, and each of its steps is a step there or changes nothing there.
THEOREM Refinement == Spec => ImplementsRecordStream
<1>1. Init => Promise!Init
  BY DEF Init, Promise!Init
<1>2. ASSUME IInv, [Next]_vars PROVE [Promise!Next]_(Promise!svars)
  <2>1. CASE UNCHANGED vars
    BY <2>1 DEF vars, srvVars, seenVars, Promise!svars
  <2>2. CASE Next
    <3> USE DEF Promise!Next, Promise!Grow, Promise!End, Promise!Deliver,
                Promise!SayEnd, Promise!SayError, Promise!svars
    <3>1. CASE DeliverEffect
      BY <3>1 DEF DeliverEffect
    <3>2. CASE QuietEffect /\ UNCHANGED <<produced, srv, err>>
      BY <3>2 DEF QuietEffect
    <3>3. CASE QuietEffect /\ UNCHANGED <<srv, err>> /\ srv = "running"
               /\ produced' \in produced..MaxRecords
      BY <3>3 DEF QuietEffect
    <3>4. CASE QuietEffect /\ UNCHANGED <<produced, err>>
               /\ srv \in {"idle", "running"}
      BY <3>4 DEF QuietEffect
    <3>5. CASE /\ told' = "error" /\ told \in {"none", "record"}
               /\ UNCHANGED <<delivered, produced, srv>>
      BY <3>5
    <3>6. CASE /\ told' = "end" /\ told \in {"none", "record", "end"}
               /\ srv = "eof" /\ delivered = produced
               /\ UNCHANGED <<delivered, produced, srv, err>>
      BY <3>6
    <3>7. QED
      BY <1>2, <2>2, <3>1, <3>2, <3>3, <3>4, <3>5, <3>6, StepEffect
  <2>3. QED
    BY <1>2, <2>1, <2>2
<1>3. QED
  BY Inductive, <1>1, <1>2, PTL
  DEF Spec, ImplementsRecordStream, Promise!Spec

=============================================================================
