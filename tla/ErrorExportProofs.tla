--------------------------- MODULE ErrorExportProofs ---------------------------
(***************************************************************************)
(* Proofs about ErrorExport, for any structs of the caller, any heap and   *)
(* any result.  The operators that fill and release a struct come first:   *)
(* what they own afterwards, and what they leave alone.                    *)
(***************************************************************************)
EXTENDS ErrorExport, FiniteSetTheorems, TLAPS

\* What a struct owns.
Own(err) == IF err.release = "NULL" THEN {}
            ELSE IF err.release = "details" THEN {err.message, err.private_data}
            ELSE {err.message}

\* A struct that can be released, and one that the caller can have passed.
Whole(err) ==
    /\ err \in AdbcError
    /\ err.release # "NULL" => err.message # Null
    /\ err.release = "details" => err.private_data # Null
    /\ err.release # "details" => err.private_data = Null

Sound(err) ==
    /\ Whole(err)
    /\ err.release = "details" => err.vendor_code = "PRIVATE"

Holding == [err : AdbcError, live : SUBSET Blocks]

TwoFree(heap) == \E b, c \in Blocks \ heap : b # c

-----------------------------------------------------------------------------
(* The operators.                                                          *)

LEMMA NullIsNoBlock == Null \notin Blocks
  BY Heap DEF Null

LEMMA NoStructIsNoError == NoStruct \notin AdbcError
  BY DEF NoStruct, AdbcError

LEMMA MallocFree ==
  ASSUME NEW heap, \E b \in Blocks : b \notin heap
  PROVE  Malloc(heap) \in Blocks /\ Malloc(heap) \notin heap
  BY DEF Malloc

LEMMA GuardMeansTwo ==
  ASSUME NEW heap, Cardinality(Blocks \ heap) >= 2
  PROVE  TwoFree(heap)
<1> SUFFICES ASSUME ~TwoFree(heap) PROVE FALSE
  OBVIOUS
<1>1. CASE Blocks \ heap = {}
  BY <1>1, FS_EmptySet
<1>2. CASE Blocks \ heap # {}
  <2>1. PICK b : b \in Blocks \ heap
    BY <1>2
  <2>2. Blocks \ heap = {b}
    BY <2>1 DEF TwoFree
  <2>3. Cardinality({b}) = 1
    BY FS_Singleton
  <2> QED
    BY <2>2, <2>3
<1> QED
  BY <1>1, <1>2

\* A released struct owns nothing, and just what it owned is free again.
LEMMA ReleasedFrees ==
  ASSUME NEW s \in Holding, Whole(s.err)
  PROVE  /\ Sound(Released(s).err)
         /\ Released(s).err.release = "NULL"
         /\ Released(s).err.vendor_code = s.err.vendor_code
         /\ Released(s).live = s.live \ Own(s.err)
<1>1. CASE s.err.release = "plain"
  BY <1>1 DEF Released, Own, Sound, Whole, AdbcError, Null, Holding
<1>2. CASE s.err.release = "details"
  BY <1>2 DEF Released, Own, Sound, Whole, AdbcError, Zeroed, Null, Holding
<1>3. CASE s.err.release = "NULL"
  BY <1>3 DEF Released, Own, Sound, Whole, AdbcError, Null, Holding
<1> QED
  BY <1>1, <1>2, <1>3 DEF AdbcError, Holding

\* setErr leaves one block of its own, which nobody else has.
LEMMA SetErrOwns ==
  ASSUME NEW s \in Holding, Whole(s.err), TwoFree(s.live)
  PROVE  LET t == setErr(s) IN
         /\ t \in Holding /\ Sound(t.err) /\ t.err.release # "NULL"
         /\ t.err.vendor_code = s.err.vendor_code
         /\ Own(t.err) \cap (s.live \ Own(s.err)) = {}
         /\ t.live = (s.live \ Own(s.err)) \cup Own(t.err)
<1> DEFINE r == Released(s)  b == Malloc(r.live)
<1>1. /\ Sound(r.err) /\ r.err.release = "NULL"
      /\ r.err.vendor_code = s.err.vendor_code
      /\ r.live = s.live \ Own(s.err)
  BY ReleasedFrees
<1>2. \E c \in Blocks : c \notin r.live
  BY <1>1 DEF TwoFree
<1>3. b \in Blocks /\ b \notin r.live
  BY <1>2, MallocFree
<1>4. setErr(s) = [err  |-> [r.err EXCEPT !.message = b, !.release = "plain"],
                   live |-> r.live \cup {b}]
  BY DEF setErr
<1> HIDE DEF r, b
<1>5. b # Null
  BY <1>3, NullIsNoBlock
<1> DEFINE e == [r.err EXCEPT !.message = b, !.release = "plain"]
<1>6. /\ e \in AdbcError
      /\ e.message = b /\ e.release = "plain" /\ e.private_data = Null
      /\ e.vendor_code = s.err.vendor_code
  BY <1>1, <1>3 DEF Sound, Whole, AdbcError
<1>8. setErr(s) = [err |-> e, live |-> (s.live \ Own(s.err)) \cup {b}]
  BY <1>1, <1>4
<1> HIDE DEF e
<1>7. Sound(e) /\ Own(e) = {b}
  BY <1>5, <1>6 DEF Sound, Whole, Own
<1>9. e.release # "NULL"
  BY <1>6
<1> QED
  BY <1>1, <1>3, <1>6, <1>7, <1>8, <1>9 DEF Holding

\* A SparkError is two new blocks; what the struct owned is lost.
LEMMA DetailsOwn ==
  ASSUME NEW s \in Holding, Sound(s.err), TwoFree(s.live),
         s.err.vendor_code = "PRIVATE"
  PROVE  LET t == AllocateDetails(s) IN
         /\ t \in Holding /\ Sound(t.err) /\ t.err.release # "NULL"
         /\ t.err.vendor_code = "PRIVATE"
         /\ Own(t.err) \cap s.live = {}
         /\ t.live = s.live \cup Own(t.err)
<1> DEFINE b == Malloc(s.live)  c == Malloc(s.live \cup {b})
<1>1. b \in Blocks /\ b \notin s.live
  BY MallocFree DEF TwoFree
<1>2. \E d \in Blocks : d \notin s.live \cup {b}
  BY DEF TwoFree
<1>3. c \in Blocks /\ c \notin s.live \cup {b}
  BY <1>2, MallocFree
<1>4. AllocateDetails(s) =
        [err  |-> [s.err EXCEPT !.message = b, !.release = "details", !.private_data = c],
         live |-> s.live \cup {b, c}]
  BY DEF AllocateDetails
<1> HIDE DEF b, c
<1>5. b # Null /\ c # Null
  BY <1>1, <1>3, NullIsNoBlock
<1> DEFINE e == [s.err EXCEPT !.message = b, !.release = "details", !.private_data = c]
<1>6. /\ e \in AdbcError
      /\ e.message = b /\ e.release = "details" /\ e.private_data = c
      /\ e.vendor_code = "PRIVATE"
  BY <1>1, <1>3 DEF Sound, Whole, AdbcError
<1>8. AllocateDetails(s) = [err |-> e, live |-> s.live \cup {b, c}]
  BY <1>4
<1> HIDE DEF e
<1>7. Sound(e) /\ Own(e) = {b, c}
  BY <1>5, <1>6 DEF Sound, Whole, Own
<1>9. e.release # "NULL"
  BY <1>6
<1> QED
  BY <1>1, <1>3, <1>6, <1>7, <1>8, <1>9 DEF Holding

\* A code that is stored changes nothing else.
LEMMA SetCodeKeeps ==
  ASSUME NEW s \in Holding, Whole(s.err), NEW c \in VendorCodes
  PROVE  LET t == SetCode(s, c) IN
         /\ t \in Holding /\ Whole(t.err) /\ t.err.vendor_code = c
         /\ t.live = s.live /\ Own(t.err) = Own(s.err)
         /\ t.err.release = s.err.release /\ t.err.message = s.err.message
  BY DEF SetCode, Holding, Whole, Own, AdbcError

\* Whatever the error: the struct is filled with blocks that nobody else has,
\* and nothing of anybody else's is freed.
LEMMA FailOwns ==
  ASSUME NEW s \in Holding, Sound(s.err), TwoFree(s.live), NEW err \in Errors
  PROVE  LET t == errToAdbcErr(s, err) IN
         /\ t \in Holding /\ Sound(t.err) /\ t.err.release # "NULL"
         /\ Own(t.err) \subseteq t.live
         /\ Own(t.err) \cap (s.live \ Own(s.err)) = {}
         /\ s.live \ Own(s.err) \subseteq t.live
         /\ Own(s.err) = {} => t.live = s.live \cup Own(t.err)
         /\ s.err.vendor_code # "PRIVATE" => t.err.vendor_code # "PRIVATE"
<1> DEFINE Filled1(u, t) ==
             /\ t \in Holding /\ Sound(t.err) /\ t.err.release # "NULL"
             /\ t.err.vendor_code = u.err.vendor_code
             /\ Own(t.err) \cap (u.live \ Own(u.err)) = {}
             /\ t.live = (u.live \ Own(u.err)) \cup Own(t.err)
<1>1. Filled1(s, setErr(s))
  BY SetErrOwns DEF Sound
<1>2. ASSUME NEW c \in VendorCodes
      PROVE  /\ Filled1(SetCode(s, c), setErr(SetCode(s, c)))
             /\ SetCode(s, c).err.vendor_code = c
             /\ SetCode(s, c).live = s.live /\ Own(SetCode(s, c).err) = Own(s.err)
  <2> DEFINE u == SetCode(s, c)
  <2>1. /\ u \in Holding /\ Whole(u.err) /\ u.err.vendor_code = c
        /\ u.live = s.live /\ Own(u.err) = Own(s.err)
    BY SetCodeKeeps DEF Sound
  <2> HIDE DEF u
  <2>2. TwoFree(u.live)
    BY <2>1
  <2>3. Filled1(u, setErr(u))
    BY <2>1, <2>2, SetErrOwns
  <2> QED
    BY <2>1, <2>3 DEF u
<1>3. ASSUME s.err.vendor_code = "PRIVATE"
      PROVE  LET t == AllocateDetails(s) IN
             /\ t \in Holding /\ Sound(t.err) /\ t.err.release # "NULL"
             /\ Own(t.err) \cap s.live = {}
             /\ t.live = s.live \cup Own(t.err)
  BY <1>3, DetailsOwn
<1>4. CASE err = "plain"
  BY <1>1, <1>4 DEF errToAdbcErr
<1>5. CASE err # "plain" /\ s.err.vendor_code # "PRIVATE"
  <2>1. err \in VendorCodes
    BY <1>5 DEF Errors
  <2>2. CASE err = "PRIVATE"
    <3>1. errToAdbcErr(s, err) = setErr(s)
      BY <1>5, <2>2 DEF errToAdbcErr, setErrWithDetails
    <3> QED
      BY <1>1, <1>5, <3>1
  <2>3. CASE err # "PRIVATE"
    <3>1. errToAdbcErr(s, err) = setErr(SetCode(s, err))
      BY <1>5, <2>3 DEF errToAdbcErr, setErrWithDetails
    <3> QED
      BY <1>2, <2>1, <2>3, <3>1
  <2> QED
    BY <2>2, <2>3
<1>6. CASE err # "plain" /\ s.err.vendor_code = "PRIVATE" /\ err \in {"0", "PRIVATE"}
  <2>1. errToAdbcErr(s, err) = AllocateDetails(s)
    BY <1>6 DEF errToAdbcErr, setErrWithDetails
  <2> QED
    BY <1>3, <1>6, <2>1
<1>7. CASE err # "plain" /\ s.err.vendor_code = "PRIVATE" /\ err \notin {"0", "PRIVATE"}
  <2>1. err \in VendorCodes
    BY <1>7 DEF Errors
  <2>2. errToAdbcErr(s, err) = setErr(SetCode(s, err))
    BY <1>7 DEF errToAdbcErr, setErrWithDetails
  <2> QED
    BY <1>2, <1>7, <2>1, <2>2
<1> QED
  BY <1>4, <1>5, <1>6, <1>7 DEF Errors

-----------------------------------------------------------------------------
(* The inductive invariant.                                                *)

OwnStream == IF adbcErr = NoStruct THEN {} ELSE Own(adbcErr)

Typed ==
    /\ structs \in [Structs -> AdbcError] /\ live \subseteq Blocks
    /\ adbcErr \in AdbcError \cup {NoStruct}
    /\ fault \in Errors /\ discipline \in {"tidy", "reuse"}

AllSound ==
    /\ \A e \in Structs : Sound(structs[e])
    /\ adbcErr # NoStruct => Sound(adbcErr) /\ adbcErr.release # "NULL"

\* The owners are the structs and the stream; they share nothing, own what is
\* live, and all of it where the caller is tidy.
Apart ==
    /\ \A e \in Structs : Own(structs[e]) \subseteq live
    /\ OwnStream \subseteq live
    /\ \A e, f \in Structs : e # f => Own(structs[e]) \cap Own(structs[f]) = {}
    /\ \A e \in Structs : Own(structs[e]) \cap OwnStream = {}
    /\ discipline = "tidy" =>
           \A b \in live : b \in OwnStream \/ \E e \in Structs : b \in Own(structs[e])

OldStaysOld == \A e \in Old : structs[e].vendor_code # "PRIVATE"

\* What get_last_error returned is the stream's own message.
HeldIsOwn == held # Null => adbcErr # NoStruct /\ held = adbcErr.message

IInv == Typed /\ AllSound /\ Apart /\ OldStaysOld /\ HeldIsOwn /\ StreamErrorIsReaders

LEMMA HeldIsOwned ==
  ASSUME AllSound, HeldIsOwn, held # Null
  PROVE  held \in OwnStream
<1>1. adbcErr # NoStruct /\ held = adbcErr.message /\ adbcErr.release # "NULL"
  BY DEF HeldIsOwn, AllSound
<1> QED
  BY <1>1 DEF Own, OwnStream

LEMMA ZeroedSound ==
  ASSUME NEW c \in VendorCodes
  PROVE  Sound(Zeroed(c)) /\ Own(Zeroed(c)) = {} /\ Zeroed(c).vendor_code = c
  BY DEF Zeroed, Sound, Whole, Own, AdbcError, Null

LEMMA InitIInv == Init => IInv
<1> SUFFICES ASSUME Init PROVE IInv
  OBVIOUS
<1>1. \A e \in Structs : \E c \in VendorCodes :
         structs[e] = Zeroed(c) /\ (e \in Old => c = "0")
  BY StructsApart DEF Init, VendorCodes, Structs
<1>2. Typed
  <2>1. \A c \in VendorCodes : Zeroed(c) \in AdbcError
    BY ZeroedSound DEF Sound, Whole
  <2> QED
    BY <2>1 DEF Init, Typed, VendorCodes
<1>3. AllSound
  BY <1>1, ZeroedSound DEF Init, AllSound
<1>4. Apart
  BY <1>1, ZeroedSound DEF Init, Apart, OwnStream
<1>5. OldStaysOld
  BY <1>1, ZeroedSound DEF OldStaysOld, Structs
<1>6. StreamErrorIsReaders /\ HeldIsOwn
  BY DEF Init, StreamErrorIsReaders, HeldIsOwn, R!Init
<1> QED
  BY <1>2, <1>3, <1>4, <1>5, <1>6 DEF IInv

\* A struct that is filled or released, whoever does it: what it gives up was
\* its own, and what it takes was nobody's.
LEMMA StructChanges ==
  ASSUME IInv, NEW e \in Structs, NEW t \in Holding,
         Sound(t.err), Own(t.err) \subseteq t.live,
         Own(t.err) \cap (live \ Own(structs[e])) = {},
         live \ Own(structs[e]) \subseteq t.live,
         discipline = "tidy" => t.live \subseteq (live \ Own(structs[e])) \cup Own(t.err),
         e \in Old => t.err.vendor_code # "PRIVATE",
         structs' = [structs EXCEPT ![e] = t.err], live' = t.live,
         UNCHANGED <<discipline, streamVars, readerVars>>
  PROVE  IInv'
<1> USE DEF IInv
<1>1. \A f \in Structs : structs'[f] = IF f = e THEN t.err ELSE structs[f]
  BY DEF Typed
<1>2. adbcErr' = adbcErr /\ OwnStream' = OwnStream /\ discipline' = discipline
  BY DEF streamVars, OwnStream
<1>3. Typed'
  BY <1>1 DEF Typed, Holding, streamVars
<1>4. AllSound'
  BY <1>1, <1>2 DEF AllSound
<1>5. Apart'
  <2>1. \A f \in Structs : f # e => Own(structs[f]) \subseteq live \ Own(structs[e])
    BY DEF Apart
  <2>2. OwnStream \subseteq live \ Own(structs[e])
    BY DEF Apart
  <2>3. (\A f \in Structs : Own(structs[f]) \subseteq live)' /\ (OwnStream \subseteq live)'
    BY <1>1, <1>2, <2>1, <2>2
  <2>4. (\A f, g \in Structs : f # g => Own(structs[f]) \cap Own(structs[g]) = {})'
    BY <1>1, <2>1 DEF Apart
  <2>5. (\A f \in Structs : Own(structs[f]) \cap OwnStream = {})'
    BY <1>1, <1>2, <2>2 DEF Apart
  <2>6. (discipline = "tidy" => \A b \in live :
            b \in OwnStream \/ \E f \in Structs : b \in Own(structs[f]))'
    <3> SUFFICES ASSUME discipline = "tidy", NEW b \in live'
                 PROVE  b \in OwnStream \/ \E f \in Structs : b \in Own(structs'[f])
      BY <1>2
    <3>1. CASE b \in Own(t.err)
      BY <1>1, <3>1
    <3>2. CASE b \in live /\ b \notin Own(structs[e])
      BY <1>1, <3>2 DEF Apart
    <3> QED
      BY <3>1, <3>2
  <2> QED
    BY <2>3, <2>4, <2>5, <2>6 DEF Apart
<1>6. OldStaysOld'
  BY <1>1 DEF OldStaysOld, Structs
<1>7. StreamErrorIsReaders'
  <2>1. held' = held /\ HeldIsOwn'
    BY DEF streamVars, HeldIsOwn
  <2>2. held' # Null => held' \in live'
    BY <1>2, <1>5, <2>1, HeldIsOwned DEF Apart
  <2> QED
    BY <2>1, <2>2 DEF StreamErrorIsReaders, streamVars, readerVars
<1> QED
  BY <1>3, <1>4, <1>5, <1>6, <1>7 DEF HeldIsOwn, streamVars

\* The caller's structs.
LEMMA FailKeeps == ASSUME IInv, NEW e \in Structs, FailCall(e) PROVE IInv'
<1> DEFINE s == [err |-> structs[e], live |-> live]
<1>1. s \in Holding /\ s.err = structs[e] /\ s.live = live /\ Sound(s.err)
  BY DEF IInv, Typed, AllSound, Holding
<1>2. TwoFree(live)
  BY GuardMeansTwo DEF FailCall
<1>3. discipline = "tidy" => Own(structs[e]) = {}
  BY DEF FailCall, Own
<1>4. PICK err \in Errors :
        /\ structs' = [structs EXCEPT ![e] = errToAdbcErr(s, err).err]
        /\ live' = errToAdbcErr(s, err).live
        /\ UNCHANGED <<discipline, streamVars, readerVars>>
  BY DEF FailCall
<1> HIDE DEF s
<1> DEFINE t == errToAdbcErr(s, err)
<1>5. /\ t \in Holding /\ Sound(t.err) /\ Own(t.err) \subseteq t.live
      /\ Own(t.err) \cap (live \ Own(structs[e])) = {}
      /\ live \ Own(structs[e]) \subseteq t.live
      /\ Own(structs[e]) = {} => t.live = live \cup Own(t.err)
      /\ e \in Old => t.err.vendor_code # "PRIVATE"
  BY <1>1, <1>2, FailOwns DEF IInv, OldStaysOld
<1>6. structs' = [structs EXCEPT ![e] = t.err] /\ live' = t.live
  BY <1>4
<1> HIDE DEF t
<1> QED
  BY <1>3, <1>4, <1>5, <1>6, StructChanges

LEMMA ReleaseKeeps == ASSUME IInv, NEW e \in Structs, ReleaseError(e) PROVE IInv'
<1> DEFINE s == [err |-> structs[e], live |-> live]
           t == Released(s)
<1>1. s \in Holding /\ s.err = structs[e] /\ s.live = live /\ Whole(s.err)
  BY DEF IInv, Typed, AllSound, Holding, Sound
<1>2. structs' = [structs EXCEPT ![e] = t.err] /\ live' = t.live
      /\ UNCHANGED <<discipline, streamVars, readerVars>>
  BY DEF ReleaseError
<1> HIDE DEF s
<1>3. /\ Sound(t.err) /\ t.err.release = "NULL"
      /\ t.err.vendor_code = structs[e].vendor_code
      /\ t.live = live \ Own(structs[e])
  BY <1>1, ReleasedFrees
<1>4. t \in Holding
  BY <1>1 DEF Released, Holding, AdbcError, Zeroed
<1> HIDE DEF t
<1>5. Own(t.err) = {} /\ (e \in Old => t.err.vendor_code # "PRIVATE")
  BY <1>3 DEF Own, IInv, OldStaysOld
<1> QED
  BY <1>2, <1>3, <1>4, <1>5, StructChanges

LEMMA ReinitializeKeeps == ASSUME IInv, NEW e \in Structs, Reinitialize(e) PROVE IInv'
<1> DEFINE z == Zeroed(IF e \in New THEN "PRIVATE" ELSE "0")
           t == [err |-> z, live |-> live]
<1>1. Sound(z) /\ Own(z) = {} /\ (e \notin New => z.vendor_code # "PRIVATE")
  BY ZeroedSound DEF VendorCodes
<1>2. structs' = [structs EXCEPT ![e] = z] /\ live' = live
      /\ Own(structs[e]) = {} /\ UNCHANGED <<discipline, streamVars, readerVars>>
  BY DEF Reinitialize, Own
<1> HIDE DEF z
<1>3. t \in Holding /\ t.err = z /\ t.live = live
  BY <1>1 DEF Holding, Sound, Whole, IInv, Typed
<1> HIDE DEF t
<1>4. e \in Old => z.vendor_code # "PRIVATE"
  BY <1>1, StructsApart
<1> QED
  BY <1>1, <1>2, <1>3, <1>4, StructChanges

\* What the stream owns changes: it took what was nobody's and gave up only
\* what was its own.
LEMMA StreamApart ==
  ASSUME Apart, NEW own,
         own \cap (live \ OwnStream) = {},
         live' = (live \ OwnStream) \cup own, OwnStream' = own,
         UNCHANGED callVars
  PROVE  Apart'
<1>1. structs' = structs /\ discipline' = discipline
  BY DEF callVars
<1>2. \A e \in Structs : Own(structs[e]) \subseteq live \ OwnStream
  BY DEF Apart
<1>3. (\A e \in Structs : Own(structs[e]) \subseteq live)' /\ (OwnStream \subseteq live)'
  BY <1>1, <1>2
<1>4. (\A e, f \in Structs : e # f => Own(structs[e]) \cap Own(structs[f]) = {})'
  BY <1>1 DEF Apart
<1>5. (\A e \in Structs : Own(structs[e]) \cap OwnStream = {})'
  BY <1>1, <1>2
<1>6. (discipline = "tidy" => \A b \in live :
          b \in OwnStream \/ \E e \in Structs : b \in Own(structs[e]))'
  BY <1>1 DEF Apart
<1> QED
  BY <1>3, <1>4, <1>5, <1>6 DEF Apart

\* The struct that maybeError fills: nothing is left of the error before.
LEMMA OwnStructIsEmpty ==
  ASSUME IInv
  PROVE  LET s == SetCode(OwnStruct, "PRIVATE") IN
         /\ s \in Holding /\ Sound(s.err) /\ Own(s.err) = {}
         /\ s.live = live \ OwnStream
<1> DEFINE o == OwnStruct
<1>1. CASE adbcErr = NoStruct
  <2>1. o = [err |-> Zeroed("0"), live |-> live]
    BY <1>1 DEF OwnStruct
  <2> QED
    BY <1>1, <2>1, ZeroedSound, SetCodeKeeps
       DEF IInv, Typed, Holding, Sound, Whole, VendorCodes, OwnStream
<1>2. CASE adbcErr # NoStruct
  <2> DEFINE h == [err |-> adbcErr, live |-> live]
  <2>1. h \in Holding /\ h.err = adbcErr /\ h.live = live /\ Whole(h.err)
    BY <1>2 DEF IInv, Typed, AllSound, Sound, Holding
  <2>2. o = Released(h)
    BY <1>2 DEF OwnStruct
  <2> HIDE DEF h
  <2>3. /\ Sound(o.err) /\ o.err.release = "NULL" /\ o.live = live \ OwnStream
    BY <1>2, <2>1, <2>2, ReleasedFrees DEF OwnStream
  <2>4. o \in Holding
    BY <2>1, <2>2 DEF Released, Holding, AdbcError, Zeroed
  <2> HIDE DEF o
  <2>5. Own(o.err) = {}
    BY <2>3 DEF Own
  <2> DEFINE s == SetCode(o, "PRIVATE")
  <2>6. /\ s \in Holding /\ Whole(s.err) /\ s.err.vendor_code = "PRIVATE"
        /\ s.live = o.live /\ Own(s.err) = Own(o.err)
    BY <2>3, <2>4, SetCodeKeeps DEF Sound, VendorCodes
  <2> HIDE DEF s
  <2>7. Sound(s.err) /\ Own(s.err) = {} /\ s.live = live \ OwnStream
    BY <2>3, <2>5, <2>6 DEF Sound
  <2> QED
    BY <2>6, <2>7 DEF s, o
<1> QED
  BY <1>1, <1>2

LEMMA ErrorKeeps ==
  ASSUME IInv, GetNextDone, outcome' = "error"
  PROVE  IInv'
<1> DEFINE s == SetCode(OwnStruct, "PRIVATE")
           t == errToAdbcErr(s, fault)
<1>1. fault \in Errors /\ fault # "nil"
  BY DEF IInv, Typed, Errors, VendorCodes
<1>2. /\ adbcErr' = t.err /\ live' = t.live /\ status' = Status(fault)
      /\ returned' = errno(Status(fault)) /\ held' = Null
      /\ stream = "exported" /\ UNCHANGED <<callVars, stream, fault>>
  BY <1>1 DEF GetNextDone, maybeError
<1>3. s \in Holding /\ Sound(s.err) /\ Own(s.err) = {} /\ s.live = live \ OwnStream
  BY OwnStructIsEmpty
<1> HIDE DEF s
<1>4. TwoFree(live)
  BY GuardMeansTwo DEF GetNextDone
<1>5. TwoFree(s.live)
  BY <1>3, <1>4 DEF TwoFree
<1>6. /\ t \in Holding /\ Sound(t.err) /\ t.err.release # "NULL"
      /\ Own(t.err) \cap s.live = {} /\ t.live = s.live \cup Own(t.err)
  BY <1>1, <1>3, <1>5, FailOwns
<1> HIDE DEF t
<1>7. adbcErr' # NoStruct /\ adbcErr' \in AdbcError
  BY <1>2, <1>6, NoStructIsNoError DEF Sound, Whole
<1>8. OwnStream' = Own(t.err)
  BY <1>2, <1>7 DEF OwnStream
<1>9. Apart'
  BY <1>2, <1>3, <1>6, <1>8, StreamApart DEF IInv
<1>10. Typed' /\ AllSound' /\ OldStaysOld' /\ HeldIsOwn'
  BY <1>2, <1>6, <1>7 DEF IInv, Typed, AllSound, OldStaysOld, HeldIsOwn, callVars, Holding
<1>11. StreamErrorIsReaders'
  BY <1>2, <1>7 DEF StreamErrorIsReaders
<1> QED
  BY <1>9, <1>10, <1>11 DEF IInv

\* A step that leaves structs, blocks and the stream's error alone.
LEMMA QuietKeeps ==
  ASSUME IInv, UNCHANGED <<callVars, adbcErr, live, fault>>, HeldIsOwn',
         StreamErrorIsReaders'
  PROVE  IInv'
<1>1. /\ structs' = structs /\ discipline' = discipline /\ adbcErr' = adbcErr
      /\ live' = live /\ fault' = fault
  BY DEF callVars
<1>2. OwnStream' = OwnStream
  BY <1>1 DEF OwnStream
<1>3. Typed' /\ AllSound' /\ OldStaysOld'
  BY <1>1 DEF IInv, Typed, AllSound, OldStaysOld
<1>4. Apart'
  BY <1>1, <1>2 DEF IInv, Apart
<1> QED
  BY <1>3, <1>4 DEF IInv

LEMMA GetNextDoneKeeps == ASSUME IInv, GetNextDone PROVE IInv'
<1>1. CASE outcome' = "error"
  BY <1>1, ErrorKeeps
<1>2. CASE outcome' # "error"
  <2>1. outcome' = "end" /\ outcome # "error"
    BY <1>2 DEF GetNextDone, R!SayEnd, R!SayError, readerVars
  <2>2. /\ returned' = "0" /\ held' = Null /\ stream = "exported"
        /\ UNCHANGED <<callVars, stream, fault, adbcErr, live, status>>
    BY <1>2 DEF GetNextDone, maybeError
  <2>3. HeldIsOwn' /\ StreamErrorIsReaders'
    BY <2>1, <2>2 DEF IInv, HeldIsOwn, StreamErrorIsReaders
  <2> QED
    BY <2>2, <2>3, QuietKeeps
<1> QED
  BY <1>1, <1>2

LEMMA GetNextArrayKeeps == ASSUME IInv, GetNextArray PROVE IInv'
<1>1. outcome' = "record" /\ outcome # "error"
  BY DEF GetNextArray, R!Deliver
<1>2. /\ returned' = "array" /\ held' = Null
      /\ UNCHANGED <<callVars, stream, fault, adbcErr, live, status>>
  BY DEF GetNextArray
<1>3. HeldIsOwn' /\ StreamErrorIsReaders'
  BY <1>1, <1>2 DEF IInv, HeldIsOwn, StreamErrorIsReaders
<1> QED
  BY <1>2, <1>3, QuietKeeps

LEMMA ServerKeeps == ASSUME IInv, Server PROVE IInv'
<1>1. UNCHANGED <<outcome, callVars, stream, adbcErr, status, returned, held, fault, live>>
  BY DEF Server, R!Grow, R!End, streamVars
<1>2. HeldIsOwn' /\ StreamErrorIsReaders'
  BY <1>1 DEF IInv, HeldIsOwn, StreamErrorIsReaders
<1> QED
  BY <1>1, <1>2, QuietKeeps

LEMMA QueryKeeps == ASSUME IInv, GetSchema \/ GetLastError PROVE IInv'
<1>1. UNCHANGED <<outcome, callVars, stream, adbcErr, status, returned, fault, live>>
  BY DEF GetSchema, GetLastError, readerVars
<1>2. HeldIsOwn'
  BY <1>1 DEF GetSchema, GetLastError, HeldIsOwn
<1>3. held' # Null => held' \in live'
  <2>1. held' # Null => adbcErr # NoStruct /\ held' = adbcErr.message
    BY DEF GetSchema, GetLastError
  <2>2. held' # Null => held' \in OwnStream
    BY <2>1 DEF IInv, AllSound, Own, OwnStream
  <2> QED
    BY <1>1, <2>2 DEF IInv, Apart
<1>4. StreamErrorIsReaders'
  BY <1>1, <1>2, <1>3 DEF IInv, HeldIsOwn, StreamErrorIsReaders
<1> QED
  BY <1>1, <1>2, <1>4, QuietKeeps

LEMMA ReleaseStreamKeeps == ASSUME IInv, ReleaseStream PROVE IInv'
<1>1. /\ stream' = "released" /\ adbcErr' = NoStruct /\ held' = Null
      /\ UNCHANGED <<callVars, status, returned, fault, outcome>>
  BY DEF ReleaseStream, readerVars
<1>2. live' = live \ OwnStream
  <2>1. CASE adbcErr = NoStruct
    BY <2>1 DEF ReleaseStream, OwnStream
  <2>2. CASE adbcErr # NoStruct
    <3> DEFINE h == [err |-> adbcErr, live |-> live]
    <3>1. h \in Holding /\ h.err = adbcErr /\ h.live = live /\ Whole(h.err)
      BY <2>2 DEF IInv, Typed, AllSound, Sound, Holding
    <3>2. live' = Released(h).live
      BY <2>2 DEF ReleaseStream
    <3> HIDE DEF h
    <3> QED
      BY <2>2, <3>1, <3>2, ReleasedFrees DEF OwnStream
  <2> QED
    BY <2>1, <2>2
<1>3. OwnStream' = {}
  BY <1>1 DEF OwnStream
<1>4. Apart'
  BY <1>1, <1>2, <1>3, StreamApart DEF IInv
<1>5. Typed' /\ AllSound' /\ OldStaysOld' /\ HeldIsOwn'
  BY <1>1, <1>2 DEF IInv, Typed, AllSound, OldStaysOld, HeldIsOwn, callVars
<1>6. StreamErrorIsReaders'
  BY <1>1 DEF IInv, StreamErrorIsReaders
<1> QED
  BY <1>4, <1>5, <1>6 DEF IInv

-----------------------------------------------------------------------------
(* The theorems.                                                           *)

LEMMA NextIInv == ASSUME IInv, [Next]_vars PROVE IInv'
<1>1. ASSUME NEW e \in Structs, FailCall(e) \/ ReleaseError(e) \/ Reinitialize(e)
      PROVE  IInv'
  BY <1>1, FailKeeps, ReleaseKeeps, ReinitializeKeeps
<1>2. CASE Server
  BY <1>2, ServerKeeps
<1>3. CASE GetNextArray
  BY <1>3, GetNextArrayKeeps
<1>4. CASE GetNextDone
  BY <1>4, GetNextDoneKeeps
<1>5. CASE GetSchema \/ GetLastError
  BY <1>5, QueryKeeps
<1>6. CASE ReleaseStream
  BY <1>6, ReleaseStreamKeeps
<1>7. CASE UNCHANGED vars
  <2>1. UNCHANGED <<callVars, streamVars, live, outcome>>
    BY <1>7 DEF vars, readerVars
  <2>2. HeldIsOwn' /\ StreamErrorIsReaders'
    BY <2>1 DEF IInv, HeldIsOwn, StreamErrorIsReaders, streamVars
  <2> QED
    BY <2>1, <2>2, QuietKeeps DEF streamVars
<1> QED
  BY <1>1, <1>2, <1>3, <1>4, <1>5, <1>6, <1>7 DEF Next

LEMMA InvHolds == Spec => []IInv
<1>1. Init => IInv
  BY InitIInv
<1>2. IInv /\ [Next]_vars => IInv'
  BY NextIInv
<1> QED
  BY <1>1, <1>2, PTL DEF Spec

\* No sequence of failed calls, releases and stream calls of an application
\* frees a block twice, leaves a struct pointing at a freed one or, where the
\* application releases its errors, leaks one (errToAdbcErr, the release
\* callbacks, maybeError, cArrayStream's release).
THEOREM BlocksAreOwned == Spec => []BlocksOwned
<1> SUFFICES ASSUME IInv PROVE BlocksOwned
  BY InvHolds, PTL
<1>1. \A e \in Structs : [at |-> e, err |-> structs[e]].err = structs[e]
  OBVIOUS
<1>2. ASSUME NEW f \in Filled
      PROVE  \/ /\ f.at \in Structs /\ f.err = structs[f.at] /\ Held(f) = Own(structs[f.at])
                /\ f = [at |-> f.at, err |-> structs[f.at]]
             \/ /\ adbcErr # NoStruct /\ f = [at |-> NoStruct, err |-> adbcErr]
                /\ Held(f) = OwnStream
  <2>1. CASE \E e \in Structs : structs[e].release # "NULL" /\ f = [at |-> e, err |-> structs[e]]
    BY <2>1 DEF Held, Own
  <2>2. CASE adbcErr # NoStruct /\ f = [at |-> NoStruct, err |-> adbcErr]
    BY <2>2 DEF Held, Own, OwnStream, IInv, AllSound
  <2> QED
    BY <2>1, <2>2 DEF Filled
<1>3. \A f \in Filled : Held(f) \subseteq live
  BY <1>2 DEF IInv, Apart
<1>4. \A f, g \in Filled : f # g => Held(f) \cap Held(g) = {}
  <2> SUFFICES ASSUME NEW f \in Filled, NEW g \in Filled, f # g
               PROVE  Held(f) \cap Held(g) = {}
    OBVIOUS
  <2>1. CASE Held(f) = OwnStream /\ f = [at |-> NoStruct, err |-> adbcErr]
    BY <1>2, <2>1 DEF IInv, Apart
  <2>2. CASE Held(g) = OwnStream /\ g = [at |-> NoStruct, err |-> adbcErr]
    BY <1>2, <2>2 DEF IInv, Apart
  <2>3. CASE /\ f.at \in Structs /\ Held(f) = Own(structs[f.at])
             /\ g.at \in Structs /\ Held(g) = Own(structs[g.at])
             /\ f.at # g.at
    BY <2>3 DEF IInv, Apart
  <2> QED
    BY <1>2, <2>1, <2>2, <2>3
<1>5. ASSUME discipline = "tidy" PROVE live = UNION {Held(f) : f \in Filled}
  <2>1. ASSUME NEW b \in live PROVE \E f \in Filled : b \in Held(f)
    <3>1. CASE b \in OwnStream
      <4> DEFINE f == [at |-> NoStruct, err |-> adbcErr]
      <4>1. f \in Filled
        BY <3>1 DEF OwnStream, Filled
      <4>2. f.err = adbcErr /\ adbcErr # NoStruct
        BY <3>1 DEF OwnStream
      <4>3. b \in Held(f)
        BY <3>1, <4>2 DEF Held, OwnStream, Own
      <4> QED
        BY <4>1, <4>3
    <3>2. CASE \E e \in Structs : b \in Own(structs[e])
      <4>1. PICK e \in Structs : b \in Own(structs[e])
        BY <3>2
      <4> DEFINE f == [at |-> e, err |-> structs[e]]
      <4>2. f \in Filled
        BY <4>1 DEF Own, Filled
      <4>3. b \in Held(f)
        BY <4>1 DEF Held, Own
      <4> QED
        BY <4>2, <4>3
    <3> QED
      BY <1>5, <3>1, <3>2 DEF IInv, Apart
  <2> QED
    BY <1>3, <2>1
<1> QED
  BY <1>3, <1>4, <1>5 DEF BlocksOwned

\* A struct of ADBC 1.0.0 is never taken for one of 1.1.0, whose private_data
\* lies beyond its end (setErrWithDetails).
THEOREM OldStructsKeepTheirEnd == Spec => []DetailsOnlyWhereAsked
<1>1. IInv => DetailsOnlyWhereAsked
  BY DEF IInv, AllSound, OldStaysOld, Sound, Whole, DetailsOnlyWhereAsked, Structs
<1> QED
  BY <1>1, InvHolds, PTL

\* The stream's answers are the reader's, whose error is there to ask for, and
\* to read until the next call (cArrayStream's callbacks, maybeError).
THEOREM StreamTellsReadersError == Spec => []StreamErrorIsReaders
  BY InvHolds, PTL DEF IInv

=============================================================================
