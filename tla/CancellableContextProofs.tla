------------------------ MODULE CancellableContextProofs ------------------------
(***************************************************************************)
(* The cancel slot of CancellableContext for any number of threads that    *)
(* cancel and of operations: with Cancel kept apart from the other calls   *)
(* no Cancel is lost, no context is left behind and the driver is not      *)
(* poisoned; however they race, an operation is only cancelled by a Cancel *)
(* that ran at the same time.                                              *)
(***************************************************************************)
EXTENDS CancellableContext, TLAPS

-----------------------------------------------------------------------------
(* The inductive invariant.                                                *)

\* A call that will make a context has room for it, and one that has made it
\* has its number.
Room ==
    /\ pc[Worker] \in {"load", "call", "clearCtx", "clearCancel"}
           => kind = "release" \/ ops < MaxOps
    /\ pc[Worker] = "make" => ops < MaxOps
    /\ pc[Worker] \in {"storeCancel", "return"} => ops > 0

\* The numbers in use are those of contexts that have been made.
Born ==
    /\ opCtx <= ops /\ ctx <= ops
    /\ \A t \in Cancellers : target[t] <= ops
    /\ \A i \in OpIds : i <= ops => ctxs[i] # "unborn"

NoneLive == \A i \in OpIds : ctxs[i] # "live"

\* With the calls kept apart one thread is at the slot, which is thus as that
\* thread's place in the code says.
OneAtSlot == \A t, u \in Threads : AtSlot(t) /\ AtSlot(u) => t = u
Loaded    == \A t \in Threads : pc[t] = "call" => func[t] = cancel /\ cancel # Nil
Called    == \A t \in Threads : pc[t] \in {"clearCtx", "clearCancel"} => NoneLive
Made ==
    /\ pc[Worker] = "make" => NoneLive
    /\ pc[Worker] = "storeCancel" =>
           ctx = ops /\ \A i \in OpIds : ctxs[i] = "live" => i = ops
    /\ pc[Worker] = "return" => ctx = ops
InSlot ==
    \A i \in OpIds : ctxs[i] = "live" =>
        cancel = i \/ (i = ops /\ pc[Worker] = "storeCancel")

SlotInv ==
    /\ OneAtSlot /\ Loaded /\ Called /\ Made /\ InSlot
    /\ poisoned = "no"

\* No Cancel since the last context was made: the slot is the worker's.
Alone ==
    /\ \A t \in Cancellers : pc[t] = "idle"
    /\ pc[Worker] \in {"storeCancel", "return"} => ctxs[ops] = "live"
    /\ pc[Worker] = "call" => cancel = func[Worker] /\ cancel # Nil
    /\ pc[Worker] \in {"storeCancel", "return"} => ctx = ops
    /\ pc[Worker] = "return" => cancel = ops
    /\ pc[Worker] \in {"idle", "run", "getNext"} /\ kind # "release" /\ ops > 0
           => ctx = ops /\ cancel = ops /\ ctxs[ops] = "live" /\ opCtx = ops

IInv ==
    /\ TypeOK /\ Room /\ Born
    /\ discipline = "serial" => SlotInv
    /\ overlapped = "no" => Alone
    /\ CancelledByOverlap

LEMMA ThreadFacts == Worker \in Threads /\ Worker \notin Cancellers
                     /\ Cancellers \subseteq Threads /\ Threads = Cancellers
       \cup {Worker}
  BY WorkerIsNoCanceller DEF Threads, Worker

LEMMA InitHolds == Init => IInv
  <1> SUFFICES ASSUME Init PROVE IInv
    OBVIOUS
  <1> USE ThreadFacts, CancelBounds
  <1>1. TypeOK
    BY DEF Init, TypeOK, OpIds, Nil
  <1>2. Room /\ Born
    BY DEF Init, Room, Born, Nil, OpIds, Worker
  <1>3. SlotInv
    BY DEF Init, SlotInv, OneAtSlot, Loaded, Called, Made, InSlot, AtSlot,
       NoneLive
  <1>4. Alone
    BY DEF Init, Alone
  <1>5. CancelledByOverlap
    BY DEF Init, CancelledByOverlap
  <1> QED
    BY <1>1, <1>2, <1>3, <1>4, <1>5 DEF IInv

-----------------------------------------------------------------------------
(* Each action keeps the invariant.                                        *)

LEMMA LoadStep == ASSUME IInv, NEW t \in Threads, Load(t) PROVE IInv'
  <1> USE ThreadFacts, CancelBounds DEF Nil, OpIds, vars, slot, history
  <1>0. TypeOK /\ Room /\ Born /\ CancelledByOverlap
    BY DEF IInv
  <1>s. discipline = "serial" => SlotInv
    BY DEF IInv
  <1>o. overlapped = "no" => Alone
    BY DEF IInv
  <1>1. TypeOK'
    BY <1>0 DEF Load, TypeOK, Room, Goto
  <1>2. Room' /\ Born'
    BY <1>0 DEF Load, TypeOK, Room, Born, Goto
  <1>3. discipline' = "serial" => SlotInv'
    BY <1>0, <1>s DEF Load, TypeOK, Room, Goto, SlotInv, OneAtSlot, AtSlot,
       Loaded, Called, Made, InSlot, NoneLive
  <1>4. overlapped' = "no" => Alone'
    BY <1>0, <1>o DEF Load, Alone, TypeOK, Room, Goto
  <1>5. CancelledByOverlap'
    BY <1>0, <1>o DEF Load, Alone, CancelledByOverlap, TypeOK, Room, AtSlot,
       Goto
  <1> QED
    BY <1>1, <1>2, <1>3, <1>4, <1>5 DEF IInv

LEMMA CallStep == ASSUME IInv, NEW t \in Threads, Call(t) PROVE IInv'
  <1> USE ThreadFacts, CancelBounds DEF Nil, OpIds, vars, slot, history
  <1>0. TypeOK /\ Room /\ Born /\ CancelledByOverlap
    BY DEF IInv
  <1>s. discipline = "serial" => SlotInv
    BY DEF IInv
  <1>o. overlapped = "no" => Alone
    BY DEF IInv
  <1>1. TypeOK'
    BY <1>0 DEF Call, TypeOK, Room, Goto
  <1>2. Room' /\ Born'
    BY <1>0 DEF Call, TypeOK, Room, Born, Goto
  <1>3. discipline' = "serial" => SlotInv'
    BY <1>0, <1>s DEF Call, TypeOK, Room, Goto, SlotInv, OneAtSlot, AtSlot,
       Loaded, Called, Made, InSlot, NoneLive
  <1>4. overlapped' = "no" => Alone'
    BY <1>0, <1>o DEF Call, Alone, TypeOK, Room, Goto
  <1>5. CancelledByOverlap'
    BY <1>0, <1>o DEF Call, Alone, CancelledByOverlap, TypeOK, Room, AtSlot,
       Goto
  <1> QED
    BY <1>1, <1>2, <1>3, <1>4, <1>5 DEF IInv

LEMMA ClearCtxStep == ASSUME IInv, NEW t \in Threads, ClearCtx(t) PROVE IInv'
  <1> USE ThreadFacts, CancelBounds DEF Nil, OpIds, vars, slot, history
  <1>0. TypeOK /\ Room /\ Born /\ CancelledByOverlap
    BY DEF IInv
  <1>s. discipline = "serial" => SlotInv
    BY DEF IInv
  <1>o. overlapped = "no" => Alone
    BY DEF IInv
  <1>1. TypeOK'
    BY <1>0 DEF ClearCtx, TypeOK, Room, Goto
  <1>2. Room' /\ Born'
    BY <1>0 DEF ClearCtx, TypeOK, Room, Born, Goto
  <1>3. discipline' = "serial" => SlotInv'
    BY <1>0, <1>s DEF ClearCtx, TypeOK, Room, Goto, SlotInv, OneAtSlot, AtSlot,
       Loaded, Called, Made, InSlot, NoneLive
  <1>4. overlapped' = "no" => Alone'
    BY <1>0, <1>o DEF ClearCtx, Alone, TypeOK, Room, Goto
  <1>5. CancelledByOverlap'
    BY <1>0, <1>o DEF ClearCtx, Alone, CancelledByOverlap, TypeOK, Room,
       AtSlot, Goto
  <1> QED
    BY <1>1, <1>2, <1>3, <1>4, <1>5 DEF IInv

LEMMA ClearCancelStep == ASSUME IInv, NEW t \in Threads, ClearCancel(t) PROVE IInv'
  <1> USE ThreadFacts, CancelBounds DEF Nil, OpIds, vars, slot, history
  <1>0. TypeOK /\ Room /\ Born /\ CancelledByOverlap
    BY DEF IInv
  <1>s. discipline = "serial" => SlotInv
    BY DEF IInv
  <1>o. overlapped = "no" => Alone
    BY DEF IInv
  <1>1. TypeOK'
    BY <1>0 DEF ClearCancel, TypeOK, Room, Goto
  <1>2. Room' /\ Born'
    BY <1>0 DEF ClearCancel, TypeOK, Room, Born, Goto
  <1>3. discipline' = "serial" => SlotInv'
    BY <1>0, <1>s DEF ClearCancel, TypeOK, Room, Goto, SlotInv, OneAtSlot,
       AtSlot,
       Loaded, Called, Made, InSlot, NoneLive
  <1>4. overlapped' = "no" => Alone'
    BY <1>0, <1>o DEF ClearCancel, Alone, TypeOK, Room, Goto
  <1>5. CancelledByOverlap'
    BY <1>0, <1>o DEF ClearCancel, Alone, CancelledByOverlap, TypeOK, Room,
       AtSlot, Goto
  <1> QED
    BY <1>1, <1>2, <1>3, <1>4, <1>5 DEF IInv

LEMMA BeginStep == ASSUME IInv, NEW k \in {"query", "short", "release"}, Begin(k) PROVE IInv'
  <1> USE ThreadFacts, CancelBounds DEF Nil, OpIds, vars, slot, history
  <1>0. TypeOK /\ Room /\ Born /\ CancelledByOverlap
    BY DEF IInv
  <1>s. discipline = "serial" => SlotInv
    BY DEF IInv
  <1>o. overlapped = "no" => Alone
    BY DEF IInv
  <1>1. TypeOK'
    BY <1>0 DEF Begin, MayEnter, TypeOK, Room, Goto
  <1>2. Room' /\ Born'
    BY <1>0 DEF Begin, MayEnter, TypeOK, Room, Born, Goto
  <1>3. discipline' = "serial" => SlotInv'
    BY <1>0, <1>s DEF Begin, MayEnter, TypeOK, Room, Goto, SlotInv, OneAtSlot,
       AtSlot,
       Loaded, Called, Made, InSlot, NoneLive
  <1>4. overlapped' = "no" => Alone'
    BY <1>0, <1>o DEF Begin, MayEnter, Alone, TypeOK, Room, Goto
  <1>5. CancelledByOverlap'
    BY <1>0, <1>o DEF Begin, MayEnter, Alone, CancelledByOverlap, TypeOK,
       Room, AtSlot, Goto
  <1> QED
    BY <1>1, <1>2, <1>3, <1>4, <1>5 DEF IInv

LEMMA MakeStep == ASSUME IInv, Make PROVE IInv'
  <1> USE ThreadFacts, CancelBounds DEF Nil, OpIds, vars, slot, history
  <1>0. TypeOK /\ Room /\ Born /\ CancelledByOverlap
    BY DEF IInv
  <1>s. discipline = "serial" => SlotInv
    BY DEF IInv
  <1>o. overlapped = "no" => Alone
    BY DEF IInv
  <1>1. TypeOK'
    BY <1>0 DEF Make, TypeOK, Room, Goto
  <1>2. Room' /\ Born'
    BY <1>0 DEF Make, TypeOK, Room, Born, Goto
  <1>3. discipline' = "serial" => SlotInv'
    BY <1>0, <1>s DEF Make, TypeOK, Room, Goto, SlotInv, OneAtSlot, AtSlot,
       Loaded, Called, Made, InSlot, NoneLive
  <1>4. overlapped' = "no" => Alone'
    BY <1>0, <1>o DEF Make, Alone, TypeOK, Room, Goto
  <1>5. CancelledByOverlap'
    BY <1>0, <1>o DEF Make, Alone, CancelledByOverlap, TypeOK, Room, AtSlot,
       Goto
  <1> QED
    BY <1>1, <1>2, <1>3, <1>4, <1>5 DEF IInv

LEMMA StoreCancelStep == ASSUME IInv, StoreCancel PROVE IInv'
  <1> USE ThreadFacts, CancelBounds DEF Nil, OpIds, vars, slot, history
  <1>0. TypeOK /\ Room /\ Born /\ CancelledByOverlap
    BY DEF IInv
  <1>s. discipline = "serial" => SlotInv
    BY DEF IInv
  <1>o. overlapped = "no" => Alone
    BY DEF IInv
  <1>1. TypeOK'
    BY <1>0 DEF StoreCancel, TypeOK, Room, Goto
  <1>2. Room' /\ Born'
    BY <1>0 DEF StoreCancel, TypeOK, Room, Born, Goto
  <1>3. discipline' = "serial" => SlotInv'
    BY <1>0, <1>s DEF StoreCancel, TypeOK, Room, Goto, SlotInv, OneAtSlot,
       AtSlot,
       Loaded, Called, Made, InSlot, NoneLive
  <1>4. overlapped' = "no" => Alone'
    BY <1>0, <1>o DEF StoreCancel, Alone, TypeOK, Room, Goto
  <1>5. CancelledByOverlap'
    BY <1>0, <1>o DEF StoreCancel, Alone, CancelledByOverlap, TypeOK, Room,
       AtSlot, Goto
  <1> QED
    BY <1>1, <1>2, <1>3, <1>4, <1>5 DEF IInv

LEMMA ReturnStep == ASSUME IInv, Return PROVE IInv'
  <1> USE ThreadFacts, CancelBounds DEF Nil, OpIds, vars, slot, history
  <1>0. TypeOK /\ Room /\ Born /\ CancelledByOverlap
    BY DEF IInv
  <1>s. discipline = "serial" => SlotInv
    BY DEF IInv
  <1>o. overlapped = "no" => Alone
    BY DEF IInv
  <1>1. TypeOK'
    BY <1>0 DEF Return, TypeOK, Room, Goto
  <1>2. Room' /\ Born'
    BY <1>0 DEF Return, TypeOK, Room, Born, Goto
  <1>3. discipline' = "serial" => SlotInv'
    BY <1>0, <1>s DEF Return, TypeOK, Room, Goto, SlotInv, OneAtSlot, AtSlot,
       Loaded, Called, Made, InSlot, NoneLive
  <1>4. overlapped' = "no" => Alone'
    BY <1>0, <1>o DEF Return, Alone, TypeOK, Room, Goto
  <1>5. CancelledByOverlap'
    BY <1>0, <1>o DEF Return, Alone, CancelledByOverlap, TypeOK, Room, AtSlot,
       Goto
  <1> QED
    BY <1>1, <1>2, <1>3, <1>4, <1>5 DEF IInv

LEMMA CancelStep == ASSUME IInv, NEW t \in Cancellers, Cancel(t) PROVE IInv'
  <1> USE ThreadFacts, CancelBounds DEF Nil, OpIds, vars, slot, history
  <1>0. TypeOK /\ Room /\ Born /\ CancelledByOverlap
    BY DEF IInv
  <1>s. discipline = "serial" => SlotInv
    BY DEF IInv
  <1>o. overlapped = "no" => Alone
    BY DEF IInv
  <1>1. TypeOK'
    BY <1>0 DEF Cancel, MayEnter, InProgress, TypeOK, Room, Goto
  <1>2. Room' /\ Born'
    BY <1>0 DEF Cancel, MayEnter, InProgress, TypeOK, Room, Born, Goto
  <1>3. discipline' = "serial" => SlotInv'
    BY <1>0, <1>s DEF Cancel, MayEnter, InProgress, TypeOK, Room, Goto,
       SlotInv, OneAtSlot, AtSlot,
       Loaded, Called, Made, InSlot, NoneLive
  <1>4. overlapped' = "no" => Alone'
    BY <1>0, <1>o DEF Cancel, MayEnter, InProgress, Alone, TypeOK, Room, Goto
  <1>5. CancelledByOverlap'
    BY <1>0, <1>o DEF Cancel, MayEnter, InProgress, Alone, CancelledByOverlap,
       TypeOK, Room, AtSlot, Goto
  <1> QED
    BY <1>1, <1>2, <1>3, <1>4, <1>5 DEF IInv

LEMMA RunStep == ASSUME IInv, EndCall \/ GetNext \/ Got \/ ReleaseStream PROVE IInv'
  <1> USE ThreadFacts, CancelBounds DEF Nil, OpIds, vars, slot, history
  <1>0. TypeOK /\ Room /\ Born /\ CancelledByOverlap
    BY DEF IInv
  <1>s. discipline = "serial" => SlotInv
    BY DEF IInv
  <1>o. overlapped = "no" => Alone
    BY DEF IInv
  <1>1. TypeOK'
    BY <1>0 DEF EndCall, GetNext, Got, ReleaseStream, TypeOK, Room, Goto
  <1>2. Room' /\ Born'
    BY <1>0 DEF EndCall, GetNext, Got, ReleaseStream, TypeOK, Room, Born, Goto
  <1>3. discipline' = "serial" => SlotInv'
    BY <1>0, <1>s DEF EndCall, GetNext, Got, ReleaseStream, TypeOK, Room,
       Goto, SlotInv, OneAtSlot, AtSlot,
       Loaded, Called, Made, InSlot, NoneLive
  <1>4. overlapped' = "no" => Alone'
    BY <1>0, <1>o DEF EndCall, GetNext, Got, ReleaseStream, Alone, TypeOK,
       Room, Goto
  <1>5. CancelledByOverlap'
    BY <1>0, <1>o DEF EndCall, GetNext, Got, ReleaseStream, Alone,
       CancelledByOverlap, TypeOK, Room, AtSlot, Goto
  <1> QED
    BY <1>1, <1>2, <1>3, <1>4, <1>5 DEF IInv

LEMMA StutterStep == ASSUME IInv, UNCHANGED vars PROVE IInv'
  <1> USE ThreadFacts, CancelBounds DEF Nil, OpIds, vars, slot, history
  <1>0. TypeOK /\ Room /\ Born /\ CancelledByOverlap
    BY DEF IInv
  <1>s. discipline = "serial" => SlotInv
    BY DEF IInv
  <1>o. overlapped = "no" => Alone
    BY DEF IInv
  <1>1. TypeOK'
    BY <1>0 DEF vars, TypeOK, Room, Goto
  <1>2. Room' /\ Born'
    BY <1>0 DEF vars, TypeOK, Room, Born, Goto
  <1>3. discipline' = "serial" => SlotInv'
    BY <1>0, <1>s DEF vars, TypeOK, Room, Goto, SlotInv, OneAtSlot, AtSlot,
       Loaded, Called, Made, InSlot, NoneLive
  <1>4. overlapped' = "no" => Alone'
    BY <1>0, <1>o DEF vars, Alone, TypeOK, Room, Goto
  <1>5. CancelledByOverlap'
    BY <1>0, <1>o DEF vars, Alone, CancelledByOverlap, TypeOK, Room, AtSlot,
       Goto
  <1> QED
    BY <1>1, <1>2, <1>3, <1>4, <1>5 DEF IInv

LEMMA NextStep == IInv /\ [Next]_vars => IInv'
  <1> SUFFICES ASSUME IInv, [Next]_vars PROVE IInv'
    OBVIOUS
  <1>1. ASSUME NEW t \in Threads, CancelContext(t) PROVE IInv'
    BY <1>1, LoadStep, CallStep, ClearCtxStep, ClearCancelStep DEF CancelContext
  <1>2. CASE WorkerStep
    <2>1. CASE \E k \in {"query", "short", "release"} : Begin(k)
      BY <2>1, BeginStep
    <2>2. CASE CancelContext(Worker)
      BY <2>2, <1>1, ThreadFacts
    <2>3. CASE Make \/ StoreCancel \/ Return
      BY <2>3, MakeStep, StoreCancelStep, ReturnStep
    <2>4. CASE EndCall \/ GetNext \/ Got \/ ReleaseStream
      BY <2>4, RunStep
    <2> QED
      BY <1>2, <2>1, <2>2, <2>3, <2>4 DEF WorkerStep
  <1>3. CASE \E t \in Cancellers : Cancel(t) \/ CancelContext(t)
    BY <1>3, <1>1, CancelStep, ThreadFacts
  <1>4. CASE UNCHANGED vars
    BY <1>4, StutterStep
  <1> QED
    BY <1>2, <1>3, <1>4 DEF Next

\* IInv holds in every state, for any set of threads and any bounds.
THEOREM Inductive == Spec => []IInv
  <1> QED
    BY InitHolds, NextStep, PTL DEF Spec

-----------------------------------------------------------------------------
(* What follows from it.                                                   *)

\* The slot and the worker's bookkeeping keep their types: the slot never
\* holds the number of a context that was not made.
THEOREM TypeCorrect == Spec => []TypeOK
  <1>1. IInv => TypeOK
    BY DEF IInv
  <1> QED
    BY <1>1, Inductive, PTL

\* At most one context is live, and the slot has its function: no operation
\* is out of reach of Cancel and Release, if the calls are kept apart.
THEOREM NothingStray == Spec => []NoStrayContext
  <1>1. IInv => NoStrayContext
    BY DEF IInv, SlotInv, InSlot, NoStrayContext
  <1> QED
    BY <1>1, Inductive, PTL

\* With the calls kept apart no call panics on a nil function or context.
THEOREM NoPanic == Spec => []NeverPoisoned
  <1>1. IInv => NeverPoisoned
    BY DEF IInv, SlotInv, NeverPoisoned
  <1> QED
    BY <1>1, Inductive, PTL

\* However Cancel and newContext race, an operation is cancelled by Release
\* or by a Cancel that was under way with it, by no earlier one.
THEOREM OnlyOverlapCancels == Spec => []CancelledByOverlap
  <1>1. IInv => CancelledByOverlap
    BY DEF IInv
  <1> QED
    BY <1>1, Inductive, PTL

\* A race has no effect on the operations that it does not overlap: they have
\* their own live context and the slot can cancel it.
THEOREM RacesPass == Spec => []NoLastingRace
  <1>1. IInv => NoLastingRace
    BY DEF IInv, Alone, Born, TypeOK, InProgress, NoLastingRace, Nil
  <1> QED
    BY <1>1, Inductive, PTL

\* With the calls kept apart a Cancel that returns has cancelled the operation
\* that was in progress when it was called.
THEOREM NoCancelIsLost == Spec => CancelReaches
  <1>1. IInv /\ [Next]_vars
          => [discipline = "serial" => \A t \in Cancellers : Returns(t) =>
       Reaches(t)]_vars
    <2> SUFFICES ASSUME IInv, discipline = "serial",
                        NEW t \in Cancellers, Returns(t),
                        target[t] # Nil, target[t] = opCtx
                 PROVE  ctxs[target[t]] = "cancelled"
      BY DEF Reaches
    <2>1. TypeOK /\ Born /\ Called
      BY DEF IInv, SlotInv
    <2>2. target[t] \in OpIds /\ target[t] <= ops
      BY <2>1, CancelBounds DEF TypeOK, Born, OpIds, Nil
    <2>3. ctxs[target[t]] # "live"
      BY <2>1, <2>2, ThreadFacts DEF Returns, Called, NoneLive
    <2> QED
      BY <2>1, <2>2, <2>3 DEF TypeOK, Born
  <1> QED
    BY <1>1, Inductive, PTL DEF Spec, CancelReaches

=============================================================================
