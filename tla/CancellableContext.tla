-------------------------- MODULE CancellableContext --------------------------
(***************************************************************************)
(* The cancel slot of a statement or a connection of the C driver:         *)
(* cancellableContext in c/driver.go, the calls that renew it (newContext: *)
(* Execute, Prepare, Bind, ...), the ones that use it (Cancel, Release),   *)
(* and the result stream that lives on its context.                        *)
(*                                                                         *)
(* One worker thread makes the calls that adbc.h wants serialised; any     *)
(* number of other threads call Cancel.  The slot has no lock, so every    *)
(* load and store of its two fields is a step of its own.  Where the code  *)
(* names a field twice, the build may read it twice or keep the first      *)
(* value: both are modelled.                                               *)
(*                                                                         *)
(* Whether the application keeps Cancel apart from every other call while  *)
(* that is at the slot is its `discipline`, fixed at the start; adbc.h     *)
(* does not ask for it.  A context and its cancel function share a number, *)
(* the number of the operation they were made for; 0 is nil.               *)
(***************************************************************************)
EXTENDS Integers, FiniteSets

CONSTANTS
    Cancellers,   \* threads that call Cancel
    MaxOps,       \* bound: operations that renew the context
    MaxCancels    \* bound: calls of Cancel

ASSUME CancelBounds == MaxOps \in Nat /\ MaxCancels \in Nat
ASSUME WorkerIsNoCanceller == "worker" \notin Cancellers

VARIABLES
    ctx, cancel,  \* the two fields of the slot
    ctxs,         \* what became of each context: "unborn", "live", "cancelled"
    pc,           \* where each thread is
    func,         \* the cancel function a thread has read
    kind,         \* the worker's call: "query", "short", "release"
    ops,          \* operations begun so far
    opCtx,        \* the context the last operation was given
    stream,       \* "none", "open": the result of the last query
    poisoned,     \* globalPoison: "no", "yes"
    discipline,   \* "serial", "concurrent"
    cancels,      \* calls of Cancel so far
    target,       \* the operation in progress when a Cancel was called
    overlapped    \* a Cancel was under way during the last operation

slot    == <<ctx, cancel>>
history == <<cancels, target, overlapped>>
vars == <<slot, ctxs, pc, func, kind, ops, opCtx, stream, poisoned, discipline,
          history>>

Worker  == "worker"
Threads == Cancellers \cup {Worker}
OpIds   == 1..MaxOps
Nil     == 0

AtSlot(t) == pc[t] \in {"load", "call", "clearCtx", "clearCancel", "make",
                        "storeCancel", "return"}

\* An operation runs, or its result has not been released yet.
InProgress == opCtx # Nil /\ (pc[Worker] \in {"run", "getNext"} \/ stream = "open")

\* The application lets a thread enter the slot.
MayEnter == discipline = "serial" => \A t \in Threads : ~AtSlot(t)

Goto(t, l) == pc' = [pc EXCEPT ![t] = l]

Init ==
    /\ ctx = Nil /\ cancel = Nil
    /\ ctxs = [i \in OpIds |-> "unborn"]
    /\ pc = [t \in Threads |-> "idle"] /\ func = [t \in Threads |-> Nil]
    /\ kind = "short" /\ ops = 0 /\ opCtx = Nil /\ stream = "none"
    /\ poisoned = "no"
    /\ discipline \in {"serial", "concurrent"}
    /\ cancels = 0 /\ target = [t \in Cancellers |-> Nil] /\ overlapped = "no"

-----------------------------------------------------------------------------
(* cancelContext, by any thread.                                           *)

\* Mutant: nil is not told from a function.
LoadUnchecked(t) ==
    /\ pc[t] = "load"
    /\ func' = [func EXCEPT ![t] = cancel]
    /\ Goto(t, "call")
    /\ UNCHANGED <<slot, ctxs, kind, ops, opCtx, stream, poisoned, discipline,
                   history>>

\* if c.cancel != nil
Load(t) ==
    /\ pc[t] = "load"
    /\ func' = [func EXCEPT ![t] = cancel]
    /\ Goto(t, IF cancel = Nil THEN "clearCtx" ELSE "call")
    /\ UNCHANGED <<slot, ctxs, kind, ops, opCtx, stream, poisoned, discipline,
                   history>>

\* Mutant: the function is dropped, not called.
CallNothing(t) ==
    /\ pc[t] = "call"
    /\ Goto(t, "clearCtx")
    /\ UNCHANGED <<ctxs, poisoned, slot, func, kind, ops, opCtx, stream,
                   discipline, history>>

\* c.cancel(): the context is cancelled.  Read again, the field may be nil by
\* now: the panic is recovered by the exported function and poisons the driver.
Call(t) ==
    /\ pc[t] = "call"
    /\ \/ \E f \in {func[t], cancel} \ {Nil} :
             /\ ctxs' = [ctxs EXCEPT ![f] = "cancelled"]
             /\ Goto(t, "clearCtx")
             /\ UNCHANGED poisoned
       \/ /\ cancel = Nil
          /\ poisoned' = "yes"
          /\ Goto(t, "idle")
          /\ UNCHANGED ctxs
    /\ UNCHANGED <<slot, func, kind, ops, opCtx, stream, discipline, history>>

ClearCtx(t) ==
    /\ pc[t] = "clearCtx"
    /\ ctx' = Nil
    /\ Goto(t, "clearCancel")
    /\ UNCHANGED <<cancel, ctxs, func, kind, ops, opCtx, stream, poisoned,
                   discipline, history>>

\* cancelContext returns: into newContext, or out of Release or Cancel.
ClearCancel(t) ==
    /\ pc[t] = "clearCancel"
    /\ cancel' = Nil
    /\ Goto(t, IF t # Worker THEN "idle"
               ELSE IF kind = "release" THEN "released" ELSE "make")
    /\ UNCHANGED <<ctx, ctxs, func, kind, ops, opCtx, stream, poisoned,
                   discipline, history>>

CancelContext(t) == Load(t) \/ Call(t) \/ ClearCtx(t) \/ ClearCancel(t)

-----------------------------------------------------------------------------
(* The worker.                                                             *)

\* An exported function that calls newContext, or Release.  A poisoned driver
\* refuses both.  A handle is not released while another thread uses it.
Begin(k) ==
    /\ pc[Worker] = "idle" /\ poisoned = "no" /\ MayEnter
    /\ k = "release" => \A t \in Cancellers : pc[t] = "idle"
    /\ k # "release" => ops < MaxOps
    /\ kind' = k
    /\ Goto(Worker, "load")
    /\ UNCHANGED <<slot, ctxs, func, ops, opCtx, stream, poisoned, discipline,
                   history>>

\* Mutant: the slot still has the old function when newContext returns.
MakeForgetsStore ==
    /\ pc[Worker] = "make"
    /\ ops' = ops + 1
    /\ ctxs' = [ctxs EXCEPT ![ops + 1] = "live"]
    /\ ctx' = ops + 1
    /\ overlapped' = IF \E t \in Cancellers : pc[t] # "idle" THEN "yes" ELSE "no"
    /\ Goto(Worker, "return")
    /\ UNCHANGED <<cancel, func, kind, opCtx, stream, poisoned, discipline,
                   cancels, target>>

\* context.WithCancel, and the store of the first field.
Make ==
    /\ pc[Worker] = "make"
    /\ ops' = ops + 1
    /\ ctxs' = [ctxs EXCEPT ![ops + 1] = "live"]
    /\ ctx' = ops + 1
    /\ overlapped' = IF \E t \in Cancellers : pc[t] # "idle" THEN "yes" ELSE "no"
    /\ Goto(Worker, "storeCancel")
    /\ UNCHANGED <<cancel, func, kind, opCtx, stream, poisoned, discipline,
                   cancels, target>>

\* Mutant: the short calls, which do not use the context, keep no function.
StoreForQueries ==
    /\ pc[Worker] = "storeCancel"
    /\ cancel' = IF kind = "query" THEN ops ELSE Nil
    /\ Goto(Worker, "return")
    /\ UNCHANGED <<ctx, ctxs, func, kind, ops, opCtx, stream, poisoned,
                   discipline, history>>

StoreCancel ==
    /\ pc[Worker] = "storeCancel"
    /\ cancel' = ops
    /\ Goto(Worker, "return")
    /\ UNCHANGED <<ctx, ctxs, func, kind, ops, opCtx, stream, poisoned,
                   discipline, history>>

\* return c.ctx, and the operation starts on what it returns: on nil,
\* context.WithCancel panics in Client.executePlan; the short calls ignore it.
Return ==
    /\ pc[Worker] = "return"
    /\ opCtx' \in {ops, ctx}
    /\ IF opCtx' = Nil /\ kind = "query"
       THEN poisoned' = "yes" /\ Goto(Worker, "idle")
       ELSE UNCHANGED poisoned /\ Goto(Worker, "run")
    /\ stream' = "none"
    /\ UNCHANGED <<slot, ctxs, func, kind, ops, discipline, history>>

\* Mutant: the context ends with the call, as after `defer cancel()`.
EndCallCancels ==
    /\ pc[Worker] = "run"
    /\ stream' \in IF kind = "query" THEN {"open", "none"} ELSE {"none"}
    /\ ctxs' = [i \in OpIds |-> IF i = opCtx THEN "cancelled" ELSE ctxs[i]]
    /\ Goto(Worker, "idle")
    /\ UNCHANGED <<slot, func, kind, ops, opCtx, poisoned, discipline, history>>

\* The call ends: a query with a result stream or an error, the others at once.
EndCall ==
    /\ pc[Worker] = "run"
    /\ stream' \in IF kind = "query" THEN {"open", "none"} ELSE {"none"}
    /\ Goto(Worker, "idle")
    /\ UNCHANGED <<slot, ctxs, func, kind, ops, opCtx, poisoned, discipline,
                   history>>

\* ArrowArrayStream.get_next waits for the server ...
GetNext ==
    /\ pc[Worker] = "idle" /\ stream = "open"
    /\ Goto(Worker, "getNext")
    /\ UNCHANGED <<slot, ctxs, func, kind, ops, opCtx, stream, poisoned,
                   discipline, history>>

\* ... until there is a batch, the end or an error.
Got ==
    /\ pc[Worker] = "getNext"
    /\ Goto(Worker, "idle")
    /\ UNCHANGED <<slot, ctxs, func, kind, ops, opCtx, stream, poisoned,
                   discipline, history>>

\* ArrowArrayStream.release.
ReleaseStream ==
    /\ pc[Worker] \in {"idle", "released"} /\ stream = "open"
    /\ stream' = "none"
    /\ UNCHANGED <<slot, ctxs, pc, func, kind, ops, opCtx, poisoned,
                   discipline, history>>

-----------------------------------------------------------------------------
(* The other threads.                                                      *)

\* StatementCancel, ConnectionCancel: refused by a poisoned driver.
Cancel(t) ==
    /\ pc[t] = "idle" /\ poisoned = "no" /\ MayEnter
    /\ cancels < MaxCancels
    /\ pc[Worker] # "released" /\ ~(AtSlot(Worker) /\ kind = "release")
    /\ cancels' = cancels + 1
    /\ target' = [target EXCEPT ![t] = IF InProgress THEN opCtx ELSE Nil]
    /\ overlapped' = "yes"
    /\ Goto(t, "load")
    /\ UNCHANGED <<slot, ctxs, func, kind, ops, opCtx, stream, poisoned,
                   discipline>>

-----------------------------------------------------------------------------

WorkerStep ==
    \/ CancelContext(Worker)
    \/ \E k \in {"query", "short", "release"} : Begin(k)
    \/ Make \/ StoreCancel \/ Return \/ EndCall \/ GetNext \/ Got
    \/ ReleaseStream

Next == WorkerStep \/ \E t \in Cancellers : Cancel(t) \/ CancelContext(t)

\* What waits for the server returns once its context is cancelled (see
\* CancelUnblocks of ResultReader); the server itself owes nothing.
Interrupted ==
    opCtx # Nil /\ ctxs[opCtx] = "cancelled" /\ (EndCall \/ Got)

Fairness ==
    /\ WF_vars(Interrupted)
    /\ \A t \in Threads : WF_vars(CancelContext(t))

Spec == Init /\ [][Next]_vars /\ Fairness

-----------------------------------------------------------------------------
(* Properties.                                                             *)

TypeOK ==
    /\ ctx \in 0..MaxOps /\ cancel \in 0..MaxOps
    /\ ctxs \in [OpIds -> {"unborn", "live", "cancelled"}]
    /\ pc \in [Threads -> {"idle", "load", "call", "clearCtx", "clearCancel",
                           "make", "storeCancel", "return", "run", "getNext",
                           "released"}]
    /\ func \in [Threads -> 0..MaxOps]
    /\ kind \in {"query", "short", "release"}
    /\ ops \in 0..MaxOps /\ opCtx \in 0..MaxOps
    /\ stream \in {"none", "open"} /\ poisoned \in {"no", "yes"}
    /\ discipline \in {"serial", "concurrent"}
    /\ cancels \in 0..MaxCancels /\ target \in [Cancellers -> 0..MaxOps]
    /\ overlapped \in {"no", "yes"}

Returns(t) == pc[t] = "clearCancel" /\ pc'[t] = "idle"

\* A Cancel that returns OK has reached the operation that was in progress
\* when it was called, unless that is over by now.
Reaches(t) == target[t] # Nil /\ target[t] = opCtx /\ InProgress
                  => ctxs[target[t]] = "cancelled"

\* With the calls kept apart, no Cancel is lost: whatever came before it, the
\* slot has the function of the operation in progress.
CancelReaches ==
    [][discipline = "serial" => \A t \in Cancellers : Returns(t) => Reaches(t)]_vars

\* "This must always be thread-safe (other operations are not)" (adbc.h):
\* the same whatever the other threads do.
CancelIsThreadSafe == [][\A t \in Cancellers : Returns(t) => Reaches(t)]_vars

\* The context of the last operation is cancelled by Release or by a Cancel
\* that was under way while it ran, never by a Cancel that had returned
\* before: not even when Cancel and newContext race for the slot.
CancelledByOverlap ==
    ops > 0 /\ ctxs[ops] = "cancelled" =>
        overlapped = "yes" \/ kind = "release" \/ AtSlot(Worker)

\* Renewing the slot cancels what was in it, and so does Release: with the
\* calls kept apart at most one context is live, the one in the slot, and a
\* released handle leaves none behind.
NoStrayContext ==
    discipline = "serial" =>
        \A i \in OpIds : ctxs[i] = "live" =>
            \/ cancel = i
            \/ i = ops /\ pc[Worker] = "storeCancel"

\* With the calls kept apart the slot never makes the driver panic, which
\* would leave every handle of the process unusable.
NeverPoisoned == discipline = "serial" => poisoned = "no"

\* A race damages the operations it overlaps and no later one: whatever Cancel
\* and newContext did to the slot before, an operation that no Cancel overlaps
\* runs on its own context, which is live, and the slot can cancel it.
NoLastingRace ==
    (/\ InProgress /\ overlapped = "no" /\ kind # "release"
     /\ pc[Worker] \in {"idle", "run", "getNext"})
        => opCtx = ops /\ ctx = ops /\ cancel = ops /\ ctxs[ops] = "live"

\* A call or get_next that waits for the server while a Cancel is under way
\* does not wait forever.
CancelStopsWait ==
    \A t \in Cancellers :
        (/\ discipline = "serial" /\ pc[t] = "load"
         /\ pc[Worker] \in {"run", "getNext"})
            ~> pc[Worker] \notin {"run", "getNext"}

=============================================================================
