----------------------- MODULE OperationRunnerProofs ------------------------
(***************************************************************************)
(* Theorems about the operation queue, for any operations, any number of   *)
(* retries and any number of outside events.                               *)
(*                                                                         *)
(* Types, ForegroundNeverWaits and DrainedStaysIdle are inductive.         *)
(* CompletesInOrder is not: it needs to know where in the worker's loop    *)
(* the callback is still owed (CallbackInv). That a user's cancel never    *)
(* trips a non-killable operation whose git runs needs, besides, that an   *)
(* operation is submitted once, so that what runs is not queued, and what  *)
(* a copied source may belong to (KillInv).                                *)
(* That a cancel in time is never overtaken needs only that git runs for   *)
(* nothing but what was started (SpawnInv).                                *)
(***************************************************************************)
EXTENDS OperationRunner, SequenceTheorems, TLAPS

\* The set of a sequence's elements is expanded everywhere.
USE DEF Elements

\* Where the worker must not have taken the callback, and where it must have.
CallbackOwed  == {"popped", "begin", "lockWait", "preflight", "start", "run", "holding",
                  "unlocked", "retryWait", "ran", "deliver"}
CallbackTaken == {"idle", "callback", "ending", "exited"}

CallbackInv ==
    /\ worker \in CallbackOwed => onDone
    /\ worker \in CallbackTaken => ~onDone

-----------------------------------------------------------------------------

\* The head of a queue is an operation, and its tail a queue of operations.
LEMMA TailType ==
    ASSUME NEW S, NEW q \in Seq(S), q # <<>>
    PROVE  Head(q) \in S /\ Tail(q) \in Seq(S)
BY HeadTailProperties

\* recordUndoPoint() leaves a journal of operations.
LEMMA UndoType ==
    ASSUME NEW j \in Seq(Ops), NEW op \in Ops
    PROVE  RecordUndoPoint(j, op) \in Seq(Ops)
<1>1. CASE Len(j) < UndoCap BY <1>1 DEF RecordUndoPoint
<1>2. CASE ~(Len(j) < UndoCap)
  <2>1. j # <<>> BY <1>2, RunnerAssumption
  <2>2. Tail(j) \in Seq(Ops) BY <2>1, TailType
  <2> QED BY <1>2, <2>2 DEF RecordUndoPoint
<1> QED BY <1>1, <1>2

\* A step of the FFI thread keeps the types.
LEMMA FfiKeepsTypes ==
    ASSUME TypeOK, UserStep \/ FfiStep \/ PrepareForShutdown \/ CloseStep
    PROVE  TypeOK'
<1> USE DEF workVars, callerVars, repoVars
<1>1. ASSUME NEW op \in Ops, Submit(op) PROVE TypeOK'
  <2>1. queue' \in Seq(Ops) /\ submitted' \in Seq(Ops)
    BY <1>1 DEF Submit, TypeOK
  <2>2. tripped' \subseteq Ops
    BY <1>1, RunnerAssumption DEF Submit, TypeOK, QueuedBackground
  <2> QED BY <1>1, <2>1, <2>2 DEF Submit, TypeOK
<1>2. ASSUME NEW op \in Ops, CancelQueued(op) PROVE TypeOK'
  BY <1>2 DEF CancelQueued, TypeOK
<1>3. ASSUME NEW op \in Ops, CancelRunning(op) PROVE TypeOK'
  BY <1>3 DEF CancelRunning, TypeOK
<1>4. CASE TripRunning BY <1>4 DEF TripRunning, TypeOK
<1>5. CASE StateBegins BY <1>5 DEF StateBegins, TypeOK, Locks
<1>6. CASE StateReads BY <1>6 DEF StateReads, TypeOK
<1>7. CASE StateReports BY <1>7 DEF StateReports, TypeOK, Locks
<1>8. CASE RemoveStaleChecks BY <1>8 DEF RemoveStaleChecks, TypeOK
<1>9. CASE RemoveStaleUnlinks BY <1>9 DEF RemoveStaleUnlinks, TypeOK, Locks
<1>10. CASE PrepareForShutdown
  BY <1>10, RunnerAssumption DEF PrepareForShutdown, TypeOK, QueuedBackground
<1>11. CASE CancelOperations
  BY <1>11, RunnerAssumption DEF CancelOperations, TypeOK, InFlight
<1>12. CASE TripNext BY <1>12 DEF TripNext, TypeOK
<1>13. CASE Drain BY <1>13 DEF Drain, TypeOK
<1>14. CASE Stop BY <1>14 DEF Stop, TypeOK
<1> QED
  BY <1>1, <1>2, <1>3, <1>4, <1>5, <1>6, <1>7, <1>8, <1>9, <1>10, <1>11, <1>12, <1>13, <1>14
  DEF UserStep, FfiStep, CloseStep

\* Taking the callback keeps the types.
LEMMA DeliveryKeepsTypes ==
    ASSUME TypeOK, worker \in {"deliver", "failing"}, worker' \in {"callback", "ending"},
           onDone' \in BOOLEAN, delivered' \in Seq(Ops),
           UNCHANGED <<queue, tripped, running, killable, described, outcome, retries, edges,
                       spawned, undo, preparing, stopping, callerVars, repoVars, submitted>>
    PROVE  TypeOK'
<1>1. worker' \in WorkerSteps /\ ((running' # None) <=> worker' \notin {"idle", "exited"})
  BY DEF TypeOK, WorkerSteps
<1>2. queue' \in Seq(Ops) /\ submitted' \in Seq(Ops) /\ undo' \in Seq(Ops)
  BY DEF TypeOK
<1>3. /\ tripped' \subseteq Ops /\ running' \in Ops \cup {None} /\ described' \in Ops \cup {None}
      /\ outcome' \in Outcomes /\ retries' \in Nat /\ edges' \in Nat /\ spawned' \in [Ops -> Nat]
  BY DEF TypeOK
<1>4. killable' \in BOOLEAN /\ preparing' \in BOOLEAN /\ stopping' \in BOOLEAN
  BY Zenon DEF TypeOK
<1>5. /\ ffi' \in {"idle", "tripping", "reading", "comparing", "unlinking", "cancelling",
                   "trippingAll", "drained", "joining"}
      /\ held' \subseteq Ops /\ reading' \in [before : Nat, saw : Locks]
  BY Zenon DEF TypeOK, callerVars
<1>6. lock' \in Locks /\ sequencer' \in BOOLEAN /\ outside' \in Nat
  BY Zenon DEF TypeOK, repoVars
<1> QED BY <1>1, <1>2, <1>3, <1>4, <1>5, <1>6, Zenon DEF TypeOK

\* A step of the worker thread keeps the types.
LEMMA WorkerKeepsTypes ==
    ASSUME TypeOK, WorkerStep
    PROVE  TypeOK'
<1> USE DEF callerVars, repoVars, WorkerSteps, Outcomes
<1>1. CASE Pop
  <2>1. Head(queue) \in Ops /\ Tail(queue) \in Seq(Ops)
    BY <1>1, TailType DEF Pop, TypeOK
  <2>2. Head(queue) # None BY <2>1, RunnerAssumption
  <2> QED BY <1>1, <2>1, <2>2 DEF Pop, TypeOK
<1>2. CASE Announce BY <1>2 DEF Announce, TypeOK
<1>3. CASE Begin BY <1>3 DEF Begin, WorkerTo, TypeOK
<1>4. CASE LockWaitEnds BY <1>4 DEF LockWaitEnds, WorkerTo, TypeOK
<1>5. CASE Preflight
  <2>1. Refusal \in {"none", "cancelled", "lockHeld", "conflict"} BY DEF Refusal
  <2> QED BY <1>5, <2>1 DEF Preflight, WorkerTo, TypeOK
<1>6. CASE Start
  <2>1. running \in Ops BY <1>6 DEF Start, TypeOK
  <2>2. undo' \in Seq(Ops) BY <1>6, <2>1, UndoType DEF Start, TypeOK
  <2>3. spawned' \in [Ops -> Nat] BY <1>6, <2>1 DEF Start, TypeOK
  <2> QED BY <1>6, <2>2, <2>3 DEF Start, WorkerTo, TypeOK
<1>7. CASE GitLocks BY <1>7 DEF GitLocks, WorkerTo, TypeOK, Locks
<1>8. CASE GitUnlocks BY <1>8 DEF GitUnlocks, WorkerTo, TypeOK, Locks
<1>9. ASSUME NEW o \in RunResults, GitEnds(o) PROVE TypeOK'
  <2>1. o \in Outcomes BY <1>9 DEF RunResults
  <2> QED BY <1>9, <2>1 DEF GitEnds, WorkerTo, TypeOK
<1>10. CASE Retry
  <2>1. running \in Ops BY <1>10 DEF Retry, TypeOK
  <2>2. spawned' \in [Ops -> Nat] BY <1>10, <2>1 DEF Retry, TypeOK
  <2> QED BY <1>10, <2>2 DEF Retry, WorkerTo, TypeOK
<1>11. CASE RunOver BY <1>11 DEF RunOver, WorkerTo, TypeOK
<1>12. CASE Deliver
  <2>1. running \in Ops BY <1>12 DEF Deliver, TypeOK
  <2>2. delivered' \in Seq(Ops) BY <1>12, <2>1 DEF Deliver, TypeOK
  <2>3. /\ onDone' = FALSE /\ worker' = "callback" /\ worker = "deliver"
        /\ UNCHANGED <<queue, tripped, running, killable, described, outcome, retries, edges,
                       spawned, undo, preparing, stopping, callerVars, repoVars, submitted>>
    BY <1>12 DEF Deliver
  <2>4. onDone' \in BOOLEAN BY <2>3
  <2> QED BY <2>2, <2>3, <2>4, DeliveryKeepsTypes
<1>13. CASE CallbackReturns BY <1>13 DEF CallbackReturns, WorkerTo, TypeOK
<1>14. CASE RunQueuedThrows BY <1>14 DEF RunQueuedThrows, WorkerTo, TypeOK
<1>15. CASE FailUndelivered
  <2>1. running \in Ops BY <1>15 DEF FailUndelivered, TypeOK
  <2>2. delivered' \in Seq(Ops) /\ onDone' \in BOOLEAN
    <3>1. CASE onDone
      <4>1. onDone' = FALSE /\ delivered' = Append(delivered, running)
        BY <1>15, <3>1 DEF FailUndelivered
      <4>2. delivered \in Seq(Ops) BY DEF TypeOK
      <4>3. delivered' \in Seq(Ops) BY <2>1, <4>1, <4>2, AppendProperties
      <4>4. onDone' \in BOOLEAN BY <4>1
      <4> QED BY <4>3, <4>4
    <3>2. CASE ~onDone
      <4>1. onDone' = onDone /\ delivered' = delivered
        BY <1>15, <3>2 DEF FailUndelivered
      <4>2. delivered' \in Seq(Ops) BY <4>1 DEF TypeOK
      <4>3. onDone' \in BOOLEAN BY <4>1, Zenon DEF TypeOK
      <4> QED BY <4>2, <4>3
    <3> QED BY <3>1, <3>2
  <2>3. /\ worker' \in {"callback", "ending"} /\ worker = "failing"
        /\ UNCHANGED <<queue, tripped, running, killable, described, outcome, retries, edges,
                       spawned, undo, preparing, stopping, callerVars, repoVars, submitted>>
    BY <1>15 DEF FailUndelivered
  <2> QED BY <2>2, <2>3, DeliveryKeepsTypes
<1>16. CASE LoopEnds
  <2>1. killable' \in BOOLEAN BY <1>16 DEF LoopEnds
  <2>2. worker' = "idle" /\ running' = None BY <1>16 DEF LoopEnds
  <2> QED BY <1>16, <2>1, <2>2 DEF LoopEnds, TypeOK
<1>17. CASE WorkerExits BY <1>17 DEF WorkerExits, TypeOK
<1> QED
  BY <1>1, <1>2, <1>3, <1>4, <1>5, <1>6, <1>7, <1>8, <1>9, <1>10, <1>11, <1>12, <1>13,
     <1>14, <1>15, <1>16, <1>17
  DEF WorkerStep, GitStep

\* Every step keeps the types.
LEMMA TypesKept == TypeOK /\ [Next]_vars => TypeOK'
<1> SUFFICES ASSUME TypeOK, [Next]_vars PROVE TypeOK'
  OBVIOUS
<1>1. CASE OutsideStep
  <2> USE DEF OutsideOnly, workVars, callerVars, TypeOK, Locks
  <2>1. CASE OutsideLocks BY <2>1 DEF OutsideLocks
  <2>2. CASE OutsideUnlocks BY <2>2 DEF OutsideUnlocks
  <2>3. CASE LockGoesStale BY <2>3 DEF LockGoesStale
  <2>4. CASE SequencerToggles
    <3>1. sequencer' \in BOOLEAN BY <2>4 DEF SequencerToggles
    <3>2. outside' \in Nat BY <2>4 DEF SequencerToggles
    <3> QED BY <2>4, <3>1, <3>2 DEF SequencerToggles
  <2> QED BY <1>1, <2>1, <2>2, <2>3, <2>4 DEF OutsideStep
<1>2. CASE UNCHANGED vars
  BY <1>2 DEF vars, workVars, callerVars, repoVars, TypeOK
<1> QED BY <1>1, <1>2, FfiKeepsTypes, WorkerKeepsTypes DEF Next

\* OperationRunner's state keeps its types, and runningId_ names an operation
\* exactly while the worker has one in hand.
THEOREM RunnerTypeCorrect == Spec => []TypeOK
<1>1. Init => TypeOK
  <2> SUFFICES ASSUME Init PROVE TypeOK
    OBVIOUS
  <2>1. queue \in Seq(Ops) /\ submitted \in Seq(Ops) /\ delivered \in Seq(Ops) /\ undo \in Seq(Ops)
    BY DEF Init
  <2>2. spawned \in [Ops -> Nat] BY DEF Init
  <2>3. reading \in [before : Nat, saw : Locks] BY DEF Init, Locks
  <2> QED BY <2>1, <2>2, <2>3 DEF Init, TypeOK, WorkerSteps, Outcomes, Locks
<1> QED BY <1>1, TypesKept, PTL DEF Spec
-----------------------------------------------------------------------------

\* Once drain() has returned, the worker holds nothing and nobody is left to
\* submit: the FFI thread is in ~Session() and no callback runs.
THEOREM DrainIsFinal == Spec => []DrainedStaysIdle
<1>1. Init => DrainedStaysIdle BY DEF Init, DrainedStaysIdle
<1>2. TypeOK /\ DrainedStaysIdle /\ [Next]_vars => DrainedStaysIdle'
  <2> SUFFICES ASSUME TypeOK, DrainedStaysIdle, [Next]_vars, ffi' \in {"drained", "joining"}
               PROVE  queue' = <<>> /\ running' = None
    BY DEF DrainedStaysIdle
  <2> USE DEF workVars, callerVars, repoVars
  <2>1. CASE UNCHANGED vars BY <2>1 DEF vars, DrainedStaysIdle
  <2>2. CASE OutsideStep
    BY <2>2 DEF OutsideStep, OutsideOnly, OutsideLocks, OutsideUnlocks, LockGoesStale,
                SequencerToggles, DrainedStaysIdle
  <2>3. CASE UserStep
    <3>1. ASSUME NEW op \in Ops, Submit(op) PROVE FALSE
      <4>1. ffi \in {"drained", "joining"} BY <3>1 DEF Submit
      <4>2. worker = "callback" /\ running = None BY <3>1, <4>1 DEF Submit, DrainedStaysIdle
      <4> QED BY <4>2 DEF TypeOK
    <3>2. ASSUME NEW op \in Ops, CancelQueued(op) \/ CancelRunning(op) PROVE FALSE
      BY <3>2 DEF CancelQueued, CancelRunning
    <3> QED BY <2>3, <3>1, <3>2 DEF UserStep
  <2>4. CASE FfiStep
    BY <2>4 DEF FfiStep, TripRunning, StateBegins, StateReads, StateReports,
                RemoveStaleChecks, RemoveStaleUnlinks
  <2>5. CASE PrepareForShutdown BY <2>5 DEF PrepareForShutdown
  <2>6. CASE CloseStep
    BY <2>6 DEF CloseStep, CancelOperations, TripNext, Drain, Stop, Drained, DrainedStaysIdle
  <2>7. CASE WorkerStep
    <3>1. ASSUME ffi' = ffi PROVE queue = <<>> /\ running = None /\ worker \in {"idle", "exited"}
      BY <3>1 DEF DrainedStaysIdle, TypeOK
    <3> QED
      BY <2>7, <3>1
      DEF WorkerStep, GitStep, WorkerTo, Pop, Announce, Begin, LockWaitEnds, Preflight, Start,
          GitLocks, GitUnlocks, GitEnds, Retry, RunOver, Deliver, CallbackReturns,
          RunQueuedThrows, FailUndelivered, LoopEnds, WorkerExits
  <2> QED BY <2>1, <2>2, <2>3, <2>4, <2>5, <2>6, <2>7 DEF Next
<1> QED BY <1>1, <1>2, RunnerTypeCorrect, PTL DEF Spec

-----------------------------------------------------------------------------

\* A sequence is its head before its tail.
LEMMA HeadThenTail ==
    ASSUME NEW S, NEW q \in Seq(S), q # <<>>
    PROVE  q = <<Head(q)>> \o Tail(q)
<1>1. Head(q) \in S /\ Tail(q) \in Seq(S) /\ Len(Tail(q)) = Len(q) - 1
      /\ \A i \in 1 .. Len(Tail(q)) : Tail(q)[i] = q[i + 1]
  BY HeadTailProperties
<1>2. <<Head(q)>> \in Seq(S) BY <1>1
<1>3. <<Head(q)>> \o Tail(q) \in Seq(S) /\ Len(<<Head(q)>> \o Tail(q)) = Len(q)
  BY <1>1, <1>2, ConcatProperties
<1>4. \A i \in 1 .. Len(q) : (<<Head(q)>> \o Tail(q))[i] = q[i]
  BY <1>1, <1>2
<1> QED BY <1>3, <1>4, SeqEqual

\* The callback is there until it is called, and not afterwards, in every
\* place of the worker's loop.
LEMMA CallbackKept ==
    ASSUME TypeOK, CallbackInv, [Next]_vars
    PROVE  CallbackInv'
<1> USE DEF CallbackInv, CallbackOwed, CallbackTaken, workVars, callerVars, repoVars
<1>1. CASE WorkerStep
  <2> USE DEF WorkerTo
  <2>1. CASE Pop BY <2>1 DEF Pop
  <2>2. CASE Announce BY <2>2 DEF Announce
  <2>3. CASE Begin BY <2>3 DEF Begin
  <2>4. CASE LockWaitEnds BY <2>4 DEF LockWaitEnds
  <2>5. CASE Preflight BY <2>5 DEF Preflight
  <2>6. CASE Start BY <2>6 DEF Start
  <2>7. CASE GitStep BY <2>7 DEF GitStep, GitLocks, GitUnlocks, GitEnds
  <2>8. CASE Retry \/ RunOver BY <2>8 DEF Retry, RunOver
  <2>9. CASE Deliver BY <2>9 DEF Deliver
  <2>10. CASE CallbackReturns BY <2>10 DEF CallbackReturns
  <2>11. CASE RunQueuedThrows BY <2>11 DEF RunQueuedThrows
  <2>12. CASE FailUndelivered BY <2>12 DEF FailUndelivered
  <2>13. CASE LoopEnds BY <2>13 DEF LoopEnds
  <2>14. CASE WorkerExits BY <2>14 DEF WorkerExits
  <2> QED BY <1>1, <2>1, <2>2, <2>3, <2>4, <2>5, <2>6, <2>7, <2>8, <2>9, <2>10, <2>11,
             <2>12, <2>13, <2>14 DEF WorkerStep
<1>2. CASE ~WorkerStep
  <2>1. worker' = worker /\ onDone' = onDone
    BY <1>2 DEF Next, vars, UserStep, Submit, CancelQueued, CancelRunning, FfiStep,
       TripRunning, StateBegins, StateReads, StateReports, RemoveStaleChecks,
       RemoveStaleUnlinks, PrepareForShutdown, CloseStep, CancelOperations, TripNext, Drain,
       Stop, OutsideStep, OutsideOnly, OutsideLocks, OutsideUnlocks, LockGoesStale,
       SequencerToggles
  <2> QED BY <2>1
<1> QED BY <1>1, <1>2

\* Calling the callback moves the operation from Owed to delivered.
LEMMA DeliveringKeepsOrder ==
    ASSUME TypeOK, CompletesInOrder, running \in Ops, onDone, ~onDone',
           delivered' = Append(delivered, running), UNCHANGED <<queue, submitted>>
    PROVE  CompletesInOrder'
<1>1. <<running>> \in Seq(Ops) /\ delivered \in Seq(Ops) /\ queue \in Seq(Ops)
  BY DEF TypeOK
<1>2. delivered' = delivered \o <<running>> BY <1>1, AppendIsConcat
<1>3. delivered' \in Seq(Ops) BY <1>1, <1>2, ConcatProperties
<1>4. delivered' \o <<>> = delivered' BY <1>3, ConcatEmptySeq
<1>5. Owed = <<running>> /\ Owed' = <<>> BY DEF Owed
<1> QED BY <1>2, <1>4, <1>5 DEF CompletesInOrder

\* Operations complete in the order of submit(), each exactly once.
THEOREM CompletionOrder == Spec => []CompletesInOrder
<1>1. Init => CallbackInv /\ CompletesInOrder
  <2> SUFFICES ASSUME Init PROVE CallbackInv /\ CompletesInOrder
    OBVIOUS
  <2>1. CallbackInv BY DEF Init, CallbackInv, CallbackOwed, CallbackTaken
  <2>2. CompletesInOrder BY DEF Init, CompletesInOrder, Owed
  <2> QED BY <2>1, <2>2
<1>2. TypeOK /\ CallbackInv /\ CompletesInOrder /\ [Next]_vars => CompletesInOrder'
  <2> SUFFICES ASSUME TypeOK, CallbackInv, CompletesInOrder, [Next]_vars
               PROVE  CompletesInOrder'
    OBVIOUS
  <2> USE DEF workVars, callerVars, repoVars
  <2>1. ASSUME NEW op \in Ops, Submit(op) PROVE CompletesInOrder'
    <3> DEFINE before == delivered \o Owed
    <3>1. queue' = queue \o <<op>> /\ submitted' = submitted \o <<op>>
      BY <2>1, AppendIsConcat DEF Submit, TypeOK
    <3>2. Owed' = Owed /\ delivered' = delivered BY <2>1 DEF Submit, Owed
    <3>3. Owed \in Seq(Ops)
      <4>1. CASE onDone
        <5>1. running \in Ops BY <4>1 DEF CallbackInv, CallbackTaken, TypeOK
        <5> QED BY <4>1, <5>1 DEF Owed
      <4>2. CASE ~onDone BY <4>2 DEF Owed
      <4> QED BY <4>1, <4>2
    <3>4. before \in Seq(Ops) /\ queue \in Seq(Ops) /\ <<op>> \in Seq(Ops)
      BY <3>3, ConcatProperties DEF TypeOK
    <3>5. before \o (queue \o <<op>>) = (before \o queue) \o <<op>>
      BY <3>4, ConcatAssociative
    <3> QED BY <3>1, <3>2, <3>5 DEF CompletesInOrder
  <2>2. CASE Pop
    <3>1. Owed = <<>> /\ Owed' = <<Head(queue)>>
      BY <2>2 DEF Pop, Owed, CallbackInv, CallbackTaken
    <3>2. queue = <<Head(queue)>> \o queue' BY <2>2, HeadThenTail DEF Pop, TypeOK
    <3>3. Head(queue) \in Ops /\ queue' \in Seq(Ops) BY <2>2, TailType DEF Pop, TypeOK
    <3>4. delivered \o <<>> = delivered BY ConcatEmptySeq DEF TypeOK
    <3>5. (delivered \o <<Head(queue)>>) \o queue' = delivered \o (<<Head(queue)>> \o queue')
      <4>1. <<Head(queue)>> \in Seq(Ops) /\ delivered \in Seq(Ops) BY <3>3 DEF TypeOK
      <4> QED BY <3>3, <4>1, ConcatAssociative
    <3>6. delivered' = delivered /\ submitted' = submitted BY <2>2 DEF Pop
    <3> QED BY <3>1, <3>2, <3>4, <3>5, <3>6 DEF CompletesInOrder
  <2>3. CASE Deliver
    <3>1. running \in Ops /\ onDone BY <2>3 DEF Deliver, TypeOK, CallbackInv, CallbackOwed
    <3> QED BY <2>3, <3>1, DeliveringKeepsOrder DEF Deliver
  <2>4. CASE FailUndelivered
    <3>1. CASE onDone
      <4>1. running \in Ops BY <2>4 DEF FailUndelivered, TypeOK
      <4> QED BY <2>4, <3>1, <4>1, DeliveringKeepsOrder DEF FailUndelivered
    <3>2. CASE ~onDone
      <4>1. UNCHANGED <<delivered, onDone, queue, submitted>> BY <2>4, <3>2 DEF FailUndelivered
      <4> QED BY <3>2, <4>1 DEF CompletesInOrder, Owed
    <3> QED BY <3>1, <3>2
  <2>5. CASE LoopEnds
    <3>1. ~onDone /\ UNCHANGED <<delivered, onDone, queue, submitted>>
      BY <2>5 DEF LoopEnds, CallbackInv, CallbackTaken
    <3> QED BY <3>1 DEF CompletesInOrder, Owed
  <2>6. ASSUME \A op \in Ops : ~Submit(op), ~Pop, ~Deliver, ~FailUndelivered, ~LoopEnds
        PROVE  CompletesInOrder'
    <3>1. UNCHANGED <<delivered, onDone, running, queue, submitted>>
      BY <2>6 DEF Next, vars, UserStep, CancelQueued, CancelRunning, FfiStep,
         TripRunning, StateBegins, StateReads, StateReports, RemoveStaleChecks,
         RemoveStaleUnlinks, PrepareForShutdown, CloseStep, CancelOperations, TripNext,
         Drain, Stop, OutsideStep, OutsideOnly, OutsideLocks, OutsideUnlocks, LockGoesStale,
         SequencerToggles, WorkerStep, WorkerTo, Announce, Begin, LockWaitEnds, Preflight,
         Start, GitStep, GitLocks, GitUnlocks, GitEnds, Retry, RunOver, CallbackReturns,
         RunQueuedThrows, WorkerExits
    <3> QED BY <3>1 DEF CompletesInOrder, Owed
  <2> QED BY <2>1, <2>2, <2>3, <2>4, <2>5, <2>6
<1>3. TypeOK /\ CallbackInv /\ [Next]_vars => CallbackInv' BY CallbackKept
<1> QED BY <1>1, <1>2, <1>3, RunnerTypeCorrect, PTL DEF Spec
-----------------------------------------------------------------------------

\* Every background operation queued before a foreground one is cancelled: by
\* the submit() of the foreground one, under the lock.
THEOREM ForegroundFirst == Spec => []ForegroundNeverWaits
<1>1. Init => ForegroundNeverWaits BY DEF Init, ForegroundNeverWaits
<1>2. TypeOK /\ ForegroundNeverWaits /\ [Next]_vars => ForegroundNeverWaits'
  <2> SUFFICES ASSUME TypeOK, ForegroundNeverWaits, [Next]_vars,
                      NEW i \in DOMAIN queue', NEW j \in DOMAIN queue',
                      i < j, queue'[j] \notin Background, queue'[i] \in Background
               PROVE  queue'[i] \in tripped'
    BY DEF ForegroundNeverWaits
  <2> USE DEF workVars, callerVars, repoVars
  <2>0. queue \in Seq(Ops) BY DEF TypeOK
  <2>1. ASSUME NEW op \in Ops, Submit(op) PROVE queue'[i] \in tripped'
    <3>1. queue' = Append(queue, op) /\ tripped \subseteq tripped' BY <2>1 DEF Submit
    <3>2. /\ i \in 1 .. Len(queue) + 1 /\ j \in 1 .. Len(queue) + 1
          /\ queue'[Len(queue) + 1] = op
          /\ \A k \in 1 .. Len(queue) : queue'[k] = queue[k]
      BY <2>0, <3>1, AppendProperties
    <3>3. i \in DOMAIN queue /\ queue'[i] = queue[i] BY <2>0, <3>2
    <3>4. CASE j = Len(queue) + 1
      <4>1. op \notin Background BY <3>2, <3>4
      <4>2. QueuedBackground \subseteq tripped' BY <2>1, <4>1 DEF Submit
      <4> QED BY <3>3, <4>2 DEF QueuedBackground
    <3>5. CASE j # Len(queue) + 1
      <4>1. j \in DOMAIN queue /\ queue'[j] = queue[j] BY <2>0, <3>2, <3>5
      <4> QED BY <3>1, <3>3, <4>1 DEF ForegroundNeverWaits
    <3> QED BY <3>4, <3>5
  <2>2. CASE Pop
    <3>1. queue # <<>> /\ queue' = Tail(queue) /\ tripped' = tripped BY <2>2 DEF Pop
    <3>2. /\ i \in Nat /\ j \in Nat /\ i + 1 \in DOMAIN queue /\ j + 1 \in DOMAIN queue
          /\ queue'[i] = queue[i + 1] /\ queue'[j] = queue[j + 1]
      BY <2>0, <3>1, HeadTailProperties
    <3> QED BY <3>1, <3>2 DEF ForegroundNeverWaits
  <2>3. ASSUME \A op \in Ops : ~Submit(op), ~Pop PROVE queue'[i] \in tripped'
    <3>1. queue' = queue /\ tripped \subseteq tripped'
      BY <2>3 DEF Next, vars, UserStep, CancelQueued, CancelRunning, FfiStep,
         TripRunning, StateBegins, StateReads, StateReports, RemoveStaleChecks,
         RemoveStaleUnlinks, PrepareForShutdown, CloseStep, CancelOperations, TripNext,
         Drain, Stop, OutsideStep, OutsideOnly, OutsideLocks, OutsideUnlocks, LockGoesStale,
         SequencerToggles, WorkerStep, WorkerTo, Announce, Begin, LockWaitEnds, Preflight,
         Start, GitStep, GitLocks, GitUnlocks, GitEnds, Retry, RunOver, Deliver,
         CallbackReturns, RunQueuedThrows, FailUndelivered, LoopEnds, WorkerExits
    <3> QED BY <3>1 DEF ForegroundNeverWaits
  <2> QED BY <2>1, <2>2, <2>3
<1> QED BY <1>1, <1>2, RunnerTypeCorrect, PTL DEF Spec

-----------------------------------------------------------------------------

\* An operation is submitted once.
SubmittedOnce == \A i, j \in DOMAIN submitted : submitted[i] = submitted[j] => i = j

\* What runningKillable_, and a source copied by cancel(), may belong to.
KillInv ==
    /\ SubmittedOnce
    /\ worker \in {"idle", "popped"} => ~killable
    /\ killable => running \in Killable
    /\ ffi = "tripping" => held \subseteq Killable
    /\ ffi \in {"cancelling", "trippingAll"} => preparing

\* KillInv is inductive.
LEMMA KillInvKept ==
    ASSUME TypeOK, KillInv, [Next]_vars
    PROVE  KillInv'
<1> USE DEF KillInv, workVars, callerVars, repoVars
<1>1. SubmittedOnce'
  <2>1. ASSUME NEW op \in Ops, Submit(op) PROVE SubmittedOnce'
    <3>1. submitted \in Seq(Ops) BY DEF TypeOK
    <3>2. submitted' = Append(submitted, op) /\ op \notin Elements(submitted)
      BY <2>1 DEF Submit
    <3> QED BY <3>1, <3>2, AppendProperties DEF SubmittedOnce
  <2>2. ASSUME \A op \in Ops : ~Submit(op) PROVE submitted' = submitted
    BY <2>2 DEF Next, vars, UserStep, CancelQueued, CancelRunning, FfiStep,
       TripRunning, StateBegins, StateReads, StateReports, RemoveStaleChecks,
       RemoveStaleUnlinks, PrepareForShutdown, CloseStep, CancelOperations, TripNext,
       Drain, Stop, OutsideStep, OutsideOnly, OutsideLocks, OutsideUnlocks, LockGoesStale,
       SequencerToggles, WorkerStep, WorkerTo, Pop, Announce, Begin, LockWaitEnds,
       Preflight, Start, GitStep, GitLocks, GitUnlocks, GitEnds, Retry, RunOver, Deliver,
       CallbackReturns, RunQueuedThrows, FailUndelivered, LoopEnds, WorkerExits
  <2> QED BY <2>1, <2>2 DEF SubmittedOnce
<1>2. CASE WorkerStep
  <2> USE DEF WorkerTo
  <2>1. UNCHANGED <<ffi, held, preparing>>
    BY <1>2 DEF WorkerStep, Pop, Announce, Begin, LockWaitEnds,
       Preflight, Start, GitStep, GitLocks, GitUnlocks, GitEnds, Retry, RunOver, Deliver,
       CallbackReturns, RunQueuedThrows, FailUndelivered, LoopEnds, WorkerExits
  <2>2. (worker' \in {"idle", "popped"} => ~killable') /\ (killable' => running' \in Killable)
    <3>1. CASE Pop BY <3>1 DEF Pop
    <3>2. CASE Announce BY <3>2 DEF Announce
    <3>3. CASE LoopEnds BY <3>3 DEF LoopEnds
    <3>4. ASSUME ~Pop, ~Announce, ~LoopEnds
          PROVE  UNCHANGED <<killable, running>> /\ worker' \notin {"idle", "popped"}
      BY <1>2, <3>4 DEF WorkerStep, Begin, LockWaitEnds, Preflight, Start, GitStep, GitLocks,
         GitUnlocks, GitEnds, Retry, RunOver, Deliver, CallbackReturns, RunQueuedThrows,
         FailUndelivered, WorkerExits
    <3> QED BY <3>1, <3>2, <3>3, <3>4
  <2> QED BY <1>1, <2>1, <2>2
<1>3. CASE ~WorkerStep
  <2>1. UNCHANGED <<worker, killable, running>>
    BY <1>3 DEF Next, vars, UserStep, Submit, CancelQueued, CancelRunning, FfiStep,
       TripRunning, StateBegins, StateReads, StateReports, RemoveStaleChecks,
       RemoveStaleUnlinks, PrepareForShutdown, CloseStep, CancelOperations, TripNext, Drain,
       Stop, OutsideStep, OutsideOnly, OutsideLocks, OutsideUnlocks, LockGoesStale,
       SequencerToggles
  <2>2. /\ ffi' = "tripping" => held' \subseteq Killable
        /\ ffi' \in {"cancelling", "trippingAll"} => preparing'
    <3>1. CASE UserStep
      BY <3>1 DEF UserStep, Submit, CancelQueued, CancelRunning
    <3>2. CASE FfiStep
      <4>1. ffi' \notin {"tripping", "cancelling", "trippingAll"}
        BY <3>2 DEF FfiStep, TripRunning, StateBegins, StateReads, StateReports,
           RemoveStaleChecks, RemoveStaleUnlinks
      <4> QED BY <4>1
    <3>3. CASE PrepareForShutdown BY <3>3 DEF PrepareForShutdown
    <3>4. CASE CloseStep BY <3>4 DEF CloseStep, CancelOperations, TripNext, Drain, Stop
    <3>5. CASE OutsideStep \/ UNCHANGED vars
      BY <3>5 DEF vars, OutsideStep, OutsideOnly, OutsideLocks, OutsideUnlocks, LockGoesStale,
         SequencerToggles
    <3> QED BY <1>3, <3>1, <3>2, <3>3, <3>4, <3>5 DEF Next
  <2> QED BY <1>1, <2>1, <2>2
<1> QED BY <1>2, <1>3

\* What runs is not queued as well.
LEMMA RunningNotQueued ==
    ASSUME TypeOK, CompletesInOrder, SubmittedOnce, onDone, running \in Ops
    PROVE  running \notin Elements(queue)
<1>0. queue \in Seq(Ops) BY DEF TypeOK
<1> SUFFICES ASSUME NEW k \in 1 .. Len(queue), queue[k] = running PROVE FALSE
  BY <1>0
<1> DEFINE front == delivered \o <<running>>  n == Len(delivered)
<1>1. delivered \in Seq(Ops) /\ <<running>> \in Seq(Ops) /\ queue \in Seq(Ops) /\ n \in Nat
  BY DEF TypeOK
<1>2. front \in Seq(Ops) /\ Len(front) = n + 1 /\ front[n + 1] = running
  BY <1>1, ConcatProperties
<1>3. submitted = front \o queue BY DEF CompletesInOrder, Owed
<1> HIDE DEF front, n
<1>4. /\ Len(submitted) = n + 1 + Len(queue) /\ submitted \in Seq(Ops)
      /\ \A i \in 1 .. n + 1 + Len(queue) :
            submitted[i] = IF i <= n + 1 THEN front[i] ELSE queue[i - (n + 1)]
  <2>1. /\ front \o queue \in Seq(Ops)
        /\ Len(front \o queue) = Len(front) + Len(queue)
        /\ \A i \in 1 .. Len(front) + Len(queue) : (front \o queue)[i] =
              IF i <= Len(front) THEN front[i] ELSE queue[i - Len(front)]
    BY <1>1, <1>2, ConcatProperties, Zenon
  <2> QED BY <1>2, <1>3, <2>1
<1>5. submitted[n + 1] = running /\ submitted[n + 1 + k] = running
  BY <1>1, <1>2, <1>4
<1>6. n + 1 \in DOMAIN submitted /\ n + 1 + k \in DOMAIN submitted BY <1>1, <1>4
<1> QED BY <1>1, <1>5, <1>6 DEF SubmittedOnce

\* A user's cancel, or a foreground submit(), never trips an operation that is
\* not killable while its git runs: only closing the session does.
THEOREM UserCancelSparesRunning == Spec => NoUserKillMidFlight
<1>1. Init => KillInv
  <2> SUFFICES ASSUME Init PROVE KillInv
    OBVIOUS
  <2>1. SubmittedOnce BY DEF Init, SubmittedOnce
  <2> QED BY <2>1 DEF Init, KillInv
<1>2. Init => CallbackInv BY DEF Init, CallbackInv, CallbackOwed, CallbackTaken
<1>3. TypeOK /\ CallbackInv /\ [Next]_vars => CallbackInv' BY CallbackKept
<1>4. TypeOK /\ KillInv /\ [Next]_vars => KillInv' BY KillInvKept
<1>5. TypeOK /\ KillInv /\ CallbackInv /\ CompletesInOrder /\ [Next]_vars
      => [\A op \in Ops : op \in tripped' \ tripped /\ op = running /\ GitRuns /\ ~preparing
              => op \in Killable]_vars
  <2> SUFFICES ASSUME TypeOK, KillInv, CallbackInv, CompletesInOrder, Next,
                      running \in Ops, running \in tripped' \ tripped, GitRuns, ~preparing
               PROVE  running \in Killable
    OBVIOUS
  <2> USE DEF workVars, callerVars, repoVars
  <2>1. running \notin Elements(queue)
    BY RunningNotQueued DEF KillInv, CallbackInv, CallbackOwed, GitRuns
  <2>2. CASE TripRunning BY <2>2 DEF TripRunning, KillInv
  <2>3. CASE TripNext BY <2>3 DEF TripNext, KillInv
  <2>4. CASE ~TripRunning /\ ~TripNext
    <3>1. tripped' = tripped \/ tripped' \subseteq tripped \cup Elements(queue)
      BY <2>4 DEF Next, vars, UserStep, Submit, CancelQueued, CancelRunning, FfiStep,
         StateBegins, StateReads, StateReports, RemoveStaleChecks,
         RemoveStaleUnlinks, PrepareForShutdown, CloseStep, CancelOperations,
         Drain, Stop, OutsideStep, OutsideOnly, OutsideLocks, OutsideUnlocks, LockGoesStale,
         SequencerToggles, WorkerStep, WorkerTo, Pop, Announce, Begin, LockWaitEnds,
         Preflight, Start, GitStep, GitLocks, GitUnlocks, GitEnds, Retry, RunOver, Deliver,
         CallbackReturns, RunQueuedThrows, FailUndelivered, LoopEnds, WorkerExits,
         QueuedBackground
    <3> QED BY <2>1, <3>1
  <2> QED BY <2>2, <2>3, <2>4
<1> QED
  BY <1>1, <1>2, <1>3, <1>4, <1>5, RunnerTypeCorrect, CompletionOrder, PTL
  DEF Spec, NoUserKillMidFlight

-----------------------------------------------------------------------------

\* Its run() was called for an operation whose git runs.
SpawnInv == GitRuns => spawned[running] > 0

\* Cancelled in time: run() was not called, and is not the next thing called.
CancelledInTime(op) == op \in tripped /\ spawned[op] = 0 /\ ~(op = running /\ worker = "start")

\* Only Start and Retry call run(), and no step takes a cancel back.
LEMMA OnlyRunSpawns ==
    ASSUME [Next]_vars
    PROVE  /\ tripped \subseteq tripped'
           /\ Start \/ Retry \/ UNCHANGED spawned
<1> USE DEF workVars, callerVars, repoVars
<1>1. CASE WorkerStep
  BY <1>1 DEF WorkerStep, WorkerTo, Pop, Announce, Begin, LockWaitEnds, Preflight, Start,
     GitStep, GitLocks, GitUnlocks, GitEnds, RunOver, Deliver, CallbackReturns,
     RunQueuedThrows, FailUndelivered, LoopEnds, WorkerExits, Retry
<1>2. CASE ~WorkerStep
  BY <1>2 DEF Next, vars, UserStep, Submit, CancelQueued, CancelRunning, FfiStep, TripRunning,
     StateBegins, StateReads, StateReports, RemoveStaleChecks, RemoveStaleUnlinks,
     PrepareForShutdown, CloseStep, CancelOperations, TripNext, Drain, Stop, OutsideStep,
     OutsideOnly, OutsideLocks, OutsideUnlocks, LockGoesStale, SequencerToggles
<1> QED BY <1>1, <1>2

\* How the worker comes to a run: preflight() lets only what is not cancelled start, and
\* whatever runs was started or is run again.
LEMMA OnlyPreflightStarts ==
    ASSUME [Next]_vars
    PROVE  /\ worker' = "start" => \/ worker = "preflight" /\ running' = running
                                      /\ running \notin tripped /\ tripped' = tripped
                                   \/ worker = "start" /\ running' = running
           /\ GitRuns' => Start \/ (GitRuns /\ running' = running)
<1> USE DEF workVars, callerVars, repoVars, GitRuns
<1>1. CASE WorkerStep
  <2> USE DEF WorkerTo
  <2>1. CASE Preflight BY <2>1 DEF Preflight, Refusal
  <2>2. CASE Start BY <2>2 DEF Start
  <2>3. CASE Retry BY <2>3 DEF Retry
  <2>4. CASE GitStep BY <2>4 DEF GitStep, GitLocks, GitUnlocks, GitEnds
  <2>5. CASE Begin BY <2>5 DEF Begin
  <2>6. CASE LockWaitEnds \/ RunOver \/ CallbackReturns \/ RunQueuedThrows
    BY <2>6 DEF LockWaitEnds, RunOver, CallbackReturns, RunQueuedThrows
  <2>7. CASE Pop \/ Announce \/ Deliver \/ FailUndelivered \/ LoopEnds \/ WorkerExits
    BY <2>7 DEF Pop, Announce, Deliver, FailUndelivered, LoopEnds, WorkerExits
  <2> QED BY <1>1, <2>1, <2>2, <2>3, <2>4, <2>5, <2>6, <2>7 DEF WorkerStep
<1>2. CASE ~WorkerStep
  <2>1. UNCHANGED <<worker, running>>
    BY <1>2 DEF Next, vars, UserStep, Submit, CancelQueued, CancelRunning, FfiStep, TripRunning,
       StateBegins, StateReads, StateReports, RemoveStaleChecks, RemoveStaleUnlinks,
       PrepareForShutdown, CloseStep, CancelOperations, TripNext, Drain, Stop, OutsideStep,
       OutsideOnly, OutsideLocks, OutsideUnlocks, LockGoesStale, SequencerToggles
  <2> QED BY <2>1
<1> QED BY <1>1, <1>2

LEMMA SpawnInvKept == TypeOK /\ SpawnInv /\ [Next]_vars => SpawnInv'
<1> SUFFICES ASSUME TypeOK, SpawnInv, [Next]_vars, GitRuns' PROVE spawned'[running'] > 0
  BY DEF SpawnInv
<1>1. spawned \in [Ops -> Nat] /\ (worker # "idle" /\ worker # "exited" => running \in Ops)
  BY DEF TypeOK
<1>2. CASE Start
  <2>1. running \in Ops /\ running' = running /\ spawned' = [spawned EXCEPT ![running] = @ + 1]
    BY <1>1, <1>2 DEF Start, WorkerTo
  <2> QED BY <1>1, <2>1
<1>3. CASE ~Start
  <2>1. running' = running /\ spawned[running] > 0 /\ running \in Ops
    BY <1>1, <1>3, OnlyPreflightStarts DEF SpawnInv, GitRuns
  <2>2. CASE Retry
    <3>1. spawned' = [spawned EXCEPT ![running] = @ + 1] BY <2>2 DEF Retry
    <3> QED BY <1>1, <2>1, <3>1
  <2>3. CASE ~Retry BY <1>3, <2>1, <2>3, OnlyRunSpawns
  <2> QED BY <2>2, <2>3
<1> QED BY <1>2, <1>3

\* What was cancelled in time stays so: run() is called for the running operation only,
\* which has either been started before or passed preflight() uncancelled.
LEMMA InTimeStays ==
    ASSUME NEW op \in Ops, TypeOK, SpawnInv, CancelledInTime(op), [Next]_vars
    PROVE  CancelledInTime(op)'
<1>1. op \in tripped' BY OnlyRunSpawns DEF CancelledInTime
<1>2. spawned'[op] = 0
  <2>1. spawned \in [Ops -> Nat] /\ spawned[op] = 0 BY DEF TypeOK, CancelledInTime
  <2>2. CASE Start
    <3>1. op # running /\ spawned' = [spawned EXCEPT ![running] = @ + 1]
      BY <2>2 DEF Start, CancelledInTime
    <3> QED BY <2>1, <3>1
  <2>3. CASE Retry
    <3>1. spawned[running] > 0 /\ spawned' = [spawned EXCEPT ![running] = @ + 1]
      BY <2>3 DEF Retry, SpawnInv, GitRuns
    <3>2. op # running BY <2>1, <3>1
    <3> QED BY <2>1, <3>1, <3>2
  <2> QED BY <2>1, <2>2, <2>3, OnlyRunSpawns
<1>3. ~(op = running' /\ worker' = "start")
  BY OnlyPreflightStarts DEF CancelledInTime
<1> QED BY <1>1, <1>2, <1>3 DEF CancelledInTime

\* An operation cancelled before preflight() let it pass never runs git, for any
\* operations, retries, lock holders and throws: preflight() reads the token again after
\* the lock wait (OperationRunner.cpp, waitForLiveIndexLock() and preflight()).
THEOREM CancelledStaysUnspawned == Spec => CancelledNeverSpawns
<1> SUFFICES ASSUME NEW op \in Ops
             PROVE  Spec => [](op \in tripped /\ spawned[op] = 0 /\ ~(op = running /\ worker = "start")
                                 => [](spawned[op] = 0))
  BY DEF CancelledNeverSpawns
<1>1. Init => SpawnInv BY DEF Init, SpawnInv, GitRuns
<1>2. TypeOK /\ SpawnInv /\ [Next]_vars => SpawnInv' BY SpawnInvKept
<1>3. TypeOK /\ SpawnInv /\ CancelledInTime(op) /\ [Next]_vars => CancelledInTime(op)'
  BY InTimeStays
<1>4. CancelledInTime(op) => spawned[op] = 0 BY DEF CancelledInTime
<1>5. op \in tripped /\ spawned[op] = 0 /\ ~(op = running /\ worker = "start") => CancelledInTime(op)
  BY DEF CancelledInTime
<1> QED BY <1>1, <1>2, <1>3, <1>4, <1>5, RunnerTypeCorrect, PTL DEF Spec
=============================================================================
