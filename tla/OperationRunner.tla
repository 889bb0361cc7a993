-------------------------- MODULE OperationRunner ---------------------------
(***************************************************************************)
(* The serial queue of mutating git operations of one repository           *)
(* (core/git/OperationRunner.cpp), with the two callers it has in a        *)
(* Session: the FFI thread, which submits, cancels, asks for the state,    *)
(* removes a stale lock and finally closes the session, and the runner's   *)
(* own worker thread, whose completion callbacks submit housekeeping.      *)
(*                                                                         *)
(* Outside the process, other git processes hold `index.lock`, leave it    *)
(* behind, and start or end a merge or rebase ("sequencer" operation).     *)
(* Each operation is submitted at most once; its class's overrides         *)
(* (killableMidFlight() and so on) are the constant sets it belongs to.    *)
(***************************************************************************)
EXTENDS Integers, Sequences, FiniteSets

CONSTANTS
    Ops,            \* operations that may be submitted
    Killable,       \* killableMidFlight()
    Background,     \* isBackground()
    Housekeeping,   \* isHousekeeping()
    Retriable,      \* retriesOnLockHeld()
    Recovery,       \* allowedDuringSequencerOperation()
    Tracked,        \* submitted through Session::submitOperation(): in inFlight_
    None,           \* no operation (the code's id 0)
    LockRetries,    \* kLockRetries
    UndoCap,        \* kMaxUndoEntries
    MaxOutside,     \* bound: times an outside process takes the lock or a sequencer starts
    MayThrow        \* whether an exception may leave runQueued()

ASSUME RunnerAssumption ==
    /\ Killable \subseteq Ops /\ Background \subseteq Ops /\ Housekeeping \subseteq Background
    /\ Retriable \subseteq Ops /\ Recovery \subseteq Ops /\ Tracked \subseteq Ops
    /\ None \notin Ops
    /\ UndoCap \in Nat \ {0}
    /\ LockRetries \in Nat /\ MaxOutside \in Nat /\ MayThrow \in BOOLEAN

VARIABLES
    queue,          \* queue_
    tripped,        \* operations whose CancellationSource is cancelled
    running,        \* runningId_ (busy_ is running # None: both change together)
    killable,       \* runningKillable_
    described,      \* the operation runningDescription_ describes
    worker,         \* where the worker thread is
    onDone,         \* the running operation's callback is not yet taken
    outcome,        \* the running operation's outcome
    retries,        \* retries of the running operation
    edges,          \* housekeepingEdges_
    preparing,      \* preparingForShutdown_
    stopping,       \* stopping_
    ffi,            \* where the FFI thread is
    held,           \* sources the FFI thread copied out to cancel unlocked
    reading,        \* state(): the edges seen before, and the lock as read
    lock,           \* index.lock: absent, our operation's, our housekeeping's, live
                    \* elsewhere, or stale
    sequencer,      \* a merge, rebase, ... is in progress in the repository
    outside,        \* outside events so far
    submitted, delivered,   \* history: operations in order of submit() and onDone()
    spawned,        \* history: how often each operation's run() was called
    undo            \* undoJournal_: the operations with an entry, oldest first

callerVars == <<ffi, held, reading>>
workVars   == <<running, killable, described, worker, onDone, outcome, retries, edges,
                delivered, spawned, undo>>
repoVars   == <<lock, sequencer, outside>>
vars == <<queue, tripped, workVars, preparing, stopping, callerVars, repoVars,
          submitted>>

Elements(s) == {s[i] : i \in DOMAIN s}

Init ==
    /\ queue = <<>> /\ tripped = {} /\ running = None /\ killable = FALSE
    /\ described = None /\ worker = "idle" /\ onDone = FALSE /\ outcome = "none"
    /\ retries = 0 /\ edges = 0 /\ preparing = FALSE /\ stopping = FALSE
    /\ ffi = "idle" /\ held = {} /\ reading = [before |-> 0, saw |-> "none"]
    /\ lock = "none" /\ sequencer = FALSE /\ outside = 0
    /\ submitted = <<>> /\ delivered = <<>> /\ spawned = [op \in Ops |-> 0]
    /\ undo = <<>>

-----------------------------------------------------------------------------
(* Callers *)

NobodyYields == {}                          \* mutant: queued background is left alone

QueuedBackground == Elements(queue) \cap Background

\* submit(): a foreground operation cancels the background ones still queued,
\* under the lock; background work submitted during a close arrives cancelled.
Submit(op) ==
    /\ op \notin Elements(submitted)
    /\ \/ ffi = "idle"
       \/ worker = "callback" /\ op \in Housekeeping
    /\ tripped' = tripped
                  \cup (IF op \in Background THEN {} ELSE QueuedBackground)
                  \cup (IF preparing /\ op \in Background THEN {op} ELSE {})
    /\ queue' = Append(queue, op)
    /\ submitted' = Append(submitted, op)
    /\ UNCHANGED <<workVars, preparing, stopping, callerVars, repoVars>>

\* What cancel(id) answers, and for a refusal the operation it describes. A
\* refusal and a NotFound change nothing.
CancelResult(op) ==
    IF op \in Elements(queue) THEN "Cancelled"
    ELSE IF op # running THEN "NotFound"
    ELSE IF ~killable THEN "NotCancellable"
    ELSE "Cancelled"
Description == described

\* mutant: the queued operation's source is copied, and cancelled after unlock
CancelQueuedLate(op) ==
    /\ ffi = "idle" /\ op \in Elements(queue)
    /\ ffi' = "tripping" /\ held' = {op}
    /\ UNCHANGED <<queue, tripped, workVars, preparing, stopping, reading, repoVars,
                   submitted>>

\* cancel(id) of a queued operation: tripped before mutex_ is released.
CancelQueued(op) ==
    /\ ffi = "idle" /\ op \in Elements(queue)
    /\ tripped' = tripped \cup {op}
    /\ UNCHANGED <<queue, workVars, preparing, stopping, callerVars, repoVars,
                   submitted>>

\* cancel(id) of the running operation: its source is copied under the lock ...
CancelRunning(op) ==
    /\ ffi = "idle" /\ op = running /\ op # None /\ killable
    /\ ffi' = "tripping" /\ held' = {op}
    /\ UNCHANGED <<queue, tripped, workVars, preparing, stopping, reading, repoVars, submitted>>

\* ... and cancelled after it is released.
TripRunning ==
    /\ ffi = "tripping"
    /\ tripped' = tripped \cup held
    /\ ffi' = "idle" /\ held' = {}
    /\ UNCHANGED <<queue, workVars, preparing, stopping, reading,
                   repoVars, submitted>>

\* state(): the edge counter, then the repository, then the counter again.
StateBegins ==
    /\ ffi = "idle"
    /\ ffi' = "reading" /\ reading' = [before |-> edges, saw |-> "none"]
    /\ UNCHANGED <<queue, tripped, workVars, preparing, stopping, held, repoVars, submitted>>

StateReads ==
    /\ ffi = "reading"
    /\ ffi' = "comparing" /\ reading' = [reading EXCEPT !.saw = lock]
    /\ UNCHANGED <<queue, tripped, workVars, preparing, stopping, held, repoVars, submitted>>

\* The lock is left out if housekeeping ran at any moment of the read.
HousekeepingMet(before, after) == before % 2 # 0 \/ after # before

Reported == IF HousekeepingMet(reading.before, edges) THEN "none" ELSE reading.saw

StateReports ==
    /\ ffi = "comparing"
    /\ ffi' = "idle" /\ reading' = [before |-> 0, saw |-> "none"]
    /\ UNCHANGED <<queue, tripped, workVars, preparing, stopping, held, repoVars, submitted>>

\* removeStaleIndexLock(): re-validates the age, then unlinks.
RemoveStaleChecks ==
    /\ ffi = "idle" /\ lock = "stale"
    /\ ffi' = "unlinking"
    /\ UNCHANGED <<queue, tripped, workVars, preparing, stopping, held, reading, repoVars, submitted>>

RemoveStaleUnlinks ==
    /\ ffi = "unlinking"
    /\ lock' = "none" /\ ffi' = "idle"
    /\ UNCHANGED <<queue, tripped, workVars, preparing, stopping, held, reading, sequencer, outside, submitted>>

-----------------------------------------------------------------------------
(* ~Session(), on the FFI thread: prepare, cancel what is in flight, drain, *)
(* then ~OperationRunner()                                                  *)

PrepareForShutdown ==
    /\ ffi = "idle"
    /\ preparing' = TRUE
    /\ tripped' = tripped \cup QueuedBackground
    /\ ffi' = "cancelling"
    /\ UNCHANGED <<queue, workVars, stopping, held, reading, repoVars,
                   submitted>>

InFlight == (Tracked \cap Elements(submitted)) \ Elements(delivered)

\* cancelOperations(0) copies every source in inFlight_, then trips each.
CancelOperations ==
    /\ ffi = "cancelling"
    /\ held' = InFlight /\ ffi' = "trippingAll"
    /\ UNCHANGED <<queue, tripped, workVars, preparing, stopping, reading, repoVars, submitted>>

TripNext ==
    /\ ffi = "trippingAll" /\ held # {}
    /\ \E op \in held : tripped' = tripped \cup {op} /\ held' = held \ {op}
    /\ UNCHANGED <<queue, workVars, preparing, stopping, ffi, reading, repoVars, submitted>>

QueueEmpty == queue = <<>>                  \* mutant: busy_ is not waited for

\* drain() returns: the queue is empty and the worker is not busy.
Drained == queue = <<>> /\ running = None

Drain ==
    /\ ffi = "trippingAll" /\ held = {} /\ Drained
    /\ ffi' = "drained"
    /\ UNCHANGED <<queue, tripped, workVars, preparing, stopping, held, reading, repoVars, submitted>>

\* mutant: the worker is joined without being told to stop
StopUnsaid ==
    /\ ffi = "drained"
    /\ ffi' = "joining"
    /\ UNCHANGED <<queue, tripped, workVars, preparing, stopping, held, reading, repoVars,
                   submitted>>

Stop ==
    /\ ffi = "drained"
    /\ stopping' = TRUE /\ ffi' = "joining"
    /\ UNCHANGED <<queue, tripped, workVars, preparing, held, reading, repoVars, submitted>>

-----------------------------------------------------------------------------
(* The worker thread *)

\* workerLoop(): popped, and running from the instant it left the queue.
Pop ==
    /\ worker = "idle" /\ queue # <<>>
    /\ running' = Head(queue) /\ queue' = Tail(queue)
    /\ onDone' = TRUE /\ outcome' = "none" /\ retries' = 0
    /\ worker' = "popped"
    /\ UNCHANGED <<tripped, killable, described, edges, delivered, spawned, undo,
                   preparing, stopping, callerVars, repoVars, submitted>>

\* runQueued(), its first section under mutex_.
Announce ==
    /\ worker = "popped"
    /\ killable' = (running \in Killable) /\ described' = running
    /\ worker' = "begin"
    /\ UNCHANGED <<queue, tripped, running, onDone, outcome, retries, edges, delivered,
                   spawned, undo, preparing, stopping, callerVars, repoVars, submitted>>

\* The worker moves to `step` with outcome `o`; nothing else changes.
WorkerTo(step, o) ==
    /\ worker' = step /\ outcome' = o
    /\ UNCHANGED <<queue, tripped, running, killable, described, onDone, delivered,
                   preparing, stopping, callerVars, submitted>>

\* runQueued(): cancelled while queued, or on to preflight(), which waits for
\* a live lock first unless the operation is housekeeping.
Begin ==
    /\ worker = "begin"
    /\ IF running \in tripped
       THEN WorkerTo("deliver", "cancelled")
       ELSE WorkerTo(IF running \in Housekeeping THEN "preflight" ELSE "lockWait", "none")
    /\ UNCHANGED <<retries, edges, spawned, undo, repoVars>>

\* waitForLiveIndexLock() returns: the lock is gone or stale, the operation
\* was cancelled, the session is closing, or the deadline passed.
LockWaitEnds ==
    /\ worker = "lockWait"
    /\ WorkerTo("preflight", "none")
    /\ UNCHANGED <<retries, edges, spawned, undo, repoVars>>

\* mutant: preflight() does not look at the token again after the lock wait
RefusalUncancelled ==
    IF lock # "none" THEN "lockHeld"
    ELSE IF sequencer /\ running \notin Recovery THEN "conflict"
    ELSE "none"

\* preflight() refuses a cancelled operation, a held lock and a foreign
\* sequencer operation, in that order.
Refusal ==
    IF running \in tripped THEN "cancelled"
    ELSE IF lock # "none" THEN "lockHeld"
    ELSE IF sequencer /\ running \notin Recovery THEN "conflict"
    ELSE "none"

Preflight ==
    /\ worker = "preflight"
    /\ WorkerTo(IF Refusal = "none" THEN "start" ELSE "deliver", Refusal)
    /\ UNCHANGED <<retries, edges, spawned, undo, repoVars>>

\* recordUndoPoint(): appended, and the oldest entry dropped beyond the cap.
RecordUndoPoint(journal, op) ==
    IF Len(journal) < UndoCap THEN Append(journal, op) ELSE Append(Tail(journal), op)

\* The housekeeping edge or the undo point, then the operation's run().
Start ==
    /\ worker = "start"
    /\ WorkerTo("run", "none")
    /\ edges' = IF running \in Housekeeping THEN edges + 1 ELSE edges
    /\ undo' = IF running \in Housekeeping THEN undo ELSE RecordUndoPoint(undo, running)
    /\ spawned' = [spawned EXCEPT ![running] = @ + 1]
    /\ UNCHANGED <<retries, repoVars>>

Ours == {"own", "upkeep"}

\* git takes index.lock during the run, and gives it back.
GitLocks ==
    /\ worker = "run" /\ lock = "none"
    /\ lock' = IF running \in Housekeeping THEN "upkeep" ELSE "own"
    /\ WorkerTo("holding", "none")
    /\ UNCHANGED <<retries, edges, spawned, undo, sequencer, outside>>

\* Whether a cancelled token reaches the git now running: housekeeping runs
\* its git without the token.
TokenTripped == running \in tripped \ Housekeeping

\* A git that is killed, by a cancel or by its deadline, may leave its lock
\* behind: from then on it is nobody's.
GitUnlocks ==
    /\ worker = "holding"
    /\ \E left \in {"none", "live"} : lock' = IF lock \in Ours THEN left ELSE lock
    /\ WorkerTo("unlocked", "none")
    /\ UNCHANGED <<retries, edges, spawned, undo, sequencer, outside>>

\* What run() may return, an exception it threw included ("unknown").
RunResults ==
    {"ok", "failed", "unknown"}
    \cup (IF TokenTripped THEN {"cancelled"} ELSE {})
    \cup (IF worker = "run" /\ lock # "none" THEN {"lockHeld"} ELSE {})

\* The retry loop's condition after a run with outcome `o`.
RunsAgain(o) ==
    /\ o = "lockHeld" /\ running \in Retriable /\ retries < LockRetries
    /\ running \notin tripped

GitEnds(o) ==
    /\ worker \in {"run", "unlocked"} /\ o \in RunResults
    /\ WorkerTo(IF RunsAgain(o) THEN "retryWait" ELSE "ran", o)
    /\ UNCHANGED <<retries, edges, spawned, undo, repoVars>>

\* waitForLiveIndexLock() returns and the operation runs again.
Retry ==
    /\ worker = "retryWait"
    /\ WorkerTo("run", "none")
    /\ retries' = retries + 1
    /\ spawned' = [spawned EXCEPT ![running] = @ + 1]
    /\ UNCHANGED <<edges, undo, repoVars>>

\* The closing housekeeping edge.
RunOver ==
    /\ worker = "ran"
    /\ WorkerTo("deliver", outcome)
    /\ edges' = IF running \in Housekeeping THEN edges + 1 ELSE edges
    /\ UNCHANGED <<retries, spawned, undo, repoVars>>

\* The callback is taken, then called with the outcome.
Deliver ==
    /\ worker = "deliver"
    /\ onDone' = FALSE
    /\ delivered' = Append(delivered, running)
    /\ worker' = "callback"
    /\ UNCHANGED <<queue, tripped, running, killable, described, outcome, retries, edges,
                   spawned, undo, preparing, stopping, callerVars, repoVars, submitted>>

CallbackReturns ==
    /\ worker = "callback"
    /\ WorkerTo("ending", outcome)
    /\ UNCHANGED <<retries, edges, spawned, undo, repoVars>>

\* An exception leaves runQueued(), outside the try around run().
RunQueuedThrows ==
    /\ MayThrow /\ worker \in {"popped", "begin", "lockWait", "preflight", "deliver", "callback"}
    /\ WorkerTo("failing", "unknown")
    /\ UNCHANGED <<retries, edges, spawned, undo, repoVars>>

\* mutant: the callback is called again although it was taken
FailAgain ==
    /\ worker = "failing"
    /\ onDone' = FALSE /\ delivered' = Append(delivered, running)
    /\ worker' = "callback"
    /\ UNCHANGED <<queue, tripped, running, killable, described, outcome, retries, edges,
                   spawned, undo, preparing, stopping, callerVars, repoVars, submitted>>

\* mutant: the exception is swallowed with the callback
FailSilently ==
    /\ worker = "failing"
    /\ worker' = "ending"
    /\ UNCHANGED <<queue, tripped, running, killable, described, onDone, outcome, retries,
                   edges, delivered, spawned, undo, preparing, stopping, callerVars,
                   repoVars, submitted>>

\* failUndelivered(): only an operation whose callback was not yet taken.
FailUndelivered ==
    /\ worker = "failing"
    /\ IF onDone
       THEN /\ onDone' = FALSE /\ delivered' = Append(delivered, running)
            /\ worker' = "callback"
       ELSE worker' = "ending" /\ UNCHANGED <<onDone, delivered>>
    /\ UNCHANGED <<queue, tripped, running, killable, described, outcome, retries, edges,
                   spawned, undo, preparing, stopping, callerVars, repoVars, submitted>>

\* mutant: runningId_ is not reset
RunningKept ==
    /\ worker = "ending"
    /\ worker' = "idle" /\ killable' = FALSE
    /\ UNCHANGED <<queue, tripped, running, described, onDone, outcome, retries, edges,
                   delivered, spawned, undo, preparing, stopping, callerVars, repoVars,
                   submitted>>

\* workerLoop(), its last section under mutex_.
LoopEnds ==
    /\ worker = "ending"
    /\ running' = None /\ killable' = FALSE
    /\ worker' = "idle"
    /\ UNCHANGED <<queue, tripped, described, onDone, outcome, retries, edges, delivered,
                   spawned, undo, preparing, stopping, callerVars, repoVars, submitted>>

WorkerExits ==
    /\ worker = "idle" /\ stopping /\ queue = <<>>
    /\ worker' = "exited"
    /\ UNCHANGED <<queue, tripped, running, killable, described, onDone, outcome, retries,
                   edges, delivered, spawned, undo, preparing, stopping, callerVars,
                   repoVars, submitted>>

-----------------------------------------------------------------------------
(* Other processes in the same repository *)

OutsideOnly == UNCHANGED <<queue, tripped, workVars, preparing, stopping, callerVars,
                           submitted>>

OutsideLocks ==
    /\ lock = "none" /\ outside < MaxOutside
    /\ lock' = "live" /\ outside' = outside + 1
    /\ UNCHANGED sequencer /\ OutsideOnly

OutsideUnlocks ==
    /\ lock \in {"live", "stale"}
    /\ lock' = "none"
    /\ UNCHANGED <<sequencer, outside>> /\ OutsideOnly

\* Nobody gave the lock back for kStaleLockSeconds.
LockGoesStale ==
    /\ lock = "live"
    /\ lock' = "stale"
    /\ UNCHANGED <<sequencer, outside>> /\ OutsideOnly

SequencerToggles ==
    /\ sequencer \/ outside < MaxOutside
    /\ sequencer' = ~sequencer
    /\ outside' = IF sequencer THEN outside ELSE outside + 1
    /\ UNCHANGED lock /\ OutsideOnly

-----------------------------------------------------------------------------

UserStep == \E op \in Ops : Submit(op) \/ CancelQueued(op) \/ CancelRunning(op)
FfiStep  == \/ TripRunning \/ StateBegins \/ StateReads \/ StateReports
            \/ RemoveStaleChecks \/ RemoveStaleUnlinks
CloseStep == CancelOperations \/ TripNext \/ Drain \/ Stop
GitStep == GitLocks \/ GitUnlocks \/ \E o \in RunResults : GitEnds(o)
WorkerStep ==
    \/ Pop \/ Announce \/ Begin \/ LockWaitEnds \/ Preflight \/ Start \/ GitStep
    \/ Retry \/ RunOver \/ Deliver \/ CallbackReturns \/ RunQueuedThrows
    \/ FailUndelivered \/ LoopEnds \/ WorkerExits
OutsideStep == OutsideLocks \/ OutsideUnlocks \/ LockGoesStale \/ SequencerToggles

Next == UserStep \/ FfiStep \/ PrepareForShutdown \/ CloseStep \/ WorkerStep \/ OutsideStep

Spec == Init /\ [][Next]_vars

\* The worker and the FFI thread keep running; git ends (it has a deadline).
\* Nobody has to submit, cancel, close, or release a lock.
Fairness ==
    /\ WF_vars(WorkerStep) /\ WF_vars(CloseStep)
    /\ WF_vars(TripRunning \/ StateReads \/ StateReports \/ RemoveStaleUnlinks)

FairSpec == Spec /\ Fairness
-----------------------------------------------------------------------------
(* Properties *)

WorkerSteps == {"idle", "popped", "begin", "lockWait", "preflight", "start", "run",
                "holding", "unlocked", "retryWait", "ran", "deliver", "callback",
                "failing", "ending", "exited"}
Outcomes == {"none", "ok", "failed", "unknown", "cancelled", "lockHeld", "conflict"}
Locks    == {"none", "own", "upkeep", "live", "stale"}

\* Every member of OperationRunner.h has the type its declaration gives it,
\* and runningId_ names an operation exactly while the worker has one in hand.
TypeOK ==
    /\ queue \in Seq(Ops) /\ tripped \subseteq Ops
    /\ running \in Ops \cup {None} /\ described \in Ops \cup {None}
    /\ killable \in BOOLEAN /\ onDone \in BOOLEAN
    /\ worker \in WorkerSteps /\ outcome \in Outcomes
    /\ retries \in Nat /\ edges \in Nat
    /\ preparing \in BOOLEAN /\ stopping \in BOOLEAN
    /\ ffi \in {"idle", "tripping", "reading", "comparing", "unlinking", "cancelling",
                "trippingAll", "drained", "joining"}
    /\ held \subseteq Ops
    /\ reading \in [before : Nat, saw : Locks]
    /\ lock \in Locks /\ sequencer \in BOOLEAN /\ outside \in Nat
    /\ submitted \in Seq(Ops) /\ delivered \in Seq(Ops)
    /\ spawned \in [Ops -> Nat] /\ undo \in Seq(Ops)
    /\ (running # None) <=> worker \notin {"idle", "exited"}

\* The operation that left the queue and whose callback is still owed.
Owed == IF onDone THEN <<running>> ELSE <<>>

\* Operations complete in the order they were submitted, each exactly once,
\* and none is lost -- whatever is cancelled, refused, retried or throws
\* (runQueued(), failUndelivered()).
CompletesInOrder == delivered \o Owed \o queue = submitted

GitRuns == worker \in {"run", "holding", "unlocked", "retryWait"}

\* A user's cancel never trips an operation that is not killable once its git
\* runs (cancel()'s two invariants); only closing the session does.
NoUserKillMidFlight ==
    [][\A op \in Ops : op \in tripped' \ tripped /\ op = running /\ GitRuns /\ ~preparing
           => op \in Killable]_vars

\* An operation cancelled before it passed preflight() never runs git, however
\* long it waited for its turn or for the lock.
CancelledNeverSpawns ==
    \A op \in Ops :
        [](op \in tripped /\ spawned[op] = 0 /\ ~(op = running /\ worker = "start")
              => [](spawned[op] = 0))

\* The user's work never waits behind background work that has not started:
\* every background operation queued ahead of it is cancelled.
ForegroundNeverWaits ==
    \A i, j \in DOMAIN queue :
        i < j /\ queue[j] \notin Background /\ queue[i] \in Background => queue[i] \in tripped

\* Once drain() has returned to ~Session(), nothing can start again.
DrainedStaysIdle ==
    ffi \in {"drained", "joining"} => queue = <<>> /\ running = None

\* Every submitted operation gets its callback.
EveryOperationCompletes ==
    \A op \in Ops : (op \in Elements(submitted)) ~> (op \in Elements(delivered))

\* Closing the session ends, with the worker thread gone.
CloseTerminates == preparing ~> (worker = "exited")
=============================================================================
