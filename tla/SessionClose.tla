---------------------------- MODULE SessionClose ----------------------------
(***************************************************************************)
(* Closing a Session (capi/Session.cpp, ~Session) while its other threads  *)
(* still run, on the read pool all sessions of the process share           *)
(* (core/workers/ThreadPool.cpp).                                          *)
(*                                                                         *)
(* Each session has an operation worker, whose completion callbacks post   *)
(* reads, request refreshes and submit housekeeping, and a DelayTimer,     *)
(* whose thread posts refresh tasks. Every such thread and every pool task *)
(* holds the session's `this`. One FFI thread opens, uses and closes the   *)
(* sessions, one call at a time: while it closes one session, the threads  *)
(* of the others keep posting to the same pool.                            *)
(*                                                                         *)
(* A pool task is the session it belongs to. What an operation or a read   *)
(* does, and how the coalescer decides, is left to OperationRunner and     *)
(* SessionRefresh: here a timer that fires posts a task or does not.       *)
(***************************************************************************)
EXTENDS Integers, Sequences, FiniteSets

CONSTANTS
    Sessions,       \* sessions open in the process
    Workers,        \* threads of sharedReadPool()
    None,           \* no session
    MaxOps,         \* bound: operations waiting in one session's runner
    MaxPosts        \* bound: tasks posted to the pool

ASSUME CloseAssumption ==
    /\ None \notin Sessions /\ Workers # {}
    /\ MaxOps \in Nat /\ MaxPosts \in Nat

VARIABLES
    phase,          \* how far ~Session() has come for each session
    ops,            \* operations waiting in its OperationRunner
    worker,         \* its operation worker: idle, at an operation, or in a callback
    timer,          \* its DelayTimer: running_, armed_ and where the thread is
    tasks,          \* the pool's tasks_
    active,         \* what each pool worker runs; activeTasks_ counts them
    awake,          \* pool workers not asleep on taskAvailable_
    notified,       \* idle_ was notified after the closing thread slept on it
    posts           \* tasks posted so far

sessionVars == <<ops, worker, timer>>
poolVars    == <<tasks, active, awake, posts>>
vars == <<phase, sessionVars, poolVars, notified>>

\* The steps of ~Session(), in order.
Phases == {"open", "operations", "timer", "join", "pool", "waiting", "freed"}

Init ==
    /\ phase = [s \in Sessions |-> "open"]
    /\ ops = [s \in Sessions |-> <<>>] /\ worker = [s \in Sessions |-> "idle"]
    /\ timer = [s \in Sessions |-> [running |-> TRUE, armed |-> FALSE, thread |-> "waiting"]]
    /\ tasks = <<>> /\ active = [w \in Workers |-> None] /\ awake = Workers
    /\ notified = FALSE /\ posts = 0

OpKinds == {"user", "upkeep"}

FfiFree == \A s \in Sessions : phase[s] \in {"open", "freed"}

NoActive == \A w \in Workers : active[w] = None

-----------------------------------------------------------------------------
(* ThreadPool, as its callers see it. notify_one() comes after the unlock, *)
(* but no worker can fall asleep while a task is queued, so it is one step *)
(* with the push.                                                          *)

PostSilently(s) ==                          \* mutant: no notify_one()
    /\ posts < MaxPosts /\ posts' = posts + 1
    /\ tasks' = Append(tasks, s)
    /\ UNCHANGED <<awake, active>>

WakeOne ==
    IF awake = Workers THEN awake' = awake
    ELSE \E w \in Workers \ awake : awake' = awake \cup {w}

\* post(), or postFront() for a read the user is waiting for.
Post(s) ==
    /\ posts < MaxPosts /\ posts' = posts + 1
    /\ tasks' = Append(tasks, s) \/ tasks' = <<s>> \o tasks
    /\ WakeOne
    /\ UNCHANGED active

\* mutant: a stopped timer can still be armed
ArmAlways(s) == timer' = [timer EXCEPT ![s].armed = TRUE]

\* DelayTimer::arm(): nothing after stop().
Arm(s) == timer' = [timer EXCEPT ![s].armed = timer[s].running]

-----------------------------------------------------------------------------
(* The FFI thread uses an open session *)

FfiPosts(s) ==
    /\ FfiFree /\ phase[s] = "open"
    /\ Post(s)
    /\ UNCHANGED <<phase, sessionVars, notified>>

FfiRefreshes(s) ==
    /\ FfiFree /\ phase[s] = "open"
    /\ Arm(s)
    /\ UNCHANGED <<phase, ops, worker, poolVars, notified>>

FfiSubmits(s) ==
    /\ FfiFree /\ phase[s] = "open" /\ Len(ops[s]) < MaxOps
    /\ ops' = [ops EXCEPT ![s] = Append(@, "user")]
    /\ UNCHANGED <<phase, worker, timer, poolVars, notified>>

-----------------------------------------------------------------------------
(* A session's operation worker *)

OperationStarts(s) ==
    /\ worker[s] = "idle" /\ ops[s] # <<>>
    /\ worker' = [worker EXCEPT ![s] = Head(ops[s])]
    /\ ops' = [ops EXCEPT ![s] = Tail(@)]
    /\ UNCHANGED <<phase, timer, poolVars, notified>>

\* Housekeeping is submitted without a completion callback.
OperationDone(s) ==
    /\ worker[s] \in OpKinds
    /\ worker' = [worker EXCEPT ![s] = IF @ = "user" THEN "callback" ELSE "idle"]
    /\ UNCHANGED <<phase, ops, timer, poolVars, notified>>

\* The callback's refreshWorkingCopy() and the other reads it chains.
CallbackPosts(s) ==
    /\ worker[s] = "callback"
    /\ Post(s)
    /\ UNCHANGED <<phase, sessionVars, notified>>

\* The callback's refreshHistory().
CallbackRefreshes(s) ==
    /\ worker[s] = "callback"
    /\ Arm(s)
    /\ UNCHANGED <<phase, ops, worker, poolVars, notified>>

\* The callback's maybeRefreshIndex().
CallbackSubmits(s) ==
    /\ worker[s] = "callback" /\ Len(ops[s]) < MaxOps
    /\ ops' = [ops EXCEPT ![s] = Append(@, "upkeep")]
    /\ UNCHANGED <<phase, worker, timer, poolVars, notified>>

CallbackReturns(s) ==
    /\ worker[s] = "callback"
    /\ worker' = [worker EXCEPT ![s] = "idle"]
    /\ UNCHANGED <<phase, ops, timer, poolVars, notified>>

-----------------------------------------------------------------------------
(* A session's timer thread *)

TimerExpires(s) ==
    /\ timer[s].thread = "waiting" /\ timer[s].running /\ timer[s].armed
    /\ timer' = [timer EXCEPT ![s].armed = FALSE, ![s].thread = "firing"]
    /\ UNCHANGED <<phase, ops, worker, poolVars, notified>>

\* onRefreshTimerFired() dispatches a refresh ...
TimerPosts(s) ==
    /\ timer[s].thread = "firing"
    /\ Post(s)
    /\ timer' = [timer EXCEPT ![s].thread = "waiting"]
    /\ UNCHANGED <<phase, ops, worker, notified>>

\* ... or finds the quiet period not over, or a run in flight.
TimerDeclines(s) ==
    /\ timer[s].thread = "firing"
    /\ timer' = [timer EXCEPT ![s].thread = "waiting"]
    /\ UNCHANGED <<phase, ops, worker, poolVars, notified>>

TimerThreadEnds(s) ==
    /\ timer[s].thread = "waiting" /\ ~timer[s].running
    /\ timer' = [timer EXCEPT ![s].thread = "exited"]
    /\ UNCHANGED <<phase, ops, worker, poolVars, notified>>

-----------------------------------------------------------------------------
(* The pool's workers *)

PoolSleeps(w) ==
    /\ w \in awake /\ active[w] = None /\ tasks = <<>>
    /\ awake' = awake \ {w}
    /\ UNCHANGED <<phase, sessionVars, tasks, active, posts, notified>>

PoolTakes(w) ==
    /\ w \in awake /\ active[w] = None /\ tasks # <<>>
    /\ active' = [active EXCEPT ![w] = Head(tasks)]
    /\ tasks' = Tail(tasks)
    /\ UNCHANGED <<phase, sessionVars, awake, posts, notified>>

\* A refresh task's finishRefresh() drives its follow-up.
TaskRearms(w) ==
    /\ active[w] # None
    /\ Arm(active[w])
    /\ UNCHANGED <<phase, ops, worker, poolVars, notified>>

\* mutant: idle_ is notified before activeTasks_ is decremented
NotifiedEarly(w) == notified' = (notified \/ (tasks = <<>> /\ NoActive))

\* workerLoop() notifies idle_ when this was the last task of the pool.
NotifyIdle(w) ==
    notified' = (notified \/ (tasks = <<>> /\ \A v \in Workers \ {w} : active[v] = None))

TaskEnds(w) ==
    /\ active[w] # None
    /\ active' = [active EXCEPT ![w] = None]
    /\ NotifyIdle(w)
    /\ UNCHANGED <<phase, sessionVars, tasks, awake, posts>>

-----------------------------------------------------------------------------
(* ~Session(), on the FFI thread *)

ClosePhase(s, from, to) ==
    /\ phase[s] = from
    /\ phase' = [phase EXCEPT ![s] = to]

\* gbm_session_close(): prepareForShutdown() and cancelOperations(0).
CloseBegins(s) ==
    /\ FfiFree
    /\ ClosePhase(s, "open", "operations")
    /\ UNCHANGED <<sessionVars, poolVars, notified>>

NothingQueued(s) == ops[s] = <<>>              \* mutant: the running operation is not waited for

\* operations_->drain()
OperationsDrained(s) == ops[s] = <<>> /\ worker[s] = "idle"

DrainOperations(s) ==
    /\ OperationsDrained(s)
    /\ ClosePhase(s, "operations", "timer")
    /\ UNCHANGED <<sessionVars, poolVars, notified>>

\* refreshTimer_.stop(): disarmed and told to end ...
StopTimer(s) ==
    /\ ClosePhase(s, "timer", "join")
    /\ timer' = [timer EXCEPT ![s].running = FALSE, ![s].armed = FALSE]
    /\ UNCHANGED <<ops, worker, poolVars, notified>>

\* ... and its thread joined.
JoinTimer(s) ==
    /\ timer[s].thread = "exited"
    /\ ClosePhase(s, "join", "pool")
    /\ UNCHANGED <<sessionVars, poolVars, notified>>

\* cancelQueuedAndDrain(): every queued task, of whichever session, is
\* discarded; the thread sleeps on idle_ unless nothing is running.
DiscardQueued(s) ==
    /\ ClosePhase(s, "pool", IF NoActive THEN "freed" ELSE "waiting")
    /\ tasks' = <<>> /\ notified' = FALSE
    /\ UNCHANGED <<sessionVars, active, awake, posts>>

\* It wakes, notified or spuriously, and tests activeTasks_ again.
PoolDrained(s) ==
    /\ NoActive
    /\ ClosePhase(s, "waiting", "freed")
    /\ UNCHANGED <<sessionVars, poolVars, notified>>

SleepsAgain(s) ==
    /\ phase[s] = "waiting" /\ notified /\ ~NoActive
    /\ notified' = FALSE
    /\ UNCHANGED <<phase, sessionVars, poolVars>>

-----------------------------------------------------------------------------

Use(s)   == FfiPosts(s) \/ FfiRefreshes(s) \/ FfiSubmits(s)
Operate(s) ==
    \/ OperationStarts(s) \/ OperationDone(s) \/ CallbackPosts(s)
    \/ CallbackRefreshes(s) \/ CallbackSubmits(s) \/ CallbackReturns(s)
Fire(s)  == TimerExpires(s) \/ TimerPosts(s) \/ TimerDeclines(s) \/ TimerThreadEnds(s)
Serve(w) == PoolSleeps(w) \/ PoolTakes(w) \/ TaskRearms(w) \/ TaskEnds(w)
Close(s) ==
    \/ CloseBegins(s) \/ DrainOperations(s) \/ StopTimer(s) \/ JoinTimer(s)
    \/ DiscardQueued(s) \/ PoolDrained(s) \/ SleepsAgain(s)

Next ==
    \/ \E s \in Sessions : Use(s) \/ Operate(s) \/ Fire(s) \/ Close(s)
    \/ \E w \in Workers : Serve(w)

Spec == Init /\ [][Next]_vars

(* Every thread keeps running; operations and reads end, because every git  *)
(* process has a deadline; a callback ends. The thread asleep on idle_ is   *)
(* only sure to wake when it was notified. Nobody has to use or close a     *)
(* session.                                                                 *)
Fairness ==
    /\ \A s \in Sessions :
        /\ WF_vars(OperationStarts(s)) /\ WF_vars(OperationDone(s))
        /\ WF_vars(CallbackReturns(s))
        /\ WF_vars(TimerPosts(s) \/ TimerDeclines(s)) /\ WF_vars(TimerThreadEnds(s))
        /\ WF_vars(DrainOperations(s)) /\ WF_vars(StopTimer(s)) /\ WF_vars(JoinTimer(s))
        /\ WF_vars(DiscardQueued(s))
        /\ WF_vars(notified /\ (PoolDrained(s) \/ SleepsAgain(s)))
    /\ \A w \in Workers : WF_vars(PoolTakes(w)) /\ WF_vars(TaskEnds(w))

FairSpec == Spec /\ Fairness
-----------------------------------------------------------------------------
(* Properties *)

\* The state has the shape the declarations of ThreadPool.h and DelayTimer.h
\* give it, and a stopped timer is never armed.
TypeOK ==
    /\ phase \in [Sessions -> Phases]
    /\ ops \in [Sessions -> Seq(OpKinds)]
    /\ worker \in [Sessions -> OpKinds \cup {"idle", "callback"}]
    /\ timer \in [Sessions -> [running : BOOLEAN, armed : BOOLEAN,
                               thread : {"waiting", "firing", "exited"}]]
    /\ \A s \in Sessions : timer[s].armed => timer[s].running
    /\ tasks \in Seq(Sessions) /\ active \in [Workers -> Sessions \cup {None}]
    /\ awake \subseteq Workers /\ notified \in BOOLEAN /\ posts \in Nat

Queued(s)  == \E i \in DOMAIN tasks : tasks[i] = s
Running(s) == \E w \in Workers : active[w] = s

\* Once ~Session() has returned, nothing that holds the session's `this` is
\* left: no task queued or running in the pool, no operation or callback, no
\* timer thread (cancelQueuedAndDrain(): "no queued lambda capturing `this`
\* can run, and nothing is still running when it returns").
NoUseAfterFree ==
    \A s \in Sessions : phase[s] = "freed" =>
        /\ ~Queued(s) /\ ~Running(s)
        /\ ops[s] = <<>> /\ worker[s] = "idle" /\ timer[s].thread = "exited"

\* Closing a session ends, whatever the other sessions' threads still post.
CloseEnds == \A s \in Sessions : (phase[s] = "operations") ~> (phase[s] = "freed")

\* A queued task is taken by a pool worker, or discarded by a close: no
\* wakeup is lost between post() and workers falling asleep.
QueueIsServed == \A s \in Sessions : Queued(s) ~> ~Queued(s)
=============================================================================
