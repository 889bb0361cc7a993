--------------------------- MODULE SessionRefresh ---------------------------
(***************************************************************************)
(* How one Session (capi/Session.cpp) refreshes refs and history.          *)
(*                                                                         *)
(* Actors: the threads that call into the session (Dart's FFI thread and   *)
(* the OperationRunner worker, whose completion callbacks refresh), the    *)
(* DelayTimer thread, and the workers of the process-wide read pool. They  *)
(* share the coalescer (under refreshMutex_), the published snapshots      *)
(* (under graphMutex_) and the timer (under its own mutex). Each action is *)
(* one critical section, or one step between two of them.                  *)
(*                                                                         *)
(* The repository is a version number that anything outside may advance;   *)
(* a refs snapshot is the version it was read at. A filter is the number   *)
(* of the setHistoryFilter() call that set it. Time is counted in ticks.   *)
(***************************************************************************)
EXTENDS RefreshCoalescer, Sequences, FiniteSets

CONSTANTS
    Callers,        \* threads that call refreshHistory()
    Ffi,            \* the one that also calls setHistoryFilter()
    Workers,        \* threads of the shared read pool
    MaxRequests,    \* bound: refreshHistory() calls
    MaxFilters,     \* bound: setHistoryFilter() calls
    MaxRepo,        \* bound: changes made to the repository
    MaxChunks,      \* bound: partial graphs one walk publishes
    MayFail         \* whether git itself may fail a read

ASSUME SessionAssumption ==
    /\ Ffi \in Callers
    /\ "timer" \notin Callers
    /\ Workers \in Nat \ {0}
    /\ MaxRequests \in Nat /\ MaxFilters \in Nat /\ MaxRepo \in Nat /\ MaxChunks \in Nat
    /\ MayFail \in BOOLEAN

VARIABLES
    repo,           \* the repository's version
    filter,         \* historyIncludeRefs_, historyFirstParentOnly_, historyNoMerges_
    coalescer,      \* refreshCoalescer_
    requestSeq,     \* refreshRequestSeq_
    asked,          \* asked[n]: the repository's version when request n was made
    epoch,          \* which CancellationSource historyCancel_ now holds
    timer,          \* DelayTimer's armed_ and the ticks left until deadline_
    pc,             \* where each caller and the timer thread is
    tasks,          \* tasks[g]: the refresh dispatched as generation g
    queue,          \* the generations waiting in the read pool
    publishedGeneration,
    refs,           \* refs_
    graph,          \* graph_
    covered,        \* Dart's refsCoverRequest: the greatest coversRequest it saw
    refreshing,     \* Dart's isRefreshing
    answered        \* the greatest request number an event has answered for

sessionVars == <<filter, coalescer, requestSeq, asked, epoch>>
publishVars == <<publishedGeneration, refs, graph>>
dartVars    == <<covered, refreshing, answered>>
vars == <<repo, sessionVars, timer, pc, tasks, queue, publishVars, dartVars>>

Threads == Callers \cup {"timer"}

NoRefs  == 0
NoGraph == [generation |-> 0, filter |-> 0, complete |-> FALSE]

TaskStep == {"dispatched", "queued", "load", "publish", "emitRefs", "query",
             "walk", "emitGraph", "finish", "rearm", "done"}

TaskType ==
    [step : TaskStep, by : Threads, token : Nat, covers : Nat, refs : Nat,
     query : Nat, chunks : Nat, complete : BOOLEAN]

NewTask(thread, token) ==
    [step |-> "dispatched", by |-> thread, token |-> token, covers |-> requestSeq,
     refs |-> NoRefs, query |-> 0, chunks |-> 0, complete |-> FALSE]

Init ==
    /\ repo = 1 /\ filter = 0
    /\ coalescer = NewCoalescer
    /\ requestSeq = 0 /\ asked = <<>> /\ epoch = 0
    /\ timer = [armed |-> FALSE, due |-> 0]
    /\ pc = [t \in Threads |-> "idle"]
    /\ tasks = <<>> /\ queue = <<>>
    /\ publishedGeneration = 0 /\ refs = NoRefs /\ graph = NoGraph
    /\ covered = 0 /\ refreshing = FALSE /\ answered = 0

Larger(m, n) == IF m > n THEN m ELSE n

Cancelled(g) == tasks[g].token < epoch

Active == {g \in DOMAIN tasks : tasks[g].step \notin {"dispatched", "queued", "done"}}

-----------------------------------------------------------------------------
(* Callers *)

\* refreshHistory(), under refreshMutex_. Dart raises its spinner first.
RefreshHistory(c) ==
    /\ pc[c] = "idle" /\ requestSeq < MaxRequests
    /\ requestSeq' = requestSeq + 1
    /\ asked' = Append(asked, repo)
    /\ coalescer' = Request(coalescer, Wants)
    /\ pc' = [pc EXCEPT ![c] = IF coalescer.running THEN "idle" ELSE "arming"]
    /\ refreshing' = (refreshing \/ c = Ffi)
    /\ UNCHANGED <<repo, filter, epoch, timer, tasks, queue, publishVars, covered, answered>>

\* refreshHistory()'s arm(kDelay), after refreshMutex_ is released.
ArmDelay(c) ==
    /\ pc[c] = "arming"
    /\ timer' = [armed |-> TRUE, due |-> Delay]
    /\ pc' = [pc EXCEPT ![c] = "idle"]
    /\ UNCHANGED <<repo, sessionVars, tasks, queue, publishVars, dartVars>>

\* setHistoryFilter(), its first section, under graphMutex_.
SetHistoryFilter ==
    /\ pc[Ffi] = "idle" /\ filter < MaxFilters
    /\ filter' = filter + 1
    /\ pc' = [pc EXCEPT ![Ffi] = "refiltering"]
    /\ refreshing' = TRUE
    /\ UNCHANGED <<repo, coalescer, requestSeq, asked, epoch, timer, tasks, queue,
                   publishVars, covered, answered>>

\* setHistoryFilter(), its second section, under refreshMutex_: the walk in
\* flight is cancelled and a new generation supersedes it.
SupersedeWalk ==
    /\ pc[Ffi] = "refiltering"
    /\ epoch' = epoch + 1
    /\ coalescer' = TakePending(FireNow(coalescer, Wants))
    /\ tasks' = Append(tasks, NewTask(Ffi, epoch + 1))
    /\ pc' = [pc EXCEPT ![Ffi] = "posting"]
    /\ UNCHANGED <<repo, filter, requestSeq, asked, timer, queue, publishVars,
                   dartVars>>

-----------------------------------------------------------------------------
(* The timer thread *)

\* DelayTimer::run(): the deadline has passed; disarmed before onFire_().
TimerExpires ==
    /\ pc["timer"] = "idle" /\ timer.armed /\ timer.due = 0
    /\ timer' = [timer EXCEPT !.armed = FALSE]
    /\ pc' = [pc EXCEPT !["timer"] = "firing"]
    /\ UNCHANGED <<repo, sessionVars, tasks, queue, publishVars, dartVars>>

\* onRefreshTimerFired(), under refreshMutex_: the quiet period is not over,
\* or a run is in flight, so there is nothing to dispatch.
TimerFiresEarly ==
    /\ pc["timer"] = "firing" /\ ~QuietPeriodElapsed(coalescer)
    /\ coalescer' = OnTimeout(coalescer)
    /\ pc' = [pc EXCEPT !["timer"] = "idle"]
    /\ UNCHANGED <<repo, filter, requestSeq, asked, epoch, timer, tasks, queue,
                   publishVars, dartVars>>

\* onRefreshTimerFired(), under refreshMutex_: a new generation.
OnRefreshTimerFired ==
    /\ pc["timer"] = "firing" /\ QuietPeriodElapsed(coalescer)
    /\ coalescer' = TakePending(OnTimeout(coalescer))
    /\ tasks' = Append(tasks, NewTask("timer", epoch))
    /\ pc' = [pc EXCEPT !["timer"] = "posting"]
    /\ UNCHANGED <<repo, filter, requestSeq, asked, epoch, timer, queue, publishVars,
                   dartVars>>

\* dispatchRefresh(): the dispatching thread posts the task to the pool.
DispatchRefresh(g) ==
    /\ tasks[g].step = "dispatched"
    /\ tasks' = [tasks EXCEPT ![g].step = "queued"]
    /\ queue' = Append(queue, g)
    /\ pc' = [pc EXCEPT ![tasks[g].by] = "idle"]
    /\ UNCHANGED <<repo, sessionVars, timer, publishVars, dartVars>>

-----------------------------------------------------------------------------
(* The pool task of generation g, in the order of its lambda *)

Goto(g, step) == tasks' = [tasks EXCEPT ![g].step = step]

StartTask ==
    /\ queue # <<>>
    /\ Cardinality(Active) < Workers
    /\ Goto(Head(queue), "load")
    /\ queue' = Tail(queue)
    /\ UNCHANGED <<repo, sessionVars, timer, pc, publishVars, dartVars>>

\* refStore_->load(token) succeeds: the refs as they are now.
LoadRefs(g) ==
    /\ tasks[g].step = "load"
    /\ tasks' = [tasks EXCEPT ![g].step = "publish", ![g].refs = repo]
    /\ UNCHANGED <<repo, sessionVars, timer, pc, queue, publishVars, dartVars>>

\* GBM_EVENT_ERROR_OCCURRED, unless the read was cancelled.
ReportError(g) ==
    IF Cancelled(g)
    THEN UNCHANGED <<refreshing, answered>>
    ELSE refreshing' = FALSE /\ answered' = Larger(tasks[g].covers, answered)

\* refStore_->load(token) or history_->walk() fails, by cancel or by git.
ReadFails(g) ==
    /\ tasks[g].step \in {"load", "walk"}
    /\ MayFail \/ Cancelled(g)
    /\ ReportError(g)
    /\ Goto(g, "finish")
    /\ UNCHANGED <<repo, sessionVars, timer, pc, queue, publishVars, covered>>

ClaimAlways(g) == TRUE                      \* mutant: no generation check
ClaimOnce(g)   == g > publishedGeneration   \* mutant: the walk's second publish is refused

\* claimPublishLocked(): a superseded generation may not publish.
ClaimPublishLocked(g) == g >= publishedGeneration

PublishRefs(g) ==
    /\ tasks[g].step = "publish" /\ ClaimPublishLocked(g)
    /\ publishedGeneration' = g
    /\ refs' = tasks[g].refs
    /\ Goto(g, "emitRefs")
    /\ UNCHANGED <<repo, sessionVars, timer, pc, queue, graph, dartVars>>

RefsSuperseded(g) ==
    /\ tasks[g].step = "publish" /\ ~ClaimPublishLocked(g)
    /\ Goto(g, "finish")
    /\ UNCHANGED <<repo, sessionVars, timer, pc, queue, publishVars, dartVars>>

\* GBM_EVENT_REFS_UPDATED {coversRequest}; Dart keeps the maximum.
EmitRefsUpdated(g) ==
    /\ tasks[g].step = "emitRefs"
    /\ covered' = Larger(tasks[g].covers, covered)
    /\ answered' = Larger(tasks[g].covers, answered)
    /\ Goto(g, "query")
    /\ UNCHANGED <<repo, sessionVars, timer, pc, queue, publishVars, refreshing>>

\* mutant: the walk does not look at the filter
FilterNotRead(g) ==
    /\ tasks[g].step = "query"
    /\ Goto(g, "walk")
    /\ UNCHANGED <<repo, sessionVars, timer, pc, queue, publishVars, dartVars>>

\* The filter is read under graphMutex_ for the walk that follows.
ReadFilter(g) ==
    /\ tasks[g].step = "query"
    /\ tasks' = [tasks EXCEPT ![g].step = "walk", ![g].query = filter]
    /\ UNCHANGED <<repo, sessionVars, timer, pc, queue, publishVars, dartVars>>

\* Where a chunk leaves its walk: only the last one ends it.
AfterChunk(complete) == IF complete THEN "finish" ELSE "walk"

\* publishGraph(), under graphMutex_, for a partial or the complete graph.
PublishGraph(g, complete) ==
    /\ tasks[g].step = "walk" /\ ClaimPublishLocked(g)
    /\ complete \/ tasks[g].chunks < MaxChunks
    /\ publishedGeneration' = g
    /\ graph' = [generation |-> g, filter |-> tasks[g].query, complete |-> complete]
    /\ tasks' = [tasks EXCEPT ![g].step = "emitGraph", ![g].complete = complete,
                              ![g].chunks = @ + 1]
    /\ UNCHANGED <<repo, sessionVars, timer, pc, queue, refs, dartVars>>

GraphSuperseded(g, complete) ==
    /\ tasks[g].step = "walk" /\ ~ClaimPublishLocked(g)
    /\ complete \/ tasks[g].chunks < MaxChunks
    /\ tasks' = [tasks EXCEPT ![g].step = AfterChunk(complete), ![g].chunks = @ + 1]
    /\ UNCHANGED <<repo, sessionVars, timer, pc, queue, publishVars, dartVars>>

\* GBM_EVENT_GRAPH_UPDATED {complete}, after graphMutex_ is released.
EmitGraphUpdated(g) ==
    /\ tasks[g].step = "emitGraph"
    /\ refreshing' = ~tasks[g].complete
    /\ Goto(g, AfterChunk(tasks[g].complete))
    /\ UNCHANGED <<repo, sessionVars, timer, pc, queue, publishVars, covered, answered>>

\* finishRefresh(), under refreshMutex_.
FinishRefresh(g) ==
    /\ tasks[g].step = "finish"
    /\ coalescer' = OnFinished(coalescer, g)
    /\ Goto(g, IF FollowUpOwed(coalescer, g) THEN "rearm" ELSE "done")
    /\ UNCHANGED <<repo, filter, requestSeq, asked, epoch, timer, pc, queue,
                   publishVars, dartVars>>

\* finishRefresh()'s arm(0), after refreshMutex_ is released.
Rearm(g) ==
    /\ tasks[g].step = "rearm"
    /\ timer' = [armed |-> TRUE, due |-> 0]
    /\ Goto(g, "done")
    /\ UNCHANGED <<repo, sessionVars, pc, queue, publishVars, dartVars>>

-----------------------------------------------------------------------------
(* The world outside *)

RepoChanges ==
    /\ repo <= MaxRepo
    /\ repo' = repo + 1
    /\ UNCHANGED <<sessionVars, timer, pc, tasks, queue, publishVars, dartVars>>

\* Time matters only to an armed timer and to the quiet period.
Tick ==
    /\ timer.due > 0 \/ coalescer.since < Delay
    /\ timer' = [timer EXCEPT !.due = IF @ > 0 THEN @ - 1 ELSE 0]
    /\ coalescer' = Age(coalescer)
    /\ UNCHANGED <<repo, filter, requestSeq, asked, epoch, pc, tasks, queue,
                   publishVars, dartVars>>

Call == \E c \in Callers : RefreshHistory(c) \/ ArmDelay(c)

TimerThread == TimerExpires \/ TimerFiresEarly \/ OnRefreshTimerFired

Step(g) ==
    \/ DispatchRefresh(g) \/ LoadRefs(g) \/ ReadFails(g) \/ PublishRefs(g)
    \/ RefsSuperseded(g) \/ EmitRefsUpdated(g) \/ ReadFilter(g)
    \/ \E complete \in BOOLEAN : PublishGraph(g, complete) \/ GraphSuperseded(g, complete)
    \/ EmitGraphUpdated(g) \/ FinishRefresh(g) \/ Rearm(g)

Next ==
    \/ Call \/ SetHistoryFilter \/ SupersedeWalk
    \/ TimerThread \/ StartTask
    \/ \E g \in DOMAIN tasks : Step(g)
    \/ RepoChanges \/ Tick

Spec == Init /\ [][Next]_vars
-----------------------------------------------------------------------------
(* Fairness: every thread keeps running, and every git process the session  *)
(* spawns ends, because ProcessRunner gives each one a deadline. Nothing    *)
(* obliges anyone to call refreshHistory() or to change the repository.     *)

Fairness ==
    /\ \A c \in Callers : WF_vars(ArmDelay(c))
    /\ WF_vars(SupersedeWalk)
    /\ WF_vars(TimerThread)
    /\ WF_vars(StartTask)
    /\ \A g \in 1..(MaxRequests + MaxFilters) : WF_vars(g \in DOMAIN tasks /\ Step(g))
    /\ WF_vars(Tick)

FairSpec == Spec /\ Fairness

\* A request that arrives between the two halves of finishRefresh().
RequestMeetsRearm ==
    \E c \in Callers, g \in DOMAIN tasks : tasks[g].step = "rearm" /\ RefreshHistory(c)

\* The same system when no request falls into that gap.
SpacedSpec == Init /\ [][Next /\ ~RequestMeetsRearm]_vars /\ Fairness

-----------------------------------------------------------------------------
(* Properties *)

\* The state has the shape the code's declarations give it, and generations
\* number the dispatched tasks (Session.h's refresh members).
TypeOK ==
    /\ repo \in Nat \ {0} /\ filter \in Nat
    /\ coalescer \in CoalescerType
    /\ requestSeq \in Nat /\ asked \in Seq(Nat) /\ epoch \in Nat
    /\ timer \in [armed : BOOLEAN, due : 0..Delay]
    /\ pc \in [Threads -> {"idle", "arming", "refiltering", "firing", "posting"}]
    /\ tasks \in Seq(TaskType) /\ queue \in Seq(Nat \ {0})
    /\ publishedGeneration \in Nat /\ refs \in Nat
    /\ graph \in [generation : Nat, filter : Nat, complete : BOOLEAN]
    /\ covered \in Nat /\ answered \in Nat /\ refreshing \in BOOLEAN
    /\ coalescer.generation = Len(tasks)
    /\ requestSeq = Len(asked)

\* gbm_history_refresh()'s contract: once Dart has seen coversRequest >= n, the
\* refs it can read were read after request n was made, never merely published
\* after it -- whichever walks overlapped, were superseded, or reported late.
CoversIsTruthful == \A n \in 1..covered : refs >= asked[n]

\* What the newest dispatch covers (0 before the first one).
NewestCovers == IF tasks = <<>> THEN 0 ELSE tasks[Len(tasks)].covers

\* A request no dispatch covers is still held by the coalescer: pending, and
\* marked dirty if a run is in flight, so that finish() will drive it.
RequestsAreOwed ==
    requestSeq > NewestCovers =>
        coalescer.pending /\ (coalescer.running => coalescer.dirty)

Finished(g) == tasks[g].step \in {"rearm", "done"}

\* The coalescer says running_ exactly while the newest generation's task has
\* not reported back: no terminal path of the task is missed (it would wedge
\* every later request), and no superseded task ends a run it does not own.
RunningMeansInFlight ==
    coalescer.running <=> tasks # <<>> /\ ~Finished(Len(tasks))

\* Two refreshes overlap only when a filter change superseded the older one:
\* a routine request never runs beside, nor cancels, a healthy walk.
OnlySupersededOverlap ==
    \A g \in DOMAIN tasks : Finished(g) \/ g = Len(tasks) \/ Cancelled(g)

\* A graph published by the newest dispatch was walked with the filter in
\* force, except while setHistoryFilter() is between its two sections.
NewestGraphHasFilter ==
    graph.generation = coalescer.generation /\ coalescer.generation > 0 =>
        graph.filter = filter \/ pc[Ffi] = "refiltering"

\* The snapshots Dart reads never move back to an older dispatch.
PublishNeverRegresses ==
    [][/\ publishedGeneration' >= publishedGeneration
       /\ graph'.generation >= graph.generation
       /\ graph.complete /\ graph'.generation = graph.generation => graph'.complete]_vars

\* Every request is answered by refs read for it or by an error
\* (gbm_history_refresh(): "covered by the follow-up walk, not that one").
EveryRequestAnswered ==
    \A n \in 1..MaxRequests : (requestSeq >= n) ~> (answered >= n)

\* A filter the user set and did not change again ends up as a complete graph.
FilterIsApplied ==
    \A f \in 1..MaxFilters :
        (filter = f) ~> (filter # f \/ (graph.complete /\ graph.filter = f))
=============================================================================
