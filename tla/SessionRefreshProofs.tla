------------------------ MODULE SessionRefreshProofs ------------------------
(***************************************************************************)
(* Proofs about SessionRefresh, for any number of callers, pool workers,   *)
(* requests, filter changes and repository versions.                       *)
(***************************************************************************)
EXTENDS SessionRefresh, SequenceTheorems, TLAPS

-----------------------------------------------------------------------------
(* What the coalescer's operators do, stated once *)

\* request() keeps the run in flight, if there is one, and marks it dirty.
LEMMA RequestFacts ==
    ASSUME NEW c \in CoalescerType
    PROVE  /\ Request(c, Wants) \in CoalescerType
           /\ Request(c, Wants).generation = c.generation
           /\ Request(c, Wants).running = c.running
           /\ Request(c, Wants).pending
           /\ c.running => Request(c, Wants).dirty
<1> DEFINE b == c.batch \cup Wants
<1> DEFINE d == [c EXCEPT !.batch = b, !.pending = TRUE, !.since = 0]
<1>0. b \in SUBSET Wants /\ 0 \in 0..Delay
  BY DelayAssumption DEF CoalescerType
<1> HIDE DEF b
<1>1. d = NotifyEvent(MergeIntoPending(c, Wants), 0)
  BY DEF CoalescerType, NotifyEvent, MergeIntoPending, b
<1>2. d \in CoalescerType
  BY <1>0 DEF CoalescerType
<1>3. d.generation = c.generation /\ d.running = c.running /\ d.pending = TRUE /\ d.since = 0
  BY <1>0 DEF CoalescerType
<1> HIDE DEF d
<1>4. ~QuietPeriodElapsed(d)
  BY <1>3, DelayAssumption DEF QuietPeriodElapsed
<1>5. CASE c.running
  <2>1. Request(c, Wants) = [d EXCEPT !.dirty = d.dirty \/ d.pending]
    BY <1>1, <1>3, <1>5 DEF Request, ShouldFire
  <2> QED
    BY <2>1, <1>2, <1>3, <1>5 DEF CoalescerType
<1>6. CASE ~c.running
  <2>1. Request(c, Wants) = d
    BY <1>1, <1>3, <1>4, <1>6 DEF Request, ShouldFire
  <2> QED
    BY <2>1, <1>2, <1>3, <1>6
<1> QED
  BY <1>5, <1>6

\* onTimeout() when the quiet period is over starts the next generation.
LEMMA TimeoutFires ==
    ASSUME NEW c \in CoalescerType, QuietPeriodElapsed(c)
    PROVE  /\ TakePending(OnTimeout(c)) \in CoalescerType
           /\ TakePending(OnTimeout(c)).generation = c.generation + 1
           /\ TakePending(OnTimeout(c)).running
           /\ ~c.running
<1> DEFINE n == c.generation + 1
<1>1. n \in Nat
  BY DEF CoalescerType
<1>2. OnTimeout(c) = [ShouldFire(c) EXCEPT !.generation = n]
  BY DEF OnTimeout
<1> HIDE DEF n
<1>3. ~c.running
  BY DEF QuietPeriodElapsed
<1>4. TakePending(OnTimeout(c)) =
          [c EXCEPT !.pending = FALSE, !.running = TRUE, !.generation = n, !.batch = {}]
  BY <1>2, <1>3 DEF ShouldFire, TakePending, CoalescerType
<1>5. /\ TakePending(OnTimeout(c)) \in CoalescerType
      /\ TakePending(OnTimeout(c)).generation = n
      /\ TakePending(OnTimeout(c)).running
  BY <1>1, <1>4 DEF CoalescerType
<1> QED
  BY <1>3, <1>5 DEF n

\* onTimeout() otherwise at most records that the run in flight is dirty.
LEMMA TimeoutEarly ==
    ASSUME NEW c \in CoalescerType, ~QuietPeriodElapsed(c)
    PROVE  /\ OnTimeout(c) \in CoalescerType
           /\ OnTimeout(c).generation = c.generation
           /\ OnTimeout(c).running = c.running
           /\ OnTimeout(c).pending = c.pending
           /\ c.dirty => OnTimeout(c).dirty
<1>1. CASE c.running
  <2>1. OnTimeout(c) = [c EXCEPT !.dirty = c.dirty \/ c.pending]
    BY <1>1 DEF OnTimeout, ShouldFire
  <2> QED
    BY <2>1 DEF CoalescerType
<1>2. CASE ~c.running
  BY <1>2 DEF OnTimeout, ShouldFire
<1> QED
  BY <1>1, <1>2

\* fireNow() starts the next generation whatever was in flight.
LEMMA FireNowFacts ==
    ASSUME NEW c \in CoalescerType
    PROVE  /\ TakePending(FireNow(c, Wants)) \in CoalescerType
           /\ TakePending(FireNow(c, Wants)).generation = c.generation + 1
           /\ TakePending(FireNow(c, Wants)).running
<1> DEFINE n == c.generation + 1
           b == c.batch \cup Wants
           d == [c EXCEPT !.batch = b, !.pending = TRUE, !.running = FALSE,
                          !.dirty = FALSE, !.since = Delay]
<1>1. n \in Nat /\ b \in SUBSET Wants /\ Delay \in 0..Delay
  BY DelayAssumption DEF CoalescerType
<1>2. FireNow(c, Wants) = [ShouldFire(d) EXCEPT !.generation = n]
  BY DEF FireNow, NotifyEvent, MergeIntoPending, CoalescerType
<1> HIDE DEF n, b
<1>3. d \in CoalescerType
  BY <1>1 DEF CoalescerType
<1>4. d.pending = TRUE /\ d.running = FALSE /\ d.since = Delay
  BY DEF CoalescerType
<1> HIDE DEF d
<1>5. QuietPeriodElapsed(d)
  BY <1>4, DelayAssumption DEF QuietPeriodElapsed
<1>6. TakePending(FireNow(c, Wants)) =
          [d EXCEPT !.pending = FALSE, !.running = TRUE, !.generation = n, !.batch = {}]
  BY <1>2, <1>3, <1>4, <1>5 DEF ShouldFire, TakePending, CoalescerType
<1>7. /\ TakePending(FireNow(c, Wants)) \in CoalescerType
      /\ TakePending(FireNow(c, Wants)).generation = n
      /\ TakePending(FireNow(c, Wants)).running
  BY <1>1, <1>3, <1>6 DEF CoalescerType
<1> QED
  BY <1>7 DEF n

\* onFinished() ends the run of the newest generation and nobody else's.
LEMMA FinishedFacts ==
    ASSUME NEW c \in CoalescerType, NEW g \in Nat \ {0}
    PROVE  /\ OnFinished(c, g) \in CoalescerType
           /\ OnFinished(c, g).generation = c.generation
           /\ c.pending => OnFinished(c, g).pending
           /\ g = c.generation => ~OnFinished(c, g).running
           /\ g # c.generation => OnFinished(c, g) = c
<1>1. CASE g # c.generation
  BY <1>1 DEF OnFinished, OwnsRun
<1>2. CASE g = c.generation /\ c.dirty
  <2>1. OnFinished(c, g) = [c EXCEPT !.running = FALSE, !.dirty = FALSE, !.pending = TRUE,
                                     !.since = Delay]
    BY <1>2 DEF OnFinished, OwnsRun, Finish
  <2>2. Delay \in 0..Delay
    BY DelayAssumption
  <2> QED
    BY <1>2, <2>1, <2>2 DEF CoalescerType
<1>3. CASE g = c.generation /\ ~c.dirty
  <2>1. OnFinished(c, g) = [c EXCEPT !.running = FALSE]
    BY <1>3 DEF OnFinished, OwnsRun, Finish
  <2> QED
    BY <1>3, <2>1 DEF CoalescerType
<1> QED
  BY <1>1, <1>2, <1>3

\* A tick of the clock changes nothing but the age of the last event.
LEMMA AgeFacts ==
    ASSUME NEW c \in CoalescerType
    PROVE  /\ Age(c) \in CoalescerType
           /\ Age(c).generation = c.generation
           /\ Age(c).running = c.running
           /\ Age(c).pending = c.pending
           /\ Age(c).dirty = c.dirty
<1> DEFINE a == IF c.since < Delay THEN c.since + 1 ELSE Delay
<1>1. a \in 0..Delay
  BY DelayAssumption DEF CoalescerType
<1>2. Age(c) = [c EXCEPT !.since = a]
  BY DEF Age
<1> HIDE DEF a
<1> QED
  BY <1>1, <1>2 DEF CoalescerType

-----------------------------------------------------------------------------
(* How the task list changes *)

\* Task g moves to `step`; its place in the list and what it was dispatched
\* with stay, and so does every other task.
TaskMove(g, step) ==
    /\ tasks' \in Seq(TaskType) /\ Len(tasks') = Len(tasks) /\ DOMAIN tasks' = DOMAIN tasks
    /\ tasks'[g].step = step /\ tasks'[g].covers = tasks[g].covers
    /\ tasks'[g].token = tasks[g].token /\ tasks'[g].by = tasks[g].by
    /\ \A h \in DOMAIN tasks : h # g => tasks'[h] = tasks[h]

\* A new task joins at the end of the list.
TaskJoins(thread, token) ==
    /\ tasks' \in Seq(TaskType) /\ Len(tasks') = Len(tasks) + 1
    /\ \A h \in DOMAIN tasks : h \in DOMAIN tasks' /\ tasks'[h] = tasks[h]
    /\ \A h \in DOMAIN tasks' : h \in DOMAIN tasks \/ h = Len(tasks) + 1
    /\ Len(tasks) + 1 \in DOMAIN tasks'
    /\ tasks'[Len(tasks) + 1] = NewTask(thread, token)

\* Generations are the indices of the task list.
LEMMA TaskDomain == TypeOK => /\ DOMAIN tasks = 1..Len(tasks) /\ Len(tasks) \in Nat
                              /\ \A g \in DOMAIN tasks : tasks[g] \in TaskType
BY DEF TypeOK

\* The counters are numbers.
LEMMA Numbers ==
    TypeOK => /\ repo \in Nat /\ filter \in Nat /\ requestSeq \in Nat /\ epoch \in Nat
              /\ publishedGeneration \in Nat /\ refs \in Nat /\ covered \in Nat
              /\ requestSeq = Len(asked) /\ coalescer.generation = Len(tasks)
              /\ graph.generation \in Nat
BY DEF TypeOK

\* Overwriting one task's record moves that task and leaves the others alone.
LEMMA MoveByUpdate ==
    ASSUME TypeOK, NEW g \in DOMAIN tasks, NEW t \in TaskType,
           tasks' = [tasks EXCEPT ![g] = t],
           t.covers = tasks[g].covers, t.token = tasks[g].token, t.by = tasks[g].by
    PROVE  TaskMove(g, t.step) /\ tasks'[g] = t
<1>1. g \in 1..Len(tasks) /\ tasks \in Seq(TaskType)
  BY TaskDomain DEF TypeOK
<1>2. /\ tasks' \in Seq(TaskType) /\ Len(tasks') = Len(tasks)
      /\ \A j \in 1..Len(tasks) : tasks'[j] = IF j = g THEN t ELSE tasks[j]
  BY <1>1, ExceptSeq
<1>3. DOMAIN tasks' = DOMAIN tasks
  BY <1>2, TaskDomain
<1> QED
  BY <1>1, <1>2, <1>3 DEF TaskMove

\* Goto() moves one task and changes only its step.
LEMMA MoveByGoto ==
    ASSUME TypeOK, NEW g \in DOMAIN tasks, NEW step \in TaskStep, Goto(g, step)
    PROVE  TaskMove(g, step) /\ tasks'[g] = [tasks[g] EXCEPT !.step = step]
<1> DEFINE t == [tasks[g] EXCEPT !.step = step]
<1>1. tasks[g] \in TaskType
  BY TaskDomain
<1>2. /\ t \in TaskType /\ t.covers = tasks[g].covers /\ t.token = tasks[g].token
      /\ t.by = tasks[g].by /\ t.step = step
  BY <1>1 DEF TaskType
<1>3. tasks' = [tasks EXCEPT ![g] = t]
  BY DEF Goto
<1> HIDE DEF t
<1>4. TaskMove(g, t.step) /\ tasks'[g] = t
  BY <1>2, <1>3, MoveByUpdate
<1> QED
  BY <1>2, <1>4 DEF t

\* A dispatch adds its task behind the older generations.
LEMMA JoinByAppend ==
    ASSUME TypeOK, NEW thread \in Threads, NEW token \in Nat,
           tasks' = Append(tasks, NewTask(thread, token))
    PROVE  TaskJoins(thread, token)
<1> DEFINE t == NewTask(thread, token)
<1>1. t \in TaskType
  BY DEF TypeOK, TaskType, TaskStep, NewTask, NoRefs
<1>2. tasks \in Seq(TaskType)
  BY DEF TypeOK
<1> HIDE DEF t
<1>3. /\ Append(tasks, t) \in Seq(TaskType) /\ Len(Append(tasks, t)) = Len(tasks) + 1
      /\ \A i \in 1..Len(tasks) : Append(tasks, t)[i] = tasks[i]
      /\ Append(tasks, t)[Len(tasks) + 1] = t
  BY <1>1, <1>2, AppendProperties
<1>4. tasks' = Append(tasks, t)
  BY DEF t
<1>5. DOMAIN tasks' = 1..(Len(tasks) + 1) /\ DOMAIN tasks = 1..Len(tasks) /\ Len(tasks) \in Nat
  BY <1>2, <1>3, <1>4
<1>6. tasks'[Len(tasks) + 1] = NewTask(thread, token)
  BY <1>3, <1>4 DEF t
<1> QED
  BY <1>3, <1>4, <1>5, <1>6 DEF TaskJoins

\* Where each step of a refresh takes its task, and what it records there.
LEMMA StepMoves ==
    ASSUME TypeOK, NEW g \in DOMAIN tasks
    PROVE  /\ DispatchRefresh(g) => TaskMove(g, "queued")
           /\ LoadRefs(g) => TaskMove(g, "publish") /\ tasks'[g].refs = repo
           /\ ReadFails(g) => TaskMove(g, "finish")
           /\ PublishRefs(g) => TaskMove(g, "emitRefs")
           /\ RefsSuperseded(g) => TaskMove(g, "finish")
           /\ EmitRefsUpdated(g) => TaskMove(g, "query")
           /\ ReadFilter(g) => TaskMove(g, "walk") /\ tasks'[g].query = filter
           /\ \A complete \in BOOLEAN :
                 /\ PublishGraph(g, complete) => TaskMove(g, "emitGraph")
                                                 /\ tasks'[g].query = tasks[g].query
                                                 /\ tasks'[g].complete = complete
                 /\ GraphSuperseded(g, complete) => TaskMove(g, AfterChunk(complete))
                                                    /\ tasks'[g].query = tasks[g].query
           /\ EmitGraphUpdated(g) => TaskMove(g, AfterChunk(tasks[g].complete))
                                     /\ tasks'[g].query = tasks[g].query
           /\ FinishRefresh(g) =>
                 TaskMove(g, IF FollowUpOwed(coalescer, g) THEN "rearm" ELSE "done")
           /\ Rearm(g) => TaskMove(g, "done")
<1>1. tasks[g] \in TaskType /\ repo \in Nat /\ filter \in Nat
  BY TaskDomain DEF TypeOK
<1>2. ASSUME NEW step \in TaskStep, Goto(g, step)
      PROVE  TaskMove(g, step) /\ tasks'[g].query = tasks[g].query
  <2>1. TaskMove(g, step) /\ tasks'[g] = [tasks[g] EXCEPT !.step = step]
    BY <1>2, MoveByGoto
  <2> QED
    BY <2>1, <1>1 DEF TaskType
<1>3. DispatchRefresh(g) => TaskMove(g, "queued")
  BY <1>2 DEF DispatchRefresh, Goto, TaskStep
<1>4. LoadRefs(g) => TaskMove(g, "publish") /\ tasks'[g].refs = repo
  <2> SUFFICES ASSUME LoadRefs(g) PROVE TaskMove(g, "publish") /\ tasks'[g].refs = repo
    OBVIOUS
  <2> DEFINE t == [tasks[g] EXCEPT !.step = "publish", !.refs = repo]
  <2>1. /\ t \in TaskType /\ t.covers = tasks[g].covers /\ t.token = tasks[g].token
        /\ t.by = tasks[g].by /\ t.step = "publish" /\ t.refs = repo
    BY <1>1 DEF TaskType, TaskStep
  <2>2. tasks' = [tasks EXCEPT ![g] = t]
    BY DEF LoadRefs
  <2> HIDE DEF t
  <2> QED
    BY <2>1, <2>2, MoveByUpdate
<1>5. ReadFails(g) => TaskMove(g, "finish")
  BY <1>2 DEF ReadFails, TaskStep
<1>6. PublishRefs(g) => TaskMove(g, "emitRefs")
  BY <1>2 DEF PublishRefs, TaskStep
<1>7. RefsSuperseded(g) => TaskMove(g, "finish")
  BY <1>2 DEF RefsSuperseded, TaskStep
<1>8. EmitRefsUpdated(g) => TaskMove(g, "query")
  BY <1>2 DEF EmitRefsUpdated, TaskStep
<1>9. ReadFilter(g) => TaskMove(g, "walk") /\ tasks'[g].query = filter
  <2> SUFFICES ASSUME ReadFilter(g) PROVE TaskMove(g, "walk") /\ tasks'[g].query = filter
    OBVIOUS
  <2> DEFINE t == [tasks[g] EXCEPT !.step = "walk", !.query = filter]
  <2>1. /\ t \in TaskType /\ t.covers = tasks[g].covers /\ t.token = tasks[g].token
        /\ t.by = tasks[g].by /\ t.step = "walk" /\ t.query = filter
    BY <1>1 DEF TaskType, TaskStep
  <2>2. tasks' = [tasks EXCEPT ![g] = t]
    BY DEF ReadFilter
  <2> HIDE DEF t
  <2> QED
    BY <2>1, <2>2, MoveByUpdate
<1>10. ASSUME NEW complete \in BOOLEAN
       PROVE  /\ PublishGraph(g, complete) => TaskMove(g, "emitGraph")
                                              /\ tasks'[g].query = tasks[g].query
                                              /\ tasks'[g].complete = complete
              /\ GraphSuperseded(g, complete) => TaskMove(g, AfterChunk(complete))
                                                 /\ tasks'[g].query = tasks[g].query
  <2> DEFINE n == tasks[g].chunks + 1
  <2>1. n \in Nat
    BY <1>1 DEF TaskType
  <2>2. ASSUME PublishGraph(g, complete)
        PROVE  /\ TaskMove(g, "emitGraph") /\ tasks'[g].query = tasks[g].query
               /\ tasks'[g].complete = complete
    <3> DEFINE t == [tasks[g] EXCEPT !.step = "emitGraph", !.complete = complete, !.chunks = n]
    <3>1. tasks' = [tasks EXCEPT ![g] = t]
      BY <2>2 DEF PublishGraph
    <3> HIDE DEF n
    <3>2. /\ t \in TaskType /\ t.covers = tasks[g].covers /\ t.token = tasks[g].token
          /\ t.by = tasks[g].by /\ t.step = "emitGraph" /\ t.query = tasks[g].query
          /\ t.complete = complete
      BY <1>1, <2>1 DEF TaskType, TaskStep
    <3> HIDE DEF t
    <3> QED
      BY <3>1, <3>2, MoveByUpdate
  <2>3. ASSUME GraphSuperseded(g, complete)
        PROVE  TaskMove(g, AfterChunk(complete)) /\ tasks'[g].query = tasks[g].query
    <3> DEFINE t == [tasks[g] EXCEPT !.step = AfterChunk(complete), !.chunks = n]
    <3>1. tasks' = [tasks EXCEPT ![g] = t]
      BY <2>3 DEF GraphSuperseded
    <3>2. AfterChunk(complete) \in TaskStep
      BY DEF AfterChunk, TaskStep
    <3> HIDE DEF n
    <3>3. /\ t \in TaskType /\ t.covers = tasks[g].covers /\ t.token = tasks[g].token
          /\ t.by = tasks[g].by /\ t.step = AfterChunk(complete) /\ t.query = tasks[g].query
      BY <1>1, <2>1, <3>2 DEF TaskType
    <3> HIDE DEF t
    <3> QED
      BY <3>1, <3>3, MoveByUpdate
  <2> QED
    BY <2>2, <2>3
<1>11. EmitGraphUpdated(g) => TaskMove(g, AfterChunk(tasks[g].complete))
                              /\ tasks'[g].query = tasks[g].query
  <2>1. AfterChunk(tasks[g].complete) \in TaskStep
    BY DEF AfterChunk, TaskStep
  <2> QED
    BY <2>1, <1>2 DEF EmitGraphUpdated
<1>12. FinishRefresh(g) =>
          TaskMove(g, IF FollowUpOwed(coalescer, g) THEN "rearm" ELSE "done")
  BY <1>2 DEF FinishRefresh, TaskStep
<1>13. Rearm(g) => TaskMove(g, "done")
  BY <1>2 DEF Rearm, TaskStep
<1> QED
  BY <1>3, <1>4, <1>5, <1>6, <1>7, <1>8, <1>9, <1>10, <1>11, <1>12, <1>13

-----------------------------------------------------------------------------
(* Types *)

\* Every reachable state of a session's refresh machinery is well-typed: in
\* particular generations number the dispatched tasks without gaps.
THEOREM TypeCorrect == Spec => []TypeOK
<1>1. Init => TypeOK
  <2> SUFFICES ASSUME Init PROVE TypeOK
    OBVIOUS
  <2>1. coalescer \in CoalescerType /\ coalescer.generation = 0
    <3>1. Delay \in 0..Delay /\ 0 \in Nat
      BY DelayAssumption
    <3> QED
      BY <3>1 DEF Init, NewCoalescer, CoalescerType
  <2>2. timer \in [armed : BOOLEAN, due : 0..Delay]
    BY DelayAssumption DEF Init
  <2>3. graph \in [generation : Nat, filter : Nat, complete : BOOLEAN]
    BY DEF Init, NoGraph
  <2>4. tasks \in Seq(TaskType) /\ Len(tasks) = 0 /\ queue \in Seq(Nat \ {0})
        /\ asked \in Seq(Nat) /\ Len(asked) = 0
    BY EmptySeq DEF Init
  <2>5. pc \in [Threads -> {"idle", "arming", "refiltering", "firing", "posting"}]
        /\ refreshing \in BOOLEAN
    BY DEF Init
  <2>6. /\ repo \in Nat \ {0} /\ filter \in Nat /\ requestSeq = 0 /\ epoch \in Nat
        /\ publishedGeneration \in Nat /\ refs \in Nat /\ covered \in Nat /\ answered \in Nat
    BY DEF Init, NoRefs
  <2> QED
    BY <2>1, <2>2, <2>3, <2>4, <2>5, <2>6 DEF TypeOK
<1>2. TypeOK /\ [Next]_vars => TypeOK'
  <2> SUFFICES ASSUME TypeOK, [Next]_vars PROVE TypeOK'
    OBVIOUS
  <2> USE DEF sessionVars, publishVars, dartVars
  <2>1. ASSUME NEW c \in Callers, RefreshHistory(c) PROVE TypeOK'
    BY <2>1, RequestFacts, AppendProperties DEF RefreshHistory, TypeOK, Threads
  <2>2. ASSUME NEW c \in Callers, ArmDelay(c) PROVE TypeOK'
    BY <2>2, DelayAssumption DEF ArmDelay, TypeOK, Threads
  <2>3. CASE SetHistoryFilter
    BY <2>3, SessionAssumption DEF SetHistoryFilter, TypeOK, Threads
  <2>4. CASE SupersedeWalk
    <3>1. epoch + 1 \in Nat /\ Ffi \in Threads /\ epoch' = epoch + 1
      BY <2>4, SessionAssumption DEF SupersedeWalk, TypeOK, Threads
    <3>2. TaskJoins(Ffi, epoch + 1)
      BY <2>4, <3>1, JoinByAppend DEF SupersedeWalk
    <3>3. coalescer' \in CoalescerType /\ coalescer'.generation = Len(tasks')
      BY <2>4, <3>2, FireNowFacts DEF SupersedeWalk, TypeOK, TaskJoins
    <3> QED
      BY <2>4, <3>1, <3>2, <3>3 DEF SupersedeWalk, TypeOK, TaskJoins
  <2>5. CASE TimerThread
    <3>1. CASE TimerExpires
      BY <3>1 DEF TimerExpires, TypeOK
    <3>2. CASE TimerFiresEarly
      BY <3>2, TimeoutEarly DEF TimerFiresEarly, TypeOK
    <3>3. CASE OnRefreshTimerFired
      <4>1. TaskJoins("timer", epoch)
        BY <3>3, JoinByAppend DEF OnRefreshTimerFired, Threads, TypeOK
      <4>2. coalescer' \in CoalescerType /\ coalescer'.generation = Len(tasks')
        BY <3>3, <4>1, TimeoutFires DEF OnRefreshTimerFired, TypeOK, TaskJoins
      <4> QED
        BY <3>3, <4>1, <4>2 DEF OnRefreshTimerFired, TypeOK, TaskJoins
    <3> QED
      BY <2>5, <3>1, <3>2, <3>3 DEF TimerThread
  <2>6. CASE StartTask
    <3>1. Head(queue) \in Nat \ {0} /\ Tail(queue) \in Seq(Nat \ {0})
      BY <2>6, HeadTailProperties DEF StartTask, TypeOK
    <3>2. CASE Head(queue) \in DOMAIN tasks
      <4>1. TaskMove(Head(queue), "load")
        BY <2>6, <3>2, MoveByGoto DEF StartTask, TaskStep
      <4> QED
        BY <2>6, <3>1, <4>1 DEF StartTask, TypeOK, TaskMove
    <3>3. CASE Head(queue) \notin DOMAIN tasks
      <4>1. tasks' = tasks
        BY <2>6, <3>3 DEF StartTask, Goto, TypeOK
      <4> QED
        BY <2>6, <3>1, <4>1 DEF StartTask, TypeOK
    <3> QED
      BY <3>2, <3>3
  <2>7. ASSUME NEW g \in DOMAIN tasks, Step(g) PROVE TypeOK'
    <3>1. g \in Nat \ {0} /\ tasks[g] \in TaskType
      BY TaskDomain
    <3>2. CASE DispatchRefresh(g)
      <4>1. queue' \in Seq(Nat \ {0})
        BY <3>1, <3>2, AppendProperties DEF DispatchRefresh, TypeOK
      <4> QED
        BY <3>2, <4>1, StepMoves DEF DispatchRefresh, TypeOK, TaskMove
    <3>3. CASE LoadRefs(g)
      BY <3>3, StepMoves DEF LoadRefs, TypeOK, TaskMove
    <3>4. CASE ReadFails(g)
      <4>1. answered' \in Nat /\ refreshing' \in BOOLEAN
        BY <3>1, <3>4 DEF ReadFails, ReportError, Larger, TypeOK, TaskType
      <4> QED
        BY <3>4, <4>1, StepMoves DEF ReadFails, TypeOK, TaskMove
    <3>5. CASE PublishRefs(g)
      <4>1. refs' \in Nat
        BY <3>1, <3>5 DEF PublishRefs, TaskType
      <4> QED
        BY <3>1, <3>5, <4>1, StepMoves DEF PublishRefs, TypeOK, TaskMove
    <3>6. CASE RefsSuperseded(g)
      BY <3>6, StepMoves DEF RefsSuperseded, TypeOK, TaskMove
    <3>7. CASE EmitRefsUpdated(g)
      <4>1. covered' \in Nat /\ answered' \in Nat
        BY <3>1, <3>7 DEF EmitRefsUpdated, Larger, TypeOK, TaskType
      <4> QED
        BY <3>7, <4>1, StepMoves DEF EmitRefsUpdated, TypeOK, TaskMove
    <3>8. CASE ReadFilter(g)
      BY <3>8, StepMoves DEF ReadFilter, TypeOK, TaskMove
    <3>9. ASSUME NEW complete \in BOOLEAN, PublishGraph(g, complete) PROVE TypeOK'
      <4>1. graph' \in [generation : Nat, filter : Nat, complete : BOOLEAN]
        BY <3>1, <3>9 DEF PublishGraph, TaskType
      <4> QED
        BY <3>1, <3>9, <4>1, StepMoves DEF PublishGraph, TypeOK, TaskMove
    <3>10. ASSUME NEW complete \in BOOLEAN, GraphSuperseded(g, complete) PROVE TypeOK'
      BY <3>10, StepMoves DEF GraphSuperseded, TypeOK, TaskMove
    <3>11. CASE EmitGraphUpdated(g)
      <4>1. refreshing' \in BOOLEAN
        BY <3>11 DEF EmitGraphUpdated
      <4> QED
        BY <3>11, <4>1, StepMoves DEF EmitGraphUpdated, TypeOK, TaskMove
    <3>12. CASE FinishRefresh(g)
      <4>1. coalescer' \in CoalescerType /\ coalescer'.generation = coalescer.generation
        BY <3>1, <3>12, FinishedFacts DEF FinishRefresh, TypeOK
      <4> QED
        BY <3>12, <4>1, StepMoves DEF FinishRefresh, TypeOK, TaskMove
    <3>13. CASE Rearm(g)
      <4>1. timer' \in [armed : BOOLEAN, due : 0..Delay]
        BY <3>13, DelayAssumption DEF Rearm
      <4> QED
        BY <3>13, <4>1, StepMoves DEF Rearm, TypeOK, TaskMove
    <3> QED
      BY <2>7, <3>2, <3>3, <3>4, <3>5, <3>6, <3>7, <3>8, <3>9, <3>10, <3>11, <3>12, <3>13
         DEF Step
  <2>8. CASE RepoChanges
    BY <2>8 DEF RepoChanges, TypeOK
  <2>9. CASE Tick
    <3>1. timer' \in [armed : BOOLEAN, due : 0..Delay]
      <4> DEFINE n == IF timer.due > 0 THEN timer.due - 1 ELSE 0
      <4>1. n \in 0..Delay
        BY DelayAssumption DEF TypeOK
      <4>2. timer' = [timer EXCEPT !.due = n]
        BY <2>9 DEF Tick
      <4> HIDE DEF n
      <4> QED
        BY <4>1, <4>2 DEF TypeOK
    <3> QED
      BY <2>9, <3>1, AgeFacts DEF Tick, TypeOK
  <2>10. CASE UNCHANGED vars
    BY <2>10 DEF vars, TypeOK
  <2> QED
    BY <2>1, <2>2, <2>3, <2>4, <2>5, <2>6, <2>7, <2>8, <2>9, <2>10 DEF Next, Call
<1> QED
  BY <1>1, <1>2, PTL DEF Spec
-----------------------------------------------------------------------------
(* gbm_history_refresh()'s promise about coversRequest *)

\* A request is made at a version the repository has already reached.
AskedPast == \A n \in 1..requestSeq : asked[n] <= repo

\* A later dispatch covers at least what an earlier one does.
CoversMonotone ==
    /\ \A g \in DOMAIN tasks : tasks[g].covers <= requestSeq
    /\ \A g, h \in DOMAIN tasks : g <= h => tasks[g].covers <= tasks[h].covers

\* The refs a task is about to publish are as new as all it covers.
LoadedAfter ==
    \A g \in DOMAIN tasks : tasks[g].step = "publish" =>
        \A n \in 1..tasks[g].covers : asked[n] <= tasks[g].refs

\* A task that has published is not newer than what is published.
PublishedSteps == {"emitRefs", "query", "walk", "emitGraph"}

Claimed ==
    \A g \in DOMAIN tasks : tasks[g].step \in PublishedSteps => g <= publishedGeneration

\* The published refs are as new as everything their generation covers.
PublishedFresh ==
    /\ publishedGeneration <= Len(tasks)
    /\ publishedGeneration > 0 =>
          \A n \in 1..tasks[publishedGeneration].covers : asked[n] <= refs

\* Dart was told of no more than the published generation covers.
CoveredByPublished ==
    covered > 0 =>
        /\ publishedGeneration > 0
        /\ covered <= tasks[publishedGeneration].covers

\* The inductive invariant: CoversIsTruthful alone says nothing of the tasks
\* that are still to publish.
FreshInv ==
    /\ AskedPast /\ CoversMonotone /\ LoadedAfter /\ Claimed
    /\ PublishedFresh /\ CoveredByPublished

\* What the invariant means for the reader of the refs.
LEMMA FreshIsTruthful == TypeOK /\ FreshInv => CoversIsTruthful
<1> SUFFICES ASSUME TypeOK, FreshInv, NEW n \in 1..covered PROVE refs >= asked[n]
  BY DEF CoversIsTruthful
<1>1. publishedGeneration > 0 /\ publishedGeneration \in DOMAIN tasks
  BY TaskDomain DEF TypeOK, FreshInv, CoveredByPublished, PublishedFresh
<1>2. tasks[publishedGeneration].covers \in Nat
      /\ tasks[publishedGeneration].covers <= requestSeq
  BY <1>1, TaskDomain DEF TaskType, FreshInv, CoversMonotone
<1>3. n \in 1..tasks[publishedGeneration].covers
  BY <1>1, <1>2 DEF TypeOK, FreshInv, CoveredByPublished
<1>4. n \in 1..Len(asked) /\ asked[n] \in Nat
  BY SMTT(20), <1>2, <1>3 DEF TypeOK
<1> QED
  BY <1>1, <1>3, <1>4 DEF TypeOK, FreshInv, PublishedFresh

\* A task's move keeps the invariant if it publishes nothing and claims
\* nothing it does not hold.
LEMMA FreshByMove ==
    ASSUME TypeOK, FreshInv, NEW g \in DOMAIN tasks, NEW step, TaskMove(g, step),
           step # "publish", step \in PublishedSteps => g <= publishedGeneration,
           UNCHANGED <<repo, requestSeq, asked, publishedGeneration, refs, covered>>
    PROVE  FreshInv'
<1>1. \A h \in DOMAIN tasks' : h \in DOMAIN tasks /\ tasks'[h].covers = tasks[h].covers
  BY DEF TaskMove
<1>2. publishedGeneration > 0 => publishedGeneration \in DOMAIN tasks'
  BY TaskDomain DEF TypeOK, FreshInv, PublishedFresh, TaskMove
<1>3. AskedPast' /\ CoversMonotone'
  BY <1>1 DEF FreshInv, AskedPast, CoversMonotone
<1>4. LoadedAfter' /\ Claimed'
  BY <1>1 DEF FreshInv, LoadedAfter, Claimed, TaskMove
<1>5. PublishedFresh' /\ CoveredByPublished'
  BY <1>1, <1>2 DEF FreshInv, PublishedFresh, CoveredByPublished, TaskMove
<1> QED
  BY <1>3, <1>4, <1>5 DEF FreshInv

\* A dispatch keeps the invariant: its task covers every request so far.
LEMMA FreshByJoin ==
    ASSUME TypeOK, FreshInv, NEW thread, NEW token, TaskJoins(thread, token),
           UNCHANGED <<repo, requestSeq, asked, publishedGeneration, refs, covered>>
    PROVE  FreshInv'
<1>1. /\ tasks'[Len(tasks) + 1].covers = requestSeq
      /\ tasks'[Len(tasks) + 1].step = "dispatched"
  BY DEF TaskJoins, NewTask
<1>2. DOMAIN tasks = 1..Len(tasks) /\ Len(tasks) \in Nat
  BY TaskDomain
<1>3. CoversMonotone'
  <2>1. \A g \in DOMAIN tasks' : tasks'[g].covers <= requestSeq
    BY <1>1, <1>2, Numbers DEF TaskJoins, FreshInv, CoversMonotone
  <2>2. \A g, h \in DOMAIN tasks' : g <= h =>
            h = Len(tasks) + 1 \/ (g \in DOMAIN tasks /\ h \in DOMAIN tasks)
    BY <1>2 DEF TaskJoins
  <2>3. \A g, h \in DOMAIN tasks' : g <= h => tasks'[g].covers <= tasks'[h].covers
    BY <1>1, <2>1, <2>2 DEF TaskJoins, FreshInv, CoversMonotone
  <2> QED
    BY <2>1, <2>3 DEF CoversMonotone
<1>4. LoadedAfter' /\ Claimed'
  BY <1>1, <1>2 DEF TaskJoins, FreshInv, LoadedAfter, Claimed, PublishedSteps
<1>5. publishedGeneration > 0 => publishedGeneration \in DOMAIN tasks
  BY <1>2 DEF TypeOK, FreshInv, PublishedFresh
<1>6. PublishedFresh'
  BY <1>2, <1>5, Numbers DEF TaskJoins, FreshInv, PublishedFresh
<1>7. CoveredByPublished'
  BY <1>5 DEF TaskJoins, FreshInv, CoveredByPublished
<1> QED
  BY <1>3, <1>4, <1>6, <1>7 DEF FreshInv, AskedPast

\* A step that leaves tasks, requests and published refs alone keeps it.
LEMMA FreshByStutter ==
    ASSUME FreshInv,
           UNCHANGED <<repo, requestSeq, asked, tasks, publishedGeneration, refs, covered>>
    PROVE  FreshInv'
BY DEF FreshInv, AskedPast, CoversMonotone, LoadedAfter, Claimed, PublishedFresh,
       CoveredByPublished, PublishedSteps

\* The invariant holds in every reachable state.
LEMMA FreshInvariant == Spec => []FreshInv
<1>1. Init => FreshInv
  BY DEF Init, FreshInv, AskedPast, CoversMonotone, LoadedAfter, Claimed, PublishedFresh,
         CoveredByPublished
<1>2. TypeOK /\ FreshInv /\ [Next]_vars => FreshInv'
  <2> SUFFICES ASSUME TypeOK, FreshInv, [Next]_vars PROVE FreshInv'
    OBVIOUS
  <2> USE DEF sessionVars, publishVars, dartVars
  <2>1. ASSUME NEW c \in Callers, RefreshHistory(c) PROVE FreshInv'
    <3>1. /\ requestSeq' = requestSeq + 1 /\ requestSeq = Len(asked) /\ requestSeq \in Nat
          /\ asked'[requestSeq'] = repo
          /\ \A n \in 1..requestSeq : asked'[n] = asked[n]
      BY <2>1, AppendProperties DEF RefreshHistory, TypeOK
    <3>2. UNCHANGED <<repo, tasks, publishedGeneration, refs, covered>>
      BY <2>1 DEF RefreshHistory
    <3>3. \A g \in DOMAIN tasks : tasks[g].covers \in Nat /\ tasks[g].covers <= requestSeq
      BY TaskDomain DEF FreshInv, CoversMonotone, TaskType
    <3>4. publishedGeneration > 0 => publishedGeneration \in DOMAIN tasks
      BY TaskDomain DEF TypeOK, FreshInv, PublishedFresh
    <3>5. AskedPast'
      <4>1. \A n \in 1..requestSeq' : n \in 1..requestSeq \/ n = requestSeq'
        BY <3>1
      <4> QED
        BY <3>1, <3>2, <4>1, Numbers DEF FreshInv, AskedPast
    <3>6. CoversMonotone'
      BY <3>1, <3>2, <3>3 DEF FreshInv, CoversMonotone
    <3>7. LoadedAfter'
      BY <3>1, <3>2, <3>3 DEF FreshInv, LoadedAfter
    <3>8. PublishedFresh'
      BY <3>1, <3>2, <3>3, <3>4 DEF FreshInv, PublishedFresh
    <3> QED
      BY <3>2, <3>5, <3>6, <3>7, <3>8 DEF FreshInv, Claimed, CoveredByPublished, PublishedSteps
  <2>2. ASSUME NEW c \in Callers, ArmDelay(c) PROVE FreshInv'
    BY <2>2, FreshByStutter DEF ArmDelay
  <2>3. CASE SetHistoryFilter
    BY <2>3, FreshByStutter DEF SetHistoryFilter
  <2>4. CASE SupersedeWalk
    <3>1. TaskJoins(Ffi, epoch + 1)
      BY SMTT(20), <2>4, JoinByAppend, SessionAssumption DEF SupersedeWalk, TypeOK, Threads
    <3> QED
      BY <2>4, <3>1, FreshByJoin DEF SupersedeWalk
  <2>5. CASE TimerThread
    <3>1. CASE TimerExpires \/ TimerFiresEarly
      BY <3>1, FreshByStutter DEF TimerExpires, TimerFiresEarly
    <3>2. CASE OnRefreshTimerFired
      <4>1. TaskJoins("timer", epoch)
        BY <3>2, JoinByAppend DEF OnRefreshTimerFired, Threads, TypeOK
      <4> QED
        BY <3>2, <4>1, FreshByJoin DEF OnRefreshTimerFired
    <3> QED
      BY <2>5, <3>1, <3>2 DEF TimerThread
  <2>6. CASE StartTask
    <3>1. CASE Head(queue) \in DOMAIN tasks
      <4>1. TaskMove(Head(queue), "load")
        BY <2>6, <3>1, MoveByGoto DEF StartTask, TaskStep
      <4> QED
        BY <2>6, <3>1, <4>1, FreshByMove DEF StartTask, PublishedSteps
    <3>2. CASE Head(queue) \notin DOMAIN tasks
      <4>1. tasks' = tasks
        BY <2>6, <3>2 DEF StartTask, Goto, TypeOK
      <4> QED
        BY <2>6, <4>1, FreshByStutter DEF StartTask
    <3> QED
      BY <3>1, <3>2
  <2>7. ASSUME NEW g \in DOMAIN tasks, Step(g) PROVE FreshInv'
    <3>1. /\ g \in Nat \ {0} /\ g <= Len(tasks) /\ tasks[g] \in TaskType
          /\ tasks[g].covers \in Nat /\ tasks[g].covers <= requestSeq
          /\ DOMAIN tasks = 1..Len(tasks) /\ Len(tasks) \in Nat
      BY TaskDomain DEF FreshInv, CoversMonotone, TaskType
    <3>2. CASE DispatchRefresh(g)
      BY <3>2, StepMoves, FreshByMove DEF DispatchRefresh, PublishedSteps
    <3>3. CASE LoadRefs(g)
      <4>1. TaskMove(g, "publish") /\ tasks'[g].refs = repo
        BY <3>3, StepMoves
      <4>2. UNCHANGED <<repo, requestSeq, asked, publishedGeneration, refs, covered>>
        BY <3>3 DEF LoadRefs
      <4>3. \A h \in DOMAIN tasks' : h \in DOMAIN tasks /\ tasks'[h].covers = tasks[h].covers
        BY <4>1 DEF TaskMove
      <4>4. CoversMonotone' /\ AskedPast'
        BY <4>2, <4>3 DEF FreshInv, CoversMonotone, AskedPast
      <4>5. LoadedAfter'
        <5>1. \A n \in 1..tasks[g].covers : n \in 1..requestSeq
          BY <3>1, Numbers
        <5>2. \A n \in 1..tasks'[g].covers : asked'[n] <= tasks'[g].refs
          BY <4>1, <4>2, <5>1 DEF FreshInv, AskedPast, TaskMove
        <5> QED
          BY <4>1, <4>2, <4>3, <5>2 DEF FreshInv, LoadedAfter, TaskMove
      <4>6. Claimed'
        BY <4>1, <4>2 DEF FreshInv, Claimed, TaskMove, PublishedSteps
      <4>7. publishedGeneration > 0 => publishedGeneration \in DOMAIN tasks'
        BY <3>1, <4>1 DEF TypeOK, FreshInv, PublishedFresh, TaskMove
      <4>8. PublishedFresh' /\ CoveredByPublished'
        BY <4>1, <4>2, <4>3, <4>7 DEF FreshInv, PublishedFresh, CoveredByPublished, TaskMove
      <4> QED
        BY <4>4, <4>5, <4>6, <4>8 DEF FreshInv
    <3>4. CASE ReadFails(g)
      BY <3>4, StepMoves, FreshByMove DEF ReadFails, PublishedSteps
    <3>5. CASE PublishRefs(g)
      <4>1. TaskMove(g, "emitRefs")
        BY <3>5, StepMoves
      <4>2. /\ UNCHANGED <<repo, requestSeq, asked, covered>>
            /\ publishedGeneration' = g /\ refs' = tasks[g].refs
            /\ g >= publishedGeneration /\ tasks[g].step = "publish"
        BY <3>5 DEF PublishRefs, ClaimPublishLocked
      <4>3. \A h \in DOMAIN tasks' : h \in DOMAIN tasks /\ tasks'[h].covers = tasks[h].covers
        BY <4>1 DEF TaskMove
      <4>4. CoversMonotone' /\ AskedPast'
        BY <4>2, <4>3 DEF FreshInv, CoversMonotone, AskedPast
      <4>5. LoadedAfter'
        BY <4>1, <4>2, <4>3 DEF FreshInv, LoadedAfter, TaskMove
      <4>6. Claimed'
        <5>1. \A h \in DOMAIN tasks : h <= publishedGeneration => h <= g
          BY <3>1, <4>2, Numbers
        <5> QED
          BY <3>1, <4>1, <4>2, <5>1 DEF FreshInv, Claimed, TaskMove
      <4>7. PublishedFresh'
        BY <3>1, <4>1, <4>2, <4>3 DEF FreshInv, LoadedAfter, PublishedFresh, TaskMove
      <4>8. CoveredByPublished'
        <5>1. publishedGeneration > 0 => tasks[publishedGeneration].covers <= tasks[g].covers
                                         /\ tasks[publishedGeneration].covers \in Nat
          <6>1. publishedGeneration > 0 => publishedGeneration \in DOMAIN tasks
            BY <3>1, <4>2, Numbers
          <6> QED
            BY <4>2, <6>1, TaskDomain DEF FreshInv, CoversMonotone, TaskType
        <5> QED
          BY SMTT(20), <3>1, <4>1, <4>2, <5>1, Numbers DEF FreshInv, CoveredByPublished, TaskMove
      <4> QED
        BY <4>4, <4>5, <4>6, <4>7, <4>8 DEF FreshInv
    <3>6. CASE RefsSuperseded(g)
      BY <3>6, StepMoves, FreshByMove DEF RefsSuperseded, PublishedSteps
    <3>7. CASE EmitRefsUpdated(g)
      <4>1. TaskMove(g, "query")
        BY <3>7, StepMoves
      <4>2. /\ UNCHANGED <<repo, requestSeq, asked, publishedGeneration, refs>>
            /\ covered' = Larger(tasks[g].covers, covered) /\ tasks[g].step = "emitRefs"
        BY <3>7 DEF EmitRefsUpdated
      <4>3. \A h \in DOMAIN tasks' : h \in DOMAIN tasks /\ tasks'[h].covers = tasks[h].covers
        BY <4>1 DEF TaskMove
      <4>4. /\ g <= publishedGeneration /\ publishedGeneration \in DOMAIN tasks'
            /\ publishedGeneration > 0
            /\ tasks[g].covers <= tasks[publishedGeneration].covers
        BY <3>1, <4>1, <4>2 DEF FreshInv, Claimed, PublishedSteps, PublishedFresh, TypeOK,
                                 TaskMove, CoversMonotone
      <4>5. CoversMonotone' /\ AskedPast'
        BY <4>2, <4>3 DEF FreshInv, CoversMonotone, AskedPast
      <4>6. LoadedAfter' /\ Claimed'
        BY <4>1, <4>2, <4>3, <4>4 DEF FreshInv, LoadedAfter, Claimed, TaskMove
      <4>7. PublishedFresh'
        BY <4>1, <4>2, <4>3, <4>4 DEF FreshInv, PublishedFresh, TaskMove
      <4>8. CoveredByPublished'
        BY <4>2, <4>3, <4>4 DEF FreshInv, CoveredByPublished, Larger
      <4> QED
        BY <4>5, <4>6, <4>7, <4>8 DEF FreshInv
    <3>8. CASE ReadFilter(g)
      <4>1. g <= publishedGeneration
        BY <3>8 DEF ReadFilter, FreshInv, Claimed, PublishedSteps
      <4> QED
        BY <3>8, <4>1, StepMoves, FreshByMove DEF ReadFilter
    <3>9. ASSUME NEW complete \in BOOLEAN, PublishGraph(g, complete) PROVE FreshInv'
      <4>1. g <= publishedGeneration /\ publishedGeneration' = publishedGeneration
        BY SMTT(20), <3>1, <3>9 DEF PublishGraph, ClaimPublishLocked, FreshInv, Claimed, PublishedSteps,
                          TypeOK
      <4> QED
        BY <3>9, <4>1, StepMoves, FreshByMove DEF PublishGraph
    <3>10. ASSUME NEW complete \in BOOLEAN, GraphSuperseded(g, complete) PROVE FreshInv'
      <4>1. g <= publishedGeneration
        BY <3>10 DEF GraphSuperseded, FreshInv, Claimed, PublishedSteps
      <4>2. TaskMove(g, AfterChunk(complete)) /\ AfterChunk(complete) # "publish"
        BY <3>10, StepMoves DEF AfterChunk
      <4> QED
        BY <3>10, <4>1, <4>2, FreshByMove DEF GraphSuperseded
    <3>11. CASE EmitGraphUpdated(g)
      <4>1. g <= publishedGeneration
        BY <3>11 DEF EmitGraphUpdated, FreshInv, Claimed, PublishedSteps
      <4>2. /\ TaskMove(g, AfterChunk(tasks[g].complete))
            /\ AfterChunk(tasks[g].complete) # "publish"
        BY <3>11, StepMoves DEF AfterChunk
      <4> QED
        BY <3>11, <4>1, <4>2, FreshByMove DEF EmitGraphUpdated
    <3>12. CASE FinishRefresh(g)
      <4> DEFINE step == IF FollowUpOwed(coalescer, g) THEN "rearm" ELSE "done"
      <4>1. TaskMove(g, step) /\ step # "publish" /\ step \notin PublishedSteps
        BY <3>12, StepMoves DEF PublishedSteps
      <4> HIDE DEF step
      <4> QED
        BY <3>12, <4>1, FreshByMove DEF FinishRefresh
    <3>13. CASE Rearm(g)
      BY <3>13, StepMoves, FreshByMove DEF Rearm, PublishedSteps
    <3> QED
      BY <2>7, <3>2, <3>3, <3>4, <3>5, <3>6, <3>7, <3>8, <3>9, <3>10, <3>11, <3>12, <3>13
         DEF Step
  <2>8. CASE RepoChanges
    <3>1. /\ repo' = repo + 1
          /\ UNCHANGED <<requestSeq, asked, tasks, publishedGeneration, refs, covered>>
      BY <2>8 DEF RepoChanges
    <3>2. AskedPast'
      BY <3>1 DEF FreshInv, AskedPast, TypeOK
    <3> QED
      BY <3>1, <3>2 DEF FreshInv, CoversMonotone, LoadedAfter, Claimed, PublishedFresh,
                        CoveredByPublished, PublishedSteps
  <2>9. CASE Tick
    BY <2>9, FreshByStutter DEF Tick
  <2>10. CASE UNCHANGED vars
    BY <2>10, FreshByStutter DEF vars
  <2> QED
    BY <2>1, <2>2, <2>3, <2>4, <2>5, <2>6, <2>7, <2>8, <2>9, <2>10 DEF Next, Call
<1> QED
  BY <1>1, <1>2, TypeCorrect, PTL DEF Spec

\* Once Dart has seen coversRequest >= n, the refs it reads were read after
\* request n was made (gbm_history_refresh()'s contract), for any number of
\* requests, filter changes, overlapping walks and late events.
THEOREM CoversTruthful == Spec => []CoversIsTruthful
BY TypeCorrect, FreshInvariant, FreshIsTruthful, PTL

----------------------------------------------------------------------------
(* When a refresh runs and what it publishes: the coalescer's running_ bit     *)
(* against the tasks in the pool, requests that must not be dropped, and the   *)
(* order of published snapshots.                                               *)

\* The pool queue holds each queued task once, and nothing else.
QueueOK ==
    /\ \A i \in 1..Len(queue) : queue[i] \in DOMAIN tasks /\ tasks[queue[i]].step = "queued"
    /\ \A i, j \in 1..Len(queue) : i # j => queue[i] # queue[j]

\* A task's token is that of some CancellationSource already installed.
TokenPast == \A g \in DOMAIN tasks : tasks[g].token <= epoch

\* The inductive invariant: the three properties, and the two facts about the
\* pool queue and the tokens that carry them through StartTask and through
\* SupersedeWalk.
ScheduleInv ==
    /\ QueueOK /\ TokenPast
    /\ RunningMeansInFlight /\ OnlySupersededOverlap /\ RequestsAreOwed

EndSteps == {"rearm", "done"}

\* The task list is empty exactly when no generation was dispatched.
LEMMA NoTasks == TypeOK => (tasks = <<>> <=> Len(tasks) = 0)
BY EmptySeq DEF TypeOK

\* A task's move that neither ends nor revives its refresh keeps everything
\* but what the pool queue holds.
LEMMA ScheduleByMove ==
    ASSUME TypeOK, TypeOK', ScheduleInv, NEW g \in DOMAIN tasks, NEW step, TaskMove(g, step),
           Finished(g) <=> step \in EndSteps,
           UNCHANGED <<coalescer, epoch, requestSeq>>,
           QueueOK'
    PROVE  ScheduleInv'
<1>1. /\ DOMAIN tasks' = DOMAIN tasks /\ Len(tasks') = Len(tasks)
      /\ \A h \in DOMAIN tasks : /\ tasks'[h].token = tasks[h].token
                                 /\ tasks'[h].covers = tasks[h].covers
  BY DEF TaskMove
<1>2. \A h \in DOMAIN tasks : Finished(h)' <=> Finished(h)
  BY DEF TaskMove, Finished, EndSteps
<1>3. /\ tasks = <<>> <=> Len(tasks) = 0
      /\ tasks' = <<>> <=> Len(tasks') = 0
      /\ DOMAIN tasks = 1..Len(tasks) /\ Len(tasks) \in Nat
  BY <1>1, NoTasks, TaskDomain, EmptySeq DEF TypeOK
<1>4. Len(tasks) # 0 => Len(tasks) \in DOMAIN tasks
  BY <1>3
<1>5. TokenPast'
  BY <1>1 DEF ScheduleInv, TokenPast
<1>6. RunningMeansInFlight'
  BY <1>1, <1>2, <1>3, <1>4 DEF ScheduleInv, RunningMeansInFlight
<1>7. OnlySupersededOverlap'
  BY <1>1, <1>2 DEF ScheduleInv, OnlySupersededOverlap, Cancelled
<1>8. NewestCovers' = NewestCovers
  BY <1>1, <1>3, <1>4 DEF NewestCovers
<1>9. RequestsAreOwed'
  BY <1>8 DEF ScheduleInv, RequestsAreOwed
<1> QED
  BY <1>5, <1>6, <1>7, <1>9 DEF ScheduleInv

\* The pool queue survives the move of a task that is not waiting in it.
LEMMA QueueByMove ==
    ASSUME TypeOK, QueueOK, NEW g \in DOMAIN tasks, NEW step, TaskMove(g, step),
           tasks[g].step # "queued", UNCHANGED queue
    PROVE  QueueOK'
<1>1. \A i \in 1..Len(queue) : queue[i] # g
  BY DEF QueueOK
<1> QED
  BY <1>1 DEF QueueOK, TaskMove

\* A dispatch that supersedes or follows every older task keeps the schedule.
LEMMA ScheduleByJoin ==
    ASSUME TypeOK, TypeOK', ScheduleInv, NEW thread, NEW token \in Nat,
           TaskJoins(thread, token), token = epoch',
           UNCHANGED <<queue, requestSeq>>, coalescer'.running, epoch' >= epoch,
           \A g \in DOMAIN tasks : Finished(g) \/ tasks[g].token < epoch'
    PROVE  ScheduleInv'
<1> DEFINE new == Len(tasks) + 1
<1>1. /\ DOMAIN tasks = 1..Len(tasks) /\ Len(tasks) \in Nat /\ Len(tasks') = new
      /\ \A h \in DOMAIN tasks : h \in DOMAIN tasks' /\ tasks'[h] = tasks[h]
      /\ \A h \in DOMAIN tasks' : h \in DOMAIN tasks \/ h = new
      /\ new \in DOMAIN tasks'
  BY TaskDomain DEF TaskJoins
<1>2. /\ tasks'[new].step = "dispatched" /\ tasks'[new].token = epoch'
      /\ tasks'[new].covers = requestSeq
  BY DEF TaskJoins, NewTask
<1>3. tasks' # <<>>
  BY <1>1, EmptySeq
<1>4. QueueOK'
  BY <1>1 DEF ScheduleInv, QueueOK
<1>5. TokenPast'
  <2>1. epoch \in Nat /\ epoch' \in Nat /\ \A g \in DOMAIN tasks : tasks[g].token \in Nat
    BY TaskDomain, Numbers DEF TypeOK, TaskType
  <2> HIDE DEF new
  <2> QED
    BY <1>1, <1>2, <2>1 DEF ScheduleInv, TokenPast
<1>6. RunningMeansInFlight'
  BY <1>1, <1>2, <1>3 DEF RunningMeansInFlight, Finished
<1>7. OnlySupersededOverlap'
  <2> HIDE DEF new
  <2> QED
    BY <1>1, <1>2 DEF OnlySupersededOverlap, Finished, Cancelled
<1>8. NewestCovers' = requestSeq'
  BY <1>1, <1>2, <1>3 DEF NewestCovers
<1>9. RequestsAreOwed'
  <2>1. requestSeq' \in Nat
    BY DEF TypeOK
  <2> QED
    BY <1>8, <2>1 DEF RequestsAreOwed
<1> QED
  BY <1>4, <1>5, <1>6, <1>7, <1>9 DEF ScheduleInv

\* A step that leaves tasks, pool queue and coalescer bits alone keeps it.
LEMMA ScheduleByStutter ==
    ASSUME ScheduleInv, UNCHANGED <<tasks, queue, epoch, requestSeq>>,
           coalescer'.running = coalescer.running,
           coalescer.pending => coalescer'.pending,
           coalescer.dirty => coalescer'.dirty
    PROVE  ScheduleInv'
BY DEF ScheduleInv, QueueOK, TokenPast, RunningMeansInFlight, OnlySupersededOverlap,
       RequestsAreOwed, NewestCovers, Finished, Cancelled

\* The schedule invariant holds in every reachable state.
LEMMA ScheduleInvariant == Spec => []ScheduleInv
<1>1. Init => ScheduleInv
  <2> SUFFICES ASSUME Init PROVE ScheduleInv
    OBVIOUS
  <2>1. Len(queue) = 0 /\ DOMAIN tasks = {} /\ tasks = <<>>
    BY DEF Init
  <2>2. QueueOK /\ TokenPast /\ OnlySupersededOverlap
    BY <2>1 DEF QueueOK, TokenPast, OnlySupersededOverlap
  <2>3. RunningMeansInFlight /\ RequestsAreOwed
    BY <2>1 DEF Init, NewCoalescer, RunningMeansInFlight, RequestsAreOwed, NewestCovers
  <2> QED
    BY <2>2, <2>3 DEF ScheduleInv
<1>2. TypeOK /\ TypeOK' /\ ScheduleInv /\ [Next]_vars => ScheduleInv'
  <2> SUFFICES ASSUME TypeOK, TypeOK', ScheduleInv, [Next]_vars PROVE ScheduleInv'
    OBVIOUS
  <2> USE DEF sessionVars, publishVars, dartVars
  <2>0. coalescer \in CoalescerType /\ coalescer.generation = Len(tasks)
    BY DEF TypeOK
  <2>1. ASSUME NEW c \in Callers, RefreshHistory(c) PROVE ScheduleInv'
    <3>1. /\ coalescer'.running = coalescer.running /\ coalescer'.pending
          /\ coalescer.running => coalescer'.dirty
      BY <2>0, <2>1, RequestFacts DEF RefreshHistory
    <3>2. UNCHANGED <<tasks, queue, epoch>>
      BY <2>1 DEF RefreshHistory
    <3> QED
      BY <3>1, <3>2 DEF ScheduleInv, QueueOK, TokenPast, RunningMeansInFlight,
         OnlySupersededOverlap, RequestsAreOwed, Finished, Cancelled
  <2>2. ASSUME NEW c \in Callers, ArmDelay(c) PROVE ScheduleInv'
    BY <2>2, ScheduleByStutter DEF ArmDelay
  <2>3. CASE SetHistoryFilter
    BY <2>3, ScheduleByStutter DEF SetHistoryFilter
  <2>4. CASE SupersedeWalk
    <3>1. TaskJoins(Ffi, epoch + 1) /\ epoch + 1 \in Nat
      BY <2>4, JoinByAppend, SessionAssumption DEF SupersedeWalk, TypeOK, Threads
    <3>2. coalescer'.running
      BY <2>0, <2>4, FireNowFacts DEF SupersedeWalk
    <3>3. epoch' = epoch + 1 /\ epoch' >= epoch
      BY <2>4, Numbers DEF SupersedeWalk
    <3>4. \A g \in DOMAIN tasks : tasks[g].token < epoch'
      <4>1. epoch \in Nat /\ \A g \in DOMAIN tasks : tasks[g].token \in Nat
        BY TaskDomain, Numbers DEF TaskType
      <4> QED
        BY <3>3, <4>1 DEF ScheduleInv, TokenPast
    <3> QED
      BY <2>4, <3>1, <3>2, <3>3, <3>4, ScheduleByJoin DEF SupersedeWalk
  <2>5. CASE TimerThread
    <3>1. CASE TimerExpires
      BY <3>1, ScheduleByStutter DEF TimerExpires
    <3>2. CASE TimerFiresEarly
      BY <2>0, <3>2, TimeoutEarly, ScheduleByStutter DEF TimerFiresEarly
    <3>3. CASE OnRefreshTimerFired
      <4>1. TaskJoins("timer", epoch) /\ epoch \in Nat
        BY <3>3, JoinByAppend, Numbers DEF OnRefreshTimerFired, Threads
      <4>2. coalescer'.running /\ ~coalescer.running
        BY <2>0, <3>3, TimeoutFires DEF OnRefreshTimerFired
      <4>3. epoch' = epoch /\ epoch' >= epoch
        BY <3>3, Numbers DEF OnRefreshTimerFired
      <4>4. \A g \in DOMAIN tasks : Finished(g) \/ tasks[g].token < epoch'
        <5>1. ASSUME NEW g \in DOMAIN tasks, g = Len(tasks) PROVE Finished(g)
          BY <4>2, <5>1 DEF ScheduleInv, RunningMeansInFlight
        <5> QED
          BY <4>3, <5>1 DEF ScheduleInv, OnlySupersededOverlap, Cancelled
      <4> QED
        BY <3>3, <4>1, <4>2, <4>3, <4>4, ScheduleByJoin DEF OnRefreshTimerFired
    <3> QED
      BY <2>5, <3>1, <3>2, <3>3 DEF TimerThread
  <2>6. CASE StartTask
    <3> DEFINE g == Head(queue)
    <3>1. /\ queue \in Seq(Nat \ {0}) /\ queue # <<>> /\ Len(queue) \in Nat \ {0}
          /\ g = queue[1]
          /\ queue' \in Seq(Nat \ {0}) /\ Len(queue') = Len(queue) - 1
          /\ \A i \in 1..Len(queue') : queue'[i] = queue[i + 1]
      BY <2>6, HeadTailProperties, EmptySeq DEF StartTask, TypeOK
    <3>2. g \in DOMAIN tasks /\ tasks[g].step = "queued"
      BY <3>1 DEF ScheduleInv, QueueOK
    <3>3. \A i \in 1..Len(queue') : i + 1 \in 1..Len(queue) /\ i + 1 # 1
      BY <3>1
    <3>4. \A i \in 1..Len(queue') : /\ queue'[i] \in DOMAIN tasks
                                    /\ tasks[queue'[i]].step = "queued" /\ queue'[i] # g
      <4> SUFFICES ASSUME NEW i \in 1..Len(queue')
                   PROVE  /\ queue'[i] \in DOMAIN tasks
                          /\ tasks[queue'[i]].step = "queued" /\ queue'[i] # g
        OBVIOUS
      <4> DEFINE k == i + 1
      <4>1. k \in 1..Len(queue) /\ k # 1 /\ 1 \in 1..Len(queue) /\ queue'[i] = queue[k]
        BY <3>1, <3>3
      <4> HIDE DEF k
      <4> QED
        BY <3>1, <4>1 DEF ScheduleInv, QueueOK
    <3> HIDE DEF g
    <3>5. TaskMove(g, "load")
      BY <2>6, <3>2, MoveByGoto DEF StartTask, TaskStep, g
    <3>6. QueueOK'
      <4>1. \A i, j \in 1..Len(queue') : i # j => queue'[i] # queue'[j]
        <5> SUFFICES ASSUME NEW i \in 1..Len(queue'), NEW j \in 1..Len(queue'), i # j
                     PROVE  queue'[i] # queue'[j]
          OBVIOUS
        <5> DEFINE k == i + 1
                   l == j + 1
        <5>1. /\ k \in 1..Len(queue) /\ l \in 1..Len(queue) /\ k # l
              /\ queue'[i] = queue[k] /\ queue'[j] = queue[l]
          BY <3>1, <3>3
        <5> HIDE DEF k, l
        <5> QED
          BY <5>1 DEF ScheduleInv, QueueOK
      <4> QED
        BY <3>4, <3>5, <4>1 DEF QueueOK, TaskMove
    <3>7. ~Finished(g) /\ "load" \notin EndSteps
      BY <3>2 DEF Finished, EndSteps
    <3> QED
      BY <2>6, <3>2, <3>5, <3>6, <3>7, ScheduleByMove DEF StartTask
  <2>7. ASSUME NEW g \in DOMAIN tasks, Step(g) PROVE ScheduleInv'
    <3> USE DEF EndSteps, Finished
    <3>0. QueueOK /\ g \in Nat \ {0}
      BY TaskDomain DEF ScheduleInv
    <3>1. CASE DispatchRefresh(g)
      <4>1. TaskMove(g, "queued") /\ tasks[g].step = "dispatched"
        BY <3>1, StepMoves DEF DispatchRefresh
      <4>2. /\ Len(queue') = Len(queue) + 1 /\ Len(queue) \in Nat
            /\ \A i \in 1..Len(queue) : queue'[i] = queue[i]
            /\ queue'[Len(queue) + 1] = g
        BY SMTT(20), <3>0, <3>1, AppendProperties DEF DispatchRefresh, TypeOK
      <4>3. \A i \in 1..Len(queue) : queue[i] # g
        BY <3>0, <4>1 DEF QueueOK
      <4>4. \A i \in 1..Len(queue') : i \in 1..Len(queue) \/ i = Len(queue) + 1
        BY <4>2
      <4>5. QueueOK'
        <5>1. \A i, j \in 1..Len(queue') : i # j => queue'[i] # queue'[j]
          BY <3>0, <4>2, <4>3, <4>4 DEF QueueOK
        <5> QED
          BY <3>0, <4>1, <4>2, <4>3, <4>4, <5>1 DEF QueueOK, TaskMove
      <4> QED
        BY <3>1, <4>1, <4>5, ScheduleByMove DEF DispatchRefresh
    <3>2. CASE LoadRefs(g)
      BY <3>0, <3>2, StepMoves, QueueByMove, ScheduleByMove DEF LoadRefs
    <3>3. CASE ReadFails(g)
      BY <3>0, <3>3, StepMoves, QueueByMove, ScheduleByMove DEF ReadFails
    <3>4. CASE PublishRefs(g)
      BY <3>0, <3>4, StepMoves, QueueByMove, ScheduleByMove DEF PublishRefs
    <3>5. CASE RefsSuperseded(g)
      BY <3>0, <3>5, StepMoves, QueueByMove, ScheduleByMove DEF RefsSuperseded
    <3>6. CASE EmitRefsUpdated(g)
      BY <3>0, <3>6, StepMoves, QueueByMove, ScheduleByMove DEF EmitRefsUpdated
    <3>7. CASE ReadFilter(g)
      BY <3>0, <3>7, StepMoves, QueueByMove, ScheduleByMove DEF ReadFilter
    <3>8. ASSUME NEW complete \in BOOLEAN, PublishGraph(g, complete) PROVE ScheduleInv'
      BY <3>0, <3>8, StepMoves, QueueByMove, ScheduleByMove DEF PublishGraph
    <3>9. ASSUME NEW complete \in BOOLEAN, GraphSuperseded(g, complete) PROVE ScheduleInv'
      <4>1. TaskMove(g, AfterChunk(complete)) /\ AfterChunk(complete) \notin EndSteps
        BY <3>9, StepMoves DEF AfterChunk
      <4> QED
        BY <3>0, <3>9, <4>1, QueueByMove, ScheduleByMove DEF GraphSuperseded
    <3>10. CASE EmitGraphUpdated(g)
      <4>1. /\ TaskMove(g, AfterChunk(tasks[g].complete))
            /\ AfterChunk(tasks[g].complete) \notin EndSteps
        BY <3>10, StepMoves DEF AfterChunk
      <4> QED
        BY <3>0, <3>10, <4>1, QueueByMove, ScheduleByMove DEF EmitGraphUpdated
    <3>11. CASE FinishRefresh(g)
      <4> DEFINE step == IF FollowUpOwed(coalescer, g) THEN "rearm" ELSE "done"
      <4>1. TaskMove(g, step) /\ step \in EndSteps /\ tasks[g].step = "finish"
        BY <3>11, StepMoves DEF FinishRefresh
      <4> HIDE DEF step
      <4>2. /\ UNCHANGED <<queue, epoch, requestSeq>>
            /\ coalescer' = OnFinished(coalescer, g)
        BY <3>11 DEF FinishRefresh
      <4>3. QueueOK'
        BY <3>0, <4>1, <4>2, QueueByMove
      <4>4. /\ DOMAIN tasks' = DOMAIN tasks /\ Len(tasks') = Len(tasks)
            /\ DOMAIN tasks = 1..Len(tasks) /\ Len(tasks) \in Nat
            /\ \A h \in DOMAIN tasks : /\ tasks'[h].token = tasks[h].token
                                       /\ tasks'[h].covers = tasks[h].covers
                                       /\ h # g => tasks'[h] = tasks[h]
            /\ tasks'[g].step \in EndSteps
        BY <4>1, TaskDomain DEF TaskMove
      <4>5. tasks # <<>> /\ tasks' # <<>> /\ Len(tasks) \in DOMAIN tasks
        BY <4>4, EmptySeq
      <4>6. TokenPast' /\ OnlySupersededOverlap'
        BY <4>2, <4>4 DEF ScheduleInv, TokenPast, OnlySupersededOverlap, Cancelled
      <4>7. NewestCovers' = NewestCovers
        BY <4>4, <4>5 DEF NewestCovers
      <4>8. CASE g = Len(tasks)
        <5>1. ~coalescer'.running /\ (coalescer.pending => coalescer'.pending)
          BY <2>0, <3>0, <4>2, <4>8, FinishedFacts
        <5>2. RunningMeansInFlight'
          BY <4>4, <4>8, <5>1 DEF RunningMeansInFlight
        <5>3. RequestsAreOwed'
          BY <4>2, <4>7, <5>1 DEF ScheduleInv, RequestsAreOwed
        <5> QED
          BY <4>3, <4>6, <5>2, <5>3 DEF ScheduleInv
      <4>9. CASE g # Len(tasks)
        <5>1. coalescer' = coalescer
          BY <2>0, <3>0, <4>2, <4>9, FinishedFacts
        <5>2. RunningMeansInFlight'
          BY <4>4, <4>5, <4>9, <5>1 DEF ScheduleInv, RunningMeansInFlight
        <5>3. RequestsAreOwed'
          BY <4>2, <4>7, <5>1 DEF ScheduleInv, RequestsAreOwed
        <5> QED
          BY <4>3, <4>6, <5>2, <5>3 DEF ScheduleInv
      <4> QED
        BY <4>8, <4>9
    <3>12. CASE Rearm(g)
      BY <3>0, <3>12, StepMoves, QueueByMove, ScheduleByMove DEF Rearm
    <3> QED
      BY <2>7, <3>1, <3>2, <3>3, <3>4, <3>5, <3>6, <3>7, <3>8, <3>9, <3>10, <3>11, <3>12
         DEF Step
  <2>8. CASE RepoChanges
    BY <2>8, ScheduleByStutter DEF RepoChanges
  <2>9. CASE Tick
    BY <2>0, <2>9, AgeFacts, ScheduleByStutter DEF Tick
  <2>10. CASE UNCHANGED vars
    BY <2>10, ScheduleByStutter DEF vars
  <2> QED
    BY <2>1, <2>2, <2>3, <2>4, <2>5, <2>6, <2>7, <2>8, <2>9, <2>10 DEF Next, Call
<1> QED
  BY <1>1, <1>2, TypeCorrect, PTL DEF Spec

\* running_ is set exactly while the newest generation has not reported back:
\* no terminal path of dispatchRefresh()'s task leaves it set for ever, and no
\* superseded task clears it (RefreshCoalescer::onFinished()).
THEOREM RunningIsInFlight == Spec => []RunningMeansInFlight
BY ScheduleInvariant, PTL DEF ScheduleInv

\* Two refreshes overlap only when setHistoryFilter() cancelled the older one.
THEOREM OverlapOnlySuperseded == Spec => []OnlySupersededOverlap
BY ScheduleInvariant, PTL DEF ScheduleInv

\* A request no dispatch covers is still held by the coalescer, and by its
\* dirty bit while a run is in flight: none is dropped by the state machine.
THEOREM RequestsStayOwed == Spec => []RequestsAreOwed
BY ScheduleInvariant, PTL DEF ScheduleInv

-----------------------------------------------------------------------------
(* The graph SessionRefresh publishes: Dart's view never goes back to an    *)
(* older dispatch, a complete graph is never replaced by a partial one of   *)
(* the same walk, and the newest walk shows the filter the user set last.   *)


\* The graph's generation was published, so it is not newer than the claim.
GraphPublished == graph.generation <= publishedGeneration

\* The walk whose complete graph is published has nothing left to publish.
OverSteps == {"finish", "rearm", "done"}

CompleteIsOver ==
    graph.complete =>
        /\ graph.generation \in DOMAIN tasks
        /\ \/ tasks[graph.generation].step \in OverSteps
           \/ /\ tasks[graph.generation].step = "emitGraph"
              /\ tasks[graph.generation].complete

WalkSteps == {"walk", "emitGraph"}

\* The newest walk runs with the filter in force, unless that filter is just
\* being replaced.
NewestQuery ==
    \A g \in DOMAIN tasks : g = Len(tasks) /\ tasks[g].step \in WalkSteps =>
        tasks[g].query = filter \/ pc[Ffi] = "refiltering"

\* A task that is not yet posted is in the hands of the thread that made it,
\* which holds no other.
PostingOK ==
    /\ \A g \in DOMAIN tasks : tasks[g].step = "dispatched" => pc[tasks[g].by] = "posting"
    /\ \A g, h \in DOMAIN tasks :
          tasks[g].step = "dispatched" /\ tasks[h].step = "dispatched"
          /\ tasks[g].by = tasks[h].by => g = h

\* The inductive invariant: NewestGraphHasFilter speaks of the graph only
\* once published; the others say what the walks in flight will publish.
PublishInv ==
    /\ GraphPublished /\ CompleteIsOver /\ NewestQuery /\ PostingOK
    /\ NewestGraphHasFilter

\* A move of one task keeps the invariant when it leaves graph, filter and
\* threads alone and neither revives a completed walk nor changes the
\* newest walk's filter.
LEMMA PublishByMove ==
    ASSUME TypeOK, PublishInv, NEW g \in DOMAIN tasks, NEW step, TaskMove(g, step),
           step # "dispatched",
           graph.complete /\ g = graph.generation => step \in OverSteps,
           g = Len(tasks) /\ step \in WalkSteps =>
               tasks'[g].query = filter \/ pc[Ffi] = "refiltering",
           UNCHANGED <<graph, publishedGeneration, filter, pc>>,
           coalescer'.generation = coalescer.generation
    PROVE  PublishInv'
<1>1. GraphPublished' /\ NewestGraphHasFilter'
  BY DEF PublishInv, GraphPublished, NewestGraphHasFilter
<1>2. CompleteIsOver'
  BY DEF PublishInv, CompleteIsOver, TaskMove
<1>3. NewestQuery'
  BY DEF PublishInv, NewestQuery, TaskMove
<1>4. PostingOK'
  BY DEF PublishInv, PostingOK, TaskMove
<1> QED
  BY <1>1, <1>2, <1>3, <1>4 DEF PublishInv

\* A dispatch keeps it: the new generation has published nothing yet.
LEMMA PublishByJoin ==
    ASSUME TypeOK, FreshInv, PublishInv, NEW thread \in Threads, NEW token,
           TaskJoins(thread, token), pc[thread] # "posting",
           pc' = [pc EXCEPT ![thread] = "posting"],
           UNCHANGED <<graph, publishedGeneration, filter>>,
           coalescer'.generation = coalescer.generation + 1
    PROVE  PublishInv'
<1>0. pc \in [Threads -> {"idle", "arming", "refiltering", "firing", "posting"}]
      /\ \A g \in DOMAIN tasks : tasks[g].by \in Threads
  BY TaskDomain DEF TypeOK, TaskType
<1> DEFINE new == Len(tasks) + 1
<1>1. /\ DOMAIN tasks = 1..Len(tasks) /\ Len(tasks) \in Nat /\ Len(tasks') = new
      /\ \A h \in DOMAIN tasks : h \in DOMAIN tasks' /\ tasks'[h] = tasks[h] /\ h # new
      /\ \A h \in DOMAIN tasks' : h \in DOMAIN tasks \/ h = new
      /\ tasks'[new].step = "dispatched" /\ tasks'[new].by = thread
  BY TaskDomain DEF TaskJoins, NewTask
<1>2. graph.generation <= Len(tasks) /\ graph.generation \in Nat
  BY <1>1, Numbers DEF PublishInv, GraphPublished, FreshInv, PublishedFresh
<1>3. GraphPublished'
  BY DEF PublishInv, GraphPublished
<1>4. NewestGraphHasFilter'
  BY <1>1, <1>2, Numbers DEF NewestGraphHasFilter
<1> HIDE DEF new
<1>5. CompleteIsOver'
  BY <1>1 DEF PublishInv, CompleteIsOver
<1>6. NewestQuery'
  BY <1>1 DEF NewestQuery, WalkSteps
<1>7. \A h \in DOMAIN tasks : tasks[h].step = "dispatched" => tasks[h].by # thread
  BY DEF PublishInv, PostingOK
<1>8. PostingOK'
  BY <1>0, <1>1, <1>7 DEF PublishInv, PostingOK
<1> QED
  BY <1>3, <1>4, <1>5, <1>6, <1>8 DEF PublishInv

\* A thread's own step, other than posting, keeps it.
LEMMA PublishByThread ==
    ASSUME TypeOK, PublishInv, NEW t \in Threads, NEW step,
           pc[t] \notin {"posting", "refiltering"}, step # "posting",
           pc' = [pc EXCEPT ![t] = step],
           UNCHANGED <<tasks, graph, publishedGeneration>>,
           filter' = filter \/ (t = Ffi /\ step = "refiltering"),
           coalescer'.generation = coalescer.generation
    PROVE  PublishInv'
<1>1. /\ pc \in [Threads -> {"idle", "arming", "refiltering", "firing", "posting"}]
      /\ \A g \in DOMAIN tasks : tasks[g].by \in Threads
      /\ Ffi \in Threads
  BY TaskDomain, SessionAssumption DEF TypeOK, TaskType, Threads
<1>2. /\ pc[Ffi] = "refiltering" => pc'[Ffi] = "refiltering"
      /\ filter' = filter \/ pc'[Ffi] = "refiltering"
      /\ \A u \in Threads : pc[u] = "posting" => pc'[u] = "posting"
  BY <1>1
<1>3. GraphPublished' /\ CompleteIsOver'
  BY DEF PublishInv, GraphPublished, CompleteIsOver, OverSteps
<1>4. NewestQuery' /\ NewestGraphHasFilter'
  BY <1>2 DEF PublishInv, NewestQuery, NewestGraphHasFilter, WalkSteps
<1>5. PostingOK'
  BY <1>1, <1>2 DEF PublishInv, PostingOK
<1> QED
  BY <1>3, <1>4, <1>5 DEF PublishInv

\* A step that leaves tasks, graph, filter and threads alone keeps it.
LEMMA PublishByStutter ==
    ASSUME PublishInv, UNCHANGED <<tasks, graph, publishedGeneration, filter, pc>>,
           coalescer'.generation = coalescer.generation
    PROVE  PublishInv'
BY DEF PublishInv, GraphPublished, CompleteIsOver, NewestQuery, PostingOK,
       NewestGraphHasFilter, OverSteps, WalkSteps

\* The publish invariant holds in every reachable state.
LEMMA PublishInvariant == Spec => []PublishInv
<1>1. Init => PublishInv
  <2> SUFFICES ASSUME Init PROVE PublishInv
    OBVIOUS
  <2>1. tasks = <<>> /\ DOMAIN tasks = {} /\ graph.generation = 0 /\ ~graph.complete
        /\ publishedGeneration = 0 /\ coalescer.generation = 0
    BY DEF Init, NoGraph, NewCoalescer
  <2> QED
    BY <2>1 DEF PublishInv, GraphPublished, CompleteIsOver, NewestQuery, PostingOK,
                NewestGraphHasFilter
<1>2. TypeOK /\ FreshInv /\ ScheduleInv /\ PublishInv /\ [Next]_vars => PublishInv'
  <2> SUFFICES ASSUME TypeOK, FreshInv, ScheduleInv, PublishInv, [Next]_vars
               PROVE  PublishInv'
    OBVIOUS
  <2> USE DEF sessionVars, publishVars, dartVars
  <2>0. /\ coalescer \in CoalescerType /\ Ffi \in Threads /\ "timer" \in Threads
        /\ \A c \in Callers : c \in Threads
    BY SessionAssumption DEF TypeOK, Threads
  <2>1. ASSUME NEW c \in Callers, RefreshHistory(c) PROVE PublishInv'
    <3> DEFINE step == IF coalescer.running THEN "idle" ELSE "arming"
    <3>1. pc' = [pc EXCEPT ![c] = step] /\ pc[c] = "idle" /\ step # "posting"
      BY <2>1 DEF RefreshHistory
    <3>2. coalescer'.generation = coalescer.generation
      BY <2>0, <2>1, RequestFacts DEF RefreshHistory
    <3> HIDE DEF step
    <3> QED
      BY <2>0, <2>1, <3>1, <3>2, PublishByThread DEF RefreshHistory
  <2>2. ASSUME NEW c \in Callers, ArmDelay(c) PROVE PublishInv'
    BY <2>0, <2>2, PublishByThread DEF ArmDelay
  <2>3. CASE SetHistoryFilter
    BY <2>0, <2>3, PublishByThread DEF SetHistoryFilter
  <2>4. CASE SupersedeWalk
    <3>1. TaskJoins(Ffi, epoch + 1)
      BY SMTT(20), <2>4, JoinByAppend, SessionAssumption DEF SupersedeWalk, TypeOK, Threads
    <3>2. coalescer'.generation = coalescer.generation + 1
      BY <2>0, <2>4, FireNowFacts DEF SupersedeWalk
    <3> QED
      BY <2>0, <2>4, <3>1, <3>2, PublishByJoin DEF SupersedeWalk
  <2>5. CASE TimerThread
    <3>1. CASE TimerExpires
      BY <2>0, <3>1, PublishByThread DEF TimerExpires
    <3>2. CASE TimerFiresEarly
      BY <2>0, <3>2, TimeoutEarly, PublishByThread DEF TimerFiresEarly
    <3>3. CASE OnRefreshTimerFired
      <4>1. TaskJoins("timer", epoch)
        BY <2>0, <3>3, JoinByAppend, Numbers DEF OnRefreshTimerFired
      <4>2. coalescer'.generation = coalescer.generation + 1
        BY <2>0, <3>3, TimeoutFires DEF OnRefreshTimerFired
      <4> QED
        BY <2>0, <3>3, <4>1, <4>2, PublishByJoin DEF OnRefreshTimerFired
    <3> QED
      BY <2>5, <3>1, <3>2, <3>3 DEF TimerThread
  <2>6. CASE StartTask
    <3> DEFINE g == Head(queue)
    <3>1. g = queue[1] /\ 1 \in 1..Len(queue)
      BY <2>6, HeadTailProperties, EmptySeq DEF StartTask, TypeOK
    <3>2. g \in DOMAIN tasks /\ tasks[g].step = "queued"
      BY <3>1 DEF ScheduleInv, QueueOK
    <3> HIDE DEF g
    <3>3. TaskMove(g, "load")
      BY <2>6, <3>2, MoveByGoto DEF StartTask, TaskStep, g
    <3>4. ~(graph.complete /\ g = graph.generation) /\ "load" \notin WalkSteps
      BY <3>2 DEF PublishInv, CompleteIsOver, OverSteps, WalkSteps
    <3> QED
      BY <2>6, <3>2, <3>3, <3>4, PublishByMove DEF StartTask
  <2>7. ASSUME NEW g \in DOMAIN tasks, Step(g) PROVE PublishInv'
    <3>0. /\ g \in Nat \ {0} /\ g <= Len(tasks) /\ tasks[g] \in TaskType
          /\ DOMAIN tasks = 1..Len(tasks) /\ Len(tasks) \in Nat
      BY TaskDomain
    <3>a. graph.complete /\ g = graph.generation =>
              \/ tasks[g].step \in OverSteps
              \/ tasks[g].step = "emitGraph" /\ tasks[g].complete
      BY DEF PublishInv, CompleteIsOver
    <3>b. g = Len(tasks) /\ tasks[g].step \in WalkSteps =>
              tasks[g].query = filter \/ pc[Ffi] = "refiltering"
      BY DEF PublishInv, NewestQuery
    <3> USE DEF OverSteps, WalkSteps
    <3>1. CASE DispatchRefresh(g)
      <4>1. /\ TaskMove(g, "queued") /\ tasks[g].step = "dispatched"
            /\ pc' = [pc EXCEPT ![tasks[g].by] = "idle"]
            /\ UNCHANGED <<graph, publishedGeneration, filter, coalescer>>
        BY <3>1, StepMoves DEF DispatchRefresh
      <4>2. /\ pc \in [Threads -> {"idle", "arming", "refiltering", "firing", "posting"}]
            /\ \A h \in DOMAIN tasks : tasks[h].by \in Threads
        BY TaskDomain DEF TypeOK, TaskType
      <4>3. pc[tasks[g].by] = "posting"
        BY <4>1 DEF PublishInv, PostingOK
      <4>4. pc[Ffi] = "refiltering" => pc'[Ffi] = "refiltering"
        BY <2>0, <4>1, <4>2, <4>3
      <4>5. GraphPublished' /\ CompleteIsOver'
        BY <3>a, <4>1 DEF PublishInv, GraphPublished, CompleteIsOver, TaskMove
      <4>6. NewestQuery' /\ NewestGraphHasFilter'
        BY <4>1, <4>4 DEF PublishInv, NewestQuery, NewestGraphHasFilter, TaskMove
      <4>7. PostingOK'
        BY <4>1, <4>2, <4>3 DEF PublishInv, PostingOK, TaskMove
      <4> QED
        BY <4>5, <4>6, <4>7 DEF PublishInv
    <3>2. CASE LoadRefs(g)
      BY <3>2, <3>a, StepMoves, PublishByMove DEF LoadRefs
    <3>3. CASE ReadFails(g)
      BY <3>3, <3>a, StepMoves, PublishByMove DEF ReadFails
    <3>4. CASE PublishRefs(g)
      <4>1. /\ TaskMove(g, "emitRefs") /\ publishedGeneration' = g
            /\ g >= publishedGeneration /\ tasks[g].step = "publish"
            /\ UNCHANGED <<graph, filter, pc, coalescer>>
        BY <3>4, StepMoves DEF PublishRefs, ClaimPublishLocked
      <4>2. GraphPublished'
        BY <3>0, <4>1, Numbers DEF PublishInv, GraphPublished
      <4>3. CompleteIsOver'
        BY <3>a, <4>1 DEF PublishInv, CompleteIsOver, TaskMove
      <4>4. NewestQuery' /\ NewestGraphHasFilter'
        BY <4>1 DEF PublishInv, NewestQuery, NewestGraphHasFilter, TaskMove
      <4>5. PostingOK'
        BY <4>1 DEF PublishInv, PostingOK, TaskMove
      <4> QED
        BY <4>2, <4>3, <4>4, <4>5 DEF PublishInv
    <3>5. CASE RefsSuperseded(g)
      BY <3>5, <3>a, StepMoves, PublishByMove DEF RefsSuperseded
    <3>6. CASE EmitRefsUpdated(g)
      BY <3>6, <3>a, StepMoves, PublishByMove DEF EmitRefsUpdated
    <3>7. CASE ReadFilter(g)
      BY <3>7, <3>a, StepMoves, PublishByMove DEF ReadFilter
    <3>8. ASSUME NEW complete \in BOOLEAN, PublishGraph(g, complete) PROVE PublishInv'
      <4>1. /\ TaskMove(g, "emitGraph") /\ tasks'[g].query = tasks[g].query
            /\ tasks'[g].complete = complete /\ publishedGeneration' = g
            /\ tasks[g].step = "walk"
            /\ graph' = [generation |-> g, filter |-> tasks[g].query, complete |-> complete]
            /\ UNCHANGED <<filter, pc, coalescer>>
        BY <3>8, StepMoves DEF PublishGraph
      <4>2. /\ graph'.generation = g /\ graph'.filter = tasks[g].query
            /\ graph'.complete = complete
        BY <4>1
      <4>3. GraphPublished'
        BY <3>0, <4>1, <4>2 DEF GraphPublished
      <4>4. CompleteIsOver'
        BY <4>1, <4>2 DEF CompleteIsOver, TaskMove
      <4>5. NewestQuery'
        BY <3>b, <4>1 DEF PublishInv, NewestQuery, TaskMove
      <4>6. NewestGraphHasFilter'
        BY <3>b, <4>1, <4>2, Numbers DEF NewestGraphHasFilter
      <4>7. PostingOK'
        BY <4>1 DEF PublishInv, PostingOK, TaskMove
      <4> QED
        BY <4>3, <4>4, <4>5, <4>6, <4>7 DEF PublishInv
    <3>9. ASSUME NEW complete \in BOOLEAN, GraphSuperseded(g, complete) PROVE PublishInv'
      <4>1. /\ TaskMove(g, AfterChunk(complete)) /\ AfterChunk(complete) # "dispatched"
            /\ tasks'[g].query = tasks[g].query /\ tasks[g].step = "walk"
        BY <3>9, StepMoves DEF AfterChunk, GraphSuperseded
      <4> QED
        BY <3>9, <3>a, <3>b, <4>1, PublishByMove DEF GraphSuperseded
    <3>10. CASE EmitGraphUpdated(g)
      <4>1. /\ TaskMove(g, AfterChunk(tasks[g].complete))
            /\ AfterChunk(tasks[g].complete) # "dispatched"
            /\ tasks[g].complete => AfterChunk(tasks[g].complete) = "finish"
            /\ tasks'[g].query = tasks[g].query /\ tasks[g].step = "emitGraph"
        BY <3>10, StepMoves DEF AfterChunk, EmitGraphUpdated
      <4> QED
        BY <3>10, <3>a, <3>b, <4>1, PublishByMove DEF EmitGraphUpdated
    <3>11. CASE FinishRefresh(g)
      <4> DEFINE step == IF FollowUpOwed(coalescer, g) THEN "rearm" ELSE "done"
      <4>1. TaskMove(g, step) /\ step \in {"rearm", "done"}
        BY <3>11, StepMoves
      <4> HIDE DEF step
      <4>2. coalescer'.generation = coalescer.generation
        BY <2>0, <3>0, <3>11, FinishedFacts DEF FinishRefresh
      <4> QED
        BY <3>11, <4>1, <4>2, PublishByMove DEF FinishRefresh
    <3>12. CASE Rearm(g)
      BY <3>12, <3>a, StepMoves, PublishByMove DEF Rearm
    <3> QED
      BY <2>7, <3>1, <3>2, <3>3, <3>4, <3>5, <3>6, <3>7, <3>8, <3>9, <3>10, <3>11, <3>12
         DEF Step
  <2>8. CASE RepoChanges
    BY <2>8, PublishByStutter DEF RepoChanges
  <2>9. CASE Tick
    BY <2>0, <2>9, AgeFacts, PublishByStutter DEF Tick
  <2>10. CASE UNCHANGED vars
    BY <2>10, PublishByStutter DEF vars
  <2> QED
    BY <2>1, <2>2, <2>3, <2>4, <2>5, <2>6, <2>7, <2>8, <2>9, <2>10 DEF Next, Call
<1> QED
  BY <1>1, <1>2, TypeCorrect, FreshInvariant, ScheduleInvariant, PTL DEF Spec

\* Whatever walks overlap, the graph of the newest dispatch was walked with the
\* filter the user set last (setHistoryFilter(), dispatchRefresh()).
THEOREM GraphShowsFilter == Spec => []NewestGraphHasFilter
BY PublishInvariant, PTL DEF PublishInv

\* The snapshots Dart reads never move back to an older dispatch, nor from a
\* complete graph to a partial one of the same walk (claimPublishLocked()).
THEOREM NoRegress == Spec => PublishNeverRegresses
<1> DEFINE Kept == /\ publishedGeneration' >= publishedGeneration
                   /\ graph'.generation >= graph.generation
                   /\ graph.complete /\ graph'.generation = graph.generation
                          => graph'.complete
<1>1. TypeOK /\ FreshInv /\ PublishInv /\ [Next]_vars => [Kept]_vars
  <2> SUFFICES ASSUME TypeOK, FreshInv, PublishInv, [Next]_vars PROVE [Kept]_vars
    OBVIOUS
  <2>1. publishedGeneration \in Nat /\ graph.generation \in Nat
    BY Numbers
  <2>2. CASE UNCHANGED <<publishedGeneration, graph>>
    BY <2>1, <2>2
  <2>3. ASSUME NEW g \in DOMAIN tasks, PublishRefs(g) PROVE Kept
    BY <2>1, <2>3, TaskDomain DEF PublishRefs, ClaimPublishLocked
  <2>4. ASSUME NEW g \in DOMAIN tasks, NEW complete \in BOOLEAN, PublishGraph(g, complete)
        PROVE  Kept
    <3>1. /\ g \in Nat /\ g >= publishedGeneration /\ publishedGeneration' = g
          /\ graph'.generation = g /\ tasks[g].step = "walk"
      BY <2>4, TaskDomain DEF PublishGraph, ClaimPublishLocked
    <3>2. graph.generation <= publishedGeneration
      BY DEF PublishInv, GraphPublished
    <3>3. ~(graph.complete /\ graph.generation = g)
      BY <3>1 DEF PublishInv, CompleteIsOver, OverSteps
    <3> QED
      BY <2>1, <3>1, <3>2, <3>3
  <2>5. \/ UNCHANGED <<publishedGeneration, graph>>
        \/ \E g \in DOMAIN tasks :
              PublishRefs(g) \/ \E complete \in BOOLEAN : PublishGraph(g, complete)
    BY ZenonT(30) DEF Next, Call, TimerThread, Step, vars, sessionVars, publishVars, dartVars,
           RefreshHistory, ArmDelay, SetHistoryFilter, SupersedeWalk, TimerExpires,
           TimerFiresEarly, OnRefreshTimerFired, StartTask, DispatchRefresh, LoadRefs,
           ReadFails, RefsSuperseded, EmitRefsUpdated, ReadFilter, GraphSuperseded,
           EmitGraphUpdated, FinishRefresh, Rearm, RepoChanges, Tick
  <2> QED
    BY <2>2, <2>3, <2>4, <2>5
<1> QED
  BY <1>1, TypeCorrect, FreshInvariant, PublishInvariant, PTL
     DEF Spec, PublishNeverRegresses
=============================================================================
