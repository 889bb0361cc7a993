------------------------- MODULE SessionCloseProofs -------------------------
(***************************************************************************)
(* ~Session() leaves nothing behind that holds the session, for any number *)
(* of sessions, pool workers and posted tasks.                             *)
(*                                                                         *)
(* NoUseAfterFree speaks of the last phase only. CloseInv says what each   *)
(* step of ~Session() has settled for good: after drain() no callback runs *)
(* that could post or arm; after stop() and join no timer posts; only then *)
(* does discarding the queue leave no task of the session, and waiting for *)
(* the active ones end the last.                                           *)
(***************************************************************************)
EXTENDS SessionClose, SequenceTheorems, TLAPS

OperationsOver == {"timer", "join", "pool", "waiting", "freed"}
TimerStopped   == {"join", "pool", "waiting", "freed"}
TimerJoined    == {"pool", "waiting", "freed"}

\* The inductive invariant: what each phase of ~Session() guarantees.
CloseInv ==
    \A s \in Sessions :
        /\ phase[s] \in OperationsOver => ops[s] = <<>> /\ worker[s] = "idle"
        /\ phase[s] \in TimerStopped => ~timer[s].running
        /\ phase[s] \in TimerJoined => timer[s].thread = "exited"
        /\ phase[s] \in {"waiting", "freed"} => ~Queued(s)
        /\ phase[s] = "freed" => ~Running(s)

-----------------------------------------------------------------------------
(* What the pool's queue operations do to its contents *)

\* post() and postFront() add the poster's task and lose none.
LEMMA PostAdds ==
    ASSUME NEW s \in Sessions, TypeOK, Post(s)
    PROVE  /\ tasks' \in Seq(Sessions) /\ active' = active
           /\ awake' \subseteq Workers /\ posts' \in Nat
           /\ \A i \in DOMAIN tasks' : tasks'[i] = s \/ \E j \in DOMAIN tasks : tasks'[i] = tasks[j]
<1>1. tasks \in Seq(Sessions) BY DEF TypeOK
<1>2. awake' \subseteq Workers /\ posts' \in Nat
  BY DEF Post, WakeOne, TypeOK
<1>3. CASE tasks' = Append(tasks, s)
  <2>1. tasks' \in Seq(Sessions) BY <1>1, <1>3
  <2>2. ASSUME NEW i \in DOMAIN tasks'
        PROVE  tasks'[i] = s \/ \E j \in DOMAIN tasks : tasks'[i] = tasks[j]
    BY <1>1, <1>3
  <2> QED BY <1>2, <2>1, <2>2 DEF Post
<1>4. CASE tasks' = <<s>> \o tasks
  <2>1. tasks' \in Seq(Sessions) BY <1>1, <1>4
  <2>2. ASSUME NEW i \in DOMAIN tasks'
        PROVE  tasks'[i] = s \/ \E j \in DOMAIN tasks : tasks'[i] = tasks[j]
    <3>1. i \in 1..(1 + Len(tasks)) BY <1>1, <1>4
    <3>2. CASE i = 1 BY <1>1, <1>4, <3>2
    <3>3. CASE i # 1
      <4>1. i - 1 \in DOMAIN tasks BY <1>1, <3>1, <3>3
      <4>2. tasks'[i] = tasks[i - 1] BY <1>1, <1>4, <3>1, <3>3
      <4> QED BY <4>1, <4>2
    <3> QED BY <3>2, <3>3
  <2> QED BY <1>2, <2>1, <2>2 DEF Post
<1> QED BY <1>3, <1>4 DEF Post

\* A session that did not post has no task in the queue that it had not before.
LEMMA PostKeepsOthers ==
    ASSUME NEW s \in Sessions, NEW t \in Sessions, TypeOK, Post(s), t # s, ~Queued(t)
    PROVE  ~Queued(t)'
BY PostAdds DEF Queued

\* arm() sets armed_ alone, and only of a timer that was not stopped.
LEMMA ArmKeeps ==
    ASSUME NEW s \in Sessions, TypeOK, Arm(s)
    PROVE  /\ timer' \in [Sessions -> [running : BOOLEAN, armed : BOOLEAN,
                                        thread : {"waiting", "firing", "exited"}]]
           /\ \A t \in Sessions : timer'[t].armed => timer'[t].running
           /\ \A t \in Sessions : /\ timer'[t].running = timer[t].running
                                  /\ timer'[t].thread = timer[t].thread
BY DEF Arm, TypeOK

\* A worker takes the head of the queue and leaves the rest.
LEMMA TakeMoves ==
    ASSUME TypeOK, tasks # <<>>, tasks' = Tail(tasks)
    PROVE  /\ tasks' \in Seq(Sessions) /\ Head(tasks) \in Sessions /\ Queued(Head(tasks))
           /\ \A i \in DOMAIN tasks' : \E j \in DOMAIN tasks : tasks'[i] = tasks[j]
<1>1. tasks \in Seq(Sessions) BY DEF TypeOK
<1>2. tasks' \in Seq(Sessions) /\ Head(tasks) \in Sessions BY <1>1
<1>3. Head(tasks) = tasks[1] /\ 1 \in DOMAIN tasks BY <1>1
<1>4. ASSUME NEW i \in DOMAIN tasks'
      PROVE  \E j \in DOMAIN tasks : tasks'[i] = tasks[j]
  <2>1. i + 1 \in DOMAIN tasks /\ tasks'[i] = tasks[i + 1] BY <1>1
  <2> QED BY <2>1
<1> QED BY <1>2, <1>3, <1>4 DEF Queued
-----------------------------------------------------------------------------

\* Every step keeps the types, and a stopped timer disarmed.
LEMMA TypePreserved == TypeOK /\ [Next]_vars => TypeOK'
<1> SUFFICES ASSUME TypeOK, [Next]_vars PROVE TypeOK'
  OBVIOUS
<1>1. ASSUME NEW s \in Sessions, Use(s) PROVE TypeOK'
  <2>1. CASE FfiPosts(s) BY <2>1, PostAdds DEF FfiPosts, sessionVars, TypeOK
  <2>2. CASE FfiRefreshes(s) BY <2>2 DEF FfiRefreshes, Arm, poolVars, TypeOK
  <2>3. CASE FfiSubmits(s) BY <2>3 DEF FfiSubmits, poolVars, TypeOK, OpKinds
  <2> QED BY <1>1, <2>1, <2>2, <2>3 DEF Use
<1>2. ASSUME NEW s \in Sessions, Operate(s) PROVE TypeOK'
  <2>1. CASE OperationStarts(s)
    <3>1. ops[s] \in Seq(OpKinds) /\ ops[s] # <<>> BY <2>1 DEF OperationStarts, TypeOK
    <3>2. Head(ops[s]) \in OpKinds /\ Tail(ops[s]) \in Seq(OpKinds) BY <3>1
    <3> QED BY <2>1, <3>2 DEF OperationStarts, poolVars, TypeOK
  <2>2. CASE OperationDone(s) BY <2>2 DEF OperationDone, poolVars, TypeOK
  <2>3. CASE CallbackPosts(s) BY <2>3, PostAdds DEF CallbackPosts, sessionVars, TypeOK
  <2>4. CASE CallbackRefreshes(s) BY <2>4 DEF CallbackRefreshes, Arm, poolVars, TypeOK
  <2>5. CASE CallbackSubmits(s) BY <2>5 DEF CallbackSubmits, poolVars, TypeOK, OpKinds
  <2>6. CASE CallbackReturns(s) BY <2>6 DEF CallbackReturns, poolVars, TypeOK
  <2> QED BY <1>2, <2>1, <2>2, <2>3, <2>4, <2>5, <2>6 DEF Operate
<1>3. ASSUME NEW s \in Sessions, Fire(s) PROVE TypeOK'
  <2>1. CASE TimerExpires(s) BY ZenonT(30), <2>1 DEF TimerExpires, poolVars, TypeOK
  <2>2. CASE TimerPosts(s) BY ZenonT(30), <2>2, PostAdds DEF TimerPosts, TypeOK
  <2>3. CASE TimerDeclines(s) BY ZenonT(30), <2>3 DEF TimerDeclines, poolVars, TypeOK
  <2>4. CASE TimerThreadEnds(s) BY ZenonT(30), <2>4 DEF TimerThreadEnds, poolVars, TypeOK
  <2> QED BY <1>3, <2>1, <2>2, <2>3, <2>4 DEF Fire
<1>4. ASSUME NEW s \in Sessions, Close(s) PROVE TypeOK'
  <2> USE <1>4 DEF ClosePhase, sessionVars, poolVars, TypeOK, Phases
  <2>1. CASE CloseBegins(s) BY <2>1 DEF CloseBegins
  <2>2. CASE DrainOperations(s) BY <2>2 DEF DrainOperations
  <2>3. CASE StopTimer(s) BY ZenonT(30), <2>3 DEF StopTimer
  <2>4. CASE JoinTimer(s) BY <2>4 DEF JoinTimer
  <2>5. CASE DiscardQueued(s)
    <3>1. phase' \in [Sessions -> Phases]
      <4>1. CASE NoActive BY <2>5, <4>1 DEF DiscardQueued
      <4>2. CASE ~NoActive BY <2>5, <4>2 DEF DiscardQueued
      <4> QED BY <4>1, <4>2
    <3>2. tasks' = <<>> /\ notified' = FALSE BY <2>5 DEF DiscardQueued
    <3>3. tasks' \in Seq(Sessions) BY <3>2
    <3>4. notified' \in BOOLEAN BY <3>2
    <3> QED BY <2>5, <3>1, <3>3, <3>4 DEF DiscardQueued
  <2>6. CASE PoolDrained(s) BY <2>6 DEF PoolDrained
  <2>7. CASE SleepsAgain(s) BY <2>7 DEF SleepsAgain
  <2> QED BY <2>1, <2>2, <2>3, <2>4, <2>5, <2>6, <2>7 DEF Close
<1>5. ASSUME NEW w \in Workers, Serve(w) PROVE TypeOK'
  <2>1. CASE PoolSleeps(w) BY <2>1 DEF PoolSleeps, sessionVars, TypeOK
  <2>2. CASE PoolTakes(w) BY <2>2, TakeMoves DEF PoolTakes, sessionVars, TypeOK
  <2>3. CASE TaskRearms(w)
    <3>1. active[w] \in Sessions BY <2>3 DEF TaskRearms, TypeOK
    <3> QED BY <2>3, <3>1, ArmKeeps DEF TaskRearms, poolVars, TypeOK
  <2>4. CASE TaskEnds(w) BY <2>4 DEF TaskEnds, NotifyIdle, sessionVars, TypeOK
  <2> QED BY <1>5, <2>1, <2>2, <2>3, <2>4 DEF Serve
<1>6. CASE UNCHANGED vars BY <1>6 DEF vars, sessionVars, poolVars, TypeOK
<1> QED BY <1>1, <1>2, <1>3, <1>4, <1>5, <1>6 DEF Next

\* The state keeps its types, and a stopped DelayTimer is never armed again,
\* however late finishRefresh() or a callback calls arm().
THEOREM CloseTypeCorrect == Spec => []TypeOK
<1>1. Init => TypeOK
  <2> SUFFICES ASSUME Init PROVE TypeOK
    OBVIOUS
  <2>1. phase \in [Sessions -> Phases] BY DEF Init, Phases
  <2>2. /\ ops \in [Sessions -> Seq(OpKinds)]
        /\ worker \in [Sessions -> OpKinds \cup {"idle", "callback"}]
    BY DEF Init
  <2>3. /\ timer \in [Sessions -> [running : BOOLEAN, armed : BOOLEAN,
                                    thread : {"waiting", "firing", "exited"}]]
        /\ \A s \in Sessions : timer[s].armed => timer[s].running
    BY DEF Init
  <2>4. tasks \in Seq(Sessions) /\ active \in [Workers -> Sessions \cup {None}]
    BY DEF Init
  <2>5. awake \subseteq Workers /\ notified \in BOOLEAN /\ posts \in Nat BY DEF Init
  <2> QED BY <2>1, <2>2, <2>3, <2>4, <2>5 DEF TypeOK
<1> QED BY <1>1, TypePreserved, PTL DEF Spec
-----------------------------------------------------------------------------

\* An arm() by session s disturbs nothing CloseInv says.
LEMMA ArmPreserves ==
    ASSUME NEW s \in Sessions, TypeOK, CloseInv, Arm(s),
           UNCHANGED <<phase, ops, worker, poolVars, notified>>
    PROVE  CloseInv'
<1>1. \A t \in Sessions : /\ timer'[t].running = timer[t].running
                          /\ timer'[t].thread = timer[t].thread
  BY ArmKeeps
<1> QED BY <1>1 DEF CloseInv, Queued, Running, poolVars

\* A task posted for a session that has not reached the pool's drain
\* disturbs nothing CloseInv says.
LEMMA PostPreserves ==
    ASSUME NEW s \in Sessions, TypeOK, CloseInv, Post(s), phase' = phase,
           phase[s] \notin {"waiting", "freed"}
    PROVE  /\ \A t \in Sessions : phase'[t] \in {"waiting", "freed"} => ~Queued(t)'
           /\ \A t \in Sessions : phase'[t] = "freed" => ~Running(t)'
<1>1. ASSUME NEW t \in Sessions, phase'[t] \in {"waiting", "freed"} PROVE ~Queued(t)'
  BY <1>1, PostKeepsOthers DEF CloseInv
<1>2. ASSUME NEW t \in Sessions, phase'[t] = "freed" PROVE ~Running(t)'
  <2>1. active' = active BY PostAdds
  <2> QED BY <1>2, <2>1 DEF CloseInv, Running
<1> QED BY <1>1, <1>2

\* Every step of every thread keeps what the phases have settled.
LEMMA ClosePreserved == TypeOK /\ CloseInv /\ [Next]_vars => CloseInv'
<1> SUFFICES ASSUME TypeOK, CloseInv, [Next]_vars PROVE CloseInv'
  OBVIOUS
<1> USE DEF OperationsOver, TimerStopped, TimerJoined
<1>1. ASSUME NEW s \in Sessions, Use(s) PROVE CloseInv'
  <2>1. CASE FfiPosts(s)
    <3>1. /\ \A t \in Sessions : phase'[t] \in {"waiting", "freed"} => ~Queued(t)'
          /\ \A t \in Sessions : phase'[t] = "freed" => ~Running(t)'
      BY <2>1, PostPreserves DEF FfiPosts
    <3> QED BY <2>1, <3>1 DEF FfiPosts, sessionVars, CloseInv
  <2>2. CASE FfiRefreshes(s) BY <2>2, ArmPreserves DEF FfiRefreshes
  <2>3. CASE FfiSubmits(s)
    BY <2>3 DEF FfiSubmits, poolVars, CloseInv, Queued, Running, TypeOK
  <2> QED BY <1>1, <2>1, <2>2, <2>3 DEF Use
<1>2. ASSUME NEW s \in Sessions, Operate(s) PROVE CloseInv'
  <2>1. CASE OperationStarts(s)
    BY <2>1 DEF OperationStarts, poolVars, CloseInv, Queued, Running, TypeOK
  <2>2. CASE OperationDone(s)
    BY <2>2 DEF OperationDone, OpKinds, poolVars, CloseInv, Queued, Running, TypeOK
  <2>3. CASE CallbackPosts(s)
    <3>1. phase[s] \notin {"waiting", "freed"} BY <2>3 DEF CallbackPosts, CloseInv
    <3>2. /\ \A t \in Sessions : phase'[t] \in {"waiting", "freed"} => ~Queued(t)'
          /\ \A t \in Sessions : phase'[t] = "freed" => ~Running(t)'
      BY <2>3, <3>1, PostPreserves DEF CallbackPosts
    <3> QED BY <2>3, <3>2 DEF CallbackPosts, sessionVars, CloseInv
  <2>4. CASE CallbackRefreshes(s) BY <2>4, ArmPreserves DEF CallbackRefreshes
  <2>5. CASE CallbackSubmits(s)
    BY <2>5 DEF CallbackSubmits, poolVars, CloseInv, Queued, Running, TypeOK
  <2>6. CASE CallbackReturns(s)
    BY <2>6 DEF CallbackReturns, poolVars, CloseInv, Queued, Running, TypeOK
  <2> QED BY <1>2, <2>1, <2>2, <2>3, <2>4, <2>5, <2>6 DEF Operate
<1>3. ASSUME NEW s \in Sessions, Fire(s) PROVE CloseInv'
  <2>1. CASE TimerExpires(s)
    BY <2>1 DEF TimerExpires, poolVars, CloseInv, Queued, Running, TypeOK
  <2>2. CASE TimerPosts(s)
    <3>1. phase[s] \notin {"pool", "waiting", "freed"} BY <2>2 DEF TimerPosts, CloseInv
    <3>2. /\ \A t \in Sessions : phase'[t] \in {"waiting", "freed"} => ~Queued(t)'
          /\ \A t \in Sessions : phase'[t] = "freed" => ~Running(t)'
      BY <2>2, <3>1, PostPreserves DEF TimerPosts
    <3>3. \A t \in Sessions : /\ timer'[t].running = timer[t].running
                              /\ t # s => timer'[t] = timer[t]
      BY <2>2 DEF TimerPosts, TypeOK
    <3> QED BY <2>2, <3>1, <3>2, <3>3 DEF TimerPosts, CloseInv
  <2>3. CASE TimerDeclines(s)
    BY <2>3 DEF TimerDeclines, poolVars, CloseInv, Queued, Running, TypeOK
  <2>4. CASE TimerThreadEnds(s)
    BY <2>4 DEF TimerThreadEnds, poolVars, CloseInv, Queued, Running, TypeOK
  <2> QED BY <1>3, <2>1, <2>2, <2>3, <2>4 DEF Fire
<1>4. ASSUME NEW s \in Sessions, Close(s) PROVE CloseInv'
  <2> USE DEF ClosePhase, sessionVars, poolVars, CloseInv, Queued, Running, TypeOK
  <2>1. CASE CloseBegins(s) BY <2>1 DEF CloseBegins
  <2>2. CASE DrainOperations(s) BY <2>2 DEF DrainOperations, OperationsDrained
  <2>3. CASE StopTimer(s) BY <2>3 DEF StopTimer
  <2>4. CASE JoinTimer(s) BY <2>4 DEF JoinTimer
  <2>5. CASE DiscardQueued(s)
    <3>1. \A t \in Sessions : ~Queued(t)' BY <2>5 DEF DiscardQueued
    <3>2. CASE NoActive
      <4>1. \A t \in Sessions : ~Running(t)'
        BY <2>5, <3>2, CloseAssumption DEF DiscardQueued, NoActive
      <4> QED BY <2>5, <3>1, <3>2, <4>1 DEF DiscardQueued
    <3>3. CASE ~NoActive BY <2>5, <3>1, <3>3 DEF DiscardQueued
    <3> QED BY <3>2, <3>3
  <2>6. CASE PoolDrained(s)
    <3>1. \A t \in Sessions : ~Running(t)'
      BY <2>6, CloseAssumption DEF PoolDrained, NoActive
    <3> QED BY <2>6, <3>1 DEF PoolDrained
  <2>7. CASE SleepsAgain(s) BY <2>7 DEF SleepsAgain
  <2> QED BY <1>4, <2>1, <2>2, <2>3, <2>4, <2>5, <2>6, <2>7 DEF Close
<1>5. ASSUME NEW w \in Workers, Serve(w) PROVE CloseInv'
  <2>1. CASE PoolSleeps(w)
    BY <2>1 DEF PoolSleeps, sessionVars, CloseInv, Queued, Running
  <2>2. CASE PoolTakes(w)
    <3>1. ASSUME NEW t \in Sessions, phase[t] \in {"waiting", "freed"} PROVE ~Queued(t)'
      BY <2>2, <3>1, TakeMoves DEF PoolTakes, CloseInv, Queued
    <3>2. ASSUME NEW t \in Sessions, phase[t] = "freed" PROVE ~Running(t)'
      <4>1. ~Queued(t) /\ ~Running(t) BY <3>2 DEF CloseInv
      <4>2. Head(tasks) # t BY <2>2, <4>1, TakeMoves DEF PoolTakes
      <4> QED BY <2>2, <4>1, <4>2 DEF PoolTakes, Running, TypeOK
    <3> QED BY <2>2, <3>1, <3>2 DEF PoolTakes, sessionVars, CloseInv
  <2>3. CASE TaskRearms(w)
    <3>1. active[w] \in Sessions BY <2>3 DEF TaskRearms, TypeOK
    <3> QED BY <2>3, <3>1, ArmPreserves DEF TaskRearms
  <2>4. CASE TaskEnds(w)
    <3>1. \A t \in Sessions : ~Running(t) => ~Running(t)'
      BY <2>4, CloseAssumption DEF TaskEnds, Running, TypeOK
    <3> QED BY <2>4, <3>1 DEF TaskEnds, sessionVars, CloseInv, Queued
  <2> QED BY <1>5, <2>1, <2>2, <2>3, <2>4 DEF Serve
<1>6. CASE UNCHANGED vars
  BY <1>6 DEF vars, sessionVars, poolVars, CloseInv, Queued, Running
<1> QED BY <1>1, <1>2, <1>3, <1>4, <1>5, <1>6 DEF Next

\* Once ~Session() has returned, no pool task, operation, callback or timer
\* thread that holds the session is left, however many sessions share the
\* pool and keep posting to it.
THEOREM NothingOutlivesSession == Spec => []NoUseAfterFree
<1>1. Init => CloseInv
  BY DEF Init, CloseInv, OperationsOver, TimerStopped, TimerJoined
<1>2. CloseInv => NoUseAfterFree
  BY DEF CloseInv, NoUseAfterFree, OperationsOver, TimerStopped, TimerJoined
<1> QED BY <1>1, <1>2, CloseTypeCorrect, ClosePreserved, PTL DEF Spec
=============================================================================
