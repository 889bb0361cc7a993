------------------------------ MODULE PosixChild ------------------------------
(***************************************************************************)
(* PosixChild: one thread pumps all pipes with poll(); terminate() runs on *)
(* that thread or on the one that cancels, each step of it on its own.     *)
(***************************************************************************)
EXTENDS ChildProcess

\* spawn(): the pipes and the process.
PosixSpawn ==
    /\ platform = "posix" /\ proc' = "alive" /\ pid' = TRUE /\ open' = Pipes
    /\ UNCHANGED job

\* The deadline tests at the top of pump()'s loop.  A waiting prompt restarts
\* the idle deadline, and the test that is repeated at once then passes.
PumpCheck ==
    /\ platform = "posix" /\ Place("runner", "pump")
    /\ \/ open = {} /\ Move("runner", "wait") /\ UNCHANGED <<back, flags, idle>>
       \/ /\ open # {} /\ Total > 0 /\ age >= Total
          /\ flags' = [flags EXCEPT !.timedOut = TRUE]
          /\ Move("runner", "terminate") /\ back' = "wait" /\ UNCHANGED idle
       \/ /\ open # {} /\ (Total = 0 \/ age < Total)
          /\ IF Idle > 0 /\ idle >= Idle
             THEN IF IsPromptPending(AskpassDirOf(cmd))
                  THEN idle' = 0 /\ Move("runner", "poll") /\ UNCHANGED <<back, flags>>
                  ELSE /\ flags' = [flags EXCEPT !.timedOut = TRUE]
                       /\ Move("runner", "terminate") /\ back' = "wait"
                       /\ UNCHANGED idle
             ELSE Move("runner", "poll") /\ UNCHANGED <<back, flags, idle>>
    /\ UNCHANGED <<theCommand, theToken, theKill, theChild, thePipes, age, rc, log,
                   outcome, askVars>>

\* What poll() reports: data or hang-up to read, room or an error to write.
Ready ==
    {f \in open \cap {"out", "err"} : f \in full \/ WritersGone}
    \cup {f \in open \cap {"in"} : "in" \notin full \/ proc # "alive"}

\* poll() and the reads and writes after it.  Every byte moved is progress;
\* end of file closes an end; a sink that has seen enough kills git.
PumpPoll ==
    /\ Place("runner", "poll")
    /\ IF killed
       THEN Move("runner", "wait") /\ UNCHANGED <<back, thePipes, idle, flags>>
       ELSE \/ /\ "out" \in Ready \cap full /\ cmd.sinkMayStop
               /\ flags' = [flags EXCEPT !.sinkStopped = TRUE]
               /\ full' = full \ {"out"} /\ idle' = 0
               /\ Move("runner", "terminate") /\ back' = "wait"
               /\ UNCHANGED <<open, stdin>>
            \/ LET moved == (Ready \cap full) \cap {"out", "err"}
                   writes == "in" \in Ready /\ proc = "alive" /\ stdin > 0
                   left == IF writes THEN stdin - 1 ELSE stdin
               IN  /\ full' = (full \ moved) \cup (IF writes THEN {"in"} ELSE {})
                   /\ stdin' = left
                   /\ open' = open \ (((Ready \cap {"out", "err"}) \ moved)
                                \cup (IF "in" \in Ready /\ (left = 0 \/ ~writes)
                                      THEN {"in"} ELSE {}))
                   /\ idle' = IF moved # {} \/ writes THEN 0 ELSE idle
                   /\ Move("runner", "pump") /\ UNCHANGED <<back, flags>>
    /\ UNCHANGED <<theCommand, theToken, theKill, theChild, age, rc, log, outcome,
                   askVars>>

----------------------------------------------------------------------------
\* wait(): a child that terminate() reaped has no status left.
Wait ==
    /\ platform = "posix" /\ Place("runner", "wait")
    /\ IF pid THEN Move("runner", "waitpid") /\ UNCHANGED rc
              ELSE rc' = -1 /\ Move("runner", "report")
    /\ UNCHANGED <<theCommand, back, theToken, theKill, theChild, thePipes, theClock,
                   flags, log, outcome, askVars>>

\* The blocking waitpid(); pid_ still names the child when it returns.
Waitpid ==
    /\ Place("runner", "waitpid") /\ proc # "alive"
    /\ IF proc = "zombie"
       THEN proc' = "free" /\ rc' = exit /\ Move("runner", "reaped")
       ELSE rc' = -1 /\ Move("runner", "report") /\ UNCHANGED proc
    /\ UNCHANGED <<theCommand, back, theToken, theKill, exit, held, chunks, thePipes,
                   theClock, flags, log, outcome, askVars>>

ForgetPid ==
    /\ Place("runner", "reaped") /\ pid' = FALSE /\ Move("runner", "report")
    /\ UNCHANGED <<theCommand, back, theToken, killed, shot, theChild, thePipes, theClock,
                   theResult, askVars>>

----------------------------------------------------------------------------
\* terminate() returns to the pump, or to the callback that cancelled.
Return(t) == Move(t, IF t = "runner" THEN back ELSE "off")

TermLoad(t) ==
    /\ platform = "posix" /\ Place(t, "terminate")
    /\ IF pid THEN killed' = TRUE /\ Move(t, "term") ELSE Return(t) /\ UNCHANGED killed
    /\ UNCHANGED <<theCommand, back, theToken, pid, shot, theChild, thePipes, theClock,
                   theResult, askVars>>

\* kill(), whoever has that pid by now; only SIGKILL cannot be ignored.
Signal(force) ==
    /\ \/ /\ proc = "alive"
          /\ proc' = "zombie" /\ exit' = Signalled /\ MayLeaveHelper
       \/ (proc # "alive" \/ ~force) /\ UNCHANGED <<proc, exit, held>>
    /\ shot' = (shot \/ proc = "foreign")

TermKill(t) ==
    /\ Place(t, "term") /\ Signal(FALSE) /\ Move(t, "reap")
    /\ UNCHANGED <<theCommand, back, theToken, pid, killed, chunks, thePipes, theClock,
                   theResult, askVars>>

\* waitpid(WNOHANG), up to thirty times: a child still alive then is killed.
TermReap(t) ==
    /\ Place(t, "reap")
    /\ IF proc = "alive"
       THEN Move(t, "force") /\ UNCHANGED <<pid, proc>>
       ELSE /\ pid' = FALSE /\ Return(t)
            /\ proc' = IF proc = "zombie" THEN "free" ELSE proc
    /\ UNCHANGED <<theCommand, back, theToken, killed, shot, exit, held, chunks, thePipes,
                   theClock, theResult, askVars>>

TermForce(t) ==
    /\ Place(t, "force") /\ Signal(TRUE) /\ Return(t)
    /\ UNCHANGED <<theCommand, back, theToken, pid, killed, chunks, thePipes, theClock,
                   theResult, askVars>>

Terminate(t) == TermLoad(t) \/ TermKill(t) \/ TermReap(t) \/ TermForce(t)

PosixRunner == PumpCheck \/ PumpPoll \/ Wait \/ Waitpid \/ ForgetPid \/ Terminate("runner")
===============================================================================
