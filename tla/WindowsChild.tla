----------------------------- MODULE WindowsChild -----------------------------
(***************************************************************************)
(* WindowsChild: stdout is read on the runner with blocking reads, stderr  *)
(* and stdin have helper threads, and a watchdog thread holds the          *)
(* deadlines.  A thread blocked in a pipe is freed by the other end or by  *)
(* CancelSynchronousIo(); pump() joins every thread before it returns.     *)
(***************************************************************************)
EXTENDS ChildProcess

\* spawn(): git is put in a job object before it runs, where that can be done.
WinSpawn ==
    /\ platform = "windows" /\ proc' = "alive" /\ pid' = TRUE /\ open' = Pipes
    /\ job' \in BOOLEAN

\* A read of f has something to return; otherwise it blocks.
Readable(f) == f \in full \/ WritersGone

\* terminate(): the job reaches git's helpers too, the process handle only git.
WinTerminate ==
    /\ killed' = TRUE
    /\ proc' = IF proc = "alive" THEN "zombie" ELSE proc
    /\ exit' = IF proc = "alive" THEN Signalled ELSE exit
    /\ IF job THEN held' = FALSE
       ELSE \/ proc = "alive" /\ MayLeaveHelper
            \/ proc # "alive" /\ UNCHANGED held
    /\ UNCHANGED <<pid, shot, chunks>>

\* pump() starts its helpers and the watchdog, which every command gets: the
\* deadlines are never both zero.
WinPumpStarts ==
    /\ platform = "windows" /\ Place("runner", "pump")
    /\ at' = [at EXCEPT !["runner"] = "read", !["errPump"] = "read",
                        !["inPump"] = IF "in" \in open THEN "write" ELSE "off",
                        !["watchdog"] = IF Total > 0 \/ Idle > 0 THEN "watch" ELSE "off"]
    /\ idle' = 0
    /\ UNCHANGED <<theCommand, back, theToken, theKill, theChild, thePipes, age,
                   theResult, askVars>>

\* The stdout loop: its own deadline test, then a read that returns a chunk
\* or, at end of file, ends the loop.  A sink that has seen enough kills git.
WinReadLate ==
    /\ Place("runner", "read") /\ Total > 0 /\ age > Total
    /\ flags' = [flags EXCEPT !.timedOut = TRUE]
    /\ WinTerminate /\ Move("runner", "joinErr")
    /\ UNCHANGED <<theCommand, back, theToken, thePipes, theClock, rc, log, outcome,
                   askVars>>

WinReadStops ==
    /\ Place("runner", "read") /\ "out" \in full /\ cmd.sinkMayStop
    /\ flags' = [flags EXCEPT !.sinkStopped = TRUE]
    /\ full' = full \ {"out"} /\ idle' = 0
    /\ WinTerminate /\ Move("runner", "joinErr")
    /\ UNCHANGED <<theCommand, back, theToken, open, stdin, age, rc, log, outcome,
                   askVars>>

WinRead ==
    /\ Place("runner", "read") /\ Readable("out")
    /\ IF "out" \in full
       THEN full' = full \ {"out"} /\ idle' = 0 /\ UNCHANGED at
       ELSE Move("runner", "joinErr") /\ UNCHANGED <<full, idle>>
    /\ UNCHANGED <<theCommand, back, theToken, theKill, theChild, open, stdin, age,
                   theResult, askVars>>

\* The stderr helper.
ErrPump ==
    /\ Place("errPump", "read") /\ Readable("err")
    /\ IF "err" \in full
       THEN full' = full \ {"err"} /\ idle' = 0 /\ UNCHANGED at
       ELSE Move("errPump", "ended") /\ UNCHANGED <<full, idle>>
    /\ UNCHANGED <<theCommand, back, theToken, theKill, theChild, open, stdin, age,
                   theResult, askVars>>

\* The stdin helper: writes while git takes it, then closes the pipe.
InPump ==
    /\ Place("inPump", "write")
    /\ "in" \notin full \/ proc # "alive"
    /\ IF proc = "alive" /\ stdin > 0
       THEN /\ full' = full \cup {"in"} /\ stdin' = stdin - 1 /\ idle' = 0
            /\ UNCHANGED <<at, open>>
       ELSE /\ open' = open \ {"in"} /\ Move("inPump", "ended")
            /\ UNCHANGED <<full, stdin, idle>>
    /\ UNCHANGED <<theCommand, back, theToken, theKill, theChild, age, theResult, askVars>>

----------------------------------------------------------------------------
\* The watchdog: leaves when the pump is done, or acts on a deadline.  A
\* waiting prompt pushes the idle one out.
WatchDeadlines ==
    /\ Place("watchdog", "watch")
    /\ \/ /\ Total > 0 /\ age >= Total
          /\ flags' = [flags EXCEPT !.timedOut = TRUE]
          /\ WinTerminate /\ Move("watchdog", "unblock") /\ UNCHANGED idle
       \/ /\ (Total = 0 \/ age < Total) /\ Idle > 0 /\ idle >= Idle
          /\ IF IsPromptPending(AskpassDirOf(cmd))
             THEN idle' = 0 /\ UNCHANGED <<at, flags, theKill, theChild>>
             ELSE /\ flags' = [flags EXCEPT !.timedOut = TRUE]
                  /\ WinTerminate /\ Move("watchdog", "unblock") /\ UNCHANGED idle
       \/ /\ (Total = 0 \/ age < Total) /\ (Idle = 0 \/ idle < Idle)
          /\ flags.pumpDone /\ Move("watchdog", "ended")
          /\ UNCHANGED <<flags, idle, theKill, theChild>>
    /\ UNCHANGED <<theCommand, back, theToken, thePipes, age, rc, log, outcome, askVars>>

\* After a kill it cancels the runner's blocked read until the pump is done.
WatchUnblocks ==
    /\ Place("watchdog", "unblock")
    /\ \/ flags.pumpDone /\ Move("watchdog", "ended")
       \/ ~flags.pumpDone /\ Place("runner", "read") /\ ~Readable("out")
          /\ Move("runner", "joinErr")
    /\ UNCHANGED <<theCommand, back, theToken, theKill, theChild, thePipes, theClock,
                   theResult, askVars>>

\* cancelBlockedIoAndJoin(): waits; once git was killed, cancels the helper's
\* blocked read or write, which makes the helper return.
CancelBlockedIoAndJoin(t, from, to) ==
    /\ Place("runner", from)
    /\ \/ at[t] \in {"off", "ended"} /\ Move("runner", to)
       \/ at[t] \in {"read", "write"} /\ killed /\ Move(t, "ended")
    /\ UNCHANGED <<theCommand, back, theToken, theKill, theChild, thePipes, theClock,
                   theResult, askVars>>

\* The end of pump(): the watchdog is told, joined, and its verdict published.
WinPumpEnds ==
    /\ Place("runner", "setDone") /\ ~flags.pumpDone
    /\ flags' = [flags EXCEPT !.pumpDone = TRUE]
    /\ UNCHANGED <<theCommand, at, back, theToken, theKill, theChild, thePipes, theClock,
                   rc, log, outcome, askVars>>

WinJoinWatchdog ==
    /\ Place("runner", "setDone") /\ flags.pumpDone
    /\ at["watchdog"] \in {"off", "ended"} /\ Move("runner", "wait")
    /\ UNCHANGED <<theCommand, back, theToken, theKill, theChild, thePipes, theClock,
                   theResult, askVars>>

\* wait(): the process handle keeps the exit code, 1 for a killed git.
WinWait ==
    /\ platform = "windows" /\ Place("runner", "wait") /\ proc # "alive"
    /\ rc' = (IF exit = Signalled THEN 1 ELSE exit) /\ Move("runner", "report")
    /\ UNCHANGED <<theCommand, back, theToken, theKill, theChild, thePipes, theClock,
                   flags, log, outcome, askVars>>

\* terminate() on behalf of a cancelled token.
WinCancelled(t) ==
    /\ platform = "windows" /\ Place(t, "terminate")
    /\ WinTerminate /\ Move(t, IF t = "runner" THEN back ELSE "off")
    /\ UNCHANGED <<theCommand, back, theToken, thePipes, theClock, theResult, askVars>>

WindowsRunner ==
    \/ WinPumpStarts \/ WinReadLate \/ WinReadStops \/ WinRead
    \/ CancelBlockedIoAndJoin("errPump", "joinErr", "joinIn")
    \/ CancelBlockedIoAndJoin("inPump", "joinIn", "setDone")
    \/ WinPumpEnds \/ WinJoinWatchdog \/ WinWait \/ WinCancelled("runner")
WindowsHelpers == ErrPump \/ InPump \/ WatchDeadlines \/ WatchUnblocks
===============================================================================
