---------------------------- MODULE ProcessRunner ----------------------------
(***************************************************************************)
(* ProcessRunner::execute() and the cancellation token it listens to.  The *)
(* runner spawns git, registers a kill callback, pumps, waits, unregisters *)
(* and reports; another thread may cancel at any moment.                   *)
(***************************************************************************)
EXTENDS PosixChild, WindowsChild

\* The state of a call before execute() is entered.
Idling == at["runner"] = "off" /\ outcome = "none"

\* execute() entered, with the command that asks git for progress.  Nothing is
\* spawned or logged for a token that is already cancelled.
Execute(c) ==
    /\ cmd' = WithTransferProgress(c)
    /\ IF token.cancelled
       THEN outcome' = "cancelled" /\ UNCHANGED at
       ELSE Move("runner", "spawn") /\ UNCHANGED outcome
    /\ UNCHANGED <<load, job, back, theToken, theKill, theChild, thePipes, theClock,
                   flags, rc, log>>

\* recordRunning() and recordOperation().
Record(running, code, cancelled, benign) ==
    log' = Append(log, [running |-> running, rc |-> code, cancelled |-> cancelled,
                        timedOut |-> flags.timedOut, benign |-> benign])

\* spawn() makes a process, or nothing at all.
Spawn ==
    /\ Place("runner", "spawn")
    /\ \/ /\ PosixSpawn \/ WinSpawn
          /\ Move("runner", "register")
          /\ Record(TRUE, -1, FALSE, FALSE) /\ UNCHANGED outcome
       \/ /\ outcome' = "spawnFailed" /\ Move("runner", "off")
          /\ Record(FALSE, -1, FALSE, FALSE)
          /\ UNCHANGED <<job, proc, pid, open>>
    /\ UNCHANGED <<load, cmd, back, theToken, killed, shot, exit, held, chunks, full,
                   stdin, theClock, flags, rc, askVars>>

\* token.onCancel(): registers, or runs the callback on this very thread.
OnCancel ==
    /\ Place("runner", "register")
    /\ IF token.cancelled
       THEN /\ observed' = TRUE /\ back' = "pump" /\ Move("runner", "terminate")
            /\ UNCHANGED token
       ELSE /\ token' = [token EXCEPT !.registered = TRUE] /\ Move("runner", "pump")
            /\ UNCHANGED <<observed, back>>
    /\ UNCHANGED <<theCommand, theKill, theChild, thePipes, theClock, theResult, askVars>>

\* CancellationSource::cancel(): trips the token and takes the callbacks under
\* the lock, runs them after it.
Cancel ==
    /\ ~token.cancelled
    /\ token' = [cancelled |-> TRUE, registered |-> FALSE]
    /\ Move("canceller", IF token.registered THEN "callback" ELSE "off")
    /\ UNCHANGED <<theCommand, back, observed, theKill, theChild, thePipes, theClock,
                   theResult>>

\* The callback: first the flag, then the kill.
CancelCallback ==
    /\ Place("canceller", "callback")
    /\ observed' = TRUE /\ Move("canceller", "terminate")
    /\ UNCHANGED <<theCommand, back, token, theKill, theChild, thePipes, theClock,
                   theResult, askVars>>

\* mutant: a killed git is judged by its exit code.
JudgeByCode == IF observed THEN "cancelled" ELSE IF rc # 0 THEN "failed" ELSE "ok"

\* How execute() judges the invocation: a cancel first, then a deadline, then
\* git's own exit code, which does not count once the sink had enough.
Verdict ==
    IF observed \/ token.cancelled THEN "cancelled"
    ELSE IF flags.timedOut THEN "timeout"
    ELSE IF rc # 0 /\ ~flags.sinkStopped THEN "failed" ELSE "ok"

\* mutant: the registration outlives the call.
ReportRegistered ==
    /\ Place("runner", "report")
    /\ outcome' = Verdict /\ Move("runner", "off") /\ open' = {}
    /\ UNCHANGED token
    /\ Record(FALSE, rc, observed \/ token.cancelled,
              flags.sinkStopped \/ rc \in cmd.benign)
    /\ UNCHANGED <<theCommand, back, observed, theKill, theChild, full, stdin, theClock,
                   flags, rc, askVars>>

\* Unregisters, closes the pipes, logs the final record and returns.
Report ==
    /\ Place("runner", "report")
    /\ outcome' = Verdict /\ Move("runner", "off") /\ open' = {}
    /\ token' = [token EXCEPT !.registered = FALSE]
    /\ Record(FALSE, rc, observed \/ token.cancelled,
              flags.sinkStopped \/ rc \in cmd.benign)
    /\ UNCHANGED <<theCommand, back, observed, theKill, theChild, full, stdin, theClock,
                   flags, rc, askVars>>

Runner == Spawn \/ OnCancel \/ Report \/ PosixRunner \/ WindowsRunner
Canceller == CancelCallback \/ Terminate("canceller") \/ WinCancelled("canceller")

----------------------------------------------------------------------------

\* execute() tells the truth: "ok" means that git itself exited with 0 and the
\* sink got all it wrote, or had enough of it; a failure is blamed on git only
\* if git ended by itself, never when we killed it.
OutcomeIsTruthful ==
    /\ outcome = "ok" /\ ~flags.sinkStopped => exit = 0 /\ "out" \notin full
    /\ outcome = "failed" => exit = 1

\* The kill that terminate() sends on a cancel or a deadline never reaches a process
\* that is not our child ("there is no window in which we could signal a pid we do
\* not own").
SignalsOwnChild == ~shot

\* Nothing of the call is left when it has returned: git was reaped, no thread
\* runs, no callback is registered, and the log has the record of its end.
ReturnLeavesNothing ==
    outcome # "none" /\ log # <<>> =>
        /\ proc # "alive" /\ ~token.registered
        /\ \A t \in Threads \ {"canceller"} : at[t] \in {"off", "ended"}
        /\ log[Len(log)].running = FALSE
        /\ Cardinality({i \in DOMAIN log : ~log[i].running}) = 1
===============================================================================
