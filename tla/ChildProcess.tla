----------------------------- MODULE ChildProcess -----------------------------
(***************************************************************************)
(* What the parts of ProcessRunner share: the state of one git invocation, *)
(* and its environment -- the git child, a helper process that may outlive *)
(* it with the pipes open, the clock, and an operating system that gives a *)
(* reaped process id to somebody else.  PosixChild and WindowsChild are    *)
(* two sets of actions over this state, chosen by `platform`.              *)
(*                                                                         *)
(* A pipe holds at most one unread chunk.                                  *)
(***************************************************************************)
EXTENDS Askpass, FiniteSets

\* The workloads: each names a platform, a command, whether a clone job runs
\* it, what may happen in it (git leaves a "helper" behind, "pids" are reused, users
\* let prompts "expire" or "close" a clone under way), and bounds on what git writes, what it asks and
\* how often other programs touch the clone's destination.
CONSTANT Loads

ASSUME LoadAssumption ==
    \A l \in Loads :
        /\ l.platform \in {"posix", "windows"} /\ l.clone \in BOOLEAN
        /\ l.rough \subseteq {"helper", "pids", "expire", "close"}
        /\ {l.chunks, l.prompts, l.meddling} \subseteq Nat

NoCode == -2        \* git has not ended
Signalled == 143    \* killed, as wait() reports SIGTERM
Threads == {"runner", "canceller", "errPump", "inPump", "watchdog"}

VARIABLES load,       \* the workload
          cmd,        \* the command execute() runs
          job,        \* a job object holds the child (Windows)
          at,         \* [Threads -> where the thread is]
          back,       \* where the runner goes on after terminate()
          token,      \* CancellationState: [cancelled, registered]
          observed,   \* cancelObserved
          pid,        \* pid_ / process_ names the child
          killed,     \* killed_ / terminated_
          shot,       \* a process that is not our child was signalled
          proc,       \* "none", "alive", "zombie", "free" or "foreign"
          exit,       \* how git ended: 0, 1 or Signalled
          held,       \* a helper process of git still holds its pipes
          chunks,     \* what git may still write
          open,       \* our ends that are open
          full,       \* pipes with an unread chunk
          stdin,      \* chunks still to be written to git
          age, idle,  \* time since the start, since the last byte
          flags,      \* [timedOut, sinkStopped, pumpDone]
          rc,         \* what wait() returned
          log,        \* operation log records of this invocation
          outcome     \* what execute() returned, "none" before

theCommand == <<load, cmd, job>>
theToken == <<token, observed>>
theKill == <<pid, killed, shot>>
theChild == <<proc, exit, held, chunks>>
thePipes == <<open, full, stdin>>
theClock == <<age, idle>>
theResult == <<flags, rc, log, outcome>>
procVars == <<theCommand, at, back, theToken, theKill, theChild, thePipes, theClock,
              theResult>>

platform == load.platform
Total == EffectiveDeadlines(cmd, 1).total
Idle == EffectiveDeadlines(cmd, 1).idle

ProcInit ==
    /\ load \in Loads /\ cmd = load.cmd
    /\ job = FALSE
    /\ at = [t \in Threads |-> "off"] /\ back = "pump"
    /\ token = [cancelled |-> FALSE, registered |-> FALSE] /\ observed = FALSE
    /\ pid = FALSE /\ killed = FALSE /\ shot = FALSE
    /\ proc = "none" /\ exit = NoCode /\ held = FALSE /\ chunks = load.chunks
    /\ open = {} /\ full = {} /\ stdin = cmd.stdin
    /\ age = 0 /\ idle = 0
    /\ flags = [timedOut |-> FALSE, sinkStopped |-> FALSE, pumpDone |-> FALSE]
    /\ rc = NoCode /\ log = <<>> /\ outcome = "none"

\* spawn()'s pipes: stdin only for a command that has something to write.
Pipes == {"out", "err"} \cup (IF cmd.stdin > 0 THEN {"in"} ELSE {})

Move(t, place) == at' = [at EXCEPT ![t] = place]
Place(t, place) == at[t] = place

----------------------------------------------------------------------------
\* git works unless it waits for its askpass client.
GitRuns == proc = "alive" /\ client.at = "none"

\* git writes a chunk, unless the pipe is full.
GitWrites ==
    /\ GitRuns /\ chunks > 0 /\ chunks' = chunks - 1
    /\ \E f \in {"out", "err"} \ full : full' = full \cup {f}
    /\ UNCHANGED <<theCommand, at, back, theToken, theKill, proc, exit, held, open, stdin,
                   theClock, theResult, askVars>>

\* git takes what was written to its stdin.
GitReads ==
    /\ GitRuns /\ "in" \in full /\ full' = full \ {"in"}
    /\ UNCHANGED <<theCommand, at, back, theToken, theKill, theChild, open, stdin,
                   theClock, theResult, askVars>>

MayLeaveHelper == held' \in (IF "helper" \in load.rough THEN BOOLEAN ELSE {FALSE})

\* git ends by itself, perhaps leaving a helper that holds the pipes.
GitExits ==
    /\ GitRuns /\ proc' = "zombie" /\ exit' \in {0, 1} /\ MayLeaveHelper
    /\ UNCHANGED <<theCommand, at, back, theToken, theKill, chunks, thePipes, theClock,
                   theResult, askVars>>

HelperExits ==
    /\ held /\ proc # "alive" /\ held' = FALSE
    /\ UNCHANGED <<theCommand, at, back, theToken, theKill, proc, exit, chunks, thePipes,
                   theClock, theResult, askVars>>

\* git asks a question, and goes on once the client has answered or refused.
GitAsks ==
    /\ GitRuns /\ client.n < load.prompts /\ ClientStart(AskpassDirOf(cmd))
    /\ UNCHANGED procVars

GitGotAnswer ==
    /\ proc = "alive" /\ client.at \in {"answered", "refused"}
    /\ client' = [client EXCEPT !.at = "none"]
    /\ UNCHANGED <<procVars, dir, files, poller, raised, dialog, gaveUp>>

\* A reaped pid goes to another process.
PidRecycled ==
    /\ platform = "posix" /\ "pids" \in load.rough /\ proc = "free" /\ proc' = "foreign"
    /\ UNCHANGED <<theCommand, at, back, theToken, theKill, exit, held, chunks, thePipes,
                   theClock, theResult, askVars>>

\* Time passes while execute() works; both clocks saturate past their deadline.
Tick ==
    /\ proc # "none" /\ outcome = "none"
    /\ \/ Total > 0 /\ age <= Total
       \/ Idle > 0 /\ idle < Idle
    /\ age' = IF Total > 0 /\ age <= Total THEN age + 1 ELSE age
    /\ idle' = IF Idle > 0 /\ idle < Idle THEN idle + 1 ELSE idle
    /\ UNCHANGED <<theCommand, at, back, theToken, theKill, theChild, thePipes, theResult,
                   askVars>>

Environment ==
    \/ GitWrites \/ GitReads \/ GitExits \/ HelperExits \/ GitAsks \/ GitGotAnswer
    \/ PidRecycled \/ Tick

\* Nobody is left who could write to the pipes.
WritersGone == proc # "alive" /\ ~held
===============================================================================
