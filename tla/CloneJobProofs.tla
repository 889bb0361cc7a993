--------------------------- MODULE CloneJobProofs ---------------------------
(***************************************************************************)
(* One git invocation, its prompts and the clone job around it, for any    *)
(* workloads, deadlines, prompts and meddling, on both platforms.          *)
(*                                                                         *)
(* ProcInv: what execute() returns is the truth, because whoever kills git *)
(* or reaps it out of turn has left a reason behind (Excused), and git is  *)
(* reaped, its threads joined and its record written before the return.    *)
(* AskInv: the poller asks again only when the request it raised is over,  *)
(* and a response in the directory was typed for the client that waits.    *)
(* CloneInv: what every check of removeUnfinished() has established stays  *)
(* true until the next one, unless the destination was replaced behind it. *)
(***************************************************************************)
EXTENDS CloneJob, SequenceTheorems, FiniteSetTheorems, TLAPS

Killing == {"terminate", "term", "reap", "force"}
Pumping == {"read", "joinErr", "joinIn", "setDone"}
Ending  == {"wait", "waitpid", "reaped", "report"}
Still   == {"off", "ended"}
Places  == {"spawn", "register", "pump", "poll", "callback", "write", "watch", "unblock"}
           \cup Killing \cup Pumping \cup Ending \cup Still
Codes   == {NoCode, -1, 0, 1, Signalled}
Outcomes == {"none", "cancelled", "spawnFailed", "unknown", "timeout", "failed", "ok"}
LogRecord == [running : BOOLEAN, rc : Codes, cancelled : BOOLEAN, timedOut : BOOLEAN,
              benign : BOOLEAN]

TokenType == [cancelled : BOOLEAN, registered : BOOLEAN]
FlagsType == [timedOut : BOOLEAN, sinkStopped : BOOLEAN, pumpDone : BOOLEAN]

ProcTypes ==
    /\ load \in Loads
    /\ at \in [Threads -> Places] /\ back \in {"pump", "wait"}
    /\ token \in TokenType /\ flags \in FlagsType
    /\ proc \in {"none", "alive", "zombie", "free", "foreign"}
    /\ exit \in {NoCode, 0, 1, Signalled} /\ rc \in Codes
    /\ log \in Seq(LogRecord) /\ outcome \in Outcomes

\* A reason to end git early, none of which is ever taken back.
Excused == token.cancelled \/ flags.timedOut \/ flags.sinkStopped

\* The places of the runner and the canceller, and what each says of the platform.
PlacesInv ==
    /\ at["runner"] \in {"off", "spawn", "register", "pump", "poll"}
                        \cup Killing \cup Pumping \cup Ending
    /\ at["canceller"] \in {"off", "callback"} \cup Killing
    /\ at["errPump"] \in Still \cup {"read"} /\ at["inPump"] \in Still \cup {"write"}
    /\ at["watchdog"] \in Still \cup {"watch", "unblock"}
    /\ platform = "posix" => at["runner"] \notin Pumping
    /\ platform = "windows" =>
          /\ at["runner"] \notin {"poll", "term", "reap", "force", "waitpid", "reaped"}
          /\ at["canceller"] \notin {"term", "reap", "force"}
          /\ back = "pump"

\* Where the job's thread is before it runs git.
Early == {"none", "claim", "dir", "clone"}

\* Before spawn() there is nothing, and a call that has returned is over.
BeforeInv ==
    /\ jobAt \in Early => at["runner"] = "off" /\ outcome = "none"
    /\ at["runner"] \in {"off", "spawn"} /\ outcome = "none" => log = <<>>
    /\ log = <<>> => proc = "none" /\ at["runner"] \in {"off", "spawn"}
    /\ outcome # "none" => at["runner"] = "off" /\ proc # "alive"
    /\ proc = "none" => /\ at["runner"] \in {"off", "spawn"}
                        /\ pid = FALSE
    /\ at["runner"] \in {"off", "spawn", "register"} => ~token.registered
    /\ at["canceller"] # "off" => token.cancelled
    /\ observed => token.cancelled

\* A process that was killed, or reaped by anyone but wait(), has a reason.
KillInv ==
    /\ exit = NoCode <=> proc \in {"none", "alive"}
    /\ killed \/ exit = Signalled => Excused
    /\ at["runner"] \in Killing => Excused
    /\ proc \notin {"none", "alive"} /\ at["runner"] \notin {"reaped", "report", "off"} =>
          proc = "zombie" \/ Excused
    /\ proc # "none" /\ ~pid => proc # "alive"
    /\ proc # "none" /\ ~pid /\ at["runner"] \notin {"report", "off"} => Excused
    /\ at["watchdog"] = "unblock" => flags.timedOut

\* Once stdout is done with, git's last chunk was read, unless git was ended early.
ReadInv ==
    /\ at["runner"] = "register" => "out" \in open
    /\ at["runner"] \in {"pump", "poll"} /\ "out" \notin open =>
          Excused \/ (proc # "alive" /\ "out" \notin full)
    /\ at["runner"] \in {"joinErr", "joinIn", "setDone"} \cup Ending =>
          Excused \/ (proc # "alive" /\ "out" \notin full)
    /\ at["runner"] \in {"reaped", "report"} =>
          proc # "alive" /\ (Excused \/ (rc = exit /\ exit \in {0, 1}))

\* Only pump() has helper threads, and it joins them one after the other.
ThreadInv ==
    /\ at["runner"] \notin Pumping =>
          \A t \in {"errPump", "inPump", "watchdog"} : at[t] \in Still
    /\ at["runner"] \in {"joinIn", "setDone"} => at["errPump"] \in Still
    /\ at["runner"] = "setDone" => at["inPump"] \in Still

\* The operation log: a record of the start, then one of the end.
LogInv ==
    /\ Len(log) \in 0..2
    /\ log # <<>> /\ outcome = "none" => Len(log) = 1 /\ log[1].running
    /\ Len(log) = 1 /\ outcome # "none" => ~log[1].running
    /\ Len(log) = 2 => outcome # "none" /\ log[1].running /\ ~log[2].running

RunInv ==
    /\ PlacesInv /\ BeforeInv /\ KillInv /\ ReadInv /\ ThreadInv /\ LogInv
    /\ OutcomeIsTruthful

ProcInv == ProcTypes /\ RunInv

-----------------------------------------------------------------------------
FilesType  == [request : Nat, response : Nat, cancel : BOOLEAN]
PollerType == [running : BOOLEAN, dir : BOOLEAN, seen : BOOLEAN, answered : BOOLEAN,
               at : {"off", "top", "look", "rearm", "raise"},
               sawSeen : BOOLEAN, sawAnswered : BOOLEAN]
ClientType == [n : Nat, at : {"none", "wait", "took", "took2", "answered", "refused"}, got : Nat]

AskTypes ==
    /\ dir \in {"none", "there", "gone"}
    /\ files \in FilesType /\ poller \in PollerType /\ client \in ClientType
    /\ raised \in Seq(Nat \ {0}) /\ dialog \in Nat

\* The directory and the poller: made once, polled while it is there.
DirInv ==
    /\ jobAt \in {"none", "claim", "dir"} => dir = "none"
    /\ dir = "none" => /\ client.at \in {"none", "refused"}
                       /\ raised = <<>> /\ dialog = 0
                       /\ poller.seen = FALSE /\ poller.answered = FALSE
    /\ dir # "there" => poller.at = "off" /\ files = NoFiles
    /\ poller.dir <=> dir = "there"

\* Prompts are numbered by their clients.
NumberInv ==
    /\ files.request <= client.n
    /\ \A i \in 1..Len(raised) : raised[i] <= client.n

\* The poller is about to raise the request it finds.
Armed == poller.at = "rearm" \/ (poller.at \in {"top", "look"} /\ ~poller.seen)

Asked(r) == \E i \in 1..Len(raised) : raised[i] = r

\* What the three files say while the poller looks at them one by one.
PollInv ==
    /\ poller.at = "look" => /\ poller.sawSeen = poller.seen
                             /\ poller.sawAnswered => poller.answered
    /\ dir = "there" /\ poller.answered => poller.seen
    /\ dir = "there" /\ dialog # 0 =>
          /\ poller.seen /\ ~poller.answered /\ poller.at \notin {"rearm", "raise"}
          /\ files.response = 0 /\ files.request # 0
    /\ poller.at = "raise" =>
          /\ poller.seen /\ ~poller.answered /\ dialog = 0 /\ raised # <<>>
          /\ files.response = 0 /\ files.request # 0
    /\ Armed => (files.response = 0 \/ files.request = 0) /\ ~Asked(files.request)
    /\ poller.answered /\ files.response = 0 => ~Asked(files.request)

\* The client takes the response only after it has found one, and drops the
\* request before it.
ClientInv ==
    /\ client.at = "took" /\ dir = "there" => files.response # 0
    /\ client.at = "took2" => files.request = 0
    /\ files.response # 0 /\ files.request = 0 => client.at = "took2"

\* As long as nobody gave up and nothing was cancelled, the directory holds the
\* conversation of the current client only.
TurnInv ==
    dir = "there" /\ ~gaveUp /\ ~files.cancel =>
        /\ files.request # 0 => files.request = client.n /\ client.at \in {"wait", "took"}
        /\ files.response # 0 =>
              files.response = client.n /\ client.at \in {"wait", "took", "took2"}
        /\ dialog # 0 => dialog = client.n
        /\ poller.at = "raise" => raised[Len(raised)] = client.n

PromptInv ==
    /\ DirInv /\ NumberInv /\ PollInv /\ ClientInv /\ TurnInv
    /\ PromptRaisedOnce /\ SecretAnswersItsPrompt

AskInv == AskTypes /\ PromptInv

-----------------------------------------------------------------------------
JobPlaces == Early \cup {"running", "join", "finish", "parent", "identity", "list", "remove",
                         "look", "done"}
Cleaning == {"parent", "identity", "list", "remove", "look"}

CloneTypes ==
    /\ jobAt \in JobPlaces
    /\ dest \in [kind : {"absent", "dir", "file"}, id : {NoIdentity} \cup Identities,
                 content : SUBSET {"old", "user", "clone"}]
    /\ mine \in [owned : BOOLEAN, preexisted : BOOLEAN, id : {NoIdentity} \cup Identities,
                 parent : {NoIdentity} \cup Identities]
    /\ parent \in Identities
    /\ dest.kind = "absent" => dest.content = {}

\* What was there before the clone is not ours to remove; nothing is removed unless the
\* clone was cancelled.
OwnInv ==
    /\ mine.owned => "old" \notin dest.content
    /\ jobAt \in Cleaning => outcome = "cancelled" /\ mine.owned
    /\ jobAt \in {"join", "finish", "done"} => outcome # "none"
    /\ jobAt \notin {"remove", "look", "done"} => took = {}
    /\ jobAt # "done" => finished = <<>>

\* What the checks have found still holds where the removal relies on it.
CheckedInv ==
    ~swapped =>
        /\ jobAt \in {"identity", "list", "remove"} => parent = mine.parent
        /\ mine.preexisted =>
              /\ jobAt \in {"parent", "identity", "list", "remove"} => dest.kind = "dir"
              /\ jobAt \in {"list", "remove"} => dest.id = mine.id

CloneInv == CloneTypes /\ OwnInv /\ CheckedInv /\ FinishedIsTruthful

-----------------------------------------------------------------------------
(* Assignments to the records of an invocation, stated once *)

\* Record() adds one record and keeps the ones before it.
LEMMA Recorded ==
    ASSUME ProcTypes, NEW r \in LogRecord, log' = Append(log, r)
    PROVE  /\ log' \in Seq(LogRecord) /\ Len(log') = Len(log) + 1 /\ log' # <<>>
           /\ log'[Len(log) + 1] = r
           /\ \A i \in 1..Len(log) : log'[i] = log[i]
BY AppendProperties DEF ProcTypes

\* spawn() logs that git runs, or that it could not be started.
LEMMA SpawnRecords ==
    ASSUME ProcTypes, Spawn, outcome = "none"
    PROVE  /\ log' \in Seq(LogRecord) /\ Len(log') = Len(log) + 1 /\ log' # <<>>
           /\ log'[Len(log) + 1].running <=> outcome' = "none"
           /\ \A i \in 1..Len(log) : log'[i] = log[i]
<1> DEFINE R(run) == [running |-> run, rc |-> -1, cancelled |-> FALSE,
                      timedOut |-> flags.timedOut, benign |-> FALSE]
<1>1. /\ R(TRUE) \in LogRecord /\ R(TRUE).running
      /\ R(FALSE) \in LogRecord /\ ~R(FALSE).running
  BY DEF ProcTypes, FlagsType, LogRecord, Codes
<1>2. \/ log' = Append(log, R(TRUE)) /\ outcome' = "none"
      \/ log' = Append(log, R(FALSE)) /\ outcome' # "none"
  BY DEF Spawn, Record
<1> HIDE DEF R
<1> QED BY <1>1, <1>2, Recorded

\* execute() logs the end before it returns.
LEMMA ReportRecords ==
    ASSUME ProcTypes, Report
    PROVE  /\ log' \in Seq(LogRecord) /\ Len(log') = Len(log) + 1 /\ log' # <<>>
           /\ ~log'[Len(log) + 1].running
           /\ \A i \in 1..Len(log) : log'[i] = log[i]
<1> DEFINE r == [running |-> FALSE, rc |-> rc, cancelled |-> observed \/ token.cancelled,
                 timedOut |-> flags.timedOut, benign |-> flags.sinkStopped \/ rc \in cmd.benign]
<1>1. r \in LogRecord /\ ~r.running BY DEF ProcTypes, FlagsType, LogRecord
<1>2. log' = Append(log, r) BY DEF Report, Record
<1> HIDE DEF r
<1> QED BY <1>1, <1>2, Recorded

\* The other assignments to the flags and to the token.
LEMMA FlagsKept ==
    ASSUME ProcTypes,
           \/ flags' = flags \/ flags' = [flags EXCEPT !.timedOut = TRUE]
           \/ flags' = [flags EXCEPT !.sinkStopped = TRUE]
           \/ flags' = [flags EXCEPT !.pumpDone = TRUE]
    PROVE  flags' \in FlagsType
BY DEF ProcTypes, FlagsType

LEMMA TokenKept ==
    ASSUME ProcTypes,
           \/ token' = token \/ token' = [token EXCEPT !.registered = TRUE]
           \/ token' = [token EXCEPT !.registered = FALSE]
           \/ token' = [cancelled |-> TRUE, registered |-> FALSE]
    PROVE  token' \in TokenType
<1>1. [cancelled |-> TRUE, registered |-> FALSE] \in TokenType BY DEF TokenType
<1>2. [token EXCEPT !.registered = TRUE] \in TokenType BY DEF ProcTypes, TokenType
<1>3. [token EXCEPT !.registered = FALSE] \in TokenType BY DEF ProcTypes, TokenType
<1> QED BY <1>1, <1>2, <1>3 DEF ProcTypes

-----------------------------------------------------------------------------
(* Types *)

\* The calls of execute() that both platforms share.
LEMMA CallTypes ==
    ASSUME ProcTypes, RunInv, Spawn \/ OnCancel \/ Report \/ Cancel \/ CancelCallback
    PROVE  ProcTypes'
<1> USE DEF ProcTypes, Move, Place, theCommand, theToken, theKill, theChild, thePipes, theClock,
            theResult, Threads, Killing, Pumping, Ending, Still, Places, Codes, Outcomes, NoCode,
            Signalled
<1>1. CASE Spawn
  <2>1. outcome = "none" BY <1>1 DEF Spawn, RunInv, BeforeInv
  <2>2. log' \in Seq(LogRecord) BY <1>1, <2>1, SpawnRecords
  <2>3. \/ at' = [at EXCEPT !["runner"] = "register"] /\ outcome' = "none" /\ proc' = "alive"
        \/ at' = [at EXCEPT !["runner"] = "off"] /\ outcome' = "spawnFailed" /\ proc' = proc
    BY <1>1, <2>1 DEF Spawn, PosixSpawn, WinSpawn
  <2>4. at' \in [Threads -> Places] BY <2>3
  <2>5. UNCHANGED <<load, back, token, flags, exit, rc>> BY <1>1 DEF Spawn
  <2> QED BY <2>2, <2>3, <2>4, <2>5
<1>2. CASE OnCancel
  <2>1. token' \in TokenType BY <1>2, TokenKept DEF OnCancel
  <2> QED BY <1>2, <2>1 DEF OnCancel
<1>3. CASE Report
  <2>1. token' \in TokenType /\ log' \in Seq(LogRecord)
    BY <1>3, TokenKept, ReportRecords DEF Report
  <2> QED BY <1>3, <2>1 DEF Report, Verdict
<1>4. CASE Cancel
  <2>1. token' \in TokenType BY <1>4, TokenKept DEF Cancel
  <2> QED BY <1>4, <2>1 DEF Cancel
<1>5. CASE CancelCallback BY <1>5 DEF CancelCallback
<1> QED BY <1>1, <1>2, <1>3, <1>4, <1>5

LEMMA PosixTypes ==
    ASSUME ProcTypes, NEW t \in {"runner", "canceller"}, PosixRunner \/ Terminate(t)
    PROVE  ProcTypes'
<1> USE DEF ProcTypes, Move, Place, theCommand, theToken, theKill, theChild, thePipes, theClock,
            theResult, Threads, Killing, Pumping, Ending, Still, Places, Codes, NoCode, Signalled
<1>1. CASE PumpCheck
  <2>1. flags' \in FlagsType BY <1>1, FlagsKept DEF PumpCheck
  <2> QED BY <1>1, <2>1 DEF PumpCheck
<1>2. CASE PumpPoll
  <2>1. flags' \in FlagsType BY <1>2, FlagsKept DEF PumpPoll
  <2> QED BY <1>2, <2>1 DEF PumpPoll
<1>3. CASE Wait BY <1>3 DEF Wait
<1>4. CASE Waitpid BY <1>4 DEF Waitpid
<1>5. CASE ForgetPid BY <1>5 DEF ForgetPid
<1>6. ASSUME NEW u \in {"runner", "canceller"}, Terminate(u) PROVE ProcTypes'
  <2>1. CASE TermLoad(u) BY <2>1 DEF TermLoad, Return
  <2>2. CASE TermKill(u) BY <2>2 DEF TermKill, Signal
  <2>3. CASE TermReap(u) BY <2>3 DEF TermReap, Return
  <2>4. CASE TermForce(u) BY <2>4 DEF TermForce, Signal, Return
  <2> QED BY <1>6, <2>1, <2>2, <2>3, <2>4 DEF Terminate
<1> QED BY <1>1, <1>2, <1>3, <1>4, <1>5, <1>6 DEF PosixRunner

LEMMA WindowsTypes ==
    ASSUME ProcTypes, NEW t \in {"runner", "canceller"},
           WindowsRunner \/ WindowsHelpers \/ WinCancelled(t)
    PROVE  ProcTypes'
<1> USE DEF ProcTypes, Move, Place, theCommand, theToken, theKill, theChild, thePipes, theClock,
            theResult, Threads, Killing, Pumping, Ending, Still, Places, Codes, NoCode, Signalled
<1>1. CASE WinPumpStarts BY <1>1 DEF WinPumpStarts
<1>2. CASE WinReadLate BY <1>2, FlagsKept DEF WinReadLate, WinTerminate
<1>3. CASE WinReadStops BY <1>3, FlagsKept DEF WinReadStops, WinTerminate
<1>4. CASE WinRead BY <1>4 DEF WinRead
<1>5. CASE CancelBlockedIoAndJoin("errPump", "joinErr", "joinIn")
  BY <1>5 DEF CancelBlockedIoAndJoin
<1>6. CASE CancelBlockedIoAndJoin("inPump", "joinIn", "setDone")
  BY <1>6 DEF CancelBlockedIoAndJoin
<1>7. CASE WinPumpEnds BY <1>7, FlagsKept DEF WinPumpEnds
<1>8. CASE WinJoinWatchdog BY <1>8 DEF WinJoinWatchdog
<1>9. CASE WinWait BY <1>9 DEF WinWait
<1>10. ASSUME NEW u \in {"runner", "canceller"}, WinCancelled(u) PROVE ProcTypes'
  BY <1>10 DEF WinCancelled, WinTerminate
<1>11. CASE ErrPump BY <1>11 DEF ErrPump
<1>12. CASE InPump BY <1>12 DEF InPump
<1>13. CASE WatchDeadlines
  <2>1. at' \in [Threads -> Places] BY <1>13 DEF WatchDeadlines
  <2>2. flags' \in FlagsType BY <1>13, FlagsKept DEF WatchDeadlines
  <2> QED BY <1>13, <2>1, <2>2 DEF WatchDeadlines, WinTerminate
<1>14. CASE WatchUnblocks BY <1>14 DEF WatchUnblocks
<1> QED BY <1>1, <1>2, <1>3, <1>4, <1>5, <1>6, <1>7, <1>8, <1>9, <1>10, <1>11, <1>12, <1>13, <1>14
        DEF WindowsRunner, WindowsHelpers

LEMMA WorldTypes == ASSUME ProcTypes, Environment PROVE ProcTypes'
<1> USE DEF ProcTypes, theCommand, theToken, theKill, theChild, theResult, NoCode, Signalled
<1>1. CASE GitWrites BY <1>1 DEF GitWrites
<1>2. CASE GitReads BY <1>2 DEF GitReads
<1>3. CASE GitExits BY <1>3 DEF GitExits
<1>4. CASE HelperExits BY <1>4 DEF HelperExits
<1>5. CASE PidRecycled BY <1>5 DEF PidRecycled
<1>6. CASE Tick BY <1>6 DEF Tick
<1>7. CASE UNCHANGED procVars BY <1>7 DEF procVars
<1> QED BY <1>1, <1>2, <1>3, <1>4, <1>5, <1>6, <1>7 DEF Environment, GitAsks, GitGotAnswer
-----------------------------------------------------------------------------
(* The invariant of an invocation *)

\* Steps of others, and of the job before and after the call.
LEMMA RunByStutter ==
    ASSUME RunInv, UNCHANGED procVars,
           jobAt' \in Early => jobAt \in Early
    PROVE  RunInv'
BY DEF RunInv, PlacesInv, BeforeInv, KillInv, ReadInv, ThreadInv, LogInv, OutcomeIsTruthful,
       Excused, platform, procVars, theCommand, theToken, theKill, theChild, thePipes, theClock,
       theResult

\* execute() is entered, or the job throws before it is.
LEMMA RunByCall ==
    ASSUME ProcTypes, RunInv, jobAt \in Early, jobAt' = "running",
           JobThrows \/ \E c : Execute(c)
    PROVE  ProcTypes' /\ RunInv'
<1> USE DEF RunInv, PlacesInv, BeforeInv, KillInv, ReadInv, ThreadInv, LogInv, OutcomeIsTruthful,
            Excused, platform, Move, theCommand, theToken, theKill, theChild, thePipes, theClock,
            theResult, Threads, Killing, Pumping, Ending, Still, Outcomes, Places, ProcTypes, Early
<1>1. CASE JobThrows BY <1>1 DEF JobThrows
<1>2. ASSUME NEW c, Execute(c) PROVE ProcTypes' /\ RunInv' BY <1>2 DEF Execute
<1> QED BY <1>1, <1>2

\* Spawning, registering, cancelling and returning.
LEMMA RunByCallSteps ==
    ASSUME ProcTypes, ProcTypes', RunInv, jobAt' = jobAt,
           Spawn \/ OnCancel \/ Report \/ Cancel \/ CancelCallback
    PROVE  RunInv'
<1> USE LoadAssumption
    DEF ProcTypes, RunInv, PlacesInv, BeforeInv, KillInv, ReadInv, ThreadInv, LogInv,
        OutcomeIsTruthful, TokenType, FlagsType, Excused, platform, NoCode, Signalled, Codes, Move,
        Place, theCommand, theToken, theKill, theChild, thePipes, theClock, theResult, Threads,
        Killing, Pumping, Ending, Still
<1>1. CASE Spawn
  <2>0. outcome = "none" /\ log = <<>> /\ Len(log) = 0 /\ proc = "none"
    BY <1>1 DEF Spawn
  <2>1. Len(log') = 1 /\ log' # <<>> /\ (log'[1].running <=> outcome' = "none")
    BY ONLY ProcTypes, <1>1, <2>0, SpawnRecords
  <2>2. CASE outcome' = "none"
    <3>1. /\ Move("runner", "register") /\ proc' = "alive" /\ pid' = TRUE /\ "out" \in open'
      BY <1>1, <2>2 DEF Spawn, PosixSpawn, WinSpawn, Pipes
    <3> QED BY <1>1, <2>0, <2>1, <2>2, <3>1 DEF Spawn
  <2>3. CASE outcome' # "none"
    <3>1. Move("runner", "off") /\ outcome' = "spawnFailed" /\ UNCHANGED <<proc, pid>>
      BY <1>1, <2>0, <2>3 DEF Spawn
    <3> QED BY <1>1, <2>0, <2>1, <3>1 DEF Spawn
  <2> QED BY <2>2, <2>3
<1>2. CASE OnCancel BY <1>2 DEF OnCancel
<1>3. CASE Report
  <2>0. outcome = "none" /\ Len(log) = 1 /\ log[1].running
    BY <1>3 DEF Report
  <2>1. Len(log') = 2 /\ log' # <<>> /\ log'[1].running /\ ~log'[2].running
    BY ONLY ProcTypes, <1>3, <2>0, ReportRecords
  <2>2. OutcomeIsTruthful' BY <1>3 DEF Report, Verdict
  <2>3. outcome' # "none" BY <1>3 DEF Report, Verdict
  <2> QED BY <1>3, <2>0, <2>1, <2>2, <2>3 DEF Report
<1>4. CASE Cancel BY <1>4 DEF Cancel
<1>5. CASE CancelCallback BY <1>5 DEF CancelCallback
<1> QED BY <1>1, <1>2, <1>3, <1>4, <1>5

\* terminate() on either thread: whoever calls it has a reason.
LEMMA RunByTerminate ==
    ASSUME ProcTypes, ProcTypes', RunInv, jobAt' = jobAt, NEW t \in {"runner", "canceller"},
           Terminate(t)
    PROVE  RunInv'
<1> USE LoadAssumption
    DEF ProcTypes, RunInv, PlacesInv, BeforeInv, KillInv, ReadInv, ThreadInv, LogInv,
        OutcomeIsTruthful, TokenType, FlagsType, Excused, platform, NoCode, Signalled, Codes, Move,
        Place, theCommand, theToken, theKill, theChild, thePipes, theClock, theResult, Threads,
        Killing, Pumping, Ending, Still
<1>1. CASE TermLoad(t) BY <1>1 DEF TermLoad, Return
<1>2. CASE TermKill(t)
  <2>1. CASE proc = "alive" /\ proc' = "zombie" /\ exit' = Signalled
    BY <1>2, <2>1 DEF TermKill
  <2>2. CASE UNCHANGED <<proc, exit, held>>
    BY <1>2, <2>2 DEF TermKill
  <2> QED BY <1>2, <2>1, <2>2 DEF TermKill, Signal
<1>3. CASE TermReap(t) BY <1>3 DEF TermReap, Return
<1>4. CASE TermForce(t)
  <2>1. CASE proc = "alive" /\ proc' = "zombie" /\ exit' = Signalled
    BY <1>4, <2>1 DEF TermForce, Return
  <2>2. CASE proc # "alive" /\ UNCHANGED <<proc, exit, held>>
    BY <1>4, <2>2 DEF TermForce, Return
  <2> QED BY <1>4, <2>1, <2>2 DEF TermForce, Signal
<1> QED BY <1>1, <1>2, <1>3, <1>4 DEF Terminate

\* pump() and wait() on POSIX.
LEMMA RunByPosix ==
    ASSUME ProcTypes, ProcTypes', RunInv, jobAt' = jobAt, PosixRunner
    PROVE  RunInv'
<1> USE LoadAssumption
    DEF ProcTypes, RunInv, PlacesInv, BeforeInv, KillInv, ReadInv, ThreadInv, LogInv,
        OutcomeIsTruthful, TokenType, FlagsType, Excused, platform, NoCode, Signalled, Codes, Move,
        Place, theCommand, theToken, theKill, theChild, thePipes, theClock, theResult, Threads,
        Killing, Pumping, Ending, Still
<1>1. CASE PumpCheck BY <1>1 DEF PumpCheck
<1>2. CASE PumpPoll BY <1>2 DEF PumpPoll, Ready, WritersGone
<1>3. CASE Wait BY <1>3 DEF Wait
<1>4. CASE Waitpid BY <1>4 DEF Waitpid
<1>5. CASE ForgetPid BY <1>5 DEF ForgetPid
<1>6. CASE Terminate("runner") BY ONLY <1>6, ProcTypes, ProcTypes', RunInv, jobAt' = jobAt, RunByTerminate
<1> QED BY <1>1, <1>2, <1>3, <1>4, <1>5, <1>6 DEF PosixRunner

\* pump(), its helper threads and wait() on Windows.
LEMMA RunByWindows ==
    ASSUME ProcTypes, ProcTypes', RunInv, jobAt' = jobAt, NEW t \in {"runner", "canceller"},
           WindowsRunner \/ WindowsHelpers \/ WinCancelled(t)
    PROVE  RunInv'
<1> USE LoadAssumption
    DEF ProcTypes, RunInv, PlacesInv, BeforeInv, KillInv, ReadInv, ThreadInv, LogInv,
        OutcomeIsTruthful, TokenType, FlagsType, Excused, platform, NoCode, Signalled, Codes, Move,
        Place, theCommand, theToken, theKill, theChild, thePipes, theClock, theResult, Threads,
        Killing, Pumping, Ending, Still
<1>1. CASE WinPumpStarts BY <1>1 DEF WinPumpStarts
<1>2. CASE WinReadLate BY <1>2 DEF WinReadLate, WinTerminate
<1>3. CASE WinReadStops BY <1>3 DEF WinReadStops, WinTerminate
<1>4. CASE WinRead BY <1>4 DEF WinRead, Readable, WritersGone
<1>5. CASE CancelBlockedIoAndJoin("errPump", "joinErr", "joinIn")
  BY <1>5 DEF CancelBlockedIoAndJoin
<1>6. CASE CancelBlockedIoAndJoin("inPump", "joinIn", "setDone")
  BY <1>6 DEF CancelBlockedIoAndJoin
<1>7. CASE WinPumpEnds BY <1>7 DEF WinPumpEnds
<1>8. CASE WinJoinWatchdog BY <1>8 DEF WinJoinWatchdog
<1>9. CASE WinWait BY <1>9 DEF WinWait
<1>10. ASSUME NEW u \in {"runner", "canceller"}, WinCancelled(u) PROVE RunInv'
  BY <1>10 DEF WinCancelled, WinTerminate
<1>11. CASE ErrPump BY <1>11 DEF ErrPump
<1>12. CASE InPump BY <1>12 DEF InPump
<1>13. CASE WatchDeadlines
  <2>1. CASE /\ flags' = [flags EXCEPT !.timedOut = TRUE]
             /\ WinTerminate /\ Move("watchdog", "unblock")
    BY <1>13, <2>1 DEF WatchDeadlines, WinTerminate
  <2>2. CASE UNCHANGED <<at, flags, theKill, theChild>>
    BY <1>13, <2>2 DEF WatchDeadlines
  <2>3. CASE Move("watchdog", "ended") /\ UNCHANGED <<flags, theKill, theChild>>
    BY <1>13, <2>3 DEF WatchDeadlines
  <2> QED BY ONLY <1>13, <2>1, <2>2, <2>3 DEF WatchDeadlines
<1>14. CASE WatchUnblocks BY <1>14 DEF WatchUnblocks, Readable, WritersGone
<1> QED BY <1>1, <1>2, <1>3, <1>4, <1>5, <1>6, <1>7, <1>8, <1>9, <1>10, <1>11, <1>12, <1>13, <1>14
        DEF WindowsRunner, WindowsHelpers

\* git, its helper and the clock.
LEMMA RunByWorld ==
    ASSUME ProcTypes, ProcTypes', RunInv, jobAt' = jobAt, Environment
    PROVE  RunInv'
<1> USE DEF RunInv, PlacesInv, BeforeInv, KillInv, ReadInv, ThreadInv, LogInv,
        OutcomeIsTruthful, Excused, platform, NoCode, Signalled, theCommand, theToken, theKill,
        theChild, thePipes, theClock, theResult
<1>1. CASE GitWrites BY <1>1 DEF GitWrites, GitRuns
<1>2. CASE GitReads BY <1>2 DEF GitReads
<1>3. CASE GitExits BY <1>3 DEF GitExits, GitRuns
<1>4. CASE HelperExits BY <1>4 DEF HelperExits
<1>5. CASE PidRecycled BY <1>5 DEF PidRecycled
<1>6. CASE Tick BY <1>6 DEF Tick
<1>7. CASE UNCHANGED procVars BY ONLY <1>7, RunInv, jobAt' = jobAt, RunByStutter
<1> QED BY <1>1, <1>2, <1>3, <1>4, <1>5, <1>6, <1>7 DEF Environment, GitAsks, GitGotAnswer

\* removeUnfinished() and other programs touch nothing of the invocation and its prompts.
LEMMA CleanUpPlaces ==
    ASSUME CleanUp
    PROVE  /\ UNCHANGED <<procVars, askVars, ffi>>
           /\ jobAt' \in {"parent", "identity", "list", "remove", "look", "done"}
BY DEF CleanUp, CheckPlace, CheckParent, CheckIdentity, ListEntries, RemoveEntry, RemoveFolder,
       FinalLook, Finish

LEMMA OthersTouch ==
    ASSUME Others
    PROVE  UNCHANGED <<procVars, askVars, jobAt, ffi, mine, cleanVars>>
BY DEF Others, GitFillsDest, GitTidies, HelperFillsDest, Meddle, Meddles, Fill, Replace,
       ReplaceParent

LEMMA ProcInvariant == Spec => []ProcInv
<1>1. Init => ProcInv
  <2> SUFFICES ASSUME Init PROVE ProcInv OBVIOUS
  <2> USE DEF Init, ProcInit
  <2>1. ProcTypes
    BY EmptySeq DEF ProcTypes, Threads, Places, Still, TokenType, FlagsType, NoCode, Codes, Outcomes
  <2>2. RunInv
    BY DEF RunInv, PlacesInv, BeforeInv, KillInv, ReadInv, ThreadInv, LogInv, OutcomeIsTruthful,
           Excused, Threads, Killing, Pumping, Ending, Still, NoCode, Signalled
  <2> QED BY <2>1, <2>2 DEF ProcInv
<1>2. ProcInv /\ [Next]_vars => ProcInv'
  <2> SUFFICES ASSUME ProcTypes, RunInv, [Next]_vars PROVE ProcTypes' /\ RunInv' BY DEF ProcInv
  <2>0. ASSUME UNCHANGED procVars,
               jobAt' \in Early => jobAt \in Early
        PROVE  ProcTypes' /\ RunInv'
    <3>1. ProcTypes'
      BY <2>0 DEF ProcTypes, procVars, theCommand, theToken, theKill, theChild, theResult
    <3> QED BY <2>0, <3>1, RunByStutter
  <2>1. CASE RunCloneRepo \/ Caller \/ JobThrows
    BY <2>1, RunByCall DEF RunCloneRepo, Caller, JobThrows, Early
  <2>2. CASE CancelCall \/ Close
    <3>1. jobAt' = jobAt /\ (Cancel \/ UNCHANGED procVars)
      BY <2>2 DEF CancelCall, Close, cloneVars
    <3> QED BY <2>0, <3>1, CallTypes, RunByCallSteps
  <2>3. CASE (Runner \/ Canceller \/ WindowsHelpers) /\ UNCHANGED cloneVars
    <3>1. jobAt' = jobAt BY <2>3 DEF cloneVars
    <3>2. CASE Spawn \/ OnCancel \/ Report \/ CancelCallback
      BY <3>1, <3>2, CallTypes, RunByCallSteps
    <3>3. CASE PosixRunner BY <3>1, <3>3, PosixTypes, RunByPosix
    <3>4. CASE Terminate("canceller") BY <3>1, <3>4, PosixTypes, RunByTerminate
    <3>5. CASE WindowsRunner \/ WindowsHelpers \/ WinCancelled("canceller")
      BY <3>1, <3>5, WindowsTypes, RunByWindows
    <3> QED BY <2>3, <3>2, <3>3, <3>4, <3>5 DEF Runner, Canceller
  <2>4. CASE World
    BY <2>4, WorldTypes, RunByWorld DEF World, cloneVars
  <2>5. CASE Start \/ ClaimIdentity \/ StartAskpass \/ StopAskpass \/ ForgetAskpass
    BY <2>0, <2>5 DEF Start, ClaimIdentity, StartAskpass, StopAskpass, ForgetAskpass, Early
  <2>6. CASE EmitFinished \/ CleanUp
    <3>1. UNCHANGED procVars /\ jobAt' \notin Early
      BY <2>6, CleanUpPlaces DEF EmitFinished, Finish, Early
    <3> QED BY <2>0, <3>1
  <2>9. CASE ProvideCredential \/ CancelCredential \/ Closed \/ Others
    BY <2>0, <2>9, OthersTouch DEF ProvideCredential, CancelCredential, Closed, cloneVars
  <2>7. CASE (PollerStep \/ Client) /\ UNCHANGED <<procVars, cloneVars>>
    BY <2>0, <2>7 DEF cloneVars
  <2>8. CASE UNCHANGED vars BY <2>0, <2>8 DEF vars, cloneVars
  <2> QED BY <2>1, <2>2, <2>3, <2>4, <2>5, <2>6, <2>7, <2>8, <2>9 DEF Next, Job
<1> QED BY <1>1, <1>2, PTL DEF Spec

\* What execute() returns is the truth on both platforms, whoever kills git and
\* whoever reaps it: "ok" means that git exited with 0 and the sink had all of it
\* (or enough), "failed" that git itself exited with 1.
THEOREM ExecuteTellsTheTruth == Spec => []OutcomeIsTruthful
BY ProcInvariant, PTL DEF ProcInv, RunInv

\* When execute() has returned, git is gone, pump()'s threads are joined, the
\* token's callback is unregistered and the log has exactly one record of the end.
THEOREM ExecuteLeavesNothing == Spec => []ReturnLeavesNothing
<1>1. ProcInv => ReturnLeavesNothing
  <2> SUFFICES ASSUME ProcInv, outcome # "none", log # <<>>
               PROVE  /\ proc # "alive" /\ ~token.registered
                      /\ \A t \in Threads \ {"canceller"} : at[t] \in {"off", "ended"}
                      /\ log[Len(log)].running = FALSE
                      /\ Cardinality({i \in DOMAIN log : ~log[i].running}) = 1
    BY DEF ReturnLeavesNothing
  <2>1. at["runner"] = "off" /\ proc # "alive" /\ ~token.registered
    BY DEF ProcInv, RunInv, BeforeInv
  <2>2. \A t \in Threads \ {"canceller"} : at[t] \in {"off", "ended"}
    BY <2>1 DEF ProcInv, RunInv, ThreadInv, Threads, Still, Pumping
  <2>3. log \in Seq(LogRecord) /\ Len(log) \in {1, 2}
    BY EmptySeq DEF ProcInv, ProcTypes, RunInv, LogInv
  <2>4. /\ log[Len(log)].running = FALSE
        /\ \A i \in DOMAIN log : ~log[i].running <=> i = Len(log)
    <3>0. \A r \in LogRecord : r.running \in BOOLEAN BY DEF LogRecord
    <3>1. \A i \in DOMAIN log : log[i].running \in BOOLEAN BY <2>3, <3>0
    <3>2. DOMAIN log = 1..Len(log) BY <2>3
    <3>3. CASE Len(log) = 1 BY <3>1, <3>2, <3>3 DEF ProcInv, RunInv, LogInv
    <3>4. CASE Len(log) = 2 BY <3>1, <3>2, <3>4 DEF ProcInv, RunInv, LogInv
    <3> QED BY <2>3, <3>3, <3>4
  <2>5. {i \in DOMAIN log : ~log[i].running} = {Len(log)} BY <2>3, <2>4
  <2>6. Cardinality({Len(log)}) = 1 BY FS_Singleton
  <2> QED BY <2>1, <2>2, <2>4, <2>5, <2>6
<1> QED BY <1>1, ProcInvariant, PTL

-----------------------------------------------------------------------------
(* The clone job *)

\* A call that has returned stays so.
LEMMA OutcomeKept ==
    ASSUME RunInv, [Next]_vars, outcome # "none"
    PROVE  outcome' = outcome
<1> USE DEF theResult
<1>0. at["runner"] = "off" /\ jobAt \notin Early BY DEF RunInv, BeforeInv
<1>1. CASE RunCloneRepo \/ Caller \/ JobThrows
  BY <1>0, <1>1 DEF RunCloneRepo, Caller, JobThrows, Early
<1>2. CASE CancelCall \/ Close BY <1>2 DEF CancelCall, Close, Cancel, procVars
<1>3. CASE Runner
  BY <1>0, <1>3
     DEF Runner, Place, Spawn, OnCancel, Report, PosixRunner, PumpCheck, PumpPoll, Wait, Waitpid,
         ForgetPid, Terminate, TermLoad, TermKill, TermReap, TermForce, WindowsRunner,
         WinPumpStarts, WinReadLate, WinReadStops, WinRead, CancelBlockedIoAndJoin, WinPumpEnds,
         WinJoinWatchdog, WinWait, WinCancelled
<1>4. CASE Canceller \/ WindowsHelpers
  BY <1>4 DEF Canceller, CancelCallback, Terminate, TermLoad, TermKill, TermReap, TermForce,
              WinCancelled, WindowsHelpers, ErrPump, InPump, WatchDeadlines, WatchUnblocks
<1>5. CASE World
  BY <1>5 DEF World, Environment, GitWrites, GitReads, GitExits, HelperExits, GitAsks,
              GitGotAnswer, PidRecycled, Tick, procVars
<1>6. CASE UNCHANGED procVars BY <1>6 DEF procVars
<1>7. CASE Start \/ ClaimIdentity \/ StartAskpass \/ StopAskpass \/ ForgetAskpass \/ EmitFinished
  BY <1>6, <1>7 DEF Start, ClaimIdentity, StartAskpass, StopAskpass, ForgetAskpass, EmitFinished
<1>8. CASE CleanUp \/ Others BY <1>6, <1>8, CleanUpPlaces, OthersTouch
<1>9. CASE ProvideCredential \/ CancelCredential \/ Closed
  BY <1>6, <1>9 DEF ProvideCredential, CancelCredential, Closed
<1>10. CASE UNCHANGED vars BY <1>6, <1>10 DEF vars
<1> QED BY <1>1, <1>2, <1>3, <1>4, <1>5, <1>6, <1>7, <1>8, <1>9, <1>10 DEF Next, Job

\* The one event, as the step that emits it makes it.
LEMMA Told ==
    ASSUME finished = <<>>, NEW removed, NEW error, Finish(removed, error),
           ~(outcome = "cancelled" /\ mine.owned) => removed = FALSE /\ error = "none",
           outcome = "cancelled" /\ mine.owned =>
               \/ removed = TRUE /\ error = "none" /\ dest'.content = {}
               \/ removed = FALSE /\ error = "left"
               \/ removed = FALSE /\ error = "refused" /\ took = {},
           UNCHANGED <<outcome, mine, took>>,
           \A t \in took :
               outcome = "cancelled" /\ mine.owned /\ t.what # "old" /\ t.from # "foreign"
    PROVE  FinishedIsTruthful' /\ jobAt' = "done"
<1> DEFINE f == [code |-> outcome, removed |-> removed, error |-> error]
<1>1. finished' = <<f>> BY DEF Finish
<1>2. Len(finished') = 1 /\ DOMAIN finished' = {1} /\ finished'[1] = f BY <1>1
<1>3. f.code = outcome /\ f.removed = removed /\ f.error = error OBVIOUS
<1> HIDE DEF f
<1> QED BY <1>2, <1>3 DEF FinishedIsTruthful, Finish

\* As long as nothing is said and nothing removed, what is said and removed is true.
LEMMA NothingSaid ==
    ASSUME finished' = <<>>, took' = took,
           \A t \in took :
               outcome' = "cancelled" /\ mine'.owned /\ t.what # "old" /\ t.from # "foreign"
    PROVE  FinishedIsTruthful'
BY DEF FinishedIsTruthful

\* The thread's steps up to the end of git, and the steps without the destination.
LEMMA CloneByOthers ==
    ASSUME CloneInv, UNCHANGED <<dest, parent, mine, swapped, stray, finished, took>>,
           outcome # "none" => outcome' = outcome,
           \/ jobAt' = jobAt
           \/ /\ jobAt \in Early \cup {"running", "join"}
              /\ jobAt' \in Early \cup {"running", "join", "finish"}
              /\ jobAt' \in {"join", "finish"} => outcome # "none"
    PROVE  CloneInv'
<1> USE DEF CloneInv, CloneTypes, OwnInv, CheckedInv, JobPlaces, Cleaning, Early
<1>1. CloneTypes' /\ CheckedInv' OBVIOUS
<1>2. OwnInv' OBVIOUS
<1>3. FinishedIsTruthful'
  <2>1. CASE jobAt' = jobAt /\ (outcome' = outcome \/ jobAt \notin {"remove", "look", "done"})
    BY <2>1 DEF FinishedIsTruthful
  <2>2. CASE jobAt' # jobAt
    <3>1. finished' = <<>> /\ took = {} BY <2>2
    <3> QED BY <3>1, NothingSaid
  <2> QED BY <2>1, <2>2
<1> QED BY <1>1, <1>2, <1>3

\* claim() looks at the place before anything is said or removed.
LEMMA CloneByClaim ==
    ASSUME CloneInv, Start \/ ClaimIdentity, outcome' = outcome
    PROVE  CloneInv'
<1>1. /\ finished' = <<>> /\ took = {} /\ took' = took /\ jobAt' \in {"claim", "dir"}
      /\ UNCHANGED <<dest, parent, swapped>>
  BY DEF CloneInv, OwnInv, Start, ClaimIdentity, destVars, cleanVars
<1>2. mine' \in [owned : BOOLEAN, preexisted : BOOLEAN, id : {NoIdentity} \cup Identities,
                 parent : {NoIdentity} \cup Identities]
  <2>1. CASE Start
    <3> DEFINE empty == dest.kind = "dir" /\ dest.content = {}
               free == dest = Absent \/ empty
    <3>1. mine' = [mine EXCEPT !.owned = free, !.preexisted = empty] BY <2>1 DEF Start
    <3>2. empty \in BOOLEAN /\ free \in BOOLEAN OBVIOUS
    <3> HIDE DEF empty, free
    <3> QED BY <3>1, <3>2 DEF CloneInv, CloneTypes
  <2>2. CASE ClaimIdentity BY <2>2 DEF CloneInv, CloneTypes, ClaimIdentity
  <2> QED BY <2>1, <2>2
<1>3. mine'.owned => "old" \notin dest.content
  <2>1. CASE Start
    <3> DEFINE free == dest = Absent \/ (dest.kind = "dir" /\ dest.content = {})
    <3>1. free => dest.content = {} BY DEF Absent
    <3>2. mine'.owned = free BY <2>1 DEF CloneInv, CloneTypes, Start
    <3> QED BY <3>1, <3>2
  <2>2. CASE ClaimIdentity BY <2>2 DEF CloneInv, CloneTypes, OwnInv, ClaimIdentity
  <2> QED BY <2>1, <2>2
<1>4. CloneTypes' BY <1>1, <1>2 DEF CloneInv, CloneTypes, JobPlaces, Early
<1>5. OwnInv' /\ CheckedInv' BY <1>1, <1>3 DEF OwnInv, CheckedInv, Cleaning
<1>6. FinishedIsTruthful' BY <1>1, NothingSaid
<1> QED BY <1>4, <1>5, <1>6 DEF CloneInv

\* The report of a clone that is not cleaned up, and the checks of one that is.
LEMMA CloneByChecks ==
    ASSUME CloneInv, UNCHANGED outcome, outcome # "none" \/ jobAt # "finish",
           EmitFinished \/ CheckPlace \/ CheckParent \/ CheckIdentity \/ FinalLook
    PROVE  CloneInv'
<1>1. /\ finished = <<>> /\ UNCHANGED <<dest, parent, mine, swapped, took, outcome>>
      /\ jobAt \in {"finish", "parent", "identity", "look"}
  BY DEF CloneInv, OwnInv, EmitFinished, CheckPlace, CheckParent, CheckIdentity, FinalLook, destVars
<1>2. outcome # "none" BY <1>1 DEF CloneInv, OwnInv, Cleaning
<1>3. \A t \in took : outcome = "cancelled" /\ mine.owned /\ t.what # "old" /\ t.from # "foreign"
  BY DEF CloneInv, FinishedIsTruthful
<1>4. mine.owned \in BOOLEAN /\ mine.preexisted \in BOOLEAN
      /\ (dest.kind = "absent" => dest.content = {})
  BY DEF CloneInv, CloneTypes
<1>5. jobAt \in Cleaning => outcome = "cancelled" /\ mine.owned BY DEF CloneInv, OwnInv
<1>6. jobAt \in {"finish", "parent", "identity"} => took = {} BY DEF CloneInv, OwnInv
<1>7. \/ jobAt' = "done" /\ FinishedIsTruthful'
      \/ /\ finished' = <<>> /\ outcome = "cancelled" /\ mine.owned
         /\ \/ /\ jobAt = "finish" /\ jobAt' = "parent" /\ dest.kind = "dir"
            \/ /\ jobAt = "parent" /\ parent = mine.parent
               /\ jobAt' = IF mine.preexisted THEN "identity" ELSE "list"
            \/ jobAt = "identity" /\ jobAt' = "list" /\ dest.id = mine.id
  <2>1. CASE EmitFinished
    BY <1>1, <1>3, <1>6, <2>1, Told DEF EmitFinished, Cleans
  <2>2. CASE CheckPlace
    <3>1. jobAt = "finish" /\ outcome = "cancelled" BY <2>2 DEF CheckPlace, Cleans
    <3>2. CASE ~mine.owned /\ Finish(FALSE, "none") BY <1>1, <1>3, <3>2, Told
    <3>3. CASE mine.owned /\ dest.kind = "absent" /\ Finish(TRUE, "none")
      <4>1. dest'.content = {} BY <1>1, <1>4, <3>3
      <4> QED BY <1>1, <1>3, <3>1, <3>3, <4>1, Told
    <3>4. CASE mine.owned /\ Finish(FALSE, "refused") BY <1>1, <1>3, <1>6, <3>1, <3>4, Told
    <3>5. CASE mine.owned /\ dest.kind = "dir" /\ jobAt' = "parent" /\ UNCHANGED finished
      BY <1>1, <3>1, <3>5
    <3> QED BY <2>2, <3>2, <3>3, <3>4, <3>5 DEF CheckPlace
  <2>3. CASE CheckParent
    <3>1. CASE Finish(FALSE, "refused")
      BY <1>1, <1>3, <1>5, <1>6, <2>3, <3>1, Told DEF CheckParent, Cleaning
    <3>2. CASE ~Finish(FALSE, "refused")
      BY <1>1, <1>5, <2>3, <3>2 DEF CheckParent, Cleaning
    <3> QED BY <3>1, <3>2
  <2>4. CASE CheckIdentity
    <3>1. CASE Finish(FALSE, "refused")
      BY <1>1, <1>3, <1>5, <1>6, <2>4, <3>1, Told DEF CheckIdentity, Cleaning
    <3>2. CASE ~Finish(FALSE, "refused")
      BY <1>1, <1>5, <2>4, <3>2 DEF CheckIdentity, Replaced, Cleaning
    <3> QED BY <3>1, <3>2
  <2>5. CASE FinalLook
    <3>0. outcome = "cancelled" /\ mine.owned BY <1>5, <2>5 DEF FinalLook, Cleaning
    <3>1. CASE Finish(TRUE, "none") /\ dest.content = {} BY <1>1, <1>3, <3>0, <3>1, Told
    <3>2. CASE Finish(FALSE, "left") BY <1>1, <1>3, <3>0, <3>2, Told
    <3> QED BY <1>4, <2>5, <3>1, <3>2 DEF FinalLook
  <2> QED BY <2>1, <2>2, <2>3, <2>4, <2>5
<1>8. CloneTypes' BY <1>1, <1>7 DEF CloneInv, CloneTypes, JobPlaces
<1>9. OwnInv' BY <1>1, <1>2, <1>6, <1>7 DEF CloneInv, OwnInv, Cleaning
<1>10. CheckedInv'
  BY <1>1, <1>7 DEF CloneInv, CheckedInv
<1>11. FinishedIsTruthful' BY <1>1, <1>3, <1>7, NothingSaid
<1> QED BY <1>8, <1>9, <1>10, <1>11 DEF CloneInv

\* The removal takes only from what the checks have found, or behind their back.
LEMMA CloneByRemoval ==
    ASSUME CloneInv, UNCHANGED outcome, ListEntries \/ RemoveEntry \/ RemoveFolder
    PROVE  CloneInv'
<1>1. /\ outcome = "cancelled" /\ mine.owned /\ finished = <<>> /\ finished' = <<>>
      /\ jobAt \in {"list", "remove"} /\ "old" \notin dest.content
      /\ UNCHANGED <<parent, mine, swapped, outcome>>
  BY DEF CloneInv, OwnInv, Cleaning, ListEntries, RemoveEntry, RemoveFolder, destVars
<1>2. From # "foreign" BY <1>1 DEF CloneInv, CheckedInv, From
<1>3. \/ took' = took
      \/ \E what : /\ took' = took \cup {[what |-> w, from |-> From] : w \in what}
                   /\ "old" \notin what
  <2>1. CASE ListEntries BY <2>1 DEF ListEntries
  <2>2. CASE RemoveEntry
    <3>1. PICK e \in listed : UNCHANGED took \/ Taking({e} \cap dest.content)
      BY <2>2 DEF RemoveEntry
    <3>2. "old" \notin {e} \cap dest.content BY <1>1
    <3> QED BY <3>1, <3>2 DEF Taking
  <2>3. CASE RemoveFolder BY <1>1, <2>3 DEF RemoveFolder, Taking
  <2> QED BY <2>1, <2>2, <2>3
<1>4. \A t \in took' : t.what # "old" /\ t.from # "foreign"
  <2>1. \A t \in took : t.what # "old" /\ t.from # "foreign" BY DEF CloneInv, FinishedIsTruthful
  <2> QED BY <1>2, <1>3, <2>1
<1>5. FinishedIsTruthful'
  BY <1>1, <1>4 DEF FinishedIsTruthful
<1>6. \/ dest' = dest
      \/ /\ jobAt = "remove" /\ dest' \in {[dest EXCEPT !.content = @ \ {e}] : e \in listed}
         /\ jobAt' = jobAt
      \/ dest' = Absent /\ ~mine.preexisted /\ jobAt' = "look"
  BY DEF ListEntries, RemoveEntry, RemoveFolder, destVars
<1>7. jobAt' \in {"remove", "look"} BY DEF ListEntries, RemoveEntry, RemoveFolder
<1>8. /\ dest'.kind \in {"absent", "dir", "file"} /\ dest'.content \subseteq dest.content
      /\ dest' \in [kind : {"absent", "dir", "file"}, id : {NoIdentity} \cup Identities,
                    content : SUBSET {"old", "user", "clone"}]
      /\ (dest'.kind = "absent" => dest'.content = {})
      /\ mine.preexisted => dest'.kind = dest.kind /\ dest'.id = dest.id
  BY <1>6 DEF CloneInv, CloneTypes, Absent
<1>9. CloneTypes' BY <1>1, <1>7, <1>8 DEF CloneInv, CloneTypes, JobPlaces
<1>10. OwnInv' BY <1>1, <1>7, <1>8 DEF OwnInv
<1>11. CheckedInv' BY <1>1, <1>7, <1>8 DEF CloneInv, CheckedInv
<1> QED BY <1>5, <1>9, <1>10, <1>11 DEF CloneInv

\* git fills and tidies the destination only while it runs; others who replace it behind
\* the checks are seen by the ghost.
LEMMA CloneByWorld ==
    ASSUME CloneInv, outcome # "none" => proc # "alive", Others
    PROVE  CloneInv'
<1>1. UNCHANGED <<jobAt, mine, outcome, finished, took>>
  BY OthersTouch DEF cleanVars, procVars, theResult
<1> DEFINE Things == [kind : {"absent", "dir", "file"}, id : {NoIdentity} \cup Identities,
                      content : SUBSET {"old", "user", "clone"}]
<1>2. dest \in Things /\ parent \in Identities /\ (dest.kind = "absent" => dest.content = {})
  BY DEF CloneInv, CloneTypes
<1>3. ASSUME dest' \in Things, dest'.kind = "absent" => dest'.content = {},
             "old" \in dest'.content => "old" \in dest.content,
             parent' \in Identities,
             jobAt = "done" /\ ~stray' => ~stray /\ ("clone" \in dest'.content => "clone" \in dest.content),
             \/ swapped' /\ jobAt \in Cleaning
             \/ /\ UNCHANGED <<parent, swapped>>
                /\ dest.kind = "dir" => dest'.kind = "dir" /\ dest'.id = dest.id
             \/ jobAt \notin Cleaning
      PROVE  CloneInv'
  <2>1. CloneTypes' BY <1>1, <1>3 DEF CloneInv, CloneTypes
  <2>2. OwnInv' BY <1>1, <1>3 DEF CloneInv, OwnInv
  <2>3. CheckedInv' BY <1>1, <1>3 DEF CloneInv, CheckedInv, Cleaning
  <2>4. FinishedIsTruthful'
    <3>1. CASE jobAt = "done" BY <1>1, <1>3, <3>1 DEF CloneInv, FinishedIsTruthful
    <3>2. CASE jobAt # "done"
      <4>1. finished' = <<>> BY <1>1, <3>2 DEF CloneInv, OwnInv
      <4>2. \A t \in took : outcome = "cancelled" /\ mine.owned /\ t.what # "old" /\ t.from # "foreign"
        BY DEF CloneInv, FinishedIsTruthful
      <4> QED BY <1>1, <4>1, <4>2, NothingSaid
    <3> QED BY <3>1, <3>2
  <2> QED BY <2>1, <2>2, <2>3, <2>4 DEF CloneInv
<1>4. CASE GitFillsDest \/ HelperFillsDest
  <2>1. UNCHANGED <<parent, swapped>> /\ dest' \in Filled /\ dest.kind # "file"
    BY <1>4 DEF GitFillsDest, HelperFillsDest
  <2>2. /\ dest' \in Things /\ dest'.kind = "dir"
        /\ "old" \in dest'.content => "old" \in dest.content
        /\ dest.kind = "dir" => dest'.id = dest.id
    BY <1>2, <2>1 DEF Filled, Folder
  <2>3. jobAt = "done" /\ ~stray' => FALSE
    BY <1>4 DEF GitFillsDest, GitRuns, HelperFillsDest, CloneInv, OwnInv
  <2> QED BY <1>3, <1>2, <2>1, <2>2, <2>3 DEF CloneInv
<1>5. CASE GitTidies
  <2>1. /\ UNCHANGED <<parent, swapped, stray>> /\ outcome = "none"
        /\ dest' \in {Absent, [dest EXCEPT !.content = {}]}
    BY <1>5 DEF GitTidies
  <2>2. dest' \in Things /\ dest'.content = {} BY <1>2, <2>1 DEF Absent
  <2>3. jobAt \notin Cleaning /\ jobAt # "done"
    BY <2>1 DEF CloneInv, OwnInv
  <2> QED BY <1>3, <1>2, <2>1, <2>2, <2>3 DEF CloneInv
<1>6. CASE Fill
  <2>1. /\ UNCHANGED <<parent, swapped, stray>> /\ dest.kind = "dir"
        /\ dest' = [dest EXCEPT !.content = @ \cup {"user"}]
    BY <1>6 DEF Fill, Meddles
  <2>2. /\ dest' \in Things /\ dest'.kind = "dir" /\ dest'.id = dest.id
        /\ dest'.content = dest.content \cup {"user"}
    BY <1>2, <2>1
  <2> QED BY <1>2, <1>3, <2>1, <2>2 DEF CloneInv
<1>7. CASE Replace \/ ReplaceParent
  <2>1. Behind /\ jobAt # "done" /\ parent' \in Identities
    BY <1>2, <1>7 DEF Replace, ReplaceParent, Meddles
  <2>2. /\ dest' \in Things /\ (dest'.kind = "absent" => dest'.content = {})
        /\ "old" \in dest'.content => "old" \in dest.content
    <3>1. Absent \in Things /\ File \in Things /\ Absent.content = {} /\ File.kind = "file"
          /\ "old" \notin File.content
      BY DEF Absent, File, Identities
    <3>2. \A id \in Identities : Folder(id, {"user"}) \in Things
                                 /\ Folder(id, {"user"}).kind = "dir"
                                 /\ "old" \notin Folder(id, {"user"}).content
      BY DEF Folder
    <3>3. dest' = Absent \/ dest' = File \/ dest' = dest
          \/ (\E id \in Identities : dest' = Folder(id, {"user"}))
      BY <1>7 DEF Replace, ReplaceParent
    <3> QED BY <1>2, <3>1, <3>2, <3>3
  <2>3. jobAt \in Cleaning => swapped' BY <2>1 DEF Behind, Cleaning
  <2> QED BY <1>3, <2>1, <2>2, <2>3
<1> QED BY <1>4, <1>5, <1>6, <1>7 DEF Others, Meddle

LEMMA CloneInvariant == Spec => []CloneInv
<1>1. Init => CloneInv
  <2> SUFFICES ASSUME Init PROVE CloneInv OBVIOUS
  <2>1. CloneTypes
    BY DEF Init, CloneTypes, JobPlaces, Early, Absent, Folder, Identities
  <2>2. OwnInv /\ CheckedInv BY DEF Init, OwnInv, CheckedInv, Cleaning
  <2>3. FinishedIsTruthful BY DEF Init, FinishedIsTruthful
  <2> QED BY <2>1, <2>2, <2>3 DEF CloneInv
<1>2. ProcInv /\ CloneInv /\ [Next]_vars => CloneInv'
  <2> SUFFICES ASSUME ProcInv, CloneInv, [Next]_vars PROVE CloneInv'
    OBVIOUS
  <2>1. outcome # "none" => outcome' = outcome /\ proc # "alive"
    BY OutcomeKept DEF ProcInv, RunInv, BeforeInv
  <2>2. CASE UNCHANGED cloneVars BY <2>1, <2>2, CloneByOthers DEF cloneVars, destVars, cleanVars
  <2>3. CASE Start \/ ClaimIdentity
    <3>1. outcome' = outcome BY <2>3 DEF Start, ClaimIdentity, procVars, theResult
    <3> QED BY <2>3, <3>1, CloneByClaim DEF Start, ClaimIdentity
  <2>4. CASE StartAskpass \/ RunCloneRepo \/ StopAskpass \/ ForgetAskpass \/ JobThrows \/ Caller
    <3>1. UNCHANGED <<dest, parent, mine, swapped, stray, finished, took>>
      BY <2>4 DEF StartAskpass, RunCloneRepo, StopAskpass, ForgetAskpass, JobThrows, Caller,
                  destVars, cleanVars
    <3>2. /\ jobAt \in Early \cup {"running", "join"}
          /\ jobAt' \in Early \cup {"running", "join", "finish"}
          /\ jobAt' \in {"join", "finish"} => outcome # "none"
      BY <2>4 DEF StartAskpass, RunCloneRepo, StopAskpass, ForgetAskpass, JobThrows, Caller, Early,
                  CloneInv, OwnInv
    <3> QED BY <2>1, <3>1, <3>2, CloneByOthers
  <2>5. CASE EmitFinished \/ CleanUp
    <3>0. outcome' = outcome
      BY <2>5, CleanUpPlaces DEF EmitFinished, procVars, theResult
    <3>1. parent' = parent
      BY <2>5 DEF EmitFinished, CleanUp, CheckPlace, CheckParent, CheckIdentity, ListEntries,
                  RemoveEntry, RemoveFolder, FinalLook, destVars
    <3>2. outcome # "none" \/ jobAt # "finish" BY DEF CloneInv, OwnInv
    <3> QED BY <2>5, <3>0, <3>1, <3>2, CloneByChecks, CloneByRemoval DEF CleanUp
  <2>6. CASE CancelCall \/ ProvideCredential \/ CancelCredential \/ Close \/ Closed \/ World
    BY <2>1, <2>6, CloneByOthers
       DEF CancelCall, ProvideCredential, CancelCredential, Close, Closed, World, cloneVars,
           destVars, cleanVars
  <2>7. CASE Others BY <2>1, <2>7, CloneByWorld
  <2> QED BY <2>2, <2>3, <2>4, <2>5, <2>6, <2>7 DEF Next, Job, vars
<1> QED BY <1>1, <1>2, ProcInvariant, PTL DEF Spec

\* The one CLONE_FINISHED says what became of the destination, and the clean-up of a
\* cancelled clone takes nothing but what is in the place claim() looked at, whatever
\* git, its helpers and other programs do there between any two of its steps.
THEOREM FinishedTellsTheTruth == Spec => []FinishedIsTruthful
BY CloneInvariant, PTL DEF CloneInv

-----------------------------------------------------------------------------
(* Credential prompts *)

\* A step in which the poller, the client, the FFI thread or the job's thread
\* touches the directory.
AskStep ==
    \/ PollerStep \/ ClientLook \/ ClientTake \/ ClientTimeout \/ Answer \/ CancelPrompt
    \/ GitGotAnswer \/ (\E d : ClientStart(d))

\* The steps that write more than one thing, field by field.
UnseenStep ==
    /\ poller' \in PollerType /\ poller'.dir = poller.dir
    /\ poller.at = "look" /\ ~poller.seen /\ ~poller.answered
    /\ \/ /\ poller'.seen /\ ~poller'.answered /\ poller'.at = "raise"
          /\ dir = "there" /\ files.request # 0 /\ raised' = Append(raised, files.request)
       \/ /\ poller'.seen = poller.seen /\ poller'.answered = poller.answered
          /\ poller'.at = "top" /\ raised' = raised
    /\ UNCHANGED <<dir, files, client, dialog, gaveUp>>

LEMMA UnseenFacts == ASSUME AskInv, PollUnseen PROVE UnseenStep
<1>1. /\ poller \in PollerType /\ poller.at = "look" /\ ~poller.seen
      /\ dir = "there"
  BY DEF PollUnseen, AskInv, AskTypes, PromptInv, PollInv, DirInv
<1>2. ~poller.answered BY <1>1 DEF AskInv, PromptInv, PollInv
<1>3. \/ /\ poller' = [poller EXCEPT !.seen = TRUE, !.at = "raise"]
         /\ dir = "there" /\ files.request # 0 /\ raised' = Append(raised, files.request)
      \/ poller' = [poller EXCEPT !.at = "top"] /\ raised' = raised
  BY DEF PollUnseen
<1>4. UNCHANGED <<dir, files, client, dialog, gaveUp>> BY DEF PollUnseen
<1> QED BY <1>1, <1>2, <1>3, <1>4 DEF PollerType, UnseenStep

TakeStep ==
    /\ files' \in FilesType /\ client' \in ClientType
    /\ files'.cancel = files.cancel /\ client'.n = client.n /\ client'.got = client.got
    /\ \/ /\ client.at = "took" /\ client'.at = "took2"
          /\ files'.request = 0 /\ files'.response = files.response
       \/ /\ client.at = "took2" /\ client'.at = "answered"
          /\ files'.request = files.request /\ files'.response = 0
    /\ dir # "there" => files' = files
    /\ UNCHANGED <<dir, poller, raised, dialog, gaveUp>>

LEMMA TakeFacts == ASSUME AskInv, ClientTake PROVE TakeStep
<1>1. files \in FilesType /\ client \in ClientType /\ (dir # "there" => files = NoFiles)
  BY DEF AskInv, AskTypes, PromptInv, DirInv
<1>2. \/ /\ client.at = "took" /\ client' = [client EXCEPT !.at = "took2"]
         /\ files' = IF dir = "there" THEN [files EXCEPT !["request"] = 0] ELSE files
      \/ /\ client.at = "took2" /\ client' = [client EXCEPT !.at = "answered"]
         /\ files' = IF dir = "there" THEN [files EXCEPT !["response"] = 0] ELSE files
  BY DEF ClientTake, WriteHandshakeFile
<1>3. UNCHANGED <<dir, poller, raised, dialog, gaveUp>> BY DEF ClientTake
<1>4. client' \in ClientType /\ client'.n = client.n /\ client'.got = client.got
  BY <1>1, <1>2 DEF ClientType
<1>5. CASE dir = "there" BY <1>1, <1>2, <1>3, <1>4, <1>5 DEF ClientType, FilesType, TakeStep
<1>6. CASE dir # "there"
  BY <1>1, <1>2, <1>3, <1>4, <1>6 DEF ClientType, FilesType, NoFiles, TakeStep
<1> QED BY <1>5, <1>6

StartStep ==
    /\ files' \in FilesType /\ client' \in ClientType
    /\ files'.cancel = files.cancel /\ files'.response = files.response
    /\ client.at = "none" /\ client'.n = client.n + 1 /\ client'.got = 0
    /\ \/ client'.at = "refused" /\ files' = files
       \/ dir = "there" /\ client'.at = "wait" /\ files'.request = client'.n
    /\ UNCHANGED <<dir, poller, raised, dialog, gaveUp>>

LEMMA StartFacts == ASSUME AskInv, NEW d, ClientStart(d) PROVE StartStep
<1>1. files \in FilesType /\ client \in ClientType /\ client.n + 1 \in Nat
  BY DEF AskInv, AskTypes, ClientType
<1>2. client.at = "none" /\ UNCHANGED <<dir, poller, raised, dialog, gaveUp>> BY DEF ClientStart
<1>3. \/ client' = [n |-> client.n + 1, at |-> "refused", got |-> 0] /\ files' = files
      \/ /\ dir = "there" /\ client' = [n |-> client.n + 1, at |-> "wait", got |-> 0]
         /\ files' = [files EXCEPT !["request"] = client.n + 1]
  BY DEF ClientStart, WriteHandshakeFile
<1>4. client' \in ClientType /\ client'.n = client.n + 1 /\ client'.got = 0
  BY <1>1, <1>3 DEF ClientType
<1> QED BY <1>1, <1>2, <1>3, <1>4 DEF FilesType, StartStep

LEMMA AskStepTypes == ASSUME AskInv, AskStep PROVE AskTypes'
<1> USE DEF AskInv, AskTypes
<1>1. CASE PollTop BY <1>1 DEF PollTop, PollerType
<1>2. CASE PollSeen BY <1>2 DEF PollSeen, PollerType
<1>3. CASE PollRearm BY <1>3 DEF PollRearm, PollerType
<1>4. CASE PollUnseen
  <2>1. files.request # 0 => files.request \in Nat \ {0} BY DEF FilesType
  <2>2. UnseenStep BY ONLY AskInv, <1>4, UnseenFacts
  <2>3. raised' \in Seq(Nat \ {0}) BY <2>1, <2>2 DEF UnseenStep
  <2> QED BY <2>2, <2>3 DEF UnseenStep
<1>5. CASE PollRaise BY <1>5 DEF PollRaise, PollerType, PromptInv, PollInv
<1>6. CASE Answer BY <1>6 DEF Answer, WriteHandshakeFile, PollerType, FilesType
<1>7. CASE CancelPrompt BY <1>7 DEF CancelPrompt, WriteHandshakeFile, FilesType
<1>8. CASE ClientLook BY <1>8 DEF ClientLook, ClientType, FilesType
<1>9. CASE ClientTake
  <2>1. TakeStep BY ONLY AskInv, <1>9, TakeFacts
  <2> QED BY <2>1 DEF TakeStep
<1>10. CASE ClientTimeout BY <1>10 DEF ClientTimeout, ClientType
<1>11. CASE GitGotAnswer BY <1>11 DEF GitGotAnswer, ClientType
<1>12. ASSUME NEW d, ClientStart(d) PROVE AskTypes'
  <2>1. StartStep BY ONLY AskInv, <1>12, StartFacts
  <2> QED BY <2>1 DEF StartStep
<1> QED BY <1>1, <1>2, <1>3, <1>4, <1>5, <1>6, <1>7, <1>8, <1>9, <1>10, <1>11, <1>12
        DEF AskStep, PollerStep

LEMMA PromptByStep == ASSUME AskInv, AskTypes', AskStep, jobAt' = jobAt PROVE PromptInv'
<1> USE DEF AskInv, AskTypes, PromptInv, DirInv, NumberInv, PollInv, ClientInv, TurnInv,
            PromptRaisedOnce, SecretAnswersItsPrompt, Armed, Asked, PollerType, FilesType,
            ClientType, NoFiles
<1>1. CASE PollTop BY <1>1 DEF PollTop
<1>2. CASE PollSeen BY <1>2 DEF PollSeen
<1>3. CASE PollRearm BY <1>3 DEF PollRearm
<1>4. CASE PollUnseen
  <2>0. UnseenStep BY ONLY AskInv, <1>4, UnseenFacts
  <2>1. CASE poller'.at = "top"
    <3>1. DirInv' BY <2>0, <2>1 DEF UnseenStep
    <3>2. NumberInv' BY <2>0, <2>1 DEF UnseenStep
    <3>3. PollInv' BY <2>0, <2>1 DEF UnseenStep
    <3>4. ClientInv' BY <2>0, <2>1 DEF UnseenStep
    <3>5. TurnInv' BY <2>0, <2>1 DEF UnseenStep
    <3>6. PromptRaisedOnce' BY <2>0, <2>1 DEF UnseenStep
    <3>7. SecretAnswersItsPrompt' BY <2>0, <2>1 DEF UnseenStep
    <3> QED BY <3>1, <3>2, <3>3, <3>4, <3>5, <3>6, <3>7
  <2>2. CASE poller'.at = "raise"
    <3>a. /\ raised' = Append(raised, files.request) /\ files.request \in Nat \ {0}
          /\ raised \in Seq(Nat \ {0})
          /\ ~Asked(files.request) /\ files.response = 0
      BY <2>0, <2>2 DEF UnseenStep
    <3>b. /\ raised' # <<>> /\ Len(raised') = Len(raised) + 1
          /\ raised'[Len(raised')] = files.request
          /\ \A i \in 1..Len(raised) : raised'[i] = raised[i]
      BY ONLY <3>a, AppendProperties
    <3>1. DirInv' BY <2>0, <2>2, <3>a, <3>b DEF UnseenStep
    <3>2. NumberInv' BY <2>0, <2>2, <3>a, <3>b DEF UnseenStep
    <3>3. PollInv' BY <2>0, <2>2, <3>a, <3>b DEF UnseenStep
    <3>4. ClientInv' BY <2>0, <2>2, <3>a, <3>b DEF UnseenStep
    <3>5. TurnInv' BY <2>0, <2>2, <3>a, <3>b DEF UnseenStep
    <3>6. PromptRaisedOnce' BY <2>0, <2>2, <3>a, <3>b DEF UnseenStep
    <3>7. SecretAnswersItsPrompt' BY <2>0, <2>2, <3>a, <3>b DEF UnseenStep
    <3> QED BY <3>1, <3>2, <3>3, <3>4, <3>5, <3>6, <3>7
  <2> QED BY <2>0, <2>1, <2>2 DEF UnseenStep
<1>5. CASE PollRaise BY <1>5 DEF PollRaise
<1>6. CASE Answer BY <1>6 DEF Answer, WriteHandshakeFile
<1>7. CASE CancelPrompt BY <1>7 DEF CancelPrompt, WriteHandshakeFile
<1>8. CASE ClientLook
  <2>0. UNCHANGED <<dir, files, poller, raised, dialog, gaveUp>> BY <1>8 DEF ClientLook
  <2>1. CASE client' = [client EXCEPT !.at = "refused"]
    <3>a. client.at = "wait" /\ (dir # "there" \/ files.cancel)
      <4>1. client \in ClientType OBVIOUS
      <4> QED BY ONLY <4>1, <1>8, <2>1 DEF ClientLook, ClientType
    <3>b. client'.at = "refused" /\ client'.n = client.n /\ client'.got = client.got
      BY <2>1
    <3>0. client'.at = "refused" /\ client'.n = client.n /\ client'.got = client.got
          /\ client.at = "wait" /\ (dir # "there" \/ files.cancel)
      BY ONLY <3>a, <3>b
    <3>1. DirInv' BY <2>0, <3>0
    <3>2. NumberInv' BY <2>0, <3>0
    <3>3. PollInv' BY <2>0, <3>0
    <3>4. ClientInv' BY <2>0, <3>0
    <3>5. TurnInv' BY <2>0, <3>0
    <3>6. PromptRaisedOnce' BY <2>0, <3>0
    <3>7. SecretAnswersItsPrompt' BY <2>0, <3>0
    <3> QED BY <3>1, <3>2, <3>3, <3>4, <3>5, <3>6, <3>7
  <2>2. CASE client' = [client EXCEPT !.at = "took", !.got = files.response]
    <3>0. /\ client'.at = "took" /\ client'.n = client.n /\ client'.got = files.response
          /\ client.at = "wait" /\ dir = "there" /\ ~files.cancel /\ files.response # 0
      BY <1>8, <2>2 DEF ClientLook
    <3>1. DirInv' BY <2>0, <3>0
    <3>2. NumberInv' BY <2>0, <3>0
    <3>3. PollInv' BY <2>0, <3>0
    <3>4. ClientInv' BY <2>0, <3>0
    <3>5. TurnInv' BY <2>0, <3>0
    <3>6. PromptRaisedOnce' BY <2>0, <3>0
    <3>7. SecretAnswersItsPrompt' BY <2>0, <3>0
    <3> QED BY <3>1, <3>2, <3>3, <3>4, <3>5, <3>6, <3>7
  <2> QED BY <1>8, <2>1, <2>2 DEF ClientLook
<1>9. CASE ClientTake
  <2>0. TakeStep BY ONLY AskInv, <1>9, TakeFacts
  <2>1. DirInv' BY <2>0 DEF TakeStep
  <2>2. NumberInv' BY <2>0 DEF TakeStep
  <2>3. PollInv' BY <2>0 DEF TakeStep
  <2>4. ClientInv' BY <2>0 DEF TakeStep
  <2>5. TurnInv' BY <2>0 DEF TakeStep
  <2>6. PromptRaisedOnce' BY <2>0 DEF TakeStep
  <2>7. SecretAnswersItsPrompt' BY <2>0 DEF TakeStep
  <2> QED BY <2>1, <2>2, <2>3, <2>4, <2>5, <2>6, <2>7
<1>10. CASE ClientTimeout BY <1>10 DEF ClientTimeout
<1>11. CASE GitGotAnswer BY <1>11 DEF GitGotAnswer
<1>12. ASSUME NEW d, ClientStart(d) PROVE PromptInv'
  <2>0. StartStep BY ONLY AskInv, <1>12, StartFacts
  <2>1. DirInv' BY <2>0 DEF StartStep
  <2>2. NumberInv' BY <2>0 DEF StartStep
  <2>3. PollInv' BY <2>0 DEF StartStep
  <2>4. ClientInv' BY <2>0 DEF StartStep
  <2>5. TurnInv' BY <2>0 DEF StartStep
  <2>6. PromptRaisedOnce' BY <2>0 DEF StartStep
  <2>7. SecretAnswersItsPrompt' BY <2>0 DEF StartStep
  <2> QED BY <2>1, <2>2, <2>3, <2>4, <2>5, <2>6, <2>7
<1> QED BY <1>1, <1>2, <1>3, <1>4, <1>5, <1>6, <1>7, <1>8, <1>9, <1>10, <1>11, <1>12
        DEF AskStep, PollerStep
\* run() makes the directory and its poller, and askpass_.stop() ends both.
LEMMA PromptByJob ==
    ASSUME AskInv, StartAskpass \/ StopAskpass \/ ForgetAskpass
    PROVE  AskInv'
<1> USE DEF AskInv, AskTypes, PromptInv, DirInv, NumberInv, PollInv, ClientInv, TurnInv,
            PromptRaisedOnce, SecretAnswersItsPrompt, Armed, Asked, PollerType, FilesType,
            ClientType, NoFiles
<1>1. CASE StartAskpass
  <2>1. /\ dir = "none" /\ files = NoFiles /\ raised = <<>> /\ dialog = 0
        /\ UNCHANGED <<files, client, raised, dialog, gaveUp>> /\ jobAt' = "clone"
    BY <1>1 DEF StartAskpass
  <2>2. \/ dir' = "there" /\ poller' = [poller EXCEPT !.running = TRUE, !.dir = TRUE,
                                           !.seen = FALSE, !.answered = FALSE, !.at = "top"]
        \/ dir' = "none" /\ poller' = poller
    BY <1>1 DEF StartAskpass, MakeRequestDir, PollerStart
  <2>3. poller' \in PollerType
    <3>1. poller \in PollerType OBVIOUS
    <3>2. [poller EXCEPT !.running = TRUE, !.dir = TRUE, !.seen = FALSE, !.answered = FALSE,
                         !.at = "top"] \in PollerType
      BY ONLY <3>1 DEF PollerType
    <3> QED BY ONLY <2>2, <3>1, <3>2
  <2>4. AskTypes' BY <2>1, <2>2, <2>3
  <2>5. PromptRaisedOnce' /\ SecretAnswersItsPrompt' BY <2>1
  <2>6. CASE dir' = "there"
    <3>1. /\ poller'.dir /\ ~poller'.seen /\ ~poller'.answered /\ poller'.at = "top"
          /\ client.at \in {"none", "refused"} /\ Len(raised) = 0
      BY <2>1, <2>2, <2>6
    <3>2. PollInv' BY <2>1, <3>1
    <3> QED BY <2>1, <2>4, <2>5, <2>6, <3>1, <3>2
  <2>7. CASE poller' = poller /\ dir' = dir BY <2>1, <2>4, <2>5, <2>7
  <2> QED BY <2>1, <2>2, <2>6, <2>7
<1>2. CASE StopAskpass
  <2>1. poller' = [poller EXCEPT !.running = FALSE] /\ jobAt' = "join"
        /\ UNCHANGED <<dir, files, client, raised, dialog, gaveUp>>
    BY <1>2 DEF StopAskpass, PollerAskStop
  <2>2. poller' \in PollerType BY <2>1
  <2>3. AskTypes' BY <2>1, <2>2
  <2> QED BY <2>1, <2>3
<1>3. CASE ForgetAskpass
  <2>1. /\ poller' = [poller EXCEPT !.dir = FALSE, !.seen = FALSE, !.answered = FALSE]
        /\ poller.at = "off" /\ jobAt' = "finish"
        /\ dir' = (IF poller.dir THEN "gone" ELSE dir)
        /\ files' = (IF poller.dir THEN NoFiles ELSE files)
        /\ UNCHANGED <<client, raised, dialog, gaveUp>>
    BY <1>3 DEF ForgetAskpass, PollerForget, PollerJoined
  <2>2. /\ poller' \in PollerType /\ poller'.at = "off"
        /\ ~poller'.dir /\ ~poller'.seen /\ ~poller'.answered
    BY <2>1
  <2>3. AskTypes' BY <2>1, <2>2
  <2>4. dir' # "there" /\ files' = NoFiles BY <2>1
  <2>5. dir' = "none" => dir = "none" BY <2>1
  <2>6. DirInv' BY <2>1, <2>2, <2>4, <2>5
  <2>7. PromptRaisedOnce' /\ SecretAnswersItsPrompt' BY <2>1
  <2>8. files'.request = 0 /\ files'.response = 0 BY <2>4
  <2>9. NumberInv' BY <2>1, <2>8
  <2>10. PollInv' BY <2>2, <2>4
  <2>11. ClientInv' /\ TurnInv' BY <2>4, <2>8
  <2> QED BY <2>3, <2>6, <2>7, <2>9, <2>10, <2>11
<1> QED BY <1>1, <1>2, <1>3

LEMMA AskInvariant == Spec => []AskInv
<1>1. Init => AskInv
  BY EmptySeq DEF Init, AskInit, AskInv, AskTypes, PromptInv, DirInv, NumberInv, PollInv, ClientInv,
     TurnInv, PromptRaisedOnce, SecretAnswersItsPrompt, Armed, Asked, PollerType, FilesType,
     ClientType, NoFiles
<1>2. AskInv /\ [Next]_vars => AskInv'
  <2> SUFFICES ASSUME AskInv, [Next]_vars PROVE AskInv' OBVIOUS
  <2>0. ASSUME UNCHANGED askVars, jobAt' \in {"none", "claim", "dir"} => jobAt \in {"none", "claim", "dir"}
        PROVE  AskInv'
    BY <2>0 DEF askVars, AskInv, AskTypes, PromptInv, DirInv, NumberInv, PollInv, ClientInv,
       TurnInv, PromptRaisedOnce, SecretAnswersItsPrompt, Armed, Asked
  <2>1. ASSUME AskStep, jobAt' = jobAt PROVE AskInv'
    BY <2>1, AskStepTypes, PromptByStep DEF AskInv
  <2>2. CASE StartAskpass \/ StopAskpass \/ ForgetAskpass BY <2>2, PromptByJob
  <2>3. CASE ProvideCredential \/ CancelCredential
    BY <2>1, <2>3 DEF ProvideCredential, CancelCredential, AskStep, cloneVars
  <2>4. CASE (PollerStep \/ Client) /\ UNCHANGED <<procVars, cloneVars>>
    BY <2>1, <2>4 DEF Client, AskStep, cloneVars
  <2>5. CASE World
    <3>1. jobAt' = jobAt BY <2>5 DEF World, cloneVars
    <3>2. CASE GitAsks \/ GitGotAnswer BY <2>1, <3>1, <3>2 DEF GitAsks, AskStep
    <3>3. CASE GitWrites \/ GitReads \/ GitExits \/ HelperExits \/ PidRecycled \/ Tick
      BY <2>0, <3>1, <3>3 DEF GitWrites, GitReads, GitExits, HelperExits, PidRecycled, Tick
    <3> QED BY <2>5, <3>2, <3>3 DEF World, Environment
  <2>6. CASE Start \/ ClaimIdentity \/ RunCloneRepo \/ EmitFinished \/ JobThrows \/ Caller
    BY <2>0, <2>6 DEF Start, ClaimIdentity, RunCloneRepo, EmitFinished, Finish, JobThrows, Caller
  <2>7. CASE CancelCall \/ Close \/ Closed
    BY <2>0, <2>7 DEF CancelCall, Close, Closed, cloneVars
  <2>10. CASE CleanUp \/ Others BY <2>0, <2>10, CleanUpPlaces, OthersTouch
  <2>8. CASE (Runner \/ Canceller \/ WindowsHelpers) /\ UNCHANGED cloneVars
    <3>1. UNCHANGED askVars
      BY <2>8 DEF Runner, Canceller, WindowsHelpers, Spawn, OnCancel, Report, CancelCallback,
         PosixRunner, PumpCheck, PumpPoll, Wait, Waitpid, ForgetPid, Terminate, TermLoad, TermKill,
         TermReap, TermForce, WindowsRunner, WinPumpStarts, WinReadLate, WinReadStops, WinRead,
         CancelBlockedIoAndJoin, WinPumpEnds, WinJoinWatchdog, WinWait, WinCancelled, ErrPump,
         InPump, WatchDeadlines, WatchUnblocks
    <3> QED BY <2>0, <2>8, <3>1 DEF cloneVars
  <2>9. CASE UNCHANGED vars BY <2>0, <2>9 DEF vars, cloneVars
  <2> QED BY <2>2, <2>3, <2>4, <2>5, <2>6, <2>7, <2>8, <2>9, <2>10 DEF Next, Job
<1> QED BY <1>1, <1>2, PTL DEF Spec

\* No question reaches the user twice, however poller, client and user interleave
\* and even if clients give up: pollLoop() re-arms only once the request it raised
\* has left the directory.
THEOREM QuestionsAreAskedOnce == Spec => []PromptRaisedOnce
BY AskInvariant, PTL DEF AskInv, PromptInv

\* A client never prints a secret typed for another question, unless a client
\* before it gave up and left its question behind.
THEOREM SecretsReachTheirPrompt == Spec => []SecretAnswersItsPrompt
BY AskInvariant, PTL DEF AskInv, PromptInv
=============================================================================
