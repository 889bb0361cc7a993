------------------------------- MODULE CloneJob -------------------------------
(***************************************************************************)
(* A clone job: a thread that polls for credential prompts around one      *)
(* `git clone`, reports with GBM_EVENT_CLONE_FINISHED, and after a cancel  *)
(* removes what the clone left.  The FFI thread starts, answers, cancels   *)
(* and closes the job; other programs use the destination at the same      *)
(* time: they fill it, replace it, or move it or its parent away, between  *)
(* any two of the file system calls of the job.  In a workload without a   *)
(* job a plain caller runs the command, so that every kind of command is   *)
(* met.                                                                    *)
(***************************************************************************)
EXTENDS ProcessRunner

VARIABLES jobAt,      \* where the job's thread is
          ffi,        \* "free", "closing" or "closed"
          dest,       \* what is at the destination: [kind, id, content]
          parent,     \* the identity of the folder that holds it
          mine,       \* CloneDestination: [owned, preexisted, id, parent]
          finished,   \* the events: [code, removed, error]
          meddled,    \* times others changed the destination
          listed,     \* the entries that the clean-up has still to remove
          swapped,    \* ghost: the destination was replaced behind the clean-up's checks
          took,       \* ghost: what the clean-up removed, and from where: [what, from]
          stray       \* ghost: a helper of git wrote there after the report

destVars == <<dest, parent, mine, meddled, swapped, stray>>
cleanVars == <<finished, listed, took>>
cloneVars == <<jobAt, ffi, destVars, cleanVars>>
vars == <<procVars, askVars, cloneVars>>

CloneCommand ==
    [args |-> <<"clone", "--quiet", "--", "url", "dest">>, timeout |-> 0,
     idleTimeout |-> 0, stdin |-> 0, sinkMayStop |-> FALSE, benign |-> {}, env |-> <<>>]

\* fsutil::fileIdOf(): the device and inode.  A folder may inherit those of a deleted
\* one, so that two are enough: the same and another.  Nothing has none.
Identities == {0, 1}
NoIdentity == -1
\* "file" stands for a link too; the entries are those that were there before the
\* clone, the clone's own and other programs'.
Absent == [kind |-> "absent", id |-> NoIdentity, content |-> {}]
Folder(id, content) == [kind |-> "dir", id |-> id, content |-> content]
File == [kind |-> "file", id |-> 1, content |-> {"user"}]

Init ==
    /\ ProcInit /\ AskInit
    /\ jobAt = "none" /\ ffi = "free" /\ parent = 0 /\ finished = <<>>
    /\ dest \in {Absent, Folder(0, {}), Folder(0, {"old"})}
    /\ (load.meddling = 0 => dest = Absent)
    /\ mine = [owned |-> FALSE, preexisted |-> FALSE, id |-> NoIdentity, parent |-> NoIdentity]
    /\ meddled = 0 /\ listed = {} /\ swapped = FALSE /\ took = {} /\ stray = FALSE

----------------------------------------------------------------------------
(* gbm_clone_start() and the job's thread *)

\* CloneDestination::claim(): ours if it is absent or an empty directory,
Start ==
    /\ load.clone /\ jobAt = "none" /\ ffi = "free" /\ jobAt' = "claim"
    /\ mine' = [mine EXCEPT !.owned = dest = Absent \/ (dest.kind = "dir" /\ dest.content = {}),
                            !.preexisted = dest.kind = "dir" /\ dest.content = {}]
    /\ UNCHANGED <<procVars, askVars, ffi, dest, parent, meddled, swapped, stray, cleanVars>>

\* and then what identifies it: that of its parent, and its own if it was there.
ClaimIdentity ==
    /\ jobAt = "claim" /\ jobAt' = "dir"
    /\ mine' = [mine EXCEPT !.id = IF mine.preexisted THEN dest.id ELSE NoIdentity,
                            !.parent = parent]
    /\ UNCHANGED <<procVars, askVars, ffi, dest, parent, meddled, swapped, stray, cleanVars>>

\* run(): the request directory and its poller; without one git is not wired.
StartAskpass ==
    /\ jobAt = "dir" /\ jobAt' = "clone"
    /\ \E ok \in (IF load.prompts = 0 THEN {FALSE} ELSE BOOLEAN) :
           MakeRequestDir(ok) /\ PollerStart(IF ok THEN "there" ELSE "none")
    /\ UNCHANGED <<procVars, files, client, raised, dialog, gaveUp, ffi, destVars, cleanVars>>

\* runCloneRepo(): one streamed git command.
RunCloneRepo ==
    /\ jobAt = "clone" /\ jobAt' = "running"
    /\ Execute(Wire(CloneCommand, IF dir = "there" THEN "dir" ELSE ""))
    /\ UNCHANGED <<askVars, ffi, destVars, cleanVars>>

\* Something throws before git runs: guardedThread()'s handler takes over.
JobThrows ==
    /\ jobAt = "clone" /\ outcome' = "unknown" /\ jobAt' = "running"
    /\ UNCHANGED <<theCommand, at, back, theToken, theKill, theChild, thePipes, theClock,
                   flags, rc, log, askVars, ffi, destVars, cleanVars>>

\* askpass_.stop(): the thread is asked to leave, joined, then the directory goes.
StopAskpass ==
    /\ jobAt = "running" /\ outcome # "none" /\ jobAt' = "join" /\ PollerAskStop
    /\ UNCHANGED <<procVars, dir, files, client, raised, dialog, gaveUp, ffi, destVars, cleanVars>>

ForgetAskpass ==
    /\ jobAt = "join" /\ PollerJoined /\ jobAt' = "finish" /\ PollerForget
    /\ UNCHANGED <<procVars, client, raised, dialog, gaveUp, ffi, destVars, cleanVars>>

\* emitFinished(): only a cancelled clone is cleaned up.
Cleans == outcome = "cancelled"

Finish(removed, error) ==
    /\ jobAt' = "done"
    /\ finished' = Append(finished, [code |-> outcome, removed |-> removed, error |-> error])

\* The event of a clone that is not cleaned up.
EmitFinished ==
    /\ jobAt = "finish" /\ ~Cleans /\ Finish(FALSE, "none")
    /\ UNCHANGED <<procVars, askVars, ffi, destVars, listed, took>>

\* removeUnfinished() looks at the destination: not ours, gone already, or no longer
\* a directory;
CheckPlace ==
    /\ jobAt = "finish" /\ Cleans
    /\ \/ ~mine.owned /\ Finish(FALSE, "none")
       \/ mine.owned /\ dest.kind = "absent" /\ Finish(TRUE, "none")
       \/ mine.owned /\ dest.kind = "file" /\ Finish(FALSE, "refused")
       \/ mine.owned /\ dest.kind = "dir" /\ jobAt' = "parent" /\ UNCHANGED finished
    /\ UNCHANGED <<procVars, askVars, ffi, destVars, listed, took>>

\* then at its parent,
CheckParent ==
    /\ jobAt = "parent"
    /\ IF parent # mine.parent
       THEN Finish(FALSE, "refused")
       ELSE jobAt' = (IF mine.preexisted THEN "identity" ELSE "list") /\ UNCHANGED finished
    /\ UNCHANGED <<procVars, askVars, ffi, destVars, listed, took>>

\* mutant: the folder itself is not looked at again.
ReplacedUnseen == FALSE
\* and at what identifies the folder that was there before.
Replaced == dest.id # mine.id
CheckIdentity ==
    /\ jobAt = "identity"
    /\ IF Replaced
       THEN Finish(FALSE, "refused")
       ELSE jobAt' = "list" /\ UNCHANGED finished
    /\ UNCHANGED <<procVars, askVars, ffi, destVars, listed, took>>

\* It reads the entries;
ListEntries ==
    /\ jobAt = "list" /\ jobAt' = "remove"
    /\ listed' = IF dest.kind = "dir" THEN dest.content ELSE {}
    /\ UNCHANGED <<procVars, askVars, ffi, destVars, finished, took>>

\* Where an entry is removed from: what claim() identified, what took its place
\* behind the checks, or anything else.
From == IF parent = mine.parent /\ (mine.preexisted => dest.id = mine.id) THEN "claimed"
        ELSE IF swapped THEN "window" ELSE "foreign"
Taking(what) == took' = took \cup {[what |-> w, from |-> From] : w \in what}

\* remove_all() of an entry, by its path: whole, in part, or not at all.
RemoveEntry ==
    /\ jobAt = "remove" /\ UNCHANGED jobAt
    /\ \E e \in listed :
          /\ listed' = listed \ {e}
          /\ \/ Taking({e} \cap dest.content)
                /\ dest' \in {dest, [dest EXCEPT !.content = @ \ {e}]}
             \/ UNCHANGED <<took, dest>>
    /\ UNCHANGED <<procVars, askVars, ffi, parent, mine, meddled, swapped, stray, finished>>

\* A folder that was not there before is removed too, if it is empty now; if something
\* else is there by now, that is.
RemoveFolder ==
    /\ jobAt = "remove" /\ listed = {} /\ jobAt' = "look"
    /\ \/ /\ ~mine.preexisted /\ (dest.kind = "dir" => dest.content = {})
          /\ dest' = Absent /\ Taking(dest.content)
       \/ UNCHANGED <<dest, took>>
    /\ UNCHANGED <<procVars, askVars, ffi, parent, mine, meddled, swapped, stray, finished, listed>>

\* The last look decides what is said: an empty folder (or file) where one was before,
\* nothing where there was none.
FinalLook ==
    /\ jobAt = "look"
    /\ LET clean == IF mine.preexisted THEN dest.kind # "absent" /\ dest.content = {}
                                       ELSE dest.kind = "absent"
       IN  Finish(clean, IF clean THEN "none" ELSE "left")
    /\ UNCHANGED <<procVars, askVars, ffi, destVars, listed, took>>

CleanUp ==
    \/ CheckPlace \/ CheckParent \/ CheckIdentity
    \/ ListEntries \/ RemoveEntry \/ RemoveFolder \/ FinalLook
Job ==
    \/ ClaimIdentity \/ StartAskpass \/ RunCloneRepo \/ StopAskpass \/ ForgetAskpass
    \/ EmitFinished \/ CleanUp

----------------------------------------------------------------------------
(* The FFI thread, busy while a cancel callback runs on it *)

FfiFree ==
    /\ ffi = "free"
    /\ load.clone => at["canceller"] = "off" /\ jobAt # "claim"

\* gbm_clone_cancel(), or for a plain command whoever owns its token.
CancelCall ==
    /\ FfiFree /\ Cancel /\ (load.clone => jobAt # "none")
    /\ UNCHANGED <<askVars, cloneVars>>

\* gbm_clone_provide_credential() and gbm_clone_cancel_credential().
ProvideCredential ==
    /\ FfiFree /\ Answer /\ UNCHANGED <<procVars, cloneVars>>
CancelCredential ==
    /\ FfiFree /\ CancelPrompt /\ UNCHANGED <<procVars, cloneVars>>

\* gbm_clone_close(): ~CloneJob() cancels, joins the thread and leaves.
Close ==
    /\ "close" \in load.rough /\ load.clone /\ FfiFree /\ jobAt # "none" /\ ffi' = "closing"
    /\ IF token.cancelled THEN UNCHANGED procVars ELSE Cancel
    /\ UNCHANGED <<askVars, jobAt, destVars, cleanVars>>

Closed ==
    /\ ffi = "closing" /\ at["canceller"] = "off" /\ jobAt = "done" /\ ffi' = "closed"
    /\ UNCHANGED <<procVars, askVars, jobAt, destVars, cleanVars>>

\* A plain caller: execute() with any command, no directory.
Caller ==
    /\ ~load.clone /\ jobAt = "none" /\ jobAt' = "running"
    /\ Execute(cmd)
    /\ UNCHANGED <<askVars, ffi, destVars, cleanVars>>

----------------------------------------------------------------------------
(* git clone and other programs at the destination, in the workloads in which *)
(* others touch it                                                            *)

Filled == IF dest.kind = "absent" THEN {Folder(id, {"clone"}) : id \in Identities}
                                  ELSE {[dest EXCEPT !.content = @ \cup {"clone"}]}
GitFillsDest ==
    /\ load.meddling > 0 /\ GitRuns /\ dest.kind # "file" /\ "clone" \notin dest.content
    /\ dest' \in Filled
    /\ UNCHANGED <<procVars, askVars, jobAt, ffi, parent, mine, meddled, swapped, stray, cleanVars>>

\* git clone removes what it made when it fails or is asked to end.
GitTidies ==
    /\ load.meddling > 0 /\ proc \in {"alive", "zombie"} /\ outcome = "none"
    /\ "clone" \in dest.content
    /\ dest' \in {Absent, [dest EXCEPT !.content = {}]}
    /\ UNCHANGED <<procVars, askVars, jobAt, ffi, parent, mine, meddled, swapped, stray, cleanVars>>

\* A helper that git started, and that a kill of git did not reach, goes on with the
\* clone (the cancel signals the one pid).
HelperFillsDest ==
    /\ load.meddling > 0 /\ held /\ proc # "alive"
    /\ dest.kind # "file" /\ "clone" \notin dest.content
    /\ dest' \in Filled /\ stray' = (stray \/ jobAt = "done")
    /\ UNCHANGED <<procVars, askVars, jobAt, ffi, parent, mine, meddled, swapped, cleanVars>>

Meddles ==
    /\ load.clone /\ meddled < load.meddling /\ meddled' = meddled + 1
    /\ jobAt \notin {"none", "done"}
    /\ UNCHANGED <<procVars, askVars, jobAt, ffi, mine, stray, cleanVars>>
\* Somebody puts a file into the folder that is there,
Fill ==
    /\ Meddles /\ dest.kind = "dir"
    /\ dest' = [dest EXCEPT !.content = @ \cup {"user"}] /\ UNCHANGED <<parent, swapped>>
\* replaces it, or puts another folder in its parent's place, with the destination or
\* without.
Behind == swapped' = (swapped \/ jobAt \in {"parent", "identity", "list", "remove", "look"})
Replace ==
    /\ Meddles /\ Behind /\ UNCHANGED parent
    /\ dest' \in {Absent, File} \cup {Folder(id, {"user"}) : id \in Identities}
ReplaceParent ==
    /\ Meddles /\ Behind /\ parent' \in Identities \ {parent} /\ dest' \in {Absent, dest}
Meddle == Fill \/ Replace \/ ReplaceParent

Others == GitFillsDest \/ GitTidies \/ HelperFillsDest \/ Meddle
World == Environment /\ UNCHANGED cloneVars

Client == ClientLook \/ ClientTake \/ ("expire" \in load.rough /\ ClientTimeout)

Next ==
    \/ Start \/ Job \/ JobThrows \/ Caller
    \/ CancelCall \/ ProvideCredential \/ CancelCredential \/ Close \/ Closed
    \/ (Runner \/ Canceller \/ WindowsHelpers) /\ UNCHANGED cloneVars
    \/ (PollerStep \/ Client) /\ UNCHANGED <<procVars, cloneVars>>
    \/ World \/ Others

Spec == Init /\ [][Next]_vars

\* Threads run; time passes; a prompt is answered, cancelled or expires; a git
\* whose client gave up ends.  git and its helpers owe nothing else.
Fairness ==
    /\ WF_vars(Job) /\ WF_vars(Closed)
    /\ WF_vars(Runner /\ UNCHANGED cloneVars)
    /\ WF_vars(Canceller /\ UNCHANGED cloneVars)
    /\ WF_vars(ErrPump /\ UNCHANGED cloneVars)
    /\ WF_vars(InPump /\ UNCHANGED cloneVars)
    /\ WF_vars((WatchDeadlines \/ WatchUnblocks) /\ UNCHANGED cloneVars)
    /\ WF_vars(PollerStep /\ UNCHANGED <<procVars, cloneVars>>)
    /\ WF_vars(Client /\ UNCHANGED <<procVars, cloneVars>>)
    /\ WF_vars(Tick /\ UNCHANGED cloneVars)
    /\ WF_vars("expire" \notin load.rough /\ (ProvideCredential \/ CancelCredential))
    /\ WF_vars(GitGotAnswer /\ UNCHANGED cloneVars)
    /\ WF_vars(gaveUp /\ World /\ proc' = "zombie")

FairSpec == Spec /\ Fairness

----------------------------------------------------------------------------
\* Every git invocation ends, whatever git does: a deadline, a cancel or git
\* itself ends it.  For a clone the app gets its one CLONE_FINISHED, and a close
\* that joins the thread returns.
Over ==
    /\ outcome # "none"
    /\ load.clone => jobAt = "done" /\ Len(finished) = 1 /\ ffi # "closing"
EveryInvocationEnds == (jobAt # "none") ~> Over

\* What CLONE_FINISHED says, and what the clean-up of a cancelled clone may take,
\* whatever others do to the destination between any two of its steps.  "removed":
\* nothing of the clone was left at the last look.  "refused": nothing was touched.  A
\* cancelled clone whose destination was ours says one or the other, or what it could
\* not remove.  Nothing is taken unless the clone was cancelled and claim() had found
\* nothing there or an empty folder, and then only what is under the parent, and in the
\* folder if there was one, that claim() identified -- up to the window in which that
\* is replaced after removeUnfinished() has checked it (emitFinished(), claim(),
\* removeUnfinished()).
FinishedIsTruthful ==
    /\ Len(finished) <= 1
    /\ \A t \in took :
          outcome = "cancelled" /\ mine.owned /\ t.what # "old" /\ t.from # "foreign"
    /\ \A i \in DOMAIN finished :
          LET f == finished[i] IN
          /\ f.removed => f.code = "cancelled" /\ mine.owned /\ f.error = "none"
          /\ f.removed /\ ~stray => "clone" \notin dest.content
          /\ f.error = "refused" => took = {}
          /\ f.code = "cancelled" /\ mine.owned => f.removed \/ f.error # "none"
===============================================================================
