----------------------------- MODULE SessionOps -----------------------------
(***************************************************************************)
(* capi::Session's operations against the views they change: submission,   *)
(* the steps of the running operation, the completion hook, the reads it   *)
(* posts and what they publish, with an F5 sweep and another program's ref *)
(* moves in between; and the panes, which the user asks one question after *)
(* another.                                                                *)
(*                                                                         *)
(* Reads of different views share no state, so a behaviour follows one     *)
(* view or one pane, chosen by Init.  The runner's own life cycle is in    *)
(* OperationRunner; here an operation that is refused or cancelled before  *)
(* it starts completes as failed.  The history read is taken by its        *)
(* contract, which SessionRefresh checks (PublishNeverRegresses): a read   *)
(* that a newer one has superseded publishes nothing.                      *)
(***************************************************************************)
EXTENDS SessionRequests, SessionReads

CONSTANTS
    Requests,       \* what the user may ask for: names of Catalogue
    Followers,      \* the requests that may be queued together
    MaxOps,         \* operations submitted
    MaxSweeps,      \* F5 / focus sweeps
    MaxAsks,        \* questions asked of a pane
    MaxTip          \* tips the force-deleted branch goes through

ASSUME RequestsAssumption ==
    /\ Requests \subseteq DOMAIN Catalogue /\ Followers \subseteq Requests
    /\ MaxOps \in Nat /\ MaxSweeps \in Nat /\ MaxAsks \in Nat /\ MaxTip \in Nat

VARIABLES
    view,       \* the view, or the pane, this behaviour follows
    shown,      \* the cached view is what the repository holds, the pane the last answer asked for
    excuse,     \* ghost: why a view at rest may be out of date
    reads,      \* its reads: waiting with an older question, posted, begun on the
                \* present state or question, begun before a change or a newer question
    queue,      \* the runner's operations, the running one first
    pc,         \* the next step of the running one; 0: not started
    outcome,    \* its result: succeeded, mutatedRefs, refsMoved
    touched,    \* ghost: it changed the view
    poller,     \* the operation whose askpass directory is watched, 0: none
    ops,        \* operations submitted
    sweeps,     \* sweeps made, or questions asked
    tip,        \* the branch to force-delete: its tip, 0: deleted
    plain,      \* the branch to delete with -d: "merged", "unmerged" or "gone"
    warned,     \* the tip whose unsynced commits the user was shown, 0: none
    targets,    \* the names the deletion sends to git
    listed,     \* the branch list could be read before
    checked,    \* ghost: the tip that checkForcedTips read
    dropped     \* ghost: what -D deleted: "nothing", the tip the user was "warned" of, one
                \* that came in the "window" after the check, or one nobody was told of

branchVars == <<tip, plain, warned, targets, listed, checked, dropped>>
vars == <<view, shown, excuse, reads, queue, pc, outcome, touched, poller, ops, sweeps, branchVars>>

\* `measured` is a ghost: the operation could read what its failure left behind.
NoOutcome == [succeeded |-> FALSE, mutatedRefs |-> FALSE, refsMoved |-> FALSE, measured |-> FALSE]
Init ==
    /\ view \in Views \cup DOMAIN Panes /\ shown = TRUE /\ excuse = {}
    /\ reads = [waiting |-> 0, posted |-> 0, fresh |-> 0, old |-> 0]
    /\ queue = <<>> /\ pc = 0 /\ outcome = NoOutcome /\ touched = FALSE
    /\ poller = 0 /\ ops = 0 /\ sweeps = 0
    /\ tip = 1 /\ plain \in {"merged", "unmerged"} /\ (view # "refs" => plain = "merged")
    /\ warned = 0 /\ targets = {} /\ listed = FALSE
    /\ checked = 0 /\ dropped = "nothing"

Running == queue # <<>>
Method  == Catalogue[Head(queue).req]
Steps   == Method.steps
Step    == Steps[pc]
AtStep  == Running /\ pc \in DOMAIN Steps
Queued(req) == \E i \in DOMAIN queue : queue[i].req = req

----------------------------------------------------------------------------
\* The repository changes: what is shown is out of date, and so is every read
\* that has begun and every snapshot taken at a submission.
Change(parts, by) ==
    IF view \in parts
    THEN /\ shown' = FALSE /\ excuse' = by
         /\ reads' = [reads EXCEPT !.fresh = 0, !.old = @ + reads.fresh]
         /\ queue' = [i \in DOMAIN queue |-> [queue[i] EXCEPT !.current = FALSE]]
    ELSE UNCHANGED <<shown, excuse, reads, queue>>

\* A method is called.  beginAskpass() replaces the session's one poller at once,
\* whatever is running; it may fail to make the directory.  refsBefore is the
\* cached snapshot.
Submit(req) ==
    /\ view \in Views /\ ops < MaxOps /\ req \in (IF queue = <<>> THEN Requests ELSE Followers)
    /\ queue # <<>> => queue[1].req \in Followers
    /\ req = "delete" => ~Queued("delete") /\ warned # 0
    /\ ops' = ops + 1
    /\ queue' = Append(queue, [req |-> req, id |-> ops + 1, current |-> shown])
    /\ poller' \in IF Catalogue[req].begins THEN {ops + 1, poller} ELSE {poller}
    /\ UNCHANGED <<view, shown, excuse, reads, pc, outcome, touched, sweeps, branchVars>>

\* The runner's preflight refuses, or the operation was cancelled in the queue.
Refuse ==
    /\ Running /\ pc = 0
    /\ pc' = Len(Steps) + 1 /\ outcome' = NoOutcome
    /\ UNCHANGED <<view, shown, excuse, reads, queue, touched, poller, ops, sweeps, branchVars>>
Start ==
    /\ Running /\ pc = 0
    /\ pc' = 1 /\ outcome' = [NoOutcome EXCEPT !.succeeded = TRUE]
    /\ UNCHANGED <<view, shown, excuse, reads, queue, touched, poller, ops, sweeps, branchVars>>

\* A git command succeeds, whether or not there was anything for it to change.
StepOk ==
    /\ AtStep /\ Step.act = "git"
    /\ \/ Change(Step.changes, {}) /\ touched' = (touched \/ view \in Step.changes)
       \/ UNCHANGED <<shown, excuse, reads, queue, touched>>
    /\ pc' = pc + 1
    /\ UNCHANGED <<view, outcome, poller, ops, sweeps, branchVars>>
\* It fails, having changed what it would change, a part of it or nothing; run()
\* returns, unless the step is best effort.
StepFails ==
    /\ AtStep /\ Step.act = "git"
    /\ \/ Change(Step.changes, {}) /\ touched' = (touched \/ view \in Step.changes)
       \/ UNCHANGED <<shown, excuse, reads, queue, touched>>
    /\ pc' = IF Step.best THEN pc + 1 ELSE Len(Steps) + 1
    /\ outcome' = IF Step.best THEN outcome ELSE NoOutcome
    /\ UNCHANGED <<view, poller, ops, sweeps, branchVars>>
\* FetchOperation::refsMovedSinceLastRefresh: against the snapshot of the
\* submission; a failed read answers "moved".
RefsMoved ==
    /\ AtStep /\ Step.act = "refsMoved"
    /\ outcome' \in {[outcome EXCEPT !.refsMoved = m] : m \in {TRUE, ~queue[1].current}}
    /\ pc' = pc + 1
    /\ UNCHANGED <<view, shown, excuse, reads, queue, touched, poller, ops, sweeps, branchVars>>

----------------------------------------------------------------------------
\* DeleteBranchOperation of one forced and one plain name.
Forced == "forced"
Plain  == "plain"
Existing == (IF tip # 0 THEN {Forced} ELSE {}) \cup (IF plain # "gone" THEN {Plain} ELSE {})
DeleteStep(act) == AtStep /\ Step.act = act
StopWith(succeeded, mutated, measured) ==
    /\ pc' = Len(Steps) + 1
    /\ outcome' = [NoOutcome EXCEPT !.succeeded = succeeded, !.mutatedRefs = mutated,
                                    !.measured = measured]
KeepView == UNCHANGED <<view, shown, excuse, reads, queue, touched, poller, ops, sweeps>>

\* readLocalBranchNames before: only live names are sent; all gone is a success.
ListBefore ==
    /\ DeleteStep("listBefore")
    /\ \/ /\ listed' = FALSE /\ targets' = {Forced, Plain} /\ pc' = pc + 1 /\ UNCHANGED outcome
       \/ /\ listed' = TRUE /\ targets' = Existing
          /\ IF Existing = {} THEN StopWith(TRUE, FALSE, TRUE) ELSE pc' = pc + 1 /\ UNCHANGED outcome
    /\ UNCHANGED <<tip, plain, warned, checked, dropped>> /\ KeepView

\* mutant: -D whatever the tip
TipsIgnored == TRUE
\* checkForcedTips: the tip read now is the one the user was warned about.
TipsMatch == tip # 0 /\ tip = warned
CheckTips ==
    /\ DeleteStep("checkTips")
    /\ \/ /\ Forced \notin targets \/ TipsMatch
          /\ pc' = pc + 1 /\ UNCHANGED outcome
       \/ Forced \in targets /\ StopWith(FALSE, FALSE, FALSE)  \* stale, missing or unreadable
    /\ checked' = tip
    /\ UNCHANGED <<tip, plain, warned, targets, listed, dropped>> /\ KeepView

\* mutant: a failed deletion has changed nothing
FailureChangedNothing(gone) == \E readable \in BOOLEAN : StopWith(FALSE, FALSE, listed /\ readable)
\* readLocalBranchNames after a failure; "could not tell" is not "changed".
AfterFailure(gone) ==
    \E readable \in BOOLEAN :
        StopWith(FALSE, listed /\ readable /\ targets \cap gone # {}, listed /\ readable)

\* `branch -D`: whatever the branch holds now.
ForceDelete ==
    /\ DeleteStep("force")
    /\ \/ /\ Forced \in targets => tip # 0
          /\ IF Forced \in targets
             THEN /\ tip' = 0
                  /\ dropped' = CASE tip = warned  -> "warned"
                                  [] tip # checked -> "window"
                                  [] OTHER         -> "untold"
                  /\ Change({"refs"}, {}) /\ touched' = (touched \/ view = "refs")
             ELSE UNCHANGED <<tip, dropped, shown, excuse, reads, queue, touched>>
          /\ pc' = pc + 1 /\ UNCHANGED outcome
       \/ /\ Forced \in targets                         \* gone, or used by a worktree
          /\ AfterFailure({Forced, Plain} \ Existing)
          /\ UNCHANGED <<tip, dropped, shown, excuse, reads, queue, touched>>
    /\ UNCHANGED <<view, poller, ops, sweeps, plain, warned, targets, listed, checked>>
\* `branch -d`: refuses what is not merged.
PlainDelete ==
    /\ DeleteStep("plain")
    /\ \/ /\ Plain \in targets => plain = "merged"
          /\ IF Plain \in targets
             THEN /\ plain' = "gone"
                  /\ Change({"refs"}, {}) /\ touched' = (touched \/ view = "refs")
             ELSE UNCHANGED <<plain, shown, excuse, reads, queue, touched>>
          /\ pc' = pc + 1 /\ UNCHANGED outcome
       \/ /\ Plain \in targets
          /\ AfterFailure({Forced, Plain} \ Existing)
          /\ UNCHANGED <<plain, shown, excuse, reads, queue, touched>>
    /\ UNCHANGED <<view, poller, ops, sweeps, tip, warned, targets, listed, checked, dropped>>

\* requestBranchDeletionProbe: one for-each-ref; the count is of the tip it read.
ProbeDeletion ==
    /\ view \in Views /\ "delete" \in Requests /\ ~Queued("delete") /\ tip # 0 /\ warned # tip
    /\ warned' = tip
    /\ KeepView
    /\ UNCHANGED <<pc, outcome, tip, plain, targets, listed, checked, dropped>>
\* Another program commits to, or deletes, the branch; nothing tells the session.
OutsideMove ==
    /\ view = "refs" /\ warned # 0 /\ tip # 0
    /\ tip' \in {0} \cup {t \in {tip + 1} : t <= MaxTip}
    /\ Change({"refs"}, {"outside"})
    /\ UNCHANGED <<view, pc, outcome, touched, poller, ops, sweeps,
                   plain, warned, targets, listed, checked, dropped>>

----------------------------------------------------------------------------
\* The views the completion hook reads.
ReadBy(m, o) ==
    m.always \cup (IF o.succeeded \/ o.mutatedRefs THEN m.moved ELSE {})
    \cup (IF o.succeeded THEN m.success ELSE {})
    \cup (IF o.succeeded /\ "refsMoved" \in m.success /\ o.refsMoved THEN {"refs"} ELSE {})
\* mutant: onAlways runs only after a success
EndedOnSuccess(m, o) == m.ends /\ o.succeeded
endAskpass(m, o) == m.ends

\* The requests that do not read a view they changed: after a success,
StashesFirst == {"checkoutStash", "mergeStash", "cherryPickStash", "revertStash", "pullStash",
                 "rebaseStash", "rebaseInteractiveStash"}
UnreadAfterSuccess ==
    [stashes |-> StashesFirst, refs |-> {"removeRemote"}, status |-> {"trackLfs", "untrackLfs"}]
\* and after a failure: the hooks read the working copy, these requests' not even
\* that, and nothing else of what the failed command may have changed -- unless the
\* operation measured it.
StatusUnreadAfterFailure ==
    {"stage", "unstage", "stageHunk", "unstageHunk", "stageLines", "unstageLines",
     "discardLines", "commit", "undo", "restore", "clean", "resolveWrite", "resolveRemove",
     "saveStash", "branchFromStash", "addSubmodule", "updateSubmodules", "trackLfs",
     "untrackLfs", "pullLfs", "applyPatch"}
Table(t, v) == IF v \in DOMAIN t THEN t[v] ELSE {}
Unread(req, v) ==
    IF outcome.succeeded THEN req \in Table(UnreadAfterSuccess, v)
                         ELSE (v = "status" => req \in StatusUnreadAfterFailure) /\ ~outcome.measured

Complete ==
    /\ Running /\ pc > Len(Steps)
    /\ LET read == view \in ReadBy(Method, outcome) IN
       /\ reads' = [reads EXCEPT !.posted = @ + IF read THEN 1 ELSE 0]
       /\ excuse' = excuse \cup IF touched /\ ~read /\ Unread(queue[1].req, view)
                                THEN {IF outcome.succeeded THEN "unread" ELSE "failed"} ELSE {}
    /\ poller' = IF endAskpass(Method, outcome) THEN 0 ELSE poller
    /\ queue' = Tail(queue) /\ pc' = 0 /\ outcome' = NoOutcome /\ touched' = FALSE
    /\ targets' = {} /\ listed' = FALSE /\ checked' = 0
    /\ UNCHANGED <<view, shown, ops, sweeps, tip, plain, warned, dropped>>

----------------------------------------------------------------------------
\* The read pool: post() goes to the back of the queue, postFront() to the front.
\* A superseded history read publishes nothing.
NextRead == IF reads.posted > 0 /\ (Front(view) \/ reads.waiting = 0) THEN "posted" ELSE "waiting"
ReadBegin ==
    /\ reads[NextRead] > 0
    /\ reads' = IF view = "refs" THEN [reads EXCEPT !.posted = @ - 1, !.fresh = 1, !.old = 0]
                ELSE LET begun == IF NextRead = "posted" THEN "fresh" ELSE "old"
                     IN [reads EXCEPT ![NextRead] = @ - 1, ![begun] = @ + 1]
    /\ UNCHANGED <<view, shown, excuse, queue, pc, outcome, touched, poller, ops, sweeps, branchVars>>
ReadDone(kind) == reads' = [reads EXCEPT ![kind] = @ - 1]
Publish ==
    /\ \/ reads.fresh > 0 /\ ReadDone("fresh") /\ shown' = TRUE /\ excuse' = {}
       \/ /\ reads.old > 0 /\ ReadDone("old")
          /\ \E replaced \in Replaces(view) :
                /\ shown' = (shown /\ ~replaced)
                /\ excuse' = excuse \cup IF shown /\ replaced THEN {"overtaken"} ELSE {}
    /\ UNCHANGED <<view, queue, pc, outcome, touched, poller, ops, sweeps, branchVars>>
\* A part of the read failed and is shown blank, or all of it and nothing changes.
PublishPart ==
    /\ reads.fresh > 0 /\ Fails(view, "may")
    /\ ReadDone("fresh") /\ shown' = FALSE /\ excuse' = excuse \cup {"readFailed"}
    /\ UNCHANGED <<view, queue, pc, outcome, touched, poller, ops, sweeps, branchVars>>
ReadFails ==
    /\ Fails(view, "must")
    /\ \/ /\ reads.fresh > 0 /\ ReadDone("fresh")
          /\ excuse' = excuse \cup IF shown THEN {} ELSE {"readFailed"}
       \/ reads.old > 0 /\ ReadDone("old") /\ UNCHANGED excuse
    /\ UNCHANGED <<view, shown, queue, pc, outcome, touched, poller, ops, sweeps, branchVars>>
\* refreshRepoStatus() in the UI: F5, or the window regains the focus.  The
\* worktrees panel's requestWorktreePendingCounts() is one more read of its view.
Sweep ==
    /\ view \in Views /\ sweeps < MaxSweeps
    /\ sweeps' = sweeps + 1 /\ reads' = [reads EXCEPT !.posted = @ + 1]
    /\ UNCHANGED <<view, shown, excuse, queue, pc, outcome, touched, poller, ops, branchVars>>
\* The user asks a pane: the answer to a question asked before is not the one awaited.
Ask ==
    /\ view \in DOMAIN Panes /\ sweeps < MaxAsks
    /\ sweeps' = sweeps + 1 /\ shown' = FALSE /\ excuse' = {}
    /\ reads' = [waiting |-> reads.waiting + reads.posted, posted |-> 1,
                 fresh |-> 0, old |-> reads.old + reads.fresh]
    /\ UNCHANGED <<view, queue, pc, outcome, touched, poller, ops, branchVars>>

Next ==
    \/ \E req \in Requests : Submit(req)
    \/ Refuse \/ Start \/ StepOk \/ StepFails \/ RefsMoved
    \/ ListBefore \/ CheckTips \/ ForceDelete \/ PlainDelete \/ ProbeDeletion \/ OutsideMove
    \/ Complete \/ ReadBegin \/ Publish \/ PublishPart \/ ReadFails \/ Sweep \/ Ask
Spec == Init /\ [][Next]_vars

----------------------------------------------------------------------------
AtRest == queue = <<>> /\ \A k \in DOMAIN reads : reads[k] = 0

\* Once every operation and every read has ended, what the session shows is what
\* the repository holds.  After a success that goes for every view the operation has
\* changed, after a failure for the working copy, which is all that a hook reads then
\* (and for everything, where the operation measured what it left) -- up to the
\* requests listed as not reading it, a last read that failed, one overtaken by one
\* that began earlier (two refreshWorkingCopy() may be on the pool at once), and
\* another program's changes.  A pane shows the answer to the last question, unless
\* its read failed or the answer to an older one came later and replaced it
\* (submitOperation(), submitWorkingCopyOperation() and the hooks).
RestIsCurrent == AtRest => shown \/ excuse # {}

\* The askpass directory is not watched when nothing runs: every operation that
\* begins a watch ends one, refused, cancelled or failed.
NoWatchLeftBehind == queue = <<>> => poller = 0

\* `branch -D` deletes the tip whose commits the user was warned about.  The
\* residual window, one process start between the check and the -D, is the only way to lose another.
ForcedDeletesWereWarned == dropped # "untold"

\* "A no-op if beginAskpass() was not called for the operation that just finished":
\* only an operation with a watch of its own ends a watch.
EndAskpassIsItsOwn ==
    [][poller # 0 /\ poller' = 0 => Catalogue[queue[1].req].begins]_vars
=============================================================================
