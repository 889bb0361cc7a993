-------------------------- MODULE SessionOpsProofs --------------------------
(***************************************************************************)
(* For every choice of the requests, and any number of operations, sweeps, *)
(* questions and outside moves: a view at rest shows the repository or has *)
(* a listed excuse, no askpass watch outlives the queue, and `branch -D`   *)
(* deletes only a tip the user was warned of, but for the known window.    *)
(*                                                                         *)
(* The first half proves the catalogue sound, request by request: whatever *)
(* a method's steps change, its completion hook reads after a success, or  *)
(* the request is listed in UnreadAfterSuccess; after a failure it reads   *)
(* the working copy, or the request is in StatusUnreadAfterFailure; and a  *)
(* method that begins a watch ends one.  The second half follows an        *)
(* operation through the queue: what it has touched is what the steps made *)
(* so far can change (TouchInv), so that once it has ended the hook posts  *)
(* a read of it (EndInv), and a view that is out of date has a read under  *)
(* way, an operation that will post one, or an excuse (RestInv).           *)
(***************************************************************************)
EXTENDS SessionOps, TLAPS

\* The steps GitOps is made of.
Acts == {"git", "refsMoved", "listBefore", "checkTips", "force", "plain"}
StepRecords == [act : Acts, changes : SUBSET Views, best : BOOLEAN]

\* The views accounted for when request req, of method m, succeeds: read by its hook
\* or listed as unread; and when it fails.
OnSuccess(req, m) ==
    {v \in Views : v \in m.always \/ v \in m.moved \/ v \in m.success
                   \/ req \in Table(UnreadAfterSuccess, v)}
OnFailure(req, m) ==
    {v \in Views : v \in m.always \/ (v = "status" => req \in StatusUnreadAfterFailure)}
Either(req, m) == OnSuccess(req, m) \cap OnFailure(req, m)

\* Git commands that change nothing but the views in ok.
Accounted(steps, ok) ==
    /\ steps \in Seq(StepRecords)
    /\ \A i \in 1..Len(steps) : steps[i].act = "git" /\ steps[i].changes \subseteq ok

\* A watch begun is ended; a request that is sound in both respects.
EndsWatch(m) == m.begins => m.ends
Sound(req, m) == Accounted(m.steps, Either(req, m)) /\ EndsWatch(m)

-----------------------------------------------------------------------------

\* The fields of a git command.
LEMMA GitStep ==
    ASSUME NEW a \in SUBSET Views
    PROVE  /\ Git(a) \in StepRecords /\ Git(a).act = "git"
           /\ Git(a).changes = a /\ Git(a).best = FALSE
           /\ BestEffort(a) \in StepRecords /\ BestEffort(a).act = "git" /\ BestEffort(a).changes = a
           /\ Check \in StepRecords /\ Check.act = "git" /\ Check.changes = {} /\ Check.best = FALSE
BY DEF Git, BestEffort, Check, StepRecords, Acts

\* The shapes most operations have: checks, then one git command; or two commands.
LEMMA ChecksThenGit ==
    ASSUME NEW ok, NEW a \in SUBSET Views, a \subseteq ok
    PROVE  /\ Accounted(<<Git(a)>>, ok) /\ Accounted(<<BestEffort(a)>>, ok)
           /\ Accounted(<<Check, Git(a)>>, ok)
           /\ Accounted(<<Check, Check, Git(a)>>, ok)
           /\ Accounted(<<Check, Check, Check, Git(a)>>, ok)
           /\ Accounted(<<Git(a), Git(a)>>, ok)
           /\ Accounted(<<Git(a), BestEffort(a)>>, ok)
           /\ Accounted(<<BestEffort(a), BestEffort(a)>>, ok)
<1>1. /\ Git(a) \in StepRecords /\ Git(a).act = "git" /\ Git(a).changes = a
      /\ BestEffort(a) \in StepRecords /\ BestEffort(a).act = "git" /\ BestEffort(a).changes = a
      /\ Check \in StepRecords /\ Check.act = "git" /\ Check.changes = {}
  BY GitStep
<1> QED BY <1>1 DEF Accounted

\* Checks alone change nothing.
LEMMA ChecksOnly ==
    ASSUME NEW ok
    PROVE  /\ Accounted(<<>>, ok) /\ Accounted(<<Check>>, ok)
           /\ Accounted(<<Check, Check, Check, Check>>, ok)
<1>1. Check \in StepRecords /\ Check.act = "git" /\ Check.changes = {}
  BY GitStep
<1> QED BY <1>1 DEF Accounted

\* One part of an operation behind another.
LEMMA Joined ==
    ASSUME NEW ok, NEW s, NEW t, Accounted(s, ok), Accounted(t, ok)
    PROVE  Accounted(s \o t, ok)
<1> DEFINE u == s \o t
<1>1. /\ u \in Seq(StepRecords) /\ Len(u) = Len(s) + Len(t)
      /\ Len(s) \in Nat /\ Len(t) \in Nat
  BY DEF Accounted
<1>2. ASSUME NEW i \in 1..Len(u), i <= Len(s)
      PROVE  u[i] = s[i] /\ i \in 1..Len(s)
  BY <1>1, <1>2 DEF Accounted
<1>3. ASSUME NEW i \in 1..Len(u), ~(i <= Len(s))
      PROVE  u[i] = t[i - Len(s)] /\ i - Len(s) \in 1..Len(t)
  BY <1>1, <1>3 DEF Accounted
<1> HIDE DEF u
<1>4. ASSUME NEW i \in 1..Len(u) PROVE u[i].act = "git" /\ u[i].changes \subseteq ok
  BY <1>2, <1>3 DEF Accounted
<1> QED BY <1>1, <1>4 DEF Accounted, u

\* StashFirst, after the argument check or first of all.
LEMMA StashPrefix ==
    ASSUME NEW ok, NEW stash \in BOOLEAN, stash => {"status", "stashes"} \subseteq ok
    PROVE  /\ Accounted(StashFirst(stash), ok)
           /\ Accounted(<<Check>> \o StashFirst(stash), ok)
<1>1. Accounted(StashFirst(stash), ok)
  <2>1. CASE stash
    <3>1. {"status", "stashes"} \in SUBSET Views BY DEF Views
    <3>2. StashFirst(stash) = <<Git({"status", "stashes"})>> BY <2>1 DEF StashFirst, If
    <3> QED BY <2>1, <3>1, <3>2, ChecksThenGit
  <2>2. CASE ~stash
    BY <2>2, ChecksOnly DEF StashFirst, If
  <2> QED BY <2>1, <2>2
<1> QED BY <1>1, ChecksOnly, Joined

-----------------------------------------------------------------------------

\* UnreadAfterSuccess, by view.
LEMMA SuccessTable ==
    /\ \A r : r \in Table(UnreadAfterSuccess, "stashes") <=> r \in StashesFirst
    /\ \A r : r \in Table(UnreadAfterSuccess, "refs") <=> r = "removeRemote"
    /\ \A r : r \in Table(UnreadAfterSuccess, "status") <=> r \in {"trackLfs", "untrackLfs"}
BY DEF Table, UnreadAfterSuccess

\* An operation behind StashFirst.
LEMMA StashedIsSound ==
    ASSUME NEW req, NEW m, NEW stash \in BOOLEAN, NEW t,
           m.steps = <<Check>> \o StashFirst(stash) \o t \/ m.steps = StashFirst(stash) \o t,
           Accounted(t, Either(req, m)), "status" \in Either(req, m),
           stash => req \in StashesFirst, EndsWatch(m)
    PROVE  Sound(req, m)
<1> DEFINE ok == Either(req, m)
<1>1. stash => {"status", "stashes"} \subseteq ok
  BY SuccessTable DEF Either, OnSuccess, OnFailure, Views
<1> HIDE DEF ok
<1>2. Accounted(StashFirst(stash), ok) /\ Accounted(<<Check>> \o StashFirst(stash), ok)
  BY <1>1, StashPrefix
<1>3. Accounted(<<Check>> \o StashFirst(stash) \o t, ok) /\ Accounted(StashFirst(stash) \o t, ok)
  BY <1>2, Joined DEF ok
<1> QED BY <1>3 DEF Sound, ok

\* The views that every request of Session::submitOperation with a history accounts for.
LEMMA HeadIsRead ==
    ASSUME NEW req, NEW m, m.always = {"status"}, m.moved = HistoryViews
    PROVE  /\ {"refs", "worktrees", "status"} \subseteq Either(req, m)
           /\ HeadViews \cup {"status"} = {"refs", "worktrees", "status"}
           /\ {"refs", "worktrees", "status"} \in SUBSET Views
BY DEF Either, OnSuccess, OnFailure, HistoryViews, HeadViews, Views

\* The requests of Session::submitWorkingCopyOperation that are one command, or the same
\* one twice, behind checks or not.
LEMMA WorkingCopyRequest ==
    ASSUME NEW req, NEW a \in SUBSET Views, NEW success, NEW always, NEW begins, NEW ends,
           begins => ends,
           \A v \in a : v \in success \/ v \in always \/ req \in Table(UnreadAfterSuccess, v),
           \A v \in a : v \in always \/ (v = "status" => req \in StatusUnreadAfterFailure)
    PROVE  /\ Sound(req, submitWorkingCopyOperation(<<Git(a)>>, success, always, begins, ends))
           /\ Sound(req, submitWorkingCopyOperation(<<Check, Git(a)>>, success, always, begins, ends))
           /\ Sound(req, submitWorkingCopyOperation(<<Check, Check, Git(a)>>, success, always,
                                                    begins, ends))
           /\ Sound(req, submitWorkingCopyOperation(<<Check, Check, Check, Git(a)>>, success, always,
                                                    begins, ends))
           /\ Sound(req, submitWorkingCopyOperation(<<Git(a), Git(a)>>, success, always, begins, ends))
           /\ Sound(req, submitWorkingCopyOperation(<<Git(a), BestEffort(a)>>, success, always,
                                                    begins, ends))
           /\ Sound(req, submitWorkingCopyOperation(<<BestEffort(a), BestEffort(a)>>, success, always,
                                                    begins, ends))
<1> DEFINE M(steps) == submitWorkingCopyOperation(steps, success, always, begins, ends)
<1>1. ASSUME NEW steps
      PROVE  a \subseteq Either(req, M(steps)) /\ EndsWatch(M(steps)) /\ M(steps).steps = steps
  BY DEF submitWorkingCopyOperation, Either, OnSuccess, OnFailure, EndsWatch
<1> HIDE DEF M
<1>2. ASSUME NEW steps, \A ok : a \subseteq ok => Accounted(steps, ok) PROVE Sound(req, M(steps))
  BY <1>1, <1>2 DEF Sound
<1>3. /\ Sound(req, M(<<Git(a)>>)) /\ Sound(req, M(<<Check, Git(a)>>))
      /\ Sound(req, M(<<Check, Check, Git(a)>>)) /\ Sound(req, M(<<Check, Check, Check, Git(a)>>))
      /\ Sound(req, M(<<Git(a), Git(a)>>)) /\ Sound(req, M(<<Git(a), BestEffort(a)>>))
      /\ Sound(req, M(<<BestEffort(a), BestEffort(a)>>))
  BY <1>2, ChecksThenGit
<1> QED BY <1>3 DEF M

\* Those of Session::submitOperation.
LEMMA HistoryRequest ==
    ASSUME NEW req, NEW a \in SUBSET Views, NEW history \in BOOLEAN, NEW success,
           \A v \in a : \/ v = "status" \/ (history /\ v \in HistoryViews)
                       \/ v \in success \/ req \in Table(UnreadAfterSuccess, v)
    PROVE  /\ Sound(req, submitOperation(<<Git(a)>>, history, success, FALSE))
           /\ Sound(req, submitOperation(<<Check, Git(a)>>, history, success, FALSE))
<1> DEFINE M(steps) == submitOperation(steps, history, success, FALSE)
<1>1. ASSUME NEW steps
      PROVE  a \subseteq Either(req, M(steps)) /\ EndsWatch(M(steps)) /\ M(steps).steps = steps
  BY DEF submitOperation, Either, OnSuccess, OnFailure, EndsWatch
<1> HIDE DEF M
<1>2. ASSUME NEW steps, \A ok : a \subseteq ok => Accounted(steps, ok) PROVE Sound(req, M(steps))
  BY <1>1, <1>2 DEF Sound
<1>3. Sound(req, M(<<Git(a)>>)) /\ Sound(req, M(<<Check, Git(a)>>))
  BY <1>2, ChecksThenGit
<1> QED BY <1>3 DEF M

\* Checkout, with its options.
LEMMA CheckoutIsSound ==
    /\ Sound("checkout", checkout(FALSE, FALSE))
    /\ Sound("checkoutNew", checkout(FALSE, TRUE))
    /\ Sound("checkoutStash", checkout(TRUE, FALSE))
<1>1. ASSUME NEW req, NEW stash \in BOOLEAN, NEW create \in BOOLEAN, stash => req \in StashesFirst
      PROVE  Sound(req, checkout(stash, create))
  <2> DEFINE m == checkout(stash, create)
             a == HeadViews \cup {"status"} \cup (IF create THEN {"refs"} ELSE {})
  <2>1. /\ m.steps = <<Check>> \o StashFirst(stash) \o <<Git(a)>> /\ EndsWatch(m)
        /\ m.always = {"status"} /\ m.moved = HistoryViews
    BY DEF EndsWatch, checkout, CheckoutOperation, submitOperation
  <2>2. a = {"refs", "worktrees", "status"} BY DEF HeadViews
  <2> HIDE DEF m, a
  <2>3. a \in SUBSET Views /\ a \subseteq Either(req, m) /\ "status" \in Either(req, m)
    BY <2>1, <2>2, HeadIsRead
  <2>4. Accounted(<<Git(a)>>, Either(req, m)) BY <2>3, ChecksThenGit
  <2>5. Sound(req, m) BY <1>1, <2>1, <2>3, <2>4, StashedIsSound
  <2> QED BY <2>5 DEF m
<1> QED BY <1>1 DEF StashesFirst

\* Staging, committing and the working copy.
LEMMA WorkingCopyIsSound ==
    /\ Sound("stage", stageFiles) /\ Sound("unstage", unstageFiles)
    /\ Sound("stageHunk", stageHunk) /\ Sound("unstageHunk", unstageHunk)
    /\ Sound("stageLines", stageLines) /\ Sound("unstageLines", unstageLines)
    /\ Sound("discardLines", discardLines) /\ Sound("commit", commitChanges)
    /\ Sound("restore", restorePaths) /\ Sound("clean", cleanUntracked)
<1> USE WorkingCopyRequest
    DEF Local, Remote, StatusUnreadAfterFailure, Views, HeadViews
<1>1. Sound("stage", stageFiles) /\ Sound("unstage", unstageFiles)
  BY DEF stageFiles, StageFilesOperation, unstageFiles, UnstageFilesOperation
<1>2. Sound("stageHunk", stageHunk) /\ Sound("unstageHunk", unstageHunk)
  BY DEF stageHunk, PartialStageOperation, unstageHunk
<1>3. Sound("stageLines", stageLines) /\ Sound("unstageLines", unstageLines)
  BY DEF stageLines, PartialStageOperation, unstageLines
<1>4. Sound("discardLines", discardLines) /\ Sound("commit", commitChanges)
  BY DEF discardLines, DiscardLinesOperation, commitChanges, CommitOperation
<1>5. Sound("restore", restorePaths) /\ Sound("clean", cleanUntracked)
  BY DEF restorePaths, RestoreOperation, cleanUntracked, CleanOperation
<1> QED BY <1>1, <1>2, <1>3, <1>4, <1>5

\* One command that moves HEAD, behind a check or not.
LEMMA MoveIsSound ==
    ASSUME NEW req, NEW m, NEW success,
           \/ m = submitOperation(<<Git(HeadViews \cup {"status"})>>, TRUE, success, FALSE)
           \/ m = submitOperation(<<Check, Git(HeadViews \cup {"status"})>>, TRUE, success, FALSE)
    PROVE  Sound(req, m)
<1> DEFINE a == HeadViews \cup {"status"}
<1>1. /\ m.steps = <<Git(a)>> \/ m.steps = <<Check, Git(a)>>
      /\ EndsWatch(m) /\ m.always = {"status"} /\ m.moved = HistoryViews
  BY DEF submitOperation, EndsWatch
<1>2. a \in SUBSET Views /\ a \subseteq Either(req, m) BY <1>1, HeadIsRead
<1> HIDE DEF a
<1>3. Accounted(<<Git(a)>>, Either(req, m)) /\ Accounted(<<Check, Git(a)>>, Either(req, m))
  BY <1>2, ChecksThenGit
<1> QED BY <1>1, <1>3 DEF Sound

\* Resetting, undoing, and ending or resuming a merge, a cherry-pick or a rebase.
LEMMA ControlsAreSound ==
    /\ Sound("reset", resetTo) /\ Sound("undo", undoLastOperation)
    /\ Sound("abortMerge", abortMerge) /\ Sound("abortCherryPick", abortCherryPick)
    /\ Sound("continueCherryPick", continueCherryPick) /\ Sound("skipCherryPick", skipCherryPick)
    /\ Sound("abortRebase", abortRebase) /\ Sound("continueRebase", continueRebase)
    /\ Sound("skipRebase", skipRebase) /\ Sound("deleteRemote", deleteBranch(TRUE))
<1>1. Sound("reset", resetTo) /\ Sound("abortMerge", abortMerge)
  BY MoveIsSound DEF resetTo, ResetOperation, abortMerge, MergeAbortOperation
<1>2. /\ Sound("continueCherryPick", continueCherryPick) /\ Sound("skipCherryPick", skipCherryPick)
      /\ Sound("abortCherryPick", abortCherryPick)
  BY MoveIsSound DEF continueCherryPick, skipCherryPick, abortCherryPick, CherryPickControlOperation
<1>3. /\ Sound("continueRebase", continueRebase) /\ Sound("skipRebase", skipRebase)
      /\ Sound("abortRebase", abortRebase)
  BY MoveIsSound DEF continueRebase, skipRebase, abortRebase, RebaseControlOperation
<1> USE WorkingCopyRequest
    DEF Local, Remote, StatusUnreadAfterFailure, Views, HeadViews
<1>4. Sound("undo", undoLastOperation) BY DEF undoLastOperation, UndoOperation
<1>5. Sound("deleteRemote", deleteBranch(TRUE))
  BY HistoryRequest DEF deleteBranch, DeleteBranchOperation, HistoryViews
<1> QED BY <1>1, <1>2, <1>3, <1>4, <1>5

\* The stash list.
LEMMA StashesAreSound ==
    /\ Sound("saveStash", saveStash) /\ Sound("applyStash", applyStash(FALSE))
    /\ Sound("popStash", applyStash(TRUE)) /\ Sound("dropStash", dropStash)
    /\ Sound("branchFromStash", branchFromStash)
<1> USE WorkingCopyRequest
    DEF Local, Remote, StatusUnreadAfterFailure, Views, HeadViews
<1>1. Sound("saveStash", saveStash) /\ Sound("applyStash", applyStash(FALSE))
  BY DEF saveStash, StashSaveOperation, applyStash, StashApplyOperation
<1>2. Sound("popStash", applyStash(TRUE)) /\ Sound("dropStash", dropStash)
  BY DEF applyStash, StashApplyOperation, dropStash, StashDropOperation
<1>3. Sound("branchFromStash", branchFromStash)
  BY DEF branchFromStash, StashBranchOperation
<1> QED BY <1>1, <1>2, <1>3

\* Patches: a mailbox import and its controls, and applying files.
LEMMA PatchesAreSound ==
    /\ Sound("importPatches", importPatches) /\ Sound("continueImport", continueImport)
    /\ Sound("skipImport", skipImport) /\ Sound("abortImport", abortImport)
    /\ Sound("applyPatch", applyPatchFiles)
<1>1. Sound("importPatches", importPatches) /\ Sound("continueImport", continueImport)
  BY MoveIsSound DEF importPatches, ImportPatchesOperation, continueImport, AmContinueOperation
<1>2. Sound("skipImport", skipImport) /\ Sound("abortImport", abortImport)
  BY MoveIsSound DEF skipImport, AmSkipOperation, abortImport, AmAbortOperation
<1>3. Sound("applyPatch", applyPatchFiles)
  BY WorkingCopyRequest
     DEF applyPatchFiles, ApplyPatchFilesOperation, Local, StatusUnreadAfterFailure, Views
<1> QED BY <1>1, <1>2, <1>3

\* Tags and worktrees.
LEMMA TagsAndWorktreesAreSound ==
    /\ Sound("createTag", createTag) /\ Sound("pushTag", pushTag)
    /\ Sound("addWorktree", addWorktree) /\ Sound("removeWorktree", removeWorktree)
    /\ Sound("pruneWorktrees", pruneWorktrees) /\ Sound("lockWorktree", lockWorktree)
    /\ Sound("unlockWorktree", unlockWorktree)
<1> USE WorkingCopyRequest
    DEF Local, Remote, StatusUnreadAfterFailure, Views, HeadViews
<1>1. Sound("createTag", createTag) /\ Sound("pushTag", pushTag)
  BY DEF createTag, CreateTagOperation, pushTag, PushTagOperation
<1>2. Sound("addWorktree", addWorktree) /\ Sound("removeWorktree", removeWorktree)
  BY DEF addWorktree, AddWorktreeOperation, removeWorktree, RemoveWorktreeOperation
<1>3. Sound("pruneWorktrees", pruneWorktrees) /\ Sound("lockWorktree", lockWorktree)
  BY DEF pruneWorktrees, PruneWorktreesOperation, lockWorktree, LockWorktreeOperation
<1>4. Sound("unlockWorktree", unlockWorktree)
  BY DEF unlockWorktree, UnlockWorktreeOperation
<1> QED BY <1>1, <1>2, <1>3, <1>4

\* Remotes and submodules.
LEMMA RemotesAreSound ==
    /\ Sound("push", pushChanges) /\ Sound("addRemote", addRemote)
    /\ Sound("removeRemote", removeRemote) /\ Sound("pruneRemote", pruneRemote(FALSE))
    /\ Sound("addSubmodule", addSubmodule) /\ Sound("initSubmodules", initSubmodules)
    /\ Sound("updateSubmodules", updateSubmodules) /\ Sound("syncSubmodules", syncSubmodules)
    /\ Sound("deinitSubmodules", deinitSubmodules)
<1> USE WorkingCopyRequest, HistoryRequest, SuccessTable
    DEF Local, Remote, StatusUnreadAfterFailure, Views, HeadViews, HistoryViews
<1>1. Sound("push", pushChanges) /\ Sound("addRemote", addRemote)
  BY DEF pushChanges, PushOperation, addRemote, AddRemoteOperation
<1>2. Sound("removeRemote", removeRemote) /\ Sound("pruneRemote", pruneRemote(FALSE))
  BY DEF removeRemote, RemoveRemoteOperation, pruneRemote, PruneRemoteOperation, If
<1>3. Sound("addSubmodule", addSubmodule) /\ Sound("initSubmodules", initSubmodules)
  BY DEF addSubmodule, AddSubmoduleOperation, initSubmodules, InitSubmodulesOperation
<1>4. Sound("updateSubmodules", updateSubmodules) /\ Sound("syncSubmodules", syncSubmodules)
  BY DEF updateSubmodules, UpdateSubmodulesOperation, syncSubmodules, SyncSubmodulesOperation
<1>5. Sound("deinitSubmodules", deinitSubmodules)
  BY DEF deinitSubmodules, DeinitSubmodulesOperation
<1> QED BY <1>1, <1>2, <1>3, <1>4, <1>5

\* Bisection and large files.
LEMMA BisectAndLfsAreSound ==
    /\ Sound("startBisect", startBisect) /\ Sound("markBisect", markBisect)
    /\ Sound("skipBisect", skipBisect) /\ Sound("resetBisect", resetBisect)
    /\ Sound("installLfs", installLfs) /\ Sound("trackLfs", trackLfsPattern)
    /\ Sound("untrackLfs", untrackLfsPattern) /\ Sound("pullLfs", pullLfs)
    /\ Sound("fetchLfs", fetchLfs) /\ Sound("pruneLfs", pruneLfs)
<1> USE WorkingCopyRequest, HistoryRequest, SuccessTable
    DEF Local, Remote, StatusUnreadAfterFailure, Views, HeadViews, HistoryViews
<1>1. Sound("startBisect", startBisect) /\ Sound("markBisect", markBisect)
  BY DEF startBisect, BisectStartOperation, markBisect, BisectMarkOperation
<1>2. Sound("skipBisect", skipBisect) /\ Sound("resetBisect", resetBisect)
  BY DEF skipBisect, BisectSkipOperation, resetBisect, BisectResetOperation
<1>3. Sound("installLfs", installLfs) /\ Sound("trackLfs", trackLfsPattern)
  BY DEF installLfs, LfsInstallOperation, trackLfsPattern, LfsTrackOperation
<1>4. Sound("untrackLfs", untrackLfsPattern) /\ Sound("pullLfs", pullLfs)
  BY DEF untrackLfsPattern, LfsUntrackOperation, pullLfs, LfsPullOperation
<1>5. Sound("fetchLfs", fetchLfs) /\ Sound("pruneLfs", pruneLfs)
  BY DEF fetchLfs, LfsFetchOperation, pruneLfs, LfsPruneOperation
<1> QED BY <1>1, <1>2, <1>3, <1>4, <1>5

\* The identity, patch export, the commit graph and a prune with nothing to prune.
LEMMA RestIsSound ==
    /\ Sound("setIdentity", setLocalIdentityOverride)
    /\ Sound("clearIdentity", clearLocalIdentityOverride)
    /\ Sound("exportPatches", exportPatches)
    /\ Sound("writeCommitGraph", writeCommitGraph)
    /\ Sound("pruneNothing", pruneRemote(TRUE))
<1> USE WorkingCopyRequest
    DEF Local, Remote, StatusUnreadAfterFailure, Views, HeadViews
<1>1. Sound("setIdentity", setLocalIdentityOverride)
  BY DEF setLocalIdentityOverride, SetLocalIdentityOperation
<1>2. Sound("clearIdentity", clearLocalIdentityOverride)
  BY DEF clearLocalIdentityOverride, ClearLocalIdentityOperation
<1>3. Sound("exportPatches", exportPatches)
  <2>1. exportPatches.steps = <<Check, Check, Check, Check>> /\ EndsWatch(exportPatches)
    BY DEF exportPatches, ExportPatchesOperation, Check, submitWorkingCopyOperation, EndsWatch
  <2> QED BY <2>1, ChecksOnly DEF Sound
<1>4. Sound("writeCommitGraph", writeCommitGraph)
  BY DEF writeCommitGraph, WriteCommitGraphOperation
<1>5. Sound("pruneNothing", pruneRemote(TRUE))
  BY ChecksOnly DEF pruneRemote, PruneRemoteOperation, If, submitOperation, Sound, EndsWatch
<1> QED BY <1>1, <1>2, <1>3, <1>4, <1>5

\* Creating and renaming branches.
LEMMA BranchIsSound ==
    /\ Sound("createBranch", createBranch(FALSE)) /\ Sound("createAndCheckout", createBranch(TRUE))
    /\ Sound("rename", renameBranch(FALSE, FALSE)) /\ Sound("renameCase", renameBranch(TRUE, FALSE))
    /\ Sound("renameBoth", renameBranch(FALSE, TRUE))
<1> DEFINE all == HeadViews \cup {"status"}
           Known(ok) == all \subseteq ok /\ HeadViews \subseteq ok /\ {"refs"} \subseteq ok
           Watched(m) == m.always = {"status"} /\ m.moved = HistoryViews /\ EndsWatch(m)
           Rename(s, t) == <<Check>> \o s \o t
<1>1. ASSUME NEW req, NEW m, Watched(m) PROVE Known(Either(req, m))
  BY <1>1, HeadIsRead DEF HeadViews
<1>2. all \in SUBSET Views /\ HeadViews \in SUBSET Views /\ {"refs"} \in SUBSET Views
  BY DEF HeadViews, Views
<1>3. ASSUME NEW ok, Known(ok)
      PROVE  /\ Accounted(<<Check, Git({"refs"})>> \o <<>>, ok)
             /\ Accounted(<<Check, Git({"refs"})>> \o <<Git(all)>>, ok)
  <2>1. all \subseteq ok /\ {"refs"} \subseteq ok BY <1>3
  <2> HIDE DEF all
  <2> QED BY <1>2, <2>1, ChecksThenGit, ChecksOnly, Joined
<1>4. ASSUME NEW ok, Known(ok)
      PROVE  /\ Accounted(Rename(<<Git(HeadViews)>>, <<BestEffort({"refs"})>>), ok)
             /\ Accounted(Rename(<<Git(HeadViews), Git(HeadViews)>>, <<BestEffort({"refs"})>>), ok)
             /\ Accounted(Rename(<<Git(HeadViews)>>, <<Git({"refs"}), Git({"refs"})>>), ok)
  BY <1>2, <1>4, ChecksThenGit, ChecksOnly, Joined
<1>5. /\ createBranch(FALSE).steps = <<Check, Git({"refs"})>> \o <<>> /\ Watched(createBranch(FALSE))
      /\ createBranch(TRUE).steps = <<Check, Git({"refs"})>> \o <<Git(all)>>
      /\ Watched(createBranch(TRUE))
  BY DEF createBranch, CreateBranchOperation, If, submitOperation, EndsWatch
<1>6. /\ renameBranch(FALSE, FALSE).steps = Rename(<<Git(HeadViews)>>, <<BestEffort({"refs"})>>)
      /\ renameBranch(TRUE, FALSE).steps
           = Rename(<<Git(HeadViews), Git(HeadViews)>>, <<BestEffort({"refs"})>>)
      /\ renameBranch(FALSE, TRUE).steps
           = Rename(<<Git(HeadViews)>>, <<Git({"refs"}), Git({"refs"})>>)
  BY DEF renameBranch, RenameBranchOperation, FinishLocalRename, submitOperation
<1>7. /\ Watched(renameBranch(FALSE, FALSE)) /\ Watched(renameBranch(TRUE, FALSE))
      /\ Watched(renameBranch(FALSE, TRUE))
  BY DEF renameBranch, submitOperation, EndsWatch
<1>8. \A m : Watched(m) => EndsWatch(m) OBVIOUS
<1> HIDE DEF all, Known, Watched, Rename
<1> QED BY <1>1, <1>3, <1>4, <1>5, <1>6, <1>7, <1>8 DEF Sound

\* One git command behind a check and StashFirst.
LEMMA PicksAreSound ==
    /\ Sound("cherryPick", cherryPick(FALSE, FALSE))
    /\ Sound("cherryPickStash", cherryPick(TRUE, FALSE))
    /\ Sound("cherryPickNoCommit", cherryPick(FALSE, TRUE))
    /\ Sound("revert", revertCommit(FALSE, FALSE))
    /\ Sound("revertStash", revertCommit(TRUE, FALSE))
    /\ Sound("revertNoCommit", revertCommit(FALSE, TRUE))
    /\ Sound("rebase", startRebase(FALSE)) /\ Sound("rebaseStash", startRebase(TRUE))
    /\ Sound("rebaseInteractive", startInteractiveRebase(FALSE))
    /\ Sound("rebaseInteractiveStash", startInteractiveRebase(TRUE))
<1> DEFINE all == HeadViews \cup {"status"}
           Parts(noCommit) == IF noCommit THEN {"status"} ELSE all
<1>1. ASSUME NEW req, NEW m, NEW t, NEW stash \in BOOLEAN, NEW noCommit \in BOOLEAN,
             m = submitOperation(<<Check>> \o StashFirst(stash) \o t, TRUE, {}, FALSE),
             t = <<Git(Parts(noCommit))>> \/ t = <<Check, Git(Parts(noCommit))>>,
             stash => req \in StashesFirst
      PROVE  Sound(req, m)
  <2> DEFINE a == Parts(noCommit)
  <2>1. /\ m.steps = <<Check>> \o StashFirst(stash) \o t
        /\ EndsWatch(m) /\ m.always = {"status"} /\ m.moved = HistoryViews
    BY <1>1 DEF EndsWatch, submitOperation
  <2>2. "status" \in Either(req, m) /\ a \in SUBSET Views /\ a \subseteq Either(req, m)
    BY <2>1, HeadIsRead DEF Views
  <2>3. t = <<Git(a)>> \/ t = <<Check, Git(a)>> BY <1>1
  <2> HIDE DEF a
  <2>4. Accounted(t, Either(req, m)) BY <2>2, <2>3, ChecksThenGit
  <2> QED BY <1>1, <2>1, <2>2, <2>4, StashedIsSound
<1>2. /\ Sound("cherryPick", cherryPick(FALSE, FALSE)) /\ Sound("cherryPickStash", cherryPick(TRUE, FALSE))
      /\ Sound("cherryPickNoCommit", cherryPick(FALSE, TRUE))
  BY <1>1 DEF cherryPick, CherryPickOperation, StashesFirst
<1>3. /\ Sound("revert", revertCommit(FALSE, FALSE)) /\ Sound("revertStash", revertCommit(TRUE, FALSE))
      /\ Sound("revertNoCommit", revertCommit(FALSE, TRUE))
  BY <1>1 DEF revertCommit, RevertOperation, StashesFirst
<1>4. Sound("rebase", startRebase(FALSE)) /\ Sound("rebaseStash", startRebase(TRUE))
  BY <1>1 DEF startRebase, RebaseOperation, StashesFirst
<1>5. /\ Sound("rebaseInteractive", startInteractiveRebase(FALSE))
      /\ Sound("rebaseInteractiveStash", startInteractiveRebase(TRUE))
  BY <1>1 DEF startInteractiveRebase, RebaseInteractiveOperation, StashesFirst
<1> QED BY <1>2, <1>3, <1>4, <1>5

\* Merging, with a stash first and squashed.
LEMMA MergeIsSound ==
    /\ Sound("merge", mergeBranch(FALSE, FALSE, FALSE))
    /\ Sound("mergeStash", mergeBranch(TRUE, FALSE, FALSE))
    /\ Sound("squash", mergeBranch(FALSE, TRUE, FALSE))
    /\ Sound("squashCommit", mergeBranch(FALSE, TRUE, TRUE))
<1> DEFINE all == HeadViews \cup {"status"}
           Parts(squash) == IF squash THEN {"status"} ELSE all
           Ready(ok, stash) ==
             /\ all \in SUBSET Views /\ all \subseteq ok
             /\ {"status"} \in SUBSET Views /\ {"status"} \subseteq ok
             /\ Accounted(<<Check>> \o StashFirst(stash), ok)
<1>1. ASSUME NEW req, NEW stash \in BOOLEAN, stash => req \in StashesFirst, NEW m,
             m.always = {"status"}, m.moved = HistoryViews
      PROVE  Ready(Either(req, m), stash)
  <2>1. {"refs", "worktrees", "status"} \subseteq Either(req, m) /\ {"status"} \in SUBSET Views
        /\ all = {"refs", "worktrees", "status"} /\ all \in SUBSET Views
    BY <1>1, HeadIsRead DEF Views
  <2>2. stash => {"status", "stashes"} \subseteq Either(req, m)
    BY <1>1, <2>1, SuccessTable DEF Either, OnSuccess, OnFailure, Views
  <2> QED BY <2>1, <2>2, StashPrefix
<1>2. ASSUME NEW req, NEW stash \in BOOLEAN, NEW squash \in BOOLEAN, stash => req \in StashesFirst
      PROVE  Sound(req, mergeBranch(stash, squash, FALSE))
  <2> DEFINE m == mergeBranch(stash, squash, FALSE)
             a == Parts(squash)
             p == <<Check>> \o StashFirst(stash)
             ok == Either(req, m)
  <2>1. /\ m.steps = p \o <<>> \o <<Git(a)>> \o <<>>
        /\ EndsWatch(m) /\ m.always = {"status"} /\ m.moved = HistoryViews
    BY DEF EndsWatch, mergeBranch, submitOperation, MergeOperation, If
  <2> HIDE DEF m
  <2>2. a \in SUBSET Views /\ a \subseteq ok /\ Accounted(p, ok)
    BY <1>1, <1>2, <2>1
  <2> HIDE DEF a, p, ok
  <2>3. Accounted(<<Git(a)>>, ok) /\ Accounted(<<>>, ok) BY <2>2, ChecksThenGit, ChecksOnly
  <2>4. Accounted(p \o <<>> \o <<Git(a)>> \o <<>>, ok) BY <2>2, <2>3, Joined
  <2> QED BY <2>1, <2>4 DEF Sound, m, ok
<1>3. Sound("squashCommit", mergeBranch(FALSE, TRUE, TRUE))
  <2> DEFINE m == mergeBranch(FALSE, TRUE, TRUE)
             t == <<Git({"status"})>>
             p == <<Check>> \o StashFirst(FALSE)
             ok == Either("squashCommit", m)
  <2>1. /\ m.steps = p \o <<Check>> \o t \o CommitSquash
        /\ EndsWatch(m) /\ m.always = {"status"} /\ m.moved = HistoryViews
    BY DEF EndsWatch, mergeBranch, submitOperation, MergeOperation, If
  <2> HIDE DEF m
  <2>2. Ready(ok, FALSE) BY <1>1, <2>1
  <2> HIDE DEF all, ok
  <2>3. Accounted(t, ok) /\ Accounted(CommitSquash, ok)
    BY <2>2, ChecksThenGit DEF CommitSquash, all
  <2>4. Accounted(p, ok) /\ Accounted(<<Check>>, ok) BY <2>2, ChecksOnly
  <2> HIDE DEF p, t, Ready
  <2>5. Accounted(p \o <<Check>> \o t \o CommitSquash, ok) BY <2>3, <2>4, Joined
  <2> QED BY <2>1, <2>5 DEF Sound, m, ok
<1> QED BY <1>2, <1>3 DEF StashesFirst

\* The requests whose second step depends on an option.
LEMMA OptionalStepsAreSound ==
    /\ Sound("resolveWrite", resolveConflict(TRUE))
    /\ Sound("resolveRemove", resolveConflict(FALSE))
    /\ Sound("deleteTag", deleteTag(FALSE)) /\ Sound("deleteTagBoth", deleteTag(TRUE))
    /\ Sound("fetch", fetchRemote(FALSE))
<1> DEFINE s == {"status"}
           r == {"refs"}
<1>1. s \in SUBSET Views /\ r \in SUBSET Views /\ {} \in SUBSET Views BY DEF Views
<1>2. /\ s \subseteq Either("resolveWrite", resolveConflict(TRUE)) /\ EndsWatch(resolveConflict(TRUE))
      /\ s \subseteq Either("resolveRemove", resolveConflict(FALSE)) /\ EndsWatch(resolveConflict(FALSE))
  BY DEF EndsWatch, Local, submitWorkingCopyOperation, Either, OnSuccess, OnFailure,
         StatusUnreadAfterFailure, Views, resolveConflict
<1>3. /\ r \subseteq Either("deleteTag", deleteTag(FALSE)) /\ EndsWatch(deleteTag(FALSE))
      /\ r \subseteq Either("deleteTagBoth", deleteTag(TRUE)) /\ EndsWatch(deleteTag(TRUE))
      /\ r \subseteq Either("fetch", fetchRemote(FALSE)) /\ EndsWatch(fetchRemote(FALSE))
  BY DEF EndsWatch, Remote, submitWorkingCopyOperation, Either, OnSuccess, OnFailure, Views,
         deleteTag, fetchRemote
<1>4. /\ resolveConflict(TRUE).steps = <<Check>> \o <<Git(s)>> \o <<Git(s)>>
      /\ resolveConflict(FALSE).steps = <<Check>> \o <<>> \o <<Git(s)>>
      /\ deleteTag(FALSE).steps = <<Git(r)>> \o <<>>
      /\ deleteTag(TRUE).steps = <<Git(r)>> \o <<Git({})>>
      /\ fetchRemote(FALSE).steps = <<Check, Git(r)>> \o <<>>
  BY DEF resolveConflict, ResolveConflictOperation, deleteTag, DeleteTagOperation, fetchRemote,
         FetchOperation, If, Local, Remote, submitWorkingCopyOperation
<1> HIDE DEF s, r
<1>5. ASSUME NEW ok, s \subseteq ok
      PROVE  /\ Accounted(<<Check>> \o <<Git(s)>> \o <<Git(s)>>, ok)
             /\ Accounted(<<Check>> \o <<>> \o <<Git(s)>>, ok)
  BY <1>1, <1>5, ChecksThenGit, ChecksOnly, Joined
<1>6. ASSUME NEW ok, r \subseteq ok
      PROVE  /\ Accounted(<<Git(r)>> \o <<>>, ok) /\ Accounted(<<Git(r)>> \o <<Git({})>>, ok)
             /\ Accounted(<<Check, Git(r)>> \o <<>>, ok)
  BY <1>1, <1>6, ChecksThenGit, ChecksOnly, Joined
<1> QED BY <1>2, <1>3, <1>4, <1>5, <1>6 DEF Sound

\* Pulling.
LEMMA PullIsSound == Sound("pull", pullChanges(FALSE)) /\ Sound("pullStash", pullChanges(TRUE))
<1>1. ASSUME NEW req \in {"pull", "pullStash"}, NEW stash \in BOOLEAN, stash => req \in StashesFirst
      PROVE  Sound(req, pullChanges(stash))
  <2> DEFINE m == pullChanges(stash)
             a == HeadViews \cup {"status"}
  <2>1. /\ m.steps = StashFirst(stash) \o <<Git(a)>> /\ EndsWatch(m)
        /\ a \in SUBSET Views /\ a \subseteq Either(req, m) /\ "status" \in Either(req, m)
    BY DEF EndsWatch, pullChanges, PullOperation, submitWorkingCopyOperation, HeadViews,
           Either, OnSuccess, OnFailure, Views
  <2> HIDE DEF m, a
  <2>2. Accounted(<<Git(a)>>, Either(req, m)) BY <2>1, ChecksThenGit
  <2>3. Sound(req, m) BY <1>1, <2>1, <2>2, StashedIsSound
  <2> QED BY <2>3 DEF m
<1> QED BY <1>1 DEF StashesFirst

\* The two operations that do more than run git.
LEMMA DeleteSteps ==
    /\ Catalogue["delete"].steps =
         <<Special("listBefore"), Special("checkTips"), Special("force"), Special("plain")>>
    /\ "refs" \in Catalogue["delete"].moved /\ EndsWatch(Catalogue["delete"])
BY DEF EndsWatch, Catalogue, deleteBranch, DeleteBranchOperation, submitOperation, HistoryViews

\* A background fetch reads the refs if it finds them moved.
LEMMA BackgroundFetchSteps ==
    LET m == Catalogue["backgroundFetch"] IN
    /\ m.steps = <<Check, Git({"refs"})>> \o <<Special("refsMoved")>>
    /\ m.success = {"refsMoved"} /\ EndsWatch(m)
BY DEF EndsWatch, Catalogue, fetchRemote, FetchOperation, If,
       submitWorkingCopyOperationReading, submitWorkingCopyOperation

\* Every request the session can make, but the two below, is accounted for.
LEMMA CatalogueIsSound ==
    \A req \in DOMAIN Catalogue \ {"delete", "backgroundFetch"} : Sound(req, Catalogue[req])
<1>1. \A req \in {"stage", "unstage", "stageHunk", "unstageHunk", "stageLines", "unstageLines",
        "discardLines", "commit", "restore", "clean"} :
        Sound(req, Catalogue[req])
  <2>1. /\ Catalogue["stage"] = stageFiles
        /\ Catalogue["unstage"] = unstageFiles
        /\ Catalogue["stageHunk"] = stageHunk
        /\ Catalogue["unstageHunk"] = unstageHunk
        /\ Catalogue["stageLines"] = stageLines
        /\ Catalogue["unstageLines"] = unstageLines
        /\ Catalogue["discardLines"] = discardLines
        /\ Catalogue["commit"] = commitChanges
        /\ Catalogue["restore"] = restorePaths
        /\ Catalogue["clean"] = cleanUntracked
    BY DEF Catalogue
  <2> QED BY <2>1, WorkingCopyIsSound
<1>2. \A req \in {"reset", "undo", "abortMerge", "abortCherryPick", "continueCherryPick",
        "skipCherryPick", "abortRebase", "continueRebase", "skipRebase", "deleteRemote"} :
        Sound(req, Catalogue[req])
  <2>1. /\ Catalogue["reset"] = resetTo
        /\ Catalogue["undo"] = undoLastOperation
        /\ Catalogue["abortMerge"] = abortMerge
        /\ Catalogue["abortCherryPick"] = abortCherryPick
        /\ Catalogue["continueCherryPick"] = continueCherryPick
        /\ Catalogue["skipCherryPick"] = skipCherryPick
        /\ Catalogue["abortRebase"] = abortRebase
        /\ Catalogue["continueRebase"] = continueRebase
        /\ Catalogue["skipRebase"] = skipRebase
        /\ Catalogue["deleteRemote"] = deleteBranch(TRUE)
    BY DEF Catalogue
  <2> QED BY <2>1, ControlsAreSound
<1>3. \A req \in {"saveStash", "applyStash", "popStash", "dropStash", "branchFromStash"} :
        Sound(req, Catalogue[req])
  <2>1. /\ Catalogue["saveStash"] = saveStash
        /\ Catalogue["applyStash"] = applyStash(FALSE)
        /\ Catalogue["popStash"] = applyStash(TRUE)
        /\ Catalogue["dropStash"] = dropStash
        /\ Catalogue["branchFromStash"] = branchFromStash
    BY DEF Catalogue
  <2> QED BY <2>1, StashesAreSound
<1>4. \A req \in {"importPatches", "continueImport", "skipImport", "abortImport", "applyPatch"} :
        Sound(req, Catalogue[req])
  <2>1. /\ Catalogue["importPatches"] = importPatches
        /\ Catalogue["continueImport"] = continueImport
        /\ Catalogue["skipImport"] = skipImport
        /\ Catalogue["abortImport"] = abortImport
        /\ Catalogue["applyPatch"] = applyPatchFiles
    BY DEF Catalogue
  <2> QED BY <2>1, PatchesAreSound
<1>5. \A req \in {"createTag", "pushTag", "addWorktree", "removeWorktree", "pruneWorktrees",
        "lockWorktree", "unlockWorktree"} :
        Sound(req, Catalogue[req])
  <2>1. /\ Catalogue["createTag"] = createTag
        /\ Catalogue["pushTag"] = pushTag
        /\ Catalogue["addWorktree"] = addWorktree
        /\ Catalogue["removeWorktree"] = removeWorktree
        /\ Catalogue["pruneWorktrees"] = pruneWorktrees
        /\ Catalogue["lockWorktree"] = lockWorktree
        /\ Catalogue["unlockWorktree"] = unlockWorktree
    BY DEF Catalogue
  <2> QED BY <2>1, TagsAndWorktreesAreSound
<1>6. \A req \in {"push", "addRemote", "removeRemote", "pruneRemote", "addSubmodule",
        "initSubmodules", "updateSubmodules", "syncSubmodules", "deinitSubmodules"} :
        Sound(req, Catalogue[req])
  <2>1. /\ Catalogue["push"] = pushChanges
        /\ Catalogue["addRemote"] = addRemote
        /\ Catalogue["removeRemote"] = removeRemote
        /\ Catalogue["pruneRemote"] = pruneRemote(FALSE)
        /\ Catalogue["addSubmodule"] = addSubmodule
        /\ Catalogue["initSubmodules"] = initSubmodules
        /\ Catalogue["updateSubmodules"] = updateSubmodules
        /\ Catalogue["syncSubmodules"] = syncSubmodules
        /\ Catalogue["deinitSubmodules"] = deinitSubmodules
    BY DEF Catalogue
  <2> QED BY <2>1, RemotesAreSound
<1>7. \A req \in {"startBisect", "markBisect", "skipBisect", "resetBisect", "installLfs",
        "trackLfs", "untrackLfs", "pullLfs", "fetchLfs", "pruneLfs"} :
        Sound(req, Catalogue[req])
  <2>1. /\ Catalogue["startBisect"] = startBisect
        /\ Catalogue["markBisect"] = markBisect
        /\ Catalogue["skipBisect"] = skipBisect
        /\ Catalogue["resetBisect"] = resetBisect
        /\ Catalogue["installLfs"] = installLfs
        /\ Catalogue["trackLfs"] = trackLfsPattern
        /\ Catalogue["untrackLfs"] = untrackLfsPattern
        /\ Catalogue["pullLfs"] = pullLfs
        /\ Catalogue["fetchLfs"] = fetchLfs
        /\ Catalogue["pruneLfs"] = pruneLfs
    BY DEF Catalogue
  <2> QED BY <2>1, BisectAndLfsAreSound
<1>8. \A req \in {"checkout", "checkoutNew", "checkoutStash"} :
        Sound(req, Catalogue[req])
  <2>1. /\ Catalogue["checkout"] = checkout(FALSE, FALSE)
        /\ Catalogue["checkoutNew"] = checkout(FALSE, TRUE)
        /\ Catalogue["checkoutStash"] = checkout(TRUE, FALSE)
    BY DEF Catalogue
  <2> QED BY <2>1, CheckoutIsSound
<1>9. \A req \in {"setIdentity", "clearIdentity", "exportPatches", "writeCommitGraph",
        "pruneNothing"} :
        Sound(req, Catalogue[req])
  <2>1. /\ Catalogue["writeCommitGraph"] = writeCommitGraph
        /\ Catalogue["setIdentity"] = setLocalIdentityOverride
        /\ Catalogue["clearIdentity"] = clearLocalIdentityOverride
        /\ Catalogue["exportPatches"] = exportPatches
        /\ Catalogue["pruneNothing"] = pruneRemote(TRUE)
    BY DEF Catalogue
  <2> QED BY <2>1, RestIsSound
<1>10. \A req \in {"createBranch", "createAndCheckout", "rename", "renameCase", "renameBoth"} :
        Sound(req, Catalogue[req])
  <2>1. /\ Catalogue["createBranch"] = createBranch(FALSE)
        /\ Catalogue["createAndCheckout"] = createBranch(TRUE)
        /\ Catalogue["rename"] = renameBranch(FALSE, FALSE)
        /\ Catalogue["renameCase"] = renameBranch(TRUE, FALSE)
        /\ Catalogue["renameBoth"] = renameBranch(FALSE, TRUE)
    BY DEF Catalogue
  <2> QED BY <2>1, BranchIsSound
<1>11. \A req \in {"cherryPick", "cherryPickStash", "cherryPickNoCommit", "revert",
        "revertStash", "revertNoCommit", "rebase", "rebaseStash", "rebaseInteractive",
        "rebaseInteractiveStash"} :
        Sound(req, Catalogue[req])
  <2>1. /\ Catalogue["cherryPick"] = cherryPick(FALSE, FALSE)
        /\ Catalogue["cherryPickStash"] = cherryPick(TRUE, FALSE)
        /\ Catalogue["cherryPickNoCommit"] = cherryPick(FALSE, TRUE)
        /\ Catalogue["revert"] = revertCommit(FALSE, FALSE)
        /\ Catalogue["revertStash"] = revertCommit(TRUE, FALSE)
        /\ Catalogue["revertNoCommit"] = revertCommit(FALSE, TRUE)
        /\ Catalogue["rebase"] = startRebase(FALSE)
        /\ Catalogue["rebaseStash"] = startRebase(TRUE)
        /\ Catalogue["rebaseInteractive"] = startInteractiveRebase(FALSE)
        /\ Catalogue["rebaseInteractiveStash"] = startInteractiveRebase(TRUE)
    BY DEF Catalogue
  <2> QED BY <2>1, PicksAreSound
<1>12. \A req \in {"merge", "mergeStash", "squash", "squashCommit"} :
        Sound(req, Catalogue[req])
  <2>1. /\ Catalogue["merge"] = mergeBranch(FALSE, FALSE, FALSE)
        /\ Catalogue["mergeStash"] = mergeBranch(TRUE, FALSE, FALSE)
        /\ Catalogue["squash"] = mergeBranch(FALSE, TRUE, FALSE)
        /\ Catalogue["squashCommit"] = mergeBranch(FALSE, TRUE, TRUE)
    BY DEF Catalogue
  <2> QED BY <2>1, MergeIsSound
<1>13. \A req \in {"resolveWrite", "resolveRemove", "deleteTag", "deleteTagBoth", "fetch"} :
        Sound(req, Catalogue[req])
  <2>1. /\ Catalogue["resolveWrite"] = resolveConflict(TRUE)
        /\ Catalogue["resolveRemove"] = resolveConflict(FALSE)
        /\ Catalogue["deleteTag"] = deleteTag(FALSE)
        /\ Catalogue["deleteTagBoth"] = deleteTag(TRUE)
        /\ Catalogue["fetch"] = fetchRemote(FALSE)
    BY DEF Catalogue
  <2> QED BY <2>1, OptionalStepsAreSound
<1>14. \A req \in {"pull", "pullStash"} :
        Sound(req, Catalogue[req])
  <2>1. /\ Catalogue["pull"] = pullChanges(FALSE)
        /\ Catalogue["pullStash"] = pullChanges(TRUE)
    BY DEF Catalogue
  <2> QED BY <2>1, PullIsSound
<1>15. DOMAIN Catalogue = {"stage", "unstage", "stageHunk", "unstageHunk", "stageLines",
        "unstageLines", "discardLines", "commit", "restore", "clean", "reset", "undo",
        "abortMerge", "abortCherryPick", "continueCherryPick", "skipCherryPick", "abortRebase",
        "continueRebase", "skipRebase", "deleteRemote", "saveStash", "applyStash", "popStash",
        "dropStash", "branchFromStash", "importPatches", "continueImport", "skipImport",
        "abortImport", "applyPatch", "createTag", "pushTag", "addWorktree",
        "pruneWorktrees", "lockWorktree", "unlockWorktree", "push",
        "addRemote", "removeRemote", "pruneRemote", "addSubmodule", "initSubmodules",
        "updateSubmodules", "syncSubmodules", "deinitSubmodules", "writeCommitGraph",
        "startBisect", "markBisect", "skipBisect", "resetBisect", "installLfs", "trackLfs",
        "untrackLfs", "pullLfs", "fetchLfs", "pruneLfs", "checkout", "checkoutNew",
        "checkoutStash", "removeWorktree", "setIdentity", "clearIdentity", "exportPatches",
        "pruneNothing", "createBranch", "createAndCheckout", "rename", "renameCase",
        "renameBoth", "cherryPick", "cherryPickStash", "cherryPickNoCommit", "revert",
        "revertStash", "revertNoCommit", "rebase", "rebaseStash", "rebaseInteractive",
        "rebaseInteractiveStash", "merge", "mergeStash", "squash", "squashCommit",
        "resolveWrite", "resolveRemove", "deleteTag", "deleteTagBoth", "fetch", "pull",
        "pullStash", "delete", "backgroundFetch"}
  BY DEF Catalogue
<1> QED BY <1>1, <1>2, <1>3, <1>4, <1>5, <1>6, <1>7, <1>8, <1>9, <1>10, <1>11, <1>12, <1>13,
           <1>14, <1>15

-----------------------------------------------------------------------------
(* The state and its invariant *)

\* The state.
Entries == [req : Requests, id : Nat, current : BOOLEAN]
ReadKinds == {"waiting", "posted", "fresh", "old"}
ReadCounts == [ReadKinds -> Nat]
Outcomes == [succeeded : BOOLEAN, mutatedRefs : BOOLEAN, refsMoved : BOOLEAN, measured : BOOLEAN]
Types ==
    /\ view \in Views \cup DOMAIN Panes /\ shown \in BOOLEAN
    /\ reads \in ReadCounts
    /\ queue \in Seq(Entries) /\ pc \in Nat
    /\ outcome \in Outcomes
    /\ touched \in BOOLEAN /\ poller \in Nat /\ ops \in Nat
    /\ tip \in Nat /\ warned \in Nat /\ checked \in Nat
    /\ targets \subseteq {Forced, Plain} /\ listed \in BOOLEAN

\* Views have no waiting reads, panes no operations; nothing is touched before the start.
IdleInv ==
    /\ view \in Views => reads.waiting = 0
    /\ view \notin Views => queue = <<>>
    /\ queue = <<>> => pc = 0
    /\ pc = 0 => ~touched

\* The watch is that of a queued operation which began one.
WatchInv ==
    poller # 0 => \E i \in DOMAIN queue : queue[i].id = poller /\ Catalogue[queue[i].req].begins

\* -D runs only with the tip checked being the one warned of.
ForceInv ==
    /\ dropped # "untold"
    /\ AtStep /\ Step.act = "force" /\ Forced \in targets => checked = warned

\* What the running operation has changed so far, and that it has not failed yet.
TouchInv ==
    AtStep =>
        /\ outcome.succeeded
        /\ touched =>
             /\ ~queue[1].current
             /\ IF queue[1].req = "delete"
                THEN pc = 4 /\ view = "refs" /\ Forced \in targets /\ tip = 0
                ELSE \E j \in 1..(pc - 1) : view \in Steps[j].changes

\* What an operation has changed when it ends is read by its hook or listed.
EndInv ==
    Running /\ pc > Len(Steps) /\ touched =>
        view \in ReadBy(Method, outcome) \/ Unread(queue[1].req, view)

\* A view out of date has an excuse, a read under way or an operation that touched it.
RestInv == shown \/ excuse # {} \/ reads.posted > 0 \/ reads.fresh > 0 \/ touched

\* Where in the catalogue the special steps are.
LEMMA StepKinds ==
    ASSUME NEW req \in DOMAIN Catalogue
    PROVE  /\ Catalogue[req].steps \in Seq(StepRecords)
           /\ \A i \in 1..Len(Catalogue[req].steps) :
                LET s == Catalogue[req].steps[i] IN
                /\ s.act = "refsMoved" => req = "backgroundFetch" /\ i = 3
                /\ s.act = "listBefore" => req = "delete" /\ i = 1
                /\ s.act = "checkTips" => req = "delete" /\ i = 2
                /\ s.act = "force" => req = "delete" /\ i = 3
                /\ s.act = "plain" => req = "delete" /\ i = 4
                /\ s.act = "git" => req # "delete"
           /\ req = "delete" =>
                Len(Catalogue[req].steps) = 4 /\ Catalogue[req].steps[2].act = "checkTips"
           /\ req = "backgroundFetch" =>
                Len(Catalogue[req].steps) = 3 /\ Catalogue[req].steps[3].act = "refsMoved"
<1>1. \A act \in Acts : Special(act) \in StepRecords /\ Special(act).act = act
  BY DEF Special, StepRecords
<1>2. CASE req = "delete"
  <2> DEFINE d == <<Special("listBefore"), Special("checkTips"), Special("force"), Special("plain")>>
  <2>1. Catalogue[req].steps = d BY <1>2, DeleteSteps
  <2>2. d \in Seq(StepRecords) /\ Len(d) = 4 BY <1>1 DEF Acts
  <2>3. /\ d[1].act = "listBefore" /\ d[2].act = "checkTips" /\ d[3].act = "force" /\ d[4].act = "plain"
    BY <1>1 DEF Acts
  <2> HIDE DEF d
  <2> QED BY <1>2, <2>1, <2>2, <2>3
<1>3. CASE req = "backgroundFetch"
  <2> DEFINE b == <<Check, Git({"refs"})>>
             f == b \o <<Special("refsMoved")>>
  <2>1. Catalogue[req].steps = f BY <1>3, BackgroundFetchSteps
  <2>2. Check \in StepRecords /\ Check.act = "git" BY GitStep
  <2>3. Git({"refs"}) \in StepRecords /\ Git({"refs"}).act = "git" BY GitStep DEF Views
  <2>4. Special("refsMoved") \in StepRecords /\ Special("refsMoved").act = "refsMoved"
    BY <1>1 DEF Acts
  <2>5. b \in Seq(StepRecords) /\ Len(b) = 2 BY <2>2, <2>3
  <2>6. f \in Seq(StepRecords) /\ Len(f) = 3 BY <2>4, <2>5
  <2>7. f[1] = Check /\ f[2] = Git({"refs"}) /\ f[3] = Special("refsMoved")
    BY <2>4, <2>5
  <2> HIDE DEF b, f
  <2> QED BY <1>3, <2>1, <2>2, <2>3, <2>4, <2>6, <2>7
<1>4. CASE req \notin {"delete", "backgroundFetch"}
  BY <1>4, CatalogueIsSound DEF Sound, Accounted
<1> QED BY <1>2, <1>3, <1>4

\* What a step changes is accounted for, after a success and after a failure.
LEMMA Effects ==
    ASSUME NEW req \in DOMAIN Catalogue, req # "delete",
           NEW i \in 1..Len(Catalogue[req].steps)
    PROVE  LET m == Catalogue[req]  s == m.steps[i] IN
           /\ req # "backgroundFetch" => s.changes \subseteq OnSuccess(req, m)
           /\ s.changes \subseteq OnFailure(req, m)
           /\ req = "backgroundFetch" => s.changes \subseteq {"refs"}
<1> DEFINE m == Catalogue[req]
<1>1. CASE req = "backgroundFetch"
  <2> DEFINE b == <<Check, Git({"refs"})>>
             f == b \o <<Special("refsMoved")>>
  <2>1. m.steps = f BY <1>1, BackgroundFetchSteps
  <2>2. Check \in StepRecords /\ Check.changes = {} BY GitStep
  <2>3. Git({"refs"}) \in StepRecords /\ Git({"refs"}).changes = {"refs"} BY GitStep DEF Views
  <2>4. Special("refsMoved") \in StepRecords /\ Special("refsMoved").changes = {}
    BY DEF Special, StepRecords, Acts
  <2>5. b \in Seq(StepRecords) /\ Len(b) = 2 BY <2>2, <2>3
  <2>6. f \in Seq(StepRecords) /\ Len(f) = 3 BY <2>4, <2>5
  <2>7. f[1] = Check /\ f[2] = Git({"refs"}) /\ f[3] = Special("refsMoved")
    BY <2>4, <2>5
  <2>8. {"refs"} \subseteq OnFailure(req, m) BY DEF OnFailure, Views
  <2> HIDE DEF b, f, m
  <2>9. i \in {1, 2, 3} BY <2>1, <2>6 DEF m
  <2> QED BY <1>1, <2>1, <2>2, <2>3, <2>4, <2>7, <2>8, <2>9 DEF m
<1>2. CASE req # "backgroundFetch"
  BY <1>2, CatalogueIsSound DEF Sound, Accounted, Either
<1> QED BY <1>1, <1>2

\* The running operation.
LEMMA HeadFacts ==
    ASSUME Types, Running
    PROVE  /\ Head(queue) = queue[1] /\ queue[1] \in Entries /\ queue[1].req \in DOMAIN Catalogue
           /\ Len(queue) \in Nat \ {0} /\ DOMAIN queue = 1..Len(queue)
           /\ Steps = Catalogue[queue[1].req].steps /\ Method = Catalogue[queue[1].req]
           /\ Steps \in Seq(StepRecords) /\ Len(Steps) \in Nat /\ DOMAIN Steps = 1..Len(Steps)
<1>1. /\ Head(queue) = queue[1] /\ queue[1] \in Entries
      /\ Len(queue) \in Nat \ {0} /\ DOMAIN queue = 1..Len(queue)
  BY DEF Types, Running
<1>2. queue[1].req \in DOMAIN Catalogue
  BY <1>1, RequestsAssumption DEF Entries
<1>3. Steps = Catalogue[queue[1].req].steps /\ Method = Catalogue[queue[1].req]
  BY <1>1 DEF Steps, Method
<1>4. Steps \in Seq(StepRecords)
  BY <1>2, <1>3, StepKinds
<1> QED BY <1>1, <1>2, <1>3, <1>4

\* The queue holds the same operations in the same order.
SameRequests ==
    /\ queue' \in Seq(Entries) /\ Len(queue') = Len(queue)
    /\ \A i \in 1..Len(queue) : queue'[i].req = queue[i].req /\ queue'[i].id = queue[i].id

\* What Change does to the view, its reads and the queue.
LEMMA ChangeFacts ==
    ASSUME Types, NEW parts, NEW by, Change(parts, by)
    PROVE  /\ SameRequests
           /\ shown' \in BOOLEAN /\ reads' \in ReadCounts
           /\ reads'.waiting = reads.waiting /\ reads'.posted = reads.posted
           /\ view \in parts => /\ ~shown' /\ excuse' = by
                                /\ \A i \in 1..Len(queue) : ~queue'[i].current
           /\ view \notin parts => UNCHANGED <<shown, excuse, reads, queue>>
<1>1. CASE view \in parts
  <2>1. /\ shown' = FALSE /\ excuse' = by
        /\ reads' = [reads EXCEPT !.fresh = 0, !.old = @ + reads.fresh]
        /\ queue' = [i \in DOMAIN queue |-> [queue[i] EXCEPT !.current = FALSE]]
    BY <1>1 DEF Change
  <2>2. queue \in Seq(Entries) /\ Len(queue) \in Nat /\ DOMAIN queue = 1..Len(queue)
    BY DEF Types
  <2>3. \A i \in 1..Len(queue) : /\ queue'[i] \in Entries /\ queue'[i].req = queue[i].req
                                 /\ queue'[i].id = queue[i].id /\ ~queue'[i].current
    <3> TAKE i \in 1..Len(queue)
    <3>1. queue[i] \in Entries /\ queue'[i] = [queue[i] EXCEPT !.current = FALSE] BY <2>1, <2>2
    <3> QED BY <3>1 DEF Entries
  <2>4. queue' \in Seq(Entries) /\ Len(queue') = Len(queue)
    BY <2>1, <2>2, <2>3
  <2>5. reads' \in ReadCounts /\ reads'.waiting = reads.waiting /\ reads'.posted = reads.posted
    <3>1. reads \in ReadCounts /\ reads' = [reads EXCEPT !.fresh = 0, !.old = @ + reads.fresh]
      BY <2>1 DEF Types
    <3>2. PICK x \in Nat : x = reads["old"] + reads["fresh"] BY <3>1 DEF ReadCounts, ReadKinds
    <3>3. reads' = [reads EXCEPT !["fresh"] = 0, !["old"] = x] BY <3>1, <3>2 DEF ReadCounts, ReadKinds
    <3>4. reads' \in ReadCounts BY <3>1, <3>3 DEF ReadCounts, ReadKinds
    <3> QED BY <3>1, <3>3, <3>4 DEF ReadCounts, ReadKinds
  <2> QED BY <1>1, <2>1, <2>3, <2>4, <2>5 DEF SameRequests
<1>2. CASE view \notin parts
  BY <1>2 DEF Change, Types, ReadCounts, SameRequests
<1> QED BY <1>1, <1>2

\* The initial state.
LEMMA InitTypes == Init => Types /\ IdleInv
<1> SUFFICES ASSUME Init PROVE Types /\ IdleInv OBVIOUS
<1>1. queue \in Seq(Entries) BY DEF Init
<1>2. outcome \in Outcomes BY DEF Init, NoOutcome, Outcomes
<1>3. reads \in ReadCounts /\ reads.waiting = 0 BY DEF Init, ReadCounts, ReadKinds
<1> QED BY <1>1, <1>2, <1>3 DEF Init, Types, IdleInv

\* Types, after a step that keeps the requests.
LEMMA ChangedTypes ==
    ASSUME Types, SameRequests, shown' \in BOOLEAN, reads' \in ReadCounts,
           pc' \in Nat, outcome' \in Outcomes, touched' \in BOOLEAN, tip' \in Nat, checked' \in Nat,
           warned' \in Nat, targets' \subseteq {Forced, Plain}, listed' \in BOOLEAN,
           UNCHANGED <<view, poller, ops>>
    PROVE  Types'
BY DEF Types, SameRequests, ReadCounts, Outcomes, Entries, Forced, Plain

\* An unchanged queue holds the same requests.
LEMMA Unchanged == ASSUME Types, UNCHANGED queue PROVE SameRequests
BY DEF Types, SameRequests

\* Outcomes stay outcomes.
LEMMA OutcomesTyped ==
    /\ NoOutcome \in Outcomes /\ [NoOutcome EXCEPT !.succeeded = TRUE] \in Outcomes
    /\ \A s, m, x \in BOOLEAN :
         [NoOutcome EXCEPT !.succeeded = s, !.mutatedRefs = m, !.measured = x] \in Outcomes
    /\ \A o \in Outcomes, m \in BOOLEAN : [o EXCEPT !.refsMoved = m] \in Outcomes
BY DEF NoOutcome, Outcomes

\* A deletion refused: stale, missing or unreadable tips.
LEMMA StopFF ==
    ASSUME Types, Running, StopWith(FALSE, FALSE, FALSE)
    PROVE  pc' = Len(Steps) + 1 /\ pc' \in Nat /\ outcome' = NoOutcome
<1>1. Len(Steps) \in Nat BY HeadFacts
<1>2. pc' = Len(Steps) + 1 BY DEF StopWith
<1>3. outcome' = NoOutcome BY DEF StopWith, NoOutcome
<1> QED BY <1>1, <1>2, <1>3

\* A deletion with nothing left to delete.
LEMMA StopTT ==
    ASSUME Types, Running, StopWith(TRUE, FALSE, TRUE)
    PROVE  pc' = Len(Steps) + 1 /\ pc' \in Nat /\ outcome' \in Outcomes /\ outcome'.succeeded
<1>1. Len(Steps) \in Nat BY HeadFacts
<1>2. pc' = Len(Steps) + 1 BY DEF StopWith
<1>3. outcome' = [succeeded |-> TRUE, mutatedRefs |-> FALSE, refsMoved |-> FALSE, measured |-> TRUE]
  BY DEF StopWith, NoOutcome
<1> QED BY <1>1, <1>2, <1>3 DEF Outcomes

\* A deletion that failed: a measured outcome says whether a target is gone.
LEMMA FailureFacts ==
    ASSUME Types, Running, NEW gone, AfterFailure(gone)
    PROVE  /\ pc' = Len(Steps) + 1 /\ pc' \in Nat /\ outcome' \in Outcomes /\ ~outcome'.succeeded
           /\ outcome'.measured => (outcome'.mutatedRefs <=> targets \cap gone # {})
<1>1. Len(Steps) \in Nat BY HeadFacts
<1>2. PICK readable \in BOOLEAN :
        StopWith(FALSE, listed /\ readable /\ targets \cap gone # {}, listed /\ readable)
  BY DEF AfterFailure
<1>3. pc' = Len(Steps) + 1 BY <1>2 DEF StopWith
<1>4. PICK x \in BOOLEAN, m \in BOOLEAN :
        x = (listed /\ readable) /\ m = (listed /\ readable /\ targets \cap gone # {})
  OBVIOUS
<1>5. outcome' = [succeeded |-> FALSE, mutatedRefs |-> m, refsMoved |-> FALSE, measured |-> x]
  BY <1>2, <1>4 DEF StopWith, NoOutcome
<1>6. x => (m <=> targets \cap gone # {}) BY <1>4
<1> QED BY <1>1, <1>3, <1>5, <1>6 DEF Outcomes

\* All the branches to delete are gone already.
ListStops == pc' = Len(Steps) + 1 /\ outcome' \in Outcomes /\ outcome'.succeeded

\* The outcomes of listing the branches,
LEMMA ListBeforeCases ==
    ASSUME Types, ListBefore
    PROVE  /\ AtStep /\ Step.act = "listBefore"
           /\ ListStops \/ (pc' = pc + 1 /\ outcome' = outcome)
<1>1. CASE StopWith(TRUE, FALSE, TRUE)
  <2>1. AtStep /\ Step.act = "listBefore" BY DEF ListBefore, DeleteStep
  <2>2. ListStops BY <1>1, <2>1, StopTT DEF AtStep, ListStops
  <2> QED BY <2>1, <2>2
<1>2. CASE ~StopWith(TRUE, FALSE, TRUE)
  BY <1>2 DEF ListBefore, DeleteStep
<1> QED BY <1>1, <1>2

\* of checking the tips,
LEMMA CheckTipsCases ==
    ASSUME Types, CheckTips
    PROVE  /\ AtStep /\ Step.act = "checkTips" /\ checked' = tip
           /\ \/ /\ Forced \in targets => tip = warned
                 /\ pc' = pc + 1 /\ outcome' = outcome
              \/ pc' = Len(Steps) + 1 /\ outcome' = NoOutcome
<1>1. AtStep /\ Step.act = "checkTips" /\ checked' = tip BY DEF CheckTips, DeleteStep
<1>2. CASE StopWith(FALSE, FALSE, FALSE)
  BY <1>1, <1>2, StopFF DEF AtStep
<1>3. CASE ~StopWith(FALSE, FALSE, FALSE)
  BY <1>1, <1>3 DEF CheckTips, TipsMatch
<1> QED BY <1>2, <1>3

\* The outcomes of one `git branch` of a deletion.
Deleted ==
    /\ Change({"refs"}, {}) /\ touched' = (touched \/ view = "refs")
    /\ pc' = pc + 1 /\ outcome' = outcome
Skipped == UNCHANGED <<shown, excuse, reads, queue, touched, outcome>> /\ pc' = pc + 1
Failed ==
    AfterFailure({Forced, Plain} \ Existing) /\ UNCHANGED <<shown, excuse, reads, queue, touched>>

\* of -D,
LEMMA ForceCases ==
    ASSUME ForceDelete
    PROVE  /\ AtStep /\ Step.act = "force"
           /\ UNCHANGED <<view, poller, ops, sweeps, plain, warned, targets, listed, checked>>
           /\ \/ /\ Deleted /\ Forced \in targets /\ tip' = 0
                 /\ dropped' = CASE tip = warned  -> "warned"
                                 [] tip # checked -> "window"
                                 [] OTHER         -> "untold"
              \/ Forced \notin targets /\ Skipped /\ UNCHANGED <<tip, dropped>>
              \/ Failed /\ Forced \in targets /\ UNCHANGED <<tip, dropped>>
<1>1. CASE Forced \in targets
  BY <1>1, Zenon DEF ForceDelete, DeleteStep, Deleted, Failed
<1>2. CASE Forced \notin targets
  BY <1>2, Zenon DEF ForceDelete, DeleteStep, Skipped
<1> QED BY <1>1, <1>2

\* and of -d.
LEMMA PlainDeleteCases ==
    ASSUME PlainDelete
    PROVE  /\ AtStep /\ Step.act = "plain"
           /\ UNCHANGED <<view, poller, ops, sweeps, tip, warned, targets, listed, checked, dropped>>
           /\ Deleted \/ Skipped \/ Failed
BY Zenon DEF PlainDelete, DeleteStep, Deleted, Skipped, Failed

\* A read ends.
LEMMA ReadDoneFacts ==
    ASSUME Types, NEW kind \in ReadKinds, reads[kind] > 0, ReadDone(kind)
    PROVE  /\ reads' \in ReadCounts
           /\ \A k \in ReadKinds : reads'[k] = IF k = kind THEN reads[k] - 1 ELSE reads[k]
<1>1. reads[kind] - 1 \in Nat BY DEF Types, ReadCounts
<1>2. reads' = [reads EXCEPT ![kind] = reads[kind] - 1] BY DEF ReadDone
<1> QED BY <1>1, <1>2 DEF Types, ReadCounts

\* A read begins: a posted or fresh read of a view is not lost.
LEMMA ReadBeginFacts ==
    ASSUME Types, IdleInv, ReadBegin
    PROVE  /\ reads' \in ReadCounts
           /\ view \in Views => reads'["waiting"] = 0
           /\ reads["posted"] > 0 \/ reads["fresh"] > 0 => reads'["posted"] > 0 \/ reads'["fresh"] > 0
<1> USE DEF ReadKinds
<1>1. reads \in ReadCounts /\ view \in Views => reads["waiting"] = 0 BY DEF Types, IdleInv
<1>2. /\ reads["waiting"] \in Nat /\ reads["posted"] \in Nat /\ reads["fresh"] \in Nat /\ reads["old"] \in Nat
  BY DEF Types, ReadCounts
<1>3. CASE view = "refs"
  <2>1. reads["waiting"] = 0 BY <1>3 DEF IdleInv, Views
  <2>2. reads["posted"] > 0 BY <1>2, <2>1 DEF ReadBegin, NextRead
  <2>3. reads' = [reads EXCEPT !["posted"] = reads["posted"] - 1, !["fresh"] = 1, !["old"] = 0]
    BY <1>3 DEF ReadBegin
  <2> QED BY <1>2, <2>1, <2>2, <2>3 DEF ReadCounts, Types
<1>4. CASE view # "refs" /\ NextRead = "posted"
  <2>1. reads' = [reads EXCEPT !["posted"] = reads["posted"] - 1, !["fresh"] = reads["fresh"] + 1]
    BY <1>4 DEF ReadBegin
  <2>2. reads["posted"] > 0 BY <1>4 DEF ReadBegin
  <2> QED BY <1>1, <1>2, <2>1, <2>2 DEF ReadCounts, Types, IdleInv
<1>5. CASE view # "refs" /\ NextRead # "posted"
  <2>1. NextRead = "waiting" BY <1>5 DEF NextRead
  <2>2. reads' = [reads EXCEPT !["waiting"] = reads["waiting"] - 1, !["old"] = reads["old"] + 1]
    BY <1>5, <2>1 DEF ReadBegin
  <2>3. reads["waiting"] > 0 BY <2>1 DEF ReadBegin
  <2> QED BY <1>1, <1>2, <2>2, <2>3 DEF ReadCounts, Types, IdleInv
<1> QED BY <1>3, <1>4, <1>5

\* Types is kept.
LEMMA TypesStep ==
    ASSUME Types, IdleInv, Next
    PROVE  Types'
<1> USE DEF branchVars, KeepView
<1>1. ASSUME NEW req \in Requests, Submit(req) PROVE Types'
  <2>1. [req |-> req, id |-> ops + 1, current |-> shown] \in Entries /\ ops + 1 \in Nat
    BY DEF Types, Entries
  <2>2. queue' \in Seq(Entries) BY <1>1, <2>1 DEF Submit, Types
  <2>3. poller' \in Nat /\ ops' \in Nat BY <1>1, <2>1 DEF Submit, Types
  <2> QED BY <1>1, <2>2, <2>3 DEF Submit, Types
<1>2. CASE Refuse \/ Start
  <2>1. pc' \in Nat BY <1>2, HeadFacts DEF Refuse, Start
  <2>2. outcome' \in Outcomes BY <1>2, OutcomesTyped DEF Refuse, Start
  <2> QED BY <1>2, <2>1, <2>2 DEF Refuse, Start, Types
<1>3. CASE StepOk
  <2>1. /\ SameRequests /\ shown' \in BOOLEAN /\ reads' \in ReadCounts /\ touched' \in BOOLEAN
    BY <1>3, ChangeFacts, Unchanged DEF StepOk, Types
  <2> QED BY <1>3, <2>1, ChangedTypes DEF StepOk, Types
<1>4. CASE StepFails
  <2>1. /\ SameRequests /\ shown' \in BOOLEAN /\ reads' \in ReadCounts /\ touched' \in BOOLEAN
    BY <1>4, ChangeFacts, Unchanged DEF StepFails, Types
  <2>2. Len(Steps) \in Nat /\ pc \in Nat /\ outcome \in Outcomes
    BY <1>4, HeadFacts DEF StepFails, AtStep, Types
  <2>3. pc' \in Nat BY <1>4, <2>2 DEF StepFails
  <2>4. outcome' \in Outcomes BY <1>4, <2>2, OutcomesTyped DEF StepFails
  <2> QED BY <1>4, <2>1, <2>3, <2>4, ChangedTypes DEF StepFails, Types
<1>5. CASE RefsMoved
  <2>1. outcome' \in Outcomes
    <3>1. queue[1].current \in BOOLEAN BY <1>5, HeadFacts DEF RefsMoved, AtStep, Entries
    <3> QED BY <1>5, <3>1, OutcomesTyped DEF RefsMoved, Types
  <2> QED BY <1>5, <2>1 DEF RefsMoved, Types
<1>6. CASE ListBefore
  <2>1. pc' \in Nat /\ outcome' \in Outcomes
    BY <1>6, ListBeforeCases, HeadFacts DEF ListStops, AtStep, Types
  <2>2. targets' \subseteq {Forced, Plain} /\ listed' \in BOOLEAN
    BY <1>6 DEF ListBefore, Existing
  <2> QED BY <1>6, <2>1, <2>2 DEF ListBefore, Types
<1>7. CASE CheckTips
  <2>1. pc' \in Nat /\ outcome' \in Outcomes
    <3>1. Len(Steps) \in Nat /\ NoOutcome \in Outcomes
      BY <1>7, CheckTipsCases, HeadFacts, OutcomesTyped DEF AtStep
    <3> QED BY <1>7, <3>1, CheckTipsCases DEF Types
  <2> QED BY <1>7, <2>1 DEF CheckTips, Types
<1>8. CASE ForceDelete \/ PlainDelete
  <2>1. /\ AtStep /\ (Deleted \/ Skipped \/ Failed) /\ tip' \in Nat
        /\ UNCHANGED <<view, poller, ops, warned, targets, listed, checked>>
    BY <1>8, ForceCases, PlainDeleteCases DEF Types
  <2>2. /\ SameRequests /\ shown' \in BOOLEAN /\ reads' \in ReadCounts /\ touched' \in BOOLEAN
    BY <2>1, ChangeFacts, Unchanged DEF Deleted, Skipped, Failed, Types
  <2>3. pc' \in Nat /\ outcome' \in Outcomes
    BY <2>1, FailureFacts DEF Deleted, Skipped, Failed, AtStep, Types
  <2> QED BY <2>1, <2>2, <2>3, ChangedTypes DEF Types
<1>10. CASE ProbeDeletion
  BY <1>10 DEF ProbeDeletion, Types
<1>11. CASE OutsideMove
  <2>1. SameRequests /\ shown' \in BOOLEAN /\ reads' \in ReadCounts
    BY <1>11, ChangeFacts DEF OutsideMove
  <2>2. tip' \in Nat BY <1>11 DEF OutsideMove, Types
  <2> QED BY <1>11, <2>1, <2>2, ChangedTypes DEF OutsideMove, Types
<1>12. CASE Complete
  <2>1. queue' \in Seq(Entries) BY <1>12 DEF Complete, Running, Types
  <2>2. reads' \in ReadCounts
    <3>1. PICK x \in {0, 1} : reads' = [reads EXCEPT !["posted"] = @ + x] BY <1>12 DEF Complete
    <3>2. reads \in ReadCounts BY DEF Types
    <3> QED BY <3>1, <3>2 DEF ReadCounts, ReadKinds
  <2>3. outcome' \in Outcomes BY <1>12, OutcomesTyped DEF Complete
  <2> QED BY <1>12, <2>1, <2>2, <2>3 DEF Complete, Types
<1>13. CASE ReadBegin
  <2>1. reads' \in ReadCounts
    BY <1>13, ReadBeginFacts
  <2> QED BY <1>13, <2>1 DEF ReadBegin, Types
<1>14. CASE Publish
  <2>1. reads' \in ReadCounts /\ shown' \in BOOLEAN
    BY <1>14, ReadDoneFacts DEF Publish, ReadKinds, Types
  <2> QED BY <1>14, <2>1 DEF Publish, Types
<1>15. CASE PublishPart \/ ReadFails
  <2>1. reads' \in ReadCounts /\ shown' \in BOOLEAN
    BY <1>15, ReadDoneFacts DEF PublishPart, ReadFails, ReadKinds, Types
  <2> QED BY <1>15, <2>1 DEF PublishPart, ReadFails, Types
<1>16. CASE Sweep
  <2>1. reads \in ReadCounts /\ reads' = [reads EXCEPT !["posted"] = @ + 1]
    BY <1>16 DEF Sweep, Types
  <2>2. reads' \in ReadCounts BY <2>1 DEF ReadCounts, ReadKinds
  <2> QED BY <1>16, <2>2 DEF Sweep, Types
<1>17. CASE Ask
  <2>1. reads' \in ReadCounts BY <1>17 DEF Ask, Types, ReadCounts, ReadKinds
  <2> QED BY <1>17, <2>1 DEF Ask, Types
<1> QED BY <1>1, <1>2, <1>3, <1>4, <1>5, <1>6, <1>7, <1>8, <1>10, <1>11, <1>12,
           <1>13, <1>14, <1>15, <1>16, <1>17 DEF Next

\* The steps of the read pool and the user; every step but a submission and a completion.
ReadStep == ReadBegin \/ Publish \/ PublishPart \/ ReadFails \/ Sweep \/ Ask
InnerStep ==
    \/ Refuse \/ Start \/ StepOk \/ StepFails \/ RefsMoved \/ ListBefore \/ CheckTips
    \/ ForceDelete \/ PlainDelete \/ ProbeDeletion \/ OutsideMove \/ ReadStep

\* Reads leave the operations alone.
LEMMA ReadStepKeeps ==
    ASSUME ReadStep
    PROVE  UNCHANGED <<view, queue, pc, outcome, touched, poller, ops, branchVars>>
BY DEF ReadStep, ReadBegin, Publish, PublishPart, ReadFails, Sweep, Ask

\* Every step but a submission and a completion leaves the requests queued.
LEMMA QueueKept ==
    ASSUME Types, InnerStep
    PROVE  SameRequests /\ UNCHANGED <<view, poller>>
<1> USE DEF KeepView
<1>1. CASE Refuse \/ Start \/ RefsMoved \/ ListBefore \/ CheckTips \/ ProbeDeletion
  BY <1>1, Unchanged DEF Refuse, Start, RefsMoved, ListBefore, CheckTips, ProbeDeletion
<1>2. CASE StepOk \/ StepFails \/ OutsideMove
  BY <1>2, Unchanged, ChangeFacts DEF StepOk, StepFails, OutsideMove
<1>3. CASE ForceDelete \/ PlainDelete
  <2>1. (Deleted \/ Skipped \/ Failed) /\ UNCHANGED <<view, poller>>
    BY <1>3, ForceCases, PlainDeleteCases
  <2> QED BY <2>1, ChangeFacts, Unchanged DEF Deleted, Skipped, Failed
<1>4. CASE ReadStep
  BY <1>4, ReadStepKeeps, Unchanged
<1> QED BY <1>1, <1>2, <1>3, <1>4 DEF InnerStep

\* The same requests have the same running operation.
LEMMA SameHead ==
    ASSUME Types, Types', SameRequests
    PROVE  /\ Running' <=> Running
           /\ Running => /\ queue'[1].req = queue[1].req /\ Steps' = Steps /\ Method' = Method
                         /\ queue'[1] \in Entries
           /\ \A req : Queued(req)' <=> Queued(req)
<1>1. /\ Len(queue) \in Nat /\ DOMAIN queue = 1..Len(queue)
      /\ DOMAIN queue' = 1..Len(queue) /\ queue \in Seq(Entries) /\ queue' \in Seq(Entries)
  BY DEF Types, SameRequests
<1>2. Running' <=> Running BY <1>1 DEF Running, SameRequests
<1>3. ASSUME Running
      PROVE  /\ queue'[1].req = queue[1].req /\ Steps' = Steps /\ Method' = Method
             /\ queue'[1] \in Entries
  <2>1. Head(queue) = queue[1] BY <1>3, HeadFacts
  <2>2. queue' # <<>> BY <1>2, <1>3 DEF Running
  <2>3. Head(queue') = queue'[1] /\ queue'[1] \in Entries BY <1>1, <2>2
  <2>4. 1 \in 1..Len(queue) BY <1>3, HeadFacts
  <2>5. queue'[1].req = queue[1].req BY <2>4 DEF SameRequests
  <2> QED BY <2>1, <2>3, <2>5 DEF Steps, Method
<1>4. \A req : Queued(req)' <=> Queued(req) BY <1>1 DEF Queued, SameRequests
<1> QED BY <1>2, <1>3, <1>4

\* IdleInv is kept.
LEMMA IdleStep ==
    ASSUME Types, IdleInv, Types', Next
    PROVE  IdleInv'
<1> USE DEF branchVars, KeepView
<1>1. ASSUME NEW req \in Requests, Submit(req) PROVE IdleInv'
  <2>1. queue' # <<>> BY <1>1 DEF Submit, Types
  <2> QED BY <1>1, <2>1 DEF Submit, IdleInv
<1>2. CASE Refuse \/ Start
  <2>1. pc' # 0 BY <1>2, HeadFacts DEF Refuse, Start
  <2> QED BY <1>2, <2>1 DEF Refuse, Start, IdleInv, Running
<1>3. CASE StepOk \/ StepFails \/ ForceDelete \/ PlainDelete
  <2>1. AtStep /\ SameRequests /\ UNCHANGED view
    BY <1>3, QueueKept, ForceCases, PlainDeleteCases DEF StepOk, StepFails, InnerStep
  <2>2. Running' BY <2>1, SameHead DEF AtStep
  <2>3. reads'["waiting"] = reads["waiting"]
    BY <1>3, ChangeFacts, ForceCases, PlainDeleteCases DEF StepOk, StepFails, Deleted, Skipped, Failed
  <2>4. Len(Steps) \in Nat /\ pc \in Nat BY <2>1, HeadFacts DEF AtStep, Types
  <2>5. pc' # 0
    <3>1. CASE StepOk \/ StepFails BY <3>1, <2>4 DEF StepOk, StepFails
    <3>2. CASE ForceDelete \/ PlainDelete
      BY <2>1, <2>4, <3>2, ForceCases, PlainDeleteCases, FailureFacts
         DEF Deleted, Skipped, Failed, AtStep
    <3> QED BY <1>3, <3>1, <3>2
  <2> QED BY <2>1, <2>2, <2>3, <2>5 DEF IdleInv, AtStep, Running
<1>4. CASE RefsMoved \/ ListBefore \/ CheckTips
  <2>1. AtStep /\ UNCHANGED <<view, queue, reads, touched>>
    BY <1>4 DEF RefsMoved, ListBefore, CheckTips, DeleteStep
  <2>2. Len(Steps) \in Nat /\ pc \in Nat BY <2>1, HeadFacts DEF AtStep, Types
  <2>3. pc' # 0
    BY <1>4, <2>2, ListBeforeCases, CheckTipsCases DEF RefsMoved, ListStops
  <2> QED BY <2>1, <2>3 DEF IdleInv, AtStep, Running
<1>5. CASE ProbeDeletion
  BY <1>5 DEF ProbeDeletion, IdleInv
<1>6. CASE OutsideMove
  <2>1. SameRequests /\ view \in Views /\ UNCHANGED <<view, pc, touched>>
    BY <1>6, QueueKept DEF OutsideMove, InnerStep, Views
  <2>2. Running' <=> Running BY <2>1, SameHead
  <2>3. reads'["waiting"] = reads["waiting"] BY <1>6, ChangeFacts DEF OutsideMove
  <2> QED BY <2>1, <2>2, <2>3 DEF IdleInv, Running
<1>7. CASE Complete
  <2>1. view \in Views /\ reads["waiting"] = 0 BY <1>7 DEF Complete, IdleInv, Running
  <2>2. reads'["waiting"] = 0 BY <1>7, <2>1 DEF Complete, Types, ReadCounts, ReadKinds
  <2> QED BY <1>7, <2>1, <2>2 DEF Complete, IdleInv
<1>8. CASE ReadStep
  <2>1. UNCHANGED <<view, queue, pc, touched>> BY <1>8, ReadStepKeeps
  <2>2. view \in Views => reads'["waiting"] = 0
    <3>1. CASE ReadBegin BY <3>1, ReadBeginFacts
    <3>2. CASE Publish \/ PublishPart \/ ReadFails
      BY <3>2, ReadDoneFacts DEF Publish, PublishPart, ReadFails, ReadKinds, IdleInv
    <3>3. CASE Sweep BY <3>3 DEF Sweep, IdleInv, Types, ReadCounts, ReadKinds
    <3>4. CASE Ask
      <4>1. view \notin Views BY <3>4 DEF Ask, Views, Panes
      <4> QED BY <4>1
    <3> QED BY <1>8, <3>1, <3>2, <3>3, <3>4 DEF ReadStep
  <2> QED BY <2>1, <2>2 DEF IdleInv
<1> QED BY <1>1, <1>2, <1>3, <1>4, <1>5, <1>6, <1>7, <1>8 DEF Next, ReadStep

-----------------------------------------------------------------------------

\* Every request that begins a watch ends one.
LEMMA WatchesEnd == \A req \in DOMAIN Catalogue : Catalogue[req].begins => Catalogue[req].ends
BY CatalogueIsSound, DeleteSteps, BackgroundFetchSteps DEF Sound, EndsWatch

\* WatchInv is kept: the operation that completes ends the watch if it is its own.
LEMMA WatchStep ==
    ASSUME Types, WatchInv, Types', Next
    PROVE  WatchInv'
<1>1. ASSUME NEW req \in Requests, Submit(req) PROVE WatchInv'
  <2> DEFINE e == [req |-> req, id |-> ops + 1, current |-> shown]
  <2>1. queue' = Append(queue, e) /\ e \in Entries BY <1>1 DEF Submit, Types, Entries
  <2>2. /\ Len(queue) \in Nat /\ DOMAIN queue' = 1..(Len(queue) + 1) /\ DOMAIN queue = 1..Len(queue)
        /\ \A i \in 1..Len(queue) : queue'[i] = queue[i]
        /\ queue'[Len(queue) + 1] = e
    BY <2>1 DEF Types
  <2>3. poller' = poller \/ (poller' = ops + 1 /\ Catalogue[req].begins) BY <1>1 DEF Submit
  <2>4. CASE poller' = poller
    BY <2>2, <2>4 DEF WatchInv
  <2>5. CASE poller' = ops + 1 /\ Catalogue[req].begins
    <3>1. Len(queue) + 1 \in DOMAIN queue' BY <2>2
    <3>2. queue'[Len(queue) + 1].id = poller' /\ queue'[Len(queue) + 1].req = req BY <2>2, <2>5
    <3> QED BY <2>5, <3>1, <3>2 DEF WatchInv
  <2> QED BY <2>3, <2>4, <2>5
<1>2. CASE Complete
  <2>1. Running /\ queue' = Tail(queue) BY <1>2 DEF Complete
  <2>2. CASE Method.ends
    BY <1>2, <2>2 DEF Complete, endAskpass, WatchInv
  <2>3. CASE ~Method.ends
    <3>1. poller' = poller BY <1>2, <2>3 DEF Complete, endAskpass
    <3>2. SUFFICES ASSUME poller # 0 PROVE WatchInv' BY <3>1 DEF WatchInv
    <3>3. PICK i \in DOMAIN queue : queue[i].id = poller /\ Catalogue[queue[i].req].begins
      BY <3>2 DEF WatchInv
    <3>4. i # 1 BY <2>1, <2>3, <3>3, HeadFacts, WatchesEnd
    <3>5. i - 1 \in DOMAIN queue' /\ queue'[i - 1] = queue[i]
      <4>1. queue \in Seq(Entries) /\ queue # <<>> /\ queue' = Tail(queue) BY <2>1 DEF Types, Running
      <4>2. i \in 2..Len(queue) /\ Len(queue) \in Nat BY <2>1, <3>3, <3>4, HeadFacts
      <4>3. Len(queue') = Len(queue) - 1 /\ DOMAIN queue' = 1..(Len(queue) - 1) BY <4>1
      <4>4. \A k \in 1..(Len(queue) - 1) : queue'[k] = queue[k + 1] BY <4>1
      <4>5. i - 1 \in 1..(Len(queue) - 1) /\ (i - 1) + 1 = i BY <4>2
      <4> QED BY <4>3, <4>4, <4>5
    <3> QED BY <3>1, <3>3, <3>5 DEF WatchInv
  <2> QED BY <2>2, <2>3
<1>3. CASE InnerStep
  <2>1. SameRequests /\ poller' = poller BY <1>3, QueueKept
  <2>2. DOMAIN queue = 1..Len(queue) /\ DOMAIN queue' = 1..Len(queue) BY <2>1 DEF SameRequests, Types
  <2> QED BY <2>1, <2>2 DEF WatchInv, SameRequests
<1> QED BY <1>1, <1>2, <1>3 DEF Next, InnerStep, ReadStep

\* ForceInv is kept: no probe can change the warning of a deletion in the queue.
LEMMA ForceStep ==
    ASSUME Types, IdleInv, ForceInv, Types', Next
    PROVE  ForceInv'
<1> USE DEF branchVars, KeepView
<1> DEFINE AtForce == AtStep /\ Step.act = "force"
\* The running operation, if it was running, is still the same one, at the same step.
<1>0. ASSUME Running, SameRequests, pc' = pc PROVE AtForce' <=> AtForce
  <2>1. Running' /\ Steps' = Steps BY <1>0, SameHead
  <2> QED BY <1>0, <2>1 DEF AtStep, Step
<1>1. ASSUME NEW req \in Requests, Submit(req) PROVE ForceInv'
  <2> DEFINE e == [req |-> req, id |-> ops + 1, current |-> shown]
  <2>1. queue' = Append(queue, e) /\ e \in Entries BY <1>1 DEF Submit, Types, Entries
  <2>2. CASE queue = <<>>
    <3>1. pc' = 0 BY <1>1, <2>2 DEF Submit, IdleInv
    <3>2. Running' BY <2>1 DEF Running, Types
    <3>3. Head(queue') = e BY <2>1, <2>2
    <3>4. e.req \in DOMAIN Catalogue BY RequestsAssumption
    <3>5. Steps' \in Seq(StepRecords) BY <3>3, <3>4, StepKinds DEF Steps, Method
    <3>6. ~AtStep' BY <3>1, <3>5 DEF AtStep
    <3> QED BY <1>1, <3>6 DEF Submit, ForceInv
  <2>3. CASE queue # <<>>
    <3>1. Head(queue') = Head(queue) BY <2>1, <2>3 DEF Types
    <3>2. Steps' = Steps BY <3>1 DEF Steps, Method
    <3> QED BY <1>1, <2>3, <3>2 DEF Submit, ForceInv, AtStep, Step, Running
  <2> QED BY <2>2, <2>3
<1>2. CASE Complete
  <2>1. targets' = {} /\ dropped' = dropped BY <1>2 DEF Complete
  <2> QED BY <2>1 DEF ForceInv
<1>3. CASE ProbeDeletion
  <2>1. ~AtForce
    <3> SUFFICES ASSUME AtForce PROVE FALSE OBVIOUS
    <3>1. Running /\ pc \in 1..Len(Steps) BY HeadFacts DEF AtStep
    <3>2. queue[1].req = "delete" BY <3>1, HeadFacts, StepKinds DEF Step
    <3>3. 1 \in DOMAIN queue BY <3>1, HeadFacts
    <3> QED BY <1>3, <3>2, <3>3 DEF ProbeDeletion, Queued
  <2>2. ~AtForce' BY <1>3, <2>1 DEF ProbeDeletion, AtStep, Step, Steps, Method, Running
  <2> QED BY <1>3, <2>2 DEF ProbeDeletion, ForceInv
<1>4. CASE OutsideMove \/ ReadStep
  <2>1. SameRequests /\ UNCHANGED <<pc, warned, checked, targets, dropped>>
    BY <1>4, QueueKept, ReadStepKeeps DEF OutsideMove, InnerStep
  <2>2. AtForce' => AtForce BY <1>0, <2>1, SameHead DEF AtStep
  <2> QED BY <2>1, <2>2 DEF ForceInv
<1>5. CASE CheckTips
  <2>1. UNCHANGED <<queue, warned, targets, dropped>> /\ checked' = tip BY <1>5 DEF CheckTips
  <2>2. Running /\ Len(Steps) \in Nat /\ Steps' = Steps /\ DOMAIN Steps = 1..Len(Steps)
    BY <1>5, <2>1, HeadFacts DEF CheckTips, DeleteStep, AtStep, Steps, Method
  <2>3. CASE Forced \in targets => tip = warned
    BY <2>1, <2>3 DEF ForceInv
  <2>4. CASE pc' = Len(Steps) + 1
    <3>1. ~AtStep' BY <2>2, <2>4 DEF AtStep
    <3> QED BY <2>1, <3>1 DEF ForceInv
  <2> QED BY <1>5, <2>3, <2>4, CheckTipsCases
<1>6. CASE ForceDelete
  <2>1. AtForce /\ UNCHANGED <<warned, targets, checked>> BY <1>6, ForceCases
  <2>2. dropped' # "untold"
    <3>1. CASE Forced \in targets
      <4>1. checked = warned BY <2>1, <3>1 DEF ForceInv
      <4> QED BY <1>6, <4>1, ForceCases DEF ForceInv
    <3>2. CASE Forced \notin targets
      BY <1>6, <3>2, ForceCases DEF ForceInv
    <3> QED BY <3>1, <3>2
  <2>3. SameRequests BY <1>6, QueueKept DEF InnerStep
  <2>4. Running /\ pc = 3 /\ Len(Steps) = 4 /\ queue[1].req = "delete" /\ Steps = Catalogue["delete"].steps
    <3> DEFINE r == queue[1].req
    <3>1. Running /\ r \in DOMAIN Catalogue /\ Steps = Catalogue[r].steps
      BY <2>1, HeadFacts DEF AtStep
    <3>2. pc \in 1..Len(Catalogue[r].steps) /\ Catalogue[r].steps[pc].act = "force"
      BY <2>1, <3>1, HeadFacts DEF AtStep, Step
    <3> HIDE DEF r
    <3>3. r = "delete" /\ pc = 3 /\ Len(Catalogue[r].steps) = 4 BY <3>1, <3>2, StepKinds
    <3> QED BY <3>1, <3>3 DEF r
  <2>5. Steps' = Steps BY <2>3, <2>4, SameHead
  <2>6. pc' # 3
    BY <1>6, <2>4, ForceCases, FailureFacts DEF Deleted, Skipped, Failed
  <2>7. ~AtForce'
    <3>1. "delete" \in DOMAIN Catalogue BY <2>4, HeadFacts
    <3> QED BY <2>4, <2>5, <2>6, <3>1, HeadFacts, StepKinds DEF AtStep, Step
  <2> QED BY <2>2, <2>7 DEF ForceInv
<1>7. CASE Refuse \/ Start \/ StepOk \/ StepFails \/ RefsMoved \/ ListBefore \/ PlainDelete
  <2>1. Running /\ SameRequests /\ dropped' = dropped
    BY <1>7, QueueKept, PlainDeleteCases DEF InnerStep, Refuse, Start, StepOk, StepFails, RefsMoved,
                                             ListBefore, DeleteStep, AtStep
  <2>2. Steps' = Steps /\ Running' BY <2>1, SameHead
  <2>3. Len(Steps) \in Nat /\ DOMAIN Steps = 1..Len(Steps) /\ pc \in Nat BY <2>1, HeadFacts DEF Types
  <2>4. SUFFICES ASSUME AtForce' PROVE FALSE BY <2>1 DEF ForceInv
  <2>5. pc' \in 1..Len(Steps) /\ Steps[pc'].act = "force" BY <2>2, <2>3, <2>4 DEF AtStep, Step
  <2>6. queue[1].req = "delete" /\ pc' = 3 /\ Steps[2].act = "checkTips" /\ Len(Steps) = 4
    <3> DEFINE r == queue[1].req
    <3>1. r \in DOMAIN Catalogue /\ Steps = Catalogue[r].steps BY <2>1, HeadFacts
    <3> HIDE DEF r
    <3>2. r = "delete" /\ pc' = 3 BY <2>5, <3>1, StepKinds
    <3>3. Catalogue[r].steps[2].act = "checkTips" /\ Len(Catalogue[r].steps) = 4
      BY <3>1, <3>2, StepKinds
    <3> QED BY <3>1, <3>2, <3>3 DEF r
  <2>7. pc = 2 /\ AtStep
    BY <1>7, <2>1, <2>3, <2>6, HeadFacts, PlainDeleteCases, FailureFacts, ListBeforeCases
       DEF Refuse, Start, StepOk, StepFails, RefsMoved, Deleted, Skipped, Failed, ListStops, AtStep
  <2>8. Step.act = "checkTips" BY <2>6, <2>7 DEF Step
  <2> QED BY <1>7, <2>7, <2>8, PlainDeleteCases
          DEF Refuse, Start, StepOk, StepFails, RefsMoved, ListBefore, DeleteStep
<1> QED BY <1>1, <1>2, <1>3, <1>4, <1>5, <1>6, <1>7 DEF Next, ReadStep

-----------------------------------------------------------------------------

\* An operation that has not started is at no step and has not ended.
LEMMA NotStarted == Types /\ pc = 0 => ~AtStep /\ ~(Running /\ pc > Len(Steps))
BY HeadFacts DEF AtStep

\* What is read or owned up to, in the terms of Complete.
LEMMA ReadOnSuccess ==
    ASSUME NEW req, NEW m, NEW v \in OnSuccess(req, m), NEW o, o.succeeded
    PROVE  v \in ReadBy(m, o) \/ req \in Table(UnreadAfterSuccess, v)
BY DEF OnSuccess, ReadBy

\* And after a failure.
LEMMA ReadOnFailure ==
    ASSUME NEW req, NEW m, NEW v \in OnFailure(req, m), NEW o
    PROVE  v \in ReadBy(m, o) \/ (v = "status" => req \in StatusUnreadAfterFailure)
BY DEF OnFailure, ReadBy

\* Unread, of a given outcome.
Admitted(req, v, o) ==
    IF o.succeeded THEN req \in Table(UnreadAfterSuccess, v)
                   ELSE (v = "status" => req \in StatusUnreadAfterFailure) /\ ~o.measured

\* The running operation's place, at a step.
LEMMA StepFacts ==
    ASSUME Types, AtStep
    PROVE  /\ Running /\ queue[1].req \in DOMAIN Catalogue
           /\ Method = Catalogue[queue[1].req] /\ Steps = Catalogue[queue[1].req].steps
           /\ Len(Steps) \in Nat /\ pc \in 1..Len(Steps) /\ Step = Steps[pc]
           /\ DOMAIN Steps = 1..Len(Steps)
           /\ Step.act = "refsMoved" => queue[1].req = "backgroundFetch" /\ pc = 3
           /\ Step.act = "listBefore" => queue[1].req = "delete" /\ pc = 1
           /\ Step.act = "checkTips" => queue[1].req = "delete" /\ pc = 2
           /\ Step.act = "force" => queue[1].req = "delete" /\ pc = 3
           /\ Step.act = "plain" => queue[1].req = "delete" /\ pc = 4
           /\ Step.act = "git" => queue[1].req # "delete"
           /\ queue[1].req = "delete" => Len(Steps) = 4
           /\ queue[1].req = "backgroundFetch" => Len(Steps) = 3 /\ Steps[3].act = "refsMoved"
<1> DEFINE r == queue[1].req
<1>1. /\ Running /\ r \in DOMAIN Catalogue
      /\ Method = Catalogue[r] /\ Steps = Catalogue[r].steps
      /\ Len(Steps) \in Nat /\ pc \in 1..Len(Steps) /\ Step = Steps[pc]
      /\ DOMAIN Steps = 1..Len(Steps)
  BY HeadFacts DEF AtStep, Step
<1> HIDE DEF r
<1> QED BY <1>1, StepKinds DEF r

\* TouchInv and EndInv are kept.
LEMMA TouchStep ==
    ASSUME Types, IdleInv, TouchInv, EndInv, Types', Next
    PROVE  TouchInv' /\ EndInv'
<1> USE DEF branchVars, KeepView
<1> DEFINE r == queue[1].req
<1>0. ASSUME pc' = 0 PROVE TouchInv' /\ EndInv'
  <2>1. (Types /\ pc = 0 => ~AtStep /\ ~(Running /\ pc > Len(Steps)))' BY NotStarted, PTL
  <2> QED BY <1>0, <2>1 DEF TouchInv, EndInv
<1>1. ASSUME NEW req \in Requests, Submit(req) PROVE TouchInv' /\ EndInv'
  <2> DEFINE e == [req |-> req, id |-> ops + 1, current |-> shown]
  <2>1. queue' = Append(queue, e) /\ e \in Entries BY <1>1 DEF Submit, Types, Entries
  <2>2. CASE queue = <<>>
    <3>1. pc' = 0 BY <1>1, <2>2 DEF Submit, IdleInv
    <3> QED BY <1>0, <3>1
  <2>3. CASE queue # <<>>
    <3>1. Head(queue') = Head(queue) /\ queue'[1] = queue[1] BY <2>1, <2>3 DEF Types
    <3>2. Steps' = Steps /\ Method' = Method BY <3>1 DEF Steps, Method
    <3>3. AtStep' => AtStep BY <1>1, <2>3, <3>2 DEF Submit, AtStep, Running
    <3>4. TouchInv' BY <1>1, <3>1, <3>2, <3>3 DEF Submit, TouchInv
    <3>5. EndInv' BY <1>1, <2>3, <3>1, <3>2 DEF Submit, EndInv, Running, Unread
    <3> QED BY <3>4, <3>5
  <2> QED BY <2>2, <2>3
<1>2. CASE Complete
  BY <1>0, <1>2 DEF Complete
<1>3. CASE Refuse \/ Start
  <2>1. /\ ~touched' /\ Running /\ UNCHANGED queue /\ Steps' = Steps
    BY <1>3 DEF Refuse, Start, IdleInv, Steps, Method
  <2>2. EndInv' BY <2>1 DEF EndInv
  <2>3. TouchInv'
    <3>1. CASE Refuse
      <4>1. pc' = Len(Steps) + 1 BY <3>1 DEF Refuse
      <4>2. ~AtStep' BY <2>1, <4>1, HeadFacts DEF AtStep
      <4> QED BY <4>2 DEF TouchInv
    <3>2. CASE Start
      <4>1. outcome'.succeeded BY <3>2 DEF Start, NoOutcome
      <4> QED BY <2>1, <4>1 DEF TouchInv
    <3> QED BY <1>3, <3>1, <3>2
  <2> QED BY <2>2, <2>3
<1>4. CASE ReadStep \/ ProbeDeletion
  <2>1. UNCHANGED <<view, queue, pc, outcome, touched, tip, targets>>
    BY <1>4, ReadStepKeeps DEF ProbeDeletion
  <2>2. AtStep' => AtStep BY <2>1 DEF AtStep, Steps, Method, Running
  <2>3. Steps' = Steps /\ Method' = Method BY <2>1 DEF Steps, Method
  <2>4. TouchInv' BY <2>1, <2>2, <2>3 DEF TouchInv
  <2>5. EndInv' BY <2>1, <2>3 DEF EndInv, Running, Unread
  <2> QED BY <2>4, <2>5
<1>5. CASE OutsideMove
  <2>1. /\ SameRequests /\ tip # 0 /\ view = "refs" /\ Change({"refs"}, {"outside"})
        /\ UNCHANGED <<view, pc, outcome, touched, targets>>
    BY <1>5, QueueKept DEF OutsideMove, InnerStep
  <2>2. /\ Running' <=> Running
        /\ Running => queue'[1].req = r /\ Steps' = Steps /\ Method' = Method
    BY <2>1, SameHead
  <2>3. Running => ~queue'[1].current BY <2>1, ChangeFacts, HeadFacts
  <2>4. AtStep' => AtStep BY <2>1, <2>2 DEF AtStep
  <2>5. TouchInv' BY <2>1, <2>2, <2>3, <2>4 DEF TouchInv, AtStep
  <2>6. EndInv' BY <2>1, <2>2 DEF EndInv, Unread
  <2> QED BY <2>5, <2>6
<1>6. CASE ListBefore \/ CheckTips
  <2>1. AtStep /\ Step.act \in {"listBefore", "checkTips"} /\ UNCHANGED <<queue, touched>>
    BY <1>6 DEF ListBefore, CheckTips, DeleteStep
  <2>2. ~touched' BY <2>1, StepFacts DEF TouchInv
  <2>3. Running /\ Steps' = Steps /\ Len(Steps) \in Nat /\ DOMAIN Steps = 1..Len(Steps)
    BY <2>1, StepFacts DEF Steps, Method
  <2>4. outcome'.succeeded \/ ~AtStep'
    <3>1. CASE pc' = Len(Steps) + 1 BY <2>3, <3>1 DEF AtStep
    <3>2. CASE outcome' = outcome BY <2>1, <3>2 DEF TouchInv
    <3> QED BY <1>6, <3>1, <3>2, ListBeforeCases, CheckTipsCases DEF ListStops
  <2> QED BY <2>2, <2>4 DEF TouchInv, EndInv
<1>7. CASE ForceDelete
  <2>1. AtStep /\ Step.act = "force" /\ UNCHANGED <<view, targets>> /\ SameRequests
    BY <1>7, ForceCases, QueueKept DEF InnerStep
  <2>2. /\ r = "delete" /\ pc = 3 /\ Len(Steps) = 4 /\ Running /\ DOMAIN Steps = 1..Len(Steps)
        /\ outcome.succeeded /\ ~touched
    BY <2>1, StepFacts DEF TouchInv
  <2>3. Running' /\ queue'[1].req = "delete" /\ Steps' = Steps BY <2>1, <2>2, SameHead
  <2>4. CASE Deleted /\ Forced \in targets /\ tip' = 0
    <3>1. pc' = 4 /\ outcome'.succeeded /\ (touched' => view' = "refs")
      <4>1. pc' = pc + 1 /\ outcome' = outcome /\ touched' = (touched \/ view = "refs")
        BY <2>4 DEF Deleted
      <4>2. pc' = 4 BY <2>2, <4>1
      <4>3. outcome'.succeeded BY <2>2, <4>1
      <4>4. touched' => view' = "refs" BY <2>1, <2>2, <4>1
      <4> QED BY <4>2, <4>3, <4>4
    <3>2. touched' => ~queue'[1].current
      <4>1. Change({"refs"}, {}) BY <2>4 DEF Deleted
      <4>2. 1 \in 1..Len(queue) BY <2>2, HeadFacts
      <4> QED BY <2>1, <3>1, <4>1, <4>2, ChangeFacts
    <3>3. TouchInv' BY <2>1, <2>3, <2>4, <3>1, <3>2 DEF TouchInv
    <3>4. EndInv'
      <4>1. pc' = 4 /\ Len(Steps') = 4 BY <2>2, <2>3, <3>1
      <4>2. ~(pc' > Len(Steps')) BY <4>1
      <4> QED BY <4>2 DEF EndInv
    <3> QED BY <3>3, <3>4
  <2>5. CASE Skipped
    BY <2>2, <2>5 DEF Skipped, TouchInv, EndInv
  <2>6. CASE Failed
    <3>1. pc' = Len(Steps) + 1 /\ ~touched' BY <2>2, <2>6, FailureFacts DEF Failed
    <3>2. ~AtStep' BY <2>2, <2>3, <3>1 DEF AtStep
    <3> QED BY <3>1, <3>2 DEF TouchInv, EndInv
  <2> QED BY <1>7, <2>4, <2>5, <2>6, ForceCases
<1>8. CASE PlainDelete
  <2>1. AtStep /\ Step.act = "plain" /\ UNCHANGED <<view, targets, tip>> /\ SameRequests
    BY <1>8, PlainDeleteCases, QueueKept DEF InnerStep
  <2>2. /\ r = "delete" /\ pc = 4 /\ Len(Steps) = 4 /\ Running /\ DOMAIN Steps = 1..Len(Steps)
        /\ Method = Catalogue["delete"] /\ outcome.succeeded
        /\ touched => view = "refs" /\ Forced \in targets /\ tip = 0
    BY <2>1, StepFacts DEF TouchInv
  <2>3. Running' /\ queue'[1].req = "delete" /\ Steps' = Steps /\ Method' = Catalogue["delete"]
    BY <2>1, <2>2, SameHead
  <2>4. pc' = 5 BY <1>8, <2>2, PlainDeleteCases, FailureFacts DEF Deleted, Skipped, Failed
  <2>5. TouchInv' BY <2>2, <2>3, <2>4 DEF TouchInv, AtStep
  <2>6. SUFFICES ASSUME touched' PROVE view' \in ReadBy(Method', outcome') \/ Unread("delete", view)'
    BY <2>3, <2>5 DEF EndInv
  <2>7. view' = "refs" BY <1>8, <2>1, <2>2, <2>6, PlainDeleteCases DEF Deleted, Skipped, Failed
  <2>8. CASE outcome'.succeeded \/ outcome'.mutatedRefs
    BY <2>3, <2>7, <2>8, DeleteSteps DEF ReadBy
  <2>9. CASE ~outcome'.succeeded /\ ~outcome'.mutatedRefs
    <3>1. Failed BY <1>8, <2>2, <2>9, PlainDeleteCases DEF Deleted, Skipped
    <3>2. Forced \in targets \cap ({Forced, Plain} \ Existing)
      BY <2>2, <2>6, <3>1 DEF Failed, Existing, Forced, Plain
    <3>3. ~outcome'.measured BY <2>2, <2>9, <3>1, <3>2, FailureFacts DEF Failed
    <3> QED BY <2>7, <2>9, <3>3 DEF Unread
  <2> QED BY <2>8, <2>9
<1>9. CASE RefsMoved
  <2>1. /\ AtStep /\ Step.act = "refsMoved" /\ pc' = pc + 1 /\ UNCHANGED <<view, queue, touched>>
        /\ outcome' \in {[outcome EXCEPT !.refsMoved = m] : m \in {TRUE, ~queue[1].current}}
    BY <1>9 DEF RefsMoved
  <2>2. /\ r = "backgroundFetch" /\ pc = 3 /\ Len(Steps) = 3 /\ Running /\ DOMAIN Steps = 1..3
        /\ Method = Catalogue["backgroundFetch"] /\ outcome.succeeded
        /\ Steps = Catalogue["backgroundFetch"].steps /\ "backgroundFetch" \in DOMAIN Catalogue
    BY <2>1, StepFacts DEF TouchInv
  <2>3. Steps' = Steps /\ Method' = Method BY <2>1 DEF Steps, Method
  <2>4. TouchInv' BY <2>1, <2>2, <2>3 DEF TouchInv, AtStep
  <2>5. SUFFICES ASSUME touched' PROVE view' \in ReadBy(Method', outcome')
    BY <2>4 DEF EndInv
  <2>6. ~queue[1].current /\ \E j \in 1..2 : view \in Steps[j].changes
    BY <2>1, <2>2, <2>5 DEF TouchInv
  <2>7. view' = "refs" BY <2>1, <2>2, <2>6, Effects
  <2>8. outcome'.succeeded /\ outcome'.refsMoved
    BY <2>1, <2>2, <2>6 DEF Types, Outcomes
  <2>9. "refsMoved" \in Method'.success BY <2>2, <2>3, BackgroundFetchSteps
  <2> QED BY <2>7, <2>8, <2>9 DEF ReadBy
<1>10. CASE StepOk \/ StepFails
  <2>1. AtStep /\ Step.act = "git" /\ UNCHANGED view /\ SameRequests
    BY <1>10, QueueKept DEF StepOk, StepFails, InnerStep
  <2>2. /\ r \in DOMAIN Catalogue /\ r # "delete" /\ pc \in 1..Len(Steps) /\ Len(Steps) \in Nat
        /\ Running /\ DOMAIN Steps = 1..Len(Steps) /\ Step = Steps[pc]
        /\ Method = Catalogue[r] /\ Steps = Catalogue[r].steps
        /\ outcome.succeeded
        /\ touched => ~queue[1].current /\ \E j \in 1..(pc - 1) : view \in Steps[j].changes
        /\ r = "backgroundFetch" => pc < Len(Steps)
    BY <2>1, StepFacts DEF TouchInv
  <2>3. Running' /\ queue'[1].req = r /\ Steps' = Steps /\ Method' = Method BY <2>1, <2>2, SameHead
  <2> HIDE DEF r
  <2>4. touched' => ~queue'[1].current
    <3>1. 1 \in 1..Len(queue) BY <2>2, HeadFacts
    <3>2. CASE UNCHANGED <<shown, excuse, reads, queue, touched>> BY <2>2, <3>2
    <3>3. ASSUME NEW parts, Change(parts, {}), touched' = (touched \/ view \in parts)
          PROVE  touched' => ~queue'[1].current
      <4>1. CASE view \in parts BY <3>1, <3>3, <4>1, ChangeFacts
      <4>2. CASE view \notin parts
        <5>1. UNCHANGED queue /\ touched' = touched BY <3>3, <4>2, ChangeFacts DEF Types
        <5> QED BY <2>2, <5>1
      <4> QED BY <4>1, <4>2
    <3> QED BY <1>10, <3>2, <3>3 DEF StepOk, StepFails
  \* The operation goes on: what it has changed is among the changes of the steps made.
  <2>5. ASSUME pc' = pc + 1, outcome' = outcome,
               touched' => \E j \in 1..pc : view \in Steps[j].changes
        PROVE  TouchInv' /\ EndInv'
    <3>1. TouchInv' BY <2>1, <2>2, <2>3, <2>4, <2>5 DEF TouchInv, r
    <3>2. SUFFICES ASSUME touched', pc' > Len(Steps)
                   PROVE  view \in ReadBy(Method, outcome) \/ Admitted(r, view, outcome)
      BY <2>1, <2>3, <2>5, <3>1 DEF EndInv, Unread, Admitted
    <3>3. PICK j \in 1..Len(Steps) : view \in Steps[j].changes BY <2>2, <2>5, <3>2
    <3>4. r # "backgroundFetch" BY <2>2, <2>5, <3>2
    <3>5. view \in OnSuccess(r, Catalogue[r]) BY <2>2, <3>3, <3>4, Effects
    <3>6. view \in ReadBy(Method, outcome) \/ r \in Table(UnreadAfterSuccess, view)
      BY <2>2, <3>5, ReadOnSuccess
    <3> QED BY <2>2, <3>6 DEF Admitted
  <2>6. CASE StepOk
    <3>1. pc' = pc + 1 /\ outcome' = outcome BY <2>6 DEF StepOk
    <3>2. touched' => touched \/ view \in Steps[pc].changes BY <2>2, <2>6 DEF StepOk
    <3> QED BY <2>2, <2>5, <3>1, <3>2
  <2>7. CASE StepFails /\ Step.best
    <3>1. pc' = pc + 1 /\ outcome' = outcome BY <2>7 DEF StepFails
    <3>2. touched' => touched \/ view \in Steps[pc].changes BY <2>2, <2>7 DEF StepFails
    <3> QED BY <2>2, <2>5, <3>1, <3>2
  <2>8. CASE StepFails /\ ~Step.best
    <3>1. pc' = Len(Steps) + 1 /\ outcome' = NoOutcome BY <2>8 DEF StepFails
    <3>2. ~AtStep' BY <2>2, <2>3, <3>1 DEF AtStep
    <3>3. SUFFICES ASSUME touched'
                   PROVE  view \in ReadBy(Method, NoOutcome) \/ Admitted(r, view, NoOutcome)
      BY <2>1, <2>3, <3>1, <3>2 DEF EndInv, TouchInv, Unread, Admitted
    <3>4. touched \/ view \in Steps[pc].changes BY <2>2, <2>8, <3>3 DEF StepFails
    <3>5. view \in OnFailure(r, Catalogue[r])
      <4>1. CASE view \in Steps[pc].changes BY <2>1, <2>2, <4>1, Effects
      <4>2. CASE touched
        <5>1. PICK j \in 1..(pc - 1) : view \in Steps[j].changes BY <2>2, <4>2
        <5> QED BY <2>1, <2>2, <2>8, <5>1, Effects
      <4> QED BY <3>4, <4>1, <4>2
    <3>6. view \in ReadBy(Method, NoOutcome) \/ (view = "status" => r \in StatusUnreadAfterFailure)
      BY <2>2, <3>5, ReadOnFailure
    <3>7. ~NoOutcome.succeeded /\ ~NoOutcome.measured BY DEF NoOutcome
    <3> QED BY <3>6, <3>7 DEF Admitted
  <2> QED BY <1>10, <2>6, <2>7, <2>8
<1> QED BY <1>1, <1>2, <1>3, <1>4, <1>5, <1>6, <1>7, <1>8, <1>9, <1>10 DEF Next, ReadStep

\* RestInv is kept.
LEMMA RestStep ==
    ASSUME Types, IdleInv, TouchInv, EndInv, RestInv, Types', Next
    PROVE  RestInv'
<1> USE DEF branchVars, KeepView
<1>1. CASE \E req \in Requests : Submit(req)
  BY <1>1 DEF Submit, RestInv
<1>2. CASE Refuse \/ Start \/ RefsMoved \/ ListBefore \/ CheckTips \/ ProbeDeletion
  BY <1>2 DEF Refuse, Start, RefsMoved, ListBefore, CheckTips, ProbeDeletion, RestInv
<1>3. CASE StepOk \/ StepFails
  <2>1. CASE UNCHANGED <<shown, excuse, reads, queue, touched>> BY <2>1 DEF RestInv
  <2>2. ASSUME NEW parts, Change(parts, {}), touched' = (touched \/ view \in parts) PROVE RestInv'
    BY <2>2, ChangeFacts DEF RestInv
  <2> QED BY <1>3, <2>1, <2>2 DEF StepOk, StepFails
<1>4. CASE ForceDelete \/ PlainDelete
  <2>1. Deleted \/ Skipped \/ Failed BY <1>4, ForceCases, PlainDeleteCases
  <2>2. CASE Deleted
    <3>1. Change({"refs"}, {}) /\ touched' = (touched \/ view = "refs") BY <2>2 DEF Deleted
    <3>2. CASE view = "refs" BY <3>1, <3>2 DEF RestInv
    <3>3. CASE view # "refs"
      <4>1. view \notin {"refs"} BY <3>3
      <4>2. UNCHANGED <<shown, excuse, reads>> BY <3>1, <4>1, ChangeFacts
      <4> QED BY <3>1, <4>2 DEF RestInv
    <3> QED BY <3>2, <3>3
  <2> QED BY <2>1, <2>2 DEF Skipped, Failed, RestInv
<1>5. CASE OutsideMove
  BY <1>5, ChangeFacts DEF OutsideMove, RestInv
<1>6. CASE Complete
  <2> DEFINE read == view \in ReadBy(Method, outcome)
  <2>1. /\ Running /\ pc > Len(Steps) /\ shown' = shown
        /\ reads' = [reads EXCEPT !["posted"] = @ + IF read THEN 1 ELSE 0]
        /\ excuse' = excuse \cup IF touched /\ ~read /\ Unread(queue[1].req, view)
                                 THEN {IF outcome.succeeded THEN "unread" ELSE "failed"} ELSE {}
    BY <1>6 DEF Complete
  <2>2. reads["posted"] \in Nat /\ reads["fresh"] \in Nat /\ reads \in ReadCounts
    BY DEF Types, ReadCounts, ReadKinds
  <2> HIDE DEF read
  <2>3. /\ reads'["posted"] = reads["posted"] + (IF read THEN 1 ELSE 0)
        /\ reads'["fresh"] = reads["fresh"]
    BY <2>1, <2>2 DEF ReadCounts, ReadKinds
  <2>4. CASE touched /\ read BY <2>2, <2>3, <2>4 DEF RestInv
  <2>5. CASE touched /\ ~read
    <3>1. Unread(queue[1].req, view) BY <2>1, <2>5 DEF EndInv, read
    <3> QED BY <2>1, <2>5, <3>1 DEF RestInv
  <2>6. CASE ~touched BY <2>1, <2>2, <2>3, <2>6 DEF RestInv
  <2> QED BY <2>4, <2>5, <2>6
<1>7. CASE ReadBegin
  <2>1. UNCHANGED <<shown, excuse, touched>> BY <1>7 DEF ReadBegin
  <2> QED BY <1>7, <2>1, ReadBeginFacts DEF RestInv
<1>8. CASE Publish \/ PublishPart \/ ReadFails
  <2>1. UNCHANGED touched BY <1>8 DEF Publish, PublishPart, ReadFails
  <2>2. CASE reads.fresh > 0 /\ ReadDone("fresh") /\ (shown' \/ excuse' # {}) BY <2>2 DEF RestInv
  <2>3. CASE reads.old > 0 /\ ReadDone("old")
    <3>1. reads'["posted"] = reads["posted"] /\ reads'["fresh"] = reads["fresh"]
      BY <2>3, ReadDoneFacts DEF ReadKinds
    <3>2. shown \/ excuse # {} => shown' \/ excuse' # {}
      BY <1>8, <2>3 DEF Publish, PublishPart, ReadFails, Types
    <3> QED BY <2>1, <3>1, <3>2 DEF RestInv
  <2> QED BY <1>8, <2>2, <2>3 DEF Publish, PublishPart, ReadFails
<1>9. CASE Sweep \/ Ask
  <2>1. reads \in ReadCounts BY DEF Types
  <2>2. CASE Sweep
    <3>1. reads' = [reads EXCEPT !["posted"] = @ + 1] BY <2>2 DEF Sweep
    <3>2. reads'["posted"] > 0 BY <2>1, <3>1 DEF ReadCounts, ReadKinds
    <3> QED BY <3>2 DEF RestInv
  <2>3. CASE Ask
    <3>1. reads'["posted"] = 1 BY <2>3 DEF Ask
    <3> QED BY <3>1 DEF RestInv
  <2> QED BY <1>9, <2>2, <2>3
<1> QED BY <1>1, <1>2, <1>3, <1>4, <1>5, <1>6, <1>7, <1>8, <1>9 DEF Next

-----------------------------------------------------------------------------
(* Theorems *)

\* The inductive invariant.
OpsInv ==
    /\ Types /\ IdleInv
    /\ WatchInv /\ ForceInv
    /\ TouchInv /\ EndInv /\ RestInv

\* The inductive invariant holds in every reachable state.
LEMMA OpsInvariant == Spec => []OpsInv
<1>1. Init => OpsInv
  <2> SUFFICES ASSUME Init PROVE OpsInv OBVIOUS
  <2>1. Types /\ IdleInv BY InitTypes
  <2>2. ~Running /\ ~AtStep BY DEF Init, Running, AtStep
  <2> QED BY <2>1, <2>2 DEF Init, OpsInv, WatchInv, ForceInv, TouchInv, EndInv, RestInv
<1>2. OpsInv /\ [Next]_vars => OpsInv'
  <2> SUFFICES ASSUME OpsInv, [Next]_vars PROVE OpsInv' OBVIOUS
  <2>1. CASE Next
    <3>1. Types' BY <2>1, TypesStep DEF OpsInv
    <3>2. IdleInv' /\ WatchInv' /\ ForceInv'
      BY <2>1, <3>1, IdleStep, WatchStep, ForceStep DEF OpsInv
    <3>3. TouchInv' /\ EndInv' /\ RestInv'
      BY <2>1, <3>1, TouchStep, RestStep DEF OpsInv
    <3> QED BY <3>1, <3>2, <3>3 DEF OpsInv
  <2>2. CASE UNCHANGED vars
    <3>1. UNCHANGED <<Running, Method, Steps, AtStep, Step>>
      BY <2>2 DEF vars, Running, Method, Steps, AtStep, Step
    <3>2. Types' /\ IdleInv' /\ WatchInv' /\ ForceInv' /\ RestInv'
      BY <2>2, <3>1 DEF OpsInv, vars, branchVars, Types, IdleInv, WatchInv, ForceInv, RestInv
    <3>3. TouchInv' BY <2>2, <3>1 DEF OpsInv, vars, branchVars, TouchInv
    <3>4. EndInv' BY <2>2, <3>1 DEF OpsInv, vars, branchVars, EndInv, Unread
    <3> QED BY <3>2, <3>3, <3>4 DEF OpsInv
  <2> QED BY <2>1, <2>2
<1> QED BY <1>1, <1>2, PTL DEF Spec

\* The askpass watch of Session::beginAskpass never outlives the queue: every method
\* that begins a watch has a hook that ends one, and the hook runs whether the operation
\* is refused, cancelled, fails or succeeds, whatever operations overlap in the queue.
THEOREM WatchesEndWithTheQueue == Spec => []NoWatchLeftBehind
<1>1. OpsInv => NoWatchLeftBehind
  BY DEF OpsInv, WatchInv, NoWatchLeftBehind
<1> QED BY <1>1, OpsInvariant, PTL

\* DeleteBranchOperation forces only the tip whose unsynced commits the user was shown,
\* however the branch moves between the probe, the submission and the deletion, up to
\* the window between checkForcedTips and git's own start.
THEOREM OnlyWarnedTipsAreForced == Spec => []ForcedDeletesWereWarned
<1>1. OpsInv => ForcedDeletesWereWarned
  BY DEF OpsInv, ForceInv, ForcedDeletesWereWarned
<1> QED BY <1>1, OpsInvariant, PTL

\* Once the queue and the read pool are empty, every view shows what the repository holds
\* and every pane the answer to the last question, or there is one of the excuses
\* RestIsCurrent names; for every subset of the catalogue's requests, queued in any order
\* and failing at any step.
THEOREM RestShowsTheRepository == Spec => []RestIsCurrent
<1>1. OpsInv => RestIsCurrent
  <2> SUFFICES ASSUME OpsInv, AtRest PROVE shown \/ excuse # {} BY DEF RestIsCurrent
  <2>1. reads["posted"] = 0 /\ reads["fresh"] = 0
    BY DEF OpsInv, Types, ReadCounts, ReadKinds, AtRest
  <2>2. ~touched BY DEF OpsInv, IdleInv, AtRest
  <2> QED BY <2>1, <2>2 DEF OpsInv, RestInv
<1> QED BY <1>1, OpsInvariant, PTL
=============================================================================
