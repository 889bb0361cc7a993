--------------------------- MODULE SessionRequests ---------------------------
(***************************************************************************)
(* capi::Session's operations and the views they refresh.                  *)
(*                                                                         *)
(* Every method that changes the repository submits an operation (GitOps)  *)
(* to the serial OperationRunner with a completion hook, and the hook      *)
(* posts the reads that bring the session's cached views up to date, on    *)
(* the shared read pool.  Which views a hook reads is written by hand in   *)
(* each of the methods.  A method is here a record: the steps of its       *)
(* operation, the views read always, on moved refs and on success, and     *)
(* whether it begins and ends the session's askpass watch.                 *)
(***************************************************************************)
EXTENDS GitOps

----------------------------------------------------------------------------
\* What a completion hook does.

HistoryViews == {"refs", "worktrees"}   \* refreshHistory(); refreshWorktrees()

\* Session::submitOperation: always the working copy, the history on success or
\* on outcome.mutatedRefs; onSuccess, and onAlways which only ends a watch.
submitOperation(steps, history, onSuccess, begins) ==
    [steps |-> steps, always |-> {"status"}, moved |-> IF history THEN HistoryViews ELSE {},
     success |-> onSuccess, begins |-> begins, ends |-> begins]
\* Session::submitWorkingCopyOperation: what the caller says and no more.
submitWorkingCopyOperation(steps, onSuccess, onAlways, begins, ends) ==
    [steps |-> steps, always |-> onAlways, moved |-> {}, success |-> onSuccess,
     begins |-> begins, ends |-> ends]
Local(steps, onSuccess)  == submitWorkingCopyOperation(steps, onSuccess, {}, FALSE, FALSE)
Remote(steps, onSuccess) == submitWorkingCopyOperation(steps, onSuccess, {}, TRUE, TRUE)
\* submitWorkingCopyOperationReading: reads "refs" iff the outcome says they moved.
submitWorkingCopyOperationReading(steps) ==
    submitWorkingCopyOperation(steps, {"refsMoved"}, {}, FALSE, FALSE)

----------------------------------------------------------------------------
\* Session's methods, in the order of Session.cpp.

checkout(stash, create)  == submitOperation(CheckoutOperation(stash, create), TRUE, {}, FALSE)
createBranch(after)      == submitOperation(CreateBranchOperation(after), TRUE, {}, FALSE)
renameBranch(case, both) == submitOperation(RenameBranchOperation(case, both), TRUE, {}, both)
deleteBranch(isRemote)   == submitOperation(DeleteBranchOperation(isRemote), TRUE, {}, FALSE)
resetTo                  == submitOperation(ResetOperation, TRUE, {}, FALSE)
stageFiles    == Local(StageFilesOperation, {"status"})
unstageFiles  == Local(UnstageFilesOperation, {"status"})
stageHunk     == Local(PartialStageOperation, {"status"})
unstageHunk   == Local(PartialStageOperation, {"status"})
stageLines    == Local(PartialStageOperation, {"status"})
unstageLines  == Local(PartialStageOperation, {"status"})
discardLines  == Local(DiscardLinesOperation, {"status"})
commitChanges == Local(CommitOperation, {"status", "refs", "worktrees"})
mergeBranch(stash, squash, msg) == submitOperation(MergeOperation(stash, squash, msg), TRUE, {}, FALSE)
abortMerge                      == submitOperation(MergeAbortOperation, TRUE, {}, FALSE)
cherryPick(stash, noCommit) == submitOperation(CherryPickOperation(stash, noCommit), TRUE, {}, FALSE)
continueCherryPick == submitOperation(CherryPickControlOperation, TRUE, {}, FALSE)
skipCherryPick     == submitOperation(CherryPickControlOperation, TRUE, {}, FALSE)
abortCherryPick    == submitOperation(CherryPickControlOperation, TRUE, {}, FALSE)
revertCommit(stash, noCommit) == submitOperation(RevertOperation(stash, noCommit), TRUE, {}, FALSE)
resolveConflict(writes) == Local(ResolveConflictOperation(writes), {"status"})

saveStash       == Local(StashSaveOperation, {"status", "stashes"})
applyStash(pop) == submitWorkingCopyOperation(StashApplyOperation(pop), {"stashes"}, {"status"}, FALSE, FALSE)
dropStash       == Local(StashDropOperation, {"stashes"})
branchFromStash == Local(StashBranchOperation, {"status", "stashes", "refs", "worktrees"})
createTag       == Local(CreateTagOperation, {"refs"})
\* The watch is begun for alsoRemote and ended in every case.
deleteTag(alsoRemote) ==
    submitWorkingCopyOperation(DeleteTagOperation(alsoRemote), {"refs"}, {}, alsoRemote, TRUE)
pushTag         == Remote(PushTagOperation, {})

addWorktree         == Local(AddWorktreeOperation, {"worktrees", "refs"})
removeWorktree      == Local(RemoveWorktreeOperation, {"worktrees", "refs"})
pruneWorktrees      == Local(PruneWorktreesOperation, {"worktrees", "refs"})
lockWorktree        == Local(LockWorktreeOperation, {"worktrees"})
unlockWorktree      == Local(UnlockWorktreeOperation, {"worktrees"})

fetchRemote(background) ==
    IF background THEN submitWorkingCopyOperationReading(FetchOperation(TRUE))
                  ELSE Remote(FetchOperation(FALSE), {"refs"})
pullChanges(stash) ==
    submitWorkingCopyOperation(PullOperation(stash), {"refs", "worktrees"}, {"status"}, TRUE, TRUE)
pushChanges          == Remote(PushOperation, {"refs"})
pruneRemote(nothing) == submitOperation(PruneRemoteOperation(nothing), TRUE, {}, FALSE)
addRemote            == submitOperation(AddRemoteOperation, FALSE, {"remotes"}, FALSE)
removeRemote         == submitOperation(RemoveRemoteOperation, FALSE, {"remotes"}, FALSE)

undoLastOperation == Local(UndoOperation, {"status", "refs", "worktrees"})
restorePaths      == Local(RestoreOperation, {"status"})
cleanUntracked    == Local(CleanOperation, {"status"})
startInteractiveRebase(stash) == submitOperation(RebaseInteractiveOperation(stash), TRUE, {}, FALSE)
startRebase(stash)            == submitOperation(RebaseOperation(stash), TRUE, {}, FALSE)
continueRebase    == submitOperation(RebaseControlOperation, TRUE, {}, FALSE)
skipRebase        == submitOperation(RebaseControlOperation, TRUE, {}, FALSE)
abortRebase       == submitOperation(RebaseControlOperation, TRUE, {}, FALSE)

addSubmodule     == Remote(AddSubmoduleOperation, {"status", "submodules"})
initSubmodules   == Local(InitSubmodulesOperation, {"submodules"})
updateSubmodules == Remote(UpdateSubmodulesOperation, {"status", "submodules"})
syncSubmodules   == Local(SyncSubmodulesOperation, {"submodules"})
deinitSubmodules == Local(DeinitSubmodulesOperation, {"submodules"})
startBisect      == submitOperation(BisectStartOperation, TRUE, {"bisect"}, FALSE)
markBisect       == submitOperation(BisectMarkOperation, TRUE, {"bisect"}, FALSE)
skipBisect       == submitOperation(BisectSkipOperation, TRUE, {"bisect"}, FALSE)
resetBisect      == submitOperation(BisectResetOperation, TRUE, {"bisect"}, FALSE)
installLfs        == Local(LfsInstallOperation, {"lfs"})
trackLfsPattern   == Local(LfsTrackOperation, {"lfs"})
untrackLfsPattern == Local(LfsUntrackOperation, {"lfs"})
pullLfs           == Remote(LfsPullOperation, {"status", "lfs"})
fetchLfs          == Remote(LfsFetchOperation, {"lfs"})
pruneLfs          == Local(LfsPruneOperation, {"lfs"})
exportPatches             == Local(ExportPatchesOperation, {})
applyPatchFiles           == Local(ApplyPatchFilesOperation, {"status"})
importPatches     == submitOperation(ImportPatchesOperation, TRUE, {}, FALSE)
continueImport    == submitOperation(AmContinueOperation, TRUE, {}, FALSE)
skipImport        == submitOperation(AmSkipOperation, TRUE, {}, FALSE)
abortImport       == submitOperation(AmAbortOperation, TRUE, {}, FALSE)
setLocalIdentityOverride   == Local(SetLocalIdentityOperation, {"identity"})
clearLocalIdentityOverride == Local(ClearLocalIdentityOperation, {"identity"})
writeCommitGraph           == Local(WriteCommitGraphOperation, {})

\* The requests by name; an option that changes the steps is a name of its own.
Catalogue ==
    [checkout |-> checkout(FALSE, FALSE), checkoutNew |-> checkout(FALSE, TRUE),
     checkoutStash |-> checkout(TRUE, FALSE),
     createBranch |-> createBranch(FALSE), createAndCheckout |-> createBranch(TRUE),
     rename |-> renameBranch(FALSE, FALSE), renameCase |-> renameBranch(TRUE, FALSE),
     renameBoth |-> renameBranch(FALSE, TRUE),
     delete |-> deleteBranch(FALSE), deleteRemote |-> deleteBranch(TRUE), reset |-> resetTo,
     stage |-> stageFiles, unstage |-> unstageFiles, stageHunk |-> stageHunk,
     unstageHunk |-> unstageHunk, stageLines |-> stageLines, unstageLines |-> unstageLines,
     discardLines |-> discardLines, commit |-> commitChanges,
     merge |-> mergeBranch(FALSE, FALSE, FALSE), mergeStash |-> mergeBranch(TRUE, FALSE, FALSE),
     squash |-> mergeBranch(FALSE, TRUE, FALSE), squashCommit |-> mergeBranch(FALSE, TRUE, TRUE),
     abortMerge |-> abortMerge,
     cherryPick |-> cherryPick(FALSE, FALSE), cherryPickStash |-> cherryPick(TRUE, FALSE),
     cherryPickNoCommit |-> cherryPick(FALSE, TRUE), continueCherryPick |-> continueCherryPick,
     skipCherryPick |-> skipCherryPick, abortCherryPick |-> abortCherryPick,
     revert |-> revertCommit(FALSE, FALSE), revertStash |-> revertCommit(TRUE, FALSE),
     revertNoCommit |-> revertCommit(FALSE, TRUE),
     resolveWrite |-> resolveConflict(TRUE), resolveRemove |-> resolveConflict(FALSE),
     saveStash |-> saveStash, applyStash |-> applyStash(FALSE), popStash |-> applyStash(TRUE),
     dropStash |-> dropStash, branchFromStash |-> branchFromStash,
     createTag |-> createTag, deleteTag |-> deleteTag(FALSE), deleteTagBoth |-> deleteTag(TRUE),
     pushTag |-> pushTag,
     addWorktree |-> addWorktree,
     removeWorktree |-> removeWorktree, pruneWorktrees |-> pruneWorktrees,
     lockWorktree |-> lockWorktree, unlockWorktree |-> unlockWorktree,
     fetch |-> fetchRemote(FALSE), backgroundFetch |-> fetchRemote(TRUE),
     pull |-> pullChanges(FALSE), pullStash |-> pullChanges(TRUE), push |-> pushChanges,
     pruneRemote |-> pruneRemote(FALSE), pruneNothing |-> pruneRemote(TRUE),
     addRemote |-> addRemote, removeRemote |-> removeRemote,
     undo |-> undoLastOperation, restore |-> restorePaths, clean |-> cleanUntracked,
     rebaseInteractive |-> startInteractiveRebase(FALSE),
     rebaseInteractiveStash |-> startInteractiveRebase(TRUE),
     rebase |-> startRebase(FALSE), rebaseStash |-> startRebase(TRUE),
     continueRebase |-> continueRebase, skipRebase |-> skipRebase, abortRebase |-> abortRebase,
     addSubmodule |-> addSubmodule, initSubmodules |-> initSubmodules,
     updateSubmodules |-> updateSubmodules, syncSubmodules |-> syncSubmodules,
     deinitSubmodules |-> deinitSubmodules,
     startBisect |-> startBisect, markBisect |-> markBisect, skipBisect |-> skipBisect,
     resetBisect |-> resetBisect,
     installLfs |-> installLfs, trackLfs |-> trackLfsPattern, untrackLfs |-> untrackLfsPattern,
     pullLfs |-> pullLfs, fetchLfs |-> fetchLfs, pruneLfs |-> pruneLfs,
     exportPatches |-> exportPatches, applyPatch |-> applyPatchFiles,
     importPatches |-> importPatches,
     continueImport |-> continueImport, skipImport |-> skipImport, abortImport |-> abortImport,
     setIdentity |-> setLocalIdentityOverride, clearIdentity |-> clearLocalIdentityOverride,
     writeCommitGraph |-> writeCommitGraph]

=============================================================================
