------------------------------- MODULE GitOps -------------------------------
(***************************************************************************)
(* core/git/ops: what each Operation subclass runs.  An operation is the   *)
(* sequence of the checks it makes and the git commands it spawns, in the  *)
(* order of its run(), and for each of them the parts of the repository    *)
(* that it changes, and whether run() goes on after its failure.           *)
(*                                                                         *)
(* The parts are those of a success.  A command that fails may have        *)
(* changed any of them already, because git commands are not atomic:       *)
(* `cherry-pick a b` lands a and then stops at b, `pull --rebase` has      *)
(* detached HEAD when it stops, `bisect skip` records the skip and then    *)
(* fails for want of a candidate, `worktree remove` drops its entry though *)
(* the directory stays, `checkout` fails with the status of a post-checkout*)
(* hook, and cancel() or a deadline kills any of them half way.            *)
(*                                                                         *)
(* The parts are named after the view of the session that shows them.      *)
(* "worktrees" is among the parts a moved HEAD changes: the panel draws    *)
(* every worktree's branch and headOid.  "submodules", "lfs" and "bisect"  *)
(* stand for git's bookkeeping, not for the files a checkout brings.       *)
(***************************************************************************)
EXTENDS Naturals, Sequences

Views == {"refs", "status", "stashes", "worktrees", "remotes",
          "submodules", "bisect", "lfs", "identity"}

HeadViews == {"refs", "worktrees"}      \* what a commit or a switch moves

\* Every class ends the same way: an error outcome at the first failed step,
\* succeeded = true after the last one.
Git(changes)        == [act |-> "git", changes |-> changes, best |-> FALSE]
BestEffort(changes) == [act |-> "git", changes |-> changes, best |-> TRUE]
Special(act)        == [act |-> act, changes |-> {}, best |-> FALSE]
\* An argument check or a read: it can end the run, and changes nothing.
Check == Git({})
If(c, steps) == IF c THEN steps ELSE <<>>

\* `git stash push --include-untracked`, before the operation proper.
StashFirst(stash) == If(stash, <<Git({"status", "stashes"})>>)

CheckoutOperation(stash, create) ==
    <<Check>> \o StashFirst(stash) \o <<Git(HeadViews \cup {"status"} \cup IF create THEN {"refs"} ELSE {})>>

CreateBranchOperation(checkoutAfter) ==
    <<Check, Git({"refs"})>> \o If(checkoutAfter, <<Git(HeadViews \cup {"status"})>>)

FinishLocalRename(renameRemote) ==
    IF renameRemote THEN <<Git({"refs"}), Git({"refs"})>>   \* push, push --delete
                    ELSE <<BestEffort({"refs"})>>                   \* --unset-upstream
\* A case-only rename goes through a temporary name on a case-insensitive
\* filesystem: two `branch -m`.
RenameBranchOperation(caseOnly, renameRemote) ==
    <<Check>> \o (IF caseOnly THEN <<Git(HeadViews), Git(HeadViews)>> ELSE <<Git(HeadViews)>>)
              \o FinishLocalRename(renameRemote)

\* The local deletion is in SessionOps (its steps read and change the tips).
DeleteBranchOperation(isRemote) ==
    IF isRemote THEN <<Git({"refs"})>>
                ELSE <<Special("listBefore"), Special("checkTips"), Special("force"), Special("plain")>>

CommitSquash == <<Check, Git(HeadViews \cup {"status"})>>    \* what is staged now, then commit
MergeOperation(stash, squash, message) ==
    <<Check>> \o StashFirst(stash) \o If(squash /\ message, <<Check>>)
    \o <<Git(IF squash THEN {"status"} ELSE HeadViews \cup {"status"})>>
    \o If(squash /\ message, CommitSquash)
MergeAbortOperation == <<Git(HeadViews \cup {"status"})>>

FetchOperation(background) ==
    <<Check, Git({"refs"})>> \o If(background, <<Special("refsMoved")>>)
\* A merge or, with --rebase, a rebase behind the fetch.
PullOperation(stash) == StashFirst(stash) \o <<Git(HeadViews \cup {"status"})>>
\* `git push a b` updates the tracking ref of what the remote accepted.
PushOperation == <<Git({"refs"})>>
PruneRemoteOperation(nothing) == If(~nothing, <<Git({"refs"})>>)
AddRemoteOperation == <<Check, Git({"remotes"})>>
\* `git remote remove` deletes the remote's tracking refs with it.
RemoveRemoteOperation == <<Check, Git({"remotes", "refs"})>>

RebaseInteractiveOperation(stash) ==
    <<Check>> \o StashFirst(stash) \o <<Check, Git(HeadViews \cup {"status"})>>
RebaseOperation(stash) ==
    <<Check>> \o StashFirst(stash) \o <<Git(HeadViews \cup {"status"})>>
RebaseControlOperation == <<Git(HeadViews \cup {"status"})>>
CherryPickOperation(stash, noCommit) ==
    <<Check>> \o StashFirst(stash)
    \o <<Git(IF noCommit THEN {"status"} ELSE HeadViews \cup {"status"})>>
CherryPickControlOperation == <<Git(HeadViews \cup {"status"})>>
RevertOperation(stash, noCommit) ==
    <<Check>> \o StashFirst(stash)
    \o <<Git(IF noCommit THEN {"status"} ELSE HeadViews \cup {"status"})>>

StageFilesOperation   == <<Check, Git({"status"})>>
UnstageFilesOperation == <<Check, Git({"status"})>>
\* Rebuild the diff, find the hunk again, then apply the patch to the index -- or,
\* for the whole of an added file, `restore --staged`.
PartialStageOperation == <<Check, Check, Check, Git({"status"})>>
DiscardLinesOperation == <<Check, Check, Check, Git({"status"})>>
CommitOperation       == <<Check, Git(HeadViews \cup {"status"})>>
\* takeSide with a missing side is one `rm`; otherwise the file is written (by
\* `checkout --ours/--theirs` or by writeResolved) and then added.
ResolveConflictOperation(writes) ==
    <<Check>> \o If(writes, <<Git({"status"})>>) \o <<Git({"status"})>>
ResetOperation   == <<Git(HeadViews \cup {"status"})>>
RestoreOperation == <<Check, Git({"status"})>>
CleanOperation   == <<Git({"status"})>>
\* readHead(), the branch check, reset --hard.
UndoOperation    == <<Check, Check, Git(HeadViews \cup {"status"})>>

\* "No local changes to save" is a failure of an exit 0.
StashSaveOperation       == <<Git({"status", "stashes"})>>
StashApplyOperation(pop) == <<Git({"status"} \cup IF pop THEN {"stashes"} ELSE {})>>
StashDropOperation       == <<Git({"stashes"})>>
StashBranchOperation     == <<Git(HeadViews \cup {"status", "stashes"})>>

CreateTagOperation == <<Check, Git({"refs"})>>
DeleteTagOperation(alsoRemote) == <<Git({"refs"})>> \o If(alsoRemote, <<Git({})>>)
PushTagOperation == <<Git({})>>

\* With -b it creates a branch too.
AddWorktreeOperation    == <<Check, Check, Git({"worktrees", "refs"})>>
RemoveWorktreeOperation == <<Git({"worktrees", "refs"}), BestEffort({"worktrees", "refs"})>>
PruneWorktreesOperation == <<Git({"worktrees", "refs"})>>
LockWorktreeOperation   == <<Git({"worktrees"})>>
UnlockWorktreeOperation == <<Git({"worktrees"})>>

AddSubmoduleOperation     == <<Check, Git({"status", "submodules"})>>
InitSubmodulesOperation   == <<Git({"submodules"})>>
UpdateSubmodulesOperation == <<Git({"status", "submodules"})>>
SyncSubmodulesOperation   == <<Git({"submodules"})>>
DeinitSubmodulesOperation == <<Git({"submodules"})>>

BisectStartOperation == <<Git(HeadViews \cup {"status", "bisect"})>>
BisectMarkOperation  == <<Git(HeadViews \cup {"status", "bisect"})>>
BisectSkipOperation  == <<Git(HeadViews \cup {"status", "bisect"})>>
BisectResetOperation == <<Git(HeadViews \cup {"status", "bisect"})>>

\* `git lfs track` edits .gitattributes, a file of the working copy.
LfsInstallOperation == <<Git({"lfs"})>>
LfsTrackOperation   == <<Check, Git({"lfs", "status"})>>
LfsUntrackOperation == <<Check, Git({"lfs", "status"})>>
LfsPullOperation    == <<Git({"lfs", "status"})>>
LfsFetchOperation   == <<Git({"lfs"})>>
LfsPruneOperation   == <<Git({"lfs"})>>

ExportPatchesOperation == <<Check, Check, Git({}), Git({})>>     \* two commits
ApplyPatchFilesOperation == <<Check, Git({"status"})>>
ImportPatchesOperation == <<Check, Git(HeadViews \cup {"status"})>>
AmContinueOperation    == <<Git(HeadViews \cup {"status"})>>
AmSkipOperation        == <<Git(HeadViews \cup {"status"})>>
AmAbortOperation       == <<Git(HeadViews \cup {"status"})>>

\* user.name, then user.email.
SetLocalIdentityOperation   == <<Git({"identity"}), Git({"identity"})>>
ClearLocalIdentityOperation == <<BestEffort({"identity"}), BestEffort({"identity"})>>
WriteCommitGraphOperation   == <<Git({})>>
=============================================================================
