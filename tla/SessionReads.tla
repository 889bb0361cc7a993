---------------------------- MODULE SessionReads ----------------------------
(***************************************************************************)
(* capi::Session's reads: what each runs, and what its answer does.        *)
(*                                                                         *)
(* A read is the sequence of the commands its store runs.  One that "must" *)
(* succeed fails the read, which then shows nothing new; one that "may"    *)
(* fail leaves its part blank, or answers with the error itself.           *)
(*                                                                         *)
(* Two kinds of reads.  A view (the refs, the status...) is one value that *)
(* every operation's completion hook brings up to date.  A pane (a blame,  *)
(* a diff...) answers the question the user asked last, posted at the      *)
(* front or at the back of the pool's queue.                               *)
(***************************************************************************)
EXTENDS Sequences

----------------------------------------------------------------------------
\* The views.

refreshHistory       == <<"must">>
expandUntrackedDirectories == <<"must">>
attachNumstat        == <<"may">>                           \* of the worktree, then of the index
countUntrackedLines  == <<"may">>                           \* reads the files
refreshWorkingCopy   ==
    <<"must">> \o expandUntrackedDirectories \o attachNumstat \o attachNumstat \o countUntrackedLines
StashStore_list      == <<"must">>
attachCreatedAt      == <<"may">>
WorktreeStore_list   == <<"must">> \o attachCreatedAt
RemoteStore_list     == <<"must">>
SubmoduleStore_list  == <<"may", "must">>                   \* .gitmodules, submodule status
BisectStore_status   == <<"must", "may">>                   \* log, rev-parse HEAD
LfsStore_trackedPatterns == <<"may">>
LfsStore_listFiles       == <<"may">>
refreshLfs           == LfsStore_trackedPatterns \o LfsStore_listFiles
readConfigValue      == <<"may">>                           \* unset and unreadable look alike
LocalIdentity_read          == readConfigValue \o readConfigValue
LocalIdentity_readEffective == readConfigValue \o readConfigValue
Reads == [refs |-> refreshHistory, status |-> refreshWorkingCopy, stashes |-> StashStore_list,
          worktrees |-> WorktreeStore_list, remotes |-> RemoteStore_list,
          submodules |-> SubmoduleStore_list, bisect |-> BisectStore_status,
          lfs |-> refreshLfs, identity |-> LocalIdentity_read \o LocalIdentity_readEffective]
\* The other read of the worktrees: the list again, then a status in each of them.
attachPendingCounts          == <<"may">>
requestWorktreePendingCounts == WorktreeStore_list \o attachPendingCounts

----------------------------------------------------------------------------
\* The stores behind the panes.

\* An unstaged path without a diff is asked for in the index, then read as a new file.
isPathInIndex     == <<"may">>
untrackedFileDiff == <<"may">>
workingTreeDiff   == <<"must">> \o isPathInIndex \o untrackedFileDiff
stashDiff         == <<"must">>
attachLineCounts  == <<"must">>
changedFiles      == <<"must">> \o attachLineCounts
commitFileCounts  == <<"must">>
commitFileDiff    == <<"must">>
commitVsWorkingTree == <<"must">>
resolveRevision   == <<"must">>
readOriginalOperationMessage == <<"may">>                   \* a file
resolveCommit     == <<"must">>
SquashMessage_preview == resolveCommit \o resolveCommit \o <<"must">>
PreparedMessage_read  == <<"must">>
BlobStore_exportFileAtRevision == <<"must">>
RemoteStore_prunePreview  == <<"must">>
BranchStore_probeDeletion == <<"must">>
BlameStore_blame     == <<"must">>
CommitMetaStore_read == <<"may">>                           \* CatFileBatch: a missing oid is left out
readMergeBase        == <<"must">>
readCommits          == <<"must">>
readFiles            == <<"must", "must">>                  \* name-status, numstat
CompareStore_compare == readMergeBase \o readCommits \o readFiles
compareFileDiff      == <<"must">>
FileHistory_fileHistory == <<"must">>
FileHistory_lineHistory == <<"must">>
ReflogStore_list       == <<"must">>
CleanPreviewer_preview == <<"must">>
RebasePlanner_plan     == <<"must">>

----------------------------------------------------------------------------
\* The panes.  `replaces` says whether the answer to an older question can take
\* the place of the newest one's: always, where the UI keeps one answer; when
\* both were about the same thing, where it keeps them by path or by refs;
\* never, where the key fixes the answer (an oid, a request's number).

Slot  == {TRUE}
Keyed == {TRUE, FALSE}
Fixed == {FALSE}
postFront(runs, replaces) == [runs |-> runs, front |-> TRUE, replaces |-> replaces]
post(runs, replaces)      == [runs |-> runs, front |-> FALSE, replaces |-> replaces]
\* The reply is sent in either case and carries the error.
WithError(runs) == [i \in DOMAIN runs |-> "may"]

requestWorkingCopyDiff          == postFront(workingTreeDiff, Keyed)
requestWorkingCopyFullDiff      == post(workingTreeDiff, Keyed)
requestOriginalOperationMessage == postFront(readOriginalOperationMessage, Slot)
requestSquashMessage            == postFront(WithError(SquashMessage_preview), Keyed)
requestPreparedMessage          == postFront(WithError(PreparedMessage_read), Slot)
requestWorkingTreeContent       == postFront(<<"may">>, Slot)
exportFileAtRevision            == post(WithError(BlobStore_exportFileAtRevision), Fixed)
requestStashDiff                == post(stashDiff, Slot)
requestRemotePrunePreview       == postFront(RemoteStore_prunePreview, Slot)
requestBranchDeletionProbe      == postFront(WithError(BranchStore_probeDeletion), Fixed)
requestBlame                    == postFront(BlameStore_blame, Slot)
requestCommitMeta               == postFront(CommitMetaStore_read, Fixed)
requestCommitFileCounts         == postFront(WithError(commitFileCounts), Fixed)
requestCommitFiles              == postFront(changedFiles, Slot)
requestCommitFileDiff           == postFront(commitFileDiff, Slot)
requestCompareRefs              == postFront(CompareStore_compare, Keyed)
requestCompareFileDiff          == postFront(compareFileDiff, Keyed)
requestCompareWithWorkingCopy   == postFront(resolveRevision \o commitVsWorkingTree, Keyed)
requestFileHistory              == postFront(FileHistory_fileHistory, Slot)
requestLineHistory              == postFront(FileHistory_lineHistory, Slot)
requestReflog                   == post(ReflogStore_list, Slot)
requestCleanPreview             == post(CleanPreviewer_preview, Slot)
requestRebasePlan               == post(RebasePlanner_plan, Slot)

Panes ==
    [workingCopyDiff |-> requestWorkingCopyDiff, workingCopyFullDiff |-> requestWorkingCopyFullDiff,
     originalMessage |-> requestOriginalOperationMessage, squashMessage |-> requestSquashMessage,
     preparedMessage |-> requestPreparedMessage, workingTreeContent |-> requestWorkingTreeContent,
     export |-> exportFileAtRevision, stashDiff |-> requestStashDiff,
     prunePreview |-> requestRemotePrunePreview, deletionProbe |-> requestBranchDeletionProbe,
     blame |-> requestBlame, commitMeta |-> requestCommitMeta,
     commitFileCounts |-> requestCommitFileCounts, commitFiles |-> requestCommitFiles,
     commitFileDiff |-> requestCommitFileDiff, compareRefs |-> requestCompareRefs,
     compareFileDiff |-> requestCompareFileDiff,
     compareWithWorkingCopy |-> requestCompareWithWorkingCopy,
     fileHistory |-> requestFileHistory, lineHistory |-> requestLineHistory,
     reflog |-> requestReflog, cleanPreview |-> requestCleanPreview,
     rebasePlan |-> requestRebasePlan]

Runs(v)     == IF v \in DOMAIN Panes THEN Panes[v].runs ELSE Reads[v]
Fails(v, kind) == \E i \in DOMAIN Runs(v) : Runs(v)[i] = kind
Front(v)    == v \in DOMAIN Panes /\ Panes[v].front
Replaces(v) == IF v \in DOMAIN Panes THEN Panes[v].replaces ELSE Slot
=============================================================================
