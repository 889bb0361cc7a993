--------------------------- MODULE RepoClassifier ---------------------------
(***************************************************************************)
(* gbm::RepoClassifier: what a directory is, from a few stats.             *)
(*                                                                         *)
(* A directory is described by what the stats can tell apart: its entry    *)
(* .git ("none", "dir", "file"), whether .git holds HEAD, where a .git file *)
(* points, and the bare layout.                                            *)
(***************************************************************************)
Plain == [dotGit |-> "none", head |-> FALSE, pointer |-> "none", layout |-> FALSE,
          config |-> "unset", suffix |-> FALSE]

\* resolveGitDirFile(): a .git file must be readable, start with "gitdir:" and name a
\* path; a relative one is taken from the directory.
resolveGitDirFile(dir) == IF dir.pointer = "malformed" THEN "none" ELSE dir.pointer

\* looksBare(): HEAD, objects/ and refs/, confirmed by core.bare, or else by the
\* name's .git suffix.
looksBare(dir) ==
    dir.layout /\ (dir.config = "bare" \/ (dir.config = "unset" /\ dir.suffix))

\* classify(): the kind, or "Plain", or "Unreadable" for a .git that is not usable.
classify(dir) ==
    LET target == resolveGitDirFile(dir) IN
    CASE dir.dotGit = "dir"  -> IF dir.head THEN "Normal" ELSE "Unreadable"
      [] dir.dotGit = "file" -> CASE target \in {"none", "dangling"} -> "Unreadable"
                                  [] target = "worktrees" -> "LinkedWorktree"
                                  [] target = "modules"   -> "Submodule"
                                  [] OTHER                -> "Normal"
      [] OTHER -> IF looksBare(dir) THEN "Bare" ELSE "Plain"

\* ClassifiedRepo::isRepo()
isRepo(dir) == classify(dir) \notin {"Plain", "Unreadable"}
=============================================================================
