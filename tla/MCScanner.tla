----------------------------- MODULE MCScanner -----------------------------
EXTENDS Scanner
\* r holds a and ab (the name of ab starts with a's) and a holds x; a second base
\* folder lies inside the first.  ab is a linked worktree, x a checkout, and out is
\* named by a skip rule.
TreeDirs   == {"r", "a", "ab", "x", "out"}
TreeParent == [d \in TreeDirs |-> CASE d \in {"x", "out"} -> "a" [] OTHER -> "r"]
TreeNames  == {<<"a", "ab">>}
Roots      == ("outer" :> "r") @@ ("inner" :> "a")
Checkout   == [Plain EXCEPT !.dotGit = "dir", !.head = TRUE]
Worktree   == [Plain EXCEPT !.dotGit = "file", !.pointer = "worktrees"]
Mirror     == [Plain EXCEPT !.layout = TRUE, !.config = "bare"]
Shapes     == ("r" :> Plain) @@ ("a" :> Mirror) @@ ("ab" :> Worktree) @@ ("x" :> Checkout)
              @@ ("out" :> Plain)
TwoRepos   == {{"ab", "x"}}
WorkerPair == Permutations(Workers)
=============================================================================
