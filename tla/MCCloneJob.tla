------------------------------ MODULE MCCloneJob ------------------------------
(* Instances of CloneJob for TLC. *)
EXTENDS CloneJob

\* A local read whose sink stops early, a local write that feeds git's stdin,
\* and a transfer that may not prompt.
LocalRead ==
    [args |-> <<"log">>, timeout |-> 0, idleTimeout |-> 0, stdin |-> 0,
     sinkMayStop |-> TRUE, benign |-> {1}, env |-> <<>>]
LocalWrite ==
    [args |-> <<"apply">>, timeout |-> 1, idleTimeout |-> 0, stdin |-> 2,
     sinkMayStop |-> FALSE, benign |-> {}, env |-> <<>>]
AutoFetch ==
    WireRefusing([args |-> <<"fetch">>, timeout |-> 0, idleTimeout |-> 0, stdin |-> 0,
                  sinkMayStop |-> FALSE, benign |-> {}, env |-> <<>>])

Load(p, c, clone, rough, chunk, prompt, meddle) ==
    [platform |-> p, cmd |-> c, clone |-> clone, rough |-> rough, chunks |-> chunk,
     prompts |-> prompt, meddling |-> meddle]

\* Plain commands on both platforms; a clone with two prompts, one that leaves a
\* helper, one whose prompts may expire; a clone whose destination others touch.
MCLoads ==
    {Load(p, LocalRead, FALSE, {"helper", "pids"}, 1, 0, 0) : p \in {"posix", "windows"}}
    \cup {Load(p, LocalWrite, FALSE, {}, 0, 0, 0) : p \in {"posix", "windows"}}
    \cup {Load(p, AutoFetch, FALSE, {}, 1, 1, 0) : p \in {"posix", "windows"}}
    \cup {Load("posix", CloneCommand, TRUE, {"close"}, 0, 2, 0),
          Load("windows", CloneCommand, TRUE, {"helper", "close"}, 0, 0, 0),
          Load("posix", CloneCommand, TRUE, {"expire"}, 0, 1, 0),
          Load("posix", CloneCommand, TRUE, {"helper"}, 0, 0, 1)}

\* A local read on POSIX, in a system that reuses pids.
ReadLoads == {Load("posix", LocalRead, FALSE, {"pids"}, 1, 0, 0)}
===============================================================================
