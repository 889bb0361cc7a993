------------------------------ MODULE GitCommand ------------------------------
(***************************************************************************)
(* The rules that turn a requested git command into the one that runs:     *)
(* which commands move data over the network, the `--progress` they get,   *)
(* the deadlines they run under and the environment they see.  A command   *)
(* is a record with its arguments (a sequence of words), its declared      *)
(* timeouts, and its environment overrides (a sequence of <<key, value>>). *)
(***************************************************************************)
EXTENDS Integers, Sequences, SequencesExt

CONSTANTS KNetworkIdle,   \* GitCommand::kNetworkIdle, in ticks
          KLocalCeiling   \* GitCommand::kLocalCeiling, in ticks

ASSUME DeadlineAssumption ==
    /\ KNetworkIdle \in Nat \ {0}
    /\ KLocalCeiling \in Nat \ {0}

\* isNetworkCommand(): decided from argv alone.
IsNetworkCommand(args) ==
    /\ args # <<>>
    /\ \/ args[1] \in {"fetch", "pull", "push", "clone"}
       \/ /\ Len(args) >= 2
          /\ \/ args[1] = "submodule" /\ args[2] \in {"update", "add"}
             \/ args[1] = "lfs" /\ args[2] \in {"fetch", "pull", "push"}

\* withTransferProgress(): what makes a transfer show signs of life.
WithTransferProgress(c) ==
    IF ~IsNetworkCommand(c.args) THEN c
    ELSE IF c.args[1] = "lfs"
    THEN [c EXCEPT !.env = Append(@, <<"GIT_LFS_FORCE_PROGRESS", "1">>)]
    ELSE [c EXCEPT !.args =
            InsertAt(@, IF c.args[1] = "submodule" THEN 3 ELSE 2, "--progress")]

\* setTimeoutMultiplier(): a value below 1 leaves the old one.
SetTimeoutMultiplier(old, m) == IF m < 1 THEN old ELSE m

\* mutant: a timeout of 0 means no deadline, as it did before the ceiling.
UnboundedLocal(c, multiplier) ==
    IF IsNetworkCommand(c.args)
    THEN [total |-> 0, idle |-> KNetworkIdle * multiplier]
    ELSE [total |-> c.timeout * multiplier, idle |-> c.idleTimeout]

\* effectiveDeadlines(): a transfer has only an idle deadline, anything else a
\* total one that the ceiling bounds.  0 means "none".
EffectiveDeadlines(c, multiplier) ==
    IF IsNetworkCommand(c.args)
    THEN [total |-> 0, idle |-> KNetworkIdle * multiplier]
    ELSE [total |-> multiplier *
                    (IF c.timeout = 0 \/ c.timeout > KLocalCeiling
                     THEN KLocalCeiling ELSE c.timeout),
          idle  |-> c.idleTimeout]
===============================================================================
