---------------------------- MODULE ObjectReader ----------------------------
(***************************************************************************)
(* What a batch of object reads promises its callers, without a child      *)
(* process, pipes, a lock or a watchdog: every revision asked for is       *)
(* answered in order, with its own object, with its own refusal, or with a *)
(* failure that carries no object at all; once the token is cancelled the  *)
(* rest of a batch may be left unanswered.                                 *)
(***************************************************************************)
EXTENDS Sequences

CONSTANTS
    Clients,    \* the pool tasks that read
    Asks,       \* [Clients -> Seq(revisions)]: what each of them asks for
    Truth(_),   \* the answer the repository has for a revision
    Failures    \* the answers that carry no object

VARIABLES
    asked,      \* [Clients -> Seq(revisions)]: not answered yet
    answers,    \* [Clients -> Seq(<<revision, answer>>)]
    cancelled   \* the session's read token

vars == <<asked, answers, cancelled>>

Init ==
    /\ asked = Asks
    /\ answers = [c \in Clients |-> <<>>]
    /\ cancelled = FALSE

Cancel ==
    /\ ~cancelled
    /\ cancelled' = TRUE
    /\ UNCHANGED <<asked, answers>>

Answer(c) ==
    /\ asked[c] # <<>>
    /\ \E a \in {Truth(Head(asked[c]))} \cup Failures :
           answers' = [answers EXCEPT ![c] = Append(@, <<Head(asked[c]), a>>)]
    /\ asked' = [asked EXCEPT ![c] = Tail(@)]
    /\ UNCHANGED cancelled

GiveUp(c) ==
    /\ cancelled
    /\ asked[c] # <<>>
    /\ asked' = [asked EXCEPT ![c] = <<>>]
    /\ UNCHANGED <<answers, cancelled>>

Next == Cancel \/ \E c \in Clients : Answer(c) \/ GiveUp(c)

Safety == Init /\ [][Next]_vars
Spec == Safety /\ \A c \in Clients : WF_vars(Answer(c) \/ GiveUp(c))
=============================================================================
