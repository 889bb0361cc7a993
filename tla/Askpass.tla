------------------------------- MODULE Askpass -------------------------------
(***************************************************************************)
(* Credential prompts.  git starts an askpass client (this same            *)
(* executable) for each question; client and application talk through      *)
(* three files in a private directory.  Three actors: the client, the      *)
(* poller's thread, and the FFI thread with the user behind it.  A prompt  *)
(* is the number of the client that asked; a secret is the number of the   *)
(* prompt the user typed it for.                                           *)
(***************************************************************************)
EXTENDS GitCommand

VARIABLES dir,      \* the request directory: "none", "there" or "gone"
          files,    \* [request, response |-> number or 0, cancel |-> BOOLEAN]
          poller,   \* AskpassPoller: [running, dir, seen, answered, at, ...]
          client,   \* the current client: [n |-> its number, at, got]
          raised,   \* prompts handed to onPrompt, in order
          dialog,   \* the prompt the user is looking at, 0 for none
          gaveUp    \* a client left after kResponseTimeout

askVars == <<dir, files, poller, client, raised, dialog, gaveUp>>

NoFiles == [request |-> 0, response |-> 0, cancel |-> FALSE]

AskInit ==
    /\ dir = "none" /\ files = NoFiles /\ raised = <<>> /\ dialog = 0
    /\ poller = [running |-> FALSE, dir |-> FALSE, seen |-> FALSE,
                 answered |-> FALSE, at |-> "off", sawSeen |-> FALSE,
                 sawAnswered |-> FALSE]
    /\ client = [n |-> 0, at |-> "none", got |-> 0]
    /\ gaveUp = FALSE

----------------------------------------------------------------------------
\* wire(), wireRefusing(): what the command's environment says of the prompt.
\* An empty directory is what makes the client refuse at once.
Wire(c, d) ==
    IF d = "" THEN c
    ELSE [c EXCEPT !.env = @ \o <<<<"GIT_ASKPASS", "exe">>, <<"SSH_ASKPASS", "exe">>,
            <<"SSH_ASKPASS_REQUIRE", "force">>, <<"DISPLAY", ":0">>,
            <<"GBM_ASKPASS_MODE", "1">>, <<"GBM_ASKPASS_DIR", d>>>>]

WireRefusing(c) ==
    [c EXCEPT !.env = @ \o <<<<"GIT_ASKPASS", "exe">>, <<"SSH_ASKPASS", "exe">>,
        <<"SSH_ASKPASS_REQUIRE", "force">>, <<"DISPLAY", ":0">>,
        <<"GBM_ASKPASS_MODE", "1">>, <<"GBM_ASKPASS_DIR", "">>,
        <<"GCM_INTERACTIVE", "false">>>>]

\* askpassDirOf(): the first override of the variable, "" when there is none.
AskpassDirOf(c) ==
    LET hits == SelectSeq(c.env, LAMBDA kv : kv[1] = "GBM_ASKPASS_DIR")
    IN  IF hits = <<>> THEN "" ELSE hits[1][2]

\* isPromptPending(): asked, and neither answered nor cancelled.
IsPromptPending(d) ==
    /\ d # "" /\ dir = "there"
    /\ files.request # 0 /\ files.response = 0 /\ ~files.cancel

\* makeRequestDir(): a fresh private directory, or none at all.
MakeRequestDir(ok) == dir' = IF ok THEN "there" ELSE "none"

\* writeHandshakeFile(): all or nothing, and nothing without the directory.
WriteHandshakeFile(name, content) ==
    files' = IF dir = "there" THEN [files EXCEPT ![name] = content] ELSE files

----------------------------------------------------------------------------
(* AskpassPoller *)

\* start(): the previous poll has been stopped; an empty directory polls nothing.
PollerStart(d) ==
    poller' = IF d = "there"
              THEN [poller EXCEPT !.running = TRUE, !.dir = TRUE, !.seen = FALSE,
                                  !.answered = FALSE, !.at = "top"]
              ELSE poller

\* stop(), first half: ask the thread to leave; the caller then joins it.
PollerAskStop == poller' = [poller EXCEPT !.running = FALSE]
PollerJoined == poller.at = "off"

\* stop(), second half: forget the directory, cancel whoever waits, remove it.
PollerForget ==
    /\ poller' = [poller EXCEPT !.dir = FALSE, !.seen = FALSE, !.answered = FALSE]
    /\ dir' = IF poller.dir THEN "gone" ELSE dir
    /\ files' = IF poller.dir THEN NoFiles ELSE files

\* pollLoop(), the section under the lock at the top of an iteration.
PollTop ==
    /\ poller.at = "top"
    /\ poller' = IF ~poller.running \/ ~poller.dir
                 THEN [poller EXCEPT !.at = "off"]
                 ELSE [poller EXCEPT !.at = "look", !.sawSeen = poller.seen,
                                     !.sawAnswered = poller.answered]
    /\ UNCHANGED <<dir, files, client, raised, dialog, gaveUp>>

\* pollLoop() after a prompt was raised: is that prompt finished?
PollSeen ==
    /\ poller.at = "look" /\ poller.sawSeen
    /\ LET taken == poller.sawAnswered /\ files.response = 0
           rearm == taken \/ files.request = 0
       IN  poller' = [poller EXCEPT !.at = IF rearm THEN "rearm" ELSE "top"]
    /\ UNCHANGED <<dir, files, client, raised, dialog, gaveUp>>

PollRearm ==
    /\ poller.at = "rearm"
    /\ poller' = [poller EXCEPT !.seen = FALSE, !.answered = FALSE, !.at = "top"]
    /\ UNCHANGED <<dir, files, client, raised, dialog, gaveUp>>

\* pollLoop() with no prompt raised: a request is marked seen, then raised.
PollUnseen ==
    /\ poller.at = "look" /\ ~poller.sawSeen
    /\ IF dir = "there" /\ files.request # 0
       THEN /\ poller' = [poller EXCEPT !.seen = TRUE, !.at = "raise"]
            /\ raised' = Append(raised, files.request)
       ELSE poller' = [poller EXCEPT !.at = "top"] /\ UNCHANGED raised
    /\ UNCHANGED <<dir, files, client, dialog, gaveUp>>

\* onPrompt, outside the lock: the user sees a dialog.
PollRaise ==
    /\ poller.at = "raise"
    /\ poller' = [poller EXCEPT !.at = "top"]
    /\ dialog' = raised[Len(raised)]
    /\ UNCHANGED <<dir, files, client, raised, gaveUp>>

PollerStep == PollTop \/ PollSeen \/ PollRearm \/ PollUnseen \/ PollRaise

\* answer(): written, and remembered as answered, under one lock.
Answer ==
    /\ dialog # 0
    /\ dialog' = 0
    /\ IF poller.dir
       THEN /\ WriteHandshakeFile("response", dialog)
            /\ poller' = [poller EXCEPT !.answered = @ \/ dir = "there"]
       ELSE UNCHANGED <<files, poller>>
    /\ UNCHANGED <<dir, client, raised, gaveUp>>

\* cancelPrompt().
CancelPrompt ==
    /\ dialog # 0
    /\ dialog' = 0
    /\ IF poller.dir THEN WriteHandshakeFile("cancel", TRUE) ELSE UNCHANGED files
    /\ UNCHANGED <<dir, poller, client, raised, gaveUp>>

----------------------------------------------------------------------------
(* The client: runClient() and runClientForDir() *)

\* git starts the next client; runClient() refuses without a directory.
ClientStart(d) ==
    /\ client.at = "none"
    /\ LET n == client.n + 1
       IN  IF d = "" \/ dir # "there"
           THEN /\ client' = [n |-> n, at |-> "refused", got |-> 0]
                /\ UNCHANGED files
           ELSE /\ client' = [n |-> n, at |-> "wait", got |-> 0]
                /\ WriteHandshakeFile("request", n)
    /\ UNCHANGED <<dir, poller, raised, dialog, gaveUp>>

\* One iteration: the directory, the cancel, the response, in that order.
ClientLook ==
    /\ client.at = "wait"
    /\ \/ /\ dir # "there" \/ files.cancel
          /\ client' = [client EXCEPT !.at = "refused"]
       \/ /\ dir = "there" /\ ~files.cancel /\ files.response # 0
          /\ client' = [client EXCEPT !.at = "took", !.got = files.response]
    /\ UNCHANGED <<dir, files, poller, raised, dialog, gaveUp>>

\* mutant: the response goes first, so the poller re-arms on the old request.
DropResponseFirst ==
    /\ client.at \in {"took", "took2"}
    /\ IF client.at = "took"
       THEN /\ WriteHandshakeFile("response", 0)
            /\ client' = [client EXCEPT !.at = "took2"]
       ELSE /\ WriteHandshakeFile("request", 0)
            /\ client' = [client EXCEPT !.at = "answered"]
    /\ UNCHANGED <<dir, poller, raised, dialog, gaveUp>>

\* mutant: the response is left for the next client to find.
KeepResponse ==
    /\ client.at = "took"
    /\ WriteHandshakeFile("request", 0)
    /\ client' = [client EXCEPT !.at = "answered"]
    /\ UNCHANGED <<dir, poller, raised, dialog, gaveUp>>

\* The answer was read: drop the request, then the response, then exit 0.
ClientTake ==
    /\ client.at \in {"took", "took2"}
    /\ IF client.at = "took"
       THEN /\ WriteHandshakeFile("request", 0)
            /\ client' = [client EXCEPT !.at = "took2"]
       ELSE /\ WriteHandshakeFile("response", 0)
            /\ client' = [client EXCEPT !.at = "answered"]
    /\ UNCHANGED <<dir, poller, raised, dialog, gaveUp>>

\* kResponseTimeout: the request stays behind.
ClientTimeout ==
    /\ client.at = "wait" /\ gaveUp' = TRUE
    /\ client' = [client EXCEPT !.at = "refused"]
    /\ UNCHANGED <<dir, files, poller, raised, dialog>>

----------------------------------------------------------------------------
\* No question is put to the user twice: pollLoop() re-arms only when the
\* prompt it raised is over, which relies on the order in which the client
\* removes its two files.
PromptRaisedOnce == \A i, j \in DOMAIN raised : raised[i] = raised[j] => i = j

\* A client prints the secret that was typed for its own question, as long as
\* no earlier client gave up waiting and left its question in the directory.
SecretAnswersItsPrompt ==
    client.got # 0 => (client.got = client.n \/ gaveUp)
===============================================================================
