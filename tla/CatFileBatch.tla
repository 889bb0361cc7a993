---------------------------- MODULE CatFileBatch ----------------------------
(***************************************************************************)
(* core/git/CatFileBatch: one long-lived `git cat-file --batch` child that *)
(* answers one request at a time over its pipes, under mutex_, with a      *)
(* watchdog thread that kills a child which does not answer in time.  The  *)
(* clients are pool tasks (CommitMetaStore::read, BlobStore); the closer   *)
(* is ~Session(), which cancels the token, drains the pool and stops the   *)
(* child.                                                                  *)
(*                                                                         *)
(* A pipe is a sequence of pieces: a header line, a payload and its        *)
(* terminator, each tagged with the revision it answers.  The tag is what  *)
(* the properties look at; the code cannot see it.                         *)
(***************************************************************************)
EXTENDS Naturals, Sequences, FiniteSets

CONSTANTS
    Clients,
    Asks,       \* [Clients -> Seq(revisions)]
    Store,      \* [revisions -> "commit", "blob", "missing", "ambiguous", "huge"]
    Noise,      \* what may reach stdout from stderr (Windows: hStdError = outWrite)
    MaxFaults   \* bound: hangs, deaths, spawn failures and noise lines in a behaviour

ASSUME ReaderAssumption ==
    /\ "free" \notin Clients /\ "none" \notin DOMAIN Store
    /\ \A r \in DOMAIN Store : Store[r] \in {"commit", "blob", "missing", "ambiguous", "huge"}
    /\ Asks \in [Clients -> Seq(DOMAIN Store)]
    /\ Noise \subseteq {"junk", "warnsAmbiguous"}
    /\ MaxFaults \in Nat

VARIABLES
    pc,         \* [Clients -> where in readCommits() / read() a client is]
    asked,      \* [Clients -> Seq(revisions)]: the rest of the batch
    answers,    \* [Clients -> Seq(<<revision, answer>>)]: what read() returned
    object,     \* what exchangeLocked() is about to return
    cancelled,  \* readCancel_
    lock,       \* mutex_: the holder, or "free"
    impl,       \* impl_ is set
    poisoned,   \* poisoned_
    child,      \* the process behind pid_: "none", "up", "hung", "dead", "reaped"
    request,    \* the line in the child's stdin, or "none"
    out,        \* the child's stdout: the pieces not read yet
    due,        \* due_ is set
    fired,      \* fired_
    watching,   \* the watchdog thread has not been joined
    closer,     \* ~Session(): "open", "draining", "stopping", "closed"
    faults      \* bounded by MaxFaults

callVars  == <<pc, asked, answers, object>>
childVars == <<child, request, out>>
watchVars == <<due, fired, watching>>
vars == <<callVars, childVars, watchVars, cancelled, lock, impl, poisoned, closer, faults>>

Failures == {<<e>> : e \in {"Io", "Timeout", "SpawnFailed", "ParseError", "Cancelled"}}

\* What git answers for a revision: the header, and for an object its payload
\* and the LF that ends the record.
Pieces(r) == IF Store[r] \in {"missing", "ambiguous"}
             THEN <<[of |-> r, is |-> Store[r]]>>
             ELSE <<[of |-> r, is |-> "header"], [of |-> r, is |-> "payload"], [of |-> r, is |-> "lf"]>>

\* readCommit() over read(): the answer a revision should get.
Truth(r) == CASE Store[r] = "missing"   -> <<"NotFound">>
              [] Store[r] = "ambiguous" -> <<"InvalidArgument">>
              [] Store[r] = "huge"      -> <<"TooLarge">>
              [] Store[r] = "blob"      -> <<"InvalidArgument">>
              [] OTHER                  -> <<"commit", r>>

Init ==
    /\ pc = [c \in Clients |-> "next"]
    /\ asked = Asks
    /\ answers = [c \in Clients |-> <<>>]
    /\ object = <<>>
    /\ cancelled = FALSE
    /\ lock = "free"
    /\ impl = FALSE
    /\ poisoned = FALSE
    /\ child = "none" /\ request = "none" /\ out = <<>>
    /\ due = FALSE /\ fired = FALSE /\ watching = FALSE
    /\ closer = "open"
    /\ faults = 0

-----------------------------------------------------------------------------
\* The client.  readCommits() looks at the token before every object, read()
\* once more before the lock; a batch that is cancelled ends there.
ReadCommits(c) ==
    /\ pc[c] = "next"
    /\ asked[c] # <<>>
    /\ IF cancelled
       THEN asked' = [asked EXCEPT ![c] = <<>>] /\ UNCHANGED pc
       ELSE pc' = [pc EXCEPT ![c] = "queued"] /\ UNCHANGED asked
    /\ UNCHANGED <<answers, object, childVars, watchVars, cancelled, lock, impl, poisoned, closer, faults>>

\* mutex_ is taken; a child that runs and is in step is kept.
Read(c) ==
    /\ pc[c] = "queued"
    /\ lock = "free"
    /\ lock' = c
    /\ pc' = [pc EXCEPT ![c] = IF impl /\ ~poisoned THEN "arm"
                               ELSE IF impl THEN "discard" ELSE "spawn"]
    /\ UNCHANGED <<asked, answers, object, childVars, watchVars, cancelled, impl, poisoned, closer, faults>>

\* ~Impl(): the watchdog is stopped and joined, only then the pipes are closed
\* and the child reaped (close() kills it when it does not end by itself).
DestroyImpl ==
    /\ impl
    /\ watching' = FALSE
    /\ child' = "reaped"
    /\ request' = "none" /\ out' = <<>>
    /\ UNCHANGED <<due, fired>>

Discard(c) ==
    /\ pc[c] = "discard"
    /\ DestroyImpl
    /\ impl' = FALSE
    /\ pc' = [pc EXCEPT ![c] = "spawn"]
    /\ UNCHANGED <<asked, answers, object, cancelled, lock, poisoned, closer, faults>>

\* impl_->spawn(): a new child with empty pipes and a watchdog that waits for
\* arm(); a failed spawn leaves no impl_ and answers the request.
Spawn(c) ==
    /\ pc[c] = "spawn"
    /\ poisoned' = FALSE
    /\ \/ /\ impl' = TRUE
          /\ child' = "up" /\ request' = "none" /\ out' = <<>>
          /\ due' = FALSE /\ fired' = FALSE /\ watching' = TRUE
          /\ pc' = [pc EXCEPT ![c] = "arm"]
          /\ UNCHANGED <<object, faults>>
       \/ /\ faults < MaxFaults
          /\ faults' = faults + 1
          /\ object' = <<"SpawnFailed">>
          /\ pc' = [pc EXCEPT ![c] = "return"]
          /\ UNCHANGED <<childVars, due, fired, watching, impl>>
    /\ UNCHANGED <<asked, answers, cancelled, lock, closer>>

Arm(c) ==
    /\ pc[c] = "arm"
    /\ due' = TRUE
    /\ fired' = FALSE
    /\ pc' = [pc EXCEPT ![c] = "write"]
    /\ UNCHANGED <<asked, answers, object, childVars, watching, cancelled, lock, impl, poisoned, closer, faults>>

\* exchangeLocked() gives up: the stream may be out of step.
Poison(c, e) ==
    /\ poisoned' = TRUE
    /\ object' = e
    /\ pc' = [pc EXCEPT ![c] = "disarm"]
    /\ UNCHANGED <<out, request>>

\* The request line; writing to a child that is gone fails.
Write(c) ==
    /\ pc[c] = "write"
    /\ IF child = "dead"
       THEN Poison(c, <<"Io">>)
       ELSE /\ request' = Head(asked[c])
            /\ pc' = [pc EXCEPT ![c] = "header"]
            /\ UNCHANGED <<object, poisoned, out>>
    /\ UNCHANGED <<asked, answers, child, watchVars, cancelled, lock, impl, closer, faults>>

\* mutant: an unexpected header is an error of this request only
ForgiveHeader(c) ==
    /\ object' = <<"ParseError">>
    /\ pc' = [pc EXCEPT ![c] = "disarm"]
    /\ out' = Tail(out)
    /\ UNCHANGED <<poisoned, request>>

\* A line with no oid, type and size: the protocol has desynchronised.
UnexpectedHeader(c) ==
    /\ poisoned' = TRUE
    /\ object' = <<"ParseError">>
    /\ pc' = [pc EXCEPT ![c] = "disarm"]
    /\ out' = Tail(out)
    /\ UNCHANGED request

\* readLine() and the parse of the header.  "missing" and "ambiguous" leave
\* the stream in step, whoever wrote the line.
ReadHeader(c) ==
    /\ pc[c] = "header"
    /\ \/ /\ out = <<>> /\ child = "dead"
          /\ Poison(c, <<"Io">>)
       \/ /\ out # <<>>
          /\ Head(out).is \in {"missing", "ambiguous", "warnsAmbiguous"}
          /\ object' = IF Head(out).is = "missing" THEN <<"NotFound">> ELSE <<"InvalidArgument">>
          /\ pc' = [pc EXCEPT ![c] = "disarm"]
          /\ out' = Tail(out)
          /\ UNCHANGED <<poisoned, request>>
       \/ /\ out # <<>>
          /\ Head(out).is = "header"
          /\ object' = IF Store[Head(out).of] = "commit" THEN <<"commit", Head(out).of>>
                       ELSE IF Store[Head(out).of] = "huge" THEN <<"TooLarge">> ELSE <<"InvalidArgument">>
          /\ pc' = [pc EXCEPT ![c] = "payload"]
          /\ out' = Tail(out)
          /\ UNCHANGED <<poisoned, request>>
       \/ /\ out # <<>>
          /\ Head(out).is \in {"payload", "lf", "junk"}
          /\ UnexpectedHeader(c)
    /\ UNCHANGED <<asked, answers, child, watchVars, cancelled, lock, impl, closer, faults>>

\* size bytes of payload, kept or, past kMaxObjectBytes, discarded.
ReadPayload(c) ==
    /\ pc[c] = "payload"
    /\ \/ /\ out = <<>> /\ child = "dead"
          /\ Poison(c, IF object = <<"TooLarge">> THEN object ELSE <<"Io">>)
       \/ /\ out # <<>>
          /\ out' = Tail(out)
          /\ pc' = [pc EXCEPT ![c] = "lf"]
          /\ UNCHANGED <<object, poisoned, request>>
    /\ UNCHANGED <<asked, answers, child, watchVars, cancelled, lock, impl, closer, faults>>

\* The LF that ends a record; anything else means the size was not the size.
ReadTerminator(c) ==
    /\ pc[c] = "lf"
    /\ \/ /\ out = <<>> /\ child = "dead"
          /\ Poison(c, IF object = <<"TooLarge">> THEN object ELSE <<"ParseError">>)
       \/ /\ out # <<>> /\ Head(out).is = "lf"
          /\ out' = Tail(out)
          /\ pc' = [pc EXCEPT ![c] = "disarm"]
          /\ UNCHANGED <<object, poisoned, request>>
       \/ /\ out # <<>> /\ Head(out).is # "lf"
          /\ Poison(c, <<"ParseError">>)
    /\ UNCHANGED <<asked, answers, child, watchVars, cancelled, lock, impl, closer, faults>>

\* mutant: disarm() only reports
DisarmKeepsClock(c) ==
    /\ pc[c] = "disarm"
    /\ poisoned' = (poisoned \/ fired)
    /\ object' = IF fired THEN <<"Timeout">> ELSE object
    /\ pc' = [pc EXCEPT ![c] = "return"]
    /\ UNCHANGED <<asked, answers, childVars, watchVars, cancelled, lock, impl, closer, faults>>

\* disarm(): whatever was read, a request the watchdog fired for has timed out
\* and the next one starts a new child.
Disarm(c) ==
    /\ pc[c] = "disarm"
    /\ due' = FALSE
    /\ poisoned' = (poisoned \/ fired)
    /\ object' = IF fired THEN <<"Timeout">> ELSE object
    /\ pc' = [pc EXCEPT ![c] = "return"]
    /\ UNCHANGED <<asked, answers, childVars, fired, watching, cancelled, lock, impl, closer, faults>>

\* read() returns and readCommits() goes on to the next object.
Return(c) ==
    /\ pc[c] = "return"
    /\ answers' = [answers EXCEPT ![c] = Append(@, <<Head(asked[c]), object>>)]
    /\ asked' = [asked EXCEPT ![c] = Tail(@)]
    /\ object' = <<>>
    /\ lock' = "free"
    /\ pc' = [pc EXCEPT ![c] = "next"]
    /\ UNCHANGED <<childVars, watchVars, cancelled, impl, poisoned, closer, faults>>

Client(c) ==
    \/ ReadCommits(c) \/ Read(c) \/ Discard(c) \/ Spawn(c) \/ Arm(c) \/ Write(c)
    \/ ReadHeader(c) \/ ReadPayload(c) \/ ReadTerminator(c) \/ Disarm(c) \/ Return(c)

-----------------------------------------------------------------------------
\* killChild(): a signal only; it closes nothing.
KillChild ==
    child' = IF child \in {"up", "hung"} THEN "dead" ELSE child

\* The watchdog, when the deadline of an armed request has passed.
Watch ==
    /\ watching
    /\ due
    /\ KillChild
    /\ fired' = TRUE
    /\ due' = FALSE
    /\ UNCHANGED <<callVars, request, out, watching, cancelled, lock, impl, poisoned, closer, faults>>

-----------------------------------------------------------------------------
\* The child.  It may answer, write to stderr first, stop answering, or die
\* with pieces of an answer unwritten; what it wrote can still be read.
GitAnswers ==
    /\ child = "up"
    /\ request # "none"
    /\ \/ /\ out' = out \o Pieces(request)
          /\ UNCHANGED faults
       \/ /\ faults < MaxFaults
          /\ faults' = faults + 1
          /\ \E n \in Noise : out' = Append(out, [of |-> request, is |-> n]) \o Pieces(request)
    /\ request' = "none"
    /\ UNCHANGED <<child, callVars, watchVars, cancelled, lock, impl, poisoned, closer>>

GitFails ==
    /\ child = "up"
    /\ faults < MaxFaults
    /\ faults' = faults + 1
    /\ child' \in {"hung", "dead"}
    /\ \/ UNCHANGED <<request, out>>
       \/ /\ request # "none"
          /\ \E n \in 0 .. Len(Pieces(request)) - 1 : out' = out \o SubSeq(Pieces(request), 1, n)
          /\ request' = "none"
    /\ UNCHANGED <<callVars, watchVars, cancelled, lock, impl, poisoned, closer>>

-----------------------------------------------------------------------------
\* mutant: ~Session() stops the child without draining the pool
DrainSkipped == TRUE

\* cancelQueuedAndDrain(): every read that had started has returned.
Drained == \A c \in Clients : pc[c] = "next" /\ asked[c] = <<>>

Close ==
    /\ closer = "open"
    /\ closer' = "draining"
    /\ cancelled' = TRUE
    /\ UNCHANGED <<callVars, childVars, watchVars, lock, impl, poisoned, faults>>

\* stop(): under mutex_, impl_.reset().
Stop ==
    /\ closer = "draining"
    /\ Drained
    /\ lock = "free"
    /\ closer' = "closed"
    /\ IF impl THEN DestroyImpl ELSE UNCHANGED <<childVars, watchVars>>
    /\ impl' = FALSE
    /\ UNCHANGED <<callVars, cancelled, lock, poisoned, faults>>

-----------------------------------------------------------------------------
Next ==
    \/ \E c \in Clients : Client(c)
    \/ Watch
    \/ GitAnswers
    \/ GitFails
    \/ Close
    \/ Stop

Spec == Init /\ [][Next]_vars

(* The pool runs its tasks and ~Session() its steps; a deadline passes.    *)
(* git owes nothing.                                                       *)
FairSpec ==
    /\ Spec
    /\ \A c \in Clients : WF_vars(Client(c))
    /\ WF_vars(Watch)
    /\ WF_vars(Stop)

-----------------------------------------------------------------------------
Reader == INSTANCE ObjectReader WITH
    Clients <- Clients, Asks <- Asks, Truth <- Truth, Failures <- Failures,
    asked <- asked, answers <- answers, cancelled <- cancelled

(* CatFileBatch implements ObjectReader: however the clients, the watchdog *)
(* and the child interleave, and whatever child died, hung or was replaced,*)
(* no answer is another request's (CatFileBatch::read,                     *)
(* CatFileBatch::exchangeLocked), and every request is answered.           *)
ImplementsReader == Reader!Spec

(* The watchdog kills a child only for the request that is waiting for    *)
(* it: never between two requests, never one that answered the request it  *)
(* was armed for, never one that close() reaped (CatFileBatch::Impl::watch,*)
(* CatFileBatch::Impl::disarm, ~Impl).                                     *)
KillsOnlyForARequest ==
    [][Watch => child # "reaped" /\ \E c \in Clients :
                    pc[c] \in {"write", "header", "payload", "lf", "disarm"}]_vars

(* A closed session has no cat-file child and no watchdog left             *)
(* (CatFileBatch::stop, Session::~Session).                                *)
StoppedHasNoChild ==
    closer = "closed" => ~impl /\ ~watching /\ child \in {"none", "reaped"}
=============================================================================
