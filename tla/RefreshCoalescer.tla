-------------------------- MODULE RefreshCoalescer --------------------------
(***************************************************************************)
(* The two value classes that decide when a history refresh runs:          *)
(* Debouncer (core/workers/Debouncer.h) and RefreshCoalescer, which wraps  *)
(* it with a dispatch generation and a merged batch of what was asked for  *)
(* (core/workers/RefreshCoalescer.h). Neither is thread-safe; their owner  *)
(* calls them under Session::refreshMutex_, so every operator here is one  *)
(* atomic update of the owner's record.                                    *)
(*                                                                         *)
(* A clock reading appears only as `now - lastEvent_`, so the record keeps *)
(* that difference, `since`, saturated at Delay: Delay stands for "the     *)
(* quiet period has elapsed" and for a lastEvent_ at the clock's epoch.    *)
(***************************************************************************)
EXTENDS Integers

CONSTANT Delay      \* kDelay, in ticks of the model's clock

ASSUME DelayAssumption == Delay \in Nat \ {0}

\* What one request may ask for; request() merges them into the batch.
Wants == {"refs", "history", "explicit"}

CoalescerType ==
    [pending : BOOLEAN, running : BOOLEAN, dirty : BOOLEAN, since : 0..Delay,
     generation : Nat, batch : SUBSET Wants]

NewCoalescer ==
    [pending |-> FALSE, running |-> FALSE, dirty |-> FALSE, since |-> Delay,
     generation |-> 0, batch |-> {}]

-----------------------------------------------------------------------------
(* Debouncer *)

\* notifyEvent(lastEvent): `age` is how long ago that moment is.
NotifyEvent(c, age) == [c EXCEPT !.pending = TRUE, !.since = age]

ElapsedWhileRunning(c) == c.pending /\ c.since >= Delay    \* mutant: running_ ignored

QuietPeriodElapsed(c) == ~c.running /\ c.pending /\ c.since >= Delay

\* shouldFire(): while a run is in flight it only turns a pending event into
\* the dirty bit; otherwise it starts a run once the quiet period is over.
ShouldFire(c) ==
    IF c.running
    THEN [c EXCEPT !.dirty = c.dirty \/ c.pending]
    ELSE IF QuietPeriodElapsed(c)
         THEN [c EXCEPT !.pending = FALSE, !.running = TRUE]
         ELSE c

\* finish(): a dirty run leaves a pending event that is due at once.
Finish(c) ==
    IF c.dirty
    THEN [c EXCEPT !.running = FALSE, !.dirty = FALSE, !.pending = TRUE, !.since = Delay]
    ELSE [c EXCEPT !.running = FALSE]

-----------------------------------------------------------------------------
(* RefreshCoalescer *)

MergeIntoPending(c, wants) == [c EXCEPT !.batch = c.batch \cup wants]

\* mutant: the event is noted, but shouldFire() is not called
RequestUnmarked(c, wants) == NotifyEvent(MergeIntoPending(c, wants), 0)

\* request(): merge, note the event, then let shouldFire() set the dirty bit.
Request(c, wants) == ShouldFire(NotifyEvent(MergeIntoPending(c, wants), 0))

\* mutant: a run starts without a generation of its own
TimeoutSameGeneration(c) == ShouldFire(c)

\* onTimeout(): a new generation when the quiet period is really over; no
\* change of the generation (the code's 0) when it is not.
OnTimeout(c) ==
    IF QuietPeriodElapsed(c)
    THEN [ShouldFire(c) EXCEPT !.generation = c.generation + 1]
    ELSE ShouldFire(c)

\* fireNow(): the debouncer is rebuilt, whatever was in flight, and fires.
FireNow(c, wants) ==
    LET fresh == [MergeIntoPending(c, wants) EXCEPT !.pending = FALSE,
                                                   !.running = FALSE,
                                                   !.dirty = FALSE]
    IN  [ShouldFire(NotifyEvent(fresh, Delay)) EXCEPT !.generation = c.generation + 1]

\* onFinished(): only the generation now in flight may end it.
OwnsRun(c, g) == g # 0 /\ g = c.generation

FinishAnyRun(c, g) == Finish(c)             \* mutant: the generation is not compared

OnFinished(c, g) == IF OwnsRun(c, g) THEN Finish(c) ELSE c

FollowUpForgotten(c, g) == FALSE            \* mutant: the follow-up is never driven

\* What onFinished() returns: a request folded into the run that just ended.
FollowUpOwed(c, g) == OwnsRun(c, g) /\ c.dirty

TakePending(c) == [c EXCEPT !.batch = {}]

\* One tick of the clock since the last event.
Age(c) == [c EXCEPT !.since = IF c.since < Delay THEN c.since + 1 ELSE Delay]
=============================================================================
