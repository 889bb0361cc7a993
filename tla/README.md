# A TLA+ model of git-branch-manager's core

git-branch-manager is a git client: a C++20 core (`src/core`), a C API over it
(`src/capi`) and a Flutter UI that calls the C API through FFI (`app_flutter`).
The core spawns `git`, publishes immutable snapshots of what it read, and
reports by events. This project models how the parts meet: threads, child
processes, the repository, other programs, and the algorithms in between.

## 1. Inventory

| Part | State | Operations | Met by | Modules |
|---|---|---|---|---|
| `Debouncer`, `RefreshCoalescer` | pending, running, dirty, last event, generation, merged batch | `request`, `onTimeout`, `fireNow`, `onFinished`, `takePending` | `Session`, under `refreshMutex_` | `RefreshCoalescer` |
| `Session` refresh | filter, request number, cancellation source, published generation, refs and graph snapshots | `refreshHistory`, `setHistoryFilter`, timer callback, pool task, `publishGraph`, `finishRefresh` | FFI thread, operation worker, timer thread, pool workers | `SessionRefresh` |
| `DelayTimer`, `ThreadPool` | deadline; task deque, active count, condition variables | `arm`, `stop`; `post`, `postFront`, `cancelQueuedAndDrain`, workers | all sessions of the process | `SessionRefresh`, `SessionClose` |
| `OperationRunner` | queue of mutating operations, the running one, undo journal, housekeeping counter | `submit`, `cancel`, `state`, `removeStaleIndexLock`, worker, `prepareForShutdown`, `drain` | FFI thread, its own worker | `OperationRunner` |
| `Session` close | the order of the destructor | `~Session` | FFI thread against all of the above | `SessionClose` |
| `core/git/ops`, `Session`'s methods | the cached views, one askpass poller | some ninety operations with their completion hooks | FFI thread, operation worker, read pool | `GitOps`, `SessionRequests`, `SessionOps` |
| `Session`'s reads and their stores | the views; the panes' last answers | refreshes of nine views, requests of 23 panes | read pool, Dart | `SessionReads`, `SessionOps` |
| `GitCommand` | arguments, timeouts, environment | what turns a request into the command that runs | `ProcessRunner` | `GitCommand` |
| `ProcessRunner`, `CancellationToken` | child, pipes, deadlines, kill callback | `execute`, `pump`, `terminate`, `wait`, cancel | every read and operation | `ChildProcess`, `PosixChild`, `WindowsChild`, `ProcessRunner` |
| Askpass client and poller | three files in a private directory, poller thread | `runClient`, `pollLoop`, `provideCredential`, cancel | git children, FFI thread | `Askpass` |
| `CloneJob` | job thread, claimed destination | start, cancel, answer, finish, close | FFI thread, other programs | `CloneJob` |
| `CatFileBatch` and the stores on it | a `cat-file --batch` co-process, a watchdog | `read`, `stop` | pool workers, `~Session` | `CatFileBatch`, `ObjectReader` |
| Discovery and the index database | scan queue, pending batch, SQLite rows and signatures | add, remove, depth, enable, scan | workers, the file system | `RepoClassifier`, `RepoIndexDb`, `Scanner` |
| `HistoryProvider`, `GraphBuilder`, `LaneAllocator`, `GraphSnapshot` | lanes, rows, edges, edge index | walk, `addCommit`, `finish`, range queries | the refresh task | `LaneAllocator`, `GraphBuilder` |
| `RepoState`, `RefStore`, parsers, JSON codec | none between calls | read, parse, format | pool workers | in part, see 6 |
| Flutter repositories | UI state per session | event handlers, commands | the UI isolate | in part, see 6 |

What is hard here: everything is asynchronous and the locks are released
between related steps. A refresh request may come before, during or between the
critical sections of another; a filter change overtakes a walk that goes on
publishing; operations are cancelled while they are queued, popped, waiting for
a lock, or running, and fail half-way with the repository already changed; other
git processes take, leave and replace `index.lock`; a child ends, hangs, is
killed at a deadline or leaves a helper holding its pipes; prompts are asked,
answered and given up by three parties that share only files; answers to two
questions arrive in the opposite order; the file system changes under a scan; a
session is closed while its callbacks and its timer still post work. The places
are listed under `hazards` in `PROJECT.json`, with the properties that watch
them.

What makes each part correct:

- *refresh*: no request is forgotten; the UI is never told that a request is
  covered by refs read before it; older walks never overwrite newer ones; the
  last filter ends up on screen;
- *operations*: each completes exactly once and in order; a cancel stops what
  it may and nothing else; foreground work does not wait for background work;
  closing ends; whatever step failed, what is shown afterwards is current; a
  forced delete takes only what the user was warned about;
- *processes*: every invocation ends, leaves nothing behind and reports what
  really happened; a question is put to the user once and its answer reaches the
  client that asked; a clone's cleanup removes what it may and says so;
- *object reads*: no request gets another's object;
- *discovery*: a repository that is there is never marked missing; a scan that
  ran to its end is exact; pruning skips only what was looked into;
- *graph*: no line runs through a foreign dot, neighbours look apart, and the
  published arrays are what `rev-list` said;
- *close*: nothing that holds a session outlives it, and closing ends.

## 2. Modules

`RefreshCoalescer` — the two value classes as pure operators on a record. The
clock appears only as the age of the last event, saturated at the delay.

`SessionRefresh` — one session's refresh machinery. An action is one critical
section, or one step between two of them: `RefreshHistory` and `ArmDelay` are
the two halves of `refreshHistory()`, `SetHistoryFilter`/`SupersedeWalk` those of
`setHistoryFilter()`, `FinishRefresh`/`Rearm` those of `finishRefresh()`;
`TimerExpires`, `TimerFiresEarly` and `OnRefreshTimerFired` are the timer thread;
`LoadRefs` … `EmitGraphUpdated` follow the pool task's lambda. The repository is
a version number, a refs snapshot the version it was read at, a filter the
number of the call that set it; `asked[n]` remembers the version at request `n`.
`covered` and `refreshing` are what Dart keeps of the events
(`refsCoverRequest`, `isRefreshing`); `answered` is a history variable.

`OperationRunner` — the serial queue with its worker, the FFI thread (submit,
cancel, `state()`, `removeStaleIndexLock()`, and the operation half of
`~Session()`), and other git processes that hold `index.lock` or start a
sequencer operation. The virtual functions of `Operation` are constant sets.
`submitted`, `delivered` and `spawned` are history variables.

`SessionClose` — several sessions on the shared pool. Each session has its
operation worker and timer; the FFI thread uses and closes sessions one at a
time. `phase` is the place in `~Session()`. The pool has the semantics of its
condition variables: workers fall asleep, `post` wakes one, the closing thread
sleeps on `idle_` and is sure to wake only if notified. What operations and
reads do is abstracted: it is the subject of the other modules.

`GitOps` — every `Operation` of `core/git/ops` as the sequence of its checks and
git commands, each with the parts of the repository that it changes; a failing
command may have changed any of them already, since no git command is atomic (a
`pull --rebase` that stops has moved HEAD, a `bisect skip` without candidates has
recorded the skip). `SessionRequests` — every mutating method of
`Session` as its operation, the views its completion hook reads (always, on
moved refs, on success) and its use of the askpass watch. `SessionReads` — every
read as the commands its store runs, which of them may fail, and how its answer
is kept: a view is one value; a pane answers the last question, from the front or
the back of the pool's queue, in one slot or keyed by what was asked.
`SessionOps` composes the three: submission, the running operation step by step
with a failure at any of them, the completion hook, the reads and what they
publish, F5 sweeps, and the deletion of branches action by action with another
program moving the branch. A behaviour follows one view or one pane, because
reads of different views share no state. `excuse` records why a view at rest may
be out of date: `UnreadAfterSuccess` lists the requests that change a view which
their hook does not read, and after a failure, when hooks read the working copy and
nothing else, `StatusUnreadAfterFailure` those that do not read even that.

`GitCommand` — which commands are network commands, their deadlines, `--progress`
and environment. `Askpass` — the client, the poller's thread and the user, over
the three handshake files. `ChildProcess` — the state of one invocation, git, a
helper that may outlive it, and the operating system's reuse of process ids.
`PosixChild` and `WindowsChild` — the two implementations of the child: `poll()`
on one thread, or blocking reads with helper threads, a job object and a
watchdog. `ProcessRunner` — `execute()` and the cancellation token over either.
`CloneJob` — the job's thread around one `git clone`, its destination and the
programs that touch it; also the composition of the previous five, in which
plain commands run too. `claim()` is two steps, and each check of
`removeUnfinished()`, its listing, each removal and its last look are steps of
their own (`CheckPlace` … `FinalLook`); git, a helper that outlives it and other
programs write to the destination, replace it or move its parent between any two
of them. A folder is an identity and a set of entries (`old`: there before,
`clone`, `user`); `swapped`, `took` and `stray` are history variables.

`ObjectReader` — what a batch of object reads promises: answers in order, each
the asker's own or a failure without an object. `CatFileBatch` — the child, its
pipes as pieces of answers, the watchdog, the readers and the closing session; it
is shown to implement `ObjectReader` under a refinement mapping (`Reader`,
`ImplementsReader`), by TLC with the liveness and by proof step by step.

`RepoClassifier` — what a directory is, from a few stats. `RepoIndexDb` — the
statements of the index as operators on rows, signatures and base folders.
`Scanner` — the workers' loop, pruning, batches, signatures and the sweep over
both, with the tree changing, statements failing, cancels and kills.

`LaneAllocator` — columns and colours, as operators on an allocator's record.
`GraphBuilder` — the walk feeding `addCommit`, and the snapshot's queries; the
history is chosen commit by commit, so a run covers all of them.

`MC*` modules are the instances TLC checks. `SessionRefreshProofs`,
`SessionCloseProofs`, `OperationRunnerProofs`, `SessionOpsProofs`,
`CatFileBatchProofs`, `CloneJobProofs`, `ScannerProofs` and `GraphBuilderProofs`
hold the theorems of section 5. Operators commented `mutant` are not part
of any specification: each is a plausible wrong version of the definition below
it, kept to show that a property notices.

## 3. Runs

| Run | Question | Result |
|---|---|---|
| `refresh_safety` | two requests, a filter change, a repository change, a partial chunk and failing reads in every order | seven properties hold |
| `refresh_filter` | is every request answered, and the last of two filters applied? | yes, if no request falls between the halves of `finishRefresh()` |
| `refresh_lost` | the same without the restriction | **violated**, see 4 |
| `runner` | a retriable foreground operation and killable housekeeping with cancels, close, exceptions, an outside lock: order, exactly once, cancels, callbacks, close | eight properties hold |
| `close` | two sessions closed in any order: what outlives them, does closing end, is a wakeup lost? | four properties hold |
| `process` | ten workloads of commands and clones on both platforms: is what is reported true, is nothing left, does every invocation end, do prompts and answers match? | six properties hold |
| `process_pid` | is only our own child signalled? | **violated** |
| `catfile` | two readers, faults and a close: does the batch implement `ObjectReader`? | yes, and the watchdog and `stop()` behave |
| `gitops` | every operation against every view, every pane with three questions | three properties hold, 1.1 M states |
| `gitops_prompt` | does an operation end only its own askpass watch? | **violated** |
| `discovery` | two scans of nested folders by two workers, with two events (tree changes, failures, cancel, kill, settings) | four properties hold |
| `graph` | every history of five commits | three properties hold |

Deadlock is not checked: in every model the system may come to rest (no more
requests, operations, reads or open sessions). That nobody waits for ever is
stated by the liveness properties and by `SleepersHaveSomebody`.

**Bounds.** *refresh*: `Delay = 1`, one tick separates "in the quiet period" from
"over". Two requests meet a run before, during and at its end and leave a
follow-up; one filter change gives two overlapping walks, two give three
generations. One partial chunk gives the partial/complete distinction.
`refresh_filter` runs without failing reads, since a filter whose walk fails is
not shown. *runner, close*: two operations, one per kind that the code treats
differently (the runner's safety properties are proved for any number), one retry
and one journal entry to reach both limits; two sessions and one pool worker with
two posts give a queued and a running task (`NoUseAfterFree` is proved for any
pool). *process*: a pipe holds one chunk and deadlines are one tick, enough for
each deadline to fall before, between and after every step; two prompts let a
second client meet the first one's files. The clone whose destination others touch
has no prompts, is cancelled but not closed, and meets one change by another
program, besides git's and a helper's own writes: one is enough to come
between any two steps, and two identities let a new folder inherit the number
of a deleted one (the property is proved for any number of changes). *catfile*: `MaxFaults = 2`, so a
replaced child can fail again. Each reader follows every kind of answer by one
that would notice a stream out of step. *gitops*: two operations
(the second queued behind the first only among five that share the poller or the
refs in different ways), one sweep; three questions, since the third shows a pane
whose two older answers are both still on their way. *discovery*: five
directories, one of whose names starts with another's, a skip rule, a linked
worktree and a bare repository; batches and signature chunks of two so that both
are flushed in the middle and at the end; two scans, since pruning needs an earlier one.
*graph*: five commits have every merge shape that frees a lane and takes it
again while another line passes; buckets of two rows give edges that span,
touch and end at a boundary; the palette is the code's. What these bounds leave
out is what section 5 adds: the safety properties of every passing run are proved
without them.

**Fairness.** Weak fairness on the steps of threads that the code never blocks
for good: the operation worker, the timer thread, the pool workers, the runner
and its helper threads, the pollers, the FFI thread once inside a call. Time
passes, so deadlines fall due. git owes nothing: that `OperationRunner` may
assume a running git ends is what `EveryInvocationEnds` shows. In `process` a
prompt is answered, cancelled, or (in the workloads named "expire") given up by the
client, after which git ends as it does when its askpass program fails: a prompt restarts
the idle deadline, so nothing else bounds it. Nothing obliges
the user to act, another process to release its lock, or a sleeping thread to
wake unless it was notified. `SpacedSpec` adds one restriction to `FairSpec`,
named `RequestMeetsRearm`: exactly the gap that `refresh_lost` exhibits. In
`close` the posts are bounded; sessions that never stop posting could keep the
pool busy and a close waiting for ever, which `ThreadPool.h` concedes ("not a
promise of a bounded wait time").

## 4. What was found

Shown by a run:

1. *A lost refresh* (`refresh_lost`). `finishRefresh()` decides under the lock
   that a follow-up is owed and arms the timer with 0 ms after releasing it. A
   request between the two restarts the quiet period and arms 150 ms; `arm(0)`
   overwrites that deadline. The timer fires at once, finds the quiet period not
   over, and returns; nothing arms it again. Both requests wait for the next one.
2. *A watch ended by another operation* (`gitops_prompt`). The session has one
   askpass poller, replaced when an operation is submitted; a tag deletion that
   never began a watch ends the one of the fetch queued behind it.
3. *A signal to a foreign process* (`process_pid`). `terminate()` on the
   cancelling thread reads `pid_` and kills, while the runner's `waitpid()` has
   reaped the child and not yet cleared `pid_`.

Met while modelling, in `PROJECT.json` without a run:

4. `publishGraph()` checks the generation under the lock but emits after it, so a
   superseded walk's `complete:true` can follow the newer walk's first chunk.
5. Between the pop and `runQueued()`'s first section `cancel()` sees the new id
   with the old killability and description.
6. `removeStaleIndexLock()` checks and unlinks by path in two steps.
7. `touchReposUnder()` matches a prefix without a separator, so pruning `a` also
   keeps `ab`'s repositories from being marked missing.
8. A newer blame, history or diff runs first and an older one's reply, arriving
   last, replaces it.
9. Removing a base folder removes its repositories (`ON DELETE CASCADE`), against
   the comment in `gbm_capi.h`.

10. The clean-up of a cancelled clone checks the destination and then removes by
    path: a folder put in its place after the last check is emptied, and one that
    another program puts where nothing was at `claim()` is removed, against
    "Refuses, leaving everything as it is" in `CloneJob.h`.
11. That "nothing is still writing there" (`CloneJob.cpp:266`) does not hold on
    POSIX: the cancel signals and reaps git alone, and a helper may write on.

Observations that the models make visible, of less weight: after a failure the
hooks read at most the working copy, so a `pull --rebase` that stops with HEAD
detached leaves the worktrees view out of date until the next sweep, and so do
the requests in `UnreadAfterSuccess` and `StatusUnreadAfterFailure`; two overlapping
`refreshWorkingCopy()` may publish in the wrong order (`Session.cpp:608`; nothing
guards it, so `RestIsCurrent` claims nothing of it and excepts it as "overtaken",
as it does the panes of 8); whether git-lfs is installed is probed once per session
(`Session.cpp:1904`); the C API only scans incrementally (`Discovery.cpp:88`), so the
recovery by a full scan that `DiscoveryTest.cpp:817` mentions has no caller, and a
base folder whose scan fails ends the scan of all the following ones; an
unreadable directory is not retried while its parent is pruned, and the
repositories below it are marked missing, which `steady` in `NoFalseMissing`
accounts for by asking for readable paths; adding a base folder again with a
greater depth keeps the signatures of the smaller one (`deepened` in `Scanner`,
excepted from `SignatureCoversChildren`); a client that gave up leaves its question, so the next
client may be given its answer (the exception in `SecretAnswersItsPrompt`); what another
program puts into the claimed folder goes with a cancelled clone: the code keeps
what was there before, not what came after; a merge parent's lane
need not lie to the right, as `GraphBuilder.h` words it, when it joins a lane
that is already open.

## 5. Theorems

Every safety property that a passing run checks is proved, the types included.
The theorems are for arbitrary constants within the named assumptions
(`DelayAssumption`, `SessionAssumption`, `CloseAssumption`, `RunnerAssumption`,
`RequestsAssumption`, `ReaderAssumption`, `LoadAssumption`, `TreeAssumption`,
`ScannerAssumption`, `LaneAssumption`, `GraphAssumption`). They say of which kind
a constant is; only `TreeAssumption` says more, see *Discovery*. Two theorems have
a hypothesis of their own: `BatchImplementsReader` and `NeighboursLookApart`.
Every inductive invariant was checked with TLC on the instance of the component's
run before it was proved.

*Refresh.* `TypeCorrect` is inductive as it stands. `CoversTruthful` needs
`FreshInv`: a task's `covers` never exceeds the requests made before its refs
were read, and what is published carries the versions of the tasks that
published it; the generation check then keeps a slower, older task from
replacing refs that a reported number relies on. `RunningIsInFlight`,
`OverlapOnlySuperseded` and `RequestsStayOwed` rest on `ScheduleInv`, which ties
the coalescer's bits to the newest task and to the thread that is posting it.
`GraphShowsFilter` and `NoRegress` rest on `PublishInv`, which says which filter
a task may have read, and that nothing published is newer than
`publishedGeneration`.

*Close.* `NothingOutlivesSession` rests on `CloseInv`: after `drain()` no
callback can post or arm, after `stop()` and the join no timer can post, and only
then does clearing the queue leave none of the session's tasks. Any other order
of `~Session()` breaks a step of the proof. `CloseTypeCorrect` includes that a
stopped timer stays disarmed.

*Operations.* `RunnerTypeCorrect`, `ForegroundFirst` and `DrainIsFinal` are
inductive given the types. `CompletionOrder` needs `CallbackInv`: from the pop to
the delivery the callback is there, and after it is called it is not, so that an
exception's `failUndelivered()` neither repeats nor loses it; the rest is the
associativity of concatenation. `UserCancelSparesRunning` needs that and
`KillInv`: an operation is submitted once, so what runs is not in the queue that
`cancel()` and `submit()` trip; `runningKillable_` is false until `runQueued()` has
set it for the operation in hand; and a source that `cancel()` copied out to trip
unlocked belongs to a killable operation, even if it has ended by then.
`CancelledStaysUnspawned` is about two states of one behaviour: once an operation
is cancelled that has not been run and is not past `preflight()` (`CancelledInTime`),
every step keeps it so. Only `Start` and `Retry` call `run()`; `preflight()` reads the
token after the lock wait, and a retry runs only what was run before (`SpawnInv`).

*Object reads.* All three rest on `SafeInv`. `LockInv`: a reader between its
request and the return of `read()` holds `mutex_`, alone. So the child, `impl_`
and the watchdog's clock follow that one exchange (`ChildInv`), which gives
`WatchdogKillsForARequest` (an armed clock belongs to the holder's request, and a
clock that has fired belongs to a child that is discarded before the next one)
and `ClosedHasNoChild`. `BatchImplementsReader` adds `StreamInv`: a stream that is
not poisoned holds at most the pieces, in order, of the answer the holder is
reading; every way to leave an exchange early poisons it. Each step of
`CatFileBatch` is then a step of `ObjectReader` or a stutter. The theorem has one
hypothesis, `"warnsAmbiguous" \notin Noise`: no line that git writes to stderr and
that reads as an answer may reach the pipe of the answers. On POSIX stderr is a
pipe of its own, so `Noise` is empty; on Windows the two share a handle, and the
run `catfile` includes the lines that do not read as an answer.

*Processes.* `ExecuteTellsTheTruth` and `ExecuteLeavesNothing` rest on `ProcInv`, one
invariant for both platforms. Whoever kills git, or reaps it before `wait()`, has
left a reason (`Excused`: a tripped token, a deadline, a sink that had enough) that
is never taken back (`KillInv`); without one, stdout is done with only when git has
gone and its last chunk was read, and `wait()` gets git's own code (`ReadInv`). A
helper thread of `pump()` is joined before the runner goes on (`ThreadInv`), and the
log gets its second record when `outcome` is set (`LogInv`). So when `Verdict` comes to
the exit code, having found no reason, the code is git's. `FinishedTellsTheTruth` needs
`CloneInv`. Its part `CheckedInv` says what each check of `removeUnfinished()` is still
worth at the later steps: unless the destination or its parent was replaced since the
first check (`swapped`), what is at the path still has the parent that `claim()` saw
and, if it was there then, the identity. So every removal is from the claimed
place or through that window. `OwnInv` says that a destination that is ours never
holds what was there before the clone, and that the clean-up is reached only by a
cancel. Nothing is assumed of what the others write, or when.

*Prompts.* `QuestionsAreAskedOnce` and `SecretsReachTheirPrompt` rest on `AskInv`. The
poller looks at the three files one after the other while the client and the user
change them, so `PollInv` says what each look is still worth: if the poller is about
to raise what it finds (`Armed`), the question in the directory has not been asked
(`Asked`), because it arms itself only after seeing the request gone. That in turn
needs the client's order, request before response, in `ClientInv`. While nobody
has given up and nothing is cancelled, request, dialog and response belong to the
current client (`TurnInv`).

*Discovery.* `ScanInv` follows the path from the base folder down to a
repository: during the walk its row has been seen or is about to be written, or a
directory on the path is queued or in a worker's hands (`Covered`). Taking an item
off the queue, pruning, listing and flushing each hand that role on. A worker goes
home only when the queue is empty and `activeWorkers` is zero, and that counter
is the number of items in hand (`ActiveInv`), which is `NobodySleepsAlone`; so after
the join every such row has been seen, and `markMissing()` passes it by
(`SweepSparesTheSteady`). `TreeAssumption` says that `Path` lists the ancestors of
a directory: they are themselves on the path with their own ancestors, none of
them lies below it, each but the last has a child on it, and the path of a
directory is itself and its parent's path. That is what a file system's parent
relation gives; it is assumed because its transitive closure cannot be proved
about here, and TLC evaluates it for the run's tree.

`PruningIsSound` needs `SigInv`, which follows a signature from the listing that
makes it pending to the chunk that stores it: during the walk each subdirectory it
vouches for has been come to or is ahead (`VouchedInv`); workers that go home without
an error leave nothing ahead, and an error or a cancel discards what is
pending, so what is stored vouches for what was come to (`StoredInv`), also after
settings change or the process is killed between two chunks. `CompleteScanIsExact`
needs `ExactInv`: on a quiet tree the walk comes only to what it should (`ArrivedInv`), so
only reachable repositories are recorded (`FoundInv`); each of them is recorded or
on the way (`CaughtInv`), and all are once the walk is over (`KeptInv`).

*Session's operations.* `OpsInv` has two halves. The first is about the catalogue
alone: for each of its 94 requests, whatever its steps can have changed is read by
the completion hook after a success, the working copy also after a failure at any
step, or the request is in `UnreadAfterSuccess` or `StatusUnreadAfterFailure` (`Sound`, by lemmas that compose sequences of steps); and a method that
begins an askpass watch ends one. `delete` and `backgroundFetch` read what they
measured, and are followed step by step instead. The second half follows the
queue: a watch belongs to a queued operation that began one (`WatchInv`, which is
`WatchesEndWithTheQueue`); the tip checked is the tip warned of when `-D` starts,
since no probe can be made while a deletion is queued (`ForceInv`, which is
`OnlyWarnedTipsAreForced`); what the running operation has changed is among the
changes of the steps it has made (`TouchInv`), so its hook reads it (`EndInv`), and a
view out of date has an excuse, a read under way that began after the change, or
an operation still to complete (`RestInv`, which is `RestShowsTheRepository`). The
theorem is about any subset of the requests, in any order, and any number of
operations, sweeps and questions; the run has two operations.

*Graph.* Everything rests on `Tidy`, which ties the allocator to the edges that still
wait for a parent: the column of each is in use and has the edge's colour, and all
edges in one column go to the same commit. A commit keeps it in four stages, each
a lemma: its own lane is chosen (`LaneIsChosen`), the edges that waited for it end and
their columns are given back (`TidyRelease`), its first parent inherits the lane
(`TidyEdge`), and each further parent joins or opens a column (`BranchTidy`). The loop
over the parents is a recursive function whose value is proved by its least
counterexample (`BranchesTidy`). `GraphIsReadable` adds that lane 0 is shut until the
trunk's tip is emitted (`TrunkInv`). For `NeighboursLookApart`, `CrowdingIsLexicographic` is
what the comment of `penaltyWeight()` claims, that a shortfall beside a lane outweighs
the rest of the window, and `RoomForAColour` that two neighbours leave one of
eleven colours free; so `seed()` keeps neighbours apart (`Vivid`); the dot of a commit without lines is not
compared. The hypothesis
is the code's palette of twelve: with eleven, two neighbours can rule out all. For
`SnapshotTellsTheHistory`, `SlotInv` says which slots of the edge array are a
row's, and that edges are in the order of their children; `EndInv` that an edge ends
at its parent's row as soon as there is one. From these the search that
`edgesInRange()` starts at a bucket and stops at the first child below the range
finds all edges that cross it (`RangeIsCrossed`), for any size of a bucket.

Model-checked only: liveness under fairness (`EveryRequestAnswered`,
`FilterIsApplied`, `EveryOperationCompletes`, `CloseTerminates`, `CloseEnds`, `QueueIsServed`,
`EveryInvocationEnds`, and the fairness half of `ImplementsReader`, whose safety
half is `BatchImplementsReader`), which is outside the prover's reach. The three runs that
expect a violation have nothing to prove.

## 6. Not modelled, and the plan

Left out for good: parsers, the JSON codec, command-line text and formatting
(character-level conversions without state, covered by unit tests); SQLite's own
atomicity; `CallbackRegistry` and the handle table (a mutex around a pointer, and
a map used from one thread); the stores' caches, which are keyed by object id and
so never stale; `GraphAsciiRenderer`; widgets and assets.

Left out so far: Dart's controllers (pending-operation tracker, tiered refresh,
auto-fetch, drafts, update installer), which run on one isolate and see the core
only through the events modelled here; pins, tags and search in the index
database; the parsing half of `HistoryProvider` and `WorkingCopyStatus`.

What could come next: `RefStore` and `HistoryProvider` as readers that fail
half-way, so that a snapshot made of two reads can be compared with the
repository; the index database's pins, tags and searches, if an invariant is
ever to relate them to the scan; and Dart's tiered refresh as another client of
`SessionRefresh`, with the events as its inputs.
