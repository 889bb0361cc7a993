------------------------------ MODULE Scanner ------------------------------
(***************************************************************************)
(* gbm::Scanner over the repository index, driven by gbm_discovery_*: the  *)
(* walk of a base folder by several workers, incremental pruning from the  *)
(* stored directory signatures, the mark-missing sweep, and what may go    *)
(* wrong meanwhile: the tree changes, the scan is cancelled, a statement   *)
(* fails, the program is killed.                                           *)
(*                                                                         *)
(* The caller waits for the scan, as the Flutter controller does, so the   *)
(* settings change only between scans.  A directory's modification time    *)
(* changes with its entries: when a child or .git comes or goes.           *)
(***************************************************************************)
EXTENDS RepoClassifier, RepoIndexDb, FiniteSets, SequencesExt

CONSTANTS
    Workers,        \* workerCountFor(): 1 on a network mount, else 2 to 4
    Shape,          \* [Dirs -> what RepoClassifier sees once the repository is there]
    Ignored,        \* directories a skip rule names
    Passed,         \* entries the listing passes over: links, cloud placeholders
    kBatchSize,     \* repositories per flush
    kSignatureChunkSize,
    Modes, Depths,
    StartRepos, StartFolders, StartDepth,
    MaxScans, MaxEvents     \* runs of scan_all; settings, disk changes and faults

ASSUME ScannerAssumption ==
    /\ FolderRoot \in [Folders -> Dirs] /\ Parent \in [Dirs -> Dirs]
    /\ NameStarts \subseteq Dirs \X Dirs
    /\ IsFiniteSet(Dirs) /\ IsFiniteSet(Workers) /\ Workers # {}
    /\ StartFolders \subseteq Folders /\ StartDepth \in Nat
    /\ Modes \subseteq {"Incremental", "Full"} /\ Depths \subseteq Nat
    /\ kBatchSize \in Nat \ {0} /\ kSignatureChunkSize \in Nat \ {0}

VARIABLES
    tree,       \* the file system: [there, repo, readable] of each directory
    db,         \* the index
    open,       \* the index is open
    phase,      \* "idle", "next", "walk", "joined", "saved", "marked"
    todo,       \* the folders still to scan
    scan,       \* the scan of one folder: SharedState and its parameters
    worker,     \* what each worker is doing
    token,      \* the scan has been cancelled
    steady,     \* ghost: repositories that could be reached all through the scan
    quiet,      \* ghost: nothing has changed on disk during the scan
    pruned,     \* ghost: the scan skipped a subtree
    looked,     \* ghost: directories a scan of the folder has come to
    deepened,   \* ghost: folders that a new addBaseFolder() made deeper
    scans, events   \* so far

vars == <<tree, db, open, phase, todo, scan, worker, token,
          steady, quiet, pruned, looked, deepened, scans, events>>
count == <<scans, events>>
ghosts == <<steady, quiet, pruned, looked, deepened>>

Idle == [at |-> "pop", dir |-> "none", stat |-> "failed", same |-> FALSE, hadRepo |-> FALSE]
NoScan == [folder |-> "none", mode |-> "Incremental", depth |-> 0, queue |-> <<>>,
           pending |-> {}, signatures |-> <<>>, active |-> 0, failed |-> FALSE]

Contents(t, d) == IF t[d].repo THEN Shape[d] ELSE Plain
\* A stat of a directory, and one of what it holds: the path to it must be open.
StatOk(t, d)  == t[d].there /\ \A e \in Path[d] \ {d} : t[e].readable
Visible(t, d) == StatOk(t, d) /\ t[d].readable
IsRepo(t, d)  == Visible(t, d) /\ isRepo(Contents(t, d))
\* SkipRules::shouldSkip(); the base folder itself is exempt.
shouldSkip(f, d) == d # FolderRoot[f] /\ d \in Ignored
Children(t, d) == {c \in Dirs \ {d} : Parent[c] = d /\ t[c].there}
Between(f, d)  == Path[d] \cap Below(FolderRoot[f])
Depth(f, d)    == Cardinality(Between(f, d)) - 1

\* A scan of f to this depth that prunes nothing comes to d.
Reaches(t, f, depth, d) ==
    /\ d \in Below(FolderRoot[f]) /\ Depth(f, d) <= depth
    /\ \A e \in Between(f, d) : Visible(t, e) /\ ~shouldSkip(f, e)
                                /\ (e # FolderRoot[f] => e \notin Passed)
    /\ \A e \in Between(f, d) \ {d} : ~IsRepo(t, e)
Reachable(t, f, depth) == {d \in Dirs : IsRepo(t, d) /\ Reaches(t, f, depth, d)}

NewDb == createSchema([version |-> 0, folders |-> 0, rows |-> 0, sigs |-> 0])
Scanning == phase \in {"walk", "joined", "saved", "marked"}
Folder == scan.folder
Event == events < MaxEvents /\ events' = events + 1 /\ UNCHANGED scans

Init ==
    /\ \E R \in StartRepos :
          tree = [d \in Dirs |-> [there |-> TRUE, repo |-> d \in R, readable |-> TRUE]]
    /\ \E v \in 0..kSchemaVersion + 1, f \in StartFolders :
          db = [addBaseFolder(NewDb, f, StartDepth) EXCEPT !.version = v]
    /\ open = FALSE /\ phase = "idle" /\ todo = {} /\ scan = NoScan
    /\ worker = [w \in Workers |-> Idle] /\ token = FALSE
    /\ steady = {} /\ quiet = TRUE /\ pruned = FALSE
    /\ looked = [f \in Folders |-> {}] /\ deepened = {}
    /\ scans = 0 /\ events = 0

----------------------------------------------------------------------------
\* gbm_discovery_open(): open and migrate; a cache of a newer build is refused, and
\* the handle is null.
Open ==
    /\ ~open /\ supported(db)
    /\ open' = TRUE /\ db' = migrate(db)
    /\ UNCHANGED <<tree, phase, todo, scan, worker, token, ghosts, count>>

Setting(new) ==
    /\ open /\ phase = "idle" /\ Event /\ db' = new
    /\ UNCHANGED <<tree, open, phase, todo, scan, worker, token, steady, quiet, pruned, looked>>

\* gbm_discovery_add_base_folder(), _remove_base_folder(), _set_base_folder_enabled()
\* and _set_base_folder_depth().
AddBaseFolder(f, depth) ==
    /\ Setting(addBaseFolder(db, f, depth))
    /\ deepened' = IF db.folders[f].registered /\ depth > db.folders[f].depth
                   THEN deepened \cup {f} ELSE deepened
RemoveBaseFolder(f) ==
    /\ db.folders[f].registered /\ Setting(removeBaseFolder(db, f))
    /\ deepened' = deepened \ {f}
SetEnabled(f) ==
    /\ db.folders[f].registered
    /\ Setting(setBaseFolderEnabled(db, f, ~db.folders[f].enabled)) /\ UNCHANGED deepened
SetDepth(f, depth) ==
    /\ db.folders[f].registered /\ depth # db.folders[f].depth
    /\ Setting(setBaseFolderMaxDepth(db, f, depth)) /\ deepened' = deepened \ {f}

\* gbm_discovery_scan_all(): the enabled folders, in the order of their paths.
ScanAll ==
    /\ open /\ phase = "idle" /\ scans < MaxScans
    /\ phase' = "next" /\ todo' = baseFolders(db) /\ scans' = scans + 1
    /\ UNCHANGED <<events, tree, db, open, scan, worker, token, ghosts>>
NextFolder(f) ==
    /\ phase = "next" /\ f \in todo
    /\ \A g \in todo \ {f} : FolderRoot[f] \notin Below(FolderRoot[g])

\* The scan ends: with an error it ends gbm_discovery_scan_all() too, and the folders
\* after it are not scanned.
EndScan(ok) ==
    /\ scan' = NoScan /\ worker' = [w \in Workers |-> Idle] /\ token' = (ok /\ token)
    /\ steady' = {} /\ quiet' = TRUE /\ pruned' = FALSE
    /\ todo' = IF ok THEN todo ELSE {}
    /\ phase' = IF ok THEN "next" ELSE "idle"

\* Scanner::scan() up to the start of the workers.
BeginScan(f, mode) ==
    /\ NextFolder(f) /\ StatOk(tree, FolderRoot[f])
    /\ LET begun == beginScan(db, f)
       IN  db' = IF mode = "Full" THEN clearDirSignatures(begun, f) ELSE begun
    /\ phase' = "walk" /\ todo' = todo \ {f}
    /\ scan' = [NoScan EXCEPT !.folder = f, !.mode = mode, !.depth = db.folders[f].depth,
                              !.queue = <<FolderRoot[f]>>]
    /\ steady' = Reachable(tree, f, db.folders[f].depth) /\ quiet' = TRUE
    /\ UNCHANGED <<tree, open, worker, token, pruned, looked, deepened, count>>
BaseFolderGone(f) ==
    /\ NextFolder(f) /\ ~StatOk(tree, FolderRoot[f])
    /\ EndScan(FALSE) /\ UNCHANGED <<tree, db, open, looked, deepened, count>>
BeginFails(f) ==
    /\ NextFolder(f) /\ Event
    /\ EndScan(FALSE) /\ UNCHANGED <<tree, db, open, looked, deepened>>
AllScanned ==
    /\ phase = "next" /\ todo = {} /\ phase' = "idle" /\ token' = FALSE
    /\ UNCHANGED <<tree, db, open, todo, scan, worker, ghosts, count>>

----------------------------------------------------------------------------
\* workerLoop().  `here` is the directory the worker is at.
At(w, step) == phase = "walk" /\ worker[w].at = step
Here(w) == worker[w].dir
Goes(w, step) == worker' = [worker EXCEPT ![w].at = step]

\* mutant: an iteration that ends early leaves activeWorkers as it was.
LeakEarly(w, to, s) ==
    /\ worker' = [worker EXCEPT ![w] = [Idle EXCEPT !.at = to]] /\ scan' = s

\* ActiveGuard: however the iteration ends, the worker is no longer active.
Leaves(w, to, s) ==
    /\ worker' = [worker EXCEPT ![w] = [Idle EXCEPT !.at = to]]
    /\ scan' = [s EXCEPT !.active = @ - 1]

\* The next item; a worker that finds none goes home only when nobody is active, and
\* otherwise sleeps and looks again.
Pop(w) ==
    /\ At(w, "pop") /\ scan.queue # <<>>
    /\ worker' = [worker EXCEPT ![w].at = "visit", ![w].dir = Head(scan.queue)]
    /\ scan' = [scan EXCEPT !.queue = Tail(@), !.active = @ + 1]
    /\ UNCHANGED <<tree, db, open, phase, todo, token, ghosts, count>>
GoHome(w) ==
    /\ At(w, "pop") /\ scan.queue = <<>> /\ scan.active = 0
    /\ Goes(w, "home")
    /\ UNCHANGED <<tree, db, open, phase, todo, scan, token, ghosts, count>>

\* The early ends of an iteration: cancelled; too deep or named by a skip rule.
StopCancelled(w) ==
    /\ At(w, "visit") /\ token /\ Leaves(w, "home", scan)
    /\ UNCHANGED <<tree, db, open, phase, todo, token, ghosts, count>>
Admitted(w) == Depth(Folder, Here(w)) <= scan.depth /\ ~shouldSkip(Folder, Here(w))
SkipItem(w) ==
    /\ At(w, "visit") /\ ~token /\ ~Admitted(w) /\ Leaves(w, "pop", scan)
    /\ UNCHANGED <<tree, db, open, phase, todo, token, ghosts, count>>

\* The mtime is read, then compared with the stored one: an unchanged directory that
\* was no repository is skipped with all that is below it, and the rows there are
\* touched instead.
Unchanged(w) ==
    LET sig == dirSignature(db, Folder, Here(w))
    IN  scan.mode = "Incremental" /\ StatOk(tree, Here(w))
        /\ sig.stored /\ sig.same /\ ~sig.hadRepo
Prune(w) ==
    /\ At(w, "visit") /\ ~token /\ Admitted(w) /\ Unchanged(w)
    /\ db' = touchReposUnder(db, Folder, Here(w)) /\ pruned' = TRUE
    /\ Leaves(w, "pop", scan)
    /\ UNCHANGED <<tree, open, phase, todo, token, steady, quiet, looked, deepened, count>>
StatDir(w) ==
    /\ At(w, "visit") /\ ~token /\ Admitted(w) /\ ~Unchanged(w)
    /\ worker' = [worker EXCEPT ![w].at = "classify", ![w].same = TRUE,
                      ![w].stat = IF StatOk(tree, Here(w)) THEN "ok" ELSE "failed"]
    /\ UNCHANGED <<tree, db, open, phase, todo, scan, token, ghosts, count>>

\* mutant: what is left when the workers are joined is not written.
FlushFullOnly(s) ==
    IF Cardinality(s.pending) >= kBatchSize THEN upsertRepo(db, s.folder, s.pending) ELSE db

\* flushPending(), a transaction.
flushPending(s) == upsertRepo(db, s.folder, s.pending)

\* A repository is recorded; a full batch is flushed.
Classify(w) ==
    LET found  == IsRepo(tree, Here(w))
        queued == [scan EXCEPT !.pending = IF found THEN @ \cup {Here(w)} ELSE @]
        full   == found /\ Cardinality(queued.pending) >= kBatchSize
    IN  /\ At(w, "classify")
        /\ db' = IF full THEN flushPending(queued) ELSE db
        /\ scan' = [queued EXCEPT !.pending = IF full THEN {} ELSE @]
        /\ worker' = [worker EXCEPT ![w].at = "list", ![w].hadRepo = found]
        /\ UNCHANGED <<tree, open, phase, todo, token, ghosts, count>>

\* The signature carries the mtime read before the listing.
Signature(w) == [dir |-> Here(w), same |-> worker[w].same, hadRepo |-> worker[w].hadRepo]

\* The listing and what follows under the lock: the subdirectories are queued, in the
\* order the system gave them, unless this is a repository; a directory that could not
\* be listed gets no signature.
List(w) ==
    LET readable == Visible(tree, Here(w))
        children == IF readable /\ ~worker[w].hadRepo THEN Children(tree, Here(w)) \ Passed
                    ELSE {}
    IN  /\ At(w, "list")
        /\ \E order \in SetToSeqs(children) :
             Leaves(w, "pop",
                 [scan EXCEPT !.queue = @ \o order,
                     !.signatures = IF readable /\ worker[w].stat = "ok"
                                    THEN Append(@, Signature(w)) ELSE @])
        /\ looked' = [looked EXCEPT ![Folder] = @ \cup {Here(w)}]
        /\ UNCHANGED <<tree, db, open, phase, todo, token, steady, quiet, pruned, deepened, count>>

\* A statement fails or the worker throws: the scan has failed, the other workers go on.
WorkerFails(w) ==
    /\ phase = "walk" /\ worker[w].at \in {"visit", "classify", "list"} /\ Event
    /\ Leaves(w, "home", [scan EXCEPT !.failed = TRUE])
    /\ UNCHANGED <<tree, db, open, phase, todo, token, ghosts>>

----------------------------------------------------------------------------
\* Scanner::scan() after the workers are joined.
Join ==
    /\ phase = "walk" /\ ~scan.failed /\ \A w \in Workers : worker[w].at = "home"
    /\ db' = flushPending(scan) /\ phase' = "joined"
    /\ UNCHANGED <<tree, open, todo, scan, worker, token, ghosts, count>>
JoinFailed ==
    /\ phase = "walk" /\ \A w \in Workers : worker[w].at = "home"
    /\ IF scan.failed THEN UNCHANGED count ELSE Event
    /\ EndScan(FALSE) /\ UNCHANGED <<tree, db, open, looked, deepened>>

\* mutant: a cancelled scan leaves the signatures it has.
AlwaysSaves == TRUE

\* Signatures are for a scan that was not cancelled.
SavesSignatures == ~token

Chunks == {n \in 0..Len(scan.signatures) : n % kSignatureChunkSize = 0}
SaveSignatures ==
    /\ phase = "joined" /\ phase' = "saved"
    /\ db' = IF SavesSignatures
             THEN saveDirSignatures(db, Folder, scan.signatures, Len(scan.signatures)) ELSE db
    /\ UNCHANGED <<tree, open, todo, scan, worker, token, ghosts, count>>
\* One chunk's transaction fails; the chunks before it are there.
SaveFails ==
    /\ phase = "joined" /\ ~token /\ Event
    /\ \E n \in Chunks : n < Len(scan.signatures)
                        /\ db' = saveDirSignatures(db, Folder, scan.signatures, n)
    /\ EndScan(FALSE) /\ UNCHANGED <<tree, open, looked, deepened>>

\* result.cancelled is read here: the sweep and finishScan() are for a completed scan.
Sweep ==
    /\ phase = "saved" /\ ~token /\ phase' = "marked" /\ db' = markMissing(db, Folder)
    /\ UNCHANGED <<tree, open, todo, scan, worker, token, ghosts, count>>
SweepFails ==
    /\ phase \in {"saved", "marked"} /\ (phase = "saved" => ~token) /\ Event
    /\ EndScan(FALSE) /\ UNCHANGED <<tree, db, open, looked, deepened>>
FinishScan ==
    /\ phase = "marked" \/ (phase = "saved" /\ token)
    /\ EndScan(TRUE)
    /\ UNCHANGED <<tree, db, open, looked, deepened, count>>

----------------------------------------------------------------------------
\* The environment.
Cancel == Scanning /\ ~token /\ Event /\ token' = TRUE
          /\ UNCHANGED <<tree, db, open, phase, todo, scan, worker, ghosts>>

\* The program is killed: what was committed stays.
Kill ==
    /\ open /\ Scanning /\ Event /\ open' = FALSE
    /\ \/ UNCHANGED db
       \/ phase = "joined" /\ SavesSignatures
          /\ \E n \in Chunks : db' = saveDirSignatures(db, Folder, scan.signatures, n)
    /\ EndScan(FALSE) /\ UNCHANGED <<tree, looked, deepened>>

\* The tree becomes t, with new mtimes for the directories in D.
Disk(t, D) ==
    /\ open /\ Event /\ tree' = t
    /\ db' = [db EXCEPT !.sigs = [f \in Folders |-> [d \in Dirs |->
                 IF d \in D THEN [@[f][d] EXCEPT !.same = FALSE] ELSE @[f][d]]]]
    /\ scan' = [scan EXCEPT !.signatures = [i \in DOMAIN @ |->
                 IF @[i].dir \in D THEN [@[i] EXCEPT !.same = FALSE] ELSE @[i]]]
    /\ worker' = [w \in Workers |->
                 IF Here(w) \in D THEN [worker[w] EXCEPT !.same = FALSE] ELSE worker[w]]
    /\ steady' = IF Scanning THEN steady \cap Reachable(t, Folder, scan.depth) ELSE {}
    /\ quiet' = ~Scanning
    /\ UNCHANGED <<open, phase, todo, token, pruned, deepened>>

MakeDir(d) ==
    /\ ~tree[d].there /\ tree[Parent[d]].there
    /\ Disk([tree EXCEPT ![d] = [there |-> TRUE, repo |-> FALSE, readable |-> TRUE]],
            {d, Parent[d]}) /\ UNCHANGED looked
RemoveDir(d) ==
    /\ tree[d].there
    /\ Disk([e \in Dirs |-> IF e \in Below(d)
                            THEN [there |-> FALSE, repo |-> FALSE, readable |-> TRUE] ELSE tree[e]],
            Below(d) \cup {Parent[d]})
    /\ looked' = [f \in Folders |-> looked[f] \ Below(d)]
\* git init, or rm -rf .git
ToggleRepo(d) ==
    /\ tree[d].there /\ Shape[d] # Plain
    /\ Disk([tree EXCEPT ![d].repo = ~@], {d}) /\ UNCHANGED looked
\* chmod leaves the mtime alone.
ToggleReadable(d) ==
    /\ tree[d].there /\ Disk([tree EXCEPT ![d].readable = ~@], {}) /\ UNCHANGED looked

Step(w) ==
    \/ Pop(w) \/ GoHome(w) \/ StopCancelled(w) \/ SkipItem(w)
    \/ Prune(w) \/ StatDir(w) \/ Classify(w) \/ List(w)
Advance ==
    \/ \E f \in Folders : BaseFolderGone(f) \/ \E m \in Modes : BeginScan(f, m)
    \/ AllScanned \/ Join \/ JoinFailed \/ SaveSignatures \/ Sweep \/ FinishScan
User ==
    \/ Open \/ ScanAll \/ Cancel \/ Kill
    \/ \E f \in Folders :
          \/ RemoveBaseFolder(f) \/ SetEnabled(f) \/ BeginFails(f)
          \/ \E n \in Depths : AddBaseFolder(f, n) \/ SetDepth(f, n)
    \/ SaveFails \/ SweepFails \/ \E w \in Workers : WorkerFails(w)
    \/ \E d \in Dirs : MakeDir(d) \/ RemoveDir(d) \/ ToggleRepo(d) \/ ToggleReadable(d)
Next == Advance \/ User \/ \E w \in Workers : Step(w)

Spec == Init /\ [][Next]_vars

----------------------------------------------------------------------------
(* Properties *)

\* "Cancellation never destroys data" and "pruning must not lose known repositories":
\* the sweep (markMissing, Scanner.cpp:392) marks only what could not be reached all
\* through the scan, whatever was pruned, cancelled, failed or changed on disk meanwhile.
NoFalseMissing ==
    [][\A d \in Dirs : ~db.rows[d].missing /\ db'.rows[d].missing => d \notin steady]_vars

\* A scan that ran to its end on a quiet tree and pruned nothing leaves the folder's
\* part of the index exact: listed is what is there, and nothing else.
ScanIsExact ==
    phase = "marked" /\ quiet /\ ~pruned /\ ~token =>
        {d \in RowsOf(db, Folder) : ~db.rows[d].missing} = Reachable(tree, Folder, scan.depth)

\* What makes pruning sound (RepoIndexDb.h, setBaseFolderMaxDepth; Scanner.cpp, "writing
\* them as we went would mean..."): while a stored signature prunes a directory, every
\* subdirectory it has within the depth has been come to by a scan.
SignatureCoversChildren ==
    \A f \in Folders \ deepened, d \in Dirs :
        LET sig == db.sigs[f][d]
            due == {c \in Children(tree, d) \ Passed :
                       ~shouldSkip(f, c) /\ Depth(f, c) <= db.folders[f].depth}
        IN  sig.stored /\ sig.same /\ ~sig.hadRepo => due \subseteq looked[f]

\* A worker that sleeps because others are active (workerLoop, Scanner.cpp:86) has
\* somebody to wait for, whichever way the others' iterations ended: every item in hand
\* is finished in a bounded number of steps, so the join() in scan() returns.
SleepersHaveSomebody ==
    phase = "walk" /\ scan.active > 0 =>
        \E w \in Workers : worker[w].at \in {"visit", "classify", "list"}
=============================================================================
