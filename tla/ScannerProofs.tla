--------------------------- MODULE ScannerProofs ---------------------------
(***************************************************************************)
(* For any tree, workers, base folders and number of scans, faults and     *)
(* changes on disk: a scan never marks as missing a repository that could  *)
(* be reached all through it, a worker never sleeps with nobody to wait    *)
(* for, a signature that prunes vouches for children that were looked at,  *)
(* and a complete scan leaves the index as the disk is.                    *)
(*                                                                         *)
(* The argument for the sweep follows the path from the base folder to the *)
(* repository: while the walk is on, either the repository's row is        *)
(* accounted for (seen, about to be written, or another folder's), or a    *)
(* directory on its path is in the queue or in a worker's hands            *)
(* (Covered).  A worker that has gone home found the queue empty and       *)
(* nobody active (HomeInv), so after the join every such row has been seen *)
(* (SeenInv).  SigInv follows a signature from the listing that makes it   *)
(* pending to the chunk that stores it; ExactInv follows what a complete   *)
(* scan that nothing disturbed has found.                                  *)
(***************************************************************************)
EXTENDS Scanner, FiniteSetTheorems, SequenceTheorems, WellFoundedInduction, TLAPS

Busy == {"visit", "classify", "list"}
InHand == {w \in Workers : worker[w].at \in Busy}
Row == [base : Folders \cup {"none"}, seen : BOOLEAN, missing : BOOLEAN]
FolderRec == [registered : BOOLEAN, enabled : BOOLEAN, depth : Nat]
DirState == [there : BOOLEAN, repo : BOOLEAN, readable : BOOLEAN]
WorkerRec == [at : Busy \cup {"pop", "home"}, dir : Dirs \cup {"none"},
              stat : {"ok", "failed"}, same : BOOLEAN, hadRepo : BOOLEAN]

DbOk(x) ==
    /\ DOMAIN x = {"version", "folders", "rows", "sigs"}
    /\ x.rows \in [Dirs -> Row] /\ x.folders \in [Folders -> FolderRec]
ScanOk(s) ==
    /\ DOMAIN s = {"folder", "mode", "depth", "queue", "pending", "signatures", "active", "failed"}
    /\ s.folder \in Folders \cup {"none"} /\ s.depth \in Nat /\ s.queue \in Seq(Dirs)
    /\ s.pending \subseteq Dirs /\ s.active \in Int /\ s.failed \in BOOLEAN

Types ==
    /\ tree \in [Dirs -> DirState]
    /\ DbOk(db) /\ ScanOk(scan)
    /\ worker \in [Workers -> WorkerRec]
    /\ token \in BOOLEAN
    /\ phase \in {"idle", "next", "walk", "joined", "saved", "marked"}
    /\ todo \subseteq Folders

\* Between scans nobody is at work; during the walk activeWorkers counts the items in hand.
ActiveInv ==
    /\ open \/ phase = "idle"
    /\ ~Scanning => steady = {} /\ \A w \in Workers : worker[w].at = "pop"
    /\ ~Scanning => scan.active = 0
    /\ phase = "walk" => scan.active = Cardinality(InHand)
    /\ \A w \in InHand : worker[w].dir \in Dirs

\* Without a cancellation or a failure, a worker goes home when there is nothing left.
HomeInv ==
    phase = "walk" /\ ~token /\ ~scan.failed /\ (\E w \in Workers : worker[w].at = "home") =>
        scan.queue = <<>> /\ InHand = {}

\* What the ghost `steady` means for the tree as it is now.
SteadyInv == Scanning => Folder \in Folders /\ steady \subseteq Reachable(tree, Folder, scan.depth)

\* The row of d, if it is the folder's, will not be swept.
Seen(d) == db.rows[d].base = Folder => db.rows[d].seen
Accounted(d) == Seen(d) \/ d \in scan.pending
\* The walk still has to come to e, or is at it.
Ahead(e) ==
    \/ \E i \in 1 .. Len(scan.queue) : scan.queue[i] = e
    \/ \E w \in InHand : worker[w].dir = e
OnTheWay(d) == \E e \in Between(Folder, d) : Ahead(e)

\* A worker that has classified a directory knows what it is, as far as steady
\* repositories go.
ClassifiedInv ==
    \A w \in Workers, d \in steady :
        phase = "walk" /\ worker[w].at = "list" =>
            /\ worker[w].dir = d => Accounted(d)
            /\ worker[w].dir \in Between(Folder, d) \ {d} => ~worker[w].hadRepo

Covered ==
    phase = "walk" /\ ~token /\ ~scan.failed => \A d \in steady : Accounted(d) \/ OnTheWay(d)

SeenInv ==
    phase \in {"joined", "saved"} /\ ~token => \A d \in steady : Seen(d)

WalkInv == ActiveInv /\ HomeInv /\ SteadyInv /\ ClassifiedInv /\ Covered /\ SeenInv
ScanInv == Types /\ WalkInv

-----------------------------------------------------------------------------
(* The operators *)

\* Every element of a set is somewhere in each sequence of its elements.
LEMMA EveryElementQueued ==
    ASSUME NEW S, IsFiniteSet(S), NEW q \in SetToSeqs(S)
    PROVE  q \in Seq(S) /\ \A x \in S : \E i \in 1 .. Len(q) : q[i] = x
<1> DEFINE D == 1 .. Cardinality(S)
<1>1. Cardinality(S) \in Nat /\ q \in [D -> S] /\ \A i, j \in D : i # j => q[i] # q[j]
  BY FS_CardinalityType DEF SetToSeqs
<1>2. q \in Injection(D, S)
  BY <1>1 DEF Injection, IsInjective
<1>3. Cardinality(D) = Cardinality(S)
  BY <1>1, FS_Interval
<1>4. q \in Surjection(D, S)
  BY <1>2, <1>3, FS_Injection
<1>5. q \in Seq(S) /\ Len(q) = Cardinality(S)
  BY <1>1
<1> QED BY <1>4, <1>5 DEF Surjection

\* The statements that change rows keep the shape of the index.
LEMMA UpsertRows ==
    ASSUME NEW x, DbOk(x), NEW f \in Folders, NEW S
    PROVE  /\ DbOk(upsertRepo(x, f, S))
           /\ \A d \in Dirs :
                 /\ d \notin S => upsertRepo(x, f, S).rows[d] = x.rows[d]
                 /\ d \in S => /\ upsertRepo(x, f, S).rows[d].base = f
                               /\ upsertRepo(x, f, S).rows[d].seen
                               /\ ~upsertRepo(x, f, S).rows[d].missing
                 /\ upsertRepo(x, f, S).rows[d].missing => x.rows[d].missing
<1>1. DbOk(upsertRepo(x, f, S))
  BY DEF upsertRepo, Update, DbOk, Row
<1>2. \A d \in Dirs : upsertRepo(x, f, S).rows[d] =
         IF d \in S THEN [base |-> f, seen |-> TRUE, missing |-> FALSE] ELSE x.rows[d]
  BY DEF upsertRepo, Update, DbOk
<1>3. /\ [base |-> f, seen |-> TRUE, missing |-> FALSE].base = f
      /\ [base |-> f, seen |-> TRUE, missing |-> FALSE].seen
      /\ ~[base |-> f, seen |-> TRUE, missing |-> FALSE].missing
  OBVIOUS
<1> QED BY <1>1, <1>2, <1>3

LEMMA TouchRows ==
    ASSUME NEW x, DbOk(x), NEW f \in Folders, NEW e
    PROVE  /\ DbOk(touchReposUnder(x, f, e))
           /\ \A d \in Dirs :
                 /\ touchReposUnder(x, f, e).rows[d].base = x.rows[d].base
                 /\ touchReposUnder(x, f, e).rows[d].missing = x.rows[d].missing
                 /\ x.rows[d].seen => touchReposUnder(x, f, e).rows[d].seen
                 /\ x.rows[d].base = f /\ d \in Matching(e) => touchReposUnder(x, f, e).rows[d].seen
<1> DEFINE y == touchReposUnder(x, f, e)
           T == RowsOf(x, f) \cap Matching(e)
<1>1. /\ DOMAIN y = DOMAIN x /\ y.folders = x.folders
      /\ y.rows = [d \in Dirs |-> IF d \in T THEN [x.rows[d] EXCEPT !.seen = TRUE] ELSE x.rows[d]]
  BY DEF touchReposUnder, Update, DbOk
<1>2. ASSUME NEW d \in Dirs
      PROVE  /\ y.rows[d] \in Row /\ y.rows[d].base = x.rows[d].base
             /\ y.rows[d].missing = x.rows[d].missing
             /\ y.rows[d].seen = (x.rows[d].seen \/ d \in T)
  <2>1. x.rows[d] \in Row BY DEF DbOk
  <2>2. CASE d \in T BY <1>1, <2>1, <2>2 DEF Row
  <2>3. CASE d \notin T BY <1>1, <2>1, <2>3 DEF Row
  <2> QED BY <2>2, <2>3
<1>3. DbOk(y) BY <1>1, <1>2 DEF DbOk
<1> QED BY <1>2, <1>3 DEF RowsOf

LEMMA MarkRows ==
    ASSUME NEW x, DbOk(x), NEW f \in Folders
    PROVE  /\ DbOk(markMissing(x, f))
           /\ \A d \in Dirs :
                 /\ markMissing(x, f).rows[d].missing =
                       (x.rows[d].missing \/ (x.rows[d].base = f /\ ~x.rows[d].seen))
                 /\ markMissing(x, f).rows[d].base = x.rows[d].base
                 /\ markMissing(x, f).rows[d].seen = x.rows[d].seen
<1> DEFINE y == markMissing(x, f)
           T == {d \in RowsOf(x, f) : ~x.rows[d].seen}
<1>1. /\ DOMAIN y = DOMAIN x /\ y.folders = x.folders
      /\ y.rows = [d \in Dirs |-> IF d \in T THEN [x.rows[d] EXCEPT !.missing = TRUE] ELSE x.rows[d]]
  BY DEF markMissing, Update, DbOk
<1>2. ASSUME NEW d \in Dirs
      PROVE  /\ y.rows[d] \in Row /\ y.rows[d].missing = (x.rows[d].missing \/ d \in T)
             /\ y.rows[d].base = x.rows[d].base /\ y.rows[d].seen = x.rows[d].seen
  <2>1. x.rows[d] \in Row BY DEF DbOk
  <2>2. CASE d \in T
    <3>1. y.rows[d] = [x.rows[d] EXCEPT !.missing = TRUE] BY <1>1, <2>2
    <3> HIDE DEF y, T
    <3> QED BY <2>1, <2>2, <3>1 DEF Row
  <2>3. CASE d \notin T BY <1>1, <2>1, <2>3 DEF Row
  <2> QED BY <2>2, <2>3
<1>3. DbOk(y) BY <1>1, <1>2 DEF DbOk
<1> QED BY <1>2, <1>3 DEF RowsOf

LEMMA BeginRows ==
    ASSUME NEW x, DbOk(x), NEW f \in Folders
    PROVE  /\ DbOk(beginScan(x, f)) /\ DbOk(clearDirSignatures(beginScan(x, f), f))
           /\ beginScan(x, f).folders = x.folders
           /\ clearDirSignatures(beginScan(x, f), f).rows = beginScan(x, f).rows
           /\ \A d \in Dirs :
                 /\ beginScan(x, f).rows[d].missing = x.rows[d].missing
                 /\ beginScan(x, f).rows[d].base = f => ~beginScan(x, f).rows[d].seen
<1> DEFINE y == beginScan(x, f)
           z == clearDirSignatures(y, f)
<1>1. /\ DOMAIN y = DOMAIN x /\ y.folders = x.folders
      /\ y.rows = [d \in Dirs |-> IF d \in RowsOf(x, f) THEN [x.rows[d] EXCEPT !.seen = FALSE] ELSE x.rows[d]]
  BY DEF beginScan, Update, DbOk
<1>2. ASSUME NEW d \in Dirs
      PROVE  /\ y.rows[d] \in Row /\ y.rows[d].missing = x.rows[d].missing
             /\ y.rows[d].base = f => ~y.rows[d].seen
  <2>1. x.rows[d] \in Row BY DEF DbOk
  <2>2. CASE d \in RowsOf(x, f) BY <1>1, <2>1, <2>2 DEF Row
  <2>3. CASE d \notin RowsOf(x, f) BY <1>1, <2>1, <2>3 DEF Row, RowsOf
  <2> QED BY <2>2, <2>3
<1>3. DbOk(y) BY <1>1, <1>2 DEF DbOk
<1> HIDE DEF y
<1>4. DbOk(z) /\ z.rows = y.rows BY <1>3 DEF clearDirSignatures, DbOk
<1> QED BY <1>1, <1>2, <1>3, <1>4 DEF y

\* The settings and the migration mark nothing as missing.
LEMMA SettingRows ==
    ASSUME NEW x, DbOk(x), NEW f \in Folders, NEW n \in Nat, NEW on \in BOOLEAN,
           NEW y \in {addBaseFolder(x, f, n), removeBaseFolder(x, f),
                      setBaseFolderEnabled(x, f, on), setBaseFolderMaxDepth(x, f, n)}
    PROVE  DbOk(y) /\ \A d \in Dirs : y.rows[d].missing => x.rows[d].missing
<1>1. CASE y = addBaseFolder(x, f, n)
  BY <1>1 DEF addBaseFolder, DbOk, FolderRec
<1>2. CASE y = removeBaseFolder(x, f)
  BY <1>2 DEF removeBaseFolder, Update, RowsOf, DbOk, FolderRec, Row, NoRow, NoFolder
<1>3. CASE y = setBaseFolderEnabled(x, f, on)
  BY <1>3 DEF setBaseFolderEnabled, DbOk, FolderRec
<1>4. CASE y = setBaseFolderMaxDepth(x, f, n)
  BY <1>4 DEF setBaseFolderMaxDepth, DbOk, FolderRec
<1> QED BY <1>1, <1>2, <1>3, <1>4

LEMMA MigrateRows ==
    ASSUME NEW x, DbOk(x)
    PROVE  DbOk(migrate(x)) /\ \A d \in Dirs : migrate(x).rows[d].missing => x.rows[d].missing
BY DEF migrate, createSchema, DbOk, FolderRec, Row, NoRow, NoFolder

LEMMA SaveRows ==
    ASSUME NEW x, DbOk(x), NEW f \in Folders, NEW s, NEW n
    PROVE  /\ DbOk(saveDirSignatures(x, f, s, n))
           /\ saveDirSignatures(x, f, s, n).rows = x.rows
BY DEF saveDirSignatures, DbOk

-----------------------------------------------------------------------------
(* The way to a repository *)

\* The base folder is on the way to what can be reached from it.
LEMMA WayBegins ==
    ASSUME NEW t, NEW f \in Folders, NEW depth, NEW d \in Reachable(t, f, depth)
    PROVE  d \in Dirs /\ FolderRoot[f] \in Between(f, d) /\ FolderRoot[f] \in Dirs
BY ScannerAssumption, TreeAssumption DEF Reachable, Reaches, Between, Below

\* No directory on the way is refused, and from each but the last the way goes on to a
\* child that the listing shows.
LEMMA WayGoesOn ==
    ASSUME NEW t, NEW f \in Folders, NEW depth \in Nat, NEW d \in Reachable(t, f, depth),
           NEW e \in Between(f, d)
    PROVE  /\ e \in Dirs /\ d \in Dirs /\ d \in Below(e)
           /\ Depth(f, e) <= depth /\ ~shouldSkip(f, e) /\ Visible(t, e)
           /\ e = d => IsRepo(t, e)
           /\ e # d => /\ ~IsRepo(t, e)
                       /\ \E c \in Between(f, d) : c \in Children(t, e) \ Passed
<1> DEFINE root == FolderRoot[f]
<1>1. d \in Dirs /\ e \in Dirs /\ e \in Path[d] /\ root \in Path[e] /\ d \in Below(e) /\ root \in Dirs
  BY TreeAssumption, ScannerAssumption DEF Reachable, Between, Below
<1>2. /\ \A x \in Between(f, d) : Visible(t, x) /\ ~shouldSkip(f, x) /\ (x # root => x \notin Passed)
      /\ \A x \in Between(f, d) \ {d} : ~IsRepo(t, x)
      /\ IsRepo(t, d) /\ Depth(f, d) <= depth
  BY DEF Reachable, Reaches
<1>3. Depth(f, e) <= depth
  <2>1. Between(f, e) \subseteq Between(f, d)
    BY <1>1, TreeAssumption DEF Between
  <2>2. Between(f, d) \subseteq Dirs BY <1>1, TreeAssumption DEF Between
  <2>3. IsFiniteSet(Between(f, d)) BY <2>2, FS_Subset, ScannerAssumption
  <2>4. IsFiniteSet(Between(f, e)) /\ Cardinality(Between(f, e)) <= Cardinality(Between(f, d))
    BY <2>1, <2>3, FS_Subset
  <2>5. Cardinality(Between(f, e)) \in Nat /\ Cardinality(Between(f, d)) \in Nat
    BY <2>3, <2>4, FS_CardinalityType
  <2> QED BY <1>2, <2>4, <2>5 DEF Depth
<1>4. ASSUME e # d
      PROVE  \E c \in Between(f, d) : c \in Children(t, e) \ Passed
  <2>1. PICK c \in Path[d] \ {e} : Parent[c] = e /\ e \in Path[c]
    BY <1>1, <1>4, TreeAssumption
  <2>2. c \in Dirs BY <1>1, <2>1, TreeAssumption
  <2>3. Path[e] \subseteq Path[c] /\ c \notin Path[e] BY <2>1, <2>2, TreeAssumption
  <2>4. c \in Between(f, d) /\ c # root BY <1>1, <2>1, <2>2, <2>3 DEF Between, Below
  <2>5. c \in Children(t, e) BY <1>2, <2>1, <2>2, <2>4 DEF Children, Visible, StatOk
  <2> QED BY <1>2, <2>4, <2>5
<1> QED BY <1>1, <1>2, <1>3, <1>4

-----------------------------------------------------------------------------
(* The index and the types *)

\* Nobody but the sweep marks a row as missing.
KeepsListed == \A d \in Dirs : db'.rows[d].missing => db.rows[d].missing

LEMMA IndexStep ==
    ASSUME ScanInv, [Next]_vars
    PROVE  DbOk(db') /\ (Sweep \/ KeepsListed)
<1> USE ScannerAssumption DEF ScanInv, WalkInv, Types, KeepsListed
<1>0. UNCHANGED db => DbOk(db') /\ KeepsListed
  OBVIOUS
<1>f. Scanning => Folder \in Folders
  BY DEF SteadyInv
<1>1. CASE Advance
  <2>1. ASSUME NEW f \in Folders, NEW m \in Modes, BeginScan(f, m) PROVE DbOk(db') /\ KeepsListed
    BY <2>1, BeginRows DEF BeginScan
  <2>2. ASSUME NEW f \in Folders, BaseFolderGone(f) PROVE UNCHANGED db
    BY <2>2 DEF BaseFolderGone
  <2>3. CASE Join BY <1>f, <2>3, UpsertRows DEF Join, flushPending, Scanning, Folder
  <2>4. CASE SaveSignatures BY <1>f, <2>4, SaveRows DEF SaveSignatures, Scanning
  <2>5. CASE Sweep BY <1>f, <2>5, MarkRows DEF Sweep, Scanning
  <2>6. CASE AllScanned \/ JoinFailed \/ FinishScan BY <2>6 DEF AllScanned, JoinFailed, FinishScan
  <2> QED BY <1>0, <1>1, <2>1, <2>2, <2>3, <2>4, <2>5, <2>6 DEF Advance
<1>2. CASE User
  <2>1. CASE Open BY <2>1, MigrateRows DEF Open
  <2>2. CASE ScanAll \/ Cancel BY <1>0, <2>2 DEF ScanAll, Cancel
  <2>3. CASE Kill
    <3>1. Folder \in Folders BY <1>f, <2>3 DEF Kill
    <3> QED BY <1>0, <2>3, <3>1, SaveRows DEF Kill
  <2>4. ASSUME NEW f \in Folders,
               RemoveBaseFolder(f) \/ SetEnabled(f) \/ \E n \in Depths : AddBaseFolder(f, n) \/ SetDepth(f, n)
        PROVE  DbOk(db') /\ KeepsListed
    <3>1. CASE RemoveBaseFolder(f)
      BY <3>1, SettingRows, 0 \in Nat, TRUE \in BOOLEAN DEF RemoveBaseFolder, Setting
    <3>2. CASE SetEnabled(f)
      <4>1. (~db.folders[f].enabled) \in BOOLEAN BY DEF DbOk, FolderRec
      <4> QED BY <3>2, <4>1, SettingRows, 0 \in Nat DEF SetEnabled, Setting
    <3>3. ASSUME NEW n \in Depths, AddBaseFolder(f, n) PROVE DbOk(db') /\ KeepsListed
      BY <3>3, SettingRows, TRUE \in BOOLEAN DEF AddBaseFolder, Setting
    <3>4. ASSUME NEW n \in Depths, SetDepth(f, n) PROVE DbOk(db') /\ KeepsListed
      BY <3>4, SettingRows, TRUE \in BOOLEAN DEF SetDepth, Setting
    <3> QED BY <2>4, <3>1, <3>2, <3>3, <3>4
  <2>5. ASSUME NEW f \in Folders, BeginFails(f) PROVE UNCHANGED db BY <2>5 DEF BeginFails
  <2>6. CASE SaveFails
    <3>1. Folder \in Folders BY <1>f, <2>6 DEF SaveFails, Scanning
    <3> QED BY <2>6, <3>1, SaveRows DEF SaveFails
  <2>7. CASE SweepFails BY <1>0, <2>7 DEF SweepFails
  <2>8. ASSUME NEW w \in Workers, WorkerFails(w) PROVE UNCHANGED db BY <2>8 DEF WorkerFails
  <2>9. ASSUME NEW t, NEW D, Disk(t, D) PROVE DbOk(db') /\ KeepsListed
    BY <2>9 DEF Disk, DbOk
  <2>10. ASSUME NEW d \in Dirs, MakeDir(d) \/ RemoveDir(d) \/ ToggleRepo(d) \/ ToggleReadable(d)
         PROVE  DbOk(db') /\ KeepsListed
    BY <2>9, <2>10 DEF MakeDir, RemoveDir, ToggleRepo, ToggleReadable
  <2> QED BY <1>0, <1>2, <2>1, <2>2, <2>3, <2>4, <2>5, <2>6, <2>7, <2>8, <2>10 DEF User
<1>3. ASSUME NEW w \in Workers, Step(w) PROVE DbOk(db') /\ KeepsListed
  <2>1. CASE Prune(w) BY <1>f, <2>1, TouchRows DEF Prune, At, Scanning
  <2>2. CASE Classify(w)
    <3>1. Folder \in Folders BY <1>f, <2>2 DEF Classify, At, Scanning
    <3> DEFINE queued == [scan EXCEPT !.pending = IF IsRepo(tree, Here(w)) THEN @ \cup {Here(w)} ELSE @]
    <3>2. queued.folder = Folder BY DEF ScanOk, Folder
    <3>3. db' = db \/ db' = upsertRepo(db, Folder, queued.pending)
      BY <2>2, <3>2 DEF Classify, flushPending
    <3> QED BY <1>0, <3>1, <3>3, UpsertRows
  <2>3. CASE UNCHANGED db BY <1>0, <2>3
  <2> QED BY <1>3, <2>1, <2>2, <2>3 DEF Step, Pop, GoHome, StopCancelled, SkipItem, StatDir, List
<1>4. CASE UNCHANGED vars BY <1>0, <1>4 DEF vars
<1> QED BY <1>1, <1>2, <1>3, <1>4 DEF Next

\* A change on disk leaves a tree of directories.
LEMMA DiskChanges ==
    ASSUME Types, NEW d \in Dirs, MakeDir(d) \/ RemoveDir(d) \/ ToggleRepo(d) \/ ToggleReadable(d)
    PROVE  \E t \in [Dirs -> DirState], D \in SUBSET Dirs : Disk(t, D)
<1> USE ScannerAssumption DEF Types
<1>0. Parent[d] \in Dirs /\ Below(d) \in SUBSET Dirs BY DEF Below
<1>1. CASE MakeDir(d)
  <2> DEFINE t == [tree EXCEPT ![d] = [there |-> TRUE, repo |-> FALSE, readable |-> TRUE]]
  <2>1. t \in [Dirs -> DirState] BY DEF DirState
  <2> QED BY <1>0, <1>1, <2>1 DEF MakeDir
<1>2. CASE RemoveDir(d)
  <2> DEFINE t == [e \in Dirs |-> IF e \in Below(d)
                        THEN [there |-> FALSE, repo |-> FALSE, readable |-> TRUE] ELSE tree[e]]
  <2>1. t \in [Dirs -> DirState] BY DEF DirState
  <2> QED BY <1>0, <1>2, <2>1 DEF RemoveDir
<1>3. CASE ToggleRepo(d)
  <2> DEFINE t == [tree EXCEPT ![d].repo = ~@]
  <2>1. t \in [Dirs -> DirState] BY DEF DirState
  <2> QED BY <1>0, <1>3, <2>1 DEF ToggleRepo
<1>4. CASE ToggleReadable(d)
  <2> DEFINE t == [tree EXCEPT ![d].readable = ~@]
  <2>1. t \in [Dirs -> DirState] BY DEF DirState
  <2> QED BY <1>0, <1>4, <2>1 DEF ToggleReadable
<1> QED BY <1>1, <1>2, <1>3, <1>4

\* A step keeps the types.
LEMMA TypesPreserved ==
    ASSUME ScanInv, [Next]_vars
    PROVE  Types'
<1> USE ScannerAssumption DEF ScanInv, WalkInv, Types, Busy
<1>d. DbOk(db')
  BY IndexStep
<1>e. <<>> \in Seq(Dirs) /\ ScanOk(NoScan) /\ Idle \in WorkerRec
  <2>1. <<>> \in Seq(Dirs) OBVIOUS
  <2> QED BY <2>1 DEF NoScan, ScanOk, Idle, WorkerRec
<1>end. ASSUME NEW ok \in BOOLEAN, EndScan(ok), UNCHANGED tree PROVE Types'
  <2>1. worker' \in [Workers -> WorkerRec] BY <1>e, <1>end DEF EndScan
  <2>2. token' \in BOOLEAN BY <1>end DEF EndScan
  <2> QED BY <1>d, <1>e, <1>end, <2>1, <2>2 DEF EndScan
<1>1. CASE Advance
  <2>1. ASSUME NEW f \in Folders, NEW m \in Modes, BeginScan(f, m) PROVE Types'
    <3>1. <<FolderRoot[f]>> \in Seq(Dirs) OBVIOUS
    <3>2. db.folders[f].depth \in Nat BY DEF DbOk, FolderRec
    <3>3. ScanOk(scan') BY <2>1, <3>1, <3>2, <1>e DEF BeginScan, NoScan, ScanOk
    <3> QED BY <1>d, <2>1, <3>3 DEF BeginScan
  <2>2. ASSUME NEW f \in Folders, BaseFolderGone(f) PROVE Types'
    BY <1>end, <2>2 DEF BaseFolderGone
  <2>3. CASE Join \/ SaveSignatures \/ Sweep BY <1>d, <2>3 DEF Join, SaveSignatures, Sweep
  <2>4. CASE JoinFailed \/ FinishScan BY <1>end, <2>4 DEF JoinFailed, FinishScan
  <2>5. CASE AllScanned BY <1>d, <2>5 DEF AllScanned
  <2> QED BY <1>1, <2>1, <2>2, <2>3, <2>4, <2>5 DEF Advance
<1>2. CASE User
  <2>1. CASE Open BY <1>d, <2>1 DEF Open
  <2>2. CASE ScanAll BY <1>d, <2>2 DEF ScanAll, baseFolders
  <2>3. CASE Cancel BY <1>d, <2>3 DEF Cancel
  <2>4. CASE Kill \/ SaveFails \/ SweepFails BY <1>end, <2>4 DEF Kill, SaveFails, SweepFails
  <2>5. ASSUME NEW f \in Folders,
               RemoveBaseFolder(f) \/ SetEnabled(f) \/ \E n \in Depths : AddBaseFolder(f, n) \/ SetDepth(f, n)
        PROVE  Types'
    BY <1>d, <2>5 DEF RemoveBaseFolder, SetEnabled, AddBaseFolder, SetDepth, Setting
  <2>6. ASSUME NEW f \in Folders, BeginFails(f) PROVE Types'
    BY <1>end, <2>6 DEF BeginFails
  <2>7. ASSUME NEW w \in Workers, WorkerFails(w) PROVE Types'
    <3>1. worker' \in [Workers -> WorkerRec] BY <1>e, <2>7 DEF WorkerFails, Leaves, WorkerRec, Idle
    <3>2. ScanOk(scan') BY <2>7 DEF WorkerFails, Leaves, ScanOk
    <3> QED BY <1>d, <2>7, <3>1, <3>2 DEF WorkerFails
  <2>8. ASSUME NEW t \in [Dirs -> DirState], NEW D, Disk(t, D) PROVE Types'
    <3>1. worker' \in [Workers -> WorkerRec]
      <4>1. ASSUME NEW w \in Workers PROVE [worker[w] EXCEPT !.same = FALSE] \in WorkerRec
        <5>1. worker[w] \in WorkerRec OBVIOUS
        <5> QED BY <5>1 DEF WorkerRec
      <4> QED BY <2>8, <4>1 DEF Disk
    <3>2. ScanOk(scan') BY <2>8 DEF Disk, ScanOk
    <3> QED BY <1>d, <2>8, <3>1, <3>2 DEF Disk
  <2>9. ASSUME NEW d \in Dirs, MakeDir(d) \/ RemoveDir(d) \/ ToggleRepo(d) \/ ToggleReadable(d)
        PROVE  \E t \in [Dirs -> DirState], D \in SUBSET Dirs : Disk(t, D)
    BY <2>9, DiskChanges
  <2> QED BY <1>2, <2>1, <2>2, <2>3, <2>4, <2>5, <2>6, <2>7, <2>8, <2>9 DEF User
<1>3. ASSUME NEW w \in Workers, Step(w) PROVE Types'
  <2>1. CASE Pop(w)
    <3>1. Head(scan.queue) \in Dirs /\ Tail(scan.queue) \in Seq(Dirs) BY <2>1 DEF Pop, ScanOk
    <3>2. worker' \in [Workers -> WorkerRec]
      <4> DEFINE r == [worker[w] EXCEPT !.at = "visit", !.dir = Head(scan.queue)]
      <4>1. worker[w] \in WorkerRec OBVIOUS
      <4>2. r \in WorkerRec BY <3>1, <4>1 DEF WorkerRec
      <4>3. worker' = [worker EXCEPT ![w] = r] BY <2>1 DEF Pop
      <4> QED BY <4>2, <4>3
    <3>3. ScanOk(scan') BY <2>1, <3>1 DEF Pop, ScanOk
    <3> QED BY <1>d, <2>1, <3>2, <3>3 DEF Pop
  <2>2. CASE GoHome(w)
    <3>1. worker' \in [Workers -> WorkerRec] BY <2>2 DEF GoHome, Goes, WorkerRec
    <3> QED BY <1>d, <2>2, <3>1 DEF GoHome
  <2>l. ASSUME NEW to \in {"pop", "home"}, NEW s, ScanOk(s), Leaves(w, to, s)
        PROVE  worker' \in [Workers -> WorkerRec] /\ ScanOk(scan')
    <3>1. worker' \in [Workers -> WorkerRec] BY <1>e, <2>l DEF Leaves, WorkerRec, Idle
    <3>2. ScanOk(scan') BY <2>l DEF Leaves, ScanOk
    <3> QED BY <3>1, <3>2
  <2>3. CASE StopCancelled(w) BY <1>d, <2>3, <2>l DEF StopCancelled
  <2>4. CASE SkipItem(w) BY <1>d, <2>4, <2>l DEF SkipItem
  <2>5. CASE Prune(w) BY <1>d, <2>5, <2>l DEF Prune
  <2>6. CASE StatDir(w)
    <3>1. worker' \in [Workers -> WorkerRec]
      <4> DEFINE r == [worker[w] EXCEPT !.at = "classify", !.same = TRUE,
                           !.stat = IF StatOk(tree, Here(w)) THEN "ok" ELSE "failed"]
      <4>1. worker[w] \in WorkerRec OBVIOUS
      <4>2. r \in WorkerRec BY <4>1 DEF WorkerRec
      <4>3. worker' = [worker EXCEPT ![w] = r] BY <2>6 DEF StatDir
      <4> QED BY <4>2, <4>3
    <3> QED BY <1>d, <2>6, <3>1 DEF StatDir
  <2>7. CASE Classify(w)
    <3>1. Here(w) \in Dirs BY <2>7 DEF Classify, At, ActiveInv, InHand, Here
    <3>2. IsRepo(tree, Here(w)) \in BOOLEAN BY DEF IsRepo, Visible, StatOk, isRepo
    <3>3. worker' \in [Workers -> WorkerRec]
      <4> DEFINE r == [worker[w] EXCEPT !.at = "list", !.hadRepo = IsRepo(tree, Here(w))]
      <4>1. worker[w] \in WorkerRec OBVIOUS
      <4>2. r \in WorkerRec BY <3>2, <4>1 DEF WorkerRec
      <4>3. worker' = [worker EXCEPT ![w] = r] BY <2>7 DEF Classify
      <4> QED BY <4>2, <4>3
    <3>4. ScanOk(scan') BY <2>7, <3>1 DEF Classify, ScanOk
    <3> QED BY <1>d, <2>7, <3>3, <3>4 DEF Classify
  <2>8. CASE List(w)
    <3> DEFINE children == IF Visible(tree, Here(w)) /\ ~worker[w].hadRepo
                           THEN Children(tree, Here(w)) \ Passed ELSE {}
    <3>1. IsFiniteSet(children) /\ children \subseteq Dirs BY FS_Subset, FS_EmptySet DEF Children
    <3>o. PICK order \in SetToSeqs(children) : \E sigs :
             Leaves(w, "pop", [scan EXCEPT !.queue = @ \o order, !.signatures = sigs])
      BY <2>8 DEF List
    <3>2. PICK sigs : Leaves(w, "pop", [scan EXCEPT !.queue = @ \o order, !.signatures = sigs])
      BY <3>o
    <3>3. order \in Seq(Dirs) BY <3>1, EveryElementQueued
    <3>4. scan.queue \o order \in Seq(Dirs) BY <3>3 DEF ScanOk
    <3>5. ScanOk([scan EXCEPT !.queue = @ \o order, !.signatures = sigs]) BY <3>4 DEF ScanOk
    <3> QED BY <1>d, <2>8, <2>l, <3>2, <3>5 DEF List
  <2> QED BY <1>3, <2>1, <2>2, <2>3, <2>4, <2>5, <2>6, <2>7, <2>8 DEF Step
<1>4. CASE UNCHANGED vars BY <1>4 DEF vars
<1> QED BY <1>1, <1>2, <1>3, <1>4 DEF Next

-----------------------------------------------------------------------------
(* The steps, by what they do to a walk *)

\* Nobody is at work after the step.
Rests == (open' \/ phase' = "idle") /\ ~Scanning'
         /\ steady' = {} /\ scan'.active = 0 /\ \A w \in Workers : worker'[w].at = "pop"

LEMMA StepKinds ==
    ASSUME ScanInv, [Next]_vars
    PROVE  \/ Rests
           \/ \E f \in Folders, m \in Modes : BeginScan(f, m)
           \/ \E w \in Workers : Step(w) \/ WorkerFails(w)
           \/ Join \/ SaveSignatures \/ Sweep \/ Cancel
           \/ \E t \in [Dirs -> DirState], D \in SUBSET Dirs : Disk(t, D)
           \/ UNCHANGED vars
<1> USE DEF ScanInv, WalkInv
<1>end. ASSUME NEW ok \in BOOLEAN, EndScan(ok), phase # "idle", ~ok \/ UNCHANGED open PROVE Rests
  BY <1>end DEF ActiveInv, EndScan, Rests, NoScan, Idle, Scanning
<1>off. ASSUME ~Scanning, phase' \in {"idle", "next"}, phase' = "idle" \/ open', UNCHANGED <<scan, worker, steady>> PROVE Rests
  BY <1>off DEF ActiveInv, Rests, Scanning
<1>1. CASE Advance
  <2>1. ASSUME NEW f \in Folders, BaseFolderGone(f) PROVE Rests BY <1>end, <2>1 DEF BaseFolderGone, NextFolder
  <2>2. CASE JoinFailed \/ FinishScan BY <1>end, <2>2 DEF JoinFailed, FinishScan
  <2>3. CASE AllScanned BY <1>off, <2>3 DEF AllScanned, Scanning, ghosts
  <2> QED BY <1>1, <2>1, <2>2, <2>3 DEF Advance
<1>2. CASE User
  <2>1. CASE Open BY <2>1, <1>off DEF Open, ghosts, ActiveInv, Scanning
  <2>2. CASE ScanAll BY <1>off, <2>2 DEF ScanAll, ghosts, Scanning
  <2>3. CASE Kill \/ SaveFails \/ SweepFails BY <1>end, <2>3 DEF Kill, SaveFails, SweepFails, Scanning
  <2>4. ASSUME NEW f \in Folders,
               RemoveBaseFolder(f) \/ SetEnabled(f) \/ \E n \in Depths : AddBaseFolder(f, n) \/ SetDepth(f, n)
        PROVE  Rests
    BY <1>off, <2>4 DEF RemoveBaseFolder, SetEnabled, AddBaseFolder, SetDepth, Setting, Scanning
  <2>5. ASSUME NEW f \in Folders, BeginFails(f) PROVE Rests BY <1>end, <2>5 DEF BeginFails, NextFolder
  <2>6. ASSUME NEW d \in Dirs, MakeDir(d) \/ RemoveDir(d) \/ ToggleRepo(d) \/ ToggleReadable(d)
        PROVE  \E t \in [Dirs -> DirState], D \in SUBSET Dirs : Disk(t, D)
    BY <2>6, DiskChanges
  <2> QED BY <1>2, <2>1, <2>2, <2>3, <2>4, <2>5, <2>6 DEF User
<1> QED BY <1>1, <1>2 DEF Next

-----------------------------------------------------------------------------
(* A worker's step *)

\* A worker takes an item, goes on with it, is done with it, or goes home.
Takes(w) ==
    /\ worker[w].at = "pop" /\ worker'[w].at = "visit" /\ worker'[w].dir = Head(scan.queue)
    /\ scan.queue # <<>> /\ scan'.queue = Tail(scan.queue)
    /\ scan'.active = scan.active + 1 /\ scan'.failed = scan.failed
GoesOn(w) ==
    /\ worker[w].at \in {"visit", "classify"} /\ worker'[w].at \in {"classify", "list"}
    /\ worker'[w].dir = worker[w].dir /\ scan'.queue = scan.queue
    /\ scan'.active = scan.active /\ scan'.failed = scan.failed
IsDone(w) ==
    /\ worker[w].at \in Busy /\ worker'[w].at \in {"pop", "home"}
    /\ scan'.active = scan.active - 1
    /\ ~token /\ ~scan'.failed => worker'[w].at = "pop" /\ ~scan.failed
IsHome(w) ==
    /\ worker[w].at = "pop" /\ worker'[w].at = "home" /\ scan.queue = <<>> /\ scan.active = 0
    /\ UNCHANGED scan
SameScan == scan'.folder = scan.folder /\ scan'.depth = scan.depth

LEMMA LeavesEffect ==
    ASSUME Types, NEW w \in Workers, NEW to, NEW s, ScanOk(s), Leaves(w, to, s)
    PROVE  /\ worker'[w].at = to /\ \A v \in Workers \ {w} : worker'[v] = worker[v]
           /\ scan'.active = s.active - 1 /\ scan'.queue = s.queue /\ scan'.pending = s.pending
           /\ scan'.failed = s.failed /\ scan'.folder = s.folder /\ scan'.depth = s.depth
BY DEF Leaves, Types, Idle, ScanOk

LEMMA WorkerEffects ==
    ASSUME ScanInv, NEW w \in Workers, Step(w) \/ WorkerFails(w)
    PROVE  /\ phase = "walk" /\ UNCHANGED <<phase, open, tree, token, steady>> /\ SameScan
           /\ \A v \in Workers \ {w} : worker'[v] = worker[v]
           /\ Takes(w) \/ GoesOn(w) \/ IsDone(w) \/ IsHome(w)
<1> USE DEF ScanInv, SameScan, At, ghosts, Busy
<1>t. Types /\ ScanOk(scan) /\ worker[w] \in WorkerRec
  BY DEF Types
<1>1. CASE Pop(w)
  <2> DEFINE r == [worker[w] EXCEPT !.at = "visit", !.dir = Head(scan.queue)]
  <2>1. worker' = [worker EXCEPT ![w] = r] BY <1>1 DEF Pop
  <2>2. r.at = "visit" /\ r.dir = Head(scan.queue) BY <1>t DEF WorkerRec
  <2>3. worker'[w] = r /\ \A v \in Workers \ {w} : worker'[v] = worker[v]
    BY <1>t, <2>1 DEF Types
  <2>4. /\ scan'.queue = Tail(scan.queue) /\ scan'.active = scan.active + 1
        /\ scan'.failed = scan.failed /\ SameScan
    BY <1>1, <1>t DEF Pop, ScanOk
  <2> QED BY <1>1, <2>2, <2>3, <2>4 DEF Pop, Takes
<1>2. CASE GoHome(w)
  BY <1>2, <1>t DEF GoHome, Goes, IsHome, Types, WorkerRec
<1>3. CASE StopCancelled(w) BY <1>3, <1>t, LeavesEffect DEF StopCancelled, IsDone
<1>4. CASE SkipItem(w) BY <1>4, <1>t, LeavesEffect DEF SkipItem, IsDone
<1>5. CASE Prune(w) BY <1>5, <1>t, LeavesEffect DEF Prune, IsDone
<1>6. CASE StatDir(w)
  <2> DEFINE r == [worker[w] EXCEPT !.at = "classify", !.same = TRUE,
                       !.stat = IF StatOk(tree, Here(w)) THEN "ok" ELSE "failed"]
  <2>1. worker' = [worker EXCEPT ![w] = r] BY <1>6 DEF StatDir
  <2>2. r.at = "classify" /\ r.dir = worker[w].dir BY <1>t DEF WorkerRec
  <2>3. worker'[w] = r /\ \A v \in Workers \ {w} : worker'[v] = worker[v]
    BY <1>t, <2>1 DEF Types
  <2> QED BY <1>6, <2>2, <2>3 DEF StatDir, GoesOn
<1>7. CASE Classify(w)
  <2> DEFINE r == [worker[w] EXCEPT !.at = "list", !.hadRepo = IsRepo(tree, Here(w))]
  <2>1. worker' = [worker EXCEPT ![w] = r] BY <1>7 DEF Classify
  <2>2. r.at = "list" /\ r.dir = worker[w].dir BY <1>t DEF WorkerRec
  <2>3. worker'[w] = r /\ \A v \in Workers \ {w} : worker'[v] = worker[v]
    BY <1>t, <2>1 DEF Types
  <2>4. /\ scan'.queue = scan.queue /\ scan'.active = scan.active
        /\ scan'.failed = scan.failed /\ SameScan
    BY <1>7, <1>t DEF Classify, ScanOk
  <2> QED BY <1>7, <2>2, <2>3, <2>4 DEF Classify, GoesOn
<1>8. CASE List(w)
  <2> DEFINE children == IF Visible(tree, Here(w)) /\ ~worker[w].hadRepo
                         THEN Children(tree, Here(w)) \ Passed ELSE {}
  <2>1. IsFiniteSet(children) /\ children \subseteq Dirs
    BY FS_Subset, FS_EmptySet, ScannerAssumption DEF Children
  <2>o. PICK order \in SetToSeqs(children) : \E sigs :
           Leaves(w, "pop", [scan EXCEPT !.queue = @ \o order, !.signatures = sigs])
    BY <1>8 DEF List
  <2>2. PICK sigs : Leaves(w, "pop", [scan EXCEPT !.queue = @ \o order, !.signatures = sigs])
    BY <2>o
  <2> DEFINE s == [scan EXCEPT !.queue = @ \o order, !.signatures = sigs]
  <2>3. order \in Seq(Dirs) BY <2>1, EveryElementQueued
  <2>4. scan.queue \o order \in Seq(Dirs) BY <1>t, <2>3 DEF ScanOk
  <2>5. /\ ScanOk(s) /\ s.active = scan.active /\ s.failed = scan.failed
        /\ s.folder = scan.folder /\ s.depth = scan.depth
    BY <1>t, <2>4 DEF ScanOk
  <2> HIDE DEF s
  <2>6. Leaves(w, "pop", s) BY <2>2 DEF s
  <2> QED BY <1>8, <1>t, <2>5, <2>6, LeavesEffect DEF List, IsDone
<1>9. CASE WorkerFails(w)
  <2> DEFINE s == [scan EXCEPT !.failed = TRUE]
  <2>1. ScanOk(s) /\ s.active = scan.active /\ s.failed /\ s.folder = scan.folder /\ s.depth = scan.depth
    BY <1>t DEF ScanOk
  <2> HIDE DEF s
  <2>2. Leaves(w, "home", s) BY <1>9 DEF WorkerFails, s
  <2> QED BY <1>9, <1>t, <2>1, <2>2, LeavesEffect DEF WorkerFails, IsDone
<1> QED BY <1>1, <1>2, <1>3, <1>4, <1>5, <1>6, <1>7, <1>8, <1>9 DEF Step

\* activeWorkers and the items in hand change together.
LEMMA HandChanges ==
    ASSUME Types, NEW w \in Workers, \A v \in Workers \ {w} : worker'[v] = worker[v]
    PROVE  /\ IsFiniteSet(InHand) /\ Cardinality(InHand) \in Nat
           /\ Cardinality(InHand) = 0 => InHand = {}
           /\ (worker[w].at \in Busy <=> worker'[w].at \in Busy) => InHand' = InHand
           /\ worker[w].at \notin Busy /\ worker'[w].at \in Busy =>
                 InHand' = InHand \cup {w} /\ Cardinality(InHand') = Cardinality(InHand) + 1
           /\ worker[w].at \in Busy /\ worker'[w].at \notin Busy =>
                 InHand' = InHand \ {w} /\ Cardinality(InHand') = Cardinality(InHand) - 1
<1>1. IsFiniteSet(InHand)
  BY FS_Subset, ScannerAssumption DEF InHand
<1>2. Cardinality(InHand) \in Nat /\ (Cardinality(InHand) = 0 => InHand = {})
  BY <1>1, FS_CardinalityType, FS_EmptySet
<1>3. (worker[w].at \in Busy <=> worker'[w].at \in Busy) => InHand' = InHand
  BY DEF InHand
<1>4. ASSUME worker[w].at \notin Busy /\ worker'[w].at \in Busy
      PROVE  InHand' = InHand \cup {w} /\ Cardinality(InHand') = Cardinality(InHand) + 1
  <2>1. InHand' = InHand \cup {w} /\ w \notin InHand BY <1>4 DEF InHand
  <2> QED BY <1>1, <2>1, FS_AddElement
<1>5. ASSUME worker[w].at \in Busy /\ worker'[w].at \notin Busy
      PROVE  InHand' = InHand \ {w} /\ Cardinality(InHand') = Cardinality(InHand) - 1
  <2>1. InHand' = InHand \ {w} /\ w \in InHand BY <1>5 DEF InHand
  <2> QED BY <1>1, <2>1, FS_RemoveElement
<1> QED BY <1>1, <1>2, <1>3, <1>4, <1>5

\* A worker's step keeps the count of active workers and what going home means.
LEMMA WorkerKeepsCount ==
    ASSUME ScanInv, NEW w \in Workers, Step(w) \/ WorkerFails(w)
    PROVE  ActiveInv' /\ HomeInv'
<1>1. /\ phase = "walk" /\ UNCHANGED <<phase, open, tree, token, steady>>
      /\ \A v \in Workers \ {w} : worker'[v] = worker[v]
      /\ Takes(w) \/ GoesOn(w) \/ IsDone(w) \/ IsHome(w)
  BY WorkerEffects
<1>2. /\ Types /\ open /\ scan.active = Cardinality(InHand) /\ HomeInv
      /\ \A v \in Workers : worker[v].at \in Busy => worker[v].dir \in Dirs
  BY <1>1 DEF ScanInv, WalkInv, ActiveInv, InHand
<1>3. Head(scan.queue) \in Dirs \/ scan.queue = <<>>
  BY <1>2 DEF Types, ScanOk
<1>4. ActiveInv'
  <2>1. open' /\ phase' = "walk" /\ Scanning' BY <1>1, <1>2 DEF Scanning
  <2>2. scan'.active = Cardinality(InHand')
    BY <1>1, <1>2, HandChanges DEF Takes, GoesOn, IsDone, IsHome, Busy
  <2>3. ASSUME NEW v \in Workers, worker'[v].at \in Busy PROVE worker'[v].dir \in Dirs
    BY <1>1, <1>2, <1>3, <2>3 DEF Takes, GoesOn, IsDone, IsHome, Busy
  <2>4. \A v \in InHand' : worker'[v].dir \in Dirs BY <2>3 DEF InHand
  <2> QED BY <2>1, <2>2, <2>4 DEF ActiveInv
<1>5. HomeInv'
  <2> SUFFICES ASSUME ~token, ~scan'.failed, NEW v \in Workers, worker'[v].at = "home"
               PROVE  scan'.queue = <<>> /\ InHand' = {}
    BY <1>1 DEF HomeInv
  <2>1. CASE IsHome(w)
    BY <1>1, <1>2, <2>1, HandChanges DEF IsHome, Busy
  <2>2. CASE Takes(w) \/ GoesOn(w) \/ IsDone(w)
    <3>1. ~scan.failed /\ v # w BY <2>2 DEF Takes, GoesOn, IsDone
    <3>2. worker[v].at = "home" BY <1>1, <3>1
    <3>3. scan.queue = <<>> /\ InHand = {} BY <1>1, <1>2, <3>1, <3>2 DEF HomeInv
    <3> QED BY <2>2, <3>3 DEF Takes, GoesOn, IsDone, InHand, Busy
  <2> QED BY <1>1, <2>1, <2>2
<1> QED BY <1>4, <1>5

\* Only a classification records a repository, and only a prune touches rows otherwise.
Recordable(w) ==
    IF IsRepo(tree, Here(w)) THEN scan.pending \cup {Here(w)} ELSE scan.pending

LEMMA RecordEffects ==
    ASSUME ScanInv, NEW w \in Workers, Step(w) \/ WorkerFails(w)
    PROVE  /\ Classify(w) => \/ db' = db /\ scan'.pending = Recordable(w)
                             \/ db' = upsertRepo(db, Folder, Recordable(w)) /\ scan'.pending = {}
           /\ ~Classify(w) => scan'.pending = scan.pending /\ (Prune(w) \/ db' = db)
<1>1. Types /\ ScanOk(scan)
  BY DEF ScanInv, Types
<1>2. CASE Classify(w)
  BY <1>1, <1>2 DEF Classify, flushPending, ScanOk, Folder, Recordable
<1>3. CASE ~Classify(w)
  <2>1. Prune(w) \/ db' = db
    BY <1>3 DEF Step, Pop, GoHome, StopCancelled, SkipItem, StatDir, List, WorkerFails
  <2>2. scan'.pending = scan.pending
    <3>1. ASSUME NEW s, ScanOk(s), s.pending = scan.pending, NEW to, Leaves(w, to, s)
          PROVE  scan'.pending = scan.pending
      BY <1>1, <3>1, LeavesEffect
    <3>2. CASE Pop(w) \/ GoHome(w) \/ StatDir(w)
      BY <1>1, <3>2 DEF Pop, GoHome, StatDir, ScanOk
    <3>3. CASE StopCancelled(w) \/ SkipItem(w) \/ Prune(w)
      BY <1>1, <3>1, <3>3 DEF StopCancelled, SkipItem, Prune
    <3>4. CASE List(w) BY <1>1, <3>4 DEF List, Leaves, ScanOk
    <3>5. CASE WorkerFails(w) BY <1>1, <3>5 DEF WorkerFails, Leaves, ScanOk
    <3> QED BY <1>3, <3>2, <3>3, <3>4, <3>5 DEF Step
  <2> QED BY <1>3, <2>1, <2>2
<1> QED BY <1>2, <1>3

\* What is accounted for stays so.
LEMMA AccountedStays ==
    ASSUME ScanInv, NEW w \in Workers, Step(w) \/ WorkerFails(w), NEW d \in Dirs, Accounted(d)
    PROVE  Accounted(d)'
<1>1. phase = "walk" /\ Folder \in Folders /\ Folder' = Folder /\ DbOk(db)
  <2>1. phase = "walk" /\ SameScan BY WorkerEffects
  <2> QED BY <2>1 DEF SameScan, Folder, ScanInv, WalkInv, SteadyInv, Scanning, Types
<1>2. CASE Prune(w)
  <2>1. scan'.pending = scan.pending BY <1>2, RecordEffects DEF Prune, Classify, At
  <2> QED BY <1>1, <1>2, <2>1, TouchRows DEF Prune, Accounted, Seen
<1>3. CASE Classify(w)
  <2>1. scan.pending \subseteq Recordable(w) BY DEF Recordable
  <2>2. CASE db' = db /\ scan'.pending = Recordable(w) BY <1>1, <2>1, <2>2 DEF Accounted, Seen
  <2>3. CASE db' = upsertRepo(db, Folder, Recordable(w))
    <3>1. CASE d \in Recordable(w) BY <1>1, <2>3, <3>1, UpsertRows DEF Accounted, Seen
    <3>2. CASE d \notin Recordable(w) BY <1>1, <2>1, <2>3, <3>2, UpsertRows DEF Accounted, Seen
    <3> QED BY <3>1, <3>2
  <2> QED BY <1>3, <2>2, <2>3, RecordEffects
<1>4. CASE ~Prune(w) /\ ~Classify(w)
  BY <1>1, <1>4, RecordEffects DEF Accounted, Seen
<1> QED BY <1>2, <1>3, <1>4

\* Classifying a steady repository records it; what lies above it is no repository.
LEMMA WorkerKeepsClassified ==
    ASSUME ScanInv, NEW w \in Workers, Step(w) \/ WorkerFails(w)
    PROVE  ClassifiedInv'
<1>1. /\ phase = "walk" /\ UNCHANGED <<phase, tree, steady>> /\ SameScan
      /\ \A v \in Workers \ {w} : worker'[v] = worker[v]
      /\ Takes(w) \/ GoesOn(w) \/ IsDone(w) \/ IsHome(w)
  BY WorkerEffects
<1>2. /\ Folder \in Folders /\ Folder' = Folder /\ steady \subseteq Reachable(tree, Folder, scan.depth)
      /\ ScanOk(scan) /\ scan.depth \in Nat /\ DbOk(db) /\ ClassifiedInv
  BY <1>1 DEF ScanInv, WalkInv, SteadyInv, Scanning, Types, ScanOk, SameScan, Folder
<1>3. steady \subseteq Dirs
  BY <1>2 DEF Reachable
<1> SUFFICES ASSUME NEW v \in Workers, NEW d \in steady, worker'[v].at = "list"
             PROVE  /\ worker'[v].dir = d => Accounted(d)'
                    /\ worker'[v].dir \in Between(Folder, d) \ {d} => ~worker'[v].hadRepo
  BY <1>1, <1>2 DEF ClassifiedInv
<1>4. CASE v # w
  <2>1. worker'[v] = worker[v] BY <1>1, <1>4
  <2>2. Accounted(d) => Accounted(d)' BY <1>3, AccountedStays
  <2> QED BY <1>1, <1>2, <2>1, <2>2 DEF ClassifiedInv
<1>5. CASE v = w
  <2>1. GoesOn(w) BY <1>1, <1>5 DEF Takes, IsDone, IsHome
  <2>2. Classify(w)
    <3>1. ~StatDir(w)
      <4>1. StatDir(w) => worker'[w].at = "classify"
        BY <1>2 DEF StatDir, ScanInv, Types, WorkerRec
      <4> QED BY <1>5, <4>1
    <3>2. /\ Pop(w) => Takes(w) /\ worker[w].at = "pop"
          /\ GoHome(w) => worker[w].at = "pop"
      BY <2>1 DEF Pop, GoHome, At, GoesOn
    <3>3. StopCancelled(w) \/ SkipItem(w) \/ Prune(w) \/ List(w) \/ WorkerFails(w) =>
             \E to \in {"pop", "home"} : \E s : Leaves(w, to, s)
      BY DEF StopCancelled, SkipItem, Prune, List, WorkerFails
    <3>4. \A to, s : Leaves(w, to, s) => worker'[w].at = to
      BY DEF Leaves, ScanInv, Types, Idle
    <3> QED BY <1>5, <2>1, <3>1, <3>2, <3>3, <3>4 DEF Step, GoesOn
  <2>3. worker'[w].dir = Here(w) /\ worker'[w].hadRepo = IsRepo(tree, Here(w))
    <3> DEFINE r == [worker[w] EXCEPT !.at = "list", !.hadRepo = IsRepo(tree, Here(w))]
    <3>1. worker' = [worker EXCEPT ![w] = r] BY <2>2 DEF Classify
    <3>2. worker[w] \in WorkerRec BY DEF ScanInv, Types
    <3>3. r.dir = Here(w) /\ r.hadRepo = IsRepo(tree, Here(w)) BY <3>2 DEF WorkerRec, Here
    <3>4. worker'[w] = r BY <3>1 DEF ScanInv, Types
    <3> QED BY <3>3, <3>4
  <2>4. ASSUME Here(w) = d PROVE Accounted(d)'
    <3>1. IsRepo(tree, d) /\ d \in Dirs BY <1>2 DEF Reachable
    <3> DEFINE more == scan.pending \cup {d}
    <3>2. \/ db' = db /\ scan'.pending = more
          \/ db' = upsertRepo(db, Folder, more)
      BY <1>2, <2>2, <2>4, <3>1 DEF Classify, flushPending, ScanOk, Folder
    <3>3. d \in more OBVIOUS
    <3> HIDE DEF more
    <3> QED BY <1>2, <3>1, <3>2, <3>3, UpsertRows DEF Accounted, Seen
  <2>5. ASSUME Here(w) \in Between(Folder, d) \ {d} PROVE ~IsRepo(tree, Here(w))
    BY <1>2, <2>5, WayGoesOn
  <2> QED BY <1>5, <2>3, <2>4, <2>5
<1> QED BY <1>4, <1>5

\* The listing adds the children to the end of the queue.
LEMMA ListQueues ==
    ASSUME ScanInv, NEW w \in Workers, List(w)
    PROVE  /\ \A i \in 1 .. Len(scan.queue) :
                 i \in 1 .. Len(scan'.queue) /\ scan'.queue[i] = scan.queue[i]
           /\ Visible(tree, Here(w)) /\ ~worker[w].hadRepo =>
                 \A c \in Children(tree, Here(w)) \ Passed :
                    \E i \in 1 .. Len(scan'.queue) : scan'.queue[i] = c
<1>t. Types /\ ScanOk(scan) /\ scan.queue \in Seq(Dirs)
  BY DEF ScanInv, Types, ScanOk
<1> DEFINE children == IF Visible(tree, Here(w)) /\ ~worker[w].hadRepo
                       THEN Children(tree, Here(w)) \ Passed ELSE {}
<1>1. IsFiniteSet(children) /\ children \subseteq Dirs
  BY FS_Subset, FS_EmptySet, ScannerAssumption DEF Children
<1>o. PICK order \in SetToSeqs(children) : \E sigs :
         Leaves(w, "pop", [scan EXCEPT !.queue = @ \o order, !.signatures = sigs])
  BY DEF List
<1>2. PICK sigs : Leaves(w, "pop", [scan EXCEPT !.queue = @ \o order, !.signatures = sigs])
  BY <1>o
<1>3. order \in Seq(Dirs) /\ \A c \in children : \E i \in 1 .. Len(order) : order[i] = c
  <2>1. order \in Seq(children) BY <1>1, EveryElementQueued
  <2>2. order \in Seq(Dirs) BY <1>1, <2>1
  <2> QED BY <1>1, <2>2, EveryElementQueued
<1>4. scan'.queue = scan.queue \o order
  BY <1>t, <1>2 DEF Leaves, ScanOk
<1> HIDE DEF children
<1>5. ASSUME NEW i \in 1 .. Len(scan.queue)
      PROVE  i \in 1 .. Len(scan'.queue) /\ scan'.queue[i] = scan.queue[i]
  BY <1>t, <1>3, <1>4
<1>6. ASSUME NEW c \in children PROVE \E i \in 1 .. Len(scan'.queue) : scan'.queue[i] = c
  <2>1. PICK j \in 1 .. Len(order) : order[j] = c BY <1>3
  <2>2. Len(scan.queue) + j \in 1 .. Len(scan'.queue) /\ scan'.queue[Len(scan.queue) + j] = c
    <3>1. /\ scan.queue \in Seq(Dirs) /\ Len(scan.queue) \in Nat /\ Len(order) \in Nat
          /\ Len(scan'.queue) = Len(scan.queue) + Len(order)
      BY <1>t, <1>3, <1>4 DEF ScanOk
    <3>2. scan'.queue[Len(scan.queue) + j] = order[j] BY <1>3, <1>4, <3>1
    <3> QED BY <2>1, <3>1, <3>2
  <2> QED BY <2>2
<1> QED BY <1>5, <1>6 DEF children

\* Only a listing changes the queue when an item is done with, and only the ends of an
\* iteration let go of one.
LEMMA OnlyListQueues ==
    ASSUME ScanInv, NEW w \in Workers, Step(w) \/ WorkerFails(w), IsDone(w), ~List(w)
    PROVE  scan'.queue = scan.queue
<1>t. Types /\ ScanOk(scan)
  BY DEF ScanInv, Types
<1>1. CASE StopCancelled(w) \/ SkipItem(w) \/ Prune(w)
  BY <1>t, <1>1, LeavesEffect DEF StopCancelled, SkipItem, Prune
<1>2. CASE WorkerFails(w)
  BY <1>t, <1>2 DEF WorkerFails, Leaves, ScanOk
<1>3. CASE StatDir(w)
  BY <1>3 DEF StatDir
<1>4. CASE Classify(w)
  BY <1>t, <1>4 DEF Classify, ScanOk
<1>5. CASE Pop(w) \/ GoHome(w)
  BY <1>5 DEF Pop, GoHome, At, IsDone, Busy
<1> QED BY <1>1, <1>2, <1>3, <1>4, <1>5 DEF Step

LEMMA StaysBusy ==
    ASSUME Types, NEW w \in Workers, IsDone(w)
    PROVE  ~Pop(w) /\ ~GoHome(w) /\ ~StatDir(w) /\ ~Classify(w)
<1>t. worker[w] \in WorkerRec /\ worker \in [Workers -> WorkerRec]
  BY DEF Types
<1>1. ~Pop(w) /\ ~GoHome(w)
  BY DEF Pop, GoHome, At, IsDone, Busy
<1>2. StatDir(w) => worker'[w].at = "classify"
  BY <1>t DEF StatDir, WorkerRec
<1>3. Classify(w) => worker'[w].at = "list"
  BY <1>t DEF Classify, WorkerRec
<1> QED BY <1>1, <1>2, <1>3 DEF IsDone

\* An item that is taken goes from the queue to a hand, and what is in hand stays there
\* until its iteration ends.
LEMMA AheadIsKept ==
    ASSUME ScanInv, NEW w \in Workers, Step(w) \/ WorkerFails(w), ~token, ~scan'.failed,
           NEW e, Ahead(e)
    PROVE  Ahead(e)' \/ (Here(w) = e /\ (SkipItem(w) \/ Prune(w) \/ List(w)))
<1>1. /\ \A v \in Workers \ {w} : worker'[v] = worker[v]
      /\ Takes(w) \/ GoesOn(w) \/ IsDone(w) \/ IsHome(w)
  BY WorkerEffects
<1>2. Types /\ ScanOk(scan) /\ scan.queue \in Seq(Dirs)
  BY DEF ScanInv, Types, ScanOk
<1>3. ASSUME NEW i \in 1 .. Len(scan.queue), scan.queue[i] = e
      PROVE  Ahead(e)'
  <2>1. CASE Takes(w)
    <3>1. CASE i = 1
      <4>1. Head(scan.queue) = e BY <1>2, <1>3, <3>1
      <4>2. w \in InHand' /\ worker'[w].dir = e BY <2>1, <4>1 DEF Takes, InHand, Busy
      <4> QED BY <4>2 DEF Ahead
    <3>2. CASE i # 1
      <4>1. i - 1 \in 1 .. Len(Tail(scan.queue)) /\ Tail(scan.queue)[i - 1] = e
        BY <1>2, <1>3, <3>2
      <4>2. i - 1 \in 1 .. Len(scan'.queue) /\ scan'.queue[i - 1] = e BY <2>1, <4>1 DEF Takes
      <4> QED BY <4>2 DEF Ahead
    <3> QED BY <3>1, <3>2
  <2>2. CASE GoesOn(w) \/ IsHome(w)
    <3>1. scan'.queue = scan.queue BY <2>2 DEF GoesOn, IsHome
    <3> QED BY <1>3, <3>1 DEF Ahead
  <2>3. CASE IsDone(w)
    <3>1. i \in 1 .. Len(scan'.queue) /\ scan'.queue[i] = e
      <4>1. CASE List(w) BY <1>3, <4>1, ListQueues
      <4>2. CASE ~List(w)
        <5>1. scan'.queue = scan.queue BY <2>3, <4>2, OnlyListQueues
        <5> QED BY <1>3, <5>1
      <4> QED BY <4>1, <4>2
    <3> QED BY <3>1 DEF Ahead
  <2> QED BY <1>1, <2>1, <2>2, <2>3
<1>4. ASSUME NEW v \in InHand, worker[v].dir = e
      PROVE  Ahead(e)' \/ (Here(w) = e /\ (SkipItem(w) \/ Prune(w) \/ List(w)))
  <2>1. CASE v # w
    <3>1. v \in InHand' /\ worker'[v].dir = e BY <1>1, <1>4, <2>1 DEF InHand
    <3> QED BY <3>1 DEF Ahead
  <2>2. CASE v = w /\ ~IsDone(w)
    <3>1. GoesOn(w) BY <1>1, <2>2 DEF Takes, IsHome, InHand, Busy
    <3>2. w \in InHand' /\ worker'[w].dir = e BY <1>4, <2>2, <3>1 DEF GoesOn, InHand, Busy
    <3> QED BY <3>2 DEF Ahead
  <2>3. CASE v = w /\ IsDone(w)
    <3>1. Here(w) = e BY <1>4, <2>3 DEF Here
    <3>2. ~StopCancelled(w) /\ ~WorkerFails(w)
      <4>1. WorkerFails(w) => scan'.failed BY <1>2 DEF WorkerFails, Leaves, ScanOk
      <4> QED BY <4>1 DEF StopCancelled
    <3>3. ~Pop(w) /\ ~GoHome(w) /\ ~StatDir(w) /\ ~Classify(w)
      BY <1>2, <2>3, StaysBusy
    <3> QED BY <3>1, <3>2, <3>3 DEF Step
  <2> QED BY <2>1, <2>2, <2>3
<1> QED BY <1>3, <1>4 DEF Ahead

\* The way to a steady repository never gets lost: an item that is done with leaves its
\* children in the queue, unless it is pruned or is the repository.
LEMMA WayIsKept ==
    ASSUME ScanInv, NEW w \in Workers, Step(w) \/ WorkerFails(w), ~token, ~scan'.failed,
           NEW d \in steady, OnTheWay(d)
    PROVE  \/ OnTheWay(d)'
           \/ Prune(w) /\ d \in Below(Here(w))
           \/ List(w) /\ Here(w) = d
<1>1. phase = "walk" /\ SameScan
  BY WorkerEffects
<1>2. /\ Folder \in Folders /\ Folder' = Folder /\ steady \subseteq Reachable(tree, Folder, scan.depth)
      /\ scan.depth \in Nat /\ ClassifiedInv
  BY <1>1 DEF ScanInv, WalkInv, SteadyInv, Scanning, Types, ScanOk, SameScan, Folder
<1>3. d \in Dirs /\ d \in Reachable(tree, Folder, scan.depth)
  BY <1>2 DEF Reachable
<1>4. PICK e \in Between(Folder, d) : Ahead(e)
  BY DEF OnTheWay
<1>5. CASE Ahead(e)'
  BY <1>2, <1>5 DEF OnTheWay
<1>6. CASE Here(w) = e /\ SkipItem(w)
  <2>1. Admitted(w) BY <1>2, <1>3, <1>6, WayGoesOn DEF Admitted
  <2> QED BY <1>6, <2>1 DEF SkipItem
<1>7. CASE Here(w) = e /\ Prune(w)
  BY <1>2, <1>3, <1>7, WayGoesOn
<1>8. CASE Here(w) = e /\ List(w) /\ e # d
  <2>1. ~worker[w].hadRepo
    BY <1>1, <1>2, <1>8 DEF ClassifiedInv, List, At, Here
  <2>2. PICK c \in Between(Folder, d) : c \in Children(tree, e) \ Passed
    BY <1>2, <1>3, <1>8, WayGoesOn
  <2>3. Visible(tree, e) BY <1>2, <1>3, WayGoesOn
  <2>4. \E i \in 1 .. Len(scan'.queue) : scan'.queue[i] = c
    BY <1>8, <2>1, <2>2, <2>3, ListQueues
  <2> QED BY <1>2, <2>4 DEF OnTheWay, Ahead
<1> QED BY <1>4, <1>5, <1>6, <1>7, <1>8, AheadIsKept

LEMMA WorkerKeepsCovered ==
    ASSUME ScanInv, NEW w \in Workers, Step(w) \/ WorkerFails(w)
    PROVE  Covered'
<1>1. /\ phase = "walk" /\ UNCHANGED <<phase, tree, token, steady>> /\ SameScan
      /\ Takes(w) \/ GoesOn(w) \/ IsDone(w) \/ IsHome(w)
  BY WorkerEffects
<1>2. /\ Folder \in Folders /\ Folder' = Folder /\ steady \subseteq Reachable(tree, Folder, scan.depth)
      /\ DbOk(db) /\ ClassifiedInv /\ Covered
  BY <1>1 DEF ScanInv, WalkInv, SteadyInv, Scanning, Types, SameScan, Folder
<1> SUFFICES ASSUME ~token, ~scan'.failed, NEW d \in steady
             PROVE  Accounted(d)' \/ OnTheWay(d)'
  BY <1>1 DEF Covered
<1>3. d \in Dirs /\ ~scan.failed
  <2>1. ~scan.failed BY <1>1 DEF Takes, GoesOn, IsDone, IsHome
  <2> QED BY <1>2, <2>1 DEF Reachable
<1>4. Accounted(d) => Accounted(d)'
  BY <1>3, AccountedStays
<1>5. ASSUME Prune(w), d \in Below(Here(w)) PROVE Accounted(d)'
  <2>1. d \in Matching(Here(w)) BY <1>5 DEF Matching
  <2> QED BY <1>2, <1>3, <1>5, <2>1, TouchRows DEF Prune, Accounted, Seen
<1>6. ASSUME List(w), Here(w) = d PROVE Accounted(d)
  BY <1>1, <1>2, <1>6 DEF ClassifiedInv, List, At, Here
<1>7. Accounted(d) \/ OnTheWay(d)
  BY <1>1, <1>3, <1>2 DEF Covered
<1> QED BY <1>4, <1>5, <1>6, <1>7, WayIsKept

-----------------------------------------------------------------------------
(* The other steps *)

LEMMA BeginKeeps ==
    ASSUME ScanInv, NEW f \in Folders, NEW m \in Modes, BeginScan(f, m)
    PROVE  WalkInv'
<1>1. /\ phase = "next" /\ phase' = "walk" /\ UNCHANGED <<open, tree, worker>>
      /\ scan' = [NoScan EXCEPT !.folder = f, !.mode = m, !.depth = db.folders[f].depth,
                              !.queue = <<FolderRoot[f]>>]
      /\ steady' = Reachable(tree, f, db.folders[f].depth)
  BY DEF BeginScan, NextFolder
<1>2. /\ scan'.folder = f /\ scan'.depth = db.folders[f].depth /\ scan'.queue = <<FolderRoot[f]>>
      /\ scan'.active = 0
  BY <1>1 DEF NoScan
<1>3. open /\ \A w \in Workers : worker[w].at = "pop"
  BY <1>1 DEF ScanInv, WalkInv, ActiveInv, Scanning
<1>4. InHand' = {}
  BY <1>1, <1>3 DEF InHand, Busy
<1>5. ActiveInv'
  BY <1>1, <1>2, <1>3, <1>4, FS_EmptySet DEF ActiveInv, Scanning
<1>6. HomeInv' /\ ClassifiedInv'
  BY <1>1, <1>3 DEF HomeInv, ClassifiedInv
<1>7. SteadyInv' /\ SeenInv'
  BY <1>1, <1>2 DEF SteadyInv, SeenInv, Folder
<1>8. ASSUME NEW d \in steady' PROVE OnTheWay(d)'
  <2>1. FolderRoot[f] \in Between(f, d) BY <1>1, <1>8, WayBegins
  <2>2. 1 \in 1 .. Len(scan'.queue) /\ scan'.queue[1] = FolderRoot[f] BY <1>2
  <2> QED BY <1>2, <2>1, <2>2 DEF OnTheWay, Ahead, Folder
<1>9. Covered'
  BY <1>8 DEF Covered
<1> QED BY <1>5, <1>6, <1>7, <1>9 DEF WalkInv

\* The workers are joined: they have all gone home, so nothing is on the way any more,
\* and what was pending is written.
LEMMA JoinKeeps ==
    ASSUME ScanInv, Join
    PROVE  WalkInv'
<1>1. /\ phase = "walk" /\ ~scan.failed /\ phase' = "joined"
      /\ UNCHANGED <<open, tree, scan, worker, token, steady>>
      /\ db' = upsertRepo(db, Folder, scan.pending)
      /\ \A w \in Workers : worker[w].at = "home"
  BY DEF Join, flushPending, Folder, ghosts
<1>2. /\ DbOk(db) /\ Folder \in Folders /\ Folder' = Folder /\ open
      /\ steady \subseteq Reachable(tree, Folder, scan.depth)
  BY <1>1 DEF ScanInv, Types, WalkInv, SteadyInv, ActiveInv, Scanning, Folder
<1>3. ASSUME ~token, NEW d \in steady PROVE Seen(d)'
  <2>1. scan.queue = <<>> /\ InHand = {}
    BY <1>1, <1>3, ScannerAssumption DEF ScanInv, WalkInv, HomeInv
  <2>2. ~OnTheWay(d) BY <2>1 DEF OnTheWay, Ahead
  <2>3. Accounted(d) BY <1>1, <1>3, <2>2 DEF ScanInv, WalkInv, Covered
  <2>4. d \in Dirs BY <1>2 DEF Reachable
  <2>5. CASE d \in scan.pending BY <1>1, <1>2, <2>4, <2>5, UpsertRows DEF Seen
  <2>6. CASE d \notin scan.pending BY <1>1, <1>2, <2>3, <2>4, <2>6, UpsertRows DEF Seen, Accounted
  <2> QED BY <2>5, <2>6
<1>4. SeenInv'
  BY <1>1, <1>3 DEF SeenInv
<1>5. ActiveInv'
  BY <1>1, <1>2 DEF ActiveInv, Scanning, InHand, Busy
<1>6. SteadyInv' /\ HomeInv' /\ ClassifiedInv' /\ Covered'
  BY <1>1, <1>2 DEF SteadyInv, HomeInv, ClassifiedInv, Covered
<1> QED BY <1>4, <1>5, <1>6 DEF WalkInv

\* Saving the signatures and sweeping follow the join.
LEMMA FinishKeeps ==
    ASSUME ScanInv, SaveSignatures \/ Sweep
    PROVE  WalkInv'
<1>1. /\ phase \in {"joined", "saved"} /\ phase' \in {"saved", "marked"}
      /\ UNCHANGED <<open, tree, scan, worker, token, steady>>
  BY DEF SaveSignatures, Sweep, ghosts
<1>2. /\ DbOk(db) /\ Folder \in Folders /\ Folder' = Folder /\ open
      /\ steady \subseteq Reachable(tree, Folder, scan.depth)
      /\ \A w \in InHand : worker[w].dir \in Dirs
  BY <1>1 DEF ScanInv, Types, WalkInv, SteadyInv, ActiveInv, Scanning, Folder
<1>3. SeenInv'
  <2>1. CASE Sweep BY <2>1 DEF Sweep, SeenInv
  <2>2. CASE SaveSignatures
    <3>1. db'.rows = db.rows BY <1>2, <2>2, SaveRows DEF SaveSignatures
    <3>2. phase = "joined" BY <2>2 DEF SaveSignatures
    <3> QED BY <1>1, <1>2, <3>1, <3>2 DEF ScanInv, WalkInv, SeenInv, Seen
  <2> QED BY <2>1, <2>2
<1>4. ActiveInv'
  BY <1>1, <1>2 DEF ActiveInv, Scanning, InHand
<1>5. SteadyInv' /\ HomeInv' /\ ClassifiedInv' /\ Covered'
  BY <1>1, <1>2 DEF SteadyInv, HomeInv, ClassifiedInv, Covered
<1> QED BY <1>3, <1>4, <1>5 DEF WalkInv

\* A change on disk takes the repositories it cuts off out of `steady`, and leaves the
\* queue, the items in hand and the rows alone.
LEMMA DiskLeaves ==
    ASSUME Types, NEW t, NEW D, Disk(t, D)
    PROVE  /\ db'.rows = db.rows
           /\ scan'.folder = scan.folder /\ scan'.depth = scan.depth /\ scan'.queue = scan.queue
           /\ scan'.pending = scan.pending /\ scan'.active = scan.active /\ scan'.failed = scan.failed
           /\ \A w \in Workers :
                 /\ worker'[w].at = worker[w].at /\ worker'[w].dir = worker[w].dir
                 /\ worker'[w].hadRepo = worker[w].hadRepo
           /\ InHand' = InHand /\ Folder' = Folder
           /\ \A e : Ahead(e)' <=> Ahead(e)
<1>2. db'.rows = db.rows
  BY DEF Disk, Types, DbOk
<1>3. /\ scan'.folder = scan.folder /\ scan'.depth = scan.depth /\ scan'.queue = scan.queue
      /\ scan'.pending = scan.pending /\ scan'.active = scan.active /\ scan'.failed = scan.failed
  BY DEF Disk, Types, ScanOk
<1>4. ASSUME NEW w \in Workers
      PROVE  /\ worker'[w].at = worker[w].at /\ worker'[w].dir = worker[w].dir
             /\ worker'[w].hadRepo = worker[w].hadRepo
  <2>1. worker[w] \in WorkerRec BY DEF Types
  <2>2. worker'[w] = IF Here(w) \in D THEN [worker[w] EXCEPT !.same = FALSE] ELSE worker[w]
    BY DEF Disk
  <2> QED BY <2>1, <2>2 DEF WorkerRec
<1>5. InHand' = InHand /\ Folder' = Folder
  BY <1>3, <1>4 DEF InHand, Folder
<1>6. \A e : Ahead(e)' <=> Ahead(e)
  BY <1>3, <1>4, <1>5 DEF Ahead, InHand
<1> QED BY <1>2, <1>3, <1>4, <1>5, <1>6

LEMMA DiskKeeps ==
    ASSUME ScanInv, NEW t \in [Dirs -> DirState], NEW D \in SUBSET Dirs, Disk(t, D)
    PROVE  WalkInv'
<1>1. /\ tree' = t /\ UNCHANGED <<open, phase, token>>
      /\ steady' = IF Scanning THEN steady \cap Reachable(t, Folder, scan.depth) ELSE {}
  BY DEF Disk
<1>2. db'.rows = db.rows
  BY DiskLeaves DEF ScanInv
<1>3. /\ scan'.folder = scan.folder /\ scan'.depth = scan.depth /\ scan'.queue = scan.queue
      /\ scan'.pending = scan.pending /\ scan'.active = scan.active /\ scan'.failed = scan.failed
  BY DiskLeaves DEF ScanInv
<1>4. \A w \in Workers :
         /\ worker'[w].at = worker[w].at /\ worker'[w].dir = worker[w].dir
         /\ worker'[w].hadRepo = worker[w].hadRepo
  BY DiskLeaves DEF ScanInv
<1>5. InHand' = InHand /\ Folder' = Folder /\ \A e : Ahead(e)' <=> Ahead(e)
  BY DiskLeaves DEF ScanInv
<1>6. ActiveInv'
  BY <1>1, <1>3, <1>4, <1>5 DEF ScanInv, WalkInv, ActiveInv, Scanning, InHand
<1>7. HomeInv'
  BY <1>1, <1>3, <1>4, <1>5 DEF ScanInv, WalkInv, HomeInv
<1>8. SteadyInv'
  BY <1>1, <1>3, <1>5 DEF ScanInv, WalkInv, SteadyInv, Scanning
<1>9. \A d : (Accounted(d) => Accounted(d)') /\ (OnTheWay(d) => OnTheWay(d)') /\ (Seen(d) => Seen(d)')
  <2> SUFFICES ASSUME NEW d
               PROVE (Accounted(d) => Accounted(d)') /\ (OnTheWay(d) => OnTheWay(d)') /\ (Seen(d) => Seen(d)')
    OBVIOUS
  <2>1. (Accounted(d) => Accounted(d)') /\ (Seen(d) => Seen(d)')
    BY <1>2, <1>3, <1>5 DEF Accounted, Seen
  <2>2. OnTheWay(d) => OnTheWay(d)'
    BY <1>5 DEF OnTheWay
  <2> QED BY <2>1, <2>2
<1>10. ClassifiedInv'
  BY <1>1, <1>4, <1>5, <1>9 DEF ScanInv, WalkInv, ClassifiedInv
<1>11. Covered' /\ SeenInv'
  BY <1>1, <1>3, <1>9 DEF ScanInv, WalkInv, Covered, SeenInv
<1> QED BY <1>6, <1>7, <1>8, <1>10, <1>11 DEF WalkInv

\* ScanInv is inductive.
LEMMA ScanInvariant == Spec => []ScanInv
<1>1. Init => ScanInv
  <2> SUFFICES ASSUME Init PROVE ScanInv
    OBVIOUS
  <2>1. Types
    <3>1. tree \in [Dirs -> DirState] BY DEF Init, DirState
    <3>2. DbOk(db)
      <4>1. DbOk(NewDb) BY DEF NewDb, createSchema, DbOk, Row, FolderRec, NoRow, NoFolder
      <4>2. PICK v \in 0 .. kSchemaVersion + 1, f \in StartFolders :
               db = [addBaseFolder(NewDb, f, StartDepth) EXCEPT !.version = v]
        BY DEF Init
      <4>3. f \in Folders /\ StartDepth \in Nat BY ScannerAssumption
      <4> QED BY <4>1, <4>2, <4>3 DEF addBaseFolder, DbOk, FolderRec
    <3>3. <<>> \in Seq(Dirs) OBVIOUS
    <3>4. ScanOk(scan) /\ worker \in [Workers -> WorkerRec]
      BY <3>3 DEF Init, NoScan, ScanOk, Idle, WorkerRec
    <3> QED BY <3>1, <3>2, <3>4 DEF Init, Types
  <2>2. WalkInv
    BY DEF Init, WalkInv, ActiveInv, HomeInv, SteadyInv, ClassifiedInv, Covered, SeenInv, Scanning,
           NoScan, Idle, InHand, Busy
  <2> QED BY <2>1, <2>2 DEF ScanInv
<1>2. ScanInv /\ [Next]_vars => ScanInv'
  <2> SUFFICES ASSUME ScanInv, [Next]_vars PROVE ScanInv'
    OBVIOUS
  <2>1. Types' BY TypesPreserved
  <2>2. WalkInv'
    <3>1. CASE Rests
      BY <3>1 DEF Rests, WalkInv, ActiveInv, HomeInv, SteadyInv, ClassifiedInv, Covered, SeenInv,
                  Scanning, InHand, Busy
    <3>2. CASE \E w \in Workers : Step(w) \/ WorkerFails(w)
      <4>1. PICK w \in Workers : Step(w) \/ WorkerFails(w) BY <3>2
      <4>2. SteadyInv' /\ SeenInv'
        <5>1. phase = "walk" /\ UNCHANGED <<phase, tree, steady>> /\ SameScan BY <4>1, WorkerEffects
        <5> QED BY <5>1 DEF SameScan, ScanInv, WalkInv, SteadyInv, SeenInv, Folder, Scanning
      <4> QED BY <4>1, <4>2, WorkerKeepsCount, WorkerKeepsClassified, WorkerKeepsCovered DEF WalkInv
    <3>3. CASE Cancel
      BY <3>3 DEF Cancel, ghosts, ScanInv, WalkInv, ActiveInv, HomeInv, SteadyInv, ClassifiedInv,
                  Covered, SeenInv, Scanning, InHand, Accounted, Seen, Folder
    <3>4. CASE UNCHANGED vars
      BY <3>4 DEF vars, ScanInv, WalkInv, ActiveInv, HomeInv, SteadyInv, ClassifiedInv, Covered,
                  SeenInv, Scanning, InHand, Accounted, OnTheWay, Ahead, Seen, Folder
    <3> QED BY <3>1, <3>2, <3>3, <3>4, StepKinds, BeginKeeps, JoinKeeps, FinishKeeps, DiskKeeps
  <2> QED BY <2>1, <2>2 DEF ScanInv
<1> QED BY <1>1, <1>2, PTL DEF Spec

-----------------------------------------------------------------------------
(* What pruning rests on *)

SigRec == [stored : BOOLEAN, same : BOOLEAN, hadRepo : BOOLEAN]
PendingRec == [dir : Dirs, same : BOOLEAN, hadRepo : BOOLEAN]
SigTypes ==
    /\ db.sigs \in [Folders -> [Dirs -> SigRec]]
    /\ scan.signatures \in Seq(PendingRec)
    /\ looked \in [Folders -> SUBSET Dirs]

\* Only a registered folder is scanned, and to the depth it has.
RegisteredInv ==
    /\ \A f \in Folders : db.folders[f].enabled => db.folders[f].registered
    /\ phase = "idle" => todo = {}
    /\ \A f \in todo : db.folders[f].registered
    /\ ~Scanning => scan.signatures = <<>>
    /\ Scanning => db.folders[Folder].registered /\ scan.depth = db.folders[Folder].depth

\* The subdirectories of d that a scan of f is to come to.
Due(t, f, depth, d) ==
    {c \in Children(t, d) \ Passed : ~shouldSkip(f, c) /\ Depth(f, c) <= depth}

\* A directory whose stored signature is good has been come to, and so have the
\* subdirectories that pruning it would pass over.
Stored(f, d) ==
    LET sig == db.sigs[f][d] IN
    sig.stored =>
        /\ db.folders[f].registered
        /\ sig.same => d \in looked[f]
        /\ sig.same /\ ~sig.hadRepo /\ f \notin deepened =>
              Due(tree, f, db.folders[f].depth, d) \subseteq looked[f]
StoredInv == \A f \in Folders, d \in Dirs : Stored(f, d)

\* Before the signatures are saved: what one of them vouches for has been come to, or
\* is still ahead.
Vouched(s) ==
    s.same /\ ~s.hadRepo =>
        \A c \in Due(tree, Folder, scan.depth, s.dir) :
            c \in looked[Folder] \/ (phase = "walk" /\ Ahead(c))
VouchedInv ==
    /\ \A i \in 1 .. Len(scan.signatures) :
          scan.signatures[i].same => scan.signatures[i].dir \in looked[Folder]
    /\ ~token /\ (phase = "joined" \/ (phase = "walk" /\ ~scan.failed)) =>
          \A i \in 1 .. Len(scan.signatures) : Vouched(scan.signatures[i])

SigInv == SigTypes /\ RegisteredInv /\ StoredInv /\ VouchedInv

\* The statements on rows leave the folders and the signatures alone.
LEMMA RowStatements ==
    ASSUME NEW x, DbOk(x), NEW f, NEW S,
           NEW y \in {upsertRepo(x, f, S), touchReposUnder(x, f, S), markMissing(x, f), beginScan(x, f)}
    PROVE  y.sigs = x.sigs /\ y.folders = x.folders
BY DEF upsertRepo, touchReposUnder, markMissing, beginScan, Update, DbOk

\* There is a last one among some of the first n.
LEMMA LastOne ==
    ASSUME NEW n \in Nat, NEW S, S \subseteq 1 .. n, S # {}
    PROVE  \E i \in S : \A j \in S : j <= i
<1> DEFINE R == {ss \in Nat \X Nat : ss[1] < ss[2]}
           T == {n - i : i \in S}
<1>1. IsWellFoundedOn(R, Nat)
  BY NatLessThanWellFounded DEF OpToRel
<1>2. T \subseteq Nat /\ T # {}
  <2>1. \A i \in S : n - i \in Nat OBVIOUS
  <2>2. PICK i \in S : TRUE OBVIOUS
  <2>3. n - i \in T BY <2>2
  <2> QED BY <2>1, <2>3
<1>3. PICK x \in T : \A y \in T : <<y, x>> \notin R
  <2> HIDE DEF R, T
  <2> QED BY <1>1, <1>2, WFMin
<1>4. PICK i \in S : x = n - i
  OBVIOUS
<1>5. ASSUME NEW j \in S PROVE j <= i
  <2>1. n - j \in T /\ n - j \in Nat /\ x \in Nat BY <1>2
  <2>2. ~(n - j < x) BY <1>3, <2>1
  <2> QED BY <1>4, <2>2
<1> QED BY <1>5

\* The index y is x with some of the signatures s saved for f: a saved signature is one
\* of those the walk made.
SavedFrom(y, x, f, s) ==
    /\ y.folders = x.folders /\ y.sigs \in [Folders -> [Dirs -> SigRec]]
    /\ \A g \in Folders, d \in Dirs :
          \/ y.sigs[g][d] = x.sigs[g][d]
          \/ g = f /\ \E i \in 1 .. Len(s) :
                /\ s[i].dir = d
                /\ y.sigs[g][d].same = s[i].same /\ y.sigs[g][d].hadRepo = s[i].hadRepo

LEMMA SavedSignatures ==
    ASSUME NEW x, DbOk(x), x.sigs \in [Folders -> [Dirs -> SigRec]], NEW f \in Folders,
           NEW s \in Seq(PendingRec), NEW n \in 0 .. Len(s)
    PROVE  SavedFrom(saveDirSignatures(x, f, s, n), x, f, s)
<1> DEFINE Of(d) == {i \in 1 .. n : s[i].dir = d}
           pick(d) == CHOOSE i \in Of(d) : \A j \in Of(d) : j <= i
           new(d) == [stored |-> TRUE, same |-> s[pick(d)].same, hadRepo |-> s[pick(d)].hadRepo]
           sigs == [d \in Dirs |-> IF Of(d) = {} THEN x.sigs[f][d] ELSE new(d)]
           y == saveDirSignatures(x, f, s, n)
<1>1. y.folders = x.folders /\ y.sigs = [x.sigs EXCEPT ![f] = sigs]
  BY DEF saveDirSignatures, DbOk
<1>2. ASSUME NEW d \in Dirs, Of(d) # {}
      PROVE  pick(d) \in 1 .. Len(s) /\ s[pick(d)].dir = d
  <2>1. Of(d) \subseteq 1 .. n /\ n \in Nat OBVIOUS
  <2>2. \E i \in Of(d) : \A j \in Of(d) : j <= i
    <3> HIDE DEF Of
    <3> QED BY <1>2, <2>1, LastOne
  <2>3. pick(d) \in Of(d) BY <2>2
  <2> QED BY <2>3
<1>3. ASSUME NEW d \in Dirs, Of(d) # {}
      PROVE  new(d) \in SigRec /\ new(d).same = s[pick(d)].same /\ new(d).hadRepo = s[pick(d)].hadRepo
  <2>1. pick(d) \in 1 .. Len(s) BY <1>2, <1>3
  <2> HIDE DEF pick
  <2>2. s[pick(d)] \in PendingRec BY <2>1
  <2> QED BY <2>2 DEF SigRec, PendingRec
<1> HIDE DEF new
<1>4. ASSUME NEW d \in Dirs PROVE sigs[d] \in SigRec /\ (sigs[d] = x.sigs[f][d] \/ (Of(d) # {} /\ sigs[d] = new(d)))
  <2>1. x.sigs[f][d] \in SigRec OBVIOUS
  <2>2. Of(d) # {} => new(d) \in SigRec BY <1>3
  <2> HIDE DEF Of
  <2> QED BY <2>1, <2>2
<1> HIDE DEF y, sigs, new, pick, Of
<1>5. sigs \in [Dirs -> SigRec] /\ y.sigs \in [Folders -> [Dirs -> SigRec]]
  <2>1. sigs \in [Dirs -> SigRec] BY <1>4 DEF sigs
  <2> QED BY <1>1, <2>1
<1>6. ASSUME NEW g \in Folders, NEW d \in Dirs
      PROVE  \/ y.sigs[g][d] = x.sigs[g][d]
             \/ g = f /\ \E i \in 1 .. Len(s) :
                   /\ s[i].dir = d
                   /\ y.sigs[g][d].same = s[i].same /\ y.sigs[g][d].hadRepo = s[i].hadRepo
  <2>1. CASE g # f BY <1>1, <2>1
  <2>2. CASE g = f
    <3>1. y.sigs[g][d] = sigs[d] BY <1>1, <2>2
    <3> QED BY <1>2, <1>3, <1>4, <2>2, <3>1
  <2> QED BY <2>1, <2>2
<1> QED BY <1>1, <1>5, <1>6 DEF y, SavedFrom

\* A step that ends a scan or leaves the program at rest, and writes no signature.
LEMMA RestKeepsSigs ==
    ASSUME SigInv, UNCHANGED <<tree, looked, deepened>>, db'.sigs = db.sigs,
           db'.folders = db.folders, ~Scanning', scan'.signatures = <<>>,
           phase' = "idle" => todo' = {}, \A f \in todo' : db.folders[f].registered
    PROVE  SigInv'
<1>1. SigTypes'
  <2>1. <<>> \in Seq(PendingRec) OBVIOUS
  <2> QED BY <2>1 DEF SigInv, SigTypes
<1>2. RegisteredInv'
  BY DEF SigInv, RegisteredInv
<1>3. StoredInv'
  BY DEF SigInv, StoredInv, Stored
<1>4. VouchedInv'
  BY DEF VouchedInv, Scanning
<1> QED BY <1>1, <1>2, <1>3, <1>4 DEF SigInv

\* The signatures are saved, all or some of them, after the join: everything they vouch
\* for has been come to.
LEMMA SavingKeepsStored ==
    ASSUME ScanInv, SigInv, phase = "joined", ~token, NEW n \in 0 .. Len(scan.signatures),
           db' = saveDirSignatures(db, Folder, scan.signatures, n),
           UNCHANGED <<tree, looked, deepened>>
    PROVE  /\ StoredInv' /\ db'.folders = db.folders
           /\ db'.sigs \in [Folders -> [Dirs -> SigRec]]
<1>1. /\ DbOk(db) /\ Folder \in Folders /\ db.sigs \in [Folders -> [Dirs -> SigRec]]
      /\ scan.signatures \in Seq(PendingRec) /\ StoredInv
      /\ db.folders[Folder].registered /\ scan.depth = db.folders[Folder].depth
  BY DEF ScanInv, Types, WalkInv, SteadyInv, Scanning, SigInv, SigTypes, RegisteredInv
<1>2. /\ db'.folders = db.folders /\ db'.sigs \in [Folders -> [Dirs -> SigRec]]
      /\ \A g \in Folders, d \in Dirs :
            \/ db'.sigs[g][d] = db.sigs[g][d]
            \/ g = Folder /\ \E i \in 1 .. Len(scan.signatures) :
                  /\ scan.signatures[i].dir = d /\ db'.sigs[g][d].same = scan.signatures[i].same
                  /\ db'.sigs[g][d].hadRepo = scan.signatures[i].hadRepo
  <2>1. SavedFrom(db', db, Folder, scan.signatures) BY <1>1, SavedSignatures
  <2> QED BY ONLY <2>1 DEF SavedFrom
<1>3. \A i \in 1 .. Len(scan.signatures) :
         /\ scan.signatures[i].same => scan.signatures[i].dir \in looked[Folder]
         /\ scan.signatures[i].same /\ ~scan.signatures[i].hadRepo =>
               Due(tree, Folder, scan.depth, scan.signatures[i].dir) \subseteq looked[Folder]
  BY DEF SigInv, VouchedInv, Vouched
<1>4. ASSUME NEW g \in Folders, NEW d \in Dirs PROVE Stored(g, d)'
  <2>1. CASE db'.sigs[g][d] = db.sigs[g][d]
    BY <1>1, <1>2, <2>1 DEF StoredInv, Stored
  <2>2. CASE db'.sigs[g][d] # db.sigs[g][d]
    BY <1>1, <1>2, <1>3, <2>2 DEF Stored
  <2> QED BY <2>1, <2>2
<1> QED BY <1>2, <1>4 DEF StoredInv

\* The settings and the migration: a folder loses its signatures, or keeps its depth, or
\* becomes less deep, or is marked as deepened.
LEMMA SettingKeepsSigs ==
    ASSUME ScanInv, SigInv, NEW f \in Folders,
           \/ RemoveBaseFolder(f) \/ SetEnabled(f)
           \/ \E n \in Depths : AddBaseFolder(f, n) \/ SetDepth(f, n)
    PROVE  SigInv'
<1>1. /\ phase = "idle" /\ UNCHANGED <<tree, phase, todo, scan, looked>>
  BY DEF RemoveBaseFolder, SetEnabled, AddBaseFolder, SetDepth, Setting
<1>2. /\ DbOk(db) /\ db.sigs \in [Folders -> [Dirs -> SigRec]] /\ StoredInv
      /\ scan.signatures = <<>> /\ todo = {} /\ looked \in [Folders -> SUBSET Dirs]
      /\ \A g \in Folders : db.folders[g] \in FolderRec
      /\ \A g \in Folders : db.folders[g].enabled => db.folders[g].registered
  BY <1>1 DEF ScanInv, Types, DbOk, SigInv, SigTypes, RegisteredInv, Scanning
<1>3. /\ db'.sigs \in [Folders -> [Dirs -> SigRec]]
      /\ \A g \in Folders : db'.folders[g].enabled => db'.folders[g].registered
      /\ \A g \in Folders, d \in Dirs : Stored(g, d)'
  <2>n. NoSigs \in [Dirs -> SigRec] /\ \A d \in Dirs : ~NoSigs[d].stored
    BY DEF NoSigs, NoSig, SigRec
  <2>e. ASSUME NEW g \in Folders, NEW d \in Dirs, ~db'.sigs[g][d].stored PROVE Stored(g, d)'
    BY <2>e DEF Stored
  <2>1. CASE RemoveBaseFolder(f)
    <3>1. /\ db'.folders = [db.folders EXCEPT ![f] = NoFolder]
          /\ db'.sigs = [db.sigs EXCEPT ![f] = NoSigs] /\ deepened' = deepened \ {f}
      BY <1>2, <2>1 DEF RemoveBaseFolder, Setting, removeBaseFolder, Update, DbOk
    <3>2. ASSUME NEW g \in Folders \ {f}, NEW d \in Dirs PROVE Stored(g, d)'
      BY <1>1, <1>2, <3>1 DEF StoredInv, Stored, DbOk
    <3>3. ASSUME NEW d \in Dirs PROVE Stored(f, d)'
      BY <1>2, <2>e, <2>n, <3>1
    <3>4. \A g \in Folders : db'.folders[g].enabled => db'.folders[g].registered
      BY <1>2, <3>1 DEF DbOk, NoFolder
    <3> QED BY <1>2, <2>n, <3>1, <3>2, <3>3, <3>4
  <2>2. CASE SetEnabled(f)
    <3> DEFINE r == [db.folders[f] EXCEPT !.enabled = ~db.folders[f].enabled]
    <3>1. /\ db'.folders = [db.folders EXCEPT ![f] = r]
          /\ db'.sigs = db.sigs /\ deepened' = deepened /\ db.folders[f].registered
      BY <1>2, <2>2 DEF SetEnabled, Setting, setBaseFolderEnabled, DbOk
    <3>2. r.registered /\ r.depth = db.folders[f].depth
      BY <1>2, <3>1 DEF FolderRec
    <3> HIDE DEF r
    <3>3. ASSUME NEW g \in Folders
          PROVE  /\ db'.folders[g].depth = db.folders[g].depth
                 /\ db.folders[g].registered => db'.folders[g].registered
                 /\ db'.folders[g].enabled => db'.folders[g].registered
      <4>1. CASE g = f
        <5>1. db'.folders[f] = r BY <1>2, <3>1 DEF DbOk
        <5> QED BY <3>2, <4>1, <5>1
      <4>2. CASE g # f
        <5>1. db'.folders[g] = db.folders[g] BY <1>2, <3>1, <4>2 DEF DbOk
        <5> QED BY <1>2, <5>1
      <4> QED BY <4>1, <4>2
    <3> QED BY <1>1, <1>2, <3>1, <3>3 DEF StoredInv, Stored
  <2>3. ASSUME NEW n \in Depths, AddBaseFolder(f, n) 
        PROVE  /\ db'.sigs \in [Folders -> [Dirs -> SigRec]]
               /\ \A g \in Folders : db'.folders[g].enabled => db'.folders[g].registered
               /\ \A g \in Folders, d \in Dirs : Stored(g, d)'
    <3> DEFINE r == [registered |-> TRUE, enabled |-> TRUE, depth |-> n]
    <3>1. /\ db'.folders = [db.folders EXCEPT ![f] = r] /\ db'.sigs = db.sigs
          /\ deepened' = IF db.folders[f].registered /\ n > db.folders[f].depth
                         THEN deepened \cup {f} ELSE deepened
      BY <1>2, <2>3 DEF AddBaseFolder, Setting, addBaseFolder, DbOk
    <3>2. r.registered /\ r.depth = n /\ n \in Nat
      BY ScannerAssumption
    <3> HIDE DEF r
    <3>3. ASSUME NEW g \in Folders \ {f}, NEW d \in Dirs PROVE Stored(g, d)'
      BY <1>1, <1>2, <3>1 DEF StoredInv, Stored, DbOk
    <3>4. ASSUME NEW d \in Dirs PROVE Stored(f, d)'
      <4> SUFFICES ASSUME db.sigs[f][d].stored PROVE Stored(f, d)'
        BY <2>e, <3>1
      <4>1. Stored(f, d) /\ db.folders[f].registered BY <1>2 DEF StoredInv, Stored
      <4>2. db'.folders[f].registered /\ db'.folders[f].depth = n BY <1>2, <3>1, <3>2 DEF DbOk
      <4>3. CASE n > db.folders[f].depth
        BY <1>1, <3>1, <4>1, <4>2, <4>3 DEF Stored
      <4>4. CASE ~(n > db.folders[f].depth)
        <5>1. db.folders[f].depth \in Nat /\ n <= db.folders[f].depth BY <1>2, <3>2, <4>4 DEF FolderRec
        <5>2. \A c \in Dirs : Depth(f, c) \in Int
          <6>1. ASSUME NEW c \in Dirs PROVE Cardinality(Between(f, c)) \in Nat
            BY TreeAssumption, ScannerAssumption, FS_Subset, FS_CardinalityType DEF Between
          <6> QED BY <6>1 DEF Depth
        <5>3. Due(tree, f, n, d) \subseteq Due(tree, f, db.folders[f].depth, d)
          BY <3>2, <5>1, <5>2 DEF Due, Children
        <5> QED BY <1>1, <3>1, <4>1, <4>2, <4>4, <5>3 DEF Stored
      <4> QED BY <4>3, <4>4
    <3>5. \A g \in Folders : db'.folders[g].enabled => db'.folders[g].registered
      BY <1>2, <3>1, <3>2 DEF DbOk
    <3> QED BY <1>2, <3>1, <3>3, <3>4, <3>5
  <2>4. ASSUME NEW n \in Depths, SetDepth(f, n)
        PROVE  /\ db'.sigs \in [Folders -> [Dirs -> SigRec]]
               /\ \A g \in Folders : db'.folders[g].enabled => db'.folders[g].registered
               /\ \A g \in Folders, d \in Dirs : Stored(g, d)'
    <3> DEFINE r == [db.folders[f] EXCEPT !.depth = n]
    <3>1. /\ db'.folders = [db.folders EXCEPT ![f] = r] /\ db.folders[f].registered
          /\ db'.sigs = [db.sigs EXCEPT ![f] = NoSigs] /\ deepened' = deepened \ {f}
      BY <1>2, <2>4 DEF SetDepth, Setting, setBaseFolderMaxDepth, DbOk
    <3>2. r.registered BY <1>2, <3>1 DEF FolderRec
    <3> HIDE DEF r
    <3>3. ASSUME NEW g \in Folders \ {f}, NEW d \in Dirs PROVE Stored(g, d)'
      BY <1>1, <1>2, <3>1 DEF StoredInv, Stored, DbOk
    <3>4. ASSUME NEW d \in Dirs PROVE Stored(f, d)'
      BY <1>2, <2>e, <2>n, <3>1
    <3>5. \A g \in Folders : db'.folders[g].enabled => db'.folders[g].registered
      BY <1>2, <3>1, <3>2 DEF DbOk
    <3> QED BY <1>2, <2>n, <3>1, <3>3, <3>4, <3>5
  <2> QED BY <2>1, <2>2, <2>3, <2>4
<1>4. SigTypes' BY <1>1, <1>2, <1>3 DEF SigTypes, SigInv
<1>5. RegisteredInv' BY <1>1, <1>2, <1>3 DEF RegisteredInv, Scanning
<1>6. VouchedInv' BY <1>1, <1>2 DEF VouchedInv
<1> QED BY <1>3, <1>4, <1>5, <1>6 DEF SigInv, StoredInv

\* A worker's step, as far as signatures go: only a listing adds to them.
LEMMA WorkerSigs ==
    ASSUME ScanInv, NEW w \in Workers, Step(w) \/ WorkerFails(w)
    PROVE  /\ db'.sigs = db.sigs /\ db'.folders = db.folders /\ UNCHANGED <<todo, deepened>>
           /\ ~List(w) => looked' = looked /\ scan'.signatures = scan.signatures
           /\ List(w) =>
                 /\ looked' = [looked EXCEPT ![Folder] = @ \cup {Here(w)}]
                 /\ \/ scan'.signatures = scan.signatures
                    \/ /\ Visible(tree, Here(w))
                       /\ scan'.signatures = Append(scan.signatures, Signature(w))
<1>t. Types /\ ScanOk(scan) /\ DbOk(db)
  BY DEF ScanInv, Types
<1>u. UNCHANGED <<todo, deepened>>
  BY DEF Step, Pop, GoHome, StopCancelled, SkipItem, Prune, StatDir, Classify, List, WorkerFails, ghosts
<1>1. CASE Classify(w)
  <2> DEFINE queued == [scan EXCEPT !.pending = IF IsRepo(tree, Here(w)) THEN @ \cup {Here(w)} ELSE @]
  <2>1. db' = db \/ db' = upsertRepo(db, queued.folder, queued.pending)
    BY <1>1 DEF Classify, flushPending
  <2>2. scan'.signatures = scan.signatures BY <1>1, <1>t DEF Classify, ScanOk
  <2>3. ~List(w) BY <1>1 DEF Classify, List, At
  <2>4. db'.sigs = db.sigs /\ db'.folders = db.folders
    <3> HIDE DEF queued
    <3> QED BY <1>t, <2>1, RowStatements
  <2> QED BY <1>1, <1>u, <2>2, <2>3, <2>4 DEF Classify, ghosts
<1>2. CASE Prune(w)
  <2>1. db'.sigs = db.sigs /\ db'.folders = db.folders
    BY <1>2, <1>t, RowStatements DEF Prune
  <2>2. scan'.signatures = scan.signatures BY <1>2, <1>t DEF Prune, Leaves, ScanOk
  <2> QED BY <1>2, <1>u, <2>1, <2>2 DEF Prune, List, At
<1>3. CASE List(w)
  <2>1. db' = db /\ looked' = [looked EXCEPT ![Folder] = @ \cup {Here(w)}]
    BY <1>3 DEF List
  <2>2. PICK order :
           Leaves(w, "pop", [scan EXCEPT !.queue = @ \o order,
               !.signatures = IF Visible(tree, Here(w)) /\ worker[w].stat = "ok"
                              THEN Append(@, Signature(w)) ELSE @])
    BY <1>3 DEF List
  <2>3. scan'.signatures = IF Visible(tree, Here(w)) /\ worker[w].stat = "ok"
                           THEN Append(scan.signatures, Signature(w)) ELSE scan.signatures
    BY <2>2, <1>t DEF Leaves, ScanOk
  <2> QED BY <1>3, <1>u, <2>1, <2>3
<1>4. CASE Pop(w) \/ GoHome(w) \/ StatDir(w)
  <2>1. db' = db /\ looked' = looked BY <1>4 DEF Pop, GoHome, StatDir, ghosts
  <2>2. scan'.signatures = scan.signatures BY <1>4, <1>t DEF Pop, GoHome, StatDir, ScanOk
  <2>3. ~List(w) BY <1>4 DEF Pop, GoHome, StatDir, List, At
  <2> QED BY <1>u, <2>1, <2>2, <2>3
<1>5. CASE StopCancelled(w) \/ SkipItem(w)
  <2>1. db' = db /\ looked' = looked BY <1>5 DEF StopCancelled, SkipItem, ghosts
  <2>2. scan'.signatures = scan.signatures BY <1>5, <1>t DEF StopCancelled, SkipItem, Leaves, ScanOk
  <2>3. ~List(w) BY <1>5 DEF StopCancelled, SkipItem, List, At
  <2> QED BY <1>u, <2>1, <2>2, <2>3
<1>6. CASE WorkerFails(w) /\ ~List(w)
  <2>1. db' = db /\ looked' = looked BY <1>6 DEF WorkerFails, ghosts
  <2>2. scan'.signatures = scan.signatures BY <1>6, <1>t DEF WorkerFails, Leaves, ScanOk
  <2> QED BY <1>6, <1>u, <2>1, <2>2
<1> QED BY <1>1, <1>2, <1>3, <1>4, <1>5, <1>6 DEF Step

\* A worker's step: what it has come to vouches for itself, what it skips is not due, and
\* what it prunes was come to before.
LEMMA WorkerKeepsSigs ==
    ASSUME ScanInv, SigInv, NEW w \in Workers, Step(w) \/ WorkerFails(w)
    PROVE  SigInv'
<1>1. /\ phase = "walk" /\ UNCHANGED <<phase, open, tree, token, steady>> /\ SameScan
      /\ Takes(w) \/ GoesOn(w) \/ IsDone(w) \/ IsHome(w)
  BY WorkerEffects
<1>2. /\ db'.sigs = db.sigs /\ db'.folders = db.folders /\ UNCHANGED <<todo, deepened>>
      /\ ~List(w) => looked' = looked /\ scan'.signatures = scan.signatures
      /\ List(w) =>
            /\ looked' = [looked EXCEPT ![Folder] = @ \cup {Here(w)}]
            /\ \/ scan'.signatures = scan.signatures
               \/ /\ Visible(tree, Here(w))
                  /\ scan'.signatures = Append(scan.signatures, Signature(w))
  BY WorkerSigs
<1>3. /\ Folder \in Folders /\ Folder' = Folder /\ scan'.depth = scan.depth
      /\ scan.signatures \in Seq(PendingRec) /\ looked \in [Folders -> SUBSET Dirs]
      /\ SigTypes /\ RegisteredInv /\ StoredInv /\ VouchedInv
  BY <1>1 DEF SameScan, Folder, SigInv, SigTypes, ScanInv, WalkInv, SteadyInv, Scanning
<1>4. ASSUME List(w)
      PROVE  Here(w) \in Dirs /\ Signature(w) \in PendingRec /\ worker[w] \in WorkerRec
  <2>1. Here(w) \in Dirs BY <1>4 DEF List, At, ScanInv, WalkInv, ActiveInv, InHand, Busy, Here
  <2>2. worker[w] \in WorkerRec BY DEF ScanInv, Types
  <2> QED BY <2>1, <2>2 DEF Signature, PendingRec, WorkerRec
<1>5. \A f \in Folders : looked[f] \subseteq looked'[f]
  BY <1>2, <1>3
<1>6. SigTypes'
  <2>1. scan'.signatures \in Seq(PendingRec)
    <3>1. CASE scan'.signatures = scan.signatures BY <1>3, <3>1
    <3>2. CASE List(w) /\ scan'.signatures = Append(scan.signatures, Signature(w))
      <4>1. Signature(w) \in PendingRec BY <1>4, <3>2
      <4> QED BY <1>3, <3>2, <4>1
    <3> QED BY <1>2, <3>1, <3>2
  <2>2. looked' \in [Folders -> SUBSET Dirs] BY <1>2, <1>3, <1>4
  <2> QED BY <1>2, <1>3, <2>1, <2>2 DEF SigTypes
<1>7. RegisteredInv'
  BY <1>1, <1>2, <1>3 DEF RegisteredInv, Scanning
<1>8. StoredInv'
  BY <1>1, <1>2, <1>3, <1>5 DEF StoredInv, Stored
<1>9. ASSUME NEW i \in 1 .. Len(scan'.signatures)
      PROVE  \/ i \in 1 .. Len(scan.signatures) /\ scan'.signatures[i] = scan.signatures[i]
             \/ List(w) /\ Visible(tree, Here(w)) /\ scan'.signatures[i] = Signature(w)
  <2>1. CASE scan'.signatures = scan.signatures BY <2>1
  <2>2. CASE /\ List(w) /\ Visible(tree, Here(w))
             /\ scan'.signatures = Append(scan.signatures, Signature(w))
    <3>1. /\ Len(scan'.signatures) = Len(scan.signatures) + 1 /\ Len(scan.signatures) \in Nat
          /\ \A j \in 1 .. Len(scan.signatures) : scan'.signatures[j] = scan.signatures[j]
          /\ scan'.signatures[Len(scan.signatures) + 1] = Signature(w)
      BY <1>3, <2>2
    <3> QED BY <2>2, <3>1
  <2> QED BY <1>2, <2>1, <2>2
<1>10. ASSUME NEW i \in 1 .. Len(scan'.signatures), scan'.signatures[i].same
       PROVE  scan'.signatures[i].dir \in looked'[Folder]
  <2>1. CASE i \in 1 .. Len(scan.signatures) /\ scan'.signatures[i] = scan.signatures[i]
    BY <1>3, <1>5, <1>10, <2>1 DEF VouchedInv
  <2>2. CASE List(w) /\ scan'.signatures[i] = Signature(w)
    <3>1. Signature(w).dir = Here(w) BY DEF Signature
    <3> QED BY <1>2, <1>3, <2>2, <3>1
  <2> QED BY <1>9, <2>1, <2>2
<1>11. ASSUME ~token, ~scan'.failed, NEW i \in 1 .. Len(scan'.signatures)
       PROVE  Vouched(scan.signatures[i])'
  <2> DEFINE s == scan'.signatures[i]
  <2> SUFFICES ASSUME s.same, ~s.hadRepo, NEW c \in Due(tree, Folder, scan.depth, s.dir)
               PROVE  c \in looked'[Folder] \/ Ahead(c)'
    BY <1>1, <1>3 DEF Vouched
  <2>1. CASE List(w) /\ Visible(tree, Here(w)) /\ s = Signature(w)
    <3>1. s.dir = Here(w) /\ ~worker[w].hadRepo BY <2>1 DEF Signature
    <3>2. c \in Children(tree, Here(w)) \ Passed BY <3>1 DEF Due
    <3> QED BY <2>1, <3>1, <3>2, ListQueues DEF Ahead
  <2>2. CASE i \in 1 .. Len(scan.signatures) /\ s = scan.signatures[i]
    <3>1. ~scan.failed BY <1>1, <1>11 DEF Takes, GoesOn, IsDone, IsHome
    <3>2. c \in looked[Folder] \/ Ahead(c)
      BY <1>1, <1>3, <1>11, <2>2, <3>1 DEF VouchedInv, Vouched
    <3>3. CASE c \in looked[Folder] BY <1>3, <1>5, <3>3
    <3>4. CASE Here(w) = c /\ SkipItem(w)
      <4>1. Admitted(w) BY <3>4 DEF Due, Admitted
      <4> QED BY <3>4, <4>1 DEF SkipItem
    <3>5. CASE Here(w) = c /\ Prune(w)
      <4>1. c \in Dirs BY DEF Due, Children
      <4>2. db.sigs[Folder][c].stored /\ db.sigs[Folder][c].same
        BY <3>5 DEF Prune, Unchanged, dirSignature
      <4>3. c \in looked[Folder] BY <1>3, <4>1, <4>2 DEF StoredInv, Stored
      <4> QED BY <3>3, <4>3
    <3>6. CASE Here(w) = c /\ List(w) BY <1>2, <1>3, <3>6
    <3> QED BY <1>11, <3>2, <3>3, <3>4, <3>5, <3>6, AheadIsKept
  <2> QED BY <1>9, <2>1, <2>2
<1>12. VouchedInv'
  BY <1>1, <1>3, <1>10, <1>11 DEF VouchedInv
<1> QED BY <1>6, <1>7, <1>8, <1>12 DEF SigInv

\* A change on disk shows in the modification time of every directory that gains a
\* subdirectory or goes away, and nothing is forgotten but what is gone.
LEMMA ChangesShow ==
    ASSUME Types, looked \in [Folders -> SUBSET Dirs], NEW d \in Dirs,
           MakeDir(d) \/ RemoveDir(d) \/ ToggleRepo(d) \/ ToggleReadable(d)
    PROVE  \E t \in [Dirs -> DirState], D \in SUBSET Dirs :
              /\ Disk(t, D) /\ looked' \in [Folders -> SUBSET Dirs]
              /\ \A p \in Dirs \ D : Children(t, p) \subseteq Children(tree, p)
              /\ \A f \in Folders : \A e \in looked[f] : e \in looked'[f] \/ (e \in D /\ ~t[e].there)
<1> USE ScannerAssumption DEF Types
<1>0. Parent[d] \in Dirs /\ Below(d) \in SUBSET Dirs BY DEF Below
<1>1. CASE MakeDir(d)
  <2> DEFINE t == [tree EXCEPT ![d] = [there |-> TRUE, repo |-> FALSE, readable |-> TRUE]]
             D == {d, Parent[d]}
  <2>1. t \in [Dirs -> DirState] BY DEF DirState
  <2>2. \A p \in Dirs \ D : Children(t, p) \subseteq Children(tree, p) BY DEF Children
  <2>3. Disk(t, D) /\ looked' = looked BY <1>1 DEF MakeDir
  <2> HIDE DEF t
  <2> QED BY <1>0, <2>1, <2>2, <2>3
<1>2. CASE RemoveDir(d)
  <2> DEFINE gone == [there |-> FALSE, repo |-> FALSE, readable |-> TRUE]
             t == [e \in Dirs |-> IF e \in Below(d) THEN gone ELSE tree[e]]
             D == Below(d) \cup {Parent[d]}
  <2>1. t \in [Dirs -> DirState] BY DEF DirState
  <2>2. \A e \in Dirs : /\ e \in Below(d) => ~t[e].there
                        /\ e \notin Below(d) => t[e] = tree[e]
    OBVIOUS
  <2>3. Disk(t, D) /\ looked' = [f \in Folders |-> looked[f] \ Below(d)]
    BY <1>2 DEF RemoveDir
  <2> HIDE DEF t
  <2>4. \A p \in Dirs \ D : Children(t, p) \subseteq Children(tree, p) BY <2>2 DEF Children
  <2>5. \A f \in Folders : \A e \in looked[f] : e \in looked'[f] \/ (e \in D /\ ~t[e].there)
    BY <2>2, <2>3
  <2>6. looked' \in [Folders -> SUBSET Dirs] BY <2>3
  <2> QED BY <1>0, <2>1, <2>3, <2>4, <2>5, <2>6
<1>3. CASE ToggleRepo(d)
  <2> DEFINE t == [tree EXCEPT ![d].repo = ~@]
  <2>1. t \in [Dirs -> DirState] BY DEF DirState
  <2>2. \A p \in Dirs : Children(t, p) \subseteq Children(tree, p)
    <3>1. \A e \in Dirs : t[e].there = tree[e].there BY DEF DirState
    <3> QED BY <3>1 DEF Children
  <2>3. Disk(t, {d}) /\ looked' = looked BY <1>3 DEF ToggleRepo
  <2> HIDE DEF t
  <2> QED BY <2>1, <2>2, <2>3
<1>4. CASE ToggleReadable(d)
  <2> DEFINE t == [tree EXCEPT ![d].readable = ~@]
  <2>1. t \in [Dirs -> DirState] BY DEF DirState
  <2>2. \A p \in Dirs : Children(t, p) \subseteq Children(tree, p)
    <3>1. \A e \in Dirs : t[e].there = tree[e].there BY DEF DirState
    <3> QED BY <3>1 DEF Children
  <2>3. Disk(t, {}) /\ looked' = looked BY <1>4 DEF ToggleReadable
  <2> HIDE DEF t
  <2> QED BY <2>1, <2>2, <2>3
<1> QED BY <1>1, <1>2, <1>3, <1>4

\* What such a change makes of a signature.
Aged(new, old, e, D) ==
    new = IF e \in D THEN [old EXCEPT !.same = FALSE] ELSE old

LEMMA AgedSignature ==
    ASSUME NEW old \in SigRec, NEW new, NEW e, NEW D, Aged(new, old, e, D)
    PROVE  /\ new \in SigRec /\ new.hadRepo = old.hadRepo /\ new.stored = old.stored
           /\ new.same => old.same /\ e \notin D
<1>1. CASE e \in D BY <1>1 DEF Aged, SigRec
<1>2. CASE e \notin D BY <1>2 DEF Aged, SigRec
<1> QED BY <1>1, <1>2

LEMMA AgedPending ==
    ASSUME NEW old \in PendingRec, NEW new, NEW e, NEW D, Aged(new, old, e, D)
    PROVE  /\ new \in PendingRec /\ new.hadRepo = old.hadRepo /\ new.dir = old.dir
           /\ new.same => old.same /\ e \notin D
<1>1. CASE e \in D BY <1>1 DEF Aged, PendingRec
<1>2. CASE e \notin D BY <1>2 DEF Aged, PendingRec
<1> QED BY <1>1, <1>2

LEMMA DiskKeepsSigs ==
    ASSUME ScanInv, SigInv, NEW d \in Dirs,
           MakeDir(d) \/ RemoveDir(d) \/ ToggleRepo(d) \/ ToggleReadable(d)
    PROVE  SigInv'
<1>1. PICK t \in [Dirs -> DirState], D \in SUBSET Dirs :
         /\ Disk(t, D) /\ looked' \in [Folders -> SUBSET Dirs]
         /\ \A p \in Dirs \ D : Children(t, p) \subseteq Children(tree, p)
         /\ \A f \in Folders : \A e \in looked[f] : e \in looked'[f] \/ (e \in D /\ ~t[e].there)
  BY ChangesShow DEF ScanInv, SigInv, SigTypes
<1>2. /\ tree' = t /\ UNCHANGED <<phase, todo, token, deepened>>
      /\ Scanning' = Scanning
  BY <1>1 DEF Disk, Scanning
<1>3. /\ DbOk(db) /\ db.sigs \in [Folders -> [Dirs -> SigRec]]
      /\ scan.signatures \in Seq(PendingRec) /\ looked \in [Folders -> SUBSET Dirs]
      /\ ScanOk(scan) /\ RegisteredInv /\ StoredInv /\ VouchedInv /\ Types
      /\ Scanning => Folder \in Folders
  BY DEF ScanInv, Types, SigInv, SigTypes, WalkInv, SteadyInv
<1>4. /\ scan'.depth = scan.depth /\ scan'.failed = scan.failed /\ Folder' = Folder
      /\ \A e : Ahead(e)' <=> Ahead(e)
  BY <1>1, <1>3, DiskLeaves
<1>5. /\ db'.folders = db.folders
      /\ db'.sigs = [f \in Folders |-> [e \in Dirs |->
            IF e \in D THEN [db.sigs[f][e] EXCEPT !.same = FALSE] ELSE db.sigs[f][e]]]
  BY <1>1, <1>3 DEF Disk, DbOk
<1>6. ASSUME NEW f \in Folders, NEW e \in Dirs
      PROVE  /\ db'.sigs[f][e] \in SigRec /\ db'.sigs[f][e].hadRepo = db.sigs[f][e].hadRepo
             /\ db'.sigs[f][e].stored = db.sigs[f][e].stored
             /\ db'.sigs[f][e].same => db.sigs[f][e].same /\ e \notin D
  <2>1. Aged(db'.sigs[f][e], db.sigs[f][e], e, D) BY <1>5 DEF Aged
  <2>2. db.sigs[f][e] \in SigRec BY <1>3
  <2> QED BY <2>1, <2>2, AgedSignature
<1>7. scan'.signatures = [i \in DOMAIN scan.signatures |->
         IF scan.signatures[i].dir \in D THEN [scan.signatures[i] EXCEPT !.same = FALSE]
         ELSE scan.signatures[i]]
  BY <1>1, <1>3 DEF Disk, ScanOk
<1>8. ASSUME NEW i \in 1 .. Len(scan.signatures)
      PROVE  LET new == scan'.signatures[i]
                 old == scan.signatures[i]
             IN  /\ new \in PendingRec /\ new.hadRepo = old.hadRepo /\ new.dir = old.dir
                 /\ new.same => old.same /\ old.dir \notin D
                 /\ old.dir \in Dirs
  <2>1. Aged(scan'.signatures[i], scan.signatures[i], scan.signatures[i].dir, D)
    BY <1>3, <1>7 DEF Aged
  <2>2. scan.signatures[i] \in PendingRec BY <1>3
  <2>3. scan.signatures[i].dir \in Dirs BY <2>2 DEF PendingRec
  <2> QED BY <2>1, <2>2, <2>3, AgedPending
<1>9. scan'.signatures \in Seq(PendingRec) /\ Len(scan'.signatures) = Len(scan.signatures)
  <2>1. DOMAIN scan.signatures = 1 .. Len(scan.signatures) /\ Len(scan.signatures) \in Nat BY <1>3
  <2>2. scan'.signatures \in [1 .. Len(scan.signatures) -> PendingRec] BY <1>7, <1>8, <2>1
  <2> QED BY <2>1, <2>2
<1>10. SigTypes'
  <2>1. db'.sigs \in [Folders -> [Dirs -> SigRec]] BY <1>5, <1>6
  <2> QED BY <1>1, <1>9, <2>1 DEF SigTypes
<1>11. RegisteredInv'
  <2>1. ~Scanning => scan'.signatures = <<>>
    BY <1>3, <1>9 DEF RegisteredInv
  <2> QED BY <1>2, <1>3, <1>4, <1>5, <2>1 DEF RegisteredInv
<1>12. ASSUME NEW f \in Folders, NEW p \in Dirs \ D, NEW depth,
              NEW c \in Due(tree', f, depth, p)
       PROVE  c \in Due(tree, f, depth, p) /\ tree'[c].there /\ c \in Dirs
  BY <1>1, <1>2 DEF Due, Children
<1>13. StoredInv'
  <2> SUFFICES ASSUME NEW f \in Folders, NEW e \in Dirs, db'.sigs[f][e].stored
               PROVE  /\ db'.folders[f].registered
                      /\ db'.sigs[f][e].same => e \in looked'[f]
                      /\ db'.sigs[f][e].same /\ ~db'.sigs[f][e].hadRepo /\ f \notin deepened =>
                            Due(tree', f, db'.folders[f].depth, e) \subseteq looked'[f]
    BY <1>2 DEF StoredInv, Stored
  <2>1. db.folders[f].registered
    BY <1>3, <1>6 DEF StoredInv, Stored
  <2>2. ASSUME db'.sigs[f][e].same PROVE e \in looked'[f]
    <3>1. e \in looked[f] BY <1>3, <1>6, <2>2 DEF StoredInv, Stored
    <3> QED BY <1>1, <1>6, <2>2, <3>1
  <2>3. ASSUME db'.sigs[f][e].same, ~db'.sigs[f][e].hadRepo, f \notin deepened,
               NEW c \in Due(tree', f, db.folders[f].depth, e)
        PROVE  c \in looked'[f]
    <3>1. e \notin D BY <1>6, <2>3
    <3>2. c \in Due(tree, f, db.folders[f].depth, e) /\ tree'[c].there BY <1>12, <3>1
    <3>3. c \in looked[f] BY <1>3, <1>6, <2>3, <3>2 DEF StoredInv, Stored
    <3> QED BY <1>1, <1>2, <3>2, <3>3
  <2> QED BY <1>5, <2>1, <2>2, <2>3
<1>14. ASSUME Scanning, NEW i \in 1 .. Len(scan.signatures), scan'.signatures[i].same
       PROVE  scan'.signatures[i].dir \in looked'[Folder]
  BY <1>1, <1>3, <1>8, <1>14 DEF VouchedInv
<1>15. ASSUME ~token, phase = "joined" \/ (phase = "walk" /\ ~scan.failed),
              NEW i \in 1 .. Len(scan.signatures), scan'.signatures[i].same,
              ~scan'.signatures[i].hadRepo,
              NEW c \in Due(tree', Folder, scan.depth, scan'.signatures[i].dir)
       PROVE  c \in looked'[Folder] \/ (phase = "walk" /\ Ahead(c))
  <2>1. Folder \in Folders BY <1>3, <1>15 DEF Scanning
  <2>2. /\ scan.signatures[i].same /\ ~scan.signatures[i].hadRepo
        /\ scan'.signatures[i].dir = scan.signatures[i].dir
        /\ scan.signatures[i].dir \in Dirs \ D
    BY <1>8, <1>15
  <2>3. c \in Due(tree, Folder, scan.depth, scan.signatures[i].dir) /\ tree'[c].there
    BY <1>12, <2>1, <2>2
  <2>4. c \in looked[Folder] \/ (phase = "walk" /\ Ahead(c))
    BY <1>3, <1>15, <2>2, <2>3 DEF VouchedInv, Vouched
  <2> QED BY <1>1, <1>2, <2>1, <2>3, <2>4
<1>16. VouchedInv'
  <2>1. CASE ~Scanning
    <3>1. Len(scan'.signatures) = 0 BY <1>3, <1>9, <2>1 DEF RegisteredInv
    <3> QED BY <3>1 DEF VouchedInv
  <2>2. CASE Scanning
    <3>1. \A i \in 1 .. Len(scan'.signatures) :
             scan'.signatures[i].same => scan'.signatures[i].dir \in looked'[Folder']
      BY <1>4, <1>9, <1>14, <2>2
    <3>2. ~token' /\ (phase' = "joined" \/ (phase' = "walk" /\ ~scan'.failed)) =>
             \A i \in 1 .. Len(scan'.signatures) : Vouched(scan.signatures[i])'
      BY <1>2, <1>4, <1>9, <1>15 DEF Vouched
    <3> QED BY <3>1, <3>2 DEF VouchedInv
  <2> QED BY <2>1, <2>2
<1> QED BY <1>10, <1>11, <1>13, <1>16 DEF SigInv

LEMMA BeginKeepsSigs ==
    ASSUME ScanInv, SigInv, NEW f \in Folders, NEW m \in Modes, BeginScan(f, m)
    PROVE  SigInv'
<1>1. /\ phase = "next" /\ phase' = "walk" /\ f \in todo /\ todo' = todo \ {f}
      /\ UNCHANGED <<tree, looked, deepened>>
      /\ scan' = [NoScan EXCEPT !.folder = f, !.mode = m, !.depth = db.folders[f].depth,
                              !.queue = <<FolderRoot[f]>>]
  BY DEF BeginScan, NextFolder
<1>2. scan'.folder = f /\ scan'.depth = db.folders[f].depth /\ scan'.signatures = <<>>
  BY <1>1 DEF NoScan
<1>3. DbOk(db) /\ SigTypes /\ RegisteredInv /\ StoredInv
  BY DEF ScanInv, Types, SigInv
<1>4. NoSigs \in [Dirs -> SigRec] /\ \A d \in Dirs : ~NoSigs[d].stored
  BY DEF NoSigs, NoSig, SigRec
<1>5. /\ db'.folders = db.folders
      /\ db'.sigs = db.sigs \/ db'.sigs = [db.sigs EXCEPT ![f] = NoSigs]
  <2> DEFINE x == beginScan(db, f)
  <2>1. x.folders = db.folders /\ x.sigs = db.sigs /\ DbOk(x) BY <1>3, RowStatements, BeginRows
  <2>2. db' = x \/ db' = clearDirSignatures(x, f) BY DEF BeginScan
  <2> HIDE DEF x
  <2> QED BY <2>1, <2>2 DEF clearDirSignatures, DbOk
<1>6. SigTypes'
  <2>1. <<>> \in Seq(PendingRec) OBVIOUS
  <2> QED BY <1>1, <1>2, <1>3, <1>4, <1>5, <2>1 DEF SigTypes
<1>7. RegisteredInv'
  BY <1>1, <1>2, <1>3, <1>5 DEF RegisteredInv, Scanning, Folder
<1>8. ASSUME NEW g \in Folders, NEW d \in Dirs PROVE Stored(g, d)'
  <2>1. db'.sigs[g][d] = db.sigs[g][d] \/ ~db'.sigs[g][d].stored
    BY <1>3, <1>4, <1>5 DEF SigTypes
  <2> QED BY <1>1, <1>3, <1>5, <2>1 DEF StoredInv, Stored
<1>9. VouchedInv'
  BY <1>2 DEF VouchedInv
<1> QED BY <1>6, <1>7, <1>8, <1>9 DEF SigInv, StoredInv

\* SigInv is inductive, given ScanInv.
LEMMA SigStep ==
    ASSUME ScanInv, SigInv, [Next]_vars
    PROVE  SigInv'
<1>t. DbOk(db) /\ ScanOk(scan) /\ SigTypes /\ RegisteredInv /\ StoredInv /\ VouchedInv
  BY DEF ScanInv, Types, SigInv
<1>f. Scanning => Folder \in Folders
  BY DEF ScanInv, WalkInv, SteadyInv
<1>end. ASSUME NEW ok \in BOOLEAN, EndScan(ok), UNCHANGED <<tree, db, looked, deepened>> PROVE SigInv'
  <2>1. /\ scan'.signatures = <<>> /\ ~Scanning' /\ todo' \subseteq todo
        /\ (phase' = "idle" => todo' = {})
    BY <1>end DEF EndScan, NoScan, Scanning
  <2>2. \A f \in todo' : db.folders[f].registered BY <1>t, <2>1 DEF RegisteredInv
  <2> QED BY <1>end, <2>1, <2>2, RestKeepsSigs
<1>save. ASSUME phase = "joined", ~token, NEW n \in 0 .. Len(scan.signatures),
                db' = saveDirSignatures(db, Folder, scan.signatures, n),
                EndScan(FALSE), UNCHANGED <<tree, looked, deepened>>
         PROVE  SigInv'
  <2>1. /\ StoredInv' /\ db'.folders = db.folders /\ db'.sigs \in [Folders -> [Dirs -> SigRec]]
    BY <1>save, SavingKeepsStored
  <2>2. scan'.signatures = <<>> /\ ~Scanning' /\ todo' = {}
    BY <1>save DEF EndScan, NoScan, Scanning
  <2>3. <<>> \in Seq(PendingRec) OBVIOUS
  <2>4. SigTypes' BY <1>t, <1>save, <2>1, <2>2, <2>3 DEF SigTypes
  <2>5. RegisteredInv' BY <1>t, <2>1, <2>2 DEF RegisteredInv
  <2>6. VouchedInv' BY <2>2 DEF VouchedInv
  <2> QED BY <2>1, <2>4, <2>5, <2>6 DEF SigInv
<1>c. \A n \in Chunks : n \in 0 .. Len(scan.signatures)
  BY DEF Chunks
<1>1. CASE Advance
  <2>1. ASSUME NEW f \in Folders, BaseFolderGone(f) PROVE SigInv' BY <1>end, <2>1 DEF BaseFolderGone
  <2>2. CASE JoinFailed \/ FinishScan BY <1>end, <2>2 DEF JoinFailed, FinishScan
  <2>3. CASE AllScanned
    BY <1>t, <2>3, RestKeepsSigs DEF AllScanned, ghosts, RegisteredInv, Scanning
  <2>4. CASE Join
    <3>1. /\ phase = "walk" /\ ~scan.failed /\ phase' = "joined"
          /\ UNCHANGED <<tree, todo, scan, worker, token, looked, deepened>>
          /\ \A w \in Workers : worker[w].at = "home"
      BY <2>4 DEF Join, ghosts
    <3>2. db'.sigs = db.sigs /\ db'.folders = db.folders
      BY <1>t, <2>4, RowStatements DEF Join, flushPending
    <3>3. SigTypes' BY <1>t, <3>1, <3>2 DEF SigTypes
    <3>4. RegisteredInv' BY <1>t, <3>1, <3>2 DEF RegisteredInv, Scanning, Folder
    <3>5. StoredInv' BY <1>t, <3>1, <3>2 DEF StoredInv, Stored
    <3>6. ~token => \A c : ~Ahead(c)
      BY <3>1, ScannerAssumption DEF ScanInv, WalkInv, HomeInv, Ahead
    <3>7. VouchedInv'
      BY <1>t, <3>1, <3>6 DEF VouchedInv, Vouched, Folder
    <3> QED BY <3>3, <3>4, <3>5, <3>7 DEF SigInv
  <2>5. CASE SaveSignatures
    <3>1. /\ phase = "joined" /\ phase' = "saved"
          /\ UNCHANGED <<tree, todo, scan, token, looked, deepened>>
      BY <2>5 DEF SaveSignatures, ghosts
    <3>2. /\ StoredInv' /\ db'.folders = db.folders
          /\ db'.sigs \in [Folders -> [Dirs -> SigRec]]
      <4>1. CASE token
        <5>1. db' = db BY <2>5, <4>1 DEF SaveSignatures, SavesSignatures
        <5> QED BY <1>t, <3>1, <5>1 DEF StoredInv, Stored, SigTypes
      <4>2. CASE ~token
        <5>1. Len(scan.signatures) \in 0 .. Len(scan.signatures) BY <1>t DEF SigTypes
        <5>2. db' = saveDirSignatures(db, Folder, scan.signatures, Len(scan.signatures))
          BY <2>5, <4>2 DEF SaveSignatures, SavesSignatures
        <5> QED BY <3>1, <4>2, <5>1, <5>2, SavingKeepsStored
      <4> QED BY <4>1, <4>2
    <3>3. SigTypes' BY <1>t, <3>1, <3>2 DEF SigTypes
    <3>4. RegisteredInv' BY <1>t, <3>1, <3>2 DEF RegisteredInv, Scanning, Folder
    <3>5. VouchedInv' BY <1>t, <3>1 DEF VouchedInv, Folder
    <3> QED BY <3>2, <3>3, <3>4, <3>5 DEF SigInv
  <2>6. CASE Sweep
    <3>1. /\ phase = "saved" /\ phase' = "marked"
          /\ UNCHANGED <<tree, todo, scan, token, looked, deepened>>
      BY <2>6 DEF Sweep, ghosts
    <3>2. db'.sigs = db.sigs /\ db'.folders = db.folders
      BY <1>t, <2>6, RowStatements DEF Sweep
    <3>3. SigTypes' BY <1>t, <3>1, <3>2 DEF SigTypes
    <3>4. RegisteredInv' BY <1>t, <3>1, <3>2 DEF RegisteredInv, Scanning, Folder
    <3>5. StoredInv' BY <1>t, <3>1, <3>2 DEF StoredInv, Stored
    <3>6. VouchedInv' BY <1>t, <3>1 DEF VouchedInv, Folder
    <3> QED BY <3>3, <3>4, <3>5, <3>6 DEF SigInv
  <2> QED BY <1>1, <2>1, <2>2, <2>3, <2>4, <2>5, <2>6, BeginKeepsSigs DEF Advance
<1>2. CASE User
  <2>1. CASE Open
    <3>1. /\ ~Scanning /\ phase = "idle" /\ UNCHANGED <<tree, phase, todo, scan, looked, deepened>>
      BY <2>1 DEF Open, ghosts, ScanInv, WalkInv, ActiveInv, Scanning
    <3>2. CASE db.version \in {0, 1}
      <4>1. db'.folders = [f \in Folders |-> NoFolder] /\ db'.sigs = [f \in Folders |-> NoSigs]
        BY <1>t, <2>1, <3>2 DEF Open, migrate, createSchema, DbOk
      <4>2. NoSigs \in [Dirs -> SigRec] /\ \A d \in Dirs : ~NoSigs[d].stored
        BY DEF NoSigs, NoSig, SigRec
      <4>3. SigTypes' BY <1>t, <3>1, <4>1, <4>2 DEF SigTypes
      <4>4. RegisteredInv' BY <1>t, <3>1, <4>1 DEF RegisteredInv, NoFolder, Scanning
      <4>5. StoredInv' BY <4>1, <4>2 DEF StoredInv, Stored
      <4>6. scan'.signatures = <<>> BY <1>t, <3>1 DEF RegisteredInv
      <4>7. VouchedInv' BY <4>6 DEF VouchedInv
      <4> QED BY <4>3, <4>4, <4>5, <4>7 DEF SigInv
    <3>3. CASE db.version \notin {0, 1}
      <4>1. db'.folders = db.folders /\ db'.sigs = db.sigs
        BY <1>t, <2>1, <3>3 DEF Open, migrate, DbOk
      <4>2. scan'.signatures = <<>> /\ ~Scanning' /\ todo' = {}
        BY <1>t, <3>1 DEF RegisteredInv, Scanning
      <4> QED BY <3>1, <4>1, <4>2, RestKeepsSigs
    <3> QED BY <3>2, <3>3
  <2>2. CASE ScanAll
    <3>1. /\ phase = "idle" /\ phase' = "next" /\ todo' = {f \in Folders : db.folders[f].enabled}
          /\ UNCHANGED <<tree, db, scan, looked, deepened>>
      BY <2>2 DEF ScanAll, ghosts, baseFolders
    <3>2. scan'.signatures = <<>> /\ ~Scanning' /\ \A f \in todo' : db.folders[f].registered
      BY <1>t, <3>1 DEF RegisteredInv, Scanning
    <3> QED BY <3>1, <3>2, RestKeepsSigs
  <2>3. CASE Cancel
    <3>1. /\ token' /\ UNCHANGED <<tree, db, phase, todo, scan, looked, deepened>>
      BY <2>3 DEF Cancel, ghosts
    <3>2. SigTypes' /\ RegisteredInv' /\ StoredInv'
      BY <1>t, <3>1 DEF SigTypes, RegisteredInv, StoredInv, Stored, Scanning, Folder
    <3>3. VouchedInv' BY <1>t, <3>1 DEF VouchedInv, Folder
    <3> QED BY <3>2, <3>3 DEF SigInv
  <2>4. CASE Kill
    <3>1. EndScan(FALSE) /\ UNCHANGED <<tree, looked, deepened>> BY <2>4 DEF Kill
    <3>2. CASE UNCHANGED db BY <1>end, <3>1, <3>2
    <3>3. CASE /\ phase = "joined" /\ SavesSignatures
               /\ \E n \in Chunks : db' = saveDirSignatures(db, Folder, scan.signatures, n)
      BY <1>c, <1>save, <3>1, <3>3 DEF SavesSignatures
    <3> QED BY <2>4, <3>2, <3>3 DEF Kill
  <2>5. CASE SaveFails
    BY <1>c, <1>save, <2>5 DEF SaveFails
  <2>6. CASE SweepFails BY <1>end, <2>6 DEF SweepFails
  <2>7. ASSUME NEW f \in Folders, BeginFails(f) PROVE SigInv' BY <1>end, <2>7 DEF BeginFails
  <2> QED BY <1>2, <2>1, <2>2, <2>3, <2>4, <2>5, <2>6, <2>7, SettingKeepsSigs, WorkerKeepsSigs,
             DiskKeepsSigs DEF User
<1>3. ASSUME NEW w \in Workers, Step(w) PROVE SigInv'
  BY <1>3, WorkerKeepsSigs
<1>4. CASE UNCHANGED vars
  <2>1. SigTypes' /\ RegisteredInv' /\ StoredInv'
    BY <1>t, <1>4 DEF vars, SigTypes, RegisteredInv, StoredInv, Stored, Scanning, Folder
  <2>2. \A c : Ahead(c)' <=> Ahead(c) BY <1>4 DEF vars, Ahead, InHand
  <2>3. VouchedInv' BY <1>t, <1>4, <2>2 DEF vars, VouchedInv, Vouched, Folder
  <2> QED BY <2>1, <2>3 DEF SigInv
<1> QED BY <1>1, <1>2, <1>3, <1>4 DEF Next

-----------------------------------------------------------------------------
(* What makes a scan exact *)

\* The walk comes to e if it comes to anything: nothing above e stops it.
Arrived(e) ==
    /\ e \in Below(FolderRoot[Folder]) /\ (e # FolderRoot[Folder] => e \notin Passed)
    /\ \A x \in Between(Folder, e) \ {e} :
          /\ Visible(tree, x) /\ ~shouldSkip(Folder, x) /\ ~IsRepo(tree, x)
          /\ x # FolderRoot[Folder] => x \notin Passed
\* On a quiet tree every item of the walk is one it should come to.
ArrivedInv ==
    phase = "walk" /\ quiet =>
        /\ \A i \in 1 .. Len(scan.queue) : Arrived(scan.queue[i])
        /\ \A w \in InHand :
              /\ Arrived(worker[w].dir)
              /\ worker[w].at # "visit" => Admitted(w)
              /\ worker[w].at = "list" => worker[w].hadRepo = IsRepo(tree, worker[w].dir)

QuietInv == Scanning /\ quiet => steady = Reachable(tree, Folder, scan.depth)

\* A row of the folder that this scan has written, or is about to.
Written(d) == db.rows[d].base = Folder /\ db.rows[d].seen
Recorded(d) == Written(d) \/ d \in scan.pending
\* Nothing is recorded but what can be reached ...
FoundInv ==
    Scanning /\ quiet /\ ~pruned =>
        /\ scan.pending \subseteq steady
        /\ \A d \in Dirs : Written(d) => d \in steady /\ ~db.rows[d].missing
\* ... and all of that is, in the end.
CaughtInv ==
    phase = "walk" /\ quiet /\ ~pruned =>
        \A d \in steady :
            /\ \A w \in Workers : worker[w].at = "list" /\ worker[w].dir = d => Recorded(d)
            /\ ~token /\ ~scan.failed => Recorded(d) \/ OnTheWay(d)
KeptInv ==
    /\ phase \in {"joined", "saved", "marked"} /\ quiet /\ ~pruned /\ ~token =>
          \A d \in steady : Written(d)
    /\ phase = "marked" =>
          \A d \in Dirs : db.rows[d].base = Folder /\ ~db.rows[d].missing => db.rows[d].seen

ExactInv == ArrivedInv /\ QuietInv /\ FoundInv /\ CaughtInv /\ KeptInv

\* The walk starts at the base folder, which nothing is above ...
LEMMA NothingAboveRoot ==
    ASSUME NEW f \in Folders
    PROVE  /\ FolderRoot[f] \in Below(FolderRoot[f])
           /\ Between(f, FolderRoot[f]) \subseteq {FolderRoot[f]}
<1>1. FolderRoot[f] \in Dirs /\ FolderRoot[f] \in Path[FolderRoot[f]]
  BY ScannerAssumption, TreeAssumption
<1> QED BY <1>1, TreeAssumption DEF Between, Below

\* ... goes from a directory to its subdirectories ...
LEMMA ArrivesAtChild ==
    ASSUME Folder \in Folders, NEW e \in Dirs, Arrived(e), ~shouldSkip(Folder, e),
           Visible(tree, e), ~IsRepo(tree, e), NEW c \in Children(tree, e) \ Passed
    PROVE  Arrived(c)
<1>1. c \in Dirs /\ Parent[c] = e /\ c # e
  BY DEF Children
<1>2. Path[c] = {c} \cup Path[e]
  BY <1>1, TreeAssumption
<1>3. FolderRoot[Folder] \in Path[e] /\ (e # FolderRoot[Folder] => e \notin Passed)
  BY DEF Arrived, Below
<1>4. Between(Folder, c) \ {c} \subseteq Between(Folder, e)
  BY <1>2 DEF Between
<1>5. c \in Below(FolderRoot[Folder])
  BY <1>1, <1>2, <1>3 DEF Below
<1> QED BY <1>3, <1>4, <1>5 DEF Arrived

\* ... and records what can be reached.
LEMMA ArrivedIsReachable ==
    ASSUME Folder \in Folders, NEW e \in Dirs, Arrived(e), Depth(Folder, e) <= scan.depth,
           ~shouldSkip(Folder, e), IsRepo(tree, e)
    PROVE  e \in Reachable(tree, Folder, scan.depth)
<1>1. Visible(tree, e)
  BY DEF IsRepo
<1>2. \A x \in Between(Folder, e) :
         /\ Visible(tree, x) /\ ~shouldSkip(Folder, x) /\ (x # FolderRoot[Folder] => x \notin Passed)
         /\ x # e => ~IsRepo(tree, x)
  BY <1>1 DEF Arrived
<1> QED BY <1>2 DEF Reachable, Reaches, Arrived

\* What a step adds to the queue are subdirectories.
LEMMA QueueGrows ==
    ASSUME ScanInv, NEW w \in Workers, Step(w) \/ WorkerFails(w), NEW i \in 1 .. Len(scan'.queue)
    PROVE  \/ \E j \in 1 .. Len(scan.queue) : scan'.queue[i] = scan.queue[j]
           \/ /\ List(w) /\ Visible(tree, Here(w)) /\ ~worker[w].hadRepo
              /\ scan'.queue[i] \in Children(tree, Here(w)) \ Passed
<1>t. Types /\ ScanOk(scan) /\ scan.queue \in Seq(Dirs)
  BY DEF ScanInv, Types, ScanOk
<1>0. Takes(w) \/ GoesOn(w) \/ IsDone(w) \/ IsHome(w)
  BY WorkerEffects
<1>1. CASE Takes(w)
  <2>1. scan'.queue = Tail(scan.queue) /\ scan.queue # <<>> BY <1>1 DEF Takes
  <2>2. i + 1 \in 1 .. Len(scan.queue) /\ Tail(scan.queue)[i] = scan.queue[i + 1]
    BY <1>t, <2>1
  <2> QED BY <2>1, <2>2
<1>2. CASE scan'.queue = scan.queue BY <1>2
<1>3. CASE List(w)
  <2> DEFINE children == IF Visible(tree, Here(w)) /\ ~worker[w].hadRepo
                         THEN Children(tree, Here(w)) \ Passed ELSE {}
  <2>1. IsFiniteSet(children) /\ children \subseteq Dirs
    BY FS_Subset, FS_EmptySet, ScannerAssumption DEF Children
  <2>o. PICK order \in SetToSeqs(children) : \E sigs :
           Leaves(w, "pop", [scan EXCEPT !.queue = @ \o order, !.signatures = sigs])
    BY <1>3 DEF List
  <2>2. order \in Seq(children) BY <2>1, EveryElementQueued
  <2>3. scan'.queue = scan.queue \o order BY <1>t, <2>o DEF Leaves, ScanOk
  <2> HIDE DEF children
  <2>4. CASE i <= Len(scan.queue) BY <1>t, <2>2, <2>3, <2>4
  <2>5. CASE i > Len(scan.queue)
    <3>1. /\ Len(scan.queue) \in Nat /\ Len(order) \in Nat
          /\ Len(scan'.queue) = Len(scan.queue) + Len(order)
      BY <1>t, <2>2, <2>3
    <3>2. i - Len(scan.queue) \in 1 .. Len(order) BY <2>5, <3>1
    <3>3. scan'.queue[i] = order[i - Len(scan.queue)] BY <1>t, <2>2, <2>3, <3>1, <3>2
    <3>4. scan'.queue[i] \in children BY <2>2, <3>2, <3>3
    <3> QED BY <1>3, <3>4 DEF children
  <2> QED BY <1>t, <2>2, <2>3, <2>4, <2>5
<1> QED BY <1>0, <1>1, <1>2, <1>3, OnlyListQueues DEF GoesOn, IsHome

\* What a worker that has an item in hand after its step has just done.
LEMMA HandAfter ==
    ASSUME ScanInv, NEW w \in Workers, Step(w) \/ WorkerFails(w), worker'[w].at \in Busy
    PROVE  \/ /\ worker'[w].at = "visit"
              /\ \E i \in 1 .. Len(scan.queue) : scan.queue[i] = worker'[w].dir
           \/ /\ w \in InHand /\ worker'[w].dir = worker[w].dir
              /\ \/ StatDir(w) /\ worker'[w].at = "classify"
                 \/ /\ Classify(w) /\ worker[w].at = "classify" /\ worker'[w].at = "list"
                    /\ worker'[w].hadRepo = IsRepo(tree, worker[w].dir)
<1>t. Types /\ ScanOk(scan) /\ worker[w] \in WorkerRec /\ scan.queue \in Seq(Dirs)
  BY DEF ScanInv, Types, ScanOk
<1>0. Takes(w) \/ GoesOn(w) \/ IsDone(w) \/ IsHome(w)
  BY WorkerEffects
<1>1. CASE Takes(w)
  <2>1. 1 \in 1 .. Len(scan.queue) /\ scan.queue[1] = Head(scan.queue) BY <1>t, <1>1 DEF Takes
  <2> QED BY <1>1, <2>1 DEF Takes
<1>2. CASE GoesOn(w)
  <2>1. ~Pop(w) /\ ~GoHome(w) BY <1>2 DEF GoesOn, Pop, GoHome, At
  <2>2. ~(StopCancelled(w) \/ SkipItem(w) \/ Prune(w) \/ List(w) \/ WorkerFails(w))
    <3>1. StopCancelled(w) \/ SkipItem(w) \/ Prune(w) \/ List(w) \/ WorkerFails(w) =>
             \E to \in {"pop", "home"} : \E s : Leaves(w, to, s)
      BY DEF StopCancelled, SkipItem, Prune, List, WorkerFails
    <3>2. \A to, s : Leaves(w, to, s) => worker'[w].at = to
      BY <1>t DEF Leaves, Types, Idle
    <3> QED BY <1>2, <3>1, <3>2 DEF GoesOn
  <2>3. StatDir(w) => worker'[w].at = "classify"
    BY <1>t DEF StatDir, Types, WorkerRec
  <2>4. ASSUME Classify(w)
        PROVE  worker'[w].at = "list" /\ worker'[w].hadRepo = IsRepo(tree, worker[w].dir)
    <3> DEFINE r == [worker[w] EXCEPT !.at = "list", !.hadRepo = IsRepo(tree, Here(w))]
    <3>1. worker' = [worker EXCEPT ![w] = r] BY <2>4 DEF Classify
    <3>2. r.at = "list" /\ r.hadRepo = IsRepo(tree, Here(w)) BY <1>t DEF WorkerRec
    <3>3. worker'[w] = r BY <1>t, <3>1 DEF Types
    <3> QED BY <3>2, <3>3 DEF Here
  <2>5. w \in InHand /\ worker'[w].dir = worker[w].dir BY <1>2 DEF GoesOn, InHand, Busy
  <2>6. Classify(w) => worker[w].at = "classify" BY DEF Classify, At
  <2> QED BY <2>1, <2>2, <2>3, <2>4, <2>5, <2>6 DEF Step
<1> QED BY <1>0, <1>1, <1>2 DEF IsDone, IsHome, Busy

\* A worker's step comes to nothing it should not come to.
LEMMA WorkerKeepsArrived ==
    ASSUME ScanInv, ArrivedInv, NEW w \in Workers, Step(w) \/ WorkerFails(w), quiet, quiet'
    PROVE  ArrivedInv'
<1>1. /\ phase = "walk" /\ UNCHANGED <<phase, tree>> /\ SameScan
      /\ \A v \in Workers \ {w} : worker'[v] = worker[v]
  BY WorkerEffects
<1>2. Folder \in Folders /\ Folder' = Folder /\ scan'.depth = scan.depth /\ scan.queue \in Seq(Dirs)
  BY <1>1 DEF ScanInv, WalkInv, SteadyInv, Scanning, SameScan, Folder, Types, ScanOk
<1>3. /\ \A i \in 1 .. Len(scan.queue) : Arrived(scan.queue[i])
      /\ \A v \in InHand : /\ worker[v].dir \in Dirs /\ Arrived(worker[v].dir)
                           /\ worker[v].at # "visit" => Admitted(v)
                           /\ worker[v].at = "list" => worker[v].hadRepo = IsRepo(tree, worker[v].dir)
  BY <1>1 DEF ArrivedInv, ScanInv, WalkInv, ActiveInv
<1>4. ASSUME NEW i \in 1 .. Len(scan'.queue) PROVE Arrived(scan'.queue[i])
  <2>1. CASE \E j \in 1 .. Len(scan.queue) : scan'.queue[i] = scan.queue[j]
    BY <1>3, <2>1
  <2>2. CASE /\ List(w) /\ Visible(tree, Here(w)) /\ ~worker[w].hadRepo
             /\ scan'.queue[i] \in Children(tree, Here(w)) \ Passed
    <3>1. worker[w].at = "list" /\ w \in InHand BY <2>2 DEF List, At, InHand, Busy
    <3>2. /\ Here(w) \in Dirs /\ Arrived(Here(w)) /\ ~shouldSkip(Folder, Here(w))
          /\ ~IsRepo(tree, Here(w))
      BY <1>3, <2>2, <3>1 DEF Here, Admitted
    <3> QED BY <1>2, <2>2, <3>2, ArrivesAtChild
  <2> QED BY <2>1, <2>2, QueueGrows
<1>5. ASSUME NEW v \in Workers, worker'[v].at \in Busy
      PROVE  /\ Arrived(worker'[v].dir)
             /\ worker'[v].at # "visit" =>
                   Depth(Folder, worker'[v].dir) <= scan.depth /\ ~shouldSkip(Folder, worker'[v].dir)
             /\ worker'[v].at = "list" => worker'[v].hadRepo = IsRepo(tree, worker'[v].dir)
  <2>1. CASE v # w
    <3>1. v \in InHand /\ worker'[v] = worker[v] BY <1>1, <1>5, <2>1 DEF InHand
    <3> QED BY <1>3, <3>1 DEF Admitted, Here
  <2>2. CASE v = w
    <3>1. CASE /\ worker'[w].at = "visit"
               /\ \E i \in 1 .. Len(scan.queue) : scan.queue[i] = worker'[w].dir
      BY <1>3, <2>2, <3>1
    <3>2. CASE /\ w \in InHand /\ worker'[w].dir = worker[w].dir
               /\ StatDir(w) /\ worker'[w].at = "classify"
      BY <1>3, <2>2, <3>2 DEF StatDir, Admitted, Here
    <3>3. CASE /\ w \in InHand /\ worker'[w].dir = worker[w].dir
               /\ Classify(w) /\ worker[w].at = "classify" /\ worker'[w].at = "list"
               /\ worker'[w].hadRepo = IsRepo(tree, worker[w].dir)
      BY <1>3, <2>2, <3>3 DEF Admitted, Here
    <3> QED BY <1>5, <2>2, <3>1, <3>2, <3>3, HandAfter
  <2> QED BY <2>1, <2>2
<1>7. \A i \in 1 .. Len(scan'.queue) : Arrived(scan.queue[i])'
  BY <1>1, <1>2, <1>4 DEF Arrived
<1>8. ASSUME NEW v \in Workers, worker'[v].at \in Busy PROVE Arrived(worker[v].dir)'
  BY <1>1, <1>2, <1>5, <1>8 DEF Arrived
<1> QED BY <1>1, <1>2, <1>5, <1>7, <1>8 DEF ArrivedInv, InHand, Admitted, Here

\* A worker's step records only what can be reached, and leaves nothing of that behind.
LEMMA WorkerKeepsExact ==
    ASSUME ScanInv, ExactInv, NEW w \in Workers, Step(w) \/ WorkerFails(w)
    PROVE  ExactInv'
<1>1. /\ phase = "walk" /\ UNCHANGED <<phase, tree, token, steady>> /\ SameScan
      /\ \A v \in Workers \ {w} : worker'[v] = worker[v]
      /\ Takes(w) \/ GoesOn(w) \/ IsDone(w) \/ IsHome(w)
  BY WorkerEffects
<1>2. /\ Folder \in Folders /\ Folder' = Folder /\ scan'.depth = scan.depth /\ DbOk(db)
      /\ scan.pending \subseteq Dirs /\ Scanning /\ Scanning'
  BY <1>1 DEF ScanInv, WalkInv, SteadyInv, Scanning, SameScan, Folder, Types, ScanOk
<1>3. quiet' = quiet /\ (~Prune(w) => pruned' = pruned) /\ (Prune(w) => pruned')
  BY DEF Step, Pop, GoHome, StopCancelled, SkipItem, Prune, StatDir, Classify, List, WorkerFails, ghosts
<1>4. QuietInv' /\ KeptInv' /\ ArrivedInv'
  <2>1. QuietInv' BY <1>1, <1>2, <1>3 DEF ExactInv, QuietInv
  <2>2. KeptInv' BY <1>1 DEF KeptInv
  <2>3. ArrivedInv'
    BY <1>3, WorkerKeepsArrived DEF ExactInv, ArrivedInv
  <2> QED BY <2>1, <2>2, <2>3
<1>5. ASSUME quiet, ~pruned'
      PROVE  /\ ~pruned /\ ~Prune(w) /\ steady = Reachable(tree, Folder, scan.depth)
             /\ scan.pending \subseteq steady /\ steady \subseteq Dirs
             /\ \A d \in Dirs : Written(d) => d \in steady /\ ~db.rows[d].missing
  <2>1. ~Prune(w) /\ ~pruned BY <1>3, <1>5
  <2>2. steady = Reachable(tree, Folder, scan.depth) BY <1>2, <1>5 DEF ExactInv, QuietInv
  <2>3. steady \subseteq Dirs BY <2>2 DEF Reachable
  <2> QED BY <1>2, <1>5, <2>1, <2>2, <2>3 DEF ExactInv, FoundInv
<1>6. ASSUME quiet, ~pruned', Classify(w)
      PROVE  Recordable(w) \subseteq steady
  <2>1. worker[w].at = "classify" /\ w \in InHand BY <1>6 DEF Classify, At, InHand, Busy
  <2>2. Here(w) \in Dirs /\ Arrived(Here(w)) /\ Admitted(w)
    BY <1>1, <1>6, <2>1 DEF ExactInv, ArrivedInv, Here, ScanInv, WalkInv, ActiveInv
  <2>3. IsRepo(tree, Here(w)) => Here(w) \in Reachable(tree, Folder, scan.depth)
    BY <1>2, <2>2, ArrivedIsReachable DEF Admitted
  <2> QED BY <1>5, <1>6, <2>3 DEF Recordable
<1>7. ASSUME quiet, ~pruned'
      PROVE  /\ scan'.pending \subseteq steady
             /\ \A d \in Dirs : Written(d)' => d \in steady /\ ~db'.rows[d].missing
             /\ \A d \in Dirs : Recorded(d) => Recorded(d)'
             /\ Classify(w) => \A d \in Recordable(w) : Recorded(d)'
  <2>1. CASE ~Classify(w)
    <3>1. db' = db /\ scan'.pending = scan.pending BY <1>5, <1>7, <2>1, RecordEffects
    <3> QED BY <1>2, <1>5, <1>7, <2>1, <3>1 DEF Written, Recorded
  <2>2. CASE Classify(w) /\ db' = db /\ scan'.pending = Recordable(w)
    <3>1. scan.pending \subseteq Recordable(w) BY DEF Recordable
    <3> QED BY <1>2, <1>5, <1>6, <1>7, <2>2, <3>1 DEF Written, Recorded
  <2>3. CASE /\ Classify(w) /\ scan'.pending = {}
             /\ db' = upsertRepo(db, Folder, Recordable(w))
    <3>1. scan.pending \subseteq Recordable(w) BY DEF Recordable
    <3>2. Recordable(w) \subseteq steady BY <1>6, <1>7, <2>3
    <3>3. ASSUME NEW d \in Dirs, d \in Recordable(w) PROVE Written(d)' /\ ~db'.rows[d].missing
      BY <1>2, <2>3, <3>3, UpsertRows DEF Written
    <3>4. ASSUME NEW d \in Dirs, d \notin Recordable(w) PROVE db'.rows[d] = db.rows[d]
      BY <1>2, <2>3, <3>4, UpsertRows
    <3> QED BY <1>2, <1>5, <1>7, <2>3, <3>1, <3>2, <3>3, <3>4 DEF Written, Recorded
  <2> QED BY <2>1, <2>2, <2>3, RecordEffects
<1>8. FoundInv'
  BY <1>1, <1>3, <1>7 DEF FoundInv
<1>9. CaughtInv'
  <2> SUFFICES ASSUME quiet, ~pruned', NEW d \in steady
               PROVE  /\ \A v \in Workers : worker'[v].at = "list" /\ worker'[v].dir = d => Recorded(d)'
                      /\ ~token /\ ~scan'.failed => Recorded(d)' \/ OnTheWay(d)'
    BY <1>1, <1>3 DEF CaughtInv
  <2>1. d \in Dirs /\ IsRepo(tree, d) BY <1>5 DEF Reachable
  <2>2. /\ \A v \in Workers : worker[v].at = "list" /\ worker[v].dir = d => Recorded(d)
        /\ ~token /\ ~scan.failed => Recorded(d) \/ OnTheWay(d)
    BY <1>1, <1>5 DEF ExactInv, CaughtInv
  <2>3. ASSUME NEW v \in Workers, worker'[v].at = "list", worker'[v].dir = d PROVE Recorded(d)'
    <3>1. CASE v # w BY <1>1, <1>7, <2>1, <2>2, <2>3, <3>1
    <3>2. CASE v = w
      <4>1. Classify(w) /\ worker[w].dir = d BY <2>3, <3>2, HandAfter DEF Busy
      <4>2. d \in Recordable(w) BY <2>1, <4>1 DEF Recordable, Here
      <4> QED BY <1>7, <4>1, <4>2
    <3> QED BY <3>1, <3>2
  <2>4. ASSUME ~token, ~scan'.failed PROVE Recorded(d)' \/ OnTheWay(d)'
    <3>1. ~scan.failed BY <1>1, <2>4 DEF Takes, GoesOn, IsDone, IsHome
    <3>2. CASE Recorded(d) BY <1>7, <2>1, <3>2
    <3>3. CASE List(w) /\ Here(w) = d
      <4>1. Recorded(d) BY <2>2, <3>3 DEF List, At, Here
      <4> QED BY <3>2, <4>1
    <3> QED BY <1>5, <2>2, <2>4, <3>1, <3>2, <3>3, WayIsKept
  <2> QED BY <2>3, <2>4
<1> QED BY <1>4, <1>8, <1>9 DEF ExactInv

LEMMA BeginKeepsExact ==
    ASSUME ScanInv, NEW f \in Folders, NEW m \in Modes, BeginScan(f, m)
    PROVE  ExactInv'
<1>1. /\ phase = "next" /\ phase' = "walk" /\ UNCHANGED <<tree, worker>>
      /\ scan' = [NoScan EXCEPT !.folder = f, !.mode = m, !.depth = db.folders[f].depth,
                              !.queue = <<FolderRoot[f]>>]
      /\ steady' = Reachable(tree, f, db.folders[f].depth)
  BY DEF BeginScan, NextFolder
<1>2. /\ Folder' = f /\ scan'.depth = db.folders[f].depth /\ scan'.queue = <<FolderRoot[f]>>
      /\ scan'.pending = {}
  BY <1>1 DEF NoScan, Folder
<1>3. DbOk(db) /\ \A w \in Workers : worker[w].at = "pop"
  BY <1>1 DEF ScanInv, Types, WalkInv, ActiveInv, Scanning
<1>4. InHand' = {}
  BY <1>1, <1>3 DEF InHand, Busy
<1>5. \A d \in Dirs : ~Written(d)'
  <2>1. db' = beginScan(db, f) \/ db' = clearDirSignatures(beginScan(db, f), f) BY DEF BeginScan
  <2>2. db'.rows = beginScan(db, f).rows BY <1>3, <2>1, BeginRows
  <2> QED BY <1>2, <1>3, <2>2, BeginRows DEF Written
<1>6. ArrivedInv'
  <2>1. Arrived(FolderRoot[Folder])' BY <1>2, NothingAboveRoot DEF Arrived
  <2>2. \A i \in 1 .. Len(scan'.queue) : scan'.queue[i] = FolderRoot[f] BY <1>2
  <2> QED BY <1>2, <1>4, <2>1, <2>2 DEF ArrivedInv, Arrived
<1>7. QuietInv' /\ FoundInv' /\ KeptInv'
  BY <1>1, <1>2, <1>5 DEF QuietInv, FoundInv, KeptInv
<1>8. CaughtInv'
  <2>1. ASSUME NEW d \in steady' PROVE OnTheWay(d)'
    <3>1. FolderRoot[f] \in Between(f, d) BY <1>1, <2>1, WayBegins
    <3>2. 1 \in 1 .. Len(scan'.queue) /\ scan'.queue[1] = FolderRoot[f] BY <1>2
    <3> QED BY <1>2, <3>1, <3>2 DEF OnTheWay, Ahead
  <2> QED BY <1>1, <1>3, <2>1 DEF CaughtInv
<1> QED BY <1>6, <1>7, <1>8 DEF ExactInv

\* After the join every repository that can be reached is written, and the sweep marks
\* the rest.
LEMMA FinishKeepsExact ==
    ASSUME ScanInv, ExactInv, Join \/ SaveSignatures \/ Sweep
    PROVE  ExactInv'
<1>1. /\ phase \in {"walk", "joined", "saved"} /\ phase' \in {"joined", "saved", "marked"}
      /\ UNCHANGED <<tree, scan, worker, token, steady, quiet, pruned>>
  BY DEF Join, SaveSignatures, Sweep, ghosts
<1>2. /\ Folder \in Folders /\ Folder' = Folder /\ DbOk(db) /\ Scanning /\ Scanning'
      /\ scan.pending \subseteq Dirs
      /\ steady \subseteq Reachable(tree, Folder, scan.depth) /\ steady \subseteq Dirs
  BY <1>1 DEF ScanInv, WalkInv, SteadyInv, Scanning, Folder, Types, ScanOk, Reachable
<1>3. ArrivedInv' /\ QuietInv' /\ CaughtInv'
  BY <1>1, <1>2 DEF ExactInv, ArrivedInv, QuietInv, CaughtInv
<1>4. CASE Join
  <2>1. /\ phase = "walk" /\ phase' = "joined" /\ ~scan.failed
        /\ db' = upsertRepo(db, Folder, scan.pending)
        /\ \A w \in Workers : worker[w].at = "home"
    BY <1>4 DEF Join, flushPending, Folder
  <2>2. ASSUME NEW d \in Dirs
        PROVE  /\ d \in scan.pending => Written(d)' /\ ~db'.rows[d].missing
               /\ d \notin scan.pending => db'.rows[d] = db.rows[d]
    BY <1>2, <2>1, UpsertRows DEF Written
  <2>3. ~token => \A d : ~OnTheWay(d)
    BY <2>1, ScannerAssumption DEF ScanInv, WalkInv, HomeInv, OnTheWay, Ahead
  <2>4. FoundInv'
    BY <1>1, <1>2, <2>2 DEF ExactInv, FoundInv, Written
  <2>5. KeptInv'
    <3> SUFFICES ASSUME quiet, ~pruned, ~token, NEW d \in steady PROVE Written(d)'
      BY <1>1, <2>1 DEF KeptInv
    <3>1. Recorded(d) BY <2>1, <2>3 DEF ExactInv, CaughtInv
    <3> QED BY <1>2, <2>2, <3>1 DEF Recorded, Written
  <2> QED BY <1>3, <2>4, <2>5 DEF ExactInv
<1>5. CASE SaveSignatures
  <2>1. db'.rows = db.rows /\ phase = "joined" /\ phase' = "saved"
    BY <1>2, <1>5, SaveRows DEF SaveSignatures
  <2>2. FoundInv' /\ KeptInv'
    BY <1>1, <1>2, <2>1 DEF ExactInv, FoundInv, KeptInv, Written
  <2> QED BY <1>3, <2>2 DEF ExactInv
<1>6. CASE Sweep
  <2>1. phase = "saved" /\ phase' = "marked" /\ db' = markMissing(db, Folder)
    BY <1>6 DEF Sweep
  <2>2. \A d \in Dirs :
           /\ db'.rows[d].missing =
                 (db.rows[d].missing \/ (db.rows[d].base = Folder /\ ~db.rows[d].seen))
           /\ db'.rows[d].base = db.rows[d].base /\ db'.rows[d].seen = db.rows[d].seen
    BY <1>2, <2>1, MarkRows
  <2>3. FoundInv'
    BY <1>1, <1>2, <2>2 DEF ExactInv, FoundInv, Written
  <2>4. KeptInv'
    BY <1>1, <1>2, <2>1, <2>2 DEF ExactInv, KeptInv, Written
  <2> QED BY <1>3, <2>3, <2>4 DEF ExactInv
<1> QED BY <1>4, <1>5, <1>6

\* ExactInv is inductive, given ScanInv.
LEMMA ExactStep ==
    ASSUME ScanInv, ExactInv, [Next]_vars
    PROVE  ExactInv'
<1>1. CASE Rests
  BY <1>1 DEF Rests, Scanning, ExactInv, ArrivedInv, QuietInv, FoundInv, CaughtInv, KeptInv
<1>2. CASE Cancel
  <2>1. token' /\ UNCHANGED <<tree, db, phase, scan, worker, steady, quiet, pruned>>
    BY <1>2 DEF Cancel, ghosts
  <2>2. Folder' = Folder /\ Scanning' = Scanning /\ InHand' = InHand
    BY <2>1 DEF Folder, Scanning, InHand
  <2>3. ArrivedInv' /\ QuietInv' BY <2>1, <2>2 DEF ExactInv, ArrivedInv, QuietInv, Arrived, Admitted, Here
  <2>4. FoundInv' /\ CaughtInv' /\ KeptInv'
    BY <2>1, <2>2 DEF ExactInv, FoundInv, CaughtInv, KeptInv, Written, Recorded
  <2> QED BY <2>3, <2>4 DEF ExactInv
<1>3. ASSUME NEW t \in [Dirs -> DirState], NEW D \in SUBSET Dirs, Disk(t, D) PROVE ExactInv'
  <2>1. phase' = phase /\ (Scanning => ~quiet') /\ Scanning' = Scanning
    BY <1>3 DEF Disk, Scanning
  <2>2. db'.rows = db.rows /\ Folder' = Folder
    BY <1>3, DiskLeaves DEF ScanInv
  <2> QED BY <2>1, <2>2 DEF ExactInv, ArrivedInv, QuietInv, FoundInv, CaughtInv, KeptInv, Scanning
<1>4. CASE UNCHANGED vars
  <2>1. Folder' = Folder /\ Scanning' = Scanning /\ InHand' = InHand
    BY <1>4 DEF vars, Folder, Scanning, InHand
  <2>2. ArrivedInv' /\ QuietInv'
    BY <1>4, <2>1 DEF vars, ExactInv, ArrivedInv, QuietInv, Arrived, Admitted, Here
  <2>3. FoundInv' /\ CaughtInv' /\ KeptInv'
    BY <1>4, <2>1 DEF vars, ExactInv, FoundInv, CaughtInv, KeptInv, Written, Recorded, OnTheWay, Ahead
  <2> QED BY <2>2, <2>3 DEF ExactInv
<1> QED BY <1>1, <1>2, <1>3, <1>4, StepKinds, WorkerKeepsExact, BeginKeepsExact, FinishKeepsExact

-----------------------------------------------------------------------------
(* Theorems *)

\* workerLoop's wait for the others (Scanner.cpp) is never a wait for nobody: whichever
\* way iterations end, activeWorkers counts the items in hand, for any number of workers.
THEOREM NobodySleepsAlone == Spec => []SleepersHaveSomebody
<1>1. ScanInv => SleepersHaveSomebody
  <2> SUFFICES ASSUME ScanInv, phase = "walk", scan.active > 0
               PROVE  \E w \in Workers : worker[w].at \in {"visit", "classify", "list"}
    BY DEF SleepersHaveSomebody
  <2>1. scan.active = Cardinality(InHand) BY DEF ScanInv, WalkInv, ActiveInv
  <2>2. InHand # {} BY <2>1, FS_EmptySet
  <2> QED BY <2>2 DEF InHand, Busy
<1> QED BY <1>1, ScanInvariant, PTL

\* The sweep never marks a repository that could be reached all through the scan
\* (markMissing after Scanner::scan's join), for any tree, base folders, workers and any
\* number of scans, changes on disk, failures and kills.
THEOREM SweepSparesTheSteady == Spec => NoFalseMissing
<1>1. ScanInv /\ [Next]_vars =>
         [\A d \in Dirs : ~db.rows[d].missing /\ db'.rows[d].missing => d \notin steady]_vars
  <2> SUFFICES ASSUME ScanInv, [Next]_vars, NEW d \in Dirs, ~db.rows[d].missing,
                      db'.rows[d].missing, d \in steady
               PROVE  FALSE
    OBVIOUS
  <2>1. Sweep BY IndexStep DEF KeepsListed
  <2>2. phase = "saved" /\ ~token /\ db' = markMissing(db, Folder) BY <2>1 DEF Sweep
  <2>3. DbOk(db) /\ Folder \in Folders
    BY <2>2 DEF ScanInv, Types, WalkInv, SteadyInv, Scanning
  <2>4. Seen(d) BY <2>2 DEF ScanInv, WalkInv, SeenInv
  <2> QED BY <2>2, <2>3, <2>4, MarkRows DEF Seen
<1> QED BY <1>1, ScanInvariant, PTL DEF Spec, NoFalseMissing

\* What makes pruning sound (RepoIndexDb.h, setBaseFolderMaxDepth; Scanner.cpp, where the
\* signatures are written after the join): a directory that a stored signature lets the
\* next scan skip has had every due subdirectory come to, for any tree, number of
\* workers, size of a chunk and any number of changes, cancellations and kills.
THEOREM PruningIsSound == Spec => []SignatureCoversChildren
<1>1. Init => SigInv
  <2> SUFFICES ASSUME Init PROVE SigInv
    OBVIOUS
  <2>1. PICK v \in 0 .. kSchemaVersion + 1, f \in StartFolders :
           db = [addBaseFolder(NewDb, f, StartDepth) EXCEPT !.version = v]
    BY DEF Init
  <2>2. /\ db.sigs = [g \in Folders |-> NoSigs]
        /\ db.folders = [[g \in Folders |-> NoFolder] EXCEPT
                            ![f] = [registered |-> TRUE, enabled |-> TRUE, depth |-> StartDepth]]
    BY <2>1 DEF addBaseFolder, NewDb, createSchema
  <2>3. NoSigs \in [Dirs -> SigRec] /\ \A d \in Dirs : ~NoSigs[d].stored
    BY DEF NoSigs, NoSig, SigRec
  <2>4. scan.signatures = <<>> /\ <<>> \in Seq(PendingRec) BY DEF Init, NoScan
  <2>5. SigTypes BY <2>2, <2>3, <2>4 DEF SigTypes, Init
  <2>6. \A g \in Folders : db.folders[g].enabled => db.folders[g].registered
    BY <2>2 DEF NoFolder
  <2>7. RegisteredInv BY <2>4, <2>6 DEF RegisteredInv, Init, Scanning
  <2>8. StoredInv /\ VouchedInv BY <2>2, <2>3, <2>4 DEF StoredInv, Stored, VouchedInv
  <2> QED BY <2>5, <2>7, <2>8 DEF SigInv
<1>2. ScanInv /\ SigInv /\ [Next]_vars => SigInv'
  BY SigStep
<1>3. SigInv => SignatureCoversChildren
  BY DEF SigInv, StoredInv, Stored, SignatureCoversChildren, Due
<1> QED BY <1>1, <1>2, <1>3, ScanInvariant, PTL DEF Spec

\* A scan that ran to its end on a quiet tree and pruned nothing leaves the folder's part
\* of the index exact (Scanner::scan to markMissing), for any tree, base folders, workers
\* and batch size, and whatever the index held before, other folders' rows included.
THEOREM CompleteScanIsExact == Spec => []ScanIsExact
<1>1. Init => ExactInv
  BY DEF Init, Scanning, ExactInv, ArrivedInv, QuietInv, FoundInv, CaughtInv, KeptInv
<1>2. ScanInv /\ ExactInv /\ [Next]_vars => ExactInv'
  BY ExactStep
<1>3. ScanInv /\ ExactInv => ScanIsExact
  <2> SUFFICES ASSUME ScanInv, ExactInv, phase = "marked", quiet, ~pruned, ~token
               PROVE  {d \in RowsOf(db, Folder) : ~db.rows[d].missing} =
                         Reachable(tree, Folder, scan.depth)
    BY DEF ScanIsExact
  <2>1. steady = Reachable(tree, Folder, scan.depth) BY DEF ExactInv, QuietInv, Scanning
  <2>2. steady \subseteq Dirs BY <2>1 DEF Reachable
  <2>3. \A d \in steady : Written(d) BY DEF ExactInv, KeptInv
  <2>4. \A d \in Dirs : Written(d) => d \in steady /\ ~db.rows[d].missing
    BY DEF ExactInv, FoundInv, Scanning
  <2>5. \A d \in Dirs : db.rows[d].base = Folder /\ ~db.rows[d].missing => db.rows[d].seen
    BY DEF ExactInv, KeptInv
  <2> QED BY <2>1, <2>2, <2>3, <2>4, <2>5 DEF RowsOf, Written
<1> QED BY <1>1, <1>2, <1>3, ScanInvariant, PTL DEF Spec
=============================================================================
