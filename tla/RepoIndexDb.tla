---------------------------- MODULE RepoIndexDb ----------------------------
(***************************************************************************)
(* gbm::RepoIndexDb: the repository index, one operator per statement the  *)
(* program runs.  Every call holds the connection lock for its duration,   *)
(* so each is one step of its caller.                                      *)
(*                                                                         *)
(* A row keeps `seen`: last_seen_gen is its base folder's generation, which *)
(* is all that markMissing() asks.  A signature keeps `same`: the mtime it  *)
(* stores is still the directory's.                                        *)
(***************************************************************************)
EXTENDS Integers, Sequences

CONSTANTS
    Dirs,           \* directories that may exist
    Folders,        \* base folders the user may register
    FolderRoot,     \* [Folders -> Dirs]
    Parent,         \* [Dirs -> Dirs]; the top directory is its own parent
    NameStarts      \* <<d, e>>: siblings, and e's name starts with d's

NoRow    == [base |-> "none", seen |-> FALSE, missing |-> FALSE]
NoSig    == [stored |-> FALSE, same |-> FALSE, hadRepo |-> FALSE]
NoFolder == [registered |-> FALSE, enabled |-> FALSE, depth |-> 0]
NoSigs   == [d \in Dirs |-> NoSig]
kSchemaVersion == 3

Path[d \in Dirs] == IF Parent[d] = d THEN {d} ELSE {d} \cup Path[Parent[d]]
Below(d) == {e \in Dirs : d \in Path[e]}

\* Directories form a tree: the path to d goes on from the path to its parent, holds the
\* paths to what is above d, leads back to nothing below d, and goes from a directory to
\* one of its children.
ASSUME TreeAssumption ==
    \A d \in Dirs :
        /\ Path[d] = {d} \cup Path[Parent[d]] /\ Path[d] \subseteq Dirs
        /\ \A e \in Path[d] \ {d} :
              /\ Path[e] \subseteq Path[d] /\ d \notin Path[e]
              /\ \E c \in Path[d] \ {e} : Parent[c] = e /\ e \in Path[c]

RowsOf(db, f) == {d \in Dirs : db.rows[d].base = f}
\* The rows in S changed by Op.
Update(db, S, Op(_)) ==
    [db EXCEPT !.rows = [d \in Dirs |-> IF d \in S THEN Op(@[d]) ELSE @[d]]]

\* createSchema(): kSchema and its version.
createSchema(db) ==
    [db EXCEPT !.version = kSchemaVersion, !.folders = [f \in Folders |-> NoFolder],
               !.rows = [d \in Dirs |-> NoRow], !.sigs = [f \in Folders |-> NoSigs]]

\* migrate(), a transaction: schema 1 forgets its base folders, and the cascade their
\* rows and signatures; schema 2 gains a column; a newer one is refused (by open()).
migrate(db) ==
    CASE db.version \in {0, 1} -> createSchema(db)
      [] OTHER -> [db EXCEPT !.version = kSchemaVersion]
supported(db) == db.version <= kSchemaVersion

\* addBaseFolder(): a folder that is registered already is enabled and takes the
\* depth; its signatures stay.
addBaseFolder(db, f, depth) ==
    [db EXCEPT !.folders[f] = [registered |-> TRUE, enabled |-> TRUE, depth |-> depth]]

\* removeBaseFolder(): ON DELETE CASCADE takes the rows and the signatures.
removeBaseFolder(db, f) ==
    Update([db EXCEPT !.folders[f] = NoFolder, !.sigs[f] = NoSigs],
           RowsOf(db, f), LAMBDA r : NoRow)

\* setBaseFolderMaxDepth(), a transaction.
setBaseFolderMaxDepth(db, f, depth) ==
    [db EXCEPT !.folders[f].depth = depth, !.sigs[f] = NoSigs]

setBaseFolderEnabled(db, f, on) == [db EXCEPT !.folders[f].enabled = on]

\* baseFolders(), the enabled ones: what gbm_discovery_scan_all() goes through.
baseFolders(db) == {f \in Folders : db.folders[f].enabled}

\* beginScan(): a new generation, so no row of the folder has been seen in it.
beginScan(db, f) == Update(db, RowsOf(db, f), LAMBDA r : [r EXCEPT !.seen = FALSE])

clearDirSignatures(db, f) == [db EXCEPT !.sigs[f] = NoSigs]

\* upsertRepo(): the row is the scanning folder's, whoever found it first.
upsertRepo(db, f, dirs) ==
    Update(db, dirs, LAMBDA r : [base |-> f, seen |-> TRUE, missing |-> FALSE])

\* The rows `work_dir LIKE path%` selects: the directory's, the ones below it, and
\* those of siblings whose name continues its name.
Matching(d) == Below(d) \cup UNION {Below(e) : e \in {x \in Dirs : <<d, x>> \in NameStarts}}

\* mutant: the subtree is skipped and its rows are left behind.
TouchNothing(db, f, d) == db

touchReposUnder(db, f, d) ==
    Update(db, RowsOf(db, f) \cap Matching(d), LAMBDA r : [r EXCEPT !.seen = TRUE])

\* dirSignature() = what the scan compares: an unchanged directory that was no
\* repository itself.
dirSignature(db, f, d) == db.sigs[f][d]

\* saveDirSignature() for the signatures s[1..n].
saveDirSignatures(db, f, s, n) ==
    LET Last(d) == {i \in 1..n : s[i].dir = d}
    IN  [db EXCEPT !.sigs[f] = [d \in Dirs |->
            IF Last(d) = {} THEN @[d]
            ELSE LET i == CHOOSE i \in Last(d) : \A j \in Last(d) : j <= i
                 IN  [stored |-> TRUE, same |-> s[i].same, hadRepo |-> s[i].hadRepo]]]

\* markMissing(): a soft delete; the rows come back when a scan sees them.
markMissing(db, f) ==
    Update(db, {d \in RowsOf(db, f) : ~db.rows[d].seen},
           LAMBDA r : [r EXCEPT !.missing = TRUE])
=============================================================================
