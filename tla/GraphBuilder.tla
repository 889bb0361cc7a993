---------------------------- MODULE GraphBuilder ----------------------------
(***************************************************************************)
(* gbm::HistoryProvider::walk() feeding gbm::GraphBuilder line by line, and *)
(* the gbm::GraphSnapshot it publishes after any line.                     *)
(*                                                                         *)
(* Commits are numbered in the order rev-list --date-order prints them, so *)
(* a parent has a larger number than its children; the last number stands  *)
(* for a commit outside the walk.  A slot of parentPool and the edge made   *)
(* for it have the same index, and pending_ is the edges whose parent has  *)
(* not been emitted.                                                       *)
(***************************************************************************)
EXTENDS LaneAllocator, Sequences, SequencesExt

CONSTANTS
    Commits,        \* commits rev-list prints
    MaxParents,
    Queries,        \* [trunkTip, maxRows, linear] of a query, and the bad lines it meets
    kBucketRows     \* rows per bucket of the edge index; 64 in the code

ASSUME GraphAssumption ==
    /\ Commits \in Nat /\ MaxParents \in Nat /\ kBucketRows \in Nat \ {0}
    /\ Hash \in [1..Commits + 1 -> Nat]

Outside == Commits + 1
Boundary == 0       \* kRowBoundary; rows are numbered from 1
None == 0           \* no commit

VARIABLES
    trunkTip, maxRows, linear,  \* the query; linear: isLinearWalk()
    line,           \* lines read
    malformed,      \* lines that cannot be parsed, still to come
    held,           \* linear walk: the record kept back, <<oid, parents>> or <<>>
    lanes,          \* lanes_
    rows,           \* snapshot_.rows and oids: [oid, lane, color, offset, boundary]
    edges,          \* snapshot_.edges and the parent each goes to
    state,          \* "walking", "truncated", "complete"
    given           \* ghost: the parents each row was added with

vars == <<trunkTip, maxRows, linear, line, malformed, held, lanes, rows, edges, state, given>>

\* pending_[oid], and laneRefCount_[lane].
Pending(E, oid) == {i \in DOMAIN E : E[i].parentRow = Boundary /\ E[i].to = oid}
laneRefCount(E, lane) == Cardinality({i \in DOMAIN E : E[i].parentRow = Boundary /\ E[i].lane = lane})

Init ==
    /\ \E q \in Queries : trunkTip = q.trunkTip /\ maxRows = q.maxRows /\ linear = q.linear
                        /\ malformed = q.malformed
    /\ line = 0 /\ held = <<>> /\ rows = <<>> /\ edges = <<>> /\ given = <<>>
    /\ lanes = IF trunkTip = None THEN NoLanes ELSE markUsed(NoLanes, 0)
    /\ state = "walking"

----------------------------------------------------------------------------
\* GraphSnapshot: what is published after any line (snapshot()), with parentPool read
\* off the edges.
End(e) == IF e.parentRow = Boundary THEN e.childRow + 1 ELSE e.parentRow

\* parentCountOf(), parentsOf(): the pool from this row's offset to the next one's.
parentsOf(row) ==
    LET end == IF row < Len(rows) THEN rows[row + 1].offset ELSE Len(edges)
    IN  [i \in 1..end - rows[row].offset |-> edges[rows[row].offset + i].parentRow]

\* mutant: an edge that ends on the bucket's first row is passed over.
BucketAfter(bucket) ==
    Min({i \in 1..Len(edges) + 1 :
           i = Len(edges) + 1 \/ End(edges[i]) > 1 + bucket * kBucketRows})

\* finalizeIndices(): the first edge that is not closed above the bucket.
edgeBucket(bucket) ==
    Min({i \in 1..Len(edges) + 1 :
           i = Len(edges) + 1 \/ End(edges[i]) >= 1 + bucket * kBucketRows})

\* edgesInRange(): forward from the bucket of the first row, up to the first edge that
\* starts below the range.
edgesInRange(first, last) ==
    LET from == edgeBucket((first - 1) \div kBucketRows)
        past == Min({i \in from..Len(edges) + 1 :
                       i = Len(edges) + 1 \/ edges[i].childRow > last})
    IN  {i \in from..past - 1 : End(edges[i]) >= first}

\* bucketMaxLane_ and maxLaneInRange(): whole buckets from their maxima, the others row
\* by row, and the edges that cross.
Bucket(b) == {r \in DOMAIN rows : (r - 1) \div kBucketRows = b}
maxLaneInRange(first, last) ==
    LET whole == {b \in 0..Len(rows) \div kBucketRows :
                    1 + b * kBucketRows >= first /\ (b + 1) * kBucketRows <= last}
        inside == UNION {Bucket(b) : b \in whole}
        partly == {r \in first..last : r \notin inside}
    IN  Max({rows[r].lane : r \in inside \cup partly} \cup
            UNION {{edges[i].lane, edges[i].childLane} : i \in edgesInRange(first, last)})

----------------------------------------------------------------------------
\* chooseLane(): a first-parent edge before any other, then the lowest lane.
chooseLane(E, incoming) ==
    LET first == {i \in incoming : E[i].kind = "FirstParent"}
    IN  Min({E[i].lane : i \in IF first # {} THEN first ELSE incoming})

\* patchIncoming(): the edges that waited for this row end here.
patchIncoming(E, incoming, row) ==
    [i \in DOMAIN E |-> IF i \in incoming THEN [E[i] EXCEPT !.parentRow = row] ELSE E[i]]

\* mutant: the commit's own column is given back with the others.
ReleaseOwn(l, E, incoming, lane) ==
    [l EXCEPT !.used = @ \ {n \in {E[i].lane : i \in incoming} : laneRefCount(E, n) = 0}]

\* Every other incoming column ends here, unless something else descends in it.
ReleaseColumns(l, E, incoming, lane) ==
    [l EXCEPT !.used = @ \ {n \in {E[i].lane : i \in incoming} \ {lane} : laneRefCount(E, n) = 0}]

\* createEdge() and its PendingEdge.
createEdge(E, row, childLane, lane, color, kind, to) ==
    Append(E, [childRow |-> row, parentRow |-> Boundary, lane |-> lane, childLane |-> childLane,
               color |-> color, kind |-> kind, to |-> to])

\* The second and later parents, one by one: into the lowest column that already waits
\* for the parent, or else into a new one to the right.
Branch(g, row, lane, parent, kind) ==
    LET waiting == Pending(g.E, parent)
        target  == IF waiting # {} THEN Min({g.E[i].lane : i \in waiting})
                   ELSE allocateAfter(g.l, lane)
        l       == IF waiting # {} THEN g.l ELSE seed(g.l, target, parent)
    IN  [l |-> l, E |-> createEdge(g.E, row, lane, target, colorOf(l, target), kind, parent)]

Branches(g, row, lane, parents, kind) ==
    LET after[n \in 0..Len(parents)] ==
            IF n = 0 THEN g ELSE Branch(after[n - 1], row, lane, parents[n], kind)
    IN  after[Len(parents)]

\* add() below the row cap: the lanes, rows and edges after it.
Added(oid, parents) ==
    LET row      == Len(rows) + 1
        incoming == Pending(edges, oid)
        lane     == IF oid = trunkTip THEN 0
                    ELSE IF incoming = {} THEN allocateLeftmost(lanes)
                    ELSE chooseLane(edges, incoming)
        seeded   == IF oid = trunkTip \/ incoming = {} THEN seed(lanes, lane, oid) ELSE lanes
        color    == colorOf(seeded, lane)
        patched  == patchIncoming(edges, incoming, row)
        freed    == ReleaseColumns(seeded, patched, incoming, lane)
        kind     == IF Len(parents) > 2 THEN "Octopus" ELSE "MergeParent"
        start    == [l |-> freed,
                     E |-> createEdge(patched, row, lane, lane, color, "FirstParent", Head(parents))]
        drawn    == Branches(start, row, lane, Tail(parents), kind)
        ended    == [l |-> IF laneRefCount(patched, lane) = 0 THEN release(freed, lane) ELSE freed,
                     E |-> patched]
        done     == IF parents = <<>> THEN ended ELSE drawn
    IN  /\ lanes' = done.l /\ edges' = done.E
        /\ rows' = Append(rows, [oid |-> oid, lane |-> lane, color |-> color,
                                 offset |-> Len(edges), boundary |-> FALSE])
        /\ given' = Append(given, parents)

\* add(), and the walk stops once the cap is hit.
add(oid, parents) ==
    IF Len(rows) >= maxRows
    THEN state' = "truncated" /\ UNCHANGED <<lanes, rows, edges, given>>
    ELSE Added(oid, parents) /\ state' = state

\* A line of rev-list: a linear walk adds the record before it, with this one as its
\* parent.  --no-merges leaves such a record one parent at most.
Line(parents) ==
    /\ state = "walking" /\ line < Commits /\ line' = line + 1
    /\ IF linear
       THEN /\ Len(parents) <= 1 /\ held' = <<line', parents>>
            /\ IF held = <<>> THEN UNCHANGED <<lanes, rows, edges, given, state>>
               ELSE add(held[1], <<line'>>)
       ELSE add(line', parents) /\ UNCHANGED held
    /\ UNCHANGED <<trunkTip, maxRows, linear, malformed>>

\* parseRevListLine() cannot read it: the row is left out, the walk goes on.
Malformed ==
    /\ state = "walking" /\ line < Commits /\ malformed > 0
    /\ line' = line + 1 /\ malformed' = malformed - 1
    /\ UNCHANGED <<trunkTip, maxRows, linear, held, lanes, rows, edges, state, given>>

\* finish(): edges that still wait become stubs and their rows are flagged.
finish(R, E) ==
    [r \in DOMAIN R |-> [R[r] EXCEPT
        !.boundary = @ \/ \E i \in DOMAIN E : E[i].parentRow = Boundary /\ E[i].childRow = r]]

\* The end of the output: the record kept back is added as it is, and the builder
\* finishes.
EndLast ==
    /\ state \in {"walking", "truncated"} /\ held # <<>> /\ (line = Commits \/ state = "truncated")
    /\ held' = <<>> /\ add(held[1], held[2])
    /\ UNCHANGED <<trunkTip, maxRows, linear, line, malformed>>
Finish ==
    /\ state \in {"walking", "truncated"} /\ held = <<>> /\ (line = Commits \/ state = "truncated")
    /\ rows' = finish(rows, edges) /\ state' = "complete"
    /\ UNCHANGED <<trunkTip, maxRows, linear, line, malformed, held, lanes, edges, given>>

ParentLists == UNION {{s \in [1..n -> line + 2..Outside] : IsInjective(s)} : n \in 0..MaxParents}
Next == Malformed \/ EndLast \/ Finish \/ \E parents \in ParentLists : Line(parents)
Spec == Init /\ [][Next]_vars

----------------------------------------------------------------------------
(* Properties *)

Emitted(oid) == \E r \in DOMAIN rows : rows[r].oid = oid
RowOf(oid) == IF Emitted(oid) THEN CHOOSE r \in DOMAIN rows : rows[r].oid = oid ELSE Boundary
\* Where the line of an edge runs: below its child, above its parent if that is known.
Passes(e, row) == e.childRow < row /\ (e.parentRow # Boundary => row < e.parentRow)

\* GraphBuilder.h, invariants 1 and 2, and GraphBuilderTest's I1 and I3, at every
\* published snapshot and for every history: no line runs through another commit's
\* dot, a first-parent chain never moves right, and lane 0 is HEAD's branch tip's until
\* it has been emitted and is where it is then.
LinesAreReadable ==
    /\ \A i \in DOMAIN edges, r \in DOMAIN rows :
          Passes(edges[i], r) /\ ~isOverflow(edges[i].lane) => rows[r].lane # edges[i].lane
    /\ \A i \in DOMAIN edges :
          edges[i].kind = "FirstParent" /\ edges[i].parentRow # Boundary =>
              rows[edges[i].parentRow].lane <= edges[i].childLane
    /\ trunkTip # None => \A r \in DOMAIN rows :
          /\ rows[r].oid = trunkTip => rows[r].lane = 0
          /\ rows[r].lane = 0 => Emitted(trunkTip) /\ RowOf(trunkTip) <= r

\* GraphBuilderTest's InvariantAdjacentColumnsNeverLookAlikeAtAnyRow, for every history:
\* lines that run side by side below a row are a quarter of the hue wheel apart, however
\* lanes were freed and taken again.  (The dot of a commit without lines is not compared.)
Below(row) == {i \in DOMAIN edges : edges[i].childRow <= row /\ ~isOverflow(edges[i].lane)
                  /\ (edges[i].parentRow = Boundary \/ row < edges[i].parentRow)}
ColumnsLookApart ==
    \A r \in DOMAIN rows : \A i \in Below(r), j \in Below(r) :
        edges[j].lane = edges[i].lane + 1 =>
            colorDistance(edges[i].color, edges[j].color) >= kMinColorSeparation

\* The published arrays say what rev-list said: a row's parents are the rows of the
\* commits it was added with (or the boundary), an edge is found from every row it
\* crosses, the gutter is wide enough, and a finished walk flags exactly the rows that
\* have a parent outside it.
SnapshotIsTheHistory ==
    /\ \A r \in DOMAIN rows :
          parentsOf(r) = [i \in DOMAIN given[r] |-> RowOf(given[r][i])]
    /\ \A first \in DOMAIN rows : \A last \in {first, Len(rows)} :
          LET crossing == {i \in DOMAIN edges : edges[i].childRow <= last /\ End(edges[i]) >= first}
              drawn == {rows[r].lane : r \in first..last} \cup {edges[i].lane : i \in crossing}
          IN  /\ edgesInRange(first, last) = crossing
              /\ maxLaneInRange(first, last) >= Max(drawn)
    /\ state = "complete" =>
          \A r \in DOMAIN rows : rows[r].boundary = (\E i \in DOMAIN given[r] : ~Emitted(given[r][i]))
=============================================================================
