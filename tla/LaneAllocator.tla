--------------------------- MODULE LaneAllocator ---------------------------
(***************************************************************************)
(* gbm::LaneAllocator: which columns of the graph are taken, and in which  *)
(* colour.  An allocator is [used, colors, high]; each operator is a       *)
(* method.  Colours are palette indices, neighbours on the hue wheel.      *)
(***************************************************************************)
EXTENDS Integers, FiniteSets, FiniteSetsExt

CONSTANTS
    kMaxLanes,      \* 48 in the code
    kPaletteSize,   \* 12 in the code; colour 0 is the trunk's
    Hash            \* [oid -> Nat], ObjectId::hash()

ASSUME LaneAssumption == kMaxLanes \in Nat \ {0} /\ kPaletteSize \in Nat /\ kPaletteSize > 1

Lanes == 0..kMaxLanes - 1
kOverflowLane == kMaxLanes
isOverflow(lane) == lane >= kMaxLanes
kNeighborWindow == 5
kMinColorSeparation == 3

NoLanes == [used |-> {}, colors |-> [lane \in Lanes |-> 0], high |-> 0]

lowestFreeAtOrAfter(l, start) ==
    LET free == {lane \in Lanes \ l.used : lane >= start}
    IN  IF free = {} THEN kOverflowLane ELSE Min(free)
allocateLeftmost(l)     == lowestFreeAtOrAfter(l, 0)
allocateAfter(l, after) == IF isOverflow(after) THEN kOverflowLane
                           ELSE lowestFreeAtOrAfter(l, after + 1)
\* markUsed(); reserve() is the same.
markUsed(l, lane) ==
    IF isOverflow(lane) THEN l
    ELSE [l EXCEPT !.used = @ \cup {lane}, !.high = Max({@, lane + 1})]
release(l, lane) == [l EXCEPT !.used = @ \ {lane}]

colorDistance(a, b) == LET d == IF a > b THEN a - b ELSE b - a IN Min({d, kPaletteSize - d})
requiredSeparation(columns) ==
    CASE columns = 1 -> kMinColorSeparation [] columns = 2 -> 2
      [] OTHER -> IF columns <= kNeighborWindow THEN 1 ELSE 0
penaltyWeight(columns) == CASE columns = 1 -> 100 [] columns = 2 -> 10 [] OTHER -> 1

\* The shortfall of a candidate against a lane `columns` away.
shortfall(candidate, neighbor, columns) ==
    LET missing == requiredSeparation(columns) - colorDistance(candidate, neighbor)
    IN  IF missing <= 0 THEN 0 ELSE missing * penaltyWeight(columns)

\* neighborColor(): the shortfall against the lane `delta` columns away, if it is drawn.
Toward(l, lane, candidate, delta, columns) ==
    IF lane + delta \in l.used THEN shortfall(candidate, l.colors[lane + delta], columns) ELSE 0

\* mutant: a lane on the right does not constrain the colour.
LeftOnly(l, lane, candidate) ==
    LET Left(n) == Toward(l, lane, candidate, -n, n)
    IN  Left(1) + Left(2) + Left(3) + Left(4) + Left(5)

\* crowdingOf() over sideColors(): kNeighborWindow columns on both sides.
crowdingOf(l, lane, candidate) ==
    LET Sides(n) == Toward(l, lane, candidate, -n, n) + Toward(l, lane, candidate, n, n)
    IN  Sides(1) + Sides(2) + Sides(3) + Sides(4) + Sides(5)

\* colorForSeed(): the first candidate that crowds nothing, going outwards from the
\* hash's colour, or else the first of the least crowded.
colorForSeed(l, lane, oid) ==
    LET choices == kPaletteSize - 1
        base    == Hash[oid] % choices
        Offset(step) == IF step % 2 = 0 THEN step \div 2 ELSE -((step + 1) \div 2)
        Candidate(step) == 1 + ((base + Offset(step) + choices * 2) % choices)
        Cost(step) == crowdingOf(l, lane, Candidate(step))
        least == Min({Cost(step) : step \in 0..choices - 1})
    IN  IF lane = 0 THEN 0
        ELSE Candidate(Min({step \in 0..choices - 1 : Cost(step) = least}))

\* The lane is taken and seed() gives it a colour.
seed(l, lane, oid) ==
    LET m == markUsed(l, lane)
    IN  IF isOverflow(lane) THEN l ELSE [m EXCEPT !.colors[lane] = colorForSeed(m, lane, oid)]
colorOf(l, lane) == IF isOverflow(lane) THEN 0 ELSE l.colors[lane]
=============================================================================
