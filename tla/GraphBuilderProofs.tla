------------------------- MODULE GraphBuilderProofs -------------------------
(***************************************************************************)
(* The graph of any history, however many commits, parents, columns and    *)
(* rows per bucket: what GraphBuilder.h promises of the layout, and that   *)
(* the published arrays are the history.                                   *)
(*                                                                         *)
(* Tidy ties the allocator to the edges that wait for a parent: the column *)
(* of each is in use, has its colour, and leads to one commit.  It is kept *)
(* by each parent of a merge in turn (Branches) and by the columns that    *)
(* end at a row (ReleaseColumns), so the line of another commit never runs *)
(* through a dot (LineInv).  Vivid is Tidy's part about colours: seed()    *)
(* meets at most two neighbours, which cannot rule out eleven colours, and *)
(* a shortfall beside a lane outweighs all others.  SlotInv and EndInv say *)
(* which edges are a row's and where each ends.                            *)
(***************************************************************************)
EXTENDS GraphBuilder, FiniteSetTheorems, SequenceTheorems, WellFoundedInduction, TLAPS

\* A set of naturals that is not empty has a least element.
LEMMA LeastOf ==
    ASSUME NEW S \in SUBSET Nat, S # {}
    PROVE  \E m \in S : \A n \in S : m <= n
<1> DEFINE R == OpToRel(<, Nat)
<1>1. IsWellFoundedOn(R, Nat)
  BY NatLessThanWellFounded
<1>2. PICK m \in S : \A n \in S : <<n, m>> \notin R
  <2> HIDE DEF R
  <2> QED BY <1>1, WFMin
<1>3. ASSUME NEW n \in S PROVE m <= n
  <2>1. ~(n < m) BY <1>2 DEF OpToRel
  <2> QED BY <2>1
<1> QED BY <1>3

LEMMA MinIs ==
    ASSUME NEW S \in SUBSET Nat, S # {}
    PROVE  Min(S) \in S /\ \A n \in S : Min(S) <= n
BY LeastOf DEF Min

\* A bounded one has a greatest.
LEMMA MaxIs ==
    ASSUME NEW b \in Nat, NEW S \in SUBSET (0..b), S # {}
    PROVE  Max(S) \in S /\ \A n \in S : n <= Max(S)
<1> DEFINE T == {b - n : n \in S}
<1>1. T \in SUBSET Nat /\ T # {}
  <2>1. ASSUME NEW n \in S PROVE b - n \in Nat OBVIOUS
  <2>2. PICK n \in S : TRUE OBVIOUS
  <2> QED BY <2>1, <2>2
<1>2. PICK t \in T : \A n \in T : t <= n
  <2> HIDE DEF T
  <2> QED BY <1>1, LeastOf
<1>3. PICK m \in S : t = b - m OBVIOUS
<1>4. ASSUME NEW n \in S PROVE n <= m
  <2>1. b - n \in T OBVIOUS
  <2>2. t <= b - n BY <1>2, <2>1
  <2> QED BY <1>3, <2>2
<1> QED BY <1>4 DEF Max

-----------------------------------------------------------------------------
(* LaneAllocator *)

Lane == 0..kMaxLanes
Colour == 0..kPaletteSize - 1
Allocator == [used : SUBSET Lanes, colors : [Lanes -> Colour], high : Nat]

\* A lane handed out was free, lies where it was asked for, and is the first there.
LEMMA FreeLane ==
    ASSUME NEW l \in Allocator, NEW start \in Nat
    PROVE  LET n == lowestFreeAtOrAfter(l, start) IN
           /\ n \in Lane
           /\ ~isOverflow(n) => n \in Lanes \ l.used /\ start <= n
           /\ \A k \in Lanes : start <= k /\ k < n => k \in l.used
<1> DEFINE free == {lane \in Lanes \ l.used : lane >= start}
           n == lowestFreeAtOrAfter(l, start)
<1>1. CASE free = {}
  <2>1. n = kMaxLanes BY <1>1 DEF lowestFreeAtOrAfter, kOverflowLane
  <2> QED BY <1>1, <2>1, LaneAssumption DEF Lane, Lanes, isOverflow
<1>2. CASE free # {}
  <2>1. free \in SUBSET Nat BY LaneAssumption DEF Lanes
  <2>2. n = Min(free) BY <1>2 DEF lowestFreeAtOrAfter
  <2>3. n \in free /\ \A k \in free : n <= k
    <3> HIDE DEF free, n
    <3> QED BY <1>2, <2>1, <2>2, MinIs
  <2> QED BY <2>3, LaneAssumption DEF Lane, Lanes, isOverflow
<1> QED BY <1>1, <1>2

LEMMA MarkedLane ==
    ASSUME NEW l \in Allocator, NEW n \in Lanes
    PROVE  /\ markUsed(l, n) \in Allocator
           /\ markUsed(l, n).used = l.used \cup {n}
           /\ markUsed(l, n).colors = l.colors
<1>1. ~isOverflow(n) /\ n \in Nat BY LaneAssumption DEF isOverflow, Lanes
<1> DEFINE h == Max({l.high, n + 1})
<1>2. h \in Nat
  BY <1>1 DEF Max, Allocator
<1>3. markUsed(l, n) = [l EXCEPT !.used = l.used \cup {n}, !.high = h]
  BY <1>1 DEF markUsed
<1> HIDE DEF h
<1> QED BY <1>2, <1>3 DEF Allocator

\* Hue distance is a distance: symmetric, and at most either way round the wheel.
LEMMA Distance ==
    ASSUME NEW a \in Colour, NEW b \in Colour
    PROVE  /\ colorDistance(a, b) \in Nat
           /\ colorDistance(a, b) = colorDistance(b, a)
           /\ LET d == IF a > b THEN a - b ELSE b - a
              IN  colorDistance(a, b) = IF d <= kPaletteSize - d THEN d ELSE kPaletteSize - d
<1> DEFINE d == IF a > b THEN a - b ELSE b - a
           e == kPaletteSize - d
<1>1. d \in Nat /\ e \in Nat /\ d = IF b > a THEN b - a ELSE a - b
  BY LaneAssumption DEF Colour
<1>2. colorDistance(a, b) = Min({d, e})
  BY DEF colorDistance
<1>3. colorDistance(b, a) = Min({d, e})
  BY <1>1 DEF colorDistance
<1> HIDE DEF d, e
<1>4. Min({d, e}) \in {d, e} /\ Min({d, e}) <= d /\ Min({d, e}) <= e
  <2>1. {d, e} \in SUBSET Nat /\ {d, e} # {} BY <1>1
  <2> QED BY <2>1, MinIs
<1>5. Min({d, e}) = IF d <= e THEN d ELSE e BY <1>1, <1>4
<1> QED BY <1>1, <1>2, <1>3, <1>5 DEF d, e

\* What a neighbour can add to a candidate's penalty, by how far away it is.
LEMMA TowardBounds ==
    ASSUME NEW l \in Allocator, NEW n \in Lanes, NEW c \in Colour, NEW delta \in Int,
           NEW columns \in 1..5
    PROVE  /\ Toward(l, n, c, delta, columns) \in Nat
           /\ columns = 2 => Toward(l, n, c, delta, columns) <= 20
           /\ columns > 2 => Toward(l, n, c, delta, columns) <= 1
           /\ columns = 1 /\ n + delta \in l.used =>
                 IF colorDistance(c, l.colors[n + delta]) >= kMinColorSeparation
                 THEN Toward(l, n, c, delta, columns) = 0
                 ELSE Toward(l, n, c, delta, columns) >= 100
           /\ n + delta \notin l.used => Toward(l, n, c, delta, columns) = 0
<1>1. CASE n + delta \notin l.used
  BY <1>1 DEF Toward
<1>2. CASE n + delta \in l.used
  <2> DEFINE k == l.colors[n + delta]
             d == colorDistance(c, k)
             missing == requiredSeparation(columns) - d
  <2>1. k \in Colour BY <1>2 DEF Allocator
  <2>2. d \in Nat BY <2>1, Distance
  <2>3. Toward(l, n, c, delta, columns) = IF missing <= 0 THEN 0 ELSE missing * penaltyWeight(columns)
    BY <1>2 DEF Toward, shortfall
  <2> HIDE DEF k, d
  <2>4. CASE columns = 1
    BY <1>2, <2>2, <2>3, <2>4 DEF requiredSeparation, penaltyWeight, kMinColorSeparation, d, k
  <2>5. CASE columns = 2
    BY <1>2, <2>2, <2>3, <2>5 DEF requiredSeparation, penaltyWeight
  <2>6. CASE columns > 2
    BY <1>2, <2>2, <2>3, <2>6 DEF requiredSeparation, penaltyWeight, kNeighborWindow
  <2> QED BY <2>4, <2>5, <2>6
<1> QED BY <1>1, <1>2

\* A step of crowding against a lane directly beside outweighs all the rest of the
\* window, which penaltyWeight()'s comment claims.
LEMMA CrowdingIsLexicographic ==
    ASSUME NEW l \in Allocator, NEW n \in Lanes, NEW c \in Colour
    PROVE  LET Clear(k) == k \in l.used => colorDistance(c, l.colors[k]) >= kMinColorSeparation
           IN  /\ crowdingOf(l, n, c) \in Nat
               /\ Clear(n - 1) /\ Clear(n + 1) <=> crowdingOf(l, n, c) < 100
<1> DEFINE T(delta, columns) == Toward(l, n, c, delta, columns)
           Clear(k) == k \in l.used => colorDistance(c, l.colors[k]) >= kMinColorSeparation
           a1 == T(-1, 1)  b1 == T(1, 1)  a2 == T(-2, 2)  b2 == T(2, 2)  a3 == T(-3, 3)
           b3 == T(3, 3)   a4 == T(-4, 4) b4 == T(4, 4)   a5 == T(-5, 5) b5 == T(5, 5)
           left == Clear(n - 1)
           right == Clear(n + 1)
<1>1. crowdingOf(l, n, c) = (a1 + b1) + (a2 + b2) + (a3 + b3) + (a4 + b4) + (a5 + b5)
  BY DEF crowdingOf
<1>2. /\ a1 \in Nat /\ (IF left THEN a1 = 0 ELSE a1 >= 100)
      /\ b1 \in Nat /\ (IF right THEN b1 = 0 ELSE b1 >= 100)
  <2>1. n + (-1) = n - 1 /\ n \in Nat BY LaneAssumption DEF Lanes
  <2>2. -1 \in Int /\ 1 \in Int /\ 1 \in 1..5 OBVIOUS
  <2> QED BY <2>1, <2>2, TowardBounds
<1>3. a2 \in 0..20 /\ b2 \in 0..20
  <2>1. -2 \in Int /\ 2 \in Int /\ 2 \in 1..5 OBVIOUS
  <2>2. a2 \in Nat /\ b2 \in Nat BY <2>1, TowardBounds
  <2>3. a2 <= 20 /\ b2 <= 20 BY <2>1, TowardBounds
  <2> HIDE DEF a2, b2
  <2> QED BY <2>2, <2>3
<1>4. a3 \in 0..1 /\ b3 \in 0..1
  <2>1. -3 \in Int /\ 3 \in Int /\ 3 \in 1..5 OBVIOUS
  <2>2. a3 \in Nat /\ b3 \in Nat BY <2>1, TowardBounds
  <2>3. a3 <= 1 /\ b3 <= 1 BY <2>1, TowardBounds
  <2> HIDE DEF a3, b3
  <2> QED BY <2>2, <2>3
<1>5. a4 \in 0..1 /\ b4 \in 0..1
  <2>1. -4 \in Int /\ 4 \in Int /\ 4 \in 1..5 OBVIOUS
  <2>2. a4 \in Nat /\ b4 \in Nat BY <2>1, TowardBounds
  <2>3. a4 <= 1 /\ b4 <= 1 BY <2>1, TowardBounds
  <2> HIDE DEF a4, b4
  <2> QED BY <2>2, <2>3
<1>6. a5 \in 0..1 /\ b5 \in 0..1
  <2>1. -5 \in Int /\ 5 \in Int /\ 5 \in 1..5 OBVIOUS
  <2>2. a5 \in Nat /\ b5 \in Nat BY <2>1, TowardBounds
  <2>3. a5 <= 1 /\ b5 <= 1 BY <2>1, TowardBounds
  <2> HIDE DEF a5, b5
  <2> QED BY <2>2, <2>3
<1> HIDE DEF a1, b1, a2, b2, a3, b3, a4, b4, a5, b5, left, right
<1>7. crowdingOf(l, n, c) \in Nat
  BY <1>1, <1>2, <1>3, <1>4, <1>5, <1>6
<1>8. left /\ right <=> crowdingOf(l, n, c) < 100
  BY <1>1, <1>2, <1>3, <1>4, <1>5, <1>6
<1> QED BY <1>7, <1>8 DEF left, right

\* A colour that is chosen is one of the palette; lane 0 has the trunk's.
LEMMA SeedColour ==
    ASSUME NEW l \in Allocator, NEW n \in Lanes, NEW oid \in 1..Outside
    PROVE  LET Clear(c, k) == k \in l.used => colorDistance(c, l.colors[k]) >= kMinColorSeparation
           IN  /\ colorForSeed(l, n, oid) \in Colour
               /\ n = 0 => colorForSeed(l, n, oid) = 0
               /\ kPaletteSize = 12 /\ n # 0 => \A c \in 1..11 : Clear(c, n - 1) /\ Clear(c, n + 1) =>
                     Clear(colorForSeed(l, n, oid), n - 1) /\ Clear(colorForSeed(l, n, oid), n + 1)
<1> DEFINE choices == kPaletteSize - 1
           base    == Hash[oid] % choices
           Offset(step) == IF step % 2 = 0 THEN step \div 2 ELSE -((step + 1) \div 2)
           Candidate(step) == 1 + ((base + Offset(step) + choices * 2) % choices)
           Cost(step) == crowdingOf(l, n, Candidate(step))
           least == Min({Cost(step) : step \in 0..choices - 1})
           chosen == Min({step \in 0..choices - 1 : Cost(step) = least})
           Clear(c, k) == k \in l.used => colorDistance(c, l.colors[k]) >= kMinColorSeparation
<1>1. colorForSeed(l, n, oid) = IF n = 0 THEN 0 ELSE Candidate(chosen)
  BY DEF colorForSeed
<1>2. choices \in Nat \ {0} /\ base \in Nat
  BY LaneAssumption, GraphAssumption DEF Outside
<1>3. \A step \in 0..choices - 1 : Candidate(step) \in 1..choices
  BY <1>2
<1>4. \A step \in 0..choices - 1 : Candidate(step) \in Colour
  BY <1>2, <1>3 DEF Colour
<1>5. \A step \in 0..choices - 1 : Cost(step) \in Nat
  BY <1>4, CrowdingIsLexicographic
<1> HIDE DEF Candidate, base
<1>6. least \in {Cost(step) : step \in 0..choices - 1} /\ \A step \in 0..choices - 1 : least <= Cost(step)
  <2> DEFINE S == {Cost(step) : step \in 0..choices - 1}
  <2>1. S \in SUBSET Nat BY <1>5
  <2>2. 0 \in 0..choices - 1
    <3> HIDE DEF choices
    <3> QED BY <1>2
  <2>3. S # {} BY <2>2
  <2>4. Min(S) \in S /\ \A k \in S : Min(S) <= k
    <3> HIDE DEF S
    <3> QED BY <2>1, <2>3, MinIs
  <2> QED BY <2>4
<1>7. chosen \in 0..choices - 1 /\ Cost(chosen) = least
  <2> DEFINE S == {step \in 0..choices - 1 : Cost(step) = least}
  <2>1. S \in SUBSET Nat OBVIOUS
  <2>2. S # {} BY <1>6
  <2>3. Min(S) \in S
    <3> HIDE DEF S
    <3> QED BY <2>1, <2>2, MinIs
  <2> QED BY <2>3
<1>8. n # 0 => colorForSeed(l, n, oid) = Candidate(chosen) BY <1>1
<1> HIDE DEF least, chosen
<1>9. colorForSeed(l, n, oid) \in Colour /\ (n = 0 => colorForSeed(l, n, oid) = 0)
  <2>1. 0 \in Colour BY LaneAssumption DEF Colour
  <2> QED BY <1>1, <1>4, <1>7, <2>1
<1>10. ASSUME kPaletteSize = 12, n # 0,
              NEW c \in 1..11, Clear(c, n - 1), Clear(c, n + 1)
       PROVE  Clear(colorForSeed(l, n, oid), n - 1) /\ Clear(colorForSeed(l, n, oid), n + 1)
  <2>1. choices = 11 /\ base \in 0..10
    <3>1. Hash[oid] \in Nat BY GraphAssumption DEF Outside
    <3>2. choices = 11 BY <1>10
    <3>3. base = Hash[oid] % 11 BY <3>2 DEF base
    <3> QED BY <3>1, <3>2, <3>3
  <2>2. PICK step \in 0..10 : Candidate(step) = c
    <3> DEFINE d == c - 1 - base
               e == IF d > 5 THEN d - 11 ELSE IF d < -5 THEN d + 11 ELSE d
               s == IF e >= 0 THEN 2 * e ELSE -(2 * e) - 1
    <3>1. e \in -5..5 /\ s \in 0..10 /\ Offset(s) = e BY <2>1
    <3>2. (base + e + 22) % 11 = c - 1 BY <2>1
    <3>3. Candidate(s) = c
      <4> HIDE DEF s, e
      <4> QED BY <2>1, <3>1, <3>2 DEF Candidate
    <3> QED BY <3>1, <3>3
  <2>3. c \in Colour BY <1>10 DEF Colour
  <2>4. Cost(step) < 100 /\ Cost(step) \in Nat
    BY <1>10, <2>2, <2>3, CrowdingIsLexicographic
  <2>5. Cost(chosen) < 100
    BY <1>5, <1>6, <1>7, <2>1, <2>4
  <2>6. Candidate(chosen) \in Colour BY <1>4, <1>7
  <2>7. Clear(Candidate(chosen), n - 1) /\ Clear(Candidate(chosen), n + 1)
    BY <2>5, <2>6, CrowdingIsLexicographic
  <2> QED BY <1>8, <1>10, <2>7
<1> QED BY <1>9, <1>10

\* A seeded lane is in use and has a colour; an overflowing one is not kept.
LEMMA SeedLane ==
    ASSUME NEW l \in Allocator, NEW n \in Lane, NEW oid \in 1..Outside
    PROVE  /\ seed(l, n, oid) \in Allocator
           /\ isOverflow(n) => seed(l, n, oid) = l
           /\ ~isOverflow(n) =>
                 /\ n \in Lanes
                 /\ seed(l, n, oid).used = l.used \cup {n}
                 /\ seed(l, n, oid).colors =
                       [l.colors EXCEPT ![n] = colorForSeed(markUsed(l, n), n, oid)]
<1>1. CASE isOverflow(n)
  BY <1>1 DEF seed
<1>2. CASE ~isOverflow(n)
  <2>1. n \in Lanes BY <1>2, LaneAssumption DEF isOverflow, Lane, Lanes
  <2> DEFINE m == markUsed(l, n)
             c == colorForSeed(m, n, oid)
  <2>2. m \in Allocator /\ m.used = l.used \cup {n} /\ m.colors = l.colors
    BY <2>1, MarkedLane
  <2>3. c \in Colour
    <3> HIDE DEF m
    <3> QED BY <2>1, <2>2, SeedColour
  <2>4. seed(l, n, oid) = [m EXCEPT !.colors[n] = c]
    BY <1>2 DEF seed
  <2> HIDE DEF m, c
  <2>5. [m EXCEPT !.colors[n] = c] = [m EXCEPT !.colors = [m.colors EXCEPT ![n] = c]]
    BY <2>2 DEF Allocator
  <2>6. [m.colors EXCEPT ![n] = c] \in [Lanes -> Colour]
    BY <2>2, <2>3 DEF Allocator
  <2>7. /\ seed(l, n, oid) \in Allocator
        /\ seed(l, n, oid).used = m.used
        /\ seed(l, n, oid).colors = [m.colors EXCEPT ![n] = c]
    BY <2>2, <2>4, <2>5, <2>6 DEF Allocator
  <2> QED BY <1>2, <2>1, <2>2, <2>7 DEF m, c
<1> QED BY <1>1, <1>2

\* With twelve colours there is always one a quarter turn away from two others, the
\* trunk's left aside.
LEMMA RoomForAColour ==
    ASSUME kPaletteSize = 12, NEW a \in Colour, NEW b \in Colour
    PROVE  \E c \in 1..11 : colorDistance(c, a) >= 3 /\ colorDistance(c, b) >= 3
<1> DEFINE Far(c, k) == (c >= k + 3 /\ c <= k + 9) \/ (k >= c + 3 /\ k <= c + 9)
<1>1. ASSUME NEW c \in 1..11, NEW k \in Colour, Far(c, k) PROVE colorDistance(c, k) >= 3
  <2>1. c \in Colour BY DEF Colour
  <2> DEFINE d == IF c > k THEN c - k ELSE k - c
  <2>2. colorDistance(c, k) = IF d <= 12 - d THEN d ELSE 12 - d BY <2>1, Distance
  <2>3. d \in Int /\ d >= 3 /\ d <= 9 BY <1>1, <2>1 DEF Colour
  <2> HIDE DEF d
  <2> QED BY <2>2, <2>3
<1>2. \E c \in 1..11 : Far(c, a) /\ Far(c, b)
  <2>1. a \in 0..11 /\ b \in 0..11 BY DEF Colour
  <2> DEFINE Both(c) == Far(c, a) /\ Far(c, b)
  <2>2. \/ Both(1) \/ Both(2) \/ Both(3) \/ Both(4) \/ Both(5) \/ Both(6)
        \/ Both(7) \/ Both(8) \/ Both(9) \/ Both(10) \/ Both(11)
    BY <2>1
  <2> HIDE DEF Far
  <2> QED BY <2>2
<1> QED BY <1>1, <1>2

\* Lanes side by side look apart.  Lane 1 is apart from the trunk's colour even while
\* lane 0 is free, since that is the colour lane 0 will have.
Vivid(l) ==
    /\ l.colors[0] = 0
    /\ kPaletteSize = 12 =>
          /\ \A n \in l.used : n + 1 \in l.used =>
                colorDistance(l.colors[n], l.colors[n + 1]) >= kMinColorSeparation
          /\ 1 \in l.used => colorDistance(0, l.colors[1]) >= kMinColorSeparation

\* seed() keeps it so, if lane 1 is only taken beside lane 0.
LEMMA SeedIsVivid ==
    ASSUME NEW l \in Allocator, NEW n \in Lanes, NEW oid \in 1..Outside, Vivid(l),
           n = 1 => 0 \in l.used
    PROVE  Vivid(seed(l, n, oid))
<1> DEFINE m == markUsed(l, n)
           c == colorForSeed(m, n, oid)
           k == seed(l, n, oid)
<1>1. m \in Allocator /\ m.used = l.used \cup {n} /\ m.colors = l.colors
  BY MarkedLane
<1>2. /\ k.used = l.used \cup {n}
      /\ k.colors = [l.colors EXCEPT ![n] = c]
  <2>1. ~isOverflow(n) /\ n \in Lane BY LaneAssumption DEF isOverflow, Lane, Lanes
  <2> QED BY <2>1, SeedLane
<1>3. l.colors \in [Lanes -> Colour] /\ l.used \in SUBSET Lanes BY DEF Allocator
<1>4. c \in Colour /\ (n = 0 => c = 0)
  <2> HIDE DEF m
  <2> QED BY <1>1, SeedColour
<1>5. 0 \in Lanes /\ n \in Nat /\ Lanes \subseteq Nat BY LaneAssumption DEF Lanes
<1>6. ASSUME kPaletteSize = 12, n # 0
      PROVE  /\ n - 1 \in l.used => colorDistance(c, l.colors[n - 1]) >= kMinColorSeparation
             /\ n + 1 \in l.used => colorDistance(c, l.colors[n + 1]) >= kMinColorSeparation
  <2>1. 0 \in Colour BY LaneAssumption DEF Colour
  <2> DEFINE a == IF n - 1 \in l.used THEN l.colors[n - 1] ELSE 0
             b == IF n + 1 \in l.used THEN l.colors[n + 1] ELSE 0
  <2>2. a \in Colour /\ b \in Colour BY <1>3, <2>1
  <2>3. PICK w \in 1..11 : colorDistance(w, a) >= 3 /\ colorDistance(w, b) >= 3
    <3> HIDE DEF a, b
    <3> QED BY <1>6, <2>2, RoomForAColour
  <2>4. n - 1 # n /\ n + 1 # n BY <1>5
  <2>5. /\ n - 1 \in m.used => colorDistance(w, m.colors[n - 1]) >= kMinColorSeparation
        /\ n + 1 \in m.used => colorDistance(w, m.colors[n + 1]) >= kMinColorSeparation
    BY <1>1, <2>3, <2>4 DEF kMinColorSeparation
  <2>6. /\ n - 1 \in m.used => colorDistance(c, m.colors[n - 1]) >= kMinColorSeparation
        /\ n + 1 \in m.used => colorDistance(c, m.colors[n + 1]) >= kMinColorSeparation
    <3> HIDE DEF m
    <3> QED BY <1>1, <1>6, <2>5, SeedColour DEF c
  <2> QED BY <1>1, <2>6
<1> HIDE DEF m, c, k
<1>7. k.colors[0] = 0 BY <1>2, <1>3, <1>4, <1>5 DEF Vivid
<1>8. ASSUME kPaletteSize = 12, NEW i \in k.used, i + 1 \in k.used
      PROVE  colorDistance(k.colors[i], k.colors[i + 1]) >= kMinColorSeparation
  <2>1. i \in Lanes /\ i + 1 \in Lanes /\ i \in Nat BY <1>2, <1>3, <1>5, <1>8
  <2>2. CASE i # n /\ i + 1 # n
    BY <1>2, <1>3, <1>8, <2>1, <2>2 DEF Vivid
  <2>3. CASE i = n /\ n # 0
    <3>1. k.colors[i] = c /\ k.colors[i + 1] = l.colors[i + 1] /\ i + 1 \in l.used
      BY <1>2, <1>3, <1>8, <2>1, <2>3
    <3> QED BY <1>6, <1>8, <2>3, <3>1
  <2>4. CASE i = n /\ n = 0
    <3>1. k.colors[i] = 0 /\ k.colors[i + 1] = l.colors[1] /\ 1 \in l.used /\ i + 1 = 1
      BY <1>2, <1>3, <1>4, <1>8, <2>1, <2>4
    <3> QED BY <1>8, <3>1 DEF Vivid
  <2>5. CASE i + 1 = n
    <3>1. i = n - 1 /\ n # 0 BY <1>5, <2>1, <2>5
    <3>2. k.colors[i + 1] = c /\ k.colors[i] = l.colors[n - 1] /\ n - 1 \in l.used
      BY <1>2, <1>3, <1>8, <2>1, <2>5, <3>1
    <3>3. colorDistance(c, l.colors[n - 1]) >= kMinColorSeparation BY <1>6, <1>8, <3>1, <3>2
    <3>4. l.colors[n - 1] \in Colour BY <1>3, <3>2
    <3> QED BY <1>4, <3>2, <3>3, <3>4, Distance
  <2> QED BY <2>2, <2>3, <2>4, <2>5
<1>9. ASSUME kPaletteSize = 12, 1 \in k.used
      PROVE  colorDistance(0, k.colors[1]) >= kMinColorSeparation
  <2>1. CASE n # 1
    BY <1>2, <1>3, <1>9, <2>1 DEF Vivid
  <2>2. CASE n = 1
    <3>1. k.colors[1] = c /\ n - 1 = 0 BY <1>2, <1>3, <2>2
    <3>2. colorDistance(c, l.colors[0]) >= kMinColorSeparation BY <1>6, <1>9, <2>2, <3>1
    <3>3. 0 \in Colour BY LaneAssumption DEF Colour
    <3> QED BY <1>4, <3>1, <3>2, <3>3, Distance DEF Vivid
  <2> QED BY <2>1, <2>2
<1>10. Vivid(k) BY <1>7, <1>8, <1>9 DEF Vivid
<1> QED BY <1>10 DEF k

-----------------------------------------------------------------------------
(* The lanes and the edges of a builder *)

Kind == {"FirstParent", "MergeParent", "Octopus"}
Edge == [childRow : Nat, parentRow : Nat, lane : Lane, childLane : Lane, color : Colour,
         kind : Kind, to : Nat]

\* The edge waits for its parent in a column of its own.
Descends(e) == e.parentRow = Boundary /\ ~isOverflow(e.lane)

\* Such a column is in use and has the edge's colour, and everything in it goes to the
\* same commit; the first parent inherits the lane.
Tidy(l, E) ==
    /\ l \in Allocator /\ E \in Seq(Edge) /\ Vivid(l)
    /\ \A i \in DOMAIN E : Descends(E[i]) =>
          E[i].lane \in l.used /\ E[i].color = l.colors[E[i].lane]
    /\ \A i, j \in DOMAIN E : Descends(E[i]) /\ Descends(E[j]) /\ E[i].lane = E[j].lane =>
          E[i].to = E[j].to
    /\ \A i \in DOMAIN E : E[i].kind = "FirstParent" => E[i].lane = E[i].childLane

\* Lane 0 is kept for the trunk's tip.
Shut(l, E) == 0 \in l.used /\ \A i \in DOMAIN E : E[i].lane # 0

LEMMA Appended ==
    ASSUME NEW S, NEW E \in Seq(S), NEW e \in S
    PROVE  /\ Append(E, e) \in Seq(S)
           /\ Len(Append(E, e)) = Len(E) + 1
           /\ DOMAIN Append(E, e) = 1..Len(E) + 1
           /\ DOMAIN E = 1..Len(E) /\ Len(E) \in Nat
           /\ \A i \in DOMAIN E : Append(E, e)[i] = E[i] /\ E[i] \in S
           /\ Append(E, e)[Len(E) + 1] = e
OBVIOUS

\* An edge goes into a free column that is in use, or joins those for the same parent.
LEMMA TidyEdge ==
    ASSUME NEW l, NEW E, Tidy(l, E), NEW e \in Edge,
           e.kind = "FirstParent" => e.lane = e.childLane,
           Descends(e) => /\ e.lane \in l.used /\ e.color = l.colors[e.lane]
                          /\ \A i \in DOMAIN E : Descends(E[i]) /\ E[i].lane = e.lane => E[i].to = e.to
    PROVE  Tidy(l, Append(E, e))
<1> DEFINE F == Append(E, e)
<1>1. E \in Seq(Edge) BY DEF Tidy
<1>2. /\ F \in Seq(Edge) /\ DOMAIN F = 1..Len(E) + 1 /\ DOMAIN E = 1..Len(E) /\ Len(E) \in Nat
      /\ \A i \in DOMAIN E : F[i] = E[i]
      /\ F[Len(E) + 1] = e
  BY <1>1, Appended
<1>3. \A i \in DOMAIN F : (i \in DOMAIN E /\ F[i] = E[i]) \/ (i = Len(E) + 1 /\ F[i] = e)
  BY <1>2
<1> HIDE DEF F
<1>4. \A i \in DOMAIN F : Descends(F[i]) => F[i].lane \in l.used /\ F[i].color = l.colors[F[i].lane]
  BY <1>3 DEF Tidy
<1>5. ASSUME NEW i \in DOMAIN F, NEW j \in DOMAIN F,
             Descends(F[i]), Descends(F[j]), F[i].lane = F[j].lane
      PROVE  F[i].to = F[j].to
  BY <1>3, <1>5 DEF Tidy
<1>6. \A i \in DOMAIN F : F[i].kind = "FirstParent" => F[i].lane = F[i].childLane
  BY <1>3 DEF Tidy
<1>7. Tidy(l, F) BY <1>2, <1>4, <1>5, <1>6 DEF Tidy
<1> QED BY <1>7 DEF F

\* A column that nothing descends in can be seeded anew.
LEMMA TidySeed ==
    ASSUME NEW l, NEW E, Tidy(l, E), NEW n \in Lane, NEW oid \in 1..Outside,
           \A i \in DOMAIN E : Descends(E[i]) => E[i].lane # n,
           n = 1 => isOverflow(n) \/ 0 \in l.used
    PROVE  /\ Tidy(seed(l, n, oid), E)
           /\ l.used \subseteq seed(l, n, oid).used
           /\ ~isOverflow(n) => n \in seed(l, n, oid).used
           /\ Shut(l, E) => Shut(seed(l, n, oid), E)
<1> DEFINE m == seed(l, n, oid)
<1>0. l \in Allocator BY DEF Tidy
<1>1. CASE isOverflow(n)
  <2>1. m = l BY <1>0, <1>1, SeedLane
  <2> HIDE DEF m
  <2>2. Tidy(m, E) /\ l.used \subseteq m.used /\ (Shut(l, E) => Shut(m, E)) BY <2>1
  <2> QED BY <1>1, <2>2 DEF m
<1>2. CASE ~isOverflow(n)
  <2> DEFINE c == colorForSeed(markUsed(l, n), n, oid)
  <2>1. /\ m \in Allocator /\ n \in Lanes /\ m.used = l.used \cup {n}
        /\ m.colors = [l.colors EXCEPT ![n] = c]
    BY <1>0, <1>2, SeedLane
  <2>2. Vivid(m)
    BY <1>0, <1>2, <2>1, SeedIsVivid DEF Tidy
  <2> HIDE DEF c, m
  <2>3. \A i \in DOMAIN E : Descends(E[i]) => E[i].lane \in m.used /\ E[i].color = m.colors[E[i].lane]
    BY <1>0, <2>1 DEF Tidy, Allocator
  <2>4. Tidy(m, E) BY <2>1, <2>2, <2>3 DEF Tidy
  <2>5. l.used \subseteq m.used /\ n \in m.used /\ (Shut(l, E) => Shut(m, E)) BY <2>1 DEF Shut
  <2> QED BY <2>4, <2>5 DEF m
<1> QED BY <1>1, <1>2

\* What an added edge is.
Drawn(e, row, lane, to) ==
    e \in Edge /\ e.childRow = row /\ e.parentRow = Boundary /\ e.childLane = lane /\ e.to = to

LEMMA EdgeIs ==
    ASSUME NEW row \in Nat, NEW lane \in Lane, NEW target \in Lane, NEW color \in Colour,
           NEW kind \in Kind, NEW to \in Nat
    PROVE  LET e == [childRow |-> row, parentRow |-> Boundary, lane |-> target,
                     childLane |-> lane, color |-> color, kind |-> kind, to |-> to]
           IN  Drawn(e, row, lane, to) /\ e.lane = target /\ e.color = color /\ e.kind = kind
BY DEF Drawn, Edge, Boundary

\* The builder g is the builder b and one more edge.
Grown(b, g, row, lane, to, kind) ==
    /\ Tidy(g.l, g.E) /\ b.l.used \subseteq g.l.used
    /\ Shut(b.l, b.E) => Shut(g.l, g.E)
    /\ \E e : Drawn(e, row, lane, to) /\ e.kind = kind /\ g.E = Append(b.E, e)

\* One more parent: its edge joins a column that waits for it or takes a new one to the
\* right.
LEMMA BranchTidy ==
    ASSUME NEW b, Tidy(b.l, b.E), NEW row \in Nat, NEW lane \in Lane,
           NEW parent \in 1..Outside, NEW kind \in {"MergeParent", "Octopus"},
           ~isOverflow(lane) => lane \in b.l.used,
           NEW g, g = Branch(b, row, lane, parent, kind)
    PROVE  Grown(b, g, row, lane, parent, kind)
<1> DEFINE l == b.l
           E == b.E
           waiting == Pending(E, parent)
           target  == IF waiting # {} THEN Min({E[i].lane : i \in waiting}) ELSE allocateAfter(l, lane)
           m       == IF waiting # {} THEN l ELSE seed(l, target, parent)
           e       == [childRow |-> row, parentRow |-> Boundary, lane |-> target,
                       childLane |-> lane, color |-> colorOf(m, target), kind |-> kind, to |-> parent]
<1>1. g = [l |-> m, E |-> Append(E, e)]
  BY DEF Branch, createEdge
<1>0. Tidy(l, E) /\ (~isOverflow(lane) => lane \in l.used) OBVIOUS
<1> HIDE DEF l, E
<1>2. E \in Seq(Edge) /\ l \in Allocator BY <1>0 DEF Tidy
<1>3. \A i \in DOMAIN E : E[i] \in Edge BY <1>2
<1>4. parent \in Nat /\ kind \in Kind /\ Outside \in Nat BY GraphAssumption DEF Outside, Kind
<1>5. /\ target \in Lane /\ Tidy(m, E) /\ l.used \subseteq m.used
      /\ ~isOverflow(target) =>
            /\ target \in m.used
            /\ \A i \in DOMAIN E : Descends(E[i]) /\ E[i].lane = target => E[i].to = parent
      /\ Shut(l, E) => Shut(m, E) /\ target # 0
  <2>1. CASE waiting # {}
    <3> DEFINE S == {E[i].lane : i \in waiting}
    <3>1. S \in SUBSET Nat /\ S # {} /\ \A i \in waiting : E[i].lane \in Lane
      <4>1. \A i \in waiting : E[i].lane \in Lane /\ E[i].lane \in Nat
        BY <1>3, LaneAssumption DEF Pending, Edge, Lane
      <4> QED BY <2>1, <4>1
    <3>2. Min(S) \in S
      <4> HIDE DEF S
      <4> QED BY <3>1, MinIs
    <3>3. PICK w \in waiting : target = E[w].lane BY <2>1, <3>2
    <3>4. w \in DOMAIN E /\ E[w].parentRow = Boundary /\ E[w].to = parent BY <3>3 DEF Pending
    <3>5. m = l BY <2>1
    <3> HIDE DEF target, m, S
    <3>6. ~isOverflow(target) => Descends(E[w]) BY <3>3, <3>4 DEF Descends
    <3> QED BY <1>0, <3>1, <3>3, <3>4, <3>5, <3>6 DEF Tidy, Shut
  <2>2. CASE waiting = {}
    <3>1. target = IF isOverflow(lane) THEN kOverflowLane ELSE lowestFreeAtOrAfter(l, lane + 1)
      BY <2>2 DEF allocateAfter
    <3>2. /\ target \in Lane /\ 1 <= target
          /\ ~isOverflow(target) => target \notin l.used
          /\ target = 1 => isOverflow(target) \/ 0 \in l.used
      <4>1. CASE isOverflow(lane)
        BY <3>1, <4>1, LaneAssumption DEF kOverflowLane, Lane, isOverflow
      <4>2. CASE ~isOverflow(lane)
        <5>1. lane \in Nat /\ lane + 1 \in Nat BY LaneAssumption DEF Lane
        <5>2. /\ target \in Lane /\ (~isOverflow(target) => target \in Lanes \ l.used /\ lane + 1 <= target)
          BY <1>2, <3>1, <4>2, <5>1, FreeLane
        <5> HIDE DEF target
        <5>3. isOverflow(target) => 1 <= target BY <5>2, LaneAssumption DEF isOverflow, Lane
        <5>4. target = 1 /\ ~isOverflow(target) => lane = 0 BY <5>1, <5>2
        <5> QED BY <1>0, <4>2, <5>1, <5>2, <5>3, <5>4 DEF Lane
      <4> QED BY <4>1, <4>2
    <3>3. m = seed(l, target, parent) BY <2>2
    <3> HIDE DEF target, m
    <3>4. \A i \in DOMAIN E : Descends(E[i]) => E[i].lane # target
      BY <1>0, <3>2 DEF Tidy, Descends
    <3>5. /\ Tidy(m, E) /\ l.used \subseteq m.used /\ (~isOverflow(target) => target \in m.used)
          /\ Shut(l, E) => Shut(m, E)
      BY <1>0, <3>2, <3>3, <3>4, TidySeed
    <3>6. target # 0 BY <3>2
    <3> QED BY <3>2, <3>4, <3>5, <3>6
  <2> QED BY <2>1, <2>2
<1> HIDE DEF target, m
<1>6. colorOf(m, target) \in Colour /\ (~isOverflow(target) => colorOf(m, target) = m.colors[target])
  <2>1. 0 \in Colour BY LaneAssumption DEF Colour
  <2>2. ~isOverflow(target) => target \in Lanes BY <1>5, LaneAssumption DEF isOverflow, Lane, Lanes
  <2>3. m.colors \in [Lanes -> Colour] BY <1>5 DEF Tidy, Allocator
  <2> QED BY <2>1, <2>2, <2>3 DEF colorOf
<1>7. Drawn(e, row, lane, parent) /\ e.lane = target /\ e.color = colorOf(m, target) /\ e.kind = kind
  BY <1>4, <1>5, <1>6, EdgeIs
<1> HIDE DEF e
<1>8. Tidy(m, Append(E, e))
  <2>1. e \in Edge /\ e.to = parent BY <1>7 DEF Drawn
  <2>2. e.kind # "FirstParent" BY <1>7
  <2> QED BY <1>5, <1>6, <1>7, <2>1, <2>2, TidyEdge DEF Descends
<1>9. Shut(l, E) => Shut(m, Append(E, e))
  <2>1. e \in Edge BY <1>7 DEF Drawn
  <2>2. /\ DOMAIN Append(E, e) = 1..Len(E) + 1 /\ DOMAIN E = 1..Len(E) /\ Len(E) \in Nat
        /\ \A i \in DOMAIN E : Append(E, e)[i] = E[i]
        /\ Append(E, e)[Len(E) + 1] = e
    BY <1>2, <2>1, Appended
  <2>3. \A i \in DOMAIN Append(E, e) : i \in DOMAIN E \/ i = Len(E) + 1 BY <2>2
  <2> QED BY <1>5, <1>7, <2>2, <2>3 DEF Shut
<1>10. g.l = m /\ g.E = Append(E, e) BY <1>1 DEF e
<1> QED BY <1>5, <1>7, <1>8, <1>9, <1>10 DEF Grown, l, E

\* The loop over the parents, unfolded.
LEMMA BranchesIs ==
    ASSUME NEW g, NEW row, NEW lane, NEW kind, NEW ps, NEW N \in Nat, N = Len(ps)
    PROVE  \E f : /\ f[0] = g
                  /\ \A n \in 1..N : f[n] = Branch(f[n - 1], row, lane, ps[n], kind)
                  /\ Branches(g, row, lane, ps, kind) = f[N]
<1> DEFINE Step(f, n) == IF n = 0 THEN g ELSE Branch(f[n - 1], row, lane, ps[n], kind)
           Good(f, m) == f = [n \in 0..m |-> Step(f, n)]
           Bad == {m \in 0..N : \A f : ~Good(f, m)}
<1>1. Bad = {}
  <2> SUFFICES ASSUME Bad # {} PROVE FALSE
    OBVIOUS
  <2>1. PICK m \in Bad : \A n \in Bad : m <= n
    <3>1. Bad \in SUBSET Nat OBVIOUS
    <3> HIDE DEF Bad
    <3> QED BY <3>1, LeastOf
  <2>2. m \in 0..N /\ \A f : ~Good(f, m) OBVIOUS
  <2>3. m # 0
    <3>1. Good([n \in 0..0 |-> g], 0) OBVIOUS
    <3> HIDE DEF Good, Bad
    <3> QED BY <2>2, <3>1
  <2>4. m - 1 \in 0..N /\ m - 1 \notin Bad
    <3>1. m - 1 \in 0..N /\ ~(m <= m - 1) BY <2>2, <2>3
    <3> HIDE DEF Bad
    <3> QED BY <2>1, <3>1
  <2>5. PICK f : Good(f, m - 1)
    <3> HIDE DEF Good
    <3> QED BY <2>4
  <2> DEFINE h == [n \in 0..m |-> IF n = m THEN Branch(f[m - 1], row, lane, ps[m], kind) ELSE f[n]]
  <2>6. \A n \in 0..m : h[n] = Step(h, n)
    <3> SUFFICES ASSUME NEW n \in 0..m PROVE h[n] = Step(h, n)
      OBVIOUS
    <3>1. CASE n = m BY <2>2, <2>3, <3>1
    <3>2. CASE n = 0 BY <2>2, <2>3, <2>5, <3>2
    <3>3. CASE n # m /\ n # 0
      <4>1. n \in 0..m - 1 /\ n - 1 \in 0..m /\ n - 1 # m BY <2>2, <3>3
      <4>2. f[n] = Step(f, n) BY <2>5, <4>1
      <4>3. h[n] = f[n] /\ h[n - 1] = f[n - 1] BY <3>3, <4>1
      <4> QED BY <3>3, <4>2, <4>3
    <3> QED BY <3>1, <3>2, <3>3
  <2>7. Good(h, m) BY <2>6
  <2> HIDE DEF Good, h
  <2> QED BY <2>2, <2>7
<1>2. PICK f : Good(f, N)
  <2>1. N \in 0..N /\ N \notin Bad BY <1>1
  <2> HIDE DEF Good
  <2> QED BY <2>1
<1> DEFINE D == CHOOSE d : Good(d, N)
<1>3. Good(D, N)
  <2> HIDE DEF Good
  <2> QED BY <1>2
<1>4. Branches(g, row, lane, ps, kind) = D[N] BY DEF Branches
<1> HIDE DEF D
<1>5. D[0] = g /\ \A n \in 1..N : D[n] = Branch(D[n - 1], row, lane, ps[n], kind)
  <2>1. \A n \in 0..N : D[n] = Step(D, n) BY <1>3
  <2> QED BY <2>1
<1> QED BY <1>4, <1>5

\* The builder g is the builder b and an edge for each of ps, in order.
Fanned(b, g, row, lane, ps) ==
    /\ Tidy(g.l, g.E)
    /\ Shut(b.l, b.E) => Shut(g.l, g.E)
    /\ Len(g.E) = Len(b.E) + Len(ps)
    /\ \A i \in DOMAIN b.E : g.E[i] = b.E[i]
    /\ \A k \in DOMAIN ps : Drawn(g.E[Len(b.E) + k], row, lane, ps[k])

\* All the parents after the first.
LEMMA BranchesTidy ==
    ASSUME NEW start, Tidy(start.l, start.E), NEW row \in Nat, NEW lane \in Lane,
           NEW ps \in Seq(1..Outside), NEW kind \in {"MergeParent", "Octopus"},
           ~isOverflow(lane) => lane \in start.l.used,
           NEW g, g = Branches(start, row, lane, ps, kind)
    PROVE  Fanned(start, g, row, lane, ps)
<1> DEFINE N == Len(ps)
           l == start.l
           E == start.E
           Upto(h, n) ==
             /\ Tidy(h.l, h.E) /\ l.used \subseteq h.l.used
             /\ Shut(l, E) => Shut(h.l, h.E)
             /\ Len(h.E) = Len(E) + n
             /\ \A i \in DOMAIN E : h.E[i] = E[i]
             /\ \A k \in 1..n : Drawn(h.E[Len(E) + k], row, lane, ps[k]) /\ h.E[Len(E) + k].kind = kind
<1>1. N \in Nat /\ DOMAIN ps = 1..N /\ Len(E) \in Nat /\ DOMAIN E = 1..Len(E) BY DEF Tidy
<1>2. PICK f : /\ f[0] = start
               /\ \A n \in 1..N : f[n] = Branch(f[n - 1], row, lane, ps[n], kind)
               /\ Branches(start, row, lane, ps, kind) = f[N]
  BY <1>1, BranchesIs
<1>3. Upto(f[0], 0) BY <1>1, <1>2
<1>4. ASSUME NEW n \in 1..N, Upto(f[n - 1], n - 1) PROVE Upto(f[n], n)
  <2> DEFINE p == f[n - 1]
             q == f[n]
  <2>1. q = Branch(p, row, lane, ps[n], kind) BY <1>2
  <2>2. ps[n] \in 1..Outside
    <3> HIDE DEF Upto
    <3> QED BY <1>1, ElementOfSeq
  <2>3. Tidy(p.l, p.E) /\ (~isOverflow(lane) => lane \in p.l.used) BY <1>4
  <2>4. /\ Tidy(q.l, q.E) /\ p.l.used \subseteq q.l.used
        /\ Shut(p.l, p.E) => Shut(q.l, q.E)
        /\ \E e : Drawn(e, row, lane, ps[n]) /\ e.kind = kind /\ q.E = Append(p.E, e)
    <3> HIDE DEF p, q
    <3>1. Grown(p, q, row, lane, ps[n], kind) BY <2>1, <2>2, <2>3, BranchTidy
    <3> QED BY <3>1 DEF Grown
  <2>5. PICK e : Drawn(e, row, lane, ps[n]) /\ e.kind = kind /\ q.E = Append(p.E, e) BY <2>4
  <2>6. p.E \in Seq(Edge) /\ e \in Edge BY <2>3, <2>5 DEF Tidy, Drawn
  <2>7. /\ Len(q.E) = Len(p.E) + 1 /\ DOMAIN p.E = 1..Len(p.E)
        /\ \A i \in DOMAIN p.E : q.E[i] = p.E[i]
        /\ q.E[Len(p.E) + 1] = e
    <3> HIDE DEF p, q
    <3> QED BY <2>5, <2>6, Appended
  <2>8. Len(p.E) = Len(E) + n - 1 /\ (\A i \in DOMAIN E : p.E[i] = E[i])
        /\ \A k \in 1..n - 1 : Drawn(p.E[Len(E) + k], row, lane, ps[k]) /\ p.E[Len(E) + k].kind = kind
    BY <1>1, <1>4
  <2>9. l.used \subseteq p.l.used /\ (Shut(l, E) => Shut(p.l, p.E)) BY <1>4
  <2> HIDE DEF p, q
  <2>10. Len(q.E) = Len(E) + n /\ Len(p.E) + 1 = Len(E) + n BY <1>1, <2>7, <2>8
  <2>11. \A i \in DOMAIN E : q.E[i] = E[i]
    <3>1. \A i \in DOMAIN E : i \in DOMAIN p.E BY <1>1, <2>7, <2>8
    <3> QED BY <2>7, <2>8, <3>1
  <2>12. ASSUME NEW k \in 1..n
         PROVE  Drawn(q.E[Len(E) + k], row, lane, ps[k]) /\ q.E[Len(E) + k].kind = kind
    <3>1. CASE k = n BY <2>5, <2>7, <2>10, <3>1
    <3>2. CASE k # n
      <4>1. k \in 1..n - 1 BY <1>4, <3>2
      <4>2. Len(E) \in Nat /\ Len(p.E) = Len(E) + n - 1 BY <1>1, <2>8
      <4>3. Len(E) + k \in 1..Len(p.E) BY <1>4, <4>1, <4>2
      <4>4. Len(E) + k \in DOMAIN p.E BY <2>7, <4>3
      <4> QED BY <2>7, <2>8, <4>1, <4>4
    <3> QED BY <3>1, <3>2
  <2>13. Upto(q, n) BY <2>4, <2>9, <2>10, <2>11, <2>12
  <2> QED BY <2>13 DEF q
<1> HIDE DEF Upto
<1>5. Upto(f[N], N)
  <2> DEFINE Bad == {n \in 0..N : ~Upto(f[n], n)}
  <2> SUFFICES ASSUME Bad # {} PROVE FALSE
    BY <1>1
  <2>1. PICK m \in Bad : \A n \in Bad : m <= n
    <3>1. Bad \in SUBSET Nat OBVIOUS
    <3> HIDE DEF Bad
    <3> QED BY <3>1, LeastOf
  <2>2. m \in 1..N BY <1>1, <1>3
  <2>3. m - 1 \in 0..N /\ ~(m <= m - 1) BY <1>1, <2>2
  <2>4. Upto(f[m - 1], m - 1) BY <2>1, <2>3
  <2> QED BY <1>4, <2>2, <2>4
<1> QED BY <1>1, <1>2, <1>5 DEF Upto, Fanned

-----------------------------------------------------------------------------
(* Adding a commit *)

\* laneRefCount_ is zero exactly when nothing waits in the lane.
LEMMA RefCountZero ==
    ASSUME NEW E \in Seq(Edge), NEW n, laneRefCount(E, n) = 0, NEW i \in DOMAIN E, Descends(E[i])
    PROVE  E[i].lane # n
<1> DEFINE S == {j \in DOMAIN E : E[j].parentRow = Boundary /\ E[j].lane = n}
<1>1. IsFiniteSet(1..Len(E)) /\ DOMAIN E = 1..Len(E)
  <2>1. Len(E) \in Nat /\ DOMAIN E = 1..Len(E) OBVIOUS
  <2> QED BY <2>1, FS_Interval
<1>2. IsFiniteSet(S) BY <1>1, FS_Subset
<1>3. Cardinality(S) = 0 BY DEF laneRefCount
<1>4. S = {}
  <2> HIDE DEF S
  <2> QED BY <1>2, <1>3, FS_EmptySet
<1> QED BY <1>4 DEF Descends

\* Giving columns back that nothing descends in.
Unused(E, R) == \A i \in DOMAIN E : Descends(E[i]) => E[i].lane \notin R
Released(l, m, E, R) ==
    /\ Tidy(m, E) /\ m.used = l.used \ R /\ m.colors = l.colors
    /\ Shut(l, E) /\ 0 \notin R => Shut(m, E)

LEMMA TidyRelease ==
    ASSUME NEW l, NEW E, Tidy(l, E), NEW R, Unused(E, R),
           NEW m, m = [l EXCEPT !.used = l.used \ R]
    PROVE  Released(l, m, E, R)
<1>1. m \in Allocator /\ m.used = l.used \ R /\ m.colors = l.colors BY DEF Tidy, Allocator
<1>2. Vivid(m) BY <1>1 DEF Tidy, Vivid
<1>3. Tidy(m, E) BY <1>1, <1>2 DEF Tidy, Unused
<1> QED BY <1>1, <1>3 DEF Shut, Released

\* The edges to the commit end at its row, and the others are as they were.
LEMMA Patched ==
    ASSUME NEW l, NEW E, Tidy(l, E), NEW oid, NEW row \in Nat \ {0},
           NEW P, P = patchIncoming(E, Pending(E, oid), row)
    PROVE  /\ Tidy(l, P) /\ Len(P) = Len(E) /\ DOMAIN P = DOMAIN E
           /\ \A i \in DOMAIN E : P[i] = IF i \in Pending(E, oid) THEN [E[i] EXCEPT !.parentRow = row] ELSE E[i]
           /\ \A i \in DOMAIN E : P[i].lane = E[i].lane /\ (Descends(P[i]) => P[i] = E[i] /\ E[i].to # oid)
           /\ Shut(l, E) => Shut(l, P)
<1> DEFINE incoming == Pending(E, oid)
<1>1. E \in Seq(Edge) /\ DOMAIN E = 1..Len(E) /\ Len(E) \in Nat BY DEF Tidy
<1>2. /\ DOMAIN P = DOMAIN E
      /\ \A i \in DOMAIN E : P[i] = IF i \in incoming THEN [E[i] EXCEPT !.parentRow = row] ELSE E[i]
  BY DEF patchIncoming
<1>3. \A i \in DOMAIN E : E[i] \in Edge BY <1>1
<1>4. ASSUME NEW i \in DOMAIN E
      PROVE  /\ P[i] \in Edge /\ P[i].lane = E[i].lane /\ P[i].childLane = E[i].childLane
             /\ P[i].kind = E[i].kind
             /\ i \in incoming => P[i].parentRow = row
             /\ i \notin incoming => P[i] = E[i]
  <2>1. CASE i \in incoming
    <3>1. P[i] = [E[i] EXCEPT !.parentRow = row] BY <1>2, <2>1
    <3> QED BY <1>3, <2>1, <3>1 DEF Edge
  <2>2. CASE i \notin incoming BY <1>2, <1>3, <2>2
  <2> QED BY <2>1, <2>2
<1>5. \A i \in DOMAIN E : Descends(P[i]) => P[i] = E[i] /\ E[i].to # oid
  <2> SUFFICES ASSUME NEW i \in DOMAIN E, Descends(P[i]) PROVE P[i] = E[i] /\ E[i].to # oid
    OBVIOUS
  <2>1. i \notin incoming BY <1>4 DEF Descends, Boundary
  <2>2. P[i] = E[i] BY <1>4, <2>1
  <2> QED BY <2>1, <2>2 DEF Pending, Descends
<1>6. P \in Seq(Edge) /\ Len(P) = Len(E)
  <2>1. P = [i \in 1..Len(E) |-> P[i]] BY <1>1 DEF patchIncoming
  <2>2. \A i \in 1..Len(E) : P[i] \in Edge BY <1>1, <1>4
  <2>3. P \in [1..Len(E) -> Edge] BY <2>1, <2>2
  <2> QED BY <1>1, <2>3
<1>7. Tidy(l, P)
  <2>1. \A i \in DOMAIN P : Descends(P[i]) => P[i].lane \in l.used /\ P[i].color = l.colors[P[i].lane]
    BY <1>2, <1>5 DEF Tidy
  <2>2. \A i, j \in DOMAIN P : Descends(P[i]) /\ Descends(P[j]) /\ P[i].lane = P[j].lane => P[i].to = P[j].to
    BY <1>2, <1>5 DEF Tidy
  <2>3. \A i \in DOMAIN P : P[i].kind = "FirstParent" => P[i].lane = P[i].childLane
    BY <1>2, <1>4 DEF Tidy
  <2> QED BY <1>6, <2>1, <2>2, <2>3 DEF Tidy
<1> QED BY <1>2, <1>4, <1>5, <1>6, <1>7 DEF Shut

\* Where the commit goes: a lane that nothing else descends in, never to the right of a
\* first-parent edge that ends there.
Chosen(lane, oid, P) ==
    /\ lane \in Lane
    /\ \A i \in DOMAIN P : Descends(P[i]) => P[i].lane # lane
    /\ \A i \in Pending(edges, oid) : edges[i].kind = "FirstParent" => lane <= edges[i].lane
    /\ oid = trunkTip => lane = 0
    /\ oid # trunkTip /\ Shut(lanes, edges) => lane # 0

LEMMA LaneIsChosen ==
    ASSUME Tidy(lanes, edges), NEW oid, oid = trunkTip => Shut(lanes, edges),
           NEW P, DOMAIN P = DOMAIN edges,
           \A i \in DOMAIN edges : Descends(P[i]) => P[i] = edges[i] /\ edges[i].to # oid,
           NEW incoming, incoming = Pending(edges, oid),
           NEW lane, lane = IF oid = trunkTip THEN 0
                            ELSE IF incoming = {} THEN allocateLeftmost(lanes)
                            ELSE chooseLane(edges, incoming)
    PROVE  /\ Chosen(lane, oid, P)
           /\ oid = trunkTip \/ incoming = {} => (lane = 1 => isOverflow(lane) \/ 0 \in lanes.used)
           /\ ~(oid = trunkTip \/ incoming = {}) => (~isOverflow(lane) => lane \in lanes.used)
<1>1. /\ lanes \in Allocator /\ edges \in Seq(Edge) /\ \A i \in DOMAIN edges : edges[i] \in Edge
  BY DEF Tidy
<1>2. \A i \in incoming : i \in DOMAIN edges /\ edges[i].lane \in Lane /\ edges[i].lane \in Nat
                        /\ edges[i].parentRow = Boundary /\ edges[i].to = oid
  <2>1. \A i \in incoming : i \in DOMAIN edges /\ edges[i].parentRow = Boundary /\ edges[i].to = oid
    BY DEF Pending
  <2>2. \A i \in DOMAIN edges : edges[i].lane \in Lane BY <1>1 DEF Edge
  <2>3. Lane \subseteq Nat BY LaneAssumption DEF Lane
  <2> QED BY <2>1, <2>2, <2>3
<1>3. CASE oid = trunkTip
  <2>1. lane = 0 /\ lane \in Lane BY <1>3, LaneAssumption DEF Lane
  <2>2. Shut(lanes, edges) BY <1>3
  <2> QED BY <1>2, <1>3, <2>1, <2>2 DEF Shut, Chosen
<1>4. CASE oid # trunkTip /\ incoming = {}
  <2>1. lane = lowestFreeAtOrAfter(lanes, 0) BY <1>4 DEF allocateLeftmost
  <2>2. /\ lane \in Lane /\ (~isOverflow(lane) => lane \in Lanes \ lanes.used)
        /\ \A k \in Lanes : 0 <= k /\ k < lane => k \in lanes.used
    BY <1>1, <2>1, FreeLane
  <2>3. \A i \in DOMAIN P : Descends(P[i]) => P[i].lane # lane
    BY <2>2 DEF Tidy, Descends
  <2>4. lane = 1 => 0 \in lanes.used BY <2>2, LaneAssumption DEF Lanes
  <2>5. Shut(lanes, edges) => lane # 0 BY <2>2, LaneAssumption DEF Shut, isOverflow
  <2> QED BY <1>4, <2>2, <2>3, <2>4, <2>5 DEF Chosen
<1>5. CASE oid # trunkTip /\ incoming # {}
  <2> DEFINE first == {i \in incoming : edges[i].kind = "FirstParent"}
             from == IF first # {} THEN first ELSE incoming
             S == {edges[i].lane : i \in from}
  <2>1. lane = Min(S) BY <1>5 DEF chooseLane
  <2>2. from \subseteq incoming /\ from # {} BY <1>5
  <2>3. S \in SUBSET Nat /\ S # {} BY <1>2, <2>2
  <2>4. lane \in S /\ \A n \in S : lane <= n
    <3> HIDE DEF S
    <3> QED BY <2>1, <2>3, MinIs
  <2>5. PICK w \in incoming : lane = edges[w].lane BY <2>2, <2>4
  <2>6. \A i \in incoming : edges[i].kind = "FirstParent" => lane <= edges[i].lane
    <3> SUFFICES ASSUME NEW i \in incoming, edges[i].kind = "FirstParent" PROVE lane <= edges[i].lane
      OBVIOUS
    <3>1. i \in first OBVIOUS
    <3>2. i \in from BY <3>1
    <3> QED BY <2>4, <3>2
  <2> HIDE DEF first, from, S
  <2>7. lane \in Lane BY <1>2, <2>5
  <2>8. ~isOverflow(lane) => Descends(edges[w]) BY <1>2, <2>5 DEF Descends
  <2>9. ASSUME NEW i \in DOMAIN P, Descends(P[i]), P[i].lane = lane PROVE FALSE
    <3>1. P[i] = edges[i] /\ edges[i].to # oid /\ i \in DOMAIN edges BY <2>9
    <3>2. ~isOverflow(lane) BY <2>9 DEF Descends
    <3>3. Descends(edges[i]) /\ edges[i].lane = edges[w].lane BY <2>5, <2>9, <3>1
    <3>4. w \in DOMAIN edges /\ edges[w].to = oid BY <1>2
    <3> QED BY <2>8, <3>1, <3>2, <3>3, <3>4 DEF Tidy
  <2>10. ~isOverflow(lane) => lane \in lanes.used BY <1>2, <2>5, <2>8 DEF Tidy
  <2>11. Shut(lanes, edges) => lane # 0 BY <1>2, <2>5 DEF Shut
  <2>12. Chosen(lane, oid, P) BY <1>5, <2>6, <2>7, <2>9, <2>11 DEF Chosen
  <2> QED BY <1>5, <2>10, <2>12
<1> QED BY <1>3, <1>4, <1>5

RowMeta == [oid : Nat, lane : Lane, color : Colour, offset : Nat, boundary : BOOLEAN]

\* What Added() does, seen from outside: a row in a lane that was chosen for it, the
\* edges to it ended there, and an edge for each of its parents.
Placed(oid, parents, lane, color) ==
    LET row == Len(rows) + 1
        in  == Pending(edges, oid) IN
    /\ lane \in Lane /\ color \in Colour
    /\ rows' = Append(rows, [oid |-> oid, lane |-> lane, color |-> color,
                             offset |-> Len(edges), boundary |-> FALSE])
    /\ given' = Append(given, parents)
    /\ Tidy(lanes', edges')
    /\ Len(edges') = Len(edges) + Len(parents)
    /\ \A i \in DOMAIN edges :
          edges'[i] = IF i \in in THEN [edges[i] EXCEPT !.parentRow = row] ELSE edges[i]
    /\ \A k \in DOMAIN parents : Drawn(edges'[Len(edges) + k], row, lane, parents[k])
    /\ \A i \in DOMAIN edges : Descends(edges[i]) /\ edges[i].to # oid => edges[i].lane # lane
    /\ \A i \in in : edges[i].kind = "FirstParent" => lane <= edges[i].lane
    /\ oid = trunkTip => lane = 0
    /\ oid # trunkTip /\ Shut(lanes, edges) => lane # 0 /\ Shut(lanes', edges')

LEMMA AddedIsPlaced ==
    ASSUME Tidy(lanes, edges), rows \in Seq(RowMeta), NEW oid \in 1..Outside,
           NEW parents \in Seq(1..Outside), oid = trunkTip => Shut(lanes, edges),
           Added(oid, parents)
    PROVE  \E lane, color : Placed(oid, parents, lane, color)
<1> DEFINE row      == Len(rows) + 1
           incoming == Pending(edges, oid)
           lane     == IF oid = trunkTip THEN 0
                       ELSE IF incoming = {} THEN allocateLeftmost(lanes)
                       ELSE chooseLane(edges, incoming)
           seeded   == IF oid = trunkTip \/ incoming = {} THEN seed(lanes, lane, oid) ELSE lanes
           color    == colorOf(seeded, lane)
           patched  == patchIncoming(edges, incoming, row)
           freed    == ReleaseColumns(seeded, patched, incoming, lane)
           kind     == IF Len(parents) > 2 THEN "Octopus" ELSE "MergeParent"
           start    == [l |-> freed,
                        E |-> createEdge(patched, row, lane, lane, color, "FirstParent", Head(parents))]
           drawn    == Branches(start, row, lane, Tail(parents), kind)
           ended    == [l |-> IF laneRefCount(patched, lane) = 0 THEN release(freed, lane) ELSE freed,
                        E |-> patched]
           done     == IF parents = <<>> THEN ended ELSE drawn
<1>1. /\ lanes' = done.l /\ edges' = done.E
      /\ rows' = Append(rows, [oid |-> oid, lane |-> lane, color |-> color,
                               offset |-> Len(edges), boundary |-> FALSE])
      /\ given' = Append(given, parents)
  BY DEF Added
<1>2. row \in Nat \ {0} /\ row \in Nat OBVIOUS
<1>3. /\ Tidy(lanes, patched) /\ Len(patched) = Len(edges) /\ DOMAIN patched = DOMAIN edges
      /\ \A i \in DOMAIN edges : patched[i] = IF i \in incoming THEN [edges[i] EXCEPT !.parentRow = row] ELSE edges[i]
      /\ \A i \in DOMAIN edges : /\ patched[i].lane = edges[i].lane
                                 /\ Descends(patched[i]) => patched[i] = edges[i] /\ edges[i].to # oid
      /\ Shut(lanes, edges) => Shut(lanes, patched)
  <2> HIDE DEF row
  <2> QED BY <1>2, Patched
<1> HIDE DEF patched
<1>4. /\ Chosen(lane, oid, patched)
      /\ oid = trunkTip \/ incoming = {} => (lane = 1 => isOverflow(lane) \/ 0 \in lanes.used)
      /\ ~(oid = trunkTip \/ incoming = {}) => (~isOverflow(lane) => lane \in lanes.used)
  BY <1>3, LaneIsChosen
<1> HIDE DEF lane
<1>5. lane \in Lane BY <1>4 DEF Chosen
<1>6. /\ Tidy(seeded, patched) /\ (~isOverflow(lane) => lane \in seeded.used)
      /\ Shut(lanes, patched) => Shut(seeded, patched)
  <2>1. CASE oid = trunkTip \/ incoming = {}
    <3>1. \A i \in DOMAIN patched : Descends(patched[i]) => patched[i].lane # lane BY <1>4 DEF Chosen
    <3>2. seeded = seed(lanes, lane, oid) BY <2>1
    <3> HIDE DEF seeded, incoming
    <3> QED BY <1>3, <1>4, <1>5, <2>1, <3>1, <3>2, TidySeed
  <2>2. CASE ~(oid = trunkTip \/ incoming = {})
    <3>1. seeded = lanes BY <2>2
    <3> HIDE DEF seeded, incoming
    <3> QED BY <1>3, <1>4, <2>2, <3>1
  <2> QED BY <2>1, <2>2
<1> HIDE DEF seeded
<1>7. color \in Colour /\ (~isOverflow(lane) => color = seeded.colors[lane])
  <2>1. 0 \in Colour BY LaneAssumption DEF Colour
  <2>2. ~isOverflow(lane) => lane \in Lanes BY <1>5, LaneAssumption DEF isOverflow, Lane, Lanes
  <2>3. seeded.colors \in [Lanes -> Colour] BY <1>6 DEF Tidy, Allocator
  <2> QED BY <2>1, <2>2, <2>3 DEF colorOf
<1> HIDE DEF color
<1>8. /\ Tidy(freed, patched) /\ (~isOverflow(lane) => lane \in freed.used) /\ freed.colors = seeded.colors
      /\ Shut(lanes, patched) => Shut(freed, patched)
  <2> DEFINE R == {n \in {patched[i].lane : i \in incoming} \ {lane} : laneRefCount(patched, n) = 0}
  <2>1. freed = [seeded EXCEPT !.used = seeded.used \ R] BY DEF ReleaseColumns
  <2>2. ASSUME NEW i \in DOMAIN patched, Descends(patched[i]), patched[i].lane \in R PROVE FALSE
    <3>1. patched \in Seq(Edge) BY <1>3 DEF Tidy
    <3>2. laneRefCount(patched, patched[i].lane) = 0 BY <2>2
    <3> QED BY <2>2, <3>1, <3>2, RefCountZero
  <2>3. lane \notin R OBVIOUS
  <2>4. Shut(lanes, patched) => 0 \notin R
    <3>1. incoming \subseteq DOMAIN patched BY <1>3 DEF Pending
    <3> QED BY <3>1 DEF Shut
  <2> HIDE DEF R, freed
  <2>5. /\ Tidy(freed, patched) /\ freed.used = seeded.used \ R /\ freed.colors = seeded.colors
        /\ Shut(seeded, patched) /\ 0 \notin R => Shut(freed, patched)
    <3>1. Unused(patched, R) BY <2>2 DEF Unused
    <3>2. Tidy(seeded, patched) BY <1>6
    <3> HIDE DEF patched
    <3>3. Released(seeded, freed, patched, R) BY ONLY <2>1, <3>1, <3>2, TidyRelease
    <3> QED BY <3>3 DEF Released
  <2> QED BY <1>6, <2>3, <2>4, <2>5
<1> HIDE DEF freed
<1>9. oid # trunkTip /\ Shut(lanes, edges) => lane # 0 /\ Shut(freed, patched)
  BY <1>3, <1>4, <1>8 DEF Chosen
<1>10. /\ Tidy(done.l, done.E) /\ Len(done.E) = Len(patched) + Len(parents)
       /\ \A i \in DOMAIN patched : done.E[i] = patched[i]
       /\ \A k \in DOMAIN parents : Drawn(done.E[Len(patched) + k], row, lane, parents[k])
       /\ oid # trunkTip /\ Shut(lanes, edges) => Shut(done.l, done.E)
  <2>0. patched \in Seq(Edge) /\ freed \in Allocator BY <1>8 DEF Tidy
  <2>1. CASE parents = <<>>
    <3>1. done = ended BY <2>1
    <3>2. done.E = patched /\ done.l = IF laneRefCount(patched, lane) = 0 THEN release(freed, lane) ELSE freed
      BY <3>1
    <3>3. Len(parents) = 0 /\ DOMAIN parents = {} BY <2>1
    <3>4. Tidy(done.l, patched) /\ (oid # trunkTip /\ Shut(lanes, edges) => Shut(done.l, patched))
      <4>1. CASE laneRefCount(patched, lane) # 0
        <5>1. done.l = freed BY <3>2, <4>1
        <5> HIDE DEF done
        <5> QED BY <1>8, <1>9, <5>1
      <4>2. CASE laneRefCount(patched, lane) = 0
        <5>1. done.l = [freed EXCEPT !.used = freed.used \ {lane}] BY <3>2, <4>2 DEF release
        <5>2. \A i \in DOMAIN patched : Descends(patched[i]) => patched[i].lane \notin {lane}
          BY <2>0, <4>2, RefCountZero
        <5>3. Unused(patched, {lane}) BY <5>2 DEF Unused
        <5>4. Tidy(freed, patched) BY <1>8
        <5> DEFINE d == done.l
        <5> HIDE DEF done
        <5>5. d = [freed EXCEPT !.used = freed.used \ {lane}] BY <5>1
        <5> HIDE DEF d, patched
        <5>6. Released(freed, d, patched, {lane}) BY ONLY <5>3, <5>4, <5>5, TidyRelease
        <5> QED BY <1>9, <5>6 DEF d, Released
      <4> QED BY <4>1, <4>2
    <3> HIDE DEF done
    <3>5. Len(patched) \in Nat BY <2>0
    <3> QED BY <3>2, <3>3, <3>4, <3>5
  <2>2. CASE parents # <<>>
    <3>1. done = drawn BY <2>2
    <3> DEFINE e == [childRow |-> row, parentRow |-> Boundary, lane |-> lane, childLane |-> lane,
                     color |-> color, kind |-> "FirstParent", to |-> Head(parents)]
               ps == Tail(parents)
    <3>2. /\ Len(parents) \in Nat /\ Len(parents) > 0 /\ Len(ps) = Len(parents) - 1
          /\ DOMAIN parents = 1..Len(parents) /\ DOMAIN ps = 1..Len(parents) - 1
          /\ Head(parents) = parents[1] /\ ps \in Seq(1..Outside)
          /\ \A k \in 2..Len(parents) : parents[k] = ps[k - 1]
          /\ Head(parents) \in 1..Outside
      <4>1. /\ Len(parents) \in Nat /\ Len(parents) > 0 /\ DOMAIN parents = 1..Len(parents)
            /\ Head(parents) = parents[1]
        BY <2>2
      <4>2. /\ ps \in Seq(1..Outside) /\ Len(ps) = Len(parents) - 1
            /\ \A k \in 1..Len(ps) : ps[k] = parents[k + 1]
        BY <2>2, HeadTailProperties
      <4>3. DOMAIN ps = 1..Len(ps) BY <4>2
      <4>4. Head(parents) \in 1..Outside BY <2>2, HeadTailProperties
      <4>5. \A k \in 2..Len(parents) : k - 1 \in 1..Len(ps) /\ (k - 1) + 1 = k BY <4>1, <4>2
      <4> HIDE DEF ps
      <4> QED BY <4>1, <4>2, <4>3, <4>4, <4>5
    <3>3. Head(parents) \in Nat BY <3>2, GraphAssumption DEF Outside
    <3>4. /\ Drawn(e, row, lane, Head(parents)) /\ e.lane = lane /\ e.color = color
          /\ e.kind = "FirstParent" /\ e \in Edge
      <4>1. Drawn(e, row, lane, Head(parents)) /\ e.lane = lane /\ e.color = color /\ e.kind = "FirstParent"
        <5> HIDE DEF row
        <5>1. row \in Nat /\ lane \in Lane /\ color \in Colour BY <1>2, <1>5, <1>7
        <5>2. "FirstParent" \in Kind BY DEF Kind
        <5> QED BY <3>3, <5>1, <5>2, EdgeIs
      <4> QED BY <4>1 DEF Drawn
    <3>5. start.l = freed /\ start.E = Append(patched, e) BY DEF createEdge
    <3> HIDE DEF start, e, ps
    <3>6. /\ DOMAIN start.E = 1..Len(patched) + 1 /\ DOMAIN patched = 1..Len(patched) /\ Len(patched) \in Nat
          /\ \A i \in DOMAIN patched : start.E[i] = patched[i]
          /\ start.E[Len(patched) + 1] = e /\ Len(start.E) = Len(patched) + 1
      BY <2>0, <3>4, <3>5, Appended
    <3>7. Tidy(start.l, start.E)
      <4>1. \A i \in DOMAIN patched : Descends(patched[i]) /\ patched[i].lane = e.lane => patched[i].to = e.to
        BY <1>4, <3>4 DEF Chosen
      <4>2. e.kind = "FirstParent" => e.lane = e.childLane BY <3>4 DEF Drawn
      <4>3. Descends(e) => e.lane \in freed.used /\ e.color = freed.colors[e.lane]
        BY <1>7, <1>8, <3>4 DEF Descends
      <4> QED BY <1>8, <3>4, <3>5, <4>1, <4>2, <4>3, TidyEdge
    <3>8. oid # trunkTip /\ Shut(lanes, edges) => Shut(start.l, start.E)
      <4>1. \A i \in DOMAIN start.E : i \in DOMAIN patched \/ i = Len(patched) + 1 BY <3>6
      <4> QED BY <1>9, <3>4, <3>5, <3>6, <4>1 DEF Shut
    <3>9. Fanned(start, done, row, lane, ps)
      <4>1. kind \in {"MergeParent", "Octopus"} OBVIOUS
      <4>2. ~isOverflow(lane) => lane \in start.l.used BY <1>8, <3>5
      <4>3. done = Branches(start, row, lane, ps, kind) BY <3>1 DEF ps
      <4> HIDE DEF kind, done, row
      <4> QED BY <1>2, <1>5, <3>2, <3>7, <4>1, <4>2, <4>3, BranchesTidy
    <3> HIDE DEF done
    <3>10. Len(done.E) = Len(patched) + Len(parents) BY <3>2, <3>6, <3>9 DEF Fanned
    <3>11. \A i \in DOMAIN patched : done.E[i] = patched[i]
      <4>1. \A i \in DOMAIN patched : i \in DOMAIN start.E BY <3>6
      <4> QED BY <3>6, <3>9, <4>1 DEF Fanned
    <3>12. ASSUME NEW k \in DOMAIN parents PROVE Drawn(done.E[Len(patched) + k], row, lane, parents[k])
      <4>1. CASE k = 1
        <5>1. Len(patched) + 1 \in DOMAIN start.E BY <3>6
        <5>2. done.E[Len(patched) + k] = e BY <3>6, <3>9, <4>1, <5>1 DEF Fanned
        <5> QED BY <3>2, <3>4, <4>1, <5>2
      <4>2. CASE k # 1
        <5>1. k \in 2..Len(parents) BY <3>2, <4>2
        <5>2. k - 1 \in DOMAIN ps BY <3>2, <5>1
        <5>3. Len(start.E) + (k - 1) = Len(patched) + k BY <3>2, <3>6, <5>1
        <5>4. Drawn(done.E[Len(start.E) + (k - 1)], row, lane, ps[k - 1]) BY <3>9, <5>2 DEF Fanned
        <5> QED BY <3>2, <5>1, <5>3, <5>4
      <4> QED BY <4>1, <4>2
    <3>13. Tidy(done.l, done.E) /\ (oid # trunkTip /\ Shut(lanes, edges) => Shut(done.l, done.E))
      BY <3>8, <3>9 DEF Fanned
    <3> QED BY <3>10, <3>11, <3>12, <3>13
  <2> QED BY <2>1, <2>2
<1> HIDE DEF done
<1>11. \A i \in DOMAIN edges : Descends(edges[i]) /\ edges[i].to # oid => edges[i].lane # lane
  <2> SUFFICES ASSUME NEW i \in DOMAIN edges, Descends(edges[i]), edges[i].to # oid
               PROVE  edges[i].lane # lane
    OBVIOUS
  <2>1. i \notin incoming BY DEF Pending
  <2>2. patched[i] = edges[i] BY <1>3, <2>1
  <2> QED BY <1>3, <1>4, <2>2 DEF Chosen
<1>12. Placed(oid, parents, lane, color)
  BY <1>1, <1>3, <1>4, <1>5, <1>7, <1>9, <1>10, <1>11 DEF Placed, Chosen
<1> QED BY <1>12

-----------------------------------------------------------------------------
(* The walk *)

\* Commits are emitted in rev-list's order, and the record kept back is the newest one
\* not yet emitted.
OrderInv ==
    /\ \A r \in DOMAIN rows : rows[r].oid \in 1..line
    /\ \A r, q \in DOMAIN rows : r < q => rows[r].oid < rows[q].oid
    /\ held # <<>> => /\ linear /\ held \in (1..line) \X Seq(1..Outside)
                      /\ \A r \in DOMAIN rows : rows[r].oid < held[1]
                      /\ \A k \in DOMAIN held[2] : held[1] < held[2][k]

\* Lane 0 is kept until the trunk's tip is emitted.
TrunkInv == trunkTip # None /\ ~Emitted(trunkTip) => Shut(lanes, edges)

WalkInv ==
    /\ line \in 0..Commits /\ state \in {"walking", "truncated", "complete"}
    /\ rows \in Seq(RowMeta) /\ given \in Seq(Seq(1..Outside)) /\ Len(given) = Len(rows)
    /\ Tidy(lanes, edges) /\ OrderInv /\ TrunkInv

\* A row's slots are those from its offset to the next row's, in the order of its
\* parents, and rows come in order.
RowSlots(r) ==
    /\ rows[r].offset + Len(given[r]) = IF r < Len(rows) THEN rows[r + 1].offset ELSE Len(edges)
    /\ rows[r].offset + Len(given[r]) <= Len(edges)
    /\ \A k \in DOMAIN given[r] : /\ edges[rows[r].offset + k].to = given[r][k]
                                  /\ edges[rows[r].offset + k].childRow = r
EdgeSlot(i) ==
    /\ edges[i].childRow \in DOMAIN rows
    /\ i - rows[edges[i].childRow].offset \in DOMAIN given[edges[i].childRow]
SlotInv ==
    /\ \A r \in DOMAIN rows : RowSlots(r)
    /\ \A i \in DOMAIN edges : EdgeSlot(i)
    /\ \A i, j \in DOMAIN edges : i < j => edges[i].childRow <= edges[j].childRow

\* An edge ends at the row of its parent as soon as there is one.
EndInv ==
    \A i \in DOMAIN edges :
        IF edges[i].parentRow = Boundary THEN ~Emitted(edges[i].to)
        ELSE edges[i].parentRow \in DOMAIN rows /\ rows[edges[i].parentRow].oid = edges[i].to

\* Only a finished walk has flags.
FlagInv ==
    \A r \in DOMAIN rows : rows[r].boundary =
        (state = "complete" /\ \E i \in DOMAIN edges : edges[i].parentRow = Boundary /\ edges[i].childRow = r)

\* LinesAreReadable, with the row of the trunk's tip named.
LineInv ==
    /\ \A i \in DOMAIN edges, r \in DOMAIN rows :
          Passes(edges[i], r) /\ ~isOverflow(edges[i].lane) => rows[r].lane # edges[i].lane
    /\ \A i \in DOMAIN edges :
          edges[i].kind = "FirstParent" /\ edges[i].parentRow # Boundary =>
              rows[edges[i].parentRow].lane <= edges[i].childLane
    /\ trunkTip # None => \A r \in DOMAIN rows :
          /\ rows[r].oid = trunkTip => rows[r].lane = 0
          /\ rows[r].lane = 0 => \E q \in 1..r : rows[q].oid = trunkTip

\* A commit is added, newer than its parents and older than those before it.
Adds ==
    \E oid \in 1..line', parents \in Seq(1..Outside), lane \in Lane, color \in Colour :
        /\ Placed(oid, parents, lane, color)
        /\ \A r \in DOMAIN rows : rows[r].oid < oid
        /\ \A k \in DOMAIN parents : oid < parents[k]
        /\ held' # <<>> => oid < held'[1]
Keeps == UNCHANGED <<lanes, rows, edges, given>>
Flags == rows' = finish(rows, edges) /\ UNCHANGED <<lanes, edges, given>>

\* Every step of the walk adds one commit, leaves the graph alone, or sets the flags.
Moves ==
    /\ UNCHANGED trunkTip /\ line' \in line..Commits
    /\ held' # <<>> => /\ linear' /\ held' \in (1..line') \X Seq(1..Outside)
                       /\ \A r \in DOMAIN rows : rows[r].oid < held'[1]
                       /\ \A k \in DOMAIN held'[2] : held'[1] < held'[2][k]
    /\ \/ Adds /\ state' = state /\ state # "complete"
       \/ Keeps /\ (state' = state \/ (state' = "truncated" /\ state # "complete"))
       \/ Flags /\ state' = "complete" /\ state # "complete"

LEMMA StepMoves ==
    ASSUME WalkInv, [Next]_vars
    PROVE  Moves
<1> DEFINE Newer == held' # <<>> =>
              /\ linear' /\ held' \in (1..line') \X Seq(1..Outside)
              /\ \A r \in DOMAIN rows : rows[r].oid < held'[1]
              /\ \A k \in DOMAIN held'[2] : held'[1] < held'[2][k]
<1>1. /\ line \in Nat /\ line <= Commits /\ Commits \in Nat /\ Outside = Commits + 1 /\ Outside \in Nat
      /\ Tidy(lanes, edges) /\ rows \in Seq(RowMeta) /\ line \in line..Commits
      /\ \A r \in DOMAIN rows : rows[r].oid \in 1..line
  BY GraphAssumption DEF WalkInv, Outside, OrderInv
<1>2. ASSUME NEW oid \in 1..Commits, oid <= line', line' \in line..Commits, NEW parents \in Seq(1..Outside),
             \A r \in DOMAIN rows : rows[r].oid < oid,
             \A k \in DOMAIN parents : oid < parents[k],
             held' # <<>> => oid < held'[1], Newer,
             add(oid, parents), state \in {"walking", "truncated"}, UNCHANGED trunkTip
      PROVE  Moves
  <2>1. CASE Len(rows) >= maxRows
    <3>1. Keeps /\ state' = "truncated" /\ state # "complete" BY <1>2, <2>1 DEF add, Keeps
    <3> QED BY <1>2, <3>1 DEF Moves
  <2>2. CASE ~(Len(rows) >= maxRows)
    <3>1. Added(oid, parents) /\ state' = state BY <1>2, <2>2 DEF add
    <3>2. oid = trunkTip => Shut(lanes, edges)
      BY <1>1, <1>2 DEF WalkInv, TrunkInv, Emitted, None
    <3>3. oid \in 1..Outside BY <1>1, <1>2
    <3>4. PICK lane, color : Placed(oid, parents, lane, color)
      BY <1>1, <3>1, <3>2, <3>3, AddedIsPlaced
    <3>5. oid \in 1..line' BY <1>1, <1>2
    <3>6. lane \in Lane /\ color \in Colour BY <3>4 DEF Placed
    <3>7. Adds BY <1>2, <3>4, <3>5, <3>6 DEF Adds
    <3> QED BY <1>2, <3>1, <3>7 DEF Moves
  <2> QED BY <2>1, <2>2
<1>3. ASSUME NEW parents \in ParentLists, Line(parents) PROVE Moves
  <2>1. /\ state = "walking" /\ line < Commits /\ line' = line + 1 /\ line' \in 1..Commits
        /\ UNCHANGED <<trunkTip, linear>> /\ line' \in line..Commits
    BY <1>1, <1>3 DEF Line
  <2>2. parents \in Seq(1..Outside) /\ \A k \in DOMAIN parents : line' < parents[k]
    <3>1. PICK n \in 0..MaxParents : parents \in [1..n -> line + 2..Outside]
      BY <1>3 DEF ParentLists
    <3>2. n \in Nat /\ DOMAIN parents = 1..n BY <3>1, GraphAssumption
    <3>3. \A k \in 1..n : parents[k] \in 1..Outside /\ line' < parents[k] BY <1>1, <2>1, <3>1
    <3>4. parents \in [1..n -> 1..Outside] BY <3>1, <3>3
    <3>5. parents \in Seq(1..Outside) BY <3>2, <3>4, SeqDef
    <3> QED BY <3>2, <3>3, <3>5
  <2>3. \A r \in DOMAIN rows : rows[r].oid < line' BY <1>1, <2>1
  <2>4. CASE ~linear
    <3>1. add(line', parents) /\ held' = held BY <1>3, <2>4 DEF Line
    <3>2. line' <= line' /\ line' \in Nat BY <1>1, <2>1
    <3>3. held' = <<>> BY <2>4, <3>1 DEF WalkInv, OrderInv
    <3> QED BY <1>2, <2>1, <2>2, <2>3, <3>1, <3>2, <3>3
  <2>5. CASE linear
    <3>1. held' = <<line', parents>> BY <1>3, <2>5 DEF Line
    <3>2. held'[1] = line' /\ held'[2] = parents /\ held' \in (1..line') \X Seq(1..Outside)
      BY <1>1, <2>1, <2>2, <3>1
    <3>3. Newer BY <2>1, <2>2, <2>3, <2>5, <3>2
    <3>4. CASE held = <<>>
      <4>1. Keeps /\ state' = state BY <1>3, <2>5, <3>4 DEF Line, Keeps
      <4> QED BY <2>1, <3>3, <4>1 DEF Moves
    <3>5. CASE held # <<>>
      <4>1. add(held[1], <<line'>>) BY <1>3, <2>5, <3>5 DEF Line
      <4>2. held[1] \in 1..line /\ \A r \in DOMAIN rows : rows[r].oid < held[1]
        BY <3>5 DEF WalkInv, OrderInv
      <4>3. held[1] \in 1..Commits /\ held[1] <= line' /\ held[1] < line'
        BY <1>1, <2>1, <4>2
      <4>4. line' \in 1..Outside BY <1>1, <2>1
      <4>5. <<line'>> \in Seq(1..Outside) /\ \A k \in DOMAIN <<line'>> : held[1] < <<line'>>[k]
        BY <4>3, <4>4
      <4>6. held' # <<>> => held[1] < held'[1] BY <3>2, <4>3
      <4> HIDE DEF Newer
      <4> QED BY <1>2, <2>1, <3>3, <4>1, <4>2, <4>3, <4>5, <4>6
    <3> QED BY <3>4, <3>5
  <2> QED BY <2>4, <2>5
<1>4. UNCHANGED <<held, line, linear>> => Newer
  BY DEF WalkInv, OrderInv
<1>5. CASE Malformed
  <2>1. /\ Keeps /\ state' = state /\ UNCHANGED <<trunkTip, held, linear>> /\ line' = line + 1
        /\ line < Commits
    BY <1>5 DEF Malformed, Keeps
  <2>2. line' \in line..Commits /\ 1..line \subseteq 1..line' BY <1>1, <2>1
  <2>3. Newer BY <2>1, <2>2 DEF WalkInv, OrderInv
  <2> QED BY <2>1, <2>2, <2>3 DEF Moves
<1>6. CASE EndLast
  <2>1. /\ state \in {"walking", "truncated"} /\ held # <<>> /\ add(held[1], held[2])
        /\ UNCHANGED <<trunkTip, line>> /\ held' = <<>>
    BY <1>6 DEF EndLast
  <2>2. /\ held[1] \in 1..line /\ held[2] \in Seq(1..Outside)
        /\ \A r \in DOMAIN rows : rows[r].oid < held[1]
        /\ \A k \in DOMAIN held[2] : held[1] < held[2][k]
    BY <2>1 DEF WalkInv, OrderInv
  <2>3. held[1] \in 1..Commits /\ held[1] <= line' /\ line' \in line..Commits
    BY <1>1, <2>1, <2>2
  <2> QED BY <1>2, <2>1, <2>2, <2>3
<1>7. CASE Finish BY <1>1, <1>4, <1>7 DEF Finish, Moves, Flags
<1>8. CASE UNCHANGED vars BY <1>1, <1>4, <1>8 DEF vars, Moves, Keeps
<1> QED BY <1>3, <1>5, <1>6, <1>7, <1>8 DEF Next

\* Placed, field by field.
Afterwards(oid, parents, lane) ==
    LET n == Len(rows)
        m == Len(edges) IN
    /\ n \in Nat /\ m \in Nat /\ Len(parents) \in Nat
    /\ DOMAIN rows = 1..n /\ DOMAIN edges = 1..m /\ DOMAIN given = 1..n /\ DOMAIN parents = 1..Len(parents)
    /\ Len(rows') = n + 1 /\ DOMAIN rows' = 1..n + 1 /\ DOMAIN given' = 1..n + 1 /\ Len(given') = n + 1
    /\ Len(edges') = m + Len(parents) /\ DOMAIN edges' = 1..m + Len(parents)
    /\ \A r \in 1..n : rows'[r] = rows[r] /\ given'[r] = given[r]
    /\ rows'[n + 1].oid = oid /\ rows'[n + 1].lane = lane /\ rows'[n + 1].offset = m
    /\ rows'[n + 1].boundary = FALSE /\ given'[n + 1] = parents
    /\ \A i \in 1..m :
          /\ edges'[i].childRow = edges[i].childRow /\ edges'[i].lane = edges[i].lane
          /\ edges'[i].childLane = edges[i].childLane /\ edges'[i].color = edges[i].color
          /\ edges'[i].kind = edges[i].kind /\ edges'[i].to = edges[i].to
          /\ edges'[i].parentRow =
                IF edges[i].parentRow = Boundary /\ edges[i].to = oid THEN n + 1 ELSE edges[i].parentRow
    /\ \A k \in 1..Len(parents) :
          /\ edges'[m + k].childRow = n + 1 /\ edges'[m + k].parentRow = Boundary
          /\ edges'[m + k].childLane = lane /\ edges'[m + k].to = parents[k]
    /\ \A i \in DOMAIN edges' : i \in 1..m \/ (i - m \in 1..Len(parents) /\ i = m + (i - m))
    /\ rows' \in Seq(RowMeta) /\ given' \in Seq(Seq(1..Outside))

LEMMA NewEdgesStart ==
    ASSUME NEW oid, NEW parents, NEW lane, Afterwards(oid, parents, lane)
    PROVE  \A i \in DOMAIN edges' : i \in 1..Len(edges) \/
              (edges'[i].childRow = Len(rows) + 1 /\ edges'[i].parentRow = Boundary)
<1> DEFINE m == Len(edges)
<1>1. /\ \A k \in 1..Len(parents) : edges'[m + k].childRow = Len(rows) + 1 /\ edges'[m + k].parentRow = Boundary
      /\ \A i \in DOMAIN edges' : i \in 1..m \/ (i - m \in 1..Len(parents) /\ i = m + (i - m))
  BY DEF Afterwards
<1> SUFFICES ASSUME NEW i \in DOMAIN edges', i \notin 1..m
             PROVE  edges'[i].childRow = Len(rows) + 1 /\ edges'[i].parentRow = Boundary
  OBVIOUS
<1>2. PICK k \in 1..Len(parents) : i = m + k BY <1>1
<1> HIDE DEF m
<1> QED BY <1>1, <1>2

LEMMA WhatIsPlaced ==
    ASSUME WalkInv, NEW oid \in Nat, NEW parents \in Seq(1..Outside), NEW lane, NEW color,
           Placed(oid, parents, lane, color)
    PROVE  Afterwards(oid, parents, lane)
<1> DEFINE n == Len(rows)
           m == Len(edges)
           new == [oid |-> oid, lane |-> lane, color |-> color, offset |-> m, boundary |-> FALSE]
<1>1. /\ rows \in Seq(RowMeta) /\ given \in Seq(Seq(1..Outside)) /\ edges \in Seq(Edge) /\ Len(given) = n
  BY DEF WalkInv, Tidy
<1>2. /\ n \in Nat /\ m \in Nat /\ Len(parents) \in Nat
      /\ DOMAIN rows = 1..n /\ DOMAIN edges = 1..m /\ DOMAIN given = 1..n /\ DOMAIN parents = 1..Len(parents)
  BY <1>1
<1>3. new \in RowMeta BY <1>2 DEF RowMeta, Placed
<1>4. rows' = Append(rows, new) /\ given' = Append(given, parents) BY DEF Placed
<1>5. /\ rows' \in Seq(RowMeta) /\ Len(rows') = n + 1 /\ DOMAIN rows' = 1..n + 1
      /\ \A r \in 1..n : rows'[r] = rows[r]
      /\ rows'[n + 1] = new
  <2> HIDE DEF new
  <2> QED BY <1>1, <1>2, <1>3, <1>4, Appended
<1>6. /\ given' \in Seq(Seq(1..Outside)) /\ DOMAIN given' = 1..n + 1 /\ Len(given') = n + 1
      /\ \A r \in 1..n : given'[r] = given[r]
      /\ given'[n + 1] = parents
  BY <1>1, <1>2, <1>4, Appended
<1>7. Len(edges') = m + Len(parents) /\ edges' \in Seq(Edge) BY DEF Placed, Tidy
<1>8. DOMAIN edges' = 1..m + Len(parents) BY <1>7
<1>9. ASSUME NEW i \in 1..m
      PROVE  /\ edges'[i].childRow = edges[i].childRow /\ edges'[i].lane = edges[i].lane
             /\ edges'[i].childLane = edges[i].childLane /\ edges'[i].color = edges[i].color
             /\ edges'[i].kind = edges[i].kind /\ edges'[i].to = edges[i].to
             /\ edges'[i].parentRow =
                   IF edges[i].parentRow = Boundary /\ edges[i].to = oid THEN n + 1 ELSE edges[i].parentRow
  <2>1. edges[i] \in Edge BY <1>1, <1>2
  <2>2. edges'[i] = IF i \in Pending(edges, oid) THEN [edges[i] EXCEPT !.parentRow = n + 1] ELSE edges[i]
    BY <1>2 DEF Placed
  <2>3. i \in Pending(edges, oid) <=> edges[i].parentRow = Boundary /\ edges[i].to = oid
    BY <1>2 DEF Pending
  <2> QED BY <1>2, <2>1, <2>2, <2>3 DEF Edge
<1>10. \A k \in 1..Len(parents) :
          /\ edges'[m + k].childRow = n + 1 /\ edges'[m + k].parentRow = Boundary
          /\ edges'[m + k].childLane = lane /\ edges'[m + k].to = parents[k]
  BY <1>2 DEF Placed, Drawn
<1>11. \A i \in DOMAIN edges' : i \in 1..m \/ (i - m \in 1..Len(parents) /\ i = m + (i - m))
  BY <1>2, <1>8
<1>12. /\ rows'[n + 1].oid = oid /\ rows'[n + 1].lane = lane /\ rows'[n + 1].offset = m
       /\ rows'[n + 1].boundary = FALSE
  BY <1>5
<1> HIDE DEF new
<1> QED BY <1>2, <1>5, <1>6, <1>7, <1>8, <1>9, <1>10, <1>11, <1>12 DEF Afterwards

\* Setting the flags changes nothing else in a row.
LEMMA WhatIsFlagged ==
    ASSUME WalkInv, Flags
    PROVE  /\ rows' \in Seq(RowMeta) /\ Len(rows') = Len(rows) /\ DOMAIN rows' = DOMAIN rows
           /\ UNCHANGED <<lanes, edges, given>>
           /\ \A r \in DOMAIN rows :
                 /\ rows'[r].oid = rows[r].oid /\ rows'[r].lane = rows[r].lane
                 /\ rows'[r].offset = rows[r].offset
                 /\ rows'[r].boundary = (rows[r].boundary \/
                       \E i \in DOMAIN edges : edges[i].parentRow = Boundary /\ edges[i].childRow = r)
<1> DEFINE Stub(r) == \E i \in DOMAIN edges : edges[i].parentRow = Boundary /\ edges[i].childRow = r
<1>1. rows \in Seq(RowMeta) /\ DOMAIN rows = 1..Len(rows) /\ Len(rows) \in Nat BY DEF WalkInv
<1>2. rows' = [r \in 1..Len(rows) |-> [rows[r] EXCEPT !.boundary = rows[r].boundary \/ Stub(r)]]
  BY <1>1 DEF Flags, finish
<1>3. \A r \in DOMAIN rows : rows[r] \in RowMeta /\ Stub(r) \in BOOLEAN BY <1>1
<1> HIDE DEF Stub
<1>4. ASSUME NEW r \in DOMAIN rows
      PROVE  /\ rows'[r] \in RowMeta
             /\ rows'[r].oid = rows[r].oid /\ rows'[r].lane = rows[r].lane
             /\ rows'[r].offset = rows[r].offset
             /\ rows'[r].boundary = (rows[r].boundary \/ Stub(r))
  <2>1. rows'[r] = [rows[r] EXCEPT !.boundary = rows[r].boundary \/ Stub(r)] BY <1>1, <1>2
  <2>2. (rows[r].boundary \/ Stub(r)) \in BOOLEAN OBVIOUS
  <2> QED BY <1>3, <2>1, <2>2 DEF RowMeta
<1>5. rows' \in [1..Len(rows) -> RowMeta] BY <1>1, <1>2, <1>4
<1>6. rows' \in Seq(RowMeta) /\ Len(rows') = Len(rows) /\ DOMAIN rows' = DOMAIN rows BY <1>1, <1>5
<1> QED BY <1>4, <1>6 DEF Flags, Stub

LEMMA WalkStarts == Init => WalkInv
<1> SUFFICES ASSUME Init PROVE WalkInv
  OBVIOUS
<1>1. /\ line = 0 /\ held = <<>> /\ rows = <<>> /\ edges = <<>> /\ given = <<>> /\ state = "walking"
      /\ lanes = IF trunkTip = None THEN NoLanes ELSE markUsed(NoLanes, 0)
  BY DEF Init
<1>2. 0 \in Lanes /\ 0 \in Colour BY LaneAssumption DEF Lanes, Colour
<1>3. NoLanes \in Allocator /\ NoLanes.used = {} /\ NoLanes.colors = [lane \in Lanes |-> 0]
  BY <1>2 DEF NoLanes, Allocator
<1>4. lanes \in Allocator /\ lanes.used \subseteq {0} /\ lanes.colors = [lane \in Lanes |-> 0]
  BY <1>1, <1>2, <1>3, MarkedLane
<1>5. trunkTip # None => 0 \in lanes.used BY <1>1, <1>2, <1>3, MarkedLane
<1>6. Vivid(lanes) BY <1>2, <1>4 DEF Vivid
<1>7. Tidy(lanes, edges) BY <1>1, <1>4, <1>6 DEF Tidy
<1>8. OrderInv BY <1>1 DEF OrderInv
<1>9. TrunkInv BY <1>1, <1>5 DEF TrunkInv, Shut
<1> QED BY <1>1, <1>7, <1>8, <1>9, GraphAssumption DEF WalkInv

LEMMA WalkGoesOn == WalkInv /\ [Next]_vars => WalkInv'
<1> SUFFICES ASSUME WalkInv, [Next]_vars PROVE WalkInv'
  OBVIOUS
<1>1. Moves BY StepMoves
<1>2. /\ line' \in 0..Commits /\ 1..line \subseteq 1..line' /\ line' \in Nat
      /\ state' \in {"walking", "truncated", "complete"} /\ UNCHANGED trunkTip
  BY <1>1, GraphAssumption DEF Moves, WalkInv
<1>3. CASE Adds
  <2>1. PICK oid \in 1..line', parents \in Seq(1..Outside), lane \in Lane, color \in Colour :
           /\ Placed(oid, parents, lane, color)
           /\ \A r \in DOMAIN rows : rows[r].oid < oid
           /\ \A k \in DOMAIN parents : oid < parents[k]
           /\ held' # <<>> => oid < held'[1]
    BY <1>3 DEF Adds
  <2>2. Afterwards(oid, parents, lane)
    <3>1. oid \in Nat BY <1>2
    <3> QED BY <2>1, <3>1, WhatIsPlaced
  <2> DEFINE n == Len(rows)
  <2>3. /\ n \in Nat /\ DOMAIN rows = 1..n /\ DOMAIN rows' = 1..n + 1 /\ Len(rows') = n + 1 /\ Len(given') = n + 1
        /\ \A r \in 1..n : rows'[r] = rows[r]
        /\ rows'[n + 1].oid = oid
        /\ rows' \in Seq(RowMeta) /\ given' \in Seq(Seq(1..Outside))
    BY <2>2 DEF Afterwards
  <2> HIDE DEF n
  <2>4. \A r \in 1..n + 1 : (r \in 1..n /\ r <= n) \/ r = n + 1 BY <2>3
  <2>5. OrderInv'
    <3>1. \A r \in DOMAIN rows : rows[r].oid \in 1..line BY DEF WalkInv, OrderInv
    <3>2. \A r \in DOMAIN rows' : rows'[r].oid \in 1..line' BY <1>2, <2>3, <2>4, <3>1
    <3>3. ASSUME NEW r \in DOMAIN rows', NEW q \in DOMAIN rows', r < q PROVE rows'[r].oid < rows'[q].oid
      <4>1. r \in 1..n BY <2>3, <3>3
      <4>2. CASE q \in 1..n BY <2>3, <3>3, <4>1, <4>2 DEF WalkInv, OrderInv
      <4>3. CASE q = n + 1 BY <2>1, <2>3, <4>1, <4>3
      <4> QED BY <2>3, <2>4, <4>2, <4>3
    <3>4. held' # <<>> => \A r \in DOMAIN rows' : rows'[r].oid < held'[1]
      BY <1>1, <2>1, <2>3, <2>4 DEF Moves
    <3> QED BY <1>1, <3>2, <3>3, <3>4 DEF OrderInv, Moves
  <2>6. TrunkInv'
    <3> SUFFICES ASSUME trunkTip # None, ~Emitted(trunkTip)' PROVE Shut(lanes, edges)'
      BY <1>2 DEF TrunkInv
    <3>1. oid # trunkTip
      <4>1. n + 1 \in DOMAIN rows' BY <2>3
      <4> QED BY <1>2, <2>3, <4>1 DEF Emitted
    <3>2. ~Emitted(trunkTip)
      <4>1. \A r \in DOMAIN rows : r \in DOMAIN rows' /\ rows'[r] = rows[r] BY <2>3
      <4> QED BY <1>2, <4>1 DEF Emitted
    <3>3. Shut(lanes, edges) BY <3>2 DEF WalkInv, TrunkInv
    <3> QED BY <2>1, <3>1, <3>3 DEF Placed
  <2>7. Tidy(lanes, edges)' BY <2>1 DEF Placed
  <2> QED BY <1>2, <2>3, <2>5, <2>6, <2>7 DEF WalkInv
<1>4. ASSUME UNCHANGED <<lanes, edges, given>>, rows' \in Seq(RowMeta), Len(rows') = Len(rows),
             DOMAIN rows' = DOMAIN rows, \A r \in DOMAIN rows : rows'[r].oid = rows[r].oid
      PROVE  WalkInv'
  <2>1. OrderInv'
    <3>1. \A r \in DOMAIN rows : rows[r].oid \in 1..line' BY <1>2 DEF WalkInv, OrderInv
    <3>2. \A r, q \in DOMAIN rows : r < q => rows[r].oid < rows[q].oid BY DEF WalkInv, OrderInv
    <3> QED BY <1>1, <1>4, <3>1, <3>2 DEF OrderInv, Moves
  <2>2. TrunkInv' BY <1>2, <1>4 DEF WalkInv, TrunkInv, Emitted, Shut
  <2>3. Tidy(lanes, edges)' BY <1>4 DEF WalkInv, Tidy
  <2> QED BY <1>2, <1>4, <2>1, <2>2, <2>3 DEF WalkInv
<1>5. CASE Keeps BY <1>4, <1>5 DEF Keeps, WalkInv
<1>6. CASE Flags BY <1>4, <1>6, WhatIsFlagged
<1> QED BY <1>1, <1>3, <1>5, <1>6 DEF Moves

LEMMA WalkInvariant == Spec => []WalkInv
BY WalkStarts, WalkGoesOn, PTL DEF Spec

-----------------------------------------------------------------------------
(* What the arrays hold *)

HistoryInv == SlotInv /\ EndInv /\ FlagInv

LEMMA HistoryStarts == Init => HistoryInv
<1> SUFFICES ASSUME Init PROVE HistoryInv
  OBVIOUS
<1>1. rows = <<>> /\ edges = <<>> BY DEF Init
<1> QED BY <1>1 DEF HistoryInv, SlotInv, EndInv, FlagInv

\* Adding a commit fills the next slots and ends the edges that waited for it.
LEMMA HistoryGrows ==
    ASSUME WalkInv, HistoryInv, NEW oid \in Nat, NEW parents \in Seq(1..Outside), NEW lane,
           Afterwards(oid, parents, lane),
           \A r \in DOMAIN rows : rows[r].oid < oid,
           \A k \in DOMAIN parents : oid < parents[k],
           state # "complete", state' = state
    PROVE  HistoryInv'
<1> DEFINE n == Len(rows)
           m == Len(edges)
           p == Len(parents)
<1>1. /\ n \in Nat /\ m \in Nat /\ p \in Nat
      /\ DOMAIN rows = 1..n /\ DOMAIN edges = 1..m /\ DOMAIN parents = 1..p
      /\ Len(rows') = n + 1 /\ DOMAIN rows' = 1..n + 1
      /\ Len(edges') = m + p /\ DOMAIN edges' = 1..m + p
      /\ \A r \in 1..n : rows'[r] = rows[r] /\ given'[r] = given[r]
      /\ rows'[n + 1].oid = oid /\ rows'[n + 1].offset = m
      /\ rows'[n + 1].boundary = FALSE /\ given'[n + 1] = parents
  BY DEF Afterwards
<1>2. \A i \in 1..m :
          /\ edges'[i].childRow = edges[i].childRow /\ edges'[i].to = edges[i].to
          /\ edges'[i].parentRow =
                IF edges[i].parentRow = Boundary /\ edges[i].to = oid THEN n + 1 ELSE edges[i].parentRow
  BY DEF Afterwards
<1>3. \A k \in 1..p :
          /\ edges'[m + k].childRow = n + 1 /\ edges'[m + k].parentRow = Boundary
          /\ edges'[m + k].to = parents[k]
  BY DEF Afterwards
<1>4. \A i \in DOMAIN edges' : i \in 1..m \/ (i - m \in 1..p /\ i = m + (i - m))
  BY DEF Afterwards
<1>5. \A r \in 1..n : /\ rows[r].offset \in Nat /\ Len(given[r]) \in Nat
                      /\ DOMAIN given[r] = 1..Len(given[r]) /\ rows[r] \in RowMeta
  <2>1. rows \in Seq(RowMeta) /\ given \in Seq(Seq(1..Outside)) /\ DOMAIN given = 1..n
    BY DEF WalkInv, Afterwards
  <2>2. ASSUME NEW r \in 1..n PROVE rows[r] \in RowMeta /\ given[r] \in Seq(1..Outside)
    BY <1>1, <2>1
  <2> QED BY <2>2 DEF RowMeta
<1> HIDE DEF n, m, p
<1>6. \A r \in 1..n + 1 : r \in 1..n \/ r = n + 1 BY <1>1
<1>7. SlotInv'
  <2>1. ASSUME NEW r \in 1..n PROVE RowSlots(r)'
    <3>1. RowSlots(r) BY <1>1 DEF HistoryInv, SlotInv
    <3>2. rows'[r] = rows[r] /\ given'[r] = given[r] BY <1>1
    <3>3. r < Len(rows') BY <1>1
    <3>4. rows'[r + 1].offset = IF r < n THEN rows[r + 1].offset ELSE m
      <4>1. CASE r < n
        <5>1. r + 1 \in 1..n BY <1>1, <4>1
        <5> QED BY <1>1, <4>1, <5>1
      <4>2. CASE ~(r < n)
        <5>1. r + 1 = n + 1 BY <1>1, <4>2
        <5> QED BY <1>1, <4>2, <5>1
      <4> QED BY <4>1, <4>2
    <3>5. rows[r].offset + Len(given[r]) = IF r < n THEN rows[r + 1].offset ELSE m
      BY <3>1 DEF RowSlots, n, m
    <3>6. rows[r].offset + Len(given[r]) <= m BY <3>1 DEF RowSlots, m
    <3>7. rows'[r].offset + Len(given'[r]) <= Len(edges') BY <1>1, <1>5, <3>2, <3>6
    <3>8. ASSUME NEW k \in DOMAIN given[r]
          PROVE  /\ edges'[rows[r].offset + k].to = given[r][k]
                 /\ edges'[rows[r].offset + k].childRow = r
      <4> DEFINE o == rows[r].offset
                 g == Len(given[r])
      <4>1. o \in Nat /\ g \in Nat /\ k \in 1..g /\ o + g <= m BY <1>5, <3>6
      <4>2. edges[o + k].to = given[r][k] /\ edges[o + k].childRow = r BY <3>1 DEF RowSlots
      <4> HIDE DEF o, g
      <4>3. o + k \in 1..m BY <1>1, <4>1
      <4>4. edges'[o + k].to = given[r][k] /\ edges'[o + k].childRow = r BY <1>2, <4>2, <4>3
      <4> QED BY <4>4 DEF o
    <3> QED BY <3>2, <3>3, <3>4, <3>5, <3>7, <3>8 DEF RowSlots
  <2>2. ASSUME NEW r, r = n + 1 PROVE RowSlots(r)'
    <3>1. rows'[r].offset = m /\ given'[r] = parents /\ Len(given'[r]) = p /\ DOMAIN given'[r] = 1..p
      BY <1>1, <2>2 DEF p
    <3>2. ~(r < Len(rows')) /\ m + p <= Len(edges') /\ m + p = Len(edges') BY <1>1, <2>2
    <3>3. \A k \in 1..p : edges'[m + k].to = parents[k] /\ edges'[m + k].childRow = r BY <1>3, <2>2
    <3> QED BY <3>1, <3>2, <3>3 DEF RowSlots
  <2>3. ASSUME NEW i \in DOMAIN edges' PROVE EdgeSlot(i)'
    <3>1. CASE i \in 1..m
      <4>1. /\ edges[i].childRow \in 1..n
            /\ i - rows[edges[i].childRow].offset \in DOMAIN given[edges[i].childRow]
        BY <1>1, <3>1 DEF HistoryInv, SlotInv, EdgeSlot
      <4> QED BY <1>1, <1>2, <3>1, <4>1 DEF EdgeSlot
    <3>2. CASE i - m \in 1..p /\ i = m + (i - m)
      <4>1. edges'[i].childRow = n + 1 BY <1>3, <3>2
      <4> QED BY <1>1, <3>2, <4>1 DEF EdgeSlot
    <3> QED BY <1>4, <3>1, <3>2
  <2>4. ASSUME NEW i \in DOMAIN edges', NEW j \in DOMAIN edges', i < j
        PROVE  edges'[i].childRow <= edges'[j].childRow
    <3>1. \A h \in 1..m : edges[h].childRow \in 1..n BY <1>1 DEF HistoryInv, SlotInv, EdgeSlot
    <3>2. CASE j \in 1..m
      <4>1. i \in 1..m BY <1>1, <2>4, <3>2
      <4> QED BY <1>1, <1>2, <2>4, <3>2, <4>1 DEF HistoryInv, SlotInv
    <3>3. CASE j - m \in 1..p /\ j = m + (j - m)
      <4>1. edges'[j].childRow = n + 1 BY <1>3, <3>3
      <4>2. CASE i \in 1..m BY <1>1, <1>2, <3>1, <4>1, <4>2
      <4>3. CASE i - m \in 1..p /\ i = m + (i - m)
        <5>1. edges'[i].childRow = n + 1 BY <1>3, <4>3
        <5> QED BY <1>1, <4>1, <5>1
      <4> QED BY <1>4, <4>2, <4>3
    <3> QED BY <1>4, <3>2, <3>3
  <2>5. ASSUME NEW r \in DOMAIN rows' PROVE RowSlots(r)' BY <1>1, <1>6, <2>1, <2>2
  <2> QED BY <2>3, <2>4, <2>5 DEF SlotInv
<1>8. EndInv'
  <2> SUFFICES ASSUME NEW i \in DOMAIN edges'
               PROVE  IF edges'[i].parentRow = Boundary
                      THEN \A r \in DOMAIN rows' : rows'[r].oid # edges'[i].to
                      ELSE /\ edges'[i].parentRow \in DOMAIN rows'
                           /\ rows'[edges'[i].parentRow].oid = edges'[i].to
    BY DEF EndInv, Emitted
  <2>1. CASE i \in 1..m
    <3>1. IF edges[i].parentRow = Boundary
          THEN \A r \in 1..n : rows[r].oid # edges[i].to
          ELSE edges[i].parentRow \in 1..n /\ rows[edges[i].parentRow].oid = edges[i].to
      BY <1>1, <2>1 DEF HistoryInv, EndInv, Emitted
    <3>2. CASE edges[i].parentRow # Boundary
      <4>1. edges[i].parentRow \in 1..n + 1 BY <1>1, <3>1, <3>2
      <4> QED BY <1>1, <1>2, <2>1, <3>1, <3>2, <4>1
    <3>3. CASE edges[i].parentRow = Boundary /\ edges[i].to = oid
      <4>1. edges'[i].parentRow = n + 1 /\ edges'[i].to = oid BY <1>2, <2>1, <3>3
      <4>2. n + 1 # Boundary /\ n + 1 \in 1..n + 1 BY <1>1 DEF Boundary
      <4> QED BY <1>1, <4>1, <4>2
    <3>4. CASE edges[i].parentRow = Boundary /\ edges[i].to # oid
      BY <1>1, <1>2, <1>6, <2>1, <3>1, <3>4
    <3> QED BY <3>2, <3>3, <3>4
  <2>2. CASE i - m \in 1..p /\ i = m + (i - m)
    <3>1. edges'[i].parentRow = Boundary /\ edges'[i].to = parents[i - m] BY <1>3, <2>2
    <3>2. oid < parents[i - m] /\ parents[i - m] \in Nat
      <4>1. parents[i - m] \in 1..Outside BY <1>1, <2>2, ElementOfSeq DEF p
      <4>2. Outside \in Nat BY GraphAssumption DEF Outside
      <4> QED BY <1>1, <2>2, <4>1, <4>2
    <3>3. \A r \in 1..n : rows[r].oid \in Nat /\ rows[r].oid < oid BY <1>1, <1>5 DEF RowMeta
    <3>4. ASSUME NEW r \in DOMAIN rows' PROVE rows'[r].oid # edges'[i].to
      <4>1. CASE r \in 1..n BY <1>1, <3>1, <3>2, <3>3, <4>1
      <4>2. CASE r = n + 1 BY <1>1, <3>1, <3>2, <4>2
      <4> QED BY <1>1, <1>6, <4>1, <4>2
    <3> QED BY <3>1, <3>4
  <2> QED BY <1>4, <2>1, <2>2
<1>9. FlagInv'
  <2>1. \A r \in 1..n : rows[r].boundary = FALSE BY <1>1 DEF HistoryInv, FlagInv
  <2>2. \A r \in 1..n + 1 : rows'[r].boundary = FALSE BY <1>1, <1>6, <2>1
  <2> QED BY <1>1, <2>2 DEF FlagInv
<1> QED BY <1>7, <1>8, <1>9 DEF HistoryInv

LEMMA HistoryGoesOn == WalkInv /\ HistoryInv /\ [Next]_vars => HistoryInv'
<1> SUFFICES ASSUME WalkInv, HistoryInv, [Next]_vars PROVE HistoryInv'
  OBVIOUS
<1>1. Moves BY StepMoves
<1>2. CASE Adds /\ state' = state /\ state # "complete"
  <2>1. PICK oid \in 1..line', parents \in Seq(1..Outside), lane \in Lane, color \in Colour :
           /\ Placed(oid, parents, lane, color)
           /\ \A r \in DOMAIN rows : rows[r].oid < oid
           /\ \A k \in DOMAIN parents : oid < parents[k]
    BY <1>2 DEF Adds
  <2>2. oid \in Nat BY <1>1, GraphAssumption DEF Moves, WalkInv
  <2>3. Afterwards(oid, parents, lane) BY <2>1, <2>2, WhatIsPlaced
  <2> QED BY <1>2, <2>1, <2>2, <2>3, HistoryGrows
<1>3. CASE Keeps /\ (state' = state \/ (state' = "truncated" /\ state # "complete"))
  <2>1. SlotInv' BY <1>3 DEF Keeps, HistoryInv, SlotInv, RowSlots, EdgeSlot
  <2>2. EndInv' BY <1>3 DEF Keeps, HistoryInv, EndInv, Emitted
  <2>3. FlagInv' BY <1>3 DEF Keeps, HistoryInv, FlagInv
  <2> QED BY <2>1, <2>2, <2>3 DEF HistoryInv
<1>4. CASE Flags /\ state' = "complete" /\ state # "complete"
  <2>1. /\ Len(rows') = Len(rows) /\ DOMAIN rows' = DOMAIN rows /\ UNCHANGED <<edges, given>>
        /\ \A r \in DOMAIN rows :
              /\ rows'[r].oid = rows[r].oid /\ rows'[r].offset = rows[r].offset
              /\ rows'[r].boundary = (rows[r].boundary \/
                    \E i \in DOMAIN edges : edges[i].parentRow = Boundary /\ edges[i].childRow = r)
    BY <1>4, WhatIsFlagged
  <2>2. SlotInv'
    <3>1. \A r \in DOMAIN rows : r < Len(rows) => r + 1 \in DOMAIN rows
      BY DEF WalkInv
    <3>2. ASSUME NEW r \in DOMAIN rows PROVE RowSlots(r)'
      <4>1. RowSlots(r) BY DEF HistoryInv, SlotInv
      <4> QED BY <2>1, <3>1, <4>1 DEF RowSlots
    <3>3. ASSUME NEW i \in DOMAIN edges PROVE EdgeSlot(i)'
      <4>1. EdgeSlot(i) BY DEF HistoryInv, SlotInv
      <4> QED BY <2>1, <4>1 DEF EdgeSlot
    <3> QED BY <2>1, <3>2, <3>3 DEF HistoryInv, SlotInv
  <2>3. EndInv' BY <2>1 DEF HistoryInv, EndInv, Emitted
  <2>4. FlagInv'
    <3>1. \A r \in DOMAIN rows : ~rows[r].boundary BY <1>4 DEF HistoryInv, FlagInv
    <3> QED BY <1>4, <2>1, <3>1 DEF FlagInv
  <2> QED BY <2>2, <2>3, <2>4 DEF HistoryInv
<1> QED BY <1>1, <1>2, <1>3, <1>4 DEF Moves

LEMMA HistoryInvariant == Spec => []HistoryInv
BY WalkInvariant, HistoryStarts, HistoryGoesOn, PTL DEF Spec

-----------------------------------------------------------------------------
(* The lines are readable *)

LEMMA LinesGoOn == WalkInv /\ HistoryInv /\ LineInv /\ [Next]_vars => LineInv'
<1> SUFFICES ASSUME WalkInv, HistoryInv, LineInv, [Next]_vars PROVE LineInv'
  OBVIOUS
<1>1. Moves BY StepMoves
<1>2. UNCHANGED trunkTip BY <1>1 DEF Moves
<1>3. CASE Adds
  <2>1. PICK oid \in 1..line', parents \in Seq(1..Outside), lane \in Lane, color \in Colour :
           Placed(oid, parents, lane, color)
    BY <1>3 DEF Adds
  <2>2. Afterwards(oid, parents, lane)
    <3>1. oid \in Nat BY <1>1, GraphAssumption DEF Moves, WalkInv
    <3> QED BY <2>1, <3>1, WhatIsPlaced
  <2> DEFINE n == Len(rows)
             m == Len(edges)
  <2>3. /\ n \in Nat /\ m \in Nat /\ DOMAIN rows = 1..n /\ DOMAIN edges = 1..m /\ DOMAIN rows' = 1..n + 1
        /\ \A r \in 1..n : rows'[r] = rows[r]
        /\ rows'[n + 1].oid = oid /\ rows'[n + 1].lane = lane
    BY <2>2 DEF Afterwards
  <2>4. \A i \in 1..m :
          /\ edges'[i].childRow = edges[i].childRow /\ edges'[i].lane = edges[i].lane
          /\ edges'[i].childLane = edges[i].childLane
          /\ edges'[i].kind = edges[i].kind /\ edges'[i].to = edges[i].to
          /\ edges'[i].parentRow =
                IF edges[i].parentRow = Boundary /\ edges[i].to = oid THEN n + 1 ELSE edges[i].parentRow
    BY <2>2 DEF Afterwards
  <2>5. \A i \in DOMAIN edges' : i \in 1..m \/ (edges'[i].childRow = n + 1 /\ edges'[i].parentRow = Boundary)
    BY <2>2, NewEdgesStart
  <2>6. \A i \in 1..m : /\ edges[i] \in Edge
                        /\ edges[i].parentRow = Boundary \/ edges[i].parentRow \in 1..n
    <3>1. edges \in Seq(Edge) BY DEF WalkInv, Tidy
    <3> QED BY <2>3, <3>1 DEF HistoryInv, EndInv
  <2> HIDE DEF n, m
  <2>7. \A r \in 1..n + 1 : r \in 1..n \/ r = n + 1 BY <2>3
  <2>8. ASSUME NEW i \in DOMAIN edges', NEW r \in DOMAIN rows',
               Passes(edges'[i], r), ~isOverflow(edges'[i].lane)
        PROVE  rows'[r].lane # edges'[i].lane
    <3>1. i \in 1..m
      <4>1. SUFFICES ASSUME edges'[i].childRow = n + 1 PROVE FALSE
        BY <2>5
      <4> QED BY <2>3, <2>8, <4>1 DEF Passes
    <3>2. CASE r \in 1..n
      <4>1. Passes(edges[i], r)
        BY <2>3, <2>4, <2>8, <3>1, <3>2 DEF Passes, Boundary
      <4> QED BY <2>3, <2>4, <2>8, <3>1, <3>2, <4>1 DEF LineInv
    <3>3. CASE r = n + 1
      <4>1. ASSUME edges[i].parentRow # Boundary PROVE FALSE
        <5>1. edges[i].parentRow \in 1..n /\ edges'[i].parentRow = edges[i].parentRow
          BY <2>4, <2>6, <3>1, <4>1
        <5> QED BY <2>3, <2>8, <3>3, <4>1, <5>1 DEF Passes
      <4>2. ASSUME edges[i].to = oid PROVE FALSE
        <5>1. edges'[i].parentRow = n + 1 BY <2>4, <3>1, <4>1, <4>2
        <5> QED BY <2>3, <2>8, <3>3, <5>1 DEF Passes, Boundary
      <4>3. Descends(edges[i]) /\ edges[i].to # oid BY <2>4, <2>8, <3>1, <4>1, <4>2 DEF Descends
      <4>4. edges[i].lane # lane BY <2>1, <2>3, <3>1, <4>3 DEF Placed
      <4> QED BY <2>3, <2>4, <3>1, <3>3, <4>4
    <3> QED BY <2>3, <2>7, <3>2, <3>3
  <2>9. ASSUME NEW i \in DOMAIN edges', edges'[i].kind = "FirstParent", edges'[i].parentRow # Boundary
        PROVE  rows'[edges'[i].parentRow].lane <= edges'[i].childLane
    <3>1. i \in 1..m BY <2>5, <2>9
    <3>2. CASE edges[i].parentRow # Boundary
      <4>1. edges[i].parentRow \in 1..n /\ edges'[i].parentRow = edges[i].parentRow
        BY <2>4, <2>6, <3>1, <3>2
      <4>2. rows[edges[i].parentRow].lane <= edges[i].childLane
        BY <2>3, <2>4, <2>9, <3>1, <3>2 DEF LineInv
      <4> QED BY <2>3, <2>4, <3>1, <4>1, <4>2
    <3>3. CASE edges[i].parentRow = Boundary
      <4>1. edges'[i].parentRow = n + 1 /\ edges[i].to = oid BY <2>4, <2>9, <3>1, <3>3
      <4>2. i \in Pending(edges, oid) /\ edges[i].kind = "FirstParent"
        BY <2>3, <2>4, <2>9, <3>1, <3>3, <4>1 DEF Pending
      <4>3. lane <= edges[i].lane BY <2>1, <4>2 DEF Placed
      <4>4. edges[i].lane = edges[i].childLane BY <2>3, <3>1, <4>2 DEF WalkInv, Tidy
      <4> QED BY <2>3, <2>4, <3>1, <4>1, <4>3, <4>4
    <3> QED BY <3>2, <3>3
  <2>10. ASSUME trunkTip # None, NEW r \in DOMAIN rows'
         PROVE  /\ rows'[r].oid = trunkTip => rows'[r].lane = 0
                /\ rows'[r].lane = 0 => \E q \in 1..r : rows'[q].oid = trunkTip
    <3>1. CASE r \in 1..n
      <4>1. 1..r \subseteq 1..n BY <2>3, <3>1
      <4>2. /\ rows[r].oid = trunkTip => rows[r].lane = 0
            /\ rows[r].lane = 0 => \E q \in 1..r : rows[q].oid = trunkTip
        BY <2>3, <2>10, <3>1 DEF LineInv
      <4> QED BY <2>3, <3>1, <4>1, <4>2
    <3>2. CASE r = n + 1
      <4>1. oid = trunkTip => lane = 0 BY <2>1 DEF Placed
      <4>2. ASSUME lane = 0, oid # trunkTip PROVE \E q \in 1..r : rows'[q].oid = trunkTip
        <5>1. ~Shut(lanes, edges) BY <2>1, <4>2 DEF Placed
        <5>2. PICK q \in 1..n : rows[q].oid = trunkTip
          BY <2>3, <2>10, <5>1 DEF WalkInv, TrunkInv, Emitted
        <5>3. q \in 1..r BY <2>3, <3>2
        <5> QED BY <2>3, <5>2, <5>3
      <4>3. r \in 1..r BY <2>3, <3>2
      <4> QED BY <2>3, <3>2, <4>1, <4>2, <4>3
    <3> QED BY <2>3, <2>7, <3>1, <3>2
  <2> QED BY <1>2, <2>8, <2>9, <2>10 DEF LineInv
<1>4. CASE Keeps BY <1>2, <1>4 DEF Keeps, LineInv
<1>5. CASE Flags
  <2>1. /\ DOMAIN rows' = DOMAIN rows /\ UNCHANGED edges
        /\ \A r \in DOMAIN rows : rows'[r].oid = rows[r].oid /\ rows'[r].lane = rows[r].lane
    BY <1>5, WhatIsFlagged
  <2>2. \A i \in DOMAIN edges : edges[i].parentRow # Boundary => edges[i].parentRow \in DOMAIN rows
    BY DEF HistoryInv, EndInv
  <2>3. \A r \in DOMAIN rows : 1..r \subseteq DOMAIN rows BY DEF WalkInv
  <2>4. \A i \in DOMAIN edges', r \in DOMAIN rows' :
          Passes(edges'[i], r) /\ ~isOverflow(edges'[i].lane) => rows'[r].lane # edges'[i].lane
    BY <2>1 DEF LineInv
  <2>5. \A i \in DOMAIN edges' :
          edges'[i].kind = "FirstParent" /\ edges'[i].parentRow # Boundary =>
              rows'[edges'[i].parentRow].lane <= edges'[i].childLane
    BY <2>1, <2>2 DEF LineInv
  <2>6. trunkTip # None => \A r \in DOMAIN rows' :
          /\ rows'[r].oid = trunkTip => rows'[r].lane = 0
          /\ rows'[r].lane = 0 => \E q \in 1..r : rows'[q].oid = trunkTip
    BY <2>1, <2>3 DEF LineInv
  <2> QED BY <1>2, <2>4, <2>5, <2>6 DEF LineInv
<1> QED BY <1>1, <1>3, <1>4, <1>5 DEF Moves

\* The row of a commit is the only one it has.
LEMMA RowIsUnique ==
    ASSUME WalkInv, NEW r \in DOMAIN rows
    PROVE  Emitted(rows[r].oid) /\ RowOf(rows[r].oid) = r
<1>1. DOMAIN rows = 1..Len(rows) /\ Len(rows) \in Nat BY DEF WalkInv
<1>2. Emitted(rows[r].oid) BY DEF Emitted
<1>3. \A q \in DOMAIN rows : rows[q].oid \in Nat BY DEF WalkInv, OrderInv
<1>4. \A q \in DOMAIN rows : rows[q].oid = rows[r].oid => q = r
  <2> SUFFICES ASSUME NEW q \in DOMAIN rows, rows[q].oid = rows[r].oid, q # r PROVE FALSE
    OBVIOUS
  <2>1. q < r \/ r < q BY <1>1
  <2> QED BY <1>3, <2>1 DEF WalkInv, OrderInv
<1> QED BY <1>2, <1>4 DEF RowOf

LEMMA LinesAreSafe == WalkInv /\ LineInv => LinesAreReadable
<1> SUFFICES ASSUME WalkInv, LineInv PROVE LinesAreReadable
  OBVIOUS
<1>1. ASSUME trunkTip # None, NEW r \in DOMAIN rows, rows[r].lane = 0
      PROVE  Emitted(trunkTip) /\ RowOf(trunkTip) <= r
  <2>1. DOMAIN rows = 1..Len(rows) /\ Len(rows) \in Nat BY DEF WalkInv
  <2>2. PICK q \in 1..r : rows[q].oid = trunkTip BY <1>1 DEF LineInv
  <2>3. q \in DOMAIN rows /\ q <= r BY <2>1
  <2> QED BY <2>2, <2>3, RowIsUnique
<1> QED BY <1>1 DEF LineInv, LinesAreReadable

\* GraphBuilder.h's invariants 1 and 2 in every published snapshot, for histories of any
\* size and any number of parents: no line runs through another commit's dot, a
\* first-parent chain never moves right, and lane 0 is the trunk tip's until it has been
\* emitted.
THEOREM GraphIsReadable == Spec => []LinesAreReadable
<1>1. Init => LineInv
  <2> SUFFICES ASSUME Init PROVE LineInv
    OBVIOUS
  <2>1. rows = <<>> /\ edges = <<>> BY DEF Init
  <2> QED BY <2>1 DEF LineInv
<1> QED BY <1>1, WalkInvariant, HistoryInvariant, LinesGoOn, LinesAreSafe, PTL DEF Spec

-----------------------------------------------------------------------------
(* Columns side by side look apart *)

LEMMA ColumnsGoOn ==
    kPaletteSize = 12 /\ WalkInv /\ WalkInv' /\ HistoryInv /\ ColumnsLookApart /\ [Next]_vars => ColumnsLookApart'
<1> SUFFICES ASSUME kPaletteSize = 12, WalkInv, WalkInv', HistoryInv, ColumnsLookApart, [Next]_vars
             PROVE  ColumnsLookApart'
  OBVIOUS
<1>1. Moves BY StepMoves
<1>2. CASE Adds
  <2>1. PICK oid \in 1..line', parents \in Seq(1..Outside), lane \in Lane, color \in Colour :
           Placed(oid, parents, lane, color)
    BY <1>2 DEF Adds
  <2>2. Afterwards(oid, parents, lane)
    <3>1. oid \in Nat BY <1>1, GraphAssumption DEF Moves, WalkInv
    <3> QED BY <2>1, <3>1, WhatIsPlaced
  <2> DEFINE n == Len(rows)
             m == Len(edges)
  <2>3. /\ n \in Nat /\ m \in Nat /\ DOMAIN rows = 1..n /\ DOMAIN edges = 1..m /\ DOMAIN rows' = 1..n + 1
    BY <2>2 DEF Afterwards
  <2>4. \A i \in 1..m :
          /\ edges'[i].childRow = edges[i].childRow /\ edges'[i].lane = edges[i].lane
          /\ edges'[i].color = edges[i].color
          /\ edges'[i].parentRow = edges[i].parentRow \/ (edges[i].parentRow = Boundary /\ edges'[i].parentRow = n + 1)
    BY <2>2 DEF Afterwards
  <2>5. \A i \in DOMAIN edges' : i \in 1..m \/ (edges'[i].childRow = n + 1 /\ edges'[i].parentRow = Boundary)
    BY <2>2, NewEdgesStart
  <2>6. \A i \in 1..m : edges[i].parentRow = Boundary \/ edges[i].parentRow \in 1..n
    BY <2>3 DEF HistoryInv, EndInv
  <2> HIDE DEF n, m
  <2>7. \A r \in 1..n + 1 : r \in 1..n \/ r = n + 1 BY <2>3
  <2>8. ASSUME NEW r \in 1..n, NEW i \in Below(r)'
        PROVE  i \in Below(r) /\ edges'[i].lane = edges[i].lane /\ edges'[i].color = edges[i].color
    <3>1. /\ i \in DOMAIN edges' /\ edges'[i].childRow <= r /\ ~isOverflow(edges'[i].lane)
          /\ edges'[i].parentRow = Boundary \/ r < edges'[i].parentRow
      BY <2>8 DEF Below
    <3>2. i \in 1..m
      <4>1. SUFFICES ASSUME edges'[i].childRow = n + 1 PROVE FALSE
        BY <2>5, <3>1
      <4> QED BY <2>3, <3>1, <4>1
    <3>3. edges[i].parentRow = Boundary \/ r < edges[i].parentRow BY <2>4, <3>1, <3>2
    <3> QED BY <2>3, <2>4, <3>1, <3>2, <3>3 DEF Below
  <2>9. ASSUME NEW r, r = n + 1, NEW i \in Below(r)'
        PROVE  i \in DOMAIN edges' /\ Descends(edges'[i])
    <3>1. /\ i \in DOMAIN edges' /\ ~isOverflow(edges'[i].lane)
          /\ edges'[i].parentRow = Boundary \/ r < edges'[i].parentRow
      BY <2>9 DEF Below
    <3>2. CASE i \in 1..m
      <4>1. edges'[i].parentRow = Boundary \/ edges'[i].parentRow \in 1..n \/ edges'[i].parentRow = n + 1
        BY <2>4, <2>6, <3>2
      <4>2. edges'[i].parentRow = Boundary BY <2>3, <2>9, <3>1, <4>1
      <4> QED BY <3>1, <4>2 DEF Descends
    <3>3. CASE i \notin 1..m BY <2>5, <3>1, <3>3 DEF Descends
    <3> QED BY <3>2, <3>3
  <2>10. ASSUME NEW r \in DOMAIN rows', NEW i \in Below(r)', NEW j \in Below(r)',
                edges'[j].lane = edges'[i].lane + 1
         PROVE  colorDistance(edges'[i].color, edges'[j].color) >= kMinColorSeparation
    <3>1. CASE r \in 1..n
      BY <2>3, <2>8, <2>10, <3>1 DEF ColumnsLookApart
    <3>2. CASE r = n + 1
      <4>1. i \in DOMAIN edges' /\ j \in DOMAIN edges' /\ Descends(edges'[i]) /\ Descends(edges'[j])
        BY <2>9, <3>2
      <4>2. Tidy(lanes', edges') BY <2>1 DEF Placed
      <4>3. /\ edges'[i].lane \in lanes'.used /\ edges'[i].color = lanes'.colors[edges'[i].lane]
            /\ edges'[j].lane \in lanes'.used /\ edges'[j].color = lanes'.colors[edges'[j].lane]
            /\ Vivid(lanes')
        BY <4>1, <4>2 DEF Tidy
      <4> QED BY <2>10, <4>3 DEF Vivid
    <3> QED BY <2>3, <2>7, <3>1, <3>2
  <2> QED BY <2>10 DEF ColumnsLookApart
<1>3. CASE Keeps BY <1>3 DEF Keeps, ColumnsLookApart, Below
<1>4. CASE Flags
  <2>1. DOMAIN rows' = DOMAIN rows /\ UNCHANGED edges BY <1>4, WhatIsFlagged
  <2> QED BY <2>1 DEF ColumnsLookApart, Below
<1> QED BY <1>1, <1>2, <1>3, <1>4 DEF Moves

\* With the code's twelve colours, lines that run side by side below a row are a quarter
\* of the hue wheel apart, for any number of lanes and any history: what
\* InvariantAdjacentColumnsNeverLookAlikeAtAnyRow tests on samples.
THEOREM NeighboursLookApart == kPaletteSize = 12 => (Spec => []ColumnsLookApart)
<1> SUFFICES ASSUME kPaletteSize = 12 PROVE Spec => []ColumnsLookApart
  OBVIOUS
<1>1. Init => ColumnsLookApart
  BY DEF Init, ColumnsLookApart
<1>2. WalkInv /\ WalkInv' /\ HistoryInv /\ ColumnsLookApart /\ [Next]_vars => ColumnsLookApart'
  BY ColumnsGoOn
<1> QED BY <1>1, <1>2, WalkInvariant, HistoryInvariant, PTL DEF Spec

-----------------------------------------------------------------------------
(* The snapshot is the history *)

\* An edge's parent row, known or not, is the row of the commit it goes to.
LEMMA EndIsRow ==
    ASSUME WalkInv, HistoryInv, NEW i \in DOMAIN edges
    PROVE  /\ edges[i].parentRow = RowOf(edges[i].to)
           /\ edges[i].parentRow = Boundary <=> ~Emitted(edges[i].to)
<1>1. CASE edges[i].parentRow = Boundary
  BY <1>1 DEF HistoryInv, EndInv, RowOf
<1>2. CASE edges[i].parentRow # Boundary
  <2>1. edges[i].parentRow \in DOMAIN rows /\ rows[edges[i].parentRow].oid = edges[i].to
    BY <1>2 DEF HistoryInv, EndInv
  <2> QED BY <1>2, <2>1, RowIsUnique
<1> QED BY <1>1, <1>2

\* A row's slots, by number.
LEMMA SlotIs ==
    ASSUME WalkInv, HistoryInv, NEW r \in DOMAIN rows, NEW k \in DOMAIN given[r]
    PROVE  /\ rows[r].offset + k \in DOMAIN edges
           /\ edges[rows[r].offset + k].to = given[r][k]
           /\ edges[rows[r].offset + k].childRow = r
<1> DEFINE o == rows[r].offset
           g == Len(given[r])
           m == Len(edges)
<1>1. RowSlots(r) BY DEF HistoryInv, SlotInv
<1>2. rows[r] \in RowMeta /\ given[r] \in Seq(1..Outside) /\ edges \in Seq(Edge) BY DEF WalkInv, Tidy
<1>3. o \in Nat /\ g \in Nat /\ m \in Nat /\ k \in 1..g /\ DOMAIN edges = 1..m BY <1>2 DEF RowMeta
<1>4. o + g <= m BY <1>1 DEF RowSlots
<1>5. edges[o + k].to = given[r][k] /\ edges[o + k].childRow = r BY <1>1 DEF RowSlots
<1> HIDE DEF o, g, m
<1>6. o + k \in DOMAIN edges BY <1>3, <1>4
<1> QED BY <1>5, <1>6 DEF o

LEMMA ParentsAreRows ==
    ASSUME WalkInv, HistoryInv, NEW r \in DOMAIN rows
    PROVE  parentsOf(r) = [k \in DOMAIN given[r] |-> RowOf(given[r][k])]
<1> DEFINE o == rows[r].offset
           end == IF r < Len(rows) THEN rows[r + 1].offset ELSE Len(edges)
<1>1. given[r] \in Seq(1..Outside) /\ rows[r] \in RowMeta BY DEF WalkInv
<1>2. o \in Nat /\ Len(given[r]) \in Nat /\ DOMAIN given[r] = 1..Len(given[r]) BY <1>1 DEF RowMeta
<1>3. end = o + Len(given[r]) BY DEF HistoryInv, SlotInv, RowSlots
<1>4. parentsOf(r) = [k \in 1..end - o |-> edges[o + k].parentRow] BY DEF parentsOf
<1> HIDE DEF end
<1>5. 1..end - o = DOMAIN given[r] BY <1>2, <1>3
<1>6. \A k \in DOMAIN given[r] : edges[o + k].parentRow = RowOf(given[r][k])
  BY SlotIs, EndIsRow
<1> QED BY <1>4, <1>5, <1>6

\* finalizeIndices() and edgesInRange(): the edges between the first that is still open
\* at the bucket's first row and the first that starts below the range are all that cross.
LEMMA RangeIsCrossed ==
    ASSUME WalkInv, HistoryInv, NEW first \in DOMAIN rows, NEW last \in DOMAIN rows
    PROVE  edgesInRange(first, last) =
              {i \in DOMAIN edges : edges[i].childRow <= last /\ End(edges[i]) >= first}
<1> DEFINE m    == Len(edges)
           b    == (first - 1) \div kBucketRows
           top  == 1 + b * kBucketRows
           S    == {i \in 1..m + 1 : i = m + 1 \/ End(edges[i]) >= top}
           from == edgeBucket(b)
           T    == {i \in from..m + 1 : i = m + 1 \/ edges[i].childRow > last}
           past == Min(T)
<1>1. /\ m \in Nat /\ DOMAIN edges = 1..m /\ first \in Nat \ {0} /\ last \in Nat
      /\ \A i \in 1..m : edges[i].childRow \in Nat /\ End(edges[i]) \in Nat
  <2>1. edges \in Seq(Edge) /\ rows \in Seq(RowMeta) BY DEF WalkInv, Tidy
  <2>2. \A i \in 1..m : edges[i] \in Edge BY <2>1
  <2>3. \A i \in 1..m : edges[i].childRow \in Nat /\ edges[i].parentRow \in Nat BY <2>2 DEF Edge
  <2>4. \A i \in 1..m : End(edges[i]) \in Nat BY <2>3 DEF End
  <2> QED BY <2>1, <2>3, <2>4
<1>2. b \in Nat /\ top \in Nat /\ top <= first
  <2> DEFINE a == first - 1
  <2>1. a \in Nat /\ kBucketRows \in Nat /\ kBucketRows > 0 BY <1>1, GraphAssumption
  <2>2. b = a \div kBucketRows OBVIOUS
  <2> HIDE DEF a, b
  <2>3. b \in Nat /\ b * kBucketRows \in Nat /\ b * kBucketRows <= a BY <2>1, <2>2
  <2> QED BY <1>1, <2>3 DEF a
<1>3. from = Min(S) BY DEF edgeBucket
<1> HIDE DEF b, top
<1>4. from \in 1..m + 1 /\ \A i \in 1..m : i < from => End(edges[i]) < first
  <2>1. S \in SUBSET Nat /\ m + 1 \in S BY <1>1
  <2>2. from \in S /\ \A i \in S : from <= i
    <3> HIDE DEF S, from
    <3> QED BY <1>3, <2>1, MinIs
  <2>3. from \in 1..m + 1 BY <2>2
  <2> HIDE DEF from
  <2>4. ASSUME NEW i \in 1..m, i < from PROVE End(edges[i]) < first
    <3>1. i \notin S
      <4> HIDE DEF S
      <4> QED BY <1>1, <2>2, <2>3, <2>4
    <3>2. i \in 1..m + 1 BY <1>1
    <3>3. ~(End(edges[i]) >= top) BY <3>1, <3>2
    <3> QED BY <1>1, <1>2, <3>3
  <2> QED BY <2>3, <2>4
<1> HIDE DEF from
<1>5. /\ past \in from..m + 1
      /\ \A i \in from..m : i < past => edges[i].childRow <= last
      /\ \A i \in past..m : edges[i].childRow > last
  <2>1. T \in SUBSET Nat /\ m + 1 \in T BY <1>1, <1>4
  <2>2. past \in T /\ \A i \in T : past <= i
    <3> HIDE DEF T
    <3> QED BY <2>1, MinIs
  <2>3. past \in from..m + 1 BY <2>2
  <2>4. past = m + 1 \/ edges[past].childRow > last BY <2>2
  <2> HIDE DEF past
  <2>5. ASSUME NEW i \in from..m, i < past PROVE edges[i].childRow <= last
    <3>1. i \notin T
      <4> HIDE DEF T
      <4> QED BY <1>1, <1>4, <2>2, <2>3, <2>5
    <3>2. i \in from..m + 1 /\ i \in 1..m BY <1>1, <1>4
    <3>3. ~(edges[i].childRow > last) BY <3>1, <3>2
    <3> QED BY <1>1, <3>2, <3>3
  <2>6. ASSUME NEW i \in past..m PROVE edges[i].childRow > last
    <3>1. past \in 1..m /\ i \in 1..m /\ edges[past].childRow > last BY <1>1, <1>4, <2>3, <2>4
    <3>2. CASE i = past BY <3>1, <3>2
    <3>3. CASE i # past
      <4>1. past < i BY <1>1, <2>3, <3>1, <3>3
      <4>2. edges[past].childRow <= edges[i].childRow
        BY <1>1, <3>1, <4>1 DEF HistoryInv, SlotInv
      <4> QED BY <1>1, <3>1, <4>2
    <3> QED BY <3>2, <3>3
  <2> QED BY <2>3, <2>5, <2>6
<1>6. edgesInRange(first, last) = {i \in from..past - 1 : End(edges[i]) >= first}
  BY DEF edgesInRange, from, b
<1> HIDE DEF past
<1>7. ASSUME NEW i \in from..past - 1 PROVE i \in 1..m /\ edges[i].childRow <= last
  <2>1. i \in 1..m /\ i \in from..m /\ i < past BY <1>1, <1>4, <1>5
  <2> QED BY <1>5, <2>1
<1>8. ASSUME NEW i \in 1..m, edges[i].childRow <= last, End(edges[i]) >= first PROVE i \in from..past - 1
  <2>1. ~(i < from) BY <1>1, <1>4, <1>8
  <2>2. i \notin past..m BY <1>1, <1>5, <1>8
  <2> QED BY <1>1, <1>4, <1>5, <2>1, <2>2
<1> QED BY <1>1, <1>6, <1>7, <1>8

\* The gutter is as wide as everything drawn in the range.
LEMMA GutterIsWide ==
    ASSUME WalkInv, HistoryInv, NEW first \in DOMAIN rows, NEW last \in DOMAIN rows, first <= last,
           NEW crossing, crossing = edgesInRange(first, last)
    PROVE  maxLaneInRange(first, last) >=
              Max({rows[r].lane : r \in first..last} \cup {edges[i].lane : i \in crossing})
<1> DEFINE whole  == {b \in 0..Len(rows) \div kBucketRows :
                        1 + b * kBucketRows >= first /\ (b + 1) * kBucketRows <= last}
           inside == UNION {Bucket(b) : b \in whole}
           partly == {r \in first..last : r \notin inside}
           X == {rows[r].lane : r \in inside \cup partly} \cup
                UNION {{edges[i].lane, edges[i].childLane} : i \in crossing}
           drawn == {rows[r].lane : r \in first..last} \cup {edges[i].lane : i \in crossing}
<1>1. maxLaneInRange(first, last) = Max(X) BY DEF maxLaneInRange
<1>2. inside \subseteq DOMAIN rows BY DEF Bucket
<1> HIDE DEF inside
<1>3. /\ DOMAIN rows = 1..Len(rows) /\ Len(rows) \in Nat
      /\ \A r \in DOMAIN rows : rows[r].lane \in Lane
      /\ \A i \in DOMAIN edges : edges[i].lane \in Lane /\ edges[i].childLane \in Lane
  <2>1. rows \in Seq(RowMeta) /\ edges \in Seq(Edge) BY DEF WalkInv, Tidy
  <2>2. (\A r \in DOMAIN rows : rows[r] \in RowMeta) /\ \A i \in DOMAIN edges : edges[i] \in Edge BY <2>1
  <2>3. DOMAIN rows = 1..Len(rows) /\ Len(rows) \in Nat BY <2>1
  <2>4. \A r \in DOMAIN rows : rows[r].lane \in Lane BY <2>2 DEF RowMeta
  <2>5. \A i \in DOMAIN edges : edges[i].lane \in Lane /\ edges[i].childLane \in Lane BY <2>2 DEF Edge
  <2> QED BY <2>3, <2>4, <2>5
<1>4. first..last \subseteq DOMAIN rows /\ first \in first..last BY <1>3
<1>5. crossing \subseteq DOMAIN edges BY RangeIsCrossed
<1>6. X \in SUBSET Lane
  <2>1. \A r \in inside \cup partly : rows[r].lane \in Lane BY <1>2, <1>3, <1>4
  <2>2. \A i \in crossing : edges[i].lane \in Lane /\ edges[i].childLane \in Lane BY <1>3, <1>5
  <2> QED BY <2>1, <2>2
<1>7. drawn \subseteq X
  <2>1. first..last \subseteq inside \cup partly OBVIOUS
  <2> QED BY <2>1
<1>8. drawn # {} BY <1>4
<1> HIDE DEF X, drawn
<1>9. kMaxLanes \in Nat /\ X \in SUBSET (0..kMaxLanes) /\ drawn \in SUBSET (0..kMaxLanes) /\ X # {}
  BY <1>6, <1>7, <1>8, LaneAssumption DEF Lane
<1>10. Max(drawn) \in drawn /\ \A n \in X : n <= Max(X) BY <1>8, <1>9, MaxIs
<1>11. Max(X) \in X BY <1>9, MaxIs
<1>12. Max(drawn) \in X BY <1>7, <1>10
<1>13. Max(drawn) <= Max(X) BY <1>10, <1>12
<1>14. Max(X) \in 0..kMaxLanes /\ Max(drawn) \in 0..kMaxLanes BY <1>9, <1>11, <1>12
<1>15. Max(X) \in Nat /\ Max(drawn) \in Nat BY <1>9, <1>14
<1>16. Max(X) >= Max(drawn) BY <1>13, <1>15
<1> QED BY <1>1, <1>16 DEF drawn

\* The rows flagged are those with a parent that was not emitted.
LEMMA FlagsAreBoundaries ==
    ASSUME WalkInv, HistoryInv, state = "complete", NEW r \in DOMAIN rows
    PROVE  rows[r].boundary = (\E k \in DOMAIN given[r] : ~Emitted(given[r][k]))
<1>1. rows[r].boundary =
         (\E i \in DOMAIN edges : edges[i].parentRow = Boundary /\ edges[i].childRow = r)
  BY DEF HistoryInv, FlagInv
<1>2. ASSUME NEW i \in DOMAIN edges, edges[i].parentRow = Boundary, edges[i].childRow = r
      PROVE  \E k \in DOMAIN given[r] : ~Emitted(given[r][k])
  <2>1. i - rows[r].offset \in DOMAIN given[r] BY <1>2 DEF HistoryInv, SlotInv, EdgeSlot
  <2>2. rows[r].offset + (i - rows[r].offset) = i
    <3>1. rows[r] \in RowMeta /\ edges \in Seq(Edge) BY DEF WalkInv, Tidy
    <3>2. rows[r].offset \in Nat /\ i \in Nat BY <3>1 DEF RowMeta
    <3> QED BY <3>2
  <2>3. edges[i].to = given[r][i - rows[r].offset] BY <2>1, <2>2, SlotIs
  <2> QED BY <1>2, <2>1, <2>3, EndIsRow
<1>3. ASSUME NEW k \in DOMAIN given[r], ~Emitted(given[r][k])
      PROVE  \E i \in DOMAIN edges : edges[i].parentRow = Boundary /\ edges[i].childRow = r
  <2>1. /\ rows[r].offset + k \in DOMAIN edges /\ edges[rows[r].offset + k].to = given[r][k]
        /\ edges[rows[r].offset + k].childRow = r
    BY SlotIs
  <2> QED BY <1>3, <2>1, EndIsRow
<1> QED BY <1>1, <1>2, <1>3

LEMMA SnapshotIsSafe == WalkInv /\ HistoryInv => SnapshotIsTheHistory
<1> SUFFICES ASSUME WalkInv, HistoryInv PROVE SnapshotIsTheHistory
  OBVIOUS
<1>1. \A r \in DOMAIN rows : parentsOf(r) = [k \in DOMAIN given[r] |-> RowOf(given[r][k])]
  BY ParentsAreRows
<1>2. ASSUME NEW first \in DOMAIN rows, NEW last \in {first, Len(rows)}
      PROVE  LET crossing == {i \in DOMAIN edges : edges[i].childRow <= last /\ End(edges[i]) >= first}
                 drawn == {rows[r].lane : r \in first..last} \cup {edges[i].lane : i \in crossing}
             IN  /\ edgesInRange(first, last) = crossing
                 /\ maxLaneInRange(first, last) >= Max(drawn)
  <2>1. DOMAIN rows = 1..Len(rows) /\ Len(rows) \in Nat BY DEF WalkInv
  <2>2. last \in DOMAIN rows /\ first <= last BY <2>1
  <2> DEFINE crossing == {i \in DOMAIN edges : edges[i].childRow <= last /\ End(edges[i]) >= first}
  <2>3. edgesInRange(first, last) = crossing BY <2>2, RangeIsCrossed
  <2> HIDE DEF crossing
  <2>4. maxLaneInRange(first, last) >=
           Max({rows[r].lane : r \in first..last} \cup {edges[i].lane : i \in crossing})
    BY <2>2, <2>3, GutterIsWide
  <2> QED BY <2>3, <2>4 DEF crossing
<1>3. state = "complete" =>
         \A r \in DOMAIN rows : rows[r].boundary = (\E k \in DOMAIN given[r] : ~Emitted(given[r][k]))
  BY FlagsAreBoundaries
<1> QED BY <1>1, <1>2, <1>3 DEF SnapshotIsTheHistory

\* Every published snapshot says what rev-list said, for any history and any bucket
\* size: parents by row number, edges found from every row they cross, a gutter wide
\* enough, and boundary flags exactly where a parent is outside the walk.
THEOREM SnapshotTellsTheHistory == Spec => []SnapshotIsTheHistory
BY WalkInvariant, HistoryInvariant, SnapshotIsSafe, PTL
=============================================================================
