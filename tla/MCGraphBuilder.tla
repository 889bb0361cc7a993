--------------------------- MODULE MCGraphBuilder ---------------------------
EXTENDS GraphBuilder
\* All seeds but one ask for the same colour, so that lanes collide.
Colours == [oid \in 1..Commits + 1 |-> IF oid = 2 THEN 8 ELSE 4]
\* No trunk, a trunk whose tip is not the newest commit, a cap and a linear walk.
Walks == {[trunkTip |-> 0, maxRows |-> 9, linear |-> FALSE, malformed |-> 0],
          [trunkTip |-> 2, maxRows |-> 9, linear |-> FALSE, malformed |-> 0],
          [trunkTip |-> 0, maxRows |-> 3, linear |-> FALSE, malformed |-> 1],
          [trunkTip |-> 0, maxRows |-> 3, linear |-> TRUE, malformed |-> 1],
          [trunkTip |-> 0, maxRows |-> 9, linear |-> TRUE, malformed |-> 1]}
=============================================================================
