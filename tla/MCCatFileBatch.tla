--------------------------- MODULE MCCatFileBatch ---------------------------
EXTENDS CatFileBatch, TLC

CONSTANTS c1, c2

MCStore == [a |-> "commit", b |-> "commit", m |-> "missing", t |-> "blob", h |-> "huge", x |-> "ambiguous"]

\* Every kind of answer is followed by a read that would notice a stream that
\* is out of step.
MCAsks == (c1 :> <<"h", "a">>) @@ (c2 :> <<"m", "x", "t">>)
=============================================================================
