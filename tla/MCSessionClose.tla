--------------------------- MODULE MCSessionClose ---------------------------
(* Model-checking instance of SessionClose: two open sessions on a pool of  *)
(* two workers.                                                             *)
EXTENDS SessionClose, TLC

\* Sessions, and pool workers, differ only in name.
Symmetry == Permutations(Sessions) \cup Permutations(Workers)
=============================================================================
