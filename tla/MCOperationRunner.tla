------------------------- MODULE MCOperationRunner --------------------------
(* Model-checking instance of OperationRunner: one operation of each kind   *)
(* that behaves differently in the queue.                                   *)
EXTENDS OperationRunner
=============================================================================
