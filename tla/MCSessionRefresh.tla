-------------------------- MODULE MCSessionRefresh --------------------------
(* Model-checking instance of SessionRefresh: the FFI thread and the        *)
(* operation worker as callers, a pool of two workers.                      *)
EXTENDS SessionRefresh
=============================================================================
