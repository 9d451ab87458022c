---------------------------- MODULE MCThreadPool ----------------------------
(* Model-checking instance of ThreadPool. *)
EXTENDS ThreadPool

MCNodes == <<"mul", "mul", "nop", "plain">>
=============================================================================
