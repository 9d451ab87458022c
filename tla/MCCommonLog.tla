---------------------------- MODULE MCCommonLog ----------------------------
(* Model-checking instance of CommonLog. *)
EXTENDS CommonLog
=============================================================================
