--------------------------- MODULE MCServerQueue ---------------------------
(* Model-checking instance of ServerQueue. *)
EXTENDS ServerQueue
=============================================================================
