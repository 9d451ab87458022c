--------------------------- MODULE MCServerModels ---------------------------
(* Model-checking instance of ServerModels. *)
EXTENDS ServerModels

CONSTANTS m1, m2, r1, r2

MCModels == {m1, m2}
MCRequests == {r1, r2}
=============================================================================
