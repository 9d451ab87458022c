-------------------------- MODULE MCServerResponse --------------------------
(* Model-checking instance of ServerResponse: a streamed request of one    *)
(* task next to a plain request of two.                                    *)
EXTENDS ServerResponse

CONSTANTS r1, r2

MCReaders == {r1, r2}
MCTasks   == 1..3
MCIdTasks == [r \in MCReaders |-> IF r = r1 THEN {1} ELSE {2, 3}]
MCStream  == {r1}
=============================================================================
