----------------------------- MODULE MCKVCache -----------------------------
(* Model-checking instance of KVCache. *)
EXTENDS KVCache

MCConfigs == [unified : BOOLEAN, n_swa : {0, 2}]
MCGroups == (SUBSET Seqs) \ {{}}
MCRanges == {<<-1, -1>>, <<1, -1>>, <<0, 1>>, <<1, 2>>}
WConfigs == {[unified |-> TRUE, n_swa |-> 3]}
WRanges == {<<-1, -1>>}
MCReads == {<<0, 2>>, <<1, 1>>}
MCShifts == {-2, 1}
=============================================================================
