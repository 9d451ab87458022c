--------------------------- MODULE MCServerSlots ---------------------------
(* Model-checking instances of ServerSlots.                                *)
EXTENDS ServerSlots

Request(type, n_tokens, id_slot, children) ==
    [type |-> type, n_tokens |-> n_tokens, id_slot |-> id_slot, children |-> children]

\* A completion with a child, one that is rejected at launch, and saving,
\* restoring and erasing the first slot.
MCActions ==
    [g \in 1..5 |->
        CASE g = 1 -> Request("COMPLETION", 2, NoSlot, <<6>>)
          [] g = 2 -> Request("COMPLETION", 1, NoSlot, <<7>>)
          [] g = 3 -> Request("SLOT_SAVE", 0, 0, <<>>)
          [] g = 4 -> Request("SLOT_RESTORE", 0, 0, <<>>)
          [] g = 5 -> Request("SLOT_ERASE", 0, 0, <<>>)]

\* Completions, one of them empty and two that name the first slot, one by a
\* number that wraps around, and embeddings that compete for a batch.
MCPlain ==
    [g \in 1..5 |->
        CASE g = 1 -> Request("COMPLETION", 3, NoSlot, <<>>)
          [] g = 2 -> Request("COMPLETION", 1, 2, <<>>)
          [] g = 3 -> Request("EMBEDDING", 2, NoSlot, <<>>)
          [] g = 4 -> Request("EMBEDDING", 1, NoSlot, <<>>)
          [] g = 5 -> Request("COMPLETION", 0, 0, <<>>)]

\* Two completions with a child, of which one is too large for the context,
\* next to an infill that names its slot.
MCFamilies ==
    [g \in 1..3 |->
        CASE g = 1 -> Request("COMPLETION", 2, NoSlot, <<4>>)
          [] g = 2 -> Request("INFILL", 1, 5, <<>>)
          [] g = 3 -> Request("COMPLETION", 4, NoSlot, <<5>>)]
=============================================================================
