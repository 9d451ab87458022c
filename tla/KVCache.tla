------------------------------ MODULE KVCache ------------------------------
(* src/llama-kv-cells.h and src/llama-kv-cache.cpp with the memory part of  *)
(* llama_context::decode: which cell of the KV cache holds which position   *)
(* of which sequences.  The operators of llama_kv_cells take a record c of  *)
(* cells and, for the loops over cells, the set H of the cells they hit:    *)
(* the loops treat each cell by itself.  An assertion that only a debug     *)
(* build evaluates is not a guard.                                          *)
(*                                                                          *)
(* Of the K data the model keeps the position its rotation stands for.      *)
(* Left out: 2D positions (ext), the chunked and symmetric windows, a       *)
(* K-shift graph that fails, positions near 2^31.                           *)
EXTENDS Integers, Sequences, FiniteSets

CONSTANTS
    NCells,         \* cells of a stream
    NSeqs,          \* n_seq_max
    Configs,        \* the configurations to start from: unified, n_swa (0: none)
    NUbatch,        \* n_ubatch
    Groups,         \* the sets of sequences that a token of a batch may carry
    Shifts,         \* the deltas of seq_add
    Divisors,       \* the divisors of seq_div
    Ranges,         \* the pairs p0, p1 that are passed for a range of positions
    Reads,          \* the sequences state_read is given: first position, cells
    MaxBatch,       \* bound: tokens of a batch
    MaxCalls,       \* bound: calls of the operations
    MaxPos          \* bound: the largest position

ASSUME SizesAssumption ==
    NCells \in Nat \ {0} /\ NSeqs \in Nat \ {0} /\ NUbatch \in Nat \ {0}
ASSUME ConfigsAssumption == Configs \subseteq [unified : BOOLEAN, n_swa : Nat]
ASSUME InputsAssumption ==
    /\ Groups \subseteq (SUBSET (0..(NSeqs - 1))) \ {{}}
    /\ Ranges \subseteq Int \X Int /\ Reads \subseteq Nat \X (Nat \ {0})
    /\ Shifts \subseteq Int /\ Divisors \subseteq Nat \ {0, 1}
ASSUME BoundsAssumption == MaxBatch \in Nat /\ MaxCalls \in Nat /\ MaxPos \in Nat

Idx == 0..(NCells - 1)
Seqs == 0..(NSeqs - 1)
Streams == Seqs                     \* a unified cache uses stream 0 only
Pos == 0..MaxPos
Inf == MaxPos + 1                   \* numeric_limits<llama_pos>::max()

VARIABLES
    conf,           \* the configuration, fixed when the cache is constructed
    v_cells, v_heads,
    sc_info,        \* stream copies to be done by the next update
    rot,            \* per stream and cell, the position K is rotated to
    dec,            \* where llama_context::decode is, and its local variables
    stale,          \* history: cells whose data the code leaves behind: the
                    \*   position was divided, a state was read while a copy
                    \*   of the stream was pending, or the cell is left over
                    \*   from an ubatch that failed
    calls           \* counter for the bound

vars == <<conf, v_cells, v_heads, sc_info, rot, dec, stale, calls>>

Cells == [pos : [Idx -> Pos \cup {-1}], shift : [Idx -> Int],
          seq : [Idx -> SUBSET Seqs], used : SUBSET Idx, has_shift : BOOLEAN,
          seq_pos : [Seqs -> [Pos -> Nat]]]
Tokens == [pos : Pos, ids : (SUBSET Seqs) \ {{}}]
PerStream(u, S) == DOMAIN u \subseteq Streams /\ \A st \in DOMAIN u : u[st] \in Seq(S)
SavedCells == [pos : [Idx -> Pos \cup {-1}], seq : [Idx -> SUBSET Seqs]]

TypeOK ==
    /\ conf \in Configs
    /\ v_cells \in [Streams -> Cells]
    /\ v_heads \in [Streams -> 0..NCells]
    /\ sc_info \in Seq([src : Streams, dst : Streams])
    /\ rot \in [Streams -> [Idx -> Int]]
    /\ dec.pc \in {"idle", "prepare", "restore", "process"}
    /\ dec.pc # "idle" => dec.todo \in [Streams -> Seq(Tokens)]
    /\ \A j \in 1..Len(dec.ubs) : PerStream(dec.ubs[j], Tokens)
    /\ \A j \in 1..Len(dec.sinfos) : PerStream(dec.sinfos[j], Idx)
    /\ dec.states \in Seq([heads : [Streams -> 0..NCells], cells : [Streams -> SavedCells]])
    /\ stale \in [Streams -> SUBSET Idx]
    /\ calls \in 0..MaxCalls

seq_to_stream(s) == IF conf.unified THEN 0 ELSE s

---------------------------------------------------------------------------
(* llama_kv_cells *)

NoCells ==
    [pos |-> [i \in Idx |-> -1], shift |-> [i \in Idx |-> 0], seq |-> [i \in Idx |-> {}],
     used |-> {}, has_shift |-> FALSE, seq_pos |-> [s \in Seqs |-> [p \in Pos |-> 0]]]

Holding(c, H, s, p) == {i \in H : s \in c.seq[i] /\ c.pos[i] = p}

seq_pos_rm(c, H) ==
    [c EXCEPT !.seq_pos = [s \in Seqs |-> [p \in Pos |->
        c.seq_pos[s][p] - Cardinality(Holding(c, H, s, p))]]]

seq_pos_add(c, H) ==
    [c EXCEPT !.seq_pos = [s \in Seqs |-> [p \in Pos |->
        c.seq_pos[s][p] + Cardinality(Holding(c, H, s, p))]]]

PosAt(c, H, p) == {i \in H : c.pos[i] = p}

seq_pos_inc(c, H, s) ==
    [c EXCEPT !.seq_pos[s] = [p \in Pos |-> c.seq_pos[s][p] + Cardinality(PosAt(c, H, p))]]

Present(c, s) == {p \in Pos : c.seq_pos[s][p] # 0}
seq_pos_min(c, s) ==
    IF Present(c, s) = {} THEN -1
    ELSE CHOOSE p \in Present(c, s) : \A q \in Present(c, s) : p <= q
seq_pos_max(c, s) ==
    IF Present(c, s) = {} THEN -1
    ELSE CHOOSE p \in Present(c, s) : \A q \in Present(c, s) : q <= p

pos_in(c, i, p0, p1) == c.pos[i] >= p0 /\ c.pos[i] < p1

\* Mutant of Emptied: the shift is left to the token that comes next.
Emptied_keeps_shift(c, H) ==
    [c EXCEPT !.pos = [i \in Idx |-> IF i \in H THEN -1 ELSE c.pos[i]],
              !.seq = [i \in Idx |-> IF i \in H THEN {} ELSE c.seq[i]],
              !.used = c.used \ H]

\* what rm, seq_rm, seq_keep and pos_add do with a cell that has no sequence left
Emptied(c, H) ==
    [c EXCEPT !.pos = [i \in Idx |-> IF i \in H THEN -1 ELSE c.pos[i]],
              !.shift = [i \in Idx |-> IF i \in H THEN 0 ELSE c.shift[i]],
              !.seq = [i \in Idx |-> IF i \in H THEN {} ELSE c.seq[i]],
              !.used = c.used \ H]

cells_rm(c, H) == Emptied(seq_pos_rm(c, H), H)

\* seq_rm of each sequence s from the cells with a position in G[s]
cells_seq_rm(c, G) ==
    LET c1 == [c EXCEPT
                 !.seq = [i \in Idx |-> {s \in c.seq[i] : c.pos[i] \notin G[s]}],
                 !.seq_pos = [s \in Seqs |-> [p \in Pos |->
                     IF p \in G[s] THEN c.seq_pos[s][p] - Cardinality(Holding(c, Idx, s, p))
                                   ELSE c.seq_pos[s][p]]]]
    IN Emptied(c1, {i \in Idx : c.seq[i] # {} /\ c1.seq[i] = {}})

cells_seq_keep(c, s) ==
    LET kept == {i \in Idx : s \in c.seq[i]}
        gone == {i \in Idx : s \notin c.seq[i] /\ c.seq[i] # {}}
        c1 == seq_pos_rm(c, kept \cup gone)
        c2 == [c1 EXCEPT !.seq = [i \in Idx |-> IF i \in kept THEN {s} ELSE c.seq[i]]]
    IN Emptied(seq_pos_inc(c2, kept, s), gone)

cells_seq_add(c, H, s) ==
    seq_pos_inc([c EXCEPT !.seq = [i \in Idx |-> IF i \in H THEN c.seq[i] \cup {s}
                                                            ELSE c.seq[i]]], H, s)

\* Mutant of pos_add: a cell that is moved below zero stays.
pos_add_negative(c, H, d) ==
    LET c1 == seq_pos_rm(c, H)
        c2 == [c1 EXCEPT !.pos = [i \in Idx |-> IF i \in H THEN c.pos[i] + d ELSE c.pos[i]],
                         !.shift = [i \in Idx |-> IF i \in H THEN c.shift[i] + d
                                                             ELSE c.shift[i]],
                         !.has_shift = c.has_shift \/ H # {}]
    IN seq_pos_add(c2, H)

pos_add(c, H, d) ==
    LET c1 == seq_pos_rm(c, H)
        c2 == [c1 EXCEPT !.pos = [i \in Idx |-> IF i \in H THEN c.pos[i] + d ELSE c.pos[i]],
                         !.shift = [i \in Idx |-> IF i \in H THEN c.shift[i] + d
                                                             ELSE c.shift[i]],
                         !.has_shift = c.has_shift \/ H # {}]
        gone == {i \in H : c2.pos[i] < 0}
    IN seq_pos_add(Emptied(c2, gone), H \ gone)

pos_div(c, H, d) ==
    LET c1 == seq_pos_rm(c, H)
        c2 == [c1 EXCEPT !.pos = [i \in Idx |-> IF i \in H THEN c.pos[i] \div d ELSE c.pos[i]],
                         !.shift = [i \in Idx |->
                             IF i \in H THEN c.shift[i] + (c.pos[i] - (c.pos[i] \div d))
                                        ELSE c.shift[i]],
                         !.has_shift = c.has_shift \/ H # {}]
    IN seq_pos_add(c2, H)

\* cp keeps pos and seq of the cells of a slot; set puts them back
cells_cp(c) == [pos |-> c.pos, seq |-> c.seq]

cells_set(c, H, old) ==
    LET c1 == seq_pos_rm(c, {i \in H : c.pos[i] # -1})
        c2 == [c1 EXCEPT !.pos = [i \in Idx |-> IF i \in H THEN old.pos[i] ELSE c.pos[i]],
                         !.seq = [i \in Idx |-> IF i \in H THEN old.seq[i] ELSE c.seq[i]],
                         !.used = (c.used \cup {i \in H : c.pos[i] = -1 /\ old.pos[i] # -1})
                                      \ {i \in H : c.pos[i] # -1 /\ old.pos[i] = -1}]
    IN seq_pos_add(c2, {i \in H : old.pos[i] # -1})

---------------------------------------------------------------------------
(* llama_kv_cache: operations on the sequences, called between decodes *)

Idle == [pc |-> "idle", todo |-> <<>>, ubs |-> <<>>, sinfos |-> <<>>, states |-> <<>>,
         k |-> 0, before |-> <<>>]

Least(S) == CHOOSE x \in S : \A y \in S : x <= y
Elems(q) == {q[j] : j \in DOMAIN q}

From(p0) == IF p0 < 0 THEN 0 ELSE p0
To(p1) == IF p1 < 0 THEN Inf ELSE p1

Freed(c, c2) == {i \in Idx : c.pos[i] # -1 /\ c2.pos[i] = -1}

\* the head moves back to the first cell that was freed
HeadBack(c, c2, head) ==
    IF Freed(c, c2) # {} /\ Least(Freed(c, c2)) < head THEN Least(Freed(c, c2)) ELSE head

Init ==
    /\ conf \in Configs
    /\ v_cells = [st \in Streams |-> NoCells]
    /\ v_heads = [st \in Streams |-> 0]
    /\ sc_info = <<>>
    /\ rot = [st \in Streams |-> [i \in Idx |-> 0]]
    /\ dec = Idle
    /\ stale = [st \in Streams |-> {}]
    /\ calls = 0

\* an operation is called between decodes
Call == dec.pc = "idle" /\ calls < MaxCalls /\ calls' = calls + 1

Clear ==
    /\ Call
    /\ v_cells' = [st \in Streams |-> NoCells]
    /\ v_heads' = [st \in Streams |-> 0]
    /\ UNCHANGED <<conf, sc_info, rot, dec, stale>>

\* seq_rm of one sequence in the cells of its stream
Without(c, s, p0, p1) ==
    cells_seq_rm(c, [t \in Seqs |-> IF t = s THEN From(p0)..(To(p1) - 1) ELSE {}])

SeqRm(s, p0, p1) ==
    LET st == seq_to_stream(s)
        c2 == Without(v_cells[st], s, p0, p1)
    IN /\ Call
       /\ v_cells' = [v_cells EXCEPT ![st] = c2]
       /\ v_heads' = [v_heads EXCEPT ![st] = HeadBack(v_cells[st], c2, v_heads[st])]
       /\ UNCHANGED <<conf, sc_info, rot, dec, stale>>

\* seq_rm(-1, p0, p1): whatever the sequence
RangeRm(p0, p1) ==
    LET hit(c) == {i \in Idx : pos_in(c, i, From(p0), To(p1))}
        c2 == [st \in Streams |-> cells_rm(v_cells[st], hit(v_cells[st]))]
    IN /\ Call
       /\ v_cells' = c2
       /\ v_heads' = [st \in Streams |-> HeadBack(v_cells[st], c2[st], v_heads[st])]
       /\ UNCHANGED <<conf, sc_info, rot, dec, stale>>

\* seq_cp within a stream.  The caller has removed the range from the
\* destination, as an assertion of llama_kv_cells::seq_add asks.
SeqCp(src, dst, p0, p1) ==
    LET st == seq_to_stream(src)
        c == v_cells[st]
        H == {i \in Idx : pos_in(c, i, From(p0), To(p1)) /\ src \in c.seq[i]}
    IN /\ Call
       /\ src # dst /\ seq_to_stream(dst) = st
       /\ \A i \in H : dst \notin c.seq[i]
       /\ v_cells' = [v_cells EXCEPT ![st] = cells_seq_add(c, H, dst)]
       /\ UNCHANGED <<conf, v_heads, sc_info, rot, dec, stale>>

\* Mutant of StreamCp: the shift that is still to be applied is not copied.
StreamCp_no_shift(src, dst) ==
    LET s0 == seq_to_stream(src)
        s1 == seq_to_stream(dst)
        c == v_cells[s0]
        H == {i \in Idx : src \in c.seq[i]}
        c1 == [NoCells EXCEPT !.pos = [i \in Idx |-> IF i \in H THEN c.pos[i] ELSE -1],
                              !.used = H]
    IN /\ Call
       /\ s0 # s1
       /\ Len(sc_info) < NSeqs
       /\ sc_info' = Append(sc_info, [src |-> s0, dst |-> s1])
       /\ v_cells' = [v_cells EXCEPT ![s1] = cells_seq_add(c1, H, dst)]
       /\ v_heads' = [v_heads EXCEPT ![s1] = v_heads[s0]]
       /\ stale' = [stale EXCEPT ![s1] = stale[s0]]
       /\ UNCHANGED <<conf, rot, dec>>

\* seq_cp of a whole sequence into another stream: the cells at once, the data
\* with the next update
StreamCp(src, dst) ==
    LET s0 == seq_to_stream(src)
        s1 == seq_to_stream(dst)
        c == v_cells[s0]
        H == {i \in Idx : src \in c.seq[i]}
        c1 == [NoCells EXCEPT !.pos = [i \in Idx |-> IF i \in H THEN c.pos[i] ELSE -1],
                              !.shift = [i \in Idx |-> IF i \in H THEN c.shift[i] ELSE 0],
                              !.used = H,
                              !.has_shift = \E i \in H : c.shift[i] # 0]
    IN /\ Call
       /\ s0 # s1
       /\ Len(sc_info) < NSeqs
       /\ sc_info' = Append(sc_info, [src |-> s0, dst |-> s1])
       /\ v_cells' = [v_cells EXCEPT ![s1] = cells_seq_add(c1, H, dst)]
       /\ v_heads' = [v_heads EXCEPT ![s1] = v_heads[s0]]
       /\ stale' = [stale EXCEPT ![s1] = stale[s0]]
       /\ UNCHANGED <<conf, rot, dec>>

SeqKeep(s) ==
    LET st == seq_to_stream(s)
        c2 == cells_seq_keep(v_cells[st], s)
    IN /\ Call
       /\ v_cells' = [v_cells EXCEPT ![st] = c2]
       /\ v_heads' = [v_heads EXCEPT ![st] = HeadBack(v_cells[st], c2, v_heads[st])]
       /\ UNCHANGED <<conf, sc_info, rot, dec, stale>>

\* the cells that seq_add and seq_div hit
InRange(st, s, p0, p1) ==
    {i \in Idx : pos_in(v_cells[st], i, From(p0), To(p1)) /\ s \in v_cells[st].seq[i]}

SeqAdd(s, p0, p1, d) ==
    LET st == seq_to_stream(s)
        c2 == pos_add(v_cells[st], InRange(st, s, p0, p1), d)
        freed == Freed(v_cells[st], c2)
    IN /\ Call
       /\ d # 0 /\ From(p0) # To(p1)
       /\ \A i \in InRange(st, s, p0, p1) : v_cells[st].pos[i] + d <= MaxPos
       /\ v_cells' = [v_cells EXCEPT ![st] = c2]
       /\ v_heads' = [v_heads EXCEPT ![st] = IF freed # {} THEN Least(freed) ELSE 0]
       /\ UNCHANGED <<conf, sc_info, rot, dec, stale>>

SeqDiv(s, p0, p1, d) ==
    LET st == seq_to_stream(s)
        H == InRange(st, s, p0, p1)
    IN /\ Call
       /\ From(p0) # To(p1)
       /\ v_cells' = [v_cells EXCEPT ![st] = pos_div(v_cells[st], H, d)]
       /\ stale' = [stale EXCEPT ![st] = @ \cup H]
       /\ UNCHANGED <<conf, v_heads, sc_info, rot, dec>>

---------------------------------------------------------------------------
(* find_slot, apply_ubatch *)

is_masked_swa(p0, p1) == conf.n_swa > 0 /\ p1 - p0 >= conf.n_swa

Usable(c, i) ==
    \/ c.pos[i] = -1
    \/ \E s \in Seqs : c.seq[i] = {s} /\ is_masked_swa(c.pos[i], seq_pos_max(c, s) + 1)

\* the n usable cells that the search meets first, starting at head
Slots(c, head, n) ==
    LET start == IF head > Cardinality(c.used) + 2 * n THEN 0 ELSE head
        turn(i) == (i - start) % NCells
        usable == {i \in Idx : Usable(c, i)}
    IN {idxs \in [1..n -> usable] : \A j \in 1..n :
           Cardinality({i \in usable : turn(i) < turn(idxs[j])}) = j - 1}

SlotsOf(ub, st) == Slots(v_cells[st], v_heads[st], Len(ub[st]))
Fits(ub) == \A st \in DOMAIN ub : SlotsOf(ub, st) # {}
find_slot(ub) == [st \in DOMAIN ub |-> CHOOSE idxs \in SlotsOf(ub, st) : TRUE]

\* the cells of a stream with the tokens toks in the cells idxs.  Where a token
\* replaces a position of a sequence, the positions before it are removed too.
Applied(c, idxs, toks) ==
    LET H == Elems(idxs)
        tok(i) == toks[CHOOSE j \in DOMAIN idxs : idxs[j] = i]
        over == {i \in H : c.pos[i] # -1}
        purge == [s \in Seqs |-> {p \in Pos : \E i \in over : s \in c.seq[i] /\ p <= c.pos[i]}]
        c1 == cells_rm(c, over)
        c2 == [c1 EXCEPT !.pos = [i \in Idx |-> IF i \in H THEN tok(i).pos ELSE c1.pos[i]],
                         !.seq = [i \in Idx |-> IF i \in H THEN tok(i).ids ELSE c1.seq[i]],
                         !.used = c1.used \cup H]
    IN cells_seq_rm(seq_pos_add(c2, H), purge)

CellsWith(sinfo, ub) ==
    [st \in Streams |-> IF st \in DOMAIN ub THEN Applied(v_cells[st], sinfo[st], ub[st])
                                              ELSE v_cells[st]]
HeadsAfter(sinfo) ==
    [st \in Streams |-> IF st \in DOMAIN sinfo THEN sinfo[st][Len(sinfo[st])] + 1
                                                ELSE v_heads[st]]

---------------------------------------------------------------------------
(* update and decode *)

\* the data once the first n pending copies are done
Copied == LET f[n \in 0..Len(sc_info)] ==
                  IF n = 0 THEN rot
                  ELSE [f[n-1] EXCEPT ![sc_info[n].dst] = f[n-1][sc_info[n].src]]
          IN f[Len(sc_info)]

\* llama_kv_cache::update: the copies, then the K-shift
Rotated == [st \in Streams |-> [i \in Idx |-> Copied[st][i] + v_cells[st].shift[i]]]
ShiftReset == [st \in Streams |-> [v_cells[st] EXCEPT !.shift = [i \in Idx |-> 0],
                                                       !.has_shift = FALSE]]
ShiftPending == \E st \in Streams : v_cells[st].has_shift

\* a batch, as the tokens of each stream: sequences go on where their cells end
Next_pos(s) == seq_pos_max(v_cells[seq_to_stream(s)], s) + 1

\* for one stream, tokens of any of the groups in any order
UnifiedBatch(groups) ==
    LET earlier(j, s) == Cardinality({m \in 1..(j - 1) : s \in groups[m]})
    IN [st \in Streams |-> IF st # 0 THEN <<>>
            ELSE [j \in 1..Len(groups) |->
                     [pos |-> Next_pos(Least(groups[j])) + earlier(j, Least(groups[j])),
                      ids |-> groups[j]]]]

\* for several streams, n[s] tokens of each sequence s
StreamsBatch(n) == [st \in Streams |-> [j \in 1..n[st] |->
                        [pos |-> Next_pos(st) + j - 1, ids |-> {st}]]]

\* what llama_batch_allocr::init accepts
Consistent(groups) ==
    /\ \A j, m \in 1..Len(groups) : groups[j] = groups[m] \/ groups[j] \cap groups[m] = {}
    /\ \A j \in 1..Len(groups) : \A s, t \in groups[j] :
          /\ seq_pos_min(v_cells[0], s) = seq_pos_min(v_cells[0], t)
          /\ seq_pos_max(v_cells[0], s) = seq_pos_max(v_cells[0], t)

\* llama_context::decode up to init_batch
DecodeStart(batch) ==
    LET cells == IF ShiftPending THEN ShiftReset ELSE v_cells
    IN /\ Call
       /\ \E st \in Streams : batch[st] # <<>>
       /\ \A st \in Streams : \A j \in 1..Len(batch[st]) : batch[st][j].pos <= MaxPos
       /\ v_cells' = cells
       /\ rot' = IF ShiftPending THEN Rotated ELSE Copied
       /\ sc_info' = <<>>
       /\ dec' = [Idle EXCEPT !.pc = "prepare", !.todo = batch, !.before = cells]
       /\ UNCHANGED <<conf, v_heads, stale>>

DecodeUnified(groups) == conf.unified /\ Consistent(groups) /\ DecodeStart(UnifiedBatch(groups))
DecodeStreams(n) == ~conf.unified /\ DecodeStart(StreamsBatch(n))

\* split_simple for one stream; for several split_equal, which takes as many
\* tokens of each of a run of sequences, the run ending with the sequence
\* that makes it longer than NUbatch.  The tokens come in the order of their
\* sequences.
Lanes(todo) ==
    LET first == Least({st \in Streams : todo[st] # <<>>})
    IN {st \in Streams : /\ st \in first..(first + NUbatch)
                          /\ \A r \in first..st : todo[r] # <<>>}

TokensPerLane(todo) ==
    LET short == Least({Len(todo[st]) : st \in Lanes(todo)})
        fit == NUbatch \div Cardinality(Lanes(todo))
    IN IF fit = 0 THEN 1 ELSE IF short < fit THEN short ELSE fit

NextUbatch(todo) == [st \in Lanes(todo) |-> SubSeq(todo[st], 1, TokensPerLane(todo))]

Rest(todo) == [st \in Streams |->
    IF st \in Lanes(todo) THEN SubSeq(todo[st], TokensPerLane(todo) + 1, Len(todo[st]))
                          ELSE todo[st]]

Done(todo) == \A st \in Streams : todo[st] = <<>>

\* prepare: place the next ubatch, and remember what it replaces
PrepareUbatch ==
    LET ub == NextUbatch(dec.todo)
        sinfo == find_slot(ub)
        rest == Rest(dec.todo)
    IN /\ dec.pc = "prepare"
       /\ Fits(ub)
       /\ v_cells' = CellsWith(sinfo, ub)
       /\ v_heads' = HeadsAfter(sinfo)
       /\ dec' = [dec EXCEPT !.pc = IF Done(rest) THEN "restore" ELSE "prepare",
                              !.todo = rest,
                              !.ubs = Append(@, ub), !.sinfos = Append(@, sinfo),
                              !.states = Append(@, [heads |-> v_heads,
                                  cells |-> [st \in Streams |-> cells_cp(v_cells[st])]])]
       /\ UNCHANGED <<calls, conf, sc_info, rot, stale>>

\* prepare: no slot for an ubatch.  What was placed is undone, as todo tells
PrepareFail ==
    /\ dec.pc = "prepare"
    /\ ~Fits(NextUbatch(dec.todo))
    /\ dec' = IF dec.states = <<>> THEN Idle ELSE [dec EXCEPT !.pc = "restore"]
    /\ UNCHANGED <<calls, conf, v_cells, v_heads, sc_info, rot, stale>>

\* Mutant of Restore: only the last placement is undone.
Restore_once ==
    LET n == Len(dec.states)
        sinfo == dec.sinfos[n]
        old == dec.states[n]
        first == Least(DOMAIN sinfo)
    IN /\ dec.pc = "restore"
       /\ v_cells' = [st \in Streams |->
              IF st \in DOMAIN sinfo
              THEN cells_set(v_cells[st], Elems(sinfo[st]), old.cells[st]) ELSE v_cells[st]]
       /\ v_heads' = [st \in Streams |->
              IF st \in DOMAIN sinfo THEN old.heads[st - first] ELSE v_heads[st]]
       /\ dec' = IF ~Done(dec.todo) THEN Idle
                  ELSE [dec EXCEPT !.pc = "process", !.states = <<>>, !.k = 1]
       /\ UNCHANGED <<calls, conf, sc_info, rot, stale>>

\* prepare: undo the placement made last.  The old head is looked up by the
\* place of the stream within the slot, not by the stream.
Restore ==
    LET n == Len(dec.states)
        sinfo == dec.sinfos[n]
        old == dec.states[n]
        first == Least(DOMAIN sinfo)
    IN /\ dec.pc = "restore"
       /\ v_cells' = [st \in Streams |->
              IF st \in DOMAIN sinfo
              THEN cells_set(v_cells[st], Elems(sinfo[st]), old.cells[st]) ELSE v_cells[st]]
       /\ v_heads' = [st \in Streams |->
              IF st \in DOMAIN sinfo THEN old.heads[st - first] ELSE v_heads[st]]
       /\ dec' = IF n > 1 THEN [dec EXCEPT !.states = SubSeq(@, 1, n - 1)]
                  ELSE IF ~Done(dec.todo) THEN Idle
                  ELSE [dec EXCEPT !.pc = "process", !.states = <<>>, !.k = 1]
       /\ UNCHANGED <<calls, conf, sc_info, rot, stale>>

\* the data of the cells of a slot, once the tokens toks are computed
RotAfter(r, idxs, toks) ==
    [i \in Idx |-> IF i \in Elems(idxs) THEN toks[CHOOSE j \in DOMAIN idxs : idxs[j] = i].pos
                                        ELSE r[i]]
Touched(sinfo, st) == IF st \in DOMAIN sinfo THEN Elems(sinfo[st]) ELSE {}

\* apply_ubatch of the next ubatch, and its graph is computed
ProcessUbatch ==
    LET ub == dec.ubs[dec.k]
        sinfo == dec.sinfos[dec.k]
    IN /\ dec.pc = "process"
       /\ v_cells' = CellsWith(sinfo, ub)
       /\ v_heads' = HeadsAfter(sinfo)
       /\ rot' = [st \in Streams |->
              IF st \in DOMAIN ub THEN RotAfter(rot[st], sinfo[st], ub[st]) ELSE rot[st]]
       /\ dec' = IF dec.k = Len(dec.ubs) THEN Idle ELSE [dec EXCEPT !.k = @ + 1]
       /\ stale' = [st \in Streams |-> stale[st] \ Touched(sinfo, st)]
       /\ UNCHANGED <<calls, conf, sc_info>>

\* the positions that decode removes when the graph of an ubatch fails: of the
\* first sequence of each token, from its first position in the ubatch
FailedRange(toks) ==
    [s \in Seqs |-> {p \in Pos : \E j \in 1..Len(toks) :
                        s = Least(toks[j].ids) /\ toks[j].pos <= p}]

\* apply_ubatch of the next ubatch, whose graph fails or is aborted
ProcessFail ==
    LET ub == dec.ubs[dec.k]
        sinfo == dec.sinfos[dec.k]
        c1 == CellsWith(sinfo, ub)
        c2 == [st \in Streams |-> IF st \in DOMAIN ub
                                   THEN cells_seq_rm(c1[st], FailedRange(ub[st])) ELSE c1[st]]
    IN /\ dec.pc = "process"
       /\ v_cells' = c2
       /\ v_heads' = [st \in Streams |-> HeadBack(c1[st], c2[st], HeadsAfter(sinfo)[st])]
       /\ dec' = Idle
       /\ stale' = [st \in Streams |-> stale[st] \cup Touched(sinfo, st)]
       /\ UNCHANGED <<calls, conf, sc_info, rot>>

---------------------------------------------------------------------------
(* state_read *)

PendingInto(st) == \E j \in 1..Len(sc_info) : sc_info[j].dst = st

\* state_read of one sequence: n cells with positions from p on, written when
\* no shift and no copy was pending.  ok: the data fits the model.
StateRead(s, p, n, ok) ==
    LET st == seq_to_stream(s)
        toks == [j \in 1..n |-> [pos |-> p + j - 1, ids |-> {s}]]
        c1 == Without(v_cells[st], s, -1, -1)
        head == HeadBack(v_cells[st], c1, v_heads[st])
        slots == Slots(c1, head, n)
        idxs == CHOOSE x \in slots : TRUE
        c2 == Applied(c1, idxs, toks)
        c3 == IF ok THEN c2 ELSE Without(c2, s, -1, -1)
        found == slots # {}
        put == IF found /\ ok THEN Elems(idxs) ELSE {}
    IN /\ Call
       /\ p + n - 1 <= MaxPos
       /\ v_cells' = [v_cells EXCEPT ![st] = IF found THEN c3 ELSE c1]
       /\ v_heads' = [v_heads EXCEPT ![st] =
              IF found THEN HeadBack(c2, c3, idxs[n] + 1) ELSE head]
       /\ rot' = [rot EXCEPT ![st] = IF found /\ ok THEN RotAfter(@, idxs, toks) ELSE @]
       /\ stale' = [x \in Streams |-> IF PendingInto(x) THEN Idx
                                        ELSE IF x = st THEN stale[x] \ put ELSE stale[x]]
       /\ UNCHANGED <<conf, sc_info, dec>>

\* state_write of the whole cache and state_read of what it wrote: per stream
\* with cells, the whole cache is cleared and the cells are put at its start
Reload(st, f) ==
    LET c == v_cells[st]
        n == Cardinality(c.used)
        H == 0..(n - 1)
        c2 == [NoCells EXCEPT !.pos = [i \in Idx |-> IF i \in H THEN c.pos[f[i]] ELSE -1],
                              !.seq = [i \in Idx |-> IF i \in H THEN c.seq[f[i]] ELSE {}],
                              !.used = H]
    IN /\ Call /\ sc_info = <<>> /\ ~ShiftPending
       /\ c.used # {} /\ \A x \in Streams : x > st => v_cells[x].used = {}
       /\ \A i, j \in H : i < j => f[i] < f[j]
       /\ v_cells' = [x \in Streams |-> IF x = st THEN seq_pos_add(c2, H) ELSE NoCells]
       /\ v_heads' = [x \in Streams |-> 0]
       /\ rot' = [x \in Streams |-> [i \in Idx |->
              IF x = st /\ i \in H THEN rot[st][f[i]] ELSE 0]]
       /\ stale' = [x \in Streams |-> IF x = st THEN {i \in H : f[i] \in stale[st]} ELSE {}]
       /\ UNCHANGED <<conf, sc_info, dec>>

---------------------------------------------------------------------------

Next ==
    \/ Clear
    \/ \E s \in Seqs, r \in Ranges : SeqRm(s, r[1], r[2])
    \/ \E r \in Ranges : RangeRm(r[1], r[2])
    \/ \E src, dst \in Seqs, r \in Ranges : SeqCp(src, dst, r[1], r[2])
    \/ \E src, dst \in Seqs : StreamCp(src, dst)
    \/ \E s \in Seqs : SeqKeep(s)
    \/ \E s \in Seqs, r \in Ranges, d \in Shifts : SeqAdd(s, r[1], r[2], d)
    \/ \E s \in Seqs, r \in Ranges, d \in Divisors : SeqDiv(s, r[1], r[2], d)
    \/ \E n \in 1..MaxBatch : \E groups \in [1..n -> Groups] : DecodeUnified(groups)
    \/ \E n \in [Seqs -> 0..MaxBatch] : DecodeStreams(n)
    \/ PrepareUbatch \/ PrepareFail \/ Restore
    \/ ProcessUbatch \/ ProcessFail
    \/ \E s \in Seqs, r \in Reads, ok \in BOOLEAN : StateRead(s, r[1], r[2], ok)
    \/ \E st \in Streams :
           \E f \in [0..(Cardinality(v_cells[st].used) - 1) -> v_cells[st].used] : Reload(st, f)

Spec == Init /\ [][Next]_vars

---------------------------------------------------------------------------
(* Properties *)

\* seq_pos counts, for every sequence and position, the cells that hold it, so
\* that seq_pos_min and seq_pos_max are right (llama-kv-cells.h: "seq_pos[s][p]
\* tells us how many times the position p is currently present").
SeqPosCounts ==
    \A st \in Streams, s \in Seqs, p \in Pos :
        v_cells[st].seq_pos[s][p] = Cardinality(Holding(v_cells[st], Idx, s, p))

\* used are the cells that have a position, which are the cells of at least one
\* sequence; a free cell has no shift left over for the token that comes next,
\* and a shift that is still to be applied is announced by has_shift.
UsedExact ==
    \A st \in Streams : LET c == v_cells[st] IN
        /\ c.used = {i \in Idx : c.pos[i] # -1}
        /\ \A i \in Idx : c.pos[i] = -1 <=> c.seq[i] = {}
        /\ \A i \in Idx : c.pos[i] = -1 => c.shift[i] = 0
        /\ (\E i \in Idx : c.shift[i] # 0) => c.has_shift

\* Whatever is removed, copied, moved, placed, undone or read back, in whatever
\* order, the indices of llama_kv_cells agree with its cells.
CellsIndexed == SeqPosCounts /\ UsedExact

\* A prepare that is over has left the cells as they were before the decode,
\* whether it found slots or not ("iterate backwards and restore the cells to
\* their original state"): of a cache without a sliding window.
PrepareOver == dec.pc = "restore" /\ dec'.pc # "restore"
PrepareRestores ==
    [][PrepareOver /\ conf.n_swa = 0 => v_cells' = dec.before]_vars

\* Of a cache with a sliding window, at least the positions that the next token
\* of their sequence attends to: of a sequence that holds no position twice.
Visible(c, s) ==
    {i \in Idx : /\ s \in c.seq[i] /\ ~is_masked_swa(c.pos[i], seq_pos_max(c, s) + 1)
                 /\ \A p \in Pos : c.seq_pos[s][p] <= 1}
WindowRestored ==
    [][PrepareOver => \A st \in Streams, s \in Seqs : \A i \in Visible(dec.before[st], s) :
          s \in v_cells'[st].seq[i] /\ v_cells'[st].pos[i] = dec.before[st].pos[i]]_vars

\* Between decodes the K of a cell is rotated to the cell's position, less the
\* shift that the next update applies, once the pending copies are done: of the
\* cells that are not stale, through whatever shifts, copies and decodes.
InPlace(st, i) ==
    i \in v_cells[st].used => Copied[st][i] = v_cells[st].pos[i] - v_cells[st].shift[i]
KInPlace ==
    dec.pc = "idle" => \A st \in Streams, i \in Idx :
        i \notin stale[st] => InPlace(st, i)
============================================================================
