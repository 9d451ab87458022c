--------------------------- MODULE KVCacheProofs ---------------------------
(* Proofs about KVCache, for any number of cells and sequences, any batches *)
(* and any sequence of calls.                                               *)
EXTENDS KVCache, FiniteSetTheorems, WellFoundedInduction, TLAPS

----------------------------------------------------------------------------
(* Least numbers. *)

LEMMA LeastNat ==
    ASSUME NEW S, S \subseteq Nat, S # {}
    PROVE  \E x \in S : \A y \in S : x <= y
<1>1. PICK x \in S : \A y \in S : ~(<<y, x>> \in OpToRel(<, Nat))
  BY NatLessThanWellFounded, WFMin
<1>2. ASSUME NEW y \in S PROVE x <= y
  <2>1. ~(<<y, x>> \in {p \in Nat \X Nat : p[1] < p[2]}) BY <1>1 DEF OpToRel
  <2>2. QED BY <2>1
<1>3. QED BY <1>2

LEMMA LeastIn ==
    ASSUME NEW S, S \subseteq Nat, S # {}
    PROVE  Least(S) \in S /\ \A y \in S : Least(S) <= y
<1>1. \E x \in S : \A y \in S : x <= y BY LeastNat
<1>2. QED BY <1>1 DEF Least

----------------------------------------------------------------------------
(* The cells of one stream. *)

Counts(c) ==
    \A s \in Seqs, p \in Pos : c.seq_pos[s][p] = Cardinality(Holding(c, Idx, s, p))

Sound(c) ==
    /\ c.used = {i \in Idx : c.pos[i] # -1}
    /\ \A i \in Idx : c.pos[i] = -1 <=> c.seq[i] = {}
    /\ \A i \in Idx : c.pos[i] = -1 => c.shift[i] = 0
    /\ (\E i \in Idx : c.shift[i] # 0) => c.has_shift

Good(c) == c \in Cells /\ Counts(c) /\ Sound(c)

\* Cells in the middle of an operation.
Raw == [pos : [Idx -> Int], shift : [Idx -> Int], seq : [Idx -> SUBSET Seqs],
        used : SUBSET Idx, has_shift : BOOLEAN, seq_pos : [Seqs -> [Pos -> Int]]]

LEMMA Finite ==
    ASSUME NEW S, S \subseteq Idx
    PROVE  IsFiniteSet(S) /\ Cardinality(S) \in Nat
<1>1. IsFiniteSet(Idx) BY SizesAssumption, FS_Interval DEF Idx
<1>2. IsFiniteSet(S) BY <1>1, FS_Subset
<1>3. QED BY <1>2, FS_CardinalityType

LEMMA CountSplit ==
    ASSUME NEW S, NEW H, S \subseteq Idx
    PROVE  Cardinality(S) = Cardinality(S \cap H) + Cardinality(S \ H)
<1>1. IsFiniteSet(S) BY Finite
<1>2. Cardinality(S \ H) = Cardinality(S) - Cardinality(S \cap H) BY <1>1, FS_Difference
<1>3. Cardinality(S) \in Nat /\ Cardinality(S \cap H) \in Nat BY Finite
<1>4. QED BY <1>2, <1>3

\* The count of a position after the cells H were changed.
LEMMA Recount ==
    ASSUME NEW c, NEW d, NEW H, H \subseteq Idx, NEW s, NEW p,
           \A i \in Idx \ H : d.pos[i] = c.pos[i] /\ d.seq[i] = c.seq[i]
    PROVE  /\ Cardinality(Holding(d, Idx, s, p)) =
                 Cardinality(Holding(c, Idx, s, p)) - Cardinality(Holding(c, H, s, p))
                     + Cardinality(Holding(d, H, s, p))
           /\ Cardinality(Holding(d, Idx, s, p)) \in Nat
           /\ Cardinality(Holding(c, Idx, s, p)) \in Nat
           /\ Cardinality(Holding(c, H, s, p)) \in Nat
           /\ Cardinality(Holding(d, H, s, p)) \in Nat
<1> DEFINE C == Holding(c, Idx, s, p)
           D == Holding(d, Idx, s, p)
<1>1. C \subseteq Idx /\ D \subseteq Idx BY DEF Holding
<1>2. C \cap H = Holding(c, H, s, p) /\ D \cap H = Holding(d, H, s, p) BY DEF Holding
<1>3. C \ H = D \ H BY DEF Holding
<1> HIDE DEF C, D
<1>4. /\ Cardinality(C) = Cardinality(C \cap H) + Cardinality(C \ H)
      /\ Cardinality(D) = Cardinality(D \cap H) + Cardinality(D \ H)
  BY <1>1, CountSplit
<1>5. /\ Cardinality(C) \in Nat /\ Cardinality(D) \in Nat /\ Cardinality(C \cap H) \in Nat
      /\ Cardinality(D \cap H) \in Nat /\ Cardinality(C \ H) \in Nat
  BY <1>1, Finite
<1>6. Cardinality(D \ H) = Cardinality(C \ H) BY <1>3
<1> DEFINE x == Cardinality(C \cap H)
           y == Cardinality(D \cap H)
           z == Cardinality(C \ H)
<1>7. Cardinality(C) = x + z /\ Cardinality(D) = y + z BY <1>4, <1>6
<1>8. x \in Nat /\ y \in Nat /\ z \in Nat BY <1>5
<1> HIDE DEF x, y, z
<1>9. Cardinality(D) = Cardinality(C) - x + y BY <1>7, <1>8
<1>10. QED BY <1>2, <1>5, <1>9 DEF C, D, x, y

LEMMA CountsFrom ==
    ASSUME NEW c, Counts(c), NEW d, NEW H, H \subseteq Idx,
           \A i \in Idx \ H : d.pos[i] = c.pos[i] /\ d.seq[i] = c.seq[i],
           \A s \in Seqs, p \in Pos : d.seq_pos[s][p] =
              c.seq_pos[s][p] - Cardinality(Holding(c, H, s, p)) + Cardinality(Holding(d, H, s, p))
    PROVE  Counts(d)
<1>1. SUFFICES ASSUME NEW s \in Seqs, NEW p \in Pos
               PROVE  d.seq_pos[s][p] = Cardinality(Holding(d, Idx, s, p))
  BY DEF Counts
<1>2. Cardinality(Holding(d, Idx, s, p)) =
         Cardinality(Holding(c, Idx, s, p)) - Cardinality(Holding(c, H, s, p))
             + Cardinality(Holding(d, H, s, p))
  BY Recount
<1>3. c.seq_pos[s][p] = Cardinality(Holding(c, Idx, s, p)) BY DEF Counts
<1>4. QED BY <1>2, <1>3

LEMMA GoodFrom ==
    ASSUME NEW d \in Raw, \A i \in Idx : d.pos[i] \in Pos \cup {-1}, Counts(d), Sound(d)
    PROVE  Good(d)
<1>1. d.pos \in [Idx -> Pos \cup {-1}] BY DEF Raw
<1>2. \A s \in Seqs, p \in Pos : d.seq_pos[s][p] \in Nat
  <2>1. \A s \in Seqs, p \in Pos : Holding(d, Idx, s, p) \subseteq Idx BY DEF Holding
  <2>2. QED BY <2>1, Finite DEF Counts
<1>3. d.seq_pos \in [Seqs -> [Pos -> Nat]] BY <1>2 DEF Raw
<1>4. d \in Cells BY <1>1, <1>3 DEF Raw, Cells
<1>5. QED BY <1>4 DEF Good

LEMMA CellsRaw ==
    ASSUME NEW c \in Cells
    PROVE  c \in Raw /\ \A i \in Idx : c.pos[i] \in Pos \cup {-1}
<1>1. Pos \cup {-1} \subseteq Int BY BoundsAssumption DEF Pos
<1>2. c.pos \in [Idx -> Int] BY <1>1 DEF Cells
<1>3. c.seq_pos \in [Seqs -> [Pos -> Int]] BY DEF Cells
<1>4. QED BY <1>2, <1>3 DEF Cells, Raw

----------------------------------------------------------------------------
(* The fields that the operations of llama_kv_cells change. *)

LEMMA RmFields ==
    ASSUME NEW c \in Raw, NEW H, H \subseteq Idx
    PROVE  /\ seq_pos_rm(c, H) \in Raw
           /\ seq_pos_rm(c, H).pos = c.pos /\ seq_pos_rm(c, H).shift = c.shift
           /\ seq_pos_rm(c, H).seq = c.seq /\ seq_pos_rm(c, H).used = c.used
           /\ seq_pos_rm(c, H).has_shift = c.has_shift
           /\ \A s \in Seqs, p \in Pos : seq_pos_rm(c, H).seq_pos[s][p] =
                 c.seq_pos[s][p] - Cardinality(Holding(c, H, s, p))
<1> DEFINE g == [s \in Seqs |-> [p \in Pos |->
                    c.seq_pos[s][p] - Cardinality(Holding(c, H, s, p))]]
<1>1. \A s, p : Cardinality(Holding(c, H, s, p)) \in Nat
  <2>1. \A s, p : Holding(c, H, s, p) \subseteq Idx BY DEF Holding
  <2>2. QED BY <2>1, Finite
<1>2. g \in [Seqs -> [Pos -> Int]]
  <2>1. \A s \in Seqs, p \in Pos : c.seq_pos[s][p] - Cardinality(Holding(c, H, s, p)) \in Int
    BY <1>1 DEF Raw
  <2>2. QED BY <2>1
<1>3. seq_pos_rm(c, H) = [c EXCEPT !.seq_pos = g] BY DEF seq_pos_rm
<1>4. \A s \in Seqs, p \in Pos : g[s][p] = c.seq_pos[s][p] - Cardinality(Holding(c, H, s, p))
  OBVIOUS
<1> HIDE DEF g
<1>5. QED BY <1>2, <1>3, <1>4 DEF Raw

LEMMA AddFields ==
    ASSUME NEW c \in Raw, NEW H, H \subseteq Idx
    PROVE  /\ seq_pos_add(c, H) \in Raw
           /\ seq_pos_add(c, H).pos = c.pos /\ seq_pos_add(c, H).shift = c.shift
           /\ seq_pos_add(c, H).seq = c.seq /\ seq_pos_add(c, H).used = c.used
           /\ seq_pos_add(c, H).has_shift = c.has_shift
           /\ \A s \in Seqs, p \in Pos : seq_pos_add(c, H).seq_pos[s][p] =
                 c.seq_pos[s][p] + Cardinality(Holding(c, H, s, p))
<1> DEFINE g == [s \in Seqs |-> [p \in Pos |->
                    c.seq_pos[s][p] + Cardinality(Holding(c, H, s, p))]]
<1>1. \A s, p : Cardinality(Holding(c, H, s, p)) \in Nat
  <2>1. \A s, p : Holding(c, H, s, p) \subseteq Idx BY DEF Holding
  <2>2. QED BY <2>1, Finite
<1>2. g \in [Seqs -> [Pos -> Int]]
  <2>1. \A s \in Seqs, p \in Pos : c.seq_pos[s][p] + Cardinality(Holding(c, H, s, p)) \in Int
    BY <1>1 DEF Raw
  <2>2. QED BY <2>1
<1>3. seq_pos_add(c, H) = [c EXCEPT !.seq_pos = g] BY DEF seq_pos_add
<1>4. \A s \in Seqs, p \in Pos : g[s][p] = c.seq_pos[s][p] + Cardinality(Holding(c, H, s, p))
  OBVIOUS
<1> HIDE DEF g
<1>5. QED BY <1>2, <1>3, <1>4 DEF Raw

LEMMA IncFields ==
    ASSUME NEW c \in Raw, NEW H, H \subseteq Idx, NEW s \in Seqs
    PROVE  /\ seq_pos_inc(c, H, s) \in Raw
           /\ seq_pos_inc(c, H, s).pos = c.pos /\ seq_pos_inc(c, H, s).shift = c.shift
           /\ seq_pos_inc(c, H, s).seq = c.seq /\ seq_pos_inc(c, H, s).used = c.used
           /\ seq_pos_inc(c, H, s).has_shift = c.has_shift
           /\ \A t \in Seqs, p \in Pos : seq_pos_inc(c, H, s).seq_pos[t][p] =
                 IF t = s THEN c.seq_pos[t][p] + Cardinality(PosAt(c, H, p)) ELSE c.seq_pos[t][p]
<1> DEFINE g == [p \in Pos |-> c.seq_pos[s][p] + Cardinality(PosAt(c, H, p))]
           h == [c.seq_pos EXCEPT ![s] = g]
<1>1. \A p : Cardinality(PosAt(c, H, p)) \in Nat
  <2>1. \A p : PosAt(c, H, p) \subseteq Idx BY DEF PosAt
  <2>2. QED BY <2>1, Finite
<1>2. g \in [Pos -> Int]
  <2>1. \A p \in Pos : c.seq_pos[s][p] + Cardinality(PosAt(c, H, p)) \in Int
    BY <1>1 DEF Raw
  <2>2. QED BY <2>1
<1>3. seq_pos_inc(c, H, s) = [c EXCEPT !.seq_pos = h] BY DEF seq_pos_inc, Raw
<1>4. \A p \in Pos : g[p] = c.seq_pos[s][p] + Cardinality(PosAt(c, H, p)) OBVIOUS
<1> HIDE DEF g
<1>5. h \in [Seqs -> [Pos -> Int]] /\ \A t \in Seqs : h[t] = IF t = s THEN g ELSE c.seq_pos[t]
  BY <1>2 DEF Raw
<1> HIDE DEF h
<1>6. QED BY <1>3, <1>4, <1>5 DEF Raw

LEMMA EmptiedFields ==
    ASSUME NEW c \in Raw, NEW H, H \subseteq Idx
    PROVE  /\ Emptied(c, H) \in Raw
           /\ \A i \in Idx : /\ Emptied(c, H).pos[i] = IF i \in H THEN -1 ELSE c.pos[i]
                             /\ Emptied(c, H).shift[i] = IF i \in H THEN 0 ELSE c.shift[i]
                             /\ Emptied(c, H).seq[i] = IF i \in H THEN {} ELSE c.seq[i]
           /\ Emptied(c, H).used = c.used \ H /\ Emptied(c, H).has_shift = c.has_shift
           /\ Emptied(c, H).seq_pos = c.seq_pos
<1> DEFINE f == [i \in Idx |-> IF i \in H THEN -1 ELSE c.pos[i]]
           g == [i \in Idx |-> IF i \in H THEN 0 ELSE c.shift[i]]
           h == [i \in Idx |-> IF i \in H THEN {} ELSE c.seq[i]]
<1>1. f \in [Idx -> Int] /\ g \in [Idx -> Int] /\ h \in [Idx -> SUBSET Seqs] BY DEF Raw
<1>2. Emptied(c, H) = [c EXCEPT !.pos = f, !.shift = g, !.seq = h, !.used = c.used \ H]
  BY DEF Emptied
<1>3. \A i \in Idx : /\ f[i] = IF i \in H THEN -1 ELSE c.pos[i]
                     /\ g[i] = IF i \in H THEN 0 ELSE c.shift[i]
                     /\ h[i] = IF i \in H THEN {} ELSE c.seq[i]
  OBVIOUS
<1> HIDE DEF f, g, h
<1>4. QED BY <1>1, <1>2, <1>3 DEF Raw

----------------------------------------------------------------------------
(* Every operation of llama_kv_cells keeps the cells good. *)

LEMMA NoCellsGood == Good(NoCells)
<1>1. NoCells \in Cells
  <2>1. -1 \in Pos \cup {-1} /\ 0 \in Int /\ 0 \in Nat OBVIOUS
  <2>2. QED BY <2>1 DEF NoCells, Cells
<1>2. \A s, p : Holding(NoCells, Idx, s, p) = {} BY DEF Holding, NoCells
<1>3. Counts(NoCells) BY <1>2, FS_EmptySet DEF Counts, NoCells
<1>4. Sound(NoCells) BY DEF Sound, NoCells
<1>5. QED BY <1>1, <1>3, <1>4 DEF Good

LEMMA CellsRmGood ==
    ASSUME NEW c, Good(c), NEW H, H \subseteq Idx
    PROVE  /\ Good(cells_rm(c, H)) /\ cells_rm(c, H).has_shift = c.has_shift
           /\ \A i \in Idx : /\ cells_rm(c, H).pos[i] = IF i \in H THEN -1 ELSE c.pos[i]
                             /\ cells_rm(c, H).seq[i] = IF i \in H THEN {} ELSE c.seq[i]
                             /\ cells_rm(c, H).shift[i] = IF i \in H THEN 0 ELSE c.shift[i]
<1> DEFINE c1 == seq_pos_rm(c, H)
           d == Emptied(c1, H)
<1>0. cells_rm(c, H) = d BY DEF cells_rm
<1>1. c \in Raw /\ \A i \in Idx : c.pos[i] \in Pos \cup {-1} BY CellsRaw DEF Good
<1>2. /\ c1 \in Raw /\ c1.pos = c.pos /\ c1.shift = c.shift /\ c1.seq = c.seq /\ c1.used = c.used
      /\ c1.has_shift = c.has_shift
      /\ \A s \in Seqs, p \in Pos :
            c1.seq_pos[s][p] = c.seq_pos[s][p] - Cardinality(Holding(c, H, s, p))
  BY <1>1, RmFields
<1> HIDE DEF c1
<1>3. /\ d \in Raw
      /\ \A i \in Idx : /\ d.pos[i] = IF i \in H THEN -1 ELSE c.pos[i]
                        /\ d.shift[i] = IF i \in H THEN 0 ELSE c.shift[i]
                        /\ d.seq[i] = IF i \in H THEN {} ELSE c.seq[i]
      /\ d.used = c.used \ H /\ d.has_shift = c.has_shift /\ d.seq_pos = c1.seq_pos
  BY <1>2, EmptiedFields
<1> HIDE DEF d
<1>4. Counts(d)
  <2>1. SUFFICES ASSUME NEW s \in Seqs, NEW p \in Pos
                 PROVE  d.seq_pos[s][p] = Cardinality(Holding(d, Idx, s, p))
    BY DEF Counts
  <2>2. Holding(d, H, s, p) = {} BY <1>3 DEF Holding
  <2>3. /\ Cardinality(Holding(d, Idx, s, p)) =
              Cardinality(Holding(c, Idx, s, p)) - Cardinality(Holding(c, H, s, p))
                  + Cardinality(Holding(d, H, s, p))
        /\ Cardinality(Holding(c, Idx, s, p)) \in Nat /\ Cardinality(Holding(c, H, s, p)) \in Nat
    BY <1>3, Recount
  <2>4. Cardinality(Holding(d, H, s, p)) = 0 BY <2>2, FS_EmptySet
  <2>5. c.seq_pos[s][p] = Cardinality(Holding(c, Idx, s, p)) BY DEF Good, Counts
  <2>6. d.seq_pos[s][p] = c.seq_pos[s][p] - Cardinality(Holding(c, H, s, p)) BY <1>2, <1>3
  <2>7. QED BY <2>3, <2>4, <2>5, <2>6
<1>5. Sound(d) BY <1>3 DEF Good, Sound
<1>6. Good(d) BY <1>1, <1>3, <1>4, <1>5, GoodFrom
<1>7. QED BY <1>0, <1>3, <1>6

LEMMA CellsSeqRmGood ==
    ASSUME NEW c, Good(c), NEW G
    PROVE  /\ Good(cells_seq_rm(c, G)) /\ cells_seq_rm(c, G).has_shift = c.has_shift
           /\ \A i \in Idx : LET left == {s \in c.seq[i] : c.pos[i] \notin G[s]} IN
                 /\ cells_seq_rm(c, G).seq[i] = left
                 /\ cells_seq_rm(c, G).pos[i] = IF left = {} THEN -1 ELSE c.pos[i]
                 /\ cells_seq_rm(c, G).shift[i] = IF left = {} THEN 0 ELSE c.shift[i]
<1> DEFINE e == [i \in Idx |-> {s \in c.seq[i] : c.pos[i] \notin G[s]}]
           g == [s \in Seqs |-> [p \in Pos |->
                    IF p \in G[s] THEN c.seq_pos[s][p] - Cardinality(Holding(c, Idx, s, p))
                                  ELSE c.seq_pos[s][p]]]
           c1 == [c EXCEPT !.seq = e, !.seq_pos = g]
           E == {i \in Idx : c.seq[i] # {} /\ c1.seq[i] = {}}
           d == Emptied(c1, E)
<1>0. cells_seq_rm(c, G) = d BY DEF cells_seq_rm
<1>1. c \in Raw /\ \A i \in Idx : c.pos[i] \in Pos \cup {-1} BY CellsRaw DEF Good
<1>2. \A s \in Seqs, p \in Pos : c.seq_pos[s][p] = Cardinality(Holding(c, Idx, s, p))
                                 /\ Cardinality(Holding(c, Idx, s, p)) \in Nat
  <2>1. \A s, p : Holding(c, Idx, s, p) \subseteq Idx BY DEF Holding
  <2>2. QED BY <2>1, Finite DEF Good, Counts
<1>3. e \in [Idx -> SUBSET Seqs] BY <1>1 DEF Raw
<1>4. g \in [Seqs -> [Pos -> Int]] BY <1>2
<1>5. /\ \A i \in Idx : e[i] = {s \in c.seq[i] : c.pos[i] \notin G[s]}
      /\ \A s \in Seqs, p \in Pos : g[s][p] = IF p \in G[s] THEN 0 ELSE c.seq_pos[s][p]
  BY <1>2
<1> HIDE DEF e, g
<1>6. /\ c1 \in Raw /\ c1.pos = c.pos /\ c1.shift = c.shift /\ c1.seq = e /\ c1.used = c.used
      /\ c1.has_shift = c.has_shift /\ c1.seq_pos = g
  BY <1>1, <1>3, <1>4 DEF Raw
<1> HIDE DEF c1
<1>7. E = {i \in Idx : c.seq[i] # {} /\ e[i] = {}} /\ E \subseteq Idx BY <1>6
<1> HIDE DEF E
<1>8. /\ d \in Raw
      /\ \A i \in Idx : /\ d.pos[i] = IF i \in E THEN -1 ELSE c.pos[i]
                        /\ d.shift[i] = IF i \in E THEN 0 ELSE c.shift[i]
                        /\ d.seq[i] = IF i \in E THEN {} ELSE e[i]
      /\ d.used = c.used \ E /\ d.has_shift = c.has_shift /\ d.seq_pos = g
  BY <1>6, <1>7, EmptiedFields
<1> HIDE DEF d
<1>9. \A i \in Idx : /\ d.seq[i] = e[i]
                     /\ d.pos[i] = IF e[i] = {} THEN -1 ELSE c.pos[i]
                     /\ d.shift[i] = IF e[i] = {} THEN 0 ELSE c.shift[i]
  <2>1. SUFFICES ASSUME NEW i \in Idx
                 PROVE  /\ d.seq[i] = e[i]
                        /\ d.pos[i] = IF e[i] = {} THEN -1 ELSE c.pos[i]
                        /\ d.shift[i] = IF e[i] = {} THEN 0 ELSE c.shift[i]
    OBVIOUS
  <2>2. i \in E <=> c.seq[i] # {} /\ e[i] = {} BY <1>7
  <2>3. c.seq[i] = {} => e[i] = {} BY <1>5
  <2>4. c.seq[i] = {} => c.pos[i] = -1 /\ c.shift[i] = 0 BY DEF Good, Sound
  <2>5. QED BY <1>8, <2>2, <2>3, <2>4
<1>10. Counts(d)
  <2>1. SUFFICES ASSUME NEW s \in Seqs, NEW p \in Pos
                 PROVE  d.seq_pos[s][p] = Cardinality(Holding(d, Idx, s, p))
    BY DEF Counts
  <2>2. p # -1 BY BoundsAssumption DEF Pos
  <2>3. CASE p \in G[s]
    <3>1. Holding(d, Idx, s, p) = {} BY <1>5, <1>9, <2>2, <2>3 DEF Holding
    <3>2. QED BY <1>5, <1>8, <2>3, <3>1, FS_EmptySet
  <2>4. CASE p \notin G[s]
    <3>1. Holding(d, Idx, s, p) = Holding(c, Idx, s, p) BY <1>5, <1>9, <2>2, <2>4 DEF Holding
    <3>2. QED BY <1>2, <1>5, <1>8, <2>4, <3>1
  <2>5. QED BY <2>3, <2>4
<1>11. Sound(d)
  <2>1. d.used = {i \in Idx : d.pos[i] # -1} BY <1>5, <1>7, <1>8 DEF Good, Sound
  <2>2. QED BY <1>5, <1>8, <1>9, <2>1 DEF Good, Sound
<1>12. Good(d) BY <1>1, <1>8, <1>10, <1>11, GoodFrom
<1>13. QED BY <1>0, <1>5, <1>8, <1>9, <1>12

LEMMA CellsSeqKeepGood ==
    ASSUME NEW c, Good(c), NEW s \in Seqs
    PROVE  /\ Good(cells_seq_keep(c, s)) /\ cells_seq_keep(c, s).has_shift = c.has_shift
           /\ \A i \in Idx :
                 /\ cells_seq_keep(c, s).pos[i] = IF s \in c.seq[i] THEN c.pos[i] ELSE -1
                 /\ cells_seq_keep(c, s).shift[i] = IF s \in c.seq[i] THEN c.shift[i] ELSE 0
<1> DEFINE kept == {i \in Idx : s \in c.seq[i]}
           gone == {i \in Idx : s \notin c.seq[i] /\ c.seq[i] # {}}
           K == kept \cup gone
           c1 == seq_pos_rm(c, K)
           e == [i \in Idx |-> IF i \in kept THEN {s} ELSE c.seq[i]]
           c2 == [c1 EXCEPT !.seq = e]
           c3 == seq_pos_inc(c2, kept, s)
           d == Emptied(c3, gone)
<1>0. cells_seq_keep(c, s) = d BY DEF cells_seq_keep
<1>1. c \in Raw /\ \A i \in Idx : c.pos[i] \in Pos \cup {-1} BY CellsRaw DEF Good
<1>2. \A i \in Idx : /\ i \in kept <=> s \in c.seq[i]
                     /\ i \in gone <=> (s \notin c.seq[i] /\ c.seq[i] # {})
                     /\ i \in K <=> c.seq[i] # {}
  OBVIOUS
<1>3. kept \subseteq Idx /\ gone \subseteq Idx /\ K \subseteq Idx OBVIOUS
<1>4. e \in [Idx -> SUBSET Seqs] /\ \A i \in Idx : e[i] = IF i \in kept THEN {s} ELSE c.seq[i]
  BY <1>1 DEF Raw
<1> HIDE DEF kept, gone, K, e
<1>5. /\ c1 \in Raw /\ c1.pos = c.pos /\ c1.shift = c.shift /\ c1.seq = c.seq /\ c1.used = c.used
      /\ c1.has_shift = c.has_shift
      /\ \A t \in Seqs, p \in Pos :
            c1.seq_pos[t][p] = c.seq_pos[t][p] - Cardinality(Holding(c, K, t, p))
  BY <1>1, <1>3, RmFields
<1> HIDE DEF c1
<1>6. /\ c2 \in Raw /\ c2.pos = c.pos /\ c2.shift = c.shift /\ c2.seq = e /\ c2.used = c.used
      /\ c2.has_shift = c.has_shift /\ c2.seq_pos = c1.seq_pos
  BY <1>4, <1>5 DEF Raw
<1> HIDE DEF c2
<1>7. /\ c3 \in Raw /\ c3.pos = c.pos /\ c3.shift = c.shift /\ c3.seq = e /\ c3.used = c.used
      /\ c3.has_shift = c.has_shift
      /\ \A t \in Seqs, p \in Pos : c3.seq_pos[t][p] =
            IF t = s THEN c2.seq_pos[t][p] + Cardinality(PosAt(c2, kept, p)) ELSE c2.seq_pos[t][p]
  BY <1>3, <1>6, IncFields
<1> HIDE DEF c3
<1>8. /\ d \in Raw
      /\ \A i \in Idx : /\ d.pos[i] = IF i \in gone THEN -1 ELSE c.pos[i]
                        /\ d.shift[i] = IF i \in gone THEN 0 ELSE c.shift[i]
                        /\ d.seq[i] = IF i \in gone THEN {} ELSE e[i]
      /\ d.used = c.used \ gone /\ d.has_shift = c.has_shift /\ d.seq_pos = c3.seq_pos
  BY <1>3, <1>7, EmptiedFields
<1> HIDE DEF d
<1>9. \A i \in Idx : /\ d.seq[i] = IF i \in kept THEN {s} ELSE {}
                     /\ d.pos[i] = IF i \in kept THEN c.pos[i] ELSE -1
                     /\ d.shift[i] = IF i \in kept THEN c.shift[i] ELSE 0
  <2>1. SUFFICES ASSUME NEW i \in Idx
                 PROVE  /\ d.seq[i] = IF i \in kept THEN {s} ELSE {}
                        /\ d.pos[i] = IF i \in kept THEN c.pos[i] ELSE -1
                        /\ d.shift[i] = IF i \in kept THEN c.shift[i] ELSE 0
    OBVIOUS
  <2>2. c.seq[i] = {} => c.pos[i] = -1 /\ c.shift[i] = 0 BY DEF Good, Sound
  <2>3. i \notin kept /\ i \notin gone => c.seq[i] = {} BY <1>2
  <2>4. ~(i \in kept /\ i \in gone) BY <1>2
  <2>5. QED BY <1>4, <1>8, <2>2, <2>3, <2>4
<1>10. Counts(d)
  <2>1. SUFFICES ASSUME NEW t \in Seqs, NEW p \in Pos
                 PROVE  d.seq_pos[t][p] = Cardinality(Holding(d, Idx, t, p))
    BY DEF Counts
  <2>2. Holding(c, K, t, p) = Holding(c, Idx, t, p) BY <1>2, <1>3 DEF Holding
  <2>3. c.seq_pos[t][p] = Cardinality(Holding(c, Idx, t, p)) BY DEF Good, Counts
  <2>4. Cardinality(Holding(c, Idx, t, p)) \in Nat
    <3>1. Holding(c, Idx, t, p) \subseteq Idx BY DEF Holding
    <3>2. QED BY <3>1, Finite
  <2>5. c2.seq_pos[t][p] = 0 BY <1>5, <1>6, <2>2, <2>3, <2>4
  <2>6. CASE t = s
    <3>1. Holding(d, Idx, t, p) = PosAt(c2, kept, p)
      BY <1>3, <1>6, <1>9, <2>6 DEF Holding, PosAt
    <3>2. PosAt(c2, kept, p) \subseteq Idx BY <1>3 DEF PosAt
    <3>3. Cardinality(PosAt(c2, kept, p)) \in Nat BY <3>2, Finite
    <3>4. QED BY <1>7, <1>8, <2>5, <2>6, <3>1, <3>3
  <2>7. CASE t # s
    <3>1. Holding(d, Idx, t, p) = {} BY <1>9, <2>7 DEF Holding
    <3>2. QED BY <1>7, <1>8, <2>5, <2>7, <3>1, FS_EmptySet
  <2>8. QED BY <2>6, <2>7
<1>11. Sound(d)
  <2>1. \A i \in Idx : i \in kept => c.pos[i] # -1 BY <1>2 DEF Good, Sound
  <2>2. d.used = {i \in Idx : d.pos[i] # -1} BY <1>2, <1>8 DEF Good, Sound
  <2>3. QED BY <1>8, <1>9, <2>1, <2>2 DEF Good, Sound
<1>12. \A i \in Idx : d.pos[i] \in Pos \cup {-1} BY <1>1, <1>9
<1>13. Good(d) BY <1>8, <1>10, <1>11, <1>12, GoodFrom
<1>14. QED BY <1>0, <1>2, <1>8, <1>9, <1>13

\* The cells H, that do not have the sequence, get it.
LEMMA SeqAddFields ==
    ASSUME NEW c \in Raw, NEW H, H \subseteq Idx, NEW s \in Seqs,
           \A i \in H : s \notin c.seq[i], NEW d, d = cells_seq_add(c, H, s)
    PROVE  /\ d \in Raw /\ d.pos = c.pos /\ d.shift = c.shift /\ d.used = c.used
           /\ d.has_shift = c.has_shift
           /\ \A i \in Idx : d.seq[i] = IF i \in H THEN c.seq[i] \cup {s} ELSE c.seq[i]
           /\ Counts(c) => Counts(d)
<1> DEFINE e == [i \in Idx |-> IF i \in H THEN c.seq[i] \cup {s} ELSE c.seq[i]]
           c1 == [c EXCEPT !.seq = e]
<1>0. d = seq_pos_inc(c1, H, s) BY DEF cells_seq_add
<1>1. e \in [Idx -> SUBSET Seqs]
      /\ \A i \in Idx : e[i] = IF i \in H THEN c.seq[i] \cup {s} ELSE c.seq[i]
  BY DEF Raw
<1> HIDE DEF e
<1>2. /\ c1 \in Raw /\ c1.pos = c.pos /\ c1.shift = c.shift /\ c1.seq = e /\ c1.used = c.used
      /\ c1.has_shift = c.has_shift /\ c1.seq_pos = c.seq_pos
  BY <1>1 DEF Raw
<1> HIDE DEF c1
<1>3. /\ d \in Raw /\ d.pos = c.pos /\ d.shift = c.shift /\ d.seq = e /\ d.used = c.used
      /\ d.has_shift = c.has_shift
      /\ \A t \in Seqs, p \in Pos : d.seq_pos[t][p] =
            IF t = s THEN c.seq_pos[t][p] + Cardinality(PosAt(c1, H, p)) ELSE c.seq_pos[t][p]
  BY <1>0, <1>2, IncFields
<1>4. ASSUME Counts(c), NEW t \in Seqs, NEW p \in Pos
      PROVE  d.seq_pos[t][p] = Cardinality(Holding(d, Idx, t, p))
  <2>1. c.seq_pos[t][p] = Cardinality(Holding(c, Idx, t, p)) BY <1>4 DEF Counts
  <2>2. CASE t # s
    <3>1. Holding(d, Idx, t, p) = Holding(c, Idx, t, p) BY <1>1, <1>3, <2>2 DEF Holding
    <3>2. QED BY <1>3, <2>1, <2>2, <3>1
  <2>3. CASE t = s
    <3>1. Holding(d, H, t, p) = PosAt(c1, H, p) BY <1>1, <1>2, <1>3, <2>3 DEF Holding, PosAt
    <3>2. Holding(c, H, t, p) = {} BY <2>3 DEF Holding
    <3>3. \A i \in Idx \ H : d.pos[i] = c.pos[i] /\ d.seq[i] = c.seq[i] BY <1>1, <1>3
    <3>4. /\ Cardinality(Holding(d, Idx, t, p)) =
                Cardinality(Holding(c, Idx, t, p)) - Cardinality(Holding(c, H, t, p))
                    + Cardinality(Holding(d, H, t, p))
          /\ Cardinality(Holding(c, Idx, t, p)) \in Nat /\ Cardinality(Holding(d, H, t, p)) \in Nat
      BY <3>3, Recount
    <3>5. Cardinality(Holding(c, H, t, p)) = 0 BY <3>2, FS_EmptySet
    <3>6. d.seq_pos[t][p] = c.seq_pos[t][p] + Cardinality(Holding(d, H, t, p)) BY <1>3, <2>3, <3>1
    <3>7. QED BY <2>1, <3>4, <3>5, <3>6
  <2>4. QED BY <2>2, <2>3
<1>5. Counts(c) => Counts(d) BY <1>4 DEF Counts
<1>6. QED BY <1>0, <1>1, <1>3, <1>5

LEMMA SeqAddGood ==
    ASSUME NEW c, Good(c), NEW H, H \subseteq Idx, NEW s \in Seqs,
           \A i \in H : s \notin c.seq[i] /\ c.pos[i] # -1, NEW d, d = cells_seq_add(c, H, s)
    PROVE  Good(d) /\ d.pos = c.pos /\ d.shift = c.shift /\ d.used = c.used
<1>1. c \in Raw /\ \A i \in Idx : c.pos[i] \in Pos \cup {-1} BY CellsRaw DEF Good
<1>2. /\ d \in Raw /\ d.pos = c.pos /\ d.shift = c.shift /\ d.used = c.used
      /\ d.has_shift = c.has_shift
      /\ \A i \in Idx : d.seq[i] = IF i \in H THEN c.seq[i] \cup {s} ELSE c.seq[i]
      /\ Counts(d)
  <2>1. \A i \in H : s \notin c.seq[i] OBVIOUS
  <2>2. Counts(c) BY DEF Good
  <2>3. QED BY <1>1, <2>1, <2>2, SeqAddFields
<1>3. \A i \in Idx : d.seq[i] = {} <=> c.seq[i] = {} BY <1>2 DEF Good, Sound
<1>4. Sound(d) BY <1>2, <1>3 DEF Good, Sound
<1>5. Good(d) BY <1>1, <1>2, <1>4, GoodFrom
<1>6. QED BY <1>2, <1>5

\* The cells H are moved to other positions; those below zero are emptied.
LEMMA PosAddGood ==
    ASSUME NEW c, Good(c), NEW H, H \subseteq Idx, NEW m \in Int,
           \A i \in H : c.pos[i] # -1 /\ c.pos[i] + m <= MaxPos
    PROVE  /\ Good(pos_add(c, H, m))
           /\ \A i \in Idx : LET gone == i \in H /\ c.pos[i] + m < 0 IN
                 /\ pos_add(c, H, m).pos[i] = IF gone THEN -1 ELSE
                                              IF i \in H THEN c.pos[i] + m ELSE c.pos[i]
                 /\ pos_add(c, H, m).shift[i] = IF gone THEN 0 ELSE
                                              IF i \in H THEN c.shift[i] + m ELSE c.shift[i]
<1> DEFINE c1 == seq_pos_rm(c, H)
           f == [i \in Idx |-> IF i \in H THEN c.pos[i] + m ELSE c.pos[i]]
           g == [i \in Idx |-> IF i \in H THEN c.shift[i] + m ELSE c.shift[i]]
           b == c.has_shift \/ H # {}
           c2 == [c1 EXCEPT !.pos = f, !.shift = g, !.has_shift = b]
           gone == {i \in H : c2.pos[i] < 0}
           c3 == Emptied(c2, gone)
           d == seq_pos_add(c3, H \ gone)
<1>0. pos_add(c, H, m) = d BY DEF pos_add
<1>1. c \in Raw /\ \A i \in Idx : c.pos[i] \in Pos \cup {-1} BY CellsRaw DEF Good
<1>2. f \in [Idx -> Int] /\ g \in [Idx -> Int] /\ b \in BOOLEAN BY <1>1 DEF Raw
<1>3. \A i \in Idx : /\ f[i] = IF i \in H THEN c.pos[i] + m ELSE c.pos[i]
                     /\ g[i] = IF i \in H THEN c.shift[i] + m ELSE c.shift[i]
  OBVIOUS
<1>4. b <=> (c.has_shift \/ H # {}) OBVIOUS
<1> HIDE DEF f, g, b
<1>5. /\ c1 \in Raw /\ c1.pos = c.pos /\ c1.shift = c.shift /\ c1.seq = c.seq /\ c1.used = c.used
      /\ \A s \in Seqs, p \in Pos :
            c1.seq_pos[s][p] = c.seq_pos[s][p] - Cardinality(Holding(c, H, s, p))
  BY <1>1, RmFields
<1> HIDE DEF c1
<1>6. /\ c2 \in Raw /\ c2.pos = f /\ c2.shift = g /\ c2.seq = c.seq /\ c2.used = c.used
      /\ c2.has_shift = b /\ c2.seq_pos = c1.seq_pos
  BY <1>2, <1>5 DEF Raw
<1> HIDE DEF c2
<1>7. gone = {i \in H : c.pos[i] + m < 0} /\ gone \subseteq Idx BY <1>3, <1>6
<1> HIDE DEF gone
<1>8. /\ c3 \in Raw
      /\ \A i \in Idx : /\ c3.pos[i] = IF i \in gone THEN -1 ELSE f[i]
                        /\ c3.shift[i] = IF i \in gone THEN 0 ELSE g[i]
                        /\ c3.seq[i] = IF i \in gone THEN {} ELSE c.seq[i]
      /\ c3.used = c.used \ gone /\ c3.has_shift = b /\ c3.seq_pos = c1.seq_pos
  BY <1>6, <1>7, EmptiedFields
<1> HIDE DEF c3
<1>9. /\ d \in Raw /\ d.pos = c3.pos /\ d.shift = c3.shift /\ d.seq = c3.seq /\ d.used = c3.used
      /\ d.has_shift = c3.has_shift
      /\ \A s \in Seqs, p \in Pos :
            d.seq_pos[s][p] = c3.seq_pos[s][p] + Cardinality(Holding(c3, H \ gone, s, p))
  BY <1>8, AddFields
<1> HIDE DEF d
<1>10. \A i \in Idx \ H : d.pos[i] = c.pos[i] /\ d.seq[i] = c.seq[i]
  BY <1>3, <1>7, <1>8, <1>9
<1>11. \A s \in Seqs, p \in Pos : d.seq_pos[s][p] =
          c.seq_pos[s][p] - Cardinality(Holding(c, H, s, p)) + Cardinality(Holding(d, H, s, p))
  <2>1. SUFFICES ASSUME NEW s \in Seqs, NEW p \in Pos
                 PROVE  d.seq_pos[s][p] = c.seq_pos[s][p] - Cardinality(Holding(c, H, s, p))
                                             + Cardinality(Holding(d, H, s, p))
    OBVIOUS
  <2>2. Holding(c3, H \ gone, s, p) = Holding(d, H, s, p)
    BY <1>7, <1>8, <1>9 DEF Holding
  <2>3. QED BY <1>5, <1>8, <1>9, <2>2
<1>12. Counts(d)
  <2>1. Counts(c) BY DEF Good
  <2>2. QED BY <1>10, <1>11, <2>1, CountsFrom
<1>13. \A i \in Idx :
          /\ d.pos[i] = IF i \in gone THEN -1 ELSE IF i \in H THEN c.pos[i] + m ELSE c.pos[i]
          /\ d.shift[i] = IF i \in gone THEN 0 ELSE IF i \in H THEN c.shift[i] + m ELSE c.shift[i]
          /\ d.seq[i] = IF i \in gone THEN {} ELSE c.seq[i]
          /\ i \in gone <=> i \in H /\ c.pos[i] + m < 0
  BY <1>3, <1>7, <1>8, <1>9
<1>14. \A i \in Idx : d.pos[i] \in Pos \cup {-1}
  BY <1>1, <1>13, BoundsAssumption DEF Pos
<1>15. \A i \in Idx : c.pos[i] \in Int /\ (i \in H /\ i \notin gone => c.pos[i] + m >= 0)
  BY <1>1, <1>13, BoundsAssumption DEF Pos
<1>16. Sound(d)
  <2>1. \A i \in Idx : d.pos[i] = -1 <=> (i \in gone \/ c.pos[i] = -1) BY <1>13, <1>15
  <2>2. d.used = {i \in Idx : d.pos[i] # -1} BY <1>8, <1>9, <2>1 DEF Good, Sound
  <2>3. \A i \in Idx : d.pos[i] = -1 <=> d.seq[i] = {} BY <1>13, <2>1 DEF Good, Sound
  <2>4. \A i \in Idx : d.pos[i] = -1 => d.shift[i] = 0 BY <1>13, <2>1 DEF Good, Sound
  <2>5. (\E i \in Idx : d.shift[i] # 0) => d.has_shift
    <3>1. SUFFICES ASSUME NEW i \in Idx, d.shift[i] # 0, H = {} PROVE c.has_shift
      BY <1>4, <1>8, <1>9
    <3>2. c.shift[i] # 0 BY <1>13, <3>1
    <3>3. QED BY <3>2 DEF Good, Sound
  <2>6. QED BY <2>2, <2>3, <2>4, <2>5 DEF Sound
<1>17. Good(d) BY <1>9, <1>12, <1>14, <1>16, GoodFrom
<1>18. QED BY <1>0, <1>13, <1>17

LEMMA DivPos ==
    ASSUME NEW p \in Nat, NEW m \in Nat \ {0}
    PROVE  p \div m \in 0..p
<1>1. p \div m \in Int OBVIOUS
<1>2. QED BY <1>1

LEMMA PosDivGood ==
    ASSUME NEW c, Good(c), NEW H, H \subseteq Idx, NEW m \in Nat \ {0},
           \A i \in H : c.pos[i] # -1
    PROVE  Good(pos_div(c, H, m)) /\ pos_div(c, H, m).used = c.used
           /\ \A i \in Idx \ H : /\ pos_div(c, H, m).pos[i] = c.pos[i]
                                 /\ pos_div(c, H, m).shift[i] = c.shift[i]
<1> DEFINE c1 == seq_pos_rm(c, H)
           f == [i \in Idx |-> IF i \in H THEN c.pos[i] \div m ELSE c.pos[i]]
           g == [i \in Idx |-> IF i \in H THEN c.shift[i] + (c.pos[i] - (c.pos[i] \div m))
                                          ELSE c.shift[i]]
           b == c.has_shift \/ H # {}
           c2 == [c1 EXCEPT !.pos = f, !.shift = g, !.has_shift = b]
           d == seq_pos_add(c2, H)
<1>0. pos_div(c, H, m) = d BY DEF pos_div
<1>1. c \in Raw /\ \A i \in Idx : c.pos[i] \in Pos \cup {-1} BY CellsRaw DEF Good
<1>2. \A i \in H : c.pos[i] \in Nat /\ c.pos[i] \div m \in 0..c.pos[i]
  <2>1. \A i \in H : c.pos[i] \in Nat BY <1>1, BoundsAssumption DEF Pos
  <2>2. QED BY <2>1, DivPos
<1>3. f \in [Idx -> Int] /\ g \in [Idx -> Int] /\ b \in BOOLEAN BY <1>1, <1>2 DEF Raw
<1>4. /\ \A i \in H : f[i] = c.pos[i] \div m
      /\ \A i \in Idx \ H : f[i] = c.pos[i] /\ g[i] = c.shift[i]
  OBVIOUS
<1>5. b <=> (c.has_shift \/ H # {}) OBVIOUS
<1> HIDE DEF f, g, b
<1>6. /\ c1 \in Raw /\ c1.pos = c.pos /\ c1.shift = c.shift /\ c1.seq = c.seq /\ c1.used = c.used
      /\ \A s \in Seqs, p \in Pos :
            c1.seq_pos[s][p] = c.seq_pos[s][p] - Cardinality(Holding(c, H, s, p))
  BY <1>1, RmFields
<1> HIDE DEF c1
<1>7. /\ c2 \in Raw /\ c2.pos = f /\ c2.shift = g /\ c2.seq = c.seq /\ c2.used = c.used
      /\ c2.has_shift = b /\ c2.seq_pos = c1.seq_pos
  BY <1>3, <1>6 DEF Raw
<1> HIDE DEF c2
<1>8. /\ d \in Raw /\ d.pos = f /\ d.shift = g /\ d.seq = c.seq /\ d.used = c.used
      /\ d.has_shift = b
      /\ \A s \in Seqs, p \in Pos :
            d.seq_pos[s][p] = c1.seq_pos[s][p] + Cardinality(Holding(c2, H, s, p))
  BY <1>7, AddFields
<1> HIDE DEF d
<1>9. Counts(d)
  <2>1. SUFFICES ASSUME NEW s \in Seqs, NEW p \in Pos
                 PROVE  d.seq_pos[s][p] = Cardinality(Holding(d, Idx, s, p))
    BY DEF Counts
  <2>2. Holding(c2, H, s, p) = Holding(d, H, s, p) BY <1>7, <1>8 DEF Holding
  <2>3. \A i \in Idx \ H : d.pos[i] = c.pos[i] /\ d.seq[i] = c.seq[i] BY <1>4, <1>8
  <2>4. /\ Cardinality(Holding(d, Idx, s, p)) =
              Cardinality(Holding(c, Idx, s, p)) - Cardinality(Holding(c, H, s, p))
                  + Cardinality(Holding(d, H, s, p))
        /\ Cardinality(Holding(c, Idx, s, p)) \in Nat /\ Cardinality(Holding(c, H, s, p)) \in Nat
        /\ Cardinality(Holding(d, H, s, p)) \in Nat
    BY <2>3, Recount
  <2>5. c.seq_pos[s][p] = Cardinality(Holding(c, Idx, s, p)) BY DEF Good, Counts
  <2>6. d.seq_pos[s][p] =
           c.seq_pos[s][p] - Cardinality(Holding(c, H, s, p)) + Cardinality(Holding(d, H, s, p))
    BY <1>6, <1>8, <2>2
  <2>7. QED BY <2>4, <2>5, <2>6
<1>10. \A i \in H : d.pos[i] \in Pos
  <2>1. \A i \in H : c.pos[i] \in Pos BY <1>1
  <2>2. QED BY <1>2, <1>4, <1>8, <2>1, BoundsAssumption DEF Pos
<1>11. -1 \notin Pos BY BoundsAssumption DEF Pos
<1>12. \A i \in Idx : d.pos[i] = -1 <=> c.pos[i] = -1 BY <1>4, <1>8, <1>10, <1>11
<1>13. Sound(d)
  <2>1. \A i \in Idx : d.pos[i] = -1 => d.shift[i] = 0 BY <1>4, <1>8, <1>12 DEF Good, Sound
  <2>2. (\E i \in Idx : d.shift[i] # 0) => d.has_shift BY <1>4, <1>5, <1>8 DEF Good, Sound
  <2>3. QED BY <1>8, <1>12, <2>1, <2>2 DEF Good, Sound
<1>14. \A i \in Idx : d.pos[i] \in Pos \cup {-1} BY <1>1, <1>4, <1>8, <1>10
<1>15. Good(d) BY <1>8, <1>9, <1>13, <1>14, GoodFrom
<1>16. QED BY <1>0, <1>4, <1>8, <1>15

\* The cells H are put back as they were.
LEMMA CellsSetGood ==
    ASSUME NEW c, Good(c), NEW H, H \subseteq Idx, NEW old \in SavedCells,
           \A i \in H : old.pos[i] = -1 <=> old.seq[i] = {}, \A i \in H : c.shift[i] = 0
    PROVE  /\ Good(cells_set(c, H, old)) /\ cells_set(c, H, old).shift = c.shift
           /\ cells_set(c, H, old).has_shift = c.has_shift
           /\ \A i \in Idx :
                 /\ cells_set(c, H, old).pos[i] = IF i \in H THEN old.pos[i] ELSE c.pos[i]
                 /\ cells_set(c, H, old).seq[i] = IF i \in H THEN old.seq[i] ELSE c.seq[i]
<1> DEFINE A == {i \in H : c.pos[i] # -1}
           B == {i \in H : old.pos[i] # -1}
           c1 == seq_pos_rm(c, A)
           f == [i \in Idx |-> IF i \in H THEN old.pos[i] ELSE c.pos[i]]
           e == [i \in Idx |-> IF i \in H THEN old.seq[i] ELSE c.seq[i]]
           u == (c.used \cup {i \in H : c.pos[i] = -1 /\ old.pos[i] # -1})
                    \ {i \in H : c.pos[i] # -1 /\ old.pos[i] = -1}
           c2 == [c1 EXCEPT !.pos = f, !.seq = e, !.used = u]
           d == seq_pos_add(c2, B)
<1>0. cells_set(c, H, old) = d BY DEF cells_set
<1>1. c \in Raw /\ \A i \in Idx : c.pos[i] \in Pos \cup {-1} BY CellsRaw DEF Good
<1>2. \A i \in Idx : old.pos[i] \in Pos \cup {-1} /\ old.seq[i] \subseteq Seqs BY DEF SavedCells
<1>3. Pos \cup {-1} \subseteq Int /\ -1 \notin Pos BY BoundsAssumption DEF Pos
<1>4. f \in [Idx -> Int] /\ e \in [Idx -> SUBSET Seqs] /\ u \subseteq Idx
  BY <1>1, <1>2, <1>3 DEF Raw
<1>5. \A i \in Idx : /\ f[i] = IF i \in H THEN old.pos[i] ELSE c.pos[i]
                     /\ e[i] = IF i \in H THEN old.seq[i] ELSE c.seq[i]
  OBVIOUS
<1>6. u = {i \in Idx : f[i] # -1} BY <1>5 DEF Good, Sound
<1>7. A \subseteq Idx /\ B \subseteq Idx OBVIOUS
<1> HIDE DEF f, e, u
<1>8. /\ c1 \in Raw /\ c1.pos = c.pos /\ c1.shift = c.shift /\ c1.seq = c.seq /\ c1.used = c.used
      /\ c1.has_shift = c.has_shift
      /\ \A s \in Seqs, p \in Pos :
            c1.seq_pos[s][p] = c.seq_pos[s][p] - Cardinality(Holding(c, A, s, p))
  BY <1>1, <1>7, RmFields
<1> HIDE DEF c1
<1>9. /\ c2 \in Raw /\ c2.pos = f /\ c2.shift = c.shift /\ c2.seq = e /\ c2.used = u
      /\ c2.has_shift = c.has_shift /\ c2.seq_pos = c1.seq_pos
  BY <1>4, <1>8 DEF Raw
<1> HIDE DEF c2
<1>10. /\ d \in Raw /\ d.pos = f /\ d.shift = c.shift /\ d.seq = e /\ d.used = u
       /\ d.has_shift = c.has_shift
       /\ \A s \in Seqs, p \in Pos :
             d.seq_pos[s][p] = c1.seq_pos[s][p] + Cardinality(Holding(c2, B, s, p))
  BY <1>7, <1>9, AddFields
<1> HIDE DEF d
<1>11. \A s \in Seqs, p \in Pos : d.seq_pos[s][p] =
          c.seq_pos[s][p] - Cardinality(Holding(c, H, s, p)) + Cardinality(Holding(d, H, s, p))
  <2>1. SUFFICES ASSUME NEW s \in Seqs, NEW p \in Pos
                 PROVE  d.seq_pos[s][p] = c.seq_pos[s][p] - Cardinality(Holding(c, H, s, p))
                                             + Cardinality(Holding(d, H, s, p))
    OBVIOUS
  <2>2. p # -1 BY <1>3
  <2>3. Holding(c, A, s, p) = Holding(c, H, s, p) BY <2>2 DEF Holding
  <2>4. Holding(c2, B, s, p) = Holding(d, H, s, p) BY <1>5, <1>9, <1>10, <2>2 DEF Holding
  <2>5. QED BY <1>8, <1>10, <2>3, <2>4
<1>12. \A i \in Idx \ H : d.pos[i] = c.pos[i] /\ d.seq[i] = c.seq[i] BY <1>5, <1>10
<1>13. Counts(d)
  <2>1. Counts(c) BY DEF Good
  <2>2. QED BY <1>11, <1>12, <2>1, CountsFrom
<1>14. Sound(d)
  <2>1. \A i \in Idx : d.pos[i] = -1 <=> d.seq[i] = {} BY <1>5, <1>10 DEF Good, Sound
  <2>2. \A i \in Idx : d.pos[i] = -1 => d.shift[i] = 0 BY <1>5, <1>10 DEF Good, Sound
  <2>3. QED BY <1>6, <1>10, <2>1, <2>2 DEF Good, Sound
<1>15. Good(d) BY <1>1, <1>2, <1>5, <1>10, <1>13, <1>14, GoodFrom
<1>16. QED BY <1>0, <1>5, <1>10, <1>15

\* Tokens are put into the free cells H, and are still to be counted.
Placed(c, H, d) ==
    /\ Good(c) /\ H \subseteq Idx /\ d \in Raw
    /\ \A i \in H : c.pos[i] = -1 /\ d.pos[i] \in Pos /\ d.seq[i] # {}
    /\ \A i \in Idx \ H : d.pos[i] = c.pos[i] /\ d.seq[i] = c.seq[i]
    /\ d.used = c.used \cup H /\ d.shift = c.shift /\ d.has_shift = c.has_shift

LEMMA PlacedGood ==
    ASSUME NEW c, NEW H, NEW d, Placed(c, H, d),
           \A s \in Seqs, p \in Pos :
              d.seq_pos[s][p] = c.seq_pos[s][p] + Cardinality(Holding(d, H, s, p))
    PROVE  Good(d)
<1>0. /\ Good(c) /\ H \subseteq Idx /\ d \in Raw
      /\ \A i \in H : c.pos[i] = -1 /\ d.pos[i] \in Pos /\ d.seq[i] # {}
      /\ \A i \in Idx \ H : d.pos[i] = c.pos[i] /\ d.seq[i] = c.seq[i]
      /\ d.used = c.used \cup H /\ d.shift = c.shift /\ d.has_shift = c.has_shift
  BY DEF Placed
<1> USE <1>0
<1>1. c \in Raw /\ \A i \in Idx : c.pos[i] \in Pos \cup {-1} BY CellsRaw DEF Good
<1>2. -1 \notin Pos BY BoundsAssumption DEF Pos
<1>3. Counts(d)
  <2>1. SUFFICES ASSUME NEW s \in Seqs, NEW p \in Pos
                 PROVE  d.seq_pos[s][p] = Cardinality(Holding(d, Idx, s, p))
    BY DEF Counts
  <2>2. Holding(c, H, s, p) = {} BY <1>2 DEF Holding
  <2>3. Cardinality(Holding(c, H, s, p)) = 0 BY <2>2, FS_EmptySet
  <2>4. /\ Cardinality(Holding(d, Idx, s, p)) =
              Cardinality(Holding(c, Idx, s, p)) - Cardinality(Holding(c, H, s, p))
                  + Cardinality(Holding(d, H, s, p))
        /\ Cardinality(Holding(c, Idx, s, p)) \in Nat /\ Cardinality(Holding(d, H, s, p)) \in Nat
    BY Recount
  <2>5. c.seq_pos[s][p] = Cardinality(Holding(c, Idx, s, p)) BY DEF Good, Counts
  <2>6. d.seq_pos[s][p] = c.seq_pos[s][p] + Cardinality(Holding(d, H, s, p)) OBVIOUS
  <2>7. QED BY <2>3, <2>4, <2>5, <2>6
<1>4. Sound(c) BY DEF Good
<1>5. \A i \in Idx : d.pos[i] = -1 <=> i \notin H /\ c.pos[i] = -1 BY <1>2
<1>6. Sound(d)
  <2>1. \A i \in Idx : d.pos[i] = -1 <=> d.seq[i] = {}
    <3>1. SUFFICES ASSUME NEW i \in Idx PROVE d.pos[i] = -1 <=> d.seq[i] = {} OBVIOUS
    <3>2. c.pos[i] = -1 <=> c.seq[i] = {} BY <1>4 DEF Sound
    <3>3. QED BY <1>5, <3>2
  <2>2. \A i \in Idx : d.pos[i] = -1 => d.shift[i] = 0 BY <1>4, <1>5 DEF Sound
  <2>3. d.used = {i \in Idx : d.pos[i] # -1}
    <3>1. c.used = {i \in Idx : c.pos[i] # -1} BY <1>4 DEF Sound
    <3>2. QED BY <1>5, <3>1
  <2>4. (\E i \in Idx : d.shift[i] # 0) => d.has_shift BY <1>4 DEF Sound
  <2>5. QED BY <2>1, <2>2, <2>3, <2>4 DEF Sound
<1>7. \A i \in Idx : d.pos[i] \in Pos \cup {-1} BY <1>1
<1>8. QED BY <1>3, <1>6, <1>7, GoodFrom

LEMMA PlaceGood ==
    ASSUME NEW c, NEW H, NEW c2, Placed(c, H, c2), c2.seq_pos = c.seq_pos
    PROVE  /\ Good(seq_pos_add(c2, H))
           /\ seq_pos_add(c2, H).pos = c2.pos /\ seq_pos_add(c2, H).seq = c2.seq
           /\ seq_pos_add(c2, H).shift = c.shift /\ seq_pos_add(c2, H).has_shift = c.has_shift
<1> DEFINE d == seq_pos_add(c2, H)
<1>1. /\ d \in Raw /\ d.pos = c2.pos /\ d.shift = c2.shift /\ d.seq = c2.seq /\ d.used = c2.used
      /\ d.has_shift = c2.has_shift
      /\ \A s \in Seqs, p \in Pos :
            d.seq_pos[s][p] = c2.seq_pos[s][p] + Cardinality(Holding(c2, H, s, p))
  BY AddFields DEF Placed
<1> HIDE DEF d
<1>2. \A s, p : Holding(c2, H, s, p) = Holding(d, H, s, p) BY <1>1 DEF Holding
<1>3. \A s \in Seqs, p \in Pos :
          d.seq_pos[s][p] = c.seq_pos[s][p] + Cardinality(Holding(d, H, s, p))
  BY <1>1, <1>2
<1>4. Placed(c, H, d) BY <1>1 DEF Placed
<1>5. Good(d) BY <1>3, <1>4, PlacedGood
<1>6. QED BY <1>1, <1>5 DEF d, Placed

\* The place of a cell in a slot.
PlaceIn(idxs, i) == CHOOSE j \in DOMAIN idxs : idxs[j] = i

\* apply_ubatch for one stream.  Without a sliding window only free cells are
\* taken, and the other cells stay as they are.
LEMMA AppliedGood ==
    ASSUME NEW c, Good(c), NEW n \in Nat, NEW idxs \in [1..n -> Idx], NEW toks \in [1..n -> Tokens]
    PROVE  /\ Good(Applied(c, idxs, toks)) /\ Applied(c, idxs, toks).has_shift = c.has_shift
           /\ (\A j \in 1..n : c.pos[idxs[j]] = -1) =>
                 /\ \A i \in Idx \ Elems(idxs) : /\ Applied(c, idxs, toks).pos[i] = c.pos[i]
                                                 /\ Applied(c, idxs, toks).seq[i] = c.seq[i]
                 /\ Applied(c, idxs, toks).shift = c.shift
           /\ \A i \in Idx : /\ Applied(c, idxs, toks).shift[i] \in {0, c.shift[i]}
                             /\ i \notin Elems(idxs) /\ Applied(c, idxs, toks).pos[i] # -1 =>
                                   /\ Applied(c, idxs, toks).pos[i] = c.pos[i]
                                   /\ Applied(c, idxs, toks).shift[i] = c.shift[i]
                             /\ i \in Elems(idxs) =>
                                   /\ Applied(c, idxs, toks).shift[i] = 0
                                   /\ Applied(c, idxs, toks).pos[i] \in
                                         {-1, toks[PlaceIn(idxs, i)].pos}
                                   /\ Applied(c, idxs, toks).seq[i] \subseteq
                                         toks[PlaceIn(idxs, i)].ids
<1> DEFINE H == Elems(idxs)
           tok(i) == toks[PlaceIn(idxs, i)]
           over == {i \in H : c.pos[i] # -1}
           purge == [s \in Seqs |-> {p \in Pos : \E i \in over : s \in c.seq[i] /\ p <= c.pos[i]}]
           c1 == cells_rm(c, over)
           f == [i \in Idx |-> IF i \in H THEN tok(i).pos ELSE c1.pos[i]]
           e == [i \in Idx |-> IF i \in H THEN tok(i).ids ELSE c1.seq[i]]
           c2 == [c1 EXCEPT !.pos = f, !.seq = e, !.used = c1.used \cup H]
           c3 == seq_pos_add(c2, H)
           d == cells_seq_rm(c3, purge)
<1>0. Applied(c, idxs, toks) = d BY DEF Applied, PlaceIn
<1>1. H = {idxs[j] : j \in 1..n} /\ H \subseteq Idx BY DEF Elems
<1>2. \A i \in H : tok(i) \in Tokens
  <2>1. SUFFICES ASSUME NEW i \in H PROVE tok(i) \in Tokens OBVIOUS
  <2>2. \E j \in DOMAIN idxs : idxs[j] = i BY <1>1
  <2>3. PlaceIn(idxs, i) \in DOMAIN idxs BY <2>2 DEF PlaceIn
  <2>4. QED BY <2>3
<1>3. over \subseteq Idx /\ \A i \in H : i \in over <=> c.pos[i] # -1 BY <1>1
<1>4. (\A j \in 1..n : c.pos[idxs[j]] = -1) => over = {} /\ purge = [s \in Seqs |-> {}]
  BY <1>1
<1>5. (\A j \in 1..n : c.pos[idxs[j]] = -1) => \A s \in Seqs : purge[s] = {}
  BY <1>4
<1> HIDE DEF H, purge
<1>6. /\ Good(c1) /\ c1.has_shift = c.has_shift
      /\ \A i \in Idx : /\ c1.pos[i] = IF i \in over THEN -1 ELSE c.pos[i]
                        /\ c1.seq[i] = IF i \in over THEN {} ELSE c.seq[i]
                        /\ c1.shift[i] = IF i \in over THEN 0 ELSE c.shift[i]
  BY <1>3, CellsRmGood
<1> HIDE DEF c1, over
<1>7. \A i \in H : c1.pos[i] = -1 /\ c1.shift[i] = 0
  <2>1. \A i \in H : c1.pos[i] = -1 BY <1>1, <1>3, <1>6
  <2>2. QED BY <1>1, <1>6, <2>1 DEF Good, Sound
<1>8. /\ f \in [Idx -> Pos \cup {-1}] /\ e \in [Idx -> SUBSET Seqs]
      /\ \A i \in H : f[i] \in Pos /\ e[i] # {} /\ f[i] = tok(i).pos
      /\ \A i \in Idx \ H : f[i] = c1.pos[i] /\ e[i] = c1.seq[i]
  <2>1. \A i \in H : tok(i).pos \in Pos /\ tok(i).ids \in SUBSET Seqs /\ tok(i).ids # {}
    BY <1>2 DEF Tokens
  <2>2. \A i \in Idx : c1.pos[i] \in Pos \cup {-1} /\ c1.seq[i] \in SUBSET Seqs
    BY <1>6 DEF Good, Cells
  <2> HIDE DEF tok
  <2>3. QED BY <1>1, <2>1, <2>2
<1> HIDE DEF tok, f, e
<1>a. /\ c2 \in Raw /\ c2.pos = f /\ c2.seq = e /\ c2.used = c1.used \cup H
      /\ c2.shift = c1.shift /\ c2.has_shift = c1.has_shift /\ c2.seq_pos = c1.seq_pos
  <2>1. c1 \in Raw BY <1>6, CellsRaw DEF Good
  <2>2. Pos \cup {-1} \subseteq Int BY BoundsAssumption DEF Pos
  <2>3. f \in [Idx -> Int] BY <1>8, <2>2
  <2>4. e \in [Idx -> SUBSET Seqs] /\ c1.used \cup H \subseteq Idx BY <1>1, <1>8, <2>1 DEF Raw
  <2>5. QED BY <2>1, <2>3, <2>4 DEF Raw
<1> HIDE DEF c2
<1>b. Placed(c1, H, c2) BY <1>1, <1>6, <1>7, <1>8, <1>a DEF Placed
<1>9. Good(c3) /\ c3.pos = f /\ c3.seq = e /\ c3.shift = c1.shift /\ c3.has_shift = c1.has_shift
  <2>1. Good(c3) /\ c3.pos = c2.pos /\ c3.seq = c2.seq /\ c3.shift = c1.shift
        /\ c3.has_shift = c1.has_shift
    BY <1>a, <1>b, PlaceGood
  <2>2. QED BY <1>a, <2>1
<1> HIDE DEF c3
<1>10. /\ Good(d) /\ d.has_shift = c3.has_shift
       /\ \A i \in Idx : LET left == {s \in c3.seq[i] : c3.pos[i] \notin purge[s]} IN
             /\ d.seq[i] = left
             /\ d.pos[i] = IF left = {} THEN -1 ELSE c3.pos[i]
             /\ d.shift[i] = IF left = {} THEN 0 ELSE c3.shift[i]
  BY <1>9, CellsSeqRmGood
<1> HIDE DEF d
<1>11. \A i \in Idx : /\ d.pos[i] \in {-1, c3.pos[i]} /\ d.shift[i] \in {0, c3.shift[i]}
                      /\ d.pos[i] # -1 => d.shift[i] = c3.shift[i]
  <2>1. SUFFICES ASSUME NEW i \in Idx
                 PROVE  /\ d.pos[i] \in {-1, c3.pos[i]} /\ d.shift[i] \in {0, c3.shift[i]}
                        /\ d.pos[i] # -1 => d.shift[i] = c3.shift[i]
    OBVIOUS
  <2> DEFINE left == {s \in c3.seq[i] : c3.pos[i] \notin purge[s]}
  <2>2. d.pos[i] = (IF left = {} THEN -1 ELSE c3.pos[i])
        /\ d.shift[i] = IF left = {} THEN 0 ELSE c3.shift[i]
    BY <1>10
  <2> HIDE DEF left
  <2>3. QED BY <2>2
<1>12. \A i \in Idx \ H : c3.pos[i] = c1.pos[i] /\ c3.seq[i] = c1.seq[i] BY <1>8, <1>9
<1>13. ASSUME \A j \in 1..n : c.pos[idxs[j]] = -1
       PROVE  (\A i \in Idx \ H : d.pos[i] = c.pos[i] /\ d.seq[i] = c.seq[i]) /\ d.shift = c.shift
  <2>1. over = {} /\ \A s \in Seqs : purge[s] = {} BY <1>4, <1>5, <1>13
  <2>2. \A i \in Idx : c1.pos[i] = c.pos[i] /\ c1.seq[i] = c.seq[i] /\ c1.shift[i] = c.shift[i]
    BY <1>6, <2>1
  <2>3. \A i \in Idx : d.seq[i] = c3.seq[i] /\ d.pos[i] = c3.pos[i] /\ d.shift[i] = c3.shift[i]
    <3>1. SUFFICES ASSUME NEW i \in Idx
                   PROVE d.seq[i] = c3.seq[i] /\ d.pos[i] = c3.pos[i] /\ d.shift[i] = c3.shift[i]
      OBVIOUS
    <3>2. c3.seq[i] \subseteq Seqs BY <1>9 DEF Good, Cells
    <3>3. {s \in c3.seq[i] : c3.pos[i] \notin purge[s]} = c3.seq[i] BY <2>1, <3>2
    <3>4. /\ d.seq[i] = c3.seq[i]
          /\ d.pos[i] = IF c3.seq[i] = {} THEN -1 ELSE c3.pos[i]
          /\ d.shift[i] = IF c3.seq[i] = {} THEN 0 ELSE c3.shift[i]
      BY <1>10, <3>3
    <3>5. c3.seq[i] = {} => c3.pos[i] = -1 /\ c3.shift[i] = 0 BY <1>9 DEF Good, Sound
    <3>6. QED BY <3>4, <3>5
  <2>4. \A i \in Idx : d.shift[i] = c.shift[i] BY <1>9, <2>2, <2>3
  <2>5. d.shift = c.shift BY <1>10, <2>4 DEF Good, Cells
  <2>6. QED BY <1>12, <2>2, <2>3, <2>5
<1>14. \A i \in Idx : d.shift[i] \in {0, c.shift[i]} BY <1>6, <1>9, <1>11
<1>15. \A i \in Idx : i \notin H /\ d.pos[i] # -1 => d.pos[i] = c.pos[i] /\ d.shift[i] = c.shift[i]
  BY <1>6, <1>9, <1>11, <1>12
<1>16. \A i \in Idx : i \in H =>
          d.shift[i] = 0 /\ d.pos[i] \in {-1, toks[PlaceIn(idxs, i)].pos}
  <2>1. \A i \in H : f[i] = toks[PlaceIn(idxs, i)].pos BY <1>8 DEF tok
  <2>2. QED BY <1>7, <1>9, <1>11, <2>1
<1>17. \A i \in Idx : i \in H =>
          d.seq[i] \subseteq toks[PlaceIn(idxs, i)].ids
  <2>1. \A i \in H : e[i] = toks[PlaceIn(idxs, i)].ids
    BY <1>1 DEF e, tok
  <2>2. \A i \in Idx : d.seq[i] \subseteq c3.seq[i]
    <3>1. SUFFICES ASSUME NEW i \in Idx PROVE d.seq[i] \subseteq c3.seq[i] OBVIOUS
    <3>2. d.seq[i] = {s \in c3.seq[i] : c3.pos[i] \notin purge[s]} BY <1>10
    <3>3. QED BY <3>2
  <2>3. QED BY <1>9, <2>1, <2>2
<1>18. QED BY <1>0, <1>6, <1>9, <1>10, <1>13, <1>14, <1>15, <1>16, <1>17 DEF H

----------------------------------------------------------------------------
(* The pending copies, as a function of the data r and the copies q. *)

Pairs == [src : Streams, dst : Streams]

OneCopy(r, e) == [r EXCEPT ![e.dst] = r[e.src]]

CopyAll(r, q) == LET f[n \in 0..Len(q)] ==
                         IF n = 0 THEN r
                         ELSE [f[n-1] EXCEPT ![q[n].dst] = f[n-1][q[n].src]]
                 IN f[Len(q)]

\* f[k] is the data once the first k copies are done.
CopyRun(f, r, q, n) ==
    f = [k \in 0..n |-> IF k = 0 THEN r ELSE OneCopy(f[k - 1], q[k])]

LEMMA CopyRunSteps ==
    ASSUME NEW f, NEW r, NEW q, NEW n \in Nat, CopyRun(f, r, q, n)
    PROVE  /\ f[0] = r
           /\ \A k \in 1..n : f[k] = OneCopy(f[k - 1], q[k])
<1> DEFINE g == [k \in 0..n |-> IF k = 0 THEN r ELSE OneCopy(f[k - 1], q[k])]
<1>1. f = g BY DEF CopyRun
<1>2. g[0] = r /\ \A k \in 1..n : g[k] = OneCopy(f[k - 1], q[k]) OBVIOUS
<1> HIDE DEF g
<1>3. QED BY <1>1, <1>2

LEMMA CopyRunFrom ==
    ASSUME NEW f, NEW r, NEW q, NEW n \in Nat, f = [k \in 0..n |-> f[k]], f[0] = r,
           \A k \in 1..n : f[k] = OneCopy(f[k - 1], q[k])
    PROVE  CopyRun(f, r, q, n)
<1> DEFINE g == [k \in 0..n |-> IF k = 0 THEN r ELSE OneCopy(f[k - 1], q[k])]
<1>1. \A k \in 0..n : f[k] = g[k] OBVIOUS
<1>2. g = [k \in 0..n |-> g[k]] OBVIOUS
<1> HIDE DEF g
<1>3. f = g BY <1>1, <1>2
<1>4. QED BY <1>3 DEF CopyRun, g

LEMMA CopyRunExists ==
    ASSUME NEW r, NEW q, NEW n \in Nat
    PROVE  \E f : CopyRun(f, r, q, n)
<1> DEFINE S == {m \in Nat : ~\E f : CopyRun(f, r, q, m)}
<1>1. SUFFICES ASSUME S # {} PROVE FALSE OBVIOUS
<1>2. PICK m \in S : \A y \in S : m <= y BY <1>1, LeastNat
<1>3. m \in Nat /\ ~\E f : CopyRun(f, r, q, m) OBVIOUS
<1>4. m - 1 \notin S BY <1>2, <1>3
<1>5. CASE m = 0
  <2> DEFINE f == [k \in 0..0 |-> r]
  <2>1. f = [k \in 0..0 |-> f[k]] /\ f[0] = r OBVIOUS
  <2> HIDE DEF f
  <2>2. \A k \in 1..0 : f[k] = OneCopy(f[k - 1], q[k]) OBVIOUS
  <2>3. CopyRun(f, r, q, 0)
    <3>1. 0 \in Nat OBVIOUS
    <3>2. QED BY <2>1, <2>2, <3>1, CopyRunFrom
  <2>4. QED BY <1>3, <1>5, <2>3
<1>6. CASE m # 0
  <2>1. m - 1 \in Nat BY <1>3, <1>6
  <2>2. PICK f : CopyRun(f, r, q, m - 1) BY <1>4, <2>1
  <2>3. /\ f[0] = r
        /\ \A k \in 1..(m - 1) : f[k] = OneCopy(f[k - 1], q[k])
    BY <2>1, <2>2, CopyRunSteps
  <2> DEFINE g == [k \in 0..m |-> IF k = m THEN OneCopy(f[m - 1], q[m]) ELSE f[k]]
  <2>4. g = [k \in 0..m |-> g[k]] OBVIOUS
  <2>5. (\A k \in 0..(m - 1) : g[k] = f[k]) /\ g[m] = OneCopy(f[m - 1], q[m]) BY <1>3
  <2> HIDE DEF g
  <2>6. g[0] = r BY <2>1, <2>3, <2>5
  <2>7. \A k \in 1..m : g[k] = OneCopy(g[k - 1], q[k])
    <3>1. SUFFICES ASSUME NEW k \in 1..m PROVE g[k] = OneCopy(g[k - 1], q[k]) OBVIOUS
    <3>2. k - 1 \in 0..(m - 1) BY <1>3
    <3>3. g[k - 1] = f[k - 1] BY <2>5, <3>2
    <3>4. CASE k = m BY <2>5, <3>3, <3>4
    <3>5. CASE k # m
      <4>1. k \in 1..(m - 1) /\ k \in 0..(m - 1) BY <1>3, <3>5
      <4>2. QED BY <2>3, <2>5, <3>3, <4>1
    <3>6. QED BY <3>4, <3>5
  <2>8. CopyRun(g, r, q, m) BY <1>3, <2>4, <2>6, <2>7, CopyRunFrom
  <2>9. QED BY <1>3, <2>8
<1>7. QED BY <1>5, <1>6

LEMMA CopyAllRun ==
    ASSUME NEW r, NEW q, Len(q) \in Nat
    PROVE  \E f : CopyRun(f, r, q, Len(q)) /\ CopyAll(r, q) = f[Len(q)]
<1> DEFINE P(f) == f = [n \in 0..Len(q) |-> IF n = 0 THEN r
                        ELSE [f[n-1] EXCEPT ![q[n].dst] = f[n-1][q[n].src]]]
           h == CHOOSE f : P(f)
<1>1. \E f : P(f)
  <2>1. PICK f : CopyRun(f, r, q, Len(q)) BY CopyRunExists
  <2>2. P(f) BY <2>1 DEF CopyRun, OneCopy
  <2>3. QED BY <2>2, Zenon
<1>2. P(h) BY <1>1
<1>3. CopyAll(r, q) = h[Len(q)] BY DEF CopyAll
<1> HIDE DEF h
<1>4. CopyRun(h, r, q, Len(q)) BY <1>2 DEF CopyRun, OneCopy
<1>5. QED BY <1>3, <1>4

LEMMA CopyAllEmpty ==
    ASSUME NEW r
    PROVE  CopyAll(r, <<>>) = r
<1> DEFINE q == <<>>
<1>1. Len(q) = 0 OBVIOUS
<1> HIDE DEF q
<1>2. PICK f : CopyRun(f, r, q, Len(q)) /\ CopyAll(r, q) = f[Len(q)] BY <1>1, CopyAllRun
<1>3. f[0] = r BY <1>1, <1>2, CopyRunSteps
<1>4. QED BY <1>1, <1>2, <1>3 DEF q

LEMMA CopyAllAppend ==
    ASSUME NEW r, NEW q \in Seq(Pairs), NEW e \in Pairs
    PROVE  CopyAll(r, Append(q, e)) = OneCopy(CopyAll(r, q), e)
<1> DEFINE m == Len(q)
           q2 == Append(q, e)
<1>1. /\ m \in Nat /\ Len(q2) = m + 1 /\ q2[m + 1] = e
      /\ \A k \in 1..m : q2[k] = q[k]
  OBVIOUS
<1>2. PICK f : CopyRun(f, r, q, m) /\ CopyAll(r, q) = f[m] BY <1>1, CopyAllRun
<1> HIDE DEF q2
<1>3. PICK g : CopyRun(g, r, q2, Len(q2)) /\ CopyAll(r, q2) = g[Len(q2)]
  BY <1>1, CopyAllRun
<1> HIDE DEF m
<1>4. f[0] = r /\ \A k \in 1..m : f[k] = OneCopy(f[k - 1], q[k]) BY <1>1, <1>2, CopyRunSteps
<1>5. g[0] = r /\ \A k \in 1..(m + 1) : g[k] = OneCopy(g[k - 1], q2[k])
  BY <1>1, <1>3, CopyRunSteps
<1> DEFINE S == {k \in 0..m : f[k] # g[k]}
<1>6. S = {}
  <2>1. SUFFICES ASSUME S # {} PROVE FALSE OBVIOUS
  <2>2. PICK k \in S : \A y \in S : k <= y
    <3>1. S \subseteq Nat BY <1>1
    <3>2. QED BY <2>1, <3>1, LeastNat
  <2>3. k \in 0..m /\ f[k] # g[k] BY <2>2
  <2>4. k # 0 BY <1>4, <1>5, <2>3
  <2>5. k \in 1..m /\ k \in 1..(m + 1) /\ k - 1 \in 0..m BY <1>1, <2>3, <2>4
  <2>6. k - 1 \notin S BY <2>2, <2>3
  <2>7. f[k - 1] = g[k - 1] BY <2>5, <2>6
  <2>8. QED BY <1>1, <1>4, <1>5, <2>3, <2>5, <2>7
<1>7. f[m] = g[m] BY <1>1, <1>6
<1>8. g[m + 1] = OneCopy(g[m], e)
  <2>1. m + 1 \in 1..(m + 1) /\ (m + 1) - 1 = m BY <1>1
  <2>2. QED BY <1>1, <1>5, <2>1
<1>9. QED BY <1>1, <1>2, <1>3, <1>7, <1>8 DEF q2

LEMMA CopyAllKeeps ==
    ASSUME NEW r \in [Streams -> [Idx -> Int]], NEW q \in Seq(Pairs)
    PROVE  /\ CopyAll(r, q) \in [Streams -> [Idx -> Int]]
           /\ \A x \in Streams : (\A j \in 1..Len(q) : q[j].dst # x) => CopyAll(r, q)[x] = r[x]
<1> DEFINE m == Len(q)
<1>1. m \in Nat OBVIOUS
<1>2. PICK f : CopyRun(f, r, q, m) /\ CopyAll(r, q) = f[m] BY <1>1, CopyAllRun
<1>3. \A k \in 1..m : q[k].src \in Streams /\ q[k].dst \in Streams
  <2>1. \A k \in 1..m : q[k] \in Pairs OBVIOUS
  <2>2. QED BY <2>1 DEF Pairs
<1> HIDE DEF m
<1>4. f[0] = r /\ \A k \in 1..m : f[k] = OneCopy(f[k - 1], q[k]) BY <1>1, <1>2, CopyRunSteps
<1> DEFINE OK(k) == /\ f[k] \in [Streams -> [Idx -> Int]]
                    /\ \A x \in Streams : (\A j \in 1..m : q[j].dst # x) => f[k][x] = r[x]
           S == {k \in 0..m : ~OK(k)}
<1>5. S = {}
  <2>1. SUFFICES ASSUME S # {} PROVE FALSE OBVIOUS
  <2>2. PICK k \in S : \A y \in S : k <= y
    <3>1. S \subseteq Nat BY <1>1
    <3> HIDE DEF S
    <3>2. QED BY <2>1, <3>1, LeastNat
  <2>3. k \in 0..m /\ ~OK(k) BY <2>2
  <2>4. OK(0) BY <1>4
  <2>5. k # 0 BY <2>3, <2>4
  <2>6. k \in 1..m /\ k - 1 \in 0..m BY <1>1, <2>3, <2>5
  <2>7. k - 1 \notin S BY <2>2, <2>3
  <2>8. OK(k - 1) BY <2>6, <2>7
  <2>9. f[k] = [f[k - 1] EXCEPT ![q[k].dst] = f[k - 1][q[k].src]] BY <1>4, <2>6 DEF OneCopy
  <2>10. f[k] \in [Streams -> [Idx -> Int]] BY <1>3, <2>6, <2>8, <2>9
  <2>11. ASSUME NEW x \in Streams, \A j \in 1..m : q[j].dst # x PROVE f[k][x] = r[x]
    <3>1. q[k].dst # x BY <2>6, <2>11
    <3>2. f[k][x] = f[k - 1][x] BY <2>8, <2>9, <3>1
    <3>3. QED BY <2>8, <2>11, <3>2
  <2>12. OK(k) BY <2>10, <2>11
  <2>13. QED BY <2>3, <2>12
<1>6. OK(m)
  <2>1. m \in 0..m BY <1>1
  <2> HIDE DEF OK
  <2>2. QED BY <1>5, <2>1
<1>7. QED BY <1>2, <1>6 DEF m, OK

LEMMA CopiedIs == Copied = CopyAll(rot, sc_info) /\ Copied' = CopyAll(rot', sc_info')
BY DEF Copied, CopyAll

----------------------------------------------------------------------------
(* The inductive invariant. *)

Ubatches == UNION {[S -> Seq(Tokens)] : S \in (SUBSET Streams) \ {{}}}
Infos == UNION {[S -> Seq(Idx)] : S \in (SUBSET Streams) \ {{}}}
States == [heads : [Streams -> 0..NCells], cells : [Streams -> SavedCells]]
Batches == [Streams -> Seq(Tokens)]

DecType ==
    dec \in [pc : {"idle", "prepare", "restore", "process"}, todo : Batches \cup {<<>>},
             ubs : Seq(Ubatches), sinfos : Seq(Infos), states : Seq(States), k : Nat,
             before : [Streams -> Cells] \cup {<<>>}]

\* The slots of an ubatch have a cell for each of its tokens.
Matches(ub, sinfo) ==
    /\ DOMAIN sinfo = DOMAIN ub
    /\ \A st \in DOMAIN ub : Len(sinfo[st]) = Len(ub[st]) /\ Len(ub[st]) > 0

\* Cells without a shift to be applied.
Still(c) == Good(c) /\ ~c.has_shift

\* In a decode: nothing is pending, and every ubatch has its slots.
Decoding ==
    /\ sc_info = <<>>
    /\ dec.todo \in Batches /\ dec.before \in [Streams -> Cells]
    /\ \A st \in Streams : Still(v_cells[st]) /\ Still(dec.before[st])
    /\ Len(dec.ubs) = Len(dec.sinfos)
    /\ \A j \in 1..Len(dec.ubs) : Matches(dec.ubs[j], dec.sinfos[j])
    /\ \A j \in 1..Len(dec.states) : \A st \in Streams, i \in Idx :
          dec.states[j].cells[st].pos[i] = -1 <=> dec.states[j].cells[st].seq[i] = {}

Progress ==
    /\ dec.pc = "idle" => dec = Idle
    /\ dec.pc = "prepare" => ~Done(dec.todo) /\ Len(dec.states) = Len(dec.sinfos)
    /\ dec.pc = "restore" => Len(dec.states) \in 1..Len(dec.sinfos)
    /\ dec.pc = "process" => dec.k \in 1..Len(dec.ubs)

\* What a prepare leaves alone of a cell: without a window everything.
Stays(c, b, i) ==
    /\ c.pos[i] \in {-1, b.pos[i]}
    /\ conf.n_swa = 0 => c.pos[i] = b.pos[i] /\ c.seq[i] = b.seq[i]

\* The cells out of the first n slots are the cells from before the decode.
Intact(c, st, n) ==
    \A i \in Idx : (\A m \in 1..n : i \notin Touched(dec.sinfos[m], st))
                       => Stays(c, dec.before[st], i)

Undoable ==
    \A st \in Streams :
        /\ Intact(v_cells[st], st, Len(dec.states))
        /\ \A j \in 1..Len(dec.states) : Intact(dec.states[j].cells[st], st, j - 1)

\* In a decode the K of the cells c of stream st is rotated to their positions.
DataAt(c, st) == \A i \in Idx : i \notin stale[st] /\ c.pos[i] # -1 => rot[st][i] = c.pos[i]

DataInv ==
    /\ KInPlace
    /\ dec.pc \in {"prepare", "restore"} => \A st \in Streams : DataAt(dec.before[st], st)
    /\ dec.pc = "process" => \A st \in Streams : DataAt(v_cells[st], st)

TypeInv ==
    /\ conf \in Configs
    /\ v_cells \in [Streams -> Cells]
    /\ v_heads \in [Streams -> 0..NCells]
    /\ sc_info \in Seq(Pairs)
    /\ rot \in [Streams -> [Idx -> Int]]
    /\ DecType
    /\ stale \in [Streams -> SUBSET Idx]
    /\ calls \in 0..MaxCalls

CellsInv == \A st \in Streams : Good(v_cells[st])

DecodeInv ==
    /\ Progress
    /\ dec.pc # "idle" => Decoding
    /\ dec.pc \in {"prepare", "restore"} => Undoable

IInv == TypeInv /\ CellsInv /\ DecodeInv /\ DataInv

----------------------------------------------------------------------------
(* Steps between two decodes. *)

LEMMA StreamOf ==
    ASSUME NEW s \in Seqs
    PROVE  seq_to_stream(s) \in Streams
BY SizesAssumption DEF seq_to_stream, Streams, Seqs

LEMMA HeadBackType ==
    ASSUME NEW c, NEW d, NEW h \in 0..NCells
    PROVE  HeadBack(c, d, h) \in 0..NCells
<1> DEFINE S == Freed(c, d)
<1>1. S \subseteq Idx BY DEF Freed
<1>2. Idx \subseteq Nat /\ Idx \subseteq 0..NCells BY SizesAssumption DEF Idx
<1>3. S # {} => Least(S) \in 0..NCells BY <1>1, <1>2, LeastIn
<1>4. QED BY <1>3 DEF HeadBack

\* The data of a cell needs no change: the position moves with the shift.
Follows(c, d, i) ==
    d.pos[i] # -1 => c.pos[i] # -1 /\ d.pos[i] - d.shift[i] = c.pos[i] - c.shift[i]

\* A call that leaves the decode alone.
LEMMA CallStep ==
    ASSUME IInv, Call, conf' = conf, dec' = dec,
           v_cells' \in [Streams -> Cells], \A st \in Streams : Good(v_cells'[st]),
           v_heads' \in [Streams -> 0..NCells], sc_info' \in Seq(Pairs),
           rot' \in [Streams -> [Idx -> Int]], stale' \in [Streams -> SUBSET Idx], KInPlace'
    PROVE  IInv'
<1>1. dec.pc = "idle" /\ calls < MaxCalls /\ calls' = calls + 1 BY DEF Call
<1>2. dec.pc = "idle" /\ dec'.pc = "idle" BY <1>1
<1>3. TypeInv'
  <2>1. calls' \in 0..MaxCalls BY <1>1, BoundsAssumption DEF IInv, TypeInv
  <2>2. DecType' BY DEF IInv, TypeInv, DecType
  <2>3. QED BY <2>1, <2>2 DEF IInv, TypeInv
<1>4. CellsInv' BY DEF CellsInv
<1>5. DecodeInv'
  <2>1. dec' = Idle BY <1>1 DEF IInv, DecodeInv, Progress
  <2>2. QED BY <1>2, <2>1 DEF DecodeInv, Progress
<1>6. DataInv' BY <1>2 DEF DataInv
<1>7. QED BY <1>3, <1>4, <1>5, <1>6 DEF IInv

\* A call that leaves the data and the pending copies alone.
LEMMA CellsStep ==
    ASSUME IInv, Call, conf' = conf, dec' = dec, sc_info' = sc_info, rot' = rot,
           v_cells' \in [Streams -> Cells], \A st \in Streams : Good(v_cells'[st]),
           v_heads' \in [Streams -> 0..NCells], stale' \in [Streams -> SUBSET Idx],
           \A st \in Streams, i \in Idx :
              i \notin stale'[st] => i \notin stale[st] /\ Follows(v_cells[st], v_cells'[st], i)
    PROVE  IInv'
<1>1. dec.pc = "idle" BY DEF Call
<1>2. Copied' = Copied BY CopiedIs
<1>3. \A st \in Streams, i \in Idx : i \notin stale[st] => InPlace(st, i)
  BY <1>1 DEF IInv, DataInv, KInPlace
<1>4. ASSUME NEW st \in Streams, NEW i \in Idx, i \notin stale'[st],
             i \in v_cells'[st].used
      PROVE  Copied'[st][i] = v_cells'[st].pos[i] - v_cells'[st].shift[i]
  <2>1. i \notin stale[st] /\ Follows(v_cells[st], v_cells'[st], i) BY <1>4
  <2>2. v_cells'[st].pos[i] # -1 BY <1>4 DEF Good, Sound
  <2>3. /\ v_cells[st].pos[i] # -1
        /\ v_cells'[st].pos[i] - v_cells'[st].shift[i] = v_cells[st].pos[i] - v_cells[st].shift[i]
    BY <2>1, <2>2 DEF Follows
  <2>4. i \in v_cells[st].used BY <2>3 DEF IInv, CellsInv, Good, Sound
  <2>5. QED BY <1>2, <1>3, <2>1, <2>3, <2>4 DEF InPlace
<1>5. KInPlace' BY <1>4 DEF KInPlace, InPlace
<1>6. sc_info' \in Seq(Pairs) /\ rot' \in [Streams -> [Idx -> Int]] BY DEF IInv, TypeInv
<1>7. QED BY <1>5, <1>6, CallStep

LEMMA OneStream ==
    ASSUME IInv, NEW st \in Streams, NEW d, Good(d), v_cells' = [v_cells EXCEPT ![st] = d]
    PROVE  /\ v_cells' \in [Streams -> Cells] /\ \A x \in Streams : Good(v_cells'[x])
           /\ v_cells'[st] = d /\ \A x \in Streams : x # st => v_cells'[x] = v_cells[x]
<1>1. v_cells \in [Streams -> Cells] /\ \A x \in Streams : Good(v_cells[x])
  BY DEF IInv, TypeInv, CellsInv
<1>2. d \in Cells BY DEF Good
<1>3. QED BY <1>1, <1>2

LEMMA ClearStep == ASSUME IInv, Clear PROVE IInv'
<1>1. /\ Call /\ v_cells' = [st \in Streams |-> NoCells] /\ v_heads' = [st \in Streams |-> 0]
      /\ conf' = conf /\ sc_info' = sc_info /\ rot' = rot /\ dec' = dec /\ stale' = stale
  BY DEF Clear
<1>2. v_cells' \in [Streams -> Cells] /\ \A st \in Streams : v_cells'[st] = NoCells
  BY <1>1, NoCellsGood DEF Good
<1>3. \A st \in Streams : Good(v_cells'[st]) BY <1>2, NoCellsGood
<1>4. v_heads' \in [Streams -> 0..NCells] BY <1>1, SizesAssumption
<1>5. stale' \in [Streams -> SUBSET Idx] BY <1>1 DEF IInv, TypeInv
<1>6. \A st \in Streams, i \in Idx :
          i \notin stale'[st] => i \notin stale[st] /\ Follows(v_cells[st], v_cells'[st], i)
  BY <1>1, <1>2 DEF Follows, NoCells
<1>7. QED BY <1>1, <1>2, <1>3, <1>4, <1>5, <1>6, CellsStep

\* A call that changes the cells of one stream only.
LEMMA PlainStep ==
    ASSUME IInv, Call, conf' = conf, dec' = dec, sc_info' = sc_info, rot' = rot, stale' = stale,
           NEW st \in Streams, NEW d, Good(d), v_cells' = [v_cells EXCEPT ![st] = d],
           NEW h \in 0..NCells, v_heads' = [v_heads EXCEPT ![st] = h],
           \A i \in Idx : Follows(v_cells[st], d, i)
    PROVE  IInv'
<1>1. /\ v_cells' \in [Streams -> Cells] /\ \A x \in Streams : Good(v_cells'[x])
      /\ v_cells'[st] = d /\ \A x \in Streams : x # st => v_cells'[x] = v_cells[x]
  BY OneStream
<1>2. v_heads' \in [Streams -> 0..NCells] /\ stale' \in [Streams -> SUBSET Idx]
  BY DEF IInv, TypeInv
<1>3. \A x \in Streams, i \in Idx : Follows(v_cells[x], v_cells'[x], i) BY <1>1 DEF Follows
<1>4. QED BY <1>1, <1>2, <1>3, CellsStep

LEMMA WithoutGood ==
    ASSUME NEW c, Good(c), NEW s, NEW p0, NEW p1
    PROVE  /\ Good(Without(c, s, p0, p1)) /\ Without(c, s, p0, p1).has_shift = c.has_shift
           /\ \A i \in Idx : /\ Follows(c, Without(c, s, p0, p1), i)
                             /\ Without(c, s, p0, p1).pos[i] # -1 =>
                                   /\ Without(c, s, p0, p1).pos[i] = c.pos[i]
                                   /\ Without(c, s, p0, p1).shift[i] = c.shift[i]
<1> DEFINE G == [t \in Seqs |-> IF t = s THEN From(p0)..(To(p1) - 1) ELSE {}]
           d == cells_seq_rm(c, G)
<1>1. Without(c, s, p0, p1) = d BY DEF Without
<1> HIDE DEF G
<1>2. /\ Good(d) /\ d.has_shift = c.has_shift
      /\ \A i \in Idx : LET left == {t \in c.seq[i] : c.pos[i] \notin G[t]} IN
            /\ d.seq[i] = left
            /\ d.pos[i] = IF left = {} THEN -1 ELSE c.pos[i]
            /\ d.shift[i] = IF left = {} THEN 0 ELSE c.shift[i]
  BY CellsSeqRmGood
<1> HIDE DEF d
<1>3. \A i \in Idx : d.pos[i] # -1 => d.pos[i] = c.pos[i] /\ d.shift[i] = c.shift[i]
  <2>1. SUFFICES ASSUME NEW i \in Idx, d.pos[i] # -1
                 PROVE  d.pos[i] = c.pos[i] /\ d.shift[i] = c.shift[i]
    OBVIOUS
  <2> DEFINE left == {t \in c.seq[i] : c.pos[i] \notin G[t]}
  <2>2. d.pos[i] = (IF left = {} THEN -1 ELSE c.pos[i])
        /\ d.shift[i] = IF left = {} THEN 0 ELSE c.shift[i]
    BY <1>2
  <2> HIDE DEF left
  <2>3. QED BY <2>1, <2>2
<1>4. \A i \in Idx : Follows(c, d, i) BY <1>3 DEF Follows
<1>5. QED BY <1>1, <1>2, <1>3, <1>4

LEMMA SeqRmStep ==
    ASSUME IInv, NEW s \in Seqs, NEW p0, NEW p1, SeqRm(s, p0, p1) PROVE IInv'
<1> DEFINE st == seq_to_stream(s)
           d == Without(v_cells[st], s, p0, p1)
           h == HeadBack(v_cells[st], d, v_heads[st])
<1>1. /\ Call /\ v_cells' = [v_cells EXCEPT ![st] = d] /\ v_heads' = [v_heads EXCEPT ![st] = h]
      /\ conf' = conf /\ sc_info' = sc_info /\ rot' = rot /\ dec' = dec /\ stale' = stale
  BY DEF SeqRm
<1>2. st \in Streams BY StreamOf
<1> HIDE DEF st
<1>3. Good(v_cells[st]) BY <1>2 DEF IInv, CellsInv
<1>4. Good(d) /\ \A i \in Idx : Follows(v_cells[st], d, i) BY <1>3, WithoutGood
<1>5. h \in 0..NCells BY <1>2, HeadBackType DEF IInv, TypeInv
<1> HIDE DEF d, h
<1>6. QED BY <1>1, <1>2, <1>4, <1>5, PlainStep

LEMMA RangeRmStep ==
    ASSUME IInv, NEW p0, NEW p1, RangeRm(p0, p1) PROVE IInv'
<1> DEFINE hit(c) == {i \in Idx : pos_in(c, i, From(p0), To(p1))}
           d(st) == cells_rm(v_cells[st], hit(v_cells[st]))
           c2 == [st \in Streams |-> d(st)]
<1>1. /\ Call /\ v_cells' = c2
      /\ v_heads' = [st \in Streams |-> HeadBack(v_cells[st], c2[st], v_heads[st])]
      /\ conf' = conf /\ sc_info' = sc_info /\ rot' = rot /\ dec' = dec /\ stale' = stale
  BY DEF RangeRm
<1>2. \A st \in Streams : Good(d(st)) /\ \A i \in Idx : Follows(v_cells[st], d(st), i)
  <2>1. SUFFICES ASSUME NEW st \in Streams
                 PROVE  Good(d(st)) /\ \A i \in Idx : Follows(v_cells[st], d(st), i)
    OBVIOUS
  <2> DEFINE H == hit(v_cells[st])
             e == cells_rm(v_cells[st], H)
  <2>2. H \subseteq Idx OBVIOUS
  <2>3. Good(v_cells[st]) BY DEF IInv, CellsInv
  <2> HIDE DEF H
  <2>4. /\ Good(e)
        /\ \A i \in Idx : /\ e.pos[i] = IF i \in H THEN -1 ELSE v_cells[st].pos[i]
                          /\ e.shift[i] = IF i \in H THEN 0 ELSE v_cells[st].shift[i]
    BY <2>2, <2>3, CellsRmGood
  <2> HIDE DEF e
  <2>5. \A i \in Idx : Follows(v_cells[st], e, i) BY <2>4 DEF Follows
  <2>6. QED BY <2>4, <2>5 DEF e, H
<1> HIDE DEF d
<1>3. \A st \in Streams : v_cells'[st] = d(st) BY <1>1
<1>4. v_cells' \in [Streams -> Cells] BY <1>1, <1>2 DEF Good
<1>5. \A st \in Streams : HeadBack(v_cells[st], c2[st], v_heads[st]) \in 0..NCells
  <2>1. \A st \in Streams : v_heads[st] \in 0..NCells BY DEF IInv, TypeInv
  <2>2. QED BY <2>1, HeadBackType
<1>6. v_heads' \in [Streams -> 0..NCells] /\ stale' \in [Streams -> SUBSET Idx]
  <2>1. stale' \in [Streams -> SUBSET Idx] BY <1>1 DEF IInv, TypeInv
  <2> HIDE DEF c2
  <2>2. QED BY <1>1, <1>5, <2>1
<1>7. \A st \in Streams : Good(v_cells'[st]) BY <1>2, <1>3
<1>8. \A st \in Streams, i \in Idx : Follows(v_cells[st], v_cells'[st], i) BY <1>2, <1>3
<1>9. QED BY <1>1, <1>4, <1>6, <1>7, <1>8, CellsStep

LEMMA SeqCpStep ==
    ASSUME IInv, NEW src \in Seqs, NEW dst \in Seqs, NEW p0, NEW p1, SeqCp(src, dst, p0, p1)
    PROVE  IInv'
<1> DEFINE st == seq_to_stream(src)
           c == v_cells[st]
           H == {i \in Idx : pos_in(c, i, From(p0), To(p1)) /\ src \in c.seq[i]}
           d == cells_seq_add(c, H, dst)
<1>1. /\ Call /\ \A i \in H : dst \notin c.seq[i]
      /\ v_cells' = [v_cells EXCEPT ![st] = d] /\ v_heads' = v_heads
      /\ conf' = conf /\ sc_info' = sc_info /\ rot' = rot /\ dec' = dec /\ stale' = stale
  BY DEF SeqCp
<1>2. st \in Streams BY StreamOf
<1> HIDE DEF st
<1>3. Good(c) BY <1>2 DEF IInv, CellsInv
<1>4. H \subseteq Idx /\ \A i \in H : dst \notin c.seq[i] /\ c.pos[i] # -1
  BY <1>1, <1>3 DEF Good, Sound
<1> HIDE DEF H
<1>5. d = cells_seq_add(c, H, dst) OBVIOUS
<1> HIDE DEF d
<1>6. Good(d) /\ d.pos = c.pos /\ d.shift = c.shift
  <2> HIDE DEF c
  <2>1. QED BY <1>3, <1>4, <1>5, SeqAddGood
<1>7. \A i \in Idx : Follows(c, d, i) BY <1>6 DEF Follows
<1>8. v_heads[st] \in 0..NCells /\ v_heads' = [v_heads EXCEPT ![st] = v_heads[st]]
  BY <1>1, <1>2 DEF IInv, TypeInv
<1>9. QED BY <1>1, <1>2, <1>6, <1>7, <1>8, PlainStep

LEMMA SeqKeepStep ==
    ASSUME IInv, NEW s \in Seqs, SeqKeep(s) PROVE IInv'
<1> DEFINE st == seq_to_stream(s)
           d == cells_seq_keep(v_cells[st], s)
           h == HeadBack(v_cells[st], d, v_heads[st])
<1>1. /\ Call /\ v_cells' = [v_cells EXCEPT ![st] = d] /\ v_heads' = [v_heads EXCEPT ![st] = h]
      /\ conf' = conf /\ sc_info' = sc_info /\ rot' = rot /\ dec' = dec /\ stale' = stale
  BY DEF SeqKeep
<1>2. st \in Streams BY StreamOf
<1> HIDE DEF st
<1>3. Good(v_cells[st]) BY <1>2 DEF IInv, CellsInv
<1>4. /\ Good(d)
      /\ \A i \in Idx :
            /\ d.pos[i] = IF s \in v_cells[st].seq[i] THEN v_cells[st].pos[i] ELSE -1
            /\ d.shift[i] = IF s \in v_cells[st].seq[i] THEN v_cells[st].shift[i] ELSE 0
  BY <1>3, CellsSeqKeepGood
<1>5. h \in 0..NCells BY <1>2, HeadBackType DEF IInv, TypeInv
<1> HIDE DEF d, h
<1>6. \A i \in Idx : Follows(v_cells[st], d, i) BY <1>4 DEF Follows
<1>7. QED BY <1>1, <1>2, <1>4, <1>5, <1>6, PlainStep

LEMMA SeqAddStep ==
    ASSUME IInv, NEW s \in Seqs, NEW p0, NEW p1, NEW m \in Int, SeqAdd(s, p0, p1, m)
    PROVE  IInv'
<1> DEFINE st == seq_to_stream(s)
           c == v_cells[st]
           H == InRange(st, s, p0, p1)
           d == pos_add(c, H, m)
           F == Freed(c, d)
           h == IF F # {} THEN Least(F) ELSE 0
<1>1. /\ Call /\ \A i \in H : c.pos[i] + m <= MaxPos
      /\ v_cells' = [v_cells EXCEPT ![st] = d] /\ v_heads' = [v_heads EXCEPT ![st] = h]
      /\ conf' = conf /\ sc_info' = sc_info /\ rot' = rot /\ dec' = dec /\ stale' = stale
  BY DEF SeqAdd
<1>2. st \in Streams BY StreamOf
<1> HIDE DEF st
<1>3. Good(c) BY <1>2 DEF IInv, CellsInv
<1>4. H \subseteq Idx /\ \A i \in H : c.pos[i] # -1 /\ c.pos[i] + m <= MaxPos
  BY <1>1, <1>3 DEF InRange, Good, Sound
<1>5. h \in 0..NCells
  <2>1. F \subseteq Idx BY DEF Freed
  <2>2. Idx \subseteq Nat /\ Idx \subseteq 0..NCells BY SizesAssumption DEF Idx
  <2> HIDE DEF F
  <2>3. F # {} => Least(F) \in 0..NCells BY <2>1, <2>2, LeastIn
  <2>4. QED BY <2>3, SizesAssumption
<1> HIDE DEF h, F, H
<1>6. /\ Good(d)
      /\ \A i \in Idx : LET gone == i \in H /\ c.pos[i] + m < 0 IN
            /\ d.pos[i] = IF gone THEN -1 ELSE IF i \in H THEN c.pos[i] + m ELSE c.pos[i]
            /\ d.shift[i] = IF gone THEN 0 ELSE IF i \in H THEN c.shift[i] + m ELSE c.shift[i]
  <2> HIDE DEF c
  <2>1. QED BY <1>3, <1>4, PosAddGood
<1> HIDE DEF d
<1>7. \A i \in Idx : Follows(c, d, i)
  <2>1. SUFFICES ASSUME NEW i \in Idx, d.pos[i] # -1
                 PROVE  c.pos[i] # -1 /\ d.pos[i] - d.shift[i] = c.pos[i] - c.shift[i]
    BY DEF Follows
  <2>2. c.pos[i] \in Int /\ c.shift[i] \in Int BY <1>3, CellsRaw DEF Good, Raw
  <2>3. \/ /\ i \in H /\ d.pos[i] = c.pos[i] + m /\ d.shift[i] = c.shift[i] + m
        \/ d.pos[i] = c.pos[i] /\ d.shift[i] = c.shift[i]
    BY <1>6, <2>1
  <2>4. QED BY <1>4, <2>1, <2>2, <2>3
<1>8. QED BY <1>1, <1>2, <1>5, <1>6, <1>7, PlainStep

LEMMA SeqDivStep ==
    ASSUME IInv, NEW s \in Seqs, NEW p0, NEW p1, NEW m \in Nat \ {0, 1}, SeqDiv(s, p0, p1, m)
    PROVE  IInv'
<1> DEFINE st == seq_to_stream(s)
           c == v_cells[st]
           H == InRange(st, s, p0, p1)
           d == pos_div(c, H, m)
<1>1. /\ Call /\ v_cells' = [v_cells EXCEPT ![st] = d] /\ v_heads' = v_heads
      /\ stale' = [stale EXCEPT ![st] = stale[st] \cup H]
      /\ conf' = conf /\ sc_info' = sc_info /\ rot' = rot /\ dec' = dec
  BY DEF SeqDiv
<1>2. st \in Streams BY StreamOf
<1> HIDE DEF st
<1>3. Good(c) BY <1>2 DEF IInv, CellsInv
<1>4. H \subseteq Idx /\ \A i \in H : c.pos[i] # -1 BY <1>3 DEF InRange, Good, Sound
<1>5. /\ Good(d)
      /\ \A i \in Idx \ H : d.pos[i] = c.pos[i] /\ d.shift[i] = c.shift[i]
  <2> HIDE DEF c, H
  <2>1. m \in Nat \ {0} OBVIOUS
  <2>2. QED BY <1>3, <1>4, <2>1, PosDivGood
<1> HIDE DEF d, H
<1>6. /\ v_cells' \in [Streams -> Cells] /\ \A x \in Streams : Good(v_cells'[x])
      /\ v_cells'[st] = d /\ \A x \in Streams : x # st => v_cells'[x] = v_cells[x]
  BY <1>1, <1>2, <1>5, OneStream
<1>7. v_heads' \in [Streams -> 0..NCells] BY <1>1 DEF IInv, TypeInv
<1>8. /\ stale' \in [Streams -> SUBSET Idx] /\ stale'[st] = stale[st] \cup H
      /\ \A x \in Streams : x # st => stale'[x] = stale[x]
  BY <1>1, <1>2, <1>4 DEF IInv, TypeInv
<1>9. ASSUME NEW x \in Streams, NEW i \in Idx, i \notin stale'[x]
      PROVE  i \notin stale[x] /\ Follows(v_cells[x], v_cells'[x], i)
  <2>1. CASE x = st
    <3>1. i \notin stale[st] /\ i \notin H BY <1>8, <1>9, <2>1
    <3>2. Follows(c, d, i) BY <1>5, <3>1 DEF Follows
    <3>3. QED BY <1>6, <2>1, <3>1, <3>2
  <2>2. CASE x # st BY <1>6, <1>8, <1>9, <2>2 DEF Follows
  <2>3. QED BY <2>1, <2>2
<1>10. QED BY <1>1, <1>6, <1>7, <1>8, <1>9, CellsStep

\* The cells H, copied to another stream, before they get their sequence.
CopyOf(c, H, c1) ==
    /\ H \subseteq Idx /\ c1 \in Raw /\ c1.used = H
    /\ \A i \in Idx : /\ c1.pos[i] = IF i \in H THEN c.pos[i] ELSE -1
                      /\ c1.shift[i] = IF i \in H THEN c.shift[i] ELSE 0
                      /\ c1.seq[i] = {}
    /\ (\E i \in H : c.shift[i] # 0) => c1.has_shift
    /\ \A s \in Seqs, p \in Pos : c1.seq_pos[s][p] = 0

LEMMA CopyOfFields ==
    ASSUME NEW c, Good(c), NEW H, H \subseteq Idx
    PROVE  CopyOf(c, H, [NoCells EXCEPT
                              !.pos = [i \in Idx |-> IF i \in H THEN c.pos[i] ELSE -1],
                              !.shift = [i \in Idx |-> IF i \in H THEN c.shift[i] ELSE 0],
                              !.used = H,
                              !.has_shift = \E i \in H : c.shift[i] # 0])
<1> DEFINE f == [i \in Idx |-> IF i \in H THEN c.pos[i] ELSE -1]
           g == [i \in Idx |-> IF i \in H THEN c.shift[i] ELSE 0]
           b == \E i \in H : c.shift[i] # 0
           e == [i \in Idx |-> {}]
           z == [s \in Seqs |-> [p \in Pos |-> 0]]
           c1 == [NoCells EXCEPT !.pos = f, !.shift = g, !.used = H, !.has_shift = b]
<1>1. c \in Raw BY CellsRaw DEF Good
<1>2. f \in [Idx -> Int] /\ g \in [Idx -> Int] BY <1>1 DEF Raw
<1>3. e \in [Idx -> SUBSET Seqs] /\ z \in [Seqs -> [Pos -> Int]] OBVIOUS
<1>4. /\ \A i \in Idx : f[i] = (IF i \in H THEN c.pos[i] ELSE -1)
                        /\ g[i] = (IF i \in H THEN c.shift[i] ELSE 0) /\ e[i] = {}
      /\ \A s \in Seqs, p \in Pos : z[s][p] = 0
  OBVIOUS
<1>5. b \in BOOLEAN /\ ((\E i \in H : c.shift[i] # 0) => b) OBVIOUS
<1>6. NoCells \in Raw BY NoCellsGood, CellsRaw DEF Good
<1>7. NoCells.seq = e /\ NoCells.seq_pos = z BY DEF NoCells
<1> HIDE DEF f, g, b, e, z
<1>8. c1 \in Raw BY <1>2, <1>5, <1>6 DEF Raw
<1>9. /\ c1.pos = f /\ c1.shift = g /\ c1.seq = e /\ c1.used = H
      /\ c1.has_shift = b /\ c1.seq_pos = z
  BY <1>6, <1>7 DEF Raw
<1> HIDE DEF c1
<1>10. CopyOf(c, H, c1) BY <1>4, <1>5, <1>8, <1>9 DEF CopyOf
<1>11. QED BY <1>10 DEF c1, f, g, b

LEMMA CopyOfGood ==
    ASSUME NEW c, Good(c), NEW H, NEW c1, CopyOf(c, H, c1), \A i \in H : c.pos[i] # -1,
           NEW dst \in Seqs
    PROVE  /\ Good(cells_seq_add(c1, H, dst))
           /\ \A i \in Idx : cells_seq_add(c1, H, dst).pos[i] # -1 =>
                 /\ i \in H
                 /\ cells_seq_add(c1, H, dst).pos[i] = c.pos[i]
                 /\ cells_seq_add(c1, H, dst).shift[i] = c.shift[i]
<1> DEFINE d == cells_seq_add(c1, H, dst)
<1>1. c \in Raw /\ \A i \in Idx : c.pos[i] \in Pos \cup {-1} BY CellsRaw DEF Good
<1>2. H \subseteq Idx /\ c1 \in Raw /\ \A i \in Idx : c1.seq[i] = {} BY DEF CopyOf
<1>3. \A s, p : Holding(c1, Idx, s, p) = {} BY <1>2 DEF Holding
<1>4. Counts(c1)
  <2>1. \A s \in Seqs, p \in Pos : c1.seq_pos[s][p] = 0 BY DEF CopyOf
  <2>2. QED BY <1>3, <2>1, FS_EmptySet DEF Counts
<1>5. \A i \in H : dst \notin c1.seq[i] BY <1>2
<1>6. d = cells_seq_add(c1, H, dst) OBVIOUS
<1> HIDE DEF d
<1>7. /\ d \in Raw /\ d.pos = c1.pos /\ d.shift = c1.shift /\ d.used = c1.used
      /\ d.has_shift = c1.has_shift
      /\ \A i \in Idx : d.seq[i] = IF i \in H THEN c1.seq[i] \cup {dst} ELSE c1.seq[i]
      /\ Counts(d)
  BY <1>2, <1>4, <1>5, <1>6, SeqAddFields
<1>8. \A i \in Idx : /\ d.pos[i] = IF i \in H THEN c.pos[i] ELSE -1
                     /\ d.shift[i] = IF i \in H THEN c.shift[i] ELSE 0
                     /\ d.seq[i] = IF i \in H THEN {dst} ELSE {}
  BY <1>2, <1>7 DEF CopyOf
<1>9. Sound(d)
  <2>1. d.used = {i \in Idx : d.pos[i] # -1} BY <1>2, <1>7, <1>8 DEF CopyOf
  <2>2. \A i \in Idx : d.pos[i] = -1 <=> d.seq[i] = {} BY <1>8
  <2>3. \A i \in Idx : d.pos[i] = -1 => d.shift[i] = 0 BY <1>8
  <2>4. (\E i \in Idx : d.shift[i] # 0) => d.has_shift BY <1>7, <1>8 DEF CopyOf
  <2>5. QED BY <2>1, <2>2, <2>3, <2>4 DEF Sound
<1>10. \A i \in Idx : d.pos[i] \in Pos \cup {-1} BY <1>1, <1>8
<1>11. Good(d) BY <1>4, <1>7, <1>9, <1>10, GoodFrom
<1>12. QED BY <1>8, <1>11 DEF d

LEMMA StreamCpStep ==
    ASSUME IInv, NEW src \in Seqs, NEW dst \in Seqs, StreamCp(src, dst) PROVE IInv'
<1> DEFINE s0 == seq_to_stream(src)
           s1 == seq_to_stream(dst)
           c == v_cells[s0]
           H == {i \in Idx : src \in c.seq[i]}
           c1 == [NoCells EXCEPT !.pos = [i \in Idx |-> IF i \in H THEN c.pos[i] ELSE -1],
                              !.shift = [i \in Idx |-> IF i \in H THEN c.shift[i] ELSE 0],
                              !.used = H,
                              !.has_shift = \E i \in H : c.shift[i] # 0]
           d == cells_seq_add(c1, H, dst)
           e == [src |-> s0, dst |-> s1]
<1>1. /\ Call /\ s0 # s1 /\ sc_info' = Append(sc_info, e)
      /\ v_cells' = [v_cells EXCEPT ![s1] = d] /\ v_heads' = [v_heads EXCEPT ![s1] = v_heads[s0]]
      /\ stale' = [stale EXCEPT ![s1] = stale[s0]]
      /\ conf' = conf /\ rot' = rot /\ dec' = dec
  BY DEF StreamCp
<1>2. s0 \in Streams /\ s1 \in Streams BY StreamOf
<1>3. e \in Pairs /\ e.src = s0 /\ e.dst = s1 BY <1>2 DEF Pairs
<1> HIDE DEF s0, s1, e
<1>4. Good(c) BY <1>2 DEF IInv, CellsInv
<1>5. /\ Good(d)
      /\ \A i \in Idx : d.pos[i] # -1 => i \in H /\ d.pos[i] = c.pos[i] /\ d.shift[i] = c.shift[i]
  <2>1. H \subseteq Idx /\ \A i \in H : c.pos[i] # -1 BY <1>4 DEF Good, Sound
  <2> HIDE DEF c, H
  <2>2. CopyOf(c, H, c1) BY <1>4, <2>1, CopyOfFields
  <2> HIDE DEF c1
  <2>3. QED BY <1>4, <2>1, <2>2, CopyOfGood
<1> HIDE DEF d
<1>6. /\ v_cells' \in [Streams -> Cells] /\ \A x \in Streams : Good(v_cells'[x])
      /\ v_cells'[s1] = d /\ \A x \in Streams : x # s1 => v_cells'[x] = v_cells[x]
  BY <1>1, <1>2, <1>5, OneStream
<1>7. v_heads' \in [Streams -> 0..NCells] BY <1>1, <1>2 DEF IInv, TypeInv
<1>8. /\ stale' \in [Streams -> SUBSET Idx] /\ stale'[s1] = stale[s0]
      /\ \A x \in Streams : x # s1 => stale'[x] = stale[x]
  BY <1>1, <1>2 DEF IInv, TypeInv
<1>9. sc_info \in Seq(Pairs) /\ rot \in [Streams -> [Idx -> Int]] BY DEF IInv, TypeInv
<1>10. sc_info' \in Seq(Pairs) /\ rot' \in [Streams -> [Idx -> Int]] BY <1>1, <1>3, <1>9
<1>11. Copied' = OneCopy(Copied, e) BY <1>1, <1>3, <1>9, CopiedIs, CopyAllAppend
<1>12. Copied \in [Streams -> [Idx -> Int]] BY <1>9, CopiedIs, CopyAllKeeps
<1>13. Copied'[s1] = Copied[s0] /\ \A x \in Streams : x # s1 => Copied'[x] = Copied[x]
  BY <1>2, <1>3, <1>11, <1>12 DEF OneCopy
<1>14. \A st \in Streams, i \in Idx : i \notin stale[st] => InPlace(st, i)
  BY <1>1 DEF IInv, DataInv, KInPlace, Call
<1>15. ASSUME NEW x \in Streams, NEW i \in Idx, i \notin stale'[x], i \in v_cells'[x].used
       PROVE  Copied'[x][i] = v_cells'[x].pos[i] - v_cells'[x].shift[i]
  <2>1. CASE x = s1
    <3>1. d.pos[i] # -1 BY <1>5, <1>6, <1>15, <2>1 DEF Good, Sound
    <3>2. i \in H /\ d.pos[i] = c.pos[i] /\ d.shift[i] = c.shift[i] BY <1>5, <3>1
    <3>3. i \in c.used BY <1>4, <3>1, <3>2 DEF Good, Sound
    <3>4. i \notin stale[s0] BY <1>8, <1>15, <2>1
    <3>5. Copied[s0][i] = c.pos[i] - c.shift[i] BY <1>2, <1>14, <3>3, <3>4 DEF InPlace
    <3>6. QED BY <1>6, <1>13, <2>1, <3>2, <3>5
  <2>2. CASE x # s1
    <3>1. v_cells'[x] = v_cells[x] /\ Copied'[x] = Copied[x] /\ i \notin stale[x]
      BY <1>6, <1>8, <1>13, <1>15, <2>2
    <3>2. QED BY <1>14, <1>15, <3>1 DEF InPlace
  <2>3. QED BY <2>1, <2>2
<1>16. KInPlace' BY <1>15 DEF KInPlace, InPlace
<1>17. QED BY <1>1, <1>6, <1>7, <1>8, <1>10, <1>16, CallStep

----------------------------------------------------------------------------
(* Slots. *)

LEMMA SlotFacts ==
    ASSUME NEW c, NEW h, NEW n \in Nat, NEW idxs \in Slots(c, h, n)
    PROVE  /\ idxs \in [1..n -> Idx]
           /\ conf.n_swa = 0 => \A j \in 1..n : c.pos[idxs[j]] = -1
<1> DEFINE usable == {i \in Idx : Usable(c, i)}
<1>1. idxs \in [1..n -> usable] BY DEF Slots
<1>2. conf.n_swa = 0 => \A i \in usable : c.pos[i] = -1 BY DEF Usable, is_masked_swa
<1>3. usable \subseteq Idx OBVIOUS
<1> HIDE DEF usable
<1>4. QED BY <1>1, <1>2, <1>3

LEMMA ElemsOf ==
    ASSUME NEW n \in Nat, NEW idxs \in [1..n -> Idx]
    PROVE  Elems(idxs) \subseteq Idx /\ \A i : i \in Elems(idxs) <=> \E j \in 1..n : idxs[j] = i
BY DEF Elems

----------------------------------------------------------------------------
(* state_read. *)

\* The removal of a whole sequence.
LEMMA WithoutAll ==
    ASSUME NEW c, Good(c), NEW s \in Seqs
    PROVE  \A i \in Idx : Without(c, s, -1, -1).seq[i] \subseteq c.seq[i] \ {s}
<1> DEFINE G == [t \in Seqs |-> IF t = s THEN From(-1)..(To(-1) - 1) ELSE {}]
           d == cells_seq_rm(c, G)
<1>1. Without(c, s, -1, -1) = d BY DEF Without
<1>2. G[s] = Pos BY BoundsAssumption DEF From, To, Inf, Pos
<1> HIDE DEF G
<1>3. \A i \in Idx : LET left == {t \in c.seq[i] : c.pos[i] \notin G[t]} IN
            /\ d.seq[i] = left
            /\ d.pos[i] = IF left = {} THEN -1 ELSE c.pos[i]
            /\ d.shift[i] = IF left = {} THEN 0 ELSE c.shift[i]
  BY CellsSeqRmGood
<1> HIDE DEF d
<1>4. ASSUME NEW i \in Idx PROVE d.seq[i] \subseteq c.seq[i] \ {s}
  <2>1. d.seq[i] = {t \in c.seq[i] : c.pos[i] \notin G[t]} BY <1>3
  <2>2. c.pos[i] \in Pos \/ c.seq[i] = {} BY CellsRaw DEF Good, Sound
  <2>3. QED BY <1>2, <2>1, <2>2
<1>5. QED BY <1>1, <1>4

LEMMA RotAfterAt ==
    ASSUME NEW r, NEW idxs, NEW toks, NEW i \in Idx
    PROVE  RotAfter(r, idxs, toks)[i] =
              IF i \in Elems(idxs) THEN toks[PlaceIn(idxs, i)].pos ELSE r[i]
BY DEF RotAfter, PlaceIn

LEMMA RotAfterType ==
    ASSUME NEW r \in [Idx -> Int], NEW n \in Nat, NEW idxs \in [1..n -> Idx],
           NEW toks \in [1..n -> Tokens]
    PROVE  RotAfter(r, idxs, toks) \in [Idx -> Int]
<1> DEFINE tok(i) == toks[PlaceIn(idxs, i)]
<1>1. \A i \in Elems(idxs) : tok(i).pos \in Int
  <2>1. SUFFICES ASSUME NEW i \in Elems(idxs) PROVE tok(i).pos \in Int OBVIOUS
  <2>2. \E j \in DOMAIN idxs : idxs[j] = i BY DEF Elems
  <2>3. PlaceIn(idxs, i) \in 1..n BY <2>2 DEF PlaceIn
  <2>4. tok(i) \in Tokens BY <2>3
  <2>5. QED BY <2>4, BoundsAssumption DEF Tokens, Pos
<1>2. RotAfter(r, idxs, toks) = [i \in Idx |-> IF i \in Elems(idxs) THEN tok(i).pos ELSE r[i]]
  BY DEF RotAfter, PlaceIn
<1> HIDE DEF tok
<1>3. QED BY <1>1, <1>2

\* What state_read leaves in the cells and in the data of its stream.
ReadArgs(c, s, n, idxs, toks) ==
    /\ Good(c) /\ s \in Seqs /\ n \in Nat /\ idxs \in [1..n -> Idx]
    /\ toks \in [1..n -> Tokens] /\ \A j \in 1..n : toks[j].ids = {s}
ReadIn(c, s, idxs, toks) == Applied(Without(c, s, -1, -1), idxs, toks)
ReadUndone(c, s, idxs, toks) == Without(ReadIn(c, s, idxs, toks), s, -1, -1)

LEMMA ReadCells ==
    ASSUME NEW c, NEW s, NEW n, NEW idxs, NEW toks, ReadArgs(c, s, n, idxs, toks),
           NEW r, NEW i \in Idx, NEW c2, c2 = ReadIn(c, s, idxs, toks),
           NEW c3, c3 = ReadUndone(c, s, idxs, toks)
    PROVE  /\ Good(c2) /\ Good(c3)
           /\ c2.pos[i] # -1 =>
                 \/ /\ i \in Elems(idxs) /\ c2.shift[i] = 0
                    /\ RotAfter(r, idxs, toks)[i] = c2.pos[i]
                 \/ /\ i \notin Elems(idxs) /\ RotAfter(r, idxs, toks)[i] = r[i]
                    /\ c.pos[i] # -1 /\ c2.pos[i] = c.pos[i] /\ c2.shift[i] = c.shift[i]
           /\ c3.pos[i] # -1 =>
                 c.pos[i] # -1 /\ c3.pos[i] = c.pos[i] /\ c3.shift[i] = c.shift[i]
<1> DEFINE k == PlaceIn(idxs, i)
           c1 == Without(c, s, -1, -1)
<1>a. /\ Good(c) /\ s \in Seqs /\ n \in Nat /\ idxs \in [1..n -> Idx]
      /\ toks \in [1..n -> Tokens] /\ \A j \in 1..n : toks[j].ids = {s}
  BY DEF ReadArgs
<1>b. c2 = Applied(c1, idxs, toks) /\ c3 = Without(c2, s, -1, -1) BY DEF ReadIn, ReadUndone
<1>1. Good(c1) /\ (c1.pos[i] # -1 => c1.pos[i] = c.pos[i] /\ c1.shift[i] = c.shift[i])
  BY <1>a, WithoutGood
<1> HIDE DEF c1
<1>2. /\ Good(c2)
      /\ i \notin Elems(idxs) /\ c2.pos[i] # -1 =>
            c2.pos[i] = c1.pos[i] /\ c2.shift[i] = c1.shift[i]
      /\ i \in Elems(idxs) =>
            c2.shift[i] = 0 /\ c2.pos[i] \in {-1, toks[k].pos} /\ c2.seq[i] \subseteq toks[k].ids
  BY <1>1, <1>a, <1>b, AppliedGood
<1>3. /\ Good(c3) /\ (c3.pos[i] # -1 => c3.pos[i] = c2.pos[i] /\ c3.shift[i] = c2.shift[i])
  BY <1>2, <1>b, WithoutGood
<1>4. c3.seq[i] \subseteq c2.seq[i] \ {s} BY <1>2, <1>a, <1>b, WithoutAll
<1>5. i \in Elems(idxs) => k \in 1..n
  <2>1. i \in Elems(idxs) => \E j \in DOMAIN idxs : idxs[j] = i BY DEF Elems
  <2>2. i \in Elems(idxs) => k \in DOMAIN idxs BY <2>1 DEF PlaceIn
  <2>3. QED BY <1>a, <2>2
<1>6. RotAfter(r, idxs, toks)[i] = IF i \in Elems(idxs) THEN toks[k].pos ELSE r[i]
  BY RotAfterAt
<1> HIDE DEF k
<1>7. c3.pos[i] # -1 => i \notin Elems(idxs)
  <2>1. SUFFICES ASSUME i \in Elems(idxs) PROVE c3.pos[i] = -1 OBVIOUS
  <2>2. c2.seq[i] \subseteq {s} BY <1>2, <1>5, <1>a, <2>1
  <2>3. c3.seq[i] = {} BY <1>4, <2>2
  <2>4. QED BY <1>3, <2>3 DEF Good, Sound
<1>8. c2.pos[i] # -1 =>
         \/ /\ i \in Elems(idxs) /\ c2.shift[i] = 0
            /\ RotAfter(r, idxs, toks)[i] = c2.pos[i]
         \/ /\ i \notin Elems(idxs) /\ RotAfter(r, idxs, toks)[i] = r[i]
            /\ c.pos[i] # -1 /\ c2.pos[i] = c.pos[i] /\ c2.shift[i] = c.shift[i]
  BY <1>1, <1>2, <1>6
<1>9. c3.pos[i] # -1 => c.pos[i] # -1 /\ c3.pos[i] = c.pos[i] /\ c3.shift[i] = c.shift[i]
  BY <1>1, <1>2, <1>3, <1>7
<1>10. QED BY <1>1, <1>2, <1>3, <1>8, <1>9

LEMMA NotPending ==
    ASSUME NEW x \in Streams, sc_info \in Seq(Pairs), rot \in [Streams -> [Idx -> Int]],
           rot' \in [Streams -> [Idx -> Int]], sc_info' = sc_info, ~PendingInto(x)
    PROVE  Copied[x] = rot[x] /\ Copied'[x] = rot'[x]
<1>1. \A j \in 1..Len(sc_info) : sc_info[j].dst # x BY DEF PendingInto
<1>2. CopyAll(rot, sc_info)[x] = rot[x] /\ CopyAll(rot', sc_info)[x] = rot'[x]
  BY <1>1, CopyAllKeeps
<1>3. QED BY <1>2, CopiedIs

LEMMA StateReadStep ==
    ASSUME IInv, NEW s \in Seqs, NEW p \in Nat, NEW n \in Nat \ {0}, NEW ok \in BOOLEAN,
           StateRead(s, p, n, ok)
    PROVE  IInv'
<1> DEFINE st == seq_to_stream(s)
           c == v_cells[st]
           toks == [j \in 1..n |-> [pos |-> p + j - 1, ids |-> {s}]]
           c1 == Without(c, s, -1, -1)
           head == HeadBack(c, c1, v_heads[st])
           slots == Slots(c1, head, n)
           idxs == CHOOSE x \in slots : TRUE
           c2 == Applied(c1, idxs, toks)
           c4 == Without(c2, s, -1, -1)
           c3 == IF ok THEN c2 ELSE c4
           found == slots # {}
           put == IF found /\ ok THEN Elems(idxs) ELSE {}
           d == IF found THEN c3 ELSE c1
           h == IF found THEN HeadBack(c2, c3, idxs[n] + 1) ELSE head
           r == IF found /\ ok THEN RotAfter(rot[st], idxs, toks) ELSE rot[st]
<1>1. /\ Call /\ p + n - 1 <= MaxPos /\ v_cells' = [v_cells EXCEPT ![st] = d]
      /\ v_heads' = [v_heads EXCEPT ![st] = h]
      /\ rot' = [rot EXCEPT ![st] = r]
      /\ stale' = [x \in Streams |-> IF PendingInto(x) THEN Idx
                                       ELSE IF x = st THEN stale[x] \ put ELSE stale[x]]
      /\ conf' = conf /\ sc_info' = sc_info /\ dec' = dec
  BY DEF StateRead
<1>2. st \in Streams BY StreamOf
<1>3. toks \in [1..n -> Tokens] /\ \A j \in 1..n : toks[j].ids = {s}
  <2>1. \A j \in 1..n : [pos |-> p + j - 1, ids |-> {s}] \in Tokens
    <3>1. \A j \in 1..n : p + j - 1 \in Pos BY <1>1, BoundsAssumption DEF Pos
    <3>2. QED BY <3>1 DEF Tokens
  <2>2. QED BY <2>1
<1> HIDE DEF st, toks
<1>4. Good(c) /\ v_heads[st] \in 0..NCells /\ rot[st] \in [Idx -> Int]
  BY <1>2 DEF IInv, CellsInv, TypeInv
<1>5. head \in 0..NCells BY <1>4, HeadBackType
<1> HIDE DEF head
<1>6. found => idxs \in slots OBVIOUS
<1>7. found => idxs \in [1..n -> Idx]
  <2> HIDE DEF idxs
  <2>1. QED BY <1>6, SlotFacts
<1>8. Good(c1) /\ \A i \in Idx : c1.pos[i] # -1 => c1.pos[i] = c.pos[i] /\ c1.shift[i] = c.shift[i]
  BY <1>4, WithoutGood
<1> HIDE DEF idxs, found, c
<1>a. c2 = ReadIn(c, s, idxs, toks) /\ c4 = ReadUndone(c, s, idxs, toks)
  BY DEF ReadIn, ReadUndone
<1> HIDE DEF c1, c2, c4
<1>9. ASSUME found, NEW i \in Idx
      PROVE  /\ Good(c2) /\ Good(c4)
             /\ c2.pos[i] # -1 =>
                    \/ /\ i \in Elems(idxs) /\ c2.shift[i] = 0
                       /\ RotAfter(rot[st], idxs, toks)[i] = c2.pos[i]
                    \/ /\ i \notin Elems(idxs) /\ RotAfter(rot[st], idxs, toks)[i] = rot[st][i]
                       /\ c.pos[i] # -1 /\ c2.pos[i] = c.pos[i] /\ c2.shift[i] = c.shift[i]
             /\ c4.pos[i] # -1 =>
                    c.pos[i] # -1 /\ c4.pos[i] = c.pos[i] /\ c4.shift[i] = c.shift[i]
  <2>1. ReadArgs(c, s, n, idxs, toks) BY <1>3, <1>4, <1>7, <1>9 DEF ReadArgs
  <2>2. QED BY <1>a, <2>1, ReadCells
<1>10. Good(d)
  <2>1. 0 \in Idx BY SizesAssumption DEF Idx
  <2>2. QED BY <1>8, <1>9, <2>1
<1>11. h \in 0..NCells
  <2>1. CASE found
    <3>1. idxs[n] \in Idx BY <1>7, <2>1
    <3>2. idxs[n] + 1 \in 0..NCells BY <3>1, SizesAssumption DEF Idx
    <3> HIDE DEF c3
    <3>3. QED BY <2>1, <3>2, HeadBackType
  <2>2. CASE ~found BY <1>5, <2>2
  <2>3. QED BY <2>1, <2>2
<1>12. r \in [Idx -> Int] BY <1>3, <1>4, <1>7, RotAfterType
<1>13. ASSUME NEW i \in Idx, i \notin stale[st] \ put, d.pos[i] # -1
       PROVE  \/ d.shift[i] = 0 /\ r[i] = d.pos[i]
              \/ /\ i \notin stale[st] /\ r[i] = rot[st][i]
                 /\ c.pos[i] # -1 /\ d.pos[i] = c.pos[i] /\ d.shift[i] = c.shift[i]
  <2>1. CASE ~found BY <1>8, <1>13, <2>1
  <2>2. CASE found /\ ok BY <1>9, <1>13, <2>2
  <2>3. CASE found /\ ~ok BY <1>9, <1>13, <2>3
  <2>4. QED BY <2>1, <2>2, <2>3
<1> HIDE DEF put
<1>14. \A x \in Streams : stale'[x] = IF PendingInto(x) THEN Idx
                                      ELSE IF x = st THEN stale[x] \ put ELSE stale[x]
  BY <1>1
<1>15. stale' \in [Streams -> SUBSET Idx] BY <1>1 DEF IInv, TypeInv
<1> HIDE DEF d, h, r
<1>16. /\ v_cells' \in [Streams -> Cells] /\ \A x \in Streams : Good(v_cells'[x])
       /\ v_cells'[st] = d /\ \A x \in Streams : x # st => v_cells'[x] = v_cells[x]
  BY <1>1, <1>2, <1>10, OneStream
<1>17. v_heads' \in [Streams -> 0..NCells] BY <1>1, <1>11 DEF IInv, TypeInv
<1>18. sc_info \in Seq(Pairs) /\ rot \in [Streams -> [Idx -> Int]] BY DEF IInv, TypeInv
<1>19. /\ rot' \in [Streams -> [Idx -> Int]] /\ rot'[st] = r
       /\ \A x \in Streams : x # st => rot'[x] = rot[x]
  BY <1>1, <1>2, <1>12, <1>18
<1>20. \A x \in Streams, i \in Idx : i \notin stale[x] => InPlace(x, i)
  BY <1>1 DEF IInv, DataInv, KInPlace, Call
<1>21. ASSUME NEW x \in Streams, NEW i \in Idx, i \notin stale'[x], i \in v_cells'[x].used
       PROVE  Copied'[x][i] = v_cells'[x].pos[i] - v_cells'[x].shift[i]
  <2>1. ~PendingInto(x) BY <1>14, <1>21
  <2>2. Copied[x] = rot[x] /\ Copied'[x] = rot'[x] BY <1>1, <1>18, <1>19, <2>1, NotPending
  <2>3. CASE x = st
    <3>1. d.pos[i] # -1 BY <1>10, <1>16, <1>21, <2>3 DEF Good, Sound
    <3>2. i \notin stale[st] \ put BY <1>14, <1>21, <2>1, <2>3
    <3>3. d.pos[i] \in Int BY <1>10, CellsRaw DEF Good, Raw
    <3>4. CASE d.shift[i] = 0 /\ r[i] = d.pos[i] BY <1>16, <1>19, <2>2, <2>3, <3>3, <3>4
    <3>5. CASE /\ i \notin stale[st] /\ r[i] = rot[st][i]
               /\ c.pos[i] # -1 /\ d.pos[i] = c.pos[i] /\ d.shift[i] = c.shift[i]
      <4>1. i \in c.used BY <1>4, <3>5 DEF Good, Sound
      <4>2. Copied[st][i] = c.pos[i] - c.shift[i] BY <1>2, <1>20, <3>5, <4>1 DEF InPlace, c
      <4>3. QED BY <1>16, <1>19, <2>2, <2>3, <3>5, <4>2
    <3>6. QED BY <1>13, <3>1, <3>2, <3>4, <3>5
  <2>4. CASE x # st
    <3>1. v_cells'[x] = v_cells[x] /\ rot'[x] = rot[x] /\ i \notin stale[x]
      BY <1>14, <1>16, <1>19, <1>21, <2>1, <2>4
    <3>2. QED BY <1>20, <1>21, <2>2, <3>1 DEF InPlace
  <2>5. QED BY <2>3, <2>4
<1>22. KInPlace' BY <1>21 DEF KInPlace, InPlace
<1>23. sc_info' \in Seq(Pairs) BY <1>1, <1>18
<1>24. QED BY <1>1, <1>15, <1>16, <1>17, <1>19, <1>22, <1>23, CallStep

\* The cells that were saved, at the start of an empty stream.
Reloaded(c, f, H) ==
    seq_pos_add([NoCells EXCEPT !.pos = [i \in Idx |-> IF i \in H THEN c.pos[f[i]] ELSE -1],
                                !.seq = [i \in Idx |-> IF i \in H THEN c.seq[f[i]] ELSE {}],
                                !.used = H], H)

ReloadArgs(c, f, H) ==
    Good(c) /\ H = 0..(Cardinality(c.used) - 1) /\ f \in [H -> c.used]

ReloadDone(c, f, H, d) ==
    /\ Good(d) /\ H \subseteq Idx
    /\ \A i \in Idx : /\ i \in H => d.pos[i] = c.pos[f[i]]
                      /\ i \notin H => d.pos[i] = -1
                      /\ d.shift[i] = 0

LEMMA ReloadCells ==
    ASSUME NEW c, NEW H, NEW f, ReloadArgs(c, f, H)
    PROVE  ReloadDone(c, f, H, Reloaded(c, f, H))
<1> DEFINE g == [i \in Idx |-> IF i \in H THEN c.pos[f[i]] ELSE -1]
           e == [i \in Idx |-> IF i \in H THEN c.seq[f[i]] ELSE {}]
           n == Cardinality(c.used)
           c2 == [NoCells EXCEPT !.pos = g, !.seq = e, !.used = H]
           d == seq_pos_add(c2, H)
<1>0. Good(c) /\ H = 0..(Cardinality(c.used) - 1) /\ f \in [H -> c.used] BY DEF ReloadArgs
<1> USE <1>0
<1>1. c.used \subseteq Idx /\ c \in Raw BY CellsRaw DEF Good, Raw
<1>2. n \in 0..NCells
  <2>1. IsFiniteSet(Idx) BY SizesAssumption, FS_Interval DEF Idx
  <2>2. Cardinality(Idx) = NCells BY SizesAssumption, FS_Interval DEF Idx
  <2>3. Cardinality(c.used) <= Cardinality(Idx) /\ Cardinality(c.used) \in Nat
    BY <1>1, <2>1, FS_Subset, Finite
  <2>4. QED BY <2>2, <2>3, SizesAssumption
<1>3. H \subseteq Idx BY <1>2, SizesAssumption DEF Idx
<1>4. \A i \in H : f[i] \in Idx /\ c.pos[f[i]] \in Pos /\ c.seq[f[i]] # {} /\ c.seq[f[i]] \subseteq Seqs
  <2>1. \A i \in H : f[i] \in c.used OBVIOUS
  <2>2. \A j \in c.used : j \in Idx /\ c.pos[j] \in Pos /\ c.seq[j] # {} /\ c.seq[j] \subseteq Seqs
    BY DEF Good, Sound, Cells
  <2>3. QED BY <2>1, <2>2
<1>5. Pos \subseteq Int BY BoundsAssumption DEF Pos
<1>6. g \in [Idx -> Int] /\ e \in [Idx -> SUBSET Seqs]
  <2>1. ASSUME NEW i \in Idx PROVE (IF i \in H THEN c.pos[f[i]] ELSE -1) \in Int
    <3>1. CASE i \in H BY <1>4, <1>5, <3>1
    <3>2. CASE i \notin H BY <3>2
    <3>3. QED BY <3>1, <3>2
  <2>2. ASSUME NEW i \in Idx PROVE (IF i \in H THEN c.seq[f[i]] ELSE {}) \in SUBSET Seqs
    BY <1>4
  <2>3. QED BY <2>1, <2>2
<1>7. \A i \in Idx : /\ g[i] = IF i \in H THEN c.pos[f[i]] ELSE -1
                     /\ e[i] = IF i \in H THEN c.seq[f[i]] ELSE {}
  OBVIOUS
<1>8. Good(NoCells) /\ NoCells \in Raw BY NoCellsGood, CellsRaw DEF Good
<1>9. /\ \A i \in Idx : NoCells.pos[i] = -1 /\ NoCells.seq[i] = {} /\ NoCells.shift[i] = 0
      /\ NoCells.used = {}
  BY DEF NoCells
<1> HIDE DEF g, e
<1>10. /\ c2 \in Raw /\ c2.pos = g /\ c2.seq = e /\ c2.used = H /\ c2.shift = NoCells.shift
       /\ c2.has_shift = NoCells.has_shift /\ c2.seq_pos = NoCells.seq_pos
  BY <1>3, <1>6, <1>8 DEF Raw
<1> HIDE DEF c2
<1>11. Placed(NoCells, H, c2)
  <2>1. \A i \in H : NoCells.pos[i] = -1 /\ c2.pos[i] \in Pos /\ c2.seq[i] # {}
    BY <1>3, <1>4, <1>7, <1>9, <1>10
  <2>2. \A i \in Idx \ H : c2.pos[i] = NoCells.pos[i] /\ c2.seq[i] = NoCells.seq[i]
    BY <1>7, <1>9, <1>10
  <2>3. c2.used = NoCells.used \cup H BY <1>9, <1>10
  <2>4. QED BY <1>3, <1>8, <1>10, <2>1, <2>2, <2>3 DEF Placed
<1>12. Good(d) /\ d.pos = c2.pos /\ d.shift = NoCells.shift BY <1>10, <1>11, PlaceGood
<1> HIDE DEF d
<1>13. Good(d) /\ \A i \in Idx : d.pos[i] = (IF i \in H THEN c.pos[f[i]] ELSE -1) /\ d.shift[i] = 0
  BY <1>7, <1>9, <1>10, <1>12
<1>14. Reloaded(c, f, H) = d BY DEF Reloaded, d, c2, g, e
<1>15. QED BY <1>3, <1>13, <1>14 DEF ReloadDone

LEMMA ReloadStep ==
    ASSUME IInv, NEW st \in Streams,
           NEW f \in [0..(Cardinality(v_cells[st].used) - 1) -> v_cells[st].used], Reload(st, f)
    PROVE  IInv'
<1> DEFINE c == v_cells[st]
           n == Cardinality(c.used)
           H == 0..(n - 1)
           d == Reloaded(c, f, H)
<1>1. /\ Call /\ sc_info = <<>> /\ ~ShiftPending
      /\ v_cells' = [x \in Streams |-> IF x = st THEN d ELSE NoCells]
      /\ v_heads' = [x \in Streams |-> 0]
      /\ rot' = [x \in Streams |-> [i \in Idx |-> IF x = st /\ i \in H THEN rot[st][f[i]] ELSE 0]]
      /\ stale' = [x \in Streams |-> IF x = st THEN {i \in H : f[i] \in stale[st]} ELSE {}]
      /\ conf' = conf /\ sc_info' = sc_info /\ dec' = dec
  BY DEF Reload, Reloaded
<1>2. Good(c) BY DEF IInv, CellsInv
<1>3. /\ Good(d) /\ H \subseteq Idx
      /\ \A i \in Idx : d.pos[i] = (IF i \in H THEN c.pos[f[i]] ELSE -1) /\ d.shift[i] = 0
  <2>1. H = 0..(Cardinality(c.used) - 1) /\ f \in [H -> c.used] OBVIOUS
  <2>2. ReloadArgs(c, f, H) BY <1>2, <2>1 DEF ReloadArgs
  <2> HIDE DEF c, n, H
  <2>3. ReloadDone(c, f, H, d) BY <2>2, ReloadCells
  <2> HIDE DEF d
  <2>4. QED BY <2>3 DEF ReloadDone
<1>4. \A i \in H : f[i] \in c.used OBVIOUS
<1> HIDE DEF d, H
<1>5. \A x \in Streams : v_cells'[x] = IF x = st THEN d ELSE NoCells BY <1>1
<1>6. \A x \in Streams : Good(v_cells'[x]) BY <1>3, <1>5, NoCellsGood
<1>7. v_cells' \in [Streams -> Cells] BY <1>1, <1>3, NoCellsGood DEF Good
<1>8. v_heads' \in [Streams -> 0..NCells] BY <1>1, SizesAssumption
<1>9. c.used \subseteq Idx BY <1>2 DEF Good, Cells
<1>10. rot' \in [Streams -> [Idx -> Int]]
  <2>1. rot[st] \in [Idx -> Int] BY DEF IInv, TypeInv
  <2>2. \A x \in Streams, i \in Idx : (IF x = st /\ i \in H THEN rot[st][f[i]] ELSE 0) \in Int
    BY <1>4, <1>9, <2>1
  <2>3. QED BY <1>1, <2>2
<1>11. stale' \in [Streams -> SUBSET Idx] BY <1>1, <1>3
<1>12. \A x \in Streams, i \in Idx : i \notin stale[x] => InPlace(x, i)
  BY <1>1 DEF IInv, DataInv, KInPlace, Call
<1>13. Copied = rot /\ Copied' = rot' BY <1>1, CopiedIs, CopyAllEmpty
<1>14. ASSUME NEW x \in Streams, NEW i \in Idx, i \notin stale'[x], i \in v_cells'[x].used
       PROVE  Copied'[x][i] = v_cells'[x].pos[i] - v_cells'[x].shift[i]
  <2>1. v_cells'[x].pos[i] # -1 BY <1>6, <1>14 DEF Good, Sound
  <2>2. x = st BY <1>5, <2>1 DEF NoCells
  <2>3. i \in H /\ d.pos[i] = c.pos[f[i]] /\ d.shift[i] = 0 BY <1>3, <1>5, <2>1, <2>2
  <2>4. f[i] \notin stale[st] BY <1>1, <1>14, <2>2, <2>3
  <2>5. f[i] \in c.used /\ f[i] \in Idx BY <1>4, <1>9, <2>3
  <2>6. Copied[st][f[i]] = c.pos[f[i]] - c.shift[f[i]] BY <1>12, <2>4, <2>5 DEF InPlace
  <2>7. c.shift[f[i]] = 0 BY <1>1, <1>2, <2>5 DEF ShiftPending, Good, Sound
  <2>8. rot'[st][i] = rot[st][f[i]] BY <1>1, <2>3
  <2>9. QED BY <1>5, <1>13, <2>2, <2>3, <2>6, <2>7, <2>8
<1>15. KInPlace' BY <1>14 DEF KInPlace, InPlace
<1>16. sc_info' \in Seq(Pairs) BY <1>1 DEF IInv, TypeInv
<1>17. QED BY <1>1, <1>6, <1>7, <1>8, <1>10, <1>11, <1>15, <1>16, CallStep

----------------------------------------------------------------------------
(* The beginning of a decode. *)

LEMMA GreatestIn ==
    ASSUME NEW S, S \subseteq Pos, S # {}
    PROVE  \E x \in S : \A y \in S : y <= x
<1> DEFINE T == {MaxPos - p : p \in S}
<1>1. \A p \in S : p \in Nat /\ p <= MaxPos BY DEF Pos
<1>2. T \subseteq Nat /\ T # {} BY <1>1, BoundsAssumption
<1>3. PICK t \in T : \A u \in T : t <= u
  <2> HIDE DEF T
  <2>1. QED BY <1>2, LeastNat
<1>4. PICK x \in S : t = MaxPos - x OBVIOUS
<1>5. \A y \in S : MaxPos - x <= MaxPos - y BY <1>3, <1>4
<1>6. \A y \in S : y <= x BY <1>1, <1>5, BoundsAssumption
<1>7. QED BY <1>6

LEMMA NextPosNat ==
    ASSUME NEW s \in Seqs
    PROVE  Next_pos(s) \in Nat
<1> DEFINE c == v_cells[seq_to_stream(s)]
           S == Present(c, s)
<1>1. S \subseteq Pos BY DEF Present
<1>2. Next_pos(s) = seq_pos_max(c, s) + 1 BY DEF Next_pos
<1>3. seq_pos_max(c, s) = IF S = {} THEN -1 ELSE CHOOSE p \in S : \A q \in S : q <= p
  BY DEF seq_pos_max
<1> HIDE DEF c, S
<1>4. S # {} => seq_pos_max(c, s) \in Pos
  <2>1. S # {} => \E p \in S : \A q \in S : q <= p BY <1>1, GreatestIn
  <2>2. QED BY <1>1, <1>3, <2>1
<1>5. QED BY <1>2, <1>3, <1>4, BoundsAssumption DEF Pos

\* Tokens whose positions are not bounded yet.
LongTokens == [pos : Nat, ids : (SUBSET Seqs) \ {{}}]

LEMMA UnifiedBatchType ==
    ASSUME NEW n \in Nat, NEW groups \in [1..n -> Groups]
    PROVE  UnifiedBatch(groups) \in [Streams -> Seq(LongTokens)]
<1> DEFINE earlier(j, s) == Cardinality({m \in 1..(j - 1) : s \in groups[m]})
           tok(j) == [pos |-> Next_pos(Least(groups[j])) + earlier(j, Least(groups[j])),
                      ids |-> groups[j]]
           q == [j \in 1..n |-> tok(j)]
<1>1. Len(groups) = n OBVIOUS
<1>2. UnifiedBatch(groups) = [st \in Streams |-> IF st # 0 THEN <<>> ELSE q]
  BY <1>1 DEF UnifiedBatch
<1>3. \A j \in 1..n : tok(j) \in LongTokens
  <2>1. SUFFICES ASSUME NEW j \in 1..n PROVE tok(j) \in LongTokens OBVIOUS
  <2>2. groups[j] \subseteq Seqs /\ groups[j] # {} BY InputsAssumption DEF Seqs
  <2>3. Seqs \subseteq Nat BY DEF Seqs
  <2>4. Least(groups[j]) \in Seqs BY <2>2, <2>3, LeastIn
  <2> DEFINE s == Least(groups[j])
             S == {m \in 1..(j - 1) : s \in groups[m]}
  <2> HIDE DEF s
  <2>5. Next_pos(s) \in Nat BY <2>4, NextPosNat DEF s
  <2>6. IsFiniteSet(S)
    <3>1. IsFiniteSet(1..(j - 1)) BY FS_Interval
    <3>2. S \subseteq 1..(j - 1) OBVIOUS
    <3>3. QED BY <3>1, <3>2, FS_Subset
  <2>7. Cardinality(S) \in Nat BY <2>6, FS_CardinalityType
  <2>8. tok(j) = [pos |-> Next_pos(s) + Cardinality(S), ids |-> groups[j]] BY DEF s
  <2> HIDE DEF S, tok
  <2>9. QED BY <2>2, <2>5, <2>7, <2>8 DEF LongTokens
<1> HIDE DEF tok
<1>4. q \in Seq(LongTokens) BY <1>3
<1> HIDE DEF q
<1>5. QED BY <1>2, <1>4

LEMMA StreamsBatchType ==
    ASSUME NEW n \in [Seqs -> 0..MaxBatch]
    PROVE  StreamsBatch(n) \in [Streams -> Seq(LongTokens)]
<1> DEFINE q(st) == [j \in 1..n[st] |-> [pos |-> Next_pos(st) + j - 1, ids |-> {st}]]
<1>1. ASSUME NEW st \in Streams PROVE q(st) \in Seq(LongTokens)
  <2>1. st \in Seqs /\ n[st] \in Nat BY BoundsAssumption DEF Streams
  <2>2. Next_pos(st) \in Nat BY <2>1, NextPosNat
  <2>3. \A j \in 1..n[st] : [pos |-> Next_pos(st) + j - 1, ids |-> {st}] \in LongTokens
    BY <2>1, <2>2 DEF LongTokens
  <2>4. QED BY <2>1, <2>3
<1>2. StreamsBatch(n) = [st \in Streams |-> q(st)] BY DEF StreamsBatch
<1> HIDE DEF q
<1>3. QED BY <1>1, <1>2

LEMMA ResetStill ==
    ASSUME NEW c, Good(c)
    PROVE  /\ Still([c EXCEPT !.shift = [i \in Idx |-> 0], !.has_shift = FALSE])
           /\ [c EXCEPT !.shift = [i \in Idx |-> 0], !.has_shift = FALSE].pos = c.pos
<1> DEFINE z == [i \in Idx |-> 0]
           d == [c EXCEPT !.shift = z, !.has_shift = FALSE]
<1>1. z \in [Idx -> Int] /\ \A i \in Idx : z[i] = 0 OBVIOUS
<1>2. c \in Cells BY DEF Good
<1> HIDE DEF z
<1>3. d \in Cells BY <1>1, <1>2 DEF Cells
<1>4. /\ d.pos = c.pos /\ d.seq = c.seq /\ d.used = c.used /\ d.seq_pos = c.seq_pos
      /\ d.shift = z /\ d.has_shift = FALSE
  BY <1>2 DEF Cells
<1> HIDE DEF d
<1>5. Counts(d) BY <1>4 DEF Good, Counts, Holding
<1>6. Sound(d) BY <1>1, <1>4 DEF Good, Sound
<1>7. Still(d) BY <1>3, <1>4, <1>5, <1>6 DEF Still, Good
<1>8. QED BY <1>4, <1>7 DEF d, z

LEMMA DecodeStartStep ==
    ASSUME IInv, NEW batch \in [Streams -> Seq(LongTokens)], DecodeStart(batch)
    PROVE  IInv'
<1> DEFINE cells == IF ShiftPending THEN ShiftReset ELSE v_cells
<1>1. /\ Call /\ \E st \in Streams : batch[st] # <<>>
      /\ \A st \in Streams : \A j \in 1..Len(batch[st]) : batch[st][j].pos <= MaxPos
      /\ v_cells' = cells /\ rot' = (IF ShiftPending THEN Rotated ELSE Copied) /\ sc_info' = <<>>
      /\ dec' = [Idle EXCEPT !.pc = "prepare", !.todo = batch, !.before = cells]
      /\ conf' = conf /\ v_heads' = v_heads /\ stale' = stale
  BY DEF DecodeStart
<1>2. dec.pc = "idle" /\ calls < MaxCalls /\ calls' = calls + 1 BY <1>1 DEF Call
<1>3. /\ v_cells \in [Streams -> Cells] /\ \A st \in Streams : Good(v_cells[st])
      /\ sc_info \in Seq(Pairs) /\ rot \in [Streams -> [Idx -> Int]]
  BY DEF IInv, TypeInv, CellsInv
<1>4. batch \in Batches
  <2>1. ASSUME NEW st \in Streams PROVE batch[st] \in Seq(Tokens)
    <3>1. batch[st] \in Seq(LongTokens) OBVIOUS
    <3>2. \A j \in 1..Len(batch[st]) : batch[st][j] \in LongTokens BY <3>1
    <3>3. \A j \in 1..Len(batch[st]) : batch[st][j].pos \in Pos
      BY <1>1, <3>2, BoundsAssumption DEF LongTokens, Pos
    <3>4. \A j \in 1..Len(batch[st]) : batch[st][j] \in Tokens
      BY <3>2, <3>3 DEF LongTokens, Tokens
    <3>5. QED BY <3>1, <3>4
  <2>2. QED BY <2>1 DEF Batches
<1>5. /\ cells \in [Streams -> Cells]
      /\ \A st \in Streams : Still(cells[st]) /\ cells[st].pos = v_cells[st].pos
  <2>1. CASE ShiftPending
    <3> DEFINE d(st) == [v_cells[st] EXCEPT !.shift = [i \in Idx |-> 0], !.has_shift = FALSE]
    <3>1. cells = [st \in Streams |-> d(st)] BY <2>1 DEF ShiftReset
    <3>2. \A st \in Streams : Still(d(st)) /\ d(st).pos = v_cells[st].pos BY <1>3, ResetStill
    <3> HIDE DEF d, cells
    <3>3. \A st \in Streams : d(st) \in Cells BY <3>2 DEF Still, Good
    <3>4. QED BY <3>1, <3>2, <3>3
  <2>2. CASE ~ShiftPending BY <1>3, <2>2 DEF ShiftPending, Still
  <2>3. QED BY <2>1, <2>2
<1> HIDE DEF cells
<1>6. Copied \in [Streams -> [Idx -> Int]] BY <1>3, CopiedIs, CopyAllKeeps
<1>7. \A st \in Streams, i \in Idx : v_cells[st].shift[i] \in Int /\ v_cells[st].pos[i] \in Int
  BY <1>3, CellsRaw DEF Raw
<1>8. /\ rot' \in [Streams -> [Idx -> Int]]
      /\ \A st \in Streams, i \in Idx : rot'[st][i] = Copied[st][i] + v_cells[st].shift[i]
  <2>1. CASE ShiftPending
    <3>1. rot' = [st \in Streams |-> [i \in Idx |-> Copied[st][i] + v_cells[st].shift[i]]]
      BY <1>1, <2>1 DEF Rotated
    <3>2. \A st \in Streams, i \in Idx : Copied[st][i] + v_cells[st].shift[i] \in Int
      BY <1>6, <1>7
    <3>3. QED BY <3>1, <3>2
  <2>2. CASE ~ShiftPending
    <3>1. rot' = Copied BY <1>1, <2>2
    <3>2. \A st \in Streams, i \in Idx : v_cells[st].shift[i] = 0
      BY <1>3, <2>2 DEF ShiftPending, Good, Sound
    <3>3. \A st \in Streams, i \in Idx : Copied[st][i] \in Int BY <1>6
    <3>4. QED BY <1>6, <3>1, <3>2, <3>3
  <2>3. QED BY <2>1, <2>2
<1>9. /\ dec'.pc = "prepare" /\ dec'.todo = batch /\ dec'.before = cells
      /\ dec'.ubs = <<>> /\ dec'.sinfos = <<>> /\ dec'.states = <<>> /\ dec'.k = 0
  BY <1>1 DEF Idle
<1>10. dec' = [pc |-> "prepare", todo |-> batch, ubs |-> <<>>, sinfos |-> <<>>, states |-> <<>>,
               k |-> 0, before |-> cells]
  BY <1>1 DEF Idle
<1>11. DecType'
  <2>1. /\ "prepare" \in {"idle", "prepare", "restore", "process"}
        /\ <<>> \in Seq(Ubatches) /\ <<>> \in Seq(Infos) /\ <<>> \in Seq(States) /\ 0 \in Nat
    OBVIOUS
  <2>2. QED BY <1>4, <1>5, <1>10, <2>1 DEF DecType
<1>12. TypeInv'
  <2>1. calls' \in 0..MaxCalls BY <1>2, BoundsAssumption DEF IInv, TypeInv
  <2>2. v_cells' \in [Streams -> Cells] /\ sc_info' \in Seq(Pairs) BY <1>1, <1>5
  <2>3. conf' \in Configs /\ v_heads' \in [Streams -> 0..NCells] /\ stale' \in [Streams -> SUBSET Idx]
    BY <1>1 DEF IInv, TypeInv
  <2>4. QED BY <1>8, <1>11, <2>1, <2>2, <2>3 DEF TypeInv
<1>13. CellsInv' BY <1>1, <1>5 DEF CellsInv, Still
<1>14. Decoding'
  <2>1. Len(dec'.ubs) = 0 /\ Len(dec'.sinfos) = 0 /\ Len(dec'.states) = 0 BY <1>9
  <2>2. \A st \in Streams : Still(v_cells'[st]) /\ Still(dec'.before[st]) BY <1>1, <1>5, <1>9
  <2>3. QED BY <1>1, <1>4, <1>5, <1>9, <2>1, <2>2 DEF Decoding
<1>15. Progress'
  <2>1. ~Done(batch) BY <1>1 DEF Done
  <2>2. QED BY <1>9, <2>1 DEF Progress
<1>16. Undoable'
  <2>1. Len(dec'.states) = 0 BY <1>9
  <2>2. \A st \in Streams, i \in Idx : cells[st].pos[i] \in {-1, cells[st].pos[i]} OBVIOUS
  <2>3. \A st \in Streams : v_cells'[st] = cells[st] /\ dec'.before[st] = cells[st] BY <1>1, <1>9
  <2>4. QED BY <2>1, <2>2, <2>3 DEF Undoable, Intact, Stays
<1>17. DecodeInv' BY <1>14, <1>15, <1>16 DEF DecodeInv
<1>18. DataInv'
  <2>1. \A st \in Streams, i \in Idx : i \notin stale[st] => InPlace(st, i)
    BY <1>2 DEF IInv, DataInv, KInPlace
  <2>2. ASSUME NEW st \in Streams, NEW i \in Idx, i \notin stale'[st], cells[st].pos[i] # -1
        PROVE  rot'[st][i] = cells[st].pos[i]
    <3>1. i \in v_cells[st].used
      <4>1. v_cells[st].pos[i] # -1 BY <1>5, <2>2
      <4>2. Good(v_cells[st]) BY <1>3
      <4>3. QED BY <4>1, <4>2 DEF Good, Sound
    <3>2. Copied[st][i] = v_cells[st].pos[i] - v_cells[st].shift[i]
      BY <1>1, <2>1, <2>2, <3>1 DEF InPlace
    <3>3. QED BY <1>5, <1>7, <1>8, <3>2
  <2>3. \A st \in Streams : DataAt(dec.before[st], st)' BY <1>9, <2>2 DEF DataAt
  <2>4. KInPlace' BY <1>9 DEF KInPlace
  <2>5. QED BY <1>9, <2>3, <2>4 DEF DataInv
<1>19. QED BY <1>12, <1>13, <1>17, <1>18 DEF IInv

----------------------------------------------------------------------------
(* The ubatches. *)

LEMMA UbatchFields ==
    ASSUME NEW ub \in Ubatches
    PROVE  DOMAIN ub \subseteq Streams /\ DOMAIN ub # {} /\ \A st \in DOMAIN ub : ub[st] \in Seq(Tokens)
<1>1. PICK S \in (SUBSET Streams) \ {{}} : ub \in [S -> Seq(Tokens)] BY DEF Ubatches
<1>2. QED BY <1>1

LEMMA InfoFields ==
    ASSUME NEW sinfo \in Infos
    PROVE  /\ DOMAIN sinfo \subseteq Streams /\ DOMAIN sinfo # {}
           /\ \A st \in DOMAIN sinfo : sinfo[st] \in Seq(Idx)
<1>1. PICK S \in (SUBSET Streams) \ {{}} : sinfo \in [S -> Seq(Idx)] BY DEF Infos
<1>2. QED BY <1>1

LEMMA LanesFacts ==
    ASSUME NEW todo \in Batches, ~Done(todo)
    PROVE  /\ Lanes(todo) \subseteq Streams /\ Lanes(todo) # {}
           /\ TokensPerLane(todo) \in Nat \ {0}
           /\ \A st \in Lanes(todo) : TokensPerLane(todo) <= Len(todo[st])
<1> DEFINE S == {st \in Streams : todo[st] # <<>>}
           first == Least(S)
           L == Lanes(todo)
           N == {Len(todo[st]) : st \in L}
           short == Least(N)
           fit == NUbatch \div Cardinality(L)
<1>1. Streams \subseteq Nat BY DEF Streams, Seqs
<1>2. first \in S
  <2>1. S # {} /\ S \subseteq Nat BY <1>1 DEF Done
  <2> HIDE DEF S
  <2>2. QED BY <2>1, LeastIn
<1>3. L = {st \in Streams : /\ st \in first..(first + NUbatch)
                             /\ \A r \in first..st : todo[r] # <<>>}
  BY DEF Lanes
<1>4. first \in Streams /\ todo[first] # <<>> /\ first \in Nat BY <1>1, <1>2
<1> HIDE DEF first, L
<1>5. L \subseteq Streams /\ first \in L
  <2>1. \A r \in first..first : r = first BY <1>4
  <2>2. first \in first..(first + NUbatch) BY <1>4, SizesAssumption
  <2>3. QED BY <1>3, <1>4, <2>1, <2>2
<1>6. \A st \in L : todo[st] # <<>>
  <2>1. \A st \in L : st \in first..st BY <1>1, <1>3, <1>4
  <2>2. QED BY <1>3, <2>1
<1>7. \A st \in L : Len(todo[st]) \in Nat \ {0}
  <2>1. \A st \in L : todo[st] \in Seq(Tokens) BY <1>5 DEF Batches
  <2>2. QED BY <1>6, <2>1
<1>8. short \in N /\ \A y \in N : short <= y
  <2>1. N \subseteq Nat /\ N # {} BY <1>5, <1>7
  <2> HIDE DEF N
  <2>2. QED BY <2>1, LeastIn
<1>9. short \in Nat \ {0} /\ \A st \in L : short <= Len(todo[st]) BY <1>7, <1>8
<1>10. Cardinality(L) \in Nat \ {0}
  <2>1. IsFiniteSet(Streams) BY SizesAssumption, FS_Interval DEF Streams, Seqs
  <2>2. IsFiniteSet(L) BY <1>5, <2>1, FS_Subset
  <2>3. Cardinality(L) \in Nat BY <2>2, FS_CardinalityType
  <2>4. Cardinality(L) # 0 BY <1>5, <2>2, FS_EmptySet
  <2>5. QED BY <2>3, <2>4
<1>11. fit \in Nat
  <2> DEFINE m == Cardinality(L)
  <2>1. m \in Nat \ {0} BY <1>10
  <2> HIDE DEF m
  <2>2. NUbatch \div m \in 0..NUbatch BY <2>1, DivPos, SizesAssumption
  <2>3. QED BY <2>2, SizesAssumption DEF m
<1>12. TokensPerLane(todo) = IF fit = 0 THEN 1 ELSE IF short < fit THEN short ELSE fit
  BY DEF TokensPerLane, L
<1> HIDE DEF fit, short
<1>13. TokensPerLane(todo) \in Nat \ {0} /\ \A st \in L : TokensPerLane(todo) <= Len(todo[st])
  BY <1>7, <1>9, <1>11, <1>12
<1>14. QED BY <1>5, <1>13 DEF L

LEMMA NextUbatchFacts ==
    ASSUME NEW todo \in Batches, ~Done(todo)
    PROVE  /\ NextUbatch(todo) \in Ubatches /\ Rest(todo) \in Batches
           /\ \A st \in DOMAIN NextUbatch(todo) : Len(NextUbatch(todo)[st]) > 0
<1> DEFINE L == Lanes(todo)
           t == TokensPerLane(todo)
           ub == NextUbatch(todo)
<1>1. /\ L \subseteq Streams /\ L # {} /\ t \in Nat \ {0}
      /\ \A st \in L : t <= Len(todo[st])
  BY LanesFacts
<1>2. ub = [st \in L |-> SubSeq(todo[st], 1, t)] BY DEF NextUbatch
<1>3. Rest(todo) = [st \in Streams |-> IF st \in L THEN SubSeq(todo[st], t + 1, Len(todo[st]))
                                                     ELSE todo[st]]
  BY DEF Rest
<1> HIDE DEF L, t, ub
<1>4. \A st \in Streams : todo[st] \in Seq(Tokens) BY DEF Batches
<1>5. \A st \in L : SubSeq(todo[st], 1, t) \in Seq(Tokens) /\ Len(SubSeq(todo[st], 1, t)) = t
  <2>1. SUFFICES ASSUME NEW st \in L
                 PROVE  SubSeq(todo[st], 1, t) \in Seq(Tokens) /\ Len(SubSeq(todo[st], 1, t)) = t
    OBVIOUS
  <2>2. todo[st] \in Seq(Tokens) /\ t <= Len(todo[st]) BY <1>1, <1>4
  <2>3. QED BY <1>1, <2>2
<1>6. \A st \in L : SubSeq(todo[st], t + 1, Len(todo[st])) \in Seq(Tokens)
  <2>1. SUFFICES ASSUME NEW st \in L PROVE SubSeq(todo[st], t + 1, Len(todo[st])) \in Seq(Tokens)
    OBVIOUS
  <2>2. todo[st] \in Seq(Tokens) /\ t <= Len(todo[st]) BY <1>1, <1>4
  <2>3. QED BY <1>1, <2>2
<1>7. ub \in [L -> Seq(Tokens)] BY <1>2, <1>5
<1>8. ub \in Ubatches BY <1>1, <1>7 DEF Ubatches
<1>9. Rest(todo) \in Batches BY <1>3, <1>4, <1>6 DEF Batches
<1>10. \A st \in DOMAIN ub : Len(ub[st]) > 0
  <2>1. DOMAIN ub = L BY <1>2
  <2>2. \A st \in L : Len(ub[st]) = t BY <1>2, <1>5
  <2>3. QED BY <1>1, <2>1, <2>2
<1>11. QED BY <1>8, <1>9, <1>10 DEF ub

\* One stream of an ubatch and of its slots.
LEMMA MatchFields ==
    ASSUME NEW ub \in Ubatches, NEW sinfo \in Infos, Matches(ub, sinfo), NEW st \in DOMAIN ub
    PROVE  /\ st \in Streams /\ st \in DOMAIN sinfo /\ Len(ub[st]) \in Nat \ {0}
           /\ Len(sinfo[st]) = Len(ub[st])
           /\ sinfo[st] \in [1..Len(ub[st]) -> Idx] /\ ub[st] \in [1..Len(ub[st]) -> Tokens]
<1>1. st \in Streams /\ ub[st] \in Seq(Tokens) BY UbatchFields
<1>2. st \in DOMAIN sinfo /\ Len(sinfo[st]) = Len(ub[st]) /\ Len(ub[st]) > 0 BY DEF Matches
<1>3. sinfo[st] \in Seq(Idx) BY <1>2, InfoFields
<1> DEFINE u == ub[st]
           v == sinfo[st]
<1>4. u \in Seq(Tokens) /\ v \in Seq(Idx) /\ Len(v) = Len(u) /\ Len(u) > 0 BY <1>1, <1>2, <1>3
<1> HIDE DEF u, v
<1>5. u \in [1..Len(u) -> Tokens] /\ v \in [1..Len(v) -> Idx] /\ Len(u) \in Nat \ {0} BY <1>4
<1>6. QED BY <1>1, <1>2, <1>4, <1>5 DEF u, v

\* Still cells stay still: what Applied does with the cells of one stream.
LEMMA AppliedStill ==
    ASSUME NEW c, Still(c), NEW n \in Nat, NEW idxs \in [1..n -> Idx], NEW toks \in [1..n -> Tokens],
           NEW d, d = Applied(c, idxs, toks)
    PROVE  /\ Still(d)
           /\ \A i \in Idx : i \notin Elems(idxs) => d.pos[i] \in {-1, c.pos[i]}
           /\ \A i \in Elems(idxs) : d.pos[i] \in {-1, toks[PlaceIn(idxs, i)].pos}
           /\ (\A i \in Elems(idxs) : c.pos[i] = -1) =>
                 \A i \in Idx \ Elems(idxs) : d.pos[i] = c.pos[i] /\ d.seq[i] = c.seq[i]
<1>1. Good(c) BY DEF Still
<1>2. Elems(idxs) \subseteq Idx /\ \A i : i \in Elems(idxs) <=> \E j \in 1..n : idxs[j] = i
  BY ElemsOf
<1>3. /\ Good(d) /\ d.has_shift = c.has_shift
      /\ (\A j \in 1..n : c.pos[idxs[j]] = -1) =>
             \A i \in Idx \ Elems(idxs) : d.pos[i] = c.pos[i] /\ d.seq[i] = c.seq[i]
      /\ \A i \in Idx : /\ i \notin Elems(idxs) /\ d.pos[i] # -1 => d.pos[i] = c.pos[i]
                        /\ i \in Elems(idxs) => d.pos[i] \in {-1, toks[PlaceIn(idxs, i)].pos}
  <2> DEFINE a == Applied(c, idxs, toks)
  <2>1. Good(a) /\ a.has_shift = c.has_shift BY <1>1, AppliedGood
  <2>2. ASSUME \A j \in 1..n : c.pos[idxs[j]] = -1
        PROVE  \A i \in Idx \ Elems(idxs) : a.pos[i] = c.pos[i] /\ a.seq[i] = c.seq[i]
    BY <1>1, <2>2, AppliedGood
  <2>3. ASSUME NEW i \in Idx
        PROVE  /\ i \notin Elems(idxs) /\ a.pos[i] # -1 => a.pos[i] = c.pos[i]
               /\ i \in Elems(idxs) => a.pos[i] \in {-1, toks[PlaceIn(idxs, i)].pos}
    BY <1>1, AppliedGood
  <2>4. d = a OBVIOUS
  <2> HIDE DEF a
  <2>5. QED BY <2>1, <2>2, <2>3, <2>4
<1>4. (\A i \in Elems(idxs) : c.pos[i] = -1) => \A j \in 1..n : c.pos[idxs[j]] = -1 BY <1>2
<1>5. Still(d) BY <1>3 DEF Still
<1>6. QED BY <1>2, <1>3, <1>4, <1>5

\* The cells with an ubatch in its slots.
WithUbatch(cw, sinfo, ub) ==
    /\ cw \in [Streams -> Cells]
    /\ \A st \in Streams :
          /\ Still(cw[st]) /\ Touched(sinfo, st) \subseteq Idx
          /\ \A i \in Idx \ Touched(sinfo, st) : cw[st].pos[i] \in {-1, v_cells[st].pos[i]}
          /\ \A i \in Touched(sinfo, st) :
                st \in DOMAIN ub /\ cw[st].pos[i] \in {-1, ub[st][PlaceIn(sinfo[st], i)].pos}
          /\ (\A i \in Touched(sinfo, st) : v_cells[st].pos[i] = -1) =>
                \A i \in Idx \ Touched(sinfo, st) :
                    cw[st].pos[i] = v_cells[st].pos[i] /\ cw[st].seq[i] = v_cells[st].seq[i]

LEMMA CellsWithFacts ==
    ASSUME v_cells \in [Streams -> Cells], \A st \in Streams : Still(v_cells[st]),
           NEW ub \in Ubatches, NEW sinfo \in Infos, Matches(ub, sinfo)
    PROVE  WithUbatch(CellsWith(sinfo, ub), sinfo, ub)
<1> DEFINE cw == CellsWith(sinfo, ub)
<1>1. DOMAIN sinfo = DOMAIN ub BY DEF Matches
<1>2. /\ \A st \in Streams : cw[st] = IF st \in DOMAIN ub THEN Applied(v_cells[st], sinfo[st], ub[st])
                                                          ELSE v_cells[st]
      /\ cw = [st \in Streams |-> cw[st]]
  BY DEF CellsWith
<1> HIDE DEF cw
<1>3. ASSUME NEW st \in Streams
      PROVE  /\ Still(cw[st]) /\ Touched(sinfo, st) \subseteq Idx
             /\ \A i \in Idx \ Touched(sinfo, st) : cw[st].pos[i] \in {-1, v_cells[st].pos[i]}
             /\ \A i \in Touched(sinfo, st) :
                   st \in DOMAIN ub /\ cw[st].pos[i] \in {-1, ub[st][PlaceIn(sinfo[st], i)].pos}
             /\ (\A i \in Touched(sinfo, st) : v_cells[st].pos[i] = -1) =>
                   \A i \in Idx \ Touched(sinfo, st) :
                       cw[st].pos[i] = v_cells[st].pos[i] /\ cw[st].seq[i] = v_cells[st].seq[i]
  <2>1. CASE st \in DOMAIN ub
    <3> DEFINE c == v_cells[st]
               d == cw[st]
               idxs == sinfo[st]
               toks == ub[st]
               n == Len(ub[st])
    <3>1. n \in Nat /\ idxs \in [1..n -> Idx] /\ toks \in [1..n -> Tokens] BY <2>1, MatchFields
    <3>2. Touched(sinfo, st) = Elems(idxs) BY <1>1, <2>1 DEF Touched
    <3>3. Still(c) /\ d = Applied(c, idxs, toks) BY <1>2, <2>1
    <3> HIDE DEF c, d, idxs, toks, n
    <3>4. /\ Still(d)
          /\ \A i \in Idx : i \notin Elems(idxs) => d.pos[i] \in {-1, c.pos[i]}
          /\ \A i \in Elems(idxs) : d.pos[i] \in {-1, toks[PlaceIn(idxs, i)].pos}
          /\ (\A i \in Elems(idxs) : c.pos[i] = -1) =>
                \A i \in Idx \ Elems(idxs) : d.pos[i] = c.pos[i] /\ d.seq[i] = c.seq[i]
      BY <3>1, <3>3, AppliedStill
    <3>5. Elems(idxs) \subseteq Idx BY <3>1, ElemsOf
    <3>6. QED BY <2>1, <3>2, <3>4, <3>5 DEF c, d, idxs, toks
  <2>2. CASE st \notin DOMAIN ub
    <3>1. Touched(sinfo, st) = {} BY <1>1, <2>2 DEF Touched
    <3>2. cw[st] = v_cells[st] BY <1>2, <2>2
    <3>3. QED BY <3>1, <3>2
  <2>3. QED BY <2>1, <2>2
<1>4. cw \in [Streams -> Cells] BY <1>2, <1>3 DEF Still, Good
<1>5. QED BY <1>3, <1>4 DEF WithUbatch, cw

LEMMA HeadsAfterType ==
    ASSUME v_heads \in [Streams -> 0..NCells], NEW ub \in Ubatches, NEW sinfo \in Infos,
           Matches(ub, sinfo)
    PROVE  HeadsAfter(sinfo) \in [Streams -> 0..NCells]
<1>1. ASSUME NEW st \in DOMAIN sinfo PROVE sinfo[st][Len(sinfo[st])] + 1 \in 0..NCells
  <2>1. st \in DOMAIN ub BY DEF Matches
  <2> DEFINE n == Len(ub[st])
             idxs == sinfo[st]
  <2>2. n \in Nat \ {0} /\ idxs \in [1..n -> Idx] /\ Len(idxs) = n BY <2>1, MatchFields
  <2> HIDE DEF n, idxs
  <2>3. idxs[n] \in Idx BY <2>2
  <2>4. idxs[Len(idxs)] + 1 \in 0..NCells BY <2>2, <2>3, SizesAssumption DEF Idx
  <2>5. QED BY <2>4 DEF idxs
<1> DEFINE h(st) == IF st \in DOMAIN sinfo THEN sinfo[st][Len(sinfo[st])] + 1 ELSE v_heads[st]
<1>2. \A st \in Streams : h(st) \in 0..NCells BY <1>1
<1>3. HeadsAfter(sinfo) = [st \in Streams |-> h(st)] BY DEF HeadsAfter
<1> HIDE DEF h
<1>4. QED BY <1>2, <1>3

LEMMA FindSlotFacts ==
    ASSUME NEW ub \in Ubatches, \A st \in DOMAIN ub : Len(ub[st]) > 0, Fits(ub)
    PROVE  /\ find_slot(ub) \in Infos /\ Matches(ub, find_slot(ub))
           /\ conf.n_swa = 0 => \A st \in Streams : \A i \in Touched(find_slot(ub), st) :
                                    v_cells[st].pos[i] = -1
<1> DEFINE sinfo == find_slot(ub)
<1>1. DOMAIN ub \subseteq Streams /\ DOMAIN ub # {} /\ \A st \in DOMAIN ub : ub[st] \in Seq(Tokens)
  BY UbatchFields
<1>2. /\ DOMAIN sinfo = DOMAIN ub /\ sinfo = [st \in DOMAIN ub |-> sinfo[st]]
      /\ \A st \in DOMAIN ub : sinfo[st] = CHOOSE idxs \in SlotsOf(ub, st) : TRUE
  BY DEF find_slot
<1>3. \A st \in DOMAIN ub : SlotsOf(ub, st) # {} BY DEF Fits
<1> HIDE DEF sinfo
<1>4. \A st \in DOMAIN ub : sinfo[st] \in SlotsOf(ub, st) BY <1>2, <1>3
<1>5. ASSUME NEW st \in DOMAIN ub
      PROVE  /\ sinfo[st] \in Seq(Idx) /\ Len(sinfo[st]) = Len(ub[st])
             /\ conf.n_swa = 0 => \A i \in Elems(sinfo[st]) : v_cells[st].pos[i] = -1
  <2> DEFINE idxs == sinfo[st]
             n == Len(ub[st])
  <2>1. n \in Nat BY <1>1
  <2>2. idxs \in Slots(v_cells[st], v_heads[st], n) BY <1>4 DEF SlotsOf
  <2> HIDE DEF idxs, n
  <2>3. /\ idxs \in [1..n -> Idx]
        /\ conf.n_swa = 0 => \A j \in 1..n : v_cells[st].pos[idxs[j]] = -1
    BY <2>1, <2>2, SlotFacts
  <2>4. idxs \in Seq(Idx) /\ Len(idxs) = n BY <2>1, <2>3
  <2>5. \A i : i \in Elems(idxs) <=> \E j \in 1..n : idxs[j] = i BY <2>1, <2>3, ElemsOf
  <2>6. conf.n_swa = 0 => \A i \in Elems(idxs) : v_cells[st].pos[i] = -1 BY <2>3, <2>5
  <2>7. QED BY <2>4, <2>6 DEF idxs, n
<1>6. sinfo \in [DOMAIN ub -> Seq(Idx)] BY <1>2, <1>5
<1>7. sinfo \in Infos BY <1>1, <1>6 DEF Infos
<1>8. Matches(ub, sinfo) BY <1>2, <1>5 DEF Matches
<1>9. conf.n_swa = 0 => \A st \in Streams : \A i \in Touched(sinfo, st) : v_cells[st].pos[i] = -1
  BY <1>2, <1>5 DEF Touched
<1>10. QED BY <1>7, <1>8, <1>9 DEF sinfo

LEMMA Appended ==
    ASSUME NEW S, NEW q \in Seq(S), NEW x \in S, NEW r, r = Append(q, x)
    PROVE  /\ r \in Seq(S) /\ Len(q) \in Nat /\ Len(r) = Len(q) + 1 /\ r[Len(q) + 1] = x
           /\ \A j \in 1..Len(q) : r[j] = q[j]
OBVIOUS

LEMMA UndoableNext ==
    ASSUME conf' = conf, NEW n, n = Len(dec'.states),
           \A st \in Streams, i \in Idx :
              (\A m \in 1..n : i \notin Touched(dec'.sinfos[m], st)) =>
                  Stays(v_cells'[st], dec'.before[st], i),
           \A st \in Streams : \A j \in 1..n : \A i \in Idx :
              (\A m \in 1..(j - 1) : i \notin Touched(dec'.sinfos[m], st)) =>
                  Stays(dec'.states[j].cells[st], dec'.before[st], i)
    PROVE  Undoable'
<1>1. \A st \in Streams, i \in Idx :
         (\A m \in 1..n : i \notin Touched(dec'.sinfos[m], st)) =>
             /\ v_cells'[st].pos[i] \in {-1, dec'.before[st].pos[i]}
             /\ conf'.n_swa = 0 => /\ v_cells'[st].pos[i] = dec'.before[st].pos[i]
                                   /\ v_cells'[st].seq[i] = dec'.before[st].seq[i]
  BY DEF Stays
<1>2. ASSUME NEW st \in Streams, NEW j \in 1..n, NEW i \in Idx,
             \A m \in 1..(j - 1) : i \notin Touched(dec'.sinfos[m], st)
      PROVE  /\ dec'.states[j].cells[st].pos[i] \in {-1, dec'.before[st].pos[i]}
             /\ conf'.n_swa = 0 =>
                    /\ dec'.states[j].cells[st].pos[i] = dec'.before[st].pos[i]
                    /\ dec'.states[j].cells[st].seq[i] = dec'.before[st].seq[i]
  <2>1. Stays(dec'.states[j].cells[st], dec'.before[st], i) BY <1>2
  <2>2. QED BY <2>1 DEF Stays
<1>3. QED BY <1>1, <1>2 DEF Undoable, Intact, Stays

\* An ubatch is placed: its slots are the last, and what they replace is saved.
LEMMA PrepareUbatchStep == ASSUME IInv, PrepareUbatch PROVE IInv'
<1> DEFINE ub == NextUbatch(dec.todo)
           sinfo == find_slot(ub)
           rest == Rest(dec.todo)
           pc2 == IF Done(rest) THEN "restore" ELSE "prepare"
           sv == [heads |-> v_heads, cells |-> [st \in Streams |-> cells_cp(v_cells[st])]]
           N == Len(dec.states)
<1>1. /\ dec.pc = "prepare" /\ Fits(ub)
      /\ v_cells' = CellsWith(sinfo, ub) /\ v_heads' = HeadsAfter(sinfo)
      /\ dec' = [dec EXCEPT !.pc = pc2, !.todo = rest, !.ubs = Append(@, ub),
                            !.sinfos = Append(@, sinfo), !.states = Append(@, sv)]
      /\ calls' = calls /\ conf' = conf /\ sc_info' = sc_info /\ rot' = rot /\ stale' = stale
  BY DEF PrepareUbatch
<1>2. TypeInv /\ CellsInv /\ Progress /\ Decoding /\ Undoable /\ DataInv
  BY <1>1 DEF IInv, DecodeInv
<1>3. dec \in [pc : {"idle", "prepare", "restore", "process"}, todo : Batches \cup {<<>>},
               ubs : Seq(Ubatches), sinfos : Seq(Infos), states : Seq(States), k : Nat,
               before : [Streams -> Cells] \cup {<<>>}]
  BY <1>2 DEF TypeInv, DecType
<1>4. /\ dec.todo \in Batches /\ ~Done(dec.todo) /\ N = Len(dec.sinfos) /\ N = Len(dec.ubs)
      /\ sc_info = <<>> /\ dec.before \in [Streams -> Cells]
      /\ \A st \in Streams : Still(v_cells[st]) /\ Still(dec.before[st])
  BY <1>1, <1>2 DEF Progress, Decoding
<1>5. /\ ub \in Ubatches /\ rest \in Batches
      /\ \A st \in DOMAIN ub : Len(ub[st]) > 0
  BY <1>4, NextUbatchFacts
<1> HIDE DEF ub, rest
<1>6. /\ sinfo \in Infos /\ Matches(ub, sinfo)
      /\ conf.n_swa = 0 => \A st \in Streams : \A i \in Touched(sinfo, st) : v_cells[st].pos[i] = -1
  BY <1>1, <1>5, FindSlotFacts
<1> HIDE DEF sinfo
<1>7. v_cells \in [Streams -> Cells] /\ v_heads \in [Streams -> 0..NCells]
  BY <1>2 DEF TypeInv
<1>8. WithUbatch(v_cells', sinfo, ub) BY <1>1, <1>4, <1>5, <1>6, <1>7, CellsWithFacts
<1>9. v_heads' \in [Streams -> 0..NCells] BY <1>1, <1>5, <1>6, <1>7, HeadsAfterType
<1>10. /\ sv \in States /\ sv.heads = v_heads
       /\ \A st \in Streams : /\ sv.cells[st].pos = v_cells[st].pos
                              /\ sv.cells[st].seq = v_cells[st].seq
  <2> DEFINE cp == [st \in Streams |-> cells_cp(v_cells[st])]
  <2>1. \A st \in Streams : /\ cells_cp(v_cells[st]) \in SavedCells
                            /\ cells_cp(v_cells[st]).pos = v_cells[st].pos
                            /\ cells_cp(v_cells[st]).seq = v_cells[st].seq
    BY <1>7 DEF cells_cp, SavedCells, Cells
  <2>2. cp \in [Streams -> SavedCells] /\ \A st \in Streams : cp[st] = cells_cp(v_cells[st])
    BY <2>1
  <2>3. sv = [heads |-> v_heads, cells |-> cp] OBVIOUS
  <2> HIDE DEF cp, sv
  <2>4. QED BY <1>7, <2>1, <2>2, <2>3 DEF States
<1> HIDE DEF sv
<1>11. /\ dec'.pc = pc2 /\ dec'.todo = rest /\ dec'.ubs = Append(dec.ubs, ub)
       /\ dec'.sinfos = Append(dec.sinfos, sinfo) /\ dec'.states = Append(dec.states, sv)
       /\ dec'.k = dec.k /\ dec'.before = dec.before
  BY <1>1, <1>3
<1>12. DecType'
  <2>1. Append(dec.ubs, ub) \in Seq(Ubatches) BY <1>3, <1>5
  <2>2. Append(dec.sinfos, sinfo) \in Seq(Infos) BY <1>3, <1>6
  <2>3. Append(dec.states, sv) \in Seq(States) BY <1>3, <1>10
  <2>4. pc2 \in {"idle", "prepare", "restore", "process"} OBVIOUS
  <2> HIDE DEF pc2
  <2>5. QED BY <1>1, <1>3, <1>5, <2>1, <2>2, <2>3, <2>4 DEF DecType
<1>13. TypeInv'
  <2>1. v_cells' \in [Streams -> Cells] BY <1>8 DEF WithUbatch
  <2>2. /\ conf' \in Configs /\ sc_info' \in Seq(Pairs) /\ rot' \in [Streams -> [Idx -> Int]]
        /\ stale' \in [Streams -> SUBSET Idx] /\ calls' \in 0..MaxCalls
    BY <1>1, <1>2 DEF TypeInv
  <2>3. QED BY <1>9, <1>12, <2>1, <2>2 DEF TypeInv
<1>14. \A st \in Streams : Still(v_cells'[st]) BY <1>8 DEF WithUbatch
<1>15. CellsInv' BY <1>14 DEF CellsInv, Still
<1>16. /\ N \in Nat /\ Len(dec'.ubs) = N + 1 /\ Len(dec'.sinfos) = N + 1 /\ Len(dec'.states) = N + 1
       /\ \A j \in 1..N : /\ dec'.ubs[j] = dec.ubs[j] /\ dec'.sinfos[j] = dec.sinfos[j]
                          /\ dec'.states[j] = dec.states[j]
       /\ dec'.ubs[N + 1] = ub /\ dec'.sinfos[N + 1] = sinfo /\ dec'.states[N + 1] = sv
  <2>1. dec.ubs \in Seq(Ubatches) /\ dec.sinfos \in Seq(Infos) /\ dec.states \in Seq(States)
    BY <1>3
  <2>2. /\ Len(dec'.ubs) = Len(dec.ubs) + 1 /\ dec'.ubs[Len(dec.ubs) + 1] = ub
        /\ \A j \in 1..Len(dec.ubs) : dec'.ubs[j] = dec.ubs[j]
    BY <1>5, <1>11, <2>1, Appended
  <2>3. /\ Len(dec'.sinfos) = Len(dec.sinfos) + 1 /\ dec'.sinfos[Len(dec.sinfos) + 1] = sinfo
        /\ \A j \in 1..Len(dec.sinfos) : dec'.sinfos[j] = dec.sinfos[j]
    BY <1>6, <1>11, <2>1, Appended
  <2>4. /\ Len(dec'.states) = Len(dec.states) + 1 /\ dec'.states[Len(dec.states) + 1] = sv
        /\ \A j \in 1..Len(dec.states) : dec'.states[j] = dec.states[j]
        /\ Len(dec.states) \in Nat
    BY <1>10, <1>11, <2>1, Appended
  <2>5. QED BY <1>4, <2>2, <2>3, <2>4
<1> HIDE DEF N
<1>17. Decoding'
  <2>1. \A j \in 1..(N + 1) : Matches(dec'.ubs[j], dec'.sinfos[j])
    <3>1. \A j \in 1..N : Matches(dec.ubs[j], dec.sinfos[j]) BY <1>2, <1>4, <1>16 DEF Decoding
    <3>2. QED BY <1>6, <1>16, <3>1
  <2>2. \A j \in 1..(N + 1) : \A st \in Streams, i \in Idx :
           dec'.states[j].cells[st].pos[i] = -1 <=> dec'.states[j].cells[st].seq[i] = {}
    <3>1. \A j \in 1..N : \A st \in Streams, i \in Idx :
             dec.states[j].cells[st].pos[i] = -1 <=> dec.states[j].cells[st].seq[i] = {}
      BY <1>2 DEF Decoding, N
    <3>2. \A st \in Streams, i \in Idx : sv.cells[st].pos[i] = -1 <=> sv.cells[st].seq[i] = {}
      BY <1>4, <1>10 DEF Still, Good, Sound
    <3>3. QED BY <1>16, <3>1, <3>2
  <2>3. QED BY <1>1, <1>4, <1>5, <1>11, <1>14, <1>16, <2>1, <2>2 DEF Decoding
<1>18. Progress' BY <1>11, <1>16 DEF Progress
<1>19. Undoable'
  <2>1. \A st \in Streams, i \in Idx :
           (\A m \in 1..(N + 1) : i \notin Touched(dec'.sinfos[m], st)) =>
               Stays(v_cells'[st], dec.before[st], i)
    <3>1. SUFFICES ASSUME NEW st \in Streams, NEW i \in Idx,
                          \A m \in 1..(N + 1) : i \notin Touched(dec'.sinfos[m], st)
                   PROVE  Stays(v_cells'[st], dec.before[st], i)
      OBVIOUS
    <3>2. i \notin Touched(sinfo, st) /\ \A m \in 1..N : i \notin Touched(dec.sinfos[m], st)
      BY <1>16, <3>1
    <3>3. Stays(v_cells[st], dec.before[st], i) BY <1>2, <3>2 DEF Undoable, Intact, N
    <3>4. v_cells'[st].pos[i] \in {-1, v_cells[st].pos[i]} BY <1>8, <3>2 DEF WithUbatch
    <3>5. conf.n_swa = 0 => /\ v_cells'[st].pos[i] = v_cells[st].pos[i]
                            /\ v_cells'[st].seq[i] = v_cells[st].seq[i]
      BY <1>6, <1>8, <3>2 DEF WithUbatch
    <3>6. QED BY <3>3, <3>4, <3>5 DEF Stays
  <2>2. \A st \in Streams : \A j \in 1..(N + 1) : \A i \in Idx :
           (\A m \in 1..(j - 1) : i \notin Touched(dec'.sinfos[m], st)) =>
               Stays(dec'.states[j].cells[st], dec.before[st], i)
    <3>1. SUFFICES ASSUME NEW st \in Streams, NEW j \in 1..(N + 1), NEW i \in Idx,
                          \A m \in 1..(j - 1) : i \notin Touched(dec'.sinfos[m], st)
                   PROVE  Stays(dec'.states[j].cells[st], dec.before[st], i)
      OBVIOUS
    <3>2. \A m \in 1..(j - 1) : m \in 1..N BY <1>16
    <3>3. \A m \in 1..(j - 1) : i \notin Touched(dec.sinfos[m], st) BY <1>16, <3>1, <3>2
    <3>4. CASE j \in 1..N
      <4>1. Stays(dec.states[j].cells[st], dec.before[st], i)
        BY <1>2, <3>3, <3>4 DEF Undoable, Intact, N
      <4>2. QED BY <1>16, <3>4, <4>1
    <3>5. CASE j = N + 1
      <4>1. \A m \in 1..N : i \notin Touched(dec.sinfos[m], st) BY <1>16, <3>3, <3>5
      <4>2. Stays(v_cells[st], dec.before[st], i) BY <1>2, <4>1 DEF Undoable, Intact, N
      <4>3. QED BY <1>10, <1>16, <3>5, <4>2 DEF Stays
    <3>6. QED BY <1>16, <3>4, <3>5
  <2>3. QED BY <1>1, <1>11, <1>16, <2>1, <2>2, UndoableNext
<1>20. DecodeInv' BY <1>17, <1>18, <1>19 DEF DecodeInv
<1>21. DataInv'
  <2>1. \A st \in Streams : DataAt(dec.before[st], st) BY <1>1, <1>2 DEF DataInv
  <2>2. \A st \in Streams : DataAt(dec.before[st], st)' BY <1>1, <1>11, <2>1 DEF DataAt
  <2>3. dec'.pc \in {"prepare", "restore"} BY <1>11
  <2>4. KInPlace' BY <2>3 DEF KInPlace
  <2>5. QED BY <2>2, <2>3, <2>4 DEF DataInv
<1>22. QED BY <1>13, <1>15, <1>20, <1>21 DEF IInv

\* A decode is over, with nothing pending and the data in place.
LEMMA IdleStep ==
    ASSUME conf' \in Configs, calls' \in 0..MaxCalls, dec' = Idle, sc_info' = <<>>,
           v_cells' \in [Streams -> Cells], \A st \in Streams : Still(v_cells'[st]),
           v_heads' \in [Streams -> 0..NCells], rot' \in [Streams -> [Idx -> Int]],
           stale' \in [Streams -> SUBSET Idx],
           \A st \in Streams, i \in Idx :
              i \notin stale'[st] /\ v_cells'[st].pos[i] # -1 => rot'[st][i] = v_cells'[st].pos[i]
    PROVE  IInv'
<1>1. dec'.pc = "idle" BY DEF Idle
<1>2. DecType'
  <2>1. /\ "idle" \in {"idle", "prepare", "restore", "process"} /\ <<>> \in {<<>>}
        /\ <<>> \in Seq(Ubatches) /\ <<>> \in Seq(Infos) /\ <<>> \in Seq(States) /\ 0 \in Nat
    OBVIOUS
  <2>2. QED BY <2>1 DEF DecType, Idle
<1>3. sc_info' \in Seq(Pairs) OBVIOUS
<1>4. TypeInv' BY <1>2, <1>3 DEF TypeInv
<1>5. CellsInv' BY DEF CellsInv, Still
<1>6. DecodeInv' BY <1>1 DEF DecodeInv, Progress
<1>7. Copied' = rot' BY CopiedIs, CopyAllEmpty
<1>8. ASSUME NEW st \in Streams, NEW i \in Idx, i \notin stale'[st], i \in v_cells'[st].used
      PROVE  Copied'[st][i] = v_cells'[st].pos[i] - v_cells'[st].shift[i]
  <2>1. Still(v_cells'[st]) OBVIOUS
  <2>2. v_cells'[st].pos[i] # -1 /\ v_cells'[st].shift[i] = 0
    BY <1>8, <2>1 DEF Still, Good, Sound
  <2>3. v_cells'[st].pos[i] \in Int BY <2>1, CellsRaw DEF Still, Good, Raw
  <2>4. rot'[st][i] = v_cells'[st].pos[i] BY <1>8, <2>2
  <2>5. QED BY <1>7, <2>2, <2>3, <2>4
<1>9. KInPlace' BY <1>8 DEF KInPlace, InPlace
<1>10. DataInv' BY <1>1, <1>9 DEF DataInv
<1>11. QED BY <1>4, <1>5, <1>6, <1>10 DEF IInv

LEMMA PrepareFailStep == ASSUME IInv, PrepareFail PROVE IInv'
<1>1. /\ dec.pc = "prepare"
      /\ dec' = IF dec.states = <<>> THEN Idle ELSE [dec EXCEPT !.pc = "restore"]
      /\ calls' = calls /\ conf' = conf /\ v_cells' = v_cells /\ v_heads' = v_heads
      /\ sc_info' = sc_info /\ rot' = rot /\ stale' = stale
  BY DEF PrepareFail
<1>2. TypeInv /\ CellsInv /\ Progress /\ Decoding /\ Undoable /\ DataInv
  BY <1>1 DEF IInv, DecodeInv
<1>3. dec \in [pc : {"idle", "prepare", "restore", "process"}, todo : Batches \cup {<<>>},
               ubs : Seq(Ubatches), sinfos : Seq(Infos), states : Seq(States), k : Nat,
               before : [Streams -> Cells] \cup {<<>>}]
  BY <1>2 DEF TypeInv, DecType
<1>4. \A st \in Streams : DataAt(dec.before[st], st) BY <1>1, <1>2 DEF DataInv
<1>5. CASE dec.states = <<>>
  <2>1. dec' = Idle BY <1>1, <1>5
  <2>2. Len(dec.states) = 0 BY <1>5
  <2>3. ASSUME NEW st \in Streams, NEW i \in Idx, i \notin stale'[st], v_cells'[st].pos[i] # -1
        PROVE  rot'[st][i] = v_cells'[st].pos[i]
    <3>1. Stays(v_cells[st], dec.before[st], i) BY <1>2, <2>2 DEF Undoable, Intact
    <3>2. v_cells[st].pos[i] = dec.before[st].pos[i] BY <1>1, <2>3, <3>1 DEF Stays
    <3>3. QED BY <1>1, <1>4, <2>3, <3>2 DEF DataAt
  <2>4. /\ conf' \in Configs /\ calls' \in 0..MaxCalls /\ v_cells' \in [Streams -> Cells]
        /\ v_heads' \in [Streams -> 0..NCells] /\ rot' \in [Streams -> [Idx -> Int]]
        /\ stale' \in [Streams -> SUBSET Idx]
    BY <1>1, <1>2 DEF TypeInv
  <2>5. sc_info' = <<>> /\ \A st \in Streams : Still(v_cells'[st]) BY <1>1, <1>2 DEF Decoding
  <2>6. QED BY <2>1, <2>3, <2>4, <2>5, IdleStep
<1>6. CASE dec.states # <<>>
  <2>1. dec' = [dec EXCEPT !.pc = "restore"] BY <1>1, <1>6
  <2>2. /\ dec'.pc = "restore" /\ dec'.todo = dec.todo /\ dec'.ubs = dec.ubs
        /\ dec'.sinfos = dec.sinfos /\ dec'.states = dec.states /\ dec'.k = dec.k
        /\ dec'.before = dec.before
    BY <1>3, <2>1
  <2>3. DecType' BY <1>3, <2>1 DEF DecType
  <2>4. TypeInv' BY <1>1, <1>2, <2>3 DEF TypeInv
  <2>5. CellsInv' BY <1>1, <1>2 DEF CellsInv
  <2>6. Decoding' BY <1>1, <1>2, <2>2 DEF Decoding
  <2>7. Progress'
    <3>1. dec.states \in Seq(States) BY <1>3
    <3>2. Len(dec.states) \in Nat /\ Len(dec.states) # 0 BY <1>6, <3>1
    <3>3. Len(dec.states) = Len(dec.sinfos) BY <1>1, <1>2 DEF Progress
    <3>4. QED BY <2>2, <3>2, <3>3 DEF Progress
  <2>8. Undoable'
    <3> DEFINE n == Len(dec.states)
    <3>1. \A st \in Streams, i \in Idx :
             (\A m \in 1..n : i \notin Touched(dec.sinfos[m], st)) =>
                 Stays(v_cells[st], dec.before[st], i)
      BY <1>2 DEF Undoable, Intact
    <3>2. \A st \in Streams : \A j \in 1..n : \A i \in Idx :
             (\A m \in 1..(j - 1) : i \notin Touched(dec.sinfos[m], st)) =>
                 Stays(dec.states[j].cells[st], dec.before[st], i)
      BY <1>2 DEF Undoable, Intact
    <3>3. n = Len(dec'.states) BY <2>2
    <3> HIDE DEF n
    <3>4. QED BY <1>1, <2>2, <3>1, <3>2, <3>3, UndoableNext
  <2>9. DecodeInv' BY <2>6, <2>7, <2>8 DEF DecodeInv
  <2>10. KInPlace' BY <2>2 DEF KInPlace
  <2>11. DataInv' BY <1>1, <1>4, <2>2, <2>10 DEF DataInv, DataAt
  <2>12. QED BY <2>4, <2>5, <2>9, <2>11 DEF IInv
<1>7. QED BY <1>5, <1>6

\* The last placement is undone.
Undone(n) ==
    /\ n = Len(dec.states) /\ n \in 1..Len(dec.sinfos)
    /\ v_cells' \in [Streams -> Cells] /\ v_heads' \in [Streams -> 0..NCells]
    /\ \A st \in Streams : Still(v_cells'[st])
    /\ \A st \in Streams, i \in Idx :
          (\A m \in 1..(n - 1) : i \notin Touched(dec.sinfos[m], st)) =>
              Stays(v_cells'[st], dec.before[st], i)

LEMMA RestoreUndoes == ASSUME IInv, Restore PROVE Undone(Len(dec.states))
<1> DEFINE n == Len(dec.states)
           sinfo == dec.sinfos[n]
           old == dec.states[n]
           first == Least(DOMAIN sinfo)
<1>1. /\ dec.pc = "restore"
      /\ v_cells' = [st \in Streams |->
             IF st \in DOMAIN sinfo
             THEN cells_set(v_cells[st], Elems(sinfo[st]), old.cells[st]) ELSE v_cells[st]]
      /\ v_heads' = [st \in Streams |->
             IF st \in DOMAIN sinfo THEN old.heads[st - first] ELSE v_heads[st]]
  BY DEF Restore
<1>2. TypeInv /\ Progress /\ Decoding /\ Undoable BY <1>1 DEF IInv, DecodeInv
<1>3. dec.states \in Seq(States) /\ dec.sinfos \in Seq(Infos) BY <1>2 DEF TypeInv, DecType
<1>4. n \in 1..Len(dec.sinfos) BY <1>1, <1>2 DEF Progress
<1>5. /\ n \in Nat /\ n >= 1 /\ sinfo \in Infos /\ old \in States
      /\ \A st \in Streams, i \in Idx : old.cells[st].pos[i] = -1 <=> old.cells[st].seq[i] = {}
  <2>1. n \in Nat /\ n >= 1 /\ n \in 1..n BY <1>3, <1>4
  <2>2. sinfo \in Infos /\ old \in States BY <1>3, <1>4, <2>1
  <2>3. QED BY <1>2, <2>1, <2>2 DEF Decoding
<1>6. \A st \in Streams, i \in Idx :
         (\A m \in 1..n : i \notin Touched(dec.sinfos[m], st)) => Stays(v_cells[st], dec.before[st], i)
  BY <1>2 DEF Undoable, Intact
<1>7. \A st \in Streams, i \in Idx :
         (\A m \in 1..(n - 1) : i \notin Touched(dec.sinfos[m], st)) =>
             Stays(old.cells[st], dec.before[st], i)
  BY <1>2, <1>5 DEF Undoable, Intact
<1>8. /\ v_cells \in [Streams -> Cells] /\ v_heads \in [Streams -> 0..NCells]
      /\ \A st \in Streams : Still(v_cells[st])
  BY <1>2 DEF TypeInv, Decoding
<1>9. /\ DOMAIN sinfo \subseteq Streams /\ DOMAIN sinfo # {}
      /\ \A st \in DOMAIN sinfo : sinfo[st] \in Seq(Idx)
  BY <1>5, InfoFields
<1>10. \A m \in 1..n : m \in 1..(n - 1) \/ m = n BY <1>5
<1>12. ASSUME NEW st \in Streams
       PROVE  /\ Still(v_cells'[st])
              /\ \A i \in Idx :
                    (\A m \in 1..(n - 1) : i \notin Touched(dec.sinfos[m], st)) =>
                        Stays(v_cells'[st], dec.before[st], i)
  <2>1. CASE st \in DOMAIN sinfo
    <3> DEFINE c == v_cells[st]
               H == Elems(sinfo[st])
               o == old.cells[st]
               d == cells_set(c, H, o)
    <3>1. v_cells'[st] = d BY <1>1, <2>1
    <3>2. H \subseteq Idx BY <1>9, <2>1 DEF Elems
    <3>3. Good(c) /\ \A i \in Idx : c.shift[i] = 0 BY <1>8 DEF Still, Good, Sound
    <3>4. o \in SavedCells BY <1>5 DEF States
    <3>5. \A i \in Idx : o.pos[i] = -1 <=> o.seq[i] = {} BY <1>5
    <3>6. H = Touched(dec.sinfos[n], st) BY <2>1 DEF Touched
    <3>7. ~c.has_shift BY <1>8 DEF Still
    <3>8. \A i \in Idx : (\A m \in 1..(n - 1) : i \notin Touched(dec.sinfos[m], st)) =>
                             Stays(o, dec.before[st], i)
      BY <1>7
    <3>9. \A i \in Idx : (\A m \in 1..n : i \notin Touched(dec.sinfos[m], st)) =>
                             Stays(c, dec.before[st], i)
      BY <1>6
    <3> HIDE DEF c, H, o, n
    <3>10. /\ Good(d) /\ d.has_shift = c.has_shift
           /\ \A i \in Idx : /\ d.pos[i] = IF i \in H THEN o.pos[i] ELSE c.pos[i]
                             /\ d.seq[i] = IF i \in H THEN o.seq[i] ELSE c.seq[i]
      BY <3>2, <3>3, <3>4, <3>5, CellsSetGood
    <3> HIDE DEF d
    <3>11. Still(d) BY <3>7, <3>10 DEF Still
    <3>12. ASSUME NEW i \in Idx, \A m \in 1..(n - 1) : i \notin Touched(dec.sinfos[m], st)
           PROVE  Stays(d, dec.before[st], i)
      <4>1. CASE i \in H
        <5>1. Stays(o, dec.before[st], i) BY <3>8, <3>12
        <5>2. d.pos[i] = o.pos[i] /\ d.seq[i] = o.seq[i] BY <3>10, <4>1
        <5>3. QED BY <5>1, <5>2 DEF Stays
      <4>2. CASE i \notin H
        <5>1. \A m \in 1..n : i \notin Touched(dec.sinfos[m], st) BY <1>10, <3>6, <3>12, <4>2
        <5>2. Stays(c, dec.before[st], i) BY <3>9, <5>1
        <5>3. d.pos[i] = c.pos[i] /\ d.seq[i] = c.seq[i] BY <3>10, <4>2
        <5>4. QED BY <5>2, <5>3 DEF Stays
      <4>3. QED BY <4>1, <4>2
    <3>13. QED BY <3>1, <3>11, <3>12
  <2>2. CASE st \notin DOMAIN sinfo
    <3>1. v_cells'[st] = v_cells[st] BY <1>1, <2>2
    <3>2. Touched(dec.sinfos[n], st) = {} BY <2>2 DEF Touched
    <3> HIDE DEF n
    <3>3. ASSUME NEW i \in Idx, \A m \in 1..(n - 1) : i \notin Touched(dec.sinfos[m], st)
          PROVE  Stays(v_cells[st], dec.before[st], i)
      <4>1. \A m \in 1..n : i \notin Touched(dec.sinfos[m], st) BY <1>10, <3>2, <3>3
      <4>2. QED BY <1>6, <4>1
    <3>4. QED BY <1>8, <3>1, <3>3
  <2>3. QED BY <2>1, <2>2
<1>13. v_cells' \in [Streams -> Cells]
  <2> DEFINE d(st) == IF st \in DOMAIN sinfo
                      THEN cells_set(v_cells[st], Elems(sinfo[st]), old.cells[st]) ELSE v_cells[st]
  <2>1. v_cells' = [st \in Streams |-> d(st)] BY <1>1
  <2> HIDE DEF d
  <2>2. \A st \in Streams : v_cells'[st] = d(st) BY <2>1
  <2>3. \A st \in Streams : d(st) \in Cells BY <1>12, <2>2 DEF Still, Good
  <2>4. QED BY <2>1, <2>3
<1>14. v_heads' \in [Streams -> 0..NCells]
  <2>1. Streams \subseteq Nat BY DEF Streams, Seqs
  <2>2. first \in DOMAIN sinfo /\ \A st \in DOMAIN sinfo : first <= st BY <1>9, <2>1, LeastIn
  <2> HIDE DEF first
  <2>3. \A st \in DOMAIN sinfo : st - first \in Streams
    BY <1>9, <2>2, SizesAssumption DEF Streams, Seqs
  <2>4. old.heads \in [Streams -> 0..NCells] BY <1>5 DEF States
  <2> HIDE DEF sinfo, old, n
  <2>5. \A st \in Streams : (IF st \in DOMAIN sinfo THEN old.heads[st - first] ELSE v_heads[st])
                                \in 0..NCells
    BY <1>8, <2>3, <2>4
  <2>6. QED BY <1>1, <2>5
<1> HIDE DEF n
<1>15. Undone(n) BY <1>4, <1>12, <1>13, <1>14 DEF Undone, n
<1>16. QED BY <1>15 DEF n

LEMMA RestoreStep == ASSUME IInv, Restore PROVE IInv'
<1> DEFINE n == Len(dec.states)
<1>1. /\ dec.pc = "restore"
      /\ dec' = (IF n > 1 THEN [dec EXCEPT !.states = SubSeq(@, 1, n - 1)]
                 ELSE IF ~Done(dec.todo) THEN Idle
                 ELSE [dec EXCEPT !.pc = "process", !.states = <<>>, !.k = 1])
      /\ calls' = calls /\ conf' = conf /\ sc_info' = sc_info /\ rot' = rot /\ stale' = stale
  BY DEF Restore
<1>2. TypeInv /\ Progress /\ Decoding /\ Undoable /\ DataInv BY <1>1 DEF IInv, DecodeInv
<1>3. dec \in [pc : {"idle", "prepare", "restore", "process"}, todo : Batches \cup {<<>>},
               ubs : Seq(Ubatches), sinfos : Seq(Infos), states : Seq(States), k : Nat,
               before : [Streams -> Cells] \cup {<<>>}]
  BY <1>2 DEF TypeInv, DecType
<1>4. dec.states \in Seq(States) /\ dec.sinfos \in Seq(Infos) /\ dec.ubs \in Seq(Ubatches) BY <1>3
<1>5. Undone(n) BY RestoreUndoes
<1>6. /\ n \in Nat /\ n \in 1..Len(dec.sinfos) /\ n >= 1
      /\ v_cells' \in [Streams -> Cells] /\ v_heads' \in [Streams -> 0..NCells]
      /\ \A st \in Streams : Still(v_cells'[st])
      /\ \A st \in Streams, i \in Idx :
            (\A m \in 1..(n - 1) : i \notin Touched(dec.sinfos[m], st)) =>
                Stays(v_cells'[st], dec.before[st], i)
  <2>1. n \in Nat BY <1>4
  <2> HIDE DEF n
  <2>2. n \in 1..Len(dec.sinfos) BY <1>5 DEF Undone
  <2>3. n >= 1 BY <2>2
  <2>4. QED BY <1>5, <2>1, <2>2, <2>3 DEF Undone
<1>7. /\ conf' \in Configs /\ calls' \in 0..MaxCalls /\ rot' \in [Streams -> [Idx -> Int]]
      /\ stale' \in [Streams -> SUBSET Idx] /\ sc_info' \in Seq(Pairs)
  BY <1>1, <1>2 DEF TypeInv
<1>8. sc_info' = <<>> BY <1>1, <1>2 DEF Decoding
<1>9. CellsInv' BY <1>6 DEF CellsInv, Still
<1>10. \A st \in Streams : DataAt(dec.before[st], st) BY <1>1, <1>2 DEF DataInv
<1>11. /\ dec.todo \in Batches /\ dec.before \in [Streams -> Cells]
       /\ \A st \in Streams : Still(dec.before[st])
       /\ Len(dec.ubs) = Len(dec.sinfos)
       /\ \A j \in 1..Len(dec.ubs) : Matches(dec.ubs[j], dec.sinfos[j])
       /\ \A j \in 1..n : \A st \in Streams, i \in Idx :
             dec.states[j].cells[st].pos[i] = -1 <=> dec.states[j].cells[st].seq[i] = {}
  BY <1>2 DEF Decoding
<1>12. \A st \in Streams : \A j \in 1..n : \A i \in Idx :
          (\A m \in 1..(j - 1) : i \notin Touched(dec.sinfos[m], st)) =>
              Stays(dec.states[j].cells[st], dec.before[st], i)
  BY <1>2 DEF Undoable, Intact
<1>13. n = 1 => \A st \in Streams, i \in Idx : Stays(v_cells'[st], dec.before[st], i) BY <1>6
<1>14. n = 1 => \A st \in Streams, i \in Idx :
          i \notin stale'[st] /\ v_cells'[st].pos[i] # -1 => rot'[st][i] = v_cells'[st].pos[i]
  BY <1>1, <1>10, <1>13 DEF DataAt, Stays
<1>15. CASE n > 1
  <2> DEFINE q == SubSeq(dec.states, 1, n - 1)
  <2>1. q \in Seq(States) /\ Len(q) = n - 1 /\ \A j \in 1..(n - 1) : q[j] = dec.states[j]
    BY <1>4, <1>6, <1>15
  <2>2. dec' = [dec EXCEPT !.states = q] BY <1>1, <1>15
  <2> HIDE DEF q, n
  <2>3. DecType' BY <1>3, <2>1, <2>2 DEF DecType
  <2>4. /\ dec'.pc = "restore" /\ dec'.todo = dec.todo /\ dec'.ubs = dec.ubs
        /\ dec'.sinfos = dec.sinfos /\ dec'.states = q /\ dec'.k = dec.k
        /\ dec'.before = dec.before
    BY <1>1, <1>3, <2>2
  <2>5. TypeInv' BY <1>6, <1>7, <2>3 DEF TypeInv
  <2>6. \A j \in 1..(n - 1) : j \in 1..n BY <1>6
  <2>7. Decoding'
    <3>1. \A j \in 1..Len(dec'.states) : \A st \in Streams, i \in Idx :
             dec'.states[j].cells[st].pos[i] = -1 <=> dec'.states[j].cells[st].seq[i] = {}
      BY <1>11, <2>1, <2>4, <2>6
    <3>2. QED BY <1>6, <1>8, <1>11, <2>4, <3>1 DEF Decoding
  <2>8. Progress' BY <1>6, <1>15, <2>1, <2>4 DEF Progress
  <2>9. Undoable'
    <3>1. \A st \in Streams : \A j \in 1..(n - 1) : \A i \in Idx :
             (\A m \in 1..(j - 1) : i \notin Touched(dec.sinfos[m], st)) =>
                 Stays(q[j].cells[st], dec.before[st], i)
      BY <1>12, <2>1, <2>6
    <3>2. n - 1 = Len(dec'.states) BY <2>1, <2>4
    <3> DEFINE r == n - 1
    <3> HIDE DEF r
    <3>3. r = n - 1 BY DEF r
    <3>4. QED BY <1>1, <1>6, <2>4, <3>1, <3>2, <3>3, UndoableNext
  <2>10. DecodeInv' BY <2>7, <2>8, <2>9 DEF DecodeInv
  <2>11. KInPlace' BY <2>4 DEF KInPlace
  <2>12. DataInv' BY <1>1, <1>10, <2>4, <2>11 DEF DataInv, DataAt
  <2>13. QED BY <1>9, <2>5, <2>10, <2>12 DEF IInv
<1>16. CASE n = 1 /\ ~Done(dec.todo)
  <2>1. dec' = Idle BY <1>1, <1>16
  <2>2. QED BY <1>6, <1>7, <1>8, <1>14, <1>16, <2>1, IdleStep
<1>17. CASE n = 1 /\ Done(dec.todo)
  <2>1. dec' = [dec EXCEPT !.pc = "process", !.states = <<>>, !.k = 1] BY <1>1, <1>17
  <2>2. "process" \in {"idle", "prepare", "restore", "process"} /\ <<>> \in Seq(States) /\ 1 \in Nat
    OBVIOUS
  <2>3. DecType' BY <1>3, <2>1, <2>2 DEF DecType
  <2>4. /\ dec'.pc = "process" /\ dec'.todo = dec.todo /\ dec'.ubs = dec.ubs
        /\ dec'.sinfos = dec.sinfos /\ dec'.states = <<>> /\ dec'.k = 1
        /\ dec'.before = dec.before
    BY <1>3, <2>1
  <2>5. TypeInv' BY <1>6, <1>7, <2>3 DEF TypeInv
  <2>6. Decoding'
    <3>1. Len(dec'.states) = 0 BY <2>4
    <3>2. QED BY <1>6, <1>8, <1>11, <2>4, <3>1 DEF Decoding
  <2>7. Progress' BY <1>6, <1>11, <2>4 DEF Progress
  <2>8. DecodeInv' BY <2>4, <2>6, <2>7 DEF DecodeInv
  <2>9. KInPlace' BY <2>4 DEF KInPlace
  <2>10. DataInv' BY <1>14, <1>17, <2>4, <2>9 DEF DataInv, DataAt
  <2>11. QED BY <1>9, <2>5, <2>8, <2>10 DEF IInv
<1> HIDE DEF n
<1>18. n > 1 \/ n = 1 BY <1>6
<1>19. QED BY <1>15, <1>16, <1>17, <1>18

\* The ubatch that is processed, and its slots.
LEMMA ProcessFields ==
    ASSUME IInv, dec.pc = "process"
    PROVE  /\ dec.k \in 1..Len(dec.ubs) /\ Len(dec.ubs) \in Nat
           /\ dec.ubs[dec.k] \in Ubatches /\ dec.sinfos[dec.k] \in Infos
           /\ Matches(dec.ubs[dec.k], dec.sinfos[dec.k])
           /\ v_cells \in [Streams -> Cells] /\ v_heads \in [Streams -> 0..NCells]
           /\ \A st \in Streams : Still(v_cells[st]) /\ DataAt(v_cells[st], st)
           /\ sc_info = <<>> /\ Decoding /\ TypeInv
           /\ rot \in [Streams -> [Idx -> Int]] /\ stale \in [Streams -> SUBSET Idx]
<1>1. TypeInv /\ Progress /\ Decoding /\ DataInv BY DEF IInv, DecodeInv
<1>2. dec.ubs \in Seq(Ubatches) /\ dec.sinfos \in Seq(Infos) BY <1>1 DEF TypeInv, DecType
<1>3. dec.k \in 1..Len(dec.ubs) BY <1>1 DEF Progress
<1>4. Len(dec.ubs) = Len(dec.sinfos) BY <1>1 DEF Decoding
<1>5. dec.ubs[dec.k] \in Ubatches /\ dec.sinfos[dec.k] \in Infos BY <1>2, <1>3, <1>4
<1>6. Matches(dec.ubs[dec.k], dec.sinfos[dec.k]) BY <1>1, <1>3 DEF Decoding
<1>7. \A st \in Streams : Still(v_cells[st]) /\ DataAt(v_cells[st], st)
  BY <1>1 DEF Decoding, DataInv
<1>8. Len(dec.ubs) \in Nat BY <1>2
<1>9. sc_info = <<>> BY <1>1 DEF Decoding
<1>10. QED BY <1>1, <1>3, <1>5, <1>6, <1>7, <1>8, <1>9 DEF TypeInv

LEMMA ProcessUbatchStep == ASSUME IInv, ProcessUbatch PROVE IInv'
<1> DEFINE ub == dec.ubs[dec.k]
           sinfo == dec.sinfos[dec.k]
<1>1. /\ dec.pc = "process"
      /\ v_cells' = CellsWith(sinfo, ub) /\ v_heads' = HeadsAfter(sinfo)
      /\ rot' = [st \in Streams |->
             IF st \in DOMAIN ub THEN RotAfter(rot[st], sinfo[st], ub[st]) ELSE rot[st]]
      /\ dec' = (IF dec.k = Len(dec.ubs) THEN Idle ELSE [dec EXCEPT !.k = @ + 1])
      /\ stale' = [st \in Streams |-> stale[st] \ Touched(sinfo, st)]
      /\ calls' = calls /\ conf' = conf /\ sc_info' = sc_info
  BY DEF ProcessUbatch
<1>2. /\ dec.k \in 1..Len(dec.ubs) /\ Len(dec.ubs) \in Nat
      /\ ub \in Ubatches /\ sinfo \in Infos /\ Matches(ub, sinfo)
      /\ v_cells \in [Streams -> Cells] /\ v_heads \in [Streams -> 0..NCells]
      /\ \A st \in Streams : Still(v_cells[st]) /\ DataAt(v_cells[st], st)
      /\ sc_info = <<>> /\ Decoding /\ TypeInv
      /\ rot \in [Streams -> [Idx -> Int]] /\ stale \in [Streams -> SUBSET Idx]
  BY <1>1, ProcessFields
<1> HIDE DEF ub, sinfo
<1>3. WithUbatch(v_cells', sinfo, ub) BY <1>1, <1>2, CellsWithFacts
<1>4. v_heads' \in [Streams -> 0..NCells] BY <1>1, <1>2, HeadsAfterType
<1>5. v_cells' \in [Streams -> Cells] /\ \A st \in Streams : Still(v_cells'[st])
  BY <1>3 DEF WithUbatch
<1>6. rot' \in [Streams -> [Idx -> Int]]
  <2> DEFINE r(st) == IF st \in DOMAIN ub THEN RotAfter(rot[st], sinfo[st], ub[st]) ELSE rot[st]
  <2>1. ASSUME NEW st \in Streams PROVE r(st) \in [Idx -> Int]
    <3>1. rot[st] \in [Idx -> Int] BY <1>2
    <3>2. CASE st \in DOMAIN ub
      <4>1. /\ Len(ub[st]) \in Nat /\ sinfo[st] \in [1..Len(ub[st]) -> Idx]
            /\ ub[st] \in [1..Len(ub[st]) -> Tokens]
        BY <1>2, <3>2, MatchFields
      <4>2. RotAfter(rot[st], sinfo[st], ub[st]) \in [Idx -> Int] BY <3>1, <4>1, RotAfterType
      <4>3. QED BY <3>2, <4>2
    <3>3. QED BY <3>1, <3>2
  <2>2. rot' = [st \in Streams |-> r(st)] BY <1>1
  <2> HIDE DEF r
  <2>3. QED BY <2>1, <2>2
<1>7. stale' \in [Streams -> SUBSET Idx] BY <1>1, <1>2
<1>8. \A st \in Streams, i \in Idx :
         i \notin stale'[st] /\ v_cells'[st].pos[i] # -1 => rot'[st][i] = v_cells'[st].pos[i]
  <2>1. SUFFICES ASSUME NEW st \in Streams, NEW i \in Idx, i \notin stale'[st],
                        v_cells'[st].pos[i] # -1
                 PROVE  rot'[st][i] = v_cells'[st].pos[i]
    OBVIOUS
  <2>2. i \notin stale[st] \/ i \in Touched(sinfo, st) BY <1>1, <2>1
  <2>3. DOMAIN sinfo = DOMAIN ub BY <1>2 DEF Matches
  <2>4. rot'[st] = IF st \in DOMAIN ub THEN RotAfter(rot[st], sinfo[st], ub[st]) ELSE rot[st]
    BY <1>1
  <2>5. CASE i \in Touched(sinfo, st)
    <3>1. st \in DOMAIN ub /\ v_cells'[st].pos[i] = ub[st][PlaceIn(sinfo[st], i)].pos
      BY <1>3, <2>1, <2>5 DEF WithUbatch
    <3>2. i \in Elems(sinfo[st]) BY <2>3, <2>5, <3>1 DEF Touched
    <3>3. RotAfter(rot[st], sinfo[st], ub[st])[i] = ub[st][PlaceIn(sinfo[st], i)].pos
      BY <3>2, RotAfterAt
    <3>4. QED BY <2>4, <3>1, <3>3
  <2>6. CASE i \notin Touched(sinfo, st)
    <3>1. v_cells'[st].pos[i] = v_cells[st].pos[i] BY <1>3, <2>1, <2>6 DEF WithUbatch
    <3>2. rot[st][i] = v_cells[st].pos[i] BY <1>2, <2>1, <2>2, <2>6, <3>1 DEF DataAt
    <3>3. rot'[st][i] = rot[st][i]
      <4>1. CASE st \in DOMAIN ub
        <5>1. i \notin Elems(sinfo[st]) BY <2>3, <2>6, <4>1 DEF Touched
        <5>2. RotAfter(rot[st], sinfo[st], ub[st])[i] = rot[st][i] BY <5>1, RotAfterAt
        <5>3. QED BY <2>4, <4>1, <5>2
      <4>2. QED BY <2>4, <4>1
    <3>4. QED BY <3>1, <3>2, <3>3
  <2>7. QED BY <2>5, <2>6
<1>9. conf' \in Configs /\ calls' \in 0..MaxCalls /\ sc_info' = <<>> BY <1>1, <1>2 DEF TypeInv
<1>10. CASE dec.k = Len(dec.ubs)
  <2>1. dec' = Idle BY <1>1, <1>10
  <2>2. QED BY <1>4, <1>5, <1>6, <1>7, <1>8, <1>9, <2>1, IdleStep
<1>11. CASE dec.k # Len(dec.ubs)
  <2>1. dec \in [pc : {"idle", "prepare", "restore", "process"}, todo : Batches \cup {<<>>},
                 ubs : Seq(Ubatches), sinfos : Seq(Infos), states : Seq(States), k : Nat,
                 before : [Streams -> Cells] \cup {<<>>}]
    BY <1>2 DEF TypeInv, DecType
  <2> DEFINE k2 == dec.k + 1
  <2>2. dec' = [dec EXCEPT !.k = k2] /\ k2 \in Nat BY <1>1, <1>2, <1>11
  <2> HIDE DEF k2
  <2>3. DecType' BY <2>1, <2>2 DEF DecType
  <2>4. /\ dec'.pc = "process" /\ dec'.todo = dec.todo /\ dec'.ubs = dec.ubs
        /\ dec'.sinfos = dec.sinfos /\ dec'.states = dec.states /\ dec'.k = dec.k + 1
        /\ dec'.before = dec.before
    BY <1>1, <2>1, <2>2 DEF k2
  <2>5. sc_info' \in Seq(Pairs) BY <1>9
  <2>6. TypeInv' BY <1>4, <1>5, <1>6, <1>7, <1>9, <2>3, <2>5 DEF TypeInv
  <2>7. CellsInv' BY <1>5 DEF CellsInv, Still
  <2>8. Decoding' BY <1>2, <1>5, <1>9, <2>4 DEF Decoding
  <2>9. dec.k + 1 \in 1..Len(dec.ubs) BY <1>2, <1>11
  <2>10. Progress' BY <2>4, <2>9 DEF Progress
  <2>11. DecodeInv' BY <2>4, <2>8, <2>10 DEF DecodeInv
  <2>12. KInPlace' BY <2>4 DEF KInPlace
  <2>13. DataInv' BY <1>8, <2>4, <2>12 DEF DataInv, DataAt
  <2>14. QED BY <2>6, <2>7, <2>11, <2>13 DEF IInv
<1>12. QED BY <1>10, <1>11

LEMMA ProcessFailStep == ASSUME IInv, ProcessFail PROVE IInv'
<1> DEFINE ub == dec.ubs[dec.k]
           sinfo == dec.sinfos[dec.k]
           c1 == CellsWith(sinfo, ub)
           h == HeadsAfter(sinfo)
           c2 == [st \in Streams |-> IF st \in DOMAIN ub
                                      THEN cells_seq_rm(c1[st], FailedRange(ub[st])) ELSE c1[st]]
<1>1. /\ dec.pc = "process" /\ v_cells' = c2
      /\ v_heads' = [st \in Streams |-> HeadBack(c1[st], c2[st], h[st])]
      /\ dec' = Idle
      /\ stale' = [st \in Streams |-> stale[st] \cup Touched(sinfo, st)]
      /\ calls' = calls /\ conf' = conf /\ sc_info' = sc_info /\ rot' = rot
  BY DEF ProcessFail
<1>2. /\ ub \in Ubatches /\ sinfo \in Infos /\ Matches(ub, sinfo)
      /\ v_cells \in [Streams -> Cells] /\ v_heads \in [Streams -> 0..NCells]
      /\ \A st \in Streams : Still(v_cells[st]) /\ DataAt(v_cells[st], st)
      /\ sc_info = <<>> /\ TypeInv
      /\ rot \in [Streams -> [Idx -> Int]] /\ stale \in [Streams -> SUBSET Idx]
  BY <1>1, ProcessFields
<1> HIDE DEF ub, sinfo
<1>3. WithUbatch(c1, sinfo, ub) BY <1>2, CellsWithFacts
<1>4. h \in [Streams -> 0..NCells] BY <1>2, HeadsAfterType
<1> HIDE DEF c1, h
<1>5. \A st \in Streams :
         /\ Still(c1[st]) /\ Touched(sinfo, st) \subseteq Idx
         /\ \A i \in Idx \ Touched(sinfo, st) : c1[st].pos[i] \in {-1, v_cells[st].pos[i]}
  BY <1>3 DEF WithUbatch
<1>6. /\ \A st \in Streams : c2[st] = IF st \in DOMAIN ub
                                      THEN cells_seq_rm(c1[st], FailedRange(ub[st])) ELSE c1[st]
      /\ c2 = [st \in Streams |-> c2[st]]
  OBVIOUS
<1> HIDE DEF c2
<1>7. ASSUME NEW st \in Streams
      PROVE  Still(c2[st]) /\ \A i \in Idx : c2[st].pos[i] \in {-1, c1[st].pos[i]}
  <2>1. CASE st \in DOMAIN ub
    <3> DEFINE c == c1[st]
               G == FailedRange(ub[st])
               d == cells_seq_rm(c, G)
    <3>1. c2[st] = d BY <1>6, <2>1
    <3>2. Good(c) /\ ~c.has_shift BY <1>5 DEF Still
    <3> HIDE DEF c, G
    <3>3. Good(d) /\ d.has_shift = c.has_shift BY <3>2, CellsSeqRmGood
    <3>4. ASSUME NEW i \in Idx PROVE d.pos[i] \in {-1, c.pos[i]}
      <4> DEFINE left == {s \in c.seq[i] : c.pos[i] \notin G[s]}
      <4>1. d.pos[i] = IF left = {} THEN -1 ELSE c.pos[i] BY <3>2, CellsSeqRmGood
      <4> HIDE DEF left, d
      <4>2. QED BY <4>1
    <3> HIDE DEF d
    <3>5. Still(d) BY <3>2, <3>3 DEF Still
    <3>6. QED BY <3>1, <3>4, <3>5 DEF c
  <2>2. CASE st \notin DOMAIN ub BY <1>5, <1>6, <2>2
  <2>3. QED BY <2>1, <2>2
<1>8. v_cells' \in [Streams -> Cells] /\ \A st \in Streams : Still(v_cells'[st])
  BY <1>1, <1>6, <1>7 DEF Still, Good
<1>9. v_heads' \in [Streams -> 0..NCells]
  <2>1. \A st \in Streams : HeadBack(c1[st], c2[st], h[st]) \in 0..NCells BY <1>4, HeadBackType
  <2>2. QED BY <1>1, <2>1
<1>10. stale' \in [Streams -> SUBSET Idx] BY <1>1, <1>2, <1>5
<1>11. ASSUME NEW st \in Streams, NEW i \in Idx, i \notin stale'[st], v_cells'[st].pos[i] # -1
       PROVE  rot'[st][i] = v_cells'[st].pos[i]
  <2>1. i \notin stale[st] /\ i \notin Touched(sinfo, st) BY <1>1, <1>11
  <2>2. v_cells'[st].pos[i] = c1[st].pos[i] BY <1>1, <1>7, <1>11
  <2>3. c1[st].pos[i] = v_cells[st].pos[i] BY <1>5, <1>11, <2>1, <2>2
  <2>4. QED BY <1>1, <1>2, <1>11, <2>1, <2>2, <2>3 DEF DataAt
<1>12. conf' \in Configs /\ calls' \in 0..MaxCalls /\ sc_info' = <<>> BY <1>1, <1>2 DEF TypeInv
<1>13. rot' \in [Streams -> [Idx -> Int]] BY <1>1, <1>2
<1>14. QED BY <1>1, <1>8, <1>9, <1>10, <1>11, <1>12, <1>13, IdleStep

----------------------------------------------------------------------------
(* The theorems. *)

LEMMA InitInv == Init => IInv
<1>1. SUFFICES ASSUME Init PROVE IInv OBVIOUS
<1>2. /\ conf \in Configs /\ v_cells = [st \in Streams |-> NoCells]
      /\ v_heads = [st \in Streams |-> 0] /\ sc_info = <<>>
      /\ rot = [st \in Streams |-> [i \in Idx |-> 0]] /\ dec = Idle
      /\ stale = [st \in Streams |-> {}] /\ calls = 0
  BY <1>1 DEF Init
<1>3. /\ v_cells \in [Streams -> Cells]
      /\ \A st \in Streams : Good(v_cells[st]) /\ v_cells[st] = NoCells
  BY <1>2, NoCellsGood DEF Good
<1>4. dec.pc = "idle" BY <1>2 DEF Idle
<1>5. DecType
  <2>1. /\ "idle" \in {"idle", "prepare", "restore", "process"} /\ <<>> \in {<<>>}
        /\ <<>> \in Seq(Ubatches) /\ <<>> \in Seq(Infos) /\ <<>> \in Seq(States) /\ 0 \in Nat
    OBVIOUS
  <2>2. QED BY <1>2, <2>1 DEF DecType, Idle
<1>6. TypeInv
  <2>1. v_heads \in [Streams -> 0..NCells] /\ sc_info \in Seq(Pairs) BY <1>2, SizesAssumption
  <2>2. rot \in [Streams -> [Idx -> Int]] BY <1>2
  <2>3. stale \in [Streams -> SUBSET Idx] /\ calls \in 0..MaxCalls BY <1>2, BoundsAssumption
  <2>4. QED BY <1>2, <1>3, <1>5, <2>1, <2>2, <2>3 DEF TypeInv
<1>7. CellsInv BY <1>3 DEF CellsInv
<1>8. DecodeInv BY <1>2, <1>4 DEF DecodeInv, Progress
<1>9. \A st \in Streams : v_cells[st].used = {} BY <1>3 DEF NoCells
<1>10. KInPlace BY <1>9 DEF KInPlace, InPlace
<1>11. DataInv BY <1>4, <1>10 DEF DataInv
<1>12. QED BY <1>6, <1>7, <1>8, <1>11 DEF IInv

LEMMA StutterInv == ASSUME IInv, UNCHANGED vars PROVE IInv'
<1>1. /\ conf' = conf /\ v_cells' = v_cells /\ v_heads' = v_heads /\ sc_info' = sc_info
      /\ rot' = rot /\ dec' = dec /\ stale' = stale /\ calls' = calls
  BY DEF vars
<1>2. TypeInv' BY <1>1 DEF IInv, TypeInv, DecType
<1>3. CellsInv' BY <1>1 DEF IInv, CellsInv
<1>4. DecodeInv'
  <2>1. Progress' /\ (dec'.pc # "idle" => Decoding')
    BY <1>1 DEF IInv, DecodeInv, Progress, Decoding
  <2>2. ASSUME Undoable PROVE Undoable'
    <3> DEFINE n == Len(dec.states)
    <3>1. \A st \in Streams, i \in Idx :
             (\A m \in 1..n : i \notin Touched(dec.sinfos[m], st)) =>
                 Stays(v_cells[st], dec.before[st], i)
      BY <2>2 DEF Undoable, Intact
    <3>2. \A st \in Streams : \A j \in 1..n : \A i \in Idx :
             (\A m \in 1..(j - 1) : i \notin Touched(dec.sinfos[m], st)) =>
                 Stays(dec.states[j].cells[st], dec.before[st], i)
      BY <2>2 DEF Undoable, Intact
    <3>3. n = Len(dec'.states) BY <1>1
    <3> HIDE DEF n
    <3>4. QED BY <1>1, <3>1, <3>2, <3>3, UndoableNext
  <2>3. QED BY <1>1, <2>1, <2>2 DEF IInv, DecodeInv
<1>5. Copied' = Copied BY <1>1, CopiedIs
<1>6. KInPlace' BY <1>1, <1>5 DEF IInv, DataInv, KInPlace, InPlace
<1>7. DataInv' BY <1>1, <1>6 DEF IInv, DataInv, DataAt
<1>8. QED BY <1>2, <1>3, <1>4, <1>7 DEF IInv

LEMMA NextInv == IInv /\ [Next]_vars => IInv'
<1>1. SUFFICES ASSUME IInv, [Next]_vars PROVE IInv' OBVIOUS
<1>3. CASE Clear BY <1>1, <1>3, ClearStep
<1>4. CASE \E s \in Seqs, r \in Ranges : SeqRm(s, r[1], r[2]) BY <1>1, <1>4, SeqRmStep
<1>5. CASE \E r \in Ranges : RangeRm(r[1], r[2]) BY <1>1, <1>5, RangeRmStep
<1>6. CASE \E src, dst \in Seqs, r \in Ranges : SeqCp(src, dst, r[1], r[2])
  BY <1>1, <1>6, SeqCpStep
<1>7. CASE \E src, dst \in Seqs : StreamCp(src, dst) BY <1>1, <1>7, StreamCpStep
<1>8. CASE \E s \in Seqs : SeqKeep(s) BY <1>1, <1>8, SeqKeepStep
<1>9. CASE \E s \in Seqs, r \in Ranges, d \in Shifts : SeqAdd(s, r[1], r[2], d)
  <2>1. PICK s \in Seqs, r \in Ranges, d \in Shifts : SeqAdd(s, r[1], r[2], d) BY <1>9
  <2>2. d \in Int BY InputsAssumption
  <2>3. QED BY <1>1, <2>1, <2>2, SeqAddStep
<1>10. CASE \E s \in Seqs, r \in Ranges, d \in Divisors : SeqDiv(s, r[1], r[2], d)
  <2>1. PICK s \in Seqs, r \in Ranges, d \in Divisors : SeqDiv(s, r[1], r[2], d) BY <1>10
  <2>2. d \in Nat \ {0, 1} BY InputsAssumption
  <2>3. QED BY <1>1, <2>1, <2>2, SeqDivStep
<1>11. CASE \E n \in 1..MaxBatch : \E groups \in [1..n -> Groups] : DecodeUnified(groups)
  <2>0. PICK n \in 1..MaxBatch : \E groups \in [1..n -> Groups] : DecodeUnified(groups) BY <1>11
  <2>1. PICK groups \in [1..n -> Groups] : DecodeUnified(groups) BY <2>0
  <2>2. n \in Nat /\ DecodeStart(UnifiedBatch(groups)) BY <2>1 DEF DecodeUnified
  <2>3. UnifiedBatch(groups) \in [Streams -> Seq(LongTokens)] BY <2>2, UnifiedBatchType
  <2>4. QED BY <1>1, <2>2, <2>3, DecodeStartStep
<1>12. CASE \E n \in [Seqs -> 0..MaxBatch] : DecodeStreams(n)
  <2>1. PICK n \in [Seqs -> 0..MaxBatch] : DecodeStreams(n) BY <1>12
  <2>2. DecodeStart(StreamsBatch(n)) BY <2>1 DEF DecodeStreams
  <2>3. StreamsBatch(n) \in [Streams -> Seq(LongTokens)] BY StreamsBatchType
  <2>4. QED BY <1>1, <2>2, <2>3, DecodeStartStep
<1>13. CASE PrepareUbatch BY <1>1, <1>13, PrepareUbatchStep
<1>14. CASE PrepareFail BY <1>1, <1>14, PrepareFailStep
<1>15. CASE Restore BY <1>1, <1>15, RestoreStep
<1>16. CASE ProcessUbatch BY <1>1, <1>16, ProcessUbatchStep
<1>17. CASE ProcessFail BY <1>1, <1>17, ProcessFailStep
<1>18. CASE \E s \in Seqs, r \in Reads, ok \in BOOLEAN : StateRead(s, r[1], r[2], ok)
  <2>1. PICK s \in Seqs, r \in Reads, ok \in BOOLEAN : StateRead(s, r[1], r[2], ok) BY <1>18
  <2>2. r[1] \in Nat /\ r[2] \in Nat \ {0} BY InputsAssumption
  <2>3. QED BY <1>1, <2>1, <2>2, StateReadStep
<1>19. CASE \E st \in Streams :
              \E f \in [0..(Cardinality(v_cells[st].used) - 1) -> v_cells[st].used] : Reload(st, f)
  BY <1>1, <1>19, ReloadStep
<1>20. CASE UNCHANGED vars BY <1>1, <1>20, StutterInv
<1>21. QED BY <1>1, <1>3, <1>4, <1>5, <1>6, <1>7, <1>8, <1>9, <1>10, <1>11, <1>12, <1>13, <1>14,
              <1>15, <1>16, <1>17, <1>18, <1>19, <1>20 DEF Next

\* The inductive invariant: in every reachable state the cells are indexed, a
\* prepare can be undone, and the data is where the cells say.
THEOREM IndInvariant == Spec => []IInv
BY InitInv, NextInv, PTL DEF Spec

LEMMA InvType == IInv => TypeOK
<1>1. SUFFICES ASSUME IInv PROVE TypeOK OBVIOUS
<1>2. TypeInv /\ DecodeInv BY <1>1 DEF IInv
<1>3. /\ dec.pc \in {"idle", "prepare", "restore", "process"}
      /\ dec.ubs \in Seq(Ubatches) /\ dec.sinfos \in Seq(Infos) /\ dec.states \in Seq(States)
  BY <1>2 DEF TypeInv, DecType
<1>4. dec.pc # "idle" => dec.todo \in [Streams -> Seq(Tokens)]
  BY <1>2 DEF DecodeInv, Decoding, Batches
<1>5. \A j \in 1..Len(dec.ubs) : PerStream(dec.ubs[j], Tokens)
  <2>1. SUFFICES ASSUME NEW j \in 1..Len(dec.ubs) PROVE PerStream(dec.ubs[j], Tokens) OBVIOUS
  <2>2. dec.ubs[j] \in Ubatches BY <1>3
  <2>3. QED BY <2>2, UbatchFields DEF PerStream
<1>6. \A j \in 1..Len(dec.sinfos) : PerStream(dec.sinfos[j], Idx)
  <2>1. SUFFICES ASSUME NEW j \in 1..Len(dec.sinfos) PROVE PerStream(dec.sinfos[j], Idx) OBVIOUS
  <2>2. dec.sinfos[j] \in Infos BY <1>3
  <2>3. QED BY <2>2, InfoFields DEF PerStream
<1>7. QED BY <1>2, <1>3, <1>4, <1>5, <1>6 DEF TypeInv, TypeOK, Pairs, States

\* No call and no step of a decode leaves the ranges of the cells, the heads,
\* the pending copies and the slots: positions stay between -1 and the largest,
\* the counts of seq_pos never go below zero, a head stays within the cache.
THEOREM TypeCorrect == Spec => []TypeOK
BY IndInvariant, InvType, PTL

LEMMA InvIndexed == IInv => CellsIndexed
<1>1. SUFFICES ASSUME IInv PROVE CellsIndexed OBVIOUS
<1>2. \A st \in Streams : Counts(v_cells[st]) /\ Sound(v_cells[st])
  BY <1>1 DEF IInv, CellsInv, Good
<1>3. SeqPosCounts BY <1>2 DEF SeqPosCounts, Counts
<1>4. UsedExact BY <1>2 DEF UsedExact, Sound
<1>5. QED BY <1>3, <1>4 DEF CellsIndexed

\* seq_pos, used and has_shift agree with the cells in every state, in the
\* middle of a prepare and after a failed ubatch too: of a cache of any size,
\* with any number of sequences, whatever the caller does in whatever order.
THEOREM CellsCorrect == Spec => []CellsIndexed
BY IndInvariant, InvIndexed, PTL

\* Between decodes the K of every cell that is not stale is rotated to its
\* position less the shift that the next update applies.
THEOREM DataCorrect == Spec => []KInPlace
<1>1. IInv => KInPlace BY DEF IInv, DataInv
<1>2. QED BY <1>1, IndInvariant, PTL

\* The indices of llama_kv_cells are determined by its cells.
LEMMA SameCells ==
    ASSUME NEW c, NEW d, Still(c), Still(d),
           \A i \in Idx : c.pos[i] = d.pos[i] /\ c.seq[i] = d.seq[i]
    PROVE  c = d
<1>1. c \in Cells /\ d \in Cells BY DEF Still, Good
<1>2. c.pos = d.pos /\ c.seq = d.seq BY <1>1 DEF Cells
<1>3. c.shift = d.shift
  <2>1. \A i \in Idx : c.shift[i] = 0 /\ d.shift[i] = 0 BY DEF Still, Good, Sound
  <2>2. QED BY <1>1, <2>1 DEF Cells
<1>4. c.used = d.used BY <1>2 DEF Still, Good, Sound
<1>5. c.has_shift = d.has_shift BY <1>1 DEF Cells, Still
<1>6. c.seq_pos = d.seq_pos
  <2>1. \A s \in Seqs, p \in Pos : Holding(c, Idx, s, p) = Holding(d, Idx, s, p) BY <1>2 DEF Holding
  <2>2. \A s \in Seqs, p \in Pos : c.seq_pos[s][p] = d.seq_pos[s][p]
    BY <2>1 DEF Still, Good, Counts
  <2>3. c.seq_pos \in [Seqs -> [Pos -> Nat]] /\ d.seq_pos \in [Seqs -> [Pos -> Nat]]
    BY <1>1 DEF Cells
  <2>4. \A s \in Seqs : c.seq_pos[s] = d.seq_pos[s] BY <2>2, <2>3
  <2>5. QED BY <2>3, <2>4
<1>7. QED BY <1>1, <1>2, <1>3, <1>4, <1>5, <1>6 DEF Cells

LEMMA RestoreOver ==
    ASSUME IInv, Next, PrepareOver, conf.n_swa = 0
    PROVE  v_cells' = dec.before
<1>1. dec.pc = "restore" /\ dec'.pc # "restore" BY DEF PrepareOver
<1>2. ~Call BY <1>1 DEF Call
<1>3. Restore
  <2>1. ~Clear BY <1>2 DEF Clear
  <2>2. \A s, p0, p1 : ~SeqRm(s, p0, p1) BY <1>2 DEF SeqRm
  <2>3. \A p0, p1 : ~RangeRm(p0, p1) BY <1>2 DEF RangeRm
  <2>4. \A src, dst, p0, p1 : ~SeqCp(src, dst, p0, p1) BY <1>2 DEF SeqCp
  <2>5. \A src, dst : ~StreamCp(src, dst) BY <1>2 DEF StreamCp
  <2>6. \A s : ~SeqKeep(s) BY <1>2 DEF SeqKeep
  <2>7. \A s, p0, p1, d : ~SeqAdd(s, p0, p1, d) BY <1>2 DEF SeqAdd
  <2>8. \A s, p0, p1, d : ~SeqDiv(s, p0, p1, d) BY <1>2 DEF SeqDiv
  <2>9. \A groups : ~DecodeUnified(groups) BY <1>2 DEF DecodeUnified, DecodeStart
  <2>10. \A n : ~DecodeStreams(n) BY <1>2 DEF DecodeStreams, DecodeStart
  <2>11. ~PrepareUbatch /\ ~PrepareFail BY <1>1 DEF PrepareUbatch, PrepareFail
  <2>12. ~ProcessUbatch /\ ~ProcessFail BY <1>1 DEF ProcessUbatch, ProcessFail
  <2>13. \A s, p, n, ok : ~StateRead(s, p, n, ok) BY <1>2 DEF StateRead
  <2>14. \A st, f : ~Reload(st, f) BY <1>2 DEF Reload
  <2>15. QED BY <2>1, <2>2, <2>3, <2>4, <2>5, <2>6, <2>7, <2>8, <2>9, <2>10, <2>11, <2>12, <2>13,
                <2>14 DEF Next
<1> DEFINE n == Len(dec.states)
<1>4. Undone(n) BY <1>3, RestoreUndoes
<1>5. dec' = (IF n > 1 THEN [dec EXCEPT !.states = SubSeq(@, 1, n - 1)]
              ELSE IF ~Done(dec.todo) THEN Idle
              ELSE [dec EXCEPT !.pc = "process", !.states = <<>>, !.k = 1])
  BY <1>3 DEF Restore
<1>6. dec \in [pc : {"idle", "prepare", "restore", "process"}, todo : Batches \cup {<<>>},
               ubs : Seq(Ubatches), sinfos : Seq(Infos), states : Seq(States), k : Nat,
               before : [Streams -> Cells] \cup {<<>>}]
  BY DEF IInv, TypeInv, DecType
<1>7. ~(n > 1) BY <1>1, <1>5, <1>6
<1>8. n = 1
  <2>1. dec.sinfos \in Seq(Infos) BY <1>6
  <2> HIDE DEF n
  <2>2. n \in 1..Len(dec.sinfos) BY <1>4 DEF Undone
  <2>3. QED BY <1>7, <2>1, <2>2
<1> HIDE DEF n
<1>9. /\ v_cells' \in [Streams -> Cells] /\ \A st \in Streams : Still(v_cells'[st])
      /\ \A st \in Streams, i \in Idx : Stays(v_cells'[st], dec.before[st], i)
  BY <1>4, <1>8 DEF Undone
<1>10. dec.before \in [Streams -> Cells] /\ \A st \in Streams : Still(dec.before[st])
  BY <1>1 DEF IInv, DecodeInv, Decoding
<1>11. \A st \in Streams : v_cells'[st] = dec.before[st]
  <2>1. SUFFICES ASSUME NEW st \in Streams PROVE v_cells'[st] = dec.before[st] OBVIOUS
  <2>2. \A i \in Idx : /\ v_cells'[st].pos[i] = dec.before[st].pos[i]
                       /\ v_cells'[st].seq[i] = dec.before[st].seq[i]
    BY <1>9 DEF Stays
  <2>3. QED BY <1>9, <1>10, <2>2, SameCells
<1>12. QED BY <1>9, <1>10, <1>11

\* However many ubatches a prepare has placed, and whether it placed them all or
\* ran out of cells, it leaves the cells as they were, to the last count of
\* seq_pos: of a cache without a sliding window.
THEOREM PrepareUndone == Spec => PrepareRestores
<1>1. IInv /\ [Next]_vars => [PrepareOver /\ conf.n_swa = 0 => v_cells' = dec.before]_vars
  BY RestoreOver
<1>2. QED BY <1>1, IndInvariant, PTL DEF Spec, PrepareRestores
=============================================================================
