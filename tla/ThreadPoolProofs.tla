-------------------------- MODULE ThreadPoolProofs --------------------------
(* Proofs about ThreadPool, for any number of threads, any graph, any       *)
(* number of chunks and any number of graphs.                               *)
EXTENDS ThreadPool, FiniteSetTheorems, WellFoundedInduction, TLAPS

----------------------------------------------------------------------------
(* The inductive invariant. *)

\* The threads that wait for the barrier to be released.
Waiting == {t \in Threads : pc[t] = "spin" /\ passed[t] = n_barrier_passed}

\* Where a thread is once the barrier is seen as one step: the threads that have
\* been released and have not noticed it yet are already behind it.
Eff(t) ==
    IF pc[t] \in {"enter", "add", "last", "release"} \/ t \in Waiting THEN "barrier"
    ELSE IF pc[t] = "spin" THEN after[t] ELSE pc[t]

\* The threads that compute the last graph started.
Team == 0..(nth - 1)

\* The counter of the barrier: the waiting threads of the team, until the last
\* one of it comes and resets it.
BarrierInv ==
    /\ \A t \in Threads : passed[t] <= n_barrier_passed
    /\ \A t \in Threads : pc[t] = "add" => passed[t] = n_barrier_passed
    /\ \A t \in Threads : pc[t] \in {"last", "release"} =>
          Waiting = Team \ {t} /\ n_barrier = IF pc[t] = "last" THEN nth ELSE 0
    /\ (\A t \in Threads : pc[t] \notin {"last", "release"}) =>
          n_barrier = Cardinality(Waiting) /\ (n_barrier < nth \/ nth = 0)
    /\ \A t \in Threads : Eff(t) = "barrier" => t \in Team

\* Threads out of the graph.
Outside == {"top", "paused", "poll", "asleep", "ended", "done"}
OutsideInv ==
    /\ \A w \in Workers : w \notin Team => Eff(w) \in Outside
    /\ \A w \in Workers : last_graph[w].number <= n_graph.number

Started(t) == t = 0 \/ last_graph[t] = n_graph
Fresh(t) == t \in Workers /\ last_graph[t] # n_graph /\ Eff(t) \in Outside
InBarrier(t, r) == Eff(t) = "barrier" /\ after[t] = r

\* What has been computed of node k.
Exact(k) ==
    \A p \in Parts : done[k][p] = IF Nodes[k + 1] # "nop" /\ p \in PartsOf(k) THEN 1 ELSE 0
Untouched(k) == \A p \in Parts : done[k][p] = 0

\* The thread has done its share of node k and waits for the others.
Past(t, k) ==
    \/ k + 1 < Len(Nodes) /\ node[t] = k /\ InBarrier(t, "next")
    \/ k + 1 = Len(Nodes) /\ node[t] = k + 1 /\ (Eff(t) = "loop" \/ InBarrier(t, "done"))

----------------------------------------------------------------------------
(* Between two barriers the threads of the team are in one stretch of the   *)
(* code: on the way from node m to node w, the next one that is no "nop";   *)
(* in the product of node k; or out of the graph.                           *)

Computes(w) == w < Len(Nodes) /\ abort # w

\* A thread on the way from m to w, in w or behind it.
Walker(t, m, w) ==
    \/ m = 0 /\ Fresh(t)
    \/ Started(t) /\
          \/ Eff(t) = "next" /\ node[t] + 1 = m
          \/ Eff(t) = "loop" /\ node[t] \in m..w
          \/ ~Computes(w) /\ node[t] = w /\ InBarrier(t, "done")
          \/ Computes(w) /\ Nodes[w + 1] = "plain"
                /\ ((node[t] = w /\ Eff(t) \in {"plain", "finish"}) \/ Past(t, w))
          \/ Computes(w) /\ Nodes[w + 1] = "mul"
                /\ node[t] = w /\ (Eff(t) = "convert" \/ InBarrier(t, "mul"))

DidPlain(t, w) == Started(t) /\ ((node[t] = w /\ Eff(t) = "finish") \/ Past(t, w))

Walk(m, w) ==
    /\ m \in 0..Len(Nodes) /\ w \in m..Len(Nodes)
    /\ \A k \in m..(w - 1) : Nodes[k + 1] = "nop"
    /\ w = Len(Nodes) \/ abort = w \/ Nodes[w + 1] # "nop"
    /\ abort = -1 \/ (abort = w /\ m = w) \/ (abort = w + 1 /\ Computes(w))
    /\ \A t \in Team : Walker(t, m, w)
    /\ \A k \in 0..(w - 1) : Exact(k)
    /\ \A k \in (w + 1)..(Len(Nodes) - 1) : Untouched(k)
    /\ w < Len(Nodes) /\ ~(Computes(w) /\ Nodes[w + 1] = "plain") => Untouched(w)
    /\ Computes(w) /\ Nodes[w + 1] = "plain" =>
          \A p \in Parts : done[w][p] = IF p \in Team /\ DidPlain(p, w) THEN 1 ELSE 0
    /\ \A t \in Team : InBarrier(t, "mul") =>
          chunk[t] = t /\ (t = 0 => current_chunk = nth)

\* A thread in the product of node k.
Multiplier(t, k) ==
    Started(t) /\ ((node[t] = k /\ Eff(t) \in {"mul", "grab", "finish"}) \/ Past(t, k))

\* Chunks are given out once, and computed unless a thread still has them.
Multiply(k) ==
    /\ k \in 0..(Len(Nodes) - 1) /\ Nodes[k + 1] = "mul"
    /\ abort = -1 \/ abort = k + 1
    /\ \A t \in Team : Multiplier(t, k)
    /\ \A j \in 0..(k - 1) : Exact(j)
    /\ \A j \in (k + 1)..(Len(Nodes) - 1) : Untouched(j)
    /\ current_chunk >= nth
    /\ \A t \in Team : Eff(t) = "mul" => chunk[t] < current_chunk
    /\ \A t, u \in Team : Eff(t) = "mul" /\ Eff(u) = "mul" /\ chunk[t] = chunk[u] => t = u
    /\ \A t \in Team : Eff(t) = "finish" \/ Past(t, k) => current_chunk >= Chunks
    /\ \A p \in Parts : done[k][p] =
          IF p < Chunks /\ p < current_chunk /\ ~ \E t \in Team : Eff(t) = "mul" /\ chunk[t] = p
          THEN 1 ELSE 0

Over ==
    /\ Eff(0) \in {"done", "idle", "joining", "freed"}
    /\ \A w \in Workers : w \in Team => last_graph[w] = n_graph /\ Eff(w) \in Outside
    /\ n_graph.number > 0 /\ abort = -1 => \A k \in DOMAIN done : Complete(k)
    /\ \A k \in DOMAIN done : \A p \in Parts : done[k][p] <= 1

InGraph ==
    /\ 0 \in Team
    /\ \/ \E m, w \in 0..Len(Nodes) : Walk(m, w)
       \/ \E k \in 0..(Len(Nodes) - 1) : Multiply(k)

IInv == TypeOK /\ BarrierInv /\ OutsideInv /\ (Over \/ InGraph)

----------------------------------------------------------------------------
(* Lemmas on the view of the threads. *)

Inside == {"enter", "add", "last", "release", "spin"}

LEMMA TeamLemma ==
    ASSUME TypeOK
    PROVE  /\ Team \subseteq Threads /\ nth \in 0..NThreads
           /\ IsFiniteSet(Team) /\ Cardinality(Team) = nth
<1>1. nth \in 0..NThreads /\ NThreads \in Nat BY ThreadsAssumption DEF TypeOK, nth
<1> DEFINE n == nth
<1>2. n \in Nat /\ n <= NThreads /\ Team = 0..(n - 1) BY <1>1 DEF Team
<1> HIDE DEF n
<1>3. 0 \in Int /\ n - 1 \in Int BY <1>2
<1>4. IsFiniteSet(0..(n - 1)) /\ Cardinality(0..(n - 1)) = IF 0 > n - 1 THEN 0 ELSE n - 1 - 0 + 1
  BY <1>3, FS_Interval, Zenon
<1>5. Cardinality(Team) = n BY <1>2, <1>4
<1>6. Team \subseteq Threads BY <1>2, ThreadsAssumption DEF Threads
<1>7. QED BY <1>1, <1>2, <1>4, <1>5, <1>6 DEF n

\* Out of the barrier a thread is where its pc says.
LEMMA EffLemma ==
    ASSUME TypeOK, NEW t \in Threads
    PROVE  /\ pc[t] \notin Inside => Eff(t) = pc[t]
           /\ pc[t] \in {"enter", "add", "last", "release"} => Eff(t) = "barrier"
           /\ pc[t] = "spin" => Eff(t) = IF passed[t] = n_barrier_passed THEN "barrier"
                                         ELSE after[t]
           /\ Eff(t) \notin {"barrier", "mul", "next", "done"} => pc[t] = Eff(t)
           /\ Eff(t) \in Steps \cup {"barrier"}
BY DEF TypeOK, Eff, Inside, Waiting, Steps

\* The same after a step.
LEMMA EffNext ==
    ASSUME NEW t \in Threads
    PROVE  /\ pc'[t] \notin Inside => Eff(t)' = pc'[t]
           /\ pc'[t] \in {"enter", "add", "last", "release"} => Eff(t)' = "barrier"
           /\ pc'[t] = "spin" => Eff(t)' = IF passed'[t] = n_barrier_passed' THEN "barrier"
                                           ELSE after'[t]
BY DEF Eff, Inside, Waiting

\* A step of one thread leaves the view of the others.
LEMMA EffFrame ==
    ASSUME NEW t \in Threads, n_barrier_passed' = n_barrier_passed,
           \A u \in Threads \ {t} :
              pc'[u] = pc[u] /\ passed'[u] = passed[u] /\ after'[u] = after[u]
    PROVE  /\ \A u \in Threads \ {t} : Eff(u)' = Eff(u)
           /\ \A u \in Threads \ {t} : u \in Waiting' <=> u \in Waiting
BY DEF Eff, Waiting

\* A thread that is not in the barrier, before and after its step.
LEMMA BarrierFrame ==
    ASSUME IInv, NEW t \in Threads, Eff(t) # "barrier",
           pc'[t] \in Steps \ {"add", "last", "release", "spin"},
           pc'[t] = "enter" => t \in Team,
           \A u \in Threads \ {t} : pc'[u] = pc[u] /\ after'[u] = after[u],
           UNCHANGED <<n_barrier, n_barrier_passed, passed, n_graph>>
    PROVE  BarrierInv'
<1>0. TypeOK /\ BarrierInv BY DEF IInv
<1>1. pc[t] \notin {"enter", "add", "last", "release"} /\ t \notin Waiting BY DEF Eff
<1>2. Waiting' = Waiting BY <1>1 DEF Waiting
<1>3. Team' = Team /\ nth' = nth BY DEF Team, nth
<1>4. \A u \in Threads \ {t} : Eff(u)' = Eff(u) BY EffFrame
<1>5. \A u \in Threads : Eff(u)' = "barrier" => u \in Team'
  <2>1. Eff(t)' = "barrier" => pc'[t] = "enter" BY <1>1, <1>2 DEF Eff, Steps
  <2>2. QED BY <1>0, <1>3, <1>4, <2>1 DEF BarrierInv
<1>6. QED BY <1>0, <1>1, <1>2, <1>3, <1>5 DEF BarrierInv

----------------------------------------------------------------------------
(* Steps within a stretch. *)

Same(u) ==
    /\ Eff(u)' = Eff(u) /\ node'[u] = node[u] /\ after'[u] = after[u] /\ chunk'[u] = chunk[u]
    /\ u \in Workers => last_graph'[u] = last_graph[u]

LEMMA SameLemma ==
    ASSUME NEW u \in Threads, Same(u), n_graph' = n_graph
    PROVE  /\ Started(u)' <=> Started(u)
           /\ Fresh(u)' <=> Fresh(u)
           /\ \A r : InBarrier(u, r)' <=> InBarrier(u, r)
           /\ \A k : Past(u, k)' <=> Past(u, k)
<1>1. u = 0 \/ u \in Workers BY ThreadsAssumption DEF Threads, Workers
<1>2. Started(u)' <=> Started(u) BY <1>1 DEF Started, Same
<1>3. Fresh(u)' <=> Fresh(u) BY DEF Fresh, Same
<1>4. \A r : InBarrier(u, r)' <=> InBarrier(u, r) BY DEF InBarrier, Same
<1>5. \A k : Past(u, k)' <=> Past(u, k) BY <1>4 DEF Past, Same
<1>6. QED BY <1>2, <1>3, <1>4, <1>5

\* The nodes that were not touched are computed as far as before.
LEMMA NodeFrame ==
    ASSUME NEW k, done'[k] = done[k], n_graph' = n_graph
    PROVE  /\ Exact(k)' <=> Exact(k)
           /\ Untouched(k)' <=> Untouched(k)
           /\ Complete(k)' <=> Complete(k)
BY DEF Exact, Untouched, Complete, PartsOf, Chunks, nth

\* One thread moves on the way to w or in it.
LEMMA WalkStep ==
    ASSUME TypeOK, NEW m \in 0..Len(Nodes), NEW w \in 0..Len(Nodes), Walk(m, w),
           NEW t \in Team, \A u \in Team \ {t} : Same(u), n_graph' = n_graph,
           abort' = abort \/ (abort' = w + 1 /\ Computes(w)),
           Walker(t, m, w)',
           \/ done' = done /\ (DidPlain(t, w)' <=> DidPlain(t, w))
           \/ /\ Computes(w) /\ Nodes[w + 1] = "plain"
              /\ done' = [done EXCEPT ![w][t] = @ + 1]
              /\ ~DidPlain(t, w) /\ DidPlain(t, w)',
           InBarrier(t, "mul")' => chunk'[t] = t /\ (t = 0 => current_chunk' = nth),
           t # 0 => current_chunk' = current_chunk
    PROVE  Walk(m, w)'
<1>1. Team' = Team /\ nth' = nth BY DEF Team, nth
<1>2. Team \subseteq Threads BY TeamLemma
<1>3. Computes(w)' <=> Computes(w) BY DEF Computes
<1>4. \A u \in Team : Walker(u, m, w)'
  <2>1. SUFFICES ASSUME NEW u \in Team, u # t PROVE Walker(u, m, w)' OBVIOUS
  <2>2. Walker(u, m, w) /\ Same(u) BY <2>1 DEF Walk
  <2>3. /\ Started(u)' <=> Started(u)
        /\ Fresh(u)' <=> Fresh(u)
        /\ \A r : InBarrier(u, r)' <=> InBarrier(u, r)
        /\ \A k : Past(u, k)' <=> Past(u, k)
    BY <1>2, <2>2, SameLemma
  <2>4. QED BY <1>3, <2>2, <2>3 DEF Walker, Same
<1>5. \A k \in 0..(Len(Nodes) - 1) : k # w => done'[k] = done[k] BY DEF TypeOK
<1>6. \A k \in 0..(w - 1) : Exact(k)'
  BY <1>5, NodeFrame DEF Walk
<1>7. \A k \in (w + 1)..(Len(Nodes) - 1) : Untouched(k)'
  BY <1>5, NodeFrame DEF Walk
<1>8. w < Len(Nodes) /\ ~(Computes(w)' /\ Nodes[w + 1] = "plain") => Untouched(w)'
  BY <1>3, NodeFrame DEF Walk
<1>9. ASSUME Computes(w)', Nodes[w + 1] = "plain"
      PROVE  \A p \in Parts : done'[w][p] = IF p \in Team /\ DidPlain(p, w)' THEN 1 ELSE 0
  <2>1. \A p \in Parts : done[w][p] = IF p \in Team /\ DidPlain(p, w) THEN 1 ELSE 0
    BY <1>3, <1>9 DEF Walk
  <2>2. \A p \in Team : p # t => (DidPlain(p, w)' <=> DidPlain(p, w))
    <3>1. SUFFICES ASSUME NEW p \in Team, p # t PROVE DidPlain(p, w)' <=> DidPlain(p, w)
      OBVIOUS
    <3>2. Same(p) /\ p \in Threads BY <1>2, <3>1
    <3>3. (Started(p)' <=> Started(p)) /\ \A k : Past(p, k)' <=> Past(p, k)
      BY <3>2, SameLemma
    <3>4. QED BY <3>2, <3>3 DEF DidPlain, Same
  <2>3. CASE done' = done /\ (DidPlain(t, w)' <=> DidPlain(t, w)) BY <2>1, <2>2, <2>3
  <2>4. CASE /\ done' = [done EXCEPT ![w][t] = @ + 1]
             /\ ~DidPlain(t, w) /\ DidPlain(t, w)'
    <3>1. w \in 0..(Len(Nodes) - 1) BY <1>9 DEF Computes
    <3>2. t \in Parts BY <1>2, ThreadsAssumption DEF Threads, Parts
    <3>3. /\ \A p \in Parts : p # t => done'[w][p] = done[w][p]
          /\ done'[w][t] = done[w][t] + 1
      BY <2>4, <3>1, <3>2 DEF TypeOK
    <3>4. done[w][t] = 0 BY <2>1, <2>4, <3>2
    <3>5. QED BY <2>1, <2>2, <2>4, <3>3, <3>4
  <2>5. QED BY <2>3, <2>4
<1>10. ASSUME NEW u \in Team, InBarrier(u, "mul")'
       PROVE  chunk'[u] = u /\ (u = 0 => current_chunk' = nth)
  <2>1. CASE u = t BY <1>10, <2>1
  <2>2. CASE u # t
    <3>1. InBarrier(u, "mul") /\ chunk'[u] = chunk[u]
      BY <1>2, <1>10, <2>2, SameLemma DEF Same
    <3>2. QED BY <2>2, <3>1 DEF Walk
  <2>3. QED BY <2>1, <2>2
<1>11. QED BY <1>1, <1>3, <1>4, <1>6, <1>7, <1>8, <1>9, <1>10 DEF Walk, Computes

\* One thread moves behind its part of the product.
LEMMA MultiplyStep ==
    ASSUME TypeOK, NEW k \in 0..(Len(Nodes) - 1), Multiply(k),
           NEW t \in Team, \A u \in Team \ {t} : Same(u),
           abort' = abort \/ abort' = k + 1,
           Eff(t) = "finish" \/ Past(t, k), Eff(t) # "mul", Eff(t)' # "mul",
           Started(t)' /\ Past(t, k)',
           UNCHANGED <<n_graph, done, current_chunk>>
    PROVE  Multiply(k)'
<1>1. Team' = Team /\ nth' = nth /\ Chunks' = Chunks BY DEF Team, nth, Chunks
<1>2. Team \subseteq Threads BY TeamLemma
<1>3. \A u \in Team \ {t} :
         /\ Started(u)' <=> Started(u)
         /\ Past(u, k)' <=> Past(u, k)
         /\ Eff(u)' = Eff(u) /\ node'[u] = node[u] /\ chunk'[u] = chunk[u]
  <2>1. SUFFICES ASSUME NEW u \in Team \ {t}
                 PROVE  /\ Started(u)' <=> Started(u)
                        /\ Past(u, k)' <=> Past(u, k)
                        /\ Eff(u)' = Eff(u) /\ node'[u] = node[u] /\ chunk'[u] = chunk[u]
    OBVIOUS
  <2>2. Same(u) /\ u \in Threads BY <1>2
  <2>3. (Started(u)' <=> Started(u)) /\ (Past(u, k)' <=> Past(u, k)) BY <2>2, SameLemma
  <2>4. QED BY <2>2, <2>3 DEF Same
<1>4. \A u \in Team : Multiplier(u, k)'
  <2>1. SUFFICES ASSUME NEW u \in Team PROVE Multiplier(u, k)' OBVIOUS
  <2>2. CASE u = t BY <2>2 DEF Multiplier
  <2>3. CASE u # t
    <3>1. Multiplier(u, k) BY DEF Multiply
    <3>2. QED BY <1>3, <2>3, <3>1 DEF Multiplier
  <2>4. QED BY <2>2, <2>3
<1>5. /\ \A j \in 0..(k - 1) : Exact(j)'
      /\ \A j \in (k + 1)..(Len(Nodes) - 1) : Untouched(j)'
  BY NodeFrame DEF Multiply
<1>6. \A u \in Team : Eff(u)' = "mul" => u # t /\ Eff(u) = "mul" /\ chunk'[u] = chunk[u]
  BY <1>3
<1>7. \A u \in Team : Eff(u)' = "finish" \/ Past(u, k)' => current_chunk >= Chunks
  BY <1>3 DEF Multiply
<1>8. \A p : (\E u \in Team : Eff(u)' = "mul" /\ chunk'[u] = p)
               <=> (\E u \in Team : Eff(u) = "mul" /\ chunk[u] = p)
  BY <1>3
<1>9. QED
  <2>1. current_chunk' >= nth' BY <1>1 DEF Multiply
  <2>2. \A u \in Team' : Eff(u)' = "mul" => chunk'[u] < current_chunk' BY <1>1, <1>6 DEF Multiply
  <2>3. \A u, v \in Team' : Eff(u)' = "mul" /\ Eff(v)' = "mul" /\ chunk'[u] = chunk'[v] => u = v
    BY <1>1, <1>6 DEF Multiply
  <2>4. \A p \in Parts : done'[k][p] =
           IF p < Chunks' /\ p < current_chunk'
              /\ ~ \E u \in Team' : Eff(u)' = "mul" /\ chunk'[u] = p
           THEN 1 ELSE 0
    BY <1>1, <1>8 DEF Multiply
  <2>5. k \in 0..(Len(Nodes) - 1) /\ Nodes[k + 1] = "mul" /\ (abort' = -1 \/ abort' = k + 1)
    BY DEF Multiply
  <2>6. QED BY <1>1, <1>4, <1>5, <1>7, <2>1, <2>2, <2>3, <2>4, <2>5 DEF Multiply

----------------------------------------------------------------------------
(* The beginning of a stretch, in the state after the step that begins it. *)

LEMMA LeastNat ==
    ASSUME NEW S, S \subseteq Nat, S # {}
    PROVE  \E x \in S : \A y \in S : x <= y
<1>1. PICK x \in S : \A y \in S : ~(<<y, x>> \in OpToRel(<, Nat))
  BY NatLessThanWellFounded, WFMin
<1>2. ASSUME NEW y \in S PROVE x <= y
  <2>1. ~(<<y, x>> \in {p \in Nat \X Nat : p[1] < p[2]}) BY <1>1 DEF OpToRel
  <2>2. QED BY <2>1
<1>3. QED BY <1>2

\* From node m on there is a node that is not skipped, or the end.
LEMMA NextWork ==
    ASSUME NEW m \in 0..Len(Nodes)
    PROVE  \E w \in m..Len(Nodes) :
              /\ \A k \in m..(w - 1) : Nodes[k + 1] = "nop"
              /\ w = Len(Nodes) \/ Nodes[w + 1] # "nop"
<1> DEFINE S == {k \in m..Len(Nodes) : k = Len(Nodes) \/ Nodes[k + 1] # "nop"}
<1>1. Len(Nodes) \in Nat BY NodesAssumption
<1>2. S \subseteq Nat /\ Len(Nodes) \in S BY <1>1
<1>3. PICK w \in S : \A y \in S : w <= y BY <1>2, LeastNat
<1>4. ASSUME NEW k \in m..(w - 1) PROVE Nodes[k + 1] = "nop"
  <2>1. k < w /\ k \in m..Len(Nodes) /\ k # Len(Nodes) BY <1>1
  <2>2. k \notin S BY <1>2, <1>3, <2>1
  <2>3. QED BY <2>1, <2>2
<1>5. QED BY <1>3, <1>4

LEMMA NewWalk ==
    ASSUME NEW m \in 0..Len(Nodes), 0 \in Team', abort' = -1 \/ abort' = m,
           \A t \in Team' :
              \/ m = 0 /\ Fresh(t)'
              \/ Started(t)' /\ Eff(t)' = "next" /\ node'[t] + 1 = m
              \/ Started(t)' /\ Eff(t)' = "loop" /\ node'[t] = m,
           \A k \in 0..(m - 1) : Exact(k)',
           \A k \in m..(Len(Nodes) - 1) : Untouched(k)'
    PROVE  InGraph'
<1>1. Len(Nodes) \in Nat BY NodesAssumption
<1>2. \E w \in m..Len(Nodes) :
        /\ \A k \in m..(w - 1) : Nodes[k + 1] = "nop"
        /\ w = Len(Nodes) \/ abort' = w \/ Nodes[w + 1] # "nop"
        /\ abort' = -1 \/ (abort' = w /\ m = w)
  <2>1. CASE abort' = m BY <1>1, <2>1
  <2>2. CASE abort' = -1 BY <2>2, NextWork
  <2>3. QED BY <2>1, <2>2
<1>3. PICK w \in m..Len(Nodes) :
        /\ \A k \in m..(w - 1) : Nodes[k + 1] = "nop"
        /\ w = Len(Nodes) \/ abort' = w \/ Nodes[w + 1] # "nop"
        /\ abort' = -1 \/ (abort' = w /\ m = w)
  BY <1>2
<1>4. \A t \in Team' : Walker(t, m, w)' BY <1>1, <1>3 DEF Walker
<1>5. \A k \in m..(w - 1) : Exact(k)' BY <1>1, <1>3 DEF Exact, Untouched
<1>6. \A k \in 0..(w - 1) : Exact(k)' BY <1>1, <1>5
<1>7. /\ \A k \in (w + 1)..(Len(Nodes) - 1) : Untouched(k)'
      /\ w < Len(Nodes) => Untouched(w)'
  BY <1>1
<1>8. \A t \in Team' : ~DidPlain(t, w)' /\ ~InBarrier(t, "mul")'
  <2>1. SUFFICES ASSUME NEW t \in Team' PROVE ~DidPlain(t, w)' /\ ~InBarrier(t, "mul")' OBVIOUS
  <2>2. Eff(t)' \in Outside \cup {"next", "loop"} BY DEF Fresh
  <2>3. Eff(t)' = "loop" => node'[t] # w + 1 \/ ~Started(t)' BY <1>1 DEF Fresh, Outside
  <2>4. QED BY <2>2, <2>3 DEF DidPlain, InBarrier, Past, Outside
<1>9. w < Len(Nodes) => \A p \in Parts : done'[w][p] = 0 BY <1>7 DEF Untouched
<1>10. Walk(m, w)' BY <1>1, <1>3, <1>4, <1>6, <1>7, <1>8, <1>9 DEF Walk, Computes
<1>11. w \in 0..Len(Nodes) BY <1>1
<1>12. QED BY <1>10, <1>11 DEF InGraph

LEMMA NewMultiply ==
    ASSUME NEW k \in 0..(Len(Nodes) - 1), Nodes[k + 1] = "mul", abort' = -1 \/ abort' = k + 1,
           0 \in Team', nth' \in Nat, current_chunk' = nth',
           \A t \in Team' : Started(t)' /\ Eff(t)' = "mul" /\ node'[t] = k /\ chunk'[t] = t,
           \A j \in 0..(k - 1) : Exact(j)',
           \A j \in k..(Len(Nodes) - 1) : Untouched(j)'
    PROVE  InGraph'
<1>1. Len(Nodes) \in Nat BY NodesAssumption
<1>2. \A t \in Team' : Multiplier(t, k)' BY DEF Multiplier
<1>3. \A t \in Team' : chunk'[t] < current_chunk' /\ ~Past(t, k)'
  <2>1. \A t : t \in Team' <=> t \in Nat /\ t < nth' BY DEF Team
  <2>2. \A t \in Team' : ~Past(t, k)' BY DEF Past, InBarrier
  <2>3. QED BY <2>1, <2>2
<1>4. \A j \in (k + 1)..(Len(Nodes) - 1) : Untouched(j)' BY <1>1
<1>5. \A p \in Parts : done'[k][p] =
         IF p < Chunks' /\ p < current_chunk'
            /\ ~ \E t \in Team' : Eff(t)' = "mul" /\ chunk'[t] = p
         THEN 1 ELSE 0
  <2>1. Untouched(k)' BY <1>1
  <2>2. SUFFICES ASSUME NEW p \in Parts, p < current_chunk'
                 PROVE  \E t \in Team' : Eff(t)' = "mul" /\ chunk'[t] = p
    BY <2>1 DEF Untouched
  <2>3. p \in Team'
    <3>1. \A t : t \in Team' <=> t \in Nat /\ t < nth' BY DEF Team
    <3>2. QED BY <2>2, <3>1, ThreadsAssumption DEF Parts
  <2>4. QED BY <2>3
<1>6. Multiply(k)' BY <1>2, <1>3, <1>4, <1>5 DEF Multiply
<1>7. QED BY <1>6 DEF InGraph

\* Everybody is out of the graph.
LEMMA NewOver ==
    ASSUME TypeOK, TypeOK', 0 \in Team',
           \A t \in Team' : Started(t)' /\ Eff(t)' = "done",
           abort' = -1 => \A k \in 0..(Len(Nodes) - 1) : Exact(k)',
           \A k \in 0..(Len(Nodes) - 1) : Exact(k)' \/ Untouched(k)'
    PROVE  Over'
<1>1. DOMAIN done' = 0..(Len(Nodes) - 1) BY DEF TypeOK
<1>2. \A w \in Workers : w \in Team' => last_graph'[w] = n_graph' /\ Eff(w)' \in Outside
  BY DEF Started, Outside, Workers
<1>3. \A k \in 0..(Len(Nodes) - 1) : Exact(k)' => Complete(k)'
  <2>1. SUFFICES ASSUME NEW k \in 0..(Len(Nodes) - 1), Exact(k)', Nodes[k + 1] # "nop",
                        NEW p \in PartsOf(k)'
                 PROVE  done'[k][p] = 1
    BY DEF Complete
  <2>2. nth' \in 0..NThreads BY DEF TypeOK, nth
  <2>3. p \in Parts
    <3>1. PartsOf(k)' = 0..((IF Nodes[k + 1] = "mul" THEN Chunks' ELSE nth') - 1) BY DEF PartsOf
    <3>2. Chunks' = IF NChunks < nth' * 4 THEN nth' ELSE NChunks BY DEF Chunks
    <3> DEFINE n == nth'
               c == Chunks'
    <3>3. n \in 0..NThreads /\ c \in {n, NChunks} BY <2>2, <3>2
    <3>4. p \in 0..(c - 1) \/ p \in 0..(n - 1) BY <2>1, <3>1
    <3> HIDE DEF n, c
    <3>5. QED BY <3>3, <3>4, ThreadsAssumption DEF Parts
  <2>4. QED BY <2>1, <2>3 DEF Exact
<1>4. \A k \in 0..(Len(Nodes) - 1) : \A p \in Parts : done'[k][p] <= 1
  BY DEF Exact, Untouched
<1>5. QED BY <1>1, <1>2, <1>3, <1>4 DEF Over

\* Everybody is behind node k.
LEMMA BehindNode ==
    ASSUME TypeOK, TypeOK', NEW k \in 0..(Len(Nodes) - 1), 0 \in Team',
           abort' = -1 \/ abort' = k + 1,
           \A j \in 0..k : Exact(j)',
           \A j \in (k + 1)..(Len(Nodes) - 1) : Untouched(j)',
           \A t \in Team' : /\ Started(t)'
                            /\ k + 1 < Len(Nodes) => Eff(t)' = "next" /\ node'[t] = k
                            /\ k + 1 = Len(Nodes) => Eff(t)' = "done"
    PROVE  (Over \/ InGraph)'
<1>1. Len(Nodes) \in Nat BY NodesAssumption
<1>2. CASE k + 1 < Len(Nodes)
  <2>1. k + 1 \in 0..Len(Nodes) /\ (k + 1) - 1 = k BY <1>1, <1>2
  <2>2. \A t \in Team' : Started(t)' /\ Eff(t)' = "next" /\ node'[t] + 1 = k + 1 BY <1>2
  <2>3. \A j \in 0..((k + 1) - 1) : Exact(j)' BY <2>1
  <2>4. QED BY <2>1, <2>2, <2>3, NewWalk
<1>3. CASE k + 1 = Len(Nodes)
  <2>1. \A j \in 0..(Len(Nodes) - 1) : Exact(j)' BY <1>1, <1>3
  <2>2. QED BY <1>3, <2>1, NewOver
<1>4. QED BY <1>1, <1>2, <1>3

----------------------------------------------------------------------------
(* What is computed when everybody has arrived. *)

LEMMA PlainDone ==
    ASSUME TypeOK, NEW m \in 0..Len(Nodes), NEW w \in 0..Len(Nodes), Walk(m, w),
           Computes(w), Nodes[w + 1] = "plain", \A t \in Team : DidPlain(t, w)
    PROVE  Exact(w)
<1>1. nth \in 0..NThreads BY TeamLemma
<1>2. \A p \in Parts : p \in PartsOf(w) <=> p \in Team BY <1>1 DEF PartsOf, Team
<1>3. \A p \in Parts : done[w][p] = IF p \in Team THEN 1 ELSE 0 BY DEF Walk
<1>4. QED BY <1>2, <1>3 DEF Exact

LEMMA MultiplyDone ==
    ASSUME TypeOK, NEW k \in 0..(Len(Nodes) - 1), Multiply(k), 0 \in Team,
           \A t \in Team : Eff(t) = "finish" \/ Past(t, k), \A t \in Team : Eff(t) # "mul"
    PROVE  Exact(k)
<1>1. nth \in 0..NThreads BY TeamLemma
<1>2. current_chunk >= Chunks /\ Chunks \in Nat /\ current_chunk \in Nat
  BY <1>1, ThreadsAssumption DEF Multiply, Chunks, TypeOK
<1>3. \A p \in Parts : p \in PartsOf(k) <=> p < Chunks
  BY <1>2, ThreadsAssumption DEF PartsOf, Multiply, Parts
<1>4. \A p \in Parts : done[k][p] = IF p < Chunks THEN 1 ELSE 0
  BY <1>2, ThreadsAssumption DEF Multiply, Parts
<1>5. QED BY <1>3, <1>4 DEF Exact, Multiply

----------------------------------------------------------------------------
(* The steps of a thread in the graph. *)

\* The step is one of thread t.
Others(t) ==
    /\ \A u \in Threads \ {t} : /\ pc'[u] = pc[u] /\ passed'[u] = passed[u]
                                /\ after'[u] = after[u] /\ node'[u] = node[u]
                                /\ chunk'[u] = chunk[u]
    /\ UNCHANGED <<n_barrier_passed, last_graph, n_graph>>

LEMMA OthersSame ==
    ASSUME NEW t \in Threads, Others(t)
    PROVE  \A u \in Threads \ {t} : Same(u)
<1>1. \A u \in Threads \ {t} : Eff(u)' = Eff(u) BY EffFrame DEF Others
<1>2. QED BY <1>1 DEF Others, Same

LEMMA InTeam ==
    ASSUME IInv, NEW t \in Threads, Eff(t) \notin Outside \cup {"idle", "joining", "freed"}
    PROVE  InGraph /\ t \in Team /\ Started(t)
<1>1. t = 0 \/ t \in Workers BY ThreadsAssumption DEF Threads, Workers
<1>2. t \in Workers => t \in Team BY DEF IInv, OutsideInv
<1>3. ~Over BY <1>1, <1>2 DEF Over, Outside
<1>4. InGraph /\ t \in Team BY <1>1, <1>2, <1>3 DEF IInv, InGraph
<1>5. ~Fresh(t) BY DEF Fresh
<1>6. Started(t) BY <1>4, <1>5 DEF InGraph, Walk, Walker, Multiply, Multiplier
<1>7. QED BY <1>4, <1>6

LEMMA OutsideFrame ==
    ASSUME IInv, NEW t \in Team, Others(t)
    PROVE  OutsideInv' /\ \A u \in Team \ {t} : Same(u)
<1>1. Team \subseteq Threads BY TeamLemma DEF IInv
<1>2. \A u \in Threads \ {t} : Same(u) BY <1>1, OthersSame
<1>3. Team' = Team BY DEF Others, Team, nth
<1>4. Workers \subseteq Threads BY ThreadsAssumption DEF Threads, Workers
<1>5. \A w \in Workers : w \notin Team' => Eff(w)' \in Outside
  BY <1>2, <1>3, <1>4 DEF IInv, OutsideInv, Same
<1>6. QED BY <1>1, <1>2, <1>5 DEF IInv, OutsideInv, Others

\* A call of ggml_barrier.
LEMMA BarrierCall ==
    ASSUME TypeOK, NEW t \in Team, NEW r \in {"mul", "next", "done"}, Barrier(t, r)
    PROVE  /\ after'[t] = r
           /\ nth # 1 => Eff(t)' = "barrier" /\ pc'[t] = "enter"
           /\ nth = 1 => Eff(t)' = r /\ pc'[t] = r /\ Team = {t} /\ t = 0
<1>1. t \in Threads BY TeamLemma
<1>2. after'[t] = r BY <1>1 DEF Barrier, TypeOK
<1>3. pc'[t] = IF nth = 1 THEN r ELSE "enter" BY <1>1 DEF Barrier, Goto, TypeOK
<1>4. nth # 1 => Eff(t)' = "barrier" BY <1>1, <1>3, EffNext
<1>5. nth = 1 => Eff(t)' = r BY <1>1, <1>3, EffNext DEF Inside
<1>6. nth = 1 => Team = {t} /\ t = 0 BY DEF Team
<1>7. QED BY <1>2, <1>3, <1>4, <1>5, <1>6

LEMMA PlainStep ==
    ASSUME IInv, NEW t \in Threads, ComputePlain(t)
    PROVE  (Over \/ InGraph)' /\ OutsideInv'
<1>0. TypeOK BY DEF IInv
<1>1. pc[t] = "plain" /\ pc'[t] = "finish" /\ Others(t)
  BY <1>0 DEF ComputePlain, Goto, TypeOK, Others, pool_vars, barrier_vars
<1>2. /\ UNCHANGED <<abort, current_chunk, node, n_graph, last_graph>>
      /\ done' = [done EXCEPT ![node[t]][t] = @ + 1]
  BY DEF ComputePlain, Did, pool_vars, barrier_vars
<1>3. Eff(t) = "plain" /\ Eff(t)' = "finish"
  BY <1>0, <1>1, EffLemma, EffNext DEF Inside
<1>4. InGraph /\ t \in Team /\ Started(t) BY <1>3, InTeam DEF Outside
<1>5. OutsideInv' /\ \A u \in Team \ {t} : Same(u) BY <1>1, <1>4, OutsideFrame
<1>6. Started(t)' BY <1>2, <1>4 DEF Started
<1>7. PICK m \in 0..Len(Nodes), w \in 0..Len(Nodes) : Walk(m, w)
  BY <1>3, <1>4 DEF InGraph, Multiply, Multiplier, Past, InBarrier
<1>8. Computes(w) /\ Nodes[w + 1] = "plain" /\ node[t] = w
  BY <1>3, <1>4, <1>7 DEF Walk, Walker, Fresh, Past, InBarrier, Outside
<1>9. Walker(t, m, w)' BY <1>2, <1>3, <1>6, <1>8 DEF Walker, Computes
<1>10. ~DidPlain(t, w) /\ DidPlain(t, w)'
  BY <1>2, <1>3, <1>6, <1>8 DEF DidPlain, Past, InBarrier
<1>11. Walk(m, w)'
  BY <1>0, <1>2, <1>3, <1>4, <1>5, <1>7, <1>8, <1>9, <1>10, WalkStep DEF InBarrier
<1>12. 0 \in Team' BY <1>2, <1>4 DEF InGraph, Team, nth
<1>13. QED BY <1>5, <1>11, <1>12 DEF InGraph

LEMMA PassedStep ==
    ASSUME IInv, NEW t \in Threads, PassedNode(t)
    PROVE  (Over \/ InGraph)' /\ OutsideInv'
<1>0. TypeOK BY DEF IInv
<1>1. pc[t] = "next" /\ pc'[t] = "loop" /\ node'[t] = node[t] + 1 /\ Others(t)
  BY <1>0 DEF PassedNode, Goto, TypeOK, Others, pool_vars, barrier_vars
<1>2. UNCHANGED <<abort, current_chunk, done, n_graph, last_graph>>
  BY DEF PassedNode, pool_vars, barrier_vars
<1>3. Eff(t) = "next" /\ Eff(t)' = "loop"
  BY <1>0, <1>1, EffLemma, EffNext DEF Inside
<1>4. InGraph /\ t \in Team /\ Started(t) BY <1>3, InTeam DEF Outside
<1>5. OutsideInv' /\ \A u \in Team \ {t} : Same(u) BY <1>1, <1>4, OutsideFrame
<1>6. Started(t)' BY <1>2, <1>4 DEF Started
<1>7. PICK m \in 0..Len(Nodes), w \in 0..Len(Nodes) : Walk(m, w)
  BY <1>3, <1>4 DEF InGraph, Multiply, Multiplier, Past, InBarrier
<1>8. node[t] + 1 = m /\ m \in m..w
  BY <1>3, <1>4, <1>7, NodesAssumption DEF Walk, Walker, Fresh, Past, InBarrier, Outside
<1>9. Walker(t, m, w)' BY <1>1, <1>3, <1>6, <1>8 DEF Walker
<1>10. ~DidPlain(t, w) /\ ~DidPlain(t, w)'
  BY <1>1, <1>3, <1>8 DEF DidPlain, Past, InBarrier
<1>11. Walk(m, w)'
  BY <1>0, <1>2, <1>3, <1>4, <1>5, <1>7, <1>9, <1>10, WalkStep DEF InBarrier
<1>12. 0 \in Team' BY <1>2, <1>4 DEF InGraph, Team, nth
<1>13. QED BY <1>5, <1>11, <1>12 DEF InGraph

----------------------------------------------------------------------------
(* Types. *)

\* Where node[t] is used as a node, it is one.
LEMMA NodeBounds ==
    ASSUME IInv, NEW t \in Threads
    PROVE  /\ Eff(t) \in {"plain", "convert", "mul", "grab", "finish"} =>
                 node[t] \in 0..(Len(Nodes) - 1)
           /\ Eff(t) = "next" => node[t] + 1 \in 0..Len(Nodes)
           /\ pc[t] = "add" => n_barrier < nth
<1>0. TypeOK /\ BarrierInv /\ Len(Nodes) \in Nat BY NodesAssumption DEF IInv
<1>1. ASSUME Eff(t) \in {"plain", "convert", "mul", "grab", "finish", "next"}
      PROVE  /\ Eff(t) # "next" => node[t] \in 0..(Len(Nodes) - 1)
             /\ Eff(t) = "next" => node[t] + 1 \in 0..Len(Nodes)
  <2>1. InGraph /\ t \in Team BY <1>1, InTeam DEF Outside
  <2>2. ASSUME NEW m \in 0..Len(Nodes), NEW w \in 0..Len(Nodes), Walk(m, w)
        PROVE  /\ Eff(t) # "next" => node[t] \in 0..(Len(Nodes) - 1)
               /\ Eff(t) = "next" => node[t] + 1 \in 0..Len(Nodes)
    <3>1. Walker(t, m, w) BY <2>1, <2>2 DEF Walk
    <3>2. ~Fresh(t) /\ ~Past(t, w) /\ (\A r : ~InBarrier(t, r)) /\ Eff(t) # "loop"
      BY <1>1 DEF Fresh, Outside, Past, InBarrier
    <3>3. QED BY <1>0, <1>1, <3>1, <3>2 DEF Walker, Computes
  <2>3. ASSUME NEW k \in 0..(Len(Nodes) - 1), Multiply(k)
        PROVE  Eff(t) # "next" /\ node[t] \in 0..(Len(Nodes) - 1)
    <3>1. Multiplier(t, k) BY <2>1, <2>3 DEF Multiply
    <3>2. ~Past(t, k) BY <1>1 DEF Past, InBarrier
    <3>3. QED BY <1>1, <3>1, <3>2 DEF Multiplier
  <2>4. QED BY <2>1, <2>2, <2>3 DEF InGraph
<1>2. ASSUME pc[t] = "add" PROVE n_barrier < nth
  <2>1. Eff(t) = "barrier" BY <1>0, <1>2, EffLemma
  <2>2. t \in Team /\ nth \in Nat BY <1>0, <2>1, TeamLemma DEF BarrierInv
  <2>3. t \notin Waiting BY <1>2 DEF Waiting
  <2>4. \A u \in Threads : pc[u] \notin {"last", "release"}
    BY <1>0, <1>2, <2>2, <2>3 DEF BarrierInv
  <2>5. nth # 0 BY <2>2 DEF Team
  <2>6. QED BY <1>0, <2>4, <2>5 DEF BarrierInv
<1>3. QED BY <1>1, <1>2

LEMMA TypeThread ==
    ASSUME IInv, NEW t \in Threads, ThreadStep(t)
    PROVE  TypeOK'
<1>0. TypeOK /\ Len(Nodes) \in Nat /\ NThreads \in Nat /\ NChunks \in Nat /\ t \in Nat
  BY NodesAssumption, ThreadsAssumption DEF IInv, Threads
<1>1. nth \in 0..NThreads BY <1>0, TeamLemma
<1>2. \A s \in Steps : Goto(t, s) => pc' \in [Threads -> Steps] BY <1>0 DEF TypeOK, Goto
<1>3. \A r \in {"mul", "next", "done"} : Barrier(t, r) =>
         pc' \in [Threads -> Steps] /\ after' \in [Threads -> {"mul", "next", "done"}]
  BY <1>0 DEF TypeOK, Barrier, Goto, Steps
<1>4. \A p \in Parts : Did(t, p) => done' \in [0..(Len(Nodes) - 1) -> [Parts -> Nat]]
  <2>1. SUFFICES ASSUME NEW p \in Parts, Did(t, p)
                 PROVE  done' \in [0..(Len(Nodes) - 1) -> [Parts -> Nat]]
    OBVIOUS
  <2>2. done' = [done EXCEPT ![node[t]] = [done[node[t]] EXCEPT ![p] = done[node[t]][p] + 1]]
    BY <2>1 DEF Did
  <2>3. CASE node[t] \in 0..(Len(Nodes) - 1)
    <3>1. done[node[t]] \in [Parts -> Nat] BY <1>0, <2>3 DEF TypeOK
    <3>2. [done[node[t]] EXCEPT ![p] = done[node[t]][p] + 1] \in [Parts -> Nat] BY <3>1
    <3>3. QED BY <1>0, <2>2, <3>2 DEF TypeOK
  <2>4. CASE node[t] \notin 0..(Len(Nodes) - 1) BY <1>0, <2>2, <2>4 DEF TypeOK
  <2>5. QED BY <2>3, <2>4
<1>5. CASE BarrierEnter(t)
  BY <1>0, <1>2, <1>5 DEF TypeOK, BarrierEnter, pool_vars, work_vars, Steps
<1>6. CASE BarrierAdd(t)
  <2>1. n_barrier < nth BY <1>6, NodeBounds DEF BarrierAdd
  <2>2. n_barrier' \in 0..NThreads BY <1>0, <1>1, <1>6, <2>1 DEF TypeOK, BarrierAdd
  <2>3. pc' \in [Threads -> Steps] BY <1>2, <1>6 DEF BarrierAdd, Steps
  <2>4. QED BY <1>0, <1>6, <2>2, <2>3 DEF TypeOK, BarrierAdd, pool_vars, work_vars
<1>7. CASE BarrierLast(t)
  BY <1>0, <1>2, <1>7 DEF TypeOK, BarrierLast, pool_vars, work_vars, Steps
<1>8. CASE BarrierRelease(t)
  <2>1. after[t] \in Steps BY <1>0 DEF TypeOK, Steps
  <2>2. QED BY <1>0, <1>2, <1>8, <2>1 DEF TypeOK, BarrierRelease, pool_vars, work_vars
<1>9. CASE BarrierSpin(t)
  <2>1. after[t] \in Steps BY <1>0 DEF TypeOK, Steps
  <2>2. QED BY <1>0, <1>2, <1>9, <2>1 DEF TypeOK, BarrierSpin, pool_vars, work_vars, barrier_vars
<1>10. CASE NextNode(t)
  <2>1. pc' \in [Threads -> Steps] /\ after' \in [Threads -> {"mul", "next", "done"}]
    BY <1>0, <1>2, <1>3, <1>10 DEF NextNode, TypeOK, Steps
  <2>2. node' \in [Threads -> 0..Len(Nodes)]
    <3>1. node' = node \/ (node[t] # Len(Nodes) /\ node' = [node EXCEPT ![t] = @ + 1])
      BY <1>10 DEF NextNode
    <3>2. QED BY <1>0, <3>1 DEF TypeOK
  <2>3. QED BY <1>0, <1>10, <2>1, <2>2 DEF TypeOK, NextNode, pool_vars
<1>11. CASE ComputePlain(t)
  <2>1. t \in Parts BY <1>0 DEF Parts, Threads
  <2>2. QED BY <1>0, <1>2, <1>4, <1>11, <2>1
       DEF TypeOK, ComputePlain, pool_vars, barrier_vars, Steps
<1>12. CASE Convert(t)
  <2>1. current_chunk' \in Nat /\ chunk' \in [Threads -> Nat]
    BY <1>0, <1>1, <1>12 DEF Convert, TypeOK
  <2>2. QED BY <1>0, <1>3, <1>12, <2>1 DEF TypeOK, Convert, pool_vars
<1>13. CASE MulChunk(t)
  <2>1. Chunks \in 0..(NThreads + NChunks) BY <1>0, <1>1 DEF Chunks
  <2>2. chunk[t] < Chunks => chunk[t] \in Parts BY <1>0, <2>1 DEF TypeOK, Parts
  <2>3. done' \in [0..(Len(Nodes) - 1) -> [Parts -> Nat]]
    BY <1>0, <1>4, <1>13, <2>2 DEF MulChunk, TypeOK
  <2>4. pc' \in [Threads -> Steps] BY <1>2, <1>13 DEF MulChunk, Steps
  <2>5. QED BY <1>0, <1>13, <2>3, <2>4 DEF TypeOK, MulChunk, pool_vars, barrier_vars
<1>14. CASE GrabChunk(t)
  BY <1>0, <1>2, <1>14 DEF TypeOK, GrabChunk, pool_vars, barrier_vars, Steps
<1>15. CASE FinishNode(t)
  <2>1. Eff(t) = "finish" BY <1>0, <1>15, EffLemma DEF FinishNode, Inside
  <2>2. node[t] \in 0..(Len(Nodes) - 1) BY <2>1, NodeBounds
  <2>3. abort' \in -1..Len(Nodes) BY <1>0, <1>15, <2>2 DEF FinishNode, TypeOK
  <2>4. node' \in [Threads -> 0..Len(Nodes)] BY <1>0, <1>15, <2>2 DEF FinishNode, TypeOK
  <2>5. pc' \in [Threads -> Steps] /\ after' \in [Threads -> {"mul", "next", "done"}]
    BY <1>0, <1>2, <1>3, <1>15 DEF FinishNode, TypeOK, Steps
  <2>6. QED BY <1>0, <1>15, <2>3, <2>4, <2>5 DEF TypeOK, FinishNode
<1>16. CASE PassedNode(t)
  <2>1. Eff(t) = "next" BY <1>0, <1>16, EffLemma DEF PassedNode, Inside
  <2>2. node[t] + 1 \in 0..Len(Nodes) BY <2>1, NodeBounds
  <2>3. QED BY <1>0, <1>2, <1>16, <2>2 DEF TypeOK, PassedNode, pool_vars, barrier_vars, Steps
<1>17. CASE GraphDone(t)
  BY <1>0, <1>2, <1>17 DEF TypeOK, GraphDone, pool_vars, barrier_vars, work_vars, Steps
<1>18. QED BY <1>5, <1>6, <1>7, <1>8, <1>9, <1>10, <1>11, <1>12, <1>13, <1>14, <1>15, <1>16,
              <1>17 DEF ThreadStep, BarrierStep, ComputeStep

LEMMA TypeOthers ==
    ASSUME TypeOK,
           \/ \E w \in Workers : WorkerStep(w) \/ SpuriousWake(w)
           \/ \E n \in 1..NThreads : Kickoff(n)
           \/ Pause \/ Resume \/ Free \/ Joined
    PROVE  TypeOK'
<1>0. NThreads \in Nat /\ 0 \in Threads /\ Len(Nodes) \in Nat /\ Workers \subseteq Threads
  BY NodesAssumption, ThreadsAssumption DEF Threads, Workers
<1>1. \A s \in Steps, t \in Threads : Goto(t, s) => pc' \in [Threads -> Steps]
  BY DEF TypeOK, Goto
<1>2. \A s \in Steps : Broadcast(s) => pc' \in [Threads -> Steps]
  <2>1. "poll" \in Steps /\ "top" \in Steps BY DEF Steps
  <2>2. QED BY <2>1 DEF TypeOK, Broadcast
<1>3. ASSUME NEW w \in Workers, WorkerTop(w) PROVE TypeOK'
  BY <1>0, <1>1, <1>3 DEF TypeOK, WorkerTop, pool_vars, barrier_vars, work_vars, Steps
<1>4. ASSUME NEW w \in Workers, WorkerSleep(w) PROVE TypeOK'
  BY <1>0, <1>1, <1>4 DEF TypeOK, WorkerSleep, pool_vars, barrier_vars, work_vars, Steps
<1>5. ASSUME NEW w \in Workers, SpuriousWake(w) PROVE TypeOK'
  BY <1>0, <1>1, <1>5 DEF TypeOK, SpuriousWake, pool_vars, barrier_vars, work_vars, Steps
<1>6. ASSUME NEW w \in Workers, WorkerReady(w) PROVE TypeOK'
  <2>1. pc' \in [Threads -> Steps] BY <1>0, <1>1, <1>6 DEF WorkerReady, Steps
  <2>2. last_graph' \in [Workers -> [number : Nat, n_threads : 0..NThreads]]
    BY <1>6 DEF WorkerReady, TypeOK
  <2>3. node' \in [Threads -> 0..Len(Nodes)] BY <1>0, <1>6 DEF WorkerReady, TypeOK
  <2>4. QED BY <1>6, <2>1, <2>2, <2>3 DEF TypeOK, WorkerReady, barrier_vars
<1>7. ASSUME NEW n \in 1..NThreads, Kickoff(n) PROVE TypeOK'
  <2>1. pc' \in [Threads -> Steps] BY <1>2, <1>7 DEF Kickoff, Steps
  <2>2. n_graph' \in [number : Nat, n_threads : 0..NThreads]
    BY <1>0, <1>7 DEF TypeOK, Kickoff
  <2>3. node' \in [Threads -> 0..Len(Nodes)] BY <1>0, <1>7 DEF Kickoff, TypeOK
  <2>4. done' \in [0..(Len(Nodes) - 1) -> [Parts -> Nat]] BY <1>7 DEF Kickoff, Nothing
  <2>5. abort' \in -1..Len(Nodes) BY <1>0, <1>7 DEF Kickoff
  <2>6. QED BY <1>7, <2>1, <2>2, <2>3, <2>4, <2>5 DEF TypeOK, Kickoff, barrier_vars
<1>8. CASE Pause \/ Resume \/ Free
  <2>1. pc' \in [Threads -> Steps] BY <1>2, <1>8 DEF Pause, Resume, Free, Steps
  <2>2. UNCHANGED <<n_graph, abort, last_graph, barrier_vars, work_vars>>
    BY <1>8 DEF Pause, Resume, Free
  <2>3. stop' \in BOOLEAN /\ pause' \in BOOLEAN BY <1>8 DEF TypeOK, Pause, Resume, Free
  <2>4. pauses' \in Nat BY <1>8 DEF TypeOK, Pause, Resume, Free
  <2>5. QED BY <2>1, <2>2, <2>3, <2>4 DEF TypeOK, barrier_vars, work_vars
<1>9. CASE Joined
  BY <1>0, <1>1, <1>9 DEF TypeOK, Joined, pool_vars, barrier_vars, work_vars, Steps
<1>10. QED BY <1>3, <1>4, <1>5, <1>6, <1>7, <1>8, <1>9 DEF WorkerStep

----------------------------------------------------------------------------
(* Steps that leave the stretch. *)

LEMMA StretchFrame ==
    ASSUME TypeOK, InGraph, \A u \in Team : Same(u),
           UNCHANGED <<n_graph, abort, done, current_chunk>>
    PROVE  InGraph'
<1>1. Team' = Team /\ nth' = nth /\ Chunks' = Chunks BY DEF Team, nth, Chunks
<1>2. Team \subseteq Threads BY TeamLemma
<1>3. 0 \in Team BY DEF InGraph
<1>4. \A u \in Team : /\ Started(u)' <=> Started(u)
                      /\ Fresh(u)' <=> Fresh(u)
                      /\ \A r : InBarrier(u, r)' <=> InBarrier(u, r)
                      /\ \A k : Past(u, k)' <=> Past(u, k)
  BY <1>2, SameLemma
<1>5. ASSUME NEW m \in 0..Len(Nodes), NEW w \in 0..Len(Nodes), Walk(m, w)
      PROVE  Walk(m, w)'
  <2>1. Walker(0, m, w) /\ Same(0) BY <1>3, <1>5 DEF Walk
  <2>2. Computes(w)' <=> Computes(w) BY DEF Computes
  <2>3. Walker(0, m, w)' BY <1>3, <1>4, <2>1, <2>2 DEF Walker, Same
  <2>4. DidPlain(0, w)' <=> DidPlain(0, w) BY <1>3, <1>4, <2>1 DEF DidPlain, Same
  <2>5. InBarrier(0, "mul")' => chunk'[0] = 0 /\ current_chunk' = nth
    BY <1>3, <1>4, <1>5, <2>1 DEF Walk, Same
  <2>6. \A u \in Team \ {0} : Same(u) OBVIOUS
  <2>7. QED BY <1>3, <1>5, <2>3, <2>4, <2>5, <2>6, WalkStep
<1>6. ASSUME NEW k \in 0..(Len(Nodes) - 1), Multiply(k)
      PROVE  Multiply(k)'
  <2>1. \A u \in Team : Eff(u)' = Eff(u) /\ node'[u] = node[u] /\ chunk'[u] = chunk[u]
    BY DEF Same
  <2>2. \A u \in Team : Multiplier(u, k)' <=> Multiplier(u, k) BY <1>4, <2>1 DEF Multiplier
  <2>3. /\ \A j \in 0..(k - 1) : Exact(j)'
        /\ \A j \in (k + 1)..(Len(Nodes) - 1) : Untouched(j)'
    BY <1>6, NodeFrame DEF Multiply
  <2>4. \A u \in Team : Eff(u)' = "finish" \/ Past(u, k)' => current_chunk >= Chunks
    BY <1>4, <1>6, <2>1 DEF Multiply
  <2>5. \A p : (\E u \in Team : Eff(u)' = "mul" /\ chunk'[u] = p)
                 <=> (\E u \in Team : Eff(u) = "mul" /\ chunk[u] = p)
    BY <2>1
  <2>6. \A p \in Parts : done'[k][p] =
           IF p < Chunks' /\ p < current_chunk'
              /\ ~ \E u \in Team' : Eff(u)' = "mul" /\ chunk'[u] = p
           THEN 1 ELSE 0
    BY <1>1, <1>6, <2>5 DEF Multiply
  <2>7. current_chunk' >= nth' /\ (abort' = -1 \/ abort' = k + 1) /\ Nodes[k + 1] = "mul"
    BY <1>1, <1>6 DEF Multiply
  <2>8. /\ \A u \in Team' : Eff(u)' = "mul" => chunk'[u] < current_chunk'
        /\ \A u, v \in Team' : Eff(u)' = "mul" /\ Eff(v)' = "mul" /\ chunk'[u] = chunk'[v] => u = v
    BY <1>1, <1>6, <2>1 DEF Multiply
  <2>9. \A u \in Team' : Multiplier(u, k)' BY <1>1, <1>6, <2>2 DEF Multiply
  <2>10. QED BY <1>1, <2>3, <2>4, <2>6, <2>7, <2>8, <2>9 DEF Multiply
<1>7. QED BY <1>1, <1>5, <1>6 DEF InGraph

LEMMA OverFrame ==
    ASSUME Over, OutsideInv, Eff(0)' \in {"done", "idle", "joining", "freed"},
           \A w \in Workers : Eff(w) \in Outside => Eff(w)' \in Outside,
           UNCHANGED <<n_graph, abort, done, last_graph>>
    PROVE  Over' /\ OutsideInv'
<1>1. Team' = Team BY DEF Team, nth
<1>2. \A k : Complete(k)' <=> Complete(k) BY NodeFrame
<1>3. QED BY <1>1, <1>2 DEF Over, OutsideInv

\* Every thread is where it was, the barrier seen as one step.
LEMMA SameFrame ==
    ASSUME IInv, \A u \in Threads : Same(u),
           UNCHANGED <<n_graph, abort, done, current_chunk, last_graph>>
    PROVE  (Over \/ InGraph)' /\ OutsideInv'
<1>1. Workers \subseteq Threads /\ 0 \in Threads BY ThreadsAssumption DEF Threads, Workers
<1>2. Team \subseteq Threads BY TeamLemma DEF IInv
<1>3. \A u \in Threads : Eff(u)' = Eff(u) BY DEF Same
<1>4. InGraph => InGraph' BY <1>2, StretchFrame DEF IInv
<1>5. Over => Over' BY <1>1, <1>3, OverFrame DEF IInv, Over
<1>6. OutsideInv' BY <1>1, <1>3 DEF IInv, OutsideInv, Team, nth
<1>7. QED BY <1>4, <1>5, <1>6 DEF IInv

\* A step of a worker out of the graph.
LEMMA OutsideStep ==
    ASSUME IInv, NEW t \in Workers, Others(t), Eff(t) \in Outside, Eff(t)' \in Outside,
           UNCHANGED <<abort, done, current_chunk, node>>
    PROVE  (Over \/ InGraph)' /\ OutsideInv'
<1>1. Workers \subseteq Threads /\ 0 \in Threads /\ 0 \notin Workers
  BY ThreadsAssumption DEF Threads, Workers
<1>2. Team \subseteq Threads BY TeamLemma DEF IInv
<1>3. \A u \in Threads \ {t} : Same(u) BY <1>1, OthersSame
<1>4. Team' = Team /\ UNCHANGED <<n_graph, last_graph>> BY DEF Others, Team, nth
<1>5. OutsideInv' BY <1>1, <1>3, <1>4 DEF IInv, OutsideInv, Same
<1>6. CASE Over
  <2>1. Eff(0)' = Eff(0) BY <1>1, <1>3 DEF Same
  <2>2. \A w \in Workers : Eff(w) \in Outside => Eff(w)' \in Outside BY <1>1, <1>3 DEF Same
  <2>3. Over' BY <1>4, <1>6, <2>1, <2>2, OverFrame DEF IInv, Over
  <2>4. QED BY <1>5, <2>3
<1>7. CASE InGraph /\ t \notin Team
  <2>1. InGraph' BY <1>2, <1>3, <1>4, <1>7, StretchFrame DEF IInv
  <2>2. QED BY <1>5, <2>1
<1>8. CASE InGraph /\ t \in Team
  <2>1. \A k : ~Multiply(k) \/ k \notin 0..(Len(Nodes) - 1)
    BY <1>8 DEF Multiply, Multiplier, Past, InBarrier, Outside
  <2>2. PICK m \in 0..Len(Nodes), w \in 0..Len(Nodes) : Walk(m, w) BY <1>8, <2>1 DEF InGraph
  <2>3. m = 0 /\ Fresh(t)
    BY <1>8, <2>2 DEF Walk, Walker, Past, InBarrier, Outside
  <2>4. Fresh(t)' BY <1>4, <2>3 DEF Fresh
  <2>5. Walker(t, m, w)' BY <2>3, <2>4 DEF Walker
  <2>6. ~DidPlain(t, w) /\ ~DidPlain(t, w)' /\ ~InBarrier(t, "mul")'
    BY DEF DidPlain, Past, InBarrier, Outside
  <2>7. \A u \in Team \ {t} : Same(u) BY <1>2, <1>3
  <2>8. Walk(m, w)' BY <1>4, <1>8, <2>2, <2>5, <2>6, <2>7, WalkStep DEF IInv
  <2>9. 0 \in Team' BY <1>4, <1>8 DEF InGraph
  <2>10. QED BY <1>5, <2>8, <2>9 DEF InGraph
<1>9. QED BY <1>6, <1>7, <1>8 DEF IInv

----------------------------------------------------------------------------
(* The other steps of a thread in the graph. *)

LEMMA ConvertStep ==
    ASSUME IInv, NEW t \in Threads, Convert(t)
    PROVE  (Over \/ InGraph)' /\ OutsideInv'
<1>0. TypeOK BY DEF IInv
<1>1. pc[t] = "convert" /\ Barrier(t, "mul") /\ Others(t) /\ chunk'[t] = t
  BY <1>0 DEF Convert, Barrier, Goto, TypeOK, Others, pool_vars
<1>2. /\ UNCHANGED <<abort, node, done, n_graph, last_graph>>
      /\ current_chunk' = IF t = 0 THEN nth ELSE current_chunk
  BY DEF Convert, pool_vars
<1>3. Eff(t) = "convert" BY <1>0, <1>1, EffLemma DEF Inside
<1>4. InGraph /\ t \in Team /\ Started(t) BY <1>3, InTeam DEF Outside
<1>5. OutsideInv' /\ \A u \in Team \ {t} : Same(u) BY <1>1, <1>4, OutsideFrame
<1>6. Started(t)' BY <1>2, <1>4 DEF Started
<1>7. PICK m \in 0..Len(Nodes), w \in 0..Len(Nodes) : Walk(m, w)
  BY <1>3, <1>4 DEF InGraph, Multiply, Multiplier, Past, InBarrier
<1>8. Computes(w) /\ Nodes[w + 1] = "mul" /\ node[t] = w
  BY <1>3, <1>4, <1>7 DEF Walk, Walker, Fresh, Past, InBarrier, Outside
<1>9. /\ after'[t] = "mul"
      /\ nth # 1 => Eff(t)' = "barrier"
      /\ nth = 1 => Eff(t)' = "mul" /\ Team = {t} /\ t = 0
  BY <1>0, <1>1, <1>4, BarrierCall
<1>10. 0 \in Team' /\ Team' = Team /\ nth' = nth BY <1>2, <1>4 DEF InGraph, Team, nth
<1>11. CASE nth # 1
  <2>1. Walker(t, m, w)' BY <1>2, <1>6, <1>8, <1>9, <1>11 DEF Walker, Computes, InBarrier
  <2>2. ~DidPlain(t, w) /\ ~DidPlain(t, w)'
    BY <1>2, <1>3, <1>8, <1>9, <1>11 DEF DidPlain, Past, InBarrier
  <2>3. Walk(m, w)'
    BY <1>0, <1>1, <1>2, <1>4, <1>5, <1>7, <2>1, <2>2, WalkStep
  <2>4. QED BY <1>5, <1>10, <2>3 DEF InGraph
<1>12. CASE nth = 1
  <2>1. w \in 0..(Len(Nodes) - 1) BY <1>8, NodesAssumption DEF Computes
  <2>2. abort' = -1 \/ abort' = w + 1 BY <1>2, <1>7, <1>8 DEF Walk, Computes
  <2>3. \A j \in 0..(w - 1) : Exact(j)' BY <1>2, <1>7, NodeFrame DEF Walk
  <2>4. \A j \in w..(Len(Nodes) - 1) : Untouched(j)'
    <3>1. \A j \in w..(Len(Nodes) - 1) : Untouched(j)
      BY <1>7, <1>8, NodesAssumption DEF Walk, Computes
    <3>2. QED BY <1>2, <3>1, NodeFrame
  <2>5. InGraph'
    BY <1>1, <1>2, <1>6, <1>8, <1>9, <1>10, <1>12, <2>1, <2>2, <2>3, <2>4, NewMultiply
  <2>6. QED BY <1>5, <2>5
<1>13. QED BY <1>11, <1>12

\* The share of a thread in a product, and the next chunk.
LEMMA MultiplyFrame ==
    ASSUME TypeOK, NEW k \in 0..(Len(Nodes) - 1), Multiply(k),
           NEW t \in Team, 0 \in Team, \A u \in Team \ {t} : Same(u),
           UNCHANGED <<n_graph, abort, last_graph>>, node'[t] = node[t],
           Eff(t) \in {"mul", "grab"}, Eff(t)' \in {"mul", "grab", "finish"},
           \A j \in 0..(Len(Nodes) - 1) : j # k => done'[j] = done[j],
           current_chunk' \in Nat, current_chunk' >= current_chunk,
           Eff(t)' = "mul" => chunk'[t] < current_chunk',
           \A u \in Team \ {t} : Eff(u) = "mul" /\ Eff(t)' = "mul" => chunk[u] # chunk'[t],
           Eff(t)' = "finish" => current_chunk' >= Chunks,
           \A p \in Parts : done'[k][p] =
              IF p < Chunks /\ p < current_chunk'
                 /\ ~(Eff(t)' = "mul" /\ chunk'[t] = p)
                 /\ ~ \E u \in Team \ {t} : Eff(u) = "mul" /\ chunk[u] = p
              THEN 1 ELSE 0
    PROVE  InGraph'
<1>1. Team' = Team /\ nth' = nth /\ Chunks' = Chunks BY DEF Team, nth, Chunks
<1>2. Team \subseteq Threads /\ nth \in Nat BY TeamLemma
<1>3. \A u \in Team \ {t} :
         /\ Started(u)' <=> Started(u)
         /\ Past(u, k)' <=> Past(u, k)
         /\ Eff(u)' = Eff(u) /\ node'[u] = node[u] /\ chunk'[u] = chunk[u]
  <2>1. SUFFICES ASSUME NEW u \in Team \ {t}
                 PROVE  /\ Started(u)' <=> Started(u)
                        /\ Past(u, k)' <=> Past(u, k)
                        /\ Eff(u)' = Eff(u) /\ node'[u] = node[u] /\ chunk'[u] = chunk[u]
    OBVIOUS
  <2>2. Same(u) /\ u \in Threads BY <1>2
  <2>3. (Started(u)' <=> Started(u)) /\ (Past(u, k)' <=> Past(u, k)) BY <2>2, SameLemma
  <2>4. QED BY <2>2, <2>3 DEF Same
<1>4. Multiplier(t, k)' /\ ~Past(t, k)'
  BY DEF Multiply, Multiplier, Past, InBarrier, Started
<1>5. \A u \in Team : Multiplier(u, k)'
  <2>1. SUFFICES ASSUME NEW u \in Team, u # t PROVE Multiplier(u, k)' BY <1>4
  <2>2. Multiplier(u, k) BY DEF Multiply
  <2>3. QED BY <1>3, <2>1, <2>2 DEF Multiplier
<1>6. /\ \A j \in 0..(k - 1) : Exact(j)'
      /\ \A j \in (k + 1)..(Len(Nodes) - 1) : Untouched(j)'
  BY NodesAssumption, NodeFrame DEF Multiply
<1>7. current_chunk \in Nat /\ current_chunk >= nth /\ Chunks \in Nat
  BY <1>2, ThreadsAssumption DEF TypeOK, Multiply, Chunks
<1>8. current_chunk' >= nth' BY <1>1, <1>2, <1>7
<1>9. \A u \in Team : chunk[u] \in Nat BY <1>2 DEF TypeOK
<1>10. \A u \in Team' : Eff(u)' = "mul" => chunk'[u] < current_chunk'
  BY <1>1, <1>3, <1>7, <1>9 DEF Multiply
<1>11. \A u, v \in Team' : Eff(u)' = "mul" /\ Eff(v)' = "mul" /\ chunk'[u] = chunk'[v] => u = v
  BY <1>1, <1>3 DEF Multiply
<1>12. \A u \in Team' : Eff(u)' = "finish" \/ Past(u, k)' => current_chunk' >= Chunks'
  <2>1. \A u \in Team \ {t} : Eff(u) = "finish" \/ Past(u, k) => current_chunk >= Chunks
    BY DEF Multiply
  <2>2. QED BY <1>1, <1>3, <1>4, <1>7, <2>1
<1>13. \A p : (\E u \in Team' : Eff(u)' = "mul" /\ chunk'[u] = p)
               <=> \/ Eff(t)' = "mul" /\ chunk'[t] = p
                   \/ \E u \in Team \ {t} : Eff(u) = "mul" /\ chunk[u] = p
  BY <1>1, <1>3
<1>14. \A p \in Parts : done'[k][p] =
          IF p < Chunks' /\ p < current_chunk'
             /\ ~ \E u \in Team' : Eff(u)' = "mul" /\ chunk'[u] = p
          THEN 1 ELSE 0
  BY <1>1, <1>13
<1>15. Nodes[k + 1] = "mul" /\ (abort' = -1 \/ abort' = k + 1) BY DEF Multiply
<1>16. Multiply(k)'
  BY <1>1, <1>5, <1>6, <1>8, <1>10, <1>11, <1>12, <1>14, <1>15 DEF Multiply
<1>17. QED BY <1>1, <1>16 DEF InGraph

LEMMA MulStep ==
    ASSUME IInv, NEW t \in Threads, MulChunk(t)
    PROVE  (Over \/ InGraph)' /\ OutsideInv'
<1>0. TypeOK BY DEF IInv
<1>1. pc[t] = "mul" /\ pc'[t] \in {"finish", "grab"} /\ Others(t)
  BY <1>0 DEF MulChunk, Goto, TypeOK, Others, pool_vars, barrier_vars
<1>2. UNCHANGED <<abort, node, chunk, current_chunk, n_graph, last_graph>>
  BY DEF MulChunk, pool_vars, barrier_vars
<1>3. Eff(t) = "mul" /\ Eff(t)' = pc'[t]
  BY <1>0, <1>1, EffLemma, EffNext DEF Inside
<1>4. InGraph /\ t \in Team /\ Started(t) BY <1>3, InTeam DEF Outside
<1>5. OutsideInv' /\ \A u \in Team \ {t} : Same(u) BY <1>1, <1>4, OutsideFrame
<1>6. PICK k \in 0..(Len(Nodes) - 1) : Multiply(k)
  BY <1>3, <1>4 DEF InGraph, Walk, Walker, Fresh, Past, InBarrier, Outside
<1>7. node[t] = k BY <1>3, <1>4, <1>6 DEF Multiply, Multiplier, Past, InBarrier
<1>8. nth \in 0..NThreads /\ Team \subseteq Threads BY <1>0, TeamLemma
<1>9. Chunks \in 0..(NThreads + NChunks) BY <1>8, ThreadsAssumption DEF Chunks
<1>10. /\ current_chunk \in Nat /\ chunk[t] \in Nat /\ chunk[t] < current_chunk
       /\ current_chunk >= nth
  BY <1>0, <1>3, <1>4, <1>6 DEF TypeOK, Multiply
<1>11. \A u \in Team \ {t} : Eff(u) = "mul" => chunk[u] # chunk[t]
  BY <1>3, <1>4, <1>6 DEF Multiply
<1>12. \A p \in Parts : done[k][p] =
          IF p < Chunks /\ p < current_chunk /\ chunk[t] # p
             /\ ~ \E u \in Team \ {t} : Eff(u) = "mul" /\ chunk[u] = p
          THEN 1 ELSE 0
  BY <1>3, <1>4, <1>6 DEF Multiply
<1>13. Eff(t)' = "finish" => current_chunk >= Chunks
  <2>1. pc'[t] = "finish" => ~(chunk[t] < Chunks) \/ nth >= Chunks
    BY <1>0 DEF MulChunk, Goto, TypeOK
  <2> DEFINE n == nth
             c == Chunks
  <2>2. n \in Nat /\ c \in Nat BY <1>8, <1>9, ThreadsAssumption
  <2>3. pc'[t] = "finish" => ~(chunk[t] < c) \/ n >= c BY <2>1
  <2>4. current_chunk \in Nat /\ chunk[t] \in Nat /\ chunk[t] < current_chunk /\ current_chunk >= n
    BY <1>10
  <2> HIDE DEF n, c
  <2>5. pc'[t] = "finish" => current_chunk >= c BY <2>2, <2>3, <2>4
  <2>6. QED BY <1>3, <2>5 DEF c
<1>14. /\ \A j \in 0..(Len(Nodes) - 1) : j # k => done'[j] = done[j]
       /\ \A p \in Parts : done'[k][p] =
             IF p < Chunks /\ p < current_chunk
                /\ ~ \E u \in Team \ {t} : Eff(u) = "mul" /\ chunk[u] = p
             THEN 1 ELSE 0
  <2>1. CASE chunk[t] < Chunks
    <3>1. chunk[t] \in Parts BY <1>9, <1>10, <2>1, ThreadsAssumption DEF Parts
    <3>2. done' = [done EXCEPT ![k][chunk[t]] = @ + 1] BY <1>7, <2>1 DEF MulChunk, Did
    <3>3. /\ \A j \in 0..(Len(Nodes) - 1) : j # k => done'[j] = done[j]
          /\ \A p \in Parts : p # chunk[t] => done'[k][p] = done[k][p]
          /\ done'[k][chunk[t]] = done[k][chunk[t]] + 1
      BY <1>0, <3>1, <3>2 DEF TypeOK
    <3>4. done[k][chunk[t]] = 0 BY <1>12, <3>1
    <3>5. QED BY <1>10, <1>11, <1>12, <2>1, <3>1, <3>3, <3>4
  <2>2. CASE ~(chunk[t] < Chunks)
    <3>1. done' = done BY <2>2 DEF MulChunk
    <3>2. QED BY <1>9, <1>12, <2>2, <3>1
  <2>3. QED BY <2>1, <2>2
<1>15. InGraph'
  <2>1. Eff(t)' # "mul" /\ Eff(t)' \in {"mul", "grab", "finish"} BY <1>1, <1>3
  <2>2. node'[t] = node[t] /\ current_chunk' = current_chunk /\ 0 \in Team BY <1>2, <1>4 DEF InGraph
  <2>3. QED BY <1>0, <1>2, <1>3, <1>4, <1>5, <1>6, <1>10, <1>13, <1>14, <2>1, <2>2, MultiplyFrame
<1>16. QED BY <1>5, <1>15

LEMMA GrabStep ==
    ASSUME IInv, NEW t \in Threads, GrabChunk(t)
    PROVE  (Over \/ InGraph)' /\ OutsideInv'
<1>0. TypeOK BY DEF IInv
<1>1. pc[t] = "grab" /\ pc'[t] = "mul" /\ Others(t) /\ chunk'[t] = current_chunk
  BY <1>0 DEF GrabChunk, Goto, TypeOK, Others, pool_vars, barrier_vars
<1>2. UNCHANGED <<abort, node, done, n_graph, last_graph>> /\ current_chunk' = current_chunk + 1
  BY DEF GrabChunk, pool_vars, barrier_vars
<1>3. Eff(t) = "grab" /\ Eff(t)' = "mul"
  BY <1>0, <1>1, EffLemma, EffNext DEF Inside
<1>4. InGraph /\ t \in Team /\ Started(t) BY <1>3, InTeam DEF Outside
<1>5. OutsideInv' /\ \A u \in Team \ {t} : Same(u) BY <1>1, <1>4, OutsideFrame
<1>6. PICK k \in 0..(Len(Nodes) - 1) : Multiply(k)
  BY <1>3, <1>4 DEF InGraph, Walk, Walker, Fresh, Past, InBarrier, Outside
<1>7. Team \subseteq Threads BY <1>0, TeamLemma
<1>8. current_chunk \in Nat /\ \A u \in Team : chunk[u] \in Nat BY <1>0, <1>7 DEF TypeOK
<1>9. \A u \in Team \ {t} : Eff(u) = "mul" => chunk[u] # chunk'[t]
  BY <1>1, <1>6, <1>8 DEF Multiply
<1>10. \A p \in Parts : done'[k][p] =
          IF p < Chunks /\ p < current_chunk' /\ ~(Eff(t)' = "mul" /\ chunk'[t] = p)
             /\ ~ \E u \in Team \ {t} : Eff(u) = "mul" /\ chunk[u] = p
          THEN 1 ELSE 0
  <2>1. \A p \in Parts : done[k][p] =
           IF p < Chunks /\ p < current_chunk
              /\ ~ \E u \in Team : Eff(u) = "mul" /\ chunk[u] = p
           THEN 1 ELSE 0
    BY <1>6 DEF Multiply
  <2>2. \A p \in Parts : p \in Nat /\ (p < current_chunk + 1 /\ p # current_chunk <=> p < current_chunk)
    BY <1>8, ThreadsAssumption DEF Parts
  <2>3. \A p : (\E u \in Team : Eff(u) = "mul" /\ chunk[u] = p)
                 <=> \E u \in Team \ {t} : Eff(u) = "mul" /\ chunk[u] = p
    BY <1>3
  <2>4. QED BY <1>1, <1>2, <1>3, <2>1, <2>2, <2>3
<1>11. InGraph'
  <2>1. current_chunk' \in Nat /\ current_chunk' >= current_chunk /\ chunk'[t] < current_chunk'
    BY <1>1, <1>2, <1>8
  <2>2. /\ node'[t] = node[t] /\ 0 \in Team
        /\ \A j \in 0..(Len(Nodes) - 1) : j # k => done'[j] = done[j]
    BY <1>2, <1>4 DEF InGraph
  <2>3. QED BY <1>0, <1>2, <1>3, <1>4, <1>5, <1>6, <1>9, <1>10, <2>1, <2>2, MultiplyFrame
<1>12. QED BY <1>5, <1>11

LEMMA FinishStep ==
    ASSUME IInv, TypeOK', NEW t \in Threads, FinishNode(t)
    PROVE  (Over \/ InGraph)' /\ OutsideInv'
<1>0. TypeOK /\ Len(Nodes) \in Nat BY NodesAssumption DEF IInv
<1>1. pc[t] = "finish" /\ Others(t)
  BY <1>0 DEF FinishNode, Barrier, Goto, TypeOK, Others, pool_vars
<1>2. /\ UNCHANGED <<current_chunk, chunk, done, n_graph, last_graph>>
      /\ abort' = abort \/ abort' = node[t] + 1
  BY DEF FinishNode
<1>3. Eff(t) = "finish" BY <1>0, <1>1, EffLemma DEF Inside
<1>4. InGraph /\ t \in Team /\ Started(t) BY <1>3, InTeam DEF Outside
<1>5. OutsideInv' /\ \A u \in Team \ {t} : Same(u) BY <1>1, <1>4, OutsideFrame
<1>6. Started(t)' BY <1>2, <1>4 DEF Started
<1>7. node[t] \in 0..(Len(Nodes) - 1) BY <1>3, NodeBounds
<1>8. node[t] + 1 < Len(Nodes) =>
         /\ Barrier(t, "next") /\ after'[t] = "next" /\ node'[t] = node[t]
         /\ nth # 1 => Eff(t)' = "barrier"
         /\ nth = 1 => Eff(t)' = "next" /\ Team = {t}
  <2>1. node[t] + 1 < Len(Nodes) => Barrier(t, "next") /\ node'[t] = node[t] BY DEF FinishNode
  <2>2. QED BY <1>0, <1>4, <2>1, BarrierCall
<1>9. ~(node[t] + 1 < Len(Nodes)) =>
         node[t] + 1 = Len(Nodes) /\ node'[t] = node[t] + 1 /\ Eff(t)' = "loop"
  <2>1. ~(node[t] + 1 < Len(Nodes)) => node'[t] = node[t] + 1 /\ pc'[t] = "loop"
    BY <1>0 DEF FinishNode, Goto, TypeOK
  <2>2. QED BY <1>0, <1>7, <2>1, EffNext DEF Inside
<1>10. 0 \in Team' /\ Team' = Team BY <1>2, <1>4 DEF InGraph, Team, nth
<1>11. \A k : k = node[t] /\ (node[t] + 1 < Len(Nodes) => nth # 1) => Past(t, k)'
  BY <1>8, <1>9 DEF Past, InBarrier
<1>12. ASSUME NEW m \in 0..Len(Nodes), NEW w \in 0..Len(Nodes), Walk(m, w)
       PROVE  (Over \/ InGraph)'
  <2>1. Computes(w) /\ Nodes[w + 1] = "plain" /\ node[t] = w
    BY <1>3, <1>4, <1>12 DEF Walk, Walker, Fresh, Past, InBarrier, Outside
  <2>2. DidPlain(t, w) BY <1>3, <1>4, <2>1 DEF DidPlain
  <2>3. abort # w /\ abort' # w BY <1>0, <1>2, <2>1 DEF Computes, TypeOK
  <2>4. CASE node[t] + 1 < Len(Nodes) => nth # 1
    <3>1. Past(t, w)' BY <1>11, <2>1, <2>4
    <3>2. Walker(t, m, w)' BY <1>6, <2>1, <2>3, <3>1 DEF Walker, Computes
    <3>3. DidPlain(t, w)' BY <1>6, <3>1 DEF DidPlain
    <3>4. ~InBarrier(t, "mul")' BY <1>8, <1>9, <2>4 DEF InBarrier
    <3>5. Walk(m, w)'
      BY <1>0, <1>2, <1>4, <1>5, <1>12, <2>1, <2>2, <3>2, <3>3, <3>4, WalkStep
    <3>6. QED BY <1>10, <3>5 DEF InGraph
  <2>5. CASE node[t] + 1 < Len(Nodes) /\ nth = 1
    <3>1. Exact(w) BY <1>0, <1>8, <1>12, <2>1, <2>2, <2>5, PlainDone
    <3>2. \A j \in 0..w : Exact(j)' BY <1>0, <1>2, <1>12, <3>1, NodeFrame DEF Walk
    <3>3. \A j \in (w + 1)..(Len(Nodes) - 1) : Untouched(j)'
      BY <1>2, <1>12, NodeFrame DEF Walk
    <3>4. abort' = -1 \/ abort' = w + 1 BY <1>2, <1>12, <2>1, <2>3 DEF Walk
    <3>5. w \in 0..(Len(Nodes) - 1) /\ w + 1 < Len(Nodes) BY <1>7, <2>1, <2>5
    <3>6. \A u \in Team' : Started(u)' /\ Eff(u)' = "next" /\ node'[u] = w
      BY <1>6, <1>8, <1>10, <2>1, <2>5
    <3>7. QED BY <1>0, <1>10, <3>2, <3>3, <3>4, <3>5, <3>6, BehindNode
  <2>6. QED BY <2>4, <2>5
<1>13. ASSUME NEW k \in 0..(Len(Nodes) - 1), Multiply(k)
       PROVE  (Over \/ InGraph)'
  <2>1. node[t] = k
    BY <1>3, <1>4, <1>13 DEF Multiply, Multiplier, Past, InBarrier
  <2>2. abort' = -1 \/ abort' = k + 1 BY <1>2, <1>13, <2>1 DEF Multiply
  <2>3. CASE node[t] + 1 < Len(Nodes) => nth # 1
    <3>1. Past(t, k)' /\ Eff(t)' # "mul" BY <1>8, <1>9, <1>11, <2>1, <2>3
    <3>2. abort' = abort \/ abort' = k + 1 BY <1>2, <2>1
    <3>3. Multiply(k)'
      BY <1>0, <1>2, <1>3, <1>4, <1>5, <1>6, <1>13, <3>1, <3>2, MultiplyStep
    <3>4. QED BY <1>10, <3>3 DEF InGraph
  <2>4. CASE node[t] + 1 < Len(Nodes) /\ nth = 1
    <3>1. 0 \in Team /\ \A u \in Team : Eff(u) = "finish" BY <1>3, <1>8, <1>10, <2>4
    <3>2. Exact(k) BY <1>0, <1>13, <3>1, MultiplyDone
    <3>3. \A j \in 0..k : Exact(j)' BY <1>0, <1>2, <1>13, <3>2, NodeFrame DEF Multiply
    <3>4. \A j \in (k + 1)..(Len(Nodes) - 1) : Untouched(j)'
      BY <1>2, <1>13, NodeFrame DEF Multiply
    <3>5. \A u \in Team' : Started(u)' /\ Eff(u)' = "next" /\ node'[u] = k
      BY <1>6, <1>8, <1>10, <2>1, <2>4
    <3>6. k + 1 < Len(Nodes) /\ k + 1 # Len(Nodes) BY <1>0, <2>1, <2>4
    <3>7. QED BY <1>0, <1>10, <2>2, <3>3, <3>4, <3>5, <3>6, BehindNode
  <2>5. QED BY <2>3, <2>4
<1>14. QED BY <1>4, <1>5, <1>12, <1>13 DEF InGraph

LEMMA NextNodeStep ==
    ASSUME IInv, TypeOK', NEW t \in Threads, NextNode(t)
    PROVE  (Over \/ InGraph)' /\ OutsideInv'
<1>0. TypeOK /\ Len(Nodes) \in Nat BY NodesAssumption DEF IInv
<1>1. pc[t] = "loop" /\ Others(t)
  BY <1>0 DEF NextNode, Barrier, Goto, TypeOK, Others, pool_vars
<1>2. UNCHANGED <<abort, current_chunk, chunk, done, n_graph, last_graph>>
  BY DEF NextNode, pool_vars
<1>3. Eff(t) = "loop" BY <1>0, <1>1, EffLemma DEF Inside
<1>4. InGraph /\ t \in Team /\ Started(t) BY <1>3, InTeam DEF Outside
<1>5. OutsideInv' /\ \A u \in Team \ {t} : Same(u) BY <1>1, <1>4, OutsideFrame
<1>6. Started(t)' BY <1>2, <1>4 DEF Started
<1>7. node[t] \in 0..Len(Nodes) BY <1>0 DEF TypeOK
<1>8. 0 \in Team' /\ Team' = Team BY <1>2, <1>4 DEF InGraph, Team, nth
<1>9. node[t] = Len(Nodes) \/ abort = node[t] =>
         /\ after'[t] = "done" /\ node'[t] = node[t]
         /\ nth # 1 => Eff(t)' = "barrier"
         /\ nth = 1 => Eff(t)' = "done" /\ Team = {t}
  <2>1. node[t] = Len(Nodes) \/ abort = node[t] => Barrier(t, "done") /\ node'[t] = node[t]
    BY DEF NextNode
  <2>2. QED BY <1>0, <1>4, <2>1, BarrierCall
<1>10. ~(node[t] = Len(Nodes) \/ abort = node[t]) /\ Kind(t) = "nop" =>
         Eff(t)' = "loop" /\ node'[t] = node[t] + 1
  <2>1. ~(node[t] = Len(Nodes) \/ abort = node[t]) /\ Kind(t) = "nop" =>
           pc'[t] = "loop" /\ node'[t] = node[t] + 1
    BY <1>0, <1>1 DEF NextNode, TypeOK
  <2>2. QED BY <2>1, EffNext DEF Inside
<1>11. ~(node[t] = Len(Nodes) \/ abort = node[t]) /\ Kind(t) # "nop" =>
         node'[t] = node[t] /\ Eff(t)' = IF Kind(t) = "mul" THEN "convert" ELSE "plain"
  <2>1. ~(node[t] = Len(Nodes) \/ abort = node[t]) /\ Kind(t) # "nop" =>
           node'[t] = node[t] /\ pc'[t] = IF Kind(t) = "mul" THEN "convert" ELSE "plain"
    BY <1>0 DEF NextNode, Goto, TypeOK
  <2>2. QED BY <2>1, EffNext DEF Inside
<1>12. ASSUME NEW m \in 0..Len(Nodes), NEW w \in 0..Len(Nodes), Walk(m, w),
              node[t] \in m..w
       PROVE  (Over \/ InGraph)'
  <2>0. ~DidPlain(t, w) BY <1>3, <1>7, <1>12 DEF DidPlain, Past, InBarrier
  <2>1. CASE (node[t] = Len(Nodes) \/ abort = node[t])
    <3>1. node[t] = w /\ ~Computes(w) BY <1>0, <1>7, <1>12, <2>1 DEF Walk, Computes
    <3>2. CASE nth # 1
      <4>1. Walker(t, m, w)' BY <1>2, <1>6, <1>9, <2>1, <3>1, <3>2 DEF Walker, InBarrier, Computes
      <4>2. ~DidPlain(t, w)' /\ ~InBarrier(t, "mul")'
        BY <1>7, <1>9, <2>1, <3>1, <3>2 DEF DidPlain, Past, InBarrier
      <4>3. Walk(m, w)' BY <1>0, <1>2, <1>4, <1>5, <1>12, <2>0, <4>1, <4>2, WalkStep
      <4>4. QED BY <1>8, <4>3 DEF InGraph
    <3>3. CASE nth = 1
      <4>1. \A u \in Team' : Started(u)' /\ Eff(u)' = "done" BY <1>6, <1>8, <1>9, <2>1, <3>3
      <4>2. \A j \in 0..(w - 1) : Exact(j)' BY <1>2, <1>12, NodeFrame DEF Walk
      <4>3. \A j \in w..(Len(Nodes) - 1) : Untouched(j)
        BY <1>0, <1>12, <3>1 DEF Walk
      <4>4. \A j \in w..(Len(Nodes) - 1) : Untouched(j)' BY <1>2, <4>3, NodeFrame
      <4>5. abort' = -1 => w = Len(Nodes) BY <1>0, <1>2, <1>7, <3>1 DEF Computes
      <4>6. \A j \in 0..(Len(Nodes) - 1) : Exact(j)' \/ Untouched(j)' BY <1>0, <4>2, <4>4
      <4>7. Over' BY <1>0, <1>8, <4>1, <4>2, <4>5, <4>6, NewOver
      <4>8. QED BY <4>7
    <3>4. QED BY <3>2, <3>3
  <2>2. CASE ~(node[t] = Len(Nodes) \/ abort = node[t]) /\ Kind(t) = "nop"
    <3>1. node[t] # w BY <1>12, <2>2 DEF Walk, Kind
    <3>2. node'[t] \in m..w BY <1>0, <1>7, <1>10, <1>12, <2>2, <3>1
    <3>3. Eff(t)' = "loop" /\ node'[t] # w + 1 BY <1>10, <2>2, <3>2
    <3>4. Walker(t, m, w)' BY <1>6, <3>2, <3>3 DEF Walker
    <3>5. ~DidPlain(t, w)' /\ ~InBarrier(t, "mul")' BY <3>3 DEF DidPlain, Past, InBarrier
    <3>6. Walk(m, w)' BY <1>0, <1>2, <1>4, <1>5, <1>12, <2>0, <3>4, <3>5, WalkStep
    <3>7. QED BY <1>8, <3>6 DEF InGraph
  <2>3. CASE ~(node[t] = Len(Nodes) \/ abort = node[t]) /\ Kind(t) # "nop"
    <3>1. node[t] = w /\ Computes(w) BY <1>0, <1>7, <1>12, <2>3 DEF Walk, Kind, Computes
    <3>2. Kind(t) \in {"plain", "mul"} BY <1>0, <1>7, <2>3, NodesAssumption DEF Kind
    <3>3. Walker(t, m, w)' BY <1>2, <1>6, <1>11, <2>3, <3>1, <3>2 DEF Walker, Kind, Computes
    <3>4. ~DidPlain(t, w)' /\ ~InBarrier(t, "mul")'
      BY <1>7, <1>11, <2>3, <3>1 DEF DidPlain, Past, InBarrier
    <3>5. Walk(m, w)' BY <1>0, <1>2, <1>4, <1>5, <1>12, <2>0, <3>3, <3>4, WalkStep
    <3>6. QED BY <1>8, <3>5 DEF InGraph
  <2>4. QED BY <2>1, <2>2, <2>3
<1>13. ASSUME NEW m \in 0..Len(Nodes), NEW w \in 0..Len(Nodes), Walk(m, w),
              node[t] \notin m..w
       PROVE  (Over \/ InGraph)'
  <2>1. /\ Computes(w) /\ Nodes[w + 1] = "plain" /\ Past(t, w)
        /\ node[t] = w + 1 /\ w + 1 = Len(Nodes)
    BY <1>3, <1>4, <1>13 DEF Walk, Walker, Fresh, Past, InBarrier, Outside
  <2>2. DidPlain(t, w) BY <1>4, <2>1 DEF DidPlain
  <2>3. CASE nth # 1
    <3>1. Past(t, w)' BY <1>9, <2>1, <2>3 DEF Past, InBarrier
    <3>2. Walker(t, m, w)' BY <1>2, <1>6, <2>1, <3>1 DEF Walker, Computes
    <3>3. DidPlain(t, w)' /\ ~InBarrier(t, "mul")' BY <1>6, <1>9, <2>1, <3>1 DEF DidPlain, InBarrier
    <3>4. Walk(m, w)' BY <1>0, <1>2, <1>4, <1>5, <1>13, <2>2, <3>2, <3>3, WalkStep
    <3>5. QED BY <1>8, <3>4 DEF InGraph
  <2>4. CASE nth = 1
    <3>1. Exact(w) BY <1>0, <1>9, <1>13, <2>1, <2>2, <2>4, PlainDone
    <3>2. \A j \in 0..w : Exact(j)' BY <1>0, <1>2, <1>13, <3>1, NodeFrame DEF Walk
    <3>3. \A j \in (w + 1)..(Len(Nodes) - 1) : Untouched(j)'
      BY <1>2, <1>13, NodeFrame DEF Walk
    <3>4. abort' = -1 \/ abort' = w + 1 BY <1>2, <1>13, <2>1 DEF Walk, Computes
    <3>5. w \in 0..(Len(Nodes) - 1) /\ ~(w + 1 < Len(Nodes)) BY <1>0, <2>1
    <3>6. \A u \in Team' : Started(u)' /\ Eff(u)' = "done" BY <1>6, <1>8, <1>9, <2>1, <2>4
    <3>7. QED BY <1>0, <1>8, <3>2, <3>3, <3>4, <3>5, <3>6, BehindNode
  <2>5. QED BY <2>3, <2>4
<1>14. ASSUME NEW k \in 0..(Len(Nodes) - 1), Multiply(k)
       PROVE  (Over \/ InGraph)'
  <2>1. Past(t, k) /\ node[t] = k + 1 /\ k + 1 = Len(Nodes)
    BY <1>3, <1>4, <1>14 DEF Multiply, Multiplier, Past, InBarrier
  <2>2. CASE nth # 1
    <3>1. Past(t, k)' /\ Eff(t)' # "mul" BY <1>9, <2>1, <2>2 DEF Past, InBarrier
    <3>2. Multiply(k)'
      BY <1>0, <1>2, <1>3, <1>4, <1>5, <1>6, <1>14, <2>1, <3>1, MultiplyStep
    <3>3. QED BY <1>8, <3>2 DEF InGraph
  <2>3. CASE nth = 1
    <3>1. 0 \in Team /\ \A u \in Team : Past(u, k) /\ Eff(u) # "mul"
      BY <1>3, <1>8, <1>9, <2>1, <2>3
    <3>2. Exact(k) BY <1>0, <1>14, <3>1, MultiplyDone
    <3>3. \A j \in 0..k : Exact(j)' BY <1>0, <1>2, <1>14, <3>2, NodeFrame DEF Multiply
    <3>4. \A j \in (k + 1)..(Len(Nodes) - 1) : Untouched(j)'
      BY <1>2, <1>14, NodeFrame DEF Multiply
    <3>5. \A u \in Team' : Started(u)' /\ Eff(u)' = "done" BY <1>6, <1>8, <1>9, <2>1, <2>3
    <3>6. ~(k + 1 < Len(Nodes)) /\ (abort' = -1 \/ abort' = k + 1)
      BY <1>0, <1>2, <1>14, <2>1 DEF Multiply
    <3>7. QED BY <1>0, <1>8, <3>3, <3>4, <3>5, <3>6, BehindNode
  <2>4. QED BY <2>2, <2>3
<1>15. QED BY <1>4, <1>5, <1>12, <1>13, <1>14 DEF InGraph

LEMMA DoneStep ==
    ASSUME IInv, NEW t \in Threads, GraphDone(t)
    PROVE  (Over \/ InGraph)' /\ OutsideInv'
<1>0. TypeOK BY DEF IInv
<1>1. /\ pc[t] = "done" /\ pc'[t] = (IF t = 0 THEN "idle" ELSE "top") /\ Others(t)
      /\ UNCHANGED <<abort, done, current_chunk, node, n_graph, last_graph>>
  BY <1>0 DEF GraphDone, Goto, TypeOK, Others, pool_vars, barrier_vars, work_vars
<1>2. Eff(t) = "done" /\ Eff(t)' = IF t = 0 THEN "idle" ELSE "top"
  BY <1>0, <1>1, EffLemma, EffNext DEF Inside
<1>3. CASE t = 0
  <2>1. ~InGraph
    BY <1>2, <1>3 DEF InGraph, Walk, Walker, Multiply, Multiplier, Past, InBarrier, Fresh, Workers
  <2>2. Over /\ OutsideInv BY <2>1 DEF IInv
  <2>3. \A w \in Workers : Eff(w)' = Eff(w)
    BY <1>1, <1>3, OthersSame, ThreadsAssumption DEF Same, Threads, Workers
  <2>4. QED BY <1>1, <1>2, <1>3, <2>2, <2>3, OverFrame
<1>4. CASE t # 0
  <2>1. t \in Workers BY <1>4, ThreadsAssumption DEF Threads, Workers
  <2>2. Eff(t) \in Outside /\ Eff(t)' \in Outside BY <1>2, <1>4 DEF Outside
  <2>3. QED BY <1>1, <2>1, <2>2, OutsideStep
<1>5. QED BY <1>3, <1>4

----------------------------------------------------------------------------
(* The barrier. *)

\* All but the release of the others leave everybody where he was.
LEMMA BarrierSame ==
    ASSUME IInv, NEW t \in Threads,
           BarrierEnter(t) \/ BarrierAdd(t) \/ BarrierLast(t) \/ BarrierSpin(t)
    PROVE  /\ (Over \/ InGraph)' /\ OutsideInv'
           /\ \A u \in Threads : Eff(u)' = Eff(u)
<1>0. TypeOK /\ BarrierInv BY DEF IInv
<1>1. /\ \A u \in Threads \ {t} : pc'[u] = pc[u] /\ passed'[u] = passed[u]
      /\ UNCHANGED <<n_graph, abort, done, current_chunk, last_graph, n_barrier_passed,
                     after, node, chunk>>
  BY <1>0 DEF BarrierEnter, BarrierAdd, BarrierLast, BarrierSpin, Goto, TypeOK, pool_vars,
              work_vars, barrier_vars
<1>2. \A u \in Threads \ {t} : Eff(u)' = Eff(u) BY <1>1, EffFrame
<1>3. Eff(t)' = Eff(t)
  <2>1. CASE BarrierEnter(t)
    <3>1. pc[t] = "enter" /\ pc'[t] = "add" BY <1>0, <2>1 DEF BarrierEnter, Goto, TypeOK
    <3>2. QED BY <1>0, <3>1, EffLemma, EffNext
  <2>2. CASE BarrierAdd(t)
    <3>1. pc[t] = "add" /\ pc'[t] \in {"last", "spin"} /\ passed' = passed
      BY <1>0, <2>2 DEF BarrierAdd, Goto, TypeOK
    <3>2. passed[t] = n_barrier_passed BY <1>0, <3>1 DEF BarrierInv
    <3>3. QED BY <1>0, <1>1, <3>1, <3>2, EffLemma, EffNext
  <2>3. CASE BarrierLast(t)
    <3>1. pc[t] = "last" /\ pc'[t] = "release" BY <1>0, <2>3 DEF BarrierLast, Goto, TypeOK
    <3>2. QED BY <1>0, <3>1, EffLemma, EffNext
  <2>4. CASE BarrierSpin(t)
    <3>1. pc[t] = "spin" /\ passed[t] # n_barrier_passed /\ pc'[t] = after[t]
      BY <1>0, <2>4 DEF BarrierSpin, Goto, TypeOK
    <3>2. after[t] \notin Inside BY <1>0 DEF TypeOK, Inside
    <3>3. QED BY <1>0, <3>1, <3>2, EffLemma, EffNext
  <2>5. QED BY <2>1, <2>2, <2>3, <2>4
<1>4. \A u \in Threads : Eff(u)' = Eff(u) BY <1>2, <1>3
<1>5. \A u \in Threads : Same(u) BY <1>1, <1>4 DEF Same
<1>6. QED BY <1>1, <1>4, <1>5, SameFrame

LEMMA EnterBarrier ==
    ASSUME IInv, NEW t \in Threads, BarrierEnter(t)
    PROVE  BarrierInv'
<1>0. TypeOK /\ BarrierInv BY DEF IInv
<1>1. /\ pc[t] = "enter" /\ pc'[t] = "add" /\ passed'[t] = n_barrier_passed
      /\ \A u \in Threads \ {t} : pc'[u] = pc[u] /\ passed'[u] = passed[u]
      /\ UNCHANGED <<n_graph, n_barrier, n_barrier_passed>>
  BY <1>0 DEF BarrierEnter, Goto, TypeOK, pool_vars
<1>2. Waiting' = Waiting BY <1>1 DEF Waiting
<1>3. Team' = Team /\ nth' = nth BY <1>1 DEF Team, nth
<1>4. \A u \in Threads : Eff(u)' = Eff(u) BY BarrierSame
<1>5. n_barrier_passed \in Nat BY <1>0 DEF TypeOK
<1>6. \A u \in Threads : passed'[u] <= n_barrier_passed' BY <1>0, <1>1, <1>5 DEF BarrierInv
<1>7. QED BY <1>0, <1>1, <1>2, <1>3, <1>4, <1>6 DEF BarrierInv

LEMMA AddBarrier ==
    ASSUME IInv, NEW t \in Threads, BarrierAdd(t)
    PROVE  BarrierInv'
<1>0. TypeOK /\ BarrierInv BY DEF IInv
<1>1. /\ pc[t] = "add" /\ pc'[t] = (IF n_barrier = nth - 1 THEN "last" ELSE "spin")
      /\ \A u \in Threads \ {t} : pc'[u] = pc[u]
      /\ UNCHANGED <<n_graph, n_barrier_passed, passed>> /\ n_barrier' = n_barrier + 1
  BY <1>0 DEF BarrierAdd, Goto, TypeOK, pool_vars
<1>2. Team' = Team /\ nth' = nth BY <1>1 DEF Team, nth
<1>3. \A u \in Threads : Eff(u)' = Eff(u) BY BarrierSame
<1>4. t \notin Waiting /\ passed[t] = n_barrier_passed /\ Eff(t) = "barrier"
  BY <1>0, <1>1, EffLemma DEF Waiting, BarrierInv
<1>5. t \in Team BY <1>0, <1>4 DEF BarrierInv
<1>6. \A u \in Threads : pc[u] \notin {"last", "release"}
  BY <1>0, <1>1, <1>4, <1>5 DEF BarrierInv
<1>7. n_barrier = Cardinality(Waiting) /\ n_barrier < nth
  BY <1>0, <1>1, <1>6, NodeBounds DEF BarrierInv
<1>8. IsFiniteSet(Team) /\ Cardinality(Team) = nth /\ nth \in Nat BY <1>0, TeamLemma
<1>9. Waiting \subseteq Team \ {t}
  <2>1. \A u \in Waiting : u \in Threads /\ Eff(u) = "barrier" BY DEF Waiting, Eff
  <2>2. QED BY <1>0, <1>4, <2>1 DEF BarrierInv
<1>10. IsFiniteSet(Team \ {t}) /\ Cardinality(Team \ {t}) = nth - 1
  BY <1>5, <1>8, FS_RemoveElement
<1>11. IsFiniteSet(Waiting) BY <1>9, <1>10, FS_Subset
<1>12. \A u \in Threads : passed'[u] <= n_barrier_passed' BY <1>0, <1>1 DEF BarrierInv
<1>13. \A u \in Threads : pc'[u] = "add" => passed'[u] = n_barrier_passed'
  BY <1>0, <1>1 DEF BarrierInv
<1>14. \A u \in Threads : Eff(u)' = "barrier" => u \in Team' BY <1>0, <1>2, <1>3 DEF BarrierInv
<1>15. n_barrier \in Nat BY <1>0, ThreadsAssumption DEF TypeOK
<1>16. CASE n_barrier = nth - 1
  <2>1. pc'[t] = "last" BY <1>1, <1>16
  <2>2. Waiting = Team \ {t} BY <1>7, <1>9, <1>10, <1>16, FS_Subset
  <2>3. Waiting' = Waiting BY <1>1, <2>1 DEF Waiting
  <2>4. n_barrier' = nth BY <1>1, <1>8, <1>16
  <2>5. \A u \in Threads : pc'[u] \in {"last", "release"} => u = t BY <1>1, <1>6
  <2>6. QED BY <1>2, <1>12, <1>13, <1>14, <2>1, <2>2, <2>3, <2>4, <2>5 DEF BarrierInv
<1>17. CASE n_barrier # nth - 1
  <2>1. pc'[t] = "spin" BY <1>1, <1>17
  <2>2. Waiting' = Waiting \cup {t} BY <1>1, <1>4, <2>1 DEF Waiting
  <2>3. Cardinality(Waiting') = Cardinality(Waiting) + 1 BY <1>4, <1>11, <2>2, FS_AddElement
  <2>4. n_barrier' = Cardinality(Waiting') /\ n_barrier' < nth'
    BY <1>1, <1>2, <1>7, <1>8, <1>15, <1>17, <2>3
  <2>5. \A u \in Threads : pc'[u] \notin {"last", "release"} BY <1>1, <1>6, <2>1
  <2>6. QED BY <1>12, <1>13, <1>14, <2>4, <2>5 DEF BarrierInv
<1>18. QED BY <1>16, <1>17

LEMMA LastBarrier ==
    ASSUME IInv, NEW t \in Threads, BarrierLast(t)
    PROVE  BarrierInv'
<1>0. TypeOK /\ BarrierInv BY DEF IInv
<1>1. /\ pc[t] = "last" /\ pc'[t] = "release" /\ n_barrier' = 0
      /\ \A u \in Threads \ {t} : pc'[u] = pc[u]
      /\ UNCHANGED <<n_graph, n_barrier_passed, passed>>
  BY <1>0 DEF BarrierLast, Goto, TypeOK, pool_vars
<1>2. Team' = Team /\ nth' = nth BY <1>1 DEF Team, nth
<1>3. \A u \in Threads : Eff(u)' = Eff(u) BY BarrierSame
<1>4. Waiting = Team \ {t} /\ t \in Team BY <1>0, <1>1, EffLemma DEF BarrierInv
<1>5. Waiting' = Waiting BY <1>1 DEF Waiting
<1>6. \A u \in Threads : pc[u] \in {"last", "release"} => u = t
  BY <1>0, <1>4 DEF BarrierInv
<1>7. QED BY <1>0, <1>1, <1>2, <1>3, <1>4, <1>5, <1>6 DEF BarrierInv

\* The last thread lets the others go.
LEMMA Released ==
    ASSUME IInv, NEW t \in Threads, BarrierRelease(t)
    PROVE  /\ t \in Team /\ \A u \in Team : Eff(u) = "barrier" /\ Eff(u)' = after[u]
           /\ \A u \in Threads \ Team : Eff(u) # "barrier" /\ Eff(u)' = Eff(u)
           /\ BarrierInv'
           /\ UNCHANGED <<n_graph, abort, done, current_chunk, last_graph, after, node, chunk>>
<1>0. TypeOK /\ BarrierInv BY DEF IInv
<1>1. /\ pc[t] = "release" /\ pc'[t] = after[t] /\ n_barrier_passed' = n_barrier_passed + 1
      /\ \A u \in Threads \ {t} : pc'[u] = pc[u]
      /\ UNCHANGED <<n_barrier, passed, after>>
  BY <1>0 DEF BarrierRelease, Goto, TypeOK, pool_vars, work_vars
<1>2. UNCHANGED <<n_graph, abort, done, current_chunk, last_graph, node, chunk>>
  BY DEF BarrierRelease, pool_vars, work_vars
<1>3. Team' = Team /\ nth' = nth /\ Team \subseteq Threads /\ nth \in Nat
  BY <1>0, <1>2, TeamLemma DEF Team, nth
<1>4. Waiting = Team \ {t} /\ t \in Team /\ n_barrier = 0
  BY <1>0, <1>1, EffLemma DEF BarrierInv
<1>5. \A u \in Threads : after[u] \in {"mul", "next", "done"} /\ passed[u] \in Nat
  BY <1>0 DEF TypeOK
<1>6. \A u \in Threads : passed'[u] <= n_barrier_passed' /\ passed'[u] # n_barrier_passed'
  BY <1>0, <1>1, <1>5 DEF BarrierInv, TypeOK
<1>7. \A u \in Team : u = t \/ (pc[u] = "spin" /\ u \in Waiting) BY <1>4 DEF Waiting
<1>8. \A u \in Team : Eff(u) = "barrier" /\ Eff(u)' = after[u]
  <2>1. SUFFICES ASSUME NEW u \in Team PROVE Eff(u) = "barrier" /\ Eff(u)' = after[u] OBVIOUS
  <2>2. u \in Threads BY <1>3
  <2>3. CASE u = t
    <3>1. pc'[t] \notin Inside BY <1>1, <1>5 DEF Inside
    <3>2. QED BY <1>0, <1>1, <2>3, <3>1, EffLemma, EffNext
  <2>4. CASE u # t
    <3>1. pc'[u] = "spin" BY <1>1, <1>7, <2>2, <2>4
    <3>2. QED BY <1>1, <1>6, <1>7, <2>2, <2>4, <3>1, EffNext DEF Eff
  <2>5. QED BY <2>3, <2>4
<1>9. \A u \in Threads \ Team : Eff(u) # "barrier" /\ Eff(u)' = Eff(u)
  <2>1. SUFFICES ASSUME NEW u \in Threads, u \notin Team
                 PROVE  Eff(u) # "barrier" /\ Eff(u)' = Eff(u)
    OBVIOUS
  <2>2. Eff(u) # "barrier" BY <1>0, <2>1 DEF BarrierInv
  <2>3. pc'[u] = pc[u] BY <1>1, <1>4, <2>1
  <2>4. u \notin Waiting /\ u \notin Waiting' BY <1>4, <1>6, <2>1 DEF Waiting
  <2>5. QED BY <1>1, <2>2, <2>3, <2>4 DEF Eff
<1>10. \A u \in Threads : Eff(u)' # "barrier"
  BY <1>3, <1>5, <1>8, <1>9
<1>11. \A u \in Threads : pc'[u] \notin {"add", "last", "release"} BY <1>10, EffNext
<1>12. Waiting' = {} BY <1>6 DEF Waiting
<1>13. n_barrier' = Cardinality(Waiting') /\ (n_barrier' < nth' \/ nth' = 0)
  BY <1>1, <1>3, <1>4, <1>12, FS_EmptySet
<1>14. BarrierInv' BY <1>6, <1>10, <1>11, <1>13 DEF BarrierInv
<1>15. QED BY <1>1, <1>2, <1>4, <1>8, <1>9, <1>14

LEMMA ReleaseStep ==
    ASSUME IInv, TypeOK', NEW t \in Threads, BarrierRelease(t)
    PROVE  (Over \/ InGraph)' /\ OutsideInv'
<1>0. TypeOK /\ Len(Nodes) \in Nat BY NodesAssumption DEF IInv
<1>1. /\ t \in Team
      /\ \A u \in Team : Eff(u) = "barrier" /\ Eff(u)' = after[u]
      /\ \A u \in Threads \ Team : Eff(u)' = Eff(u)
      /\ UNCHANGED <<n_graph, abort, done, current_chunk, last_graph, after, node, chunk>>
  BY Released
<1>2. InGraph BY <1>1, InTeam DEF Outside
<1>3. 0 \in Team' /\ Team' = Team /\ nth' = nth BY <1>1, <1>2 DEF InGraph, Team, nth
<1>4. Workers \subseteq Threads BY ThreadsAssumption DEF Threads, Workers
<1>5. OutsideInv' BY <1>1, <1>3, <1>4 DEF IInv, OutsideInv
<1>6. \A u \in Team : Started(u)' <=> Started(u) BY <1>1 DEF Started
<1>7. \A j : (Exact(j)' <=> Exact(j)) /\ (Untouched(j)' <=> Untouched(j)) BY <1>1, NodeFrame
<1>8. \A u \in Team : ~Fresh(u) BY <1>1 DEF Fresh, Outside
<1>9. \A u \in Team : \A k : Past(u, k) =>
         /\ k + 1 < Len(Nodes) => Eff(u)' = "next" /\ node'[u] = k
         /\ k + 1 = Len(Nodes) => Eff(u)' = "done"
  BY <1>1 DEF Past, InBarrier
<1>10. ASSUME NEW m \in 0..Len(Nodes), NEW w \in 0..Len(Nodes), Walk(m, w)
       PROVE  (Over \/ InGraph)'
  <2>0. \A u \in Team : Walker(u, m, w) /\ Started(u) BY <1>8, <1>10 DEF Walk, Walker
  <2>1. CASE ~Computes(w)
    <3>1. \A u \in Team : Eff(u)' = "done" BY <1>1, <1>8, <2>0, <2>1 DEF Walker, InBarrier
    <3>2. \A j \in 0..(w - 1) : Exact(j)' BY <1>7, <1>10 DEF Walk
    <3>3. \A j \in w..(Len(Nodes) - 1) : Untouched(j)' BY <1>0, <1>7, <1>10, <2>1 DEF Walk
    <3>4. abort' = -1 => w = Len(Nodes) BY <1>0, <1>1, <2>1 DEF Computes
    <3>5. \A j \in 0..(Len(Nodes) - 1) : Exact(j)' \/ Untouched(j)' BY <1>0, <3>2, <3>3
    <3>6. Over' BY <1>0, <1>3, <1>6, <2>0, <3>1, <3>2, <3>4, <3>5, NewOver
    <3>7. QED BY <3>6
  <2>2. CASE Computes(w) /\ Nodes[w + 1] = "plain"
    <3>1. \A u \in Team : Past(u, w) /\ DidPlain(u, w)
      BY <1>1, <1>8, <2>0, <2>2 DEF Walker, DidPlain
    <3>2. Exact(w) BY <1>0, <1>10, <2>2, <3>1, PlainDone
    <3>3. \A j \in 0..w : Exact(j)' BY <1>0, <1>7, <1>10, <3>2 DEF Walk
    <3>4. \A j \in (w + 1)..(Len(Nodes) - 1) : Untouched(j)' BY <1>7, <1>10 DEF Walk
    <3>5. abort' = -1 \/ abort' = w + 1 BY <1>1, <1>10, <2>2 DEF Walk, Computes
    <3>6. w \in 0..(Len(Nodes) - 1) BY <1>0, <2>2 DEF Computes
    <3>7. QED BY <1>0, <1>3, <1>6, <1>9, <2>0, <3>1, <3>3, <3>4, <3>5, <3>6, BehindNode
  <2>3. CASE Computes(w) /\ Nodes[w + 1] # "plain"
    <3>1. \A u \in Team : Nodes[w + 1] = "mul" /\ node[u] = w /\ InBarrier(u, "mul")
      BY <1>1, <1>8, <2>0, <2>3 DEF Walker
    <3>2. \A u \in Team : Eff(u)' = "mul" /\ chunk[u] = u
      BY <1>1, <1>10, <3>1 DEF Walk, InBarrier
    <3>3. current_chunk = nth BY <1>3, <1>10, <3>1 DEF Walk
    <3>4. \A j \in 0..(w - 1) : Exact(j)' BY <1>7, <1>10 DEF Walk
    <3>5. \A j \in w..(Len(Nodes) - 1) : Untouched(j)'
      BY <1>0, <1>7, <1>10, <2>3 DEF Walk, Computes
    <3>6. abort' = -1 \/ abort' = w + 1 BY <1>1, <1>10, <2>3 DEF Walk, Computes
    <3>7. w \in 0..(Len(Nodes) - 1) /\ nth \in Nat BY <1>0, <2>3, TeamLemma DEF Computes
    <3>8. InGraph'
      BY <1>1, <1>3, <1>6, <2>0, <3>1, <3>2, <3>3, <3>4, <3>5, <3>6, <3>7, NewMultiply
    <3>9. QED BY <3>8
  <2>4. QED BY <2>1, <2>2, <2>3
<1>11. ASSUME NEW k \in 0..(Len(Nodes) - 1), Multiply(k)
       PROVE  (Over \/ InGraph)'
  <2>1. \A u \in Team : Past(u, k) /\ Started(u) BY <1>1, <1>11 DEF Multiply, Multiplier
  <2>2. \A u \in Team : Eff(u) # "mul" BY <1>1
  <2>3. Exact(k) BY <1>0, <1>3, <1>11, <2>1, <2>2, MultiplyDone
  <2>4. \A j \in 0..k : Exact(j)' BY <1>0, <1>7, <1>11, <2>3 DEF Multiply
  <2>5. \A j \in (k + 1)..(Len(Nodes) - 1) : Untouched(j)' BY <1>7, <1>11 DEF Multiply
  <2>6. abort' = -1 \/ abort' = k + 1 BY <1>1, <1>11 DEF Multiply
  <2>7. QED BY <1>0, <1>3, <1>6, <1>9, <2>1, <2>4, <2>5, <2>6, BehindNode
<1>12. QED BY <1>2, <1>5, <1>10, <1>11 DEF InGraph

----------------------------------------------------------------------------
(* The workers out of the graph, and the main thread. *)

LEMMA WorkerOutStep ==
    ASSUME IInv, NEW w \in Workers,
           WorkerTop(w) \/ WorkerSleep(w) \/ SpuriousWake(w) \/ (WorkerReady(w) /\ (stop \/ pause))
    PROVE  (Over \/ InGraph)' /\ OutsideInv' /\ BarrierInv'
<1>0. TypeOK /\ w \in Threads BY ThreadsAssumption DEF IInv, Threads, Workers
<1>1. /\ pc[w] \in {"top", "poll", "asleep", "paused"}
      /\ pc'[w] \in {"top", "poll", "asleep", "paused", "ended"}
      /\ Others(w) /\ UNCHANGED <<abort, done, current_chunk, node, n_graph, n_barrier,
                                  n_barrier_passed, passed>>
  BY <1>0 DEF WorkerTop, WorkerSleep, SpuriousWake, WorkerReady, Goto, TypeOK, Others,
              pool_vars, barrier_vars, work_vars
<1>2. Eff(w) = pc[w] /\ Eff(w)' = pc'[w] BY <1>0, <1>1, EffLemma, EffNext DEF Inside
<1>3. Eff(w) \in Outside /\ Eff(w)' \in Outside BY <1>1, <1>2 DEF Outside
<1>4. BarrierInv'
  <2>1. Eff(w) # "barrier" /\ pc'[w] \in Steps \ {"add", "last", "release", "spin"} /\ pc'[w] # "enter"
    BY <1>1, <1>2 DEF Steps
  <2>2. \A u \in Threads \ {w} : pc'[u] = pc[u] /\ after'[u] = after[u] BY <1>1 DEF Others
  <2>3. QED BY <1>0, <1>1, <2>1, <2>2, BarrierFrame
<1>5. QED BY <1>1, <1>3, <1>4, OutsideStep

\* A worker sees a new graph.
LEMMA ReadyStep ==
    ASSUME IInv, NEW t \in Workers, WorkerReady(t), ~stop, ~pause
    PROVE  (Over \/ InGraph)' /\ OutsideInv' /\ BarrierInv'
<1>0. TypeOK /\ t \in Threads /\ Workers \subseteq Threads /\ 0 \in Threads /\ 0 \notin Workers
  BY ThreadsAssumption DEF IInv, Threads, Workers
<1>1. /\ pc[t] = "poll" /\ last_graph[t] # n_graph /\ last_graph'[t] = n_graph
      /\ \A u \in Threads \ {t} : /\ pc'[u] = pc[u] /\ passed'[u] = passed[u]
                                  /\ after'[u] = after[u] /\ node'[u] = node[u]
                                  /\ chunk'[u] = chunk[u]
      /\ \A u \in Workers \ {t} : last_graph'[u] = last_graph[u]
      /\ UNCHANGED <<n_graph, abort, done, current_chunk, n_barrier, n_barrier_passed, passed>>
  BY <1>0 DEF WorkerReady, Goto, TypeOK, barrier_vars
<1>2. IF t < nth THEN pc'[t] = "loop" /\ node'[t] = 0 ELSE pc'[t] = "top"
  BY <1>0 DEF WorkerReady, Goto, TypeOK, nth
<1>3. Eff(t) = "poll" /\ Eff(t)' = pc'[t] BY <1>0, <1>1, <1>2, EffLemma, EffNext DEF Inside
<1>4. \A u \in Threads \ {t} : Eff(u)' = Eff(u) BY <1>0, <1>1, EffFrame
<1>5. \A u \in Threads \ {t} : Same(u) BY <1>1, <1>4 DEF Same
<1>6. Team' = Team /\ Team \subseteq Threads /\ nth \in Nat
  BY <1>0, <1>1, TeamLemma DEF Team, nth
<1>7. t \in Team <=> t < nth BY <1>6 DEF Team, Workers
<1>8. BarrierInv'
  <2>1. Eff(t) # "barrier" /\ pc'[t] \in Steps \ {"add", "last", "release", "spin"} /\ pc'[t] # "enter"
    BY <1>2, <1>3 DEF Steps
  <2>2. QED BY <1>0, <1>1, <2>1, BarrierFrame
<1>9. \A w \in Workers : last_graph'[w].number <= n_graph'.number
  <2>1. n_graph.number \in Nat BY <1>0 DEF TypeOK
  <2>2. last_graph'[t].number <= n_graph.number BY <1>1, <2>1
  <2>3. QED BY <1>1, <2>2 DEF IInv, OutsideInv
<1>10. \A w \in Workers : w \notin Team' => Eff(w)' \in Outside
  <2>1. t \notin Team => Eff(t)' \in Outside BY <1>2, <1>3, <1>7 DEF Outside
  <2>2. QED BY <1>0, <1>4, <1>6, <2>1 DEF IInv, OutsideInv
<1>11. OutsideInv' BY <1>9, <1>10 DEF OutsideInv
<1>12. CASE t \in Team
  <2>1. ~Over BY <1>1, <1>12 DEF Over
  <2>2. ~Started(t) BY <1>0, <1>1 DEF Started
  <2>3. InGraph BY <2>1 DEF IInv
  <2>4. PICK m \in 0..Len(Nodes), w \in 0..Len(Nodes) : Walk(m, w)
    BY <1>12, <2>2, <2>3 DEF InGraph, Multiply, Multiplier
  <2>5. m = 0 BY <1>12, <2>2, <2>4 DEF Walk, Walker
  <2>6. Started(t)' BY <1>1 DEF Started
  <2>7. Eff(t)' = "loop" /\ node'[t] = 0 /\ 0 \in 0..w BY <1>2, <1>3, <1>7, <1>12
  <2>8. Walker(t, m, w)' BY <2>5, <2>6, <2>7 DEF Walker
  <2>9. ~DidPlain(t, w) /\ ~DidPlain(t, w)' /\ ~InBarrier(t, "mul")'
    BY <2>2, <2>7 DEF DidPlain, Past, InBarrier
  <2>10. \A u \in Team \ {t} : Same(u) BY <1>5, <1>6
  <2>11. Walk(m, w)' BY <1>0, <1>1, <1>12, <2>4, <2>8, <2>9, <2>10, WalkStep
  <2>12. QED BY <1>6, <1>8, <1>11, <2>3, <2>11 DEF InGraph
<1>13. CASE t \notin Team
  <2>1. InGraph => InGraph' BY <1>0, <1>1, <1>5, <1>6, <1>13, StretchFrame
  <2>2. Over => Over'
    <3>1. \A k : Complete(k)' <=> Complete(k) BY <1>1, NodeFrame
    <3>2. Eff(0)' = Eff(0) BY <1>0, <1>4
    <3>3. \A w \in Workers : w \in Team => w # t /\ last_graph'[w] = last_graph[w] /\ Eff(w)' = Eff(w)
      BY <1>0, <1>1, <1>4, <1>13
    <3>4. QED BY <1>1, <1>6, <3>1, <3>2, <3>3 DEF Over
  <2>3. QED BY <1>8, <1>11, <2>1, <2>2 DEF IInv
<1>14. QED BY <1>12, <1>13

\* While the main thread is out of the graph, so is everybody, and the barrier
\* is empty.
LEMMA MainIdle ==
    ASSUME IInv, pc[0] \in {"idle", "joining"}
    PROVE  /\ Over /\ Eff(0) = pc[0] /\ Waiting = {} /\ n_barrier = 0
           /\ \A w \in Workers : Eff(w) \in Outside
           /\ \A t \in Threads : pc[t] \notin {"enter", "add", "last", "release"}
<1>0. TypeOK /\ BarrierInv /\ 0 \in Threads BY ThreadsAssumption DEF IInv, Threads
<1>1. Eff(0) = pc[0] BY <1>0, EffLemma DEF Inside
<1>2. ~InGraph
  BY <1>1 DEF InGraph, Walk, Walker, Multiply, Multiplier, Past, InBarrier, Fresh, Workers
<1>3. Over BY <1>2 DEF IInv
<1>4. \A w \in Workers : Eff(w) \in Outside BY <1>3 DEF Over, IInv, OutsideInv
<1>5. \A t \in Threads : Eff(t) # "barrier"
  BY <1>1, <1>4 DEF Outside, Threads, Workers
<1>6. Waiting = {} BY <1>5 DEF Waiting, Eff
<1>7. \A t \in Threads : pc[t] \notin {"enter", "add", "last", "release"} BY <1>5 DEF Eff
<1>8. n_barrier = 0 BY <1>0, <1>6, <1>7, FS_EmptySet DEF BarrierInv
<1>9. QED BY <1>1, <1>3, <1>4, <1>6, <1>7, <1>8

\* A broadcast wakes the sleeping workers.
LEMMA BroadcastLemma ==
    ASSUME IInv, pc[0] = "idle", NEW s \in {"idle", "joining", "loop"}, Broadcast(s),
           UNCHANGED barrier_vars
    PROVE  /\ Eff(0)' = s /\ \A w \in Workers : Eff(w)' \in Outside
           /\ nth' \in Nat => BarrierInv'
<1>0. TypeOK /\ BarrierInv /\ 0 \in Threads /\ Workers \subseteq Threads
  BY ThreadsAssumption DEF IInv, Threads, Workers
<1>1. /\ Waiting = {} /\ n_barrier = 0
      /\ \A w \in Workers : Eff(w) \in Outside
      /\ \A t \in Threads : pc[t] \notin {"enter", "add", "last", "release"}
  BY MainIdle
<1>2. pc'[0] = s BY <1>0 DEF Broadcast
<1>3. Eff(0)' = s BY <1>0, <1>2, EffNext DEF Inside
<1>4. \A w \in Workers : pc'[w] \in {"poll", "top"} \/ pc'[w] = pc[w]
  BY <1>0 DEF Broadcast, Workers
<1>5. UNCHANGED <<n_barrier, n_barrier_passed, passed, after>> BY DEF barrier_vars
<1>6. \A w \in Workers : Eff(w)' \in Outside
  <2>1. SUFFICES ASSUME NEW w \in Workers PROVE Eff(w)' \in Outside OBVIOUS
  <2>2. w \in Threads BY <1>0
  <2>3. CASE pc'[w] \in {"poll", "top"} BY <2>2, <2>3, EffNext DEF Inside, Outside
  <2>4. CASE pc'[w] = pc[w]
    <3>1. Eff(w)' = Eff(w) BY <1>5, <2>4 DEF Eff, Waiting
    <3>2. QED BY <1>1, <3>1
  <2>5. QED BY <1>4, <2>3, <2>4
<1>7. \A t \in Threads : Eff(t)' # "barrier"
  BY <1>3, <1>6 DEF Outside, Threads, Workers
<1>8. \A t \in Threads : pc'[t] \notin {"add", "last", "release"} BY <1>7, EffNext
<1>9. Waiting' = {} BY <1>7 DEF Waiting, Eff
<1>10. ASSUME nth' \in Nat PROVE BarrierInv'
  <2>1. n_barrier' = Cardinality(Waiting') /\ (n_barrier' < nth' \/ nth' = 0)
    BY <1>1, <1>5, <1>9, <1>10, FS_EmptySet
  <2>2. \A t \in Threads : passed'[t] <= n_barrier_passed' BY <1>0, <1>5 DEF BarrierInv
  <2>3. QED BY <1>7, <1>8, <2>1, <2>2 DEF BarrierInv
<1>11. QED BY <1>3, <1>6, <1>10

LEMMA MainStep ==
    ASSUME IInv, TypeOK', Pause \/ Resume \/ Free \/ Joined
    PROVE  (Over \/ InGraph)' /\ OutsideInv' /\ BarrierInv'
<1>0. TypeOK /\ OutsideInv /\ 0 \in Threads /\ Workers \subseteq Threads /\ 0 \notin Workers
  BY ThreadsAssumption DEF IInv, Threads, Workers
<1>1. nth' \in Nat BY ThreadsAssumption DEF TypeOK, nth
<1>2. UNCHANGED <<n_graph, abort, done, last_graph>> /\ UNCHANGED barrier_vars
  BY DEF Pause, Resume, Free, Joined, pool_vars, work_vars
<1>3. pc[0] \in {"idle", "joining"} BY DEF Pause, Resume, Free, Joined
<1>4. Over /\ Eff(0) = pc[0] /\ \A w \in Workers : Eff(w) \in Outside BY <1>3, MainIdle
<1>5. CASE Pause \/ Resume \/ Free
  <2>1. pc[0] = "idle" /\ \E s \in {"idle", "joining"} : Broadcast(s)
    BY <1>5 DEF Pause, Resume, Free
  <2>2. PICK s \in {"idle", "joining"} : Broadcast(s) BY <2>1
  <2>3. Eff(0)' = s /\ (\A w \in Workers : Eff(w)' \in Outside) /\ BarrierInv'
    BY <1>1, <1>2, <2>1, <2>2, BroadcastLemma
  <2>4. QED BY <1>0, <1>2, <1>4, <2>3, OverFrame
<1>6. CASE Joined
  <2>1. pc'[0] = "freed" /\ \A u \in Threads \ {0} : pc'[u] = pc[u] /\ after'[u] = after[u]
    BY <1>0, <1>6 DEF Joined, Goto, TypeOK, barrier_vars
  <2>2. UNCHANGED <<n_barrier, n_barrier_passed, passed, after>> BY <1>2 DEF barrier_vars
  <2>3. Eff(0)' = "freed" BY <1>0, <2>1, EffNext DEF Inside
  <2>4. \A u \in Threads \ {0} : Eff(u)' = Eff(u) BY <1>0, <2>1, <2>2, EffFrame
  <2>5. Over' /\ OutsideInv' BY <1>0, <1>2, <1>4, <2>3, <2>4, OverFrame
  <2>6. Eff(0) # "barrier" /\ pc'[0] \in Steps \ {"add", "last", "release", "spin"} /\ pc'[0] # "enter"
    BY <1>3, <1>4, <2>1 DEF Steps
  <2>7. BarrierInv' BY <1>0, <1>2, <2>1, <2>2, <2>6, BarrierFrame
  <2>8. QED BY <2>5, <2>7
<1>7. QED BY <1>5, <1>6

LEMMA KickoffStep ==
    ASSUME IInv, TypeOK', NEW n \in 1..NThreads, Kickoff(n)
    PROVE  (Over \/ InGraph)' /\ OutsideInv' /\ BarrierInv'
<1>0. /\ TypeOK /\ 0 \in Threads /\ Workers \subseteq Threads /\ 0 \notin Workers
      /\ NThreads \in Nat /\ Len(Nodes) \in Nat
  BY ThreadsAssumption, NodesAssumption DEF IInv, Threads, Workers
<1>1. /\ pc[0] = "idle" /\ abort' = -1 /\ Broadcast("loop") /\ node'[0] = 0 /\ done' = Nothing
      /\ n_graph' = [number |-> n_graph.number + 1, n_threads |-> n]
      /\ UNCHANGED last_graph /\ UNCHANGED barrier_vars
  BY <1>0 DEF Kickoff, TypeOK
<1>2. nth' = n /\ Team' = 0..(n - 1) BY <1>1 DEF nth, Team
<1>3. Eff(0)' = "loop" /\ (\A w \in Workers : Eff(w)' \in Outside) /\ BarrierInv'
  BY <1>0, <1>1, <1>2, BroadcastLemma
<1>4. \A w \in Workers : last_graph[w].number <= n_graph.number /\ last_graph[w].number \in Nat
  BY <1>0 DEF IInv, OutsideInv, TypeOK
<1>5. n_graph'.number = n_graph.number + 1 /\ n_graph.number \in Nat BY <1>0, <1>1 DEF TypeOK
<1>6. \A w \in Workers : last_graph'[w].number <= n_graph'.number /\ last_graph'[w] # n_graph'
  BY <1>1, <1>4, <1>5
<1>7. OutsideInv' BY <1>3, <1>6 DEF OutsideInv
<1>8. \A k \in 0..(Len(Nodes) - 1) : Untouched(k)' BY <1>1 DEF Untouched, Nothing
<1>9. \A t \in Team' : Fresh(t)' \/ (Started(t)' /\ Eff(t)' = "loop" /\ node'[t] = 0)
  <2>1. SUFFICES ASSUME NEW t \in Team', t # 0 PROVE Fresh(t)' BY <1>1, <1>3 DEF Started
  <2>2. t \in Workers BY <1>0, <1>2, <2>1 DEF Workers
  <2>3. QED BY <1>3, <1>6, <2>2 DEF Fresh
<1>10. 0 \in Team' BY <1>0, <1>2
<1>11. 0 \in 0..Len(Nodes) /\ \A k \in 0..(0 - 1) : Exact(k)' BY <1>0
<1>12. InGraph' BY <1>1, <1>8, <1>9, <1>10, <1>11, NewWalk
<1>13. QED BY <1>3, <1>7, <1>12

----------------------------------------------------------------------------
LEMMA InitInv ==
    ASSUME Init
    PROVE  IInv
<1>0. Len(Nodes) \in Nat /\ NThreads \in Nat BY ThreadsAssumption, NodesAssumption
<1>1. TypeOK
  <2>1. pc \in [Threads -> Steps] BY DEF Init, Steps
  <2>2. n_graph \in [number : Nat, n_threads : 0..NThreads] BY <1>0 DEF Init, NoGraph
  <2>3. last_graph \in [Workers -> [number : Nat, n_threads : 0..NThreads]]
    BY <1>0 DEF Init, NoGraph
  <2>4. done \in [0..(Len(Nodes) - 1) -> [Parts -> Nat]] BY DEF Init, Nothing
  <2>5. stop \in BOOLEAN /\ pause \in BOOLEAN BY Zenon DEF Init
  <2>6. /\ abort \in -1..Len(Nodes)
        /\ n_barrier \in 0..NThreads /\ n_barrier_passed \in Nat /\ current_chunk \in Nat
        /\ pauses \in Nat
    BY <1>0 DEF Init
  <2>7. node \in [Threads -> 0..Len(Nodes)] BY <1>0 DEF Init
  <2>8. passed \in [Threads -> Nat] /\ chunk \in [Threads -> Nat]
        /\ after \in [Threads -> {"mul", "next", "done"}]
    BY DEF Init
  <2>9. QED BY <2>1, <2>2, <2>3, <2>4, <2>5, <2>6, <2>7, <2>8 DEF TypeOK
<1>2. nth = 0 /\ Team = {} BY DEF Init, NoGraph, nth, Team
<1>3. \A t \in Threads : Eff(t) = (IF t = 0 THEN "idle" ELSE "top")
                         /\ pc[t] \notin {"add", "last", "release"}
  BY DEF Init, Eff, Waiting
<1>4. Waiting = {} BY DEF Waiting, Init
<1>5. BarrierInv
  <2>1. n_barrier = Cardinality(Waiting) BY <1>4, FS_EmptySet DEF Init
  <2>2. QED BY <1>2, <1>3, <2>1 DEF BarrierInv, Init
<1>6. \A w \in Workers : w \in Threads /\ w # 0 BY DEF Workers, Threads
<1>7. OutsideInv BY <1>3, <1>6 DEF OutsideInv, Outside, Init, NoGraph
<1>8. Over
  <2>1. 0 \in Threads BY ThreadsAssumption DEF Threads
  <2>2. \A k \in DOMAIN done : \A p \in Parts : done[k][p] <= 1 BY DEF Init, Nothing
  <2>3. QED BY <1>2, <1>3, <2>1, <2>2 DEF Over, Init, NoGraph
<1>9. QED BY <1>1, <1>5, <1>7, <1>8 DEF IInv

\* A step of a thread in the graph that is not one of the barrier's own.
LEMMA ComputeBarrier ==
    ASSUME IInv, NEW t \in Threads, ComputeStep(t)
    PROVE  BarrierInv'
<1>0. TypeOK BY DEF IInv
<1>1. /\ pc[t] \in {"loop", "plain", "convert", "mul", "grab", "finish", "next", "done"}
      /\ pc'[t] \in Steps \ {"add", "last", "release", "spin"}
  BY <1>0 DEF ComputeStep, NextNode, ComputePlain, Convert, MulChunk, GrabChunk, FinishNode,
              PassedNode, GraphDone, Barrier, Goto, TypeOK, Steps
<1>2. pc'[t] = "enter" => pc[t] # "done"
  BY <1>0, <1>1 DEF ComputeStep, NextNode, ComputePlain, Convert, MulChunk, GrabChunk, FinishNode,
              PassedNode, GraphDone, Barrier, Goto, TypeOK
<1>3. Eff(t) = pc[t] BY <1>0, <1>1, EffLemma DEF Inside
<1>4. pc'[t] = "enter" => t \in Team
  <2>1. ASSUME pc[t] # "done" PROVE t \in Team
    <3>1. Eff(t) \notin Outside \cup {"idle", "joining", "freed"} BY <1>1, <1>3, <2>1 DEF Outside
    <3>2. QED BY <3>1, InTeam
  <2>2. QED BY <1>2, <2>1
<1>5. /\ \A u \in Threads \ {t} : pc'[u] = pc[u] /\ after'[u] = after[u]
      /\ UNCHANGED <<n_barrier, n_barrier_passed, passed, n_graph>>
  BY <1>0 DEF ComputeStep, NextNode, ComputePlain, Convert, MulChunk, GrabChunk, FinishNode,
              PassedNode, GraphDone, Barrier, Goto, TypeOK, pool_vars, barrier_vars
<1>6. QED BY <1>0, <1>1, <1>3, <1>4, <1>5, BarrierFrame

LEMMA SpinBarrier ==
    ASSUME IInv, NEW t \in Threads, BarrierSpin(t)
    PROVE  BarrierInv'
<1>0. TypeOK BY DEF IInv
<1>1. /\ pc[t] = "spin" /\ passed[t] # n_barrier_passed /\ pc'[t] = after[t]
      /\ \A u \in Threads \ {t} : pc'[u] = pc[u] /\ after'[u] = after[u]
      /\ UNCHANGED <<n_barrier, n_barrier_passed, passed, n_graph>>
  BY <1>0 DEF BarrierSpin, Goto, TypeOK, pool_vars, barrier_vars
<1>2. after[t] \in {"mul", "next", "done"} BY <1>0 DEF TypeOK
<1>3. Eff(t) # "barrier" BY <1>0, <1>1, <1>2, EffLemma
<1>4. pc'[t] \in Steps \ {"add", "last", "release", "spin"} /\ pc'[t] # "enter"
  BY <1>1, <1>2 DEF Steps
<1>5. QED BY <1>0, <1>1, <1>3, <1>4, BarrierFrame

LEMMA ThreadInv ==
    ASSUME IInv, NEW t \in Threads, ThreadStep(t)
    PROVE  IInv'
<1>1. TypeOK' BY TypeThread
<1>2. ASSUME BarrierStep(t) PROVE (Over \/ InGraph)' /\ OutsideInv' /\ BarrierInv'
  <2>1. CASE BarrierEnter(t) BY <2>1, BarrierSame, EnterBarrier
  <2>2. CASE BarrierAdd(t) BY <2>2, BarrierSame, AddBarrier
  <2>3. CASE BarrierLast(t) BY <2>3, BarrierSame, LastBarrier
  <2>4. CASE BarrierRelease(t) BY <1>1, <2>4, Released, ReleaseStep
  <2>5. CASE BarrierSpin(t) BY <2>5, BarrierSame, SpinBarrier
  <2>6. QED BY <1>2, <2>1, <2>2, <2>3, <2>4, <2>5 DEF BarrierStep
<1>3. ASSUME ComputeStep(t) PROVE (Over \/ InGraph)' /\ OutsideInv' /\ BarrierInv'
  <2>1. BarrierInv' BY <1>3, ComputeBarrier
  <2>2. (Over \/ InGraph)' /\ OutsideInv'
    BY <1>1, <1>3, NextNodeStep, PlainStep, ConvertStep, MulStep, GrabStep, FinishStep, PassedStep,
       DoneStep DEF ComputeStep
  <2>3. QED BY <2>1, <2>2
<1>4. QED BY <1>1, <1>2, <1>3 DEF ThreadStep, IInv

LEMMA NextInv ==
    ASSUME IInv, Next
    PROVE  IInv'
<1>0. TypeOK BY DEF IInv
<1>1. ASSUME NEW t \in Threads, ThreadStep(t) PROVE IInv' BY <1>1, ThreadInv
<1>2. ASSUME NEW w \in Workers, WorkerStep(w) \/ SpuriousWake(w) PROVE IInv'
  <2>1. TypeOK' BY <1>0, <1>2, TypeOthers
  <2>2. CASE WorkerReady(w) /\ ~stop /\ ~pause BY <2>1, <2>2, ReadyStep DEF IInv
  <2>3. CASE WorkerTop(w) \/ WorkerSleep(w) \/ SpuriousWake(w)
             \/ (WorkerReady(w) /\ (stop \/ pause))
    BY <2>1, <2>3, WorkerOutStep DEF IInv
  <2>4. QED BY <1>2, <2>2, <2>3 DEF WorkerStep
<1>3. ASSUME NEW n \in 1..NThreads, Kickoff(n) PROVE IInv'
  <2>1. TypeOK' BY <1>0, <1>3, TypeOthers
  <2>2. QED BY <1>3, <2>1, KickoffStep DEF IInv
<1>4. ASSUME Pause \/ Resume \/ Free \/ Joined PROVE IInv'
  <2>1. TypeOK' BY <1>0, <1>4, TypeOthers
  <2>2. QED BY <1>4, <2>1, MainStep DEF IInv
<1>5. QED BY <1>1, <1>2, <1>3, <1>4 DEF Next

LEMMA StutterInv ==
    ASSUME IInv, UNCHANGED vars
    PROVE  IInv'
<1>1. UNCHANGED <<n_graph, n_barrier, n_barrier_passed, current_chunk, stop, pause, abort, pc,
                  last_graph, node, passed, after, chunk, done, pauses>>
  BY DEF vars, pool_vars, barrier_vars, work_vars
<1>2. TypeOK' BY <1>1 DEF IInv, TypeOK
<1>3. \A t \in Threads : Same(t) BY <1>1 DEF Same, Eff, Waiting
<1>4. (Over \/ InGraph)' /\ OutsideInv' BY <1>1, <1>3, SameFrame
<1>5. BarrierInv' BY <1>1 DEF IInv, BarrierInv, Eff, Waiting, Team, nth
<1>6. QED BY <1>2, <1>4, <1>5 DEF IInv

\* The inductive invariant holds in every reachable state of the pool.
THEOREM IndInvariant == Spec => []IInv
<1>1. Init => IInv BY InitInv
<1>2. IInv /\ [Next]_vars => IInv' BY NextInv, StutterInv
<1>3. QED BY <1>1, <1>2, PTL DEF Spec

\* Every variable of the pool keeps its type: the barrier's counter never
\* passes the number of threads, and node_n never leaves the graph.
THEOREM TypeCorrect == Spec => []TypeOK
<1>1. IInv => TypeOK BY DEF IInv
<1>2. QED BY <1>1, IndInvariant, PTL

----------------------------------------------------------------------------
LEMMA ExactComplete ==
    ASSUME TypeOK, NEW k \in 0..(Len(Nodes) - 1), Exact(k)
    PROVE  Complete(k)
<1>1. SUFFICES ASSUME Nodes[k + 1] # "nop", NEW p \in PartsOf(k) PROVE done[k][p] = 1
  BY DEF Complete
<1>2. nth \in 0..NThreads BY TeamLemma
<1>3. Chunks \in 0..(NThreads + NChunks) BY <1>2, ThreadsAssumption DEF Chunks
<1>4. p \in Parts BY <1>1, <1>2, <1>3, ThreadsAssumption DEF PartsOf, Parts
<1>5. QED BY <1>1, <1>4 DEF Exact

LEMMA InvStages == IInv => StagesInOrder
<1>1. SUFFICES ASSUME IInv PROVE StagesInOrder OBVIOUS
<1>2. TypeOK /\ DOMAIN done = 0..(Len(Nodes) - 1) /\ Len(Nodes) \in Nat
  BY <1>1, NodesAssumption DEF IInv, TypeOK
<1>3. \A k \in DOMAIN done : \A p \in Parts : done[k][p] <= 1
  <2>1. ASSUME NEW m \in 0..Len(Nodes), NEW w \in 0..Len(Nodes), Walk(m, w),
               NEW k \in 0..(Len(Nodes) - 1), NEW p \in Parts
        PROVE  done[k][p] <= 1
    <3>1. CASE k < w BY <1>2, <2>1, <3>1 DEF Walk, Exact
    <3>2. CASE k > w BY <1>2, <2>1, <3>2 DEF Walk, Untouched
    <3>3. CASE k = w BY <1>2, <2>1, <3>3 DEF Walk, Untouched
    <3>4. QED BY <1>2, <3>1, <3>2, <3>3
  <2>2. ASSUME NEW j \in 0..(Len(Nodes) - 1), Multiply(j),
               NEW k \in 0..(Len(Nodes) - 1), NEW p \in Parts
        PROVE  done[k][p] <= 1
    <3>1. CASE k < j BY <1>2, <2>2, <3>1 DEF Multiply, Exact
    <3>2. CASE k > j BY <1>2, <2>2, <3>2 DEF Multiply, Untouched
    <3>3. CASE k = j BY <1>2, <2>2, <3>3 DEF Multiply
    <3>4. QED BY <1>2, <3>1, <3>2, <3>3
  <2>3. QED BY <1>1, <1>2, <2>1, <2>2 DEF IInv, Over, InGraph
<1>4. \A t \in Threads : Working(t) => Eff(t) = pc[t] /\ InGraph /\ t \in Team
  <2>1. SUFFICES ASSUME NEW t \in Threads, Working(t)
                 PROVE  Eff(t) = pc[t] /\ InGraph /\ t \in Team
    OBVIOUS
  <2>2. Eff(t) = pc[t] BY <1>2, <2>1, EffLemma DEF Working, Inside
  <2>3. Eff(t) \notin Outside \cup {"idle", "joining", "freed"}
    BY <2>1, <2>2 DEF Working, Outside
  <2>4. QED BY <1>1, <2>2, <2>3, InTeam
<1>5. ASSUME NEW t \in Threads, Working(t), NEW k \in 0..(node[t] - 1)
      PROVE  Complete(k)
  <2>1. Eff(t) = pc[t] /\ InGraph /\ t \in Team BY <1>4, <1>5
  <2>2. Eff(t) \in {"plain", "convert", "mul", "grab", "finish"} BY <1>5, <2>1 DEF Working
  <2>3. node[t] \in 0..(Len(Nodes) - 1) BY <1>1, <2>2, NodeBounds
  <2>4. Exact(k)
    <3>1. ASSUME NEW m \in 0..Len(Nodes), NEW w \in 0..Len(Nodes), Walk(m, w) PROVE Exact(k)
      <4>1. node[t] = w
        BY <2>1, <2>2, <3>1 DEF Walk, Walker, Fresh, Past, InBarrier, Outside
      <4>2. QED BY <3>1, <4>1 DEF Walk
    <3>2. ASSUME NEW j \in 0..(Len(Nodes) - 1), Multiply(j) PROVE Exact(k)
      <4>1. node[t] = j BY <2>1, <2>2, <3>2 DEF Multiply, Multiplier, Past, InBarrier
      <4>2. QED BY <3>2, <4>1 DEF Multiply
    <3>3. QED BY <2>1, <3>1, <3>2 DEF InGraph
  <2>5. k \in 0..(Len(Nodes) - 1) BY <1>2, <2>3
  <2>6. QED BY <1>2, <2>4, <2>5, ExactComplete
<1>6. ASSUME NEW t \in Threads, NEW u \in Threads, pc[t] = "convert"
      PROVE  pc[u] \notin {"mul", "grab"} /\ (Working(u) => node[u] = node[t])
  <2>1. Working(t) BY <1>6 DEF Working
  <2>2. Eff(t) = "convert" /\ InGraph /\ t \in Team BY <1>4, <1>6, <2>1
  <2>3. PICK m \in 0..Len(Nodes), w \in 0..Len(Nodes) : Walk(m, w)
    BY <2>2 DEF InGraph, Multiply, Multiplier, Past, InBarrier
  <2>4. node[t] = w /\ Nodes[w + 1] = "mul"
    BY <2>2, <2>3 DEF Walk, Walker, Fresh, Past, InBarrier, Outside
  <2>5. SUFFICES ASSUME Working(u)
                 PROVE  pc[u] \notin {"mul", "grab"} /\ node[u] = w
    BY <2>4 DEF Working
  <2>6. Eff(u) = pc[u] /\ u \in Team BY <1>4, <2>5
  <2>7. Eff(u) \in {"plain", "convert", "mul", "grab", "finish"} BY <2>5, <2>6 DEF Working
  <2>8. QED BY <2>3, <2>4, <2>6, <2>7 DEF Walk, Walker, Fresh, Past, InBarrier, Outside
<1>7. QED BY <1>3, <1>5, <1>6 DEF StagesInOrder

LEMMA InvComplete == IInv => GraphComplete
<1>1. SUFFICES ASSUME IInv, pc[0] = "idle"
               PROVE  /\ (n_graph.number > 0 /\ abort = -1) => \A k \in DOMAIN done : Complete(k)
                      /\ \A w \in Workers : ~Working(w) /\ pc[w] \notin {"loop", "next", "enter", "add"}
  BY DEF GraphComplete
<1>2. TypeOK /\ Workers \subseteq Threads BY <1>1, ThreadsAssumption DEF IInv, Threads, Workers
<1>3. Over /\ \A w \in Workers : Eff(w) \in Outside BY <1>1, MainIdle
<1>4. \A w \in Workers : pc[w] \in Inside \cup Outside
  BY <1>2, <1>3, EffLemma DEF Inside, Outside
<1>5. \A w \in Workers : pc[w] \notin {"enter", "add"} BY <1>1, <1>2, MainIdle
<1>6. QED BY <1>3, <1>4, <1>5 DEF Over, Working, Inside, Outside

\* No part of a node is computed twice, a thread works on a node only when the
\* earlier ones are complete, and none overwrites wdata and the chunk counter
\* while another still works on a product: for any number of threads, whatever
\* the graph and however the threads interleave in the barrier.
THEOREM StagesCorrect == Spec => []StagesInOrder
BY IndInvariant, InvStages, PTL

\* When ggml_graph_compute has returned, a graph that was not aborted is
\* complete and no worker is in it.
THEOREM GraphCorrect == Spec => []GraphComplete
BY IndInvariant, InvComplete, PTL
=============================================================================
