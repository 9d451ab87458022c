----------------------------- MODULE ThreadPool -----------------------------
(* ggml/src/ggml-cpu/ggml-cpu.c without OpenMP: a main thread that computes *)
(* graphs together with the worker threads of a pool.  One action per       *)
(* access to a shared atomic, or per critical section of the pool's mutex.  *)
(* The atomics are sequentially consistent here; a graph's number does not  *)
(* wrap around.                                                             *)
(*                                                                          *)
(* A node is computed in parts, of which the model only counts how often    *)
(* each was done: a "plain" node has a part per thread, a "mul" node        *)
(* (ggml_compute_forward_mul_mat) the chunks that the threads share out,    *)
(* after each has converted its part of the operand to wdata.               *)
EXTENDS Integers, Sequences

CONSTANTS
    NThreads,       \* threads of the pool, the main thread among them
    Nodes,          \* the nodes of a graph: "plain", "mul" or "nop"
    NChunks,        \* chunks of a "mul" node by its size
    MaxGraphs,      \* bound: graphs computed
    MaxPauses       \* bound: calls of ggml_threadpool_pause

ASSUME ThreadsAssumption == NThreads \in Nat \ {0} /\ NChunks \in Nat
ASSUME NodesAssumption == Nodes \in Seq({"plain", "mul", "nop"})
ASSUME BoundsAssumption == MaxGraphs \in Nat /\ MaxPauses \in Nat

Threads == 0..(NThreads - 1)        \* 0 is the main thread
Workers == 1..(NThreads - 1)
Parts == 0..(NThreads + NChunks)

VARIABLES
    n_graph,        \* number and thread count of the last graph started
    n_barrier, n_barrier_passed, current_chunk,
    stop, pause,
    abort,          \* the node before which the graph is left, or -1
    pc,             \* where each thread is
    last_graph,     \* per worker, the last value of n_graph it has acted on
    node,           \* node_n of each thread
    passed,         \* n_passed in ggml_barrier
    after,          \* where ggml_barrier returns to: "mul", "next" or "done"
    chunk,          \* current_chunk in mul_mat
    done,           \* history: how often each part of each node was computed
    pauses          \* counter for the bound

pool_vars == <<n_graph, stop, pause, abort, last_graph, pauses>>
barrier_vars == <<n_barrier, n_barrier_passed, passed, after>>
work_vars == <<current_chunk, node, chunk, done>>
vars == <<pool_vars, barrier_vars, work_vars, pc>>

Steps == {"idle", "joining", "freed",                           \* the main thread
          "top", "paused", "poll", "asleep", "ended",           \* a worker
          "loop", "plain", "convert", "mul", "grab", "finish",  \* in a graph
          "enter", "add", "last", "release", "spin",            \* in ggml_barrier
          "next", "done"}                                       \* after it

TypeOK ==
    /\ n_graph \in [number : Nat, n_threads : 0..NThreads]
    /\ n_barrier \in 0..NThreads /\ n_barrier_passed \in Nat /\ current_chunk \in Nat
    /\ stop \in BOOLEAN /\ pause \in BOOLEAN /\ abort \in -1..Len(Nodes)
    /\ pc \in [Threads -> Steps]
    /\ last_graph \in [Workers -> [number : Nat, n_threads : 0..NThreads]]
    /\ node \in [Threads -> 0..Len(Nodes)] /\ passed \in [Threads -> Nat]
    /\ after \in [Threads -> {"mul", "next", "done"}] /\ chunk \in [Threads -> Nat]
    /\ done \in [0..(Len(Nodes) - 1) -> [Parts -> Nat]] /\ pauses \in Nat

NoGraph == [number |-> 0, n_threads |-> 0]
Nothing == [k \in 0..(Len(Nodes) - 1) |-> [p \in Parts |-> 0]]

\* ggml_threadpool_new_impl.
Init ==
    /\ n_graph = NoGraph /\ n_barrier = 0 /\ n_barrier_passed = 0 /\ current_chunk = 0
    /\ stop = FALSE /\ pause \in BOOLEAN /\ abort = -1
    /\ pc = [t \in Threads |-> IF t = 0 THEN "idle" ELSE "top"]
    /\ last_graph = [w \in Workers |-> NoGraph]
    /\ node = [t \in Threads |-> 0] /\ passed = [t \in Threads |-> 0]
    /\ after = [t \in Threads |-> "done"] /\ chunk = [t \in Threads |-> 0]
    /\ done = Nothing /\ pauses = 0

nth == n_graph.n_threads

\* Too few chunks for the threads: one for each thread.
Chunks == IF NChunks < nth * 4 THEN nth ELSE NChunks
Goto(t, step) == pc' = [pc EXCEPT ![t] = step]

----------------------------------------------------------------------------
(* ggml_barrier. *)

\* A call of ggml_barrier that returns to r; alone there is nothing to wait for.
Barrier(t, r) ==
    /\ after' = [after EXCEPT ![t] = r]
    /\ Goto(t, IF nth = 1 THEN r ELSE "enter")

BarrierEnter(t) ==
    /\ pc[t] = "enter"
    /\ passed' = [passed EXCEPT ![t] = n_barrier_passed] /\ Goto(t, "add")
    /\ UNCHANGED <<pool_vars, work_vars, n_barrier, n_barrier_passed, after>>

BarrierAdd(t) ==
    /\ pc[t] = "add"
    /\ n_barrier' = n_barrier + 1
    /\ Goto(t, IF n_barrier = nth - 1 THEN "last" ELSE "spin")
    /\ UNCHANGED <<pool_vars, work_vars, n_barrier_passed, passed, after>>

\* Mutant of BarrierLast: the counter is not reset.
BarrierLast_no_reset(t) ==
    /\ pc[t] = "last"
    /\ Goto(t, "release")
    /\ UNCHANGED <<pool_vars, work_vars, n_barrier, n_barrier_passed, passed, after>>

\* The last thread resets the counter before it lets the others go.
BarrierLast(t) ==
    /\ pc[t] = "last"
    /\ n_barrier' = 0 /\ Goto(t, "release")
    /\ UNCHANGED <<pool_vars, work_vars, n_barrier_passed, passed, after>>

BarrierRelease(t) ==
    /\ pc[t] = "release"
    /\ n_barrier_passed' = n_barrier_passed + 1 /\ Goto(t, after[t])
    /\ UNCHANGED <<pool_vars, work_vars, n_barrier, passed, after>>

BarrierSpin(t) ==
    /\ pc[t] = "spin" /\ n_barrier_passed # passed[t]
    /\ Goto(t, after[t])
    /\ UNCHANGED <<pool_vars, work_vars, barrier_vars>>

BarrierStep(t) ==
    \/ BarrierEnter(t) \/ BarrierAdd(t) \/ BarrierLast(t) \/ BarrierRelease(t) \/ BarrierSpin(t)

----------------------------------------------------------------------------
(* ggml_graph_compute_thread. *)

Kind(t) == Nodes[node[t] + 1]
Did(t, p) == done' = [done EXCEPT ![node[t]][p] = @ + 1]

\* Mutant of NextNode: no barrier at the end of the graph.
NextNode_no_barrier(t) ==
    /\ pc[t] = "loop"
    /\ IF node[t] = Len(Nodes) \/ abort = node[t]
       THEN Goto(t, "done") /\ UNCHANGED <<node, after>>
       ELSE IF Kind(t) = "nop"
       THEN node' = [node EXCEPT ![t] = @ + 1] /\ UNCHANGED <<pc, after>>
       ELSE Goto(t, IF Kind(t) = "mul" THEN "convert" ELSE "plain") /\ UNCHANGED <<node, after>>
    /\ UNCHANGED <<pool_vars, n_barrier, n_barrier_passed, passed, current_chunk, chunk, done>>

\* The head of the loop over the nodes.
NextNode(t) ==
    /\ pc[t] = "loop"
    /\ IF node[t] = Len(Nodes) \/ abort = node[t]
       THEN Barrier(t, "done") /\ UNCHANGED node
       ELSE IF Kind(t) = "nop"
       THEN node' = [node EXCEPT ![t] = @ + 1] /\ UNCHANGED <<pc, after>>
       ELSE Goto(t, IF Kind(t) = "mul" THEN "convert" ELSE "plain") /\ UNCHANGED <<node, after>>
    /\ UNCHANGED <<pool_vars, n_barrier, n_barrier_passed, passed, current_chunk, chunk, done>>

ComputePlain(t) ==
    /\ pc[t] = "plain"
    /\ Did(t, t) /\ Goto(t, "finish")
    /\ UNCHANGED <<pool_vars, barrier_vars, current_chunk, node, chunk>>

\* mul_mat before its barrier: thread 0 resets the chunk counter.
Convert(t) ==
    /\ pc[t] = "convert"
    /\ current_chunk' = IF t = 0 THEN nth ELSE current_chunk
    /\ chunk' = [chunk EXCEPT ![t] = t]
    /\ Barrier(t, "mul")
    /\ UNCHANGED <<pool_vars, n_barrier, n_barrier_passed, passed, node, done>>

MulChunk(t) ==
    /\ pc[t] = "mul"
    /\ IF chunk[t] < Chunks
       THEN Did(t, chunk[t]) /\ Goto(t, IF nth >= Chunks THEN "finish" ELSE "grab")
       ELSE Goto(t, "finish") /\ UNCHANGED done
    /\ UNCHANGED <<pool_vars, barrier_vars, current_chunk, node, chunk>>

\* Mutant of GrabChunk: the counter is read and written in two steps, and
\* another thread's increment lost.
GrabChunk_lost(t) ==
    /\ pc[t] = "grab"
    /\ chunk' = [chunk EXCEPT ![t] = current_chunk]
    /\ current_chunk' \in {current_chunk, current_chunk + 1}
    /\ Goto(t, "mul")
    /\ UNCHANGED <<pool_vars, barrier_vars, node, done>>

GrabChunk(t) ==
    /\ pc[t] = "grab"
    /\ chunk' = [chunk EXCEPT ![t] = current_chunk] /\ current_chunk' = current_chunk + 1
    /\ Goto(t, "mul")
    /\ UNCHANGED <<pool_vars, barrier_vars, node, done>>

\* The main thread may abort after its part of a node; all threads meet before
\* the next one.
FinishNode(t) ==
    /\ pc[t] = "finish"
    /\ abort' \in {abort} \cup {k \in {node[t] + 1} : t = 0}
    /\ IF node[t] + 1 < Len(Nodes)
       THEN Barrier(t, "next") /\ UNCHANGED node
       ELSE node' = [node EXCEPT ![t] = @ + 1] /\ Goto(t, "loop") /\ UNCHANGED after
    /\ UNCHANGED <<n_graph, stop, pause, last_graph, pauses, n_barrier, n_barrier_passed, passed,
                   current_chunk, chunk, done>>

\* The barrier after a node, or after the loop, has been passed.
PassedNode(t) ==
    /\ pc[t] = "next"
    /\ node' = [node EXCEPT ![t] = @ + 1] /\ Goto(t, "loop")
    /\ UNCHANGED <<pool_vars, barrier_vars, current_chunk, chunk, done>>

GraphDone(t) ==
    /\ pc[t] = "done"
    /\ Goto(t, IF t = 0 THEN "idle" ELSE "top")
    /\ UNCHANGED <<pool_vars, barrier_vars, work_vars>>

ComputeStep(t) ==
    \/ NextNode(t) \/ ComputePlain(t) \/ Convert(t) \/ MulChunk(t) \/ GrabChunk(t)
    \/ FinishNode(t) \/ PassedNode(t) \/ GraphDone(t)

----------------------------------------------------------------------------
(* ggml_graph_compute_secondary_thread. *)

\* The head of the loop: pause, stop, or look for work.
WorkerTop(w) ==
    /\ pc[w] = "top"
    /\ Goto(w, IF pause THEN "paused" ELSE IF stop THEN "ended" ELSE "poll")
    /\ UNCHANGED <<pool_vars, barrier_vars, work_vars>>

\* ggml_graph_compute_thread_ready finds a reason to go on, while polling or
\* under the mutex.
WorkerReady(w) ==
    /\ pc[w] = "poll"
    /\ IF stop \/ pause
       THEN Goto(w, "top") /\ UNCHANGED <<last_graph, node>>
       ELSE /\ n_graph # last_graph[w]
            /\ last_graph' = [last_graph EXCEPT ![w] = n_graph]
            /\ IF w < n_graph.n_threads
               THEN Goto(w, "loop") /\ node' = [node EXCEPT ![w] = 0]
               ELSE Goto(w, "top") /\ UNCHANGED node
    /\ UNCHANGED <<n_graph, stop, pause, abort, pauses, barrier_vars, current_chunk, chunk, done>>

\* Nothing to do after the last round of polling, tested under the mutex.
WorkerSleep(w) ==
    /\ pc[w] = "poll" /\ ~stop /\ ~pause /\ n_graph = last_graph[w]
    /\ Goto(w, "asleep")
    /\ UNCHANGED <<pool_vars, barrier_vars, work_vars>>

WorkerStep(w) == WorkerTop(w) \/ WorkerReady(w) \/ WorkerSleep(w)

----------------------------------------------------------------------------
(* The main thread. *)

\* ggml_cond_broadcast, with the next step of the main thread.
Broadcast(step) ==
    pc' = [t \in Threads |-> IF t = 0 THEN step
                             ELSE IF pc[t] = "asleep" THEN "poll"
                             ELSE IF pc[t] = "paused" THEN "top" ELSE pc[t]]

\* Mutant of Kickoff: the workers are not woken.
Kickoff_no_broadcast(n) ==
    /\ pc[0] = "idle" /\ n_graph.number < MaxGraphs
    /\ current_chunk' = 0 /\ abort' = -1
    /\ n_graph' = [number |-> n_graph.number + 1, n_threads |-> n]
    /\ pause' = FALSE /\ Goto(0, "loop")
    /\ node' = [node EXCEPT ![0] = 0] /\ done' = Nothing
    /\ UNCHANGED <<stop, last_graph, pauses, barrier_vars, chunk>>

\* ggml_graph_compute with n threads: the parameters are reset and
\* ggml_graph_compute_kickoff starts the graph, ending a pause.
Kickoff(n) ==
    /\ pc[0] = "idle" /\ n_graph.number < MaxGraphs
    /\ current_chunk' = 0 /\ abort' = -1
    /\ n_graph' = [number |-> n_graph.number + 1, n_threads |-> n]
    /\ pause' = FALSE /\ Broadcast("loop")
    /\ node' = [node EXCEPT ![0] = 0] /\ done' = Nothing
    /\ UNCHANGED <<stop, last_graph, pauses, barrier_vars, chunk>>

\* ggml_threadpool_pause and ggml_threadpool_resume.
Pause ==
    /\ pc[0] = "idle" /\ ~pause /\ pauses < MaxPauses
    /\ pause' = TRUE /\ pauses' = pauses + 1 /\ Broadcast("idle")
    /\ UNCHANGED <<n_graph, stop, abort, last_graph, barrier_vars, work_vars>>

Resume ==
    /\ pc[0] = "idle" /\ pause
    /\ pause' = FALSE /\ Broadcast("idle")
    /\ UNCHANGED <<n_graph, stop, abort, last_graph, pauses, barrier_vars, work_vars>>

\* Mutant of Free: a paused pool stays paused.
Free_paused ==
    /\ pc[0] = "idle"
    /\ stop' = TRUE /\ Broadcast("joining")
    /\ UNCHANGED <<n_graph, pause, abort, last_graph, pauses, barrier_vars, work_vars>>

\* ggml_threadpool_free, and the end of its joins.
Free ==
    /\ pc[0] = "idle"
    /\ stop' = TRUE /\ pause' = FALSE /\ Broadcast("joining")
    /\ UNCHANGED <<n_graph, abort, last_graph, pauses, barrier_vars, work_vars>>

Joined ==
    /\ pc[0] = "joining" /\ \A w \in Workers : pc[w] = "ended"
    /\ Goto(0, "freed")
    /\ UNCHANGED <<pool_vars, barrier_vars, work_vars>>

----------------------------------------------------------------------------
ThreadStep(t) == BarrierStep(t) \/ ComputeStep(t)

\* A thread in cond_wait may wake unasked.
SpuriousWake(w) ==
    /\ pc[w] \in {"asleep", "paused"}
    /\ Goto(w, IF pc[w] = "asleep" THEN "poll" ELSE "top")
    /\ UNCHANGED <<pool_vars, barrier_vars, work_vars>>

Next ==
    \/ \E t \in Threads : ThreadStep(t)
    \/ \E w \in Workers : WorkerStep(w) \/ SpuriousWake(w)
    \/ \E n \in 1..NThreads : Kickoff(n)
    \/ Pause \/ Resume \/ Free \/ Joined

Spec == Init /\ [][Next]_vars

\* Every thread is scheduled; the main thread need not start another graph.
FairSpec ==
    /\ Spec
    /\ \A t \in Threads : WF_vars(ThreadStep(t))
    /\ \A w \in Workers : WF_vars(WorkerStep(w))
    /\ WF_vars(Joined)

----------------------------------------------------------------------------
(* Properties. *)

\* The steps at which a thread reads or writes tensors, wdata or the plan.
Working(t) == pc[t] \in {"plain", "convert", "mul", "grab", "finish"}

PartsOf(k) == 0..((IF Nodes[k + 1] = "mul" THEN Chunks ELSE nth) - 1)
Complete(k) ==
    Nodes[k + 1] = "nop" \/ \A p \in PartsOf(k) : done[k][p] = 1

\* Nothing is computed twice, a thread starts a node only when every part of
\* the earlier ones is done, by whichever thread, and none converts the operand
\* of a product, which overwrites wdata and the chunk counter, while another
\* still works on the same or another product.
StagesInOrder ==
    /\ \A k \in DOMAIN done : \A p \in Parts : done[k][p] <= 1
    /\ \A t \in Threads : Working(t) => \A k \in 0..(node[t] - 1) : Complete(k)
    /\ \A t, u \in Threads : pc[t] = "convert" =>
          pc[u] \notin {"mul", "grab"} /\ (Working(u) => node[u] = node[t])

\* A graph that was not aborted is complete when ggml_graph_compute returns,
\* and the workers have left it: "No worker threads should be accessing the
\* parameters below at this stage" (ggml_graph_compute).
GraphComplete ==
    pc[0] = "idle" =>
        /\ (n_graph.number > 0 /\ abort = -1) => \A k \in DOMAIN done : Complete(k)
        /\ \A w \in Workers : ~Working(w) /\ pc[w] \notin {"loop", "next", "enter", "add"}

\* Every graph ends, whatever the workers were doing when it was started.
GraphEnds == (pc[0] = "loop") ~> (pc[0] = "idle")

\* The pool can be freed, also while it is paused.
FreeEnds == (pc[0] = "joining") ~> (pc[0] = "freed")
=============================================================================
