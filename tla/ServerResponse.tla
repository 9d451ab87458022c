--------------------------- MODULE ServerResponse ---------------------------
(***************************************************************************)
(* server_response and server_response_reader (tools/server/server-queue): *)
(* the way back from the main thread, which sends results, to the HTTP     *)
(* threads, each of which reads the results of the tasks of one request.   *)
(*                                                                         *)
(* A reader registers the ids of its tasks, posts them, and reads until it *)
(* has the last result of every task, an error comes, or its client is     *)
(* gone; then it takes its ids off the waiting list, drops what is left    *)
(* for them and cancels what is not finished.  mutex_results is taken and  *)
(* given back several times on that way, and each such critical section is *)
(* one action.  condition_results is the set `waiters` of blocked readers. *)
(*                                                                         *)
(* The main thread is what the readers see of it: a posted task waits,     *)
(* runs in one of NSlots slots and sends its results one by one, the last  *)
(* of them final or an error, unless it is cancelled first.                *)
(*                                                                         *)
(* A result is its task, its position among the results of that task and   *)
(* its kind; the contents, and the parsing state that result->update       *)
(* keeps per task, are left out.                                           *)
(***************************************************************************)
EXTENDS Integers, Sequences, FiniteSets, SequencesExt

CONSTANTS
    Readers,        \* one per HTTP request
    Tasks,          \* task ids
    id_tasks,       \* the ids of the tasks of each reader
    Stream,         \* the readers in streaming mode
    NSlots,         \* tasks that run at the same time
    MaxPartial      \* bound: partial results of a streamed task

ASSUME ReadersAssumption ==
    /\ id_tasks \in [Readers -> SUBSET Tasks]
    /\ \A r \in Readers : id_tasks[r] # {} /\ IsFiniteSet(id_tasks[r])
    /\ \A r, u \in Readers : r # u => id_tasks[r] \cap id_tasks[u] = {}
ASSUME BoundsAssumption ==
    NSlots \in Nat /\ MaxPartial \in Nat /\ Stream \subseteq Readers

VARIABLES
    waiting_task_ids,   \* ids whose results are kept
    queue_results,      \* results sent and not yet read
    waiters,            \* readers blocked on condition_results
    reader,             \* where each reader is
    received_count,     \* final results each reader has read
    cancelled,          \* server_response_reader::cancelled
    left,               \* ids whose removal is still due in stop()
    connected,          \* the client of the reader is there
    task,               \* "none", "queued", "running" or "over"
    cancels,            \* targets of CANCEL tasks not yet processed
    sent,               \* history: results the main thread has sent, per task
    got                 \* history: position of the last one its reader has read

main_vars == <<task, cancels, sent>>
vars == <<waiting_task_ids, queue_results, waiters, reader, received_count,
          cancelled, left, connected, task, cancels, sent, got>>

ReaderStates == {"new", "added", "recv", "waiting", "chunk", "stop",
                 "removing", "cancelling", "closed"}
Kinds == {"partial", "final", "error"}
Result == [id : Tasks, n : Nat, kind : Kinds]

TypeOK ==
    /\ waiting_task_ids \subseteq Tasks
    /\ queue_results \in Seq(Result)
    /\ waiters \subseteq Readers
    /\ reader \in [Readers -> ReaderStates]
    /\ received_count \in [Readers -> Nat]
    /\ cancelled \in [Readers -> BOOLEAN]
    /\ left \in [Readers -> SUBSET Tasks]
    /\ connected \in [Readers -> BOOLEAN]
    /\ task \in [Tasks -> {"none", "queued", "running", "over"}]
    /\ cancels \subseteq Tasks
    /\ sent \in [Tasks -> Nat] /\ got \in [Tasks -> Nat]

Init ==
    /\ waiting_task_ids = {} /\ queue_results = <<>> /\ waiters = {}
    /\ reader = [r \in Readers |-> "new"]
    /\ received_count = [r \in Readers |-> 0]
    /\ cancelled = [r \in Readers |-> FALSE]
    /\ left = [r \in Readers |-> {}]
    /\ connected = [r \in Readers |-> TRUE]
    /\ task = [i \in Tasks |-> "none"]
    /\ cancels = {}
    /\ sent = [i \in Tasks |-> 0] /\ got = [i \in Tasks |-> 0]

\* server_response_reader::has_next
has_next(r) == ~cancelled[r] /\ received_count[r] < Cardinality(id_tasks[r])

GoTo(r, pc) == reader' = [reader EXCEPT ![r] = pc]

----------------------------------------------------------------------------
(* The reader: post_tasks, in its two critical sections. *)

AddWaiting(r) ==
    /\ reader[r] = "new" /\ GoTo(r, "added")
    /\ waiting_task_ids' = waiting_task_ids \cup id_tasks[r]
    /\ UNCHANGED <<queue_results, waiters, received_count, cancelled, left,
                   connected, main_vars, got>>

PostTasks(r) ==
    /\ reader[r] = "added" /\ GoTo(r, "recv")
    /\ task' = [i \in Tasks |-> IF i \in id_tasks[r] THEN "queued" ELSE task[i]]
    /\ UNCHANGED <<waiting_task_ids, queue_results, waiters, received_count,
                   cancelled, left, connected, cancels, sent, got>>

----------------------------------------------------------------------------
(* recv_with_timeout and next. *)

QueuedFor(i) == {k \in DOMAIN queue_results : queue_results[k].id = i}
Mine(r) == {k \in DOMAIN queue_results : queue_results[k].id \in id_tasks[r]}

\* Where a reader goes on that expects more results.
More(r) == IF r \in Stream THEN "chunk" ELSE "recv"

\* Mutant of Take: the results still due are counted down from zero.
Take_counts_down(r, k) ==
    LET res == queue_results[k]
    IN  /\ queue_results' = RemoveAt(queue_results, k)
        /\ got' = [got EXCEPT ![res.id] = res.n]
        /\ received_count' = [received_count EXCEPT ![r] = @ - 1]
        /\ GoTo(r, IF res.kind = "error" THEN "stop" ELSE More(r))
        /\ UNCHANGED <<waiting_task_ids, waiters, cancelled, left, connected, main_vars>>

\* Mutant of Take: final results are not counted.
Take_no_count(r, k) ==
    LET res == queue_results[k]
    IN  /\ queue_results' = RemoveAt(queue_results, k)
        /\ got' = [got EXCEPT ![res.id] = res.n]
        /\ GoTo(r, IF res.kind = "error" THEN "stop" ELSE More(r))
        /\ UNCHANGED <<waiting_task_ids, waiters, received_count, cancelled, left,
                       connected, main_vars>>

\* The first result for one of the ids is taken.  An error ends the reading
\* with stop(); a final result is counted; and when nothing more is due the
\* request is over and the destructor calls stop().
Take(r, k) ==
    LET res == queue_results[k]
        count == received_count[r] + (IF res.kind = "final" THEN 1 ELSE 0)
    IN  /\ queue_results' = RemoveAt(queue_results, k)
        /\ got' = [got EXCEPT ![res.id] = res.n]
        /\ received_count' = [received_count EXCEPT ![r] = count]
        /\ GoTo(r, IF res.kind = "error" \/ count = Cardinality(id_tasks[r])
                   THEN "stop" ELSE More(r))
        /\ UNCHANGED <<waiting_task_ids, waiters, cancelled, left, connected, main_vars>>

\* Mutant of FirstMine: the results are searched from the end.
LastMine(r) == CHOOSE k \in Mine(r) : \A j \in Mine(r) : k >= j

FirstMine(r) == CHOOSE k \in Mine(r) : \A j \in Mine(r) : k <= j

\* recv_with_timeout holds the mutex from the search to the wait.
Recv(r) ==
    /\ reader[r] = "recv"
    /\ IF Mine(r) # {}
       THEN Take(r, FirstMine(r))
       ELSE /\ waiters' = waiters \cup {r} /\ GoTo(r, "waiting")
            /\ UNCHANGED <<waiting_task_ids, queue_results, received_count,
                           cancelled, left, connected, main_vars, got>>

\* Woken by a notification (for whatever task) or spuriously: search again,
\* and wait again for the whole interval if there is nothing.
Wake(r) ==
    /\ reader[r] = "waiting" /\ r \notin waiters
    /\ GoTo(r, "recv")
    /\ UNCHANGED <<waiting_task_ids, queue_results, waiters, received_count,
                   cancelled, left, connected, main_vars, got>>

\* The interval passes without a notification: no result, and should_stop()
\* tells whether to go on.
Timeout(r) ==
    /\ reader[r] = "waiting" /\ r \in waiters
    /\ waiters' = waiters \ {r}
    /\ GoTo(r, IF connected[r] THEN "recv" ELSE "stop")
    /\ UNCHANGED <<waiting_task_ids, queue_results, received_count, cancelled,
                   left, connected, main_vars, got>>

\* The callback that writes a streamed response asks should_stop() before
\* each further chunk.
NextChunk(r) ==
    /\ reader[r] = "chunk"
    /\ GoTo(r, IF connected[r] THEN "recv" ELSE "stop")
    /\ UNCHANGED <<waiting_task_ids, queue_results, waiters, received_count,
                   cancelled, left, connected, main_vars, got>>

----------------------------------------------------------------------------
(* server_response_reader::stop. *)

\* remove_waiting_task_ids, then the test whether anything is left to cancel.
Stop(r) ==
    /\ reader[r] = "stop"
    /\ waiting_task_ids' = waiting_task_ids \ id_tasks[r]
    /\ IF has_next(r)
       THEN /\ cancelled' = [cancelled EXCEPT ![r] = TRUE]
            /\ left' = [left EXCEPT ![r] = id_tasks[r]]
            /\ GoTo(r, "removing")
       ELSE GoTo(r, "closed") /\ UNCHANGED <<cancelled, left>>
    /\ UNCHANGED <<queue_results, waiters, received_count, connected, main_vars, got>>

\* Mutant of RemoveWaiting: the results stay, as in remove_waiting_task_ids.
RemoveWaiting_keeps(r) ==
    /\ reader[r] = "removing"
    /\ \E i \in left[r] :
          /\ left' = [left EXCEPT ![r] = @ \ {i}]
          /\ waiting_task_ids' = waiting_task_ids \ {i}
          /\ GoTo(r, IF left[r] = {i} THEN "cancelling" ELSE "removing")
    /\ UNCHANGED <<queue_results, waiters, received_count, cancelled, connected,
                   main_vars, got>>

\* What std::remove_if leaves of q: the elements at the positions K, in order.
Kept(q, K) ==
    {[k \in 1..Cardinality(K) |-> q[f[k]]] :
        f \in {f \in [1..Cardinality(K) -> K] :
                 \A j, k \in 1..Cardinality(K) : j < k => f[j] < f[k]}}

\* remove_waiting_task_id for one id: its pending results go too.
RemoveWaiting(r) ==
    /\ reader[r] = "removing"
    /\ \E i \in left[r] :
          /\ left' = [left EXCEPT ![r] = @ \ {i}]
          /\ waiting_task_ids' = waiting_task_ids \ {i}
          /\ queue_results' \in Kept(queue_results, DOMAIN queue_results \ QueuedFor(i))
          /\ GoTo(r, IF left[r] = {i} THEN "cancelling" ELSE "removing")
    /\ UNCHANGED <<waiters, received_count, cancelled, connected, main_vars, got>>

\* server_queue::post of the CANCEL tasks: tasks that still wait are dropped.
PostCancels(r) ==
    /\ reader[r] = "cancelling" /\ GoTo(r, "closed")
    /\ task' = [i \in Tasks |-> IF i \in id_tasks[r] /\ task[i] = "queued"
                                THEN "over" ELSE task[i]]
    /\ cancels' = cancels \cup id_tasks[r]
    /\ UNCHANGED <<waiting_task_ids, queue_results, waiters, received_count,
                   cancelled, left, connected, sent, got>>

----------------------------------------------------------------------------
(* The main thread and the environment. *)

\* Mutant of send: no reader is woken.
send_no_notify(res) ==
    /\ queue_results' = IF res.id \in waiting_task_ids
                        THEN Append(queue_results, res) ELSE queue_results
    /\ UNCHANGED waiters

\* server_response::send keeps the result if somebody waits for its task and
\* wakes every reader; otherwise the result is dropped.
send(res) ==
    IF res.id \in waiting_task_ids
    THEN queue_results' = Append(queue_results, res) /\ waiters' = {}
    ELSE UNCHANGED <<queue_results, waiters>>

Running == {i \in Tasks : task[i] = "running"}

Start(i) ==
    /\ task[i] = "queued" /\ Cardinality(Running) < NSlots
    /\ task' = [task EXCEPT ![i] = "running"]
    /\ UNCHANGED <<waiting_task_ids, queue_results, waiters, reader, received_count,
                   cancelled, left, connected, cancels, sent, got>>

Streamed(i) == \E r \in Stream : i \in id_tasks[r]

\* A partial result of a streamed task.
SendPartial(i) ==
    /\ task[i] = "running" /\ Streamed(i)
    /\ sent[i] < MaxPartial
    /\ sent' = [sent EXCEPT ![i] = @ + 1]
    /\ send([id |-> i, n |-> sent'[i], kind |-> "partial"])
    /\ UNCHANGED <<waiting_task_ids, reader, received_count, cancelled, left,
                   connected, task, cancels, got>>

\* The last result: final, or an error from any stage of the task.
SendLast(i) ==
    /\ task[i] = "running"
    /\ sent' = [sent EXCEPT ![i] = @ + 1]
    /\ task' = [task EXCEPT ![i] = "over"]
    /\ \E kind \in {"final", "error"} : send([id |-> i, n |-> sent'[i], kind |-> kind])
    /\ UNCHANGED <<waiting_task_ids, reader, received_count, cancelled, left,
                   connected, cancels, got>>

\* A CANCEL is processed: its target, if it runs, is stopped without a result.
Cancel(i) ==
    /\ i \in cancels
    /\ cancels' = cancels \ {i}
    /\ task' = [task EXCEPT ![i] = IF @ = "running" THEN "over" ELSE @]
    /\ UNCHANGED <<waiting_task_ids, queue_results, waiters, reader, received_count,
                   cancelled, left, connected, sent, got>>

Disconnect(r) ==
    /\ connected[r] /\ reader[r] # "closed"
    /\ connected' = [connected EXCEPT ![r] = FALSE]
    /\ UNCHANGED <<waiting_task_ids, queue_results, waiters, reader, received_count,
                   cancelled, left, main_vars, got>>

SpuriousWake(r) ==
    /\ r \in waiters
    /\ waiters' = waiters \ {r}
    /\ UNCHANGED <<waiting_task_ids, queue_results, reader, received_count,
                   cancelled, left, connected, main_vars, got>>

ReaderStep(r) ==
    \/ AddWaiting(r) \/ PostTasks(r) \/ Recv(r) \/ Wake(r) \/ Timeout(r)
    \/ NextChunk(r) \/ Stop(r) \/ RemoveWaiting(r) \/ PostCancels(r)

MainStep(i) == Start(i) \/ SendPartial(i) \/ SendLast(i) \/ Cancel(i)

Next ==
    \/ \E r \in Readers : ReaderStep(r) \/ Disconnect(r) \/ SpuriousWake(r)
    \/ \E i \in Tasks : MainStep(i)

Spec == Init /\ [][Next]_vars

\* The threads are scheduled; a request starts whenever its client likes.
\* The main thread works on all slots in turn and takes queued tasks as
\* slots become free.  A timed wait that is not notified times out; one that
\* is notified again and again need not.
FairSpec ==
    /\ Spec
    /\ \A r \in Readers : WF_vars(reader[r] # "new" /\ ReaderStep(r))
    /\ \A i \in Tasks : WF_vars(Start(i)) /\ WF_vars(SendPartial(i) \/ SendLast(i))
                        /\ WF_vars(Cancel(i))

----------------------------------------------------------------------------
(* Safety. *)

\* Nothing is lost, repeated or reordered on the way to a reader: while it
\* reads, the results queued for one of its tasks are exactly those sent
\* after the last one it has read, in order (the ids are registered before the
\* tasks are posted, send appends, recv_with_timeout takes the first); and a
\* request that ends without being cancelled has read every result of every task.
InOrderDelivery ==
    \A r \in Readers : \A i \in id_tasks[r] :
        /\ reader[r] \in {"recv", "waiting", "chunk"} =>
              /\ {queue_results[k].n : k \in QueuedFor(i)} = (got[i] + 1)..sent[i]
              /\ \A j, k \in QueuedFor(i) : j < k => queue_results[j].n < queue_results[k].n
        /\ reader[r] = "closed" /\ ~cancelled[r] => task[i] = "over" /\ got[i] = sent[i]

\* No result is missed while its reader is blocked on the condition variable.
NoMissedResult == \A r \in waiters : Mine(r) = {}

\* A reader that is closed leaves nothing behind: neither its ids in the
\* waiting list nor results that nobody will read, whatever the main thread
\* sent between the critical sections of stop().
ClosedLeavesNothing ==
    \A r \in Readers : reader[r] = "closed" =>
        id_tasks[r] \cap waiting_task_ids = {} /\ Mine(r) = {}

----------------------------------------------------------------------------
(* Liveness. *)

\* Every request that was posted ends, and so does the work on its tasks.
RequestEnds ==
    \A r \in Readers : (reader[r] = "recv") ~>
        (reader[r] = "closed" /\ \A i \in id_tasks[r] : task[i] = "over")
=============================================================================
