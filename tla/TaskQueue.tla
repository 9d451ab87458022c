----------------------------- MODULE TaskQueue -----------------------------
(***************************************************************************)
(* The two deques of server_queue (tools/server/server-queue.h) and what   *)
(* its methods do to them: queue_tasks, read by the main loop, and         *)
(* queue_tasks_deferred, the tasks that found no slot.  Each operator is   *)
(* the part of one method that runs under mutex_tasks; the modules that    *)
(* use it add the condition variable, the time stamp and the callers.      *)
(*                                                                         *)
(* A task is a record                                                      *)
(*   id         the task id, or 0 for the tasks nobody waits for or names  *)
(*              as a target (CANCEL and NEXT_RESPONSE), whose ids the      *)
(*              program draws from the same counter and never reads again  *)
(*   type       the server_task_type                                       *)
(*   id_slot    the slot the request asks for, NoSlot if any will do       *)
(*   id_target  the task a CANCEL is about, 0 in other tasks               *)
(***************************************************************************)
EXTENDS Integers, Sequences, SequencesExt

\* server_task::id_slot = -1
NoSlot == -1

UserTask(i, type, s) == [id |-> i, type |-> type, id_slot |-> s, id_target |-> 0]

NextResponseTask ==
    [id |-> 0, type |-> "NEXT_RESPONSE", id_slot |-> NoSlot, id_target |-> 0]

CancelTask(target) ==
    [id |-> 0, type |-> "CANCEL", id_slot |-> NoSlot, id_target |-> target]

\* The tasks with an id that the deque holds.
IdsIn(q) == {q[i].id : i \in DOMAIN q} \ {0}

\* No two tasks of the deque have the same id (0 is not an id).
Distinct(q) ==
    \A i, j \in DOMAIN q : q[i].id = q[j].id /\ q[i].id # 0 => i = j

\* A task is in the deque.
Holds(q, task) == \E i \in DOMAIN q : q[i] = task

\* server_queue::post: the end of the deque, or its beginning for `front`.
Push(q, task, front) == IF front THEN <<task>> \o q ELSE Append(q, task)

\* The index of the deferred task pop_deferred_task(id_slot) takes: the first
\* that asks for that slot, the first of all when none does.
DeferredIndex(deferred, id_slot) ==
    LET asking == {i \in DOMAIN deferred : deferred[i].id_slot = id_slot}
    IN  IF asking = {} THEN 1
        ELSE CHOOSE i \in asking : \A j \in asking : i <= j

\* pop_deferred_task moves that task to the front of queue_tasks.
PopToFront(q, deferred, id_slot) ==
    IF deferred = <<>> THEN q
    ELSE <<deferred[DeferredIndex(deferred, id_slot)]>> \o q

\* Mutant of PopRest: the task stays among the deferred ones.
PopRest_keeps(deferred, id_slot) == deferred

PopRest(deferred, id_slot) ==
    IF deferred = <<>> THEN deferred
    ELSE RemoveAt(deferred, DeferredIndex(deferred, id_slot))

\* cleanup_pending_task on one deque.  std::remove_if takes out every task
\* with the target's id; a deque holds at most one (UniqueTask of
\* ServerQueue), so taking out the first is the same.
Cleanup(q, target) ==
    IF \E i \in DOMAIN q : q[i].id = target
    THEN RemoveAt(q, CHOOSE i \in DOMAIN q : q[i].id = target)
    ELSE q
=============================================================================
