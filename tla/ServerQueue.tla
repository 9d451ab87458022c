---------------------------- MODULE ServerQueue ----------------------------
(***************************************************************************)
(* server_queue (tools/server/server-queue.{h,cpp}): the queue between the *)
(* HTTP threads, which post tasks, and the main thread, which runs         *)
(* start_loop and owns the model, with the sleeping protocol that unloads  *)
(* the model after an idle period and reloads it on demand.                *)
(*                                                                         *)
(* Every method of server_queue holds mutex_tasks from its first to its    *)
(* last statement, so a method is one action; a method that waits on       *)
(* condition_tasks is one action up to the wait and one from the wake-up.  *)
(* The exceptions are the two calls of callback_sleeping_state, which      *)
(* unload and load the model for seconds while start_loop holds the mutex: *)
(* they are main-thread states of their own ("unloading", "loading"), in   *)
(* which no other thread can take the mutex.                               *)
(*                                                                         *)
(* condition_tasks is the set `waiters` of the threads blocked on it:      *)
(* notify_one removes any one of them, notify_all removes all, a spurious  *)
(* wake-up removes one at any time, and a thread that was removed          *)
(* evaluates its predicate in a later step, when it gets the mutex back.   *)
(*                                                                         *)
(* callback_new_task and callback_update_slots belong to server_context.   *)
(* Here they are what the queue sees of them: a task is launched in a slot *)
(* (`active`), ends at once, or is deferred, and a slot that is released   *)
(* calls pop_deferred_task.  ServerSlots has their detail.                 *)
(*                                                                         *)
(* Abstracted: time_last_task, to whether idle_sleep_ms have passed since  *)
(* it was set (`idle`); ids of CANCEL and NEXT_RESPONSE tasks (TaskQueue). *)
(***************************************************************************)
EXTENDS TaskQueue, FiniteSets

CONSTANTS
    HttpThreads,    \* worker threads of the HTTP server
    Main,           \* the thread that runs start_loop
    Slots,          \* ids of the server's slots
    MaxId,          \* bound: number of requests posted in a behaviour
    SleepEnabled    \* idle_sleep_ms >= 0 (--sleep-idle-seconds)

ASSUME MainAssumption == Main \notin HttpThreads
ASSUME MaxIdAssumption == MaxId \in Nat
ASSUME SlotsAssumption == Slots \subseteq Nat /\ Slots # {} /\ IsFiniteSet(Slots)
ASSUME SleepAssumption == SleepEnabled \in BOOLEAN

VARIABLES
    id,                     \* ids handed out so far, the program's id counter
    running,
    sleeping,
    req_stop_sleeping,
    idle,                   \* now - time_last_task >= idle_sleep_ms
    queue_tasks,
    queue_tasks_deferred,
    waiters,                \* threads blocked on condition_tasks
    main,                   \* where the main thread is in start_loop
    cur,                    \* the task callback_new_task works on, if any
    active,                 \* ids of the tasks that occupy a slot
    loaded,                 \* the model is in memory
    http,                   \* where each HTTP thread is in its request
    task_id                 \* id of the task of that request

queue_vars == <<queue_tasks, queue_tasks_deferred>>
sleep_vars == <<sleeping, req_stop_sleeping, loaded>>
http_vars  == <<http, task_id, id>>
vars == <<id, running, sleeping, req_stop_sleeping, idle, queue_tasks,
          queue_tasks_deferred, waiters, main, cur, active, loaded, http,
          task_id>>

MainStates == {"init", "fetch", "task", "update", "slots", "stamp", "check",
               "idlewait", "unloading", "asleep", "loading", "exited",
               "selflock"}
HttpStates == {"idle", "blocked", "ready", "numbered", "posted"}

\* The tasks of requests, and the tasks without an id of their own.
Task ==
    [id : Nat \ {0}, type : {"COMPLETION", "METRICS"},
     id_slot : Slots \cup {NoSlot}, id_target : {0}]
    \cup
    [id : {0}, type : {"CANCEL", "NEXT_RESPONSE"}, id_slot : {NoSlot}, id_target : Nat]

\* Value of cur when no task is being processed.
NoTask == NextResponseTask

TypeOK ==
    /\ id \in Nat
    /\ running \in BOOLEAN /\ sleeping \in BOOLEAN
    /\ req_stop_sleeping \in BOOLEAN /\ idle \in BOOLEAN
    /\ queue_tasks \in Seq(Task) /\ queue_tasks_deferred \in Seq(Task)
    /\ waiters \subseteq HttpThreads \cup {Main}
    /\ main \in MainStates
    /\ cur \in Task
    /\ active \subseteq Nat \ {0}
    /\ loaded \in BOOLEAN
    /\ http \in [HttpThreads -> HttpStates]
    /\ task_id \in [HttpThreads -> Nat]

----------------------------------------------------------------------------
(* The mutex and the condition variable. *)

\* The main thread holds mutex_tasks while it unloads or loads the model; a
\* signal handler that locked it a second time never gives it back.
MutexFree == main \notin {"unloading", "loading", "selflock"}

NotifyOne ==
    \/ waiters = {} /\ waiters' = waiters
    \/ \E t \in waiters : waiters' = waiters \ {t}

NotifyAll == waiters' = {}

\* time_last_task = ggml_time_ms()
Stamp == idle' = FALSE

----------------------------------------------------------------------------
Init ==
    /\ id = 0 /\ running = FALSE
    /\ sleeping = FALSE /\ req_stop_sleeping = FALSE /\ idle = FALSE
    /\ queue_tasks = <<>> /\ queue_tasks_deferred = <<>>
    /\ waiters = {} /\ main = "init" /\ cur = NoTask /\ active = {}
    /\ loaded = TRUE \* load_model precedes start_loop
    /\ http = [t \in HttpThreads |-> "idle"]
    /\ task_id = [t \in HttpThreads |-> 0]

----------------------------------------------------------------------------
(* Methods of server_queue that other threads and the callbacks call. *)

\* Mutant of post: the condition variable is not notified.
post_no_notify(task, front) ==
    /\ queue_tasks' = Push(queue_tasks, task, front)
    /\ UNCHANGED <<queue_tasks_deferred, waiters>>
    /\ Stamp

\* server_queue::post of one task.
post(task, front) ==
    /\ queue_tasks' = Push(queue_tasks, task, front)
    /\ UNCHANGED queue_tasks_deferred
    /\ Stamp /\ NotifyOne

\* server_queue::post of a CANCEL: the target is first taken out of both
\* deques (cleanup_pending_task), then the CANCEL goes to the front.
post_cancel(target) ==
    /\ queue_tasks' = Push(Cleanup(queue_tasks, target), CancelTask(target), TRUE)
    /\ queue_tasks_deferred' = Cleanup(queue_tasks_deferred, target)
    /\ Stamp /\ NotifyOne

\* server_queue::defer.
defer(task) ==
    /\ queue_tasks_deferred' = Append(queue_tasks_deferred, task)
    /\ UNCHANGED queue_tasks
    /\ Stamp /\ NotifyOne

\* server_queue::pop_deferred_task, called whenever a slot is released.
pop_deferred_task(id_slot) ==
    /\ queue_tasks' = PopToFront(queue_tasks, queue_tasks_deferred, id_slot)
    /\ queue_tasks_deferred' = PopRest(queue_tasks_deferred, id_slot)
    /\ Stamp /\ NotifyOne

----------------------------------------------------------------------------
(* An HTTP thread and its request (server_res_generator, then              *)
(* handle_completions_impl and server_response_reader).                    *)

\* wait_until_no_sleep, up to the wait.  With sleeping disabled the call is
\* skipped altogether.
Request(t) ==
    /\ http[t] = "idle" /\ MutexFree
    /\ \/ /\ ~SleepEnabled \/ ~sleeping
          /\ http' = [http EXCEPT ![t] = "ready"]
          /\ UNCHANGED <<req_stop_sleeping, waiters>>
       \/ /\ SleepEnabled /\ sleeping
          /\ http' = [http EXCEPT ![t] = "blocked"]
          /\ req_stop_sleeping' = TRUE
          /\ IF req_stop_sleeping
             THEN waiters' = waiters \cup {t}
             ELSE IF waiters = {} THEN waiters' = {t}
             ELSE \E w \in waiters : waiters' = (waiters \ {w}) \cup {t}
    /\ UNCHANGED <<id, running, sleeping, idle, queue_vars, main, cur, active,
                   loaded, task_id>>

\* The thread wakes in wait_until_no_sleep and evaluates !sleeping.
NoSleepWake(t) ==
    /\ http[t] = "blocked" /\ t \notin waiters /\ MutexFree
    /\ IF sleeping
       THEN waiters' = waiters \cup {t} /\ UNCHANGED http
       ELSE http' = [http EXCEPT ![t] = "ready"] /\ UNCHANGED waiters
    /\ UNCHANGED <<id, running, sleep_vars, idle, queue_vars, main, cur,
                   active, task_id>>

\* In "ready" the thread parses and tokenizes the request with the model's
\* vocabulary; get_new_id numbers the task it builds.
GetNewId(t) ==
    /\ http[t] = "ready" /\ MutexFree
    /\ id < MaxId
    /\ id' = id + 1
    /\ task_id' = [task_id EXCEPT ![t] = id + 1]
    /\ http' = [http EXCEPT ![t] = "numbered"]
    /\ UNCHANGED <<running, sleep_vars, idle, queue_vars, waiters, main, cur,
                   active>>

\* server_response_reader::post_task: completions go to the end of the
\* queue, metrics and slot queries to the front.
PostTask(t) ==
    /\ http[t] = "numbered" /\ MutexFree
    /\ \E s \in Slots \cup {NoSlot} :
          \/ post(UserTask(task_id[t], "COMPLETION", s), FALSE)
          \/ post(UserTask(task_id[t], "METRICS", NoSlot), TRUE)
    /\ http' = [http EXCEPT ![t] = "posted"]
    /\ UNCHANGED <<id, running, sleep_vars, main, cur, active, task_id>>

\* The client went away: server_response_reader::stop cancels the task.
PostCancel(t) ==
    /\ http[t] = "posted" /\ MutexFree
    /\ post_cancel(task_id[t])
    /\ http' = [http EXCEPT ![t] = "idle"]
    /\ UNCHANGED <<id, running, sleep_vars, main, cur, active, task_id>>

Pending == IdsIn(queue_tasks) \cup IdsIn(queue_tasks_deferred) \cup active \cup ({cur.id} \ {0})

\* The request got its last result, so its task is over: nothing to cancel.
RequestDone(t) ==
    /\ http[t] = "posted" /\ task_id[t] \notin Pending
    /\ http' = [http EXCEPT ![t] = "idle"]
    /\ UNCHANGED <<id, running, sleep_vars, idle, queue_vars, waiters, main,
                   cur, active, task_id>>

----------------------------------------------------------------------------
(* terminate(), from the monitor thread of a router's child or from the    *)
(* signal handler, which the system may run on any thread.                 *)

terminate ==
    /\ running' = FALSE
    /\ NotifyAll

Terminate ==
    /\ MutexFree /\ terminate
    /\ UNCHANGED <<http_vars, sleep_vars, idle, queue_vars, main, cur, active>>

\* The handler interrupts the main thread while it holds mutex_tasks and
\* locks the mutex again: the thread blocks on itself.
SignalUnderLock ==
    /\ main \in {"unloading", "loading"}
    /\ main' = "selflock"
    /\ UNCHANGED <<http_vars, running, sleep_vars, idle, queue_vars, waiters,
                   cur, active>>

----------------------------------------------------------------------------
(* start_loop, on the main thread. *)

\* running is set without the mutex, whatever terminate() did before.
LoopStart ==
    /\ main = "init"
    /\ running' = TRUE /\ Stamp
    /\ main' = "fetch"
    /\ UNCHANGED <<http_vars, sleep_vars, queue_vars, waiters, cur, active>>

\* Mutant of Fetch: running is not looked at.
Fetch_ignores_running ==
    /\ main = "fetch"
    /\ IF queue_tasks = <<>>
       THEN main' = "update" /\ UNCHANGED <<queue_tasks, cur>>
       ELSE /\ main' = "task"
            /\ cur' = Head(queue_tasks)
            /\ queue_tasks' = Tail(queue_tasks)
    /\ UNCHANGED <<http_vars, running, sleep_vars, idle, queue_tasks_deferred,
                   waiters, active>>

\* The head of the loop over new tasks.
Fetch ==
    /\ main = "fetch"
    /\ \/ /\ ~running
          /\ main' = "exited"
          /\ UNCHANGED <<queue_tasks, cur>>
       \/ /\ running /\ queue_tasks = <<>>
          /\ main' = "update"
          /\ UNCHANGED <<queue_tasks, cur>>
       \/ /\ running /\ queue_tasks # <<>>
          /\ main' = "task"
          /\ cur' = Head(queue_tasks)
          /\ queue_tasks' = Tail(queue_tasks)
    /\ UNCHANGED <<http_vars, running, sleep_vars, idle, queue_tasks_deferred,
                   waiters, active>>

\* callback_new_task launches the task in a free slot ...
TaskLaunch ==
    /\ main = "task" /\ cur.type = "COMPLETION"
    /\ Cardinality(active) < Cardinality(Slots)
    /\ active' = active \cup {cur.id}
    /\ main' = "fetch" /\ cur' = NoTask
    /\ UNCHANGED <<http_vars, running, sleep_vars, idle, queue_vars, waiters>>

\* ... or defers it: its slot is taken, none is free, or not enough are ...
TaskDefer ==
    /\ main = "task" /\ cur.type = "COMPLETION"
    /\ defer(cur)
    /\ main' = "fetch" /\ cur' = NoTask
    /\ UNCHANGED <<http_vars, running, sleep_vars, active>>

\* ... or is done with it at once: a query, a NEXT_RESPONSE, a task that
\* could not be launched, a CANCEL whose target is in no slot ...
TaskEnd ==
    /\ main = "task" /\ cur.id_target \notin active
    /\ main' = "fetch" /\ cur' = NoTask
    /\ UNCHANGED <<http_vars, running, sleep_vars, idle, queue_vars, waiters,
                   active>>

\* ... or is a CANCEL that releases the slot of its target.
TaskCancel ==
    /\ main = "task" /\ cur.type = "CANCEL" /\ cur.id_target \in active
    /\ active' = active \ {cur.id_target}
    /\ \E s \in Slots : pop_deferred_task(s)
    /\ main' = "fetch" /\ cur' = NoTask
    /\ UNCHANGED <<http_vars, running, sleep_vars>>

\* Mutant of UpdateBegin: no NEXT_RESPONSE is posted.
UpdateBegin_no_next_response ==
    /\ main = "update"
    /\ main' = IF active = {} THEN "stamp" ELSE "slots"
    /\ UNCHANGED <<http_vars, running, sleep_vars, queue_vars, idle, waiters,
                   cur, active>>

\* callback_update_slots: nothing to do when all slots are idle; otherwise a
\* NEXT_RESPONSE is posted first, so that the loop comes back here.
UpdateBegin ==
    /\ main = "update"
    /\ IF active = {}
       THEN main' = "stamp" /\ UNCHANGED <<queue_vars, idle, waiters>>
       ELSE main' = "slots" /\ post(NextResponseTask, FALSE)
    /\ UNCHANGED <<http_vars, running, sleep_vars, cur, active>>

\* During the update a slot may finish its task and be released.
SlotRelease ==
    /\ main = "slots"
    /\ \E i \in active : active' = active \ {i}
    /\ \E s \in Slots : pop_deferred_task(s)
    /\ UNCHANGED <<http_vars, running, sleep_vars, main, cur>>

UpdateEnd ==
    /\ main = "slots"
    /\ main' = "stamp"
    /\ UNCHANGED <<http_vars, running, sleep_vars, idle, queue_vars, waiters,
                   cur, active>>

\* The time spent in update_slots does not count as idle.
LoopStamp ==
    /\ main = "stamp"
    /\ Stamp /\ main' = "check"
    /\ UNCHANGED <<http_vars, running, sleep_vars, queue_vars, waiters, cur,
                   active>>

\* The head of the loop that waits for new tasks.
Check ==
    /\ main = "check"
    /\ \/ /\ ~running \/ queue_tasks # <<>>
          /\ main' = "fetch"
          /\ UNCHANGED <<sleeping, waiters>>
       \/ /\ running /\ queue_tasks = <<>>
          /\ SleepEnabled /\ idle
          /\ main' = "unloading" /\ sleeping' = TRUE
          /\ UNCHANGED waiters
       \/ /\ running /\ queue_tasks = <<>>
          /\ ~(SleepEnabled /\ idle)
          /\ main' = "idlewait" /\ waiters' = waiters \cup {Main}
          /\ UNCHANGED sleeping
    /\ UNCHANGED <<http_vars, running, req_stop_sleeping, loaded, idle,
                   queue_vars, cur, active>>

\* Mutant of NewTaskOrTimeout: the wait is only ended by terminate().
Wait_ignores_queue ==
    /\ main = "idlewait"
    /\ IF running
       THEN main' = "idlewait" /\ waiters' = waiters \cup {Main}
       ELSE main' = "fetch" /\ waiters' = waiters \ {Main}
    /\ UNCHANGED <<http_vars, running, sleep_vars, idle, queue_vars, cur,
                   active>>

\* The wait_for returns: woken up with its predicate true or false, or after
\* one second.
NewTaskOrTimeout ==
    /\ main = "idlewait"
    /\ \/ /\ Main \notin waiters
          /\ IF queue_tasks # <<>> \/ ~running
             THEN main' = "fetch" /\ UNCHANGED waiters
             ELSE main' = "idlewait" /\ waiters' = waiters \cup {Main}
       \/ /\ waiters' = waiters \ {Main}
          /\ main' = IF queue_tasks # <<>> \/ ~running THEN "fetch" ELSE "check"
    /\ UNCHANGED <<http_vars, running, sleep_vars, idle, queue_vars, cur,
                   active>>

\* callback_sleeping_state(true) has unloaded the model; start_loop clears
\* the request flag and waits.
Unload ==
    /\ main = "unloading"
    /\ loaded' = FALSE /\ req_stop_sleeping' = FALSE
    /\ waiters' = waiters \cup {Main}
    /\ main' = "asleep"
    /\ UNCHANGED <<http_vars, running, sleeping, idle, queue_vars, cur, active>>

\* Mutant of SleepWake: a posted task ends the sleep like terminate() does,
\* without loading the model.
SleepWake_on_task ==
    /\ main = "asleep" /\ Main \notin waiters
    /\ \/ /\ running /\ ~req_stop_sleeping /\ queue_tasks = <<>>
          /\ waiters' = waiters \cup {Main}
          /\ UNCHANGED <<main, req_stop_sleeping>>
       \/ /\ ~running \/ queue_tasks # <<>>
          /\ main' = "fetch"
          /\ UNCHANGED <<waiters, req_stop_sleeping>>
       \/ /\ running /\ req_stop_sleeping /\ queue_tasks = <<>>
          /\ main' = "loading" /\ req_stop_sleeping' = FALSE
          /\ UNCHANGED waiters
    /\ UNCHANGED <<http_vars, running, sleeping, loaded, idle, queue_vars, cur,
                   active>>

\* The sleeping main thread wakes up and evaluates !running || req_stop_sleeping.
SleepWake ==
    /\ main = "asleep" /\ Main \notin waiters
    /\ \/ /\ running /\ ~req_stop_sleeping
          /\ waiters' = waiters \cup {Main}
          /\ UNCHANGED <<main, req_stop_sleeping>>
       \/ /\ ~running
          /\ main' = "fetch"
          /\ UNCHANGED <<waiters, req_stop_sleeping>>
       \/ /\ running /\ req_stop_sleeping
          /\ main' = "loading" /\ req_stop_sleeping' = FALSE
          /\ UNCHANGED waiters
    /\ UNCHANGED <<http_vars, running, sleeping, loaded, idle, queue_vars, cur,
                   active>>

\* callback_sleeping_state(false) has loaded the model again.
Load ==
    /\ main = "loading"
    /\ loaded' = TRUE /\ sleeping' = FALSE
    /\ Stamp /\ NotifyAll
    /\ main' = "fetch"
    /\ UNCHANGED <<http_vars, running, req_stop_sleeping, queue_vars, cur,
                   active>>

----------------------------------------------------------------------------
(* The environment. *)

\* idle_sleep_ms pass since time_last_task was last set.
Tick ==
    /\ SleepEnabled /\ ~idle
    /\ idle' = TRUE
    /\ UNCHANGED <<http_vars, running, sleep_vars, queue_vars, waiters, main,
                   cur, active>>

\* A spurious wake-up, which the standard allows.
SpuriousWake ==
    /\ \E t \in waiters : waiters' = waiters \ {t}
    /\ UNCHANGED <<http_vars, running, sleep_vars, idle, queue_vars, main, cur,
                   active>>

MainStep ==
    \/ LoopStart \/ Fetch \/ TaskLaunch \/ TaskDefer \/ TaskEnd \/ TaskCancel
    \/ UpdateBegin \/ SlotRelease \/ UpdateEnd \/ LoopStamp \/ Check
    \/ NewTaskOrTimeout \/ Unload \/ SleepWake \/ Load

\* What a thread does by itself once its request is in.
HttpStep(t) == NoSleepWake(t) \/ GetNewId(t) \/ PostTask(t)

Next ==
    \/ MainStep
    \/ \E t \in HttpThreads :
          Request(t) \/ HttpStep(t) \/ PostCancel(t) \/ RequestDone(t)
    \/ Terminate \/ SignalUnderLock \/ Tick \/ SpuriousWake

Spec == Init /\ [][Next]_vars

\* The system schedules the main thread and every HTTP thread that can run.
\* Nothing makes a client send or drop a request, a signal arrive, time pass
\* without traffic, or a wake-up be spurious.
FairSpec ==
    /\ Spec
    /\ WF_vars(MainStep)
    /\ \A t \in HttpThreads : WF_vars(HttpStep(t))

----------------------------------------------------------------------------
(* Safety. *)

\* No wake-up is lost: while start_loop is blocked in its one-second wait for
\* new tasks, there is no task and no termination that it was not told of
\* (post, defer, pop_deferred_task and terminate notify); and once the model
\* is back (sleeping is false), no request is left blocked in
\* wait_until_no_sleep on a notification that was already spent.
NoLostWakeup ==
    /\ main = "idlewait" /\ Main \in waiters => queue_tasks = <<>> /\ running
    /\ ~sleeping => waiters \subseteq {Main}

\* callback_new_task and callback_update_slots, which use the model and its
\* context, never run between the unloading and the loading of the model.
CallbacksHaveModel == main \in {"task", "update", "slots"} => loaded /\ ~sleeping

\* start_loop neither blocks nor unloads the model while a slot is at work:
\* the NEXT_RESPONSE that update_slots posts keeps the loop turning, and no
\* cancellation that cleans the queue takes it out.
NoRestWhileActive ==
    main \in {"idlewait", "unloading", "asleep", "loading"} => active = {}

\* A task is in one place at a time: deferring it, moving it back to the
\* queue, launching and cancelling it never leave two copies behind.
UniqueTask ==
    /\ Distinct(queue_tasks) /\ Distinct(queue_tasks_deferred)
    /\ IdsIn(queue_tasks) \cap IdsIn(queue_tasks_deferred) = {}
    /\ (IdsIn(queue_tasks) \cup IdsIn(queue_tasks_deferred)) \cap active = {}
    /\ cur.id \notin IdsIn(queue_tasks) \cup IdsIn(queue_tasks_deferred) \cup active

----------------------------------------------------------------------------
(* The inductive invariant behind the safety properties. *)

\* Who waits on condition_tasks, and what each waiter has been told of.
WaitInv ==
    /\ Main \in waiters => main \in {"idlewait", "asleep"} /\ running
    /\ NoLostWakeup

\* sleeping and loaded follow the main thread; a terminate() during sleep is
\* the only way out of it with sleeping still set.
SleepInv ==
    /\ main \in {"unloading", "asleep", "loading"} => sleeping
    /\ main \in {"init", "task", "update", "slots", "stamp", "check", "idlewait"}
          => ~sleeping
    /\ main = "fetch" /\ sleeping => ~running
    /\ main \in {"unloading", "loading"} => running
    /\ ~sleeping => loaded

\* Between an update that found work and the next round of the loop, the
\* NEXT_RESPONSE is in the queue.
TurnInv ==
    /\ main = "slots" => Holds(queue_tasks, NextResponseTask)
    /\ main \in {"stamp", "check"} /\ active # {} => Holds(queue_tasks, NextResponseTask)
    /\ NoRestWhileActive

\* Ids are drawn once: a task that is numbered and not yet posted is nowhere.
FreshInv ==
    /\ Pending \subseteq 1..id
    /\ \A t \in HttpThreads : http[t] \in {"numbered", "posted"} => task_id[t] \in 1..id
    /\ \A t \in HttpThreads : http[t] = "numbered" => task_id[t] \notin Pending
    /\ \A t, u \in HttpThreads :
          http[t] = "numbered" /\ http[u] = "numbered" /\ task_id[t] = task_id[u] => t = u

IndInv == TypeOK /\ WaitInv /\ SleepInv /\ TurnInv /\ UniqueTask /\ FreshInv

----------------------------------------------------------------------------
(* Liveness. *)

\* terminate() ends start_loop once the loop has begun, awake or asleep.
TerminateEndsLoop == (~running /\ main # "init") ~> (main = "exited")

\* A posted task is eventually taken from the queue by the loop (or removed
\* by its cancellation), although the fetch loop, update_slots and the waits
\* take turns, unless the server falls asleep or is told to stop.
TaskTaken ==
    \A i \in 1..MaxId :
        (i \in IdsIn(queue_tasks)) ~> (i \notin IdsIn(queue_tasks) \/ sleeping \/ ~running)

=============================================================================
