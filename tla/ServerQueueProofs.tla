------------------------- MODULE ServerQueueProofs -------------------------
(***************************************************************************)
(* The safety properties of ServerQueue, for every set of HTTP threads and *)
(* slots, every bound on the number of requests, sleeping enabled or not.  *)
(* IndInv is preserved by every action; one lemma per conjunct.            *)
(***************************************************************************)
EXTENDS ServerQueue, TaskQueueProofs

\* The initial state satisfies the inductive invariant.
LEMMA InitInv == Init => IndInv
<1> SUFFICES ASSUME Init PROVE IndInv OBVIOUS
<1> USE DEF Init
<1>1. NoTask \in Task BY DEF NoTask, NextResponseTask, Task
<1>2. TypeOK
  <2>1. <<>> \in Seq(Task) OBVIOUS
  <2>2. http \in [HttpThreads -> HttpStates] BY DEF HttpStates
  <2>3. task_id \in [HttpThreads -> Nat] OBVIOUS
  <2>4. main \in MainStates BY DEF MainStates
  <2>5. QED BY <1>1, <2>1, <2>2, <2>3, <2>4 DEF TypeOK
<1>3. WaitInv BY DEF WaitInv, NoLostWakeup
<1>4. SleepInv BY DEF SleepInv
<1>5. TurnInv BY DEF TurnInv, NoRestWhileActive
<1>6. Pending = {} BY DEF Pending, IdsIn, NoTask, NextResponseTask
<1>7. UniqueTask BY <1>6 DEF UniqueTask, Distinct, Pending, NoTask, NextResponseTask
<1>8. FreshInv BY <1>6 DEF FreshInv
<1>9. QED BY <1>2, <1>3, <1>4, <1>5, <1>7, <1>8 DEF IndInv

\* The condition variable: no wake-up is lost, no sleeper forgotten.
LEMMA WaitStep == IndInv /\ [Next]_vars => WaitInv'
<1> SUFFICES ASSUME IndInv, [Next]_vars PROVE WaitInv'
  OBVIOUS
<1> USE MainAssumption DEF IndInv, WaitInv, SleepInv, NoLostWakeup
<1>1. CASE UNCHANGED vars BY <1>1 DEF vars
<1>2. ASSUME NEW t \in HttpThreads, Request(t) PROVE WaitInv'
  BY <1>2 DEF Request, queue_vars
<1>3. ASSUME NEW t \in HttpThreads, NoSleepWake(t) PROVE WaitInv'
  BY <1>3 DEF NoSleepWake, queue_vars, sleep_vars
<1>4. ASSUME NEW t \in HttpThreads, GetNewId(t) PROVE WaitInv'
  BY <1>4 DEF GetNewId, queue_vars, sleep_vars
<1>5. ASSUME NEW t \in HttpThreads, PostTask(t) PROVE WaitInv'
  <2>1. NotifyOne BY <1>5 DEF PostTask, post
  <2>2. UNCHANGED <<main, running, sleep_vars>> BY <1>5 DEF PostTask
  <2>3. QED BY <2>1, <2>2 DEF NotifyOne, sleep_vars
<1>6. ASSUME NEW t \in HttpThreads, PostCancel(t) PROVE WaitInv'
  BY <1>6 DEF PostCancel, post_cancel, NotifyOne, sleep_vars
<1>7. ASSUME NEW t \in HttpThreads, RequestDone(t) PROVE WaitInv'
  BY <1>7 DEF RequestDone, queue_vars, sleep_vars
<1>8. CASE Terminate BY <1>8 DEF Terminate, terminate, NotifyAll
<1>9. CASE SignalUnderLock BY <1>9 DEF SignalUnderLock, queue_vars, sleep_vars
<1>10. CASE LoopStart BY <1>10 DEF LoopStart, sleep_vars
<1>11. CASE Fetch BY <1>11 DEF Fetch, sleep_vars
<1>12. CASE TaskLaunch BY <1>12 DEF TaskLaunch, sleep_vars
<1>13. CASE TaskDefer BY <1>13 DEF TaskDefer, defer, NotifyOne, sleep_vars
<1>14. CASE TaskEnd BY <1>14 DEF TaskEnd, sleep_vars
<1>15. CASE TaskCancel
  BY <1>15 DEF TaskCancel, pop_deferred_task, NotifyOne, sleep_vars
<1>16. CASE UpdateBegin BY <1>16 DEF UpdateBegin, post, NotifyOne, sleep_vars
<1>17. CASE SlotRelease
  BY <1>17 DEF SlotRelease, pop_deferred_task, NotifyOne, sleep_vars
<1>18. CASE UpdateEnd BY <1>18 DEF UpdateEnd, sleep_vars
<1>19. CASE LoopStamp BY <1>19 DEF LoopStamp, sleep_vars
<1>20. CASE Check BY <1>20 DEF Check, queue_vars
<1>21. CASE NewTaskOrTimeout BY <1>21 DEF NewTaskOrTimeout, queue_vars, sleep_vars
<1>22. CASE Unload BY <1>22 DEF Unload
<1>23. CASE SleepWake BY <1>23 DEF SleepWake
<1>24. CASE Load BY <1>24 DEF Load, NotifyAll
<1>25. CASE Tick BY <1>25 DEF Tick, queue_vars, sleep_vars
<1>26. CASE SpuriousWake BY <1>26 DEF SpuriousWake, queue_vars, sleep_vars
<1>27. QED
  BY <1>1, <1>2, <1>3, <1>4, <1>5, <1>6, <1>7, <1>8, <1>9, <1>10, <1>11, <1>12,
     <1>13, <1>14, <1>15, <1>16, <1>17, <1>18, <1>19, <1>20, <1>21, <1>22, <1>23,
     <1>24, <1>25, <1>26 DEF Next, MainStep, HttpStep

\* sleeping and loaded follow the main thread.
LEMMA SleepStep == IndInv /\ [Next]_vars => SleepInv'
<1> SUFFICES ASSUME IndInv, [Next]_vars PROVE SleepInv'
  OBVIOUS
<1> USE DEF IndInv, SleepInv, sleep_vars
<1>1. CASE UNCHANGED vars BY <1>1 DEF vars
<1>2. ASSUME NEW t \in HttpThreads,
             \/ Request(t) \/ HttpStep(t) \/ PostCancel(t) \/ RequestDone(t)
      PROVE  SleepInv'
  <2>1. CASE Request(t) BY <2>1 DEF Request
  <2>2. CASE NoSleepWake(t) BY <2>2 DEF NoSleepWake
  <2>3. CASE GetNewId(t) BY <2>3 DEF GetNewId
  <2>4. CASE PostTask(t) BY <2>4 DEF PostTask
  <2>5. CASE PostCancel(t) BY <2>5 DEF PostCancel
  <2>6. CASE RequestDone(t) BY <2>6 DEF RequestDone
  <2>7. QED BY <1>2, <2>1, <2>2, <2>3, <2>4, <2>5, <2>6 DEF HttpStep
<1>3. CASE Terminate \/ SignalUnderLock \/ Tick \/ SpuriousWake
  BY <1>3 DEF Terminate, terminate, MutexFree, SignalUnderLock, Tick, SpuriousWake
<1>4. CASE LoopStart \/ Fetch BY <1>4 DEF LoopStart, Fetch
<1>5. CASE TaskLaunch \/ TaskDefer \/ TaskEnd \/ TaskCancel
  BY <1>5 DEF TaskLaunch, TaskDefer, TaskEnd, TaskCancel
<1>6. CASE UpdateBegin \/ SlotRelease \/ UpdateEnd \/ LoopStamp
  <2>1. CASE UpdateBegin BY <2>1 DEF UpdateBegin
  <2>2. CASE SlotRelease BY <2>2 DEF SlotRelease
  <2>3. CASE UpdateEnd \/ LoopStamp BY <2>3 DEF UpdateEnd, LoopStamp
  <2>4. QED BY <1>6, <2>1, <2>2, <2>3
<1>7. CASE Check \/ NewTaskOrTimeout BY <1>7 DEF Check, NewTaskOrTimeout
<1>8. CASE Unload \/ SleepWake \/ Load BY <1>8 DEF Unload, SleepWake, Load
<1>9. QED
  BY <1>1, <1>2, <1>3, <1>4, <1>5, <1>6, <1>7, <1>8 DEF Next, MainStep

\* What PostTask posts is a task with the thread's id.
LEMMA PostTaskLemma ==
    ASSUME TypeOK, FreshInv, NEW t \in HttpThreads, PostTask(t)
    PROVE  /\ \E task \in Task, front \in BOOLEAN :
                 /\ task.id = task_id[t]
                 /\ queue_tasks' = Push(queue_tasks, task, front)
           /\ task_id[t] \in Nat \ {0}
           /\ UNCHANGED <<queue_tasks_deferred, main, cur, active, id, task_id, running>>
<1>1. task_id[t] \in Nat \ {0} BY DEF FreshInv, PostTask, TypeOK
<1>2. PICK s \in Slots \cup {NoSlot} :
         \/ post(UserTask(task_id[t], "COMPLETION", s), FALSE)
         \/ post(UserTask(task_id[t], "METRICS", NoSlot), TRUE)
  BY DEF PostTask
<1>3. \A type \in {"COMPLETION", "METRICS"} :
         /\ UserTask(task_id[t], type, s) \in Task
         /\ UserTask(task_id[t], type, NoSlot) \in Task
         /\ UserTask(task_id[t], type, s).id = task_id[t]
         /\ UserTask(task_id[t], type, NoSlot).id = task_id[t]
  BY <1>1 DEF UserTask, Task
<1>4. \E task \in Task, front \in BOOLEAN :
         task.id = task_id[t] /\ queue_tasks' = Push(queue_tasks, task, front)
  <2>1. CASE post(UserTask(task_id[t], "COMPLETION", s), FALSE)
    BY <1>3, <2>1 DEF post
  <2>2. CASE post(UserTask(task_id[t], "METRICS", NoSlot), TRUE)
    BY <1>3, <2>2 DEF post
  <2>3. QED BY <1>2, <2>1, <2>2
<1>5. QED BY <1>1, <1>4 DEF PostTask, post

\* What PostCancel does to the two deques.
LEMMA PostCancelLemma ==
    ASSUME TypeOK, FreshInv, UniqueTask, NEW t \in HttpThreads, PostCancel(t)
    PROVE  /\ queue_tasks' \in Seq(Task) /\ queue_tasks_deferred' \in Seq(Task)
           /\ Distinct(queue_tasks') /\ Distinct(queue_tasks_deferred')
           /\ IdsIn(queue_tasks') = IdsIn(queue_tasks) \ {task_id[t]}
           /\ IdsIn(queue_tasks_deferred') = IdsIn(queue_tasks_deferred) \ {task_id[t]}
           /\ Holds(queue_tasks, NextResponseTask) => Holds(queue_tasks', NextResponseTask)
           /\ UNCHANGED <<main, cur, active, id, task_id, running>>
<1> DEFINE x == task_id[t]
           q == Cleanup(queue_tasks, x)
<1>1. x \in Nat \ {0} BY DEF FreshInv, PostCancel, TypeOK
<1> HIDE DEF x
<1>2. /\ queue_tasks' = Push(q, CancelTask(x), TRUE)
      /\ queue_tasks_deferred' = Cleanup(queue_tasks_deferred, x)
  BY DEF PostCancel, post_cancel, x
<1>3. queue_tasks \in Seq(Task) /\ queue_tasks_deferred \in Seq(Task) BY DEF TypeOK
<1>4. Distinct(queue_tasks) /\ Distinct(queue_tasks_deferred) BY DEF UniqueTask
<1>5. CancelTask(x) \in Task /\ CancelTask(x).id = 0 BY <1>1 DEF CancelTask, Task
<1>6. /\ q \in Seq(Task) /\ Distinct(q) /\ IdsIn(q) = IdsIn(queue_tasks) \ {x}
      /\ \A u : Holds(queue_tasks, u) /\ u.id # x => Holds(q, u)
  BY <1>1, <1>3, <1>4, CleanupLemma
<1>7. /\ queue_tasks_deferred' \in Seq(Task) /\ Distinct(queue_tasks_deferred')
      /\ IdsIn(queue_tasks_deferred') = IdsIn(queue_tasks_deferred) \ {x}
  BY <1>1, <1>2, <1>3, <1>4, CleanupLemma
<1> HIDE DEF q
<1>8. 0 \notin IdsIn(q) BY DEF IdsIn
<1>9. /\ IdsIn(queue_tasks') = IdsIn(q) \cup ({CancelTask(x).id} \ {0})
      /\ Distinct(q) /\ CancelTask(x).id \notin IdsIn(q) => Distinct(queue_tasks')
  <2>1. q \in Seq(Task) /\ CancelTask(x) \in Task BY <1>5, <1>6
  <2>2. /\ IdsIn(Push(q, CancelTask(x), TRUE)) = IdsIn(q) \cup ({CancelTask(x).id} \ {0})
        /\ Distinct(q) /\ CancelTask(x).id \notin IdsIn(q)
             => Distinct(Push(q, CancelTask(x), TRUE))
    BY <2>1, PushIds, Zenon
  <2>3. QED BY <1>2, <2>2, Zenon
<1>10. queue_tasks' \in Seq(Task) /\ \A u : Holds(q, u) => Holds(queue_tasks', u)
  BY <1>2, <1>5, <1>6, PushLemma, Zenon
<1>11. Holds(queue_tasks, NextResponseTask) => Holds(queue_tasks', NextResponseTask)
  <2>1. NextResponseTask.id # x BY <1>1 DEF NextResponseTask
  <2>2. QED BY <1>6, <1>10, <2>1
<1>12. UNCHANGED <<main, cur, active, id, task_id, running>> BY DEF PostCancel
<1>13. QED BY <1>5, <1>6, <1>7, <1>8, <1>9, <1>10, <1>11, <1>12 DEF x

\* A released slot moves one deferred task and loses nothing.
LEMMA PopStepLemma ==
    ASSUME TypeOK, UniqueTask, NEW s, pop_deferred_task(s)
    PROVE  /\ queue_tasks' \in Seq(Task) /\ queue_tasks_deferred' \in Seq(Task)
           /\ Distinct(queue_tasks') /\ Distinct(queue_tasks_deferred')
           /\ IdsIn(queue_tasks') \cap IdsIn(queue_tasks_deferred') = {}
           /\ IdsIn(queue_tasks') \cup IdsIn(queue_tasks_deferred')
                = IdsIn(queue_tasks) \cup IdsIn(queue_tasks_deferred)
           /\ Holds(queue_tasks, NextResponseTask) => Holds(queue_tasks', NextResponseTask)
<1>1. /\ queue_tasks' = PopToFront(queue_tasks, queue_tasks_deferred, s)
      /\ queue_tasks_deferred' = PopRest(queue_tasks_deferred, s)
  BY DEF pop_deferred_task
<1>2. queue_tasks \in Seq(Task) /\ queue_tasks_deferred \in Seq(Task) BY DEF TypeOK
<1>3. /\ Distinct(queue_tasks) /\ Distinct(queue_tasks_deferred)
      /\ IdsIn(queue_tasks) \cap IdsIn(queue_tasks_deferred) = {}
  BY DEF UniqueTask
<1>4. QED BY <1>1, <1>2, <1>3, PopLemma, Zenon

\* The loop keeps turning while slots are active.
LEMMA TurnStep == IndInv /\ [Next]_vars => TurnInv'
<1> SUFFICES ASSUME IndInv, [Next]_vars PROVE TurnInv'
  OBVIOUS
<1> USE DEF IndInv, TurnInv, NoRestWhileActive, queue_vars
<1>1. CASE UNCHANGED vars BY <1>1 DEF vars
<1>2. ASSUME NEW t \in HttpThreads,
             \/ Request(t) \/ HttpStep(t) \/ PostCancel(t) \/ RequestDone(t)
      PROVE  TurnInv'
  <2>1. CASE Request(t) BY <2>1 DEF Request
  <2>2. CASE NoSleepWake(t) BY <2>2 DEF NoSleepWake
  <2>3. CASE GetNewId(t) BY <2>3 DEF GetNewId
  <2>4. CASE PostTask(t)
    <3>1. PICK task \in Task, front \in BOOLEAN :
             queue_tasks' = Push(queue_tasks, task, front)
      BY <2>4, PostTaskLemma
    <3>2. queue_tasks \in Seq(Task) BY DEF TypeOK
    <3>3. \A u : Holds(queue_tasks, u) => Holds(queue_tasks', u)
      BY <3>1, <3>2, PushLemma, Zenon
    <3>4. UNCHANGED <<main, active>> BY <2>4 DEF PostTask
    <3>5. QED BY <3>3, <3>4
  <2>5. CASE PostCancel(t) BY <2>5, PostCancelLemma
  <2>6. CASE RequestDone(t) BY <2>6 DEF RequestDone
  <2>7. QED BY <1>2, <2>1, <2>2, <2>3, <2>4, <2>5, <2>6 DEF HttpStep
<1>3. CASE Terminate \/ SignalUnderLock \/ Tick \/ SpuriousWake
  BY <1>3 DEF Terminate, SignalUnderLock, Tick, SpuriousWake
<1>4. CASE LoopStart \/ Fetch BY <1>4 DEF LoopStart, Fetch
<1>5. CASE TaskLaunch \/ TaskDefer \/ TaskEnd \/ TaskCancel
  BY <1>5 DEF TaskLaunch, TaskDefer, TaskEnd, TaskCancel
<1>6. CASE UpdateBegin
  <2>1. CASE active = {} BY <1>6, <2>1 DEF UpdateBegin
  <2>2. CASE active # {}
    <3>1. main' = "slots" /\ queue_tasks' = Push(queue_tasks, NextResponseTask, FALSE)
      BY <1>6, <2>2 DEF UpdateBegin, post
    <3>2. NextResponseTask \in Task BY DEF NextResponseTask, Task
    <3>3. queue_tasks \in Seq(Task) BY DEF TypeOK
    <3>4. Holds(queue_tasks', NextResponseTask)
      BY <3>1, <3>2, <3>3, PushLemma, Zenon
    <3>5. QED BY <3>1, <3>4
  <2>3. QED BY <2>1, <2>2
<1>7. CASE SlotRelease
  <2>1. PICK s \in Slots : pop_deferred_task(s) BY <1>7 DEF SlotRelease
  <2>2. main' = "slots" /\ main = "slots" BY <1>7 DEF SlotRelease
  <2>3. QED BY <2>1, <2>2, PopStepLemma
<1>8. CASE UpdateEnd \/ LoopStamp BY <1>8 DEF UpdateEnd, LoopStamp
<1>9. CASE Check
  <2>1. Holds(queue_tasks, NextResponseTask) => queue_tasks # <<>> BY DEF Holds
  <2>2. QED BY <1>9, <2>1 DEF Check
<1>10. CASE NewTaskOrTimeout BY <1>10 DEF NewTaskOrTimeout
<1>11. CASE Unload \/ SleepWake \/ Load BY <1>11 DEF Unload, SleepWake, Load
<1>12. QED
  BY <1>1, <1>2, <1>3, <1>4, <1>5, <1>6, <1>7, <1>8, <1>9, <1>10, <1>11
  DEF Next, MainStep

\* Every variable keeps its type.
LEMMA TypeStep == IndInv /\ [Next]_vars => TypeOK'
<1> SUFFICES ASSUME IndInv, [Next]_vars PROVE TypeOK'
  OBVIOUS
<1> USE DEF IndInv, TypeOK, MainStates, HttpStates, queue_vars, sleep_vars, http_vars,
            Stamp, NotifyOne, NotifyAll
<1>1. CASE UNCHANGED vars BY <1>1 DEF vars
<1>2. ASSUME NEW t \in HttpThreads, Request(t) PROVE TypeOK'
  <2>1. http' \in [HttpThreads -> HttpStates] BY <1>2 DEF Request
  <2>2. waiters' \subseteq HttpThreads \cup {Main} BY <1>2 DEF Request
  <2>3. req_stop_sleeping' \in BOOLEAN BY <1>2 DEF Request
  <2>4. UNCHANGED <<id, running, sleeping, idle, queue_tasks, queue_tasks_deferred,
                    main, cur, active, loaded, task_id>>
    BY <1>2 DEF Request
  <2>5. QED BY <2>1, <2>2, <2>3, <2>4
<1>3. ASSUME NEW t \in HttpThreads, NoSleepWake(t) PROVE TypeOK'
  <2>1. http' \in [HttpThreads -> HttpStates] BY <1>3 DEF NoSleepWake
  <2>2. waiters' \subseteq HttpThreads \cup {Main} BY <1>3 DEF NoSleepWake
  <2>3. UNCHANGED <<id, running, sleeping, req_stop_sleeping, loaded, idle, queue_tasks,
                    queue_tasks_deferred, main, cur, active, task_id>>
    BY <1>3 DEF NoSleepWake
  <2>4. QED BY <2>1, <2>2, <2>3
<1>4. ASSUME NEW t \in HttpThreads, GetNewId(t) PROVE TypeOK' BY <1>4 DEF GetNewId
<1>5. ASSUME NEW t \in HttpThreads, PostTask(t) PROVE TypeOK'
  <2>1. queue_tasks' \in Seq(Task)
    <3>1. PICK task \in Task, front \in BOOLEAN :
             queue_tasks' = Push(queue_tasks, task, front)
      BY <1>5, PostTaskLemma
    <3>2. queue_tasks \in Seq(Task) OBVIOUS
    <3>3. QED BY <3>1, <3>2, PushLemma, Zenon
  <2>2. http' \in [HttpThreads -> HttpStates] BY <1>5 DEF PostTask
  <2>3. waiters' \subseteq HttpThreads \cup {Main} /\ idle' \in BOOLEAN
    BY <1>5 DEF PostTask, post
  <2>4. UNCHANGED <<id, running, sleeping, req_stop_sleeping, loaded,
                    queue_tasks_deferred, main, cur, active, task_id>>
    BY <1>5 DEF PostTask, post
  <2>5. QED BY <2>1, <2>2, <2>3, <2>4
<1>6. ASSUME NEW t \in HttpThreads, PostCancel(t) PROVE TypeOK'
  <2>1. queue_tasks' \in Seq(Task) /\ queue_tasks_deferred' \in Seq(Task)
    BY <1>6, PostCancelLemma
  <2>2. http' \in [HttpThreads -> HttpStates] BY <1>6 DEF PostCancel
  <2>3. waiters' \subseteq HttpThreads \cup {Main} /\ idle' \in BOOLEAN
    BY <1>6 DEF PostCancel, post_cancel
  <2>4. UNCHANGED <<id, running, sleeping, req_stop_sleeping, loaded,
                    main, cur, active, task_id>>
    BY <1>6 DEF PostCancel, post_cancel
  <2>5. QED BY <2>1, <2>2, <2>3, <2>4
<1>7. ASSUME NEW t \in HttpThreads, RequestDone(t) PROVE TypeOK' BY <1>7 DEF RequestDone
<1>8. CASE Terminate \/ SignalUnderLock \/ Tick \/ SpuriousWake
  <2>1. CASE Terminate BY <2>1 DEF Terminate, terminate
  <2>2. CASE SignalUnderLock BY <2>2 DEF SignalUnderLock
  <2>3. CASE Tick BY <2>3 DEF Tick
  <2>4. CASE SpuriousWake BY <2>4 DEF SpuriousWake
  <2>5. QED BY <1>8, <2>1, <2>2, <2>3, <2>4
<1>9. CASE LoopStart BY <1>9 DEF LoopStart
<1>10. CASE Fetch
  <2>1. queue_tasks # <<>> => Head(queue_tasks) \in Task /\ Tail(queue_tasks) \in Seq(Task)
    <3>1. queue_tasks \in Seq(Task) OBVIOUS
    <3> HIDE DEF TypeOK
    <3>2. QED BY <3>1
  <2>2. QED BY <1>10, <2>1 DEF Fetch
<1>11. NoTask \in Task BY DEF NoTask, NextResponseTask, Task
<1>12. CASE TaskLaunch
  <2>1. cur.id \in Nat \ {0} BY <1>12 DEF TaskLaunch, Task
  <2>2. QED BY <1>11, <1>12, <2>1 DEF TaskLaunch
<1>13. CASE TaskDefer
  <2>1. queue_tasks_deferred' \in Seq(Task)
    <3>1. queue_tasks_deferred \in Seq(Task) /\ cur \in Task OBVIOUS
    <3>2. queue_tasks_deferred' = Append(queue_tasks_deferred, cur)
      BY <1>13 DEF TaskDefer, defer
    <3> HIDE DEF TypeOK
    <3>3. QED BY <3>1, <3>2
  <2>2. QED BY <1>11, <1>13, <2>1 DEF TaskDefer, defer
<1>14. CASE TaskEnd BY <1>11, <1>14 DEF TaskEnd
<1>15. CASE TaskCancel
  <2>1. PICK s \in Slots : pop_deferred_task(s) BY <1>15 DEF TaskCancel
  <2>2. queue_tasks' \in Seq(Task) /\ queue_tasks_deferred' \in Seq(Task)
    BY <2>1, PopStepLemma
  <2>3. QED BY <1>11, <1>15, <2>1, <2>2 DEF TaskCancel, pop_deferred_task
<1>16. CASE UpdateBegin
  <2>1. queue_tasks' \in Seq(Task)
    <3>1. NextResponseTask \in Task BY DEF NextResponseTask, Task
    <3>2. queue_tasks \in Seq(Task) OBVIOUS
    <3>3. Push(queue_tasks, NextResponseTask, FALSE) \in Seq(Task)
      BY <3>1, <3>2, PushLemma, Zenon
    <3>4. QED BY <1>16, <3>3 DEF UpdateBegin, post
  <2>2. QED BY <1>16, <2>1 DEF UpdateBegin, post
<1>17. CASE SlotRelease
  <2>1. PICK s \in Slots : pop_deferred_task(s) BY <1>17 DEF SlotRelease
  <2>2. queue_tasks' \in Seq(Task) /\ queue_tasks_deferred' \in Seq(Task)
    BY <2>1, PopStepLemma
  <2>3. QED BY <1>17, <2>1, <2>2 DEF SlotRelease, pop_deferred_task
<1>18. CASE UpdateEnd \/ LoopStamp BY <1>18 DEF UpdateEnd, LoopStamp
<1>19. CASE Check BY <1>19 DEF Check
<1>20. CASE NewTaskOrTimeout BY <1>20 DEF NewTaskOrTimeout
<1>21. CASE Unload \/ SleepWake \/ Load BY <1>21 DEF Unload, SleepWake, Load
<1>22. QED
  BY <1>1, <1>2, <1>3, <1>4, <1>5, <1>6, <1>7, <1>8, <1>9, <1>10, <1>12, <1>13,
     <1>14, <1>15, <1>16, <1>17, <1>18, <1>19, <1>20, <1>21
  DEF Next, MainStep, HttpStep

\* Steps that move no task and number none leave both id invariants alone.
LEMMA SameIds ==
    ASSUME UniqueTask, FreshInv,
           UNCHANGED <<queue_tasks, queue_tasks_deferred, cur, active, id, task_id>>,
           \A t \in HttpThreads :
              /\ http'[t] = "numbered" => http[t] = "numbered"
              /\ http'[t] = "posted" => http[t] = "posted"
    PROVE  UniqueTask' /\ FreshInv'
<1>1. UniqueTask' BY DEF UniqueTask, Distinct, IdsIn
<1>2. Pending' = Pending BY DEF Pending, IdsIn
<1>3. FreshInv' BY <1>2 DEF FreshInv
<1>4. QED BY <1>1, <1>3

\* Steps of the main thread that shuffle tasks between the deques, cur and
\* active: no numbered task appears.
LEMMA FewerPending ==
    ASSUME FreshInv, Pending' \subseteq Pending, UNCHANGED <<id, task_id, http>>
    PROVE  FreshInv'
<1>1. QED BY DEF FreshInv

\* Every task is in one place and every new id is new.
LEMMA UniqueStep == IndInv /\ [Next]_vars => UniqueTask' /\ FreshInv'
<1> SUFFICES ASSUME IndInv, [Next]_vars PROVE UniqueTask' /\ FreshInv'
  OBVIOUS
<1> USE DEF IndInv, queue_vars, http_vars
<1> DEFINE Q == IdsIn(queue_tasks)
           D == IdsIn(queue_tasks_deferred)
<1>a. /\ queue_tasks \in Seq(Task) /\ queue_tasks_deferred \in Seq(Task)
      /\ cur \in Task /\ id \in Nat /\ 0 \notin active
      /\ http \in [HttpThreads -> HttpStates] /\ task_id \in [HttpThreads -> Nat]
  BY DEF TypeOK
<1>b. /\ Distinct(queue_tasks) /\ Distinct(queue_tasks_deferred)
      /\ Q \cap D = {} /\ Q \cap active = {} /\ D \cap active = {}
      /\ cur.id \notin Q /\ cur.id \notin D /\ cur.id \notin active
  BY DEF UniqueTask
<1>c. 0 \notin Q /\ 0 \notin D /\ 0 \notin Q' /\ 0 \notin D' BY DEF IdsIn
<1>d. NoTask.id = 0 BY DEF NoTask, NextResponseTask
<1>1. CASE UNCHANGED vars BY <1>1, SameIds DEF vars
<1>2. ASSUME NEW t \in HttpThreads, Request(t) \/ NoSleepWake(t) \/ RequestDone(t)
      PROVE  UniqueTask' /\ FreshInv'
  <2>1. /\ UNCHANGED <<queue_tasks, queue_tasks_deferred, cur, active, id, task_id>>
        /\ \A u \in HttpThreads :
              /\ http'[u] = "numbered" => http[u] = "numbered"
              /\ http'[u] = "posted" => http[u] = "posted"
    BY <1>a, <1>2 DEF Request, NoSleepWake, RequestDone
  <2>2. QED BY <2>1, SameIds
<1>3. ASSUME NEW t \in HttpThreads, GetNewId(t) PROVE UniqueTask' /\ FreshInv'
  <2>1. UNCHANGED <<queue_tasks, queue_tasks_deferred, cur, active>>
    BY <1>3 DEF GetNewId
  <2>2. UniqueTask' BY <2>1 DEF UniqueTask, Distinct, IdsIn
  <2>3. Pending' = Pending BY <2>1 DEF Pending, IdsIn
  <2>4. /\ id' = id + 1 /\ task_id'[t] = id + 1
        /\ \A u \in HttpThreads : u # t => task_id'[u] = task_id[u] /\ http'[u] = http[u]
    BY <1>a, <1>3 DEF GetNewId
  <2>5. id + 1 \notin Pending BY <1>a DEF FreshInv
  <2>6. \A u \in HttpThreads : http[u] = "numbered" => task_id[u] # id + 1
    BY <1>a DEF FreshInv
  <2>7. FreshInv'
    <3>1. Pending' \subseteq 1..id' BY <1>a, <2>3, <2>4 DEF FreshInv
    <3>2. ASSUME NEW u \in HttpThreads, http'[u] \in {"numbered", "posted"}
          PROVE  task_id'[u] \in 1..id'
      BY <1>a, <2>4, <3>2 DEF FreshInv
    <3>3. ASSUME NEW u \in HttpThreads, http'[u] = "numbered"
          PROVE  task_id'[u] \notin Pending'
      BY <2>3, <2>4, <2>5, <3>3 DEF FreshInv
    <3>4. ASSUME NEW u \in HttpThreads, NEW v \in HttpThreads, http'[u] = "numbered",
                 http'[v] = "numbered", task_id'[u] = task_id'[v]
          PROVE  u = v
      BY <2>4, <2>6, <3>4 DEF FreshInv
    <3>5. QED BY <3>1, <3>2, <3>3, <3>4 DEF FreshInv
  <2>8. QED BY <2>2, <2>7
<1>4. ASSUME NEW t \in HttpThreads, PostTask(t) PROVE UniqueTask' /\ FreshInv'
  <2>1. PICK task \in Task, front \in BOOLEAN :
           /\ task.id = task_id[t]
           /\ queue_tasks' = Push(queue_tasks, task, front)
    BY <1>4, PostTaskLemma
  <2>2. /\ task_id[t] \in Nat \ {0}
        /\ UNCHANGED <<queue_tasks_deferred, cur, active, id, task_id>>
    BY <1>4, PostTaskLemma
  <2>3. task_id[t] \notin Pending BY <1>4 DEF FreshInv, PostTask
  <2>4. task_id[t] \notin Q \cup D \cup active /\ task_id[t] # cur.id
    BY <2>2, <2>3 DEF Pending
  <2>5. Q' = Q \cup {task_id[t]} /\ Distinct(queue_tasks')
    <3>1. queue_tasks \in Seq(Task) /\ task \in Task /\ front \in BOOLEAN BY <1>a, <2>1
    <3>2. IdsIn(Push(queue_tasks, task, front)) = Q \cup ({task.id} \ {0})
      BY <3>1, PushIds
    <3>3. Distinct(queue_tasks) /\ task.id \notin Q
            => Distinct(Push(queue_tasks, task, front))
      BY <3>1, PushIds
    <3>4. QED BY <1>b, <2>1, <2>2, <2>4, <3>2, <3>3
  <2>6. D' = D BY <2>2 DEF IdsIn
  <2>7. Distinct(queue_tasks_deferred') BY <1>b, <2>2
  <2> HIDE DEF Q, D
  <2>8. UniqueTask'
    <3>1. /\ Q' \cap D' = {} /\ (Q' \cup D') \cap active' = {}
          /\ cur'.id \notin Q' \cup D' \cup active'
      BY <1>b, <2>2, <2>4, <2>5, <2>6
    <3>2. QED BY <2>5, <2>7, <3>1 DEF UniqueTask, Q, D
  <2>9. Pending' = Pending \cup {task_id[t]}
    BY <2>2, <2>5, <2>6 DEF Pending, Q, D
  <2>10. http'[t] = "posted" /\ \A u \in HttpThreads : u # t => http'[u] = http[u]
    BY <1>a, <1>4 DEF PostTask
  <2>11. task_id[t] \in 1..id /\ http[t] = "numbered" BY <1>4 DEF FreshInv, PostTask
  <2>12. FreshInv' BY <2>2, <2>9, <2>10, <2>11 DEF FreshInv
  <2>13. QED BY <2>8, <2>12
<1>5. ASSUME NEW t \in HttpThreads, PostCancel(t) PROVE UniqueTask' /\ FreshInv'
  <2>1. /\ Distinct(queue_tasks') /\ Distinct(queue_tasks_deferred')
        /\ Q' = Q \ {task_id[t]} /\ D' = D \ {task_id[t]}
        /\ UNCHANGED <<cur, active, id, task_id>>
    BY <1>5, PostCancelLemma
  <2> HIDE DEF Q, D
  <2>2. UniqueTask'
    <3>1. /\ Q' \cap D' = {} /\ (Q' \cup D') \cap active' = {}
          /\ cur'.id \notin Q' \cup D' \cup active'
      BY <1>b, <2>1
    <3>2. QED BY <2>1, <3>1 DEF UniqueTask, Q, D
  <2>3. Pending' \subseteq Pending BY <2>1 DEF Pending, Q, D
  <2>4. http'[t] = "idle" /\ \A u \in HttpThreads : u # t => http'[u] = http[u]
    BY <1>a, <1>5 DEF PostCancel
  <2>5. FreshInv' BY <2>1, <2>3, <2>4 DEF FreshInv
  <2>6. QED BY <2>2, <2>5
<1>6. CASE \/ Terminate \/ SignalUnderLock \/ Tick \/ SpuriousWake \/ LoopStart
           \/ UpdateEnd \/ LoopStamp \/ Check \/ NewTaskOrTimeout \/ Unload
           \/ SleepWake \/ Load
  <2>1. /\ UNCHANGED <<queue_tasks, queue_tasks_deferred, cur, active, id, task_id>>
        /\ http' = http
    BY <1>6 DEF Terminate, SignalUnderLock, Tick, SpuriousWake, LoopStart, UpdateEnd,
                LoopStamp, Check, NewTaskOrTimeout, Unload, SleepWake, Load
  <2>2. QED BY <2>1, SameIds
<1>7. ASSUME UNCHANGED <<id, task_id, http>>,
             Distinct(queue_tasks'), Distinct(queue_tasks_deferred'),
             Q' \cap D' = {}, Q' \cap active' = {}, D' \cap active' = {},
             cur'.id \notin Q' \cup D' \cup active',
             Q' \cup D' \cup active' \cup ({cur'.id} \ {0})
                \subseteq Q \cup D \cup active \cup ({cur.id} \ {0})
      PROVE  UniqueTask' /\ FreshInv'
  <2>1. UniqueTask' BY <1>7 DEF UniqueTask
  <2>2. Pending' \subseteq Pending BY <1>7 DEF Pending
  <2>3. QED BY <1>7, <2>1, <2>2, FewerPending
<1>8. CASE Fetch
  <2>1. UNCHANGED <<queue_tasks_deferred, active, id, task_id, http>> BY <1>8 DEF Fetch
  <2>2. D' = D BY <2>1 DEF IdsIn
  <2>3. CASE UNCHANGED <<queue_tasks, cur>>
    <3>1. http' = http BY <2>1
    <3>2. QED BY <2>1, <2>3, <3>1, SameIds
  <2>4. CASE queue_tasks # <<>> /\ cur' = Head(queue_tasks) /\ queue_tasks' = Tail(queue_tasks)
    <3>1. /\ Distinct(queue_tasks') /\ Q' = Q \ {cur'.id}
          /\ cur'.id # 0 => cur'.id \in Q
      BY <1>a, <1>b, <2>4, TailLemma, Zenon
    <3>2. Distinct(queue_tasks_deferred') BY <1>b, <2>1
    <3> HIDE DEF Q, D
    <3>3. /\ Q' \cap D' = {} /\ Q' \cap active' = {} /\ D' \cap active' = {}
          /\ cur'.id \notin Q' \cup D' \cup active'
      BY <1>a, <1>b, <1>c, <2>1, <2>2, <3>1
    <3>4. Q' \cup D' \cup active' \cup ({cur'.id} \ {0})
             \subseteq Q \cup D \cup active \cup ({cur.id} \ {0})
      BY <2>1, <2>2, <3>1
    <3>5. QED BY <1>7, <2>1, <3>1, <3>2, <3>3, <3>4
  <2>5. QED BY <1>8, <2>3, <2>4 DEF Fetch
<1>9. CASE TaskLaunch \/ TaskEnd
  <2>1. /\ UNCHANGED <<queue_tasks, queue_tasks_deferred, id, task_id, http>>
        /\ cur' = NoTask /\ active' \subseteq active \cup {cur.id}
        /\ active' # active => cur.id # 0
    BY <1>9 DEF TaskLaunch, TaskEnd, Task, TypeOK
  <2>2. Q' = Q /\ D' = D BY <2>1 DEF IdsIn
  <2>3. Distinct(queue_tasks') /\ Distinct(queue_tasks_deferred') BY <1>b, <2>1
  <2> HIDE DEF Q, D
  <2>4. 0 \notin active' BY <1>a, <2>1
  <2>5. /\ Q' \cap D' = {} /\ Q' \cap active' = {} /\ D' \cap active' = {}
        /\ cur'.id \notin Q' \cup D' \cup active'
    BY <1>b, <1>c, <1>d, <2>1, <2>2, <2>4
  <2>6. Q' \cup D' \cup active' \cup ({cur'.id} \ {0})
           \subseteq Q \cup D \cup active \cup ({cur.id} \ {0})
    BY <1>d, <2>1, <2>2
  <2>7. QED BY <1>7, <2>1, <2>3, <2>5, <2>6
<1>10. CASE TaskDefer
  <2>1. /\ UNCHANGED <<queue_tasks, active, id, task_id, http>> /\ cur' = NoTask
        /\ queue_tasks_deferred' = Push(queue_tasks_deferred, cur, FALSE)
    BY <1>10 DEF TaskDefer, defer, Push
  <2>2. Q' = Q BY <2>1 DEF IdsIn
  <2>3. D' = D \cup ({cur.id} \ {0}) /\ Distinct(queue_tasks_deferred')
    <3>1. /\ IdsIn(Push(queue_tasks_deferred, cur, FALSE)) = D \cup ({cur.id} \ {0})
          /\ Distinct(queue_tasks_deferred) /\ cur.id \notin D
               => Distinct(Push(queue_tasks_deferred, cur, FALSE))
      BY <1>a, PushIds, Zenon
    <3>2. QED BY <1>b, <2>1, <3>1
  <2>4. Distinct(queue_tasks') BY <1>b, <2>1
  <2> HIDE DEF Q, D
  <2>5. /\ Q' \cap D' = {} /\ Q' \cap active' = {} /\ D' \cap active' = {}
        /\ cur'.id \notin Q' \cup D' \cup active'
    BY <1>a, <1>b, <1>c, <1>d, <2>1, <2>2, <2>3
  <2>6. Q' \cup D' \cup active' \cup ({cur'.id} \ {0})
           \subseteq Q \cup D \cup active \cup ({cur.id} \ {0})
    BY <1>d, <2>1, <2>2, <2>3
  <2>7. QED BY <1>7, <2>1, <2>3, <2>4, <2>5, <2>6
<1>11. CASE TaskCancel \/ SlotRelease
  <2>1. PICK s \in Slots : pop_deferred_task(s) BY <1>11 DEF TaskCancel, SlotRelease
  <2>2. /\ Distinct(queue_tasks') /\ Distinct(queue_tasks_deferred')
        /\ Q' \cap D' = {} /\ Q' \cup D' = Q \cup D
    BY <2>1, PopStepLemma
  <2>3. /\ UNCHANGED <<id, task_id, http>> /\ active' \subseteq active
        /\ cur' = NoTask \/ cur' = cur
    BY <1>11 DEF TaskCancel, SlotRelease
  <2> HIDE DEF Q, D
  <2>4. /\ Q' \cap D' = {} /\ Q' \cap active' = {} /\ D' \cap active' = {}
        /\ cur'.id \notin Q' \cup D' \cup active'
    BY <1>a, <1>b, <1>c, <1>d, <2>2, <2>3
  <2>5. Q' \cup D' \cup active' \cup ({cur'.id} \ {0})
           \subseteq Q \cup D \cup active \cup ({cur.id} \ {0})
    BY <1>d, <2>2, <2>3
  <2>6. QED BY <1>7, <2>2, <2>3, <2>4, <2>5
<1>12. CASE UpdateBegin
  <2>1. UNCHANGED <<queue_tasks_deferred, cur, active, id, task_id, http>>
    BY <1>12 DEF UpdateBegin, post
  <2>2. CASE queue_tasks' = queue_tasks
    <3>1. http' = http BY <2>1
    <3>2. QED BY <2>1, <2>2, <3>1, SameIds
  <2>3. CASE queue_tasks' = Push(queue_tasks, NextResponseTask, FALSE)
    <3>1. NextResponseTask \in Task /\ NextResponseTask.id = 0
      BY DEF NextResponseTask, Task
    <3>2. /\ IdsIn(Push(queue_tasks, NextResponseTask, FALSE))
                = Q \cup ({NextResponseTask.id} \ {0})
          /\ Distinct(queue_tasks) /\ NextResponseTask.id \notin Q
               => Distinct(Push(queue_tasks, NextResponseTask, FALSE))
      BY <1>a, <3>1, PushIds, Zenon
    <3>3. Q' = Q /\ Distinct(queue_tasks')
      BY <1>b, <1>c, <2>3, <3>1, <3>2
    <3>4. D' = D /\ Distinct(queue_tasks_deferred') BY <1>b, <2>1 DEF IdsIn
    <3> HIDE DEF Q, D
    <3>5. QED BY <1>7, <1>b, <2>1, <3>3, <3>4
  <2>4. QED BY <1>12, <2>2, <2>3 DEF UpdateBegin, post
<1>13. QED
  BY <1>1, <1>2, <1>3, <1>4, <1>5, <1>6, <1>8, <1>9, <1>10, <1>11, <1>12
  DEF Next, MainStep, HttpStep

\* IndInv is an invariant of the queue.
THEOREM IndInvariant == Spec => []IndInv
<1>1. Init => IndInv BY InitInv
<1>2. IndInv /\ [Next]_vars => IndInv'
  BY TypeStep, WaitStep, SleepStep, TurnStep, UniqueStep DEF IndInv
<1>3. QED BY <1>1, <1>2, PTL DEF Spec

\* Every variable has its type in every reachable state.
THEOREM TypeCorrect == Spec => []TypeOK
<1>1. IndInv => TypeOK BY DEF IndInv
<1>2. QED BY <1>1, IndInvariant, PTL

\* No wake-up of start_loop is lost and no request that waited for the model
\* stays blocked once it is back.
THEOREM WakeupsCorrect == Spec => []NoLostWakeup
<1>1. IndInv => NoLostWakeup BY DEF IndInv, WaitInv
<1>2. QED BY <1>1, IndInvariant, PTL

\* The model is in memory whenever the callbacks of start_loop run: a task or
\* an update never meets an unloaded model, whoever posted it during the sleep.
THEOREM ModelCorrect == Spec => []CallbacksHaveModel
<1>1. IndInv => CallbacksHaveModel BY DEF IndInv, SleepInv, CallbacksHaveModel
<1>2. QED BY <1>1, IndInvariant, PTL

\* No slot is at work whenever the loop waits for tasks or the model is unloaded.
THEOREM RestCorrect == Spec => []NoRestWhileActive
<1>1. IndInv => NoRestWhileActive BY DEF IndInv, TurnInv
<1>2. QED BY <1>1, IndInvariant, PTL

\* A task is in one place at a time.
THEOREM TasksUnique == Spec => []UniqueTask
<1>1. IndInv => UniqueTask BY DEF IndInv
<1>2. QED BY <1>1, IndInvariant, PTL
=============================================================================
