---------------------------- MODULE ServerModels ----------------------------
(* tools/server/server-models.cpp: the router that runs every model in a   *)
(* child process.  Per instance there are a managing thread, which reads   *)
(* the child's output in a log thread, a stopping thread and the child.    *)
(* One action per critical section of mutex; a wait on cv or cv_stop is a  *)
(* guard, since every change of what is waited for is made under the mutex *)
(* and followed by notify_all.                                             *)
(*                                                                         *)
(* Left out: presets and arguments, ports, the proxied connection itself.  *)
(* The least recently used model is any active one: last_used is not kept. *)
EXTENDS Integers, FiniteSets

CONSTANTS
    Models,         \* the names in mapping
    Requests,       \* the HTTP threads
    NoModel,        \* no model chosen
    models_max,     \* --models-max, 0 for no limit
    MaxLoads,       \* bound: instances started
    MaxRequests     \* bound: requests that change something

ASSUME ModelsAssumption ==
    IsFiniteSet(Models) /\ NoModel \notin Models /\ models_max \in Nat
ASSUME BoundsAssumption == MaxLoads \in Nat /\ MaxRequests \in Nat

VARIABLES
    status,         \* meta.status of each model
    failed,         \* meta.exit_code is not 0
    stopping_models,
    child,          \* "none", "starting", "ready" or "dead"
    code,           \* the child's exit code is not 0
    announced,      \* CMD_CHILD_TO_ROUTER_READY is in the pipe
    told,           \* CMD_ROUTER_TO_CHILD_EXIT is in the pipe
    manage,         \* managing thread: "none", "log": joins the log thread,
                    \* "join": joins the stopping thread, "reap": updates the status
    stopper,        \* stopping thread: "none", "wait", "poll" or "done"
    pc,             \* where each request is
    model,          \* the model it asks for
    victim,         \* the model its unload_lru has chosen
    autoload,       \* it came through ensure_model_loaded, and waits for the model
    shutdown,       \* "no", "join" in unload_all, "done"
    loads, requests \* counters for the bounds

instance_vars == <<child, code, announced, told, manage, stopper>>
request_vars == <<pc, model, victim, autoload, requests>>
vars == <<status, failed, stopping_models, instance_vars, request_vars, shutdown, loads>>

Steps == {"idle", "ensure", "lru", "unload", "lru_wait", "load", "wait", "check", "proxy"}

TypeOK ==
    /\ status \in [Models -> {"unloaded", "loading", "loaded"}]
    /\ failed \in [Models -> BOOLEAN] /\ stopping_models \subseteq Models
    /\ child \in [Models -> {"none", "starting", "ready", "dead"}]
    /\ code \in [Models -> BOOLEAN] /\ announced \in [Models -> BOOLEAN]
    /\ told \in [Models -> BOOLEAN]
    /\ manage \in [Models -> {"none", "log", "join", "reap"}]
    /\ stopper \in [Models -> {"none", "wait", "poll", "done"}]
    /\ pc \in [Requests -> Steps] /\ model \in [Requests -> Models \cup {NoModel}]
    /\ victim \in [Requests -> Models \cup {NoModel}] /\ autoload \in [Requests -> BOOLEAN]
    /\ shutdown \in {"no", "join", "done"}
    /\ loads \in Nat /\ requests \in Nat

\* load_models has filled the mapping.
Init ==
    /\ status = [m \in Models |-> "unloaded"] /\ failed = [m \in Models |-> FALSE]
    /\ stopping_models = {}
    /\ child = [m \in Models |-> "none"] /\ code = [m \in Models |-> FALSE]
    /\ announced = [m \in Models |-> FALSE] /\ told = [m \in Models |-> FALSE]
    /\ manage = [m \in Models |-> "none"] /\ stopper = [m \in Models |-> "none"]
    /\ pc = [r \in Requests |-> "idle"] /\ model = [r \in Requests |-> NoModel]
    /\ victim = [r \in Requests |-> NoModel] /\ autoload = [r \in Requests |-> FALSE]
    /\ shutdown = "no" /\ loads = 0 /\ requests = 0

is_active(m) == status[m] \in {"loading", "loaded"}
is_failed(m) == status[m] = "unloaded" /\ failed[m]

Active == {m \in Models : is_active(m)}

----------------------------------------------------------------------------
(* The child process. *)

\* The model is loaded; setup_child_server announces it and listens to stdin.
ChildReady(m) ==
    /\ child[m] = "starting"
    /\ child' = [child EXCEPT ![m] = "ready"] /\ announced' = [announced EXCEPT ![m] = TRUE]
    /\ UNCHANGED <<status, failed, stopping_models, code, told, manage, stopper,
                   request_vars, shutdown, loads>>

\* The exit command is obeyed.
ChildExit(m) ==
    /\ child[m] = "ready" /\ told[m]
    /\ child' = [child EXCEPT ![m] = "dead"] /\ code' = [code EXCEPT ![m] = FALSE]
    /\ UNCHANGED <<status, failed, stopping_models, announced, told, manage, stopper,
                   request_vars, shutdown, loads>>

\* The child fails to load its model, or is killed later.  It ends with code 0
\* only before it serves, by an option of its preset that prints and exits: a
\* child that is ready and told by a signal to end joins the thread that
\* listens for the exit command.
ChildFail(m) ==
    /\ child[m] \in {"starting", "ready"}
    /\ child' = [child EXCEPT ![m] = "dead"]
    /\ \E c \in BOOLEAN : /\ child[m] = "ready" => c
                          /\ code' = [code EXCEPT ![m] = c]
    /\ UNCHANGED <<status, failed, stopping_models, announced, told, manage, stopper,
                   request_vars, shutdown, loads>>

----------------------------------------------------------------------------
(* The threads of an instance. *)

update_status(m, s, f) ==
    status' = [status EXCEPT ![m] = s] /\ failed' = [failed EXCEPT ![m] = f]

\* The log thread reads the announcement.
LogReady(m) ==
    /\ manage[m] = "log" /\ announced[m]
    /\ announced' = [announced EXCEPT ![m] = FALSE]
    /\ update_status(m, "loaded", FALSE)
    /\ UNCHANGED <<stopping_models, child, code, told, manage, stopper, request_vars,
                   shutdown, loads>>

\* The child has closed its output; the log thread is joined and the stopping
\* thread told.
LogEof(m) ==
    /\ manage[m] = "log" /\ child[m] = "dead" /\ ~announced[m]
    /\ stopping_models' = stopping_models \ {m}
    /\ manage' = [manage EXCEPT ![m] = "join"]
    /\ UNCHANGED <<status, failed, child, code, announced, told, stopper, request_vars,
                   shutdown, loads>>

\* Mutant of JoinStopper: the managing thread does not wait.
JoinStopper_detach(m) ==
    /\ manage[m] = "join"
    /\ manage' = [manage EXCEPT ![m] = "reap"]
    /\ UNCHANGED <<status, failed, stopping_models, child, code, announced, told, stopper,
                   request_vars, shutdown, loads>>

\* The stopping thread is joined.
JoinStopper(m) ==
    /\ manage[m] = "join" /\ stopper[m] = "done"
    /\ stopper' = [stopper EXCEPT ![m] = "none"] /\ manage' = [manage EXCEPT ![m] = "reap"]
    /\ UNCHANGED <<status, failed, stopping_models, child, code, announced, told,
                   request_vars, shutdown, loads>>

\* Mutant of Reap: the status is left to the stopping thread.
Reap_no_status(m) ==
    /\ manage[m] = "reap"
    /\ manage' = [manage EXCEPT ![m] = "none"] /\ child' = [child EXCEPT ![m] = "none"]
    /\ UNCHANGED <<status, failed, stopping_models, code, announced, told, stopper, request_vars,
                   shutdown, loads>>

\* The process is joined and destroyed, and the status updated.
Reap(m) ==
    /\ manage[m] = "reap"
    /\ manage' = [manage EXCEPT ![m] = "none"] /\ child' = [child EXCEPT ![m] = "none"]
    /\ update_status(m, "unloaded", code[m])
    /\ UNCHANGED <<stopping_models, code, announced, told, stopper, request_vars, shutdown, loads>>

\* The stopping thread finds its model in stopping_models and tells the child.
StopWake(m) ==
    /\ stopper[m] = "wait" /\ m \in stopping_models
    /\ stopper' = [stopper EXCEPT ![m] = "poll"] /\ told' = [told EXCEPT ![m] = TRUE]
    /\ UNCHANGED <<status, failed, stopping_models, child, code, announced, manage,
                   request_vars, shutdown, loads>>

StopDone(m) ==
    /\ stopper[m] = "poll" /\ m \notin stopping_models
    /\ stopper' = [stopper EXCEPT ![m] = "done"]
    /\ UNCHANGED <<status, failed, stopping_models, child, code, announced, told, manage,
                   request_vars, shutdown, loads>>

\* Mutant of StopTimeout: the thread gives up.
StopTimeout_no_kill(m) ==
    /\ stopper[m] = "poll" /\ m \in stopping_models
    /\ stopper' = [stopper EXCEPT ![m] = "done"]
    /\ UNCHANGED <<status, failed, stopping_models, child, code, announced, told, manage,
                   request_vars, shutdown, loads>>

\* stop_timeout has passed: the child is killed.
StopTimeout(m) ==
    /\ stopper[m] = "poll" /\ m \in stopping_models
    /\ stopper' = [stopper EXCEPT ![m] = "done"]
    /\ child' = [child EXCEPT ![m] = "dead"]
    /\ code' = [code EXCEPT ![m] = (child[m] = "dead" => @)]
    /\ UNCHANGED <<status, failed, stopping_models, announced, told, manage, request_vars,
                   shutdown, loads>>

----------------------------------------------------------------------------
(* The requests. *)

Goto(r, step) == pc' = [pc EXCEPT ![r] = step]

\* A request for a model: a proxied one with autoload, or POST /models/load,
\* which is refused for a loaded model.
Request(r, m, auto) ==
    /\ pc[r] = "idle" /\ shutdown = "no" /\ requests < MaxRequests
    /\ requests' = requests + 1
    /\ model' = [model EXCEPT ![r] = m] /\ autoload' = [autoload EXCEPT ![r] = auto]
    /\ IF auto THEN Goto(r, "ensure")
       ELSE status[m] # "loaded" /\ Goto(r, "lru")
    /\ UNCHANGED <<status, failed, stopping_models, instance_vars, victim, shutdown, loads>>

\* ensure_model_loaded looks at the status.
EnsureLoaded(r) ==
    /\ pc[r] = "ensure"
    /\ Goto(r, CASE status[model[r]] = "loaded"   -> "proxy"
                 [] status[model[r]] = "unloaded" -> "lru"
                 [] status[model[r]] = "loading"  -> "wait")
    /\ UNCHANGED <<status, failed, stopping_models, instance_vars, model, victim, autoload,
                   requests, shutdown, loads>>

\* unload_lru chooses a model when there are too many: the one used longest
\* ago, or none if all were used within this millisecond.
SelectLru(r) ==
    /\ pc[r] = "lru"
    /\ \/ /\ models_max > 0 /\ Cardinality(Active) >= models_max
          /\ \E m \in Active : victim' = [victim EXCEPT ![r] = m]
          /\ Goto(r, "unload")
       \/ Goto(r, "load") /\ UNCHANGED victim
    /\ UNCHANGED <<status, failed, stopping_models, instance_vars, model, autoload, requests,
                   shutdown, loads>>

\* unload(name): a model that is not active any more is left alone.
unload(m) == stopping_models' = stopping_models \cup {n \in {m} : is_active(n)}

UnloadLru(r) ==
    /\ pc[r] = "unload"
    /\ unload(victim[r])
    /\ Goto(r, "lru_wait")
    /\ UNCHANGED <<status, failed, instance_vars, model, victim, autoload, requests, shutdown,
                   loads>>

LruUnloaded(r) ==
    /\ pc[r] = "lru_wait" /\ status[victim[r]] = "unloaded"
    /\ Goto(r, "load") /\ victim' = [victim EXCEPT ![r] = NoModel]
    /\ UNCHANGED <<status, failed, stopping_models, instance_vars, model, autoload, requests,
                   shutdown, loads>>

\* Where load() returns to.
AfterLoad(r) == Goto(r, IF autoload[r] THEN "wait" ELSE "idle")

\* load() of a model that somebody else is loading already.
LoadNotReady(r) ==
    /\ pc[r] = "load" /\ status[model[r]] # "unloaded"
    /\ AfterLoad(r)
    /\ UNCHANGED <<status, failed, stopping_models, instance_vars, model, victim, autoload,
                   requests, shutdown, loads>>

\* Mutant of Load: the status is not tested again under the mutex.
Load_unchecked(r) ==
    LET m == model[r] IN
    /\ pc[r] = "load" /\ loads < MaxLoads
    /\ loads' = loads + 1
    /\ status' = [status EXCEPT ![m] = "loading"]
    /\ child' = [child EXCEPT ![m] = "starting"]
    /\ announced' = [announced EXCEPT ![m] = FALSE] /\ told' = [told EXCEPT ![m] = FALSE]
    /\ manage' = [manage EXCEPT ![m] = "log"] /\ stopper' = [stopper EXCEPT ![m] = "wait"]
    /\ AfterLoad(r)
    /\ UNCHANGED <<failed, stopping_models, code, model, victim, autoload, requests, shutdown>>

\* load(): a child and its threads are started.  The threads of the previous
\* instance have ended but for their last log line.
Load(r) ==
    LET m == model[r] IN
    /\ pc[r] = "load" /\ status[m] = "unloaded" /\ loads < MaxLoads
    /\ loads' = loads + 1
    /\ status' = [status EXCEPT ![m] = "loading"]
    /\ child' = [child EXCEPT ![m] = "starting"]
    /\ announced' = [announced EXCEPT ![m] = FALSE] /\ told' = [told EXCEPT ![m] = FALSE]
    /\ manage' = [manage EXCEPT ![m] = "log"] /\ stopper' = [stopper EXCEPT ![m] = "wait"]
    /\ AfterLoad(r)
    /\ UNCHANGED <<failed, stopping_models, code, model, victim, autoload, requests, shutdown>>

\* No port, or the child could not be spawned: load() throws.
LoadFails(r) ==
    /\ pc[r] = "load" /\ status[model[r]] = "unloaded"
    /\ Goto(r, "idle")
    /\ UNCHANGED <<status, failed, stopping_models, instance_vars, model, victim, autoload,
                   requests, shutdown, loads>>

\* wait_until_loaded.
WaitLoaded(r) ==
    /\ pc[r] = "wait" /\ status[model[r]] # "loading"
    /\ Goto(r, "check")
    /\ UNCHANGED <<status, failed, stopping_models, instance_vars, model, victim, autoload,
                   requests, shutdown, loads>>

\* ensure_model_loaded throws if the load has failed.
CheckLoaded(r) ==
    /\ pc[r] = "check"
    /\ Goto(r, IF is_failed(model[r]) THEN "idle" ELSE "proxy")
    /\ UNCHANGED <<status, failed, stopping_models, instance_vars, model, victim, autoload,
                   requests, shutdown, loads>>

\* proxy_request, which throws if the model is not loaded.
ProxyRequest(r) ==
    /\ pc[r] = "proxy"
    /\ Goto(r, "idle")
    /\ UNCHANGED <<status, failed, stopping_models, instance_vars, model, victim, autoload,
                   requests, shutdown, loads>>

\* POST /models/unload.
UnloadRequest(r, m) ==
    /\ pc[r] = "idle" /\ shutdown = "no" /\ requests < MaxRequests
    /\ is_active(m) /\ unload(m) /\ requests' = requests + 1
    /\ UNCHANGED <<status, failed, instance_vars, pc, model, victim, autoload, shutdown, loads>>

----------------------------------------------------------------------------
(* The main thread, once the HTTP server has stopped and its threads ended. *)

\* Mutant of UnloadAll: models that are still loading are forgotten.
UnloadAll_loaded ==
    /\ shutdown = "no" /\ \A r \in Requests : pc[r] = "idle"
    /\ shutdown' = "join"
    /\ stopping_models' = stopping_models \cup {m \in Models : status[m] = "loaded"}
    /\ UNCHANGED <<status, failed, instance_vars, request_vars, loads>>

\* unload_all.
UnloadAll ==
    /\ shutdown = "no" /\ \A r \in Requests : pc[r] = "idle"
    /\ shutdown' = "join" /\ stopping_models' = stopping_models \cup Active
    /\ UNCHANGED <<status, failed, instance_vars, request_vars, loads>>

JoinAll ==
    /\ shutdown = "join" /\ \A m \in Models : manage[m] = "none"
    /\ shutdown' = "done"
    /\ UNCHANGED <<status, failed, stopping_models, instance_vars, request_vars, loads>>

----------------------------------------------------------------------------
InstanceStep(m) ==
    \/ LogReady(m) \/ LogEof(m) \/ JoinStopper(m) \/ Reap(m)
StopperStep(m) == StopWake(m) \/ StopDone(m) \/ StopTimeout(m)
ChildStep(m) == ChildReady(m) \/ ChildExit(m)
RequestStep(r) ==
    \/ EnsureLoaded(r) \/ SelectLru(r) \/ UnloadLru(r) \/ LruUnloaded(r) \/ LoadNotReady(r)
    \/ Load(r) \/ LoadFails(r) \/ WaitLoaded(r) \/ CheckLoaded(r) \/ ProxyRequest(r)

Next ==
    \/ \E m \in Models : InstanceStep(m) \/ StopperStep(m) \/ ChildStep(m) \/ ChildFail(m)
    \/ \E r \in Requests :
          \/ RequestStep(r)
          \/ \E m \in Models : UnloadRequest(r, m) \/ \E auto \in BOOLEAN : Request(r, m, auto)
    \/ UnloadAll \/ JoinAll

Spec == Init /\ [][Next]_vars

\* The threads are scheduled, stop_timeout passes, and a child that does not
\* fail becomes ready.  A child need not obey, clients need not come.
FairSpec ==
    /\ Spec
    /\ \A m \in Models : /\ WF_vars(InstanceStep(m)) /\ WF_vars(StopperStep(m))
                         /\ WF_vars(ChildReady(m))
    /\ \A r \in Requests : WF_vars(RequestStep(r))
    /\ WF_vars(JoinAll)

----------------------------------------------------------------------------
(* Properties. *)

\* An unloaded model has no process and no thread: load() can start another
\* ("old process should have exited already", server-models.cpp).
UnloadedIsDown ==
    \A m \in Models : status[m] = "unloaded" =>
        child[m] = "none" /\ manage[m] = "none" /\ stopper[m] = "none"

\* The state diagram of server-models.h: a late announcement of a child, or
\* the end of an instance, never overwrites the status of the next one.
StateDiagram ==
    [][\A m \in Models : status'[m] # status[m] =>
         <<status[m], status'[m]>> \in {<<"unloaded", "loading">>, <<"loading", "loaded">>,
                                        <<"loading", "unloaded">>, <<"loaded", "unloaded">>}]_vars

\* The child has ended although nobody asked it to, or before its stopping
\* thread saw that somebody did: that thread waits for ever, and the managing
\* thread waits for it.
Orphaned(m) ==
    manage[m] = "join" /\ stopper[m] = "wait" /\ m \notin stopping_models

\* The router ends with no child left behind, unless one is orphaned.
ShutdownEnds ==
    (shutdown = "join") ~> (shutdown = "done" \/ \E m \in Models : Orphaned(m))

\* wait_until_loaded returns, unless the child has failed.
WaitEndsUnlessOrphaned ==
    \A r \in Requests : (pc[r] = "wait") ~> (pc[r] # "wait" \/ Orphaned(model[r]))

\* unload_lru goes on when its victim is unloaded, unless the victim is
\* orphaned, or somebody loads it again before the waiting thread runs.
LruWaitEndsUnlessReloaded ==
    \A r \in Requests : (pc[r] = "lru_wait") ~>
        \/ pc[r] # "lru_wait" \/ Orphaned(victim[r])
        \/ manage[victim[r]] = "log" /\ victim[r] \notin stopping_models

\* wait_until_loaded returns when the model is loaded or failed to load.
WaitEnds == \A r \in Requests : (pc[r] = "wait") ~> (pc[r] # "wait")
=============================================================================
