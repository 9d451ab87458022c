------------------------- MODULE ServerModelsProofs -------------------------
(* Proofs about ServerModels, for any models, requests and limit. *)
EXTENDS ServerModels, TLAPS

\* What an instance looks like at each step of its managing thread, and when
\* an announcement can still be in the pipe.
InstanceInv(m) ==
    /\ status[m] = "unloaded" <=> manage[m] = "none"
    /\ manage[m] = "none" => child[m] = "none"
    /\ manage[m] \in {"none", "reap"} <=> stopper[m] = "none"
    /\ manage[m] \in {"join", "reap"} => child[m] = "dead"
    /\ child[m] = "none" => manage[m] = "none"
    /\ child[m] = "starting" => status[m] = "loading" /\ ~announced[m]
    /\ announced[m] => status[m] = "loading" /\ manage[m] = "log"

\* A request that is under way has a model, and a victim while it needs one.
RequestInv(r) ==
    /\ pc[r] # "idle" => model[r] \in Models
    /\ pc[r] \in {"unload", "lru_wait"} => victim[r] \in Models

IInv ==
    /\ TypeOK
    /\ \A m \in Models : InstanceInv(m)
    /\ \A r \in Requests : RequestInv(r)

\* One transition of the state diagram.
Diagram(m) ==
    status'[m] # status[m] =>
        <<status[m], status'[m]>> \in {<<"unloaded", "loading">>, <<"loading", "loaded">>,
                                       <<"loading", "unloaded">>, <<"loaded", "unloaded">>}

\* A step of the threads or the child of one model changes that model only.
Local(m) ==
    /\ \A n \in Models \ {m} :
          /\ status'[n] = status[n] /\ child'[n] = child[n] /\ manage'[n] = manage[n]
          /\ stopper'[n] = stopper[n] /\ announced'[n] = announced[n]
    /\ InstanceInv(m)' /\ Diagram(m)

----------------------------------------------------------------------------
\* The invariant and the diagram follow when a step changes one model only.
LEMMA LocalStep ==
    ASSUME IInv, NEW m \in Models, Local(m), TypeOK', \A r \in Requests : RequestInv(r)'
    PROVE  IInv' /\ \A n \in Models : Diagram(n)
<1>1. \A n \in Models \ {m} : InstanceInv(n)' /\ Diagram(n)
  BY DEF IInv, Local, InstanceInv, Diagram
<1>2. QED BY <1>1 DEF IInv, Local

\* The same when it changes none.
LEMMA OtherStep ==
    ASSUME IInv, UNCHANGED <<status, child, announced, manage, stopper>>, TypeOK',
           \A r \in Requests : RequestInv(r)'
    PROVE  IInv' /\ \A n \in Models : Diagram(n)
BY DEF IInv, InstanceInv, Diagram

\* A router without instances.
LEMMA InitInv == Init => IInv
BY ModelsAssumption DEF Init, IInv, TypeOK, InstanceInv, RequestInv, Steps

\* The child and the threads of an instance.
LEMMA InstanceSteps ==
    ASSUME IInv, NEW m \in Models, InstanceStep(m) \/ StopperStep(m) \/ ChildStep(m) \/ ChildFail(m)
    PROVE  IInv' /\ \A n \in Models : Diagram(n)
<1> USE DEF IInv
<1> InstanceInv(m) OBVIOUS
<1>0. \A r \in Requests : RequestInv(r)'
  BY DEF RequestInv, InstanceStep, StopperStep, ChildStep, ChildFail, ChildReady, ChildExit,
         LogReady, LogEof, JoinStopper, Reap, StopWake, StopDone, StopTimeout, request_vars
<1>1. CASE ChildReady(m)
  <2>1. TypeOK' BY <1>1 DEF TypeOK, ChildReady, request_vars
  <2>2. Local(m) BY <1>1 DEF TypeOK, ChildReady, Local, InstanceInv, Diagram
  <2>3. QED BY <1>0, <2>1, <2>2, LocalStep
<1>2. CASE ChildExit(m)
  <2>1. TypeOK' BY <1>2 DEF TypeOK, ChildExit, request_vars
  <2>2. Local(m) BY <1>2 DEF TypeOK, ChildExit, Local, InstanceInv, Diagram
  <2>3. QED BY <1>0, <2>1, <2>2, LocalStep
<1>3. CASE ChildFail(m)
  <2>1. TypeOK' BY <1>3 DEF TypeOK, ChildFail, request_vars
  <2>2. Local(m) BY <1>3 DEF TypeOK, ChildFail, Local, InstanceInv, Diagram
  <2>3. QED BY <1>0, <2>1, <2>2, LocalStep
<1>4. CASE LogReady(m)
  <2>1. TypeOK' BY <1>4 DEF TypeOK, LogReady, update_status, request_vars
  <2>2. Local(m) BY <1>4 DEF TypeOK, LogReady, update_status, Local, InstanceInv, Diagram
  <2>3. QED BY <1>0, <2>1, <2>2, LocalStep
<1>5. CASE LogEof(m)
  <2>1. TypeOK' BY <1>5 DEF TypeOK, LogEof, request_vars
  <2>2. Local(m) BY <1>5 DEF TypeOK, LogEof, Local, InstanceInv, Diagram
  <2>3. QED BY <1>0, <2>1, <2>2, LocalStep
<1>6. CASE JoinStopper(m)
  <2>1. TypeOK' BY <1>6 DEF TypeOK, JoinStopper, request_vars
  <2>2. Local(m) BY <1>6 DEF TypeOK, JoinStopper, Local, InstanceInv, Diagram
  <2>3. QED BY <1>0, <2>1, <2>2, LocalStep
<1>7. CASE Reap(m)
  <2>1. TypeOK' BY <1>7 DEF TypeOK, Reap, update_status, request_vars
  <2>2. Local(m) BY <1>7 DEF TypeOK, Reap, update_status, Local, InstanceInv, Diagram
  <2>3. QED BY <1>0, <2>1, <2>2, LocalStep
<1>8. CASE StopWake(m)
  <2>1. TypeOK' BY <1>8 DEF TypeOK, StopWake, request_vars
  <2>2. Local(m) BY <1>8 DEF TypeOK, StopWake, Local, InstanceInv, Diagram
  <2>3. QED BY <1>0, <2>1, <2>2, LocalStep
<1>9. CASE StopDone(m)
  <2>1. TypeOK' BY <1>9 DEF TypeOK, StopDone, request_vars
  <2>2. Local(m) BY <1>9 DEF TypeOK, StopDone, Local, InstanceInv, Diagram
  <2>3. QED BY <1>0, <2>1, <2>2, LocalStep
<1>10. CASE StopTimeout(m)
  <2>1. TypeOK' BY <1>10 DEF TypeOK, StopTimeout, request_vars
  <2>2. Local(m) BY <1>10 DEF TypeOK, StopTimeout, Local, InstanceInv, Diagram
  <2>3. QED BY <1>0, <2>1, <2>2, LocalStep
<1>11. QED
  BY <1>1, <1>2, <1>3, <1>4, <1>5, <1>6, <1>7, <1>8, <1>9, <1>10
  DEF InstanceStep, StopperStep, ChildStep

\* load() starts an instance of a model that has none.
LEMMA LoadStep ==
    ASSUME IInv, NEW r \in Requests, Load(r)
    PROVE  IInv' /\ \A n \in Models : Diagram(n)
<1> DEFINE m == model[r]
<1>1. m \in Models /\ status[m] = "unloaded"
  BY DEF IInv, RequestInv, Load
<1>2. TypeOK' BY <1>1 DEF IInv, TypeOK, Load, AfterLoad, Goto, Steps
<1>3. Local(m) BY <1>1 DEF IInv, TypeOK, Load, Local, InstanceInv, Diagram
<1>4. \A q \in Requests : RequestInv(q)'
  BY DEF IInv, TypeOK, RequestInv, Load, AfterLoad, Goto
<1>5. QED BY <1>1, <1>2, <1>3, <1>4, LocalStep

\* The other steps of a request.
LEMMA RequestSteps ==
    ASSUME IInv, NEW r \in Requests, RequestStep(r) \/ \E m \in Models :
                     UnloadRequest(r, m) \/ \E auto \in BOOLEAN : Request(r, m, auto)
    PROVE  IInv' /\ \A n \in Models : Diagram(n)
<1> USE DEF IInv
<1> RequestInv(r) OBVIOUS
<1>1. CASE EnsureLoaded(r)
  <2>0. model[r] \in Models /\ status[model[r]] \in {"unloaded", "loading", "loaded"}
    BY <1>1 DEF TypeOK, RequestInv, EnsureLoaded
  <2>1. TypeOK' BY <1>1, <2>0 DEF TypeOK, EnsureLoaded, Goto, Steps, instance_vars
  <2>2. \A q \in Requests : RequestInv(q)' BY <1>1 DEF TypeOK, RequestInv, EnsureLoaded, Goto
  <2>3. QED BY <1>1, <2>1, <2>2, OtherStep DEF EnsureLoaded, instance_vars
<1>2. CASE SelectLru(r)
  <2>1. TypeOK' BY <1>2 DEF TypeOK, SelectLru, Goto, Steps, Active, instance_vars
  <2>2. \A q \in Requests : RequestInv(q)'
    BY <1>2 DEF TypeOK, RequestInv, SelectLru, Active, Goto
  <2>3. QED BY <1>2, <2>1, <2>2, OtherStep DEF SelectLru, instance_vars
<1>3. CASE UnloadLru(r)
  <2>0. victim[r] \in Models BY <1>3 DEF RequestInv, UnloadLru
  <2>1. TypeOK' BY <1>3, <2>0 DEF TypeOK, UnloadLru, unload, Goto, Steps, instance_vars
  <2>2. \A q \in Requests : RequestInv(q)' BY <1>3 DEF TypeOK, RequestInv, UnloadLru, Goto
  <2>3. QED BY <1>3, <2>1, <2>2, OtherStep DEF UnloadLru, instance_vars
<1>4. CASE LruUnloaded(r)
  <2>1. TypeOK' BY <1>4 DEF TypeOK, LruUnloaded, Goto, Steps, instance_vars
  <2>2. \A q \in Requests : RequestInv(q)' BY <1>4 DEF TypeOK, RequestInv, LruUnloaded, Goto
  <2>3. QED BY <1>4, <2>1, <2>2, OtherStep DEF LruUnloaded, instance_vars
<1>5. CASE LoadNotReady(r)
  <2>1. TypeOK' BY <1>5 DEF TypeOK, LoadNotReady, AfterLoad, Goto, Steps, instance_vars
  <2>2. \A q \in Requests : RequestInv(q)'
    BY <1>5 DEF TypeOK, RequestInv, LoadNotReady, AfterLoad, Goto
  <2>3. QED BY <1>5, <2>1, <2>2, OtherStep DEF LoadNotReady, instance_vars
<1>6. CASE LoadFails(r)
  <2>1. TypeOK' BY <1>6 DEF TypeOK, LoadFails, Goto, Steps, instance_vars
  <2>2. \A q \in Requests : RequestInv(q)' BY <1>6 DEF TypeOK, RequestInv, LoadFails, Goto
  <2>3. QED BY <1>6, <2>1, <2>2, OtherStep DEF LoadFails, instance_vars
<1>7. CASE WaitLoaded(r)
  <2>1. TypeOK' BY <1>7 DEF TypeOK, WaitLoaded, Goto, Steps, instance_vars
  <2>2. \A q \in Requests : RequestInv(q)' BY <1>7 DEF TypeOK, RequestInv, WaitLoaded, Goto
  <2>3. QED BY <1>7, <2>1, <2>2, OtherStep DEF WaitLoaded, instance_vars
<1>8. CASE CheckLoaded(r)
  <2>1. TypeOK' BY <1>8 DEF TypeOK, CheckLoaded, Goto, Steps, instance_vars
  <2>2. \A q \in Requests : RequestInv(q)' BY <1>8 DEF TypeOK, RequestInv, CheckLoaded, Goto
  <2>3. QED BY <1>8, <2>1, <2>2, OtherStep DEF CheckLoaded, instance_vars
<1>9. CASE ProxyRequest(r)
  <2>1. TypeOK' BY <1>9 DEF TypeOK, ProxyRequest, Goto, Steps, instance_vars
  <2>2. \A q \in Requests : RequestInv(q)' BY <1>9 DEF TypeOK, RequestInv, ProxyRequest, Goto
  <2>3. QED BY <1>9, <2>1, <2>2, OtherStep DEF ProxyRequest, instance_vars
<1>10. ASSUME NEW m \in Models, UnloadRequest(r, m) PROVE IInv' /\ \A n \in Models : Diagram(n)
  <2>1. TypeOK' BY <1>10 DEF TypeOK, UnloadRequest, unload, instance_vars
  <2>2. \A q \in Requests : RequestInv(q)' BY <1>10 DEF RequestInv, UnloadRequest
  <2>3. QED BY <1>10, <2>1, <2>2, OtherStep DEF UnloadRequest, instance_vars
<1>11. ASSUME NEW m \in Models, NEW auto \in BOOLEAN, Request(r, m, auto)
       PROVE  IInv' /\ \A n \in Models : Diagram(n)
  <2>1. TypeOK' BY <1>11 DEF TypeOK, Request, Goto, Steps, instance_vars
  <2>2. \A q \in Requests : RequestInv(q)' BY <1>11 DEF TypeOK, RequestInv, Request, Goto
  <2>3. QED BY <1>11, <2>1, <2>2, OtherStep DEF Request, instance_vars
<1>12. QED
  BY <1>1, <1>2, <1>3, <1>4, <1>5, <1>6, <1>7, <1>8, <1>9, <1>10, <1>11, LoadStep DEF RequestStep

\* Every step preserves the invariant and follows the diagram.
LEMMA NextInv == IInv /\ [Next]_vars => IInv' /\ \A n \in Models : Diagram(n)
<1> SUFFICES ASSUME IInv, [Next]_vars PROVE IInv' /\ \A n \in Models : Diagram(n) OBVIOUS
<1>1. CASE UnloadAll \/ JoinAll \/ UNCHANGED vars
  <2>1. TypeOK'
    BY <1>1 DEF IInv, TypeOK, UnloadAll, JoinAll, Active, vars, instance_vars, request_vars
  <2>2. \A q \in Requests : RequestInv(q)'
    BY <1>1 DEF IInv, RequestInv, UnloadAll, JoinAll, vars, request_vars
  <2>3. UNCHANGED <<status, child, announced, manage, stopper>>
    BY <1>1 DEF UnloadAll, JoinAll, vars, instance_vars
  <2>4. QED BY <2>1, <2>2, <2>3, OtherStep
<1>2. ASSUME NEW m \in Models, InstanceStep(m) \/ StopperStep(m) \/ ChildStep(m) \/ ChildFail(m)
      PROVE  IInv' /\ \A n \in Models : Diagram(n)
  BY <1>2, InstanceSteps
<1>3. ASSUME NEW r \in Requests, RequestStep(r) \/ \E m \in Models :
                 UnloadRequest(r, m) \/ \E auto \in BOOLEAN : Request(r, m, auto)
      PROVE  IInv' /\ \A n \in Models : Diagram(n)
  BY <1>3, RequestSteps
<1>4. QED BY <1>1, <1>2, <1>3 DEF Next

----------------------------------------------------------------------------
(* The theorems. *)

\* The inductive invariant holds in every state of the router.
THEOREM IndInvariant == Spec => []IInv
<1>1. QED BY InitInv, NextInv, PTL DEF Spec

\* The type invariant of the router, its threads and its requests.
THEOREM TypeCorrect == Spec => []TypeOK
<1>1. IInv => TypeOK BY DEF IInv
<1>2. QED BY <1>1, IndInvariant, PTL

\* A model that is unloaded has neither a process nor a thread.
THEOREM UnloadedCorrect == Spec => []UnloadedIsDown
<1>1. IInv => UnloadedIsDown BY DEF IInv, InstanceInv, UnloadedIsDown
<1>2. QED BY <1>1, IndInvariant, PTL

\* The status of a model follows the diagram of server-models.h.
THEOREM DiagramCorrect == Spec => StateDiagram
<1>1. IInv /\ [Next]_vars =>
        [\A m \in Models : status'[m] # status[m] =>
            <<status[m], status'[m]>> \in {<<"unloaded", "loading">>, <<"loading", "loaded">>,
                                           <<"loading", "unloaded">>, <<"loaded", "unloaded">>}]_vars
  BY NextInv DEF Diagram
<1>2. QED BY <1>1, IndInvariant, PTL DEF Spec, StateDiagram
=============================================================================
