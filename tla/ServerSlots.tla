---------------------------- MODULE ServerSlots ----------------------------
(***************************************************************************)
(* The slots of server_context (tools/server/server-context.cpp) and the   *)
(* two callbacks of the main loop that work on them: process_single_task,  *)
(* which launches, defers or cancels a task, and update_slots, which fills *)
(* one batch from all slots, decodes it in chunks and samples.             *)
(*                                                                         *)
(* update_slots runs on the main thread; other threads see it only through *)
(* the task queue, which it touches when a slot is released.  Its loops    *)
(* over the slots that may release one are therefore one action per slot   *)
(* (`main` says which loop, `k` which slot), and what lies between two     *)
(* such points is one action.                                              *)
(*                                                                         *)
(* A request is one task, or a parent with the children that share its     *)
(* prompt (n_cmpl > 1) and travel inside it until it is launched.  Its     *)
(* reader (ServerResponse) is reduced to what comes back to the queue:     *)
(* after an error, or when the client goes, it cancels all its tasks.      *)
(*                                                                         *)
(* Tokens are counted, not named.  For each slot, prompt is the number of  *)
(* tokens the server believes to be in the context (slot.prompt.tokens),   *)
(* kv the number of cells llama_decode has really filled for its sequence. *)
(* How much of a cached prompt a new one shares is any number.             *)
(*                                                                         *)
(* Left out: the wake-ups of the loop and NEXT_RESPONSE (ServerQueue),     *)
(* lora adapters, images, speculative drafts, context checkpoints, partial *)
(* results; context shift is disabled (--no-context-shift), so that the    *)
(* length of a generation is bounded by NCtx.                              *)
(***************************************************************************)
EXTENDS TaskQueue, FiniteSets

CONSTANTS
    NSlots,         \* --parallel
    Req,            \* requests: id -> [type, n_tokens, id_slot, children]
    Bad,            \* requests that launch_slot_with_task rejects
    Leaving,        \* requests whose client may go away
    NBatch,         \* llama_n_batch
    NUbatch,        \* llama_n_ubatch
    NCtx,           \* context size of a slot
    CacheSizes,     \* lengths of the prompts in the prompt cache and slot files
    KvUnified,      \* --kv-unified
    Faults          \* what llama_decode may report: "kv", "compute"

Slots    == 0..(NSlots - 1)
Requests == DOMAIN Req
\* The ids of the tasks of a request.
IdsOf(g) == {g} \cup ToSet(Req[g].children)
Ids      == UNION {IdsOf(g) : g \in Requests}

Generating == {"COMPLETION", "INFILL"}
Embedding  == {"EMBEDDING", "RERANK"}
SlotAction == {"SLOT_SAVE", "SLOT_RESTORE", "SLOT_ERASE"}

ASSUME ReqAssumption ==
    /\ Requests \subseteq Nat \ {0}
    /\ \A g \in Requests :
          /\ Req[g].type \in Generating \cup Embedding \cup SlotAction
          /\ Req[g].n_tokens \in Nat
          /\ Req[g].id_slot \in Nat \cup {NoSlot}
          /\ Req[g].children \in Seq(Nat \ {0})
          /\ Len(Req[g].children) < NSlots
          /\ IsInjective(Req[g].children) /\ g \notin ToSet(Req[g].children)
          /\ Req[g].children # <<>> => Req[g].type \in Generating
    /\ \A g, h \in Requests : g # h => IdsOf(g) \cap IdsOf(h) = {}
ASSUME SizesAssumption ==
    /\ NSlots \in Nat \ {0} /\ NBatch \in Nat \ {0} /\ NCtx \in Nat
    /\ NUbatch \in 1..NBatch
    /\ CacheSizes \subseteq 1..NCtx
    /\ KvUnified \in BOOLEAN /\ Faults \subseteq {"kv", "compute"}
    /\ Bad \subseteq Requests /\ Leaving \subseteq Requests

VARIABLES
    queue_tasks,
    queue_tasks_deferred,
    cur,            \* the task process_single_task works on
    main,           \* where the main thread is
    k,              \* the slot its loop is at
    state,          \* slot.state
    task,           \* slot.task->id, 0 if the slot has no task
    prompt,         \* slot.prompt.n_tokens()
    kv,             \* cells of the slot's sequence in the KV cache
    i_batch,        \* index in the batch of the token whose logits are sampled
    batch,          \* the slot of each token of the batch
    slot_batched,   \* the slot that decides what can be batched, or NoSlot
    i,              \* start of the chunk to decode
    i_next,         \* start of the next one
    n_batch,        \* size of a chunk, halved when the KV cache is full
    reader,         \* reader of each request
    answer          \* history: last result of each task

queue_vars == <<queue_tasks, queue_tasks_deferred>>
slot_vars  == <<state, task, prompt, kv, i_batch>>
batch_vars == <<batch, slot_batched, i, i_next, n_batch>>
vars == <<queue_vars, cur, main, k, slot_vars, batch_vars, reader, answer>>

SlotStates == {"IDLE", "WAIT_OTHER", "STARTED", "PROCESSING_PROMPT", "DONE_PROMPT",
               "GENERATING"}
NoTask == NextResponseTask

\* A slot action names its slot in slot_action; its id_slot stays -1.
RequestTask(g) ==
    UserTask(g, Req[g].type, IF Req[g].type \in SlotAction THEN NoSlot ELSE Req[g].id_slot)

RequestTasks == {RequestTask(g) : g \in Requests}
CancelTasks  == {CancelTask(j) : j \in Ids}

TypeOK ==
    /\ queue_tasks \in Seq(RequestTasks \cup CancelTasks)
    /\ queue_tasks_deferred \in Seq(RequestTasks)
    /\ cur \in RequestTasks \cup CancelTasks \cup {NoTask}
    /\ main \in {"fetch", "task", "batch", "decode", "sample", "error"}
    /\ k \in Slots
    /\ state \in [Slots -> SlotStates]
    /\ task \in [Slots -> Ids \cup {0}]
    /\ \A s \in Slots : state[s] = "IDLE" <=> task[s] = 0
    /\ prompt \in [Slots -> 0..NCtx] /\ kv \in [Slots -> 0..NCtx]
    /\ i_batch \in [Slots -> -1..(NBatch + NSlots)]
    /\ batch \in Seq(Slots) /\ Len(batch) <= NBatch + NSlots
    /\ slot_batched \in Slots \cup {NoSlot}
    /\ i \in 0..Len(batch) /\ i_next \in 0..Len(batch) /\ n_batch \in 1..NBatch
    /\ reader \in [Requests -> {"new", "posted", "done"}]
    /\ answer \in [Ids -> {"none", "final", "error", "twice"}]

Init ==
    /\ queue_tasks = <<>> /\ queue_tasks_deferred = <<>>
    /\ cur = NoTask /\ main = "fetch" /\ k = 0
    /\ state = [s \in Slots |-> "IDLE"] /\ task = [s \in Slots |-> 0]
    /\ prompt = [s \in Slots |-> 0] /\ kv = [s \in Slots |-> 0]
    /\ i_batch = [s \in Slots |-> -1]
    /\ batch = <<>> /\ slot_batched = NoSlot
    /\ i = 0 /\ i_next = 0 /\ n_batch = NBatch
    /\ reader = [g \in Requests |-> "new"]
    /\ answer = [j \in Ids |-> "none"]

----------------------------------------------------------------------------
(* Tasks and slots. *)

RequestOf(j) == CHOOSE g \in Requests : j \in IdsOf(g)
IsChild(j)   == j \notin Requests
TypeOf(s)    == Req[RequestOf(task[s])].type
NTokens(s)   == Req[RequestOf(task[s])].n_tokens

is_processing(s) == state[s] # "IDLE"
Idle == {s \in Slots : ~is_processing(s)}
can_batch_with(s, t) == TypeOf(s) = TypeOf(t)

\* The slots of S in the order of the loops over them: the one sequence that
\* is in this set.
InOrder(S) ==
    {f \in [1..Cardinality(S) -> S] : \A m, n \in DOMAIN f : m < n => f[m] < f[n]}

\* server_response::send of a last result.
Answer(j, kind) ==
    answer' = [answer EXCEPT ![j] = IF @ = "none" THEN kind ELSE "twice"]

\* Mutant of pop_deferred_task: nothing is moved.
pop_nothing(s) == UNCHANGED queue_vars

\* server_queue::pop_deferred_task
pop_deferred_task(s) ==
    /\ queue_tasks' = PopToFront(queue_tasks, queue_tasks_deferred, s)
    /\ queue_tasks_deferred' = PopRest(queue_tasks_deferred, s)

\* Mutant of Cleared: only the slots of children.
Cleared_children(s, clear) == IsChild(task[s])

\* prompt_clear follows the release of a child or, after a failed decode, of
\* any task.
Cleared(s, clear) == clear \/ IsChild(task[s])

\* Mutant of release: the slot keeps its task.
release_keeps_task(s, clear) ==
    /\ state' = [state EXCEPT ![s] = "IDLE"]
    /\ UNCHANGED <<task, prompt, kv>>
    /\ pop_deferred_task(s)

\* server_slot::release
release(s, clear) ==
    /\ state' = [state EXCEPT ![s] = "IDLE"]
    /\ task' = [task EXCEPT ![s] = 0]
    /\ prompt' = [prompt EXCEPT ![s] = IF Cleared(s, clear) THEN 0 ELSE @]
    /\ kv' = [kv EXCEPT ![s] = IF Cleared(s, clear) THEN 0 ELSE @]
    /\ pop_deferred_task(s)

----------------------------------------------------------------------------
(* The readers. *)

Post(g) ==
    /\ reader[g] = "new"
    /\ reader' = [reader EXCEPT ![g] = "posted"]
    /\ queue_tasks' = Push(queue_tasks, RequestTask(g), FALSE)
    /\ UNCHANGED <<queue_tasks_deferred, cur, main, k, slot_vars, batch_vars,
                   answer>>

Complete(g) == \A j \in IdsOf(g) : answer[j] = "final"
Failed(g)   == \E j \in IdsOf(g) : answer[j] = "error"

ReaderDone(g) ==
    /\ reader[g] = "posted" /\ Complete(g)
    /\ reader' = [reader EXCEPT ![g] = "done"]
    /\ UNCHANGED <<queue_vars, cur, main, k, slot_vars, batch_vars, answer>>

\* server_response_reader::stop: the tasks are taken out of the queues and a
\* CANCEL for each goes to the front, in the order of an unordered_set.  Only
\* the parent can be in a queue.
stop(g) ==
    /\ reader' = [reader EXCEPT ![g] = "done"]
    /\ \E ids \in SetToSeqs(IdsOf(g)) :
          queue_tasks' = [j \in DOMAIN ids |-> CancelTask(ids[j])] \o Cleanup(queue_tasks, g)
    /\ queue_tasks_deferred' = Cleanup(queue_tasks_deferred, g)
    /\ UNCHANGED <<cur, main, k, slot_vars, batch_vars, answer>>

ReaderError(g) == reader[g] = "posted" /\ Failed(g) /\ stop(g)

Disconnect(g) ==
    g \in Leaving /\ reader[g] = "posted" /\ ~Failed(g) /\ ~Complete(g) /\ stop(g)

----------------------------------------------------------------------------
(* start_loop and process_single_task. *)

Fetch ==
    /\ main = "fetch" /\ queue_tasks # <<>>
    /\ cur' = Head(queue_tasks) /\ queue_tasks' = Tail(queue_tasks)
    /\ main' = "task"
    /\ UNCHANGED <<queue_tasks_deferred, k, slot_vars, batch_vars, reader, answer>>

TaskOver == cur' = NoTask /\ main' = "fetch" /\ UNCHANGED <<k, batch_vars, reader>>

\* Mutant of Defer: the task is dropped.
Defer_drops ==
    /\ UNCHANGED <<queue_tasks_deferred, queue_tasks, state, task, i_batch, answer>>
    /\ TaskOver

\* server_queue::defer
Defer ==
    /\ queue_tasks_deferred' = Append(queue_tasks_deferred, cur)
    /\ UNCHANGED <<queue_tasks, state, task, i_batch, answer>>
    /\ TaskOver

\* get_slot_by_id for a request that names its slot (wrapped around),
\* get_available_slot otherwise: an idle slot, by similarity or age.
CanSelect(s) ==
    IF cur.id_slot = NoSlot THEN s \in Idle ELSE s = cur.id_slot % NSlots

\* get_available_slot saves the slot's prompt in the prompt cache and loads a
\* better one or clears the slot, before it is known whether the task starts.
UpdateCache(s) ==
    \/ UNCHANGED <<prompt, kv>>
    \/ /\ cur.id_slot = NoSlot /\ cur.type = "COMPLETION"
       /\ CacheSizes # {} /\ prompt[s] > 0
       /\ \E n \in CacheSizes \cup {0} :
             /\ prompt' = [prompt EXCEPT ![s] = n]
             /\ kv' = [kv EXCEPT ![s] = n]

\* get_free_slots: the first idle slots other than the parent's.
FreeSlots(s) == Idle \ {s}

Children(g) == Req[g].children
EnoughFor(s) == Cardinality(FreeSlots(s)) >= Len(Children(cur.id))

\* The task is deferred: no slot, its slot is busy, or too few for the children.
TaskDefer ==
    /\ main = "task" /\ cur.type \in Generating \cup Embedding
    /\ \/ cur.id_slot = NoSlot /\ Idle = {} /\ UNCHANGED <<prompt, kv>>
       \/ \E s \in Slots : /\ CanSelect(s) /\ is_processing(s)
                           /\ UNCHANGED <<prompt, kv>>
       \/ \E s \in Slots : /\ CanSelect(s) /\ s \in Idle /\ ~EnoughFor(s)
                           /\ UpdateCache(s)
    /\ Defer

\* launch_slots_with_parent_task and launch_slot_with_task: the children wait
\* for the prompt of the parent.
TaskLaunch ==
    /\ main = "task" /\ cur.type \in Generating \cup Embedding
    /\ cur.id \notin Bad
    /\ \E s \in Slots : \E free \in InOrder(FreeSlots(s)) :
          /\ CanSelect(s) /\ s \in Idle /\ EnoughFor(s)
          /\ UpdateCache(s)
          /\ LET c == Children(cur.id)
                 child == [t \in Slots |-> {n \in DOMAIN c : free[n] = t}]
             IN  /\ task' = [t \in Slots |->
                        IF t = s THEN cur.id
                        ELSE IF child[t] # {} THEN c[CHOOSE n \in child[t] : TRUE]
                        ELSE task[t]]
                 /\ state' = [t \in Slots |->
                        IF t = s THEN "STARTED"
                        ELSE IF child[t] # {} THEN "WAIT_OTHER" ELSE state[t]]
    /\ UNCHANGED <<queue_vars, i_batch, answer>>
    /\ TaskOver

\* launch_slot_with_task rejects the task (its prompt or its grammar).  The
\* children are copies and are launched first, so it is the first child that
\* fails, and there is no launched slot to release.
TaskReject ==
    /\ main = "task" /\ cur.id \in Bad
    /\ \E s \in Slots : /\ CanSelect(s) /\ s \in Idle /\ EnoughFor(s)
                        /\ UpdateCache(s)
    /\ Answer(IF Children(cur.id) = <<>> THEN cur.id ELSE Head(Children(cur.id)), "error")
    /\ UNCHANGED <<queue_vars, state, task, i_batch>>
    /\ TaskOver

\* CANCEL: the slot that works on the target, if there is one, is released.
TaskCancel ==
    /\ main = "task" /\ cur.type = "CANCEL"
    /\ IF \E s \in Slots : task[s] = cur.id_target
       THEN release(CHOOSE s \in Slots : task[s] = cur.id_target, FALSE)
       ELSE UNCHANGED <<state, task, prompt, kv, queue_vars>>
    /\ cur' = NoTask /\ main' = "fetch"
    /\ UNCHANGED <<k, batch_vars, reader, i_batch, answer>>

\* The prompts and cells of slot files.  A prompt that was dropped is empty
\* while its cells are still there: they are removed when the next one is
\* added (PromptWait, a restore that fails).
SlotFiles == {<<n, n>> : n \in CacheSizes} \cup ({0} \X (0..NCtx))

\* SLOT_SAVE, SLOT_RESTORE and SLOT_ERASE wait for the slot to be idle.  A
\* restore that fails leaves any part of the old cells.
TaskSlotAction ==
    /\ main = "task" /\ cur.type \in SlotAction
    /\ LET s == Req[cur.id].id_slot % NSlots
           Set(n, c) == /\ prompt' = [prompt EXCEPT ![s] = n]
                        /\ kv' = [kv EXCEPT ![s] = c]
       IN  \/ is_processing(s) /\ UNCHANGED <<prompt, kv>> /\ Defer
           \/ /\ ~is_processing(s)
              /\ \/ /\ cur.type = "SLOT_SAVE" /\ Answer(cur.id, "final")
                    /\ UNCHANGED <<prompt, kv>>
                 \/ /\ cur.type = "SLOT_RESTORE" /\ Answer(cur.id, "final")
                    /\ \E f \in SlotFiles : Set(f[1], f[2])
                 \/ /\ cur.type = "SLOT_RESTORE" /\ Answer(cur.id, "error")
                    /\ \E c \in 0..kv[s] : Set(0, c)
                 \/ /\ cur.type = "SLOT_ERASE" /\ Answer(cur.id, "final")
                    /\ Set(0, 0)
              /\ UNCHANGED <<queue_vars, state, task, i_batch>>
              /\ TaskOver

----------------------------------------------------------------------------
(* update_slots: filling the batch. *)

\* The batch starts with the last sampled token of each slot that generates,
\* as far as it can be batched with the first of them.  (A slot whose context
\* is full would be released here; WithinLimits says there is none.)
UpdateBegin ==
    /\ main = "fetch" /\ queue_tasks = <<>> /\ Idle # Slots
    /\ LET generating == {s \in Slots : state[s] = "GENERATING"}
           first == IF generating = {} THEN NoSlot ELSE Min(generating)
           In == {s \in generating : can_batch_with(first, s)}
       IN  \E added \in InOrder(In) :
             /\ batch' = added /\ slot_batched' = first
             /\ prompt' = [s \in Slots |-> prompt[s] + (IF s \in In THEN 1 ELSE 0)]
             /\ i_batch' = [s \in Slots |->
                   IF s \in In THEN (CHOOSE n \in DOMAIN added : added[n] = s) - 1
                   ELSE i_batch[s]]
    /\ main' = "batch" /\ k' = 0
    /\ UNCHANGED <<queue_vars, cur, state, task, kv, i, i_next, n_batch, reader, answer>>

\* The loop over the prompts goes to the next slot, or ends.
NextSlot(end) ==
    IF end \/ k = NSlots - 1 THEN main' = "decode" /\ k' = 0
    ELSE main' = "batch" /\ k' = k + 1

HasPrompt(s) == state[s] \in {"STARTED", "PROCESSING_PROMPT"}
Batchable(s) == slot_batched # NoSlot => can_batch_with(slot_batched, s)

\* The slot has nothing to add; only one that generates ends a full batch.
PromptSkip ==
    /\ main = "batch"
    /\ is_processing(k) /\ Batchable(k) => ~HasPrompt(k)
    /\ NextSlot(state[k] = "GENERATING" /\ Batchable(k) /\ Len(batch) >= NBatch)
    /\ UNCHANGED <<queue_vars, cur, slot_vars, batch_vars, reader, answer>>

\* An embedding is computed from one physical batch (can_split is false).
TooLarge(s) ==
    IF TypeOf(s) \in Embedding THEN NTokens(s) > NUbatch \/ NTokens(s) > NCtx
    ELSE NTokens(s) >= NCtx

\* An empty prompt is answered at once, one that is too large is refused.
PromptRefuse ==
    /\ main = "batch" /\ state[k] = "STARTED" /\ Batchable(k)
    /\ NTokens(k) = 0 \/ TooLarge(k)
    /\ Answer(task[k], IF NTokens(k) = 0 THEN "final" ELSE "error")
    /\ release(k, FALSE)
    /\ NextSlot(FALSE)
    /\ UNCHANGED <<cur, i_batch, batch_vars, reader>>

\* The tokens of a new prompt that are in the slot's context already; at
\* least one token is left to evaluate.
Reusable(s) ==
    IF state[s] = "PROCESSING_PROMPT" THEN {prompt[s]}
    ELSE IF TypeOf(s) \in Embedding THEN {0}
    ELSE {IF n = NTokens(s) THEN n - 1 ELSE n :
             n \in 0..(IF prompt[s] < NTokens(s) THEN prompt[s] ELSE NTokens(s))}

\* Mutant of Fits: any room is enough.
Fits_partly(s) == TypeOf(s) \in Embedding => Len(batch) < NBatch

\* A prompt that cannot be split needs a batch with room for all of it.
Fits(s) == TypeOf(s) \in Embedding => Len(batch) + NTokens(s) <= NBatch

\* The prompt of an embedding waits for a batch with room for all of it.
PromptWait ==
    /\ main = "batch" /\ HasPrompt(k) /\ Batchable(k)
    /\ state[k] = "STARTED" => NTokens(k) > 0 /\ ~TooLarge(k)
    /\ ~Fits(k)
    /\ state' = [state EXCEPT ![k] = "PROCESSING_PROMPT"]
    /\ \E n \in Reusable(k) : prompt' = [prompt EXCEPT ![k] = n]
    /\ NextSlot(FALSE)
    /\ UNCHANGED <<queue_vars, cur, task, kv, i_batch, batch_vars, reader, answer>>

\* Mutant of Room: a whole chunk, whatever the batch holds already.
Room_whole == NBatch

\* The tokens of prompts that can still be added.
Room == IF Len(batch) < NBatch THEN NBatch - Len(batch) ELSE 0

\* Mutant of LastIndex: the index in the prompt, not in the batch.
LastIndex_in_prompt(added) == added - 1

\* The index of the last token when so many are added.
LastIndex(added) == Len(batch) + added - 1

\* The cells beyond the reused prefix are removed and the prompt is added as
\* far as the batch has room.
PromptAdd ==
    /\ main = "batch" /\ HasPrompt(k) /\ Batchable(k)
    /\ state[k] = "STARTED" => NTokens(k) > 0 /\ ~TooLarge(k)
    /\ Fits(k)
    /\ \E n \in Reusable(k) :
          LET added == IF NTokens(k) - n < Room THEN NTokens(k) - n ELSE Room
              done  == n + added = NTokens(k)
          IN  /\ prompt' = [prompt EXCEPT ![k] = n + added]
              /\ kv' = [kv EXCEPT ![k] = IF @ > n THEN n ELSE @]
              /\ batch' = batch \o [j \in 1..added |-> k]
              /\ state' = [state EXCEPT ![k] =
                              IF done THEN "DONE_PROMPT" ELSE "PROCESSING_PROMPT"]
              /\ i_batch' = [i_batch EXCEPT ![k] = IF done THEN LastIndex(added) ELSE @]
              /\ NextSlot(Len(batch) + added >= NBatch)
    /\ slot_batched' = IF slot_batched = NoSlot THEN k ELSE slot_batched
    /\ UNCHANGED <<queue_vars, cur, task, i, i_next, n_batch, reader, answer>>

----------------------------------------------------------------------------
(* update_slots: decoding the batch in chunks. *)

NTok == IF n_batch < Len(batch) - i THEN n_batch ELSE Len(batch) - i

\* The tokens of a slot in a part of the batch.
CountIn(s, from, to) == Cardinality({n \in (from + 1)..to : batch[n] = s})

\* llama_decode refuses a chunk whose tokens do not continue a sequence that
\* has cells; a sequence without cells may start anywhere.
Continues ==
    \A s \in Slots :
        CountIn(s, i, i + NTok) > 0 /\ kv[s] > 0
            => kv[s] + CountIn(s, i, Len(batch)) = prompt[s]

\* The batch is done: the local variables of update_slots are gone.
UpdateOver ==
    /\ batch' = <<>> /\ slot_batched' = NoSlot
    /\ i' = 0 /\ i_next' = 0 /\ n_batch' = NBatch
    /\ main' = "fetch" /\ k' = 0

UpdateEnd ==
    /\ main = "decode" /\ i = Len(batch)
    /\ UpdateOver
    /\ UNCHANGED <<queue_vars, cur, slot_vars, reader, answer>>

\* Mutant of ParentOf: no child is activated.
ParentOf_none(c) == {}

\* The parent whose state a waiting child takes: its prompt is in the batch.
ParentOf(c) ==
    {s \in Slots : state[s] = "DONE_PROMPT" /\ state[c] = "WAIT_OTHER"
                   /\ task[s] = RequestOf(task[c])}

\* A chunk is decoded: its cells are filled, and the children of every prompt
\* that was added completely take over the state of the parent's slot.
DecodeOk ==
    /\ main = "decode" /\ i < Len(batch) /\ Continues
    /\ LET filled == [s \in Slots |-> kv[s] + CountIn(s, i, i + NTok)]
           From(f) == [c \in Slots |->
                         IF ParentOf(c) = {} THEN f[c] ELSE f[CHOOSE s \in ParentOf(c) : TRUE]]
       IN  /\ kv' = From(filled) /\ prompt' = From(prompt)
           /\ i_batch' = From(i_batch)
           /\ state' = [c \in Slots |-> IF ParentOf(c) = {} THEN state[c] ELSE "DONE_PROMPT"]
    /\ i_next' = i + NTok /\ n_batch' = NBatch
    /\ main' = "sample" /\ k' = 0
    /\ UNCHANGED <<queue_vars, cur, task, batch, slot_batched, i, reader, answer>>

\* Mutant of Purgeable: also the slots at work.
Purgeable_any == {s \in Slots : prompt[s] > 0}

\* The slots that try_clear_idle_slots may clear, the first of them first.
Purgeable == {s \in Idle : KvUnified /\ prompt[s] > 0}

\* The KV cache has no room for the chunk: with a unified cache the first
\* idle slot that holds a prompt is cleared, otherwise the chunk is halved.
DecodeNoSpace ==
    /\ main = "decode" /\ i < Len(batch) /\ Continues
    /\ "kv" \in Faults /\ n_batch > 1
    /\ IF Purgeable # {}
       THEN /\ kv' = [kv EXCEPT ![Min(Purgeable)] = 0]
            /\ prompt' = [prompt EXCEPT ![Min(Purgeable)] = 0]
            /\ UNCHANGED n_batch
       ELSE n_batch' = n_batch \div 2 /\ UNCHANGED <<kv, prompt>>
    /\ UNCHANGED <<queue_vars, cur, main, k, state, task, i_batch, batch,
                   slot_batched, i, i_next, reader, answer>>

\* There is no room for a single token, the chunk is refused, or the
\* computation fails.
DecodeFail ==
    /\ main = "decode" /\ i < Len(batch)
    /\ \/ Continues /\ "kv" \in Faults /\ n_batch = 1
       \/ Continues /\ "compute" \in Faults
       \/ ~Continues
    /\ main' = "error" /\ k' = 0
    /\ UNCHANGED <<queue_vars, cur, slot_vars, batch_vars, reader, answer>>

\* Every task in a slot gets the error, and its slot is cleared.
ErrorSlot ==
    /\ main = "error"
    /\ IF is_processing(k)
       THEN Answer(task[k], "error") /\ release(k, TRUE)
       ELSE UNCHANGED <<answer, state, task, prompt, kv, queue_vars>>
    /\ IF k = NSlots - 1 THEN UpdateOver
       ELSE k' = k + 1 /\ UNCHANGED <<main, batch_vars>>
    /\ UNCHANGED <<cur, i_batch, reader>>

----------------------------------------------------------------------------
(* update_slots: sampling from the chunk. *)

\* Mutant of Sampled: the first token of the chunk is missed.
Sampled_late(s) ==
    i_batch[s] > i /\ i_batch[s] < i_next /\ state[s] \in {"DONE_PROMPT", "GENERATING"}

\* The chunk has the logits the slot waits for.
Sampled(s) ==
    i_batch[s] >= i /\ i_batch[s] < i_next /\ state[s] \in {"DONE_PROMPT", "GENERATING"}

NextSample ==
    IF k = NSlots - 1 THEN main' = "decode" /\ k' = 0 /\ i' = i_next
    ELSE main' = "sample" /\ k' = k + 1 /\ UNCHANGED i

SampleSkip ==
    /\ main = "sample" /\ ~Sampled(k)
    /\ NextSample
    /\ UNCHANGED <<queue_vars, cur, slot_vars, batch, slot_batched, i_next, n_batch,
                   reader, answer>>

\* An embedding is complete, or the sampled token ends the generation.
SampleStop ==
    /\ main = "sample" /\ Sampled(k)
    /\ Answer(task[k], "final")
    /\ release(k, FALSE)
    /\ i_batch' = [i_batch EXCEPT ![k] = -1]
    /\ NextSample
    /\ UNCHANGED <<cur, batch, slot_batched, i_next, n_batch, reader>>

\* process_token: there is room for the sampled token and another one.
HasRoom(s) == prompt[s] + 1 < NCtx

\* The generation goes on, unless the context is full.
SampleNext ==
    /\ main = "sample" /\ Sampled(k) /\ TypeOf(k) \in Generating
    /\ HasRoom(k)
    /\ state' = [state EXCEPT ![k] = "GENERATING"]
    /\ i_batch' = [i_batch EXCEPT ![k] = -1]
    /\ NextSample
    /\ UNCHANGED <<queue_vars, cur, task, prompt, kv, batch, slot_batched, i_next,
                   n_batch, reader, answer>>

----------------------------------------------------------------------------
MainStep ==
    \/ Fetch \/ TaskDefer \/ TaskLaunch \/ TaskReject \/ TaskCancel \/ TaskSlotAction
    \/ UpdateBegin \/ PromptSkip \/ PromptRefuse \/ PromptWait \/ PromptAdd
    \/ UpdateEnd \/ DecodeOk \/ DecodeNoSpace \/ DecodeFail \/ ErrorSlot
    \/ SampleSkip \/ SampleStop \/ SampleNext

ReaderStep(g) == ReaderDone(g) \/ ReaderError(g)

Next ==
    \/ MainStep
    \/ \E g \in Requests : Post(g) \/ ReaderStep(g) \/ Disconnect(g)

Spec == Init /\ [][Next]_vars

\* The main thread runs; a reader reads the results that are there.
FairSpec ==
    /\ Spec /\ WF_vars(MainStep)
    /\ \A g \in Requests : WF_vars(ReaderStep(g))

----------------------------------------------------------------------------
(* Safety. *)

\* Tokens of the slot that are still to be decoded.
Ahead(s) ==
    IF main \in {"batch", "decode"} THEN CountIn(s, i, Len(batch))
    ELSE IF main = "sample" THEN CountIn(s, i_next, Len(batch)) ELSE 0

\* What the server believes of a slot's context is true of the KV cache: the
\* tokens of slot.prompt are all there, but for those still ahead in the
\* batch, and when a slot samples there is nothing else in its sequence.
BackedByKv(s) ==
    /\ prompt[s] <= kv[s] + Ahead(s)
    /\ state[s] \in {"DONE_PROMPT", "GENERATING"} => prompt[s] = kv[s] + Ahead(s)

\* Reuse of cached prompts, chunks that fail and are retried, cleared slots
\* and errors in the middle of a batch leave prompt and KV cache in step
\* (update_slots, release, try_clear_idle_slots).
PromptInKv ==
    main # "error" => \A s \in Slots : ~(task[s] # 0 /\ IsChild(task[s])) => BackedByKv(s)

Queued(j) == IF cur.id = j THEN TRUE
             ELSE j \in IdsIn(queue_tasks) \cup IdsIn(queue_tasks_deferred)

\* Where a task can be, of which each has one at a time.
Places(j) ==
    {<<"slot", s>> : s \in {s \in Slots : task[s] = j}}
    \cup (IF Queued(RequestOf(j)) THEN {<<"queue", 0>>} ELSE {})
    \cup (IF answer[j] # "none" THEN {<<"answer", 0>>} ELSE {})

\* A task that was posted and not cancelled is in the queue, in one slot or
\* answered, once; only an error of its request lets it vanish without an
\* answer of its own.
OneAnswer ==
    \A g \in Requests : reader[g] = "posted" => \A j \in IdsOf(g) :
        /\ answer[j] # "twice"
        /\ IF Failed(g) THEN Cardinality(Places(j)) <= 1 ELSE Cardinality(Places(j)) = 1

\* The token whose logits a slot samples is its own in the chunk just
\* decoded, or its parent's.
SamplesOwnToken ==
    main = "sample" => \A s \in Slots : s >= k /\ Sampled(s) =>
        batch[i_batch[s] + 1] = s \/ IsChild(task[s])

\* An embedding is never spread over two batches, however many prompts
\* compete for one: "we cannot split if the pooling would require any past
\* tokens" (can_split).
EmbeddingInOneBatch ==
    main = "sample" => \A s \in Slots :
        state[s] = "DONE_PROMPT" /\ TypeOf(s) \in Embedding
            => CountIn(s, 0, Len(batch)) = NTokens(s)

\* update_slots leaves no prompt behind that was decoded and not sampled.
NoPromptLeftBehind ==
    main \in {"fetch", "task"} => \A s \in Slots :
        /\ state[s] # "DONE_PROMPT"
        /\ state[s] = "GENERATING" => i_batch[s] = -1

\* The batch never outgrows its allocation ("the update_slots() logic will
\* always submit a maximum of n_batch or n_parallel tokens", init), and
\* generation stops before the context is full, so that update_slots need not
\* stop it (its check "is redundant (for good)").
WithinLimits ==
    /\ Len(batch) <= IF NBatch < NSlots THEN NSlots ELSE NBatch
    /\ main = "fetch" => \A s \in Slots : state[s] = "GENERATING" => prompt[s] + 1 < NCtx

\* A child waits only for a parent that is still on its prompt, unless the
\* request has failed, its cancellation is under way, or its prompt is empty:
\* an empty prompt is answered at once, and its children are not activated.
ChildHasParent ==
    \A c \in Slots : state[c] = "WAIT_OTHER" =>
        LET g == RequestOf(task[c])
        IN  \/ Failed(g) \/ reader[g] = "done" \/ Req[g].n_tokens = 0
            \/ \E s \in Slots : task[s] = g /\ state[s] \in {"STARTED", "PROCESSING_PROMPT",
                                                            "DONE_PROMPT"}

\* The server does not come to rest with deferred tasks: "defer until one
\* slot is available".
NotStranded ==
    main = "fetch" /\ queue_tasks = <<>> /\ Idle = Slots => queue_tasks_deferred = <<>>

----------------------------------------------------------------------------
(* Liveness. *)

\* Every request ends: it gets the last results of all its tasks, or an
\* error, and the children that wait for a failed parent are released.  (Not of
\* an empty prompt with children, which ends only when its client leaves.)
RequestEnds ==
    \A g \in Requests : (reader[g] = "posted") ~>
        (reader[g] = "done" /\ \A s \in Slots : task[s] \notin IdsOf(g))

----------------------------------------------------------------------------
(* What comments say of the slots. *)

\* "when the main prompt is processed, activate all child tasks too": a
\* child that is activated has the whole prompt in its context.
ChildHasPrompt ==
    main # "error" => \A s \in Slots :
        state[s] = "DONE_PROMPT" /\ IsChild(task[s]) => prompt[s] = kv[s]
=============================================================================
