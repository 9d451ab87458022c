# A verification project for the llama.cpp server

The repository is a local LLM application: the ggml tensor library, the llama
inference library on top of it, shared helper code (`common/`), and programs,
of which the HTTP server (`tools/server/`) is the one people run. This
directory holds TLA+ models of its concurrent core, the TLC configurations that
check them on small instances, and proofs that TLAPS checks for every instance.

All source paths below are relative to the repository.

## 1. The system

### 1.1 The core: one request through the server

```
 HTTP threads                      main thread
 server_routes handler
   wait_until_no_sleep ----------> start_loop (sleeping, model unloaded)
   get_new_id, post  --queue_tasks--> process_single_task -- launch --> slot
                          ^  ^              |                            |
                          |  +-- deferred <-+ (no slot)                  |
                          +---- pop_deferred_task <-- release -----------+
   server_response_reader <--queue_results-- update_slots (batch, decode, sample)
     error or client gone: CANCEL for every task, to the front of queue_tasks
```

| component | state | operations | interaction |
|---|---|---|---|
| `server_queue` | `queue_tasks`, `queue_tasks_deferred`, `id`, `running`, `sleeping`, `req_stop_sleeping`, `time_last_task`, one mutex, one condition variable | `post`, `defer`, `get_new_id`, `pop_deferred_task`, `wait_until_no_sleep`, `terminate`, `start_loop` | posted to by all HTTP threads, read by the main thread; calls back into `server_context` |
| `server_response`, `server_response_reader` | `queue_results`, `waiting_task_ids`; per reader `id_tasks`, `received_count`, `cancelled` | `add_waiting_task_ids`, `send`, `recv_with_timeout`, `remove_waiting_task_id(s)`; `post_tasks`, `next`, `wait_for_all`, `stop` | the main thread sends, one HTTP thread per reader receives and cancels |
| `server_slot`, `server_context_impl` | per slot `state`, `task`, `prompt`, `i_batch`; the batch; the KV cache | `process_single_task` (launch, defer, cancel, save, restore, erase), `update_slots`, `release`, `try_clear_idle_slots`, `get_available_slot` | runs on the main thread; every release calls `pop_deferred_task` |
| `server.cpp` | signal flag, HTTP and monitor threads | `start_loop`, `terminate` from a signal or from the router | the handler runs on whatever thread gets the signal |

### 1.2 Around the core

| component | state | operations | interaction |
|---|---|---|---|
| `server_models` (router) | per model the status and exit code, `stopping_models`, one mutex, `cv` and `cv_stop` | `load`, `unload`, `unload_lru`, `unload_all`, `update_status`, `wait_until_loaded`, `ensure_model_loaded` | HTTP threads load and wait; per instance a managing thread, a log thread, a stopping thread and a child process |
| `llama_kv_cells`, `llama_kv_cache` | per cell position, shift and set of sequences; `used`, `has_shift`, `seq_pos`; per stream a head; pending stream copies | `seq_rm`, `seq_cp`, `seq_keep`, `seq_add`, `seq_div`, `clear`, `find_slot`, `apply_ubatch`, `prepare`, `update`, `state_read` | called by `llama_context::decode` and by the server between decodes |
| `llama_batch_allocr` | the batch | `init` (tests), `split_simple`, `split_equal` | feeds `prepare` |
| `common_log` | ring buffer, `head`, `tail`, `running`, the file | `add`, `pause`, `resume`, `set_file`, `set_colors` | any thread adds, a worker thread prints |
| ggml CPU thread pool | `n_graph`, `n_barrier`, `n_barrier_passed`, `current_chunk`, `stop`, `pause`, `abort` | `ggml_graph_compute`, `ggml_barrier`, `ggml_threadpool_pause`, `resume`, `free` | the main thread and the workers compute each graph together |

| not modelled | why |
|---|---|
| `server_prompt_cache` | limits in bytes and tokens, eviction; planned. Its effect on a slot is in `ServerSlots` |
| recurrent, hybrid and SWA memories | variants behind the interface of the KV cache; candidates |
| speculative decoding, n-gram caches | drafts in the batch of `update_slots`; a candidate for `ServerSlots` |
| ggml allocator, scheduler, RPC backend, downloads | sequential algorithms or I/O; candidates |
| `server_http_context`, request and response formats, chat templates, samplers, grammars, vocabulary, kernels, model loading, tools, examples, web interface | parsing, numeric code, tables, I/O |

### 1.3 What is hard here

`PROJECT.json` lists the hazards line by line. In groups:

* one condition variable shared by the main thread and by requests that wait for
  the end of a sleep, with `notify_one` in five places; the model is freed and
  loaded while the mutex is held;
* tasks that move between two deques, the main thread and a slot, while other
  threads post, clean up and cancel;
* a loop that only keeps turning because it posts a `NEXT_RESPONSE` to itself;
* a slot release that wakes exactly one deferred task;
* a batch filled from all slots and decoded in chunks that can be halved, retried
  or fail in the middle, with the sampled positions remembered as indices;
* cached prompts (`slot.prompt`) that must describe what the KV cache holds;
* parents and children (`n_cmpl > 1`) of which one waits for the other;
* readers that share one result queue, with a timed wait as the only way to
  notice that the client has gone;
* a ring buffer that wraps around, grows and is closed and opened again while a
  worker reads it;
* child processes that end by themselves, obey late or have to be killed, while
  three threads per child and any number of requests wait for one another;
* a barrier that is used again at once, workers that fall asleep while the next
  graph is started, and a work counter shared by consecutive operators;
* indices that a dozen operations keep beside the cells of the KV cache, and a
  trial placement that has to be undone cell by cell.

## 2. The models

| module | models | granularity |
|---|---|---|
| `TaskQueue` | what each method does to the two deques | constant operators, used by the next and by `ServerSlots` |
| `ServerQueue` | `server_queue`, `start_loop`, sleeping, `terminate`, signals | one action per critical section |
| `ServerResponse` | `server_response`, `server_response_reader`, the streaming callback | one action per critical section |
| `ServerSlots` | `process_single_task`, `update_slots`, slots, KV cells per sequence | one action per slot and loop |
| `CommonLog` | `common_log` | one action per critical section |
| `LogChannel` | what `common_log` promises | the abstract specification of `CommonLog` |
| `ServerModels` | `server_models` and its children | one action per critical section |
| `ThreadPool` | the ggml CPU thread pool without OpenMP | one action per access to a shared atomic |
| `KVCache` | `llama_kv_cells`, `llama_kv_cache`, the memory part of `llama_context::decode` | one action per call, or per ubatch within a decode |
| `MC...` | instances for TLC | |
| `TaskQueueProofs`, `ServerQueueProofs`, `ServerResponseProofs`, `CommonLogProofs`, `ServerModelsProofs`, `ThreadPoolProofs`, `KVCacheProofs`, `ServerSlotsProofs` | lemmas and theorems | |

### 2.1 TaskQueue

A task is a record of its id, type, requested slot and, for a CANCEL, target.
`Push`, `PopToFront`/`PopRest`, `Cleanup` are `post`, `pop_deferred_task` and
`cleanup_pending_task`. `CANCEL` and `NEXT_RESPONSE` have id 0: the program
draws ids for `NEXT_RESPONSE` from the same counter and never reads them.

### 2.2 ServerQueue

Variables carry the names of the fields. `main` says where the main thread is:

| `main` | in `start_loop` |
|---|---|
| `init` | before the first statement |
| `fetch`, `task` | the loop over new tasks, inside `callback_new_task` |
| `update`, `slots` | `callback_update_slots`: before and after its `NEXT_RESPONSE` |
| `stamp`, `check`, `idlewait` | the loop that waits for new tasks |
| `unloading`, `asleep`, `loading` | the sleeping branch; the mutex is held in the first and the last |
| `exited` | returned |
| `selflock` | a signal handler on this thread has locked the mutex a second time |

The condition variable is the set `waiters`. A thread that is taken out of it
evaluates its predicate in a later step. `notify_one` takes out any one, and a
spurious wake-up may take one out at any time. Time is one Boolean, `idle`, that
may become true at any moment after it was last stamped. An HTTP thread goes
through `idle`, `blocked` (in `wait_until_no_sleep`), `ready` (using the
vocabulary), `numbered`, `posted`. The callbacks are reduced to launching,
deferring, ending and cancelling tasks and releasing slots, in any order.

### 2.3 ServerResponse

A reader goes through `new`, `added` (ids registered), `recv`, `waiting`,
`chunk` (between two chunks of a stream), `stop`, `removing`, `cancelling`,
`closed`. `send` appends for registered ids and wakes everybody; a wait that is
not notified may time out and ask whether the client is there. Results are
numbered per task, and the history variables `sent` and `got` say what was sent
and read.

### 2.4 ServerSlots

Slots have the fields of `server_slot` that decide anything, and tokens are
counted: `prompt[s]` is what the server believes to be in the slot's context,
`kv[s]` the cells really filled. The steps of `update_slots` are

1. `UpdateBegin`: one token per generating slot;
2. `PromptSkip`, `PromptRefuse`, `PromptWait`, `PromptAdd`: the loop over the
   slots that fills the batch with prompts;
3. `DecodeOk`, `DecodeNoSpace`, `DecodeFail` for one chunk, `ErrorSlot` for each
   slot after a failure;
4. `SampleSkip`, `SampleStop`, `SampleNext`: the loop over the slots that samples
   from the chunk, then back to 3 or `UpdateEnd`.

`llama_decode` is external: it may report that the KV cache is full or that the
computation failed whenever the constant `Faults` allows it, and refuses a chunk
that does not continue its sequences (`Continues`, from `llama-batch.cpp`). How
much of a cached prompt a new one shares is any number. A loop of the code over
some slots in their order is the sequence in `InOrder(S)`: the one function that
lists the set S in increasing order (`InOrderExists`: there is one).

Assumed: continuous batching is on, context shift off, text prompts, pooling
other than LAST (so that embeddings cannot be split), no adapters, drafts or
checkpoints. The readers are reduced to what they send back to the queue.

### 2.5 LogChannel and CommonLog

`LogChannel` is a queue that is open or closed: `Accept`, `Emit`, `Close`, and
`Open`, which needs an empty queue and may change the file. `CommonLog` has the
ring (`entries`, `size`, `head`, `tail`) with the index arithmetic of the code.
`Add` writes at `tail` and, when `tail` reaches `head`, unrolls the ring into one
of twice the size. The worker waits, takes an entry, and prints it outside the
mutex. `Pause` pushes the end entry and `Join` waits for the worker; `Resume`
starts a new one, after `set_file` with another file. One thread, the controller,
calls `pause` and what pauses, as `common/log.h` demands; any thread adds. A
message is its number, and `accepted` and `printed` are histories. The refinement
mapping takes `running` for `open`, and for the queue (`Pending`) the message in
the worker's hands followed by the entries from `head` to `tail` without the end
entry.

### 2.6 ServerModels

Per model: `status` and exit code, the child (`starting`, `ready`, `dead`), what is
in the two pipes (`announced`, `told`), where the managing thread is (`log`,
`join`, `reap`) and where the stopping thread is (`wait`, `poll`, `done`). A
request goes through `ensure`, `lru`, `unload`, `lru_wait`, `load`, `wait`, `check`,
`proxy`, one step per critical section. A wait on a condition variable is the
guard of an action: whoever changes what is waited for holds the mutex and
notifies all. Children become ready, fail at any time, obey the exit command or
do not. One that ends unasked with code 0 does so before it serves: a preset may
hold an option that prints and exits, while a child that serves and gets a
signal joins the thread that listens for the exit command (`server.cpp:312`).
`StopTimeout` kills the child that does not obey. `last_used` is not kept: the
model used longest ago is any active model. After the HTTP server has stopped, `UnloadAll` and `JoinAll` shut down.

### 2.7 ThreadPool

`pc` says where each thread is: the main thread in `ggml_graph_compute`, `pause`,
`resume` or `free`, a worker at the top of its loop, paused, polling or asleep,
and both in the loop over the nodes or in `ggml_barrier`. The barrier has a step
per access (`BarrierEnter`, `BarrierAdd`, `BarrierLast`, `BarrierRelease`,
`BarrierSpin`). A graph is a sequence of nodes: `nop` nodes are skipped, `plain`
ones have a part per thread, and `mul` ones (`mul_mat`) a conversion, a barrier
and chunks that the threads take from `current_chunk`. `done` counts how often each
part was computed. The abort callback may stop the main thread's graph after any
node. The atomics are sequentially consistent in the model; the weaker orders the
code asks for are outside it.

### 2.8 KVCache

A stream has the fields of `llama_kv_cells`, `seq_pos` as a count per sequence and
position. Each operation of `llama_kv_cells` is an operator on such a record and
the set of cells it hits, because the loops of the code treat each cell by itself.
`Slots` is `find_slot`: the cells that the search meets first from the head. A
decode begins with the pending update (stream copies, then the K-shift), is
placed ubatch by ubatch (`PrepareUbatch`), undone backwards (`Restore`), and then
processed (`ProcessUbatch`) or given up (`ProcessFail`, which removes the
positions of the failed ubatch). Of the tensors the model keeps `rot`, the
position that K of a cell is rotated to. `stale` marks the cells whose data the
code leaves behind (section 3.3).

## 3. The runs

Each run has a `.cfg` of the same name. Deadlock is not checked: the server, the
router and the pool may stop for good, and in every module the inputs are bounded,
so that a behaviour that has used them up rests.

### 3.1 Passing runs

| run | instance | shows |
|---|---|---|
| `SQ_queue` | two threads, one slot, two requests, sleeping | `NoLostWakeup`, `CallbacksHaveModel`, `NoRestWhileActive`, `UniqueTask`, `TerminateEndsLoop`, `TaskTaken` |
| `SR_requests` | a stream of one task, a request of two, two slots, two partial results | `TypeOK`, `InOrderDelivery`, `NoMissedResult`, `ClosedLeavesNothing`, `RequestEnds` |
| `SS_families` | three slots; two parents with a child, one too large for the context, an infill on a named slot; a prompt cache; both faults | `TypeOK`, `PromptInKv`, `OneAnswer`, `NoPromptLeftBehind`, `ChildHasParent`, `RequestEnds` |
| `SS_plain` | two slots; completions of 3, 1 and 0 tokens, the last two for the first slot, once as number 0 and once as 2, which wraps around; embeddings of 2 and 1; full KV cache | `NotStranded`, `SamplesOwnToken`, `WithinLimits`, `EmbeddingInOneBatch` |
| `SS_actions` | two slots; save, restore, erase, a parent rejected at launch, a client that leaves; both faults | `PromptInKv` |
| `CL_log` | a ring of two entries, seven messages, three pauses | `InOrder`, `Flushed`, `PauseReturns`, `IsChannel` |
| `SM_router` | two models of which one may be loaded, two threads, three requests, three loads | `UnloadedIsDown`, `StateDiagram`, `ShutdownEnds`, `WaitEndsUnlessOrphaned`, `LruWaitEndsUnlessReloaded` |
| `TP_pool` | three threads, two graphs of two products, an empty and a plain node, on one to three of the threads, one pause | `TypeOK`, `StagesInOrder`, `GraphComplete`, `GraphEnds`, `FreeEnds` |
| `KV_cells` | three cells, two sequences, unified or a stream each, no window or one of two | `TypeOK`, `CellsIndexed`, `KInPlace`, `PrepareRestores` |

What the properties say:

* `NoLostWakeup`: while the loop is blocked waiting for tasks, the queue is empty
  and the server runs; once the model is back nobody is blocked on the condition
  variable but the main thread.
* `CallbacksHaveModel`, `NoRestWhileActive`: the callbacks never run between
  unload and reload; the loop neither waits nor sleeps while a slot works.
* `UniqueTask`: a task is in one place.
* `InOrderDelivery`, `NoMissedResult`, `ClosedLeavesNothing`: each reader gets the
  results of its tasks once and in order, all of them unless it was cancelled,
  and nothing is left when it closes.
* `PromptInKv`: what the server believes of a context is in the KV cache, but
  for tokens ahead in the batch; when a slot samples, exactly that is there.
  (Children are excepted; see `SS_child_prompt`.)
* `OneAnswer`: a task that was posted and not cancelled is queued, in one slot or
  answered, once.
* `SamplesOwnToken`, `NoPromptLeftBehind`, `WithinLimits`: indices into the batch
  stay right through halved chunks; every prompt that was decoded is sampled in
  the same update; the batch keeps within its allocation and a generation ends
  before its context is full.
* `ChildHasParent`, `NotStranded`, `EmbeddingInOneBatch`: a waiting child has
  something to wait for, but for the child of an empty prompt (section 3.3); no task is deferred while all slots are idle; an
  embedding is in one batch (not in one chunk: a halved chunk splits it).
* `TerminateEndsLoop`, `TaskTaken`, `RequestEnds`: `terminate()` ends a loop that
  has begun; a posted task is taken unless the server sleeps or stops; a
  request ends and leaves no slot or task at work for it. (`SS_families` has no
  empty prompt with children, for which this fails; see section 3.3.)
* `InOrder`, `Flushed`, `IsChannel`: what is printed is what was accepted, in
  order, once, and into the file in use when it was accepted; after a pause
  everything is printed; the log implements `LogChannel`.
* `PauseReturns`: the join in `pause()` returns, unless the end entry has filled
  the ring (`Wrapped`).
* `UnloadedIsDown`, `StateDiagram`: an unloaded model has no child and no thread
  left, and a status follows the diagram in `server-models.h`.
* `ShutdownEnds`, `WaitEndsUnlessOrphaned`, `LruWaitEndsUnlessReloaded`: the waits
  of the router end, but for a child that ended unasked (`Orphaned`; see
  `SM_wait`) and for a victim of `unload_lru` that somebody loads again.
* `StagesInOrder`, `GraphComplete`: no part of a node is computed twice, none
  before all parts of the earlier nodes, and `wdata` and the chunk counter are not
  reset while somebody uses them; when a graph returns it is complete and no
  worker is in it.
* `GraphEnds`, `FreeEnds`: a graph ends whatever the workers were doing when it was
  started, and the pool can be freed in any state.
* `CellsIndexed`: `seq_pos`, `used`, the shifts and `has_shift` agree with the
  cells after any calls.
* `KInPlace`: the K data of a cell is rotated to the cell's position, less the
  shift that is still to be applied, once the pending copies are done.
* `PrepareRestores`: without a window, a trial placement leaves the cells as they
  were.

### 3.2 Runs that find a disagreement

Each states what a comment or a document says, and TLC finds a behaviour of the
model in which the code does something else. `PROJECT.json` quotes the lines.

| run | property | what happens |
|---|---|---|
| `SS_child_prompt` | `ChildHasPrompt` | a child copies a context whose prompt is not decoded yet |
| `SM_wait` | `WaitEnds` | a child that cannot load its model leaves the request that waits for it waiting |
| `KV_window` | `WindowRestored` | a trial placement in a cache with a window removes visible positions and does not put them back |

### 3.3 Behaviours the models contain without a run of their own

The properties are stated so that these are visible as exceptions.

* The model can be freed while a handler tokenizes with it (`ready` in
  `ServerQueue`), and a task posted during a sleep does not end it: `TaskTaken`
  excepts a sleeping server.
* A signal handler can lock the mutex that its own thread holds (`selflock`).
* A `terminate()` before `start_loop` is forgotten: `TerminateEndsLoop` speaks of a
  loop that has begun. A request blocked in `wait_until_no_sleep` is not released
  when the loop exits from its sleep.
* A deferred task that is rejected at launch, cancelled or a slot action uses up
  the wake-up of those behind it: `SS_plain`, which checks `NotStranded`, has none
  of the three. A cancellation misses a task that is about to be deferred.
* An empty prompt is answered and its slot released (`server-context.cpp:2160`)
  before `DONE_PROMPT`, the state in which children are activated (`2684`). With
  `n_cmpl` above 1 the children stay in `WAIT_OTHER`, and the request and its slots
  end only when the client leaves, although the server's `README.md:409` promises
  `n_cmpl` entries for each prompt. `ChildHasParent` excepts empty prompts, in the
  runs and in the theorem, and `RequestEnds` is checked without them.
* An embedding is kept in one batch, because "we cannot split if the pooling would
  require any past tokens" (`server-context.cpp:222`), but a full KV cache halves
  the chunk and splits it over two decodes (`2670`). `EmbeddingInOneBatch` speaks of
  the batch.
* `pause()` on a ring with one free entry never returns (`Wrapped`).
* More than `models_max` models can be active: room is made and taken in two
  critical sections, and no victim is found when all were used within the same
  millisecond.
* `seq_div` accumulates its shift with the sign opposite to `seq_add`'s; a state
  read while a stream copy is pending is overwritten by the copy; a failed ubatch
  is removed for the first of its coupled sequences only. These are the cells in
  `stale`. Reading a whole cache of several streams clears all of it for each.

### 3.4 Bounds

* `MaxId` bounds the requests of a behaviour of `ServerQueue`: two are enough for
  one task in a slot and one that is deferred, posted or cancelled. Two HTTP
  threads are enough for one that waits and one that posts; the proofs cover any
  number of both.
* `MaxPartial` bounds the partial results of a task: two, so that order matters.
* In `ServerSlots` a chunk has two tokens (`NBatch`), so that it can be halved
  once and fail at one; a context has four (`NCtx`), so that a prompt of three
  takes two updates and one of four is too large; three slots are more than a
  batch has tokens. A slot file holds a prompt and as many cells, or no prompt
  and the cells of one that was dropped (`SlotFiles`). The requests are those of `MCServerSlots`.
* `CommonLog`: a ring of two is doubled twice by seven messages (`MaxMsgs`) and
  wraps around in between; three pauses (`MaxPauses`) meet it at different fills
  and reuse its end entries. The proofs cover every capacity.
* `ServerModels`: `MaxRequests` and `MaxLoads` are three, so that a model is loaded,
  evicted for another and loaded again; `SM_wait` needs two.
* `ThreadPool`: two graphs (`MaxGraphs`) so that a slow worker meets the next one;
  with eight chunks (`NChunks`) one and two threads share them out and three take
  one each, which are the two branches of `mul_mat`.
* `KVCache`: batches of two tokens in ubatches of one (`MaxBatch`, `NUbatch`), so
  that a prepare has something to undo after a failure; four calls (`MaxCalls`)
  and positions up to three (`MaxPos`). Two sequences never
  exceed the cap of `NUbatch + 1` sequences in an ubatch (`Lanes`); the theorems
  cover more. `KV_window` needs a window of three and
  ubatches of two.

### 3.5 Fairness

* `ServerQueue`: weak fairness of the main thread and of each HTTP thread that
  has a request. No fairness for clients, signals, time or spurious wake-ups.
* `ServerResponse`: weak fairness of each reader that has begun and of the work
  on each task. Weak fairness of a waiting reader makes an undisturbed timed
  wait end; one that is notified again and again need not time out.
* `ServerSlots`: weak fairness of the main thread and of each reader that has
  something to read.
* `CommonLog`: weak fairness of the worker and of a controller in its join.
* `ServerModels`: weak fairness of the threads of each instance, of each request,
  of `stop_timeout`, and of a starting child, which becomes ready or fails. A
  child need not obey the exit command, and clients need not come.
* `ThreadPool`: weak fairness of every thread, those that spin included. The main
  thread need not start another graph or free the pool.
* `KVCache` has no liveness property: its operations are calls that return.

These are what a fair scheduler gives to threads that are not blocked; a mutex
is held for a bounded time everywhere but in `unloading`, `loading` (bounded by
fairness of the main thread) and `selflock`.

## 4. The proofs

| theorem | module | statement |
|---|---|---|
| `IndInvariant` | `ServerQueueProofs` | `Spec => []IndInv` |
| `TypeCorrect` | `ServerQueueProofs` | `Spec => []TypeOK` |
| `WakeupsCorrect` | `ServerQueueProofs` | `Spec => []NoLostWakeup` |
| `ModelCorrect` | `ServerQueueProofs` | `Spec => []CallbacksHaveModel` |
| `RestCorrect` | `ServerQueueProofs` | `Spec => []NoRestWhileActive` |
| `TasksUnique` | `ServerQueueProofs` | `Spec => []UniqueTask` |
| `IndInvariant` | `CommonLogProofs` | `Spec => []IInv` |
| `TypeCorrect` | `CommonLogProofs` | `Spec => []TypeOK` |
| `PrintedInOrder` | `CommonLogProofs` | `Spec => []InOrder` |
| `PausedIsFlushed` | `CommonLogProofs` | `Spec => []Flushed` |
| `ImplementsChannel` | `CommonLogProofs` | `Spec => IsChannel` |
| `IndInvariant` | `ServerModelsProofs` | `Spec => []IInv` |
| `TypeCorrect` | `ServerModelsProofs` | `Spec => []TypeOK` |
| `UnloadedCorrect` | `ServerModelsProofs` | `Spec => []UnloadedIsDown` |
| `DiagramCorrect` | `ServerModelsProofs` | `Spec => StateDiagram` |
| `IndInvariant` | `ServerResponseProofs` | `Spec => []IInv` |
| `TypeCorrect` | `ServerResponseProofs` | `Spec => []TypeOK` |
| `Delivered` | `ServerResponseProofs` | `Spec => []InOrderDelivery` |
| `NoneMissed` | `ServerResponseProofs` | `Spec => []NoMissedResult` |
| `ClosedClean` | `ServerResponseProofs` | `Spec => []ClosedLeavesNothing` |
| `IndInvariant` | `ThreadPoolProofs` | `Spec => []IInv` |
| `TypeCorrect` | `ThreadPoolProofs` | `Spec => []TypeOK` |
| `StagesCorrect` | `ThreadPoolProofs` | `Spec => []StagesInOrder` |
| `GraphCorrect` | `ThreadPoolProofs` | `Spec => []GraphComplete` |
| `IndInvariant` | `KVCacheProofs` | `Spec => []IInv` |
| `TypeCorrect` | `KVCacheProofs` | `Spec => []TypeOK` |
| `CellsCorrect` | `KVCacheProofs` | `Spec => []CellsIndexed` |
| `DataCorrect` | `KVCacheProofs` | `Spec => []KInPlace` |
| `PrepareUndone` | `KVCacheProofs` | `Spec => PrepareRestores` |
| `IndInvariant` | `ServerSlotsProofs` | `Spec => [](DataInv /\ TaskInv)` |
| `TypeCorrect` | `ServerSlotsProofs` | `Spec => []TypeOK` |
| `PromptsBacked` | `ServerSlotsProofs` | `Spec => []PromptInKv` |
| `AnsweredOnce` | `ServerSlotsProofs` | `Spec => []OneAnswer` |
| `NoneLeftBehind` | `ServerSlotsProofs` | `Spec => []NoPromptLeftBehind` |
| `TokensOwn` | `ServerSlotsProofs` | `Spec => []SamplesOwnToken` |
| `LimitsKept` | `ServerSlotsProofs` | `Spec => []WithinLimits` |
| `EmbeddingsWhole` | `ServerSlotsProofs` | `Spec => []EmbeddingInOneBatch` |
| `ChildrenHaveParent` | `ServerSlotsProofs` | `Spec => []ChildHasParent` |
| `NoneStranded` | `ServerSlotsProofs` | `AllLaunched => (Spec => []NotStranded)` |

### 4.1 The task queue

`TaskQueueProofs` has the lemmas on the deque operators: the type, the ids and
the distinctness of the result of `Push`, `PopToFront`, `PopRest`, `Cleanup` and
`Tail`, and that a `NEXT_RESPONSE` in the queue survives each of them.

`ServerQueueProofs` is about every set of HTTP threads, every finite non-empty
set of slots, any number of requests and with or without sleeping
(`MainAssumption`, `SlotsAssumption`, `MaxIdAssumption`, `SleepAssumption`). None
of the properties is inductive alone. `IndInv` adds

* `WaitInv`: the main thread is among the waiters only in its two waits, with
  `running` set;
* `SleepInv`: where the main thread may be while `sleeping` is set; the one way
  out of a sleep with `sleeping` still set is `terminate()`, after which the
  loop only exits (needed for `CallbacksHaveModel`);
* `TurnInv`: from the start of an update that found work to the next round, the
  `NEXT_RESPONSE` is in the queue. A cancellation removes by id and
  `NEXT_RESPONSE` is never a target; releases only add to the front;
* `FreshInv`: an id that is numbered and not yet posted is nowhere, and all ids
  in use are at most the counter (needed for `UniqueTask` when a task is posted).

The proof of each part has one step per action.

### 4.2 The log

For every capacity and any number of messages and pauses (`CapacityAssumption`,
`BoundsAssumption`). `RingInv` says where the messages that are not printed lie:
the j-th entry from `head` has the number that follows what was printed and what
the worker holds, the end entry comes after them, and `tail` after that. With
`CurInv` (what the worker holds is the next one) and `FileInv` (the file changes
only when nothing is pending) it is inductive. Positions are written `At(head, j,
size)`, a case distinction; `ModAt` connects them with the `%` of the code,
`AtDistinct` says that a write at `tail` leaves the others alone, `AtShift` that
taking an entry moves each up by one.

`ImplementsChannel` needs one more lemma, `PendingIs`: by the invariant, the queue
of the refinement mapping is the numbers from the first unprinted message to the
last accepted one. Every action then maps to `Accept`, `Emit`, `Close`, `Open` or
a stutter (`ChannelStep`). The growth of the ring maps to `Accept` like any other
`Add`.

### 4.3 The router

For every finite set of models, any requests and any limit (`ModelsAssumption`,
`BoundsAssumption`). `InstanceInv` ties the status of a model to its threads, its
child and its pipe: unloaded exactly when there is no managing thread, an
announcement under way only while the status is loading and the log thread
reads, no stopping thread once it was joined. That is why a late announcement
cannot overwrite a status. Most actions change one model; `LocalStep` reduces them
to that model, and `OtherStep` covers those that change none.

### 4.4 The results

For any readers with finite, disjoint sets of tasks, any number of slots and of
partial results (`ReadersAssumption`, `BoundsAssumption`). `Tracked` says of a task
whose reader still reads that its results in the queue are those after the last
one read up to the last one sent, in order, and that the last of them is marked as
the end exactly when the task is over; `Untouched` that a task not yet posted has
none. `CountInv` counts: `received_count` is the number of tasks of which the reader
has the last result, which is why `has_next` does not end a reader early.
`ReaderInv` says in each state of a reader which ids are on the waiting list: once
an id is off the list nothing is added for it, and what was added before is removed
with it, so that nothing is left behind although `stop` leaves the mutex between
two ids. `Extract` describes what is left of a queue after an erase or a
`remove_if`; the steps of other readers and tasks (`SameTask`, `SameReader`) are
treated once.

### 4.5 The thread pool

For any number of threads, any graph, any number of chunks and on any part of the
team (`ThreadsAssumption`, `NodesAssumption`, `BoundsAssumption`). The barrier is
reused at once, so that some threads can be past it while others have not left it.
`Eff` is where a thread is, with one that has been released and has not noticed
counted as released; `BarrierInv` says that `n_barrier` counts the threads that
wait for the release, and that all others of the team wait while the last one
resets it. With that, the threads
of a graph are always in one stretch between two barriers: on the way from one
node to the next that is no `nop` (`Walk`), or in a product (`Multiply`), or the
graph is over (`Over`). Each case says exactly which parts have been computed
and who holds which chunk; a worker of the team that has not seen the graph yet
counts as one on the way to its first node. `OutsideInv` keeps the workers that
are not in the team out of the graph.

### 4.6 The KV cache

For any number of cells and sequences, any batches, ranges and shifts, with and
without streams and windows (`SizesAssumption`, `ConfigsAssumption`,
`InputsAssumption`, `BoundsAssumption`). `Good` is `CellsIndexed` for one stream,
and there is a lemma per operation of `llama_kv_cells`: good cells stay good, and what
the operation does to each cell. They rest on `Recount` (the count of the cells
with a property changes by the difference on the set that was rewritten) and
`CountsFrom`. The
invariant adds to them what a decode relies on:

* `Decoding`: nothing is pending, and no cell has a shift;
* `Undoable`: out of the slots placed so far the cells are those from before the
  decode, and the n-th saved state is that for the first n - 1 placements. It is
  what makes undoing backwards, slot by slot, end at the first state even where two
  ubatches were placed in the same cells. With a window, cells that lost their
  position in a purge are excepted, which is the gap `KV_window` shows;
* `DataAt`: in a decode K is rotated to the position of each cell that is not stale,
  first of the cells from before the decode and, once it processes, of the cells
  themselves.

`Copied`, the pending copies, is a recursive function on the numbers up to the
length of a sequence. What is needed of it (`CopyAllEmpty`, `CopyAllAppend`,
`CopyAllKeeps`) follows from its existence, which is shown with a least
counterexample. `PrepareUndone` is proved from `Undoable` with `SameCells`: cells
without shifts are determined by their positions and sequences, so that putting
those back puts back `used` and every count of `seq_pos`.

### 4.7 The slots

For any number of slots, any requests and children, any sizes of batch, chunk and
context, with and without a unified cache, any faults of `llama_decode`, any
rejected requests and any clients that leave (`ReqAssumption`, `SizesAssumption`).
The invariant has two halves, each with a lemma per action; the second needs the
first.

`DataInv` is about slots and batch. `Rest(s)` are the positions of a slot's tokens
that are still to be decoded: from the current chunk on while the batch is filled
and decoded, from the next one on while it is sampled.

* `SlotOK`: only a parent works on a prompt, a prompt in progress is not complete,
  an embedding in progress has not begun, and a generation that waits for its next
  token has room for it (needed for `WithinLimits`).
* `TokenOK`: only slots at work have tokens ahead; the index a slot samples from is
  not behind the chunk, is the last token the slot has in the batch, and is the
  slot's own unless a child took it over. This is what makes the index survive a
  batch that is halved and retried (`SamplesOwnToken`, `NoPromptLeftBehind`).
* `KvOK`: prompt, cells and tokens ahead add up (`PromptInKv`), and a sequence that
  samples or has tokens ahead never holds more than its prompt. The second part
  holds for children too and is what the first needs when a child is activated.
* `EmbedOK`: an embedding whose prompt is in the batch is there from its first
  token.
* After a failed decode only idle slots keep these properties, and the slots that
  `ErrorSlot` has passed are idle (`Phase`).

`Tokens`, the positions of a slot in a part of the batch, is counted with
`TokensSplit` (two parts that follow each other) and `TokensAppend` (a prompt is
added); actions between two updates are reduced to `Quiet`, and the samplings of
one slot to `SampleKept` for the others.

`TaskInv` is about tasks. `OnePlace` says that a task is in one deque or in hand,
`CancelOK` that a CANCEL is there only for a reader that has stopped, and
`RequestOK` that nothing of a request is in a slot or answered before it is taken
from the queue, that its tasks are in different slots, and that what has left the
queue without an error is in a slot or answered. It is why a slot is answered once
although four actions release it, and why a CANCEL needs no answer. With
`Activated` (after a chunk is decoded no child waits for a complete prompt),
`ChildHasParent` is inductive: `ChildStep` says what a step must do to keep it.
`FinishTask` treats the three ways of a task to end in a slot at once.

`NoneStranded` needs a third part, `DeferredOK`, and the hypothesis `AllLaunched`: no
task is rejected at launch, cancelled by its client, or a slot action. These are
the three ways in which a task that a release took up does not take a slot, and
each of them strands the tasks behind it (section 3.3), so that the theorem cannot
hold without it. Under it a release always brings a request back into the queue
(`Popped`), a reader that stops after an error finds nothing to clean up, and a
request is deferred only while a slot is at work, because with all slots idle
there are enough for every parent.

### 4.8 Only model-checked

* All liveness properties: temporal reasoning under fairness is outside the
  prover's reach. These are `TerminateEndsLoop`, `TaskTaken`, `RequestEnds` (of
  `ServerResponse` and of `ServerSlots`), `PauseReturns`, `ShutdownEnds`, the two
  waits of the router, `GraphEnds` and `FreeEnds`.
* The runs of section 3.2: each is a counterexample.

Every invariant and action property that a passing run checks is stated by a
theorem.

## 5. What is not modelled

The second table of section 1.2 and the components of `PROJECT.json`. The modelled
part is a small share of the repository's lines: most of them are tensor kernels
for a dozen devices, model architectures, tokenizer tables, vendored libraries,
parsers and formatters, which have no state that a small instance could explore.
Within the modelled parts:

* `ServerSlots`: drafts (`server-context.cpp:2048-2091`, `2792-2846`), context
  shift (`1975-2020`), checkpoints, adapters, images, partial results; continuous
  batching is on and pooling is other than LAST;
* the contents of tasks and results, metrics and adapter tasks;
* `clean_up` and the joins at the end of `main`;
* the unsynchronised write of `running` in `start_loop` is modelled as an atomic
  write before the loop;
* `ServerModels`: presets, arguments, ports, the proxied connection;
* `ThreadPool`: `mul_mat_id` and the other operators, CPU masks, priorities,
  disposable pools, the weaker memory orders, the wrap-around of the graph
  number;
* `KVCache`: tensors and masks, 2D positions, chunked and symmetric windows, a
  K-shift that fails, positions near 2^31.

## 6. Plan

1. Done: `TaskQueue`, `ServerQueue`, `ServerResponse`, `ServerSlots`, `CommonLog` with
   its channel, `ServerModels`, `ThreadPool`, `KVCache`, and proofs of the safety of
   all of them.
2. `PromptCache`: limits after `update`, no prompt that is a prefix of another.
3. An abstract specification of the server (a request is accepted, and answered
   once or cancelled), and `ServerSlots` and `ServerResponse` shown to implement
   it.
4. Drafts and context shift in `ServerSlots`.
