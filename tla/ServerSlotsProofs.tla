------------------------- MODULE ServerSlotsProofs -------------------------
(***************************************************************************)
(* The safety of ServerSlots for any number of slots, any requests, any    *)
(* sizes of batch, chunk and context and any faults of llama_decode.       *)
(*                                                                         *)
(* The inductive invariant has two halves.  DataInv is about the slots and *)
(* the batch: which tokens are still to be decoded, whose they are, and    *)
(* what prompt and KV cache have in common.  TaskInv is about the tasks:   *)
(* where each of them is, and who still has to answer it.                  *)
(***************************************************************************)
EXTENDS ServerSlots, TaskQueueProofs, FiniteSetTheorems

----------------------------------------------------------------------------
(* The slots and the batch. *)

Working  == {"PROCESSING_PROMPT", "DONE_PROMPT", "GENERATING"}
Sampling == {"DONE_PROMPT", "GENERATING"}

\* The part of TypeOK about slots and batch.
DataType ==
    /\ main \in {"fetch", "task", "batch", "decode", "sample", "error"}
    /\ k \in Slots
    /\ state \in [Slots -> SlotStates]
    /\ task \in [Slots -> Ids \cup {0}]
    /\ \A s \in Slots : state[s] = "IDLE" <=> task[s] = 0
    /\ prompt \in [Slots -> 0..NCtx] /\ kv \in [Slots -> 0..NCtx]
    /\ i_batch \in [Slots -> -1..(NBatch + NSlots)]
    /\ batch \in Seq(Slots) /\ Len(batch) <= NBatch + NSlots
    /\ slot_batched \in Slots \cup {NoSlot}
    /\ i \in 0..Len(batch) /\ i_next \in 0..Len(batch) /\ n_batch \in 1..NBatch

\* What holds of the batch at each place of update_slots.
Phase ==
    /\ main \in {"fetch", "task"} => batch = <<>> /\ n_batch = NBatch
    /\ main = "batch" => i = 0 /\ i_next = 0 /\ n_batch = NBatch
    /\ main = "sample" => i < i_next
    /\ main = "error" => \A s \in Slots : s < k => state[s] = "IDLE"
    /\ Len(batch) <= IF NBatch < NSlots THEN NSlots ELSE NBatch

\* Where the tokens start that are still to be decoded, and those of a slot.
Start   == IF main = "sample" THEN i_next ELSE i
Rest(s) == {n \in (Start + 1)..Len(batch) : batch[n] = s}

\* A child waits or samples, only a parent works on a prompt; a prompt that
\* is in progress is neither complete nor, for an embedding, begun; and a
\* generation that waits for its next token has room for it.
SlotOK(s) ==
    /\ state[s] = "WAIT_OTHER" => IsChild(task[s])
    /\ HasPrompt(s) => task[s] \in Requests
    /\ state[s] = "PROCESSING_PROMPT" =>
          /\ prompt[s] < NTokens(s) /\ NTokens(s) <= NCtx
          /\ TypeOf(s) \in Embedding => prompt[s] = 0
    /\ state[s] = "GENERATING" /\ i_batch[s] = -1 => prompt[s] + 1 < NCtx

\* The logits that the slot waits for are still to be sampled.
Pending(s) ==
    /\ i_batch[s] >= IF main = "sample" /\ s < k THEN i_next ELSE i
    /\ i_batch[s] < Len(batch)

\* Only slots at work have tokens to be decoded; the token to sample is the
\* slot's own, unless a child took it over, and the last one it has.
TokenOK(s) ==
    /\ Rest(s) # {} => state[s] \in Working
    /\ main = "batch" /\ Rest(s) # {} => s < k \/ state[s] = "GENERATING"
    /\ state[s] = "DONE_PROMPT" => Pending(s)
    /\ state[s] = "GENERATING" => i_batch[s] = -1 \/ Pending(s)
    /\ state[s] \in Sampling =>
          /\ \A n \in Rest(s) : n <= i_batch[s] + 1
          /\ i_batch[s] # -1 => batch[i_batch[s] + 1] = s \/ IsChild(task[s])

\* BackedByKv, and the sequence of a slot that samples or has tokens to be
\* decoded never holds more than its prompt.
KvOK(s) ==
    /\ ~(task[s] # 0 /\ IsChild(task[s])) => BackedByKv(s)
    /\ state[s] \in Sampling \/ Rest(s) # {} => kv[s] + Ahead(s) <= prompt[s]

EmbedOK(s) ==
    state[s] = "DONE_PROMPT" /\ TypeOf(s) \in Embedding
        => CountIn(s, 0, Len(batch)) = NTokens(s)

\* After a failed decode only the idle slots keep what they have.
DataInv ==
    /\ DataType /\ Phase
    /\ \A s \in Slots : SlotOK(s)
    /\ main # "error" => \A s \in Slots : TokenOK(s) /\ KvOK(s) /\ EmbedOK(s)
    /\ main = "error" => \A s \in Slots : state[s] = "IDLE" => prompt[s] <= kv[s]

----------------------------------------------------------------------------
(* The tasks. *)

\* The rest of TypeOK.
TaskType ==
    /\ queue_tasks \in Seq(RequestTasks \cup CancelTasks)
    /\ queue_tasks_deferred \in Seq(RequestTasks)
    /\ cur \in RequestTasks \cup CancelTasks \cup {NoTask}
    /\ reader \in [Requests -> {"new", "posted", "done"}]
    /\ answer \in [Ids -> {"none", "final", "error", "twice"}]

\* A task is in one place: a deque or the hands of process_single_task.
OnePlace ==
    /\ Distinct(queue_tasks) /\ Distinct(queue_tasks_deferred)
    /\ IdsIn(queue_tasks) \cap IdsIn(queue_tasks_deferred) = {}
    /\ cur.id \notin IdsIn(queue_tasks) \cup IdsIn(queue_tasks_deferred)
    /\ main = "task" <=> cur # NoTask

\* A CANCEL is posted by a reader that stops.
CancelOK ==
    \A j \in Ids :
        Holds(queue_tasks, CancelTask(j)) \/ cur = CancelTask(j)
            => reader[RequestOf(j)] = "done"

InSlot(j) == \E s \in Slots : task[s] = j

Untouched(g) == \A j \in IdsOf(g) : answer[j] = "none" /\ ~InSlot(j)

\* What OneAnswer says of a request, and that nothing happens to one before it
\* is posted and taken from the queue.
RequestOK(g) ==
    /\ reader[g] = "new" => ~Queued(g)
    /\ reader[g] = "new" \/ (reader[g] = "posted" /\ Queued(g)) => Untouched(g)
    /\ reader[g] = "posted" => \A j \in IdsOf(g) :
          /\ answer[j] # "twice"
          /\ InSlot(j) => answer[j] = "none"
          /\ \A s, t \in Slots : task[s] = j /\ task[t] = j => s = t
          /\ ~Queued(g) /\ ~Failed(g) => InSlot(j) \/ answer[j] # "none"

\* After a chunk is decoded no child waits for a prompt that is complete.
Activated ==
    main = "sample" => \A c \in Slots : ParentOf(c) = {}

TaskInv ==
    /\ TaskType /\ OnePlace /\ CancelOK
    /\ \A g \in Requests : RequestOK(g)
    /\ ChildHasParent /\ Activated

----------------------------------------------------------------------------
(* Deferred tasks. *)

\* No task is rejected at launch, cancelled by its client, or over without a
\* slot.
AllLaunched ==
    /\ Bad = {} /\ Leaving = {}
    /\ \A g \in Requests : Req[g].type \notin SlotAction

\* While a task is deferred something will take it up: a slot at work, whose
\* release pops it, or a request on its way to a slot.
DeferredOK ==
    queue_tasks_deferred # <<>> =>
        \/ Idle # Slots
        \/ cur \in RequestTasks
        \/ \E g \in Requests : Holds(queue_tasks, RequestTask(g))

----------------------------------------------------------------------------
(* The ids of tasks. *)

\* Every task belongs to one request, and only parents are requests.
LEMMA IdFacts ==
    /\ 0 \notin Ids /\ Requests \subseteq Ids
    /\ \A g \in Requests : /\ g \in IdsOf(g) /\ IdsOf(g) \subseteq Ids
                           /\ \A j \in IdsOf(g) : RequestOf(j) = g
    /\ \A j \in Ids : RequestOf(j) \in Requests /\ j \in IdsOf(RequestOf(j))
<1>1. \A g \in Requests : g \in IdsOf(g) /\ IdsOf(g) \subseteq Ids BY DEF IdsOf, Ids
<1>2. ASSUME NEW g \in Requests, NEW j \in IdsOf(g) PROVE RequestOf(j) = g
  <2>1. \A h \in Requests : j \in IdsOf(h) => h = g BY <1>2, ReqAssumption
  <2>2. QED BY <1>2, <2>1 DEF RequestOf
<1>3. ASSUME NEW j \in Ids PROVE RequestOf(j) \in Requests /\ j \in IdsOf(RequestOf(j))
  <2>1. PICK g \in Requests : j \in IdsOf(g) BY <1>3 DEF Ids
  <2>2. RequestOf(j) = g BY <1>2, <2>1
  <2>3. QED BY <2>1, <2>2
<1>4. ASSUME NEW g \in Requests PROVE 0 \notin IdsOf(g)
  <2>1. g \in Nat \ {0} /\ Req[g].children \in Seq(Nat \ {0}) BY ReqAssumption
  <2>2. \A n \in DOMAIN Req[g].children : Req[g].children[n] # 0 BY <2>1
  <2>3. QED BY <2>1, <2>2 DEF IdsOf, ToSet
<1>5. 0 \notin Ids BY <1>4 DEF Ids
<1>6. Requests \subseteq Ids BY <1>1
<1>7. QED BY <1>1, <1>2, <1>3, <1>5, <1>6

\* The children of a request are tasks of it, all different and none a request,
\* and only a request that generates has children.
LEMMA ChildFacts ==
    ASSUME NEW g \in Requests
    PROVE  /\ Len(Children(g)) \in Nat /\ Len(Children(g)) < NSlots
           /\ DOMAIN Children(g) = 1..Len(Children(g))
           /\ \A n \in DOMAIN Children(g) :
                 /\ Children(g)[n] \in IdsOf(g) /\ Children(g)[n] # g
                 /\ IsChild(Children(g)[n])
           /\ \A m, n \in DOMAIN Children(g) : Children(g)[m] = Children(g)[n] => m = n
           /\ \A j \in IdsOf(g) : j # g =>
                 /\ \E n \in DOMAIN Children(g) : j = Children(g)[n]
                 /\ IsChild(j) /\ Req[g].type \in Generating
<1> DEFINE c == Children(g)
<1>1. /\ c \in Seq(Nat \ {0}) /\ Len(c) < NSlots /\ IsInjective(c)
      /\ g \notin ToSet(c) /\ (c # <<>> => Req[g].type \in Generating)
  BY ReqAssumption DEF Children
<1>2. ToSet(c) = {c[n] : n \in DOMAIN c} BY DEF ToSet
<1>3. IdsOf(g) = {g} \cup ToSet(c) BY DEF IdsOf, Children
<1> HIDE DEF c
<1>4. Len(c) \in Nat /\ DOMAIN c = 1..Len(c) BY <1>1
<1>5. \A n \in DOMAIN c : c[n] \in IdsOf(g) /\ c[n] # g BY <1>1, <1>2, <1>3
<1>6. \A j \in IdsOf(g) : j # g => IsChild(j)
  <2>1. SUFFICES ASSUME NEW j \in IdsOf(g), j \in Requests PROVE j = g
    BY DEF IsChild
  <2>2. j \in IdsOf(j) BY DEF IdsOf
  <2>3. QED BY <2>1, <2>2, ReqAssumption
<1>7. \A m, n \in DOMAIN c : c[m] = c[n] => m = n BY <1>1 DEF IsInjective
<1>8. ASSUME NEW j \in IdsOf(g), j # g
      PROVE  (\E n \in DOMAIN c : j = c[n]) /\ Req[g].type \in Generating
  <2>1. PICK n \in DOMAIN c : j = c[n] BY <1>2, <1>3, <1>8
  <2>2. c # <<>> BY <1>1, <2>1
  <2>3. QED BY <1>1, <2>1, <2>2
<1>9. QED BY <1>1, <1>4, <1>5, <1>6, <1>7, <1>8 DEF c

\* What a task in a deque or in hand can be.
LEMMA TaskFields ==
    /\ \A g \in Requests : /\ RequestTask(g).id = g
                           /\ RequestTask(g).type = Req[g].type
                           /\ RequestTask(g).id_slot \in Nat \cup {NoSlot}
    /\ \A j : CancelTask(j).id = 0 /\ CancelTask(j).type = "CANCEL"
                                   /\ CancelTask(j).id_target = j
    /\ NoTask.id = 0 /\ NoTask.type = "NEXT_RESPONSE"
    /\ \A g \in Requests : g # 0
    /\ \A g \in Requests : Req[g].type \in Generating \cup Embedding \cup SlotAction
BY ReqAssumption DEF RequestTask, UserTask, CancelTask, NoTask, NextResponseTask, NoSlot

\* A request in hand is one of Requests; the task in hand is a request unless
\* its type says otherwise.
LEMMA CurFacts ==
    ASSUME TaskType
    PROVE  /\ cur.id \in Requests \cup {0}
           /\ cur.type \in Generating \cup Embedding \cup SlotAction
                => /\ cur.id \in Requests /\ cur = RequestTask(cur.id)
                   /\ cur.type = Req[cur.id].type /\ cur \in RequestTasks
           /\ cur.type = "CANCEL"
                => cur.id = 0 /\ cur.id_target \in Ids /\ cur = CancelTask(cur.id_target)
           /\ cur.id # 0 => cur = RequestTask(cur.id) /\ cur.id \in Requests
           /\ cur.id_slot \in Nat \cup {NoSlot}
<1>1. CASE cur \in RequestTasks
  <2>1. PICK g \in Requests : cur = RequestTask(g) BY <1>1 DEF RequestTasks
  <2>2. cur.id = g /\ cur.type = Req[g].type /\ g # 0 /\ cur.id_slot \in Nat \cup {NoSlot}
    BY <2>1, TaskFields
  <2>3. cur.type # "CANCEL"
    BY <2>2, TaskFields DEF Generating, Embedding, SlotAction
  <2>4. QED BY <1>1, <2>1, <2>2, <2>3
<1>2. CASE cur \in CancelTasks
  <2>1. PICK j \in Ids : cur = CancelTask(j) BY <1>2 DEF CancelTasks
  <2>2. /\ cur.id = 0 /\ cur.type = "CANCEL" /\ cur.id_target = j
        /\ cur.id_slot = NoSlot
    BY <2>1 DEF CancelTask
  <2>3. QED BY <2>1, <2>2 DEF Generating, Embedding, SlotAction
<1>3. CASE cur = NoTask
  BY <1>3 DEF NoTask, NextResponseTask, Generating, Embedding, SlotAction
<1>4. QED BY <1>1, <1>2, <1>3 DEF TaskType

----------------------------------------------------------------------------
(* Counting the tokens of a slot in the batch. *)

\* The tokens of slot s in the part of a batch b after from, up to to.
Tokens(b, from, to, s) == {n \in (from + 1)..to : b[n] = s}

LEMMA TokensFinite ==
    ASSUME NEW b, NEW from \in Int, NEW to \in Int, NEW s
    PROVE  /\ IsFiniteSet(Tokens(b, from, to, s))
           /\ Cardinality(Tokens(b, from, to, s)) \in Nat
           /\ Cardinality(Tokens(b, from, to, s)) = 0 <=> Tokens(b, from, to, s) = {}
<1>1. IsFiniteSet((from + 1)..to) BY FS_Interval
<1>2. Tokens(b, from, to, s) \in SUBSET ((from + 1)..to) BY DEF Tokens
<1>3. IsFiniteSet(Tokens(b, from, to, s)) BY <1>1, <1>2, FS_Subset
<1>4. QED BY <1>3, FS_CardinalityType, FS_EmptySet

\* The tokens of two parts that follow each other.
Splits(b, from, mid, to, s) ==
    /\ Tokens(b, mid, to, s) \subseteq Tokens(b, from, to, s)
    /\ Cardinality(Tokens(b, from, to, s))
         = Cardinality(Tokens(b, from, mid, s)) + Cardinality(Tokens(b, mid, to, s))

LEMMA TokensSplit ==
    ASSUME NEW b, NEW from \in Int, NEW mid \in Int, NEW to \in Int, NEW s,
           from <= mid, mid <= to
    PROVE  Splits(b, from, mid, to, s)
<1> DEFINE A == Tokens(b, from, mid, s)
           B == Tokens(b, mid, to, s)
<1>1. Tokens(b, from, to, s) = A \cup B BY DEF Tokens
<1>2. A \cap B = {} BY DEF Tokens
<1>3. IsFiniteSet(A) /\ IsFiniteSet(B) BY TokensFinite
<1> HIDE DEF A, B
<1>4. Cardinality(A \cup B) = Cardinality(A) + Cardinality(B)
  <2>1. Cardinality(A \cup B) = Cardinality(A) + Cardinality(B) - Cardinality(A \cap B)
    BY <1>3, FS_Union
  <2>2. Cardinality(A \cap B) = 0 BY <1>2, FS_EmptySet
  <2>3. Cardinality(A) \in Nat /\ Cardinality(B) \in Nat BY <1>3, FS_CardinalityType
  <2>4. QED BY <2>1, <2>2, <2>3
<1>5. QED BY <1>1, <1>4 DEF A, B, Splits

\* A batch with m more tokens of slot c.
More(b, m, c) == b \o [n \in 1..m |-> c]

\* The tokens of a slot that gets m more, and had none; other slots.
Appended(b, m, c, d) ==
    /\ d \in Seq(Slots) /\ Len(d) = Len(b) + m
    /\ \A s \in Slots : s # c => Tokens(d, 0, Len(d), s) = Tokens(b, 0, Len(b), s)
    /\ Tokens(b, 0, Len(b), c) = {} =>
          /\ Tokens(d, 0, Len(d), c) = (Len(b) + 1)..(Len(b) + m)
          /\ Cardinality(Tokens(d, 0, Len(d), c)) = m
    /\ \A n \in 1..Len(b) : d[n] = b[n]
    /\ \A n \in (Len(b) + 1)..(Len(b) + m) : d[n] = c

LEMMA TokensAppend ==
    ASSUME NEW b \in Seq(Slots), NEW m \in Nat, NEW c \in Slots, NEW d, d = More(b, m, c)
    PROVE  Appended(b, m, c, d)
<1> DEFINE e == [n \in 1..m |-> c]
<1>1. e \in Seq(Slots) /\ Len(e) = m /\ \A n \in 1..m : e[n] = c OBVIOUS
<1>0. d = b \o e BY DEF More
<1>2. Len(b) \in Nat OBVIOUS
<1> HIDE DEF e
<1>3. d \in Seq(Slots) /\ Len(d) = Len(b) + m BY <1>0, <1>1
<1>4. \A n \in 1..Len(b) : d[n] = b[n] BY <1>0, <1>1
<1>5. \A n \in (Len(b) + 1)..(Len(b) + m) : d[n] = c
  <2>1. SUFFICES ASSUME NEW n \in (Len(b) + 1)..(Len(b) + m) PROVE d[n] = c OBVIOUS
  <2>2. n - Len(b) \in 1..m /\ d[n] = e[n - Len(b)] BY <1>0, <1>1, <1>2
  <2>3. QED BY <1>1, <2>2
<1>6. \A s \in Slots : s # c => Tokens(d, 0, Len(d), s) = Tokens(b, 0, Len(b), s)
  BY <1>2, <1>3, <1>4, <1>5 DEF Tokens
<1>7. ASSUME Tokens(b, 0, Len(b), c) = {}
      PROVE  /\ Tokens(d, 0, Len(d), c) = (Len(b) + 1)..(Len(b) + m)
             /\ Cardinality(Tokens(d, 0, Len(d), c)) = m
  <2>1. \A n \in 1..Len(b) : b[n] # c BY <1>7 DEF Tokens
  <2>2. Tokens(d, 0, Len(d), c) = (Len(b) + 1)..(Len(b) + m)
    BY <1>2, <1>3, <1>4, <1>5, <2>1 DEF Tokens
  <2>3. Cardinality((Len(b) + 1)..(Len(b) + m)) = m BY <1>2, FS_Interval
  <2>4. QED BY <2>2, <2>3
<1>8. QED BY <1>3, <1>4, <1>5, <1>6, <1>7 DEF Appended

----------------------------------------------------------------------------
(* What is ahead of a slot. *)

LEMMA SizeFacts ==
    /\ NSlots \in Nat \ {0} /\ NBatch \in Nat \ {0} /\ NCtx \in Nat
    /\ Slots = 0..(NSlots - 1) /\ 0 \in Slots /\ CacheSizes \subseteq 1..NCtx
BY SizesAssumption DEF Slots

LEMMA SlotTypes ==
    ASSUME DataType, NEW s \in Slots
    PROVE  /\ state[s] \in SlotStates /\ task[s] \in Ids \cup {0}
           /\ prompt[s] \in Nat /\ prompt[s] <= NCtx
           /\ kv[s] \in Nat /\ kv[s] <= NCtx
           /\ i_batch[s] \in Int /\ i_batch[s] >= -1 /\ i_batch[s] <= NBatch + NSlots
BY SizeFacts DEF DataType

\* Rest and Ahead are about the same tokens, and between two updates there
\* are none.
RestIs(s) ==
    /\ Rest(s) = Tokens(batch, Start, Len(batch), s)
    /\ Start \in Nat /\ Start <= Len(batch) /\ Len(batch) \in Nat
    /\ IsFiniteSet(Rest(s)) /\ Cardinality(Rest(s)) \in Nat
    /\ Cardinality(Rest(s)) = 0 <=> Rest(s) = {}
    /\ main # "error" => Ahead(s) = Cardinality(Rest(s))
    /\ main \in {"fetch", "task"} => Rest(s) = {} /\ i = 0 /\ i_next = 0 /\ Len(batch) = 0

LEMMA RestFacts == DataType /\ Phase => \A s \in Slots : RestIs(s)
<1> SUFFICES ASSUME DataType, Phase, NEW s \in Slots PROVE RestIs(s)
  OBVIOUS
<1>1. Rest(s) = Tokens(batch, Start, Len(batch), s) BY DEF Rest, Tokens
<1>2. Len(batch) \in Nat /\ i \in 0..Len(batch) /\ i_next \in 0..Len(batch)
  BY DEF DataType
<1>3. Start \in Nat /\ Start <= Len(batch) BY <1>2 DEF Start
<1>4. /\ IsFiniteSet(Rest(s)) /\ Cardinality(Rest(s)) \in Nat
      /\ Cardinality(Rest(s)) = 0 <=> Rest(s) = {}
  BY <1>1, <1>2, <1>3, TokensFinite
<1>5. ASSUME main \in {"fetch", "task"}
      PROVE  Rest(s) = {} /\ i = 0 /\ i_next = 0 /\ Len(batch) = 0
  <2>1. batch = <<>> BY <1>5 DEF Phase
  <2>2. Len(batch) = 0 /\ i = 0 BY <1>2, <2>1
  <2>3. QED BY <1>2, <1>5, <2>2 DEF Rest, Start
<1>6. ASSUME main # "error" PROVE Ahead(s) = Cardinality(Rest(s))
  <2>1. CASE main \in {"batch", "decode"} BY <2>1 DEF Ahead, Rest, Start, CountIn
  <2>2. CASE main = "sample" BY <2>2 DEF Ahead, Rest, Start, CountIn
  <2>3. CASE main \in {"fetch", "task"}
    <3>1. Cardinality(Rest(s)) = 0 BY <1>4, <1>5, <2>3
    <3>2. QED BY <2>3, <3>1 DEF Ahead
  <2>4. QED BY <1>6, <2>1, <2>2, <2>3 DEF DataType
<1>7. QED BY <1>1, <1>2, <1>3, <1>4, <1>5, <1>6 DEF RestIs

\* Between two updates: no prompt waits to be sampled, prompt and KV cache
\* agree.
Quiet(s) ==
    /\ SlotOK(s) /\ state[s] # "DONE_PROMPT"
    /\ state[s] = "GENERATING" => i_batch[s] = -1 /\ kv[s] <= prompt[s]
    /\ ~(task[s] # 0 /\ IsChild(task[s])) =>
          /\ prompt[s] <= kv[s]
          /\ state[s] = "GENERATING" => prompt[s] = kv[s]

LEMMA QuietIs ==
    DataType /\ Phase /\ main \in {"fetch", "task"}
        => (DataInv <=> \A s \in Slots : Quiet(s))
<1> SUFFICES ASSUME DataType, Phase, main \in {"fetch", "task"}
             PROVE  DataInv <=> \A s \in Slots : Quiet(s)
  OBVIOUS
<1>1. SUFFICES ASSUME NEW s \in Slots
               PROVE  SlotOK(s) /\ TokenOK(s) /\ KvOK(s) /\ EmbedOK(s) <=> Quiet(s)
  BY DEF DataInv
<1>2. /\ Rest(s) = {} /\ i = 0 /\ i_next = 0 /\ Len(batch) = 0
      /\ Cardinality(Rest(s)) = 0 <=> Rest(s) = {}
      /\ Ahead(s) = Cardinality(Rest(s))
  BY RestFacts DEF RestIs
<1>3. Ahead(s) = 0 BY <1>2
<1>4. i_batch[s] \in Int /\ kv[s] \in Nat /\ prompt[s] \in Nat
  BY SizeFacts DEF DataType
<1>5. ~Pending(s) BY <1>2, <1>4 DEF Pending
<1>6. TokenOK(s) <=> /\ state[s] # "DONE_PROMPT"
                     /\ state[s] = "GENERATING" => i_batch[s] = -1
  BY <1>2, <1>4, <1>5 DEF TokenOK, Sampling
<1>7. KvOK(s) <=> /\ ~(task[s] # 0 /\ IsChild(task[s])) =>
                       /\ prompt[s] <= kv[s]
                       /\ state[s] \in Sampling => prompt[s] = kv[s]
                  /\ state[s] \in Sampling => kv[s] <= prompt[s]
  BY <1>2, <1>3, <1>4 DEF KvOK, BackedByKv, Sampling
<1>8. state[s] # "DONE_PROMPT" => EmbedOK(s) BY DEF EmbedOK
<1>9. QED BY <1>6, <1>7, <1>8 DEF Quiet, Sampling

\* A step that ends in such a state need only keep the slots quiet.
LEMMA QuietStep ==
    ASSUME DataType', Phase', main' \in {"fetch", "task"}, \A s \in Slots : Quiet(s)'
    PROVE  DataInv'
<1>1. (DataType /\ Phase /\ main \in {"fetch", "task"}
          => (DataInv <=> \A s \in Slots : Quiet(s)))'
  BY QuietIs, PTL
<1>2. QED BY <1>1

\* What the task loop starts from.
LEMMA QuietBefore ==
    ASSUME DataInv, main \in {"fetch", "task"}
    PROVE  /\ \A s \in Slots : Quiet(s)
           /\ batch = <<>> /\ i = 0 /\ i_next = 0 /\ n_batch = NBatch /\ Len(batch) = 0
<1>1. DataType /\ Phase BY DEF DataInv
<1>2. \A s \in Slots : Quiet(s) BY <1>1, QuietIs
<1>3. i = 0 /\ i_next = 0 /\ Len(batch) = 0 BY <1>1, RestFacts, SizeFacts DEF RestIs
<1>4. QED BY <1>1, <1>2, <1>3 DEF Phase

----------------------------------------------------------------------------
(* process_single_task and the slots. *)

\* A step of the task loop: the batch is empty before and after.
LEMMA TaskStep ==
    ASSUME DataInv, main \in {"fetch", "task"}, main' \in {"fetch", "task"},
           UNCHANGED <<k, batch_vars>>,
           state' \in [Slots -> SlotStates], task' \in [Slots -> Ids \cup {0}],
           \A s \in Slots : state'[s] = "IDLE" <=> task'[s] = 0,
           prompt' \in [Slots -> 0..NCtx], kv' \in [Slots -> 0..NCtx],
           UNCHANGED i_batch,
           \A s \in Slots : Quiet(s)'
    PROVE  DataInv'
<1>1. DataType /\ Phase BY DEF DataInv
<1>2. DataType' BY <1>1 DEF DataType, batch_vars
<1>3. Phase' BY <1>1 DEF Phase, batch_vars
<1>4. QED BY <1>2, <1>3, QuietStep

\* A slot that a step leaves as it is stays quiet.
LEMMA QuietKept ==
    ASSUME NEW s \in Slots, Quiet(s), state'[s] = state[s], task'[s] = task[s],
           prompt'[s] = prompt[s], kv'[s] = kv[s], i_batch'[s] = i_batch[s]
    PROVE  Quiet(s)'
BY DEF Quiet, SlotOK, HasPrompt, NTokens, TypeOf

\* An idle slot is quiet when it has the cells of its prompt.
LEMMA QuietIdle ==
    ASSUME NEW s \in Slots, state'[s] = "IDLE", prompt'[s] <= kv'[s]
    PROVE  Quiet(s)'
BY DEF Quiet, SlotOK, HasPrompt

LEMMA FetchData ==
    ASSUME DataInv, Fetch PROVE DataInv'
<1>1. \A s \in Slots : Quiet(s) BY QuietBefore DEF Fetch
<1>2. \A s \in Slots : Quiet(s)' BY <1>1, QuietKept DEF Fetch, slot_vars
<1>3. QED BY <1>2, TaskStep DEF Fetch, slot_vars, DataInv, DataType

\* Saving a prompt and loading another one, or clearing the slot.
LEMMA CacheFacts ==
    ASSUME DataType, NEW s \in Slots, UpdateCache(s)
    PROVE  /\ prompt' \in [Slots -> 0..NCtx] /\ kv' \in [Slots -> 0..NCtx]
           /\ \A t \in Slots : t # s => prompt'[t] = prompt[t] /\ kv'[t] = kv[t]
           /\ prompt[s] <= kv[s] => prompt'[s] <= kv'[s]
<1>1. CASE UNCHANGED <<prompt, kv>> BY <1>1 DEF DataType
<1>2. CASE \E n \in CacheSizes \cup {0} :
              /\ prompt' = [prompt EXCEPT ![s] = n] /\ kv' = [kv EXCEPT ![s] = n]
  <2>1. PICK n \in CacheSizes \cup {0} :
              /\ prompt' = [prompt EXCEPT ![s] = n] /\ kv' = [kv EXCEPT ![s] = n]
    BY <1>2
  <2>2. n \in 0..NCtx BY SizeFacts
  <2>3. QED BY <2>1, <2>2 DEF DataType
<1>3. QED BY <1>1, <1>2 DEF UpdateCache

\* An idle slot whose cache is updated, all else the same.
LEMMA CacheQuiet ==
    ASSUME DataInv, main = "task", NEW s \in Slots, s \in Idle, UpdateCache(s),
           UNCHANGED <<state, task, i_batch>>, TaskOver
    PROVE  DataInv'
<1>1. DataType /\ \A t \in Slots : Quiet(t) BY QuietBefore DEF DataInv
<1>2. /\ prompt' \in [Slots -> 0..NCtx] /\ kv' \in [Slots -> 0..NCtx]
      /\ \A t \in Slots : t # s => prompt'[t] = prompt[t] /\ kv'[t] = kv[t]
      /\ prompt[s] <= kv[s] => prompt'[s] <= kv'[s]
  BY <1>1, CacheFacts
<1>3. state[s] = "IDLE" /\ task[s] = 0 BY <1>1 DEF Idle, is_processing, DataType
<1>4. prompt[s] <= kv[s] BY <1>1, <1>3 DEF Quiet
<1>5. Quiet(s)' BY <1>2, <1>3, <1>4, QuietIdle
<1>6. \A t \in Slots : t # s => Quiet(t)' BY <1>1, <1>2, QuietKept
<1>7. \A t \in Slots : Quiet(t)' BY <1>5, <1>6
<1>8. /\ state' \in [Slots -> SlotStates] /\ task' \in [Slots -> Ids \cup {0}]
      /\ \A t \in Slots : state'[t] = "IDLE" <=> task'[t] = 0
      /\ UNCHANGED i_batch
  BY <1>1 DEF DataType
<1>9. main' \in {"fetch", "task"} /\ UNCHANGED <<k, batch_vars>>
  BY DEF TaskOver
<1>10. QED BY <1>2, <1>7, <1>8, <1>9, TaskStep

\* Nothing but the queues changes.
LEMMA SameSlots ==
    ASSUME DataInv, main = "task", UNCHANGED slot_vars, main' \in {"fetch", "task"},
           UNCHANGED <<k, batch_vars>>
    PROVE  DataInv'
<1>1. DataType /\ \A t \in Slots : Quiet(t) BY QuietBefore DEF DataInv
<1>2. \A t \in Slots : Quiet(t)' BY <1>1, QuietKept DEF slot_vars
<1>3. QED BY <1>1, <1>2, TaskStep DEF slot_vars, DataType

LEMMA DeferData ==
    ASSUME DataInv, TaskDefer PROVE DataInv'
<1>1. main = "task" /\ UNCHANGED <<state, task, i_batch>> /\ TaskOver
  BY DEF TaskDefer, Defer
<1>2. CASE UNCHANGED <<prompt, kv>>
  BY <1>1, <1>2, SameSlots DEF slot_vars, TaskOver
<1>3. CASE \E s \in Slots : s \in Idle /\ UpdateCache(s) BY <1>1, <1>3, CacheQuiet
<1>4. QED BY <1>2, <1>3 DEF TaskDefer

LEMMA RejectData ==
    ASSUME DataInv, TaskReject PROVE DataInv'
BY CacheQuiet DEF TaskReject

\* launch_slot_with_task: the parent starts, the children wait.
LEMMA LaunchData ==
    ASSUME DataInv, TaskType, TaskLaunch PROVE DataInv'
<1>1. /\ main = "task" /\ TaskOver /\ UNCHANGED i_batch
      /\ cur.id \in Requests
  BY CurFacts DEF TaskLaunch
<1>2. DataType /\ \A t \in Slots : Quiet(t) BY <1>1, QuietBefore DEF DataInv
<1> DEFINE c == Children(cur.id)
<1>3. PICK s \in Slots : \E free \in InOrder(FreeSlots(s)) :
         /\ s \in Idle /\ EnoughFor(s) /\ UpdateCache(s)
         /\ LET child == [t \in Slots |-> {n \in DOMAIN c : free[n] = t}]
            IN  /\ task' = [t \in Slots |->
                       IF t = s THEN cur.id
                       ELSE IF child[t] # {} THEN c[CHOOSE n \in child[t] : TRUE]
                       ELSE task[t]]
                /\ state' = [t \in Slots |->
                       IF t = s THEN "STARTED"
                       ELSE IF child[t] # {} THEN "WAIT_OTHER" ELSE state[t]]
  BY DEF TaskLaunch
<1>30. PICK free \in InOrder(FreeSlots(s)) :
         /\ s \in Idle /\ EnoughFor(s) /\ UpdateCache(s)
         /\ LET child == [t \in Slots |-> {n \in DOMAIN c : free[n] = t}]
            IN  /\ task' = [t \in Slots |->
                       IF t = s THEN cur.id
                       ELSE IF child[t] # {} THEN c[CHOOSE n \in child[t] : TRUE]
                       ELSE task[t]]
                /\ state' = [t \in Slots |->
                       IF t = s THEN "STARTED"
                       ELSE IF child[t] # {} THEN "WAIT_OTHER" ELSE state[t]]
  BY <1>3
<1> DEFINE child(t) == {n \in DOMAIN c : free[n] = t}
           who(t) == c[CHOOSE n \in child(t) : TRUE]
<1>4. \A t \in Slots :
        /\ task'[t] = IF t = s THEN cur.id ELSE IF child(t) # {} THEN who(t) ELSE task[t]
        /\ state'[t] = IF t = s THEN "STARTED"
                       ELSE IF child(t) # {} THEN "WAIT_OTHER" ELSE state[t]
  BY <1>30
<1>5. \A t \in Slots : child(t) # {} => who(t) \in Ids /\ IsChild(who(t))
  BY <1>1, ChildFacts, IdFacts
<1>6. cur.id \in Ids /\ 0 \notin Ids BY <1>1, IdFacts
<1> HIDE DEF child, who
<1>7. task' \in [Slots -> Ids \cup {0}]
  <2>1. \A t \in Slots : task'[t] \in Ids \cup {0} BY <1>2, <1>4, <1>5, <1>6 DEF DataType
  <2>2. task' = [t \in Slots |-> task'[t]] BY <1>30
  <2>3. QED BY <2>1, <2>2
<1>8. state' \in [Slots -> SlotStates]
  <2>1. \A t \in Slots : state'[t] \in SlotStates
    BY <1>2, <1>4 DEF DataType, SlotStates
  <2>2. state' = [t \in Slots |-> state'[t]] BY <1>30
  <2>3. QED BY <2>1, <2>2
<1>9. \A t \in Slots : state'[t] = "IDLE" <=> task'[t] = 0
  BY <1>2, <1>4, <1>5, <1>6 DEF DataType
<1>10. /\ prompt' \in [Slots -> 0..NCtx] /\ kv' \in [Slots -> 0..NCtx]
       /\ \A t \in Slots : t # s => prompt'[t] = prompt[t] /\ kv'[t] = kv[t]
       /\ prompt[s] <= kv[s] => prompt'[s] <= kv'[s]
  BY <1>2, <1>30, CacheFacts
<1>11. Quiet(s)'
  <2>1. state[s] = "IDLE" /\ task[s] = 0 BY <1>2, <1>30 DEF Idle, is_processing, DataType
  <2>2. prompt[s] <= kv[s] BY <1>2, <2>1 DEF Quiet
  <2>3. state'[s] = "STARTED" /\ task'[s] = cur.id BY <1>4
  <2>4. QED BY <1>1, <1>10, <2>2, <2>3 DEF Quiet, SlotOK, HasPrompt
<1>12. ASSUME NEW t \in Slots, t # s, child(t) # {} PROVE Quiet(t)'
  <2>1. state'[t] = "WAIT_OTHER" /\ task'[t] = who(t) BY <1>4, <1>12
  <2>2. IsChild(task'[t]) /\ task'[t] # 0 BY <1>5, <1>6, <1>12, <2>1
  <2>3. QED BY <2>1, <2>2 DEF Quiet, SlotOK, HasPrompt, IsChild
<1>13. ASSUME NEW t \in Slots, t # s, child(t) = {} PROVE Quiet(t)'
  BY <1>1, <1>2, <1>4, <1>10, <1>13, QuietKept
<1>14. \A t \in Slots : Quiet(t)' BY <1>11, <1>12, <1>13
<1>15. main' \in {"fetch", "task"} /\ UNCHANGED <<k, batch_vars>> BY <1>1 DEF TaskOver
<1>16. QED BY <1>1, <1>7, <1>8, <1>9, <1>10, <1>14, <1>15, TaskStep

\* What a release does to the slots.
LEMMA ReleaseFacts ==
    ASSUME DataType, NEW s \in Slots, NEW clear \in BOOLEAN, release(s, clear)
    PROVE  /\ state' \in [Slots -> SlotStates] /\ task' \in [Slots -> Ids \cup {0}]
           /\ prompt' \in [Slots -> 0..NCtx] /\ kv' \in [Slots -> 0..NCtx]
           /\ \A t \in Slots : state'[t] = "IDLE" <=> task'[t] = 0
           /\ state'[s] = "IDLE" /\ task'[s] = 0
           /\ prompt'[s] = IF Cleared(s, clear) THEN 0 ELSE prompt[s]
           /\ kv'[s] = IF Cleared(s, clear) THEN 0 ELSE kv[s]
           /\ \A t \in Slots : t # s =>
                 /\ state'[t] = state[t] /\ task'[t] = task[t]
                 /\ prompt'[t] = prompt[t] /\ kv'[t] = kv[t]
<1>1. 0 \in 0..NCtx BY SizeFacts
<1>2. QED BY <1>1 DEF release, DataType, SlotStates

LEMMA CancelData ==
    ASSUME DataInv, TaskType, TaskCancel PROVE DataInv'
<1>1. /\ main = "task" /\ main' = "fetch" /\ UNCHANGED <<k, batch_vars, i_batch>>
      /\ cur.id_target \in Ids
  BY CurFacts DEF TaskCancel
<1>2. DataType /\ \A t \in Slots : Quiet(t) BY <1>1, QuietBefore DEF DataInv
<1>3. CASE ~ \E s \in Slots : task[s] = cur.id_target
  BY <1>1, <1>3, SameSlots DEF TaskCancel, slot_vars
<1>4. CASE \E s \in Slots : task[s] = cur.id_target
  <2>1. PICK s \in Slots : task[s] = cur.id_target /\ release(s, FALSE)
    BY <1>4 DEF TaskCancel
  <2>2. task[s] # 0 BY <1>1, <2>1, IdFacts
  <2>3. /\ state' \in [Slots -> SlotStates] /\ task' \in [Slots -> Ids \cup {0}]
        /\ prompt' \in [Slots -> 0..NCtx] /\ kv' \in [Slots -> 0..NCtx]
        /\ \A t \in Slots : state'[t] = "IDLE" <=> task'[t] = 0
        /\ state'[s] = "IDLE" /\ task'[s] = 0
        /\ prompt'[s] = IF Cleared(s, FALSE) THEN 0 ELSE prompt[s]
        /\ kv'[s] = IF Cleared(s, FALSE) THEN 0 ELSE kv[s]
        /\ \A t \in Slots : t # s =>
              /\ state'[t] = state[t] /\ task'[t] = task[t]
              /\ prompt'[t] = prompt[t] /\ kv'[t] = kv[t]
    BY <1>2, <2>1, ReleaseFacts
  <2>4. prompt'[s] <= kv'[s] BY <1>2, <2>1, <2>3 DEF Quiet, Cleared
  <2>5. Quiet(s)' BY <2>1, <2>3, <2>4, QuietIdle
  <2>6. \A t \in Slots : t # s => Quiet(t)' BY <1>1, <1>2, <2>3, QuietKept
  <2>7. QED BY <1>1, <2>3, <2>5, <2>6, TaskStep
<1>5. QED BY <1>3, <1>4

LEMMA SlotActionData ==
    ASSUME DataInv, TaskType, TaskSlotAction PROVE DataInv'
<1>1. main = "task" BY DEF TaskSlotAction
<1>2. DataType /\ \A t \in Slots : Quiet(t) BY <1>1, QuietBefore DEF DataInv
<1>3. PICK s \in Slots : s = Req[cur.id].id_slot % NSlots
  <2>1. cur.id \in Requests BY CurFacts DEF TaskSlotAction
  <2>2. Req[cur.id].id_slot \in Nat \cup {NoSlot} BY <2>1, ReqAssumption
  <2>3. Req[cur.id].id_slot \in Int BY <2>2 DEF NoSlot
  <2>4. QED BY <2>3, SizeFacts
<1>4. /\ UNCHANGED <<state, task, i_batch>> /\ TaskOver
      /\ \/ UNCHANGED <<prompt, kv>>
         \/ /\ ~is_processing(s)
            /\ \E f \in SlotFiles : prompt' = [prompt EXCEPT ![s] = f[1]]
                                    /\ kv' = [kv EXCEPT ![s] = f[2]]
         \/ /\ ~is_processing(s)
            /\ \E n \in 0..kv[s] : prompt' = [prompt EXCEPT ![s] = 0]
                                   /\ kv' = [kv EXCEPT ![s] = n]
  <2>1. 0 \in 0..kv[s]
    <3>1. kv[s] \in Nat BY <1>2, SlotTypes
    <3>2. QED BY <3>1
  <2>2. QED BY <1>3, <2>1 DEF TaskSlotAction, Defer
<1>5. CASE UNCHANGED <<prompt, kv>>
  BY <1>1, <1>4, <1>5, SameSlots DEF slot_vars, TaskOver
<1>6. ASSUME ~is_processing(s), NEW p \in 0..NCtx, NEW n \in 0..NCtx, p <= n,
             prompt' = [prompt EXCEPT ![s] = p], kv' = [kv EXCEPT ![s] = n]
      PROVE  DataInv'
  <2>1. /\ prompt' \in [Slots -> 0..NCtx] /\ kv' \in [Slots -> 0..NCtx]
        /\ prompt'[s] = p /\ kv'[s] = n
        /\ \A t \in Slots : t # s => prompt'[t] = prompt[t] /\ kv'[t] = kv[t]
    BY <1>2, <1>3, <1>6 DEF DataType
  <2>2. state'[s] = "IDLE" BY <1>4, <1>6 DEF is_processing
  <2>3. Quiet(s)' BY <1>3, <1>6, <2>1, <2>2, QuietIdle
  <2>4. \A t \in Slots : t # s => Quiet(t)' BY <1>2, <1>4, <2>1, QuietKept
  <2>5. \A t \in Slots : Quiet(t)' BY <2>3, <2>4
  <2>6. /\ state' \in [Slots -> SlotStates] /\ task' \in [Slots -> Ids \cup {0}]
        /\ \A t \in Slots : state'[t] = "IDLE" <=> task'[t] = 0
        /\ UNCHANGED i_batch
    BY <1>2, <1>4 DEF DataType
  <2>7. main' \in {"fetch", "task"} /\ UNCHANGED <<k, batch_vars>>
    BY <1>4 DEF TaskOver
  <2>8. QED BY <1>1, <2>1, <2>5, <2>6, <2>7, TaskStep
<1>7. \A f \in SlotFiles : f[1] \in 0..NCtx /\ f[2] \in 0..NCtx /\ f[1] <= f[2]
  <2>1. SUFFICES ASSUME NEW f \in SlotFiles
                 PROVE  f[1] \in 0..NCtx /\ f[2] \in 0..NCtx /\ f[1] <= f[2]
    OBVIOUS
  <2>2. CASE \E n \in CacheSizes : f = <<n, n>> BY <2>2, SizeFacts
  <2>3. CASE \E n \in 0..NCtx : f = <<0, n>> BY <2>3, SizeFacts
  <2>4. QED BY <2>2, <2>3 DEF SlotFiles
<1>8. 0 \in 0..NCtx /\ \A n \in 0..kv[s] : n \in 0..NCtx /\ 0 <= n
  <2>1. kv[s] \in Nat /\ kv[s] <= NCtx BY <1>2, SlotTypes
  <2>2. QED BY <2>1, SizeFacts
<1>9. ASSUME ~is_processing(s), NEW f \in SlotFiles,
             prompt' = [prompt EXCEPT ![s] = f[1]], kv' = [kv EXCEPT ![s] = f[2]]
      PROVE  DataInv'
  BY <1>6, <1>7, <1>9
<1>10. ASSUME ~is_processing(s), NEW n \in 0..kv[s],
             prompt' = [prompt EXCEPT ![s] = 0], kv' = [kv EXCEPT ![s] = n]
      PROVE  DataInv'
  BY <1>6, <1>8, <1>10
<1>11. QED BY <1>4, <1>5, <1>9, <1>10

----------------------------------------------------------------------------
(* Filling the batch: the tokens of the slots that generate. *)

\* RestFacts after a step.
LEMMA RestNext ==
    ASSUME DataType', Phase', NEW t \in Slots
    PROVE  /\ Rest(t)' = Tokens(batch', Start', Len(batch'), t)
           /\ Start' \in Nat /\ Start' <= Len(batch') /\ Len(batch') \in Nat
           /\ Cardinality(Rest(t)') \in Nat
           /\ Cardinality(Rest(t)') = 0 <=> Rest(t)' = {}
           /\ main' # "error" => Ahead(t)' = Cardinality(Rest(t)')
<1>1. (DataType /\ Phase => \A s \in Slots : RestIs(s))' BY RestFacts, PTL
<1>2. RestIs(t)' BY <1>1
<1>3. QED BY <1>2 DEF RestIs

\* The slots of a set, in order: each of them once.
LEMMA InOrderFacts ==
    ASSUME NEW S \in SUBSET Slots, NEW f \in InOrder(S)
    PROVE  /\ f \in Seq(Slots) /\ Len(f) <= NSlots /\ DOMAIN f = 1..Len(f)
           /\ Len(f) = Cardinality(S) /\ Cardinality(S) \in Nat
           /\ \A n \in DOMAIN f : f[n] \in S
           /\ \A m, n \in DOMAIN f : f[m] = f[n] => m = n
           /\ \A s \in S : \E n \in DOMAIN f : f[n] = s
<1> DEFINE c == Cardinality(S)
<1>1. IsFiniteSet(Slots) /\ Cardinality(Slots) = NSlots BY SizeFacts, FS_Interval
<1>2. IsFiniteSet(S) /\ c <= NSlots /\ c \in Nat
  BY <1>1, FS_Subset, FS_CardinalityType
<1>3. f \in [1..c -> S] /\ \A m, n \in 1..c : m < n => f[m] < f[n]
  BY DEF InOrder
<1> HIDE DEF c
<1>4. f \in Seq(Slots) /\ Len(f) = c /\ DOMAIN f = 1..Len(f) BY <1>2, <1>3
<1>5. ASSUME NEW m \in 1..c, NEW n \in 1..c, f[m] = f[n] PROVE m = n
  <2>1. f[m] \in Slots /\ f[n] \in Slots BY <1>3
  <2>11. f[m] \in Int /\ f[n] \in Int BY <2>1, SizeFacts
  <2>2. ~(m < n) BY <1>3, <1>5, <2>11
  <2>3. ~(n < m) BY <1>3, <1>5, <2>11
  <2>4. QED BY <1>2, <2>2, <2>3
<1>6. f \in Injection(1..c, S) BY <1>3, <1>5 DEF Injection, IsInjective
<1>7. IsFiniteSet(1..c) /\ Cardinality(1..c) = c BY <1>2, FS_Interval
<1>8. f \in Surjection(1..c, S) BY <1>2, <1>6, <1>7, FS_Injection DEF c
<1>9. \A s \in S : \E n \in 1..c : f[n] = s BY <1>8 DEF Surjection
<1>10. QED BY <1>2, <1>3, <1>4, <1>5, <1>9 DEF c

\* Every set of slots can be put in order, so that UpdateBegin and TaskLaunch
\* always find the sequences they are about.
LEMMA InOrderExists == \A S \in SUBSET Slots : InOrder(S) # {}
<1> DEFINE bad == {n \in Nat : \E S \in SUBSET Slots : Cardinality(S) = n /\ InOrder(S) = {}}
<1>1. SUFFICES ASSUME NEW X \in SUBSET Slots, InOrder(X) = {} PROVE FALSE OBVIOUS
<1>2. IsFiniteSet(Slots) BY SizeFacts, FS_Interval
<1>3. \A S \in SUBSET Slots : IsFiniteSet(S) /\ Cardinality(S) \in Nat
  BY <1>2, FS_Subset, FS_CardinalityType
<1>4. Cardinality(X) \in bad BY <1>1, <1>3
<1>5. PICK c \in bad : \A n \in bad : c <= n
  <2>1. bad \subseteq Nat /\ bad # {} BY <1>4
  <2> HIDE DEF bad
  <2>2. QED BY <2>1, LeastNat
<1>6. PICK S \in SUBSET Slots : Cardinality(S) = c /\ InOrder(S) = {} BY <1>5
<1>7. c \in Nat BY <1>5
<1>8. CASE c = 0
  <2>1. S = {} BY <1>3, <1>6, <1>8, FS_EmptySet
  <2>2. [n \in 1..c |-> 0] \in InOrder(S) BY <1>6, <1>8, <2>1 DEF InOrder
  <2>3. QED BY <1>6, <2>2
<1>9. CASE c # 0
  <2> DEFINE below == {NSlots - 1 - x : x \in S}
  <2>1. S # {} BY <1>6, <1>9, FS_EmptySet
  <2>2. below \subseteq Nat /\ below # {}
    <3>1. \A x \in S : NSlots - 1 - x \in Nat
      <4>1. \A x \in Slots : NSlots - 1 - x \in Nat BY SizeFacts
      <4>2. QED BY <4>1
    <3>2. below \subseteq Nat BY <3>1
    <3>3. below # {} BY <2>1
    <3>4. QED BY <3>2, <3>3
  <2>3. PICK y \in below : \A z \in below : y <= z
    <3> HIDE DEF below
    <3>1. QED BY <2>2, LeastNat
  <2>4. PICK last \in S : y = NSlots - 1 - last BY <2>3
  <2>5. \A x \in S : x <= last
    <3>1. SUFFICES ASSUME NEW x \in S PROVE x <= last OBVIOUS
    <3>2. NSlots - 1 - last <= NSlots - 1 - x BY <2>3, <2>4
    <3>3. x \in Int /\ last \in Int /\ NSlots \in Int BY SizeFacts
    <3>4. QED BY <3>2, <3>3
  <2>6. /\ S \ {last} \in SUBSET Slots /\ Cardinality(S \ {last}) = c - 1
    BY <1>3, <1>6, <2>4, FS_RemoveElement
  <2>7. c - 1 \notin bad /\ c - 1 \in Nat BY <1>5, <1>7, <1>9
  <2>8. InOrder(S \ {last}) # {} BY <2>6, <2>7
  <2>9. PICK f \in InOrder(S \ {last}) : TRUE BY <2>8
  <2>10. /\ f \in [1..(c - 1) -> S \ {last}]
         /\ \A m, n \in 1..(c - 1) : m < n => f[m] < f[n]
    BY <2>6, <2>9 DEF InOrder
  <2> DEFINE h == [n \in 1..c |-> IF n < c THEN f[n] ELSE last]
  <2>11. \A n \in 1..c : n < c => n \in 1..(c - 1) BY <1>7
  <2>12. h \in [1..c -> S] BY <2>4, <2>10, <2>11
  <2>13. ASSUME NEW m \in 1..c, NEW n \in 1..c, m < n PROVE h[m] < h[n]
    <3>1. m < c /\ m \in 1..(c - 1) BY <1>7, <2>13
    <3>2. CASE n < c BY <2>10, <2>11, <2>13, <3>1, <3>2
    <3>3. CASE ~(n < c)
      <4>1. f[m] \in S /\ f[m] # last BY <2>10, <3>1
      <4>2. f[m] <= last BY <2>5, <4>1
      <4>3. f[m] \in Slots /\ last \in Slots BY <2>4, <4>1
      <4>4. \A x \in Slots : x \in Int BY SizeFacts
      <4>5. f[m] < last BY <4>1, <4>2, <4>3, <4>4
      <4>6. QED BY <3>1, <3>3, <4>5
    <3>4. QED BY <3>2, <3>3
  <2>14. h \in InOrder(S)
    <3>1. DOMAIN h = 1..c OBVIOUS
    <3>2. \A m, n \in DOMAIN h : m < n => h[m] < h[n] BY <2>13, <3>1
    <3> HIDE DEF h
    <3>3. h \in [1..Cardinality(S) -> S] BY <1>6, <2>12
    <3>4. QED BY <3>2, <3>3 DEF InOrder
  <2>15. QED BY <1>6, <2>14
<1>10. QED BY <1>8, <1>9

LEMMA MinFacts ==
    ASSUME NEW S \in SUBSET Slots, S # {}
    PROVE  Min(S) \in S /\ \A s \in S : Min(S) <= s
<1>1. S \subseteq Nat BY SizeFacts
<1>2. \E x \in S : \A y \in S : x <= y BY <1>1, LeastNat
<1>3. QED BY <1>2 DEF Min

LEMMA BeginData ==
    ASSUME DataInv, UpdateBegin PROVE DataInv'
<1> DEFINE generating == {s \in Slots : state[s] = "GENERATING"}
           first == IF generating = {} THEN NoSlot ELSE Min(generating)
<1>1. /\ main = "fetch" /\ main' = "batch" /\ k' = 0
      /\ UNCHANGED <<state, task, kv, i, i_next, n_batch>>
  BY DEF UpdateBegin
<1>2. /\ DataType /\ Phase /\ \A t \in Slots : Quiet(t)
      /\ batch = <<>> /\ i = 0 /\ i_next = 0 /\ n_batch = NBatch
  BY <1>1, QuietBefore DEF DataInv
<1>3. PICK In \in SUBSET Slots :
        /\ In = {s \in generating : can_batch_with(first, s)}
        /\ \E added \in InOrder(In) :
             /\ batch' = added /\ slot_batched' = first
             /\ prompt' = [s \in Slots |-> prompt[s] + (IF s \in In THEN 1 ELSE 0)]
             /\ i_batch' = [s \in Slots |->
                   IF s \in In THEN (CHOOSE n \in DOMAIN added : added[n] = s) - 1
                   ELSE i_batch[s]]
  BY DEF UpdateBegin
<1>4. /\ batch' \in InOrder(In) /\ slot_batched' = first
      /\ prompt' = [s \in Slots |-> prompt[s] + (IF s \in In THEN 1 ELSE 0)]
      /\ i_batch' = [s \in Slots |->
            IF s \in In THEN (CHOOSE n \in DOMAIN batch' : batch'[n] = s) - 1
            ELSE i_batch[s]]
  BY <1>3
<1>5. \A s \in In : state[s] = "GENERATING" BY <1>3
<1>6. slot_batched' \in Slots \cup {NoSlot}
  <2>1. generating \in SUBSET Slots OBVIOUS
  <2>2. generating # {} => Min(generating) \in generating BY <2>1, MinFacts
  <2>3. QED BY <1>4, <2>2
<1> HIDE DEF generating, first
<1>7. /\ batch' \in Seq(Slots) /\ Len(batch') <= NSlots /\ DOMAIN batch' = 1..Len(batch')
      /\ \A n \in DOMAIN batch' : batch'[n] \in In
      /\ \A m, n \in DOMAIN batch' : batch'[m] = batch'[n] => m = n
      /\ \A s \in In : \E n \in DOMAIN batch' : batch'[n] = s
  BY <1>4, InOrderFacts
<1>8. Len(batch') \in Nat BY <1>7
<1>9. ASSUME NEW s \in In
      PROVE  \E n \in 1..Len(batch') :
                /\ batch'[n] = s /\ i_batch'[s] = n - 1
                /\ Tokens(batch', 0, Len(batch'), s) = {n}
                /\ prompt'[s] = prompt[s] + 1
  <2>1. PICK n \in DOMAIN batch' : n = CHOOSE m \in DOMAIN batch' : batch'[m] = s
    BY <1>7
  <2>2. batch'[n] = s BY <1>7, <2>1
  <2>3. i_batch'[s] = n - 1 /\ prompt'[s] = prompt[s] + 1 BY <1>4, <2>1
  <2>4. Tokens(batch', 0, Len(batch'), s) = {n}
    BY <1>7, <1>8, <2>2 DEF Tokens
  <2>5. QED BY <1>7, <2>2, <2>3, <2>4
<1>10. ASSUME NEW s \in Slots, s \notin In
       PROVE  /\ i_batch'[s] = i_batch[s] /\ prompt'[s] = prompt[s]
              /\ Tokens(batch', 0, Len(batch'), s) = {}
  <2>1. prompt[s] \in Nat BY <1>2, SlotTypes
  <2>2. Tokens(batch', 0, Len(batch'), s) = {} BY <1>7, <1>8, <1>10 DEF Tokens
  <2>3. QED BY <1>4, <1>10, <2>1, <2>2
<1>11. ASSUME NEW s \in In PROVE prompt[s] + 1 < NCtx /\ i_batch[s] = -1
  BY <1>2, <1>5 DEF Quiet, SlotOK
<1>12. DataType'
  <2>1. ASSUME NEW s \in Slots
        PROVE  prompt'[s] \in 0..NCtx /\ i_batch'[s] \in -1..(NBatch + NSlots)
    <3>1. prompt[s] \in Nat /\ prompt[s] <= NCtx /\ i_batch[s] \in -1..(NBatch + NSlots)
      BY <1>2, SlotTypes, SizeFacts
    <3>2. CASE s \in In
      <4>1. PICK n \in 1..Len(batch') : i_batch'[s] = n - 1 /\ prompt'[s] = prompt[s] + 1
        BY <1>9, <3>2
      <4>2. prompt[s] + 1 < NCtx BY <1>11, <3>2
      <4>3. prompt'[s] \in 0..NCtx BY <3>1, <4>1, <4>2, SizeFacts
      <4>4. Len(batch') <= NSlots BY <1>7
      <4>5. n - 1 \in -1..(NBatch + NSlots) BY <1>8, <4>4, SizeFacts
      <4>6. QED BY <4>1, <4>3, <4>5
    <3>3. CASE s \notin In BY <1>10, <3>1, <3>3, SizeFacts
    <3>4. QED BY <3>2, <3>3
  <2>2. prompt' = [s \in Slots |-> prompt'[s]] /\ i_batch' = [s \in Slots |-> i_batch'[s]]
    BY <1>4
  <2>3. prompt' \in [Slots -> 0..NCtx] /\ i_batch' \in [Slots -> -1..(NBatch + NSlots)]
    BY <2>1, <2>2
  <2>4. Len(batch') <= NBatch + NSlots BY <1>7, <1>8, SizeFacts
  <2>5. i' \in 0..Len(batch') /\ i_next' \in 0..Len(batch') BY <1>1, <1>2, <1>8
  <2>6. QED BY <1>1, <1>2, <1>6, <1>7, <2>3, <2>4, <2>5, SizeFacts DEF DataType
<1>13. Phase' BY <1>1, <1>2, <1>7, <1>8, SizeFacts DEF Phase
<1>14. Start' = 0 BY <1>1, <1>2 DEF Start
<1>15. ASSUME NEW s \in Slots
       PROVE  SlotOK(s)' /\ TokenOK(s)' /\ KvOK(s)' /\ EmbedOK(s)'
  <2>1. /\ Rest(s)' = Tokens(batch', 0, Len(batch'), s)
        /\ Cardinality(Rest(s)') = 0 <=> Rest(s)' = {}
        /\ Ahead(s)' = Cardinality(Rest(s)')
    BY <1>1, <1>12, <1>13, <1>14, RestNext
  <2>2. /\ Quiet(s) /\ state'[s] = state[s] /\ task'[s] = task[s] /\ kv'[s] = kv[s]
        /\ TypeOf(s)' = TypeOf(s) /\ NTokens(s)' = NTokens(s)
    BY <1>1, <1>2 DEF TypeOf, NTokens
  <2>3. prompt[s] \in Nat /\ kv[s] \in Nat /\ i_batch[s] \in Int BY <1>2, SlotTypes
  <2>4. state[s] # "DONE_PROMPT" BY <2>2 DEF Quiet
  <2>5. EmbedOK(s)' BY <2>2, <2>4 DEF EmbedOK
  <2>6. CASE s \in In
    <3>1. PICK n \in 1..Len(batch') :
                /\ batch'[n] = s /\ i_batch'[s] = n - 1
                /\ Tokens(batch', 0, Len(batch'), s) = {n}
                /\ prompt'[s] = prompt[s] + 1
      BY <1>9, <2>6
    <3>2. Rest(s)' = {n} /\ Ahead(s)' = 1 BY <2>1, <3>1, FS_Singleton
    <3>3. state[s] = "GENERATING" BY <1>5, <2>6
    <3>4. SlotOK(s)' BY <2>2, <3>1, <3>3 DEF SlotOK, HasPrompt
    <3>5. Pending(s)' BY <1>1, <1>2, <1>8, <3>1 DEF Pending
    <3>6. TokenOK(s)' BY <1>8, <2>2, <3>1, <3>2, <3>3, <3>5 DEF TokenOK, Working
    <3>7. KvOK(s)'
      BY <2>2, <2>3, <3>1, <3>2, <3>3 DEF KvOK, BackedByKv, Quiet
    <3>8. QED BY <2>5, <3>4, <3>6, <3>7
  <2>7. CASE s \notin In
    <3>1. Rest(s)' = {} /\ Ahead(s)' = 0 BY <1>10, <2>1, <2>7
    <3>2. i_batch'[s] = i_batch[s] /\ prompt'[s] = prompt[s] BY <1>10, <2>7
    <3>3. SlotOK(s)' BY <2>2, <3>2 DEF Quiet, SlotOK, HasPrompt
    <3>4. TokenOK(s)' BY <2>2, <2>4, <3>1, <3>2 DEF Quiet, TokenOK, Sampling
    <3>5. KvOK(s)'
      BY <2>2, <2>3, <2>4, <3>1, <3>2 DEF Quiet, KvOK, BackedByKv, Sampling
    <3>6. QED BY <2>5, <3>3, <3>4, <3>5
  <2>8. QED BY <2>6, <2>7
<1>16. QED BY <1>1, <1>12, <1>13, <1>15 DEF DataInv

----------------------------------------------------------------------------
(* Filling the batch: the prompts. *)

\* The step from one slot of the loop over the prompts to the next.
LoopStep ==
    /\ main = "batch" /\ main' \in {"batch", "decode"} /\ k' \in Slots
    /\ main' = "batch" => k' = k + 1
    /\ UNCHANGED <<i, i_next, n_batch>>

LEMMA NextSlotFacts ==
    ASSUME DataType, main = "batch", NEW end \in BOOLEAN, NextSlot(end),
           UNCHANGED <<i, i_next, n_batch>>
    PROVE  LoopStep
<1>1. CASE end \/ k = NSlots - 1 BY <1>1, SizeFacts DEF NextSlot, LoopStep
<1>2. CASE ~(end \/ k = NSlots - 1)
  <2>1. main' = "batch" /\ k' = k + 1 BY <1>2 DEF NextSlot
  <2>2. k + 1 \in Slots BY <1>2, SizeFacts DEF DataType
  <2>3. QED BY <2>1, <2>2 DEF LoopStep
<1>3. QED BY <1>1, <1>2

LEMMA PromptTypes ==
    ASSUME DataType, NEW s \in Slots, task[s] # 0
    PROVE  task[s] \in Ids /\ NTokens(s) \in Nat /\ RequestOf(task[s]) \in Requests
<1>1. task[s] \in Ids BY SlotTypes
<1>2. RequestOf(task[s]) \in Requests BY <1>1, IdFacts
<1>3. Req[RequestOf(task[s])].n_tokens \in Nat BY <1>2, ReqAssumption
<1>4. QED BY <1>1, <1>2, <1>3 DEF NTokens

\* What the loop has before the step.
LEMMA LoopBefore ==
    ASSUME DataInv, main = "batch"
    PROVE  /\ DataType /\ Phase /\ i = 0 /\ i_next = 0 /\ Start = 0 /\ Len(batch) \in Nat
           /\ \A s \in Slots :
                /\ SlotOK(s) /\ TokenOK(s) /\ KvOK(s) /\ EmbedOK(s)
                /\ Rest(s) = Tokens(batch, 0, Len(batch), s)
                /\ Cardinality(Rest(s)) \in Nat
                /\ Cardinality(Rest(s)) = 0 <=> Rest(s) = {}
                /\ Ahead(s) = Cardinality(Rest(s))
<1>1. DataType /\ Phase /\ i = 0 /\ i_next = 0 /\ Start = 0 /\ Len(batch) \in Nat
  BY DEF DataInv, Phase, DataType, Start
<1>2. ASSUME NEW s \in Slots
      PROVE  /\ Rest(s) = Tokens(batch, 0, Len(batch), s)
             /\ Cardinality(Rest(s)) \in Nat
             /\ Cardinality(Rest(s)) = 0 <=> Rest(s) = {}
             /\ Ahead(s) = Cardinality(Rest(s))
  <2>1. RestIs(s) BY <1>1, RestFacts
  <2>2. QED BY <1>1, <2>1 DEF RestIs
<1>3. QED BY <1>1, <1>2 DEF DataInv

\* And after it.
LEMMA LoopAfter ==
    ASSUME DataInv, LoopStep, DataType', Phase', NEW s \in Slots
    PROVE  /\ i' = 0 /\ i_next' = 0 /\ Start' = 0 /\ Len(batch') \in Nat
           /\ main' # "error" /\ main' # "sample"
           /\ Rest(s)' = Tokens(batch', 0, Len(batch'), s)
           /\ Cardinality(Rest(s)') \in Nat
           /\ Cardinality(Rest(s)') = 0 <=> Rest(s)' = {}
           /\ Ahead(s)' = Cardinality(Rest(s)')
<1>1. i' = 0 /\ i_next' = 0 /\ main' # "error" /\ main' # "sample"
  BY LoopBefore DEF LoopStep
<1>2. Start' = 0 BY <1>1 DEF Start
<1>3. QED BY <1>1, <1>2, RestNext

\* A slot that the step leaves alone, while tokens of others are appended.
LEMMA LoopKept ==
    ASSUME DataInv, LoopStep, DataType', Phase', NEW s \in Slots,
           state'[s] = state[s], task'[s] = task[s], prompt'[s] = prompt[s],
           kv'[s] = kv[s], i_batch'[s] = i_batch[s],
           Len(batch) <= Len(batch'), \A n \in 1..Len(batch) : batch'[n] = batch[n],
           Tokens(batch', 0, Len(batch'), s) = Tokens(batch, 0, Len(batch), s)
    PROVE  SlotOK(s)' /\ TokenOK(s)' /\ KvOK(s)' /\ EmbedOK(s)'
<1>1. /\ main = "batch" /\ i = 0 /\ i_next = 0 /\ k \in Slots /\ Len(batch) \in Nat
      /\ SlotOK(s) /\ TokenOK(s) /\ KvOK(s) /\ EmbedOK(s)
      /\ Rest(s) = Tokens(batch, 0, Len(batch), s)
      /\ Ahead(s) = Cardinality(Rest(s))
  BY LoopBefore DEF LoopStep, DataType
<1>2. /\ i' = 0 /\ i_next' = 0 /\ Len(batch') \in Nat
      /\ main' # "error" /\ main' # "sample"
      /\ Rest(s)' = Rest(s) /\ Ahead(s)' = Ahead(s)
  BY <1>1, LoopAfter
<1>3. TypeOf(s)' = TypeOf(s) /\ NTokens(s)' = NTokens(s) BY DEF TypeOf, NTokens
<1>4. i_batch[s] \in Int /\ i_batch[s] >= -1 BY SlotTypes DEF DataInv
<1>5. SlotOK(s)' BY <1>1, <1>3 DEF SlotOK, HasPrompt
<1>6. Pending(s) => Pending(s)' /\ i_batch[s] + 1 \in 1..Len(batch)
  BY <1>1, <1>2, <1>4 DEF Pending
<1>7. TokenOK(s)'
  <2>1. main' = "batch" /\ Rest(s)' # {} => s < k' \/ state'[s] = "GENERATING"
    <3>1. SUFFICES ASSUME main' = "batch", s < k PROVE s < k'
      BY <1>1, <1>2 DEF TokenOK
    <3>2. QED BY <1>1, <3>1, SizeFacts DEF LoopStep
  <2>2. state[s] \in Sampling /\ i_batch[s] # -1 => batch'[i_batch[s] + 1] = batch[i_batch[s] + 1]
    BY <1>1, <1>6 DEF TokenOK, Sampling
  <2>3. QED BY <1>1, <1>2, <1>6, <2>1, <2>2 DEF TokenOK
<1>8. KvOK(s)' BY <1>1, <1>2 DEF KvOK, BackedByKv
<1>9. EmbedOK(s)'
  <2>1. CountIn(s, 0, Len(batch))' = Cardinality(Tokens(batch', 0, Len(batch'), s))
    BY DEF CountIn, Tokens
  <2>2. CountIn(s, 0, Len(batch)) = Cardinality(Tokens(batch, 0, Len(batch), s))
    BY DEF CountIn, Tokens
  <2>3. QED BY <1>1, <1>3, <2>1, <2>2 DEF EmbedOK
<1>10. QED BY <1>5, <1>7, <1>8, <1>9

\* The batch is the same.
LEMMA LoopSame ==
    ASSUME DataInv, LoopStep, UNCHANGED <<batch, slot_batched>>
    PROVE  /\ Phase' /\ Len(batch) <= Len(batch')
           /\ \A n \in 1..Len(batch) : batch'[n] = batch[n]
           /\ \A s \in Slots :
                Tokens(batch', 0, Len(batch'), s) = Tokens(batch, 0, Len(batch), s)
           /\ batch' \in Seq(Slots) /\ Len(batch') <= NBatch + NSlots
           /\ slot_batched' \in Slots \cup {NoSlot}
           /\ i' \in 0..Len(batch') /\ i_next' \in 0..Len(batch') /\ n_batch' \in 1..NBatch
           /\ main' \in {"fetch", "task", "batch", "decode", "sample", "error"}
           /\ k' \in Slots
BY LoopBefore DEF LoopStep, Phase, DataType

LEMMA SkipData ==
    ASSUME DataInv, PromptSkip PROVE DataInv'
<1>1. DataType BY DEF DataInv
<1>2. LoopStep
  <2>1. UNCHANGED <<i, i_next, n_batch>> /\ main = "batch"
    BY DEF PromptSkip, batch_vars
  <2>2. PICK end \in BOOLEAN : NextSlot(end)
    BY DEF PromptSkip
  <2>3. QED BY <1>1, <2>1, <2>2, NextSlotFacts
<1>3. UNCHANGED <<batch, slot_batched>> /\ UNCHANGED slot_vars BY DEF PromptSkip, batch_vars
<1>4. DataType' BY <1>1, <1>2, <1>3, LoopSame DEF DataType, slot_vars
<1>5. \A s \in Slots : SlotOK(s)' /\ TokenOK(s)' /\ KvOK(s)' /\ EmbedOK(s)'
  BY <1>2, <1>3, <1>4, LoopSame, LoopKept DEF slot_vars
<1>6. main' # "error" BY <1>2 DEF LoopStep
<1>7. QED BY <1>2, <1>3, <1>4, <1>5, <1>6, LoopSame DEF DataInv

\* A slot with a prompt to add has no token in the batch and cells for all it
\* has.
LEMMA PromptBefore ==
    ASSUME DataInv, main = "batch", NEW c \in Slots, c = k, HasPrompt(c)
    PROVE  /\ Rest(c) = {} /\ Tokens(batch, 0, Len(batch), c) = {}
           /\ prompt[c] <= kv[c] /\ task[c] \in Requests /\ ~IsChild(task[c])
           /\ NTokens(c) \in Nat /\ task[c] # 0
<1>1. /\ DataType /\ SlotOK(c) /\ TokenOK(c) /\ KvOK(c)
      /\ Rest(c) = Tokens(batch, 0, Len(batch), c)
      /\ Cardinality(Rest(c)) = 0 <=> Rest(c) = {}
      /\ Ahead(c) = Cardinality(Rest(c))
  BY LoopBefore
<1>2. Rest(c) = {}
  <2>1. ~(c < k) BY SizeFacts
  <2>2. QED BY <1>1, <2>1 DEF TokenOK, HasPrompt, Working
<1>3. task[c] \in Requests /\ ~IsChild(task[c]) BY <1>1 DEF SlotOK, IsChild
<1>4. task[c] # 0 BY <1>3, IdFacts
<1>5. prompt[c] <= kv[c]
  <2>1. prompt[c] \in Nat /\ kv[c] \in Nat BY <1>1, SlotTypes
  <2>2. QED BY <1>1, <1>2, <1>3, <2>1 DEF KvOK, BackedByKv
<1>6. QED BY <1>1, <1>2, <1>3, <1>4, <1>5, PromptTypes

LEMMA RefuseData ==
    ASSUME DataInv, PromptRefuse PROVE DataInv'
<1>1. DataType BY DEF DataInv
<1>2. PICK c \in Slots : c = k BY <1>1 DEF DataType
<1>3. /\ main = "batch" /\ state[c] = "STARTED" /\ release(c, FALSE) /\ NextSlot(FALSE)
      /\ UNCHANGED i_batch /\ UNCHANGED <<batch, slot_batched, i, i_next, n_batch>>
  BY <1>2 DEF PromptRefuse, batch_vars
<1>4. LoopStep BY <1>1, <1>3, NextSlotFacts
<1>5. Rest(c) = {} /\ prompt[c] <= kv[c] /\ ~IsChild(task[c])
  BY <1>2, <1>3, PromptBefore DEF HasPrompt
<1>6. /\ state' \in [Slots -> SlotStates] /\ task' \in [Slots -> Ids \cup {0}]
      /\ prompt' \in [Slots -> 0..NCtx] /\ kv' \in [Slots -> 0..NCtx]
      /\ \A t \in Slots : state'[t] = "IDLE" <=> task'[t] = 0
      /\ state'[c] = "IDLE" /\ task'[c] = 0
      /\ prompt'[c] = prompt[c] /\ kv'[c] = kv[c]
      /\ \A t \in Slots : t # c =>
            /\ state'[t] = state[t] /\ task'[t] = task[t]
            /\ prompt'[t] = prompt[t] /\ kv'[t] = kv[t]
  BY <1>1, <1>3, <1>5, ReleaseFacts DEF Cleared
<1>7. DataType' BY <1>1, <1>3, <1>4, <1>6, LoopSame DEF DataType
<1>8. Phase' BY <1>3, <1>4, LoopSame
<1>9. \A s \in Slots : s # c => SlotOK(s)' /\ TokenOK(s)' /\ KvOK(s)' /\ EmbedOK(s)'
  BY <1>3, <1>4, <1>6, <1>7, <1>8, LoopSame, LoopKept
<1>10. SlotOK(c)' /\ TokenOK(c)' /\ KvOK(c)' /\ EmbedOK(c)'
  <2>1. Rest(c)' = {} /\ Ahead(c)' = 0
    <3>1. Rest(c) = Tokens(batch, 0, Len(batch), c) BY <1>3, LoopBefore
    <3>2. QED BY <1>3, <1>4, <1>5, <1>7, <1>8, <3>1, LoopSame, LoopAfter
  <2>2. prompt[c] \in Nat /\ kv[c] \in Nat BY <1>1, SlotTypes
  <2>3. QED BY <1>5, <1>6, <2>1, <2>2
          DEF SlotOK, TokenOK, KvOK, EmbedOK, HasPrompt, BackedByKv, Sampling
<1>11. main' # "error" BY <1>4 DEF LoopStep
<1>12. QED BY <1>7, <1>8, <1>9, <1>10, <1>11 DEF DataInv

\* How much of a prompt is reused: always less than all of it, no more than
\* the slot has, and nothing for an embedding.
LEMMA ReusableFacts ==
    ASSUME DataInv, main = "batch", NEW c \in Slots, c = k, HasPrompt(c),
           state[c] = "STARTED" => NTokens(c) > 0 /\ ~TooLarge(c),
           NEW n \in Reusable(c)
    PROVE  /\ n \in Nat /\ n < NTokens(c) /\ n <= prompt[c]
           /\ NTokens(c) <= NCtx
           /\ TypeOf(c) \in Embedding => n = 0
<1>1. NTokens(c) \in Nat /\ prompt[c] \in Nat /\ SlotOK(c)
  BY PromptBefore, LoopBefore, SlotTypes
<1>2. CASE state[c] = "PROCESSING_PROMPT"
  <2>1. n = prompt[c] BY <1>2 DEF Reusable
  <2>2. QED BY <1>1, <1>2, <2>1 DEF SlotOK
<1>3. CASE state[c] = "STARTED"
  <2>1. NTokens(c) > 0 /\ NTokens(c) <= NCtx BY <1>1, <1>3, SizeFacts DEF TooLarge
  <2>2. CASE TypeOf(c) \in Embedding
    <3>1. n = 0 BY <1>3, <2>2 DEF Reusable
    <3>2. QED BY <1>1, <2>1, <3>1
  <2>3. CASE TypeOf(c) \notin Embedding
    <3>1. n \in {IF m = NTokens(c) THEN m - 1 ELSE m :
                   m \in 0..(IF prompt[c] < NTokens(c) THEN prompt[c] ELSE NTokens(c))}
      BY <1>3, <2>3 DEF Reusable
    <3>2. PICK m \in 0..(IF prompt[c] < NTokens(c) THEN prompt[c] ELSE NTokens(c)) :
                n = IF m = NTokens(c) THEN m - 1 ELSE m
      BY <3>1
    <3>3. m \in Nat /\ m <= prompt[c] /\ m <= NTokens(c) BY <1>1, <3>2
    <3>4. QED BY <1>1, <2>1, <2>3, <3>2, <3>3
  <2>4. QED BY <2>2, <2>3
<1>4. QED BY <1>2, <1>3 DEF HasPrompt

LEMMA WaitData ==
    ASSUME DataInv, PromptWait PROVE DataInv'
<1>1. DataType BY DEF DataInv
<1>2. PICK c \in Slots : c = k BY <1>1 DEF DataType
<1>3. /\ main = "batch" /\ HasPrompt(c) /\ NextSlot(FALSE) /\ ~Fits(c)
      /\ state[c] = "STARTED" => NTokens(c) > 0 /\ ~TooLarge(c)
      /\ state' = [state EXCEPT ![c] = "PROCESSING_PROMPT"]
      /\ UNCHANGED <<task, kv, i_batch, batch, slot_batched, i, i_next, n_batch>>
  BY <1>2 DEF PromptWait, batch_vars
<1>4. PICK n \in Reusable(c) : prompt' = [prompt EXCEPT ![c] = n]
  BY <1>2 DEF PromptWait
<1>5. LoopStep BY <1>1, <1>3, NextSlotFacts
<1>6. /\ n \in Nat /\ n < NTokens(c) /\ n <= prompt[c] /\ NTokens(c) <= NCtx
      /\ TypeOf(c) \in Embedding => n = 0
  BY <1>2, <1>3, <1>4, ReusableFacts
<1>7. /\ Rest(c) = {} /\ prompt[c] <= kv[c] /\ task[c] \in Requests /\ ~IsChild(task[c])
      /\ NTokens(c) \in Nat /\ task[c] # 0
  BY <1>2, <1>3, PromptBefore
<1>8. prompt[c] \in Nat /\ kv[c] \in Nat /\ prompt[c] <= NCtx BY <1>1, SlotTypes
<1>9. n \in 0..NCtx BY <1>6, <1>8, SizeFacts
<1>10. /\ state'[c] = "PROCESSING_PROMPT" /\ prompt'[c] = n
       /\ \A t \in Slots : t # c => state'[t] = state[t] /\ prompt'[t] = prompt[t]
       /\ state' \in [Slots -> SlotStates] /\ prompt' \in [Slots -> 0..NCtx]
  BY <1>1, <1>3, <1>4, <1>9 DEF DataType, SlotStates
<1>11. \A t \in Slots : state'[t] = "IDLE" <=> task'[t] = 0
  BY <1>1, <1>3, <1>7, <1>10 DEF DataType
<1>12. DataType' BY <1>1, <1>3, <1>5, <1>10, <1>11, LoopSame DEF DataType
<1>13. Phase' BY <1>3, <1>5, LoopSame
<1>14. \A s \in Slots : s # c => SlotOK(s)' /\ TokenOK(s)' /\ KvOK(s)' /\ EmbedOK(s)'
  BY <1>3, <1>5, <1>10, <1>12, <1>13, LoopSame, LoopKept
<1>15. SlotOK(c)' /\ TokenOK(c)' /\ KvOK(c)' /\ EmbedOK(c)'
  <2>1. Rest(c)' = {} /\ Ahead(c)' = 0
    <3>1. Rest(c) = Tokens(batch, 0, Len(batch), c) BY <1>3, LoopBefore
    <3>2. QED BY <1>3, <1>5, <1>7, <1>12, <1>13, <3>1, LoopSame, LoopAfter
  <2>2. /\ TypeOf(c)' = TypeOf(c) /\ NTokens(c)' = NTokens(c)
        /\ task'[c] = task[c] /\ kv'[c] = kv[c]
    BY <1>3 DEF TypeOf, NTokens
  <2>3. SlotOK(c)' BY <1>6, <1>7, <1>10, <2>2 DEF SlotOK
  <2>4. TokenOK(c)' /\ EmbedOK(c)' BY <1>10, <2>1 DEF TokenOK, EmbedOK, Sampling
  <2>5. KvOK(c)'
    <3>1. n <= kv[c] BY <1>6, <1>7, <1>8
    <3>2. QED BY <1>8, <1>10, <2>1, <2>2, <3>1 DEF KvOK, BackedByKv, Sampling
  <2>6. QED BY <2>3, <2>4, <2>5
<1>16. main' # "error" BY <1>5 DEF LoopStep
<1>17. QED BY <1>12, <1>13, <1>14, <1>15, <1>16 DEF DataInv

LEMMA AddData ==
    ASSUME DataInv, PromptAdd PROVE DataInv'
<1>1. DataType /\ Phase BY DEF DataInv
<1>2. PICK c \in Slots : c = k BY <1>1 DEF DataType
<1>3. /\ main = "batch" /\ HasPrompt(c) /\ Fits(c)
      /\ state[c] = "STARTED" => NTokens(c) > 0 /\ ~TooLarge(c)
      /\ UNCHANGED <<task, i, i_next, n_batch>>
      /\ slot_batched' = IF slot_batched = NoSlot THEN c ELSE slot_batched
  BY <1>2 DEF PromptAdd
<1>4. PICK n \in Reusable(c) :
        LET added == IF NTokens(c) - n < Room THEN NTokens(c) - n ELSE Room
            done  == n + added = NTokens(c)
        IN  /\ prompt' = [prompt EXCEPT ![c] = n + added]
            /\ kv' = [kv EXCEPT ![c] = IF @ > n THEN n ELSE @]
            /\ batch' = batch \o [j \in 1..added |-> c]
            /\ state' = [state EXCEPT ![c] =
                            IF done THEN "DONE_PROMPT" ELSE "PROCESSING_PROMPT"]
            /\ i_batch' = [i_batch EXCEPT ![c] = IF done THEN LastIndex(added) ELSE @]
            /\ NextSlot(Len(batch) + added >= NBatch)
  BY <1>2 DEF PromptAdd
<1>5. /\ n \in Nat /\ n < NTokens(c) /\ n <= prompt[c] /\ NTokens(c) <= NCtx
      /\ TypeOf(c) \in Embedding => n = 0
  BY <1>2, <1>3, <1>4, ReusableFacts
<1>6. /\ Rest(c) = {} /\ Tokens(batch, 0, Len(batch), c) = {}
      /\ prompt[c] <= kv[c] /\ task[c] \in Requests /\ ~IsChild(task[c])
      /\ NTokens(c) \in Nat /\ task[c] # 0
  BY <1>2, <1>3, PromptBefore
<1>7. /\ prompt[c] \in Nat /\ kv[c] \in Nat /\ prompt[c] <= NCtx
      /\ i_batch[c] \in -1..(NBatch + NSlots)
  BY <1>1, SlotTypes, SizeFacts
<1>8. Len(batch) \in Nat /\ NBatch \in Nat /\ Room \in Nat
  BY <1>3, LoopBefore, SizeFacts DEF Room
<1>9. PICK added \in Nat : added = IF NTokens(c) - n < Room THEN NTokens(c) - n ELSE Room
  BY <1>5, <1>6, <1>8
<1>10. PICK done \in BOOLEAN : done <=> n + added = NTokens(c) OBVIOUS
<1>11. /\ prompt' = [prompt EXCEPT ![c] = n + added]
       /\ kv' = [kv EXCEPT ![c] = IF @ > n THEN n ELSE @]
       /\ batch' = batch \o [j \in 1..added |-> c]
       /\ state' = [state EXCEPT ![c] = IF done THEN "DONE_PROMPT" ELSE "PROCESSING_PROMPT"]
       /\ i_batch' = [i_batch EXCEPT ![c] = IF done THEN Len(batch) + added - 1 ELSE @]
       /\ NextSlot(Len(batch) + added >= NBatch)
  BY <1>4, <1>9, <1>10 DEF LastIndex
<1>12. /\ n + added <= NTokens(c) /\ (~done => n + added < NTokens(c))
       /\ (done => added >= 1)
  BY <1>5, <1>6, <1>8, <1>9, <1>10
<1>13. TypeOf(c) \in Embedding => done /\ added = NTokens(c) /\ n = 0
  BY <1>3, <1>5, <1>6, <1>8, <1>9, <1>10 DEF Fits, Room
<1>14. Len(batch) + added <= IF NBatch < NSlots THEN NSlots ELSE NBatch
  <2>1. Len(batch) <= IF NBatch < NSlots THEN NSlots ELSE NBatch BY <1>1 DEF Phase
  <2>2. CASE Len(batch) < NBatch
    <3>1. Len(batch) + added <= NBatch BY <1>5, <1>6, <1>8, <1>9, <2>2 DEF Room
    <3>2. QED BY <1>8, <3>1, SizeFacts
  <2>3. CASE ~(Len(batch) < NBatch)
    <3>1. added = 0 BY <1>5, <1>6, <1>8, <1>9, <2>3 DEF Room
    <3>2. QED BY <1>8, <2>1, <3>1
  <2>4. QED BY <2>2, <2>3
<1>15. LoopStep
  <2>1. PICK end \in BOOLEAN : NextSlot(end)
    <3>1. NextSlot(Len(batch) + added >= NBatch) BY <1>11
    <3>2. (Len(batch) + added >= NBatch) \in BOOLEAN OBVIOUS
    <3>3. QED BY <3>1, <3>2, Zenon
  <2>2. QED BY <1>1, <1>3, <2>1, NextSlotFacts
<1>16. /\ batch' \in Seq(Slots) /\ Len(batch') = Len(batch) + added
       /\ \A s \in Slots : s # c =>
             Tokens(batch', 0, Len(batch'), s) = Tokens(batch, 0, Len(batch), s)
       /\ Tokens(batch', 0, Len(batch'), c) = (Len(batch) + 1)..(Len(batch) + added)
       /\ Cardinality(Tokens(batch', 0, Len(batch'), c)) = added
       /\ \A m \in 1..Len(batch) : batch'[m] = batch[m]
       /\ \A m \in (Len(batch) + 1)..(Len(batch) + added) : batch'[m] = c
  <2>1. batch \in Seq(Slots) BY <1>1 DEF DataType
  <2>2. batch' = More(batch, added, c) BY <1>11 DEF More
  <2>3. Appended(batch, added, c, batch') BY <2>1, <2>2, TokensAppend
  <2>4. QED BY <1>6, <2>3 DEF Appended
<1>17. /\ state'[c] = IF done THEN "DONE_PROMPT" ELSE "PROCESSING_PROMPT"
       /\ prompt'[c] = n + added /\ kv'[c] = n
       /\ i_batch'[c] = IF done THEN Len(batch) + added - 1 ELSE i_batch[c]
       /\ \A t \in Slots : t # c =>
            /\ state'[t] = state[t] /\ prompt'[t] = prompt[t] /\ kv'[t] = kv[t]
            /\ i_batch'[t] = i_batch[t]
  BY <1>1, <1>5, <1>6, <1>7, <1>11 DEF DataType
<1>18. /\ n + added \in 0..NCtx /\ n \in 0..NCtx
       /\ i_batch'[c] \in -1..(NBatch + NSlots) /\ Len(batch) + added <= NBatch + NSlots
  BY <1>5, <1>6, <1>7, <1>8, <1>12, <1>14, <1>17, SizeFacts
<1>19. /\ prompt' \in [Slots -> 0..NCtx] /\ kv' \in [Slots -> 0..NCtx]
       /\ state' \in [Slots -> SlotStates] /\ i_batch' \in [Slots -> -1..(NBatch + NSlots)]
  <2>1. prompt' \in [Slots -> 0..NCtx] BY <1>1, <1>11, <1>18 DEF DataType
  <2>2. kv' = [kv EXCEPT ![c] = n]
    <3>1. n = IF kv[c] > n THEN n ELSE kv[c] BY <1>5, <1>6, <1>7
    <3>2. QED BY <1>1, <1>11, <3>1 DEF DataType
  <2>3. kv' \in [Slots -> 0..NCtx] BY <1>1, <1>18, <2>2 DEF DataType
  <2>4. state' \in [Slots -> SlotStates] BY <1>1, <1>11 DEF DataType, SlotStates
  <2>5. i_batch' = [i_batch EXCEPT ![c] = i_batch'[c]] BY <1>1, <1>11, <1>17 DEF DataType
  <2>6. i_batch' \in [Slots -> -1..(NBatch + NSlots)]
    BY <1>1, <1>18, <2>5 DEF DataType
  <2>7. QED BY <2>1, <2>3, <2>4, <2>6
<1>20. DataType'
  <2>1. \A t \in Slots : state'[t] = "IDLE" <=> task'[t] = 0
    BY <1>1, <1>3, <1>6, <1>17 DEF DataType
  <2>2. i' \in 0..Len(batch') /\ i_next' \in 0..Len(batch')
    BY <1>3, <1>8, <1>16, LoopBefore
  <2>3. slot_batched' \in Slots \cup {NoSlot} BY <1>1, <1>3 DEF DataType
  <2>4. main' \in {"fetch", "task", "batch", "decode", "sample", "error"} /\ k' \in Slots
    BY <1>15 DEF LoopStep
  <2>5. QED BY <1>1, <1>3, <1>16, <1>18, <1>19, <2>1, <2>2, <2>3, <2>4 DEF DataType
<1>21. Phase'
  <2>1. i' = 0 /\ i_next' = 0 /\ n_batch' = NBatch
    BY <1>1, <1>3 DEF Phase
  <2>2. main' \in {"batch", "decode"} BY <1>15 DEF LoopStep
  <2>3. QED BY <1>14, <1>16, <2>1, <2>2 DEF Phase
<1>22. \A s \in Slots : s # c => SlotOK(s)' /\ TokenOK(s)' /\ KvOK(s)' /\ EmbedOK(s)'
  <2>1. Len(batch) <= Len(batch') BY <1>8, <1>16
  <2>2. QED BY <1>3, <1>15, <1>16, <1>17, <1>20, <1>21, <2>1, LoopKept
<1>23. SlotOK(c)' /\ TokenOK(c)' /\ KvOK(c)' /\ EmbedOK(c)'
  <2>1. /\ i' = 0 /\ main' # "sample" /\ main' # "error"
        /\ Rest(c)' = (Len(batch) + 1)..(Len(batch) + added)
        /\ Ahead(c)' = added
    BY <1>15, <1>16, <1>20, <1>21, LoopAfter
  <2>2. /\ TypeOf(c)' = TypeOf(c) /\ NTokens(c)' = NTokens(c) /\ task'[c] = task[c]
    BY <1>3 DEF TypeOf, NTokens
  <2>3. SlotOK(c)'
    BY <1>5, <1>6, <1>8, <1>12, <1>13, <1>17, <2>2 DEF SlotOK
  <2>4. TokenOK(c)'
    <3>1. main' = "batch" => c < k' BY <1>2, <1>15, SizeFacts DEF LoopStep
    <3>2. state'[c] \in Working BY <1>17 DEF Working
    <3>3. CASE done
      <4>1. Pending(c)' BY <1>8, <1>12, <1>16, <1>17, <2>1, <3>3 DEF Pending
      <4>2. i_batch'[c] + 1 = Len(batch) + added BY <1>8, <1>17, <3>3
      <4>3. batch'[i_batch'[c] + 1] = c BY <1>8, <1>12, <1>16, <3>3, <4>2
      <4>4. \A m \in Rest(c)' : m <= i_batch'[c] + 1 BY <1>8, <2>1, <4>2
      <4>5. QED BY <1>17, <3>1, <3>2, <3>3, <4>1, <4>3, <4>4 DEF TokenOK
    <3>4. CASE ~done BY <1>17, <3>1, <3>2, <3>4 DEF TokenOK, Sampling
    <3>5. QED BY <3>3, <3>4
  <2>5. KvOK(c)' BY <1>5, <1>17, <2>1 DEF KvOK, BackedByKv
  <2>6. EmbedOK(c)'
    <3>1. CountIn(c, 0, Len(batch))' = Cardinality(Tokens(batch', 0, Len(batch'), c))
      BY DEF CountIn, Tokens
    <3>2. QED BY <1>13, <1>16, <2>2, <3>1 DEF EmbedOK
  <2>7. QED BY <2>3, <2>4, <2>5, <2>6
<1>24. main' # "error" BY <1>15 DEF LoopStep
<1>25. QED BY <1>20, <1>21, <1>22, <1>23, <1>24 DEF DataInv

----------------------------------------------------------------------------
(* Decoding the batch. *)

\* The end of update_slots.
LEMMA OverStep ==
    ASSUME UpdateOver,
           state' \in [Slots -> SlotStates], task' \in [Slots -> Ids \cup {0}],
           \A s \in Slots : state'[s] = "IDLE" <=> task'[s] = 0,
           prompt' \in [Slots -> 0..NCtx], kv' \in [Slots -> 0..NCtx],
           i_batch' \in [Slots -> -1..(NBatch + NSlots)],
           \A s \in Slots : Quiet(s)'
    PROVE  DataInv'
<1>1. /\ batch' = <<>> /\ slot_batched' = NoSlot /\ i' = 0 /\ i_next' = 0
      /\ n_batch' = NBatch /\ main' = "fetch" /\ k' = 0
  BY DEF UpdateOver
<1>2. batch' \in Seq(Slots) /\ Len(batch') = 0 BY <1>1
<1>3. DataType' BY <1>1, <1>2, SizeFacts DEF DataType
<1>4. Phase' BY <1>1, <1>2, SizeFacts DEF Phase
<1>5. QED BY <1>1, <1>3, <1>4, QuietStep

\* What holds of a slot while no decode has failed.
LEMMA SlotFacts ==
    ASSUME DataInv, main # "error", NEW s \in Slots
    PROVE  /\ DataType /\ Phase
           /\ SlotOK(s) /\ TokenOK(s) /\ KvOK(s) /\ EmbedOK(s)
           /\ Rest(s) = Tokens(batch, Start, Len(batch), s)
           /\ Start \in Nat /\ Start <= Len(batch) /\ Len(batch) \in Nat
           /\ Cardinality(Rest(s)) \in Nat
           /\ Cardinality(Rest(s)) = 0 <=> Rest(s) = {}
           /\ Ahead(s) = Cardinality(Rest(s))
<1>1. DataType /\ Phase /\ SlotOK(s) /\ TokenOK(s) /\ KvOK(s) /\ EmbedOK(s)
  BY DEF DataInv
<1>2. RestIs(s) BY <1>1, RestFacts
<1>3. QED BY <1>1, <1>2 DEF RestIs

\* An idle slot has no token in the batch and cells for its prompt.
LEMMA IdleFacts ==
    ASSUME DataInv, main # "error", NEW s \in Slots, state[s] = "IDLE"
    PROVE  Rest(s) = {} /\ Ahead(s) = 0 /\ prompt[s] <= kv[s] /\ task[s] = 0
<1>1. /\ DataType /\ TokenOK(s) /\ KvOK(s) /\ Ahead(s) = Cardinality(Rest(s))
      /\ Cardinality(Rest(s)) = 0 <=> Rest(s) = {}
  BY SlotFacts
<1>2. Rest(s) = {} BY <1>1 DEF TokenOK, Working
<1>3. task[s] = 0 BY <1>1 DEF DataType
<1>4. prompt[s] \in Nat /\ kv[s] \in Nat BY <1>1, SlotTypes
<1>5. prompt[s] <= kv[s] + Ahead(s) BY <1>1, <1>3 DEF KvOK, BackedByKv
<1>6. QED BY <1>1, <1>2, <1>3, <1>4, <1>5

LEMMA EndData ==
    ASSUME DataInv, UpdateEnd PROVE DataInv'
<1>1. main = "decode" /\ i = Len(batch) /\ UpdateOver /\ UNCHANGED slot_vars
  BY DEF UpdateEnd
<1>2. DataType BY DEF DataInv
<1>3. ASSUME NEW s \in Slots PROVE Quiet(s)'
  <2>1. /\ SlotOK(s) /\ TokenOK(s) /\ KvOK(s) /\ Ahead(s) = Cardinality(Rest(s))
        /\ Cardinality(Rest(s)) = 0 <=> Rest(s) = {}
    BY <1>1, SlotFacts
  <2>2. Len(batch) \in Nat /\ i_batch[s] \in Int /\ kv[s] \in Nat /\ prompt[s] \in Nat
    BY <1>2, SlotTypes DEF DataType
  <2>3. Start = Len(batch) BY <1>1 DEF Start
  <2>4. Rest(s) = {} BY <2>2, <2>3 DEF Rest
  <2>5. ~Pending(s) BY <1>1, <2>2 DEF Pending
  <2>6. state[s] # "DONE_PROMPT" /\ (state[s] = "GENERATING" => i_batch[s] = -1)
    BY <2>1, <2>5 DEF TokenOK
  <2>7. Quiet(s)
    BY <2>1, <2>2, <2>4, <2>6 DEF Quiet, KvOK, BackedByKv, Sampling
  <2>8. QED BY <1>1, <2>7, QuietKept DEF slot_vars
<1>4. QED BY <1>1, <1>2, <1>3, OverStep DEF DataType, slot_vars

LEMMA NoSpaceData ==
    ASSUME DataInv, DecodeNoSpace PROVE DataInv'
<1>1. /\ main = "decode" /\ n_batch > 1
      /\ UNCHANGED <<main, k, state, task, i_batch, batch, slot_batched, i, i_next>>
  BY DEF DecodeNoSpace
<1>2. DataType /\ Phase BY DEF DataInv
<1>3. /\ Start' = Start
      /\ \A s \in Slots : /\ Rest(s)' = Rest(s) /\ Ahead(s)' = Ahead(s)
                          /\ TypeOf(s)' = TypeOf(s) /\ NTokens(s)' = NTokens(s)
                          /\ Pending(s)' <=> Pending(s)
                          /\ CountIn(s, 0, Len(batch))' = CountIn(s, 0, Len(batch))
  BY <1>1 DEF Start, Rest, Ahead, CountIn, TypeOf, NTokens, Pending
<1>4. ASSUME NEW s \in Slots, prompt'[s] = prompt[s], kv'[s] = kv[s]
      PROVE  SlotOK(s)' /\ TokenOK(s)' /\ KvOK(s)' /\ EmbedOK(s)'
  <2>1. SlotOK(s) /\ TokenOK(s) /\ KvOK(s) /\ EmbedOK(s) BY <1>1, SlotFacts
  <2>2. SlotOK(s)' BY <1>1, <1>3, <1>4, <2>1 DEF SlotOK, HasPrompt
  <2>3. TokenOK(s)' BY <1>1, <1>3, <1>4, <2>1 DEF TokenOK
  <2>4. KvOK(s)' BY <1>1, <1>3, <1>4, <2>1 DEF KvOK, BackedByKv
  <2>5. EmbedOK(s)' BY <1>1, <1>3, <1>4, <2>1 DEF EmbedOK
  <2>6. QED BY <2>2, <2>3, <2>4, <2>5
<1>5. CASE Purgeable = {}
  <2>1. n_batch' = n_batch \div 2 /\ UNCHANGED <<kv, prompt>>
    BY <1>5 DEF DecodeNoSpace
  <2>2. n_batch \div 2 \in 1..NBatch BY <1>1, <1>2, SizeFacts DEF DataType
  <2>3. DataType' /\ Phase' BY <1>1, <1>2, <2>1, <2>2 DEF DataType, Phase
  <2>4. QED BY <1>1, <1>4, <2>1, <2>3 DEF DataInv
<1>6. CASE Purgeable # {}
  <2>1. Purgeable \in SUBSET Slots BY DEF Purgeable, Idle
  <2>2. PICK c \in Slots : c = Min(Purgeable) /\ c \in Purgeable
    BY <1>6, <2>1, MinFacts
  <2>3. /\ kv' = [kv EXCEPT ![c] = 0] /\ prompt' = [prompt EXCEPT ![c] = 0]
        /\ UNCHANGED n_batch
    BY <1>6, <2>2 DEF DecodeNoSpace
  <2>4. /\ kv' \in [Slots -> 0..NCtx] /\ prompt' \in [Slots -> 0..NCtx]
        /\ kv'[c] = 0 /\ prompt'[c] = 0
        /\ \A t \in Slots : t # c => kv'[t] = kv[t] /\ prompt'[t] = prompt[t]
    <3>1. 0 \in 0..NCtx BY SizeFacts
    <3>2. QED BY <1>2, <2>3, <3>1 DEF DataType
  <2>5. DataType' /\ Phase' BY <1>1, <1>2, <2>3, <2>4 DEF DataType, Phase
  <2>6. state[c] = "IDLE" BY <2>2 DEF Purgeable, Idle, is_processing
  <2>7. Rest(c) = {} /\ Ahead(c) = 0 BY <1>1, <2>6, IdleFacts
  <2>8. SlotOK(c)' /\ TokenOK(c)' /\ KvOK(c)' /\ EmbedOK(c)'
    <3>1. SlotOK(c)' BY <1>1, <2>6 DEF SlotOK, HasPrompt
    <3>2. TokenOK(c)' /\ EmbedOK(c)' BY <1>1, <1>3, <2>6, <2>7 DEF TokenOK, EmbedOK, Sampling
    <3>3. KvOK(c)' BY <1>1, <1>3, <2>4, <2>6, <2>7 DEF KvOK, BackedByKv, Sampling
    <3>4. QED BY <3>1, <3>2, <3>3
  <2>9. \A t \in Slots : SlotOK(t)' /\ TokenOK(t)' /\ KvOK(t)' /\ EmbedOK(t)'
    BY <1>4, <2>4, <2>8
  <2>10. QED BY <1>1, <2>5, <2>9 DEF DataInv
<1>7. QED BY <1>5, <1>6

LEMMA FailData ==
    ASSUME DataInv, DecodeFail PROVE DataInv'
<1>1. /\ main = "decode" /\ main' = "error" /\ k' = 0
      /\ UNCHANGED slot_vars /\ UNCHANGED batch_vars
  BY DEF DecodeFail
<1>2. DataType /\ Phase BY DEF DataInv
<1>3. DataType' BY <1>1, <1>2, SizeFacts DEF DataType, slot_vars, batch_vars
<1>4. Phase' BY <1>1, <1>2, SizeFacts DEF Phase, batch_vars
<1>5. \A s \in Slots : SlotOK(s)'
  <2>1. SUFFICES ASSUME NEW s \in Slots PROVE SlotOK(s)' OBVIOUS
  <2>2. SlotOK(s) BY DEF DataInv
  <2>3. QED BY <1>1, <2>2 DEF SlotOK, HasPrompt, TypeOf, NTokens, slot_vars
<1>6. \A s \in Slots : state'[s] = "IDLE" => prompt'[s] <= kv'[s]
  BY <1>1, IdleFacts DEF slot_vars
<1>7. QED BY <1>1, <1>3, <1>4, <1>5, <1>6 DEF DataInv

LEMMA ErrorData ==
    ASSUME DataInv, ErrorSlot PROVE DataInv'
<1>1. /\ main = "error" /\ UNCHANGED i_batch
      /\ IF k = NSlots - 1 THEN UpdateOver ELSE k' = k + 1 /\ UNCHANGED <<main, batch_vars>>
  BY DEF ErrorSlot
<1>2. /\ DataType /\ Phase /\ \A s \in Slots : SlotOK(s)
      /\ \A s \in Slots : state[s] = "IDLE" => prompt[s] <= kv[s]
  BY <1>1 DEF DataInv
<1>3. PICK c \in Slots : c = k BY <1>2 DEF DataType
<1>4. /\ state' \in [Slots -> SlotStates] /\ task' \in [Slots -> Ids \cup {0}]
      /\ prompt' \in [Slots -> 0..NCtx] /\ kv' \in [Slots -> 0..NCtx]
      /\ \A t \in Slots : state'[t] = "IDLE" <=> task'[t] = 0
      /\ state'[c] = "IDLE" /\ prompt'[c] <= kv'[c]
      /\ \A t \in Slots : t # c =>
            /\ state'[t] = state[t] /\ task'[t] = task[t]
            /\ prompt'[t] = prompt[t] /\ kv'[t] = kv[t]
  <2>1. CASE is_processing(c)
    <3>1. release(c, TRUE) BY <1>3, <2>1 DEF ErrorSlot
    <3>2. Cleared(c, TRUE) BY DEF Cleared
    <3>3. prompt'[c] = 0 /\ kv'[c] = 0 BY <1>2, <3>1, <3>2, ReleaseFacts
    <3>4. prompt'[c] <= kv'[c] BY <3>3
    <3>5. QED BY <1>2, <3>1, <3>4, ReleaseFacts
  <2>2. CASE ~is_processing(c)
    <3>1. UNCHANGED <<state, task, prompt, kv>> /\ state[c] = "IDLE"
      BY <1>3, <2>2 DEF ErrorSlot, is_processing
    <3>2. QED BY <1>2, <3>1 DEF DataType
  <2>3. QED BY <2>1, <2>2
<1>5. \A s \in Slots : s < c => state'[s] = "IDLE"
  <2>1. \A s \in Slots : s < c => state[s] = "IDLE" /\ s # c
    BY <1>1, <1>2, <1>3, SizeFacts DEF Phase
  <2>2. QED BY <1>4, <2>1
<1>6. \A s \in Slots : state'[s] = "IDLE" => prompt'[s] <= kv'[s] BY <1>2, <1>4
<1>7. CASE k = NSlots - 1
  <2>1. \A s \in Slots : s < c \/ s = c BY <1>3, <1>7, SizeFacts
  <2>2. \A s \in Slots : Quiet(s)' BY <1>4, <1>5, <1>6, <2>1, QuietIdle
  <2>3. UpdateOver BY <1>1, <1>7
  <2>4. i_batch' \in [Slots -> -1..(NBatch + NSlots)] BY <1>1, <1>2 DEF DataType
  <2>5. QED BY <1>4, <2>2, <2>3, <2>4, OverStep
<1>8. CASE k # NSlots - 1
  <2>1. k' = k + 1 /\ k' \in Slots /\ main' = "error" /\ UNCHANGED batch_vars
    BY <1>1, <1>2, <1>8, SizeFacts DEF DataType
  <2>2. DataType' BY <1>1, <1>2, <1>4, <2>1 DEF DataType, batch_vars
  <2>3. \A s \in Slots : s < k' => state'[s] = "IDLE"
    <3>1. \A s \in Slots : s < k' => s < c \/ s = c BY <1>3, <2>1, SizeFacts
    <3>2. QED BY <1>4, <1>5, <3>1
  <2>4. Phase' BY <1>2, <2>1, <2>3 DEF Phase, batch_vars
  <2>5. \A s \in Slots : SlotOK(s)'
    <3>1. SUFFICES ASSUME NEW s \in Slots PROVE SlotOK(s)' OBVIOUS
    <3>2. CASE s = c BY <1>4, <3>2 DEF SlotOK, HasPrompt
    <3>3. CASE s # c
      BY <1>1, <1>2, <1>4, <3>3 DEF SlotOK, HasPrompt, TypeOf, NTokens
    <3>4. QED BY <3>2, <3>3
  <2>6. QED BY <1>6, <2>1, <2>2, <2>4, <2>5 DEF DataInv
<1>9. QED BY <1>7, <1>8

\* A chunk has at least one token and ends within the batch.
LEMMA ChunkFacts ==
    ASSUME DataType, i < Len(batch)
    PROVE  /\ NTok \in Nat /\ NTok >= 1 /\ i + NTok <= Len(batch)
           /\ i \in Nat /\ Len(batch) \in Nat
<1>1. i \in Nat /\ Len(batch) \in Nat /\ n_batch \in Nat /\ n_batch >= 1
  BY SizeFacts DEF DataType
<1>2. QED BY <1>1 DEF NTok

\* The parent whose state a child takes.
LEMMA ParentFacts ==
    ASSUME DataType, NEW c \in Slots, NEW p \in ParentOf(c)
    PROVE  /\ p \in Slots /\ state[p] = "DONE_PROMPT" /\ state[c] = "WAIT_OTHER"
           /\ task[p] = RequestOf(task[c]) /\ task[c] \in Ids /\ task[c] # 0
<1>1. /\ p \in Slots /\ state[p] = "DONE_PROMPT" /\ state[c] = "WAIT_OTHER"
      /\ task[p] = RequestOf(task[c])
  BY DEF ParentOf
<1>2. task[c] # 0 BY <1>1 DEF DataType
<1>3. QED BY <1>1, <1>2, SlotTypes

\* The tokens of a slot that a chunk holds, and those after it.
LEMMA ChunkTokens ==
    ASSUME DataInv, main = "decode", i < Len(batch), NEW s \in Slots
    PROVE  /\ CountIn(s, i, i + NTok) \in Nat
           /\ Cardinality(Tokens(batch, i + NTok, Len(batch), s)) \in Nat
           /\ Ahead(s) = CountIn(s, i, i + NTok)
                           + Cardinality(Tokens(batch, i + NTok, Len(batch), s))
           /\ Tokens(batch, i + NTok, Len(batch), s) \subseteq Rest(s)
           /\ Ahead(s) \in Nat
<1>1. /\ DataType /\ Rest(s) = Tokens(batch, Start, Len(batch), s)
      /\ Ahead(s) = Cardinality(Rest(s)) /\ Cardinality(Rest(s)) \in Nat
  BY SlotFacts
<1>2. Start = i BY DEF Start
<1>3. /\ NTok \in Nat /\ NTok >= 1 /\ i + NTok <= Len(batch)
      /\ i \in Nat /\ Len(batch) \in Nat
  BY <1>1, ChunkFacts
<1>4. PICK m \in Nat : m = i + NTok BY <1>3
<1>5. i \in Int /\ m \in Int /\ Len(batch) \in Int /\ i <= m /\ m <= Len(batch)
  BY <1>3, <1>4
<1>6. CountIn(s, i, i + NTok) = Cardinality(Tokens(batch, i, i + NTok, s))
  BY DEF CountIn, Tokens
<1>7. /\ Tokens(batch, m, Len(batch), s) \subseteq Tokens(batch, i, Len(batch), s)
      /\ Cardinality(Tokens(batch, i, Len(batch), s))
           = Cardinality(Tokens(batch, i, m, s)) + Cardinality(Tokens(batch, m, Len(batch), s))
  <2>1. Splits(batch, i, m, Len(batch), s) BY <1>5, TokensSplit
  <2>2. QED BY <2>1 DEF Splits
<1>8. /\ Cardinality(Tokens(batch, i, m, s)) \in Nat
      /\ Cardinality(Tokens(batch, m, Len(batch), s)) \in Nat
  BY <1>5, TokensFinite
<1>9. QED BY <1>1, <1>2, <1>4, <1>6, <1>7, <1>8

\* The cells of a slot after a chunk fit the context, and not more than the
\* prompt when it had tokens ahead.
LEMMA FilledFacts ==
    ASSUME DataInv, main = "decode", i < Len(batch), NEW s \in Slots
    PROVE  /\ kv[s] + CountIn(s, i, i + NTok) \in 0..NCtx
           /\ state[s] = "DONE_PROMPT" => kv[s] + CountIn(s, i, i + NTok) <= prompt[s]
<1>1. /\ DataType /\ KvOK(s) /\ Ahead(s) = Cardinality(Rest(s))
      /\ Cardinality(Rest(s)) = 0 <=> Rest(s) = {}
  BY SlotFacts
<1>2. kv[s] \in Nat /\ prompt[s] \in Nat /\ kv[s] <= NCtx /\ prompt[s] <= NCtx
  BY <1>1, SlotTypes
<1>3. /\ CountIn(s, i, i + NTok) \in Nat
      /\ Cardinality(Tokens(batch, i + NTok, Len(batch), s)) \in Nat
      /\ Ahead(s) = CountIn(s, i, i + NTok)
                      + Cardinality(Tokens(batch, i + NTok, Len(batch), s))
  BY ChunkTokens
<1>4. CountIn(s, i, i + NTok) <= Ahead(s) BY <1>3
<1>5. CASE Rest(s) = {}
  <2>1. CountIn(s, i, i + NTok) = 0 BY <1>1, <1>3, <1>5
  <2>2. state[s] = "DONE_PROMPT" => kv[s] + Ahead(s) <= prompt[s]
    BY <1>1 DEF KvOK, Sampling
  <2>3. QED BY <1>1, <1>2, <1>5, <2>1, <2>2, SizeFacts
<1>6. CASE Rest(s) # {}
  <2>1. kv[s] + Ahead(s) <= prompt[s] BY <1>1, <1>6 DEF KvOK
  <2>2. QED BY <1>2, <1>3, <1>4, <2>1, SizeFacts
<1>7. QED BY <1>5, <1>6

LEMMA DecodeData ==
    ASSUME DataInv, DecodeOk PROVE DataInv'
<1>1. /\ main = "decode" /\ i < Len(batch) /\ i_next' = i + NTok /\ n_batch' = NBatch
      /\ main' = "sample" /\ k' = 0 /\ UNCHANGED <<task, batch, slot_batched, i>>
  BY DEF DecodeOk
<1>2. DataType /\ Phase BY DEF DataInv
<1>3. /\ NTok \in Nat /\ NTok >= 1 /\ i + NTok <= Len(batch)
      /\ i \in Nat /\ Len(batch) \in Nat
  BY <1>1, <1>2, ChunkFacts
<1> DEFINE new(s) == kv[s] + CountIn(s, i, i + NTok)
<1>4. ASSUME NEW c \in Slots, ParentOf(c) = {}
      PROVE  /\ kv'[c] = new(c) /\ prompt'[c] = prompt[c] /\ i_batch'[c] = i_batch[c]
             /\ state'[c] = state[c]
  BY <1>4 DEF DecodeOk
<1>5. ASSUME NEW c \in Slots, ParentOf(c) # {}
      PROVE  \E p \in ParentOf(c) :
                /\ kv'[c] = new(p) /\ prompt'[c] = prompt[p] /\ i_batch'[c] = i_batch[p]
                /\ state'[c] = "DONE_PROMPT"
  <2>1. PICK p \in ParentOf(c) : p = CHOOSE s \in ParentOf(c) : TRUE BY <1>5
  <2>2. p \in Slots BY DEF ParentOf
  <2>3. /\ kv'[c] = new(p) /\ prompt'[c] = prompt[p] /\ i_batch'[c] = i_batch[p]
        /\ state'[c] = "DONE_PROMPT"
    BY <1>5, <2>1, <2>2 DEF DecodeOk
  <2>4. QED BY <2>3
<1>6. /\ kv' = [c \in Slots |-> kv'[c]] /\ prompt' = [c \in Slots |-> prompt'[c]]
      /\ i_batch' = [c \in Slots |-> i_batch'[c]] /\ state' = [c \in Slots |-> state'[c]]
  BY DEF DecodeOk
<1>7. \A s \in Slots : /\ new(s) \in 0..NCtx
                       /\ state[s] = "DONE_PROMPT" => new(s) <= prompt[s]
  BY <1>1, FilledFacts
<1> HIDE DEF new
<1>8. ASSUME NEW c \in Slots
      PROVE  /\ kv'[c] \in 0..NCtx /\ prompt'[c] \in 0..NCtx
             /\ i_batch'[c] \in -1..(NBatch + NSlots) /\ state'[c] \in SlotStates
             /\ state'[c] = "IDLE" <=> task'[c] = 0
  <2>1. CASE ParentOf(c) = {} BY <1>1, <1>2, <1>4, <1>7, <2>1 DEF DataType
  <2>2. CASE ParentOf(c) # {}
    <3>1. PICK p \in ParentOf(c) :
                /\ kv'[c] = new(p) /\ prompt'[c] = prompt[p] /\ i_batch'[c] = i_batch[p]
                /\ state'[c] = "DONE_PROMPT"
      BY <1>5, <2>2
    <3>2. p \in Slots /\ task[c] # 0 BY <1>2, <3>1, ParentFacts
    <3>3. QED BY <1>1, <1>2, <1>7, <3>1, <3>2 DEF DataType, SlotStates
  <2>3. QED BY <2>1, <2>2
<1>9. DataType'
  <2>1. /\ kv' \in [Slots -> 0..NCtx] /\ prompt' \in [Slots -> 0..NCtx]
        /\ i_batch' \in [Slots -> -1..(NBatch + NSlots)]
        /\ state' \in [Slots -> SlotStates]
    BY <1>6, <1>8
  <2>2. i_next' \in 0..Len(batch') BY <1>1, <1>3
  <2>3. n_batch' \in 1..NBatch /\ k' \in Slots BY <1>1, SizeFacts
  <2>4. QED BY <1>1, <1>2, <1>8, <2>1, <2>2, <2>3 DEF DataType
<1>10. Phase' BY <1>1, <1>2, <1>3 DEF Phase
<1>11. ASSUME NEW s \in Slots
       PROVE  /\ Rest(s)' = Tokens(batch, i + NTok, Len(batch), s)
              /\ Ahead(s)' = Cardinality(Rest(s)')
              /\ Cardinality(Rest(s)') = 0 <=> Rest(s)' = {}
              /\ Rest(s)' \subseteq Rest(s)
              /\ Ahead(s)' \in Nat
              /\ Ahead(s) = CountIn(s, i, i + NTok) + Ahead(s)'
              /\ ~(s < k') /\ TypeOf(s)' = TypeOf(s) /\ NTokens(s)' = NTokens(s)
              /\ CountIn(s, 0, Len(batch))' = CountIn(s, 0, Len(batch))
  <2>1. Start' = i + NTok BY <1>1 DEF Start
  <2>2. /\ Rest(s)' = Tokens(batch', Start', Len(batch'), s)
        /\ Cardinality(Rest(s)') \in Nat
        /\ Cardinality(Rest(s)') = 0 <=> Rest(s)' = {}
        /\ Ahead(s)' = Cardinality(Rest(s)')
    BY <1>1, <1>9, <1>10, RestNext
  <2>3. ~(s < k') BY <1>1, SizeFacts
  <2>4. /\ TypeOf(s)' = TypeOf(s) /\ NTokens(s)' = NTokens(s)
        /\ CountIn(s, 0, Len(batch))' = CountIn(s, 0, Len(batch))
    BY <1>1 DEF TypeOf, NTokens, CountIn
  <2>5. Rest(s)' = Tokens(batch, i + NTok, Len(batch), s) BY <1>1, <2>1, <2>2
  <2>6. /\ Ahead(s) = CountIn(s, i, i + NTok)
                        + Cardinality(Tokens(batch, i + NTok, Len(batch), s))
        /\ Tokens(batch, i + NTok, Len(batch), s) \subseteq Rest(s)
    BY <1>1, ChunkTokens
  <2>7. QED BY <2>2, <2>3, <2>4, <2>5, <2>6
<1>12. ASSUME NEW c \in Slots, ParentOf(c) = {}
       PROVE  SlotOK(c)' /\ TokenOK(c)' /\ KvOK(c)' /\ EmbedOK(c)'
  <2>1. /\ kv'[c] = new(c) /\ prompt'[c] = prompt[c] /\ i_batch'[c] = i_batch[c]
        /\ state'[c] = state[c] /\ task'[c] = task[c]
    BY <1>1, <1>4, <1>12
  <2>2. SlotOK(c) /\ TokenOK(c) /\ KvOK(c) /\ EmbedOK(c) BY <1>1, SlotFacts
  <2>3. /\ Rest(c)' \subseteq Rest(c) /\ Ahead(c)' \in Nat
        /\ ~(c < k') /\ TypeOf(c)' = TypeOf(c) /\ NTokens(c)' = NTokens(c)
        /\ CountIn(c, 0, Len(batch))' = CountIn(c, 0, Len(batch))
        /\ Ahead(c) = CountIn(c, i, i + NTok) + Ahead(c)'
    BY <1>11
  <2>4. SlotOK(c)' BY <2>1, <2>2, <2>3 DEF SlotOK, HasPrompt
  <2>5. Pending(c)' <=> Pending(c) BY <1>1, <2>1, <2>3 DEF Pending
  <2>6. TokenOK(c)' BY <1>1, <2>1, <2>2, <2>3, <2>5 DEF TokenOK
  <2>7. kv[c] + Ahead(c) = kv'[c] + Ahead(c)'
    <3>1. CountIn(c, i, i + NTok) \in Nat /\ kv[c] \in Nat
      BY <1>1, <1>2, ChunkTokens, SlotTypes
    <3>2. QED BY <2>1, <2>3, <3>1 DEF new
  <2>8. KvOK(c)' BY <2>1, <2>2, <2>3, <2>7 DEF KvOK, BackedByKv
  <2>9. EmbedOK(c)' BY <2>1, <2>2, <2>3 DEF EmbedOK
  <2>10. QED BY <2>4, <2>6, <2>8, <2>9
<1>13. ASSUME NEW c \in Slots, ParentOf(c) # {}
       PROVE  SlotOK(c)' /\ TokenOK(c)' /\ KvOK(c)' /\ EmbedOK(c)'
  <2>1. PICK p \in ParentOf(c) :
              /\ kv'[c] = new(p) /\ prompt'[c] = prompt[p] /\ i_batch'[c] = i_batch[p]
              /\ state'[c] = "DONE_PROMPT"
    BY <1>5, <1>13
  <2>2. /\ p \in Slots /\ state[p] = "DONE_PROMPT" /\ state[c] = "WAIT_OTHER"
        /\ task[p] = RequestOf(task[c]) /\ task[c] \in Ids /\ task[c] # 0
    BY <1>2, <2>1, ParentFacts
  <2>3. TokenOK(p) BY <1>1, <2>2, SlotFacts
  <2>4. SlotOK(c) /\ TokenOK(c) BY <1>1, SlotFacts
  <2>5. Rest(c)' = {} /\ Ahead(c)' = 0
    <3>1. Rest(c) = {} BY <2>2, <2>4 DEF TokenOK, Working
    <3>2. QED BY <1>11, <3>1
  <2>6. IsChild(task[c]) /\ task'[c] = task[c] BY <1>1, <2>2, <2>4 DEF SlotOK
  <2>7. SlotOK(c)' BY <2>1 DEF SlotOK, HasPrompt
  <2>8. TokenOK(c)'
    <3>1. Pending(p) BY <2>2, <2>3 DEF TokenOK
    <3>2. Pending(c)' BY <1>1, <1>11, <2>1, <3>1 DEF Pending
    <3>3. QED BY <1>1, <2>1, <2>5, <2>6, <3>2 DEF TokenOK
  <2>9. KvOK(c)'
    <3>1. new(p) <= prompt[p] /\ new(p) \in Nat BY <1>7, <2>2
    <3>2. QED BY <2>1, <2>2, <2>5, <2>6, <3>1 DEF KvOK
  <2>10. EmbedOK(c)'
    <3>1. RequestOf(task[c]) \in Requests /\ task[c] \in IdsOf(RequestOf(task[c]))
      BY <2>2, IdFacts
    <3>2. task[c] # RequestOf(task[c]) BY <2>6, <3>1 DEF IsChild
    <3>3. Req[RequestOf(task[c])].type \in Generating BY <3>1, <3>2, ChildFacts
    <3>4. TypeOf(c)' \notin Embedding
      BY <2>6, <3>3 DEF TypeOf, Generating, Embedding
    <3>5. QED BY <3>4 DEF EmbedOK
  <2>11. QED BY <2>7, <2>8, <2>9, <2>10
<1>14. QED BY <1>1, <1>9, <1>10, <1>12, <1>13 DEF DataInv

----------------------------------------------------------------------------
(* Sampling from the chunk. *)

\* The step from one slot of the loop to the next.
SampleStep ==
    main = "sample" /\ NextSample /\ UNCHANGED <<batch, slot_batched, i_next, n_batch>>

\* What such a step leaves of the batch, and for each slot.
LEMMA SampleFacts ==
    ASSUME DataInv, SampleStep
    PROVE  /\ main' \in {"sample", "decode"} /\ k' \in Slots /\ i' \in 0..Len(batch')
           /\ Phase' /\ Start = i_next /\ Start' = i_next
           /\ \A s \in Slots : Rest(s)' = Rest(s) /\ Ahead(s)' = Ahead(s)
           /\ \A s \in Slots : s # k =>
                 (IF main = "sample" /\ s < k THEN i_next ELSE i)
                   = (IF main' = "sample" /\ s < k' THEN i_next' ELSE i')
                 \/ (s < k /\ main' = "decode" /\ i' = i_next)
           /\ (IF main' = "sample" /\ k < k' THEN i_next' ELSE i') = i_next
<1>1. /\ main = "sample" /\ DataType /\ Phase /\ UNCHANGED <<batch, slot_batched, i_next, n_batch>>
  BY DEF SampleStep, DataInv
<1>2. \/ k = NSlots - 1 /\ main' = "decode" /\ k' = 0 /\ i' = i_next
      \/ k # NSlots - 1 /\ main' = "sample" /\ k' = k + 1 /\ i' = i
  BY DEF SampleStep, NextSample
<1>3. k \in 0..(NSlots - 1) BY <1>1 DEF DataType, Slots
<1>4. main' \in {"sample", "decode"} /\ k' \in Slots BY <1>2, <1>3, SizeFacts
<1>5. i' \in 0..Len(batch') BY <1>1, <1>2 DEF DataType
<1>6. Phase' BY <1>1, <1>2 DEF Phase
<1>7. Start = i_next /\ Start' = i_next BY <1>1, <1>2 DEF Start
<1>8. \A s \in Slots : Rest(s)' = Rest(s) BY <1>1, <1>7 DEF Rest
<1>9. \A s \in Slots : Ahead(s)' = Ahead(s)
  BY <1>1, <1>2 DEF Ahead, CountIn
<1>10. ASSUME NEW s \in Slots, s # k
       PROVE  (IF main = "sample" /\ s < k THEN i_next ELSE i)
                   = (IF main' = "sample" /\ s < k' THEN i_next' ELSE i')
              \/ (s < k /\ main' = "decode" /\ i' = i_next)
  BY <1>1, <1>2, <1>3, <1>10, SizeFacts
<1>11. (IF main' = "sample" /\ k < k' THEN i_next' ELSE i') = i_next
  BY <1>1, <1>2, <1>3, SizeFacts
<1>12. QED BY <1>4, <1>5, <1>6, <1>7, <1>8, <1>9, <1>10, <1>11

\* A slot that the step does not change, because the loop is elsewhere or the
\* slot has nothing to sample.
LEMMA SampleKept ==
    ASSUME DataInv, SampleStep, NEW s \in Slots, s # k \/ ~Sampled(s),
           state'[s] = state[s], task'[s] = task[s], prompt'[s] = prompt[s],
           kv'[s] = kv[s], i_batch'[s] = i_batch[s]
    PROVE  SlotOK(s)' /\ TokenOK(s)' /\ KvOK(s)' /\ EmbedOK(s)'
<1>1. /\ main = "sample" /\ DataType /\ SlotOK(s) /\ TokenOK(s) /\ KvOK(s) /\ EmbedOK(s)
      /\ UNCHANGED batch
  BY SlotFacts DEF SampleStep
<1>2. /\ main' \in {"sample", "decode"} /\ Rest(s)' = Rest(s) /\ Ahead(s)' = Ahead(s)
      /\ s # k =>
           (IF main = "sample" /\ s < k THEN i_next ELSE i)
             = (IF main' = "sample" /\ s < k' THEN i_next' ELSE i')
           \/ (s < k /\ main' = "decode" /\ i' = i_next)
      /\ (IF main' = "sample" /\ k < k' THEN i_next' ELSE i') = i_next
  BY SampleFacts
<1>3. TypeOf(s)' = TypeOf(s) /\ NTokens(s)' = NTokens(s) BY DEF TypeOf, NTokens
<1>4. SlotOK(s)' BY <1>1, <1>3 DEF SlotOK, HasPrompt
<1>5. /\ i_batch[s] \in Int /\ i \in Int /\ i_next \in Int /\ Len(batch) \in Nat
      /\ k \in Int /\ s \in Int
  BY <1>1, SlotTypes, SizeFacts DEF DataType
<1>6. state[s] \in Sampling /\ Pending(s) => Pending(s)'
  <2>1. SUFFICES ASSUME state[s] \in Sampling, Pending(s) PROVE Pending(s)' OBVIOUS
  <2>2. i_batch'[s] < Len(batch') BY <1>1, <2>1 DEF Pending
  <2>3. CASE s # k
    BY <1>1, <1>2, <1>5, <2>1, <2>2, <2>3 DEF Pending
  <2>4. CASE s = k
    <3>1. i_batch[s] >= i BY <1>1, <1>5, <2>1, <2>4 DEF Pending
    <3>2. i_batch[s] >= i_next BY <1>5, <2>1, <2>4, <3>1 DEF Sampled, Sampling
    <3>3. QED BY <1>2, <2>2, <2>4, <3>2 DEF Pending
  <2>5. QED BY <2>3, <2>4
<1>7. TokenOK(s)' BY <1>1, <1>2, <1>6 DEF TokenOK, Sampling
<1>8. KvOK(s)' BY <1>1, <1>2 DEF KvOK, BackedByKv
<1>9. CountIn(s, 0, Len(batch))' = CountIn(s, 0, Len(batch)) BY <1>1 DEF CountIn
<1>10. EmbedOK(s)' BY <1>1, <1>3, <1>9 DEF EmbedOK
<1>11. QED BY <1>4, <1>7, <1>8, <1>10

\* The types of what such a step leaves alone.
LEMMA SampleType ==
    ASSUME DataInv, SampleStep,
           state' \in [Slots -> SlotStates], task' \in [Slots -> Ids \cup {0}],
           \A s \in Slots : state'[s] = "IDLE" <=> task'[s] = 0,
           prompt' \in [Slots -> 0..NCtx], kv' \in [Slots -> 0..NCtx],
           i_batch' \in [Slots -> -1..(NBatch + NSlots)]
    PROVE  DataType'
<1>1. DataType /\ UNCHANGED <<batch, slot_batched, i_next, n_batch>>
  BY DEF DataInv, SampleStep
<1>2. main' \in {"sample", "decode"} /\ k' \in Slots /\ i' \in 0..Len(batch')
  BY SampleFacts
<1>3. QED BY <1>1, <1>2 DEF DataType

LEMMA SampleSkipData ==
    ASSUME DataInv, SampleSkip PROVE DataInv'
<1>1. SampleStep /\ UNCHANGED slot_vars /\ ~Sampled(k) BY DEF SampleSkip, SampleStep
<1>2. DataType' BY <1>1, SampleType DEF DataInv, DataType, slot_vars
<1>3. \A s \in Slots : SlotOK(s)' /\ TokenOK(s)' /\ KvOK(s)' /\ EmbedOK(s)'
  BY <1>1, SampleKept DEF slot_vars
<1>4. Phase' /\ main' # "error" BY <1>1, SampleFacts
<1>5. QED BY <1>2, <1>3, <1>4 DEF DataInv

\* A slot that samples has no token left to decode.
LEMMA SampledFacts ==
    ASSUME DataInv, main = "sample", NEW c \in Slots, c = k, Sampled(c)
    PROVE  /\ Rest(c) = {} /\ Ahead(c) = 0 /\ state[c] \in Sampling
           /\ kv[c] <= prompt[c] /\ task[c] \in Ids /\ task[c] # 0
           /\ ~IsChild(task[c]) => prompt[c] = kv[c]
<1>1. /\ DataType /\ TokenOK(c) /\ KvOK(c)
      /\ Ahead(c) = Cardinality(Rest(c))
      /\ Cardinality(Rest(c)) = 0 <=> Rest(c) = {}
      /\ Len(batch) \in Nat
  BY SlotFacts
<1>2. /\ i_batch[c] \in Int /\ i_next \in Int /\ kv[c] \in Nat /\ prompt[c] \in Nat
  BY <1>1, SlotTypes DEF DataType
<1>3. state[c] \in Sampling /\ i_batch[c] < i_next BY DEF Sampled, Sampling
<1>4. Rest(c) = {}
  <2>1. \A n \in Rest(c) : n <= i_batch[c] + 1 BY <1>1, <1>3 DEF TokenOK
  <2>2. \A n \in Rest(c) : n \in Int /\ n >= i_next + 1 BY <1>1, <1>2 DEF Rest, Start
  <2>3. QED BY <1>2, <1>3, <2>1, <2>2
<1>5. task[c] # 0 BY <1>1, <1>3 DEF DataType, Sampling
<1>6. task[c] \in Ids BY <1>1, <1>5, SlotTypes
<1>7. kv[c] <= prompt[c] BY <1>1, <1>2, <1>3, <1>4 DEF KvOK
<1>8. ~IsChild(task[c]) => prompt[c] = kv[c]
  BY <1>1, <1>2, <1>3, <1>4 DEF KvOK, BackedByKv, Sampling
<1>9. QED BY <1>1, <1>3, <1>4, <1>5, <1>6, <1>7, <1>8

LEMMA SampleStopData ==
    ASSUME DataInv, SampleStop PROVE DataInv'
<1>1. DataType BY DEF DataInv
<1>2. PICK c \in Slots : c = k BY <1>1 DEF DataType
<1>3. /\ SampleStep /\ Sampled(c) /\ release(c, FALSE) /\ main = "sample"
      /\ i_batch' = [i_batch EXCEPT ![c] = -1]
  BY <1>2 DEF SampleStop, SampleStep
<1>4. /\ Rest(c) = {} /\ Ahead(c) = 0
      /\ ~IsChild(task[c]) => prompt[c] = kv[c]
  BY <1>2, <1>3, SampledFacts
<1>5. /\ state' \in [Slots -> SlotStates] /\ task' \in [Slots -> Ids \cup {0}]
      /\ prompt' \in [Slots -> 0..NCtx] /\ kv' \in [Slots -> 0..NCtx]
      /\ \A t \in Slots : state'[t] = "IDLE" <=> task'[t] = 0
      /\ state'[c] = "IDLE" /\ task'[c] = 0
      /\ prompt'[c] = IF Cleared(c, FALSE) THEN 0 ELSE prompt[c]
      /\ kv'[c] = IF Cleared(c, FALSE) THEN 0 ELSE kv[c]
      /\ \A t \in Slots : t # c =>
            /\ state'[t] = state[t] /\ task'[t] = task[t]
            /\ prompt'[t] = prompt[t] /\ kv'[t] = kv[t]
  BY <1>1, <1>3, ReleaseFacts
<1>6. /\ i_batch' \in [Slots -> -1..(NBatch + NSlots)]
      /\ \A t \in Slots : t # c => i_batch'[t] = i_batch[t]
  <2>1. -1 \in -1..(NBatch + NSlots) BY SizeFacts
  <2>2. QED BY <1>1, <1>3, <2>1 DEF DataType
<1>7. prompt'[c] = kv'[c] BY <1>4, <1>5 DEF Cleared
<1>8. kv'[c] \in Nat
  <2>1. kv'[c] \in 0..NCtx BY <1>5
  <2>2. QED BY <2>1
<1>9. DataType' BY <1>3, <1>5, <1>6, SampleType
<1>10. Phase' /\ main' # "error" /\ main' # "batch" /\ Rest(c)' = {} /\ Ahead(c)' = 0
  BY <1>3, <1>4, SampleFacts
<1>11. SlotOK(c)' /\ TokenOK(c)' /\ KvOK(c)' /\ EmbedOK(c)'
  <2>1. SlotOK(c)' BY <1>5 DEF SlotOK, HasPrompt
  <2>2. TokenOK(c)' /\ EmbedOK(c)' BY <1>5, <1>10 DEF TokenOK, EmbedOK, Sampling
  <2>3. KvOK(c)'
    <3>1. state'[c] \notin Sampling BY <1>5 DEF Sampling
    <3>2. prompt'[c] <= kv'[c] + Ahead(c)' BY <1>7, <1>8, <1>10
    <3>3. QED BY <1>10, <3>1, <3>2 DEF KvOK, BackedByKv, Sampling
  <2>4. QED BY <2>1, <2>2, <2>3
<1>12. \A t \in Slots : t # c => SlotOK(t)' /\ TokenOK(t)' /\ KvOK(t)' /\ EmbedOK(t)'
  BY <1>2, <1>3, <1>5, <1>6, SampleKept
<1>13. QED BY <1>9, <1>10, <1>11, <1>12 DEF DataInv

LEMMA SampleNextData ==
    ASSUME DataInv, SampleNext PROVE DataInv'
<1>1. DataType BY DEF DataInv
<1>2. PICK c \in Slots : c = k BY <1>1 DEF DataType
<1>3. /\ SampleStep /\ Sampled(c) /\ main = "sample" /\ HasRoom(c)
      /\ state' = [state EXCEPT ![c] = "GENERATING"]
      /\ i_batch' = [i_batch EXCEPT ![c] = -1]
      /\ UNCHANGED <<task, prompt, kv>>
  BY <1>2 DEF SampleNext, SampleStep
<1>4. /\ Rest(c) = {} /\ Ahead(c) = 0 /\ task[c] # 0
      /\ ~IsChild(task[c]) => prompt[c] = kv[c]
      /\ kv[c] <= prompt[c]
  BY <1>2, <1>3, SampledFacts
<1>5. /\ state' \in [Slots -> SlotStates] /\ state'[c] = "GENERATING"
      /\ \A t \in Slots : t # c => state'[t] = state[t]
  BY <1>1, <1>3 DEF DataType, SlotStates
<1>6. /\ i_batch' \in [Slots -> -1..(NBatch + NSlots)] /\ i_batch'[c] = -1
      /\ \A t \in Slots : t # c => i_batch'[t] = i_batch[t]
  <2>1. -1 \in -1..(NBatch + NSlots) BY SizeFacts
  <2>2. QED BY <1>1, <1>3, <2>1 DEF DataType
<1>7. \A t \in Slots : state'[t] = "IDLE" <=> task'[t] = 0
  BY <1>1, <1>3, <1>4, <1>5 DEF DataType
<1>8. DataType'
  BY <1>1, <1>3, <1>5, <1>6, <1>7, SampleType DEF DataType
<1>9. Phase' /\ main' # "error" /\ main' # "batch" /\ Rest(c)' = {} /\ Ahead(c)' = 0
  BY <1>3, <1>4, SampleFacts
<1>10. prompt[c] \in Nat /\ kv[c] \in Nat BY <1>1, SlotTypes
<1>11. SlotOK(c)' /\ TokenOK(c)' /\ KvOK(c)' /\ EmbedOK(c)'
  <2>1. SlotOK(c)' BY <1>3, <1>5 DEF SlotOK, HasPrompt, HasRoom
  <2>2. TokenOK(c)' /\ EmbedOK(c)' BY <1>5, <1>6, <1>9 DEF TokenOK, EmbedOK
  <2>3. KvOK(c)' BY <1>3, <1>4, <1>9, <1>10 DEF KvOK, BackedByKv
  <2>4. QED BY <2>1, <2>2, <2>3
<1>12. \A t \in Slots : t # c => SlotOK(t)' /\ TokenOK(t)' /\ KvOK(t)' /\ EmbedOK(t)'
  BY <1>2, <1>3, <1>5, <1>6, SampleKept
<1>13. QED BY <1>8, <1>9, <1>11, <1>12 DEF DataInv

----------------------------------------------------------------------------
(* The slots and the batch, in every step. *)

\* A step that leaves slots, batch and main loop alone.
LEMMA SameData ==
    ASSUME DataInv, UNCHANGED <<main, k, slot_vars, batch_vars>> PROVE DataInv'
<1>1. UNCHANGED <<main, k, state, task, prompt, kv, i_batch, batch, slot_batched,
                  i, i_next, n_batch>>
  BY DEF slot_vars, batch_vars
<1>2. DataType' /\ Phase' BY <1>1 DEF DataInv, DataType, Phase
<1>3. ASSUME NEW s \in Slots
      PROVE  /\ SlotOK(s)' <=> SlotOK(s)
             /\ TokenOK(s)' <=> TokenOK(s)
             /\ KvOK(s)' <=> KvOK(s)
             /\ EmbedOK(s)' <=> EmbedOK(s)
  <2>1. /\ Rest(s)' = Rest(s) /\ Ahead(s)' = Ahead(s)
        /\ TypeOf(s)' = TypeOf(s) /\ NTokens(s)' = NTokens(s)
        /\ Pending(s)' <=> Pending(s)
        /\ CountIn(s, 0, Len(batch))' = CountIn(s, 0, Len(batch))
    BY <1>1 DEF Start, Rest, Ahead, CountIn, TypeOf, NTokens, Pending
  <2>2. SlotOK(s)' <=> SlotOK(s) BY <1>1, <2>1 DEF SlotOK, HasPrompt
  <2>3. TokenOK(s)' <=> TokenOK(s) BY <1>1, <2>1 DEF TokenOK
  <2>4. KvOK(s)' <=> KvOK(s) BY <1>1, <2>1 DEF KvOK, BackedByKv
  <2>5. EmbedOK(s)' <=> EmbedOK(s) BY <1>1, <2>1 DEF EmbedOK
  <2>6. QED BY <2>2, <2>3, <2>4, <2>5
<1>4. QED BY <1>1, <1>2, <1>3 DEF DataInv

LEMMA DataInit == ASSUME Init PROVE DataInv
<1>1. DataType
  <2>1. <<>> \in Seq(Slots) /\ Len(<<>>) = 0 OBVIOUS
  <2>2. 0 \in 0..NCtx /\ -1 \in -1..(NBatch + NSlots) /\ NBatch \in 1..NBatch /\ 0 \in Slots
    BY SizeFacts
  <2>3. QED BY <2>1, <2>2, SizeFacts DEF Init, DataType, SlotStates
<1>2. Phase BY SizeFacts DEF Init, Phase
<1>3. main \in {"fetch", "task"} BY DEF Init
<1>4. \A s \in Slots : Quiet(s) BY DEF Init, Quiet, SlotOK, HasPrompt
<1>5. QED BY <1>1, <1>2, <1>3, <1>4, QuietIs

LEMMA DataNext ==
    ASSUME DataInv, TaskType, [Next]_vars PROVE DataInv'
<1>1. CASE MainStep
  BY <1>1, FetchData, DeferData, LaunchData, RejectData, CancelData, SlotActionData,
     BeginData, SkipData, RefuseData, WaitData, AddData, EndData, DecodeData,
     NoSpaceData, FailData, ErrorData, SampleSkipData, SampleStopData, SampleNextData
  DEF MainStep
<1>2. CASE \E g \in Requests : Post(g) \/ ReaderStep(g) \/ Disconnect(g)
  BY <1>2, SameData DEF Post, ReaderStep, ReaderDone, ReaderError, Disconnect, stop
<1>3. CASE UNCHANGED vars BY <1>3, SameData DEF vars
<1>4. QED BY <1>1, <1>2, <1>3 DEF Next

----------------------------------------------------------------------------
(* The deques: what an operation may bring in. *)

LEMMA RemoveHolds ==
    ASSUME NEW S, NEW q \in Seq(S), NEW n \in 1..Len(q), NEW u, Holds(RemoveAt(q, n), u)
    PROVE  Holds(q, u)
<1> DEFINE r == RemoveAt(q, n)
<1>1. /\ r \in Seq(S) /\ Len(r) = Len(q) - 1 /\ Len(q) \in Nat
      /\ \A m \in 1..(Len(q) - 1) : r[m] = IF m < n THEN q[m] ELSE q[m + 1]
  <2>1. Len(q) \in Nat OBVIOUS
  <2>2. /\ RemoveAt(q, n) \in Seq(S) /\ Len(RemoveAt(q, n)) = Len(q) - 1
        /\ \A m \in 1..(Len(q) - 1) :
             RemoveAt(q, n)[m] = IF m < n THEN q[m] ELSE q[m + 1]
    BY RemoveAtLemma, ZenonT(30)
  <2>3. QED BY <2>1, <2>2
<1> HIDE DEF r
<1>2. PICK m \in DOMAIN r : r[m] = u BY DEF Holds, r
<1>3. m \in 1..(Len(q) - 1) BY <1>1, <1>2
<1>4. u = q[m] \/ u = q[m + 1] BY <1>1, <1>2, <1>3
<1>5. m \in DOMAIN q /\ m + 1 \in DOMAIN q BY <1>1, <1>3
<1>6. QED BY <1>4, <1>5 DEF Holds

LEMMA PushHolds ==
    ASSUME NEW S, NEW q \in Seq(S), NEW t \in S, NEW front \in BOOLEAN,
           NEW u, Holds(Push(q, t, front), u)
    PROVE  Holds(q, u) \/ u = t
<1>1. Len(q) \in Nat /\ DOMAIN q = 1..Len(q) OBVIOUS
<1>2. CASE front
  <2>1. Push(q, t, front) = <<t>> \o q BY <1>2 DEF Push
  <2>2. PICK m \in DOMAIN (<<t>> \o q) : (<<t>> \o q)[m] = u BY <2>1 DEF Holds
  <2>3. m \in 1..(Len(q) + 1) BY <1>1, <2>2
  <2>4. CASE m = 1 BY <2>2, <2>4
  <2>5. CASE m # 1
    <3>1. m - 1 \in 1..Len(q) /\ (<<t>> \o q)[m] = q[m - 1] BY <1>1, <2>3, <2>5
    <3>2. QED BY <1>1, <2>2, <3>1 DEF Holds
  <2>6. QED BY <2>4, <2>5
<1>3. CASE ~front
  <2>1. Push(q, t, front) = Append(q, t) BY <1>3 DEF Push
  <2>2. PICK m \in DOMAIN Append(q, t) : Append(q, t)[m] = u BY <2>1 DEF Holds
  <2>3. m \in 1..(Len(q) + 1) BY <1>1, <2>2
  <2>4. CASE m = Len(q) + 1 BY <1>1, <2>2, <2>4
  <2>5. CASE m # Len(q) + 1
    <3>1. m \in 1..Len(q) /\ Append(q, t)[m] = q[m] BY <1>1, <2>3, <2>5
    <3>2. QED BY <1>1, <2>2, <3>1 DEF Holds
  <2>6. QED BY <2>4, <2>5
<1>4. QED BY <1>2, <1>3

LEMMA TailHolds ==
    ASSUME NEW S, NEW q \in Seq(S), q # <<>>
    PROVE  /\ Holds(q, Head(q))
           /\ \A u : Holds(Tail(q), u) => Holds(q, u)
           /\ \A u : Holds(q, u) => u = Head(q) \/ Holds(Tail(q), u)
<1>1. /\ Len(q) \in Nat \ {0} /\ DOMAIN q = 1..Len(q) /\ 1 \in DOMAIN q /\ Head(q) = q[1]
      /\ DOMAIN Tail(q) = 1..(Len(q) - 1)
      /\ \A m \in 1..(Len(q) - 1) : Tail(q)[m] = q[m + 1]
  OBVIOUS
<1>2. ASSUME NEW u, Holds(Tail(q), u) PROVE Holds(q, u)
  <2>1. PICK m \in 1..(Len(q) - 1) : Tail(q)[m] = u BY <1>1, <1>2 DEF Holds
  <2>2. m + 1 \in DOMAIN q /\ q[m + 1] = u BY <1>1, <2>1
  <2>3. QED BY <2>2 DEF Holds
<1>3. ASSUME NEW u, Holds(q, u), u # Head(q) PROVE Holds(Tail(q), u)
  <2>1. PICK m \in 1..Len(q) : q[m] = u BY <1>1, <1>3 DEF Holds
  <2>2. m - 1 \in 1..(Len(q) - 1) BY <1>1, <1>3, <2>1
  <2>3. Tail(q)[m - 1] = u BY <1>1, <2>1, <2>2
  <2>4. QED BY <1>1, <2>2, <2>3 DEF Holds
<1>4. QED BY <1>1, <1>2, <1>3 DEF Holds

\* CANCEL tasks in front of a deque.
LEMMA CancelFront ==
    ASSUME NEW S, NEW c \in Seq(CancelTasks), NEW q \in Seq(S), Distinct(q)
    PROVE  /\ c \o q \in Seq(CancelTasks \cup S)
           /\ Distinct(c \o q) /\ IdsIn(c \o q) = IdsIn(q)
           /\ \A u : Holds(c \o q, u) <=> Holds(c, u) \/ Holds(q, u)
<1> DEFINE r == c \o q
<1>1. /\ Len(c) \in Nat /\ Len(q) \in Nat /\ Len(r) = Len(c) + Len(q)
      /\ DOMAIN c = 1..Len(c) /\ DOMAIN q = 1..Len(q)
      /\ DOMAIN r = 1..(Len(c) + Len(q)) /\ r \in Seq(CancelTasks \cup S)
  OBVIOUS
<1>2. \A m \in 1..Len(c) : r[m] = c[m] OBVIOUS
<1>3. \A m \in (Len(c) + 1)..(Len(c) + Len(q)) : r[m] = q[m - Len(c)] BY <1>1
<1>4. \A m \in 1..Len(q) : r[m + Len(c)] = q[m]
  <2>1. SUFFICES ASSUME NEW m \in 1..Len(q) PROVE r[m + Len(c)] = q[m] OBVIOUS
  <2>2. m + Len(c) \in (Len(c) + 1)..(Len(c) + Len(q)) /\ (m + Len(c)) - Len(c) = m
    BY <1>1
  <2>3. QED BY <1>3, <2>2
<1> HIDE DEF r
<1>5. \A m \in 1..Len(c) : r[m].id = 0
  <2>1. SUFFICES ASSUME NEW m \in 1..Len(c) PROVE c[m].id = 0 BY <1>2
  <2>2. c[m] \in CancelTasks BY <1>1
  <2>3. PICK j \in Ids : c[m] = CancelTask(j) BY <2>2 DEF CancelTasks
  <2>4. QED BY <2>3, TaskFields
<1>6. ASSUME NEW m \in DOMAIN r, m \notin 1..Len(c)
      PROVE  /\ m - Len(c) \in DOMAIN q /\ r[m] = q[m - Len(c)]
  <2>1. m \in (Len(c) + 1)..(Len(c) + Len(q)) BY <1>1, <1>6
  <2>2. QED BY <1>1, <1>3, <2>1
<1>7. Distinct(r)
  <2>1. SUFFICES ASSUME NEW m \in DOMAIN r, NEW n \in DOMAIN r, r[m].id = r[n].id,
                        r[m].id # 0
                 PROVE  m = n
    BY DEF Distinct
  <2>2. m \notin 1..Len(c) /\ n \notin 1..Len(c) BY <1>5, <2>1
  <2>3. m - Len(c) = n - Len(c) BY <1>6, <2>1, <2>2 DEF Distinct
  <2>4. m \in Int /\ n \in Int BY <1>1
  <2>5. QED BY <1>1, <2>3, <2>4
<1>8. ASSUME NEW u PROVE Holds(r, u) <=> Holds(c, u) \/ Holds(q, u)
  <2>1. ASSUME Holds(r, u) PROVE Holds(c, u) \/ Holds(q, u)
    <3>1. PICK m \in DOMAIN r : r[m] = u BY <2>1 DEF Holds
    <3>2. CASE m \in 1..Len(c) BY <1>1, <1>2, <3>1, <3>2 DEF Holds
    <3>3. CASE m \notin 1..Len(c) BY <1>6, <3>1, <3>3 DEF Holds
    <3>4. QED BY <3>2, <3>3
  <2>2. ASSUME Holds(c, u) PROVE Holds(r, u)
    <3>1. PICK m \in 1..Len(c) : c[m] = u BY <1>1, <2>2 DEF Holds
    <3>2. m \in DOMAIN r BY <1>1
    <3>3. QED BY <1>2, <3>1, <3>2 DEF Holds
  <2>3. ASSUME Holds(q, u) PROVE Holds(r, u)
    <3>1. PICK m \in 1..Len(q) : q[m] = u BY <1>1, <2>3 DEF Holds
    <3>2. m + Len(c) \in DOMAIN r BY <1>1
    <3>3. QED BY <1>4, <3>1, <3>2 DEF Holds
  <2>4. QED BY <2>1, <2>2, <2>3
<1>9. IdsIn(r) = IdsIn(q)
  <2>1. ASSUME NEW x \in IdsIn(r) PROVE x \in IdsIn(q)
    <3>1. PICK m \in DOMAIN r : r[m].id = x /\ x # 0 BY <2>1 DEF IdsIn
    <3>2. m \notin 1..Len(c) BY <1>5, <3>1
    <3>3. QED BY <1>6, <3>1, <3>2 DEF IdsIn
  <2>2. ASSUME NEW x \in IdsIn(q) PROVE x \in IdsIn(r)
    <3>1. PICK m \in 1..Len(q) : q[m].id = x /\ x # 0 BY <1>1, <2>2 DEF IdsIn
    <3>2. m + Len(c) \in DOMAIN r /\ r[m + Len(c)].id = x BY <1>1, <1>4, <3>1
    <3>3. QED BY <3>1, <3>2 DEF IdsIn
  <2>3. QED BY <2>1, <2>2
<1>10. QED BY <1>1, <1>7, <1>8, <1>9 DEF r

LEMMA CleanupHolds ==
    ASSUME NEW S, NEW q \in Seq(S), NEW target, NEW u, Holds(Cleanup(q, target), u)
    PROVE  Holds(q, u)
<1>1. CASE \E n \in DOMAIN q : q[n].id = target
  <2>1. PICK n \in DOMAIN q : Cleanup(q, target) = RemoveAt(q, n)
    BY <1>1 DEF Cleanup
  <2>2. n \in 1..Len(q) OBVIOUS
  <2>3. QED BY <2>1, <2>2, RemoveHolds
<1>2. CASE ~ \E n \in DOMAIN q : q[n].id = target BY <1>2 DEF Cleanup
<1>3. QED BY <1>1, <1>2

\* Only requests are deferred, so a release brings no CANCEL into the deque.
Popped ==
    /\ queue_tasks' \in Seq(RequestTasks \cup CancelTasks)
    /\ queue_tasks_deferred' \in Seq(RequestTasks)
    /\ Distinct(queue_tasks') /\ Distinct(queue_tasks_deferred')
    /\ IdsIn(queue_tasks') \cap IdsIn(queue_tasks_deferred') = {}
    /\ IdsIn(queue_tasks') \cup IdsIn(queue_tasks_deferred')
         = IdsIn(queue_tasks) \cup IdsIn(queue_tasks_deferred)
    /\ \A j : Holds(queue_tasks', CancelTask(j)) => Holds(queue_tasks, CancelTask(j))
    /\ \A u : Holds(queue_tasks, u) => Holds(queue_tasks', u)
    /\ queue_tasks_deferred # <<>> =>
          \E g \in Requests : Holds(queue_tasks', RequestTask(g))
    /\ queue_tasks_deferred = <<>> => queue_tasks_deferred' = <<>>

LEMMA PopFacts ==
    ASSUME TaskType, OnePlace, NEW s, pop_deferred_task(s) PROVE Popped
<1> DEFINE S == RequestTasks \cup CancelTasks
           q == queue_tasks
           d == queue_tasks_deferred
<1>1. q \in Seq(S) /\ d \in Seq(RequestTasks) /\ d \in Seq(S) BY DEF TaskType
<1>2. Distinct(q) /\ Distinct(d) /\ IdsIn(q) \cap IdsIn(d) = {} BY DEF OnePlace
<1>3. queue_tasks' = PopToFront(q, d, s) /\ queue_tasks_deferred' = PopRest(d, s)
  BY DEF pop_deferred_task
<1> HIDE DEF S
<1>4. /\ queue_tasks' \in Seq(S)
      /\ Distinct(queue_tasks') /\ Distinct(queue_tasks_deferred')
      /\ IdsIn(queue_tasks') \cap IdsIn(queue_tasks_deferred') = {}
      /\ IdsIn(queue_tasks') \cup IdsIn(queue_tasks_deferred') = IdsIn(q) \cup IdsIn(d)
      /\ \A u : Holds(q, u) => Holds(queue_tasks', u)
  BY <1>1, <1>2, <1>3, PopLemma
<1>5. CASE d = <<>>
  <2>1. queue_tasks' = q /\ queue_tasks_deferred' = d BY <1>3, <1>5 DEF PopToFront, PopRest
  <2>2. QED BY <1>1, <1>4, <1>5, <2>1 DEF Popped, S
<1>6. CASE d # <<>>
  <2>1. PICK n \in 1..Len(d) : n = DeferredIndex(d, s) BY <1>1, <1>6, DeferredIndexLemma
  <2>2. queue_tasks_deferred' = RemoveAt(d, n) BY <1>3, <1>6, <2>1 DEF PopRest
  <2>3. queue_tasks' = Push(q, d[n], TRUE) BY <1>3, <1>6, <2>1 DEF PopToFront, Push
  <2>4. queue_tasks_deferred' \in Seq(RequestTasks) BY <1>1, <2>2, RemoveAtLemma
  <2>5. d[n] \in RequestTasks BY <1>1
  <2>6. PICK g \in Requests : d[n] = RequestTask(g) BY <2>5 DEF RequestTasks
  <2>7. d[n] \in S BY <2>5 DEF S
  <2>8. Holds(queue_tasks', d[n]) BY <1>1, <2>3, <2>7, PushLemma
  <2>9. \A j : d[n] # CancelTask(j) BY <2>6, TaskFields
  <2>10. \A j : Holds(queue_tasks', CancelTask(j)) => Holds(q, CancelTask(j))
    <3>1. SUFFICES ASSUME NEW j, Holds(queue_tasks', CancelTask(j))
                   PROVE  Holds(q, CancelTask(j))
      OBVIOUS
    <3>2. Holds(Push(q, d[n], TRUE), CancelTask(j)) BY <2>3, <3>1
    <3>3. Holds(q, CancelTask(j)) \/ CancelTask(j) = d[n]
      BY <1>1, <2>7, <3>2, PushHolds, Zenon
    <3>4. QED BY <2>9, <3>3
  <2>11. QED BY <1>4, <1>6, <2>4, <2>6, <2>8, <2>10 DEF Popped, S
<1>7. QED BY <1>5, <1>6

----------------------------------------------------------------------------
(* The queues and the requests: what a step must keep. *)

\* A task is queued in a deque or in hand.
LEMMA QueuedIs ==
    \A g : Queued(g) <=> cur.id = g \/ g \in IdsIn(queue_tasks) \cup IdsIn(queue_tasks_deferred)
BY DEF Queued

Queues == TaskType /\ OnePlace /\ CancelOK

\* The deques and the task in hand stay as they are.
LEMMA QueuesKept ==
    ASSUME Queues, UNCHANGED <<queue_vars, cur>>, main' = "task" <=> main = "task",
           reader' \in [Requests -> {"new", "posted", "done"}],
           answer' \in [Ids -> {"none", "final", "error", "twice"}],
           \A g \in Requests : reader[g] = "done" => reader'[g] = "done"
    PROVE  /\ Queues'
           /\ \A g \in Requests : Queued(g)' <=> Queued(g)
<1>1. UNCHANGED <<queue_tasks, queue_tasks_deferred, cur>> BY DEF queue_vars
<1>2. TaskType' BY <1>1 DEF Queues, TaskType
<1>3. OnePlace' BY <1>1 DEF Queues, OnePlace
<1>4. \A j \in Ids : RequestOf(j) \in Requests BY IdFacts
<1>5. CancelOK' BY <1>1, <1>4 DEF Queues, CancelOK
<1>6. QED BY <1>1, <1>2, <1>3, <1>5 DEF Queues, Queued

\* A slot is released: a deferred task may move.  A CANCEL in hand is over.
LEMMA QueuesPopped ==
    ASSUME Queues, Popped, UNCHANGED reader,
           \/ UNCHANGED cur /\ (main' = "task" <=> main = "task")
           \/ cur.type = "CANCEL" /\ cur' = NoTask /\ main' = "fetch",
           answer' \in [Ids -> {"none", "final", "error", "twice"}]
    PROVE  /\ Queues'
           /\ \A g \in Requests : Queued(g)' <=> Queued(g)
<1>1. TaskType /\ OnePlace /\ CancelOK BY DEF Queues
<1>2. /\ cur'.id = cur.id /\ cur' \in RequestTasks \cup CancelTasks \cup {NoTask}
      /\ main' = "task" <=> cur' # NoTask
      /\ \A j : cur' = CancelTask(j) => cur = CancelTask(j)
  <2>1. CASE UNCHANGED cur /\ (main' = "task" <=> main = "task")
    BY <1>1, <2>1 DEF TaskType, OnePlace
  <2>2. CASE cur.type = "CANCEL" /\ cur' = NoTask /\ main' = "fetch"
    <3>1. cur.id = 0 BY <1>1, <2>2, CurFacts
    <3>2. \A j : NoTask # CancelTask(j) BY TaskFields
    <3>3. QED BY <2>2, <3>1, <3>2, TaskFields
  <2>3. QED BY <2>1, <2>2
<1>3. TaskType' BY <1>1, <1>2 DEF TaskType, Popped
<1>4. OnePlace' BY <1>1, <1>2 DEF OnePlace, Popped
<1>5. CancelOK'
  <2>1. SUFFICES ASSUME NEW j \in Ids,
                        Holds(queue_tasks', CancelTask(j)) \/ cur' = CancelTask(j)
                 PROVE  reader'[RequestOf(j)] = "done"
    BY DEF CancelOK
  <2>2. Holds(queue_tasks, CancelTask(j)) \/ cur = CancelTask(j) BY <1>2, <2>1 DEF Popped
  <2>3. QED BY <1>1, <2>2 DEF CancelOK
<1>6. \A g \in Requests : Queued(g)' <=> Queued(g) BY <1>2 DEF Queued, Popped
<1>7. QED BY <1>3, <1>4, <1>5, <1>6 DEF Queues

\* The task in hand is over.
LEMMA QueuesOver ==
    ASSUME Queues, UNCHANGED <<queue_vars, reader>>, TaskOver,
           answer' \in [Ids -> {"none", "final", "error", "twice"}]
    PROVE  /\ Queues'
           /\ \A g \in Requests : IF g = cur.id THEN ~Queued(g)' ELSE Queued(g)' <=> Queued(g)
<1>1. TaskType /\ OnePlace /\ CancelOK BY DEF Queues
<1>2. /\ UNCHANGED <<queue_tasks, queue_tasks_deferred>> /\ cur' = NoTask /\ main' = "fetch"
  BY DEF queue_vars, TaskOver
<1>3. NoTask.id = 0 /\ (\A j : NoTask # CancelTask(j)) /\ \A g \in Requests : g # 0
  BY TaskFields
<1>4. TaskType' BY <1>1, <1>2 DEF TaskType
<1>5. OnePlace'
  <2>1. 0 \notin IdsIn(queue_tasks) /\ 0 \notin IdsIn(queue_tasks_deferred) BY DEF IdsIn
  <2>2. QED BY <1>1, <1>2, <1>3, <2>1 DEF OnePlace
<1>6. CancelOK' BY <1>1, <1>2, <1>3 DEF CancelOK
<1>7. ASSUME NEW g \in Requests, g = cur.id PROVE ~Queued(g)'
  BY <1>1, <1>2, <1>3, <1>7 DEF Queued, OnePlace
<1>8. ASSUME NEW g \in Requests, g # cur.id PROVE Queued(g)' <=> Queued(g)
  BY <1>2, <1>3, <1>8 DEF Queued
<1>9. QED BY <1>4, <1>5, <1>6, <1>7, <1>8 DEF Queues

\* A request that the step does not touch.
LEMMA RequestKept ==
    ASSUME NEW g \in Requests, RequestOK(g), reader'[g] = reader[g],
           Queued(g)' <=> Queued(g),
           \A j \in IdsOf(g) : /\ answer'[j] = answer[j]
                               /\ \A s \in Slots : task'[s] = j <=> task[s] = j
    PROVE  RequestOK(g)' /\ (Failed(g)' <=> Failed(g))
<1>1. \A j \in IdsOf(g) : InSlot(j)' <=> InSlot(j) BY DEF InSlot
<1>2. Untouched(g)' <=> Untouched(g) BY <1>1 DEF Untouched
<1>3. Failed(g)' <=> Failed(g) BY DEF Failed
<1>4. QED BY <1>1, <1>2, <1>3 DEF RequestOK

\* A request whose reader stops.
LEMMA RequestStopped ==
    ASSUME NEW g \in Requests, reader'[g] = "done" PROVE RequestOK(g)'
BY DEF RequestOK

\* A parent that is still on its prompt.
OnPrompt == {"STARTED", "PROCESSING_PROMPT", "DONE_PROMPT"}

\* Nothing more will come from this request, so its children need not wait.
Over(g) == Failed(g) \/ reader[g] = "done" \/ Req[g].n_tokens = 0

\* Every waiting child waited before, its request is over if it was, and the
\* parent is still on its prompt unless the request is over.
LEMMA ChildStep ==
    ASSUME ChildHasParent,
           \A c \in Slots : \A g : state'[c] = "WAIT_OTHER" /\ g = RequestOf(task'[c]) =>
              /\ state[c] = "WAIT_OTHER" /\ task'[c] = task[c]
              /\ Over(g) => Over(g)'
              /\ \A p \in Slots : task[p] = g /\ state[p] \in OnPrompt
                    => Over(g)' \/ (task'[p] = g /\ state'[p] \in OnPrompt)
    PROVE  ChildHasParent'
<1>1. SUFFICES ASSUME NEW c \in Slots, NEW g, state'[c] = "WAIT_OTHER",
                      g = RequestOf(task'[c])
               PROVE  Over(g)' \/ \E s \in Slots : task'[s] = g /\ state'[s] \in OnPrompt
  BY DEF ChildHasParent, Over, OnPrompt
<1>2. /\ state[c] = "WAIT_OTHER" /\ g = RequestOf(task[c])
      /\ Over(g) => Over(g)'
      /\ \A p \in Slots : task[p] = g /\ state[p] \in OnPrompt
            => Over(g)' \/ (task'[p] = g /\ state'[p] \in OnPrompt)
  BY <1>1
<1>3. Over(g) \/ \E s \in Slots : task[s] = g /\ state[s] \in OnPrompt
  BY <1>2 DEF ChildHasParent, Over, OnPrompt
<1>4. QED BY <1>2, <1>3

----------------------------------------------------------------------------
(* The tasks while update_slots fills and decodes the batch. *)

\* The step changes slots, but no task and no answer.
LEMMA SlotsOnly ==
    ASSUME TaskInv, UNCHANGED <<queue_vars, cur, task, reader, answer>>,
           main # "task", main' # "task",
           \A c \in Slots : state'[c] = "WAIT_OTHER" => state[c] = "WAIT_OTHER",
           \A p \in Slots : state[p] \in OnPrompt =>
              \/ state'[p] \in OnPrompt
              \/ \A c \in Slots : state'[c] = "WAIT_OTHER" => RequestOf(task[c]) # task[p],
           Activated'
    PROVE  TaskInv'
<1>1. Queues /\ (\A g \in Requests : RequestOK(g)) /\ ChildHasParent BY DEF TaskInv, Queues
<1>2. /\ reader' \in [Requests -> {"new", "posted", "done"}]
      /\ answer' \in [Ids -> {"none", "final", "error", "twice"}]
      /\ \A g \in Requests : reader[g] = "done" => reader'[g] = "done"
  BY <1>1 DEF Queues, TaskType
<1>3. Queues' /\ \A g \in Requests : Queued(g)' <=> Queued(g) BY <1>1, <1>2, QueuesKept
<1>4. \A g \in Requests : RequestOK(g)' BY <1>1, <1>3, RequestKept
<1>5. \A g : Over(g)' <=> Over(g) BY DEF Over, Failed
<1>6. ChildHasParent' BY <1>1, <1>5, ChildStep
<1>7. QED BY <1>3, <1>4, <1>6 DEF TaskInv, Queues

\* The states of the slots stay as well.
LEMMA NothingNew ==
    ASSUME TaskInv, UNCHANGED <<queue_vars, cur, state, task, reader, answer>>,
           main # "task", main' # "task", main' = "sample" => main = "sample"
    PROVE  TaskInv'
<1>1. Activated' BY DEF TaskInv, Activated, ParentOf
<1>2. QED BY <1>1, SlotsOnly

LEMMA BatchTask ==
    ASSUME DataInv, TaskInv,
           \/ UpdateBegin \/ PromptSkip \/ UpdateEnd \/ DecodeNoSpace \/ DecodeFail
           \/ SampleSkip
    PROVE  TaskInv'
<1>1. ASSUME NEW end, NextSlot(end) PROVE main' \in {"decode", "batch"} BY <1>1 DEF NextSlot
<1>2. NextSample => main' \in {"decode", "sample"} BY DEF NextSample
<1>3. UNCHANGED <<queue_vars, cur, state, task, reader, answer>>
  BY DEF UpdateBegin, PromptSkip, UpdateEnd, DecodeNoSpace, DecodeFail, SampleSkip, slot_vars
<1>4. main # "task" /\ main' # "task" /\ (main' = "sample" => main = "sample")
  <2>1. CASE PromptSkip BY <1>1, <2>1 DEF PromptSkip
  <2>2. CASE SampleSkip BY <1>2, <2>2 DEF SampleSkip
  <2>3. CASE UpdateBegin \/ UpdateEnd \/ DecodeNoSpace \/ DecodeFail
    BY <2>3 DEF UpdateBegin, UpdateEnd, UpdateOver, DecodeNoSpace, DecodeFail
  <2>4. QED BY <2>1, <2>2, <2>3
<1>5. QED BY <1>3, <1>4, NothingNew

LEMMA PromptTask ==
    ASSUME DataInv, TaskInv, PromptWait \/ PromptAdd PROVE TaskInv'
<1>1. DataType BY DEF DataInv
<1>2. PICK c \in Slots : c = k BY <1>1 DEF DataType
<1>3. ASSUME NEW end, NextSlot(end) PROVE main' \in {"decode", "batch"} BY <1>3 DEF NextSlot
<1>4. /\ main = "batch" /\ main' \in {"decode", "batch"}
      /\ UNCHANGED <<queue_vars, cur, task, reader, answer>>
      /\ \E x \in {"DONE_PROMPT", "PROCESSING_PROMPT"} : state' = [state EXCEPT ![c] = x]
  BY <1>2, <1>3 DEF PromptWait, PromptAdd
<1>5. PICK x \in {"DONE_PROMPT", "PROCESSING_PROMPT"} : state' = [state EXCEPT ![c] = x]
  BY <1>4
<1>6. state'[c] = x /\ \A s \in Slots : s # c => state'[s] = state[s]
  BY <1>1, <1>5 DEF DataType
<1>7. /\ \A s \in Slots : state'[s] = "WAIT_OTHER" => state[s] = "WAIT_OTHER"
      /\ \A s \in Slots : state[s] \in OnPrompt => state'[s] \in OnPrompt
  BY <1>6 DEF OnPrompt
<1>8. Activated' BY <1>4 DEF Activated
<1>9. QED BY <1>4, <1>7, <1>8, SlotsOnly

\* A slot with a token to sample has no child that waits for it.
LEMMA NoWaiting ==
    ASSUME DataInv, TaskInv, main = "sample", NEW c \in Slots, state[c] = "DONE_PROMPT",
           NEW s \in Slots, state[s] = "WAIT_OTHER"
    PROVE  RequestOf(task[s]) # task[c]
BY DEF TaskInv, Activated, ParentOf

LEMMA SampleNextTask ==
    ASSUME DataInv, TaskInv, SampleNext PROVE TaskInv'
<1>1. DataType BY DEF DataInv
<1>2. PICK c \in Slots : c = k BY <1>1 DEF DataType
<1>3. /\ main = "sample" /\ main' \in {"decode", "sample"} /\ Sampled(c)
      /\ UNCHANGED <<queue_vars, cur, task, reader, answer>>
      /\ state' = [state EXCEPT ![c] = "GENERATING"]
  BY <1>2 DEF SampleNext, NextSample
<1>4. state'[c] = "GENERATING" /\ \A s \in Slots : s # c => state'[s] = state[s]
  BY <1>1, <1>3 DEF DataType
<1>5. \A s \in Slots : state'[s] \in {"WAIT_OTHER", "DONE_PROMPT"} => state[s] = state'[s]
  BY <1>4
<1>6. ASSUME NEW p \in Slots, state[p] \in OnPrompt
      PROVE  \/ state'[p] \in OnPrompt
             \/ \A s \in Slots : state'[s] = "WAIT_OTHER" => RequestOf(task[s]) # task[p]
  <2>1. CASE p # c BY <1>4, <1>6, <2>1
  <2>2. CASE p = c
    <3>1. state[c] = "DONE_PROMPT" BY <1>3, <1>6, <2>2 DEF Sampled, OnPrompt
    <3>2. QED BY <1>3, <1>5, <2>2, <3>1, NoWaiting
  <2>3. QED BY <2>1, <2>2
<1>7. Activated'
  <2>1. \A s \in Slots : ParentOf(s) = {} BY <1>3 DEF TaskInv, Activated
  <2>2. \A s \in Slots : ParentOf(s)' = {} BY <1>3, <1>5, <2>1 DEF ParentOf
  <2>3. QED BY <2>2 DEF Activated
<1>8. QED BY <1>3, <1>5, <1>6, <1>7, SlotsOnly

\* The children of every prompt that is complete are activated.
LEMMA DecodeTask ==
    ASSUME DataInv, TaskInv, DecodeOk PROVE TaskInv'
<1>1. /\ main = "decode" /\ main' = "sample"
      /\ UNCHANGED <<queue_vars, cur, task, reader, answer>>
      /\ state' = [c \in Slots |-> IF ParentOf(c) = {} THEN state[c] ELSE "DONE_PROMPT"]
  BY DEF DecodeOk
<1>2. \A c \in Slots : state'[c] = IF ParentOf(c) = {} THEN state[c] ELSE "DONE_PROMPT"
  BY <1>1
<1>3. \A c \in Slots : state'[c] = "WAIT_OTHER" => state[c] = "WAIT_OTHER" /\ ParentOf(c) = {}
  BY <1>2
<1>4. ASSUME NEW p \in Slots, state[p] \in OnPrompt PROVE state'[p] = state[p]
  BY <1>2, <1>4 DEF ParentOf, OnPrompt
<1>5. Activated'
  <2>1. SUFFICES ASSUME NEW c \in Slots, state'[c] = "WAIT_OTHER",
                        NEW p \in Slots, state'[p] = "DONE_PROMPT",
                        task[p] = RequestOf(task[c])
                 PROVE  FALSE
    BY <1>1 DEF Activated, ParentOf
  <2>2. state[c] = "WAIT_OTHER" /\ ParentOf(c) = {} BY <1>3, <2>1
  <2>3. state[p] # "DONE_PROMPT" BY <2>1, <2>2 DEF ParentOf
  <2>4. ParentOf(p) # {} BY <1>2, <2>1, <2>3
  <2>5. state[p] = "WAIT_OTHER" BY <2>4 DEF ParentOf
  <2>6. IsChild(task[p]) BY <2>5 DEF DataInv, SlotOK
  <2>7. task[c] \in Ids
    <3>1. task[c] # 0 BY <2>2 DEF DataInv, DataType
    <3>2. QED BY <3>1, SlotTypes DEF DataInv
  <2>8. task[p] \in Requests BY <2>1, <2>7, IdFacts
  <2>9. QED BY <2>6, <2>8 DEF IsChild
<1>6. QED BY <1>1, <1>3, <1>4, <1>5, SlotsOnly

----------------------------------------------------------------------------
(* A slot that is released with the answer of its task. *)

LEMMA AnswerFacts ==
    ASSUME TaskType, NEW j \in Ids, NEW kind \in {"final", "error"}, Answer(j, kind)
    PROVE  /\ answer' \in [Ids -> {"none", "final", "error", "twice"}]
           /\ answer'[j] = IF answer[j] = "none" THEN kind ELSE "twice"
           /\ \A x \in Ids : x # j => answer'[x] = answer[x]
BY DEF TaskType, Answer

\* What TaskInv says of the task in a slot.
LEMMA InSlotFacts ==
    ASSUME DataInv, TaskInv, NEW c \in Slots, state[c] # "IDLE",
           NEW g, g = RequestOf(task[c])
    PROVE  /\ task[c] \in Ids /\ task[c] # 0 /\ g \in Requests /\ task[c] \in IdsOf(g)
           /\ reader[g] \in {"posted", "done"}
           /\ reader[g] = "posted" =>
                 /\ ~Queued(g) /\ answer[task[c]] = "none"
                 /\ \A s \in Slots : task[s] = task[c] => s = c
<1>1. DataType /\ TaskType /\ \A h \in Requests : RequestOK(h) BY DEF DataInv, TaskInv
<1>2. task[c] # 0 BY <1>1 DEF DataType
<1>3. task[c] \in Ids BY <1>1, <1>2, SlotTypes
<1>4. g \in Requests /\ task[c] \in IdsOf(g) BY <1>3, IdFacts
<1>5. InSlot(task[c]) BY DEF InSlot
<1>6. ~Untouched(g) BY <1>4, <1>5 DEF Untouched
<1>7. reader[g] \in {"new", "posted", "done"} BY <1>1, <1>4 DEF TaskType
<1>8. RequestOK(g) BY <1>1, <1>4
<1>9. reader[g] # "new" BY <1>6, <1>8 DEF RequestOK
<1>10. reader[g] = "posted" =>
          /\ ~Queued(g) /\ answer[task[c]] = "none"
          /\ \A s \in Slots : task[s] = task[c] => s = c
  BY <1>4, <1>5, <1>6, <1>8 DEF RequestOK
<1>11. QED BY <1>2, <1>3, <1>4, <1>7, <1>9, <1>10

LEMMA FinishTask ==
    ASSUME DataInv, TaskInv, NEW c \in Slots, state[c] # "IDLE",
           NEW kind \in {"final", "error"}, NEW clear \in BOOLEAN,
           Answer(task[c], kind), release(c, clear), UNCHANGED <<cur, reader>>,
           main # "task", main' # "task", main' = "sample" => main = "sample",
           \/ kind = "error"
           \/ Req[RequestOf(task[c])].n_tokens = 0
           \/ state[c] \notin OnPrompt
           \/ \A s \in Slots : state[s] = "WAIT_OTHER" => RequestOf(task[s]) # task[c]
    PROVE  TaskInv'
<1>1. DataType /\ TaskType /\ OnePlace /\ CancelOK /\ ChildHasParent /\ Activated
  BY DEF DataInv, TaskInv
<1>2. PICK j : j = task[c] OBVIOUS
<1>3. PICK g : g = RequestOf(j) OBVIOUS
<1>4. /\ j \in Ids /\ j # 0 /\ g \in Requests /\ j \in IdsOf(g)
      /\ reader[g] \in {"posted", "done"}
      /\ reader[g] = "posted" =>
            /\ ~Queued(g) /\ answer[j] = "none" /\ \A s \in Slots : task[s] = j => s = c
  BY <1>2, <1>3, InSlotFacts
<1>5. /\ state'[c] = "IDLE" /\ task'[c] = 0
      /\ \A t \in Slots : t # c => state'[t] = state[t] /\ task'[t] = task[t]
  BY <1>1, ReleaseFacts
<1>6. Popped BY <1>1, PopFacts DEF release
<1>7. /\ answer' \in [Ids -> {"none", "final", "error", "twice"}]
      /\ answer'[j] = IF answer[j] = "none" THEN kind ELSE "twice"
      /\ \A x \in Ids : x # j => answer'[x] = answer[x]
  BY <1>1, <1>2, <1>4, AnswerFacts
<1>8. Queues' /\ \A h \in Requests : Queued(h)' <=> Queued(h)
  BY <1>1, <1>6, <1>7, QueuesPopped DEF Queues
<1>9. 0 \notin Ids /\ \A h \in Requests : IdsOf(h) \subseteq Ids
                                          /\ \A x \in IdsOf(h) : RequestOf(x) = h
  BY IdFacts
<1>10. ASSUME NEW h \in Requests, h # g
       PROVE  RequestOK(h)' /\ (Failed(h)' <=> Failed(h))
  <2>1. RequestOK(h) BY DEF TaskInv
  <2>2. \A x \in IdsOf(h) : /\ answer'[x] = answer[x]
                            /\ \A s \in Slots : task'[s] = x <=> task[s] = x
    <3>1. SUFFICES ASSUME NEW x \in IdsOf(h)
                   PROVE  /\ answer'[x] = answer[x]
                          /\ \A s \in Slots : task'[s] = x <=> task[s] = x
      OBVIOUS
    <3>2. x # j /\ x \in Ids /\ x # 0 BY <1>3, <1>9, <1>10
    <3>3. QED BY <1>2, <1>5, <1>7, <3>2
  <2>3. reader'[h] = reader[h] /\ (Queued(h)' <=> Queued(h)) BY <1>8
  <2>4. QED BY <2>1, <2>2, <2>3, RequestKept
<1>11. ASSUME reader[g] = "posted"
       PROVE  /\ ~Queued(g)' /\ reader'[g] = "posted"
              /\ answer[j] = "none" /\ answer'[j] = kind
              /\ \A s \in Slots : task[s] = j => s = c
              /\ Failed(g) => Failed(g)'
              /\ kind = "error" => Failed(g)'
  <2>1. answer[j] = "none" /\ answer'[j] = kind BY <1>4, <1>7, <1>11
  <2>2. Failed(g) => Failed(g)' BY <1>4, <1>7, <1>9, <2>1 DEF Failed
  <2>3. kind = "error" => Failed(g)' BY <1>4, <2>1 DEF Failed
  <2>4. QED BY <1>4, <1>8, <1>11, <2>1, <2>2, <2>3
<1>12. RequestOK(g)'
  <2>1. CASE reader[g] = "done" BY <1>4, <2>1, RequestStopped
  <2>2. CASE reader[g] = "posted"
    <3>1. RequestOK(g) BY <1>4 DEF TaskInv
    <3>2. ~Queued(g) BY <1>4, <2>2
    <3>3. ASSUME NEW x \in IdsOf(g)
          PROVE  /\ answer'[x] # "twice"
                 /\ InSlot(x)' => answer'[x] = "none"
                 /\ \A s, t \in Slots : task'[s] = x /\ task'[t] = x => s = t
                 /\ ~Failed(g)' => InSlot(x)' \/ answer'[x] # "none"
      <4>1. x \in Ids /\ x # 0 BY <1>4, <1>9
      <4>2. CASE x = j
        <5>1. \A s \in Slots : task'[s] # j BY <1>4, <1>5, <1>11, <2>2
        <5>2. QED BY <1>11, <2>2, <4>2, <5>1 DEF InSlot
      <4>3. CASE x # j
        <5>1. answer'[x] = answer[x] BY <1>7, <4>1, <4>3
        <5>2. \A s \in Slots : task'[s] = x <=> task[s] = x
          BY <1>2, <1>5, <4>1, <4>3
        <5>3. InSlot(x)' <=> InSlot(x) BY <5>2 DEF InSlot
        <5>4. /\ answer[x] # "twice" /\ (InSlot(x) => answer[x] = "none")
              /\ \A s, t \in Slots : task[s] = x /\ task[t] = x => s = t
              /\ ~Failed(g) => InSlot(x) \/ answer[x] # "none"
          BY <2>2, <3>1, <3>2 DEF RequestOK
        <5>5. QED BY <1>11, <2>2, <5>1, <5>2, <5>3, <5>4
      <4>4. QED BY <4>2, <4>3
    <3>4. QED BY <1>11, <2>2, <3>3 DEF RequestOK
  <2>3. QED BY <1>4, <2>1, <2>2
<1>13. \A h \in Requests : Over(h) => Over(h)'
  <2>1. Over(g) => Over(g)' BY <1>4, <1>11 DEF Over
  <2>2. \A h \in Requests : h # g => (Over(h) => Over(h)') BY <1>10 DEF Over
  <2>3. QED BY <2>1, <2>2
<1>14. ChildHasParent'
  <2>1. ASSUME NEW s \in Slots, NEW h, state'[s] = "WAIT_OTHER", h = RequestOf(task'[s])
        PROVE  /\ state[s] = "WAIT_OTHER" /\ task'[s] = task[s]
               /\ Over(h) => Over(h)'
               /\ \A p \in Slots : task[p] = h /\ state[p] \in OnPrompt
                     => Over(h)' \/ (task'[p] = h /\ state'[p] \in OnPrompt)
    <3>1. s # c /\ state[s] = "WAIT_OTHER" /\ task'[s] = task[s] BY <1>5, <2>1
    <3>2. h \in Requests BY <2>1, <3>1, InSlotFacts
    <3>3. ASSUME NEW p \in Slots, task[p] = h, state[p] \in OnPrompt
          PROVE  Over(h)' \/ (task'[p] = h /\ state'[p] \in OnPrompt)
      <4>1. CASE p # c BY <1>5, <3>3, <4>1
      <4>2. CASE p = c
        <5>1. h = j BY <1>2, <3>3, <4>2
        <5>2. h = g BY <1>3, <3>2, <5>1, IdFacts
        <5>3. kind = "error" \/ Req[g].n_tokens = 0
          BY <1>2, <1>3, <2>1, <3>1, <3>3, <4>2
        <5>4. reader[g] = "done" => reader'[g] = "done" OBVIOUS
        <5>5. QED BY <1>4, <1>11, <5>2, <5>3, <5>4 DEF Over
      <4>3. QED BY <4>1, <4>2
    <3>4. QED BY <1>13, <3>1, <3>2, <3>3
  <2>2. QED BY <1>1, <2>1, ChildStep
<1>15. Activated'
  <2>1. SUFFICES ASSUME main' = "sample", NEW s \in Slots PROVE ParentOf(s)' = {}
    BY DEF Activated
  <2>2. ParentOf(s) = {} BY <1>1, <2>1 DEF Activated
  <2>3. QED BY <1>5, <2>2 DEF ParentOf
<1>16. \A h \in Requests : RequestOK(h)' BY <1>10, <1>12
<1>17. QED BY <1>8, <1>14, <1>15, <1>16 DEF TaskInv, Queues

LEMMA RefuseTask ==
    ASSUME DataInv, TaskInv, PromptRefuse PROVE TaskInv'
<1>1. DataType BY DEF DataInv
<1>2. PICK c \in Slots : c = k BY <1>1 DEF DataType
<1>3. /\ main = "batch" /\ state[c] # "IDLE" /\ UNCHANGED <<cur, reader>>
      /\ Answer(task[c], IF NTokens(c) = 0 THEN "final" ELSE "error")
      /\ release(c, FALSE) /\ NextSlot(FALSE)
  BY <1>2 DEF PromptRefuse
<1>4. main' \in {"decode", "batch"} BY <1>3 DEF NextSlot
<1>5. CASE NTokens(c) = 0
  <2>1. Req[RequestOf(task[c])].n_tokens = 0 BY <1>5 DEF NTokens
  <2>2. Answer(task[c], "final") BY <1>3, <1>5
  <2>3. QED BY <1>3, <1>4, <2>1, <2>2, FinishTask
<1>6. CASE NTokens(c) # 0
  <2>1. Answer(task[c], "error") BY <1>3, <1>6
  <2>2. QED BY <1>3, <1>4, <2>1, FinishTask
<1>7. QED BY <1>5, <1>6

LEMMA SampleStopTask ==
    ASSUME DataInv, TaskInv, SampleStop PROVE TaskInv'
<1>1. DataType BY DEF DataInv
<1>2. PICK c \in Slots : c = k BY <1>1 DEF DataType
<1>3. /\ main = "sample" /\ UNCHANGED <<cur, reader>> /\ Sampled(c)
      /\ Answer(task[c], "final") /\ release(c, FALSE) /\ NextSample
  BY <1>2 DEF SampleStop
<1>4. main' \in {"decode", "sample"} /\ state[c] \in Sampling
  BY <1>3 DEF NextSample, Sampled, Sampling
<1>5. \/ state[c] \notin OnPrompt
      \/ \A s \in Slots : state[s] = "WAIT_OTHER" => RequestOf(task[s]) # task[c]
  BY <1>3, <1>4, NoWaiting DEF Sampling, OnPrompt
<1>6. state[c] # "IDLE" BY <1>4 DEF Sampling
<1>7. QED BY <1>3, <1>4, <1>5, <1>6, FinishTask

LEMMA ErrorTask ==
    ASSUME DataInv, TaskInv, ErrorSlot PROVE TaskInv'
<1>1. DataType BY DEF DataInv
<1>2. PICK c \in Slots : c = k BY <1>1 DEF DataType
<1>3. main = "error" /\ main' \in {"error", "fetch"} /\ UNCHANGED <<cur, reader>>
  BY DEF ErrorSlot, UpdateOver
<1>4. CASE is_processing(c)
  <2>1. state[c] # "IDLE" /\ Answer(task[c], "error") /\ release(c, TRUE)
    BY <1>2, <1>4 DEF ErrorSlot, is_processing
  <2>2. QED BY <1>3, <2>1, FinishTask
<1>5. CASE ~is_processing(c)
  <2>1. UNCHANGED <<queue_vars, state, task, answer>> BY <1>2, <1>5 DEF ErrorSlot
  <2>2. QED BY <1>3, <2>1, NothingNew
<1>6. QED BY <1>4, <1>5

----------------------------------------------------------------------------
(* The task loop. *)

\* The step moves tasks between the deques and the hand, and nothing else.
LEMMA QueuesOnly ==
    ASSUME TaskInv, UNCHANGED <<state, task, reader, answer>>, main' # "sample",
           Queues', \A g \in Requests : Queued(g)' <=> Queued(g)
    PROVE  TaskInv'
<1>1. (\A g \in Requests : RequestOK(g)) /\ ChildHasParent BY DEF TaskInv
<1>2. \A g \in Requests : RequestOK(g)' BY <1>1, RequestKept
<1>3. \A g : Over(g)' <=> Over(g) BY DEF Over, Failed
<1>4. ChildHasParent' BY <1>1, <1>3, ChildStep
<1>5. Activated' BY DEF Activated
<1>6. QED BY <1>2, <1>4, <1>5 DEF TaskInv, Queues

LEMMA FetchTask ==
    ASSUME TaskInv, Fetch PROVE TaskInv'
<1> DEFINE S == RequestTasks \cup CancelTasks
           q == queue_tasks
<1>1. /\ main = "fetch" /\ q # <<>> /\ cur' = Head(q) /\ queue_tasks' = Tail(q)
      /\ main' = "task" /\ UNCHANGED <<queue_tasks_deferred, state, task, reader, answer>>
  BY DEF Fetch, slot_vars
<1>2. TaskType /\ OnePlace /\ CancelOK BY DEF TaskInv
<1>3. q \in Seq(S) /\ Distinct(q) BY <1>2 DEF TaskType, OnePlace
<1>4. cur = NoTask /\ cur.id = 0 /\ \A g \in Requests : g # 0
  BY <1>1, <1>2, TaskFields DEF OnePlace
<1> HIDE DEF S
<1>5. /\ Head(q) \in S /\ Tail(q) \in Seq(S) /\ Distinct(Tail(q))
      /\ IdsIn(Tail(q)) = IdsIn(q) \ {Head(q).id}
      /\ Head(q).id # 0 => Head(q).id \in IdsIn(q)
  BY <1>1, <1>3, TailLemma
<1>6. /\ Holds(q, Head(q)) /\ \A u : Holds(Tail(q), u) => Holds(q, u)
  BY <1>1, <1>3, TailHolds
<1>7. Head(q) # NoTask
  <2>1. \A g \in Requests : RequestTask(g).id # NoTask.id BY TaskFields
  <2>2. \A j : CancelTask(j).type # NoTask.type BY TaskFields
  <2>3. QED BY <1>5, <2>1, <2>2 DEF S, RequestTasks, CancelTasks
<1>8. TaskType' BY <1>1, <1>2, <1>5 DEF TaskType, S
<1>9. OnePlace'
  <2>1. 0 \notin IdsIn(q) /\ 0 \notin IdsIn(queue_tasks_deferred) BY DEF IdsIn
  <2>2. QED BY <1>1, <1>2, <1>5, <1>7, <2>1 DEF OnePlace
<1>10. CancelOK' BY <1>1, <1>2, <1>6 DEF CancelOK
<1>11. ASSUME NEW g \in Requests PROVE Queued(g)' <=> Queued(g)
  BY <1>1, <1>4, <1>5 DEF Queued
<1>12. QED BY <1>1, <1>8, <1>9, <1>10, <1>11, QueuesOnly DEF Queues

\* The task in hand goes to the end of the deferred ones.
LEMMA DeferTask ==
    ASSUME TaskInv, Defer, main = "task", cur \in RequestTasks, UNCHANGED reader
    PROVE  TaskInv'
<1> DEFINE d == queue_tasks_deferred
<1>1. /\ queue_tasks_deferred' = Append(d, cur) /\ cur' = NoTask /\ main' = "fetch"
      /\ UNCHANGED <<queue_tasks, state, task, reader, answer>>
  BY DEF Defer, TaskOver
<1>2. TaskType /\ OnePlace /\ CancelOK BY DEF TaskInv
<1>3. d \in Seq(RequestTasks) /\ Distinct(d) BY <1>2 DEF TaskType, OnePlace
<1>4. queue_tasks_deferred' = Push(d, cur, FALSE) BY <1>1 DEF Push
<1>5. cur.id # 0 /\ cur.id \notin IdsIn(d) /\ cur.id \notin IdsIn(queue_tasks)
  <2>1. PICK g \in Requests : cur = RequestTask(g) BY DEF RequestTasks
  <2>2. cur.id # 0 BY <2>1, TaskFields
  <2>3. QED BY <1>2, <2>2 DEF OnePlace
<1>6. queue_tasks_deferred' \in Seq(RequestTasks) BY <1>3, <1>4, PushLemma
<1>7. /\ Distinct(queue_tasks_deferred')
      /\ IdsIn(queue_tasks_deferred') = IdsIn(d) \cup {cur.id}
  <2>1. FALSE \in BOOLEAN OBVIOUS
  <2>2. /\ IdsIn(Push(d, cur, FALSE)) = IdsIn(d) \cup ({cur.id} \ {0})
        /\ Distinct(d) /\ cur.id \notin IdsIn(d) => Distinct(Push(d, cur, FALSE))
    BY <1>3, <2>1, PushIds, Zenon
  <2>3. QED BY <1>3, <1>4, <1>5, <2>2
<1>8. NoTask.id = 0 /\ (\A j : NoTask # CancelTask(j)) /\ \A g \in Requests : g # 0
  BY TaskFields
<1>9. TaskType' BY <1>1, <1>2, <1>6 DEF TaskType
<1>10. OnePlace'
  <2>1. 0 \notin IdsIn(queue_tasks) /\ 0 \notin IdsIn(queue_tasks_deferred') BY DEF IdsIn
  <2>2. QED BY <1>1, <1>2, <1>5, <1>7, <1>8, <2>1 DEF OnePlace
<1>11. CancelOK' BY <1>1, <1>2, <1>8 DEF CancelOK
<1>12. ASSUME NEW g \in Requests PROVE Queued(g)' <=> Queued(g)
  BY <1>1, <1>7, <1>8 DEF Queued
<1>13. QED BY <1>1, <1>9, <1>10, <1>11, <1>12, QueuesOnly DEF Queues

LEMMA TaskDeferTask ==
    ASSUME TaskInv, TaskDefer PROVE TaskInv'
<1>1. TaskType /\ main = "task" /\ Defer /\ cur.type \in Generating \cup Embedding
  BY DEF TaskInv, TaskDefer
<1>2. cur \in RequestTasks BY <1>1, CurFacts
<1>3. UNCHANGED reader BY <1>1 DEF Defer, TaskOver
<1>4. QED BY <1>1, <1>2, <1>3, DeferTask

\* The request in hand is answered without a slot: nothing of it was in one.
LEMMA AnswerInHand ==
    ASSUME DataInv, TaskInv, main = "task", cur.id \in Requests,
           NEW j \in IdsOf(cur.id), NEW kind \in {"final", "error"}, Answer(j, kind),
           kind = "error" \/ IdsOf(cur.id) = {j},
           UNCHANGED <<queue_vars, state, task>>, TaskOver
    PROVE  TaskInv'
<1>1. Queues /\ TaskType /\ ChildHasParent /\ \A h \in Requests : RequestOK(h)
  BY DEF TaskInv, Queues
<1>2. PICK g \in Requests : g = cur.id OBVIOUS
<1>3. /\ 0 \notin Ids
      /\ \A h \in Requests : IdsOf(h) \subseteq Ids /\ \A x \in IdsOf(h) : RequestOf(x) = h
  BY IdFacts
<1>4. j \in IdsOf(g) /\ j \in Ids /\ UNCHANGED reader BY <1>2, <1>3 DEF TaskOver
<1>5. /\ answer' \in [Ids -> {"none", "final", "error", "twice"}]
      /\ answer'[j] = IF answer[j] = "none" THEN kind ELSE "twice"
      /\ \A x \in Ids : x # j => answer'[x] = answer[x]
  BY <1>1, <1>4, AnswerFacts
<1>6. /\ Queues'
      /\ \A h \in Requests : IF h = cur.id THEN ~Queued(h)' ELSE Queued(h)' <=> Queued(h)
  BY <1>1, <1>4, <1>5, QueuesOver
<1>7. Queued(g) BY <1>2 DEF Queued
<1>8. reader[g] \in {"posted", "done"} /\ (reader[g] = "posted" => Untouched(g))
  BY <1>1, <1>7 DEF RequestOK, TaskType
<1>9. ASSUME NEW h \in Requests, h # g PROVE RequestOK(h)' /\ (Failed(h)' <=> Failed(h))
  <2>1. \A x \in IdsOf(h) : answer'[x] = answer[x] BY <1>3, <1>4, <1>5, <1>9
  <2>2. Queued(h)' <=> Queued(h) BY <1>2, <1>6, <1>9
  <2>3. QED BY <1>1, <1>4, <2>1, <2>2, RequestKept
<1>10. RequestOK(g)'
  <2>1. CASE reader[g] = "done" BY <1>4, <2>1, RequestStopped
  <2>2. CASE reader[g] = "posted"
    <3>1. \A x \in IdsOf(g) : answer[x] = "none" /\ ~InSlot(x) BY <1>8, <2>2 DEF Untouched
    <3>2. \A x \in IdsOf(g) : ~InSlot(x)' BY <3>1 DEF InSlot
    <3>3. answer'[j] = kind BY <1>4, <1>5, <3>1
    <3>4. \A x \in IdsOf(g) : answer'[x] # "twice" BY <1>3, <1>5, <3>1, <3>3
    <3>5. Failed(g)' \/ IdsOf(g) = {j} BY <1>2, <1>4, <3>3 DEF Failed
    <3>6. \A x \in IdsOf(g), s \in Slots : task'[s] # x BY <3>2 DEF InSlot
    <3>7. ~Queued(g)' /\ reader'[g] = "posted" BY <1>2, <1>4, <1>6, <2>2
    <3>8. QED BY <3>2, <3>3, <3>4, <3>5, <3>6, <3>7 DEF RequestOK
  <2>3. QED BY <1>8, <2>1, <2>2
<1>11. \A h \in Requests : Over(h) => Over(h)'
  <2>1. Over(g) => Over(g)'
    <3>1. CASE reader[g] = "done" BY <1>4, <3>1 DEF Over
    <3>2. CASE reader[g] = "posted"
      <4>1. ~Failed(g) BY <1>8, <3>2 DEF Untouched, Failed
      <4>2. QED BY <3>2, <4>1 DEF Over
    <3>3. QED BY <1>8, <3>1, <3>2
  <2>2. QED BY <1>4, <1>9, <2>1 DEF Over
<1>12. \A c \in Slots : \A h : state'[c] = "WAIT_OTHER" /\ h = RequestOf(task'[c]) =>
          h \in Requests /\ state[c] = "WAIT_OTHER" /\ task'[c] = task[c]
  BY InSlotFacts
<1>13. ChildHasParent' BY <1>1, <1>11, <1>12, ChildStep
<1>14. Activated' BY DEF Activated, TaskOver
<1>15. \A h \in Requests : RequestOK(h)' BY <1>9, <1>10
<1>16. QED BY <1>6, <1>13, <1>14, <1>15 DEF TaskInv, Queues

LEMMA RejectTask ==
    ASSUME DataInv, TaskInv, TaskReject PROVE TaskInv'
<1>1. /\ main = "task" /\ cur.id \in Requests
      /\ UNCHANGED <<queue_vars, state, task>> /\ TaskOver
  BY SizesAssumption DEF TaskReject
<1>2. PICK j : j = IF Children(cur.id) = <<>> THEN cur.id ELSE Head(Children(cur.id))
  OBVIOUS
<1>3. Answer(j, "error") BY <1>2 DEF TaskReject
<1>4. j \in IdsOf(cur.id)
  <2>1. CASE Children(cur.id) = <<>> BY <1>1, <1>2, <2>1, IdFacts
  <2>2. CASE Children(cur.id) # <<>>
    <3>1. Children(cur.id) \in Seq(Nat \ {0}) BY <1>1, ReqAssumption DEF Children
    <3>2. 1 \in DOMAIN Children(cur.id) /\ j = Children(cur.id)[1] BY <1>2, <2>2, <3>1
    <3>3. QED BY <1>1, <3>2, ChildFacts
  <2>3. QED BY <2>1, <2>2
<1>5. QED BY <1>1, <1>3, <1>4, AnswerInHand

LEMMA SlotActionTask ==
    ASSUME DataInv, TaskInv, TaskSlotAction PROVE TaskInv'
<1>1. TaskType /\ main = "task" /\ cur.type \in SlotAction BY DEF TaskInv, TaskSlotAction
<1>2. cur.id \in Requests /\ cur \in RequestTasks /\ Req[cur.id].type \in SlotAction
  BY <1>1, CurFacts
<1>3. CASE Defer
  <2>1. UNCHANGED reader BY <1>3 DEF Defer, TaskOver
  <2>2. QED BY <1>1, <1>2, <1>3, <2>1, DeferTask
<1>4. CASE /\ Answer(cur.id, "final") \/ Answer(cur.id, "error")
           /\ UNCHANGED <<queue_vars, state, task>> /\ TaskOver
  <2>1. \A j \in IdsOf(cur.id) : j = cur.id
    <3>1. Req[cur.id].type \notin Generating BY <1>2 DEF Generating, SlotAction
    <3>2. QED BY <1>2, <3>1, ChildFacts
  <2>2. cur.id \in IdsOf(cur.id) BY <1>2, IdFacts
  <2>3. IdsOf(cur.id) = {cur.id} BY <2>1, <2>2
  <2>4. QED BY <1>1, <1>2, <1>4, <2>2, <2>3, AnswerInHand
<1>5. QED BY <1>3, <1>4 DEF TaskSlotAction

\* A CANCEL releases a slot whose reader has stopped.
LEMMA CancelTaskTask ==
    ASSUME DataInv, TaskInv, TaskCancel PROVE TaskInv'
<1>1. /\ DataType /\ Queues /\ TaskType /\ OnePlace /\ CancelOK /\ ChildHasParent
      /\ \A g \in Requests : RequestOK(g)
  BY DEF DataInv, TaskInv, Queues
<1>2. /\ main = "task" /\ cur.type = "CANCEL" /\ cur' = NoTask /\ main' = "fetch"
      /\ UNCHANGED <<reader, answer>>
  BY DEF TaskCancel
<1>3. cur.id = 0 /\ cur.id_target \in Ids /\ cur = CancelTask(cur.id_target)
  BY <1>1, <1>2, CurFacts
<1>4. reader[RequestOf(cur.id_target)] = "done" BY <1>1, <1>3 DEF CancelOK
<1>5. Activated' BY <1>2 DEF Activated
<1>6. answer' \in [Ids -> {"none", "final", "error", "twice"}]
  BY <1>1, <1>2 DEF TaskType
<1>7. CASE ~ \E s \in Slots : task[s] = cur.id_target
  <2>1. UNCHANGED <<state, task, queue_vars>> BY <1>7 DEF TaskCancel
  <2>2. Queues' /\ \A g \in Requests : Queued(g)' <=> Queued(g)
    <3>1. TaskOver BY DEF TaskCancel, TaskOver
    <3>2. /\ Queues'
          /\ \A g \in Requests : IF g = cur.id THEN ~Queued(g)' ELSE Queued(g)' <=> Queued(g)
      BY <1>1, <1>2, <1>6, <2>1, <3>1, QueuesOver
    <3>3. \A g \in Requests : g # cur.id BY <1>3, TaskFields
    <3>4. QED BY <3>2, <3>3
  <2>3. QED BY <1>2, <2>1, <2>2, QueuesOnly
<1>8. CASE \E s \in Slots : task[s] = cur.id_target
  <2>1. PICK c \in Slots : task[c] = cur.id_target /\ release(c, FALSE)
    BY <1>8 DEF TaskCancel
  <2>2. PICK g \in Requests : g = RequestOf(task[c]) /\ reader[g] = "done"
    BY <1>3, <1>4, <2>1, IdFacts
  <2>3. /\ state'[c] = "IDLE" /\ task'[c] = 0
        /\ \A t \in Slots : t # c => state'[t] = state[t] /\ task'[t] = task[t]
    BY <1>1, <2>1, ReleaseFacts
  <2>4. Popped BY <1>1, <2>1, PopFacts DEF release
  <2>5. Queues' /\ \A h \in Requests : Queued(h)' <=> Queued(h)
    BY <1>1, <1>2, <1>6, <2>4, QueuesPopped
  <2>6. ASSUME NEW h \in Requests PROVE RequestOK(h)'
    <3>1. CASE h = g BY <1>2, <2>2, <3>1, RequestStopped
    <3>2. CASE h # g
      <4>1. \A x \in IdsOf(h) : \A s \in Slots : task'[s] = x <=> task[s] = x
        <5>1. SUFFICES ASSUME NEW x \in IdsOf(h), NEW s \in Slots
                       PROVE  task'[s] = x <=> task[s] = x
          OBVIOUS
        <5>2. RequestOf(x) = h /\ x # 0 BY IdFacts
        <5>3. QED BY <2>2, <2>3, <3>2, <5>2
      <4>2. QED BY <1>1, <1>2, <2>5, <4>1, RequestKept
    <3>3. QED BY <3>1, <3>2
  <2>7. \A h : Over(h) => Over(h)' BY <1>2 DEF Over, Failed
  <2>8. ChildHasParent'
    <3>1. ASSUME NEW s \in Slots, NEW h, state'[s] = "WAIT_OTHER", h = RequestOf(task'[s])
          PROVE  /\ state[s] = "WAIT_OTHER" /\ task'[s] = task[s]
                 /\ Over(h) => Over(h)'
                 /\ \A p \in Slots : task[p] = h /\ state[p] \in OnPrompt
                       => Over(h)' \/ (task'[p] = h /\ state'[p] \in OnPrompt)
      <4>1. state[s] = "WAIT_OTHER" /\ task'[s] = task[s] BY <2>3, <3>1
      <4>2. h \in Requests BY <3>1, <4>1, InSlotFacts
      <4>3. ASSUME NEW p \in Slots, task[p] = h, state[p] \in OnPrompt
            PROVE  Over(h)' \/ (task'[p] = h /\ state'[p] \in OnPrompt)
        <5>1. CASE p # c BY <2>3, <4>3, <5>1
        <5>2. CASE p = c
          <6>1. h = g BY <2>2, <4>2, <4>3, <5>2, IdFacts
          <6>2. QED BY <2>2, <2>7, <6>1 DEF Over
        <5>3. QED BY <5>1, <5>2
      <4>4. QED BY <2>7, <4>1, <4>3
    <3>2. QED BY <1>1, <3>1, ChildStep
  <2>9. QED BY <1>5, <2>5, <2>6, <2>8 DEF TaskInv, Queues
<1>9. QED BY <1>7, <1>8

\* What a launch does to the slots: the request g in slot s, its children c in
\* the slots free.
Launched(g, s, c, free) ==
    /\ s \in Slots /\ state[s] = "IDLE" /\ task'[s] = g /\ state'[s] = "STARTED"
    /\ \A n \in DOMAIN c :
          /\ free[n] \in Slots /\ free[n] # s /\ state[free[n]] = "IDLE"
          /\ task'[free[n]] = c[n] /\ state'[free[n]] = "WAIT_OTHER"
    /\ \A m, n \in DOMAIN c : free[m] = free[n] => m = n
    /\ \A t \in Slots : \/ t = s \/ \E n \in DOMAIN c : t = free[n]
                        \/ task'[t] = task[t] /\ state'[t] = state[t]

LEMMA LaunchFacts ==
    ASSUME DataType, TaskType, TaskLaunch
    PROVE  /\ main = "task" /\ cur.id \in Requests /\ cur \in RequestTasks
           /\ TaskOver /\ UNCHANGED <<queue_vars, i_batch, answer>>
           /\ \E s, free : Launched(cur.id, s, Children(cur.id), free)
<1>1. /\ main = "task" /\ TaskOver /\ UNCHANGED <<queue_vars, i_batch, answer>>
      /\ cur.id \in Requests /\ cur \in RequestTasks
  BY CurFacts DEF TaskLaunch
<1> DEFINE c == Children(cur.id)
<1>2. PICK s \in Slots : \E free \in InOrder(FreeSlots(s)) :
         /\ s \in Idle /\ EnoughFor(s)
         /\ LET child == [t \in Slots |-> {n \in DOMAIN c : free[n] = t}]
            IN  /\ task' = [t \in Slots |->
                       IF t = s THEN cur.id
                       ELSE IF child[t] # {} THEN c[CHOOSE n \in child[t] : TRUE]
                       ELSE task[t]]
                /\ state' = [t \in Slots |->
                       IF t = s THEN "STARTED"
                       ELSE IF child[t] # {} THEN "WAIT_OTHER" ELSE state[t]]
  BY DEF TaskLaunch
<1>3. PICK free \in InOrder(FreeSlots(s)) :
         /\ s \in Idle /\ EnoughFor(s)
         /\ LET child == [t \in Slots |-> {n \in DOMAIN c : free[n] = t}]
            IN  /\ task' = [t \in Slots |->
                       IF t = s THEN cur.id
                       ELSE IF child[t] # {} THEN c[CHOOSE n \in child[t] : TRUE]
                       ELSE task[t]]
                /\ state' = [t \in Slots |->
                       IF t = s THEN "STARTED"
                       ELSE IF child[t] # {} THEN "WAIT_OTHER" ELSE state[t]]
  BY <1>2
<1> DEFINE child(t) == {n \in DOMAIN c : free[n] = t}
           who(t) == c[CHOOSE n \in child(t) : TRUE]
<1>4. \A t \in Slots :
        /\ task'[t] = IF t = s THEN cur.id ELSE IF child(t) # {} THEN who(t) ELSE task[t]
        /\ state'[t] = IF t = s THEN "STARTED"
                       ELSE IF child(t) # {} THEN "WAIT_OTHER" ELSE state[t]
  BY <1>3
<1>5. FreeSlots(s) \in SUBSET Slots /\ s \notin FreeSlots(s)
  BY DEF FreeSlots, Idle
<1>6. /\ DOMAIN free = 1..Len(free) /\ Len(free) = Cardinality(FreeSlots(s))
      /\ Cardinality(FreeSlots(s)) \in Nat
      /\ \A n \in DOMAIN free : free[n] \in FreeSlots(s)
      /\ \A m, n \in DOMAIN free : free[m] = free[n] => m = n
  BY <1>3, <1>5, InOrderFacts
<1>7. Len(c) \in Nat /\ DOMAIN c = 1..Len(c) BY <1>1, ChildFacts
<1>8. DOMAIN c \subseteq DOMAIN free BY <1>3, <1>6, <1>7 DEF EnoughFor
<1> HIDE DEF c
<1>9. ASSUME NEW n \in DOMAIN c
      PROVE  /\ free[n] \in Slots /\ free[n] # s /\ state[free[n]] = "IDLE"
             /\ task'[free[n]] = c[n] /\ state'[free[n]] = "WAIT_OTHER"
  <2>1. free[n] \in FreeSlots(s) BY <1>6, <1>8
  <2>2. free[n] \in Slots /\ free[n] # s /\ state[free[n]] = "IDLE"
    BY <2>1 DEF FreeSlots, Idle, is_processing
  <2>3. child(free[n]) = {n} BY <1>6, <1>8
  <2>4. who(free[n]) = c[n] BY <2>3
  <2>5. QED BY <1>4, <2>2, <2>3, <2>4
<1>10. ASSUME NEW t \in Slots
       PROVE  \/ t = s \/ \E n \in DOMAIN c : t = free[n]
              \/ task'[t] = task[t] /\ state'[t] = state[t]
  BY <1>4
<1>11. /\ s \in Slots /\ state[s] = "IDLE" /\ task'[s] = cur.id /\ state'[s] = "STARTED"
  BY <1>3, <1>4 DEF Idle, is_processing
<1>12. \A m, n \in DOMAIN c : free[m] = free[n] => m = n BY <1>6, <1>8
<1>13. Launched(cur.id, s, c, free) BY <1>9, <1>10, <1>11, <1>12 DEF Launched
<1>14. QED BY <1>1, <1>13 DEF c

LEMMA LaunchTask ==
    ASSUME DataInv, TaskInv, TaskLaunch PROVE TaskInv'
<1>1. /\ DataType /\ Queues /\ TaskType /\ ChildHasParent
      /\ \A h \in Requests : RequestOK(h)
  BY DEF DataInv, TaskInv, Queues
<1>2. /\ main = "task" /\ cur.id \in Requests /\ TaskOver
      /\ UNCHANGED <<queue_vars, answer>>
      /\ \E s, free : Launched(cur.id, s, Children(cur.id), free)
  BY <1>1, LaunchFacts
<1>3. PICK g \in Requests : g = cur.id BY <1>2
<1>4. PICK c : c = Children(g) OBVIOUS
<1>5. PICK s, free : Launched(g, s, c, free) BY <1>2, <1>3, <1>4
<1>6. /\ \A n \in DOMAIN c : c[n] \in IdsOf(g) /\ c[n] # g
      /\ \A m, n \in DOMAIN c : c[m] = c[n] => m = n
      /\ \A x \in IdsOf(g) : x # g => \E n \in DOMAIN c : x = c[n]
      /\ g \in IdsOf(g) /\ 0 \notin Ids
      /\ \A h \in Requests : IdsOf(h) \subseteq Ids /\ \A x \in IdsOf(h) : RequestOf(x) = h
  BY <1>4, ChildFacts, IdFacts
<1>7. UNCHANGED reader /\ answer' \in [Ids -> {"none", "final", "error", "twice"}]
  BY <1>1, <1>2 DEF TaskOver, TaskType
<1>8. /\ Queues'
      /\ \A h \in Requests : IF h = cur.id THEN ~Queued(h)' ELSE Queued(h)' <=> Queued(h)
  BY <1>1, <1>2, <1>7, QueuesOver
<1>9. Queued(g) BY <1>3 DEF Queued
<1>10. reader[g] \in {"posted", "done"} /\ (reader[g] = "posted" => Untouched(g))
  BY <1>1, <1>9 DEF RequestOK, TaskType
<1>11. \A t \in Slots : state[t] = "IDLE" => task[t] = 0 BY <1>1 DEF DataType
<1>12. ASSUME NEW h \in Requests, h # g PROVE RequestOK(h)'
  <2>1. \A x \in IdsOf(h) : answer'[x] = answer[x]
                            /\ \A t \in Slots : task'[t] = x <=> task[t] = x
    <3>1. SUFFICES ASSUME NEW x \in IdsOf(h), NEW t \in Slots
                   PROVE  task'[t] = x <=> task[t] = x
      BY <1>2
    <3>2. x # 0 /\ x \notin IdsOf(g) BY <1>6, <1>12
    <3>3. CASE t = s BY <1>5, <1>6, <1>11, <3>2, <3>3 DEF Launched
    <3>4. CASE \E n \in DOMAIN c : t = free[n]
      <4>1. PICK n \in DOMAIN c : t = free[n] BY <3>4
      <4>2. task'[t] = c[n] /\ task[t] = 0 BY <1>5, <1>11, <4>1 DEF Launched
      <4>3. QED BY <1>6, <3>2, <4>2
    <3>5. QED BY <1>5, <3>3, <3>4 DEF Launched
  <2>2. Queued(h)' <=> Queued(h) BY <1>3, <1>8, <1>12
  <2>3. QED BY <1>1, <1>7, <2>1, <2>2, RequestKept
<1>13. RequestOK(g)'
  <2>1. CASE reader[g] = "done" BY <1>7, <2>1, RequestStopped
  <2>2. CASE reader[g] = "posted"
    <3>1. \A x \in IdsOf(g) : answer[x] = "none" /\ \A t \in Slots : task[t] # x
      BY <1>10, <2>2 DEF Untouched, InSlot
    <3>2. \A x \in IdsOf(g) : answer'[x] = "none" BY <1>2, <3>1
    <3>3. ~Queued(g)' /\ reader'[g] = "posted" BY <1>3, <1>7, <1>8, <2>2
    <3>4. ASSUME NEW x \in IdsOf(g) PROVE InSlot(x)'
      <4>1. CASE x = g BY <1>5, <4>1 DEF Launched, InSlot
      <4>2. CASE x # g
        <5>1. PICK n \in DOMAIN c : x = c[n] BY <1>6, <4>2
        <5>2. free[n] \in Slots /\ task'[free[n]] = x BY <1>5, <5>1 DEF Launched
        <5>3. QED BY <5>2 DEF InSlot
      <4>3. QED BY <4>1, <4>2
    <3>5. ASSUME NEW x \in IdsOf(g), NEW t \in Slots, NEW u \in Slots,
                 task'[t] = x, task'[u] = x
          PROVE  t = u
      <4>1. /\ t = s \/ \E n \in DOMAIN c : t = free[n]
            /\ u = s \/ \E n \in DOMAIN c : u = free[n]
        BY <1>5, <3>1, <3>5 DEF Launched
      <4>2. \A n \in DOMAIN c : task'[free[n]] = c[n] /\ c[n] # g
        BY <1>5, <1>6 DEF Launched
      <4>3. task'[s] = g BY <1>5 DEF Launched
      <4>4. QED BY <1>6, <3>5, <4>1, <4>2, <4>3
    <3>6. QED BY <3>2, <3>3, <3>4, <3>5 DEF RequestOK
  <2>3. QED BY <1>10, <2>1, <2>2
<1>14. \A h : Over(h)' <=> Over(h) BY <1>2, <1>7 DEF Over, Failed
<1>15. ChildHasParent'
  <2>1. SUFFICES ASSUME NEW t \in Slots, NEW h, state'[t] = "WAIT_OTHER",
                        h = RequestOf(task'[t])
                 PROVE  Over(h)' \/ \E p \in Slots : task'[p] = h /\ state'[p] \in OnPrompt
    BY DEF ChildHasParent, Over, OnPrompt
  <2>2. CASE t = s BY <1>5, <2>1, <2>2 DEF Launched
  <2>3. CASE \E n \in DOMAIN c : t = free[n]
    <3>1. PICK n \in DOMAIN c : t = free[n] BY <2>3
    <3>2. task'[t] = c[n] BY <1>5, <3>1 DEF Launched
    <3>3. h = g BY <1>6, <2>1, <3>2
    <3>4. s \in Slots /\ task'[s] = g /\ state'[s] \in OnPrompt
      BY <1>5 DEF Launched, OnPrompt
    <3>5. QED BY <3>3, <3>4
  <2>4. CASE task'[t] = task[t] /\ state'[t] = state[t]
    <3>1. Over(h) \/ \E p \in Slots : task[p] = h /\ state[p] \in OnPrompt
      BY <1>1, <2>1, <2>4 DEF ChildHasParent, Over, OnPrompt
    <3>2. ASSUME NEW p \in Slots, state[p] \in OnPrompt
          PROVE  task'[p] = task[p] /\ state'[p] = state[p]
      <4>1. state[p] # "IDLE" BY <3>2 DEF OnPrompt
      <4>2. QED BY <1>5, <4>1 DEF Launched
    <3>3. QED BY <1>14, <3>1, <3>2
  <2>5. QED BY <1>5, <2>2, <2>3, <2>4 DEF Launched
<1>16. Activated' BY <1>2 DEF Activated, TaskOver
<1>17. \A h \in Requests : RequestOK(h)' BY <1>12, <1>13
<1>18. QED BY <1>8, <1>15, <1>16, <1>17 DEF TaskInv, Queues

----------------------------------------------------------------------------
(* The readers. *)

LEMMA PostTask ==
    ASSUME TaskInv, NEW g \in Requests, Post(g) PROVE TaskInv'
<1> DEFINE S == RequestTasks \cup CancelTasks
           q == queue_tasks
<1>1. /\ reader[g] = "new" /\ reader' = [reader EXCEPT ![g] = "posted"]
      /\ queue_tasks' = Push(q, RequestTask(g), FALSE)
      /\ UNCHANGED <<queue_tasks_deferred, cur, main, state, task, answer>>
  BY DEF Post, slot_vars
<1>2. /\ TaskType /\ OnePlace /\ CancelOK /\ ChildHasParent /\ Activated
      /\ \A h \in Requests : RequestOK(h)
  BY DEF TaskInv
<1>3. q \in Seq(S) /\ Distinct(q) BY <1>2 DEF TaskType, OnePlace
<1>4. RequestTask(g).id = g /\ g # 0 /\ \A j : RequestTask(g) # CancelTask(j) BY TaskFields
<1>5. RequestTask(g) \in RequestTasks /\ RequestTask(g) \in S BY DEF RequestTasks
<1>6. ~Queued(g) /\ Untouched(g) BY <1>1, <1>2 DEF RequestOK
<1> HIDE DEF S
<1>7. g \notin IdsIn(q) /\ g \notin IdsIn(queue_tasks_deferred) /\ cur.id # g
  BY <1>6 DEF Queued
<1>8. /\ queue_tasks' \in Seq(S) /\ Distinct(queue_tasks')
      /\ IdsIn(queue_tasks') = IdsIn(q) \cup {g}
  <2>1. Push(q, RequestTask(g), FALSE) \in Seq(S) BY <1>3, <1>5, PushLemma
  <2>2. /\ IdsIn(Push(q, RequestTask(g), FALSE)) = IdsIn(q) \cup ({RequestTask(g).id} \ {0})
        /\ Distinct(q) /\ RequestTask(g).id \notin IdsIn(q)
              => Distinct(Push(q, RequestTask(g), FALSE))
    <3>1. FALSE \in BOOLEAN OBVIOUS
    <3>2. QED BY <1>3, <1>5, <3>1, PushIds, Zenon
  <2>3. QED BY <1>1, <1>3, <1>4, <1>7, <2>1, <2>2
<1>9. ASSUME NEW j, Holds(queue_tasks', CancelTask(j)) PROVE Holds(q, CancelTask(j))
  <2>1. Holds(Push(q, RequestTask(g), FALSE), CancelTask(j)) BY <1>1, <1>9
  <2>2. Holds(q, CancelTask(j)) \/ CancelTask(j) = RequestTask(g)
    BY <1>3, <1>5, <2>1, PushHolds, Zenon
  <2>3. QED BY <1>4, <2>2
<1>10. /\ reader' \in [Requests -> {"new", "posted", "done"}] /\ reader'[g] = "posted"
       /\ \A h \in Requests : h # g => reader'[h] = reader[h]
  BY <1>1, <1>2 DEF TaskType
<1>11. TaskType' BY <1>1, <1>2, <1>8, <1>10 DEF TaskType, S
<1>12. OnePlace' BY <1>1, <1>2, <1>7, <1>8 DEF OnePlace
<1>13. CancelOK'
  <2>1. SUFFICES ASSUME NEW j \in Ids,
                        Holds(queue_tasks', CancelTask(j)) \/ cur' = CancelTask(j)
                 PROVE  reader'[RequestOf(j)] = "done"
    BY DEF CancelOK
  <2>2. reader[RequestOf(j)] = "done" BY <1>1, <1>2, <1>9, <2>1 DEF CancelOK
  <2>3. RequestOf(j) \in Requests BY IdFacts
  <2>4. QED BY <1>1, <1>10, <2>2, <2>3
<1>14. ASSUME NEW h \in Requests, h # g PROVE RequestOK(h)'
  <2>1. Queued(h)' <=> Queued(h) BY <1>1, <1>8, <1>14 DEF Queued
  <2>2. QED BY <1>1, <1>2, <1>10, <1>14, <2>1, RequestKept
<1>15. RequestOK(g)'
  <2>1. Queued(g)' BY <1>8 DEF Queued
  <2>2. Untouched(g)' BY <1>1, <1>6 DEF Untouched, InSlot
  <2>3. QED BY <1>10, <2>1, <2>2 DEF RequestOK, Untouched, InSlot
<1>16. \A h : Over(h) => Over(h)'
  <2>1. SUFFICES ASSUME NEW h, Over(h) PROVE Over(h)' OBVIOUS
  <2>2. Failed(h)' <=> Failed(h) BY <1>1 DEF Failed
  <2>3. reader[h] = "done" => reader'[h] = "done" BY <1>1, <1>2 DEF TaskType
  <2>4. QED BY <2>1, <2>2, <2>3 DEF Over
<1>17. ChildHasParent' BY <1>1, <1>2, <1>16, ChildStep
<1>18. Activated' BY <1>1, <1>2 DEF Activated, ParentOf
<1>19. \A h \in Requests : RequestOK(h)' BY <1>14, <1>15
<1>20. QED BY <1>11, <1>12, <1>13, <1>17, <1>18, <1>19 DEF TaskInv

\* A reader ends; what its request left in the deques may go.
LEMMA ReaderEnds ==
    ASSUME TaskInv, NEW g \in Requests, reader' = [reader EXCEPT ![g] = "done"],
           UNCHANGED <<main, state, task, answer>>, Queues',
           \A h \in Requests : h # g => (Queued(h)' <=> Queued(h))
    PROVE  TaskInv'
<1>1. TaskType /\ ChildHasParent /\ Activated /\ \A h \in Requests : RequestOK(h)
  BY DEF TaskInv
<1>2. reader'[g] = "done" /\ \A h \in Requests : h # g => reader'[h] = reader[h]
  BY <1>1 DEF TaskType
<1>3. \A h \in Requests : RequestOK(h)' BY <1>1, <1>2, RequestKept, RequestStopped
<1>4. \A h : Over(h) => Over(h)'
  <2>1. SUFFICES ASSUME NEW h, Over(h) PROVE Over(h)' OBVIOUS
  <2>2. Failed(h)' <=> Failed(h) BY DEF Failed
  <2>3. reader[h] = "done" => reader'[h] = "done" BY <1>1 DEF TaskType
  <2>4. QED BY <2>1, <2>2, <2>3 DEF Over
<1>5. ChildHasParent' BY <1>1, <1>4, ChildStep
<1>6. Activated' BY <1>1 DEF Activated, ParentOf
<1>7. QED BY <1>3, <1>5, <1>6 DEF TaskInv, Queues

LEMMA ReaderDoneTask ==
    ASSUME TaskInv, NEW g \in Requests, ReaderDone(g) PROVE TaskInv'
<1>1. /\ reader' = [reader EXCEPT ![g] = "done"]
      /\ UNCHANGED <<queue_vars, cur, main, state, task, answer>>
  BY DEF ReaderDone, slot_vars
<1>2. Queues /\ TaskType BY DEF TaskInv, Queues
<1>3. /\ reader' \in [Requests -> {"new", "posted", "done"}]
      /\ answer' \in [Ids -> {"none", "final", "error", "twice"}]
      /\ \A h \in Requests : reader[h] = "done" => reader'[h] = "done"
  BY <1>1, <1>2 DEF TaskType
<1>4. Queues' /\ \A h \in Requests : Queued(h)' <=> Queued(h)
  BY <1>1, <1>2, <1>3, QueuesKept
<1>5. QED BY <1>1, <1>4, ReaderEnds

\* The tasks of a request can be counted.
LEMMA IdsFinite ==
    ASSUME NEW g \in Requests
    PROVE  IsFiniteSet(IdsOf(g)) /\ Cardinality(IdsOf(g)) \in Nat
<1> DEFINE c == Children(g)
<1>1. Len(c) \in Nat /\ DOMAIN c = 1..Len(c) BY ChildFacts
<1>2. c \in Seq(Nat \ {0}) BY ReqAssumption DEF Children
<1>3. ToSet(c) = {c[n] : n \in DOMAIN c} /\ IdsOf(g) = {g} \cup ToSet(c)
  BY DEF ToSet, IdsOf, Children
<1> HIDE DEF c
<1>4. c \in Surjection(1..Len(c), ToSet(c))
  <2>1. c \in [1..Len(c) -> ToSet(c)] BY <1>1, <1>2, <1>3
  <2>2. \A x \in ToSet(c) : \E n \in 1..Len(c) : c[n] = x BY <1>1, <1>3
  <2>3. QED BY <2>1, <2>2 DEF Surjection
<1>5. IsFiniteSet(1..Len(c)) BY <1>1, FS_Interval
<1>6. IsFiniteSet(ToSet(c)) BY <1>4, <1>5, FS_Surjection
<1>7. IsFiniteSet({g}) BY FS_Singleton
<1>8. IsFiniteSet(IdsOf(g))
  <2> DEFINE T == ToSet(c)
             G == {g}
  <2>1. IsFiniteSet(T) /\ IsFiniteSet(G) BY <1>6, <1>7
  <2>2. IdsOf(g) = G \cup T BY <1>3
  <2> HIDE DEF T, G
  <2>3. IsFiniteSet(G \cup T) BY <2>1, FS_Union
  <2>4. QED BY <2>2, <2>3
<1>9. QED BY <1>8, FS_CardinalityType

\* What stop does to the deques.
LEMMA StopFacts ==
    ASSUME TaskType, OnePlace, NEW g \in Requests, stop(g)
    PROVE  /\ queue_tasks' \in Seq(RequestTasks \cup CancelTasks)
           /\ queue_tasks_deferred' \in Seq(RequestTasks)
           /\ Distinct(queue_tasks') /\ Distinct(queue_tasks_deferred')
           /\ IdsIn(queue_tasks') = IdsIn(queue_tasks) \ {g}
           /\ IdsIn(queue_tasks_deferred') = IdsIn(queue_tasks_deferred) \ {g}
           /\ \A j : Holds(queue_tasks', CancelTask(j))
                        => j \in IdsOf(g) \/ Holds(queue_tasks, CancelTask(j))
<1> DEFINE S == RequestTasks \cup CancelTasks
           q == queue_tasks
           d == queue_tasks_deferred
<1>1. q \in Seq(S) /\ d \in Seq(RequestTasks) /\ Distinct(q) /\ Distinct(d)
  BY DEF TaskType, OnePlace
<1>2. g # 0 BY TaskFields
<1>3. PICK ids \in SetToSeqs(IdsOf(g)) :
         queue_tasks' = [j \in DOMAIN ids |-> CancelTask(ids[j])] \o Cleanup(q, g)
  BY DEF stop
<1>4. queue_tasks_deferred' = Cleanup(d, g) BY DEF stop
<1> HIDE DEF S
<1>5. /\ Cleanup(q, g) \in Seq(S) /\ Distinct(Cleanup(q, g))
      /\ IdsIn(Cleanup(q, g)) = IdsIn(q) \ {g}
  BY <1>1, <1>2, CleanupLemma
<1>6. /\ queue_tasks_deferred' \in Seq(RequestTasks) /\ Distinct(queue_tasks_deferred')
      /\ IdsIn(queue_tasks_deferred') = IdsIn(d) \ {g}
  BY <1>1, <1>2, <1>4, CleanupLemma
<1> DEFINE c == [j \in DOMAIN ids |-> CancelTask(ids[j])]
<1>7. DOMAIN ids = 1..Cardinality(IdsOf(g)) /\ \A n \in DOMAIN ids : ids[n] \in IdsOf(g)
  BY DEF SetToSeqs
<1>8. Cardinality(IdsOf(g)) \in Nat BY IdsFinite
<1>9. \A n \in DOMAIN ids : CancelTask(ids[n]) \in CancelTasks
  BY <1>7, IdFacts DEF CancelTasks
<1>10. c \in Seq(CancelTasks) /\ DOMAIN c = DOMAIN ids
       /\ \A n \in DOMAIN ids : c[n] = CancelTask(ids[n])
  BY <1>7, <1>8, <1>9
<1>11. queue_tasks' = c \o Cleanup(q, g) BY <1>3
<1> HIDE DEF c
<1>12. /\ queue_tasks' \in Seq(CancelTasks \cup S) /\ Distinct(queue_tasks')
       /\ IdsIn(queue_tasks') = IdsIn(Cleanup(q, g))
       /\ \A u : Holds(queue_tasks', u) <=> Holds(c, u) \/ Holds(Cleanup(q, g), u)
  BY <1>5, <1>10, <1>11, CancelFront
<1>13. CancelTasks \cup S = S BY DEF S
<1>14. ASSUME NEW j, Holds(queue_tasks', CancelTask(j))
       PROVE  j \in IdsOf(g) \/ Holds(q, CancelTask(j))
  <2>1. CASE Holds(c, CancelTask(j))
    <3>1. PICK n \in DOMAIN c : c[n] = CancelTask(j) BY <2>1 DEF Holds
    <3>2. CancelTask(ids[n]).id_target = CancelTask(j).id_target BY <1>10, <3>1
    <3>3. ids[n] = j BY <3>2, TaskFields
    <3>4. QED BY <1>7, <1>10, <3>1, <3>3
  <2>2. CASE Holds(Cleanup(q, g), CancelTask(j)) BY <1>1, <2>2, CleanupHolds
  <2>3. QED BY <1>12, <1>14, <2>1, <2>2
<1>15. QED BY <1>5, <1>6, <1>12, <1>13, <1>14 DEF S

LEMMA StopTask ==
    ASSUME TaskInv, NEW g \in Requests, stop(g) PROVE TaskInv'
<1>1. /\ reader' = [reader EXCEPT ![g] = "done"]
      /\ UNCHANGED <<cur, main, state, task, answer>>
  BY DEF stop, slot_vars
<1>2. TaskType /\ OnePlace /\ CancelOK BY DEF TaskInv
<1>3. /\ queue_tasks' \in Seq(RequestTasks \cup CancelTasks)
      /\ queue_tasks_deferred' \in Seq(RequestTasks)
      /\ Distinct(queue_tasks') /\ Distinct(queue_tasks_deferred')
      /\ IdsIn(queue_tasks') = IdsIn(queue_tasks) \ {g}
      /\ IdsIn(queue_tasks_deferred') = IdsIn(queue_tasks_deferred) \ {g}
      /\ \A j : Holds(queue_tasks', CancelTask(j))
                   => j \in IdsOf(g) \/ Holds(queue_tasks, CancelTask(j))
  BY <1>2, StopFacts
<1>4. TaskType' BY <1>1, <1>2, <1>3 DEF TaskType
<1>5. OnePlace' BY <1>1, <1>2, <1>3 DEF OnePlace
<1>6. CancelOK'
  <2>1. SUFFICES ASSUME NEW j \in Ids,
                        Holds(queue_tasks', CancelTask(j)) \/ cur' = CancelTask(j)
                 PROVE  reader'[RequestOf(j)] = "done"
    BY DEF CancelOK
  <2>2. RequestOf(j) \in Requests BY IdFacts
  <2>3. j \in IdsOf(g) \/ reader[RequestOf(j)] = "done"
    BY <1>1, <1>2, <1>3, <2>1 DEF CancelOK
  <2>4. j \in IdsOf(g) => RequestOf(j) = g BY IdFacts
  <2>5. QED BY <1>1, <1>2, <2>2, <2>3, <2>4 DEF TaskType
<1>7. ASSUME NEW h \in Requests, h # g PROVE Queued(h)' <=> Queued(h)
  BY <1>1, <1>3, <1>7 DEF Queued
<1>8. QED BY <1>1, <1>4, <1>5, <1>6, <1>7, ReaderEnds DEF Queues

----------------------------------------------------------------------------
(* The tasks, in every step. *)

LEMMA SameTasks ==
    ASSUME TaskInv, UNCHANGED vars PROVE TaskInv'
<1>1. UNCHANGED <<queue_tasks, queue_tasks_deferred, cur, main, state, task, reader, answer>>
  BY DEF vars, queue_vars, slot_vars
<1>2. (Queues /\ \A h \in Requests : RequestOK(h)) /\ ChildHasParent /\ Activated
  BY DEF TaskInv, Queues
<1>3. Queues' BY <1>1, <1>2 DEF Queues, TaskType, OnePlace, CancelOK
<1>4. \A h \in Requests : Queued(h)' <=> Queued(h) BY <1>1 DEF Queued
<1>5. \A h \in Requests : RequestOK(h)' BY <1>1, <1>2, <1>4, RequestKept
<1>6. \A h : Over(h) => Over(h)' BY <1>1 DEF Over, Failed
<1>7. ChildHasParent' BY <1>1, <1>2, <1>6, ChildStep
<1>8. Activated' BY <1>1, <1>2 DEF Activated, ParentOf
<1>9. QED BY <1>3, <1>5, <1>7, <1>8 DEF TaskInv, Queues

LEMMA TaskInit == ASSUME Init PROVE TaskInv
<1>1. /\ queue_tasks = <<>> /\ queue_tasks_deferred = <<>> /\ cur = NoTask /\ main = "fetch"
      /\ \A s \in Slots : state[s] = "IDLE" /\ task[s] = 0
      /\ reader = [g \in Requests |-> "new"] /\ answer = [j \in Ids |-> "none"]
  BY DEF Init
<1>2. TaskType BY <1>1 DEF TaskType
<1>3. DOMAIN <<>> = {} OBVIOUS
<1>4. OnePlace BY <1>1, <1>3, TaskFields DEF OnePlace, Distinct, IdsIn
<1>5. CancelOK BY <1>1, <1>3, TaskFields DEF CancelOK, Holds
<1>6. ASSUME NEW g \in Requests PROVE RequestOK(g)
  <2>1. IdsIn(queue_tasks) = {} /\ IdsIn(queue_tasks_deferred) = {} BY <1>1, <1>3 DEF IdsIn
  <2>2. cur.id # g BY <1>1, TaskFields
  <2>3. ~Queued(g) BY <2>1, <2>2 DEF Queued
  <2>4. \A j \in IdsOf(g) : answer[j] = "none" /\ ~InSlot(j) BY <1>1, IdFacts DEF InSlot
  <2>5. Untouched(g) BY <2>4 DEF Untouched
  <2>6. reader[g] = "new" BY <1>1
  <2>7. QED BY <2>3, <2>5, <2>6 DEF RequestOK
<1>7. ChildHasParent BY <1>1 DEF ChildHasParent
<1>8. Activated BY <1>1 DEF Activated
<1>9. QED BY <1>2, <1>4, <1>5, <1>6, <1>7, <1>8 DEF TaskInv

LEMMA TaskNext ==
    ASSUME DataInv, TaskInv, [Next]_vars PROVE TaskInv'
<1>1. CASE MainStep
  BY <1>1, FetchTask, TaskDeferTask, LaunchTask, RejectTask, CancelTaskTask, SlotActionTask,
     BatchTask, RefuseTask, PromptTask, DecodeTask, ErrorTask, SampleStopTask, SampleNextTask
  DEF MainStep
<1>2. CASE \E g \in Requests : Post(g) \/ ReaderStep(g) \/ Disconnect(g)
  BY <1>2, PostTask, ReaderDoneTask, StopTask DEF ReaderStep, ReaderError, Disconnect
<1>3. CASE UNCHANGED vars BY <1>3, SameTasks
<1>4. QED BY <1>1, <1>2, <1>3 DEF Next

----------------------------------------------------------------------------
(* Deferred tasks, in every step. *)

\* Idle is not all of Slots: a slot is at work.
LEMMA BusyIs == Idle # Slots <=> \E s \in Slots : state[s] # "IDLE"
BY DEF Idle, is_processing

\* A release takes up a deferred task.
LEMMA DeferredPopped == ASSUME Popped PROVE DeferredOK'
BY DEF Popped, DeferredOK

\* The deques and the task in hand stay, and no slot falls idle.
LEMMA DeferredKept ==
    ASSUME DeferredOK, UNCHANGED <<queue_vars, cur>>,
           \A s \in Slots : state[s] # "IDLE" => state'[s] # "IDLE"
    PROVE  DeferredOK'
<1>1. UNCHANGED <<queue_tasks, queue_tasks_deferred, cur>> BY DEF queue_vars
<1>2. (Idle # Slots <=> \E s \in Slots : state[s] # "IDLE")' BY BusyIs, PTL
<1>3. Idle # Slots => Idle' # Slots' BY <1>2, BusyIs DEF Slots
<1>4. QED BY <1>1, <1>3 DEF DeferredOK

LEMMA FetchDeferred ==
    ASSUME TaskInv, DeferredOK, Fetch PROVE DeferredOK'
<1>1. /\ main = "fetch" /\ queue_tasks # <<>> /\ cur' = Head(queue_tasks)
      /\ queue_tasks' = Tail(queue_tasks) /\ UNCHANGED <<queue_tasks_deferred, state>>
  BY DEF Fetch, slot_vars
<1>2. queue_tasks \in Seq(RequestTasks \cup CancelTasks) /\ cur = NoTask
  BY <1>1 DEF TaskInv, TaskType, OnePlace
<1>3. cur \notin RequestTasks BY <1>2, TaskFields DEF RequestTasks
<1>4. \A u : Holds(queue_tasks, u) => u = cur' \/ Holds(queue_tasks', u)
  BY <1>1, <1>2, TailHolds
<1>5. Idle' = Idle BY <1>1 DEF Idle, is_processing
<1>6. \A g \in Requests : RequestTask(g) \in RequestTasks BY DEF RequestTasks
<1>7. QED BY <1>1, <1>3, <1>4, <1>5, <1>6 DEF DeferredOK

\* With all slots idle every request finds the slots it needs.
LEMMA DeferDeferred ==
    ASSUME DataInv, TaskInv, TaskDefer PROVE DeferredOK'
<1>1. TaskType /\ cur.type \in Generating \cup Embedding /\ UNCHANGED state
  BY DEF TaskInv, TaskDefer, Defer
<1>2. cur.id \in Requests BY <1>1, CurFacts
<1>3. ASSUME Idle = Slots, NEW s \in Slots PROVE EnoughFor(s)
  <2>1. FreeSlots(s) = Slots \ {s} BY <1>3 DEF FreeSlots
  <2>2. IsFiniteSet(Slots) /\ Cardinality(Slots) = NSlots
    <3>1. NSlots \in Nat \ {0} BY SizesAssumption
    <3>2. IsFiniteSet(0..(NSlots - 1)) /\ Cardinality(0..(NSlots - 1)) = NSlots
      BY <3>1, FS_Interval
    <3>3. QED BY <3>2 DEF Slots
  <2>3. Cardinality(Slots \ {s}) = NSlots - 1 BY <2>2, FS_RemoveElement
  <2>4. Len(Children(cur.id)) \in Nat /\ Len(Children(cur.id)) < NSlots BY <1>2, ChildFacts
  <2>5. NSlots \in Nat BY SizesAssumption
  <2>6. QED BY <2>1, <2>3, <2>4, <2>5 DEF EnoughFor
<1>4. Idle # Slots
  <2>1. CASE Idle = {}
    <3>1. 0 \in Slots BY SizeFacts
    <3>2. QED BY <2>1, <3>1
  <2>2. CASE \E s \in Slots : is_processing(s) BY <2>2 DEF Idle
  <2>3. CASE \E s \in Slots : ~EnoughFor(s) BY <1>3, <2>3
  <2>4. QED BY <2>1, <2>2, <2>3 DEF TaskDefer
<1>5. Idle' = Idle BY <1>1 DEF Idle, is_processing
<1>6. QED BY <1>4, <1>5 DEF DeferredOK, Slots

LEMMA LaunchDeferred ==
    ASSUME DataInv, TaskInv, TaskLaunch PROVE DeferredOK'
<1>1. \E s, free : Launched(cur.id, s, Children(cur.id), free)
  BY LaunchFacts DEF DataInv, TaskInv
<1>2. PICK s \in Slots : state'[s] = "STARTED" BY <1>1 DEF Launched
<1>3. s \notin Idle' BY <1>2 DEF Idle, is_processing
<1>4. QED BY <1>2, <1>3 DEF DeferredOK, Slots

LEMMA CancelDeferred ==
    ASSUME TaskInv, DeferredOK, TaskCancel PROVE DeferredOK'
<1>1. TaskType /\ OnePlace /\ cur.type = "CANCEL" /\ cur' = NoTask
  BY DEF TaskInv, TaskCancel
<1>2. CASE \E s : pop_deferred_task(s) BY <1>1, <1>2, PopFacts, DeferredPopped
<1>3. CASE UNCHANGED <<state, queue_vars>>
  <2>1. UNCHANGED <<state, queue_tasks, queue_tasks_deferred>> BY <1>3 DEF queue_vars
  <2>2. cur.id = 0 BY <1>1, CurFacts
  <2>3. cur \notin RequestTasks BY <2>2, TaskFields DEF RequestTasks
  <2>4. Idle' = Idle BY <2>1 DEF Idle, is_processing
  <2>5. QED BY <2>1, <2>3, <2>4 DEF DeferredOK
<1>4. QED BY <1>2, <1>3 DEF TaskCancel, release

LEMMA PostDeferred ==
    ASSUME TaskInv, DeferredOK, NEW g \in Requests, Post(g) PROVE DeferredOK'
<1>1. /\ queue_tasks' = Push(queue_tasks, RequestTask(g), FALSE)
      /\ UNCHANGED <<queue_tasks_deferred, cur, state>>
  BY DEF Post, slot_vars
<1>2. queue_tasks \in Seq(RequestTasks \cup CancelTasks) BY DEF TaskInv, TaskType
<1>3. RequestTask(g) \in RequestTasks \cup CancelTasks BY DEF RequestTasks
<1>4. \A u : Holds(queue_tasks, u) => Holds(queue_tasks', u)
  BY <1>1, <1>2, <1>3, PushLemma
<1>5. Idle' = Idle BY <1>1 DEF Idle, is_processing
<1>6. QED BY <1>1, <1>4, <1>5 DEF DeferredOK

\* A reader that stops after an error has nothing in the deques but the CANCEL
\* tasks it posts.
LEMMA ErrorDeferred ==
    ASSUME TaskInv, DeferredOK, NEW g \in Requests, ReaderError(g) PROVE DeferredOK'
<1>1. /\ TaskType /\ OnePlace /\ RequestOK(g)
      /\ reader[g] = "posted" /\ Failed(g) /\ stop(g) /\ UNCHANGED <<cur, state>>
  BY DEF TaskInv, ReaderError, stop, slot_vars
<1>2. ~Queued(g) BY <1>1 DEF RequestOK, Untouched, Failed
<1>3. g # 0 BY TaskFields
<1>4. ASSUME NEW q, g \notin IdsIn(q) PROVE Cleanup(q, g) = q
  BY <1>3, <1>4 DEF IdsIn, Cleanup
<1>5. /\ Cleanup(queue_tasks, g) = queue_tasks
      /\ Cleanup(queue_tasks_deferred, g) = queue_tasks_deferred
  BY <1>2, <1>4 DEF Queued
<1>6. PICK ids \in SetToSeqs(IdsOf(g)) :
         queue_tasks' = [j \in DOMAIN ids |-> CancelTask(ids[j])] \o queue_tasks
  BY <1>1, <1>5 DEF stop
<1> DEFINE c == [j \in DOMAIN ids |-> CancelTask(ids[j])]
<1>7. DOMAIN ids = 1..Cardinality(IdsOf(g)) /\ \A n \in DOMAIN ids : ids[n] \in IdsOf(g)
  BY DEF SetToSeqs
<1>8. Cardinality(IdsOf(g)) \in Nat BY IdsFinite
<1>9. \A n \in DOMAIN ids : CancelTask(ids[n]) \in CancelTasks
  BY <1>7, IdFacts DEF CancelTasks
<1>10. c \in Seq(CancelTasks) BY <1>7, <1>8, <1>9
<1> DEFINE S == RequestTasks \cup CancelTasks
<1>11. queue_tasks \in Seq(S) /\ Distinct(queue_tasks) BY <1>1 DEF TaskType, OnePlace
<1> HIDE DEF c, S
<1>12. \A u : Holds(queue_tasks, u) => Holds(c \o queue_tasks, u)
  BY <1>10, <1>11, CancelFront
<1>13. queue_tasks' = c \o queue_tasks BY <1>6 DEF c
<1>14. UNCHANGED queue_tasks_deferred BY <1>1, <1>5 DEF stop
<1>15. Idle' = Idle BY <1>1 DEF Idle, is_processing
<1>16. QED BY <1>1, <1>12, <1>13, <1>14, <1>15 DEF DeferredOK

LEMMA DeferredInit == ASSUME Init PROVE DeferredOK
BY DEF Init, DeferredOK

\* update_slots takes tasks out of slots only by release.
LEMMA UpdateDeferred ==
    ASSUME DataInv, TaskInv, DeferredOK,
           \/ UpdateBegin \/ PromptSkip \/ PromptRefuse \/ PromptWait \/ PromptAdd
           \/ UpdateEnd \/ DecodeOk \/ DecodeNoSpace \/ DecodeFail \/ ErrorSlot
           \/ SampleSkip \/ SampleStop \/ SampleNext
    PROVE  DeferredOK'
<1>1. DataType /\ TaskType /\ OnePlace BY DEF DataInv, TaskInv
<1>2. CASE \E s : pop_deferred_task(s) BY <1>1, <1>2, PopFacts, DeferredPopped
<1>3. CASE UNCHANGED <<queue_vars, cur, state>> BY <1>3, DeferredKept
<1>4. CASE PromptWait \/ PromptAdd \/ SampleNext
  <2>1. UNCHANGED <<queue_vars, cur>> BY <1>4 DEF PromptWait, PromptAdd, SampleNext
  <2>2. PICK x \in {"PROCESSING_PROMPT", "DONE_PROMPT", "GENERATING"} :
           state' = [state EXCEPT ![k] = x]
    <3>1. CASE PromptWait BY <3>1 DEF PromptWait
    <3>2. CASE SampleNext BY <3>2 DEF SampleNext
    <3>3. CASE PromptAdd BY <3>3 DEF PromptAdd
    <3>4. QED BY <1>4, <3>1, <3>2, <3>3
  <2>3. \A s \in Slots : state[s] # "IDLE" => state'[s] # "IDLE"
    BY <1>1, <2>2 DEF DataType
  <2>4. QED BY <2>1, <2>3, DeferredKept
<1>5. CASE DecodeOk
  <2>1. UNCHANGED <<queue_vars, cur>> BY <1>5 DEF DecodeOk
  <2>2. \A c \in Slots : state'[c] = IF ParentOf(c) = {} THEN state[c] ELSE "DONE_PROMPT"
    BY <1>5 DEF DecodeOk
  <2>3. QED BY <2>1, <2>2, DeferredKept
<1>6. CASE UpdateBegin \/ PromptSkip \/ UpdateEnd \/ DecodeNoSpace \/ DecodeFail \/ SampleSkip
  BY <1>3, <1>6
  DEF UpdateBegin, PromptSkip, UpdateEnd, DecodeNoSpace, DecodeFail, SampleSkip, slot_vars
<1>7. CASE PromptRefuse \/ SampleStop
  BY <1>2, <1>7 DEF PromptRefuse, SampleStop, release
<1>8. CASE ErrorSlot
  BY <1>2, <1>3, <1>8 DEF ErrorSlot, release
<1>9. QED BY <1>4, <1>5, <1>6, <1>7, <1>8

LEMMA DeferredNext ==
    ASSUME AllLaunched, DataInv, TaskInv, DeferredOK, [Next]_vars PROVE DeferredOK'
<1>1. CASE TaskReject BY <1>1 DEF TaskReject, AllLaunched
<1>2. CASE TaskSlotAction
  <2>1. cur.type \in SlotAction /\ TaskType BY <1>2 DEF TaskSlotAction, TaskInv
  <2>2. cur.id \in Requests /\ Req[cur.id].type \in SlotAction BY <2>1, CurFacts
  <2>3. QED BY <2>2 DEF AllLaunched
<1>3. CASE MainStep
  BY <1>1, <1>2, <1>3, FetchDeferred, DeferDeferred, LaunchDeferred, CancelDeferred,
     UpdateDeferred
  DEF MainStep
<1>4. ASSUME NEW g \in Requests, ReaderDone(g) PROVE DeferredOK'
  BY <1>4, DeferredKept DEF ReaderDone, slot_vars
<1>5. CASE \E g \in Requests : Post(g) \/ ReaderStep(g) \/ Disconnect(g)
  BY <1>4, <1>5, PostDeferred, ErrorDeferred DEF ReaderStep, Disconnect, AllLaunched
<1>6. CASE UNCHANGED vars BY <1>6, DeferredKept DEF vars, slot_vars
<1>7. QED BY <1>3, <1>5, <1>6 DEF Next

----------------------------------------------------------------------------
(* The theorems. *)

\* The inductive invariant of slots, batch and tasks: every step of
\* process_single_task, update_slots and the readers keeps it.
THEOREM IndInvariant == Spec => [](DataInv /\ TaskInv)
<1>1. Init => DataInv /\ TaskInv BY DataInit, TaskInit
<1>2. DataInv /\ TaskInv /\ [Next]_vars => (DataInv /\ TaskInv)'
  <2>1. SUFFICES ASSUME DataInv, TaskInv, [Next]_vars PROVE DataInv' /\ TaskInv' OBVIOUS
  <2>2. TaskType BY <2>1 DEF TaskInv
  <2>3. QED BY <2>1, <2>2, DataNext, TaskNext
<1>3. QED BY <1>1, <1>2, PTL DEF Spec

\* No action leaves the ranges of the fields of slots, batch, deques and
\* readers, and a slot is idle exactly when release took its task: the index
\* of a sampled token stays in the batch, prompt and cells in the context.
THEOREM TypeCorrect == Spec => []TypeOK
<1>1. DataInv /\ TaskInv => TypeOK BY DEF DataInv, TaskInv, DataType, TaskType, TypeOK
<1>2. QED BY <1>1, IndInvariant, PTL

\* What the server believes of a slot's context is in the KV cache or still
\* ahead in the batch, through reuse of prompts, chunks that are halved or
\* fail, cleared slots, saved and restored ones: for all slots but those of
\* children (update_slots, release, try_clear_idle_slots).
THEOREM PromptsBacked == Spec => []PromptInKv
<1>1. DataInv => PromptInKv BY DEF DataInv, KvOK, PromptInKv
<1>2. QED BY <1>1, IndInvariant, PTL

\* update_slots returns only when every prompt that was decoded has been
\* sampled, and every token of a generation, whatever chunks the batch was
\* decoded in.
THEOREM NoneLeftBehind == Spec => []NoPromptLeftBehind
<1>1. ASSUME DataInv PROVE NoPromptLeftBehind
  <2>1. SUFFICES ASSUME main \in {"fetch", "task"}, NEW s \in Slots
                 PROVE  /\ state[s] # "DONE_PROMPT"
                        /\ state[s] = "GENERATING" => i_batch[s] = -1
    BY DEF NoPromptLeftBehind
  <2>2. DataType /\ Phase /\ TokenOK(s) BY <1>1, <2>1 DEF DataInv
  <2>3. Len(batch) = 0 /\ i \in Nat BY <2>1, <2>2 DEF Phase, DataType
  <2>4. ~Pending(s)
    <3>1. i_batch[s] \in Int BY <2>2, SlotTypes
    <3>2. QED BY <2>1, <2>3, <3>1 DEF Pending
  <2>5. QED BY <2>2, <2>4 DEF TokenOK
<1>2. QED BY <1>1, IndInvariant, PTL

\* The batch has at most n_batch tokens, or one for each slot, and a slot that
\* generates has room for its next token, so that the check in update_slots
\* for a full context is redundant.
THEOREM LimitsKept == Spec => []WithinLimits
<1>1. ASSUME DataInv PROVE WithinLimits
  <2>1. ASSUME main = "fetch", NEW s \in Slots, state[s] = "GENERATING"
        PROVE  prompt[s] + 1 < NCtx
    <3>1. DataType /\ Phase /\ TokenOK(s) /\ SlotOK(s) BY <1>1, <2>1 DEF DataInv
    <3>2. Len(batch) = 0 /\ i \in Nat /\ i_batch[s] \in Int
      BY <2>1, <3>1, SlotTypes DEF Phase, DataType
    <3>3. ~Pending(s) BY <2>1, <3>2 DEF Pending
    <3>4. QED BY <2>1, <3>1, <3>3 DEF TokenOK, SlotOK
  <2>2. Len(batch) <= IF NBatch < NSlots THEN NSlots ELSE NBatch
    BY <1>1 DEF DataInv, Phase
  <2>3. QED BY <2>1, <2>2 DEF WithinLimits
<1>2. QED BY <1>1, IndInvariant, PTL

\* Each slot samples from the logits of its own token, or of its parent's, in
\* whatever chunk of a halved batch that token was decoded.
THEOREM TokensOwn == Spec => []SamplesOwnToken
<1>1. ASSUME DataInv PROVE SamplesOwnToken
  <2>1. SUFFICES ASSUME main = "sample", NEW s \in Slots, Sampled(s)
                 PROVE  batch[i_batch[s] + 1] = s \/ IsChild(task[s])
    BY DEF SamplesOwnToken
  <2>2. DataType /\ TokenOK(s) BY <1>1, <2>1 DEF DataInv
  <2>3. i \in Nat /\ i_batch[s] \in Int BY <2>2, SlotTypes DEF DataType
  <2>4. i_batch[s] # -1 /\ state[s] \in Sampling BY <2>1, <2>3 DEF Sampled, Sampling
  <2>5. QED BY <2>2, <2>4 DEF TokenOK
<1>2. QED BY <1>1, IndInvariant, PTL

\* An embedding that is sampled was in one batch from its first token on,
\* however many prompts compete for the batch (can_split).
THEOREM EmbeddingsWhole == Spec => []EmbeddingInOneBatch
<1>1. DataInv => EmbeddingInOneBatch BY DEF DataInv, EmbedOK, EmbeddingInOneBatch
<1>2. QED BY <1>1, IndInvariant, PTL

\* A child that waits has a parent on its prompt, unless its request is over
\* or its prompt is empty: decoding the last chunk of a prompt activates the
\* children (update_slots), and nothing else takes the parent away unnoticed.
THEOREM ChildrenHaveParent == Spec => []ChildHasParent
<1>1. TaskInv => ChildHasParent BY DEF TaskInv
<1>2. QED BY <1>1, IndInvariant, PTL

\* A task of a request that was posted is in one place, or in none after an
\* error of the request.
LEMMA PlacesFacts ==
    ASSUME TaskInv, NEW g \in Requests, reader[g] = "posted", NEW j \in IdsOf(g)
    PROVE  \/ Failed(g) /\ Places(j) = {}
           \/ \E x : Places(j) = {x}
<1>1. RequestOK(g) /\ RequestOf(j) = g BY IdFacts DEF TaskInv
<1> DEFINE A == {<<"slot", s>> : s \in {s \in Slots : task[s] = j}}
<1>2. Places(j) = A \cup (IF Queued(g) THEN {<<"queue", 0>>} ELSE {})
                    \cup (IF answer[j] # "none" THEN {<<"answer", 0>>} ELSE {})
  BY <1>1 DEF Places
<1>3. ~InSlot(j) => A = {} BY DEF InSlot
<1>4. ASSUME InSlot(j) PROVE \E x : A = {x}
  <2>1. PICK s \in Slots : task[s] = j BY <1>4 DEF InSlot
  <2>2. {t \in Slots : task[t] = j} = {s} BY <1>1, <2>1 DEF RequestOK
  <2>3. A = {<<"slot", s>>} BY <2>2
  <2>4. QED BY <2>3
<1> HIDE DEF A
<1>5. CASE Queued(g)
  <2>1. answer[j] = "none" /\ ~InSlot(j) BY <1>1, <1>5 DEF RequestOK, Untouched
  <2>2. Places(j) = {<<"queue", 0>>} BY <1>2, <1>3, <1>5, <2>1
  <2>3. QED BY <2>2
<1>6. CASE ~Queued(g) /\ InSlot(j)
  <2>1. answer[j] = "none" BY <1>1, <1>6 DEF RequestOK
  <2>2. Places(j) = A BY <1>2, <1>6, <2>1
  <2>3. QED BY <1>4, <1>6, <2>2
<1>7. CASE ~Queued(g) /\ ~InSlot(j) /\ answer[j] # "none"
  <2>1. Places(j) = {<<"answer", 0>>} BY <1>2, <1>3, <1>7
  <2>2. QED BY <2>1
<1>8. CASE ~Queued(g) /\ ~InSlot(j) /\ answer[j] = "none"
  <2>1. Places(j) = {} BY <1>2, <1>3, <1>8
  <2>2. Failed(g) BY <1>1, <1>8 DEF RequestOK
  <2>3. QED BY <2>1, <2>2
<1>9. QED BY <1>5, <1>6, <1>7, <1>8

\* Every task that was posted and not cancelled is in the deques, in the hands
\* of process_single_task, in one slot or answered, in one place at a time and
\* answered at most once; only an error of its request makes it vanish.
THEOREM AnsweredOnce == Spec => []OneAnswer
<1>1. ASSUME TaskInv PROVE OneAnswer
  <2>1. SUFFICES ASSUME NEW g \in Requests, reader[g] = "posted", NEW j \in IdsOf(g)
                 PROVE  /\ answer[j] # "twice"
                        /\ IF Failed(g) THEN Cardinality(Places(j)) <= 1
                           ELSE Cardinality(Places(j)) = 1
    BY DEF OneAnswer
  <2>2. answer[j] # "twice" BY <1>1, <2>1 DEF TaskInv, RequestOK
  <2>3. CASE Failed(g) /\ Places(j) = {}
    <3>1. Cardinality(Places(j)) = 0 BY <2>3, FS_EmptySet
    <3>2. QED BY <2>2, <2>3, <3>1
  <2>4. CASE \E x : Places(j) = {x}
    <3>1. Cardinality(Places(j)) = 1 BY <2>4, FS_Singleton
    <3>2. QED BY <2>2, <3>1
  <2>5. QED BY <1>1, <2>1, <2>3, <2>4, PlacesFacts
<1>2. QED BY <1>1, IndInvariant, PTL

\* The server does not come to rest with deferred tasks where no task is
\* rejected at launch, cancelled by its client, or a slot action: each release
\* takes up one of them, and with all slots idle a task that is fetched finds
\* the slots it needs.
THEOREM NoneStranded == AllLaunched => (Spec => []NotStranded)
<1>1. SUFFICES ASSUME AllLaunched PROVE Spec => []NotStranded OBVIOUS
<1>2. Init => DeferredOK BY DeferredInit
<1>3. DataInv /\ TaskInv /\ DeferredOK /\ [Next]_vars => DeferredOK'
  BY <1>1, DeferredNext
<1>4. ASSUME TaskInv, DeferredOK PROVE NotStranded
  <2>1. SUFFICES ASSUME main = "fetch", queue_tasks = <<>>, Idle = Slots,
                        queue_tasks_deferred # <<>>
                 PROVE  FALSE
    BY DEF NotStranded
  <2>2. cur = NoTask BY <1>4, <2>1 DEF TaskInv, OnePlace
  <2>3. cur \notin RequestTasks BY <2>2, TaskFields DEF RequestTasks
  <2>4. DOMAIN queue_tasks = {} BY <2>1
  <2>5. \A u : ~Holds(queue_tasks, u) BY <2>4 DEF Holds
  <2>6. QED BY <1>4, <2>1, <2>3, <2>5 DEF DeferredOK
<1>5. QED BY <1>2, <1>3, <1>4, IndInvariant, PTL DEF Spec
=============================================================================
