------------------------ MODULE ServerResponseProofs ------------------------
(* Proofs about ServerResponse, for any readers, tasks, slots and number of *)
(* partial results.  TaskQueueProofs has the lemma on RemoveAt.             *)
EXTENDS ServerResponse, TaskQueueProofs, FiniteSetTheorems

----------------------------------------------------------------------------
(* What the queue holds for one task. *)

At(q, i) == {k \in DOMAIN q : q[k].id = i}

\* The results of task i in q are those after the g-th up to the s-th, in order.
Numbered(q, i, g, s) ==
    /\ \A k \in At(q, i) : q[k].n \in (g + 1)..s
    /\ \A n \in (g + 1)..s : \E k \in At(q, i) : q[k].n = n
    /\ \A j, k \in At(q, i) : j < k => q[j].n < q[k].n

\* The s-th, and no other, is final or an error, once the task is over.
Ends(q, i, over, s) == \A k \in At(q, i) : q[k].kind # "partial" <=> over /\ q[k].n = s

----------------------------------------------------------------------------
(* The inductive invariant. *)

Reading(r) == reader[r] \in {"recv", "waiting", "chunk"}

\* The tasks of which the reader has the last result.
Finished(r) == {i \in id_tasks[r] : task[i] = "over" /\ got[i] = sent[i]}

\* A task that has not been posted.
Untouched(i) ==
    /\ task[i] = "none" /\ sent[i] = 0 /\ got[i] = 0
    /\ At(queue_results, i) = {} /\ i \notin cancels

\* A task whose reader has not begun to stop.
Tracked(i) ==
    /\ i \in waiting_task_ids /\ i \notin cancels /\ task[i] # "none"
    /\ got[i] <= sent[i]
    /\ Numbered(queue_results, i, got[i], sent[i])
    /\ Ends(queue_results, i, task[i] = "over", sent[i])

\* The results that the reader counts are the last results it has read.
CountInv(r) ==
    /\ Reading(r) =>
          /\ received_count[r] = Cardinality(Finished(r))
          /\ received_count[r] < Cardinality(id_tasks[r])
    /\ reader[r] = "stop" =>
          received_count[r] < Cardinality(id_tasks[r]) \/ Finished(r) = id_tasks[r]

\* What is left to do for the ids of a reader in each of its states.
ReaderInv(r) ==
    /\ reader[r] \in {"new", "added"} =>
          received_count[r] = 0 /\ \A i \in id_tasks[r] : Untouched(i)
    /\ reader[r] = "new" => id_tasks[r] \cap waiting_task_ids = {}
    /\ reader[r] = "added" => id_tasks[r] \subseteq waiting_task_ids
    /\ Reading(r) \/ reader[r] = "stop" => \A i \in id_tasks[r] : Tracked(i)
    /\ reader[r] \in {"removing", "cancelling"} => cancelled[r]
    /\ reader[r] \notin {"removing", "cancelling", "closed"} => ~cancelled[r]
    /\ reader[r] \in {"removing", "cancelling", "closed"} =>
          id_tasks[r] \cap waiting_task_ids = {}
    /\ reader[r] = "removing" =>
          /\ left[r] \subseteq id_tasks[r]
          /\ \A i \in id_tasks[r] \ left[r] : At(queue_results, i) = {}
    /\ reader[r] \in {"cancelling", "closed"} =>
          \A i \in id_tasks[r] : At(queue_results, i) = {}
    /\ reader[r] = "closed" /\ ~cancelled[r] => Finished(r) = id_tasks[r]

WaitInv ==
    \A r \in waiters : reader[r] = "waiting" /\ \A i \in id_tasks[r] : At(queue_results, i) = {}

IInv ==
    /\ TypeOK
    /\ \A r \in Readers : ReaderInv(r) /\ CountInv(r)
    /\ WaitInv

----------------------------------------------------------------------------
(* Lemmas on the queue. *)

\* p is the subsequence of q at the positions K.
Extract(q, K, p) ==
    \E f \in [DOMAIN p -> K] :
        /\ \A j \in DOMAIN p : p[j] = q[f[j]]
        /\ \A j, k \in DOMAIN p : j < k => f[j] < f[k]
        /\ \A k \in K : \E j \in DOMAIN p : f[j] = k

\* Kept is that subsequence.
LEMMA KeptLemma ==
    ASSUME NEW q \in Seq(Result), NEW K \in SUBSET (DOMAIN q), NEW p \in Kept(q, K)
    PROVE  p \in Seq(Result) /\ Extract(q, K, p)
<1> DEFINE n == Cardinality(K)
<1>1. DOMAIN q = 1..Len(q) /\ Len(q) \in Nat OBVIOUS
<1>2. IsFiniteSet(DOMAIN q) BY <1>1, FS_Interval
<1>3. IsFiniteSet(K) /\ n \in Nat BY <1>2, FS_Subset, FS_CardinalityType
<1> HIDE DEF n
<1>4. PICK f \in [1..n -> K] :
         /\ \A j, k \in 1..n : j < k => f[j] < f[k]
         /\ p = [k \in 1..n |-> q[f[k]]]
  BY DEF Kept, n
<1>5. \A j \in 1..n : f[j] \in K /\ f[j] \in 1..Len(q) BY <1>1, <1>4
<1>6. \A j \in 1..n : q[f[j]] \in Result BY <1>1, <1>5
<1>7. p \in Seq(Result) BY <1>3, <1>4, <1>6
<1>8. DOMAIN p = 1..n BY <1>4
<1>9. f \in Injection(1..n, K)
  <2>1. \A j, k \in 1..n : f[j] = f[k] => j = k BY <1>3, <1>4, <1>5
  <2>2. QED BY <2>1 DEF Injection, IsInjective
<1>10. IsFiniteSet(1..n) /\ Cardinality(1..n) = n BY <1>3, FS_Interval
<1>11. f \in Surjection(1..n, K) BY <1>3, <1>9, <1>10, FS_Injection DEF n
<1>12. \A k \in K : \E j \in 1..n : f[j] = k BY <1>11 DEF Surjection
<1>13. QED BY <1>4, <1>7, <1>8, <1>12 DEF Extract

\* Taking one result out of the queue.
LEMMA RemoveAtKept ==
    ASSUME NEW q \in Seq(Result), NEW k \in DOMAIN q
    PROVE  RemoveAt(q, k) \in Kept(q, (DOMAIN q) \ {k})
<1> DEFINE n == Len(q) - 1
           f == [j \in 1..n |-> IF j < k THEN j ELSE j + 1]
<1>1. DOMAIN q = 1..Len(q) /\ Len(q) \in Nat /\ k \in 1..Len(q) OBVIOUS
<1>2. IsFiniteSet(DOMAIN q) /\ Cardinality(DOMAIN q) = Len(q)
  <2>1. 1 \in Int /\ Len(q) \in Int BY <1>1
  <2>2. /\ IsFiniteSet(1..Len(q))
        /\ Cardinality(1..Len(q)) = IF 1 > Len(q) THEN 0 ELSE Len(q) - 1 + 1
    BY <2>1, FS_Interval, Zenon
  <2>3. QED BY <1>1, <2>2
<1>3. Cardinality((DOMAIN q) \ {k}) = n BY <1>2, FS_RemoveElement
<1>4. f \in [1..n -> (DOMAIN q) \ {k}] BY <1>1
<1>5. \A i, j \in 1..n : i < j => f[i] < f[j] BY <1>1
<1>6. RemoveAt(q, k) = [j \in 1..n |-> q[f[j]]]
  <2>1. RemoveAt(q, k) \in Seq(Result) /\ Len(RemoveAt(q, k)) = n
        /\ \A i \in 1..n : RemoveAt(q, k)[i] = IF i < k THEN q[i] ELSE q[i + 1]
    BY <1>1, RemoveAtLemma
  <2>2. DOMAIN RemoveAt(q, k) = 1..n BY <2>1
  <2>3. \A i \in 1..n : RemoveAt(q, k)[i] = q[f[i]] BY <2>1
  <2>4. RemoveAt(q, k) = [j \in DOMAIN RemoveAt(q, k) |-> RemoveAt(q, k)[j]] BY <2>1
  <2> HIDE DEF f, n
  <2>5. QED BY <2>2, <2>3, <2>4
<1> HIDE DEF f, n
<1>7. QED BY <1>3, <1>4, <1>5, <1>6 DEF Kept

\* A task of which nothing is taken out.
LEMMA KeptOther ==
    ASSUME NEW q \in Seq(Result), NEW K \in SUBSET (DOMAIN q), NEW p \in Kept(q, K),
           NEW i \in Tasks, At(q, i) \subseteq K,
           NEW g \in Nat, NEW s \in Nat, NEW over \in BOOLEAN
    PROVE  /\ Numbered(q, i, g, s) => Numbered(p, i, g, s)
           /\ Ends(q, i, over, s) => Ends(p, i, over, s)
           /\ At(q, i) = {} => At(p, i) = {}
<1>1. p \in Seq(Result) BY KeptLemma
<1>2. PICK f \in [DOMAIN p -> K] :
         /\ \A j \in DOMAIN p : p[j] = q[f[j]]
         /\ \A j, k \in DOMAIN p : j < k => f[j] < f[k]
         /\ \A k \in K : \E j \in DOMAIN p : f[j] = k
  BY KeptLemma DEF Extract
<1>3. \A j \in At(p, i) : f[j] \in At(q, i) /\ p[j] = q[f[j]] BY <1>2 DEF At
<1>4. \A k \in At(q, i) : \E j \in At(p, i) : p[j] = q[k]
  <2>1. SUFFICES ASSUME NEW k \in At(q, i) PROVE \E j \in At(p, i) : p[j] = q[k] OBVIOUS
  <2>2. PICK j \in DOMAIN p : f[j] = k BY <1>2
  <2>3. p[j] = q[k] /\ j \in At(p, i) BY <1>2, <2>2 DEF At
  <2>4. QED BY <2>3
<1>5. \A j, k \in At(p, i) : j < k => f[j] < f[k] BY <1>2 DEF At
<1>6. Numbered(q, i, g, s) => Numbered(p, i, g, s)
  <2>1. SUFFICES ASSUME Numbered(q, i, g, s) PROVE Numbered(p, i, g, s) OBVIOUS
  <2>2. \A k \in At(p, i) : p[k].n \in (g + 1)..s BY <1>3, <2>1 DEF Numbered
  <2>3. \A n \in (g + 1)..s : \E k \in At(p, i) : p[k].n = n BY <1>4, <2>1 DEF Numbered
  <2>4. \A j, k \in At(p, i) : j < k => p[j].n < p[k].n BY <1>3, <1>5, <2>1 DEF Numbered
  <2>5. QED BY <2>2, <2>3, <2>4 DEF Numbered
<1>7. Ends(q, i, over, s) => Ends(p, i, over, s) BY <1>3 DEF Ends
<1>8. QED BY <1>3, <1>6, <1>7

\* The task of which all results are taken out.
LEMMA KeptNone ==
    ASSUME NEW q \in Seq(Result), NEW i \in Tasks, NEW p \in Kept(q, (DOMAIN q) \ At(q, i))
    PROVE  At(p, i) = {}
<1>1. PICK f \in [DOMAIN p -> (DOMAIN q) \ At(q, i)] : \A j \in DOMAIN p : p[j] = q[f[j]]
  BY KeptLemma DEF Extract
<1>2. QED BY <1>1 DEF At

\* The task whose first result is taken out.
LEMMA KeptFirst ==
    ASSUME NEW q \in Seq(Result), NEW k \in DOMAIN q, NEW p \in Kept(q, (DOMAIN q) \ {k}),
           NEW i \in Tasks, q[k].id = i, \A j \in At(q, i) : k <= j,
           NEW g \in Nat, NEW s \in Nat, NEW over \in BOOLEAN,
           Numbered(q, i, g, s), Ends(q, i, over, s)
    PROVE  /\ q[k].n = g + 1 /\ g + 1 <= s
           /\ Numbered(p, i, g + 1, s) /\ Ends(p, i, over, s)
<1>1. k \in At(q, i) /\ q[k].n \in (g + 1)..s BY DEF At, Numbered
<1>2. q[k].n = g + 1 /\ g + 1 <= s
  <2>1. g + 1 <= s /\ g + 1 \in (g + 1)..s BY <1>1
  <2>2. PICK j \in At(q, i) : q[j].n = g + 1 BY <2>1 DEF Numbered
  <2>3. k \in Nat /\ j \in Nat BY DEF At
  <2>4. k < j => q[k].n < q[j].n BY <1>1 DEF Numbered
  <2>5. QED BY <1>1, <2>1, <2>2, <2>3, <2>4
<1> DEFINE K == (DOMAIN q) \ {k}
<1>0. K \in SUBSET (DOMAIN q) /\ p \in Kept(q, K) /\ K = (DOMAIN q) \ {k} OBVIOUS
<1> HIDE DEF K
<1>3. PICK f \in [DOMAIN p -> K] :
         /\ \A j \in DOMAIN p : p[j] = q[f[j]]
         /\ \A j, m \in DOMAIN p : j < m => f[j] < f[m]
         /\ \A m \in K : \E j \in DOMAIN p : f[j] = m
  <2>1. Extract(q, K, p) BY <1>0, KeptLemma
  <2>2. QED BY <2>1 DEF Extract
<1>4. \A j \in At(p, i) : f[j] \in At(q, i) \ {k} /\ p[j] = q[f[j]] BY <1>0, <1>3 DEF At
<1>5. \A m \in At(q, i) \ {k} : \E j \in At(p, i) : p[j] = q[m]
  <2>1. SUFFICES ASSUME NEW m \in At(q, i) \ {k} PROVE \E j \in At(p, i) : p[j] = q[m]
    OBVIOUS
  <2>2. m \in K BY <1>0 DEF At
  <2>3. PICK j \in DOMAIN p : f[j] = m BY <1>3, <2>2
  <2>4. p[j] = q[m] /\ j \in At(p, i) BY <1>3, <2>3 DEF At
  <2>5. QED BY <2>4
<1>6. \A j, m \in At(p, i) : j < m => f[j] < f[m] BY <1>3 DEF At
<1>7. \A m \in At(q, i) \ {k} : q[m].n \in (g + 2)..s
  <2>1. SUFFICES ASSUME NEW m \in At(q, i) \ {k} PROVE q[m].n \in (g + 2)..s OBVIOUS
  <2>2. k < m BY DEF At
  <2>3. q[k].n < q[m].n /\ q[m].n \in (g + 1)..s BY <1>1, <2>2 DEF Numbered
  <2>4. QED BY <1>2, <2>3
<1>8. \A j \in At(p, i) : p[j].n \in (g + 2)..s BY <1>4, <1>7
<1>9. \A n \in (g + 2)..s : \E j \in At(p, i) : p[j].n = n
  <2>1. SUFFICES ASSUME NEW n \in (g + 2)..s PROVE \E j \in At(p, i) : p[j].n = n OBVIOUS
  <2>2. n \in (g + 1)..s /\ n # g + 1 OBVIOUS
  <2>3. PICK m \in At(q, i) : q[m].n = n BY <2>2 DEF Numbered
  <2>4. m # k BY <1>2, <2>2, <2>3
  <2>5. QED BY <1>5, <2>3, <2>4
<1>10. \A j, m \in At(p, i) : j < m => p[j].n < p[m].n BY <1>4, <1>6 DEF Numbered
<1>11. g + 1 + 1 = g + 2 OBVIOUS
<1>12. Numbered(p, i, g + 1, s) BY <1>8, <1>9, <1>10, <1>11 DEF Numbered
<1>13. Ends(p, i, over, s) BY <1>4 DEF Ends
<1>14. QED BY <1>2, <1>12, <1>13

Appended(q, res, p) == p = Append(q, res)

\* A result of the task is appended.
LEMMA AppendOwn ==
    ASSUME NEW q \in Seq(Result), NEW res \in Result, NEW p, Appended(q, res, p),
           NEW g \in Nat, NEW s \in Nat, NEW over \in BOOLEAN, NEW i \in Tasks,
           res.id = i, res.n = s + 1, g <= s, Numbered(q, i, g, s)
    PROVE  /\ Numbered(p, i, g, s + 1)
           /\ Ends(q, i, FALSE, s) /\ (res.kind # "partial" <=> over)
                 => Ends(p, i, over, s + 1)
<1> DEFINE e == Len(q) + 1
<1>1. /\ p \in Seq(Result) /\ Len(q) \in Nat /\ Len(p) = e /\ p[e] = res
      /\ \A k \in 1..Len(q) : p[k] = q[k]
  BY DEF Appended
<1>2. DOMAIN p = 1..e /\ DOMAIN q = 1..Len(q) /\ e \notin DOMAIN q BY <1>1
<1>3. At(p, i) = At(q, i) \cup {e} BY <1>1, <1>2 DEF At
<1>4. \A k \in At(q, i) : p[k] = q[k] /\ k < e BY <1>1, <1>2 DEF At
<1>5. At(p, i) = At(q, i) \cup {e} /\ p[e].n = s + 1 BY <1>1, <1>3
<1>6. \A k \in At(q, i) : p[k].n \in (g + 1)..s BY <1>4 DEF Numbered
<1>7. \A k \in At(p, i) : p[k].n \in (g + 1)..(s + 1) BY <1>5, <1>6
<1>8. \A n \in (g + 1)..(s + 1) : \E k \in At(p, i) : p[k].n = n
  <2>1. SUFFICES ASSUME NEW n \in (g + 1)..(s + 1) PROVE \E k \in At(p, i) : p[k].n = n
    OBVIOUS
  <2>2. CASE n = s + 1 BY <1>5, <2>2
  <2>3. CASE n # s + 1
    <3>1. n \in (g + 1)..s BY <2>3
    <3>2. QED BY <1>4, <1>5, <3>1 DEF Numbered
  <2>4. QED BY <2>2, <2>3
<1>9. \A j, k \in At(p, i) : j < k => p[j].n < p[k].n
  <2>1. SUFFICES ASSUME NEW j \in At(p, i), NEW k \in At(p, i), j < k
                 PROVE  p[j].n < p[k].n
    OBVIOUS
  <2>2. j \in At(q, i) /\ j \in Nat /\ k \in Nat BY <1>2, <1>4, <1>5, <2>1 DEF At
  <2>3. CASE k = e BY <1>5, <1>6, <2>2, <2>3
  <2>4. CASE k # e BY <1>4, <1>5, <2>1, <2>2, <2>4 DEF Numbered
  <2>5. QED BY <2>3, <2>4
<1>10. Numbered(p, i, g, s + 1) BY <1>7, <1>8, <1>9 DEF Numbered
<1>11. ASSUME Ends(q, i, FALSE, s), res.kind # "partial" <=> over
      PROVE  Ends(p, i, over, s + 1)
  <2>1. \A k \in At(q, i) : p[k].kind = "partial" BY <1>4, <1>11 DEF Ends
  <2>2. \A k \in At(q, i) : p[k].n # s + 1 BY <1>6
  <2>3. p[e].kind # "partial" <=> over BY <1>1, <1>11
  <2>4. QED BY <1>5, <2>1, <2>2, <2>3 DEF Ends
<1>12. QED BY <1>10, <1>11

----------------------------------------------------------------------------
(* Steps of others. *)

\* The step leaves what the queue holds for task i.
SameQueue(i) ==
    /\ At(queue_results, i) = {} => At(queue_results', i) = {}
    /\ \A g, s \in Nat, over \in BOOLEAN :
          /\ Numbered(queue_results, i, g, s) => Numbered(queue_results', i, g, s)
          /\ Ends(queue_results, i, over, s) => Ends(queue_results', i, over, s)

SameTask(i) ==
    /\ i \in waiting_task_ids' <=> i \in waiting_task_ids
    /\ i \in cancels' <=> i \in cancels
    /\ task'[i] = task[i] /\ sent'[i] = sent[i] /\ got'[i] = got[i]
    /\ SameQueue(i)

SameReader(r) ==
    /\ reader'[r] = reader[r] /\ received_count'[r] = received_count[r]
    /\ cancelled'[r] = cancelled[r] /\ left'[r] = left[r]

\* A task that is not concerned stays tracked.
LEMMA TrackedFrame ==
    ASSUME IInv, NEW i \in Tasks, SameTask(i), Tracked(i)
    PROVE  Tracked(i)'
<1>1. sent[i] \in Nat /\ got[i] \in Nat BY DEF IInv, TypeOK
<1>2. (task[i] = "over") \in BOOLEAN OBVIOUS
<1>3. /\ Numbered(queue_results', i, got[i], sent[i])
      /\ Ends(queue_results', i, task[i] = "over", sent[i])
  BY <1>1, <1>2 DEF Tracked, SameTask, SameQueue
<1>4. /\ i \in waiting_task_ids' /\ i \notin cancels' /\ task'[i] # "none"
      /\ got'[i] <= sent'[i]
  BY DEF Tracked, SameTask
<1>5. got'[i] = got[i] /\ sent'[i] = sent[i] /\ task'[i] = task[i] BY DEF SameTask
<1>6. QED BY <1>3, <1>4, <1>5, Zenon DEF Tracked

\* A reader that is not concerned keeps its part of the invariant.
LEMMA Frame ==
    ASSUME IInv, NEW r \in Readers, SameReader(r), \A i \in id_tasks[r] : SameTask(i)
    PROVE  ReaderInv(r)' /\ CountInv(r)'
<1> USE ReadersAssumption
<1>1. id_tasks[r] \subseteq Tasks OBVIOUS
<1>2. \A i \in id_tasks[r] : sent[i] \in Nat /\ got[i] \in Nat BY <1>1 DEF IInv, TypeOK
<1>3. \A i \in id_tasks[r] : Untouched(i) => Untouched(i)'
  BY DEF Untouched, SameTask, SameQueue
<1>4. \A i \in id_tasks[r] : Tracked(i) => Tracked(i)' BY <1>1, TrackedFrame
<1>5. Finished(r)' = Finished(r) BY DEF Finished, SameTask
<1>6. CountInv(r)'
  <2>1. CountInv(r) BY DEF IInv
  <2>2. QED BY <1>5, <2>1 DEF CountInv, Reading, SameReader
<1>7. \A i \in id_tasks[r] : At(queue_results, i) = {} => At(queue_results', i) = {}
  BY DEF SameTask, SameQueue
<1>8. ReaderInv(r)'
  <2>1. ReaderInv(r) BY DEF IInv
  <2>2. \A i \in id_tasks[r] : i \in waiting_task_ids' <=> i \in waiting_task_ids
    BY DEF SameTask
  <2>3. id_tasks[r] \cap waiting_task_ids' = id_tasks[r] \cap waiting_task_ids BY <2>2
  <2>4. id_tasks[r] \subseteq waiting_task_ids => id_tasks[r] \subseteq waiting_task_ids'
    BY <2>2
  <2>5. QED BY <1>3, <1>4, <1>5, <1>7, <2>1, <2>3, <2>4 DEF ReaderInv, Reading, SameReader
<1>9. QED BY <1>6, <1>8

\* The queue is unchanged, or the results of other tasks are taken out.
LEMMA SameQueueKept ==
    ASSUME IInv, NEW i \in Tasks,
           \/ queue_results' = queue_results
           \/ \E K \in SUBSET (DOMAIN queue_results) :
                 At(queue_results, i) \subseteq K /\ queue_results' \in Kept(queue_results, K)
    PROVE  SameQueue(i)
<1>1. CASE queue_results' = queue_results BY <1>1 DEF SameQueue
<1>2. CASE \E K \in SUBSET (DOMAIN queue_results) :
              At(queue_results, i) \subseteq K /\ queue_results' \in Kept(queue_results, K)
  <2>1. PICK K \in SUBSET (DOMAIN queue_results) :
           At(queue_results, i) \subseteq K /\ queue_results' \in Kept(queue_results, K)
    BY <1>2
  <2>2. queue_results \in Seq(Result) BY DEF IInv, TypeOK
  <2> DEFINE q == queue_results
             p == queue_results'
  <2>3. q \in Seq(Result) /\ K \in SUBSET (DOMAIN q) /\ p \in Kept(q, K) /\ At(q, i) \subseteq K
    BY <2>1, <2>2
  <2>4. SameQueue(i) <=>
          /\ At(q, i) = {} => At(p, i) = {}
          /\ \A g, s \in Nat, over \in BOOLEAN :
                /\ Numbered(q, i, g, s) => Numbered(p, i, g, s)
                /\ Ends(q, i, over, s) => Ends(p, i, over, s)
    BY DEF SameQueue
  <2> HIDE DEF q, p
  <2>5. ASSUME NEW g \in Nat, NEW s \in Nat, NEW over \in BOOLEAN
        PROVE  /\ Numbered(q, i, g, s) => Numbered(p, i, g, s)
               /\ Ends(q, i, over, s) => Ends(p, i, over, s)
               /\ At(q, i) = {} => At(p, i) = {}
    BY <2>3, KeptOther
  <2>6. 0 \in Nat /\ TRUE \in BOOLEAN OBVIOUS
  <2>7. At(q, i) = {} => At(p, i) = {} BY <2>5, <2>6
  <2>8. QED BY <2>4, <2>5, <2>7, Zenon
<1>3. QED BY <1>1, <1>2

\* The tasks of another reader are other tasks.
LEMMA Disjoint ==
    ASSUME NEW r \in Readers, NEW u \in Readers, u # r, NEW i \in id_tasks[u]
    PROVE  i \in Tasks /\ i \notin id_tasks[r]
BY ReadersAssumption

\* A step that concerns one reader only.
LEMMA OneReader ==
    ASSUME IInv, NEW r \in Readers, ReaderInv(r)', CountInv(r)',
           \A u \in Readers \ {r} : SameReader(u) /\ \A i \in id_tasks[u] : SameTask(i)
    PROVE  \A u \in Readers : ReaderInv(u)' /\ CountInv(u)'
<1>1. ASSUME NEW u \in Readers, u # r PROVE ReaderInv(u)' /\ CountInv(u)'
  BY <1>1, Frame
<1>2. QED BY <1>1

----------------------------------------------------------------------------
(* The initial state and the types. *)

LEMMA InitInv == Init => IInv
<1> SUFFICES ASSUME Init PROVE IInv OBVIOUS
<1> USE ReadersAssumption
<1>1. TypeOK BY DEF Init, TypeOK, ReaderStates
<1>2. \A i \in Tasks : Untouched(i) BY DEF Init, Untouched, At
<1>3. \A r \in Readers : ReaderInv(r) /\ CountInv(r)
  <2>1. SUFFICES ASSUME NEW r \in Readers PROVE ReaderInv(r) /\ CountInv(r) OBVIOUS
  <2>2. reader[r] = "new" /\ received_count[r] = 0 /\ ~cancelled[r] /\ waiting_task_ids = {}
    BY DEF Init
  <2>3. \A i \in id_tasks[r] : Untouched(i) BY <1>2
  <2>4. QED BY <2>2, <2>3 DEF ReaderInv, CountInv, Reading
<1>4. WaitInv BY DEF Init, WaitInv
<1>5. QED BY <1>1, <1>3, <1>4 DEF IInv

\* The first result for a reader is one of its results.
LEMMA FirstMineLemma ==
    ASSUME IInv, NEW r \in Readers, Mine(r) # {}
    PROVE  /\ FirstMine(r) \in DOMAIN queue_results
           /\ queue_results[FirstMine(r)] \in Result
           /\ queue_results[FirstMine(r)].id \in id_tasks[r]
           /\ \A j \in Mine(r) : FirstMine(r) <= j
<1>1. queue_results \in Seq(Result) BY DEF IInv, TypeOK
<1>2. Mine(r) \subseteq Nat BY <1>1 DEF Mine
<1>3. \E k \in Mine(r) : \A j \in Mine(r) : k <= j BY <1>2, LeastNat
<1>4. FirstMine(r) \in Mine(r) /\ \A j \in Mine(r) : FirstMine(r) <= j
  BY <1>3 DEF FirstMine
<1>5. QED BY <1>1, <1>4 DEF Mine

\* What recv_with_timeout takes out of the queue.
LEMMA TakeQueue ==
    ASSUME IInv, NEW r \in Readers, Mine(r) # {}, Take(r, FirstMine(r))
    PROVE  /\ queue_results' \in Seq(Result)
           /\ queue_results' \in
                Kept(queue_results, (DOMAIN queue_results) \ {FirstMine(r)})
<1>1. queue_results \in Seq(Result) BY DEF IInv, TypeOK
<1>2. FirstMine(r) \in DOMAIN queue_results BY FirstMineLemma
<1>3. queue_results' = RemoveAt(queue_results, FirstMine(r)) BY DEF Take
<1>4. FirstMine(r) \in 1..Len(queue_results) BY <1>1, <1>2
<1>5. queue_results' \in Seq(Result) BY <1>1, <1>3, <1>4, RemoveAtLemma
<1>6. QED BY <1>1, <1>2, <1>3, <1>5, RemoveAtKept

\* What the removal of an id leaves of the queue.
LEMMA RemoveQueue ==
    ASSUME IInv, NEW i \in Tasks,
           queue_results' \in Kept(queue_results, DOMAIN queue_results \ QueuedFor(i))
    PROVE  queue_results' \in Seq(Result)
<1>1. queue_results \in Seq(Result) BY DEF IInv, TypeOK
<1> DEFINE K == DOMAIN queue_results \ QueuedFor(i)
<1>2. K \in SUBSET (DOMAIN queue_results) /\ queue_results' \in Kept(queue_results, K) OBVIOUS
<1> HIDE DEF K
<1>3. QED BY <1>1, <1>2, KeptLemma

\* What send leaves of the queue and of the blocked readers.
LEMMA SendQueue ==
    ASSUME IInv, NEW res \in Result, send(res)
    PROVE  queue_results' \in Seq(Result) /\ waiters' \subseteq Readers
<1>1. queue_results \in Seq(Result) /\ waiters \subseteq Readers BY DEF IInv, TypeOK
<1>2. CASE res.id \in waiting_task_ids
  <2>1. queue_results' = Append(queue_results, res) /\ waiters' = {} BY <1>2 DEF send
  <2>2. Append(queue_results, res) \in Seq(Result) BY <1>1
  <2>3. QED BY <2>1, <2>2
<1>3. CASE res.id \notin waiting_task_ids BY <1>1, <1>3 DEF send
<1>4. QED BY <1>2, <1>3

\* The types are kept.
LEMMA TypeStep == IInv /\ [Next]_vars => TypeOK'
<1> SUFFICES ASSUME IInv, [Next]_vars PROVE TypeOK' OBVIOUS
<1> USE ReadersAssumption, BoundsAssumption DEF main_vars, GoTo, ReaderStates
<1>0. TypeOK BY DEF IInv
<1>1. ASSUME NEW r \in Readers, AddWaiting(r) PROVE TypeOK'
  BY <1>0, <1>1 DEF TypeOK, AddWaiting
<1>2. ASSUME NEW r \in Readers, PostTasks(r) PROVE TypeOK'
  BY <1>0, <1>2 DEF TypeOK, PostTasks
<1>3. ASSUME NEW r \in Readers, Recv(r) PROVE TypeOK'
  <2>1. CASE Mine(r) # {}
    <3> DEFINE k == FirstMine(r)
               count == received_count[r] + (IF queue_results[k].kind = "final" THEN 1 ELSE 0)
               pc == IF queue_results[k].kind = "error" \/ count = Cardinality(id_tasks[r])
                     THEN "stop" ELSE More(r)
    <3>1. Take(r, k) BY <1>3, <2>1 DEF Recv
    <3>2. queue_results' \in Seq(Result) BY <2>1, <3>1, TakeQueue
    <3>3. queue_results[k].id \in Tasks /\ queue_results[k].n \in Nat
      BY <2>1, FirstMineLemma DEF Result
    <3>4. count \in Nat BY <1>0 DEF TypeOK
    <3>5. pc \in ReaderStates BY DEF More
    <3>6. /\ got' = [got EXCEPT ![queue_results[k].id] = queue_results[k].n]
          /\ received_count' = [received_count EXCEPT ![r] = count]
          /\ reader' = [reader EXCEPT ![r] = pc]
          /\ UNCHANGED <<waiting_task_ids, waiters, cancelled, left, connected, task, cancels, sent>>
      BY <3>1 DEF Take
    <3> HIDE DEF k, count, pc
    <3>7. QED BY <1>0, <3>2, <3>3, <3>4, <3>5, <3>6 DEF TypeOK
  <2>2. CASE Mine(r) = {} BY <1>0, <1>3, <2>2 DEF TypeOK, Recv
  <2>3. QED BY <2>1, <2>2
<1>4. ASSUME NEW r \in Readers, Wake(r) PROVE TypeOK'
  BY <1>0, <1>4 DEF TypeOK, Wake
<1>5. ASSUME NEW r \in Readers, Timeout(r) PROVE TypeOK'
  BY <1>0, <1>5 DEF TypeOK, Timeout
<1>6. ASSUME NEW r \in Readers, NextChunk(r) PROVE TypeOK'
  BY <1>0, <1>6 DEF TypeOK, NextChunk
<1>7. ASSUME NEW r \in Readers, Stop(r) PROVE TypeOK'
  BY <1>0, <1>7 DEF TypeOK, Stop
<1>8. ASSUME NEW r \in Readers, RemoveWaiting(r) PROVE TypeOK'
  <2>1. PICK i \in left[r] :
          /\ left' = [left EXCEPT ![r] = @ \ {i}]
          /\ waiting_task_ids' = waiting_task_ids \ {i}
          /\ queue_results' \in Kept(queue_results, DOMAIN queue_results \ QueuedFor(i))
          /\ GoTo(r, IF left[r] = {i} THEN "cancelling" ELSE "removing")
    BY <1>8 DEF RemoveWaiting
  <2>2. i \in Tasks BY <1>0 DEF TypeOK
  <2>3. queue_results' \in Seq(Result) BY <2>1, <2>2, RemoveQueue
  <2>4. UNCHANGED <<waiters, received_count, cancelled, connected, task, cancels, sent, got>>
    BY <1>8 DEF RemoveWaiting
  <2>5. QED BY <1>0, <2>1, <2>3, <2>4 DEF TypeOK
<1>9. ASSUME NEW r \in Readers, PostCancels(r) PROVE TypeOK'
  <2>1. task' \in [Tasks -> {"none", "queued", "running", "over"}]
    BY <1>0, <1>9 DEF TypeOK, PostCancels
  <2>2. QED BY <1>0, <1>9, <2>1 DEF TypeOK, PostCancels
<1>10. ASSUME NEW r \in Readers, Disconnect(r) PROVE TypeOK'
  BY <1>0, <1>10 DEF TypeOK, Disconnect
<1>11. ASSUME NEW r \in Readers, SpuriousWake(r) PROVE TypeOK'
  BY <1>0, <1>11 DEF TypeOK, SpuriousWake
<1>12. ASSUME NEW i \in Tasks, Start(i) PROVE TypeOK'
  BY <1>0, <1>12 DEF TypeOK, Start
<1>13. ASSUME NEW i \in Tasks, SendPartial(i) PROVE TypeOK'
  <2>1. sent' \in [Tasks -> Nat] /\ sent'[i] \in Nat BY <1>0, <1>13 DEF TypeOK, SendPartial
  <2>2. [id |-> i, n |-> sent'[i], kind |-> "partial"] \in Result BY <2>1 DEF Result, Kinds
  <2>3. queue_results' \in Seq(Result) /\ waiters' \subseteq Readers
    <3>1. send([id |-> i, n |-> sent'[i], kind |-> "partial"]) BY <1>13 DEF SendPartial
    <3>2. QED BY <2>2, <3>1, SendQueue
  <2>4. QED BY <1>0, <1>13, <2>1, <2>3 DEF TypeOK, SendPartial
<1>14. ASSUME NEW i \in Tasks, SendLast(i) PROVE TypeOK'
  <2>1. sent' \in [Tasks -> Nat] /\ sent'[i] \in Nat BY <1>0, <1>14 DEF TypeOK, SendLast
  <2>2. PICK kind \in {"final", "error"} : send([id |-> i, n |-> sent'[i], kind |-> kind])
    BY <1>14 DEF SendLast
  <2>3. [id |-> i, n |-> sent'[i], kind |-> kind] \in Result BY <2>1 DEF Result, Kinds
  <2>4. queue_results' \in Seq(Result) /\ waiters' \subseteq Readers
    BY <2>2, <2>3, SendQueue
  <2>5. QED BY <1>0, <1>14, <2>1, <2>4 DEF TypeOK, SendLast
<1>15. ASSUME NEW i \in Tasks, Cancel(i) PROVE TypeOK'
  BY <1>0, <1>15 DEF TypeOK, Cancel
<1>16. CASE UNCHANGED vars BY <1>0, <1>16 DEF TypeOK, vars
<1>17. QED
  BY <1>1, <1>2, <1>3, <1>4, <1>5, <1>6, <1>7, <1>8, <1>9, <1>10, <1>11, <1>12, <1>13,
     <1>14, <1>15, <1>16 DEF Next, ReaderStep, MainStep

----------------------------------------------------------------------------
(* One lemma per action of a reader. *)

\* Readers that stay blocked keep waiting for what is not there.
LEMMA WaitFrame ==
    ASSUME IInv, waiters' \subseteq waiters,
           \A u \in waiters' : reader'[u] = reader[u] /\ \A i \in id_tasks[u] : SameQueue(i)
    PROVE  WaitInv'
BY DEF IInv, WaitInv, SameQueue

\* A step that changes neither the tasks nor the queue.
LEMMA SameAll ==
    ASSUME UNCHANGED <<waiting_task_ids, queue_results, cancels, task, sent, got>>
    PROVE  \A i \in Tasks : SameTask(i)
BY DEF SameTask, SameQueue

LEMMA AddWaitingStep ==
    ASSUME IInv, NEW r \in Readers, AddWaiting(r)
    PROVE  (\A u \in Readers : ReaderInv(u)' /\ CountInv(u)') /\ WaitInv'
<1> USE ReadersAssumption DEF main_vars, GoTo
<1>0. TypeOK /\ ReaderInv(r) BY DEF IInv
<1>1. reader[r] = "new" /\ reader'[r] = "added" BY <1>0 DEF AddWaiting, TypeOK
<1>2. \A u \in Readers \ {r} : SameReader(u) BY <1>0 DEF AddWaiting, TypeOK, SameReader
<1>3. \A u \in Readers \ {r} : \A i \in id_tasks[u] : SameTask(i)
  BY Disjoint DEF AddWaiting, SameTask, SameQueue
<1>4. ReaderInv(r)'
  <2>1. \A i \in id_tasks[r] : Untouched(i)' BY <1>0, <1>1 DEF ReaderInv, Untouched, AddWaiting
  <2>2. id_tasks[r] \subseteq waiting_task_ids' BY DEF AddWaiting
  <2>3. received_count'[r] = 0 /\ ~cancelled'[r] BY <1>0, <1>1 DEF ReaderInv, AddWaiting
  <2>4. QED BY <1>1, <2>1, <2>2, <2>3 DEF ReaderInv, Reading
<1>5. CountInv(r)' BY <1>1 DEF CountInv, Reading
<1>6. r \notin waiters BY <1>1 DEF IInv, WaitInv
<1>7. WaitInv'
  <2>1. waiters' = waiters /\ waiters \subseteq Readers \ {r} BY <1>0, <1>6 DEF AddWaiting, TypeOK
  <2>2. \A i : SameQueue(i) BY DEF AddWaiting, SameQueue
  <2>3. QED BY <1>2, <2>1, <2>2, WaitFrame DEF SameReader
<1>8. QED BY <1>2, <1>3, <1>4, <1>5, <1>7, OneReader

LEMMA PostTasksStep ==
    ASSUME IInv, NEW r \in Readers, PostTasks(r)
    PROVE  (\A u \in Readers : ReaderInv(u)' /\ CountInv(u)') /\ WaitInv'
<1> USE ReadersAssumption DEF main_vars, GoTo
<1>0. TypeOK /\ ReaderInv(r) BY DEF IInv
<1>1. reader[r] = "added" /\ reader'[r] = "recv" BY <1>0 DEF PostTasks, TypeOK
<1>2. \A u \in Readers \ {r} : SameReader(u) BY <1>0 DEF PostTasks, TypeOK, SameReader
<1>3. \A u \in Readers \ {r} : \A i \in id_tasks[u] : SameTask(i)
  <2>1. SUFFICES ASSUME NEW u \in Readers \ {r}, NEW i \in id_tasks[u] PROVE SameTask(i) OBVIOUS
  <2>2. i \in Tasks /\ i \notin id_tasks[r] BY Disjoint
  <2>3. task'[i] = task[i] BY <2>2 DEF PostTasks
  <2>4. QED BY <2>3 DEF PostTasks, SameTask, SameQueue
<1>4. \A i \in id_tasks[r] : Untouched(i) /\ i \in waiting_task_ids /\ task'[i] = "queued"
  BY <1>0, <1>1 DEF ReaderInv, PostTasks
<1>5. \A i \in id_tasks[r] : Tracked(i)'
  <2>1. SUFFICES ASSUME NEW i \in id_tasks[r] PROVE Tracked(i)' OBVIOUS
  <2>2. /\ i \in waiting_task_ids' /\ i \notin cancels' /\ task'[i] = "queued"
        /\ got'[i] = 0 /\ sent'[i] = 0 /\ At(queue_results', i) = {}
    BY <1>4 DEF Untouched, PostTasks
  <2>3. Numbered(queue_results', i, got'[i], sent'[i]) BY <2>2 DEF Numbered
  <2>4. Ends(queue_results', i, task'[i] = "over", sent'[i]) BY <2>2 DEF Ends
  <2>5. task'[i] # "none" /\ got'[i] <= sent'[i] BY <2>2
  <2>6. QED BY <2>2, <2>3, <2>4, <2>5, Zenon DEF Tracked
<1>6. ReaderInv(r)'
  <2>1. ~cancelled'[r] BY <1>0, <1>1 DEF ReaderInv, PostTasks
  <2>2. QED BY <1>1, <1>5, <2>1 DEF ReaderInv, Reading
<1>7. CountInv(r)'
  <2>1. Finished(r)' = {} BY <1>4 DEF Finished
  <2>2. received_count'[r] = 0 BY <1>0, <1>1 DEF ReaderInv, PostTasks
  <2>3. Cardinality({}) = 0 BY FS_EmptySet
  <2>4. Cardinality(id_tasks[r]) \in Nat /\ Cardinality(id_tasks[r]) # 0
    BY FS_EmptySet, FS_CardinalityType
  <2>5. 0 < Cardinality(id_tasks[r]) BY <2>4
  <2>6. QED BY <1>1, <2>1, <2>2, <2>3, <2>5 DEF CountInv, Reading
<1>8. r \notin waiters BY <1>1 DEF IInv, WaitInv
<1>9. WaitInv'
  <2>1. waiters' = waiters /\ waiters \subseteq Readers \ {r} BY <1>0, <1>8 DEF PostTasks, TypeOK
  <2>2. \A i : SameQueue(i) BY DEF PostTasks, SameQueue
  <2>3. QED BY <1>2, <2>1, <2>2, WaitFrame DEF SameReader
<1>10. QED BY <1>2, <1>3, <1>6, <1>7, <1>9, OneReader

\* Wake, NextChunk, Timeout and the wait of Recv move the reader and nothing
\* else, except that it leaves or joins the blocked readers.
LEMMA MoveStep ==
    ASSUME IInv, NEW r \in Readers, Reading(r),
           NEW pc \in {"recv", "waiting", "chunk", "stop"}, GoTo(r, pc),
           UNCHANGED <<waiting_task_ids, queue_results, received_count, cancelled, left,
                       cancels, task, sent, got>>
    PROVE  \A u \in Readers : ReaderInv(u)' /\ CountInv(u)'
<1> USE ReadersAssumption DEF GoTo
<1>0. TypeOK /\ ReaderInv(r) /\ CountInv(r) BY DEF IInv
<1>1. reader'[r] = pc BY <1>0 DEF TypeOK
<1>2. \A u \in Readers \ {r} : SameReader(u) BY <1>0 DEF TypeOK, SameReader
<1>3. \A i \in Tasks : SameTask(i) BY SameAll
<1>4. \A i \in id_tasks[r] : Tracked(i) BY <1>0 DEF ReaderInv
<1>5. \A i \in id_tasks[r] : Tracked(i)' BY <1>4 DEF Tracked
<1>6. ReaderInv(r)'
  <2>1. ~cancelled'[r] BY <1>0 DEF ReaderInv, Reading
  <2>2. QED BY <1>1, <1>5, <2>1 DEF ReaderInv, Reading
<1>7. CountInv(r)'
  <2>1. Finished(r)' = Finished(r) BY DEF Finished
  <2>2. QED BY <1>0, <1>1, <2>1 DEF CountInv, Reading
<1>8. \A u \in Readers : id_tasks[u] \subseteq Tasks OBVIOUS
<1>9. QED BY <1>2, <1>3, <1>6, <1>7, <1>8, OneReader

LEMMA WakeStep ==
    ASSUME IInv, NEW r \in Readers, Wake(r) \/ NextChunk(r) \/ Timeout(r)
    PROVE  (\A u \in Readers : ReaderInv(u)' /\ CountInv(u)') /\ WaitInv'
<1> USE DEF main_vars
<1>0. TypeOK BY DEF IInv
<1> DEFINE pc == IF connected[r] THEN "recv" ELSE "stop"
<1>1. pc \in {"recv", "waiting", "chunk", "stop"} OBVIOUS
<1>2. GoTo(r, "recv") \/ GoTo(r, pc) BY DEF Wake, NextChunk, Timeout
<1>3. Reading(r) BY DEF Wake, NextChunk, Timeout, Reading
<1>4. UNCHANGED <<waiting_task_ids, queue_results, received_count, cancelled, left,
                  cancels, task, sent, got>>
  BY DEF Wake, NextChunk, Timeout
<1>5. r \notin waiters' /\ waiters' \subseteq waiters
  BY DEF IInv, WaitInv, Wake, NextChunk, Timeout
<1>6. WaitInv'
  <2>1. \A u \in waiters' : reader'[u] = reader[u] BY <1>0, <1>2, <1>5 DEF TypeOK, GoTo
  <2>2. \A i : SameQueue(i) BY <1>4 DEF SameQueue
  <2>3. QED BY <1>5, <2>1, <2>2, WaitFrame
<1> HIDE DEF pc
<1>7. \A u \in Readers : ReaderInv(u)' /\ CountInv(u)'
  <2>1. CASE GoTo(r, "recv") BY <1>3, <1>4, <2>1, MoveStep
  <2>2. CASE GoTo(r, pc) BY <1>1, <1>3, <1>4, <2>2, MoveStep
  <2>3. QED BY <1>2, <2>1, <2>2
<1>8. QED BY <1>6, <1>7

\* recv_with_timeout finds nothing.
LEMMA BlockStep ==
    ASSUME IInv, NEW r \in Readers, Recv(r), Mine(r) = {}
    PROVE  (\A u \in Readers : ReaderInv(u)' /\ CountInv(u)') /\ WaitInv'
<1> USE DEF main_vars
<1>0. TypeOK BY DEF IInv
<1>1. GoTo(r, "waiting") /\ Reading(r) /\ waiters' = waiters \cup {r} BY DEF Recv, Reading
<1>2. UNCHANGED <<waiting_task_ids, queue_results, received_count, cancelled, left,
                  cancels, task, sent, got>>
  BY DEF Recv
<1>3. \A u \in Readers : ReaderInv(u)' /\ CountInv(u)' BY <1>1, <1>2, MoveStep
<1>4. \A i \in id_tasks[r] : At(queue_results, i) = {} BY DEF Mine, At
<1>5. WaitInv' BY <1>0, <1>1, <1>2, <1>4 DEF IInv, WaitInv, TypeOK, GoTo
<1>6. QED BY <1>3, <1>5

\* recv_with_timeout takes the first result, and next counts it.
LEMMA TakeStep ==
    ASSUME IInv, NEW r \in Readers, Recv(r), Mine(r) # {}
    PROVE  (\A u \in Readers : ReaderInv(u)' /\ CountInv(u)') /\ WaitInv'
<1> USE ReadersAssumption DEF main_vars
<1>0. TypeOK /\ ReaderInv(r) /\ CountInv(r) BY DEF IInv
<1> DEFINE k == FirstMine(r)
           q == queue_results
           p == queue_results'
           res == queue_results[k]
           count == received_count[r] + (IF res.kind = "final" THEN 1 ELSE 0)
           pc == IF res.kind = "error" \/ count = Cardinality(id_tasks[r])
                 THEN "stop" ELSE More(r)
           K == (DOMAIN queue_results) \ {k}
<1>1. Take(r, k) /\ reader[r] = "recv" BY DEF Recv
<1> PICK i \in id_tasks[r] : i = res.id BY FirstMineLemma
<1>2. /\ got' = [got EXCEPT ![i] = res.n]
      /\ received_count' = [received_count EXCEPT ![r] = count]
      /\ reader' = [reader EXCEPT ![r] = pc]
      /\ UNCHANGED <<waiting_task_ids, waiters, cancelled, left, task, cancels, sent>>
  BY <1>1 DEF Take, GoTo
<1>3. /\ k \in DOMAIN q /\ res \in Result /\ i \in id_tasks[r] /\ i \in Tasks
      /\ \A j \in Mine(r) : k <= j
  BY FirstMineLemma
<1>4. q \in Seq(Result) /\ p \in Seq(Result) /\ p \in Kept(q, K) BY <1>0, <1>1, TakeQueue DEF TypeOK
<1>5. Tracked(i) /\ ~cancelled[r] BY <1>0, <1>1, <1>3 DEF ReaderInv, Reading
<1>6. got[i] \in Nat /\ sent[i] \in Nat /\ (task[i] = "over") \in BOOLEAN
  BY <1>0, <1>3 DEF TypeOK
<1>7. q[k].id = i /\ q[k] = res /\ \A j \in At(q, i) : k <= j BY <1>3 DEF At, Mine
<1>8. pc \in {"stop", "recv", "chunk"} BY DEF More
<1>9. count \in Nat /\ (res.kind = "final" => count = received_count[r] + 1)
      /\ (res.kind # "final" => count = received_count[r])
  BY <1>0 DEF TypeOK
<1>10. \A j \in Tasks : j # i => At(q, j) \subseteq K BY <1>7 DEF At
<1>11. K \in SUBSET (DOMAIN q) /\ K = (DOMAIN q) \ {k} OBVIOUS
<1>12. \A j \in Tasks : j # i => SameTask(j)
  <2>1. SUFFICES ASSUME NEW j \in Tasks, j # i PROVE SameTask(j) OBVIOUS
  <2>2. At(queue_results, j) \subseteq K /\ queue_results' \in Kept(queue_results, K)
    BY <1>4, <1>10, <2>1
  <2>3. SameQueue(j)
    <3> HIDE DEF K
    <3>1. QED BY <1>11, <2>2, SameQueueKept
  <2>4. got'[j] = got[j] BY <1>0, <1>2, <2>1 DEF TypeOK
  <2>5. QED BY <1>2, <2>3, <2>4 DEF SameTask
<1>13. received_count'[r] = count /\ reader'[r] = pc /\ got'[i] = res.n
  BY <1>0, <1>2, <1>3 DEF TypeOK
<1>14. \A u \in Readers \ {r} : SameReader(u) BY <1>0, <1>2 DEF TypeOK, SameReader
<1>15. ~cancelled'[r] BY <1>2, <1>5
<1>16. /\ res.n = got[i] + 1 /\ got[i] + 1 <= sent[i]
       /\ Numbered(p, i, got[i] + 1, sent[i]) /\ Ends(p, i, task[i] = "over", sent[i])
  <2> DEFINE over == task[i] = "over"
             g == got[i]
             s == sent[i]
  <2>1. Numbered(q, i, g, s) /\ Ends(q, i, over, s) BY <1>5 DEF Tracked
  <2>2. over \in BOOLEAN /\ g \in Nat /\ s \in Nat BY <1>6
  <2>3. i \in Tasks BY <1>3
  <2> HIDE DEF k, q, p, res, K, over, g, s
  <2>4. p \in Kept(q, (DOMAIN q) \ {k}) BY <1>4, <1>11
  <2>5. /\ q[k].n = g + 1 /\ g + 1 <= s
        /\ Numbered(p, i, g + 1, s) /\ Ends(p, i, over, s)
    BY <1>3, <1>4, <1>7, <2>1, <2>2, <2>3, <2>4, KeptFirst
  <2>6. res.n = g + 1 BY <1>7, <2>5
  <2>7. QED BY <2>5, <2>6 DEF over, g, s
<1>17. res.kind # "partial" <=> task[i] = "over" /\ res.n = sent[i]
  <2>1. k \in At(q, i) BY <1>3 DEF At
  <2>2. QED BY <1>5, <2>1 DEF Tracked, Ends
<1>18. Tracked(i)'
  <2>1. i \in waiting_task_ids' /\ i \notin cancels' /\ task'[i] # "none" /\ task'[i] = task[i]
        /\ sent'[i] = sent[i]
    BY <1>2, <1>5 DEF Tracked
  <2>2. got'[i] = got[i] + 1 BY <1>13, <1>16
  <2>3. got'[i] <= sent'[i] BY <1>6, <1>16, <2>1, <2>2
  <2>4. Numbered(p, i, got'[i], sent'[i]) /\ Ends(p, i, task'[i] = "over", sent'[i])
    BY <1>16, <2>1, <2>2, Zenon
  <2>5. QED BY <2>1, <2>3, <2>4, Zenon DEF Tracked
<1>19. \A j \in id_tasks[r] : Tracked(j)'
  <2>1. SUFFICES ASSUME NEW j \in id_tasks[r], j # i PROVE Tracked(j)' BY <1>18
  <2>2. SameTask(j) /\ Tracked(j) BY <1>0, <1>1, <1>12, <2>1 DEF ReaderInv, Reading
  <2>3. QED BY <1>0, <2>1, <2>2, TrackedFrame
<1>20. ReaderInv(r)' BY <1>8, <1>13, <1>15, <1>19 DEF ReaderInv, Reading
<1>21. Finished(r) \subseteq id_tasks[r] /\ i \notin Finished(r) /\ IsFiniteSet(Finished(r))
  <2>1. Finished(r) \subseteq id_tasks[r] BY DEF Finished
  <2>2. i \notin Finished(r) BY <1>6, <1>16 DEF Finished
  <2>3. QED BY <2>1, <2>2, FS_Subset
<1>22. /\ received_count[r] = Cardinality(Finished(r))
       /\ received_count[r] < Cardinality(id_tasks[r])
       /\ Cardinality(id_tasks[r]) \in Nat /\ received_count[r] \in Nat
  BY <1>0, <1>1, FS_CardinalityType DEF CountInv, Reading, TypeOK
<1>23. \A j \in id_tasks[r] : j # i => (j \in Finished(r)' <=> j \in Finished(r))
  BY <1>12 DEF Finished, SameTask
<1>24. Finished(r)' \subseteq id_tasks[r] BY DEF Finished
<1>25. i \in Finished(r)' <=> task[i] = "over" /\ res.n = sent[i]
  BY <1>2, <1>13 DEF Finished
<1>26. ASSUME res.kind = "final" PROVE CountInv(r)'
  <2>1. Finished(r)' = Finished(r) \cup {i} BY <1>17, <1>21, <1>23, <1>24, <1>25, <1>26
  <2>2. Cardinality(Finished(r)') = count
    <3>1. Cardinality(Finished(r) \cup {i}) = Cardinality(Finished(r)) + 1
      BY <1>21, FS_AddElement
    <3>2. QED BY <1>9, <1>22, <1>26, <2>1, <3>1
  <2>3. Cardinality(Finished(r)') <= Cardinality(id_tasks[r])
        /\ (Cardinality(Finished(r)') = Cardinality(id_tasks[r]) => Finished(r)' = id_tasks[r])
    BY <1>24, FS_Subset
  <2>4. QED BY <1>8, <1>9, <1>13, <1>22, <1>26, <2>2, <2>3 DEF CountInv, Reading, More
<1>27. ASSUME res.kind = "partial" PROVE CountInv(r)'
  <2>0. i \notin Finished(r)' BY <1>17, <1>25, <1>27
  <2>1. Finished(r)' = Finished(r) BY <1>21, <1>23, <1>24, <2>0
  <2>2. QED BY <1>8, <1>9, <1>13, <1>22, <1>27, <2>1 DEF CountInv, Reading
<1>28. ASSUME res.kind = "error" PROVE CountInv(r)'
  BY <1>9, <1>13, <1>22, <1>28 DEF CountInv, Reading
<1>29. CountInv(r)' BY <1>3, <1>26, <1>27, <1>28 DEF Result, Kinds
<1>30. \A u \in Readers \ {r} : \A j \in id_tasks[u] : j # i /\ SameTask(j)
  BY <1>12, Disjoint
<1>31. WaitInv'
  <2>1. r \notin waiters BY <1>1 DEF IInv, WaitInv
  <2>2. waiters' = waiters /\ waiters \subseteq Readers \ {r} BY <1>0, <1>2, <2>1 DEF TypeOK
  <2>3. QED BY <1>14, <1>30, <2>2, WaitFrame DEF SameReader, SameTask
<1>32. QED BY <1>14, <1>20, <1>29, <1>30, <1>31, OneReader

\* A queue that holds the results after the g-th up to the g-th holds none.
LEMMA NumberedNone ==
    ASSUME NEW q, NEW i, NEW g \in Nat, Numbered(q, i, g, g)
    PROVE  At(q, i) = {}
BY DEF Numbered

\* stop(): nothing is left to cancel when every task is finished.
LEMMA StopStep ==
    ASSUME IInv, NEW r \in Readers, Stop(r)
    PROVE  (\A u \in Readers : ReaderInv(u)' /\ CountInv(u)') /\ WaitInv'
<1> USE ReadersAssumption DEF main_vars, GoTo
<1>0. TypeOK /\ ReaderInv(r) /\ CountInv(r) BY DEF IInv
<1>1. reader[r] = "stop" BY DEF Stop
<1>2. \A u \in Readers \ {r} : SameReader(u) BY <1>0 DEF Stop, TypeOK, SameReader
<1>3. \A u \in Readers \ {r} : \A i \in id_tasks[u] : SameTask(i)
  BY Disjoint DEF Stop, SameTask, SameQueue
<1>4. id_tasks[r] \cap waiting_task_ids' = {} BY DEF Stop
<1>5. (\A i \in id_tasks[r] : Tracked(i)) /\ ~cancelled[r] BY <1>0, <1>1 DEF ReaderInv
<1>6. ASSUME has_next(r) PROVE ReaderInv(r)' /\ CountInv(r)'
  <2>1. reader'[r] = "removing" /\ cancelled'[r] /\ left'[r] = id_tasks[r]
    BY <1>0, <1>6 DEF Stop, TypeOK
  <2>2. QED BY <1>4, <2>1 DEF ReaderInv, CountInv, Reading
<1>7. ASSUME ~has_next(r) PROVE ReaderInv(r)' /\ CountInv(r)'
  <2>1. reader'[r] = "closed" /\ cancelled' = cancelled BY <1>0, <1>7 DEF Stop, TypeOK
  <2>2. Finished(r) = id_tasks[r] BY <1>0, <1>1, <1>5, <1>7 DEF CountInv, has_next
  <2>3. \A i \in id_tasks[r] : At(queue_results, i) = {}
    <3>1. SUFFICES ASSUME NEW i \in id_tasks[r] PROVE At(queue_results, i) = {} OBVIOUS
    <3>2. got[i] = sent[i] /\ got[i] \in Nat BY <1>0, <2>2 DEF Finished, TypeOK
    <3>3. Numbered(queue_results, i, got[i], got[i]) BY <1>5, <3>2 DEF Tracked
    <3>4. QED BY <3>2, <3>3, NumberedNone
  <2>4. queue_results' = queue_results /\ Finished(r)' = Finished(r) BY DEF Stop, Finished
  <2>5. QED BY <1>4, <2>1, <2>2, <2>3, <2>4 DEF ReaderInv, CountInv, Reading
<1>8. WaitInv'
  <2>1. r \notin waiters BY <1>1 DEF IInv, WaitInv
  <2>2. waiters' = waiters /\ waiters \subseteq Readers \ {r} BY <1>0, <2>1 DEF Stop, TypeOK
  <2>3. \A i : SameQueue(i) BY DEF Stop, SameQueue
  <2>4. QED BY <1>2, <2>2, <2>3, WaitFrame DEF SameReader
<1>9. QED BY <1>2, <1>3, <1>6, <1>7, <1>8, OneReader

LEMMA RemoveWaitingStep ==
    ASSUME IInv, NEW r \in Readers, RemoveWaiting(r)
    PROVE  (\A u \in Readers : ReaderInv(u)' /\ CountInv(u)') /\ WaitInv'
<1> USE ReadersAssumption DEF main_vars, GoTo
<1>0. TypeOK /\ ReaderInv(r) BY DEF IInv
<1>1. reader[r] = "removing" BY DEF RemoveWaiting
<1>2. PICK i \in left[r] :
        /\ left' = [left EXCEPT ![r] = @ \ {i}]
        /\ waiting_task_ids' = waiting_task_ids \ {i}
        /\ queue_results' \in Kept(queue_results, DOMAIN queue_results \ QueuedFor(i))
        /\ GoTo(r, IF left[r] = {i} THEN "cancelling" ELSE "removing")
  BY DEF RemoveWaiting
<1>3. UNCHANGED <<waiters, received_count, cancelled, task, cancels, sent, got>>
  BY DEF RemoveWaiting
<1>4. left[r] \subseteq id_tasks[r] /\ i \in id_tasks[r] /\ i \in Tasks
  BY <1>0, <1>1 DEF ReaderInv
<1> DEFINE K == DOMAIN queue_results \ QueuedFor(i)
<1>5. /\ queue_results \in Seq(Result) /\ queue_results' \in Kept(queue_results, K)
      /\ K = (DOMAIN queue_results) \ At(queue_results, i)
  BY <1>0, <1>2 DEF TypeOK, QueuedFor, At
<1>6. K \in SUBSET (DOMAIN queue_results) OBVIOUS
<1>7. \A j \in Tasks : j # i => At(queue_results, j) \subseteq K BY <1>5 DEF At
<1> HIDE DEF K
<1>8. \A j \in Tasks : j # i => SameTask(j)
  <2>1. SUFFICES ASSUME NEW j \in Tasks, j # i PROVE SameTask(j) OBVIOUS
  <2>2. At(queue_results, j) \subseteq K BY <1>7, <2>1
  <2>3. SameQueue(j) BY <1>5, <1>6, <2>2, SameQueueKept
  <2>4. j \in waiting_task_ids' <=> j \in waiting_task_ids BY <1>2, <2>1
  <2>5. QED BY <1>3, <2>3, <2>4 DEF SameTask
<1>9. At(queue_results', i) = {} BY <1>4, <1>5, KeptNone
<1>10. \A u \in Readers \ {r} : SameReader(u) BY <1>0, <1>2, <1>3 DEF TypeOK, SameReader
<1>11. \A u \in Readers \ {r} : \A j \in id_tasks[u] : SameTask(j) BY <1>4, <1>8, Disjoint
<1>12. reader'[r] = (IF left[r] = {i} THEN "cancelling" ELSE "removing")
       /\ left'[r] = left[r] \ {i} /\ cancelled'[r]
  BY <1>0, <1>1, <1>2, <1>3 DEF TypeOK, ReaderInv
<1>13. id_tasks[r] \cap waiting_task_ids' = {} BY <1>0, <1>1, <1>2 DEF ReaderInv
<1>14. \A j \in id_tasks[r] \ left'[r] : At(queue_results', j) = {}
  <2>1. SUFFICES ASSUME NEW j \in id_tasks[r] \ left'[r], j # i PROVE At(queue_results', j) = {}
    BY <1>9
  <2>2. j \in id_tasks[r] \ left[r] BY <1>12, <2>1
  <2>3. At(queue_results, j) = {} BY <1>0, <1>1, <2>2 DEF ReaderInv
  <2>4. QED BY <1>8, <2>1, <2>3 DEF SameTask, SameQueue
<1>15. ReaderInv(r)' /\ CountInv(r)'
  <2>1. CASE left[r] = {i}
    BY <1>12, <1>13, <1>14, <2>1 DEF ReaderInv, CountInv, Reading
  <2>2. CASE left[r] # {i}
    BY <1>4, <1>12, <1>13, <1>14, <2>2 DEF ReaderInv, CountInv, Reading
  <2>3. QED BY <2>1, <2>2
<1>16. WaitInv'
  <2>1. r \notin waiters BY <1>1 DEF IInv, WaitInv
  <2>2. waiters' = waiters /\ waiters \subseteq Readers \ {r} BY <1>0, <1>3, <2>1 DEF TypeOK
  <2>3. QED BY <1>10, <1>11, <2>2, WaitFrame DEF SameReader, SameTask
<1>17. QED BY <1>10, <1>11, <1>15, <1>16, OneReader

LEMMA PostCancelsStep ==
    ASSUME IInv, NEW r \in Readers, PostCancels(r)
    PROVE  (\A u \in Readers : ReaderInv(u)' /\ CountInv(u)') /\ WaitInv'
<1> USE ReadersAssumption DEF main_vars, GoTo
<1>0. TypeOK /\ ReaderInv(r) BY DEF IInv
<1>1. reader[r] = "cancelling" /\ reader'[r] = "closed" BY <1>0 DEF PostCancels, TypeOK
<1>2. \A u \in Readers \ {r} : SameReader(u) BY <1>0 DEF PostCancels, TypeOK, SameReader
<1>3. \A u \in Readers \ {r} : \A i \in id_tasks[u] : SameTask(i)
  <2>1. SUFFICES ASSUME NEW u \in Readers \ {r}, NEW i \in id_tasks[u] PROVE SameTask(i) OBVIOUS
  <2>2. i \in Tasks /\ i \notin id_tasks[r] BY Disjoint
  <2>3. task'[i] = task[i] /\ (i \in cancels' <=> i \in cancels) BY <2>2 DEF PostCancels
  <2>4. QED BY <2>3 DEF PostCancels, SameTask, SameQueue
<1>4. ReaderInv(r)' /\ CountInv(r)'
  <2>1. /\ cancelled[r] /\ id_tasks[r] \cap waiting_task_ids = {}
        /\ \A i \in id_tasks[r] : At(queue_results, i) = {}
    BY <1>0, <1>1 DEF ReaderInv
  <2>2. UNCHANGED <<cancelled, waiting_task_ids, queue_results>> BY DEF PostCancels
  <2>3. QED BY <1>1, <2>1, <2>2 DEF ReaderInv, CountInv, Reading
<1>5. WaitInv'
  <2>1. r \notin waiters BY <1>1 DEF IInv, WaitInv
  <2>2. waiters' = waiters /\ waiters \subseteq Readers \ {r} BY <1>0, <2>1 DEF PostCancels, TypeOK
  <2>3. \A i : SameQueue(i) BY DEF PostCancels, SameQueue
  <2>4. QED BY <1>2, <2>2, <2>3, WaitFrame DEF SameReader
<1>6. QED BY <1>2, <1>3, <1>4, <1>5, OneReader

----------------------------------------------------------------------------
(* One lemma per action of the main thread. *)

\* A step of the main thread on task i: it is posted and stays tracked while its
\* reader reads; a last result that has been read stays read.
OneTask(i) ==
    /\ UNCHANGED <<reader, received_count, cancelled, left, waiting_task_ids>>
    /\ \A j \in Tasks \ {i} : SameTask(j)
    /\ ~Untouched(i)
    /\ Tracked(i) => /\ Tracked(i)'
                     /\ task'[i] = "over" /\ got'[i] = sent'[i]
                           => task[i] = "over" /\ got[i] = sent[i]
    /\ task[i] = "over" /\ got[i] = sent[i] => task'[i] = "over" /\ got'[i] = sent'[i]
    /\ At(queue_results, i) = {} /\ i \notin waiting_task_ids => At(queue_results', i) = {}

LEMMA OneTaskStep ==
    ASSUME IInv, NEW i \in Tasks, OneTask(i)
    PROVE  \A r \in Readers : ReaderInv(r)' /\ CountInv(r)'
<1> USE ReadersAssumption
<1>1. SUFFICES ASSUME NEW r \in Readers PROVE ReaderInv(r)' /\ CountInv(r)' OBVIOUS
<1>2. SameReader(r) BY DEF OneTask, SameReader
<1>3. CASE i \notin id_tasks[r]
  <2>1. \A j \in id_tasks[r] : SameTask(j) BY <1>3 DEF OneTask
  <2>2. QED BY <1>2, <2>1, Frame
<1>4. CASE i \in id_tasks[r]
  <2>0. ReaderInv(r) /\ CountInv(r) BY DEF IInv
  <2>1. \A j \in id_tasks[r] : j # i => SameTask(j) BY DEF OneTask
  <2>2. reader[r] \notin {"new", "added"} BY <1>4, <2>0 DEF ReaderInv, OneTask
  <2>3. (\A j \in id_tasks[r] : Tracked(j)) => (\A j \in id_tasks[r] : Tracked(j)')
    <3>1. SUFFICES ASSUME NEW j \in id_tasks[r], Tracked(j) PROVE Tracked(j)' OBVIOUS
    <3>2. CASE j = i BY <3>1, <3>2 DEF OneTask
    <3>3. CASE j # i BY <2>1, <3>1, <3>3, TrackedFrame
    <3>4. QED BY <3>2, <3>3
  <2>4. \A j \in id_tasks[r] : j \notin waiting_task_ids /\ At(queue_results, j) = {}
                                  => At(queue_results', j) = {}
    BY <2>1 DEF OneTask, SameTask, SameQueue
  <2>5. \A j \in id_tasks[r] : j # i => (j \in Finished(r)' <=> j \in Finished(r))
    BY <2>1 DEF Finished, SameTask
  <2>6. Tracked(i) => Finished(r)' = Finished(r) BY <2>5 DEF Finished, OneTask
  <2>7. Finished(r) = id_tasks[r] => Finished(r)' = id_tasks[r] BY <2>5 DEF Finished, OneTask
  <2>8. CountInv(r)'
    <3>1. CASE Reading(r) \/ reader[r] = "stop"
      <4>1. Finished(r)' = Finished(r) BY <1>4, <2>0, <2>6, <3>1 DEF ReaderInv
      <4>2. QED BY <1>2, <2>0, <4>1 DEF CountInv, Reading, SameReader
    <3>2. CASE ~(Reading(r) \/ reader[r] = "stop")
      BY <1>2, <3>2 DEF CountInv, Reading, SameReader
    <3>3. QED BY <3>1, <3>2
  <2>9. waiting_task_ids' = waiting_task_ids BY DEF OneTask
  <2>10. ReaderInv(r)'
    <3>1. reader[r] \in {"removing", "cancelling", "closed"} =>
             \A j \in id_tasks[r] : At(queue_results, j) = {} => At(queue_results', j) = {}
      BY <2>0, <2>4 DEF ReaderInv
    <3>2. QED BY <1>2, <2>0, <2>2, <2>3, <2>7, <2>9, <3>1 DEF ReaderInv, Reading, SameReader
  <2>11. QED BY <2>8, <2>10
<1>5. QED BY <1>3, <1>4

LEMMA StartStep ==
    ASSUME IInv, NEW i \in Tasks, Start(i)
    PROVE  (\A u \in Readers : ReaderInv(u)' /\ CountInv(u)') /\ WaitInv'
<1>0. TypeOK BY DEF IInv
<1>1. task[i] = "queued" /\ task'[i] = "running" /\ \A j \in Tasks \ {i} : task'[j] = task[j]
  BY <1>0 DEF Start, TypeOK
<1>2. UNCHANGED <<waiting_task_ids, queue_results, waiters, reader, received_count,
                  cancelled, left, cancels, sent, got>>
  BY DEF Start
<1>3. \A j \in Tasks \ {i} : SameTask(j) BY <1>1, <1>2 DEF SameTask, SameQueue
<1>4. ~Untouched(i) BY <1>1 DEF Untouched
<1>5. Tracked(i) => Tracked(i)'
  <2>1. Tracked(i) => Ends(queue_results, i, FALSE, sent[i]) BY <1>1 DEF Tracked, Ends
  <2>2. Ends(queue_results, i, FALSE, sent[i]) => Ends(queue_results', i, task'[i] = "over", sent'[i])
    BY <1>1, <1>2 DEF Ends
  <2>3. QED BY <1>1, <1>2, <2>1, <2>2 DEF Tracked
<1>6. OneTask(i) BY <1>1, <1>2, <1>3, <1>4, <1>5 DEF OneTask
<1>7. WaitInv' BY <1>2 DEF IInv, WaitInv
<1>8. QED BY <1>6, <1>7, OneTaskStep

LEMMA CancelStep ==
    ASSUME IInv, NEW i \in Tasks, Cancel(i)
    PROVE  (\A u \in Readers : ReaderInv(u)' /\ CountInv(u)') /\ WaitInv'
<1>0. TypeOK BY DEF IInv
<1>1. /\ i \in cancels /\ cancels' = cancels \ {i}
      /\ task[i] = "over" => task'[i] = "over"
      /\ \A j \in Tasks \ {i} : task'[j] = task[j]
  BY <1>0 DEF Cancel, TypeOK
<1>2. UNCHANGED <<waiting_task_ids, queue_results, waiters, reader, received_count,
                  cancelled, left, sent, got>>
  BY DEF Cancel
<1>3. \A j \in Tasks \ {i} : SameTask(j) BY <1>1, <1>2 DEF SameTask, SameQueue
<1>4. ~Untouched(i) /\ ~Tracked(i) BY <1>1 DEF Untouched, Tracked
<1>5. OneTask(i) BY <1>1, <1>2, <1>3, <1>4 DEF OneTask
<1>6. WaitInv' BY <1>2 DEF IInv, WaitInv
<1>7. QED BY <1>5, <1>6, OneTaskStep

\* A result of another task is appended.
LEMMA AppendOther ==
    ASSUME IInv, NEW res \in Result, NEW i \in Tasks, res.id # i,
           Appended(queue_results, res, queue_results')
    PROVE  SameQueue(i)
<1> DEFINE q == queue_results
           p == queue_results'
<1>1. q \in Seq(Result) /\ Appended(q, res, p) BY DEF IInv, TypeOK
<1>2. SameQueue(i) <=>
        /\ At(q, i) = {} => At(p, i) = {}
        /\ \A g, s \in Nat, over \in BOOLEAN :
              /\ Numbered(q, i, g, s) => Numbered(p, i, g, s)
              /\ Ends(q, i, over, s) => Ends(p, i, over, s)
  BY DEF SameQueue
<1> HIDE DEF q, p
<1>3. /\ DOMAIN q = 1..Len(q) /\ DOMAIN p = 1..(Len(q) + 1) /\ Len(q) \in Nat
      /\ p[Len(q) + 1] = res /\ \A k \in 1..Len(q) : p[k] = q[k]
  BY <1>1 DEF Appended
<1>4. At(p, i) = At(q, i) /\ \A k \in At(q, i) : p[k] = q[k] BY <1>3 DEF At
<1>5. \A g, s \in Nat : Numbered(q, i, g, s) => Numbered(p, i, g, s) BY <1>4 DEF Numbered
<1>6. \A s \in Nat, over \in BOOLEAN : Ends(q, i, over, s) => Ends(p, i, over, s)
  BY <1>4 DEF Ends
<1>7. QED BY <1>2, <1>4, <1>5, <1>6, Zenon

\* A result of task i is sent: partial while it runs, final or an error at its end.
LEMMA SendStep ==
    ASSUME IInv, NEW i \in Tasks, task[i] = "running", NEW res \in Result,
           res.id = i, res.n = sent[i] + 1, send(res),
           sent' = [sent EXCEPT ![i] = sent[i] + 1],
           task'[i] = IF res.kind = "partial" THEN "running" ELSE "over",
           \A j \in Tasks \ {i} : task'[j] = task[j],
           UNCHANGED <<waiting_task_ids, reader, received_count, cancelled, left, cancels, got>>
    PROVE  (\A u \in Readers : ReaderInv(u)' /\ CountInv(u)') /\ WaitInv'
<1>0. TypeOK BY DEF IInv
<1>1. /\ sent'[i] = sent[i] + 1 /\ got'[i] = got[i] /\ sent[i] \in Nat /\ got[i] \in Nat
      /\ \A j \in Tasks \ {i} : sent'[j] = sent[j]
  BY <1>0 DEF TypeOK
<1>2. ~Untouched(i) BY DEF Untouched
<1>3. \/ i \in waiting_task_ids /\ queue_results' = Append(queue_results, res) /\ waiters' = {}
      \/ i \notin waiting_task_ids /\ queue_results' = queue_results /\ waiters' = waiters
  BY DEF send
<1>4. \A j \in Tasks \ {i} : SameQueue(j)
  <2>1. SUFFICES ASSUME NEW j \in Tasks \ {i}, queue_results' = Append(queue_results, res)
                 PROVE  SameQueue(j)
    BY <1>3 DEF SameQueue
  <2>2. Appended(queue_results, res, queue_results') /\ res.id # j BY <2>1 DEF Appended
  <2>3. QED BY <2>2, AppendOther
<1>5. \A j \in Tasks \ {i} : SameTask(j) BY <1>1, <1>4 DEF SameTask
<1>6. ASSUME Tracked(i) PROVE Tracked(i)' /\ got'[i] # sent'[i]
  <2> DEFINE over == task'[i] = "over"
             g == got[i]
             s == sent[i]
             q == queue_results
  <2>1. i \in waiting_task_ids /\ i \notin cancels /\ g <= s BY <1>6 DEF Tracked
  <2>2. Appended(q, res, queue_results') BY <1>3, <2>1 DEF Appended
  <2>3. Numbered(q, i, g, s) /\ Ends(q, i, FALSE, s) BY <1>6 DEF Tracked, Ends
  <2>4. q \in Seq(Result) /\ over \in BOOLEAN /\ g \in Nat /\ s \in Nat BY <1>0, <1>1 DEF TypeOK
  <2>5. (res.kind # "partial" <=> over) /\ res.n = s + 1 OBVIOUS
  <2>6. Numbered(queue_results', i, g, s + 1) /\ Ends(queue_results', i, over, s + 1)
    <3> HIDE DEF over, g, s, q
    <3>1. QED BY <2>1, <2>2, <2>3, <2>4, <2>5, AppendOwn
  <2>7. g = got'[i] /\ s + 1 = sent'[i] BY <1>1
  <2>8. got'[i] <= sent'[i] /\ got'[i] # sent'[i] BY <1>1, <2>1
  <2>9. task'[i] # "none" /\ i \in waiting_task_ids' /\ i \notin cancels' BY <2>1
  <2>10. Numbered(queue_results', i, got'[i], sent'[i])
         /\ Ends(queue_results', i, task'[i] = "over", sent'[i])
    BY <2>6, <2>7, Zenon
  <2>11. QED BY <2>8, <2>9, <2>10, Zenon DEF Tracked
<1>7. OneTask(i) BY <1>2, <1>3, <1>5, <1>6 DEF OneTask
<1>8. WaitInv' BY <1>3 DEF IInv, WaitInv
<1>9. QED BY <1>7, <1>8, OneTaskStep

LEMMA SendPartialStep ==
    ASSUME IInv, NEW i \in Tasks, SendPartial(i)
    PROVE  (\A u \in Readers : ReaderInv(u)' /\ CountInv(u)') /\ WaitInv'
<1>0. TypeOK BY DEF IInv
<1> DEFINE res == [id |-> i, n |-> sent[i] + 1, kind |-> "partial"]
<1>1. sent[i] \in Nat /\ sent'[i] = sent[i] + 1 BY <1>0 DEF TypeOK, SendPartial
<1>2. res \in Result /\ res.id = i /\ res.n = sent[i] + 1 /\ res.kind = "partial"
  BY <1>1 DEF Result, Kinds
<1>3. send(res) BY <1>1 DEF SendPartial
<1>4. /\ task[i] = "running" /\ sent' = [sent EXCEPT ![i] = sent[i] + 1] /\ task' = task
      /\ UNCHANGED <<waiting_task_ids, reader, received_count, cancelled, left, cancels, got>>
  BY DEF SendPartial
<1> HIDE DEF res
<1>5. task'[i] = IF res.kind = "partial" THEN "running" ELSE "over" BY <1>2, <1>4
<1>6. QED BY <1>2, <1>3, <1>4, <1>5, SendStep

LEMMA SendLastStep ==
    ASSUME IInv, NEW i \in Tasks, SendLast(i)
    PROVE  (\A u \in Readers : ReaderInv(u)' /\ CountInv(u)') /\ WaitInv'
<1>0. TypeOK BY DEF IInv
<1>1. sent[i] \in Nat /\ sent'[i] = sent[i] + 1 BY <1>0 DEF TypeOK, SendLast
<1>2. PICK kind \in {"final", "error"} : send([id |-> i, n |-> sent'[i], kind |-> kind])
  BY DEF SendLast
<1> DEFINE res == [id |-> i, n |-> sent[i] + 1, kind |-> kind]
<1>3. res \in Result /\ res.id = i /\ res.n = sent[i] + 1 /\ res.kind # "partial"
  BY <1>1 DEF Result, Kinds
<1>4. send(res) BY <1>1, <1>2
<1>5. /\ task[i] = "running" /\ sent' = [sent EXCEPT ![i] = sent[i] + 1]
      /\ UNCHANGED <<waiting_task_ids, reader, received_count, cancelled, left, cancels, got>>
  BY DEF SendLast
<1>6. task'[i] = "over" /\ \A j \in Tasks \ {i} : task'[j] = task[j]
  BY <1>0 DEF SendLast, TypeOK
<1> HIDE DEF res
<1>7. task'[i] = IF res.kind = "partial" THEN "running" ELSE "over" BY <1>3, <1>6
<1>8. QED BY <1>3, <1>4, <1>5, <1>6, <1>7, SendStep

\* A client that goes, and a wakeup without a notification.
LEMMA EnvironmentStep ==
    ASSUME IInv, NEW r \in Readers, Disconnect(r) \/ SpuriousWake(r)
    PROVE  (\A u \in Readers : ReaderInv(u)' /\ CountInv(u)') /\ WaitInv'
<1>1. /\ UNCHANGED <<waiting_task_ids, queue_results, reader, received_count, cancelled,
                     left, cancels, task, sent, got>>
      /\ waiters' \subseteq waiters
  BY DEF Disconnect, SpuriousWake, main_vars
<1>2. \A u \in Readers : SameReader(u) BY <1>1 DEF SameReader
<1>3. \A i \in Tasks : SameTask(i) BY <1>1, SameAll
<1>4. \A u \in Readers : id_tasks[u] \subseteq Tasks BY ReadersAssumption
<1>5. \A u \in Readers : ReaderInv(u)' /\ CountInv(u)' BY <1>2, <1>3, <1>4, Frame
<1>6. WaitInv' BY <1>1 DEF IInv, WaitInv
<1>7. QED BY <1>5, <1>6

----------------------------------------------------------------------------
(* The theorems. *)

LEMMA NextInv == IInv /\ [Next]_vars => IInv'
<1> SUFFICES ASSUME IInv, [Next]_vars PROVE IInv' OBVIOUS
<1> DEFINE Rest == (\A u \in Readers : ReaderInv(u)' /\ CountInv(u)') /\ WaitInv'
<1>1. TypeOK' BY TypeStep
<1>2. ASSUME NEW r \in Readers, ReaderStep(r) \/ Disconnect(r) \/ SpuriousWake(r) PROVE Rest
  <2>1. CASE AddWaiting(r) BY <2>1, AddWaitingStep
  <2>2. CASE PostTasks(r) BY <2>2, PostTasksStep
  <2>3. CASE Recv(r)
    <3>1. CASE Mine(r) # {} BY <2>3, <3>1, TakeStep
    <3>2. CASE Mine(r) = {} BY <2>3, <3>2, BlockStep
    <3>3. QED BY <3>1, <3>2
  <2>4. CASE Wake(r) \/ NextChunk(r) \/ Timeout(r) BY <2>4, WakeStep
  <2>5. CASE Stop(r) BY <2>5, StopStep
  <2>6. CASE RemoveWaiting(r) BY <2>6, RemoveWaitingStep
  <2>7. CASE PostCancels(r) BY <2>7, PostCancelsStep
  <2>8. CASE Disconnect(r) \/ SpuriousWake(r) BY <2>8, EnvironmentStep
  <2>9. QED
    BY <1>2, <2>1, <2>2, <2>3, <2>4, <2>5, <2>6, <2>7, <2>8, Zenon DEF ReaderStep
<1>3. ASSUME NEW i \in Tasks, MainStep(i) PROVE Rest
  <2>1. CASE Start(i) BY <2>1, StartStep
  <2>2. CASE SendPartial(i) BY <2>2, SendPartialStep
  <2>3. CASE SendLast(i) BY <2>3, SendLastStep
  <2>4. CASE Cancel(i) BY <2>4, CancelStep
  <2>5. QED BY <1>3, <2>1, <2>2, <2>3, <2>4, Zenon DEF MainStep
<1>4. ASSUME UNCHANGED vars PROVE Rest
  <2>1. UNCHANGED <<waiting_task_ids, queue_results, waiters, reader, received_count,
                    cancelled, left, cancels, task, sent, got>>
    BY <1>4 DEF vars
  <2>2. \A u \in Readers : SameReader(u) BY <2>1 DEF SameReader
  <2>3. \A i \in Tasks : SameTask(i) BY <2>1, SameAll
  <2>4. \A u \in Readers : id_tasks[u] \subseteq Tasks BY ReadersAssumption
  <2>5. \A u \in Readers : ReaderInv(u)' /\ CountInv(u)' BY <2>2, <2>3, <2>4, Frame
  <2>6. WaitInv' BY <2>1 DEF IInv, WaitInv
  <2>7. QED BY <2>5, <2>6
<1>5. Rest
  <2> HIDE DEF Rest
  <2>1. QED BY <1>2, <1>3, <1>4 DEF Next
<1>6. QED BY <1>1, <1>5 DEF IInv

THEOREM IndInvariant == Spec => []IInv
BY InitInv, NextInv, PTL DEF Spec

\* Every variable of server_response and of its readers keeps its type.
THEOREM TypeCorrect == Spec => []TypeOK
<1>1. IInv => TypeOK BY DEF IInv
<1>2. QED BY <1>1, IndInvariant, PTL

\* Nothing is lost, repeated or reordered between send and the reader, for any
\* number of requests, tasks, slots and partial results, and a request that is
\* not cancelled has read everything when it ends.
THEOREM Delivered == Spec => []InOrderDelivery
<1>1. IInv => InOrderDelivery
  <2> SUFFICES ASSUME IInv, NEW r \in Readers, NEW i \in id_tasks[r]
               PROVE  /\ Reading(r) =>
                           /\ {queue_results[k].n : k \in QueuedFor(i)} = (got[i] + 1)..sent[i]
                           /\ \A j, k \in QueuedFor(i) :
                                 j < k => queue_results[j].n < queue_results[k].n
                      /\ reader[r] = "closed" /\ ~cancelled[r]
                           => task[i] = "over" /\ got[i] = sent[i]
    BY DEF InOrderDelivery, Reading
  <2>1. ReaderInv(r) BY DEF IInv
  <2>2. QueuedFor(i) = At(queue_results, i) BY DEF QueuedFor, At
  <2>3. ASSUME Reading(r) PROVE Numbered(queue_results, i, got[i], sent[i])
    BY <2>1, <2>3 DEF ReaderInv, Tracked
  <2>4. reader[r] = "closed" /\ ~cancelled[r] => task[i] = "over" /\ got[i] = sent[i]
    BY <2>1 DEF ReaderInv, Finished
  <2>5. QED BY <2>2, <2>3, <2>4 DEF Numbered
<1>2. QED BY <1>1, IndInvariant, PTL

\* A reader blocked on condition_results never has a result in the queue, with
\* notifications for other tasks, timeouts and spurious wakeups in between.
THEOREM NoneMissed == Spec => []NoMissedResult
<1>1. IInv => NoMissedResult
  <2> SUFFICES ASSUME IInv, NEW r \in waiters PROVE Mine(r) = {} BY DEF NoMissedResult
  <2>1. \A i \in id_tasks[r] : At(queue_results, i) = {} BY DEF IInv, WaitInv
  <2>2. QED BY <2>1 DEF Mine, At
<1>2. QED BY <1>1, IndInvariant, PTL

\* A closed reader leaves neither ids nor results in server_response.
THEOREM ClosedClean == Spec => []ClosedLeavesNothing
<1>1. IInv => ClosedLeavesNothing
  <2> SUFFICES ASSUME IInv, NEW r \in Readers, reader[r] = "closed"
               PROVE  id_tasks[r] \cap waiting_task_ids = {} /\ Mine(r) = {}
    BY DEF ClosedLeavesNothing
  <2>1. ReaderInv(r) BY DEF IInv
  <2>2. /\ id_tasks[r] \cap waiting_task_ids = {}
        /\ \A i \in id_tasks[r] : At(queue_results, i) = {}
    BY <2>1 DEF ReaderInv
  <2>3. QED BY <2>2 DEF Mine, At
<1>2. QED BY <1>1, IndInvariant, PTL
=============================================================================
