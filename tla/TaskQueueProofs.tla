-------------------------- MODULE TaskQueueProofs --------------------------
(***************************************************************************)
(* Lemmas about the operators of TaskQueue, for deques of tasks of any     *)
(* kind: what they return, which tasks they keep and that they never make  *)
(* two copies of one.                                                      *)
(***************************************************************************)
EXTENDS TaskQueue, WellFoundedInduction, TLAPS

\* post: the result is a deque again and holds the new task and every old one.
LEMMA PushLemma ==
    ASSUME NEW S, NEW q \in Seq(S), NEW task \in S, NEW front \in BOOLEAN
    PROVE  /\ Push(q, task, front) \in Seq(S)
           /\ Push(q, task, front) # <<>>
           /\ Holds(Push(q, task, front), task)
           /\ \A u : Holds(q, u) => Holds(Push(q, task, front), u)
<1> DEFINE r == Push(q, task, front)
           shift == IF front THEN 1 ELSE 0
<1>1. /\ r \in Seq(S) /\ Len(r) = Len(q) + 1
      /\ r[IF front THEN 1 ELSE Len(q) + 1] = task
      /\ \A i \in 1..Len(q) : r[i + shift] = q[i]
  <2>1. CASE front
    <3>1. r = <<task>> \o q BY <2>1 DEF Push
    <3>2. /\ <<task>> \o q \in Seq(S) /\ Len(<<task>> \o q) = Len(q) + 1
          /\ (<<task>> \o q)[1] = task
      OBVIOUS
    <3>3. \A i \in 1..Len(q) : (<<task>> \o q)[i + 1] = q[i]
      OBVIOUS
    <3> HIDE DEF r
    <3>4. QED BY <2>1, <3>1, <3>2, <3>3
  <2>2. CASE ~front
    <3>1. r = Append(q, task) BY <2>2 DEF Push
    <3>2. QED BY <2>2, <3>1
  <2>3. QED BY <2>1, <2>2
<1>2. shift \in {0, 1} OBVIOUS
<1> HIDE DEF r, shift
<1>3. r # <<>> BY <1>1
<1>4. Holds(r, task) BY <1>1 DEF Holds
<1>5. ASSUME NEW u, Holds(q, u) PROVE Holds(r, u)
  <2>1. PICK i \in 1..Len(q) : q[i] = u BY <1>5 DEF Holds
  <2>2. i + shift \in DOMAIN r /\ r[i + shift] = u BY <1>1, <1>2, <2>1
  <2>3. QED BY <2>2 DEF Holds
<1>6. QED BY <1>1, <1>3, <1>4, <1>5 DEF r

\* RemoveAt drops one element and shifts the ones after it.
LEMMA RemoveAtLemma ==
    ASSUME NEW S, NEW q \in Seq(S), NEW k \in 1..Len(q)
    PROVE  /\ RemoveAt(q, k) \in Seq(S)
           /\ Len(RemoveAt(q, k)) = Len(q) - 1
           /\ \A i \in 1..(Len(q) - 1) :
                 RemoveAt(q, k)[i] = IF i < k THEN q[i] ELSE q[i + 1]
<1> DEFINE a == SubSeq(q, 1, k - 1)
           b == SubSeq(q, k + 1, Len(q))
<1>1. a \in Seq(S) /\ Len(a) = k - 1 /\ \A i \in 1..(k - 1) : a[i] = q[i]
  OBVIOUS
<1>2. /\ b \in Seq(S) /\ Len(b) = Len(q) - k
      /\ \A i \in 1..(Len(q) - k) : b[i] = q[k + i]
  OBVIOUS
<1>3. RemoveAt(q, k) = a \o b BY DEF RemoveAt
<1> HIDE DEF a, b
<1>4. a \o b \in Seq(S) /\ Len(a \o b) = Len(q) - 1
  <2>1. a \in Seq(S) /\ b \in Seq(S) BY <1>1, <1>2
  <2>2. a \o b \in Seq(S) /\ Len(a \o b) = Len(a) + Len(b) BY <2>1
  <2>3. Len(a) = k - 1 /\ Len(b) = Len(q) - k /\ Len(q) \in Nat BY <1>1, <1>2
  <2>4. Len(a \o b) = Len(q) - 1 BY <2>2, <2>3
  <2>5. QED BY <2>2, <2>4
<1>5. ASSUME NEW i \in 1..(Len(q) - 1)
      PROVE  (a \o b)[i] = IF i < k THEN q[i] ELSE q[i + 1]
  <2>1. CASE i < k
    <3>1. (a \o b)[i] = a[i] BY <1>1, <1>2, <2>1
    <3>2. QED BY <1>1, <2>1, <3>1
  <2>2. CASE ~(i < k)
    <3>1. (a \o b)[i] = b[i - Len(a)] BY <1>1, <1>2, <2>2
    <3>2. i - Len(a) \in 1..(Len(q) - k) /\ k + (i - Len(a)) = i + 1 BY <1>1, <2>2
    <3>3. QED BY <1>2, <2>2, <3>1, <3>2
  <2>3. QED BY <2>1, <2>2
<1>6. QED BY <1>3, <1>4, <1>5

\* RemoveAt keeps every other task, keeps ids distinct and forgets one id.
LEMMA RemoveAtIds ==
    ASSUME NEW S, NEW q \in Seq(S), NEW k \in 1..Len(q), Distinct(q)
    PROVE  /\ Distinct(RemoveAt(q, k))
           /\ IdsIn(RemoveAt(q, k)) = IdsIn(q) \ {q[k].id}
           /\ \A u : Holds(q, u) /\ u # q[k] => Holds(RemoveAt(q, k), u)
<1> DEFINE r == RemoveAt(q, k)
           up(i) == IF i < k THEN i ELSE i + 1
           down(i) == IF i < k THEN i ELSE i - 1
<1>1. /\ r \in Seq(S) /\ Len(r) = Len(q) - 1 /\ DOMAIN r = 1..(Len(q) - 1)
      /\ \A i \in 1..(Len(q) - 1) : r[i] = q[up(i)]
  <2>1. /\ r \in Seq(S) /\ Len(r) = Len(q) - 1
        /\ \A i \in 1..(Len(q) - 1) : r[i] = IF i < k THEN q[i] ELSE q[i + 1]
    BY RemoveAtLemma
  <2> HIDE DEF r
  <2>2. QED BY <2>1
<1> HIDE DEF r
<1>2. DOMAIN q = 1..Len(q) OBVIOUS
<1>3. \A i \in DOMAIN r : up(i) \in DOMAIN q /\ up(i) # k
  BY <1>1, <1>2
<1>4. \A i \in DOMAIN q : i # k => down(i) \in DOMAIN r /\ up(down(i)) = i
  BY <1>1, <1>2
<1>5. \A i, j \in DOMAIN r : up(i) = up(j) => i = j BY <1>1
<1>6. \A i \in DOMAIN q : i # k => r[down(i)] = q[i] BY <1>1, <1>4
<1>7. \A i \in DOMAIN r : r[i] = q[up(i)] BY <1>1
<1> HIDE DEF up, down
<1>8. Distinct(r) BY <1>3, <1>5, <1>7 DEF Distinct
<1>9. \A u : Holds(q, u) /\ u # q[k] => Holds(r, u) BY <1>4, <1>6 DEF Holds
<1>10. IdsIn(r) = IdsIn(q) \ {q[k].id}
  <2>1. ASSUME NEW x \in IdsIn(r) PROVE x \in IdsIn(q) /\ x # q[k].id
    <3>1. PICK i \in DOMAIN r : x = r[i].id BY <2>1 DEF IdsIn
    <3>2. x = q[up(i)].id /\ up(i) \in DOMAIN q /\ up(i) # k /\ x # 0
      BY <1>3, <1>7, <2>1, <3>1 DEF IdsIn
    <3>3. QED BY <1>2, <3>2 DEF IdsIn, Distinct
  <2>2. ASSUME NEW x \in IdsIn(q), x # q[k].id PROVE x \in IdsIn(r)
    <3>1. PICK i \in DOMAIN q : x = q[i].id /\ x # 0 BY <2>2 DEF IdsIn
    <3>2. i # k BY <2>2, <3>1
    <3>3. down(i) \in DOMAIN r /\ r[down(i)] = q[i] BY <1>4, <1>6, <3>2
    <3>4. QED BY <3>1, <3>3 DEF IdsIn
  <2>3. QED BY <2>1, <2>2
<1>11. QED BY <1>8, <1>9, <1>10 DEF r

\* post adds one id, and keeps ids distinct when that id is new.
LEMMA PushIds ==
    ASSUME NEW S, NEW q \in Seq(S), NEW task \in S, NEW front \in BOOLEAN
    PROVE  /\ IdsIn(Push(q, task, front)) = IdsIn(q) \cup ({task.id} \ {0})
           /\ Distinct(q) /\ task.id \notin IdsIn(q)
                => Distinct(Push(q, task, front))
<1> DEFINE r == Push(q, task, front)
           new == IF front THEN 1 ELSE Len(q) + 1
           up(i) == IF front THEN i + 1 ELSE i
           down(i) == IF front THEN i - 1 ELSE i
<1>1. /\ DOMAIN r = 1..(Len(q) + 1) /\ r[new] = task
      /\ \A i \in 1..Len(q) : r[up(i)] = q[i]
  <2>1. CASE front
    <3>1. r = <<task>> \o q BY <2>1 DEF Push
    <3>2. DOMAIN (<<task>> \o q) = 1..(Len(q) + 1) /\ (<<task>> \o q)[1] = task
      OBVIOUS
    <3>3. \A i \in 1..Len(q) : (<<task>> \o q)[i + 1] = q[i] OBVIOUS
    <3> HIDE DEF r
    <3>4. QED BY <2>1, <3>1, <3>2, <3>3
  <2>2. CASE ~front
    <3>1. r = Append(q, task) BY <2>2 DEF Push
    <3>2. QED BY <2>2, <3>1
  <2>3. QED BY <2>1, <2>2
<1> HIDE DEF r
<1>2. DOMAIN q = 1..Len(q) OBVIOUS
<1>3. new \in DOMAIN r /\ \A i \in DOMAIN q : up(i) \in DOMAIN r BY <1>1, <1>2
<1>4. \A i \in DOMAIN r : i # new => down(i) \in DOMAIN q /\ up(down(i)) = i
  BY <1>1, <1>2
<1>5. \A i, j \in DOMAIN r : i # new /\ j # new /\ down(i) = down(j) => i = j
  BY <1>1
<1>6. \A i \in DOMAIN r : i # new => r[i] = q[down(i)] BY <1>1, <1>2, <1>4
<1> HIDE DEF new, up, down
<1>7. IdsIn(r) = IdsIn(q) \cup ({task.id} \ {0})
  <2>1. ASSUME NEW x \in IdsIn(r) PROVE x \in IdsIn(q) \cup ({task.id} \ {0})
    <3>1. PICK i \in DOMAIN r : x = r[i].id /\ x # 0 BY <2>1 DEF IdsIn
    <3>2. QED BY <1>1, <1>4, <1>6, <3>1 DEF IdsIn
  <2>2. ASSUME NEW x \in IdsIn(q) PROVE x \in IdsIn(r)
    BY <1>1, <1>2, <1>3, <2>2 DEF IdsIn
  <2>3. {task.id} \ {0} \subseteq IdsIn(r) BY <1>1, <1>3 DEF IdsIn
  <2>4. QED BY <2>1, <2>2, <2>3
<1>8. ASSUME Distinct(q), task.id \notin IdsIn(q) PROVE Distinct(r)
  <2>1. SUFFICES ASSUME NEW i \in DOMAIN r, NEW j \in DOMAIN r,
                        r[i].id = r[j].id, r[i].id # 0
                 PROVE  i = j
    BY DEF Distinct
  <2>2. CASE i # new /\ j # new
    BY <1>4, <1>5, <1>6, <1>8, <2>1, <2>2 DEF Distinct
  <2>3. CASE i = new /\ j # new
    BY <1>1, <1>4, <1>6, <1>8, <2>1, <2>3 DEF IdsIn
  <2>4. CASE i # new /\ j = new
    BY <1>1, <1>4, <1>6, <1>8, <2>1, <2>4 DEF IdsIn
  <2>5. QED BY <2>2, <2>3, <2>4
<1>9. QED BY <1>7, <1>8 DEF r

\* A non-empty set of naturals has a least element.
LEMMA LeastNat ==
    ASSUME NEW T, T \subseteq Nat, T # {}
    PROVE  \E x \in T : \A y \in T : x <= y
<1>1. PICK x \in T : \A y \in T : ~(<<y, x>> \in OpToRel(<, Nat))
  BY NatLessThanWellFounded, WFMin
<1>2. ASSUME NEW y \in T PROVE x <= y
  <2>1. ~(<<y, x>> \in {ss \in Nat \X Nat : ss[1] < ss[2]})
    BY <1>1 DEF OpToRel
  <2>2. QED BY <2>1
<1>3. QED BY <1>2

\* pop_deferred_task takes an existing task.
LEMMA DeferredIndexLemma ==
    ASSUME NEW S, NEW deferred \in Seq(S), deferred # <<>>, NEW id_slot
    PROVE  DeferredIndex(deferred, id_slot) \in 1..Len(deferred)
<1> DEFINE asking == {i \in DOMAIN deferred : deferred[i].id_slot = id_slot}
<1>1. Len(deferred) \in Nat \ {0} /\ DOMAIN deferred = 1..Len(deferred) OBVIOUS
<1>2. CASE asking = {} BY <1>1, <1>2 DEF DeferredIndex
<1>3. CASE asking # {}
  <2>1. asking \subseteq Nat BY <1>1
  <2>2. \E i \in asking : \A j \in asking : i <= j BY <1>3, <2>1, LeastNat
  <2>3. DeferredIndex(deferred, id_slot)
            = CHOOSE i \in asking : \A j \in asking : i <= j
    BY <1>3 DEF DeferredIndex
  <2>4. DeferredIndex(deferred, id_slot) \in asking
    <3> HIDE DEF asking
    <3>1. QED BY <2>2, <2>3
  <2>5. QED BY <1>1, <2>4
<1>4. QED BY <1>2, <1>3

\* pop_deferred_task moves one task: both results are deques, the front
\* deque loses nothing, no task is duplicated and the ids of the two
\* together stay the same.
LEMMA PopLemma ==
    ASSUME NEW S, NEW q \in Seq(S), NEW deferred \in Seq(S), NEW id_slot,
           Distinct(q), Distinct(deferred), IdsIn(q) \cap IdsIn(deferred) = {}
    PROVE  LET r == PopToFront(q, deferred, id_slot)
               d == PopRest(deferred, id_slot)
           IN  /\ r \in Seq(S) /\ d \in Seq(S)
               /\ Distinct(r) /\ Distinct(d)
               /\ IdsIn(r) \cap IdsIn(d) = {}
               /\ IdsIn(r) \cup IdsIn(d) = IdsIn(q) \cup IdsIn(deferred)
               /\ \A u : Holds(q, u) => Holds(r, u)
<1> DEFINE r == PopToFront(q, deferred, id_slot)
           d == PopRest(deferred, id_slot)
           k == DeferredIndex(deferred, id_slot)
<1>1. CASE deferred = <<>>
  BY <1>1 DEF PopToFront, PopRest
<1>2. CASE deferred # <<>>
  <2>1. k \in 1..Len(deferred) BY <1>2, DeferredIndexLemma
  <2>2. d = RemoveAt(deferred, k) BY <1>2 DEF PopRest
  <2>3. r = Push(q, deferred[k], TRUE) BY <1>2 DEF PopToFront, Push
  <2> HIDE DEF k, r, d
  <2>4. deferred[k] \in S /\ k \in DOMAIN deferred BY <2>1
  <2>5. d \in Seq(S) BY <2>1, <2>2, RemoveAtLemma
  <2>6. Distinct(d) /\ IdsIn(d) = IdsIn(deferred) \ {deferred[k].id}
    BY <2>1, <2>2, RemoveAtIds
  <2>7. r \in Seq(S) /\ \A u : Holds(q, u) => Holds(r, u)
    BY <2>3, <2>4, PushLemma
  <2>8. deferred[k].id # 0 => deferred[k].id \in IdsIn(deferred)
    BY <2>4 DEF IdsIn
  <2>9. 0 \notin IdsIn(q) BY DEF IdsIn
  <2>10. deferred[k].id \notin IdsIn(q) BY <2>8, <2>9
  <2>11. Distinct(r) /\ IdsIn(r) = IdsIn(q) \cup ({deferred[k].id} \ {0})
    <3>1. /\ IdsIn(Push(q, deferred[k], TRUE)) = IdsIn(q) \cup ({deferred[k].id} \ {0})
          /\ Distinct(q) /\ deferred[k].id \notin IdsIn(q)
               => Distinct(Push(q, deferred[k], TRUE))
      BY <2>4, PushIds, Zenon
    <3>2. QED BY <2>3, <2>10, <3>1
  <2>12. IdsIn(r) \cap IdsIn(d) = {} BY <2>6, <2>11
  <2>13. IdsIn(r) \cup IdsIn(d) = IdsIn(q) \cup IdsIn(deferred)
    <3>1. 0 \notin IdsIn(deferred) BY DEF IdsIn
    <3>2. QED BY <2>6, <2>8, <2>11, <3>1
  <2>14. QED BY <2>5, <2>6, <2>7, <2>11, <2>12, <2>13, Zenon DEF r, d
<1>3. QED BY <1>1, <1>2

\* cleanup_pending_task removes its target and keeps every other task.
LEMMA CleanupLemma ==
    ASSUME NEW S, NEW q \in Seq(S), NEW target, target # 0, Distinct(q)
    PROVE  /\ Cleanup(q, target) \in Seq(S)
           /\ Distinct(Cleanup(q, target))
           /\ IdsIn(Cleanup(q, target)) = IdsIn(q) \ {target}
           /\ \A u : Holds(q, u) /\ u.id # target => Holds(Cleanup(q, target), u)
<1>1. CASE \E i \in DOMAIN q : q[i].id = target
  <2> DEFINE k == CHOOSE i \in DOMAIN q : q[i].id = target
  <2>1. k \in 1..Len(q) /\ q[k].id = target BY <1>1
  <2>2. Cleanup(q, target) = RemoveAt(q, k) BY <1>1 DEF Cleanup
  <2> HIDE DEF k
  <2>3. Cleanup(q, target) \in Seq(S) BY <2>1, <2>2, RemoveAtLemma
  <2>4. QED BY <2>1, <2>2, <2>3, RemoveAtIds
<1>2. CASE ~ \E i \in DOMAIN q : q[i].id = target
  <2>1. Cleanup(q, target) = q BY <1>2 DEF Cleanup
  <2>2. target \notin IdsIn(q) BY <1>2 DEF IdsIn
  <2>3. QED BY <2>1, <2>2
<1>3. QED BY <1>1, <1>2

\* Taking the front task of a deque.
LEMMA TailLemma ==
    ASSUME NEW S, NEW q \in Seq(S), q # <<>>, Distinct(q)
    PROVE  /\ Head(q) \in S /\ Tail(q) \in Seq(S)
           /\ Distinct(Tail(q))
           /\ IdsIn(Tail(q)) = IdsIn(q) \ {Head(q).id}
           /\ Head(q).id # 0 => Head(q).id \in IdsIn(q)
<1>1. Len(q) \in Nat \ {0} /\ 1 \in DOMAIN q /\ Head(q) = q[1] OBVIOUS
<1>2. Tail(q) = RemoveAt(q, 1)
  <2>1. RemoveAt(q, 1) = SubSeq(q, 1, 0) \o SubSeq(q, 2, Len(q)) BY DEF RemoveAt
  <2>2. SubSeq(q, 1, 0) = <<>> BY <1>1
  <2>3. Tail(q) = SubSeq(q, 2, Len(q)) BY <1>1
  <2>4. QED BY <2>1, <2>2, <2>3
<1>3. Distinct(RemoveAt(q, 1)) /\ IdsIn(RemoveAt(q, 1)) = IdsIn(q) \ {q[1].id}
  <2>1. 1 \in 1..Len(q) BY <1>1
  <2>2. QED BY <2>1, RemoveAtIds
<1>4. Distinct(Tail(q)) /\ IdsIn(Tail(q)) = IdsIn(q) \ {Head(q).id}
  BY <1>1, <1>2, <1>3, Zenon
<1>5. Head(q) \in S /\ Tail(q) \in Seq(S) OBVIOUS
<1>6. Head(q).id # 0 => Head(q).id \in IdsIn(q)
  <2>1. q[1].id # 0 => q[1].id \in IdsIn(q) BY <1>1 DEF IdsIn
  <2>2. QED BY <1>1, <2>1, Zenon
<1>7. QED BY <1>4, <1>5, <1>6
=============================================================================
