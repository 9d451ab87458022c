-------------------------- MODULE CommonLogProofs --------------------------
(* Proofs about CommonLog, for every capacity of the ring and any number of *)
(* messages and pauses.                                                     *)
EXTENDS CommonLog, TLAPS

\* The j-th entry from h in a ring of n.
At(h, j, n) == IF h + j < n THEN h + j ELSE h + j - n

\* The messages that are in the ring, by the histories.
Left == Len(accepted) - Len(printed) - Printing

----------------------------------------------------------------------------
(* The inductive invariant. *)

\* The entries from head on are the messages not taken yet, in order; the end
\* entry of pause() follows them.
RingInv ==
    /\ Left \in 0..(size - 1)
    /\ \A j \in 0..(Left - 1) :
          entries[At(head, j, size)] = [msg    |-> Len(printed) + Printing + j + 1,
                                        is_end |-> FALSE]
    /\ running => ctl = "idle" /\ worker # "ended" /\ tail = At(head, Left, size)
    /\ (~running /\ worker # "ended") =>
          /\ ctl = "join" /\ entries[At(head, Left, size)].is_end
          /\ tail = At(head, Left + 1, size)
    /\ worker = "ended" => ~running /\ Left = 0 /\ head = tail

CurInv == worker = "print" => cur = [msg |-> Len(printed) + 1, is_end |-> FALSE]

\* The file changes only when nothing is pending.
FileInv == \A i \in (Len(printed) + 1)..Len(accepted) : accepted[i] = file

IInv == TypeOK /\ RingInv /\ CurInv /\ FileInv /\ InOrder

----------------------------------------------------------------------------
(* Lemmas. *)

\* The code's index arithmetic: (head + j) % entries.size().
LEMMA ModAt ==
    ASSUME NEW n \in Nat \ {0}, NEW h \in 0..(n - 1), NEW j \in 0..n
    PROVE  (h + j) % n = At(h, j, n) /\ At(h, j, n) \in 0..(n - 1)
<1>1. CASE h + j < n
  <2>1. (h + j) % n = h + j BY <1>1
  <2>2. QED BY <1>1, <2>1 DEF At
<1>2. CASE h + j >= n
  <2>1. (h + j) % n = h + j - n BY <1>2
  <2>2. QED BY <1>2, <2>1 DEF At
<1>3. QED BY <1>1, <1>2

\* Two entries less than a whole ring apart are different.
LEMMA AtDistinct ==
    ASSUME NEW n \in Nat \ {0}, NEW h \in 0..(n - 1), NEW i \in 0..(n - 1), NEW j \in 0..(n - 1),
           i # j
    PROVE  At(h, i, n) # At(h, j, n)
BY DEF At

\* One further from head is one further from the next head.
LEMMA AtShift ==
    ASSUME NEW n \in Nat \ {0}, NEW h \in 0..(n - 1), NEW j \in 0..(n - 1)
    PROVE  At(At(h, 1, n), j, n) = At(h, j + 1, n)
BY DEF At

\* A new log satisfies the invariant.
LEMMA InitInv == Init => IInv
<1> SUFFICES ASSUME Init PROVE IInv OBVIOUS
<1> USE DEF Init
<1>1. TypeOK
  <2>1. Fresh \in Entry BY DEF Fresh, Entry
  <2>2. accepted \in Seq(Nat) /\ printed \in Seq([msg : Nat, file : Nat]) OBVIOUS
  <2>3. size \in Nat \ {0} /\ head \in 0..(size - 1) /\ tail \in 0..(size - 1)
    BY CapacityAssumption
  <2>4. entries \in [0..(size - 1) -> Entry] BY <2>1
  <2>5. running \in BOOLEAN /\ reopen \in BOOLEAN OBVIOUS
  <2>6. QED BY <2>1, <2>2, <2>3, <2>4, <2>5 DEF TypeOK, WorkerStates
<1>2. Left = 0 BY DEF Left, Printing
<1>3. At(head, 0, size) = 0 BY CapacityAssumption DEF At
<1>4. RingInv BY CapacityAssumption, <1>2, <1>3 DEF RingInv
<1>5. CurInv /\ FileInv /\ InOrder BY DEF CurInv, FileInv, InOrder
<1>6. QED BY <1>1, <1>4, <1>5 DEF IInv

\* add, with and without growth of the ring.
LEMMA AddStep == IInv /\ Add => IInv'
<1> SUFFICES ASSUME IInv, Add PROVE IInv' OBVIOUS
<1> USE DEF IInv
<1> DEFINE e == [msg |-> Len(accepted) + 1, is_end |-> FALSE]
<1>0. /\ size \in Nat \ {0} /\ head \in 0..(size - 1) /\ tail \in 0..(size - 1)
      /\ entries \in [0..(size - 1) -> Entry] /\ accepted \in Seq(Nat) /\ file \in Nat
      /\ printed \in Seq([msg : Nat, file : Nat])
      /\ running /\ worker \in {"wait", "ready", "print"}
  BY DEF TypeOK, Add, RingInv, WorkerStates
<1>1. /\ Len(accepted) \in Nat /\ Len(printed) \in Nat /\ Printing \in {0, 1}
      /\ Left \in 0..(size - 1) /\ Left = Len(accepted) - Len(printed) - Printing
      /\ tail = At(head, Left, size)
  BY <1>0 DEF RingInv, Printing, Left
<1>2. /\ accepted' = Append(accepted, file) /\ accepted' \in Seq(Nat)
      /\ Len(accepted') = Len(accepted) + 1
      /\ accepted'[Len(accepted) + 1] = file
      /\ \A i \in 1..Len(accepted) : accepted'[i] = accepted[i]
  BY <1>0 DEF Add
<1>3. /\ printed' = printed /\ file' = file /\ cur' = cur /\ running' = running /\ ctl' = ctl
      /\ reopen' = reopen /\ pauses' = pauses
      /\ worker' \in WorkerStates /\ worker' # "ended" /\ (worker' = "print" <=> worker = "print")
  BY <1>0 DEF Add, Notify, WorkerStates
<1>4. Printing' = Printing BY <1>3 DEF Printing
<1>5. Left' = Left + 1 BY <1>0, <1>1, <1>2, <1>3, <1>4 DEF Left
<1>6. e \in Entry BY <1>1 DEF Entry
<1>7. /\ Written \in [0..(size - 1) -> Entry] /\ Written[tail] = e
      /\ \A i \in 0..(size - 1) : i # tail => Written[i] = entries[i]
  BY <1>0, <1>6 DEF Written
<1>8. \A j \in 0..Left : Written[At(head, j, size)] = [msg    |-> Len(printed) + Printing + j + 1,
                                                        is_end |-> FALSE]
  <2> SUFFICES ASSUME NEW j \in 0..Left
                 PROVE  Written[At(head, j, size)] = [msg    |-> Len(printed) + Printing + j + 1,
                                                      is_end |-> FALSE]
    OBVIOUS
  <2>2. CASE j = Left
    <3>1. Len(printed) + Printing + j + 1 = Len(accepted) + 1 BY <1>1, <2>2
    <3>2. At(head, j, size) = tail BY <1>1, <2>2
    <3>3. QED BY <1>7, <3>1, <3>2
  <2>3. CASE j < Left
    <3>1. j \in 0..(size - 1) /\ j \in 0..(Left - 1) /\ j # Left BY <1>0, <1>1, <2>3
    <3>2. At(head, j, size) \in 0..(size - 1) BY <1>0, <3>1, ModAt
    <3>3. At(head, j, size) # tail BY <1>0, <1>1, <3>1, AtDistinct
    <3>4. entries[At(head, j, size)] = [msg    |-> Len(printed) + Printing + j + 1,
                                        is_end |-> FALSE]
      BY <3>1 DEF RingInv
    <3>5. QED BY <1>7, <3>2, <3>3, <3>4
  <2>4. QED BY <1>1, <2>2, <2>3
<1>9. (tail + 1) % size = At(tail, 1, size) BY <1>0, ModAt
<1>10. At(tail, 1, size) = At(head, Left + 1, size) BY <1>0, <1>1 DEF At
<1>11. /\ size' \in Nat \ {0} /\ entries' \in [0..(size' - 1) -> Entry]
       /\ head' \in 0..(size' - 1) /\ tail' \in 0..(size' - 1) /\ Left' \in 0..(size' - 1)
       /\ tail' = At(head', Left', size')
       /\ \A j \in 0..Left : entries'[At(head', j, size')] = Written[At(head, j, size)]
  <2>1. CASE (tail + 1) % size = head
    <3>1. entries' = Unrolled(Written) /\ size' = 2 * size /\ head' = 0 /\ tail' = size
      BY <2>1 DEF Add
    <3>2. Left + 1 = size
      <4>1. At(head, Left + 1, size) = head BY <1>9, <1>10, <2>1
      <4>2. QED BY <1>0, <1>1, <4>1 DEF At
    <3>3. \A i \in 0..(size - 1) : (head + i) % size = At(head, i, size)
                                   /\ At(head, i, size) \in 0..(size - 1)
      BY <1>0, ModAt
    <3>4. Fresh \in Entry BY DEF Fresh, Entry
    <3>5. entries' \in [0..(2 * size - 1) -> Entry]
      <4>1. \A i \in 0..(2 * size - 1) :
               (IF i < size THEN Written[(head + i) % size] ELSE Fresh) \in Entry
        <5> SUFFICES ASSUME NEW i \in 0..(2 * size - 1)
                     PROVE  (IF i < size THEN Written[(head + i) % size] ELSE Fresh) \in Entry
          OBVIOUS
        <5>1. CASE i < size
          <6>1. i \in 0..(size - 1) BY <1>0, <5>1
          <6>2. Written[(head + i) % size] \in Entry BY <1>7, <3>3, <6>1
          <6>3. QED BY <5>1, <6>2
        <5>2. CASE ~(i < size) BY <3>4, <5>2
        <5>3. QED BY <5>1, <5>2
      <4>2. QED BY <3>1, <4>1, Zenon DEF Unrolled
    <3>6. \A i \in 0..(size - 1) : entries'[i] = Written[At(head, i, size)]
      <4> SUFFICES ASSUME NEW i \in 0..(size - 1)
                   PROVE  entries'[i] = Written[At(head, i, size)]
        OBVIOUS
      <4>1. i \in 0..(2 * size - 1) /\ i < size BY <1>0
      <4>2. entries'[i] = Written[(head + i) % size] BY <3>1, <4>1, Zenon DEF Unrolled
      <4>3. QED BY <3>3, <4>2
    <3>7. \A j \in 0..Left : At(0, j, 2 * size) = j BY <1>0, <3>2 DEF At
    <3>8. tail' = At(head', Left', size') BY <1>0, <1>5, <3>1, <3>2 DEF At
    <3>9. \A j \in 0..Left : entries'[At(head', j, size')] = Written[At(head, j, size)]
      <4>1. 0..Left = 0..(size - 1) BY <1>0, <1>1, <3>2
      <4>2. QED BY <3>1, <3>6, <3>7, <4>1
    <3>10. /\ size' \in Nat \ {0} /\ head' \in 0..(size' - 1) /\ tail' \in 0..(size' - 1)
           /\ Left' \in 0..(size' - 1)
      BY <1>0, <1>5, <3>1, <3>2
    <3>11. QED BY <3>1, <3>5, <3>8, <3>9, <3>10
  <2>2. CASE (tail + 1) % size # head
    <3>1. entries' = Written /\ size' = size /\ head' = head /\ tail' = (tail + 1) % size
      BY <2>2 DEF Add
    <3>2. Left + 1 \in 0..(size - 1)
      <4>1. At(head, Left + 1, size) # head BY <1>9, <1>10, <2>2
      <4>2. At(head, size, size) = head BY <1>0 DEF At
      <4>3. Left + 1 # size BY <4>1, <4>2
      <4>4. QED BY <1>0, <1>1, <4>3
    <3>3. tail' = At(head, Left', size) BY <1>5, <1>9, <1>10, <3>1
    <3>4. tail' \in 0..(size - 1) BY <1>0, <1>5, <3>2, <3>3, ModAt
    <3>5. QED BY <1>0, <1>5, <1>7, <3>1, <3>2, <3>3, <3>4
  <2>3. QED BY <2>1, <2>2
<1>12. TypeOK' BY <1>0, <1>2, <1>3, <1>11 DEF TypeOK
<1>13. RingInv'
  <2>1. \A j \in 0..(Left' - 1) :
           entries'[At(head', j, size')] = [msg    |-> Len(printed') + Printing' + j + 1,
                                            is_end |-> FALSE]
    <3>1. 0..(Left' - 1) = 0..Left BY <1>1, <1>5
    <3>2. QED BY <1>3, <1>4, <1>8, <1>11, <3>1
  <2>2. ctl' = "idle" BY <1>0, <1>3 DEF RingInv
  <2>3. QED BY <1>0, <1>3, <1>11, <2>1, <2>2 DEF RingInv
<1>14. CurInv' BY <1>3 DEF CurInv
<1>15. FileInv' BY <1>1, <1>2, <1>3 DEF FileInv
<1>16. InOrder' BY <1>1, <1>2, <1>3 DEF InOrder
<1>17. QED BY <1>12, <1>13, <1>14, <1>15, <1>16

\* The worker takes an entry: the end entry only when no message is left.
LEMMA TakeStep == IInv /\ WorkerTake => IInv'
<1> SUFFICES ASSUME IInv, WorkerTake PROVE IInv' OBVIOUS
<1> USE DEF IInv
<1>0. /\ size \in Nat \ {0} /\ head \in 0..(size - 1) /\ tail \in 0..(size - 1)
      /\ entries \in [0..(size - 1) -> Entry] /\ accepted \in Seq(Nat)
      /\ printed \in Seq([msg : Nat, file : Nat]) /\ running \in BOOLEAN
      /\ worker = "ready" /\ head # tail
  BY DEF TypeOK, WorkerTake
<1>1. /\ Len(accepted) \in Nat /\ Len(printed) \in Nat /\ Printing = 0
      /\ Left \in 0..(size - 1) /\ Left = Len(accepted) - Len(printed)
  BY <1>0 DEF RingInv, Printing, Left
<1>2. /\ cur' = entries[head] /\ head' = At(head, 1, size) /\ head' \in 0..(size - 1)
      /\ worker' = IF entries[head].is_end THEN "ended" ELSE "print"
      /\ UNCHANGED <<entries, size, tail, running, file, ctl, reopen, pauses, accepted, printed>>
  <2>1. 1 \in 0..size BY <1>0
  <2>2. QED BY <1>0, <2>1, ModAt DEF WorkerTake
<1>3. At(head, 0, size) = head BY <1>0 DEF At
<1>4. entries[head] \in Entry BY <1>0
<1>5. TypeOK' BY <1>0, <1>2, <1>4 DEF TypeOK, WorkerStates
<1>6. FileInv' /\ InOrder' BY <1>2 DEF FileInv, InOrder
<1>7. CASE Left = 0
  <2>1. ~running
    <3>1. CASE running
      <4>1. tail = head BY <1>3, <1>7, <3>1 DEF RingInv
      <4>2. QED BY <1>0, <4>1
    <3>2. QED BY <3>1
  <2>2. entries[head].is_end /\ tail = At(head, 1, size)
    BY <1>0, <1>3, <1>7, <2>1 DEF RingInv
  <2>3. worker' = "ended" /\ head' = tail' BY <1>2, <2>2
  <2>4. Left' = 0 BY <1>1, <1>2, <1>7, <2>3 DEF Left, Printing
  <2>5. RingInv' BY <1>0, <1>2, <2>1, <2>3, <2>4 DEF RingInv
  <2>6. CurInv' BY <2>3 DEF CurInv
  <2>7. QED BY <1>5, <1>6, <2>5, <2>6
<1>8. CASE Left > 0
  <2>1. entries[head] = [msg |-> Len(printed) + 1, is_end |-> FALSE]
    <3>1. 0 \in 0..(Left - 1) BY <1>1, <1>8
    <3>2. entries[At(head, 0, size)] = [msg |-> Len(printed) + Printing + 0 + 1, is_end |-> FALSE]
      BY <3>1 DEF RingInv
    <3>3. Len(printed) + Printing + 0 + 1 = Len(printed) + 1 BY <1>1
    <3>4. QED BY <1>3, <3>2, <3>3
  <2>2. worker' = "print" BY <1>2, <2>1
  <2>3. Printing' = 1 BY <2>2 DEF Printing
  <2>4. Left' = Left - 1 BY <1>1, <1>2, <2>3 DEF Left
  <2>5. \A j \in 0..(Left - 1) : At(head', j, size) = At(head, j + 1, size)
    BY <1>0, <1>1, <1>2, AtShift
  <2>6. \A j \in 0..(Left' - 1) :
           entries'[At(head', j, size')] = [msg    |-> Len(printed') + Printing' + j + 1,
                                            is_end |-> FALSE]
    <3> SUFFICES ASSUME NEW j \in 0..(Left - 2)
                 PROVE  entries[At(head', j, size)] = [msg    |-> Len(printed) + 1 + j + 1,
                                                       is_end |-> FALSE]
      <4>1. Left' - 1 = Left - 2 BY <1>1, <2>4
      <4>2. QED BY <1>2, <2>3, <4>1
    <3>1. j + 1 \in 0..(Left - 1) /\ j \in 0..(Left - 1) BY <1>1
    <3>2. entries[At(head, j + 1, size)] = [msg    |-> Len(printed) + Printing + (j + 1) + 1,
                                            is_end |-> FALSE]
      BY <3>1 DEF RingInv
    <3>3. Len(printed) + Printing + (j + 1) + 1 = Len(printed) + 1 + j + 1 BY <1>1, <3>1
    <3>4. QED BY <2>5, <3>1, <3>2, <3>3
  <2>7. At(head', Left', size) = At(head, Left, size)
    <3>1. At(head', Left - 1, size) = At(head, Left, size)
      BY <1>0, <1>1, <1>2, <1>8 DEF At
    <3>2. QED BY <2>4, <3>1
  <2>8. At(head', Left' + 1, size) = At(head, Left + 1, size)
    <3>1. At(head', Left, size) = At(head, Left + 1, size)
      BY <1>0, <1>1, <1>2, <1>8 DEF At
    <3>2. Left' + 1 = Left BY <1>1, <2>4
    <3>3. QED BY <3>1, <3>2
  <2>9. Left' \in 0..(size' - 1) BY <1>0, <1>1, <1>2, <1>8, <2>4
  <2>10. RingInv' BY <1>0, <1>2, <2>2, <2>6, <2>7, <2>8, <2>9 DEF RingInv
  <2>11. CurInv' BY <1>2, <2>1 DEF CurInv
  <2>12. QED BY <1>5, <1>6, <2>10, <2>11
<1>9. QED BY <1>1, <1>7, <1>8

\* The worker prints what it has taken, which is the next message.
LEMMA PrintStep == IInv /\ WorkerPrint => IInv'
<1> SUFFICES ASSUME IInv, WorkerPrint PROVE IInv' OBVIOUS
<1> USE DEF IInv
<1>0. /\ size \in Nat \ {0} /\ accepted \in Seq(Nat) /\ file \in Nat /\ cur \in Entry
      /\ printed \in Seq([msg : Nat, file : Nat]) /\ worker = "print"
  BY DEF TypeOK, WorkerPrint
<1>1. /\ Len(accepted) \in Nat /\ Len(printed) \in Nat /\ Printing = 1
      /\ Left \in 0..(size - 1) /\ Left = Len(accepted) - Len(printed) - 1
  BY <1>0 DEF RingInv, Printing, Left
<1> DEFINE e == [msg |-> cur.msg, file |-> file]
<1>2. /\ worker' = "ready" /\ printed' = Append(printed, e)
      /\ UNCHANGED <<ring_vars, running, cur, file, ctl, reopen, pauses, accepted>>
  BY DEF WorkerPrint
<1>3. cur.msg = Len(printed) + 1 BY <1>0 DEF CurInv
<1>4. e \in [msg : Nat, file : Nat] BY <1>0, <1>1, <1>3
<1>5. /\ printed' \in Seq([msg : Nat, file : Nat]) /\ Len(printed') = Len(printed) + 1
      /\ printed'[Len(printed) + 1] = e
      /\ \A i \in 1..Len(printed) : printed'[i] = printed[i]
  BY <1>0, <1>2, <1>4
<1>6. TypeOK' BY <1>2, <1>5 DEF TypeOK, WorkerStates, ring_vars
<1>7. Printing' = 0 /\ Left' = Left BY <1>1, <1>2, <1>5 DEF Printing, Left
<1>8. Len(printed') + Printing' = Len(printed) + Printing BY <1>1, <1>5, <1>7
<1>9. RingInv'
  <2>1. \A j \in 0..(Left' - 1) :
           entries'[At(head', j, size')] = [msg    |-> Len(printed') + Printing' + j + 1,
                                            is_end |-> FALSE]
    BY <1>2, <1>7, <1>8 DEF RingInv, ring_vars
  <2>2. QED BY <1>0, <1>2, <1>7, <2>1 DEF RingInv, ring_vars
<1>10. CurInv' BY <1>2 DEF CurInv
<1>11. FileInv' BY <1>1, <1>2, <1>5 DEF FileInv
<1>12. accepted[Len(printed) + 1] = file /\ Len(printed) + 1 <= Len(accepted)
  BY <1>1 DEF FileInv
<1>13. InOrder'
  <2>1. \A i \in 1..Len(printed') : printed'[i] = [msg |-> i, file |-> accepted'[i]]
    <3> SUFFICES ASSUME NEW i \in 1..(Len(printed) + 1)
                 PROVE  printed'[i] = [msg |-> i, file |-> accepted[i]]
      BY <1>2, <1>5
    <3>1. CASE i = Len(printed) + 1 BY <1>3, <1>5, <1>12, <3>1
    <3>2. CASE i # Len(printed) + 1
      <4>1. i \in 1..Len(printed) BY <1>1, <3>2
      <4>2. QED BY <1>5, <4>1 DEF InOrder
    <3>3. QED BY <3>1, <3>2
  <2>2. QED BY <1>2, <1>5, <1>12, <2>1 DEF InOrder
<1>14. QED BY <1>6, <1>9, <1>10, <1>11, <1>13

\* pause() puts its entry behind the messages, also when it fills the ring.
LEMMA PauseStep == IInv /\ Pause => IInv'
<1> SUFFICES ASSUME IInv, Pause PROVE IInv' OBVIOUS
<1> USE DEF IInv
<1>0. /\ size \in Nat \ {0} /\ head \in 0..(size - 1) /\ tail \in 0..(size - 1)
      /\ entries \in [0..(size - 1) -> Entry] /\ running /\ pauses \in Nat
      /\ worker \in {"wait", "ready", "print"} /\ Left \in 0..(size - 1)
      /\ tail = At(head, Left, size) /\ ctl = "idle"
  BY DEF TypeOK, Pause, RingInv, WorkerStates
<1>1. /\ running' = FALSE /\ ctl' = "join" /\ reopen' \in BOOLEAN /\ pauses' = pauses + 1
      /\ entries' = [entries EXCEPT ![tail].is_end = TRUE]
      /\ worker' \in WorkerStates /\ worker' # "ended" /\ (worker' = "print" <=> worker = "print")
      /\ UNCHANGED <<size, head, cur, file, accepted, printed>>
  BY <1>0 DEF Pause, Notify, WorkerStates
<1>2. tail' = At(head, Left + 1, size) /\ tail' \in 0..(size - 1)
  <2>0. 1 \in 0..size BY <1>0
  <2>1. tail' = At(tail, 1, size) /\ tail' \in 0..(size - 1) BY <1>0, <2>0, ModAt DEF Pause
  <2>2. At(tail, 1, size) = At(head, Left + 1, size) BY <1>0 DEF At
  <2>3. QED BY <2>1, <2>2
<1>3. Printing' = Printing BY <1>1 DEF Printing
<1>4. Left' = Left BY <1>1, <1>3 DEF Left
<1>5. /\ entries' \in [0..(size - 1) -> Entry] /\ entries'[tail].is_end = TRUE
      /\ \A i \in 0..(size - 1) : i # tail => entries'[i] = entries[i]
  BY <1>0, <1>1 DEF Entry
<1>6. TypeOK'
  <2>1. /\ size' \in Nat \ {0} /\ head' \in 0..(size' - 1) /\ tail' \in 0..(size' - 1)
        /\ entries' \in [0..(size' - 1) -> Entry]
    BY <1>0, <1>1, <1>2, <1>5
  <2>2. running' \in BOOLEAN BY <1>1, Zenon
  <2>3. ctl' \in {"idle", "join", "reopen"} /\ pauses' \in Nat BY <1>0, <1>1
  <2>4. QED BY <1>1, <2>1, <2>2, <2>3 DEF TypeOK
<1>7. \A j \in 0..(Left - 1) : entries'[At(head, j, size)] = entries[At(head, j, size)]
  <2> SUFFICES ASSUME NEW j \in 0..(Left - 1)
               PROVE  entries'[At(head, j, size)] = entries[At(head, j, size)]
    OBVIOUS
  <2>1. j \in 0..(size - 1) /\ j \in 0..size /\ j # Left BY <1>0
  <2>2. At(head, j, size) \in 0..(size - 1) BY <1>0, <2>1, ModAt
  <2>3. At(head, j, size) # tail BY <1>0, <2>1, AtDistinct
  <2>4. QED BY <1>5, <2>2, <2>3
<1>8. RingInv'
  <2>1. \A j \in 0..(Left' - 1) :
           entries'[At(head', j, size')] = [msg    |-> Len(printed') + Printing' + j + 1,
                                            is_end |-> FALSE]
    BY <1>1, <1>3, <1>4, <1>7 DEF RingInv
  <2>2. QED BY <1>0, <1>1, <1>2, <1>4, <1>5, <2>1 DEF RingInv
<1>9. CurInv' /\ FileInv' /\ InOrder' BY <1>1 DEF CurInv, FileInv, InOrder
<1>10. QED BY <1>6, <1>8, <1>9

\* A worker that waits or is woken, and a controller that goes on after the
\* join, leave the ring alone.
LEMMA WaitStep == IInv /\ (WorkerWait \/ SpuriousWake \/ Join) => IInv'
<1> SUFFICES ASSUME IInv, WorkerWait \/ SpuriousWake \/ Join PROVE IInv' OBVIOUS
<1> USE DEF IInv
<1>1. /\ UNCHANGED <<ring_vars, running, cur, file, reopen, pauses, accepted, printed>>
      /\ worker' \in WorkerStates /\ ctl' \in {"idle", "join", "reopen"}
      /\ worker' = "print" <=> worker = "print"
      /\ worker' = "ended" <=> worker = "ended"
      /\ worker # "ended" => ctl' = ctl
  BY DEF TypeOK, WorkerWait, SpuriousWake, Join, WorkerStates
<1>2. TypeOK' BY <1>1 DEF TypeOK, ring_vars
<1>3. Printing' = Printing /\ Left' = Left BY <1>1 DEF Printing, Left
<1>4. \A j \in 0..(Left' - 1) :
         entries'[At(head', j, size')] = [msg    |-> Len(printed') + Printing' + j + 1,
                                          is_end |-> FALSE]
  BY <1>1, <1>3 DEF RingInv, ring_vars
<1>5. RingInv' BY <1>1, <1>3, <1>4 DEF RingInv, ring_vars
<1>6. CurInv' /\ FileInv' /\ InOrder' BY <1>1 DEF CurInv, FileInv, InOrder
<1>7. QED BY <1>2, <1>5, <1>6

\* resume() finds an empty ring, so that the file may change.
LEMMA ResumeStep == IInv /\ Resume => IInv'
<1> SUFFICES ASSUME IInv, Resume PROVE IInv' OBVIOUS
<1> USE DEF IInv
<1>0. /\ size \in Nat \ {0} /\ head \in 0..(size - 1) /\ tail \in 0..(size - 1)
      /\ worker = "ended" /\ Left = 0 /\ head = tail
      /\ accepted \in Seq(Nat) /\ printed \in Seq([msg : Nat, file : Nat]) /\ file \in Nat
  BY DEF TypeOK, Resume, RingInv
<1>1. /\ running' = TRUE /\ worker' = "ready" /\ ctl' = "idle" /\ file' \in {file, file + 1}
      /\ UNCHANGED <<ring_vars, cur, reopen, pauses, accepted, printed>>
  BY DEF Resume
<1>2. TypeOK' BY <1>0, <1>1 DEF TypeOK, WorkerStates, ring_vars
<1>3. Printing = 0 /\ Printing' = 0 BY <1>0, <1>1 DEF Printing
<1>4. Left' = 0 BY <1>0, <1>1, <1>3 DEF Left
<1>5. At(head, 0, size) = head BY <1>0 DEF At
<1>6. RingInv' BY <1>0, <1>1, <1>4, <1>5 DEF RingInv, ring_vars
<1>7. Len(accepted) = Len(printed)
  <2>1. Len(accepted) \in Nat /\ Len(printed) \in Nat BY <1>0
  <2>2. QED BY <1>0, <1>3, <2>1 DEF Left
<1>8. CurInv' /\ FileInv' /\ InOrder'
  <2>1. Len(accepted) \in Nat BY <1>0
  <2>2. (Len(accepted) + 1)..Len(accepted) = {} BY <2>1
  <2>3. QED BY <1>1, <1>7, <2>2 DEF CurInv, FileInv, InOrder
<1>9. QED BY <1>2, <1>6, <1>8

\* Every step preserves the invariant.
LEMMA NextInv == IInv /\ [Next]_vars => IInv'
<1> SUFFICES ASSUME IInv, [Next]_vars PROVE IInv' OBVIOUS
<1>1. CASE UNCHANGED vars
  BY <1>1 DEF vars, IInv, TypeOK, RingInv, CurInv, FileInv, InOrder, Left, Printing
<1>2. CASE Add BY <1>2, AddStep
<1>3. CASE WorkerStep BY <1>3, WaitStep, TakeStep, PrintStep DEF WorkerStep
<1>4. CASE SpuriousWake \/ Join BY <1>4, WaitStep
<1>5. CASE Pause BY <1>5, PauseStep
<1>6. CASE Resume BY <1>6, ResumeStep
<1>7. QED BY <1>1, <1>2, <1>3, <1>4, <1>5, <1>6 DEF Next

\* The inductive invariant holds in every state of the log.
THEOREM IndInvariant == Spec => []IInv
<1>1. QED BY InitInv, NextInv, PTL DEF Spec

----------------------------------------------------------------------------
(* The theorems. *)

\* The indices stay within the ring, whatever its capacity and growth.
THEOREM TypeCorrect == Spec => []TypeOK
<1>1. IInv => TypeOK BY DEF IInv
<1>2. QED BY <1>1, IndInvariant, PTL

\* Messages are printed once, in order, into the right file.
THEOREM PrintedInOrder == Spec => []InOrder
<1>1. IInv => InOrder BY DEF IInv
<1>2. QED BY <1>1, IndInvariant, PTL

\* When pause() has returned nothing is pending.
THEOREM PausedIsFlushed == Spec => []Flushed
<1>1. IInv => Flushed
  <2> SUFFICES ASSUME IInv, ~running, ctl # "join" PROVE Len(printed) = Len(accepted)
    BY DEF Flushed
  <2>1. worker = "ended" /\ Left = 0 BY DEF IInv, RingInv
  <2>2. Printing = 0 BY <2>1 DEF Printing
  <2>3. Len(accepted) \in Nat /\ Len(printed) \in Nat BY DEF IInv, TypeOK
  <2>4. QED BY <2>1, <2>2, <2>3 DEF Left
<1>2. QED BY <1>1, IndInvariant, PTL

----------------------------------------------------------------------------
(* The refinement. *)

\* Pending by the histories: the messages after those printed, for the file
\* in use.
PendingInv ==
    /\ Len(accepted) - Len(printed) \in Nat
    /\ Pending = [k \in 1..(Len(accepted) - Len(printed)) |->
                     [msg |-> Len(printed) + k, file |-> file]]

\* The refinement mapping, which reads the ring, agrees with the histories.
LEMMA PendingIs == IInv => PendingInv
<1> SUFFICES ASSUME IInv PROVE PendingInv OBVIOUS
<1> USE DEF IInv
<1>0. /\ size \in Nat \ {0} /\ head \in 0..(size - 1) /\ tail \in 0..(size - 1)
      /\ running \in BOOLEAN /\ Len(accepted) \in Nat /\ Len(printed) \in Nat
  BY DEF TypeOK
<1>1. Left \in 0..(size - 1) /\ Printing \in {0, 1} BY DEF RingInv, Printing
<1>2. Len(accepted) - Len(printed) = Printing + Left BY <1>0, <1>1 DEF Left
<1>3. InRing = Left
  <2>1. \A d \in 0..(size - 1) : tail = At(head, d, size) => (tail + size - head) % size = d
    <3> SUFFICES ASSUME NEW d \in 0..(size - 1), tail = At(head, d, size)
                 PROVE  (tail + size - head) % size = d
      OBVIOUS
    <3>1. CASE head + d < size
      <4>1. tail + size - head = d + size BY <1>0, <3>1 DEF At
      <4>2. (d + size) % size = d BY <1>0
      <4>3. QED BY <4>1, <4>2
    <3>2. CASE head + d >= size
      <4>1. tail + size - head = d BY <1>0, <3>2 DEF At
      <4>2. d % size = d BY <1>0
      <4>3. QED BY <4>1, <4>2
    <3>3. QED BY <1>0, <3>1, <3>2
  <2>2. CASE running
    <3>1. tail = At(head, Left, size) BY <2>2 DEF RingInv
    <3>2. (tail + size - head) % size = Left BY <1>1, <2>1, <3>1
    <3>3. QED BY <1>1, <2>2, <3>2 DEF InRing, Wrapped
  <2>3. CASE worker = "ended"
    <3>1. Left = 0 /\ head = tail BY <2>3 DEF RingInv
    <3>2. At(head, 0, size) = tail /\ 0 \in 0..(size - 1) BY <1>0, <3>1 DEF At
    <3>3. (tail + size - head) % size = 0 BY <2>1, <3>2
    <3>4. QED BY <2>3, <3>1, <3>3 DEF InRing, Wrapped
  <2>4. CASE ~running /\ worker # "ended"
    <3>1. tail = At(head, Left + 1, size) BY <2>4 DEF RingInv
    <3>2. CASE Left + 1 = size
      <4>1. head = tail BY <1>0, <3>1, <3>2 DEF At
      <4>2. QED BY <1>0, <1>1, <2>4, <3>2, <4>1 DEF InRing, Wrapped
    <3>3. CASE Left + 1 # size
      <4>1. Left + 1 \in 0..(size - 1) BY <1>0, <1>1, <3>3
      <4>2. (tail + size - head) % size = Left + 1 BY <2>1, <3>1, <4>1
      <4>3. head # tail BY <1>0, <1>1, <3>1, <4>1 DEF At
      <4>4. QED BY <1>1, <2>4, <4>2, <4>3 DEF InRing, Wrapped
    <3>4. QED BY <3>2, <3>3
  <2>5. QED BY <1>0, <2>2, <2>3, <2>4
<1>4. \A k \in 1..(Printing + Left) :
         (IF k <= Printing THEN cur.msg ELSE entries[(head + k - 1 - Printing) % size].msg)
           = Len(printed) + k
  <2> SUFFICES ASSUME NEW k \in 1..(Printing + Left)
               PROVE  (IF k <= Printing THEN cur.msg
                                        ELSE entries[(head + k - 1 - Printing) % size].msg)
                        = Len(printed) + k
    OBVIOUS
  <2>1. CASE k <= Printing
    <3>1. worker = "print" /\ k = 1 BY <1>1, <2>1 DEF Printing
    <3>2. cur.msg = Len(printed) + 1 BY <3>1 DEF CurInv
    <3>3. QED BY <2>1, <3>1, <3>2
  <2>2. CASE ~(k <= Printing)
    <3> DEFINE j == k - 1 - Printing
    <3>1. j \in 0..(Left - 1) /\ j \in 0..size BY <1>0, <1>1, <2>2
    <3>2. head + k - 1 - Printing = head + j BY <1>0, <1>1
    <3>3. (head + j) % size = At(head, j, size) BY <1>0, <3>1, ModAt
    <3>4. entries[At(head, j, size)] = [msg    |-> Len(printed) + Printing + j + 1,
                                        is_end |-> FALSE]
      BY <3>1 DEF RingInv
    <3>5. Len(printed) + Printing + j + 1 = Len(printed) + k BY <1>0, <1>1
    <3> HIDE DEF j
    <3>6. QED BY <2>2, <3>2, <3>3, <3>4, <3>5
  <2>3. QED BY <2>1, <2>2
<1>5. Pending = [k \in 1..(Printing + Left) |-> [msg |-> Len(printed) + k, file |-> file]]
  BY <1>3, <1>4, Zenon DEF Pending
<1>6. QED BY <1>0, <1>1, <1>2, <1>5 DEF PendingInv

\* Every step of the log is a step of the channel, or leaves it as it is.
LEMMA ChannelStep == IInv /\ IInv' /\ [Next]_vars => [Channel!Next]_Channel!vars
<1> SUFFICES ASSUME IInv, IInv', [Next]_vars PROVE [Channel!Next]_Channel!vars OBVIOUS
<1> DEFINE n == Len(printed)
           q == Len(accepted) - Len(printed)
<1>0. /\ Len(accepted) \in Nat /\ n \in Nat /\ q \in Nat /\ running \in BOOLEAN
      /\ accepted \in Seq(Nat) /\ printed \in Seq([msg : Nat, file : Nat])
  BY PendingIs DEF IInv, TypeOK, PendingInv
<1>1. Pending = [k \in 1..q |-> [msg |-> n + k, file |-> file]] BY PendingIs DEF PendingInv
<1>2. Pending' = [k \in 1..q' |-> [msg |-> n' + k, file |-> file']]
  <2>1. (IInv => PendingInv)' BY PendingIs, PTL
  <2>2. QED BY <2>1 DEF PendingInv
<1>3. Len(Pending) = q BY <1>0, <1>1
<1>4. CASE UNCHANGED <<running, file, accepted, printed>>
  BY <1>1, <1>2, <1>4 DEF Channel!vars
<1>5. CASE UNCHANGED vars BY <1>4, <1>5 DEF vars
<1>6. CASE WorkerWait \/ WorkerTake \/ SpuriousWake \/ Join
  BY <1>4, <1>6 DEF WorkerWait, WorkerTake, SpuriousWake, Join
<1>7. CASE Add
  <2>1. /\ running /\ accepted' = Append(accepted, file) /\ UNCHANGED <<running, file, printed>>
    BY <1>7 DEF Add
  <2>2. q' = q + 1 /\ n' = n BY <1>0, <2>1
  <2>3. Pending' = Append(Pending, [msg |-> n + q + 1, file |-> file])
    BY <1>0, <1>1, <1>2, <2>1, <2>2
  <2>4. Channel!Accept BY <1>3, <2>1, <2>3 DEF Channel!Accept
  <2>5. QED BY <2>4 DEF Channel!Next
<1>8. CASE WorkerPrint
  <2>1. /\ worker = "print" /\ printed' = Append(printed, [msg |-> cur.msg, file |-> file])
        /\ UNCHANGED <<running, file, accepted>>
    BY <1>8 DEF WorkerPrint
  <2>2. cur.msg = n + 1 /\ q > 0
    <3>1. Printing = 1 /\ Left \in Nat BY <2>1 DEF IInv, RingInv, TypeOK, Printing
    <3>2. QED BY <1>0, <2>1, <3>1 DEF IInv, CurInv, Left
  <2>3. q' = q - 1 /\ n' = n + 1 BY <1>0, <2>1
  <2>4. Pending # <<>> /\ Head(Pending) = [msg |-> n + 1, file |-> file]
    <3>1. 1 \in 1..q /\ Pending \in Seq([msg : Int, file : {file}])
      BY <1>0, <1>1, <2>2
    <3>2. Pending[1] = [msg |-> n + 1, file |-> file] BY <1>1, <3>1
    <3>3. QED BY <1>0, <1>3, <2>2, <3>1, <3>2
  <2>5. Pending' = Tail(Pending) BY <1>0, <1>1, <1>2, <2>1, <2>2, <2>3
  <2>6. Channel!Emit BY <2>1, <2>2, <2>4, <2>5 DEF Channel!Emit
  <2>7. QED BY <2>6 DEF Channel!Next
<1>9. CASE Pause
  <2>1. running /\ running' = FALSE /\ UNCHANGED <<file, accepted, printed>> BY <1>9 DEF Pause
  <2>2. Pending' = Pending BY <1>1, <1>2, <2>1
  <2>3. QED BY <2>1, <2>2 DEF Channel!Next, Channel!Close
<1>10. CASE Resume
  <2>1. /\ ~running /\ running' = TRUE /\ file' \in {file, file + 1}
        /\ UNCHANGED <<accepted, printed>>
    BY <1>10 DEF Resume
  <2>2. q = 0
    <3>1. worker = "ended" /\ Left = 0 BY <1>10 DEF IInv, RingInv, Resume
    <3>2. Printing = 0 BY <3>1 DEF Printing
    <3>3. QED BY <1>0, <3>1, <3>2 DEF Left
  <2>3. q' = 0 BY <2>1, <2>2
  <2>4. Pending = <<>> /\ Pending' = <<>> BY <1>1, <1>2, <2>2, <2>3
  <2>5. QED BY <2>1, <2>4 DEF Channel!Next, Channel!Open
<1>11. QED
  BY <1>5, <1>6, <1>7, <1>8, <1>9, <1>10 DEF Next, WorkerStep

\* The ring buffer and its worker implement the channel.
THEOREM ImplementsChannel == Spec => IsChannel
<1>1. Init => Channel!Init
  <2> SUFFICES ASSUME Init PROVE Channel!Init OBVIOUS
  <2>1. Len(accepted) = 0 /\ Len(printed) = 0 BY DEF Init
  <2>2. Pending = [k \in 1..(Len(accepted) - Len(printed)) |->
                      [msg |-> Len(printed) + k, file |-> file]]
    BY InitInv, PendingIs DEF PendingInv
  <2>3. Pending = <<>> BY <2>1, <2>2
  <2>4. QED BY <2>3 DEF Init, Channel!Init
<1>2. QED BY <1>1, ChannelStep, IndInvariant, PTL DEF Spec, Channel!Spec, IsChannel
=============================================================================
