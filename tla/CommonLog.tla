----------------------------- MODULE CommonLog -----------------------------
(* common/log.cpp: the ring buffer between the threads that log and the    *)
(* worker thread that prints.  One action per critical section of mtx.     *)
(*                                                                         *)
(* pause, resume, set_file, set_colors and flush are "not thread-safe"     *)
(* (common/log.h): one thread, the controller, calls them, while any       *)
(* thread may add.  A message is the number of the messages accepted so    *)
(* far; what the text looks like is left out.                              *)
EXTENDS Integers, Sequences

CONSTANTS
    Capacity,       \* the size of a new ring (256 in the program)
    MaxMsgs,        \* bound: messages accepted
    MaxPauses       \* bound: calls that pause the log

ASSUME CapacityAssumption == Capacity \in Nat \ {0}
ASSUME BoundsAssumption == MaxMsgs \in Nat /\ MaxPauses \in Nat

VARIABLES
    entries,        \* the ring buffer, of size entries
    size,
    head, tail,
    running,
    worker,         \* "wait": blocked on cv; "ready": about to test head # tail;
                    \* "print": has a message in cur; "ended": left its loop
    cur,            \* the entry the worker has taken
    file,           \* number of the file in use
    ctl,            \* "idle"; "join" in pause(); "reopen" between pause() and resume()
    reopen,         \* the call in progress resumes after its pause
    pauses,         \* calls of pause() so far
    accepted,       \* history: the file in use when each message was accepted
    printed         \* history: messages printed, each with the file it went to

ring_vars == <<entries, size, head, tail>>
vars == <<entries, size, head, tail, running, worker, cur, file, ctl, reopen, pauses,
          accepted, printed>>

Entry == [msg : Nat, is_end : BOOLEAN]
Fresh == [msg |-> 0, is_end |-> FALSE]

WorkerStates == {"wait", "ready", "print", "ended"}

TypeOK ==
    /\ size \in Nat \ {0} /\ entries \in [0..(size - 1) -> Entry]
    /\ head \in 0..(size - 1) /\ tail \in 0..(size - 1)
    /\ running \in BOOLEAN /\ worker \in WorkerStates /\ cur \in Entry
    /\ file \in Nat /\ ctl \in {"idle", "join", "reopen"} /\ reopen \in BOOLEAN
    /\ pauses \in Nat /\ accepted \in Seq(Nat)
    /\ printed \in Seq([msg : Nat, file : Nat])

\* The constructor ends with resume().
Init ==
    /\ size = Capacity /\ entries = [i \in 0..(Capacity - 1) |-> Fresh]
    /\ head = 0 /\ tail = 0
    /\ running = TRUE /\ worker = "ready" /\ cur = Fresh
    /\ file = 0 /\ ctl = "idle" /\ reopen = FALSE /\ pauses = 0
    /\ accepted = <<>> /\ printed = <<>>

\* cv.notify_one: the worker is the only thread that waits on cv.
Notify == worker' = IF worker = "wait" THEN "ready" ELSE worker

----------------------------------------------------------------------------
(* The threads that log. *)

\* Mutant of Written: is_end is left as the entry's last use set it.
Written_keeps_end == [entries EXCEPT ![tail].msg = Len(accepted) + 1]

\* The ring with the message at tail.
Written == [entries EXCEPT ![tail] = [msg |-> Len(accepted) + 1, is_end |-> FALSE]]

\* Mutant of Unrolled: the entries are copied as they lie.
Unrolled_in_place(ring) ==
    [i \in 0..(2 * size - 1) |-> IF i < size THEN ring[i] ELSE Fresh]

\* The entries of a full ring, the oldest first, in a ring twice as large.
Unrolled(ring) ==
    [i \in 0..(2 * size - 1) |-> IF i < size THEN ring[(head + i) % size] ELSE Fresh]

\* add: a message that comes while the worker is paused is discarded.  A ring
\* that has become full is doubled.
Add ==
    /\ Len(accepted) < MaxMsgs
    /\ running
    /\ accepted' = Append(accepted, file)
    /\ IF (tail + 1) % size = head
       THEN /\ entries' = Unrolled(Written)
            /\ size' = 2 * size /\ head' = 0 /\ tail' = size
       ELSE /\ entries' = Written
            /\ tail' = (tail + 1) % size /\ UNCHANGED <<size, head>>
    /\ Notify
    /\ UNCHANGED <<running, cur, file, ctl, reopen, pauses, printed>>

----------------------------------------------------------------------------
(* The worker thread. *)

WorkerWait ==
    /\ worker = "ready" /\ head = tail
    /\ worker' = "wait"
    /\ UNCHANGED <<ring_vars, running, cur, file, ctl, reopen, pauses, accepted, printed>>

\* Mutant of WorkerTake: the stop signal is obeyed before the ring is empty.
WorkerTake_stop_first ==
    /\ worker = "ready" /\ head # tail
    /\ cur' = entries[head] /\ head' = (head + 1) % size
    /\ worker' = IF ~running THEN "ended" ELSE "print"
    /\ UNCHANGED <<entries, size, tail, running, file, ctl, reopen, pauses, accepted, printed>>

\* The oldest entry is copied; the one that pause() pushes ends the thread.
WorkerTake ==
    /\ worker = "ready" /\ head # tail
    /\ cur' = entries[head] /\ head' = (head + 1) % size
    /\ worker' = IF entries[head].is_end THEN "ended" ELSE "print"
    /\ UNCHANGED <<entries, size, tail, running, file, ctl, reopen, pauses, accepted, printed>>

\* Outside the mutex: to the terminal, then to the file.
WorkerPrint ==
    /\ worker = "print"
    /\ printed' = Append(printed, [msg |-> cur.msg, file |-> file])
    /\ worker' = "ready"
    /\ UNCHANGED <<ring_vars, running, cur, file, ctl, reopen, pauses, accepted>>

SpuriousWake ==
    /\ worker = "wait" /\ worker' = "ready"
    /\ UNCHANGED <<ring_vars, running, cur, file, ctl, reopen, pauses, accepted, printed>>

----------------------------------------------------------------------------
(* The controller. *)

\* Mutant of Pause: the worker is not told.
Pause_no_notify ==
    /\ ctl = "idle" /\ running /\ pauses < MaxPauses
    /\ running' = FALSE
    /\ entries' = [entries EXCEPT ![tail].is_end = TRUE]
    /\ tail' = (tail + 1) % size
    /\ ctl' = "join" /\ reopen' \in BOOLEAN /\ pauses' = pauses + 1
    /\ UNCHANGED <<size, head, worker, cur, file, accepted, printed>>

\* The critical section of pause(), called by itself or as the first part of
\* set_file, set_colors or flush (reopen).  On a paused log it returns at once.
Pause ==
    /\ ctl = "idle" /\ running /\ pauses < MaxPauses
    /\ running' = FALSE
    /\ entries' = [entries EXCEPT ![tail].is_end = TRUE]
    /\ tail' = (tail + 1) % size
    /\ Notify
    /\ ctl' = "join" /\ reopen' \in BOOLEAN /\ pauses' = pauses + 1
    /\ UNCHANGED <<size, head, cur, file, accepted, printed>>

\* thrd.join() returns.
Join ==
    /\ ctl = "join" /\ worker = "ended"
    /\ ctl' = IF reopen THEN "reopen" ELSE "idle"
    /\ UNCHANGED <<ring_vars, running, worker, cur, file, reopen, pauses, accepted, printed>>

\* resume(), called by itself or as the last part of set_file, set_colors or
\* flush; set_file has replaced the file, which nobody reads while the log is
\* paused.  On a running log it returns at once.
Resume ==
    /\ ctl \in {"idle", "reopen"} /\ ~running
    /\ file' \in {file} \cup {n \in {file + 1} : ctl = "reopen"}
    /\ running' = TRUE /\ worker' = "ready" /\ ctl' = "idle"
    /\ UNCHANGED <<ring_vars, cur, reopen, pauses, accepted, printed>>

WorkerStep == WorkerWait \/ WorkerTake \/ WorkerPrint

Next == Add \/ WorkerStep \/ SpuriousWake \/ Pause \/ Join \/ Resume

Spec == Init /\ [][Next]_vars

\* The worker is scheduled, and so is a controller that joins it.
FairSpec == Spec /\ WF_vars(WorkerStep) /\ WF_vars(Join)

----------------------------------------------------------------------------
(* Properties. *)

\* What is printed is what was accepted, in the order of acceptance, each
\* message once and into the file that was in use when it was accepted,
\* although the ring wraps around and is doubled while the worker reads it.
InOrder ==
    /\ Len(printed) <= Len(accepted)
    /\ \A i \in 1..Len(printed) : printed[i] = [msg |-> i, file |-> accepted[i]]

\* When pause() has returned, every accepted message has been printed: the
\* caller may now replace the file or end the program.
Flushed ==
    (~running /\ ctl # "join") => Len(printed) = Len(accepted)

\* pause() found the ring one short of full: its end entry moved tail onto
\* head, and the ring looks empty.
Wrapped == ~running /\ worker # "ended" /\ head = tail

\* pause() returns, whatever the worker was doing, unless its end entry has
\* filled the ring.
PauseReturns == (ctl = "join") ~> (ctl # "join" \/ Wrapped)

\* The messages in the ring: all of the entries between head and tail but
\* the end entry.
InRing ==
    (IF Wrapped THEN size ELSE (tail + size - head) % size)
      - (IF ~running /\ worker # "ended" THEN 1 ELSE 0)

\* The messages that are not printed yet, the one the worker holds first.
Printing == IF worker = "print" THEN 1 ELSE 0
Pending ==
    [k \in 1..(Printing + InRing) |->
        [msg  |-> IF k <= Printing THEN cur.msg ELSE entries[(head + k - 1 - Printing) % size].msg,
         file |-> file]]

Channel == INSTANCE LogChannel WITH open <- running, queue <- Pending, out <- printed

\* The log is a channel that loses, repeats and reorders nothing, and that is
\* empty when it is opened again.
IsChannel == Channel!Spec
=============================================================================
