---------------------------- MODULE LogChannel ----------------------------
(* What common_log promises its callers: accepted messages come out once,  *)
(* in order, into the file that was set when they were accepted, and a log *)
(* that was closed is empty before it is opened again.                     *)
EXTENDS Naturals, Sequences

VARIABLES
    open,       \* messages are accepted, otherwise they are discarded
    file,       \* the file in use
    queue,      \* accepted messages that are not out yet, each with its file
    out         \* the messages that are out

vars == <<open, file, queue, out>>

Init == open = TRUE /\ file = 0 /\ queue = <<>> /\ out = <<>>

\* A message is one more than those accepted so far.
Accept ==
    /\ open
    /\ queue' = Append(queue, [msg |-> Len(out) + Len(queue) + 1, file |-> file])
    /\ UNCHANGED <<open, file, out>>

Emit ==
    /\ queue # <<>>
    /\ out' = Append(out, Head(queue)) /\ queue' = Tail(queue)
    /\ UNCHANGED <<open, file>>

Close == open /\ open' = FALSE /\ UNCHANGED <<file, queue, out>>

\* The log may be opened with another file.
Open ==
    /\ ~open /\ queue = <<>>
    /\ open' = TRUE /\ file' \in {file, file + 1} /\ UNCHANGED <<queue, out>>

Next == Accept \/ Emit \/ Close \/ Open

Spec == Init /\ [][Next]_vars
=============================================================================
