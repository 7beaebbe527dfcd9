------------------------------ MODULE FileCall ------------------------------
(***************************************************************************)
(* What a codec function promises of its output file, without blocks,      *)
(* buffers or library calls: the file is either what the call owes in full *)
(* or it is gone, unless the process was killed in the middle.             *)
(***************************************************************************)
EXTENDS Sequences

VARIABLES
    running,    \* the output has been opened and the call has not returned
    output,     \* the output file: whether it is there, and its items
    owed,       \* the items a success has to leave
    ended       \* how the last call ended

vars == <<running, output, owed, ended>>

File(items) == [there |-> TRUE, items |-> items]

Init == ~running /\ ended = "none"

\* A return before the output is opened.
Refuse ==
    /\ ~running /\ ~running'
    /\ ended' = "refused"
    /\ UNCHANGED output

Open ==
    /\ ~running /\ running'
    /\ output' = File(<<>>)
    /\ ended' = "none"

\* While the call runs its file may hold anything, and what it owes may
\* become known only as it reads.
Work ==
    /\ running /\ running'
    /\ output'.there
    /\ UNCHANGED ended

Succeed ==
    /\ running /\ ~running'
    /\ output' = File(owed)
    /\ ended' = "ok"
    /\ UNCHANGED owed

Fail ==
    /\ running /\ ~running'
    /\ ~output'.there
    /\ ended' = "failed"

Die ==
    /\ running /\ ~running'
    /\ ended' = "killed"
    /\ UNCHANGED output

\* Between calls the file is out of the function's hands.
Elsewhere == ~running /\ ~running' /\ UNCHANGED ended

Next == Refuse \/ Open \/ Work \/ Succeed \/ Fail \/ Die \/ Elsewhere

Spec == Init /\ [][Next]_vars

====
