------------------------------ MODULE LineLog ------------------------------
(***************************************************************************)
(* What the system log promises its readers: a line of the console comes   *)
(* from one task.                                                          *)
(***************************************************************************)
CONSTANTS Tasks, NoTask

VARIABLE writer \* the task whose text is in the line being written

Init == writer = NoTask

Write(t) == writer \in {NoTask, t} /\ writer' = t

EndLine == writer' = NoTask

Next == (\E t \in Tasks : Write(t)) \/ EndLine

Spec == Init /\ [][Next]_writer
=============================================================================
