------------------------------- MODULE SysLog -------------------------------
(***************************************************************************)
(* The system log (system/sys_log): sys_log_print_event takes a mutex, the *)
(* caller prints the rest of its line, sys_log_new_line gives the mutex    *)
(* back.  The result of the take is ignored: a task whose take has waited  *)
(* SYS_LOG_MUTEX_WAIT_TIME_MS prints all the same, and its sys_log_new_line *)
(* then gives a mutex it does not hold.                                    *)
(*                                                                         *)
(* The tasks are preempted anywhere, so their steps interleave freely.     *)
(* The FreeRTOS mutex is modelled by its count and holder (queue.c,        *)
(* tasks.c): a give by a task that is not the holder fails configASSERT,   *)
(* which disables interrupts and loops for ever.                           *)
(***************************************************************************)
EXTENDS Naturals

CONSTANTS Tasks,    \* the tasks that write to the log
          NoTask,   \* no holder
          Failures  \* what may go wrong: "init", the log has no mutex;
                    \* "timeout", a take waits for its whole time-out

ASSUME SysLogAssumption == NoTask \notin Tasks

VARIABLES created, \* xSysLogSemaphore # NULL
          holder,  \* the holder of the mutex; NoTask: its count is 1
          pc,      \* where each task is in the call sequence of one line
          ok,      \* result of the task's last sys_log_mutex_take
          line,    \* who wrote the open console line: <<task, ok>>
          halted   \* a configASSERT has failed

logVars == <<created, holder, pc, ok, line, halted>>

(* sys_log_init creates the mutex last; it does not if the UART or the     *)
(* heap fails, and the start-up goes on without it.                        *)
LogInit ==
  /\ created = TRUE \/ ("init" \in Failures /\ created = FALSE)
  /\ holder = NoTask
  /\ pc = [t \in Tasks |-> "idle"]
  /\ ok = [t \in Tasks |-> FALSE]
  /\ line = {}
  /\ halted = FALSE

Enter(t, result) ==
  /\ pc' = [pc EXCEPT ![t] = "print"]
  /\ ok' = [ok EXCEPT ![t] = result]

(* xSemaphoreTake succeeds, at once or after a wait.  A give does not hand *)
(* the mutex over: the task it wakes competes for it again.                *)
TakeUnchecked(t) == \* mutant: does not look at the count
  /\ ~halted /\ pc[t] \in {"idle", "wait"}
  /\ created
  /\ holder' = t
  /\ Enter(t, TRUE)
  /\ UNCHANGED <<created, line, halted>>

Take(t) ==
  /\ ~halted /\ pc[t] \in {"idle", "wait"}
  /\ created /\ holder = NoTask
  /\ holder' = t
  /\ Enter(t, TRUE)
  /\ UNCHANGED <<created, line, halted>>

Wait(t) ==
  /\ ~halted /\ pc[t] = "idle"
  /\ created /\ holder # NoTask
  /\ pc' = [pc EXCEPT ![t] = "wait"]
  /\ UNCHANGED <<created, holder, ok, line, halted>>

\* A take that expires tries once more before it gives up.
TimeOut(t) ==
  /\ ~halted /\ pc[t] = "wait"
  /\ "timeout" \in Failures /\ holder # NoTask
  /\ Enter(t, FALSE)
  /\ UNCHANGED <<created, holder, line, halted>>

TakeWithoutMutex(t) ==
  /\ ~halted /\ pc[t] = "idle"
  /\ ~created
  /\ Enter(t, FALSE)
  /\ UNCHANGED <<created, holder, line, halted>>

\* The event's text and the sys_log_print_* calls that follow it.
PrintMsg(t) ==
  /\ ~halted /\ pc[t] = "print"
  /\ line' = line \cup {<<t, ok[t]>>}
  /\ \/ pc' = pc
     \/ pc' = [pc EXCEPT ![t] = "newline"]
  /\ UNCHANGED <<created, holder, ok, halted>>

NewLineForgotten(t) == \* mutant: gives the mutex without ending the line
  /\ ~halted /\ pc[t] = "newline"
  /\ pc' = [pc EXCEPT ![t] = "give"]
  /\ UNCHANGED <<created, holder, ok, line, halted>>

NewLine(t) ==
  /\ ~halted /\ pc[t] = "newline"
  /\ line' = {}
  /\ pc' = [pc EXCEPT ![t] = "give"]
  /\ UNCHANGED <<created, holder, ok, halted>>

(* xSemaphoreGive.  With the count at 1 it fails and nothing changes.      *)
Give(t) ==
  /\ ~halted /\ pc[t] = "give"
  /\ IF created /\ holder \notin {NoTask, t}
     THEN halted' = TRUE /\ UNCHANGED <<holder, pc>>
     ELSE /\ holder' = IF created THEN NoTask ELSE holder
          /\ pc' = [pc EXCEPT ![t] = "idle"]
          /\ UNCHANGED halted
  /\ UNCHANGED <<created, ok, line>>

LogNext ==
  \E t \in Tasks :
    \/ Take(t) \/ Wait(t) \/ TimeOut(t) \/ TakeWithoutMutex(t)
    \/ PrintMsg(t) \/ NewLine(t) \/ Give(t)

LogSpec == LogInit /\ [][LogNext]_logVars

-----------------------------------------------------------------------------
LogTypeOK ==
  /\ created \in BOOLEAN
  /\ holder \in Tasks \cup {NoTask}
  /\ pc \in [Tasks -> {"idle", "wait", "print", "newline", "give"}]
  /\ ok \in [Tasks -> BOOLEAN]
  /\ line \subseteq Tasks \X BOOLEAN
  /\ halted \in BOOLEAN

Writing(t) == pc[t] \in {"print", "newline", "give"}

(* A task that did get the mutex keeps it until its own sys_log_new_line,  *)
(* whatever the tasks that gave up waiting do; and the mutex is never left *)
(* with a task that has finished its line.                                 *)
HolderOwns ==
  \A t \in Tasks : (Writing(t) /\ ok[t]) <=> holder = t

(* Only a task whose take has failed can stop the system: a task that took *)
(* the mutex never fails the kernel's assertion, whatever the others do.   *)
HaltsAreForced == halted => \E t \in Tasks : pc[t] = "give" /\ ~ok[t]

(* "If a mutex is given by the holding task then it must be the running    *)
(* state task" (freertos/tasks.c): the assertion of xTaskPriorityDisinherit *)
(* never fails.                                                            *)
GivenByHolder == ~halted

(* What is written with the mutex is a LineLog: the tasks that hold it     *)
(* never tear each other's lines, only those whose take failed do.         *)
Owned(t) == <<t, TRUE>> \in line
Writer == IF \E t \in Tasks : Owned(t) THEN CHOOSE t \in Tasks : Owned(t) ELSE NoTask

Console == INSTANCE LineLog WITH writer <- Writer
ImplementsLineLog == Console!Spec
=============================================================================
