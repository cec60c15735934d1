------------------------------- MODULE UartRx -------------------------------
(***************************************************************************)
(* The receive path of one UART port (drivers/uart/uart.c) as the EDC      *)
(* payload driver uses it (drivers/edc/edc_uart.c): the receive interrupt  *)
(* pushes into the port's ring buffer while a task reads or flushes it.    *)
(*                                                                         *)
(* The task and the interrupt share the buffer without disabling           *)
(* interrupts.  An interrupt handler runs to completion; the task can be   *)
(* interrupted between any two statements of queue_pop_front and           *)
(* queue_init, so those two run one statement per action.  The firmware is *)
(* built without optimisation (.cproject, OPT_LEVEL.off): the statements   *)
(* reach memory in source order, and size++ and size-- are one             *)
(* memory-to-memory instruction each.                                      *)
(***************************************************************************)
EXTENDS Queue, Sequences

CONSTANT ReadLengths \* the lengths uart_read is called with

ASSUME UartRxAssumption == ReadLengths \subseteq Nat \ {0}

VARIABLES pc,     \* the next statement of the task
          byte,   \* local byte of queue_pop_front
          ret,    \* what the last queue_pop_front returned
          todo,   \* bytes uart_read still has to pop
          fill,   \* loop index of queue_init
          missed, \* history: bytes accepted after "tail = 0" of the last
                  \* flush and before its "size = 0"
          late    \* history: a byte arrived during the last flush

task == <<pc, byte, ret, todo, fill>>
history == <<missed, late>>
vars == <<queue, task, history>>

PopSteps   == {"byte", "head", "wrap", "size"}
FlushSteps == {"clear_tail", "clear_size", "clear_data"}

Init ==
  /\ QueueInit
  /\ pc = "idle" /\ byte = DEFAULT_BYTE /\ ret = DEFAULT_BYTE
  /\ todo = 0 /\ fill = 0
  /\ missed = 0 /\ late = FALSE

(* USCI_A1_ISR: the byte is pushed, the result of the push is ignored.     *)
Receive(b) ==
  /\ PushBack(b)
  /\ missed' = IF pc = "clear_size" /\ ~IsFull THEN missed + 1 ELSE missed
  /\ late' = (late \/ pc \in FlushSteps)
  /\ UNCHANGED task

-----------------------------------------------------------------------------
(* edc_read asks for the number of bytes available, converted to the       *)
(* 16-bit int of the target, and reads only if it is positive; uart_read   *)
(* clips the length to the size of the buffer.                             *)
Available == IF size <= UINT16_MAX \div 2 THEN size ELSE size - UINT16_MAX - 1

Read(len) ==
  /\ pc = "idle" /\ todo = 0
  /\ Available > 0
  /\ todo' = IF len > LENGTH THEN LENGTH ELSE len
  /\ UNCHANGED <<queue, pc, byte, ret, fill, history>>

PopEmpty ==
  /\ pc = "idle" /\ todo > 0
  /\ IsEmpty
  /\ ret' = DEFAULT_BYTE
  /\ todo' = todo - 1
  /\ UNCHANGED <<queue, pc, byte, fill, history>>

PopTest ==
  /\ pc = "idle" /\ todo > 0
  /\ ~IsEmpty
  /\ pc' = "byte"
  /\ UNCHANGED <<queue, byte, ret, todo, fill, history>>

PopByte ==
  /\ pc = "byte"
  /\ byte' = data[head]
  /\ pc' = "head"
  /\ UNCHANGED <<queue, ret, todo, fill, history>>

PopHead ==
  /\ pc = "head"
  /\ head' = head + 1
  /\ pc' = "wrap"
  /\ UNCHANGED <<data, tail, size, byte, ret, todo, fill, history>>

\* Mutant: head is wrapped one cell too late.
PopWrapLate ==
  /\ pc = "wrap"
  /\ head' = IF head > LENGTH THEN 0 ELSE head
  /\ pc' = "size"
  /\ UNCHANGED <<data, tail, size, byte, ret, todo, fill, history>>

PopWrap ==
  /\ pc = "wrap"
  /\ head' = Wrap(head)
  /\ pc' = "size"
  /\ UNCHANGED <<data, tail, size, byte, ret, todo, fill, history>>

PopSize ==
  /\ pc = "size"
  /\ size' = Dec(size)
  /\ ret' = byte
  /\ todo' = todo - 1
  /\ pc' = "idle"
  /\ UNCHANGED <<data, head, tail, byte, fill, history>>

-----------------------------------------------------------------------------
(* edc_uart_write flushes the buffer before each command: queue_clear is   *)
(* queue_init, whose first statement is head = 0.                          *)
Flush ==
  /\ pc = "idle" /\ todo = 0
  /\ head' = 0
  /\ missed' = 0 /\ late' = FALSE
  /\ pc' = "clear_tail"
  /\ UNCHANGED <<data, tail, size, byte, ret, todo, fill>>

ClearTail ==
  /\ pc = "clear_tail"
  /\ tail' = 0
  /\ pc' = "clear_size"
  /\ UNCHANGED <<data, head, size, byte, ret, todo, fill, history>>

ClearSize ==
  /\ pc = "clear_size"
  /\ size' = 0
  /\ fill' = 0
  /\ pc' = "clear_data"
  /\ UNCHANGED <<data, head, tail, byte, ret, todo, history>>

ClearData ==
  /\ pc = "clear_data"
  /\ data' = [data EXCEPT ![fill] = DEFAULT_BYTE]
  /\ fill' = Wrap(fill + 1)
  /\ pc' = IF fill + 1 = LENGTH THEN "idle" ELSE pc
  /\ UNCHANGED <<head, tail, size, byte, ret, todo, history>>

-----------------------------------------------------------------------------
Next ==
  \/ \E b \in Byte : Receive(b)
  \/ \E len \in ReadLengths : Read(len)
  \/ PopEmpty \/ PopTest \/ PopByte \/ PopHead \/ PopWrap \/ PopSize
  \/ Flush \/ ClearTail \/ ClearSize \/ ClearData

Spec == Init /\ [][Next]_vars

-----------------------------------------------------------------------------
TypeOK ==
  /\ data \in [0 .. LENGTH - 1 -> Byte]
  /\ head \in 0 .. LENGTH
  /\ tail \in 0 .. LENGTH - 1
  /\ size \in 0 .. UINT16_MAX
  /\ pc \in {"idle"} \cup PopSteps \cup FlushSteps
  /\ byte \in Byte /\ ret \in Byte
  /\ todo \in 0 .. LENGTH
  /\ fill \in 0 .. LENGTH - 1
  /\ missed \in 0 .. LENGTH - 1 /\ late \in BOOLEAN

(* head is one past the array only between head++ and its wrap: no         *)
(* interrupt ever sees a task read or a push outside the data array.       *)
HeadInBounds == head = LENGTH => pc = "wrap"

(* A byte queue_pop_front has already removed but not yet subtracted.      *)
Pending == IF pc \in {"wrap", "size"} THEN 1 ELSE 0

(* The counter against the indexes, however the interrupts fall: outside   *)
(* the three counter statements of a flush, size is the number of bytes    *)
(* held, plus the one being popped, minus the bytes the interrupt pushed   *)
(* between "tail = 0" and "size = 0" of the last flush (modulo 2^16).  So  *)
(* that one window is the only place where the counter can go wrong, and   *)
(* the next flush that is not hit there repairs it.                        *)
Counter(n) == IF n < 0 THEN n + UINT16_MAX + 1 ELSE n

SizeDrift == pc \notin {"clear_tail", "clear_size"} =>
               size = Counter(Occupancy + Pending - missed)

(* A byte is read out of the buffer only if one is there: between the test *)
(* queue_empty and head++ the interrupt can only add.                      *)
PopFinds == pc \in {"byte", "head"} => ~IsEmpty

(* The port is a FIFO.  A pop takes effect at head++ and a flush from      *)
(* head = 0 on.  If a byte arrives during a flush, bytes may be lost,      *)
(* repeated or overwritten until the next flush, and no longer.            *)
Contents == IF late \/ pc \in FlushSteps THEN <<>> ELSE Held
Popped   == IF pc \in {"wrap", "size"} THEN byte ELSE ret
Mode     == IF late THEN "spoiled" ELSE IF pc \in FlushSteps THEN "clearing" ELSE "sound"

RxFifo == INSTANCE Fifo WITH Capacity <- LENGTH - 1, contents <- Contents,
                             popped <- Popped, mode <- Mode
ImplementsFifo == RxFifo!Spec
=============================================================================
