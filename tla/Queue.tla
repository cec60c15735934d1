------------------------------- MODULE Queue -------------------------------
(***************************************************************************)
(* The ring buffer of libs/containers/queue.c: LENGTH cells, a head and a  *)
(* tail index and a separate 16-bit element counter.  One cell is always   *)
(* left free: the buffer is empty when head = tail and full when tail is   *)
(* one cell behind head.                                                   *)
(*                                                                         *)
(* The operators are actions on the fields of queue_t.  They are whole     *)
(* functions; UartRx runs queue_pop_front and queue_init statement by      *)
(* statement, because an interrupt may fall between two statements.        *)
(***************************************************************************)
EXTENDS Integers

CONSTANTS Byte,         \* the byte values that are told apart
          DEFAULT_BYTE, \* QUEUE_DEFAULT_BYTE: an unused cell, and "nothing"
          LENGTH        \* QUEUE_LENGTH, 300 in the code

UINT16_MAX == 65535

ASSUME QueueAssumption ==
  /\ DEFAULT_BYTE \in Byte
  /\ LENGTH \in Nat
  /\ 2 <= LENGTH /\ LENGTH <= UINT16_MAX \div 2

VARIABLES data, head, tail, size

queue == <<data, head, tail, size>>

\* uint16_t arithmetic of queue->size++ and queue->size--.
Inc(n) == IF n = UINT16_MAX THEN 0 ELSE n + 1
Dec(n) == IF n = 0 THEN UINT16_MAX ELSE n - 1

QueueInit ==
  /\ data = [k \in 0 .. LENGTH - 1 |-> DEFAULT_BYTE]
  /\ head = 0 /\ tail = 0 /\ size = 0

IsEmpty == head = tail

\* Mutant: the buffer is not full when tail is at the end of the array.
IsFullUnwrapped == tail + 1 = head

IsFull == \/ tail + 1 = head
          \/ tail + 1 = LENGTH /\ head = 0

\* The index after k, wrapped to the start of the data array.
Wrap(k) == IF k = LENGTH THEN 0 ELSE k

\* Mutant: a dropped byte is counted.
PushBackCountsDropped(b) ==
  /\ data' = IF IsFull THEN data ELSE [data EXCEPT ![tail] = b]
  /\ tail' = IF IsFull THEN tail ELSE Wrap(tail + 1)
  /\ size' = Inc(size)
  /\ UNCHANGED head

PushBack(b) ==
  IF IsFull
  THEN UNCHANGED queue
  ELSE /\ data' = [data EXCEPT ![tail] = b]
       /\ tail' = Wrap(tail + 1)
       /\ size' = Inc(size)
       /\ UNCHANGED head

-----------------------------------------------------------------------------
(* The bytes between head and tail, whatever the counter says.             *)
Occupancy == IF head <= tail THEN tail - head ELSE LENGTH - head + tail

\* The cell of the k-th oldest byte, k = 1 .. Occupancy.
Cell(k) == IF head + k - 1 < LENGTH THEN head + k - 1 ELSE head + k - 1 - LENGTH

Held == [k \in 1 .. Occupancy |-> data[Cell(k)]]
=============================================================================
