---------------------------- MODULE UartRxProofs ----------------------------
(***************************************************************************)
(* Proofs about the UART receive path, for every buffer length, every set  *)
(* of bytes and read lengths, and, in the second half, about the reading   *)
(* of the EDC payload that stands on it (ReadEdc), for every number of     *)
(* packets and every lag of the payload.                                   *)
(***************************************************************************)
EXTENDS UartRx, ReadEdc, SequenceTheorems, FiniteSetTheorems, TLAPS

(* The inductive invariant: the counter is tied to the indexes at every    *)
(* statement, and a flush starts from head = 0.  FlushState is needed      *)
(* because SizeDrift says nothing between "head = 0" and "size = 0": there *)
(* the buffer holds exactly the bytes the interrupt has just pushed.       *)
FlushState ==
  /\ pc = "clear_tail" => head = 0 /\ missed = 0
  /\ pc = "clear_size" => head = 0 /\ missed = Occupancy

PopState ==
  /\ pc \in PopSteps => todo > 0
  /\ pc = "wrap" => head > 0

IInv == TypeOK /\ HeadInBounds /\ SizeDrift /\ PopFinds /\ FlushState /\ PopState

-----------------------------------------------------------------------------
(* The counter is wider than any length of the buffer.                     *)
LEMMA CounterWidth == UINT16_MAX \in Nat /\ LENGTH < UINT16_MAX
  BY QueueAssumption, SMT DEF UINT16_MAX

(* queue_full reports exactly the state in which LENGTH - 1 bytes are      *)
(* held, also while head is one past the array.                            *)
LEMMA FullIsCapacity ==
  ASSUME head \in 0 .. LENGTH, tail \in 0 .. LENGTH - 1
  PROVE  IsFull <=> Occupancy = LENGTH - 1
  BY QueueAssumption DEF IsFull, Occupancy

(* A push that is not refused adds one to the occupancy and leaves the     *)
(* buffer non-empty.                                                       *)
LEMMA PushGrows ==
  ASSUME head \in 0 .. LENGTH, tail \in 0 .. LENGTH - 1,
         NEW b \in Byte, PushBack(b), ~IsFull
  PROVE  /\ head' = head
         /\ tail' \in 0 .. LENGTH - 1
         /\ Occupancy' = Occupancy + 1
         /\ ~IsEmpty \/ head # LENGTH => ~IsEmpty'
  BY QueueAssumption DEF PushBack, IsFull, IsEmpty, Occupancy, Wrap

LEMMA OccupancyBounds ==
  ASSUME head \in 0 .. LENGTH, tail \in 0 .. LENGTH - 1
  PROVE  Occupancy \in 0 .. LENGTH - 1
  BY QueueAssumption DEF Occupancy

-----------------------------------------------------------------------------
(* The parts of the invariant that depend on the indexes only.             *)
LEMMA SameIndexes ==
  ASSUME UNCHANGED <<head, tail>>
  PROVE  Occupancy' = Occupancy /\ (IsEmpty' <=> IsEmpty)
  BY DEF Occupancy, IsEmpty

(* The initial state satisfies the inductive invariant.                    *)
LEMMA InitIInv == Init => IInv
<1> SUFFICES ASSUME Init PROVE IInv
  OBVIOUS
<1> USE QueueAssumption, CounterWidth DEF Init, QueueInit
<1>1. TypeOK
  <2>1. /\ data \in [0 .. LENGTH - 1 -> Byte] /\ late \in BOOLEAN
        /\ pc \in {"idle"} \cup PopSteps \cup FlushSteps
    OBVIOUS
  <2>2. /\ head \in 0 .. LENGTH /\ tail \in 0 .. LENGTH - 1
        /\ size \in 0 .. UINT16_MAX
    OBVIOUS
  <2>3. /\ byte \in Byte /\ ret \in Byte
        /\ todo \in 0 .. LENGTH /\ fill \in 0 .. LENGTH - 1
        /\ missed \in 0 .. LENGTH - 1
    OBVIOUS
  <2> QED
    BY <2>1, <2>2, <2>3 DEF TypeOK
<1>2. Occupancy = 0 /\ Pending = 0
  BY DEF Occupancy, Pending
<1>3. SizeDrift
  BY <1>2 DEF SizeDrift, Counter
<1>4. HeadInBounds /\ PopFinds /\ FlushState /\ PopState
  BY DEF HeadInBounds, PopFinds, FlushState, PopState, PopSteps
<1> QED
  BY <1>1, <1>3, <1>4 DEF IInv

(* A step that keeps pc, the loop indexes and both buffer indexes keeps    *)
(* every part of the invariant except the types and the counter.           *)
LEMMA SameControl ==
  ASSUME HeadInBounds, PopFinds, FlushState, PopState,
         pc' = pc, todo' = todo, head' = head, missed' = missed,
         Occupancy' = Occupancy, ~IsEmpty => ~IsEmpty'
  PROVE  HeadInBounds' /\ PopFinds' /\ FlushState' /\ PopState'
<1>1. HeadInBounds'
  BY DEF HeadInBounds
<1>2. PopFinds'
  BY DEF PopFinds
<1>3. FlushState'
  BY DEF FlushState
<1>4. PopState'
  BY DEF PopState, PopSteps
<1> QED
  BY <1>1, <1>2, <1>3, <1>4

(* The receive interrupt preserves it at every statement of the task.      *)
LEMMA ReceiveIInv ==
  ASSUME IInv, NEW b \in Byte, Receive(b)
  PROVE  IInv'
<1>1. TypeOK /\ HeadInBounds /\ SizeDrift /\ PopFinds /\ FlushState /\ PopState
  BY DEF IInv
<1>2. /\ pc' = pc /\ byte' = byte /\ ret' = ret /\ todo' = todo /\ fill' = fill
      /\ late \in BOOLEAN => late' \in BOOLEAN
  BY DEF Receive, task
<1>3. Pending' = Pending /\ Pending \in {0, 1}
  BY <1>2 DEF Pending
<1>4. head \in 0 .. LENGTH /\ tail \in 0 .. LENGTH - 1
  BY <1>1 DEF TypeOK
<1>5. size \in 0 .. UINT16_MAX /\ missed \in 0 .. LENGTH - 1
  BY <1>1 DEF TypeOK
<1>6. CASE IsFull
  <2>1. data' = data /\ head' = head /\ tail' = tail /\ size' = size /\ missed' = missed
    BY <1>6 DEF Receive, PushBack, queue
  <2>2. Occupancy' = Occupancy /\ (IsEmpty' <=> IsEmpty)
    BY <2>1, SameIndexes
  <2>3. TypeOK'
    BY <1>1, <1>2, <2>1 DEF TypeOK
  <2>4. HeadInBounds' /\ PopFinds' /\ FlushState' /\ PopState'
    BY <1>1, <1>2, <2>1, <2>2, SameControl
  <2>5. SizeDrift'
    BY <1>1, <1>2, <1>3, <2>1, <2>2 DEF SizeDrift, Counter
  <2> QED
    BY <2>3, <2>4, <2>5 DEF IInv
<1>7. CASE ~IsFull
  <2>1. /\ PushBack(b)
        /\ missed' = IF pc = "clear_size" THEN missed + 1 ELSE missed
    BY <1>7 DEF Receive
  <2>2. /\ head' = head
        /\ tail' \in 0 .. LENGTH - 1
        /\ Occupancy' = Occupancy + 1
        /\ ~IsEmpty \/ head # LENGTH => ~IsEmpty'
    BY <1>4, <1>7, <2>1, PushGrows
  <2>3. Occupancy \in 0 .. LENGTH - 1 /\ Occupancy # LENGTH - 1
    BY <1>4, <1>7, OccupancyBounds, FullIsCapacity
  <2>4. data' = [data EXCEPT ![tail] = b] /\ size' = Inc(size)
    BY <1>7, <2>1 DEF PushBack
  <2>5. missed' \in 0 .. LENGTH - 1
    <3>1. pc = "clear_size" => missed = Occupancy
      BY <1>1 DEF FlushState
    <3> QED
      BY <1>5, <2>1, <2>3, <3>1, QueueAssumption
  <2>6. data' \in [0 .. LENGTH - 1 -> Byte]
    BY <1>1, <2>4 DEF TypeOK
  <2>7. size' \in 0 .. UINT16_MAX
    BY <1>5, <2>4, CounterWidth DEF Inc
  <2>8. TypeOK'
    BY <1>1, <1>2, <2>2, <2>5, <2>6, <2>7 DEF TypeOK
  <2>9. HeadInBounds' /\ PopState'
    BY <1>1, <1>2, <2>2 DEF HeadInBounds, PopState, PopSteps
  <2>10. PopFinds'
    <3>1. pc \in {"byte", "head"} => head # LENGTH /\ ~IsEmpty
      BY <1>1, QueueAssumption DEF HeadInBounds, PopFinds
    <3> QED
      BY <1>2, <2>2, <3>1 DEF PopFinds
  <2>11. FlushState'
    BY <1>1, <1>2, <2>1, <2>2 DEF FlushState
  <2>12. SizeDrift'
    <3> SUFFICES ASSUME pc \notin {"clear_tail", "clear_size"}
                 PROVE  size' = Counter(Occupancy' + Pending' - missed')
      BY <1>2 DEF SizeDrift
    <3>1. size = Counter(Occupancy + Pending - missed) /\ missed' = missed
      BY <1>1, <2>1 DEF SizeDrift
    <3> QED
      BY <1>3, <1>5, <2>2, <2>3, <2>4, <3>1, QueueAssumption, CounterWidth DEF Counter, Inc
  <2> QED
    BY <2>8, <2>9, <2>10, <2>11, <2>12 DEF IInv
<1> QED
  BY <1>6, <1>7

(* The statements that change no index and no counter.                     *)
LEMMA QuietIInv ==
  ASSUME IInv,
         \/ \E len \in ReadLengths : Read(len)
         \/ PopEmpty \/ PopTest \/ PopByte \/ ClearData \/ UNCHANGED vars
  PROVE  IInv'
<1>1. TypeOK /\ HeadInBounds /\ SizeDrift /\ PopFinds /\ FlushState /\ PopState
  BY DEF IInv
<1>2. head' = head /\ tail' = tail /\ size' = size /\ missed' = missed /\ late' = late
  BY DEF Read, PopEmpty, PopTest, PopByte, ClearData, vars, queue, history
<1>3. Occupancy' = Occupancy /\ (IsEmpty' <=> IsEmpty)
  BY <1>2, SameIndexes
<1>4. \/ pc' = pc
      \/ pc = "idle" /\ pc' = "byte" /\ ~IsEmpty /\ todo > 0
      \/ pc = "byte" /\ pc' = "head"
      \/ pc = "clear_data" /\ pc' = "idle"
  BY DEF Read, PopEmpty, PopTest, PopByte, ClearData, vars, task
<1>5. todo \in 0 .. LENGTH /\ fill \in 0 .. LENGTH - 1
  BY <1>1 DEF TypeOK
<1>6. todo' \in 0 .. LENGTH /\ (todo' = todo \/ (pc = "idle" /\ pc' = "idle"))
  <2>1. \/ todo' = todo
        \/ pc = "idle" /\ pc' = "idle" /\ todo > 0 /\ todo' = todo - 1
        \/ /\ pc = "idle" /\ pc' = "idle"
           /\ \E len \in ReadLengths : todo' = IF len > LENGTH THEN LENGTH ELSE len
    <3>1. CASE \E len \in ReadLengths : Read(len)
      BY <3>1 DEF Read
    <3>2. CASE PopEmpty
      BY <3>2 DEF PopEmpty
    <3>3. CASE PopTest \/ PopByte \/ ClearData \/ UNCHANGED vars
      BY <3>3 DEF PopTest, PopByte, ClearData, vars, task
    <3> QED
      BY <3>1, <3>2, <3>3
  <2>2. ASSUME NEW len \in ReadLengths
        PROVE  (IF len > LENGTH THEN LENGTH ELSE len) \in 0 .. LENGTH
    BY QueueAssumption, UartRxAssumption
  <2>3. (\E len \in ReadLengths : todo' = IF len > LENGTH THEN LENGTH ELSE len)
          => todo' \in 0 .. LENGTH
    BY <2>2
  <2>4. todo > 0 /\ todo' = todo - 1 => todo' \in 0 .. LENGTH
    BY <1>5, QueueAssumption
  <2>5. todo' \in 0 .. LENGTH
    BY <1>5, <2>1, <2>3, <2>4
  <2> QED
    BY <2>1, <2>5
<1>7. data' \in [0 .. LENGTH - 1 -> Byte]
  <2>1. data \in [0 .. LENGTH - 1 -> Byte]
    BY <1>1 DEF TypeOK
  <2>2. data' = data \/ data' = [data EXCEPT ![fill] = DEFAULT_BYTE]
    BY DEF Read, PopEmpty, PopTest, PopByte, ClearData, vars, queue
  <2> QED
    BY <2>1, <2>2, QueueAssumption
<1>8. fill' \in 0 .. LENGTH - 1
  <2>1. fill' = fill \/ fill' = Wrap(fill + 1)
    BY DEF Read, PopEmpty, PopTest, PopByte, ClearData, vars, task
  <2> QED
    BY <1>5, <2>1, QueueAssumption DEF Wrap
<1>9. byte' \in Byte /\ ret' \in Byte
  <2>1. byte \in Byte /\ ret \in Byte /\ data \in [0 .. LENGTH - 1 -> Byte]
    BY <1>1 DEF TypeOK
  <2>2. head \in 0 .. LENGTH
    BY <1>1 DEF TypeOK
  <2>3. pc = "byte" => data[head] \in Byte
    <3>1. pc = "byte" => head # LENGTH
      BY <1>1 DEF HeadInBounds
    <3> QED
      BY <2>1, <2>2, <3>1, QueueAssumption
  <2>4. byte' = byte \/ (pc = "byte" /\ byte' = data[head])
    BY DEF Read, PopEmpty, PopTest, PopByte, ClearData, vars, task
  <2>5. ret' = ret \/ ret' = DEFAULT_BYTE
    BY DEF Read, PopEmpty, PopTest, PopByte, ClearData, vars, task
  <2>6. byte' \in Byte
    BY <2>1, <2>3, <2>4
  <2>7. ret' \in Byte
    BY <2>1, <2>5, QueueAssumption
  <2> QED
    BY <2>6, <2>7
<1>10. pc' \in {"idle"} \cup PopSteps \cup FlushSteps
  <2>1. pc \in {"idle"} \cup PopSteps \cup FlushSteps
    BY <1>1 DEF TypeOK
  <2> QED
    BY <1>4, <2>1 DEF PopSteps
<1>11. TypeOK'
  BY <1>1, <1>2, <1>6, <1>7, <1>8, <1>9, <1>10 DEF TypeOK
<1>12. HeadInBounds'
  BY <1>1, <1>2, <1>4 DEF HeadInBounds
<1>13. PopFinds'
  BY <1>1, <1>3, <1>4 DEF PopFinds
<1>14. FlushState'
  BY <1>1, <1>2, <1>3, <1>4 DEF FlushState
<1>15. PopState'
  BY <1>1, <1>2, <1>4, <1>6 DEF PopState, PopSteps
<1>16. SizeDrift'
  <2>1. Pending' = Pending
    BY <1>4 DEF Pending
  <2> QED
    BY <1>1, <1>2, <1>3, <1>4, <2>1 DEF SizeDrift, Counter
<1> QED
  BY <1>11, <1>12, <1>13, <1>14, <1>15, <1>16 DEF IInv

(* The three statements of queue_pop_front that move head and size.        *)
LEMMA PopIInv ==
  ASSUME IInv, PopHead \/ PopWrap \/ PopSize
  PROVE  IInv'
<1>1. TypeOK /\ HeadInBounds /\ SizeDrift /\ PopFinds /\ FlushState /\ PopState
  BY DEF IInv
<1>2. head \in 0 .. LENGTH /\ tail \in 0 .. LENGTH - 1
  BY <1>1 DEF TypeOK
<1>3. size \in 0 .. UINT16_MAX /\ missed \in 0 .. LENGTH - 1 /\ todo \in 0 .. LENGTH
  BY <1>1 DEF TypeOK
<1>4. Occupancy \in 0 .. LENGTH - 1
  BY <1>2, OccupancyBounds
<1>5. CASE PopHead
  <2>1. /\ pc = "head" /\ pc' = "wrap" /\ head' = head + 1
        /\ data' = data /\ tail' = tail /\ size' = size /\ byte' = byte
        /\ ret' = ret /\ todo' = todo /\ fill' = fill /\ missed' = missed /\ late' = late
    BY <1>5 DEF PopHead, history
  <2>2. head \in 0 .. LENGTH - 1 /\ head # tail
    BY <1>1, <1>2, <2>1, QueueAssumption DEF HeadInBounds, PopFinds, IsEmpty
  <2>3. Occupancy' = Occupancy - 1
    BY <1>2, <2>1, <2>2, QueueAssumption DEF Occupancy
  <2>4. head' \in 0 .. LENGTH /\ head' > 0
    BY <2>1, <2>2, QueueAssumption
  <2>5. pc' \in {"idle"} \cup PopSteps \cup FlushSteps
    BY <2>1 DEF PopSteps
  <2>6. TypeOK'
    BY <1>1, <2>1, <2>4, <2>5 DEF TypeOK
  <2>7. HeadInBounds' /\ PopFinds' /\ FlushState'
    BY <2>1 DEF HeadInBounds, PopFinds, FlushState
  <2>8. PopState'
    BY <1>1, <2>1, <2>4 DEF PopState, PopSteps
  <2>9. SizeDrift'
    <3>1. Pending = 0 /\ Pending' = 1
      BY <2>1 DEF Pending
    <3>2. size = Counter(Occupancy + Pending - missed)
      BY <1>1, <2>1 DEF SizeDrift
    <3>3. Occupancy' + Pending' - missed' = Occupancy + Pending - missed
      BY <1>3, <1>4, <2>1, <2>3, <3>1, QueueAssumption
    <3> QED
      BY <2>1, <3>2, <3>3 DEF SizeDrift
  <2> QED
    BY <2>6, <2>7, <2>8, <2>9 DEF IInv
<1>6. CASE PopWrap
  <2>1. /\ pc = "wrap" /\ pc' = "size" /\ head' = Wrap(head)
        /\ data' = data /\ tail' = tail /\ size' = size /\ byte' = byte
        /\ ret' = ret /\ todo' = todo /\ fill' = fill /\ missed' = missed /\ late' = late
    BY <1>6 DEF PopWrap, history
  <2>2. Occupancy' = Occupancy
    BY <1>2, <2>1, QueueAssumption DEF Occupancy, Wrap
  <2>3. head' \in 0 .. LENGTH - 1
    BY <1>2, <2>1, QueueAssumption DEF Wrap
  <2>4. head' \in 0 .. LENGTH /\ head' # LENGTH
    BY <2>3, QueueAssumption
  <2>5. pc' \in {"idle"} \cup PopSteps \cup FlushSteps
    BY <2>1 DEF PopSteps
  <2>6. TypeOK'
    BY <1>1, <2>1, <2>4, <2>5 DEF TypeOK
  <2>7. HeadInBounds' /\ PopFinds' /\ FlushState'
    BY <2>1, <2>4 DEF HeadInBounds, PopFinds, FlushState
  <2>8. PopState'
    BY <1>1, <2>1 DEF PopState, PopSteps
  <2>9. Pending' = Pending
    BY <2>1 DEF Pending
  <2>10. SizeDrift'
    BY <1>1, <2>1, <2>2, <2>9 DEF SizeDrift
  <2> QED
    BY <2>6, <2>7, <2>8, <2>10 DEF IInv
<1>7. CASE PopSize
  <2>1. /\ pc = "size" /\ pc' = "idle" /\ size' = Dec(size)
        /\ ret' = byte /\ todo' = todo - 1 /\ data' = data /\ head' = head
        /\ tail' = tail /\ byte' = byte /\ fill' = fill /\ missed' = missed /\ late' = late
    BY <1>7 DEF PopSize, history
  <2>2. Occupancy' = Occupancy
    BY <2>1, SameIndexes
  <2>3. size' \in 0 .. UINT16_MAX
    BY <1>3, <2>1, CounterWidth DEF Dec
  <2>4. todo' \in 0 .. LENGTH
    <3>1. todo > 0
      BY <1>1, <2>1 DEF PopState, PopSteps
    <3> QED
      BY <1>3, <2>1, <3>1, QueueAssumption
  <2>5. TypeOK'
    BY <1>1, <2>1, <2>3, <2>4 DEF TypeOK
  <2>6. HeadInBounds' /\ PopFinds' /\ FlushState' /\ PopState'
    BY <1>1, <2>1 DEF HeadInBounds, PopFinds, FlushState, PopState, PopSteps
  <2>7. SizeDrift'
    <3>1. Pending = 1 /\ Pending' = 0
      BY <2>1 DEF Pending
    <3>2. size = Counter(Occupancy + 1 - missed)
      BY <1>1, <2>1, <3>1 DEF SizeDrift
    <3>3. Dec(size) = Counter(Occupancy - missed)
      BY <1>3, <1>4, <3>2, QueueAssumption, CounterWidth DEF Dec, Counter
    <3>4. Occupancy' + Pending' - missed' = Occupancy - missed
      BY <1>3, <1>4, <2>1, <2>2, <3>1, QueueAssumption
    <3> QED
      BY <2>1, <3>3, <3>4 DEF SizeDrift
  <2> QED
    BY <2>5, <2>6, <2>7 DEF IInv
<1> QED
  BY <1>5, <1>6, <1>7

(* The three statements of queue_init that reset the indexes and counter.  *)
LEMMA FlushIInv ==
  ASSUME IInv, Flush \/ ClearTail \/ ClearSize
  PROVE  IInv'
<1>1. TypeOK /\ HeadInBounds /\ SizeDrift /\ PopFinds /\ FlushState /\ PopState
  BY DEF IInv
<1>2. 0 \in 0 .. LENGTH /\ 0 \in 0 .. LENGTH - 1 /\ 0 \in 0 .. UINT16_MAX /\ 0 # LENGTH
  BY QueueAssumption, CounterWidth
<1>3. CASE Flush
  <2>1. /\ pc' = "clear_tail" /\ head' = 0 /\ missed' = 0 /\ late' = FALSE
        /\ data' = data /\ tail' = tail /\ size' = size /\ byte' = byte
        /\ ret' = ret /\ todo' = todo /\ fill' = fill
    BY <1>3 DEF Flush
  <2>2. pc' \in {"idle"} \cup PopSteps \cup FlushSteps
    BY <2>1 DEF FlushSteps
  <2>3. TypeOK'
    BY <1>1, <1>2, <2>1, <2>2 DEF TypeOK
  <2>4. HeadInBounds' /\ SizeDrift' /\ PopFinds' /\ FlushState' /\ PopState'
    BY <1>2, <2>1
    DEF HeadInBounds, SizeDrift, PopFinds, FlushState, PopState, PopSteps
  <2> QED
    BY <2>3, <2>4 DEF IInv
<1>4. CASE ClearTail
  <2>1. /\ pc = "clear_tail" /\ pc' = "clear_size" /\ tail' = 0
        /\ data' = data /\ head' = head /\ size' = size /\ byte' = byte
        /\ ret' = ret /\ todo' = todo /\ fill' = fill /\ missed' = missed /\ late' = late
    BY <1>4 DEF ClearTail, history
  <2>2. pc' \in {"idle"} \cup PopSteps \cup FlushSteps
    BY <2>1 DEF FlushSteps
  <2>3. TypeOK'
    BY <1>1, <1>2, <2>1, <2>2 DEF TypeOK
  <2>4. head = 0 /\ missed = 0
    BY <1>1, <2>1 DEF FlushState
  <2>5. Occupancy' = 0
    BY <2>1, <2>4 DEF Occupancy
  <2>6. HeadInBounds' /\ SizeDrift' /\ PopFinds' /\ FlushState' /\ PopState'
    BY <1>2, <2>1, <2>4, <2>5
    DEF HeadInBounds, SizeDrift, PopFinds, FlushState, PopState, PopSteps
  <2> QED
    BY <2>3, <2>6 DEF IInv
<1>5. CASE ClearSize
  <2>1. /\ pc = "clear_size" /\ pc' = "clear_data" /\ size' = 0 /\ fill' = 0
        /\ data' = data /\ head' = head /\ tail' = tail /\ byte' = byte
        /\ ret' = ret /\ todo' = todo /\ missed' = missed /\ late' = late
    BY <1>5 DEF ClearSize, history
  <2>2. pc' \in {"idle"} \cup PopSteps \cup FlushSteps
    BY <2>1 DEF FlushSteps
  <2>3. TypeOK'
    BY <1>1, <1>2, <2>1, <2>2 DEF TypeOK
  <2>4. head = 0 /\ Occupancy = missed /\ missed \in 0 .. LENGTH - 1
    BY <1>1, <2>1 DEF FlushState, TypeOK
  <2>5. Occupancy' = Occupancy /\ Pending' = 0
    BY <2>1, SameIndexes DEF Pending
  <2>6. SizeDrift'
    BY <2>1, <2>4, <2>5, QueueAssumption, CounterWidth DEF SizeDrift, Counter
  <2>7. HeadInBounds' /\ PopFinds' /\ FlushState' /\ PopState'
    BY <1>2, <2>1, <2>4 DEF HeadInBounds, PopFinds, FlushState, PopState, PopSteps
  <2> QED
    BY <2>3, <2>6, <2>7 DEF IInv
<1> QED
  BY <1>3, <1>4, <1>5

(* The inductive invariant holds of every behaviour.                       *)
THEOREM InductiveInvariant == Spec => []IInv
<1>1. IInv /\ [Next]_vars => IInv'
  BY ReceiveIInv, QuietIInv, PopIInv, FlushIInv DEF Next
<1> QED
  BY <1>1, InitIInv, PTL DEF Spec

(* Every field keeps its type: no index leaves the data array, and the     *)
(* counter never needs more than its 16 bits.                              *)
THEOREM TypeCorrect == Spec => []TypeOK
<1>1. IInv => TypeOK
  BY DEF IInv
<1> QED
  BY <1>1, InductiveInvariant, PTL

(* The index of queue_pop_front is past the array only inside the pop      *)
(* itself, between head++ and the wrap.                                    *)
THEOREM HeadStaysInBounds == Spec => []HeadInBounds
<1>1. IInv => HeadInBounds
  BY DEF IInv
<1> QED
  BY <1>1, InductiveInvariant, PTL

(* queue_pop_front never returns a cell that holds no byte: what its test  *)
(* of queue_empty saw is still true when it reads and moves head.          *)
THEOREM PopAlwaysFinds == Spec => []PopFinds
<1>1. IInv => PopFinds
  BY DEF IInv
<1> QED
  BY <1>1, InductiveInvariant, PTL

(* The size counter is off by exactly the bytes received between "tail =   *)
(* 0" and "size = 0" of the last flush, and by nothing else.               *)
THEOREM SizeIsAccountedFor == Spec => []SizeDrift
<1>1. IInv => SizeDrift
  BY DEF IInv
<1> QED
  BY <1>1, InductiveInvariant, PTL

-----------------------------------------------------------------------------
(* Refinement.  The port implements Fifo.  Two more facts are needed: the  *)
(* byte about to be removed is the oldest one held, and nothing is held    *)
(* while a flush is in progress and no byte has arrived during it.         *)
PopTakesHead == pc = "head" => byte = data[head]

FlushEmpties ==
  /\ pc = "clear_tail" => head = 0
  /\ pc \in {"clear_size", "clear_data"} /\ ~late => head = 0 /\ tail = 0

RInv == IInv /\ PopTakesHead /\ FlushEmpties

(* The sequence of held bytes is a sequence of Occupancy bytes.            *)
LEMMA HeldType ==
  ASSUME head \in 0 .. LENGTH, tail \in 0 .. LENGTH - 1,
         data \in [0 .. LENGTH - 1 -> Byte]
  PROVE  /\ Held \in Seq(Byte)
         /\ Len(Held) = Occupancy
         /\ DOMAIN Held = 1 .. Occupancy
         /\ \A k \in 1 .. Occupancy : Cell(k) \in 0 .. LENGTH - 1
<1>1. Occupancy \in 0 .. LENGTH - 1
  BY OccupancyBounds
<1>2. \A k \in 1 .. Occupancy : Cell(k) \in 0 .. LENGTH - 1
  BY QueueAssumption DEF Cell, Occupancy
<1>3. Held \in [1 .. Occupancy -> Byte]
  BY <1>2 DEF Held
<1>4. Held \in Seq(Byte)
  BY <1>1, <1>3, QueueAssumption
<1>5. Len(Held) = Occupancy
  BY <1>1, <1>3, <1>4, QueueAssumption
<1> QED
  BY <1>2, <1>3, <1>4, <1>5

(* The same of any state, hence of the state after a step.                 *)
IndexesTyped == /\ head \in 0 .. LENGTH /\ tail \in 0 .. LENGTH - 1
                /\ data \in [0 .. LENGTH - 1 -> Byte]

HeldIsSequence == Held \in Seq(Byte) /\ Len(Held) = Occupancy

LEMMA HeldTypeNext == IndexesTyped' => HeldIsSequence'
<1>1. IndexesTyped => HeldIsSequence
  BY HeldType DEF IndexesTyped, HeldIsSequence
<1> QED
  BY <1>1, PTL

(* The receive interrupt appends its byte, or drops it when LENGTH - 1     *)
(* bytes are held.                                                         *)
LEMMA PushAppends ==
  ASSUME head \in 0 .. LENGTH, tail \in 0 .. LENGTH - 1,
         data \in [0 .. LENGTH - 1 -> Byte],
         NEW b \in Byte, PushBack(b), ~IsFull
  PROVE  Held' = Append(Held, b) /\ Len(Held) < LENGTH - 1
<1>1. /\ head' = head /\ tail' \in 0 .. LENGTH - 1
      /\ Occupancy' = Occupancy + 1
  BY PushGrows
<1>2. data' = [data EXCEPT ![tail] = b]
  BY DEF PushBack
<1>3. data' \in [0 .. LENGTH - 1 -> Byte]
  BY <1>2
<1>4. /\ Held \in Seq(Byte) /\ Len(Held) = Occupancy
      /\ \A k \in 1 .. Occupancy : Cell(k) \in 0 .. LENGTH - 1
  BY HeldType
<1>5. /\ Occupancy \in 0 .. LENGTH - 1
      /\ Occupancy # LENGTH - 1
  BY OccupancyBounds, FullIsCapacity
<1>6. \A k \in 1 .. Occupancy : Cell(k) # tail
  BY QueueAssumption DEF Cell, Occupancy
<1>7. Cell(Occupancy + 1) = tail
  BY QueueAssumption DEF Cell, Occupancy
<1>8. Held' = [k \in 1 .. Occupancy + 1 |-> data'[Cell(k)]]
  BY <1>1 DEF Held, Cell
<1>9. /\ Append(Held, b) \in Seq(Byte)
      /\ Len(Append(Held, b)) = Occupancy + 1
      /\ \A k \in 1 .. Occupancy : Append(Held, b)[k] = Held[k]
      /\ Append(Held, b)[Occupancy + 1] = b
  BY <1>4, AppendProperties
<1>10. ASSUME NEW k \in 1 .. Occupancy + 1
       PROVE  data'[Cell(k)] = IF k = Occupancy + 1 THEN b ELSE Held[k]
  <2>1. CASE k = Occupancy + 1
    BY <1>2, <1>7, <2>1
  <2>2. CASE k # Occupancy + 1
    <3>1. k \in 1 .. Occupancy
      BY <1>5, <2>2, QueueAssumption
    <3>2. Held[k] = data[Cell(k)]
      BY <3>1 DEF Held
    <3>3. data'[Cell(k)] = data[Cell(k)]
      BY <1>2, <1>4, <1>6, <3>1
    <3> QED
      BY <2>2, <3>2, <3>3
  <2> QED
    BY <2>1, <2>2
<1>11. Held' = Append(Held, b)
  <2>1. head' \in 0 .. LENGTH
    BY <1>1
  <2>2. Held' \in Seq(Byte) /\ Len(Held') = Occupancy + 1
    BY <1>1, <1>3, <2>1, HeldTypeNext DEF IndexesTyped, HeldIsSequence
  <2>3. ASSUME NEW k \in 1 .. Occupancy + 1
        PROVE  Held'[k] = Append(Held, b)[k]
    <3>1. Held'[k] = data'[Cell(k)]
      BY <1>8
    <3>2. k = Occupancy + 1 \/ k \in 1 .. Occupancy
      BY <1>5, QueueAssumption
    <3> QED
      BY <1>5, <1>9, <1>10, <3>1, <3>2, QueueAssumption
  <2> QED
    BY <1>9, <2>2, <2>3, SeqEqual
<1> QED
  BY <1>4, <1>5, <1>11, QueueAssumption

(* Moving head past the oldest byte removes it from the held sequence.     *)
LEMMA HeadIncrementPops ==
  ASSUME head \in 0 .. LENGTH - 1, tail \in 0 .. LENGTH - 1, head # tail,
         data \in [0 .. LENGTH - 1 -> Byte],
         head' = head + 1, tail' = tail, data' = data
  PROVE  Held # <<>> /\ Head(Held) = data[head] /\ Held' = Tail(Held)
<1>1. head \in 0 .. LENGTH /\ head' \in 0 .. LENGTH
  BY QueueAssumption
<1>2. /\ Held \in Seq(Byte) /\ Len(Held) = Occupancy
  BY <1>1, HeldType
<1>3. Occupancy \in 1 .. LENGTH - 1 /\ Occupancy' = Occupancy - 1
  BY QueueAssumption DEF Occupancy
<1>4. Held # <<>>
  BY <1>2, <1>3
<1>5. Head(Held) = data[head]
  <2>1. Cell(1) = head
    BY QueueAssumption DEF Cell
  <2>2. Held[1] = data[head]
    BY <1>3, <2>1, QueueAssumption DEF Held
  <2> QED
    BY <1>2, <1>4, <2>2
<1>6. Held' = [k \in 1 .. Occupancy - 1 |-> data[Cell(k + 1)]]
  <2>1. ASSUME NEW k \in 1 .. Occupancy - 1
        PROVE  Cell(k)' = Cell(k + 1)
    BY <1>3, QueueAssumption DEF Cell
  <2>2. Held' = [k \in 1 .. Occupancy' |-> data'[Cell(k)']]
    BY DEF Held
  <2> QED
    BY <1>3, <2>1, <2>2
<1>7. /\ Tail(Held) \in Seq(Byte) /\ Len(Tail(Held)) = Occupancy - 1
      /\ \A k \in 1 .. Occupancy - 1 : Tail(Held)[k] = Held[k + 1]
  BY <1>2, <1>4, HeadTailProperties
<1>8. \A k \in 1 .. Occupancy - 1 : Held[k + 1] = data[Cell(k + 1)]
  BY <1>3, QueueAssumption DEF Held
<1>9. Held' = Tail(Held)
  <2>1. Held' \in Seq(Byte) /\ Len(Held') = Occupancy - 1
    BY <1>1, <1>3, HeldTypeNext DEF IndexesTyped, HeldIsSequence
  <2>2. \A k \in 1 .. Occupancy - 1 : Held'[k] = Tail(Held)[k]
    BY <1>6, <1>7, <1>8
  <2> QED
    BY <1>7, <2>1, <2>2, SeqEqual
<1> QED
  BY <1>4, <1>5, <1>9

(* The wrap of head changes neither the held bytes nor their order.        *)
LEMMA WrapKeepsHeld ==
  ASSUME head \in 0 .. LENGTH, tail \in 0 .. LENGTH - 1,
         head' = Wrap(head), tail' = tail, data' = data
  PROVE  Held' = Held
<1>1. Occupancy' = Occupancy /\ Occupancy \in 0 .. LENGTH - 1
  BY QueueAssumption DEF Occupancy, Wrap
<1>2. ASSUME NEW k \in 1 .. Occupancy
      PROVE  Cell(k)' = Cell(k)
  BY <1>1, QueueAssumption DEF Cell, Wrap
<1>3. Held' = [k \in 1 .. Occupancy' |-> data'[Cell(k)']]
  BY DEF Held
<1> QED
  BY <1>1, <1>2, <1>3 DEF Held

(* With equal indexes nothing is held.                                     *)
LEMMA EqualIndexesHoldNothing ==
  ASSUME head \in 0 .. LENGTH, tail \in 0 .. LENGTH - 1,
         data \in [0 .. LENGTH - 1 -> Byte], head = tail
  PROVE  Held = <<>>
<1>1. Held \in Seq(Byte) /\ Len(Held) = Occupancy
  BY HeldType
<1>2. Occupancy = 0
  BY QueueAssumption DEF Occupancy
<1> QED
  BY <1>1, <1>2

LEMMA EqualIndexesHoldNothingNext ==
  (IndexesTyped /\ IsEmpty => Held = <<>>)'
<1>1. IndexesTyped /\ IsEmpty => Held = <<>>
  BY EqualIndexesHoldNothing DEF IndexesTyped, IsEmpty
<1> QED
  BY <1>1, PTL

LEMMA SameQueueSameHeld ==
  ASSUME UNCHANGED <<data, head, tail>>
  PROVE  Held' = Held
<1>1. Occupancy' = Occupancy
  BY SameIndexes
<1>2. ASSUME NEW k \in 1 .. Occupancy
      PROVE  Cell(k)' = Cell(k)
  BY DEF Cell
<1>3. Held' = [k \in 1 .. Occupancy' |-> data'[Cell(k)']]
  BY DEF Held
<1> QED
  BY <1>1, <1>2, <1>3 DEF Held

(* The initial state satisfies RInv and maps to the initial state of Fifo. *)
LEMMA InitRefines == Init => RInv /\ RxFifo!Init
<1> SUFFICES ASSUME Init PROVE RInv /\ RxFifo!Init
  OBVIOUS
<1>1. IInv
  BY InitIInv
<1>2. PopTakesHead /\ FlushEmpties
  BY DEF Init, PopTakesHead, FlushEmpties
<1>3. Held = <<>>
  <2>1. TypeOK
    BY <1>1 DEF IInv
  <2>2. head \in 0 .. LENGTH /\ tail \in 0 .. LENGTH - 1
    BY <2>1 DEF TypeOK
  <2>3. data \in [0 .. LENGTH - 1 -> Byte] /\ head = tail
    BY <2>1 DEF TypeOK, Init, QueueInit
  <2> QED
    BY <2>2, <2>3, EqualIndexesHoldNothing
<1>4. Contents = <<>> /\ Popped = DEFAULT_BYTE /\ Mode = "sound"
  BY <1>3 DEF Init, Contents, Popped, Mode, FlushSteps
<1> QED
  BY <1>1, <1>2, <1>4 DEF RInv, RxFifo!Init

-----------------------------------------------------------------------------
(* Every step of the port is a step of Fifo or leaves the held bytes, the  *)
(* last byte returned and the mode as they are.                            *)
Abstract == <<Contents, Popped, Mode>>

LEMMA ReceiveRefines ==
  ASSUME RInv, NEW b \in Byte, Receive(b)
  PROVE  RInv' /\ [RxFifo!Next]_Abstract
<1>1. TypeOK /\ HeadInBounds /\ PopFinds
  BY DEF RInv, IInv
<1>2. /\ head \in 0 .. LENGTH /\ tail \in 0 .. LENGTH - 1
      /\ data \in [0 .. LENGTH - 1 -> Byte]
  BY <1>1 DEF TypeOK
<1>3. /\ pc' = pc /\ byte' = byte /\ ret' = ret
      /\ late' = (late \/ pc \in FlushSteps) /\ head' = head /\ PushBack(b)
  BY DEF Receive, PushBack, task, queue
<1>4. IInv'
  BY ReceiveIInv DEF RInv
<1>5. Popped' = Popped
  BY <1>3 DEF Popped
<1>6. FlushEmpties'
  BY <1>3 DEF RInv, FlushEmpties, FlushSteps
<1>7. PopTakesHead'
  <2> SUFFICES ASSUME pc = "head" PROVE byte = data'[head]
    BY <1>3 DEF PopTakesHead
  <2>1. head # tail /\ byte = data[head]
    BY <1>1 DEF PopFinds, IsEmpty, RInv, PopTakesHead
  <2>2. head \in 0 .. LENGTH - 1
    BY <1>1, <1>2, QueueAssumption DEF HeadInBounds
  <2>3. data' = data \/ data' = [data EXCEPT ![tail] = b]
    BY <1>3 DEF PushBack, queue
  <2> QED
    BY <1>2, <2>1, <2>2, <2>3
<1>8. CASE late
  <2>1. Contents' = Contents /\ Mode' = Mode
    BY <1>3, <1>8 DEF Contents, Mode
  <2> QED
    BY <1>4, <1>5, <1>6, <1>7, <2>1 DEF RInv, Abstract
<1>9. CASE ~late /\ pc \in FlushSteps
  <2>1. Contents' = Contents /\ Mode = "clearing" /\ Mode' = "spoiled"
    BY <1>3, <1>9 DEF Contents, Mode
  <2>2. RxFifo!Next
    BY <1>5, <2>1 DEF RxFifo!Next, RxFifo!Spoil
  <2> QED
    BY <1>4, <1>6, <1>7, <2>2 DEF RInv
<1>10. CASE ~late /\ pc \notin FlushSteps
  <2>1. Contents = Held /\ Contents' = Held' /\ Mode = "sound" /\ Mode' = Mode
    BY <1>3, <1>10 DEF Contents, Mode
  <2>2. CASE IsFull
    <3>1. data' = data /\ tail' = tail
      BY <1>3, <2>2 DEF PushBack, queue
    <3>2. Held' = Held
      BY <1>3, <3>1, SameQueueSameHeld
    <3> QED
      BY <1>4, <1>5, <1>6, <1>7, <2>1, <3>2 DEF RInv, Abstract
  <2>3. CASE ~IsFull
    <3>1. Held' = Append(Held, b) /\ Len(Held) < LENGTH - 1
      BY <1>2, <1>3, <2>3, PushAppends
    <3>2. RxFifo!Push(b)
      BY <1>5, <2>1, <3>1 DEF RxFifo!Push
    <3>3. RxFifo!Next
      BY <3>2 DEF RxFifo!Next
    <3> QED
      BY <1>4, <1>6, <1>7, <3>3 DEF RInv
  <2> QED
    BY <2>2, <2>3
<1> QED
  BY <1>8, <1>9, <1>10

(* The steps of queue_pop_front: an empty pop and head++ are Fifo!Pop, the *)
(* other statements are invisible.  In a spoiled buffer any of them may    *)
(* change the byte that is returned.                                       *)
LEMMA PopRefines ==
  ASSUME RInv, IInv',
         \/ PopEmpty \/ PopTest \/ PopByte \/ PopHead \/ PopWrap \/ PopSize
  PROVE  RInv' /\ [RxFifo!Next]_Abstract
<1>1. TypeOK /\ HeadInBounds /\ PopFinds
  BY DEF RInv, IInv
<1>2. /\ head \in 0 .. LENGTH /\ tail \in 0 .. LENGTH - 1
      /\ data \in [0 .. LENGTH - 1 -> Byte]
  BY <1>1 DEF TypeOK
<1>3. late' = late /\ pc \notin FlushSteps /\ pc' \notin FlushSteps
  BY DEF PopEmpty, PopTest, PopByte, PopHead, PopWrap, PopSize, FlushSteps, history
<1>4. FlushEmpties' /\ Mode' = Mode
  BY <1>3 DEF FlushEmpties, FlushSteps, Mode
<1>5. PopTakesHead'
  <2>1. CASE PopByte
    BY <2>1 DEF PopByte, queue, PopTakesHead
  <2>2. CASE ~PopByte
    BY <2>2 DEF PopEmpty, PopTest, PopHead, PopWrap, PopSize, PopTakesHead
  <2> QED
    BY <2>1, <2>2
<1>6. CASE late
  <2>1. Contents' = Contents /\ Mode = "spoiled"
    BY <1>3, <1>6 DEF Contents, Mode
  <2>2. Popped' \in Byte
    <3>1. TypeOK'
      BY DEF IInv
    <3>2. byte' \in Byte /\ ret' \in Byte
      BY <3>1 DEF TypeOK
    <3> QED
      BY <3>2 DEF Popped
  <2>3. RxFifo!Next
    BY <1>4, <2>1, <2>2 DEF RxFifo!Next, RxFifo!PopSpoiled
  <2> QED
    BY <1>4, <1>5, <2>3 DEF RInv
<1>7. CASE ~late
  <2>1. Contents = Held /\ Contents' = Held' /\ Mode = "sound"
    BY <1>3, <1>7 DEF Contents, Mode
  <2>2. CASE PopEmpty
    <3>1. Held = <<>>
      BY <1>2, <2>2, EqualIndexesHoldNothing DEF PopEmpty, IsEmpty
    <3>2. Held' = Held
      BY <2>2, SameQueueSameHeld DEF PopEmpty, queue
    <3>3. Popped' = DEFAULT_BYTE
      BY <2>2 DEF PopEmpty, Popped
    <3>4. RxFifo!Next
      BY <1>4, <2>1, <3>1, <3>2, <3>3 DEF RxFifo!Next, RxFifo!Pop
    <3> QED
      BY <1>4, <1>5, <3>4 DEF RInv
  <2>3. CASE PopHead
    <3>1. /\ pc = "head" /\ pc' = "wrap" /\ head' = head + 1
          /\ data' = data /\ tail' = tail /\ byte' = byte
      BY <2>3 DEF PopHead
    <3>2. head # tail /\ byte = data[head]
      BY <1>1, <3>1 DEF PopFinds, IsEmpty, RInv, PopTakesHead
    <3>3. head \in 0 .. LENGTH - 1
      BY <1>1, <1>2, <3>1, QueueAssumption DEF HeadInBounds
    <3>4. Held # <<>> /\ Head(Held) = data[head] /\ Held' = Tail(Held)
      BY <1>2, <3>1, <3>2, <3>3, HeadIncrementPops
    <3>5. Popped' = byte
      BY <3>1 DEF Popped
    <3>6. RxFifo!Next
      BY <1>4, <2>1, <3>2, <3>4, <3>5 DEF RxFifo!Next, RxFifo!Pop
    <3> QED
      BY <1>4, <1>5, <3>6 DEF RInv
  <2>4. CASE PopWrap
    <3>1. Held' = Held
      BY <1>2, <2>4, WrapKeepsHeld DEF PopWrap
    <3>2. Popped' = Popped
      BY <2>4 DEF PopWrap, Popped
    <3> QED
      BY <1>4, <1>5, <2>1, <3>1, <3>2 DEF RInv, Abstract
  <2>5. CASE PopTest \/ PopByte \/ PopSize
    <3>1. data' = data /\ head' = head /\ tail' = tail
      BY <2>5 DEF PopTest, PopByte, PopSize, queue
    <3>2. Held' = Held
      BY <3>1, SameQueueSameHeld
    <3>3. Popped' = Popped
      BY <2>5 DEF PopTest, PopByte, PopSize, Popped
    <3> QED
      BY <1>4, <1>5, <2>1, <3>2, <3>3 DEF RInv, Abstract
  <2> QED
    BY <2>2, <2>3, <2>4, <2>5
<1> QED
  BY <1>6, <1>7

(* queue_init empties the buffer at head = 0, and the last cell it writes  *)
(* ends the clearing: its other statements change nothing that can be      *)
(* seen, nor do the start of a read and a stutter.                         *)
LEMMA FlushRefines ==
  ASSUME RInv, IInv',
         \/ Flush \/ ClearTail \/ ClearSize \/ ClearData
         \/ (\E len \in ReadLengths : Read(len)) \/ UNCHANGED vars
  PROVE  RInv' /\ [RxFifo!Next]_Abstract
<1>1. IndexesTyped'
  BY DEF IInv, TypeOK, IndexesTyped
<1>2. ret' = ret /\ byte' = byte
  BY DEF Flush, ClearTail, ClearSize, ClearData, Read, vars, task
<1>3. CASE Flush
  <2>1. Contents' = <<>> /\ Popped' = Popped /\ Mode' = "clearing"
    BY <1>2, <1>3 DEF Flush, Contents, Popped, Mode, FlushSteps
  <2>2. RxFifo!Next
    BY <2>1 DEF RxFifo!Next, RxFifo!Clear
  <2>3. PopTakesHead' /\ FlushEmpties'
    BY <1>3 DEF Flush, PopTakesHead, FlushEmpties
  <2> QED
    BY <2>2, <2>3 DEF RInv
<1>4. CASE ClearTail \/ ClearSize
  <2>1. Contents' = Contents /\ Popped' = Popped /\ Mode' = Mode
    BY <1>2, <1>4 DEF ClearTail, ClearSize, Contents, Popped, Mode, FlushSteps, history
  <2>2. PopTakesHead' /\ FlushEmpties'
    BY <1>4 DEF ClearTail, ClearSize, PopTakesHead, RInv, FlushEmpties, history
  <2> QED
    BY <2>1, <2>2 DEF RInv, Abstract
<1>5. CASE ClearData
  <2>1. /\ pc = "clear_data" /\ pc' \in {"clear_data", "idle"}
        /\ head' = head /\ tail' = tail /\ late' = late
    BY <1>5 DEF ClearData, history
  <2>2. Popped' = Popped
    BY <1>2, <2>1 DEF Popped
  <2>3. PopTakesHead' /\ FlushEmpties'
    BY <2>1 DEF PopTakesHead, RInv, FlushEmpties
  <2>4. CASE late
    <3>1. Contents' = Contents /\ Mode' = Mode
      BY <2>1, <2>4 DEF Contents, Mode
    <3> QED
      BY <2>2, <2>3, <3>1 DEF RInv, Abstract
  <2>5. CASE ~late
    <3>1. Contents = <<>> /\ Mode = "clearing" /\ head' = tail'
      BY <2>1, <2>5 DEF Contents, Mode, RInv, FlushEmpties, FlushSteps
    <3>2. Held' = <<>>
      BY <1>1, <3>1, EqualIndexesHoldNothingNext DEF IsEmpty
    <3>3. Contents' = Contents /\ Mode' \in {"clearing", "sound"}
      BY <2>1, <2>5, <3>1, <3>2 DEF Contents, Mode
    <3> QED
      BY <2>2, <2>3, <3>1, <3>3 DEF RInv, Abstract, RxFifo!Next, RxFifo!Cleared
  <2> QED
    BY <2>4, <2>5
<1>6. CASE (\E len \in ReadLengths : Read(len)) \/ UNCHANGED vars
  <2>1. pc' = pc /\ data' = data /\ head' = head /\ tail' = tail /\ late' = late
    BY <1>6 DEF Read, vars, task, queue, history
  <2>2. Held' = Held
    BY <2>1, SameQueueSameHeld
  <2>3. Contents' = Contents /\ Popped' = Popped /\ Mode' = Mode
    BY <1>2, <2>1, <2>2 DEF Contents, Popped, Mode
  <2>4. PopTakesHead' /\ FlushEmpties'
    BY <1>2, <2>1 DEF RInv, PopTakesHead, FlushEmpties
  <2> QED
    BY <2>3, <2>4 DEF RInv, Abstract
<1> QED
  BY <1>3, <1>4, <1>5, <1>6

(* The port is a FIFO of LENGTH - 1 bytes: wherever the interrupt falls,   *)
(* bytes are returned in the order they arrived, none twice, and only a    *)
(* byte that finds the buffer full is lost.  Only a byte that arrives      *)
(* during a flush can break this, and only until the next flush.           *)
THEOREM Refinement == Spec => ImplementsFifo
<1>1. RInv /\ [Next]_vars => RInv' /\ [RxFifo!Next]_Abstract
  <2> SUFFICES ASSUME RInv, [Next]_vars PROVE RInv' /\ [RxFifo!Next]_Abstract
    OBVIOUS
  <2>1. IInv'
    BY ReceiveIInv, QuietIInv, PopIInv, FlushIInv DEF Next, RInv
  <2> QED
    BY <2>1, ReceiveRefines, PopRefines, FlushRefines DEF Next
<1> QED
  BY <1>1, InitRefines, PTL DEF Spec, ImplementsFifo, RxFifo!Spec, Abstract
-----------------------------------------------------------------------------
(***************************************************************************)
(* ReadEdc for every number of packets and every lag of the payload.       *)
(***************************************************************************)
Removed == decoded - Len(store)  \* packets the payload no longer holds

Line == rx \o wire              \* the answers on their way, in order

(* The payload keeps the packets it has decoded and not popped, in order.  *)
StoreInv ==
    Len(store) <= decoded /\ \A k \in 1 .. Len(store) : store[k] = Removed + k

EdcTypes ==
    /\ EdcTypeOK /\ StoreInv
    /\ at \in {"ptt", "ptt_read", "pop", "log"} => left >= 1
    /\ at \in {"pop", "log"} => ptt \in Packets

LEMMA Regroup ==
    ASSUME NEW s \in Seq(Cells), NEW t \in Seq(Cells), NEW u \in Seq(Cells)
    PROVE  s \o (t \o u) = (s \o t) \o u
<1>1. (s \o t) \o u = s \o (t \o u)
    BY ConcatAssociative
<1> QED
    BY <1>1, Zenon

LEMMA FrameCells ==
    ASSUME NEW kind \in {"state", "hk", "ptt"}, NEW value \in 0 .. MaxPackets,
           kind = "ptt" => value \in Packets
    PROVE  /\ Frame(kind, value) \in Seq(Cells)
           /\ \A k \in 1 .. Len(Frame(kind, value)) :
                Frame(kind, value)[k].kind = kind /\ Frame(kind, value)[k].value = value
<1>1. FrameLen[kind] \in 1 .. 3
    BY DEF FrameLen
<1>2. PICK n \in 1 .. 3 : n = FrameLen[kind]
    BY <1>1
<1>3. Frame(kind, value) = [k \in 1 .. n |-> [kind |-> kind, part |-> k, value |-> value]]
    BY <1>2 DEF Frame
<1>4. ASSUME NEW k \in 1 .. n PROVE [kind |-> kind, part |-> k, value |-> value] \in Cells
    BY DEF Cells
<1> QED
    BY <1>3, <1>4

LEMMA StoreTypes ==
    ASSUME EdcTypes
    PROVE  /\ store \in Seq(Packets) /\ decoded \in Nat /\ decoded <= MaxPackets
           /\ Len(store) \in Nat /\ Removed \in Nat /\ MaxPackets \in Nat
           /\ store # <<>> => /\ Head(store) = Removed + 1 /\ Head(store) \in Packets
                              /\ Len(store) > 0
           /\ rx \in Seq(Cells) /\ wire \in Seq(Cells) /\ inbox \in Seq(Commands)
           /\ delivered \in Seq(Packets) /\ ptt \in 0 .. MaxPackets /\ left \in 0 .. MaxPackets
<1>1. /\ store \in Seq(Packets) /\ decoded \in 0 .. MaxPackets /\ MaxPackets \in Nat
      /\ rx \in Seq(Cells) /\ wire \in Seq(Cells) /\ inbox \in Seq(Commands)
      /\ delivered \in Seq(Packets) /\ ptt \in 0 .. MaxPackets /\ left \in 0 .. MaxPackets
    BY ReadEdcAssumption DEF EdcTypes, EdcTypeOK
<1>2. Len(store) \in Nat /\ Len(store) <= decoded
    BY <1>1 DEF EdcTypes, StoreInv
<1>3. store # <<>> => Len(store) > 0 /\ Head(store) = store[1] /\ Head(store) \in Packets
    BY <1>1
<1>4. store # <<>> => store[1] = Removed + 1
    BY <1>2, <1>3 DEF EdcTypes, StoreInv
<1> QED
    BY <1>1, <1>2, <1>3, <1>4 DEF Removed

LEMMA AnswerCells ==
    ASSUME EdcTypes, NEW cmd \in Commands
    PROVE  /\ Answer(cmd) \in Seq(Cells)
           /\ \A k \in 1 .. Len(Answer(cmd)) :
                Answer(cmd)[k].kind = "ptt" =>
                    cmd = "GET_PTT_PKG" /\ store # <<>> /\ Answer(cmd)[k].value = Removed + 1
<1>1. CASE cmd = "GET_STATE"
    <2>1. Len(store) \in 0 .. MaxPackets
        BY StoreTypes DEF EdcTypes, StoreInv
    <2> QED
        BY <1>1, <2>1, FrameCells DEF Answer
<1>2. CASE cmd = "GET_HK_PKG"
    <2>1. 0 \in 0 .. MaxPackets
        BY StoreTypes
    <2> QED
        BY <1>2, <2>1, FrameCells DEF Answer
<1>3. CASE cmd = "GET_PTT_PKG" /\ store # <<>>
    <2>1. Head(store) \in Packets /\ Head(store) \in 0 .. MaxPackets /\ Head(store) = Removed + 1
        BY <1>3, StoreTypes DEF Packets
    <2>2. Answer(cmd) = Frame("ptt", Head(store))
        BY <1>3 DEF Answer
    <2> QED
        BY <1>3, <2>1, <2>2, FrameCells
<1>4. CASE cmd \notin {"GET_STATE", "GET_HK_PKG"} /\ ~(cmd = "GET_PTT_PKG" /\ store # <<>>)
    <2>1. Answer(cmd) = <<>>
        BY <1>4 DEF Answer
    <2> QED
        BY <2>1
<1> QED
    BY <1>1, <1>2, <1>3, <1>4

LEMMA SendTypes ==
    ASSUME EdcTypes, NEW cmd \in Commands, Send(cmd)
    PROVE  /\ inbox' \in Seq(Commands) /\ rx' = <<>> /\ rx' \in Seq(Cells)
           /\ UNCHANGED <<store, decoded, resumed, wire, delay, delivered>>
    BY StoreTypes DEF Send

LEMMA TakeTypes ==
    ASSUME EdcTypes, NEW kind \in {"state", "hk", "ptt"}, TakeFrame(kind)
    PROVE  /\ rx' \in Seq(Cells)
           /\ UNCHANGED <<store, decoded, resumed, inbox, wire, delay, delivered>>
           /\ \E n \in Nat : /\ Len(Line') = Len(Line) - n
                             /\ \A k \in 1 .. Len(Line') : Line'[k] = Line[k + n]
<1>1. PICK n \in 1 .. 3 : n = FrameLen[kind]
    BY DEF FrameLen
<1>2. rx' = SubSeq(rx, n + 1, Len(rx)) /\ UNCHANGED <<payload, delivered>>
    BY <1>1 DEF TakeFrame
<1>3. rx \in Seq(Cells) /\ wire \in Seq(Cells)
    BY StoreTypes
<1>4. rx' \in Seq(Cells)
    BY <1>2, <1>3
<1>5. CASE n <= Len(rx)
    <2>1. Len(rx') = Len(rx) - n /\ \A k \in 1 .. Len(rx') : rx'[k] = rx[k + n]
        BY <1>2, <1>3, <1>5
    <2>2. wire' = wire
        BY <1>2 DEF payload
    <2>3. Len(Line') = Len(Line) - n
        <3>1. Len(Line') = Len(rx') + Len(wire)
            BY <1>3, <1>4, <2>2 DEF Line
        <3>2. Len(Line) = Len(rx) + Len(wire) /\ Len(rx) \in Nat /\ Len(wire) \in Nat
            BY <1>3 DEF Line
        <3> QED
            BY <2>1, <3>1, <3>2
    <2>4. ASSUME NEW k \in 1 .. Len(Line') PROVE Line'[k] = Line[k + n]
        <3>1. CASE k <= Len(rx')
            BY <1>3, <1>4, <2>1, <2>2, <3>1 DEF Line
        <3>2. CASE k > Len(rx')
            <4>1. Line'[k] = wire[k - Len(rx')]
                BY <1>3, <1>4, <2>2, <3>2 DEF Line
            <4>2. k + n \in 1 .. Len(Line) /\ k + n > Len(rx)
                BY <1>3, <1>4, <2>1, <2>3, <3>2 DEF Line
            <4>3. Line[k + n] = wire[k + n - Len(rx)]
                BY <1>3, <4>2 DEF Line
            <4>4. k - Len(rx') = k + n - Len(rx)
                BY <1>3, <1>4, <2>1
            <4> QED
                BY <4>1, <4>3, <4>4
        <3> QED
            BY <1>4, <3>1, <3>2
    <2>5. n \in Nat
        OBVIOUS
    <2>6. UNCHANGED <<store, decoded, resumed, inbox, wire, delay, delivered>>
        BY <1>2 DEF payload
    <2> HIDE DEF Line
    <2> QED
        BY <1>4, <2>3, <2>4, <2>5, <2>6
<1>6. CASE n > Len(rx)
    <2>1. rx' = <<>>
        BY <1>2, <1>3, <1>6
    <2>2. wire' = wire
        BY <1>2 DEF payload
    <2>3. Len(Line') = Len(Line) - Len(rx) /\ Len(rx) \in Nat
        BY <1>3, <2>1, <2>2 DEF Line
    <2>4. \A k \in 1 .. Len(Line') : Line'[k] = Line[k + Len(rx)]
        BY <1>3, <2>1, <2>2 DEF Line
    <2> QED
        BY <1>2, <1>4, <2>3, <2>4 DEF payload
<1> QED
    BY <1>3, <1>5, <1>6

(* The steps of the task write a command or read a frame, except Log.      *)
Sending == InitCheck \/ InitSetRtc \/ InitHk \/ InitResume \/ Hk \/ State \/ Ptt \/ Pop
Reading == InitCheckRead \/ InitHkRead \/ HkRead \/ StateRead \/ PttRead

LEMMA SomeStep ==
    ASSUME EdcNext
    PROVE  Decode \/ Obey \/ Arrive \/ Sending \/ Reading \/ Log
    BY DEF EdcNext, Startup, Cycle, Sending, Reading

LEMMA SendStep ==
    ASSUME Sending
    PROVE  \E cmd \in Commands :
             /\ Send(cmd) /\ UNCHANGED <<left, ptt>>
             /\ at \in Steps \ {"ptt_read", "log"} /\ at' \in Steps \ {"ptt", "pop"}
             /\ (cmd = "GET_PTT_PKG") <=> (at = "ptt")
             /\ (at' = "ptt_read") <=> (at = "ptt")
             /\ (cmd = "PTT_POP") <=> (at = "pop")
             /\ (at' = "log") <=> (at = "pop")
<1>1. CASE InitCheck
    BY <1>1 DEF InitCheck, Commands, Steps
<1>2. CASE InitSetRtc
    BY <1>2 DEF InitSetRtc, Commands, Steps
<1>3. CASE InitHk
    BY <1>3 DEF InitHk, Commands, Steps
<1>4. CASE InitResume
    BY <1>4 DEF InitResume, Commands, Steps
<1>5. CASE Hk
    BY <1>5 DEF Hk, Commands, Steps
<1>6. CASE State
    BY <1>6 DEF State, Commands, Steps
<1>7. CASE Ptt
    BY <1>7 DEF Ptt, Commands, Steps
<1>8. CASE Pop
    BY <1>8 DEF Pop, Commands, Steps
<1> QED
    BY <1>1, <1>2, <1>3, <1>4, <1>5, <1>6, <1>7, <1>8 DEF Sending

(* A frame that passes its checksum starts the line with a cell of its kind. *)
LEMMA FirstCell ==
    ASSUME EdcTypes, NEW kind \in {"state", "hk", "ptt"}, SumOk(kind)
    PROVE  /\ rx # <<>> /\ rx[1] \in Cells /\ rx[1].kind = kind
           /\ rx[1].value \in 0 .. MaxPackets
           /\ kind = "ptt" => rx[1].value \in Packets
           /\ Len(Line) >= 1 /\ Line[1] = rx[1]
<1>1. rx # <<>> /\ rx[1].kind = kind
    BY DEF SumOk, IdOk
<1>2. rx \in Seq(Cells) /\ wire \in Seq(Cells) /\ Len(rx) >= 1
    BY <1>1, StoreTypes
<1>3. rx[1] \in Cells
    BY <1>2
<1>4. rx[1].value \in 0 .. MaxPackets /\ (kind = "ptt" => rx[1].value \in Packets)
    BY <1>1, <1>3, ReadEdcAssumption DEF Cells, Packets
<1>5. Len(Line) >= 1 /\ Line[1] = rx[1]
    BY <1>2 DEF Line
<1> QED
    BY <1>1, <1>3, <1>4, <1>5

LEMMA ReadStep ==
    ASSUME EdcTypes, Reading
    PROVE  /\ \E kind \in {"state", "hk", "ptt"} : TakeFrame(kind)
           /\ at \in Steps \ {"hk", "ptt", "pop", "log"} /\ at' \in Steps \ {"ptt_read", "log"}
           /\ left' \in 0 .. MaxPackets
           /\ at' \in {"ptt", "pop"} => left' >= 1
           /\ \/ at' # "pop" /\ ptt' = ptt
              \/ at' = "pop" /\ at = "ptt_read" /\ SumOk("ptt") /\ ptt' = rx[1].value
<1> USE StoreTypes
<1>1. CASE InitCheckRead
    BY <1>1 DEF InitCheckRead, Steps
<1>2. CASE InitHkRead
    BY <1>2 DEF InitHkRead, Steps
<1>3. CASE HkRead
    BY <1>3 DEF HkRead, Steps
<1>4. CASE StateRead
    <2>1. left' \in 0 .. MaxPackets
        BY <1>4, FirstCell DEF StateRead
    <2> QED
        BY <1>4, <2>1 DEF StateRead, Steps
<1>5. CASE PttRead
    <2>1. left >= 1
        BY <1>5 DEF PttRead, EdcTypes
    <2>2. CASE SumOk("ptt")
        BY <1>5, <2>1, <2>2 DEF PttRead, Steps
    <2>3. CASE ~SumOk("ptt")
        BY <1>5, <2>1, <2>3 DEF PttRead, LoopEnd, Steps
    <2> QED
        BY <2>2, <2>3
<1> QED
    BY <1>1, <1>2, <1>3, <1>4, <1>5 DEF Reading

LEMMA DecodeStep ==
    ASSUME EdcTypes, Decode
    PROVE  /\ EdcTypes' /\ Removed' = Removed
           /\ store' = Append(store, decoded + 1) /\ store' # <<>>
<1>1. decoded + 1 \in Packets /\ decoded + 1 \in 0 .. MaxPackets
    BY StoreTypes DEF Decode, Packets
<1>2. /\ decoded' = decoded + 1 /\ store' = Append(store, decoded + 1)
      /\ store' \in Seq(Packets) /\ Len(store') = Len(store) + 1
    BY <1>1, StoreTypes DEF Decode
<1>3. Removed' = Removed
    BY <1>2, StoreTypes DEF Removed
<1>4. ASSUME NEW k \in 1 .. Len(store') PROVE store'[k] = Removed + k
    <2>1. CASE k <= Len(store)
        BY <1>2, <2>1, StoreTypes DEF EdcTypes, StoreInv
    <2>2. CASE k = Len(store) + 1
        BY <1>2, <2>2, StoreTypes DEF Removed
    <2> QED
        BY <1>2, <2>1, <2>2, StoreTypes
<1>5. StoreInv'
    BY <1>2, <1>3, <1>4, StoreTypes DEF EdcTypes, StoreInv
<1>6. EdcTypeOK'
    BY <1>1, <1>2 DEF Decode, EdcTypes, EdcTypeOK
<1> QED
    BY <1>2, <1>3, <1>5, <1>6 DEF Decode, EdcTypes

(* Obeying a command answers it at the end of the line, and PTT_POP takes   *)
(* the oldest packet away.                                                  *)
LEMMA ObeyStep ==
    ASSUME EdcTypes, Obey
    PROVE  /\ EdcTypes' /\ Head(inbox) \in Commands /\ inbox # <<>>
           /\ Line' = Line \o Answer(Head(inbox))
           /\ \/ store' = store /\ Removed' = Removed
              \/ /\ Head(inbox) = "PTT_POP" /\ store # <<>>
                 /\ store' = Tail(store) /\ Removed' = Removed + 1
<1>1. inbox # <<>> /\ Head(inbox) \in Commands /\ inbox' \in Seq(Commands)
    BY StoreTypes DEF Obey
<1>2. Answer(Head(inbox)) \in Seq(Cells) /\ wire' = wire \o Answer(Head(inbox)) /\ rx' = rx
    BY <1>1, AnswerCells DEF Obey
<1>3. wire' \in Seq(Cells) /\ Line' = Line \o Answer(Head(inbox))
    <2>1. rx \in Seq(Cells) /\ wire \in Seq(Cells)
        BY StoreTypes
    <2>2. wire \o Answer(Head(inbox)) \in Seq(Cells)
        BY <1>2, <2>1
    <2>3. rx \o (wire \o Answer(Head(inbox))) = (rx \o wire) \o Answer(Head(inbox))
        BY <1>2, <2>1, Regroup, Zenon
    <2> QED
        BY <1>2, <2>2, <2>3, Zenon DEF Line
<1>4. resumed' \in BOOLEAN
    BY DEF Obey
<1>5. UNCHANGED <<decoded, delay, rx, at, left, ptt, delivered>>
    BY DEF Obey
<1>6. CASE Head(inbox) = "PTT_POP" /\ store # <<>>
    <2>1. /\ store' = Tail(store) /\ store' \in Seq(Packets) /\ Len(store') = Len(store) - 1
          /\ \A k \in 1 .. Len(store') : store'[k] = store[k + 1] /\ k + 1 \in 1 .. Len(store)
        BY <1>6, StoreTypes DEF Obey
    <2>2. Removed' = Removed + 1
        BY <1>5, <2>1, StoreTypes DEF Removed
    <2>3. ASSUME NEW k \in 1 .. Len(store') PROVE store'[k] = Removed' + k
        <3>1. k + 1 \in 1 .. Len(store) /\ store'[k] = store[k + 1]
            BY <2>1
        <3>2. store[k + 1] = Removed + (k + 1)
            BY <3>1 DEF EdcTypes, StoreInv
        <3>3. k \in Nat
            BY <2>1
        <3> QED
            BY <2>2, <3>1, <3>2, <3>3, StoreTypes
    <2>4. StoreInv'
        BY <1>5, <2>1, <2>3, StoreTypes DEF EdcTypes, StoreInv
    <2> QED
        BY <1>1, <1>3, <1>4, <1>5, <1>6, <2>1, <2>2, <2>4 DEF EdcTypes, EdcTypeOK
<1>7. CASE ~(Head(inbox) = "PTT_POP" /\ store # <<>>)
    <2>1. store' = store /\ Removed' = Removed
        BY <1>5, <1>7 DEF Obey, Removed
    <2>2. StoreInv'
        BY <1>5, <2>1 DEF EdcTypes, StoreInv
    <2> QED
        BY <1>1, <1>3, <1>4, <1>5, <2>1, <2>2 DEF EdcTypes, EdcTypeOK
<1> QED
    BY <1>6, <1>7

LEMMA ArriveStep ==
    ASSUME EdcTypes, Arrive
    PROVE  /\ EdcTypes' /\ Line' = Line /\ Removed' = Removed
           /\ wire # <<>> /\ Len(wire') = Len(wire) - 1
<1>1. wire # <<>> /\ wire' = Tail(wire) /\ rx' = Append(rx, Head(wire))
    BY DEF Arrive
<1>2. wire' \in Seq(Cells) /\ rx' \in Seq(Cells) /\ Len(wire') = Len(wire) - 1
    BY <1>1, StoreTypes
<1>3. Line' = Line
    <2>1. Head(wire) \in Cells /\ wire = <<Head(wire)>> \o Tail(wire)
        BY <1>1, StoreTypes
    <2>2. Append(rx, Head(wire)) = rx \o <<Head(wire)>>
        BY <2>1, StoreTypes
    <2>3. <<Head(wire)>> \in Seq(Cells)
        BY <2>1
    <2>4. rx \o (<<Head(wire)>> \o wire') = (rx \o <<Head(wire)>>) \o wire'
        BY <1>2, <2>3, StoreTypes, Regroup, Zenon
    <2> QED
        BY <1>1, <2>1, <2>2, <2>4 DEF Line
<1>4. UNCHANGED <<store, decoded, resumed, inbox, delay, at, left, ptt, delivered>>
    BY DEF Arrive
<1> QED
    BY <1>1, <1>2, <1>3, <1>4 DEF EdcTypes, EdcTypeOK, StoreInv, Removed

LEMMA EdcTypesStep ==
    ASSUME EdcTypes, [EdcNext]_edcVars
    PROVE  EdcTypes'
<1>1. CASE Sending
    <2>1. PICK cmd \in Commands :
             /\ Send(cmd) /\ UNCHANGED <<left, ptt>>
             /\ at \in Steps /\ at' \in Steps \ {"ptt", "pop"}
             /\ (at' = "ptt_read") <=> (at = "ptt")
             /\ (at' = "log") <=> (at = "pop")
        BY <1>1, SendStep
    <2> QED
        BY <2>1, SendTypes DEF EdcTypes, EdcTypeOK, StoreInv, Removed
<1>2. CASE Reading
    <2>1. rx' \in Seq(Cells) /\ UNCHANGED <<store, decoded, resumed, inbox, wire, delay, delivered>>
        BY <1>2, ReadStep, TakeTypes
    <2>2. ptt' \in 0 .. MaxPackets /\ (at' = "pop" => ptt' \in Packets)
        BY <1>2, ReadStep, FirstCell, StoreTypes
    <2>3. StoreInv'
        BY <2>1 DEF EdcTypes, StoreInv, Removed
    <2> QED
        BY <1>2, <2>1, <2>2, <2>3, ReadStep DEF EdcTypes, EdcTypeOK
<1>3. CASE Log
    <2>1. ptt \in Packets /\ left \in 1 .. MaxPackets
        BY <1>3, StoreTypes DEF Log, EdcTypes
    <2>2. left' \in 0 .. MaxPackets /\ at' \in {"ptt", "hk"} /\ (at' = "ptt" => left' >= 1)
        BY <1>3, <2>1, StoreTypes DEF Log, LoopEnd
    <2>3. delivered' \in Seq(Packets)
        BY <1>3, <2>1, StoreTypes DEF Log
    <2>4. UNCHANGED <<store, decoded, resumed, inbox, wire, delay, rx, ptt>>
        BY <1>3 DEF Log, payload
    <2> QED
        BY <2>1, <2>2, <2>3, <2>4 DEF EdcTypes, EdcTypeOK, StoreInv, Removed, Steps
<1>4. CASE UNCHANGED edcVars
    BY <1>4 DEF edcVars, payload, EdcTypes, EdcTypeOK, StoreInv, Removed
<1> QED
    BY <1>1, <1>2, <1>3, <1>4, SomeStep, DecodeStep, ObeyStep, ArriveStep

LEMMA EdcTypesInit ==
    ASSUME EdcInit
    PROVE  EdcTypes
<1>1. /\ store = <<>> /\ decoded = 0 /\ resumed = FALSE /\ inbox = <<>> /\ wire = <<>>
      /\ delay \in Delays /\ rx = <<>> /\ at = "check" /\ left = 0 /\ ptt = 0 /\ delivered = <<>>
    BY DEF EdcInit
<1>2. resumed \in BOOLEAN
    BY <1>1
<1>3. 0 \in 0 .. MaxPackets
    BY ReadEdcAssumption
<1>4. EdcTypeOK
    BY <1>1, <1>2, <1>3 DEF EdcTypeOK, Steps
<1> QED
    BY <1>1, <1>4 DEF EdcTypes, StoreInv

(* Every variable keeps its type, at any lag of the payload.               *)
THEOREM EdcTypesHold == EdcSpec => []EdcTypeOK
<1>1. EdcTypes => EdcTypeOK
    BY DEF EdcTypes
<1> QED
    BY <1>1, EdcTypesInit, EdcTypesStep, PTL DEF EdcSpec

-----------------------------------------------------------------------------
(* Answers never overtake one another and name packets that are popped     *)
(* later: along the line they grow, from the packet read last up to the    *)
(* oldest one of the payload.                                              *)
LineInv ==
    /\ ptt <= Removed + 1
    /\ \A k \in 1 .. Len(Line) :
         Line[k].kind = "ptt" => ptt <= Line[k].value /\ Line[k].value <= Removed + 1
    /\ \A j, k \in 1 .. Len(Line) :
         j < k /\ Line[j].kind = "ptt" /\ Line[k].kind = "ptt" => Line[j].value <= Line[k].value

LoggedInv == (\A k \in 1 .. Len(delivered) : delivered[k] <= ptt) /\ NeverBackwards

Order == LineInv /\ LoggedInv

LEMMA LineTypes ==
    ASSUME EdcTypes
    PROVE  /\ Len(Line) \in Nat
           /\ \A k \in 1 .. Len(Line) : Line[k].value \in Nat
<1>1. Line \in Seq(Cells)
    BY StoreTypes DEF Line
<1>2. \A c \in Cells : c.value \in Nat
    BY ReadEdcAssumption DEF Cells, Packets
<1> QED
    BY <1>1, <1>2

(* Whatever leaves the line at its head.                                   *)
LEMMA LineShrinks ==
    ASSUME EdcTypes, LineInv, EdcTypes', NEW n \in Nat, Removed' = Removed,
           Len(Line') = Len(Line) - n,
           \A k \in 1 .. Len(Line') : Line'[k] = Line[k + n],
           \/ ptt' = ptt
           \/ Len(Line) >= 1 /\ Line[1].kind = "ptt" /\ ptt' = Line[1].value
    PROVE  LineInv' /\ ptt <= ptt'
<1>1. Removed \in Nat /\ ptt \in Nat /\ Len(Line) \in Nat /\ Len(Line') \in Nat
    BY StoreTypes, LineTypes
<1>2. \A k \in 1 .. Len(Line') : k + n \in 1 .. Len(Line) /\ k \in Nat
    BY <1>1
<1>3. ASSUME NEW j \in 1 .. Len(Line'), NEW k \in 1 .. Len(Line'),
             j < k, Line'[j].kind = "ptt", Line'[k].kind = "ptt"
      PROVE  Line'[j].value <= Line'[k].value
    <2>1. /\ j + n \in 1 .. Len(Line) /\ Line'[j] = Line[j + n]
          /\ k + n \in 1 .. Len(Line) /\ Line'[k] = Line[k + n]
        BY <1>2
    <2>2. j + n < k + n
        BY <1>2, <1>3
    <2> QED
        BY <1>3, <2>1, <2>2 DEF LineInv
<1>4. CASE ptt' = ptt
    <2>1. ASSUME NEW k \in 1 .. Len(Line'), Line'[k].kind = "ptt"
          PROVE  ptt' <= Line'[k].value /\ Line'[k].value <= Removed + 1
        BY <1>2, <1>4, <2>1 DEF LineInv
    <2> QED
        BY <1>1, <1>3, <1>4, <2>1 DEF LineInv
<1>5. CASE Len(Line) >= 1 /\ Line[1].kind = "ptt" /\ ptt' = Line[1].value
    <2>1. 1 \in 1 .. Len(Line) /\ Line[1].value \in Nat
        BY <1>1, <1>5, LineTypes
    <2>2. ptt <= ptt' /\ ptt' <= Removed + 1
        BY <1>5, <2>1 DEF LineInv
    <2>3. ASSUME NEW k \in 1 .. Len(Line'), Line'[k].kind = "ptt"
          PROVE  ptt' <= Line'[k].value /\ Line'[k].value <= Removed + 1
        <3>1. k + n \in 1 .. Len(Line) /\ Line[k + n].kind = "ptt" /\ Line'[k] = Line[k + n]
            BY <1>2, <2>3
        <3>2. CASE k + n = 1
            BY <1>5, <2>1, <2>2, <3>1, <3>2
        <3>3. CASE k + n > 1
            BY <1>5, <2>1, <3>1, <3>3 DEF LineInv
        <3> QED
            BY <1>2, <3>1, <3>2, <3>3
    <2> QED
        BY <1>1, <1>3, <2>2, <2>3 DEF LineInv
<1> QED
    BY <1>4, <1>5

(* An answer joins it at its end.                                          *)
LEMMA LineGrows ==
    ASSUME EdcTypes, LineInv, Obey
    PROVE  LineInv'
<1>1. /\ EdcTypes' /\ Head(inbox) \in Commands /\ Line' = Line \o Answer(Head(inbox))
      /\ \/ Removed' = Removed
         \/ Head(inbox) = "PTT_POP" /\ Removed' = Removed + 1
    BY ObeyStep
<1>2. PICK a : a = Answer(Head(inbox))
    OBVIOUS
<1>3. /\ a \in Seq(Cells)
      /\ \A k \in 1 .. Len(a) :
           a[k].kind = "ptt" => Head(inbox) = "GET_PTT_PKG" /\ a[k].value = Removed + 1
    BY <1>1, <1>2, AnswerCells
<1>4. Line \in Seq(Cells) /\ Line' = Line \o a
    BY <1>1, <1>2, StoreTypes DEF Line
<1>5. ASSUME NEW k \in 1 .. Len(Line')
      PROVE  \/ k \in 1 .. Len(Line) /\ Line'[k] = Line[k]
             \/ k - Len(Line) \in 1 .. Len(a) /\ k > Len(Line) /\ Line'[k] = a[k - Len(Line)]
    BY <1>3, <1>4
<1>6. ptt' = ptt /\ ptt \in Nat /\ Removed \in Nat /\ Removed' \in Nat
    BY <1>1, StoreTypes DEF Obey
<1>7. ASSUME NEW k \in 1 .. Len(Line'), Line'[k].kind = "ptt", k \notin 1 .. Len(Line)
      PROVE  Line'[k].value = Removed + 1 /\ Removed' = Removed
    BY <1>1, <1>3, <1>5, <1>7
<1>8. ASSUME NEW k \in 1 .. Len(Line'), Line'[k].kind = "ptt"
      PROVE  ptt' <= Line'[k].value /\ Line'[k].value <= Removed' + 1
    <2>1. CASE k \in 1 .. Len(Line)
        <3>1. Line'[k] = Line[k] /\ Line[k].value \in Nat
            BY <1>3, <1>4, <1>5, <2>1, LineTypes
        <3> QED
            BY <1>1, <1>6, <1>8, <2>1, <3>1 DEF LineInv
    <2>2. CASE k \notin 1 .. Len(Line)
        BY <1>6, <1>7, <1>8, <2>2 DEF LineInv
    <2> QED
        BY <2>1, <2>2
<1>9. ASSUME NEW j \in 1 .. Len(Line'), NEW k \in 1 .. Len(Line'),
             j < k, Line'[j].kind = "ptt", Line'[k].kind = "ptt"
      PROVE  Line'[j].value <= Line'[k].value
    <2>1. CASE k \in 1 .. Len(Line)
        <3>1. j \in 1 .. Len(Line)
            BY <1>9, <2>1, LineTypes
        <3>2. Line'[j] = Line[j] /\ Line'[k] = Line[k]
            BY <1>5, <2>1, <3>1
        <3> QED
            BY <1>9, <2>1, <3>1, <3>2 DEF LineInv
    <2>2. CASE k \notin 1 .. Len(Line)
        BY <1>7, <1>8, <1>9, <2>2
    <2> QED
        BY <2>1, <2>2
<1>10. ptt' <= Removed' + 1
    <2>1. ptt <= Removed + 1
        BY DEF LineInv
    <2>2. Removed' = Removed \/ Removed' = Removed + 1
        BY <1>1
    <2>3. ASSUME NEW p \in Nat, NEW q \in Nat, q = p \/ q = p + 1, NEW m \in Nat, m <= p + 1
          PROVE  m <= q + 1
        BY <2>3
    <2>4. ptt <= Removed' + 1
        BY <1>6, <2>1, <2>2, <2>3
    <2> QED
        BY <1>6, <2>4
<1> QED
    BY <1>8, <1>9, <1>10 DEF LineInv

LEMMA OrderStep ==
    ASSUME EdcTypes, Order, [EdcNext]_edcVars
    PROVE  Order'
<1>1. EdcTypes' /\ ptt \in Nat /\ ptt' \in Nat
    <2>1. EdcTypes'
        BY EdcTypesStep
    <2> QED
        BY <2>1, StoreTypes, ReadEdcAssumption DEF EdcTypes, EdcTypeOK
<1>2. ASSUME delivered' = delivered, ptt <= ptt'
      PROVE  LoggedInv'
    <2>1. delivered \in Seq(Packets) /\ \A p \in Packets : p \in Nat
        BY StoreTypes DEF Packets
    <2>2. \A k \in 1 .. Len(delivered) : delivered[k] \in Nat
        BY <2>1
    <2> QED
        BY <1>1, <1>2, <2>2 DEF Order, LoggedInv, NeverBackwards
<1>3. CASE Sending
    <2>1. /\ rx' = <<>> /\ UNCHANGED <<store, decoded, wire, delivered>> /\ ptt' = ptt
        BY <1>3, SendStep, SendTypes
    <2>2. rx \in Seq(Cells) /\ wire \in Seq(Cells) /\ Len(rx) \in Nat
        BY StoreTypes
    <2>3. Removed' = Removed /\ Line' = wire
        BY <2>1, <2>2 DEF Removed, Line
    <2>4. Len(wire) = Len(Line) - Len(rx) /\ \A k \in 1 .. Len(wire) : wire[k] = Line[k + Len(rx)]
        BY <2>2 DEF Line
    <2>5. LineInv'
        BY <1>1, <2>1, <2>2, <2>3, <2>4, LineShrinks DEF Order
    <2> QED
        BY <1>1, <1>2, <2>1, <2>5 DEF Order
<1>4. CASE Reading
    <2>1. PICK kind \in {"state", "hk", "ptt"} : TakeFrame(kind)
        BY <1>4, ReadStep
    <2>2. PICK n \in Nat : /\ Len(Line') = Len(Line) - n
                          /\ \A k \in 1 .. Len(Line') : Line'[k] = Line[k + n]
        BY <2>1, TakeTypes
    <2>3. delivered' = delivered /\ Removed' = Removed
        BY <2>1, TakeTypes DEF Removed
    <2>4. \/ ptt' = ptt
          \/ Len(Line) >= 1 /\ Line[1].kind = "ptt" /\ ptt' = Line[1].value
        BY <1>4, ReadStep, FirstCell
    <2>5. LineInv' /\ ptt <= ptt'
        BY <1>1, <2>2, <2>3, <2>4, LineShrinks DEF Order
    <2> QED
        BY <1>2, <2>3, <2>5 DEF Order
<1>5. CASE Log
    <2>1. UNCHANGED <<store, decoded, wire, rx, ptt>> /\ delivered' = Append(delivered, ptt)
        BY <1>5 DEF Log, payload
    <2>2. LineInv'
        BY <2>1 DEF Order, LineInv, Line, Removed
    <2>3. delivered \in Seq(Packets) /\ ptt \in Packets
        BY <1>5, StoreTypes DEF Log, EdcTypes
    <2>4. ASSUME NEW k \in 1 .. Len(delivered')
          PROVE  \/ k \in 1 .. Len(delivered) /\ delivered'[k] = delivered[k]
                 \/ k = Len(delivered) + 1 /\ delivered'[k] = ptt
        BY <2>1, <2>3
    <2>5. (\A k \in 1 .. Len(delivered') : delivered'[k] <= ptt')
        BY <1>1, <2>1, <2>4 DEF Order, LoggedInv
    <2>6. NeverBackwards'
        <3>1. Len(delivered') = Len(delivered) + 1 /\ Len(delivered) \in Nat
            BY <2>1, <2>3
        <3>2. ASSUME NEW k \in 1 .. Len(delivered)
              PROVE  delivered'[k] <= delivered'[k + 1]
            <4>1. k \in 1 .. Len(delivered') /\ k + 1 \in 1 .. Len(delivered') /\ delivered'[k] = delivered[k]
                BY <2>4, <3>1
            <4>2. CASE k = Len(delivered)
                BY <2>4, <2>5, <2>1, <4>1, <4>2, <3>1
            <4>3. CASE k < Len(delivered)
                BY <2>4, <3>1, <4>1, <4>3 DEF Order, LoggedInv, NeverBackwards
            <4> QED
                BY <3>1, <4>2, <4>3
        <3> QED
            BY <3>1, <3>2 DEF NeverBackwards
    <2> QED
        BY <2>2, <2>5, <2>6 DEF Order, LoggedInv
<1>6. CASE Decode \/ Arrive \/ Obey \/ UNCHANGED edcVars
    <2>1. delivered' = delivered /\ ptt' = ptt
        BY <1>6 DEF Decode, Arrive, Obey, edcVars
    <2>2. LineInv'
        <3>1. CASE Obey
            BY <3>1, LineGrows DEF Order
        <3>2. CASE Decode
            <4>1. Removed' = Removed /\ Line' = Line
                BY <3>2, DecodeStep DEF Decode, Line
            <4> QED
                BY <2>1, <4>1 DEF Order, LineInv
        <3>3. CASE Arrive
            BY <2>1, <3>3, ArriveStep DEF Order, LineInv
        <3>4. CASE UNCHANGED edcVars
            BY <3>4 DEF edcVars, payload, Order, LineInv, Line, Removed
        <3> QED
            BY <1>6, <3>1, <3>2, <3>3, <3>4
    <2> QED
        BY <1>1, <1>2, <2>1, <2>2 DEF Order
<1> QED
    BY <1>3, <1>4, <1>5, <1>6, SomeStep

(* However late the payload answers, the log never goes back to an older   *)
(* packet.                                                                 *)
THEOREM LogIsOrderly == EdcSpec => []NeverBackwards
<1>1. EdcInit => Order
    BY DEF EdcInit, Order, LineInv, LoggedInv, NeverBackwards, Line, Removed
<1>2. Order => NeverBackwards
    BY DEF Order, LoggedInv
<1> QED
    BY <1>1, <1>2, EdcTypesInit, EdcTypesStep, OrderStep, PTL DEF EdcSpec

-----------------------------------------------------------------------------
(* The pops on their way, counted, were all paid for with a packet.        *)
PopsIn(q) == {k \in 1 .. Len(q) : q[k] = "PTT_POP"}

InHand == IF at = "log" THEN 1 ELSE 0

Paid == Removed + Cardinality(PopsIn(inbox)) <= Len(delivered) + InHand

LEMMA PopsFinite ==
    ASSUME NEW q \in Seq(Commands)
    PROVE  IsFiniteSet(PopsIn(q)) /\ Cardinality(PopsIn(q)) \in Nat
<1>1. IsFiniteSet(1 .. Len(q))
    <2>1. 1 \in Int /\ Len(q) \in Int
        OBVIOUS
    <2> QED
        BY <2>1, FS_Interval
<1>2. PopsIn(q) \in SUBSET (1 .. Len(q))
    BY DEF PopsIn
<1> QED
    BY <1>1, <1>2, FS_Subset, FS_CardinalityType

LEMMA PopsAppended ==
    ASSUME NEW q \in Seq(Commands), NEW cmd \in Commands
    PROVE  Cardinality(PopsIn(Append(q, cmd)))
             = Cardinality(PopsIn(q)) + (IF cmd = "PTT_POP" THEN 1 ELSE 0)
<1>1. Len(q) \in Nat /\ Len(Append(q, cmd)) = Len(q) + 1
    OBVIOUS
<1>2. \A k \in 1 .. Len(q) + 1 :
        Append(q, cmd)[k] = IF k = Len(q) + 1 THEN cmd ELSE q[k]
    OBVIOUS
<1>3. CASE cmd = "PTT_POP"
    <2>1. PopsIn(Append(q, cmd)) = PopsIn(q) \cup {Len(q) + 1}
        BY <1>1, <1>2, <1>3 DEF PopsIn
    <2>2. Len(q) + 1 \notin PopsIn(q)
        BY <1>1 DEF PopsIn
    <2> QED
        BY <1>3, <2>1, <2>2, PopsFinite, FS_AddElement
<1>4. CASE cmd # "PTT_POP"
    <2>1. PopsIn(Append(q, cmd)) = PopsIn(q)
        BY <1>1, <1>2, <1>4 DEF PopsIn
    <2> QED
        BY <1>4, <2>1, PopsFinite
<1> QED
    BY <1>3, <1>4

LEMMA PopsTaken ==
    ASSUME NEW q \in Seq(Commands), q # <<>>
    PROVE  Cardinality(PopsIn(Tail(q)))
             = Cardinality(PopsIn(q)) - (IF Head(q) = "PTT_POP" THEN 1 ELSE 0)
<1> DEFINE Rest == PopsIn(q) \ {1}
           f == [k \in Rest |-> k - 1]
<1>1. /\ Len(q) \in Nat /\ Len(q) >= 1 /\ Len(Tail(q)) = Len(q) - 1 /\ Head(q) = q[1]
      /\ \A k \in 1 .. Len(q) - 1 : Tail(q)[k] = q[k + 1]
    OBVIOUS
<1>2. \A k \in Rest : k \in 2 .. Len(q) /\ q[k] = "PTT_POP"
    BY <1>1 DEF PopsIn
<1>3. \A k \in Rest : k - 1 \in PopsIn(Tail(q))
    BY <1>1, <1>2 DEF PopsIn
<1>4. \A k \in PopsIn(Tail(q)) : k + 1 \in Rest /\ (k + 1) - 1 = k
    BY <1>1 DEF PopsIn
<1>5. f \in Injection(Rest, PopsIn(Tail(q)))
    <2>1. f \in [Rest -> PopsIn(Tail(q))]
        BY <1>3
    <2>2. IsInjective(f)
        BY <1>2 DEF IsInjective
    <2> QED
        BY <2>1, <2>2 DEF Injection
<1>6. f \in Surjection(Rest, PopsIn(Tail(q)))
    <2>1. f \in [Rest -> PopsIn(Tail(q))]
        BY <1>3
    <2>2. \A t \in PopsIn(Tail(q)) : \E s \in Rest : f[s] = t
        BY <1>4
    <2> QED
        BY <2>1, <2>2 DEF Surjection
<1>7. IsFiniteSet(Rest) /\ Cardinality(Rest) =
        IF 1 \in PopsIn(q) THEN Cardinality(PopsIn(q)) - 1 ELSE Cardinality(PopsIn(q))
    BY PopsFinite, FS_RemoveElement
<1>8. Cardinality(PopsIn(Tail(q))) = Cardinality(Rest)
    <2>1. ExistsBijection(Rest, PopsIn(Tail(q)))
        BY <1>5, <1>6 DEF ExistsBijection, Bijection
    <2> QED
        BY <1>7, <2>1, FS_Bijection
<1>9. 1 \in PopsIn(q) <=> Head(q) = "PTT_POP"
    BY <1>1 DEF PopsIn
<1> QED
    BY <1>7, <1>8, <1>9, PopsFinite

LEMMA PaidStep ==
    ASSUME EdcTypes, Paid, [EdcNext]_edcVars
    PROVE  Paid'
<1>1. /\ Removed \in Nat /\ Len(delivered) \in Nat /\ inbox \in Seq(Commands)
      /\ Cardinality(PopsIn(inbox)) \in Nat
    BY StoreTypes, PopsFinite
<1>2. CASE Sending
    <2>1. PICK cmd \in Commands :
             /\ Send(cmd) /\ at # "log"
             /\ (cmd = "PTT_POP") <=> (at = "pop")
             /\ (at' = "log") <=> (at = "pop")
        BY <1>2, SendStep
    <2>2. inbox' = Append(inbox, cmd) /\ UNCHANGED <<store, decoded, delivered>>
        BY <2>1 DEF Send
    <2>3. InHand = 0 /\ InHand' = IF cmd = "PTT_POP" THEN 1 ELSE 0
        BY <2>1 DEF InHand
    <2>4. Cardinality(PopsIn(inbox)') = Cardinality(PopsIn(inbox)) + InHand'
        BY <1>1, <2>2, <2>3, PopsAppended
    <2>5. InHand' \in {0, 1}
        BY DEF InHand
    <2> QED
        BY <1>1, <2>2, <2>3, <2>4, <2>5 DEF Paid, Removed
<1>3. CASE Reading
    <2>1. at # "log" /\ at' # "log"
        BY <1>3, ReadStep
    <2>2. UNCHANGED <<store, decoded, inbox, delivered>>
        BY <1>3, ReadStep, TakeTypes
    <2> QED
        BY <2>1, <2>2 DEF Paid, Removed, InHand
<1>4. CASE Log
    <2>1. UNCHANGED <<store, decoded, inbox>> /\ delivered' = Append(delivered, ptt)
        BY <1>4 DEF Log, payload
    <2>2. InHand = 1 /\ InHand' = 0
        BY <1>4 DEF Log, LoopEnd, InHand
    <2>3. Len(delivered') = Len(delivered) + 1
        BY <2>1, StoreTypes
    <2> QED
        BY <1>1, <2>1, <2>2, <2>3 DEF Paid, Removed
<1>5. CASE Decode \/ Arrive
    BY <1>5, DecodeStep, ArriveStep DEF Decode, Arrive, Paid, InHand
<1>6. CASE Obey
    <2>1. /\ inbox # <<>> /\ inbox' = Tail(inbox) /\ InHand' = InHand /\ delivered' = delivered
        BY <1>6 DEF Obey, InHand
    <2>2. \/ Removed' = Removed
          \/ Head(inbox) = "PTT_POP" /\ Removed' = Removed + 1
        BY <1>6, ObeyStep
    <2>3. Cardinality(PopsIn(inbox)') =
            Cardinality(PopsIn(inbox)) - (IF Head(inbox) = "PTT_POP" THEN 1 ELSE 0)
        BY <1>1, <2>1, PopsTaken
    <2>4. InHand \in {0, 1}
        BY DEF InHand
    <2> QED
        BY <1>1, <2>1, <2>2, <2>3, <2>4 DEF Paid
<1>7. CASE UNCHANGED edcVars
    BY <1>7 DEF edcVars, payload, Paid, Removed, InHand
<1> QED
    BY <1>2, <1>3, <1>4, <1>5, <1>6, <1>7, SomeStep

(* No packet leaves the payload unread: the packets gone are at most those *)
(* delivered or about to be, at any lag.                                   *)
THEOREM PopsWerePaid == EdcSpec => []PopsArePaid
<1>1. EdcInit => Paid
    <2> SUFFICES ASSUME EdcInit PROVE Paid
        OBVIOUS
    <2>1. inbox = <<>> /\ delivered = <<>> /\ store = <<>> /\ decoded = 0 /\ at = "check"
        BY DEF EdcInit
    <2>2. PopsIn(inbox) = {}
        BY <2>1 DEF PopsIn
    <2>3. Len(delivered) = 0 /\ Removed = 0
        <3>1. Len(delivered) = 0 /\ Len(store) = 0
            BY <2>1
        <3>2. decoded = 0
            BY <2>1
        <3> QED
            BY <3>1, <3>2 DEF Removed
    <2>4. InHand = 0
        BY <2>1 DEF InHand
    <2> QED
        BY <2>2, <2>3, <2>4, FS_EmptySet DEF Paid
<1>2. EdcTypes /\ Paid => PopsArePaid
    <2> SUFFICES ASSUME EdcTypes, Paid PROVE PopsArePaid
        OBVIOUS
    <2>1. Removed \in Nat /\ Cardinality(PopsIn(inbox)) \in Nat /\ Len(delivered) \in Nat
        BY StoreTypes, PopsFinite
    <2>2. InHand \in {0, 1}
        BY DEF InHand
    <2>3. Removed <= Len(delivered) + InHand
        BY <2>1, <2>2 DEF Paid
    <2> QED
        BY <2>3 DEF PopsArePaid, Removed, InHand
<1> QED
    BY <1>1, <1>2, EdcTypesInit, EdcTypesStep, PaidStep, PTL DEF EdcSpec

-----------------------------------------------------------------------------
(* If answers are in before the next command, one command is on its way at *)
(* most and the packet in hand is the payload's oldest: this ties the      *)
(* GET_PTT_PKG of a packet to the PTT_POP that removes it.                 *)
InStep ==
    /\ Len(inbox) <= 1 /\ (inbox # <<>> => wire = <<>>)
    /\ PopPending => store # <<>> /\ at \in {"log", "ptt", "hk"}
    /\ at = "ptt_read" =>
         \A k \in 1 .. Len(Line) :
            Line[k].kind = "ptt" => store # <<>> /\ Line[k].value = Head(store)
    /\ at = "pop" => store # <<>> /\ ptt = Head(store)

Prompt == delay # "later" => InStep

LEMMA PendingIsHead ==
    ASSUME EdcTypes, Len(inbox) <= 1
    PROVE  PopPending <=> inbox # <<>> /\ Head(inbox) = "PTT_POP"
    BY StoreTypes DEF PopPending

LEMMA PromptSend ==
    ASSUME EdcTypes, InStep, delay # "later", NEW cmd \in Commands, Send(cmd)
    PROVE  /\ inbox = <<>> /\ ~PopPending /\ inbox' = <<cmd>> /\ wire' = <<>> /\ Line' = <<>>
           /\ PopPending' <=> cmd = "PTT_POP"
<1>1. inbox = <<>> /\ wire = <<>>
    BY DEF Send, Settled
<1>2. rx' = <<>> /\ inbox' = Append(inbox, cmd) /\ wire' = <<>>
    BY <1>1 DEF Send
<1>3. inbox' = <<cmd>>
    BY <1>1, <1>2
<1>4. Line' = <<>>
    BY <1>2 DEF Line
<1>5. ~PopPending
    BY <1>1 DEF PopPending
<1>6. PopPending' <=> cmd = "PTT_POP"
    BY <1>3 DEF PopPending
<1> QED
    BY <1>1, <1>2, <1>3, <1>4, <1>5, <1>6

LEMMA PromptObey ==
    ASSUME EdcTypes, InStep, Obey
    PROVE  /\ inbox' = <<>> /\ ~PopPending'
           /\ PopPending <=> Head(inbox) = "PTT_POP"
           /\ PopPending => store # <<>> /\ store' = Tail(store)
           /\ ~PopPending => store' = store
<1>1. inbox # <<>> /\ inbox' = Tail(inbox) /\ Len(inbox) <= 1
    BY DEF Obey, InStep
<1>2. inbox' = <<>>
    BY <1>1, StoreTypes
<1>3. ~PopPending'
    BY <1>2 DEF PopPending
<1>4. PopPending <=> Head(inbox) = "PTT_POP"
    BY <1>1, PendingIsHead
<1> QED
    BY <1>2, <1>3, <1>4 DEF Obey, InStep

LEMMA DelayFixed ==
    ASSUME EdcTypes, [EdcNext]_edcVars
    PROVE  delay' = delay
<1>1. CASE Sending
    BY <1>1, SendStep, SendTypes
<1>2. CASE Reading
    BY <1>2, ReadStep, TakeTypes
<1>3. CASE Decode \/ Obey \/ Arrive \/ Log \/ UNCHANGED edcVars
    BY <1>3 DEF Decode, Obey, Arrive, Log, payload, edcVars
<1> QED
    BY <1>1, <1>2, <1>3, SomeStep

LEMMA PromptStep ==
    ASSUME EdcTypes, Prompt, [EdcNext]_edcVars
    PROVE  Prompt'
<1>1. delay' = delay
    BY DelayFixed
<1> SUFFICES ASSUME delay # "later", InStep
             PROVE  InStep'
    BY <1>1 DEF Prompt
<1>2. CASE Sending
    <2>1. PICK cmd \in Commands :
             /\ Send(cmd) /\ UNCHANGED <<left, ptt>>
             /\ at' \in Steps \ {"ptt", "pop"}
             /\ (cmd = "PTT_POP") <=> (at = "pop")
             /\ (at' = "log") <=> (at = "pop")
        BY <1>2, SendStep
    <2>2. store' = store
        BY <2>1 DEF Send
    <2>3. /\ inbox' = <<cmd>> /\ wire' = <<>> /\ Line' = <<>>
          /\ PopPending' <=> cmd = "PTT_POP"
        BY <2>1, PromptSend
    <2>4. Len(inbox') <= 1 /\ Len(Line') = 0
        BY <2>3
    <2> QED
        BY <2>1, <2>2, <2>3, <2>4 DEF InStep
<1>3. CASE Reading
    <2>1. PICK kind \in {"state", "hk", "ptt"} : TakeFrame(kind)
        BY <1>3, ReadStep
    <2>2. PICK n \in Nat : /\ Len(Line') = Len(Line) - n
                          /\ \A k \in 1 .. Len(Line') : Line'[k] = Line[k + n]
        BY <2>1, TakeTypes
    <2>3. store' = store /\ inbox' = inbox /\ wire' = wire
        BY <2>1, TakeTypes
    <2>4. ~PopPending /\ ~PopPending'
        BY <1>3, <2>3, ReadStep DEF InStep, PopPending
    <2>5. at' = "pop" => store # <<>> /\ ptt' = Head(store)
        <3> SUFFICES ASSUME at' = "pop" PROVE store # <<>> /\ ptt' = Head(store)
            OBVIOUS
        <3>1. at = "ptt_read" /\ SumOk("ptt") /\ ptt' = rx[1].value
            BY <1>3, ReadStep
        <3>2. 1 \in 1 .. Len(Line) /\ Line[1].kind = "ptt" /\ ptt' = Line[1].value
            BY <3>1, FirstCell, LineTypes
        <3> QED
            BY <3>1, <3>2 DEF InStep
    <2>6. at' # "ptt_read"
        BY <1>3, ReadStep
    <2> QED
        BY <2>3, <2>4, <2>5, <2>6 DEF InStep
<1>4. CASE Log
    <2>1. UNCHANGED <<store, inbox, wire>> /\ at' \in {"ptt", "hk"}
        BY <1>4 DEF Log, LoopEnd, payload
    <2> QED
        BY <2>1 DEF InStep, PopPending
<1>5. CASE Decode
    <2>1. UNCHANGED <<inbox, wire, at, ptt>> /\ Line' = Line
        BY <1>5 DEF Decode, Line
    <2>2. store' # <<>> /\ (store # <<>> => Head(store') = Head(store))
        <3>1. store' = Append(store, decoded + 1) /\ store \in Seq(Packets)
            BY <1>5, StoreTypes DEF Decode
        <3>2. \A q \in Seq(Packets) : \A p :
                Append(q, p) # <<>> /\ (q # <<>> => Head(Append(q, p)) = Head(q))
            OBVIOUS
        <3> QED
            BY <3>1, <3>2
    <2> QED
        BY <2>1, <2>2 DEF InStep, PopPending
<1>6. CASE Obey
    <2>1. inbox' = <<>> /\ at' = at /\ ptt' = ptt /\ ~PopPending'
        BY <1>6, PromptObey DEF Obey
    <2>2. at \in {"ptt_read", "pop"} => store' = store
        BY <1>6, PromptObey DEF InStep
    <2>3. ASSUME at = "ptt_read", NEW k \in 1 .. Len(Line'), Line'[k].kind = "ptt"
          PROVE  store # <<>> /\ Line'[k].value = Head(store)
        <3>1. Head(inbox) \in Commands /\ Line' = Line \o Answer(Head(inbox))
            BY <1>6, ObeyStep
        <3>2. PICK a : a = Answer(Head(inbox))
            OBVIOUS
        <3>3. a \in Seq(Cells) /\ Line \in Seq(Cells) /\ Line' = Line \o a
            BY <3>1, <3>2, AnswerCells, StoreTypes DEF Line
        <3>4. \A i \in 1 .. Len(a) :
                a[i].kind = "ptt" => store # <<>> /\ a[i].value = Head(store)
            BY <3>1, <3>2, AnswerCells, StoreTypes
        <3>5. \/ k \in 1 .. Len(Line) /\ Line'[k] = Line[k]
              \/ k - Len(Line) \in 1 .. Len(a) /\ Line'[k] = a[k - Len(Line)]
            BY <3>3
        <3> QED
            BY <2>3, <3>4, <3>5 DEF InStep
    <2>4. Len(inbox') <= 1
        BY <2>1
    <2> QED
        BY <2>1, <2>2, <2>3, <2>4 DEF InStep
<1>7. CASE Arrive
    <2>1. UNCHANGED <<store, inbox, at, ptt>> /\ Line' = Line /\ inbox = <<>>
        BY <1>7, ArriveStep DEF Arrive, InStep
    <2> QED
        BY <2>1 DEF InStep, PopPending
<1>8. CASE UNCHANGED edcVars
    BY <1>8 DEF edcVars, payload, InStep, PopPending, Line
<1> QED
    BY <1>2, <1>3, <1>4, <1>5, <1>6, <1>7, <1>8, SomeStep

-----------------------------------------------------------------------------
(* Each step of the task and of the payload, as the delivery sees it: Pop  *)
(* implements Deliver, Decode implements Decode, and the others stutter.   *)
LEMMA PopDelivers ==
    ASSUME EdcTypes, InStep, delay # "later", Pop
    PROVE  Delivery!Deliver
<1>1. Send("PTT_POP") /\ "PTT_POP" \in Commands /\ at = "pop" /\ at' = "log" /\ ptt' = ptt
    BY DEF Pop, Commands
<1>2. ~PopPending /\ PopPending'
    BY <1>1, PromptSend
<1>3. UNCHANGED <<store, delay, delivered>>
    BY <1>1 DEF Send
<1>4. store # <<>> /\ ptt = Head(store)
    BY <1>1 DEF InStep
<1>5. Waiting = store /\ Waiting' = Tail(store)
    BY <1>2, <1>3 DEF Waiting
<1>6. Delivered = delivered /\ Delivered' = Append(delivered, ptt)
    BY <1>1, <1>3 DEF Delivered
<1> QED
    BY <1>4, <1>5, <1>6 DEF Delivery!Deliver

LEMMA DecodeDecodes ==
    ASSUME EdcTypes, InStep, delay # "later", Decode
    PROVE  \E p \in Packets : Delivery!Decode(p)
<1>1. decoded + 1 \in Packets
    BY StoreTypes DEF Decode, Packets
<1>2. store' = Append(store, decoded + 1) /\ UNCHANGED <<inbox, delay, at, ptt, delivered>>
    BY DEF Decode
<1>3. Delivered' = Delivered /\ PopPending' = PopPending
    BY <1>2 DEF Delivered, PopPending
<1>4. store # <<>> => Tail(Append(store, decoded + 1)) = Append(Tail(store), decoded + 1)
    BY <1>1, StoreTypes, HeadTailAppend
<1>5. Waiting' = Append(Waiting, decoded + 1)
    <2>1. CASE PopPending
        BY <1>2, <1>3, <1>4, <2>1 DEF Waiting, InStep
    <2>2. CASE ~PopPending
        BY <1>2, <1>3, <2>2 DEF Waiting
    <2> QED
        BY <2>1, <2>2
<1> QED
    BY <1>1, <1>3, <1>5 DEF Delivery!Decode

LEMMA OthersStutter ==
    ASSUME EdcTypes, InStep, delay # "later", [EdcNext]_edcVars, ~Decode, ~Pop
    PROVE  UNCHANGED <<Waiting, Delivered>>
<1>1. CASE Sending
    <2>1. PICK cmd \in Commands :
             /\ Send(cmd) /\ UNCHANGED <<left, ptt>> /\ at # "log"
             /\ (cmd = "PTT_POP") <=> (at = "pop")
             /\ (at' = "log") <=> (at = "pop")
        BY <1>1, SendStep
    <2>2. at # "pop"
        BY <1>1 DEF Sending, InitCheck, InitSetRtc, InitHk, InitResume, Hk, State, Ptt
    <2>3. ~PopPending /\ ~PopPending'
        BY <2>1, <2>2, PromptSend
    <2>4. UNCHANGED <<store, delay, delivered>>
        BY <2>1 DEF Send
    <2> QED
        BY <2>1, <2>2, <2>3, <2>4 DEF Waiting, Delivered
<1>2. CASE Reading
    <2>1. UNCHANGED <<store, inbox, delay, delivered>> /\ at # "log" /\ at' # "log"
        BY <1>2, ReadStep, TakeTypes
    <2> QED
        BY <2>1 DEF Waiting, Delivered, PopPending
<1>3. CASE Obey
    <2>1. UNCHANGED <<delay, at, ptt, delivered>>
        BY <1>3 DEF Obey
    <2>2. store' = IF PopPending THEN Tail(store) ELSE store
        BY <1>3, PromptObey
    <2>3. ~PopPending'
        BY <1>3, PromptObey
    <2> QED
        BY <2>1, <2>2, <2>3 DEF Waiting, Delivered
<1>4. CASE Log
    <2>1. /\ UNCHANGED <<store, inbox, delay, ptt>> /\ delivered' = Append(delivered, ptt)
          /\ at = "log" /\ at' # "log"
        BY <1>4 DEF Log, LoopEnd, payload
    <2> QED
        BY <2>1 DEF Waiting, Delivered, PopPending
<1>5. CASE Arrive \/ UNCHANGED edcVars
    <2>1. UNCHANGED <<store, inbox, delay, at, ptt, delivered>>
        BY <1>5 DEF Arrive, edcVars, payload
    <2> QED
        BY <2>1 DEF Waiting, Delivered, PopPending
<1> QED
    BY <1>1, <1>2, <1>3, <1>4, <1>5, SomeStep

LEMMA DeliveryStep ==
    ASSUME EdcTypes, Prompt, [EdcNext]_edcVars
    PROVE  [Delivery!Next]_<<Waiting, Delivered>>
<1>1. CASE delay = "later"
    <2>1. delay' = delay
        BY DelayFixed
    <2> QED
        BY <1>1, <2>1 DEF Waiting, Delivered
<1>2. CASE delay # "later"
    <2>1. InStep
        BY <1>2 DEF Prompt
    <2>2. CASE Pop
        BY <1>2, <2>1, <2>2, PopDelivers DEF Delivery!Next
    <2>3. CASE Decode
        BY <1>2, <2>1, <2>3, DecodeDecodes DEF Delivery!Next
    <2>4. CASE ~Pop /\ ~Decode
        BY <1>2, <2>1, <2>4, OthersStutter
    <2> QED
        BY <2>2, <2>3, <2>4
<1> QED
    BY <1>1, <1>2

(* If answers are in before the next command, the task and the payload     *)
(* implement the delivery: every packet once, in the order of decoding,    *)
(* and none dropped by a PTT_POP.                                          *)
THEOREM EdcDelivers == EdcSpec => ImplementsPttDelivery
<1>1. EdcInit => Prompt /\ Delivery!Init
    <2> SUFFICES ASSUME EdcInit PROVE Prompt /\ Delivery!Init
        OBVIOUS
    <2>1. /\ inbox = <<>> /\ wire = <<>> /\ rx = <<>> /\ store = <<>> /\ delivered = <<>>
          /\ at = "check"
        BY DEF EdcInit
    <2>2. Len(inbox) = 0 /\ ~PopPending
        BY <2>1 DEF PopPending
    <2>3. Prompt
        BY <2>1, <2>2 DEF Prompt, InStep
    <2>4. Waiting = <<>> /\ Delivered = <<>>
        BY <2>1, <2>2 DEF Waiting, Delivered
    <2> QED
        BY <2>3, <2>4 DEF Delivery!Init
<1> QED
    BY <1>1, EdcTypesInit, EdcTypesStep, PromptStep, DeliveryStep, PTL
    DEF EdcSpec, ImplementsPttDelivery, Delivery!Spec
=============================================================================
