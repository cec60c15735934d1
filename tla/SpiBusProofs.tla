---------------------------- MODULE SpiBusProofs ----------------------------
(***************************************************************************)
(* SpiBus for any number of tasks, chips and priorities, and transfers of  *)
(* any length: what a task reads while transfers do not mix, how they      *)
(* leave the port, and what a task that waits for the buffer waits for.    *)
(* Then the NOR flash, one of its chips (module Mt25q).                    *)
(***************************************************************************)
EXTENDS SpiBus, Mt25q, TLAPS

MyByte(t) == [task |-> t, k |-> i[t]]

LEMMA ByteIsNotNothing ==
    ASSUME TypeOK, NEW t \in Tasks
    PROVE  MyByte(t) \in Byte /\ MyByte(t) # NoByte
<1>1. i[t] \in Nat
    BY SpiBusAssumption DEF TypeOK
<1> QED
    BY <1>1, NoByteAssumption DEF MyByte, Byte

LEMMA ChipsAreChips == \A t \in Tasks : ChipOf[t] \in Chips
    BY SpiBusAssumption

-----------------------------------------------------------------------------
LEMMA InitTypes == Init => TypeOK
<1> SUFFICES ASSUME Init PROVE TypeOK
    OBVIOUS
<1> USE DEF Init
<1>1. /\ pc \in [Tasks -> {"idle", "wait_tx", "clear_tx", "transmit",
                           "wait_rx", "clear_rx", "receive", "next"}]
      /\ len \in [Tasks -> Nat] /\ i \in [Tasks -> Nat]
    OBVIOUS
<1>2. own \in [Tasks -> BOOLEAN]
    BY Zenon
<1> QED
    BY <1>1, <1>2 DEF TypeOK

LEMMA StepTypes == TypeOK /\ [Next]_vars => TypeOK'
<1> SUFFICES ASSUME TypeOK, [Next]_vars PROVE TypeOK'
    OBVIOUS
<1> USE DEF TypeOK, At, Goto, usci
<1>1. CASE Load
    BY <1>1 DEF Load, task
<1>2. CASE Exchange
    <2>1. [byte |-> shift, heard |-> low] \in Word
        BY <1>2 DEF Exchange, Word
    <2> QED
        BY <1>2, <2>1 DEF Exchange, task
<1>3. ASSUME NEW t \in Tasks, NEW n \in 1 .. MaxLen[t], SelectSlave(t, n) PROVE TypeOK'
    <2>1. n \in Nat
        BY SpiBusAssumption
    <2>2. low' \in SUBSET Chips /\ mixed' \in BOOLEAN
        BY <1>3, ChipsAreChips DEF SelectSlave
    <2> QED
        BY <1>3, <2>1, <2>2 DEF SelectSlave
<1>4. ASSUME NEW t \in Tasks, WaitTx(t) \/ ClearTx(t) PROVE TypeOK'
    BY <1>4 DEF WaitTx, ClearTx
<1>5. ASSUME NEW t \in Tasks, Transmit(t) PROVE TypeOK'
    <2>1. [task |-> t, k |-> i[t]] \in Byte
        BY DEF Byte
    <2> QED
        BY <1>5, <2>1 DEF Transmit
<1>6. ASSUME NEW t \in Tasks, WaitRx(t) \/ ClearRx(t) PROVE TypeOK'
    BY <1>6 DEF WaitRx, ClearRx
<1>7. ASSUME NEW t \in Tasks, Receive(t) PROVE TypeOK'
    BY <1>7 DEF Receive
<1>8. ASSUME NEW t \in Tasks, NextByte(t) PROVE TypeOK'
    BY <1>8 DEF NextByte
<1>9. ASSUME NEW t \in Tasks, UnselectSlave(t) PROVE TypeOK'
    BY <1>9 DEF UnselectSlave, Forget
<1>10. CASE UNCHANGED vars
    BY <1>10 DEF vars, task
<1> QED
    BY <1>1, <1>2, <1>3, <1>4, <1>5, <1>6, <1>7, <1>8, <1>9, <1>10 DEF Next, Step

(* Every variable keeps to its range.                                      *)
THEOREM TypesHold == Spec => []TypeOK
    BY InitTypes, StepTypes, PTL DEF Spec

-----------------------------------------------------------------------------
(***************************************************************************)
(* The transmit flag.                                                      *)
(***************************************************************************)
FlagTells == ~txifg => txbuf # NoByte \/ \E u \in Tasks : pc[u] = "transmit"

LEMMA FlagStep == TypeOK /\ FlagTells /\ [Next]_vars => FlagTells'
<1> SUFFICES ASSUME TypeOK, FlagTells, [Next]_vars PROVE FlagTells'
    OBVIOUS
<1> USE DEF FlagTells, At, Goto, usci
<1>0. pc \in [Tasks -> {"idle", "wait_tx", "clear_tx", "transmit",
                        "wait_rx", "clear_rx", "receive", "next"}]
    BY DEF TypeOK
<1>1. CASE Load
    BY <1>1 DEF Load
<1>2. CASE Exchange
    BY <1>2 DEF Exchange, task
<1>3. ASSUME NEW t \in Tasks, ClearTx(t) PROVE FlagTells'
    BY <1>0, <1>3 DEF ClearTx
<1>4. ASSUME NEW t \in Tasks, Transmit(t) PROVE FlagTells'
    BY <1>4, ByteIsNotNothing DEF Transmit, MyByte
<1>5. ASSUME NEW t \in Tasks, pc[t] # "transmit", UNCHANGED <<txifg, txbuf>>,
             NEW l, pc' = [pc EXCEPT ![t] = l]
      PROVE  FlagTells'
    BY <1>0, <1>5
<1>6. ASSUME NEW t \in Tasks,
             \/ \E n \in 1 .. MaxLen[t] : SelectSlave(t, n)
             \/ WaitTx(t) \/ WaitRx(t) \/ ClearRx(t)
             \/ Receive(t) \/ NextByte(t) \/ UnselectSlave(t)
      PROVE  FlagTells'
    BY <1>5, <1>6 DEF SelectSlave, WaitTx, WaitRx, ClearRx, Receive, NextByte, UnselectSlave
<1>7. CASE UNCHANGED vars
    BY <1>7 DEF vars, task
<1> QED
    BY <1>1, <1>2, <1>3, <1>4, <1>6, <1>7 DEF Next, Step

(***************************************************************************)
(* A task that waits for the transmit flag with nothing in the buffer does *)
(* so because another was preempted between clearing the flag and filling  *)
(* the buffer; in no other way can the wait be one without an end.         *)
(***************************************************************************)
THEOREM WaitsOnlyForAnother == Spec => []WaitsForBuffer
<1>1. Init => FlagTells
    BY DEF Init, FlagTells
<1>2. TypeOK /\ FlagTells /\ [Next]_vars => FlagTells'
    BY FlagStep
<1>3. FlagTells => WaitsForBuffer
    BY DEF FlagTells, WaitsForBuffer, At
<1> QED
    BY <1>1, <1>2, <1>3, TypesHold, PTL DEF Spec

-----------------------------------------------------------------------------
(***************************************************************************)
(* Transfers that do not mix.  Sole says where the byte of the one task    *)
(* that has the port is, at each of its steps.                             *)
(***************************************************************************)
Empty == txbuf = NoByte /\ shift = NoByte

Sole(t) ==
    /\ low = {ChipOf[t]}
    /\ pc[t] \in {"wait_tx", "clear_tx"} => Empty /\ txifg /\ ~rxifg
    /\ pc[t] = "transmit" => Empty /\ ~rxifg
    /\ pc[t] = "wait_rx" =>
          \/ txbuf = MyByte(t) /\ shift = NoByte /\ ~rxifg
          \/ txbuf = NoByte /\ shift = MyByte(t) /\ txifg /\ ~rxifg
          \/ Empty /\ txifg /\ rxifg /\ rxbuf = Answer(t)
    /\ pc[t] = "clear_rx" => Empty /\ txifg /\ rxbuf = Answer(t)
    /\ pc[t] = "receive" => Empty /\ txifg /\ ~rxifg /\ rxbuf = Answer(t)
    /\ pc[t] = "next" => Empty /\ txifg /\ ~rxifg /\ own[t]

Alone ==
    ~mixed =>
      /\ LeavesQuiet
      /\ \A t \in Tasks : pc[t] # "idle" =>
            Sole(t) /\ \A u \in Tasks \ {t} : pc[u] = "idle"

LEMMA AloneStep == TypeOK /\ Alone /\ [Next]_vars => Alone'
<1> SUFFICES ASSUME TypeOK, Alone, [Next]_vars, ~mixed' PROVE Alone'
    BY DEF Alone
<1> USE DEF At, Goto, usci
<1>0. pc \in [Tasks -> {"idle", "wait_tx", "clear_tx", "transmit",
                        "wait_rx", "clear_rx", "receive", "next"}]
    BY DEF TypeOK
<1>q. ASSUME UNCHANGED mixed
      PROVE  /\ ~mixed /\ LeavesQuiet
             /\ \A t \in Tasks : pc[t] # "idle" =>
                   Sole(t) /\ \A u \in Tasks \ {t} : pc[u] = "idle"
    BY <1>q DEF Alone
\* It is enough to look at the task that has the port after the step.
<1>s. ASSUME NEW t \in Tasks, pc'[t] # "idle", Sole(t)',
             \A u \in Tasks \ {t} : pc'[u] = "idle"
      PROVE  Alone'
    BY <1>s DEF Alone, LeavesQuiet
<1>1. CASE Load
    <2>1. UNCHANGED <<mixed, pc, i, own, low, rxifg, rxbuf>>
        BY <1>1 DEF Load, task
    <2>2. PICK t \in Tasks : pc[t] # "idle"
        BY <1>1, <1>q, <2>1 DEF Load, LeavesQuiet
    <2>3. pc[t] = "wait_rx" /\ txbuf = MyByte(t) /\ shift = NoByte /\ ~rxifg
        BY <1>0, <1>1, <1>q, <2>1, <2>2 DEF Load, Sole, Empty
    <2>4. Sole(t)'
        BY <1>1, <1>q, <2>1, <2>2, <2>3 DEF Load, Sole, MyByte
    <2> QED
        BY <1>q, <1>s, <2>1, <2>2, <2>4
<1>2. CASE Exchange
    <2>1. UNCHANGED <<mixed, pc, i, own, low, txifg, txbuf>>
        BY <1>2 DEF Exchange, task
    <2>2. PICK t \in Tasks : pc[t] # "idle"
        BY <1>2, <1>q, <2>1 DEF Exchange, LeavesQuiet
    <2>3. /\ pc[t] = "wait_rx" /\ txbuf = NoByte /\ shift = MyByte(t) /\ txifg
          /\ low = {ChipOf[t]}
        BY <1>0, <1>2, <1>q, <2>1, <2>2 DEF Exchange, Sole, Empty
    <2>4. rxbuf' = Answer(t)' /\ rxifg' /\ shift' = NoByte
        BY <1>2, <2>1, <2>3 DEF Exchange, Answer, MyByte
    <2>5. Sole(t)'
        BY <2>1, <2>3, <2>4 DEF Sole, Empty
    <2> QED
        BY <1>q, <1>s, <2>1, <2>2, <2>5
<1>3. ASSUME NEW t \in Tasks, NEW n \in 1 .. MaxLen[t], SelectSlave(t, n) PROVE Alone'
    <2>1. ~mixed /\ \A u \in Tasks : pc[u] = "idle"
        BY <1>3 DEF SelectSlave
    <2>2. low = {} /\ Empty /\ txifg /\ ~rxifg
        BY <2>1 DEF Alone, LeavesQuiet, Empty
    <2>3. pc' = [pc EXCEPT ![t] = "wait_tx"]
        BY <1>3 DEF SelectSlave
    <2>4. low' = {ChipOf[t]} /\ Empty' /\ txifg' /\ ~rxifg'
        BY <1>3, <2>2 DEF SelectSlave, Empty
    <2>5. Sole(t)'
        BY <1>0, <2>3, <2>4 DEF Sole
    <2> QED
        BY <1>0, <1>s, <2>1, <2>3, <2>5
<1>4. ASSUME NEW t \in Tasks, Step(t), pc'[t] # "idle" PROVE Alone'
    <2>1. pc[t] # "idle" /\ UNCHANGED <<mixed, low>> /\ \A u \in Tasks \ {t} : pc'[u] = pc[u]
        BY <1>0, <1>4 DEF Step, WaitTx, ClearTx, Transmit, WaitRx, ClearRx, Receive,
           NextByte, UnselectSlave
    <2>2. Sole(t) /\ \A u \in Tasks \ {t} : pc[u] = "idle"
        BY <1>q, <2>1
    <2>3. CASE WaitTx(t)
        BY <1>0, <1>s, <2>1, <2>2, <2>3 DEF WaitTx, Sole, Empty
    <2>4. CASE ClearTx(t)
        BY <1>0, <1>s, <2>1, <2>2, <2>4 DEF ClearTx, Sole, Empty
    <2>5. CASE Transmit(t)
        <3>1. /\ pc'[t] = "wait_rx" /\ txbuf' = MyByte(t)' /\ shift' = NoByte /\ ~rxifg'
            BY <1>0, <2>2, <2>5 DEF Transmit, Sole, Empty, MyByte
        <3>2. Sole(t)'
            BY <2>1, <2>2, <3>1 DEF Sole
        <3> QED
            BY <1>s, <2>1, <2>2, <3>1, <3>2
    <2>6. CASE WaitRx(t)
        <3>1. pc[t] = "wait_rx" /\ rxifg /\ pc'[t] = "clear_rx"
            BY <1>0, <2>6 DEF WaitRx
        <3>2. Empty /\ txifg /\ rxbuf = Answer(t)
            BY <2>2, <3>1 DEF Sole
        <3>3. Empty' /\ txifg' /\ rxbuf' = Answer(t)'
            BY <2>6, <3>2 DEF WaitRx, Empty, Answer
        <3>4. Sole(t)'
            BY <2>1, <2>2, <3>1, <3>3 DEF Sole
        <3> QED
            BY <1>s, <2>1, <2>2, <3>1, <3>4
    <2>7. CASE ClearRx(t)
        <3>1. pc'[t] = "receive" /\ Empty' /\ txifg' /\ ~rxifg' /\ rxbuf' = Answer(t)'
            BY <1>0, <2>2, <2>7 DEF ClearRx, Sole, Empty, Answer
        <3>2. Sole(t)'
            BY <2>1, <2>2, <3>1 DEF Sole
        <3> QED
            BY <1>s, <2>1, <2>2, <3>1, <3>2
    <2>8. CASE Receive(t)
        <3>1. pc'[t] = "next" /\ Empty' /\ txifg' /\ ~rxifg'
            BY <1>0, <2>2, <2>8 DEF Receive, Sole, Empty
        <3>2. own'[t]
            BY <2>2, <2>8 DEF Receive, Sole, TypeOK
        <3>3. Sole(t)'
            BY <2>1, <2>2, <3>1, <3>2 DEF Sole
        <3> QED
            BY <1>s, <2>1, <2>2, <3>1, <3>3
    <2>9. CASE NextByte(t)
        <3>1. pc'[t] = "wait_tx" /\ Empty' /\ txifg' /\ ~rxifg'
            BY <1>0, <2>2, <2>9 DEF NextByte, Sole, Empty
        <3>2. Sole(t)'
            BY <2>1, <2>2, <3>1 DEF Sole
        <3> QED
            BY <1>s, <2>1, <2>2, <3>1, <3>2
    <2>10. CASE UnselectSlave(t)
        BY <1>0, <1>4, <2>10 DEF UnselectSlave
    <2> QED
        BY <1>4, <2>3, <2>4, <2>5, <2>6, <2>7, <2>8, <2>9, <2>10 DEF Step
<1>5. ASSUME NEW t \in Tasks, Step(t), pc'[t] = "idle" PROVE Alone'
    <2>1. UnselectSlave(t)
        BY <1>0, <1>5 DEF Step, WaitTx, ClearTx, Transmit, WaitRx, ClearRx, Receive, NextByte
    <2>2. /\ pc[t] = "next" /\ low' = low \ {ChipOf[t]} /\ \A u \in Tasks \ {t} : pc'[u] = pc[u]
          /\ UNCHANGED <<txifg, txbuf, shift, rxifg, rxbuf, mixed>>
        BY <1>0, <2>1 DEF UnselectSlave
    <2>3. Sole(t) /\ \A u \in Tasks \ {t} : pc[u] = "idle"
        BY <1>q, <2>2
    <2>4. low' = {} /\ Empty /\ txifg /\ ~rxifg
        BY <2>2, <2>3 DEF Sole
    <2>5. \A u \in Tasks : pc'[u] = "idle"
        BY <1>5, <2>2, <2>3
    <2>6. LeavesQuiet'
        BY <2>2, <2>4 DEF LeavesQuiet, Empty
    <2> QED
        BY <2>5, <2>6 DEF Alone
<1>6. CASE UNCHANGED vars
    BY <1>6 DEF vars, task, Alone, LeavesQuiet, Sole, Empty, Answer, MyByte
<1> QED
    BY <1>1, <1>2, <1>3, <1>4, <1>5, <1>6 DEF Next

LEMMA AloneAlways == Spec => []Alone
<1>1. Init => Alone
    BY DEF Init, Alone, LeavesQuiet
<1>2. TypeOK /\ Alone /\ [Next]_vars => Alone'
    BY AloneStep
<1> QED
    BY <1>1, <1>2, TypesHold, PTL DEF Spec

(***************************************************************************)
(* As long as transfers do not mix, what a task reads in exchange for a    *)
(* byte is its chip's answer to that byte.                                 *)
(***************************************************************************)
THEOREM AnswersAreOwn == Spec => []OwnAnswers
<1>1. Alone => OwnAnswers
    BY DEF Alone, OwnAnswers, Sole
<1> QED
    BY <1>1, AloneAlways, PTL

(***************************************************************************)
(* And every transfer leaves the port as it found it.                      *)
(***************************************************************************)
THEOREM PortIsQuiet == Spec => []LeavesQuiet
<1>1. Alone => LeavesQuiet
    BY DEF Alone, LeavesQuiet
<1> QED
    BY <1>1, AloneAlways, PTL

-----------------------------------------------------------------------------
(***************************************************************************)
(* The NOR flash on the bus: Mt25q for every size of the memory, its pages *)
(* and its units, and all calls of its clients.                            *)
(***************************************************************************)
FlashTypes ==
    /\ orderly \in BOOLEAN /\ timeout \in BOOLEAN /\ latch \in BOOLEAN
    /\ failed \in BOOLEAN /\ found \in BOOLEAN /\ off \in Int
    /\ at \in {"idle", "check", "wren", "latch", "busy", "command", "poll", "flags",
               "read", "unselect"}
    /\ call \in Calls \cup {NoCall} /\ (at # "idle" => call \in Calls)
    /\ at \in {"read", "unselect"} => call.op = "read"
    /\ at \in {"wren", "latch", "busy", "command", "poll", "flags"} =>
           call.op \in {"write", "erase"}
    /\ job \in Jobs \cup {NoJob}

(* No command is sent to a memory that is busy: after an erase has found   *)
(* it ready only its own commands follow, and a write asks page by page.   *)
FlashReady ==
    /\ at = "command" => ~Busy
    /\ at \in {"wren", "latch"} /\ call.op = "erase" => ~Busy

LEMMA FlashSizes ==
    Size \in Nat /\ Size > 0 /\ PageSize \in Nat /\ PageSize > 0
    BY Mt25qAssumption

LEMMA CallKinds ==
    ASSUME NEW c \in Calls
    PROVE  /\ c.op \in {"write", "read", "erase"} /\ c # NoCall
           /\ c.op \in {"write", "read"} => c.adr \in Nat /\ c.len \in Nat
           /\ c.op = "write" => c.len > 0 /\ c.zeros \subseteq 0 .. c.len - 1
           /\ c.op = "erase" => c.n \in Nat /\ UnitSize[c.unit] \in Nat
    BY Mt25qAssumption, NothingAssumption

LEMMA CellsOfUnit ==
    ASSUME NEW c \in Calls, c.op = "erase"
    PROVE  Unit(c) \in SUBSET (0 .. Size - 1)
<1>1. c.n * UnitSize[c.unit] \in Int /\ (c.n + 1) * UnitSize[c.unit] - 1 \in Int
    BY CallKinds
<1> DEFINE lo == c.n * UnitSize[c.unit]
           hi == (c.n + 1) * UnitSize[c.unit] - 1
<1>2. ASSUME NEW a \in lo .. hi PROVE a % Size \in 0 .. Size - 1
    <2>1. a \in Int
        BY <1>1
    <2> QED
        BY <2>1, FlashSizes
<1> QED
    BY <1>2 DEF Unit

LEMMA ChunkTypes ==
    ASSUME FlashTypes, call \in Calls, call.op = "write"
    PROVE  Chunk \in Int /\ Aligned \in Int
<1>1. call.adr \in Nat /\ call.len \in Nat /\ off \in Int
    BY CallKinds DEF FlashTypes
<1>2. PageSize - (call.adr % PageSize) \in Int
    BY <1>1, FlashSizes
<1>3. Aligned \in Int
    BY <1>2, FlashSizes DEF Aligned
<1> QED
    BY <1>1, <1>3, FlashSizes DEF Chunk

LEMMA CellsOfProgram ==
    ASSUME FlashTypes, call \in Calls, call.op = "write"
    PROVE  Zeros(call.adr + off, Chunk) \in SUBSET (0 .. Size - 1)
<1> DEFINE a == call.adr + off
<1>1. a \in Int /\ Chunk \in Int
    BY CallKinds, ChunkTypes DEF FlashTypes
<1>2. ASSUME NEW k \in 0 .. Chunk - 1 PROVE InPage(a, k) % Size \in 0 .. Size - 1
    <2> HIDE DEF a
    <2>1. k \in Int
        BY <1>1
    <2>2. InPage(a, k) \in Int
        BY <1>1, <2>1, FlashSizes DEF InPage
    <2> QED
        BY <2>2, FlashSizes
<1> HIDE DEF a
<1>3. Zeros(a, Chunk) \in SUBSET (0 .. Size - 1)
    BY <1>2 DEF Zeros
<1> QED
    BY <1>3 DEF a

LEMMA FlashTypesStep ==
    ASSUME FlashTypes, [FlashNext]_flashVars
    PROVE  FlashTypes'
<1> USE DEF FlashTypes, driver, memory, rest
<1>0. NoCall \notin Calls
    BY NothingAssumption
<1>1. CASE Complete \/ Fault
    <2>1. latch' \in BOOLEAN
        <3>1. latch' = FALSE
            BY <1>1 DEF Complete, Fault, Finish
        <3> QED
            BY <3>1, Zenon
    <2> QED
        BY <1>1, <2>1 DEF Complete, Fault, Finish, Busy
<1>2. ASSUME NEW c \in Calls, Begin(c) PROVE FlashTypes'
    <2>1. timeout' \in BOOLEAN /\ found' \in BOOLEAN
        <3>1. timeout' = FALSE /\ found' = Busy
            BY <1>2 DEF Begin
        <3> QED
            BY <3>1, Zenon DEF Busy
    <2> QED
        BY <1>2, <2>1 DEF Begin
<1>3. CASE Check
    <2>1. call \in Calls /\ call.op \in {"write", "read", "erase"}
        BY <1>3, CallKinds DEF Check
    <2>2. FirstStep[call.op] = IF call.op = "write" THEN "wren"
                               ELSE IF call.op = "read" THEN "read" ELSE "busy"
        BY <2>1 DEF FirstStep
    <2> QED
        BY <1>3, <2>1, <2>2 DEF Check, Continue, Return
<1>4. CASE IsBusy
    BY <1>4 DEF IsBusy, Continue, Return
<1>5. CASE WriteEnable \/ ReadLatch
    BY <1>5 DEF WriteEnable, ReadLatch, Continue, Return, Busy
<1>6. CASE Program
    <2>1. [op |-> "write", cells |-> Zeros(call.adr + off, Chunk)] \in Jobs
        BY <1>6, CellsOfProgram DEF Program, Jobs
    <2> QED
        BY <1>6, <2>1 DEF Program, Accept, Continue
<1>7. CASE Erase
    <2>1. [op |-> "erase", cells |-> Unit(call)] \in Jobs
        BY <1>7, CellsOfUnit DEF Erase, Jobs
    <2> QED
        BY <1>7, <2>1 DEF Erase, Accept, Continue
<1>8. CASE Poll
    BY <1>8 DEF Poll, Busy
<1>9. CASE Flags
    <2>1. call.op = "write" => off + Chunk \in Int
        BY <1>9, ChunkTypes DEF Flags
    <2> QED
        BY <1>9, <2>1 DEF Flags, Return
<1>10. CASE Read \/ Unselect
    BY <1>10 DEF Read, Unselect, Return
<1>11. CASE UNCHANGED flashVars
    BY <1>11 DEF flashVars
<1> QED
    BY <1>1, <1>2, <1>3, <1>4, <1>5, <1>6, <1>7, <1>8, <1>9, <1>10, <1>11 DEF FlashNext, Driver

LEMMA FlashStarts ==
    ASSUME FlashInit
    PROVE  FlashTypes /\ FlashReady
<1>1. /\ orderly \in BOOLEAN /\ timeout \in BOOLEAN /\ latch \in BOOLEAN
      /\ failed \in BOOLEAN /\ found \in BOOLEAN
    BY Zenon DEF FlashInit
<1> QED
    BY <1>1 DEF FlashInit, FlashTypes, FlashReady, Busy

LEMMA FlashReadyStep ==
    ASSUME FlashTypes, FlashReady, [FlashNext]_flashVars
    PROVE  FlashReady'
<1> USE DEF FlashReady, Busy, driver, memory, rest
<1>1. CASE Complete \/ Fault
    BY <1>1 DEF Complete, Fault, Finish
<1>2. ASSUME NEW c \in Calls, Begin(c) PROVE FlashReady'
    BY <1>2 DEF Begin
<1>3. CASE Check
    <2>1. call \in Calls /\ call.op \in {"write", "read", "erase"}
        BY <1>3, CallKinds DEF Check, FlashTypes
    <2>2. FirstStep[call.op] = IF call.op = "write" THEN "wren"
                               ELSE IF call.op = "read" THEN "read" ELSE "busy"
        BY <2>1 DEF FirstStep
    <2> QED
        BY <1>3, <2>1, <2>2 DEF Check, Continue, Return
<1>4. CASE IsBusy
    BY <1>4 DEF IsBusy, Continue, Return
<1>5. CASE WriteEnable \/ ReadLatch
    BY <1>5 DEF WriteEnable, ReadLatch, Continue, Return
<1>6. CASE Program \/ Erase
    BY <1>6 DEF Program, Erase, Continue
<1>7. CASE Poll \/ Flags
    BY <1>7 DEF Poll, Flags, Return
<1>8. CASE Read \/ Unselect
    BY <1>8 DEF Read, Unselect, Return
<1>9. CASE UNCHANGED flashVars
    BY <1>9 DEF flashVars
<1> QED
    BY <1>1, <1>2, <1>3, <1>4, <1>5, <1>6, <1>7, <1>8, <1>9 DEF FlashNext, Driver

(* A command that reaches the memory finds it ready, whatever went wrong   *)
(* before: however many operations have outlasted their polling or failed. *)
THEOREM CommandsFindReady ==
    FlashSpec => []CommandFindsReady
<1>1. FlashInit => FlashTypes /\ FlashReady
    BY FlashStarts
<1>2. FlashTypes /\ FlashReady /\ [FlashNext]_flashVars => FlashTypes' /\ FlashReady'
    BY FlashTypesStep, FlashReadyStep
<1>3. FlashReady => CommandFindsReady
    BY DEF FlashReady, CommandFindsReady
<1> QED
    BY <1>1, <1>2, <1>3, PTL DEF FlashSpec

-----------------------------------------------------------------------------
(* A quotient and a remainder are determined by what they make.            *)
LEMMA SameRemainder ==
    ASSUME NEW p \in Nat, NEW q \in Nat, NEW g \in Nat,
           NEW r \in 0 .. p - 1, NEW s \in 0 .. p - 1, p * q + r = p * g + s
    PROVE  r = s
<1>1. ASSUME NEW h \in Nat, NEW l \in Nat, NEW u \in 0 .. p - 1, NEW v \in 0 .. p - 1,
             p * h + u = p * l + v, h > l
      PROVE  FALSE
    <2>1. PICK d \in Nat : h = l + 1 + d
        <3>1. h - l - 1 \in Nat /\ h = l + 1 + (h - l - 1)
            BY <1>1
        <3> QED
            BY <3>1
    <2>2. p * h = p * l + p + p * d /\ p * d \in Nat /\ p * l \in Nat
        BY <2>1
    <2> QED
        BY <1>1, <2>2
<1>2. ~(q > g) /\ ~(g > q)
    BY <1>1
<1>3. q = g
    BY <1>2
<1>4. p * q \in Nat
    OBVIOUS
<1> QED
    BY <1>3, <1>4

LEMMA WithinPage ==
    ASSUME NEW p \in Nat, p > 0, NEW a \in Nat, NEW k \in Nat, (a % p) + k < p
    PROVE  (a + k) % p = (a % p) + k
<1>1. PICK q \in Nat : a = p * q + (a % p)
    <2>1. a \div p \in Nat
        OBVIOUS
    <2>2. a = p * (a \div p) + (a % p)
        OBVIOUS
    <2> QED
        BY <2>1, <2>2
<1>2. a + k \in Nat
    OBVIOUS
<1>3. PICK g \in Nat : a + k = p * g + ((a + k) % p)
    <2>1. (a + k) \div p \in Nat /\ a + k = p * ((a + k) \div p) + ((a + k) % p)
        <3> DEFINE x == a + k
        <3> HIDE DEF x
        <3>1. x \in Nat
            BY <1>2 DEF x
        <3>2. x \div p \in Nat
            BY <3>1
        <3>3. x = p * (x \div p) + (x % p)
            BY <3>1
        <3> QED
            BY <3>2, <3>3 DEF x
    <2> QED
        BY <2>1
<1>4. (a % p) + k \in 0 .. p - 1 /\ (a + k) % p \in 0 .. p - 1
    BY <1>2
<1>5. p * q + ((a % p) + k) = p * g + ((a + k) % p)
    <2> DEFINE r == a % p
               s == (a + k) % p
    <2>1. a = p * q + r /\ a + k = p * g + s /\ r \in Int /\ s \in Int
        BY <1>1, <1>3, <1>4
    <2>2. p * q \in Int /\ p * g \in Int
        OBVIOUS
    <2> HIDE DEF r, s
    <2>3. p * q + (r + k) = p * g + s
        BY <2>1, <2>2
    <2> QED
        BY <2>3 DEF r, s
<1> QED
    BY <1>4, <1>5, SameRemainder

(* A write in one page of the memory is one PROGRAM, of the cells it wants. *)
LEMMA OnePageIsOneChunk ==
    ASSUME FlashTypes, call \in Calls, call.op = "write", Kept(call), off = 0
    PROVE  Chunk = call.len /\ Zeros(call.adr + off, Chunk) = Target(call)
<1> DEFINE a == call.adr
           n == call.len
           r == a % PageSize
<1>0. /\ a \in Nat /\ n \in Nat /\ n > 0 /\ call.zeros \subseteq 0 .. n - 1
      /\ Size \in Nat /\ Size > 0 /\ PageSize \in Nat /\ PageSize > 0
    BY CallKinds, FlashSizes
<1>1. a + n <= Size /\ r + n <= PageSize /\ r \in 0 .. PageSize - 1
    BY <1>0 DEF Kept, OnePage
<1>2. Chunk = n
    <2>1. CASE r = 0
        <3>1. Aligned = 0
            <4>1. PageSize - r = PageSize /\ PageSize % PageSize = 0
                BY <1>0, <2>1
            <4> QED
                BY <4>1 DEF Aligned
        <3> QED
            BY <1>0, <1>1, <2>1, <3>1 DEF Chunk
    <2>2. CASE r > 0
        <3>1. PageSize - r \in 0 .. PageSize - 1
            BY <1>0, <1>1, <2>2
        <3>2. Aligned = PageSize - r
            <4> DEFINE d == PageSize - r
            <4>1. d \in 0 .. PageSize - 1
                BY <3>1
            <4> HIDE DEF d
            <4>2. d % PageSize = d
                BY <1>0, <4>1
            <4> QED
                BY <4>2 DEF d, Aligned
        <3> QED
            BY <1>0, <1>1, <3>1, <3>2 DEF Chunk
    <2> QED
        BY <1>1, <2>1, <2>2
<1>3. ASSUME NEW k \in 0 .. n - 1 PROVE InPage(a, k) % Size = a + k
    <2>1. k \in Nat /\ r + k < PageSize
        BY <1>0, <1>1
    <2>2. (a + k) % PageSize = r + k
        BY <1>0, <2>1, WithinPage
    <2>3. InPage(a, k) = a + k
        <3> HIDE DEF a, r
        <3>1. InPage(a, k) = (a - (a % PageSize)) + ((a + k) % PageSize)
            BY DEF InPage
        <3>2. InPage(a, k) = (a - r) + (r + k)
            BY <2>2, <3>1 DEF r
        <3> QED
            BY <1>0, <1>1, <2>1, <3>2
    <2>4. a + k \in 0 .. Size - 1
        BY <1>0, <1>1
    <2>5. (a + k) % Size = a + k
        <3> DEFINE x == a + k
        <3> HIDE DEF x
        <3>1. x \in 0 .. Size - 1
            BY <2>4 DEF x
        <3>2. x % Size = x
            BY <1>0, <3>1
        <3> QED
            BY <3>2 DEF x
    <2> QED
        BY <2>3, <2>5
<1>4. a + off = a /\ \A j \in Int : off + j = j
    BY <1>0
<1>5. {j \in 0 .. n - 1 : off + j \in call.zeros} = call.zeros
    BY <1>0, <1>4
<1>6. Zeros(a, n) = {InPage(a, k) % Size : k \in call.zeros}
    BY <1>5 DEF Zeros
<1>7. Zeros(a, n) = {a + k : k \in call.zeros}
    <2> HIDE DEF a, n
    <2> QED
        BY <1>0, <1>3, <1>6
<1> QED
    BY <1>2, <1>4, <1>7 DEF Target

-----------------------------------------------------------------------------
(***************************************************************************)
(* The pages of a write of any length: after the first PROGRAM each begins *)
(* at the head of a page, so none crosses the end of one.                  *)
(***************************************************************************)
LEMMA RemainderOf ==
    ASSUME NEW p \in Nat, p > 0, NEW x \in Nat, NEW g \in Nat, NEW r \in 0 .. p - 1,
           x = p * g + r
    PROVE  x % p = r
<1>1. /\ x \div p \in Nat /\ x % p \in 0 .. p - 1
      /\ x = p * (x \div p) + (x % p)
    OBVIOUS
<1>2. PICK h \in Nat : h = x \div p
    BY <1>1
<1>3. PICK s \in 0 .. p - 1 : s = x % p
    BY <1>1
<1>4. p * h + s = p * g + r
    BY <1>1, <1>2, <1>3
<1> QED
    BY <1>3, <1>4, SameRemainder

LEMMA QuotientOf ==
    ASSUME NEW p \in Nat, p > 0, NEW x \in Nat
    PROVE  /\ x % p \in 0 .. p - 1
           /\ \E g \in Nat : x = p * g + (x % p)
<1>1. x \div p \in Nat /\ x = p * (x \div p) + (x % p)
    OBVIOUS
<1> QED
    BY <1>1

(* What comes after the rest of a page, or after a page, begins a page.    *)
LEMMA NextPage ==
    ASSUME NEW p \in Nat, p > 0, NEW x \in Nat
    PROVE  /\ (x + (p - (x % p))) % p = 0
           /\ x % p = 0 => (x + p) % p = 0
<1>1. PICK g \in Nat : x = p * g + (x % p)
    BY QuotientOf
<1>2. PICK r \in 0 .. p - 1 : r = x % p
    BY QuotientOf
<1>3. p * (g + 1) = p * g + p /\ p * g \in Nat /\ g + 1 \in Nat
    OBVIOUS
<1>4. PICK y \in Nat : y = x + (p - r)
    BY <1>2
<1>5. y % p = 0
    <2>1. y = p * (g + 1) + 0
        BY <1>1, <1>2, <1>3, <1>4
    <2> QED
        BY <1>3, <2>1, RemainderOf
<1>6. ASSUME r = 0 PROVE (x + p) % p = 0
    <2>1. y = x + p
        BY <1>4, <1>6
    <2> QED
        BY <1>5, <2>1
<1> QED
    BY <1>2, <1>4, <1>5, <1>6

(* The distance to the next page.                                          *)
LEMMA AlignedIs ==
    ASSUME call \in Calls, call.op = "write"
    PROVE  /\ call.adr % PageSize \in 0 .. PageSize - 1
           /\ Aligned = IF call.adr % PageSize = 0 THEN 0
                        ELSE PageSize - (call.adr % PageSize)
<1>1. call.adr \in Nat /\ PageSize \in Nat /\ PageSize > 0
    BY CallKinds, FlashSizes
<1>2. call.adr % PageSize \in 0 .. PageSize - 1
    BY <1>1, QuotientOf
<1>3. PICK d \in 1 .. PageSize : d = PageSize - (call.adr % PageSize)
    BY <1>1, <1>2
<1>4. Aligned = d % PageSize
    BY <1>3 DEF Aligned
<1>5. d % PageSize = IF d = PageSize THEN 0 ELSE d
    BY <1>1, <1>3
<1> QED
    BY <1>1, <1>2, <1>3, <1>4, <1>5

InStride ==
    /\ off \in Nat /\ off < call.len
    /\ off > 0 => (call.adr + off) % PageSize = 0

Sending ==
    call \in Calls /\ call.op = "write" =>
        /\ InStride
        /\ at \in {"check", "wren", "latch"} => off = 0
        /\ at = "idle" /\ ret = 0 => off + Chunk = call.len

LEMMA ChunkFits ==
    ASSUME call \in Calls, call.op = "write", InStride
    PROVE  /\ Chunk \in 1 .. call.len - off
           /\ ((call.adr + off) % PageSize) + Chunk <= PageSize
           /\ off + Chunk < call.len => (call.adr + (off + Chunk)) % PageSize = 0
<1>1. /\ call.adr \in Nat /\ call.len \in Nat /\ off \in Nat /\ off < call.len
      /\ PageSize \in Nat /\ PageSize > 0
    BY CallKinds, FlashSizes DEF InStride
<1>2. PICK r \in 0 .. PageSize - 1 : r = call.adr % PageSize
    BY AlignedIs
<1>3. Aligned = IF r = 0 THEN 0 ELSE PageSize - r
    BY <1>2, AlignedIs
<1>4. CASE off = 0 /\ r > 0
    <2>1. Aligned = PageSize - r /\ Aligned > 0
        BY <1>1, <1>2, <1>3, <1>4
    <2>2. Chunk = IF PageSize - r > call.len THEN call.len ELSE PageSize - r
        BY <1>4, <2>1 DEF Chunk
    <2>3. call.adr + off = call.adr /\ off + Chunk = Chunk
        BY <1>1, <1>2, <1>4, <2>2
    <2>4. (call.adr + (PageSize - r)) % PageSize = 0
        BY <1>1, <1>2, NextPage
    <2>5. Chunk \in 1 .. call.len - off /\ r + Chunk <= PageSize
        <3>1. PICK n \in Nat : n = call.len /\ n > 0
            BY <1>1, <1>4
        <3>2. PICK d \in Nat : d = PageSize - r /\ d > 0 /\ d + r = PageSize
            BY <1>1, <1>2
        <3>3. Chunk = IF d > n THEN n ELSE d
            BY <2>2, <3>1, <3>2
        <3>4. Chunk \in 1 .. n /\ Chunk <= d
            BY <3>1, <3>2, <3>3
        <3>5. call.len - off = n
            BY <1>4, <3>1
        <3>6. r + Chunk <= PageSize
            BY <1>1, <1>2, <3>2, <3>4
        <3> QED
            BY <3>4, <3>5, <3>6
    <2>6. (call.adr + off) % PageSize = r
        BY <1>2, <2>3
    <2>7. off + Chunk < call.len => off + Chunk = PageSize - r
        BY <1>1, <1>2, <1>4, <2>2, <2>3
    <2> QED
        BY <2>4, <2>5, <2>6, <2>7
<1>5. CASE off > 0 \/ r = 0
    <2>1. PICK x \in Nat : x = call.adr + off
        BY <1>1
    <2>2. x % PageSize = 0
        <3>1. CASE off = 0
            <4>1. x = call.adr /\ r = 0
                BY <1>1, <1>5, <2>1, <3>1
            <4> QED
                BY <1>2, <4>1
        <3>2. CASE off > 0
            BY <2>1, <3>2 DEF InStride
        <3> QED
            BY <1>1, <3>1, <3>2
    <2>3. Chunk = IF off + PageSize < call.len THEN PageSize ELSE call.len - off
        BY <1>1, <1>3, <1>5 DEF Chunk
    <2>4. (x + PageSize) % PageSize = 0
        BY <1>1, <2>2, NextPage
    <2>5. off + Chunk < call.len => Chunk = PageSize
        BY <1>1, <2>3
    <2>6. call.adr + (off + PageSize) = x + PageSize
        BY <1>1, <2>1
    <2>7. Chunk \in 1 .. call.len - off
        BY <1>1, <2>3
    <2>8. (x % PageSize) + Chunk <= PageSize
        BY <1>1, <2>2, <2>3
    <2> QED
        BY <2>1, <2>4, <2>5, <2>6, <2>7, <2>8
<1> QED
    BY <1>1, <1>2, <1>4, <1>5

LEMMA SendingStep ==
    ASSUME FlashTypes, Sending, [FlashNext]_flashVars
    PROVE  Sending'
<1> USE DEF driver, memory, rest
<1>1. ASSUME NEW c \in Calls, Begin(c) PROVE Sending'
    BY <1>1, CallKinds DEF Begin, Sending, InStride
<1>2. ASSUME UNCHANGED <<call, off>>,
             call.op = "write" /\ at' \in {"check", "wren", "latch"} =>
                 at \in {"check", "wren", "latch"},
             at' = "idle" /\ ret' = 0 =>
                 \/ at = "idle" /\ ret = 0
                 \/ at = "flags" /\ ~(off + Chunk < call.len)
      PROVE Sending'
    <2> SUFFICES ASSUME call \in Calls, call.op = "write" PROVE Sending'
        BY <1>2 DEF Sending
    <2>1. call \in Calls /\ call.op = "write" /\ InStride
        BY DEF Sending
    <2>2. Chunk' = Chunk /\ InStride'
        BY <1>2, <2>1 DEF Chunk, Aligned, InStride
    <2>3. ~(off + Chunk < call.len) => off + Chunk = call.len
        BY <2>1, ChunkFits, CallKinds DEF InStride
    <2> QED
        BY <1>2, <2>1, <2>2, <2>3 DEF Sending
<1>3. CASE Complete \/ Fault
    BY <1>2, <1>3 DEF Complete, Fault, Finish
<1>4. CASE Check
    <2>1. UNCHANGED <<call, off>>
        BY <1>4 DEF Check, Continue, Return
    <2>2. call.op \in {"write", "read", "erase"}
        BY <1>4, CallKinds DEF Check, FlashTypes
    <2>3. FirstStep[call.op] # "idle"
        BY <2>2 DEF FirstStep
    <2>4. at' = "idle" => ret' = -1
        BY <1>4, <2>3 DEF Check, Continue, Return
    <2> QED
        BY <1>2, <1>4, <2>1, <2>4 DEF Check
<1>5. CASE IsBusy
    <2>1. UNCHANGED <<call, off>> /\ (at' = "idle" => ret' = -1)
          /\ (call.op = "write" => at' \in {"idle", "command"})
        <3>1. CASE Busy \/ (call.op = "write" /\ call.adr + off > Size)
            BY <1>5, <3>1 DEF IsBusy, Return
        <3>2. CASE ~(Busy \/ (call.op = "write" /\ call.adr + off > Size))
            BY <1>5, <3>2 DEF IsBusy, Continue
        <3> QED
            BY <3>1, <3>2
    <2> QED
        BY <1>2, <2>1
<1>6. CASE WriteEnable \/ ReadLatch
    <2>1. UNCHANGED <<call, off>> /\ (at' = "idle" => ret' = -1) /\ at \in {"wren", "latch"}
        BY <1>6 DEF WriteEnable, ReadLatch, Continue, Return
    <2> QED
        BY <1>2, <2>1
<1>7. CASE Program \/ Erase
    BY <1>2, <1>7 DEF Program, Erase, Continue
<1>8. CASE Poll
    BY <1>2, <1>8 DEF Poll
<1>9. CASE Flags
    <2>1. CASE timeout \/ (call.op = "write" /\ failed)
        <3>1. UNCHANGED <<call, off>> /\ at' = "idle" /\ ret' = -1
            BY <1>9, <2>1 DEF Flags, Return
        <3> QED
            BY <1>2, <3>1
    <2>4. CASE ~timeout /\ call.op # "write"
        <3>1. call' = call
            BY <1>9, <2>4 DEF Flags, Return
        <3> QED
            BY <2>4, <3>1 DEF Sending
    <2>2. CASE ~timeout /\ ~failed /\ call.op = "write" /\ off + Chunk < call.len
        <3>1. /\ call' = call /\ call.op = "write" /\ call \in Calls
              /\ at' = "busy" /\ off' = off + Chunk
            BY <1>9, <2>2 DEF Flags, FlashTypes
        <3>2. InStride
            BY <3>1 DEF Sending
        <3>3. Chunk \in 1 .. call.len - off /\ (call.adr + (off + Chunk)) % PageSize = 0
            BY <2>2, <3>1, <3>2, ChunkFits
        <3>4. InStride'
            BY <2>2, <3>1, <3>2, <3>3, CallKinds DEF InStride
        <3> QED
            BY <3>1, <3>4 DEF Sending
    <2>3. CASE ~timeout /\ ~failed /\ call.op = "write" /\ ~(off + Chunk < call.len)
        <3>1. UNCHANGED <<call, off>> /\ at = "flags" /\ at' = "idle"
            BY <1>9, <2>3 DEF Flags, Return
        <3> QED
            BY <1>2, <2>3, <3>1
    <2> QED
        BY <2>1, <2>2, <2>3, <2>4
<1>10. CASE Read \/ Unselect
    <2>1. call' = call /\ call.op = "read"
        BY <1>10 DEF Read, Unselect, Return, FlashTypes
    <2> QED
        BY <2>1 DEF Sending
<1>11. CASE UNCHANGED flashVars
    BY <1>2, <1>11 DEF flashVars
<1> QED
    BY <1>1, <1>3, <1>4, <1>5, <1>6, <1>7, <1>8, <1>9, <1>10, <1>11
       DEF FlashNext, Driver

(* For every size of the pages and the memory, a write of any length gives *)
(* each of its bytes to its own cell, and one that is reported as done has *)
(* sent them all.                                                          *)
THEOREM BytesAreSent == FlashSpec => []SendsEveryByte
<1>1. FlashInit => FlashTypes /\ Sending
    <2>1. FlashInit => Sending
        BY NothingAssumption DEF FlashInit, Sending
    <2> QED
        BY <2>1, FlashStarts
<1>2. FlashTypes /\ Sending /\ [FlashNext]_flashVars => FlashTypes' /\ Sending'
    BY FlashTypesStep, SendingStep
<1>3. FlashTypes /\ Sending => SendsEveryByte
    <2> SUFFICES ASSUME FlashTypes, Sending, call \in Calls, call.op = "write"
                 PROVE  Zeros(call.adr + off, Chunk) =
                          {(call.adr + j) % Size :
                             j \in call.zeros \cap (off .. off + Chunk - 1)}
        BY DEF SendsEveryByte, Sending, FlashTypes
    <2>1. /\ call.adr \in Nat /\ call.len \in Nat /\ off \in Nat /\ off < call.len
          /\ PageSize \in Nat /\ PageSize > 0 /\ call.zeros \subseteq Nat
        BY CallKinds, FlashSizes DEF Sending, InStride
    <2>2. PICK n \in Nat : n = Chunk /\ ((call.adr + off) % PageSize) + n <= PageSize
        BY ChunkFits DEF Sending
    <2>3. PICK a \in Nat : a = call.adr + off
        BY <2>1
    <2>4. ASSUME NEW e \in 0 .. n - 1 PROVE InPage(a, e) = call.adr + (off + e)
        <3>0. e \in Nat
            BY <2>2, <2>4
        <3>1. a % PageSize \in 0 .. PageSize - 1 /\ (a % PageSize) + e < PageSize
            BY <2>1, <2>2, <2>3, <2>4, QuotientOf
        <3>2. (a + e) % PageSize = (a % PageSize) + e
            BY <2>1, <3>0, <3>1, WithinPage
        <3>3. InPage(a, e) = (a - (a % PageSize)) + ((a % PageSize) + e)
            BY <3>2 DEF InPage
        <3> QED
            BY <2>1, <2>3, <2>4, <3>1, <3>3
    <2>5. Zeros(a, n) = {InPage(a, e) % Size : e \in {j \in 0 .. n - 1 : off + j \in call.zeros}}
        BY DEF Zeros
    <2>6. ASSUME NEW y \in Zeros(a, n)
          PROVE  \E j \in call.zeros \cap (off .. off + n - 1) : y = (call.adr + j) % Size
        <3>1. PICK e \in 0 .. n - 1 : off + e \in call.zeros /\ y = InPage(a, e) % Size
            BY <2>5, <2>6
        <3>2. off + e \in off .. off + n - 1
            BY <2>1, <2>2, <3>1
        <3> QED
            BY <2>4, <3>1, <3>2
    <2>7. ASSUME NEW j \in call.zeros \cap (off .. off + n - 1)
          PROVE  (call.adr + j) % Size \in Zeros(a, n)
        <3>1. PICK e \in 0 .. n - 1 : j = off + e
            <4>1. j - off \in 0 .. n - 1 /\ j = off + (j - off)
                BY <2>1, <2>2, <2>7
            <4> QED
                BY <4>1
        <3>2. InPage(a, e) = call.adr + j
            BY <2>4, <3>1
        <3> QED
            BY <2>5, <2>7, <3>1, <3>2
    <2> QED
        BY <2>2, <2>3, <2>6, <2>7
<1> QED
    BY <1>1, <1>2, <1>3, PTL DEF FlashSpec

-----------------------------------------------------------------------------
(***************************************************************************)
(* A write in one page of the memory that finds it ready: the latch it     *)
(* sets is still set at its PROGRAM, whose end is the only thing that can  *)
(* happen to the memory before the call returns.                           *)
(***************************************************************************)
Own == call.op = "write" /\ Kept(call) /\ ~found

OwnJob == [op |-> "write", cells |-> Target(call)]

OwnStored ==
    call \in Calls /\ Own =>
        /\ at \in {"check", "wren"} => ~Busy /\ off = 0
        /\ at \in {"latch", "busy", "command"} => ~Busy /\ off = 0 /\ latch
        /\ at \in {"poll", "flags"} => /\ off = 0 /\ (Busy => job = OwnJob)
                                       /\ ~Busy => failed \/ Target(call) \subseteq cleared
        /\ at = "flags" /\ ~timeout => ~Busy
        /\ at = "idle" /\ ret = 0 => ~Busy /\ Target(call) \subseteq cleared

LEMMA OwnStep ==
    ASSUME FlashTypes, OwnStored, [FlashNext]_flashVars
    PROVE  OwnStored'
<1> SUFFICES ASSUME call' \in Calls, Own'
             PROVE  /\ at' \in {"check", "wren"} => ~Busy' /\ off' = 0
                    /\ at' \in {"latch", "busy", "command"} => ~Busy' /\ off' = 0 /\ latch'
                    /\ at' \in {"poll", "flags"} =>
                         /\ off' = 0 /\ (Busy' => job' = OwnJob')
                         /\ ~Busy' => failed' \/ Target(call)' \subseteq cleared'
                    /\ at' = "flags" /\ ~timeout' => ~Busy'
                    /\ at' = "idle" /\ ret' = 0 => ~Busy' /\ Target(call)' \subseteq cleared'
    BY DEF OwnStored
<1>0. ASSUME UNCHANGED <<call, found>>
      PROVE  /\ call \in Calls /\ Own /\ OwnJob' = OwnJob /\ Target(call)' = Target(call)
             /\ at \in {"check", "wren"} => ~Busy /\ off = 0
             /\ at \in {"latch", "busy", "command"} => ~Busy /\ off = 0 /\ latch
             /\ at \in {"poll", "flags"} => /\ off = 0 /\ (Busy => job = OwnJob)
                                            /\ ~Busy => failed \/ Target(call) \subseteq cleared
             /\ at = "flags" /\ ~timeout => ~Busy
             /\ at = "idle" /\ ret = 0 => ~Busy /\ Target(call) \subseteq cleared
    <2>1. call \in Calls /\ Own
        BY <1>0 DEF Own, Kept, OnePage
    <2>2. OwnJob' = OwnJob /\ Target(call)' = Target(call)
        BY <1>0 DEF OwnJob, Target
    <2> QED
        BY <2>1, <2>2 DEF OwnStored
<1>1. CASE Complete
    <2>1. UNCHANGED <<driver, rest>> /\ Busy /\ ~Busy'
        BY <1>1 DEF Complete, Finish, Busy
    <2>2. UNCHANGED <<call, found, at, off, timeout, ret>>
        BY <2>1 DEF driver, rest
    <2>3. at \notin {"check", "wren", "latch", "busy", "command"}
        BY <1>0, <2>1, <2>2
    <2>4. cleared' = IF job.op = "erase" THEN cleared \ job.cells ELSE cleared \cup job.cells
        BY <1>1 DEF Complete, Finish
    <2>5. CASE at \in {"poll", "flags"}
        <3>1. job.op = "write" /\ job.cells = Target(call)
            BY <1>0, <2>1, <2>2, <2>5 DEF OwnJob
        <3>2. Target(call)' \subseteq cleared'
            BY <1>0, <2>2, <2>4, <3>1
        <3> QED
            BY <1>0, <2>1, <2>2, <2>5, <3>2
    <2>6. CASE at \notin {"poll", "flags"}
        BY <1>0, <2>1, <2>2, <2>3, <2>6
    <2> QED
        BY <2>5, <2>6
<1>2. CASE Fault
    <2>1. UNCHANGED <<driver, rest>> /\ Busy /\ ~Busy' /\ failed'
        BY <1>2 DEF Fault, Finish, Busy
    <2>2. UNCHANGED <<call, found, at, off, timeout, ret>>
        BY <2>1 DEF driver, rest
    <2> QED
        BY <1>0, <2>1, <2>2
<1>3. ASSUME NEW c \in Calls, Begin(c)
      PROVE  at' = "check" /\ off' = 0 /\ ~Busy'
    <2>1. /\ at' = "check" /\ off' = 0 /\ found' = Busy /\ job' = job
        BY <1>3 DEF Begin, memory
    <2> QED
        BY <2>1 DEF Own, Busy
<1>4. CASE Check
    <2>1. /\ UNCHANGED <<call, found, off, job, latch, failed, cleared>>
          /\ at = "check"
          /\ at' = FirstStep[call.op] \/ (at' = "idle" /\ ret' = -1)
        BY <1>4 DEF Check, Continue, Return, rest, memory
    <2>2. FirstStep[call.op] = "wren"
        BY <1>0, <2>1 DEF FirstStep, Own
    <2> QED
        BY <1>0, <2>1, <2>2 DEF Busy
<1>5. CASE IsBusy
    <2>1. /\ UNCHANGED <<call, found, off, job, latch, failed, cleared>>
          /\ at = "busy" /\ (at' \in {"wren", "command"} \/ (at' = "idle" /\ ret' = -1))
        BY <1>5 DEF IsBusy, Continue, Return, rest, memory
    <2> QED
        BY <1>0, <2>1 DEF Busy
<1>6. CASE WriteEnable
    <2>1. /\ UNCHANGED <<call, found, off, job>>
          /\ at = "wren" /\ at' = "latch" /\ latch' = (latch \/ ~Busy)
        BY <1>6 DEF WriteEnable, Continue, rest
    <2> QED
        BY <1>0, <2>1 DEF Busy
<1>7. CASE ReadLatch
    <2>1. /\ UNCHANGED <<call, found, off, job, latch>>
          /\ at = "latch" /\ (at' \in {"command", "busy"} \/ (at' = "idle" /\ ret' = -1))
        BY <1>7 DEF ReadLatch, Continue, Return, rest, memory
    <2> QED
        BY <1>0, <2>1 DEF Busy
<1>8. CASE Program
    <2>1. /\ UNCHANGED <<call, found, off>> /\ at = "command" /\ at' = "poll"
          /\ job' = IF latch /\ ~Busy
                    THEN [op |-> "write", cells |-> Zeros(call.adr + off, Chunk)] ELSE job
        BY <1>8 DEF Program, Accept, Continue, rest
    <2>2. call \in Calls /\ Own /\ off = 0 /\ latch /\ ~Busy
        BY <1>0, <2>1
    <2>3. Zeros(call.adr + off, Chunk) = Target(call)
        BY <2>2, OnePageIsOneChunk DEF Own
    <2>4. job' = OwnJob'
        BY <1>0, <2>1, <2>2, <2>3 DEF OwnJob
    <2>5. Busy'
        <3>1. [op |-> "write", cells |-> Zeros(call.adr + off, Chunk)] \in Jobs
            BY <2>2, CellsOfProgram DEF Own, Jobs
        <3> QED
            BY <2>1, <2>2, <3>1, NothingAssumption DEF Busy
    <2> QED
        BY <2>1, <2>2, <2>4, <2>5
<1>9. CASE Erase
    BY <1>9 DEF Erase, Continue, Own
<1>10. CASE Poll
    <2>1. /\ UNCHANGED <<call, found, off, job, failed, cleared>>
          /\ at = "poll" /\ at' = "flags" /\ timeout' = Busy
        BY <1>10 DEF Poll, rest, memory
    <2> QED
        BY <1>0, <2>1 DEF Busy
<1>11. CASE Flags
    <2>1. UNCHANGED <<call, found, job, cleared>> /\ at = "flags"
        BY <1>11 DEF Flags, Return, rest
    <2>2. call \in Calls /\ call.op = "write" /\ Chunk = call.len /\ off = 0
        BY <1>0, <2>1, OnePageIsOneChunk DEF Own
    <2>3. ~(off + Chunk < call.len)
        BY <2>2, CallKinds
    <2>4. /\ at' = "idle"
          /\ ret' = IF timeout \/ failed THEN -1 ELSE 0
        BY <1>11, <2>2, <2>3 DEF Flags, Return
    <2>5. ret' = 0 => ~timeout /\ ~failed
        BY <2>4
    <2> QED
        BY <1>0, <2>1, <2>4, <2>5 DEF Busy
<1>12. CASE Read
    BY <1>12 DEF Read, FlashTypes, Own
<1>13. CASE Unselect
    BY <1>13 DEF Unselect, Return, FlashTypes, Own
<1>14. CASE UNCHANGED flashVars
    <2>1. UNCHANGED <<call, found, at, off, timeout, ret, job, latch, failed, cleared>>
        BY <1>14 DEF flashVars, driver, memory, rest
    <2> QED
        BY <1>0, <2>1 DEF Busy
<1> QED
    BY <1>1, <1>2, <1>3, <1>4, <1>5, <1>6, <1>7, <1>8, <1>9, <1>10, <1>11, <1>12, <1>13, <1>14
       DEF FlashNext, Driver

(* What a write in one page reports as done is in the memory, for every    *)
(* history of time-outs and faults, if the memory was ready at its start.  *)
THEOREM ReportsAreTrue ==
    FlashSpec => []ReportedIsStored
<1>1. FlashInit => FlashTypes /\ OwnStored
    <2> SUFFICES ASSUME FlashInit PROVE FlashTypes /\ OwnStored
        OBVIOUS
    <2>1. call \notin Calls
        BY NothingAssumption DEF FlashInit
    <2> QED
        BY <2>1, FlashStarts DEF OwnStored
<1>2. FlashTypes /\ OwnStored /\ [FlashNext]_flashVars => FlashTypes' /\ OwnStored'
    BY FlashTypesStep, OwnStep
<1>3. FlashTypes /\ OwnStored => ReportedIsStored
    BY DEF FlashTypes, OwnStored, Own, ReportedIsStored
<1> QED
    BY <1>1, <1>2, <1>3, PTL DEF FlashSpec

-----------------------------------------------------------------------------
(***************************************************************************)
(* The driver as a NorMemory.  In an orderly behaviour only the operation  *)
(* of the call in progress ever runs, and the call polls until it ends.    *)
(***************************************************************************)
OrderlyInv ==
    orderly =>
        /\ ~failed /\ ~timeout
        /\ at # "poll" => ~Busy
        /\ at # "idle" => Kept(call) /\ (call.op = "write" => off = 0)
        /\ at \in {"latch", "command"} => latch
        /\ at = "busy" /\ call.op = "write" => latch
        /\ at = "poll" /\ Busy => job = Request(call)

LEMMA OrderlyStep ==
    ASSUME FlashTypes, OrderlyInv, [FlashNext]_flashVars
    PROVE  OrderlyInv'
<1> SUFFICES ASSUME orderly'
             PROVE  /\ ~failed' /\ ~timeout'
                    /\ at' # "poll" => ~Busy'
                    /\ at' # "idle" => Kept(call)' /\ (call'.op = "write" => off' = 0)
                    /\ at' \in {"latch", "command"} => latch'
                    /\ at' = "busy" /\ call'.op = "write" => latch'
                    /\ at' = "poll" /\ Busy' => job' = Request(call)'
    BY DEF OrderlyInv
<1>0. ASSUME UNCHANGED orderly
      PROVE  /\ ~failed /\ ~timeout
             /\ at # "poll" => ~Busy
             /\ at # "idle" => Kept(call) /\ (call.op = "write" => off = 0)
             /\ at \in {"latch", "command"} => latch
             /\ at = "busy" /\ call.op = "write" => latch
             /\ at = "poll" /\ Busy => job = Request(call)
    BY <1>0 DEF OrderlyInv
<1>01. ASSUME UNCHANGED call
       PROVE  Kept(call)' = Kept(call) /\ Request(call)' = Request(call)
    BY <1>01 DEF Kept, OnePage, Request, Target, Range, Unit
<1>1. CASE Complete
    <2>1. UNCHANGED <<orderly, at, call, off, timeout>> /\ ~Busy' /\ Busy
        BY <1>1 DEF Complete, Finish, Busy, driver, rest
    <2>2. failed' = (failed \/ FALSE)
        BY <1>1 DEF Complete, Finish
    <2> QED
        BY <1>0, <1>01, <2>1, <2>2
<1>2. CASE Fault
    BY <1>2 DEF Fault, Finish, rest
<1>3. ASSUME NEW c \in Calls, Begin(c)
      PROVE  /\ ~failed' /\ ~timeout' /\ ~Busy' /\ at' = "check" /\ Kept(call)' /\ off' = 0
    <2>1. /\ UNCHANGED <<orderly, job, failed>> /\ at = "idle" /\ at' = "check"
          /\ call' = c /\ timeout' = FALSE /\ off' = 0 /\ (orderly => Kept(c))
        BY <1>3 DEF Begin, memory
    <2>2. Kept(call)' = Kept(c)
        BY <2>1 DEF Kept, OnePage
    <2> QED
        BY <1>0, <2>1, <2>2 DEF Busy
<1>4. CASE Check
    <2>1. /\ UNCHANGED <<orderly, call, off, timeout, job, latch, failed>>
          /\ at = "check" /\ (at' = FirstStep[call.op] \/ at' = "idle")
        BY <1>4 DEF Check, Continue, Return, rest, memory
    <2>2. call \in Calls /\ call.op \in {"write", "read", "erase"}
        BY <2>1, CallKinds DEF FlashTypes
    <2>3. /\ at' \in {"wren", "read", "busy", "idle"}
          /\ at' = "busy" => call.op = "erase"
        BY <2>1, <2>2 DEF FirstStep
    <2> QED
        BY <1>0, <1>01, <2>1, <2>3 DEF Busy
<1>5. CASE IsBusy
    <2>1. /\ UNCHANGED <<orderly, call, off, timeout, job, latch, failed>> /\ at = "busy"
          /\ \/ at' = "idle"
             \/ at' = IF call.op = "erase" THEN "wren" ELSE "command"
        BY <1>5 DEF IsBusy, Continue, Return, rest, memory
    <2>2. call.op \in {"write", "erase"}
        BY <2>1 DEF FlashTypes
    <2> QED
        BY <1>0, <1>01, <2>1, <2>2 DEF Busy
<1>6. CASE WriteEnable
    <2>1. /\ UNCHANGED <<orderly, call, off, timeout, job, failed>>
          /\ at = "wren" /\ at' = "latch" /\ latch' = (latch \/ ~Busy)
        BY <1>6 DEF WriteEnable, Continue, rest
    <2> QED
        BY <1>0, <1>01, <2>1 DEF Busy
<1>7. CASE ReadLatch
    <2>1. /\ UNCHANGED <<orderly, call, off, timeout, job, latch, failed>>
          /\ at = "latch" /\ at' \in {"idle", "busy", "command"}
        BY <1>7 DEF ReadLatch, Continue, Return, rest, memory
    <2> QED
        BY <1>0, <1>01, <2>1 DEF Busy
<1>8. CASE Program \/ Erase
    <2>1. /\ UNCHANGED <<orderly, call, off, timeout, latch, failed>>
          /\ at = "command" /\ at' = "poll"
        BY <1>8 DEF Program, Erase, Continue, rest
    <2>2. latch /\ ~Busy /\ Kept(call) /\ (call.op = "write" => off = 0) /\ call \in Calls
        BY <1>0, <2>1 DEF FlashTypes
    <2>3. CASE Program
        <3>1. call.op = "write" /\ Zeros(call.adr + off, Chunk) = Target(call)
            BY <2>2, <2>3, OnePageIsOneChunk DEF Program
        <3>2. job' = Request(call)
            BY <2>2, <2>3, <3>1 DEF Program, Accept, Request
        <3> QED
            BY <1>0, <1>01, <2>1, <2>2, <3>2
    <2>4. CASE Erase
        <3>1. job' = Request(call)
            BY <2>2, <2>4 DEF Erase, Accept, Request
        <3> QED
            BY <1>0, <1>01, <2>1, <2>2, <3>1
    <2> QED
        BY <1>8, <2>3, <2>4
<1>9. CASE Poll
    <2>1. /\ UNCHANGED <<orderly, call, off, job, latch, failed>>
          /\ at = "poll" /\ at' = "flags" /\ timeout' = Busy /\ (~Busy \/ ~orderly)
        BY <1>9 DEF Poll, rest, memory
    <2> QED
        BY <1>0, <1>01, <2>1 DEF Busy
<1>10. CASE Flags
    <2>1. /\ UNCHANGED <<orderly, call, timeout, job, latch>>
          /\ at = "flags" /\ ~failed'
        BY <1>10 DEF Flags, Return, rest
    <2>2. call \in Calls /\ Kept(call) /\ (call.op = "write" => off = 0)
        BY <1>0, <2>1 DEF FlashTypes
    <2>3. ~(call.op = "write" /\ off + Chunk < call.len)
        <3>1. ASSUME call.op = "write" PROVE ~(off + Chunk < call.len)
            <4>1. Chunk = call.len /\ off = 0
                BY <2>2, <3>1, OnePageIsOneChunk
            <4> QED
                BY <2>2, <3>1, <4>1, CallKinds
        <3> QED
            BY <3>1
    <2>4. at' = "idle"
        BY <1>10, <2>3 DEF Flags, Return
    <2> QED
        BY <1>0, <1>01, <2>1, <2>4 DEF Busy
<1>11. CASE Read
    <2>1. /\ UNCHANGED <<orderly, call, off, timeout, job, latch, failed>>
          /\ at = "read" /\ at' = "unselect"
        BY <1>11 DEF Read, rest, memory
    <2> QED
        BY <1>0, <1>01, <2>1 DEF Busy
<1>12. CASE Unselect
    <2>1. /\ UNCHANGED <<orderly, call, off, timeout, job, latch, failed>>
          /\ at = "unselect" /\ at' = "idle"
        BY <1>12 DEF Unselect, Return, rest, memory
    <2> QED
        BY <1>0, <2>1 DEF Busy
<1>13. CASE UNCHANGED flashVars
    <2>1. UNCHANGED <<orderly, at, call, off, timeout, job, latch, failed>>
        BY <1>13 DEF flashVars, driver, memory, rest
    <2> QED
        BY <1>0, <1>01, <2>1 DEF Busy
<1> QED
    BY <1>1, <1>2, <1>3, <1>4, <1>5, <1>6, <1>7, <1>8, <1>9, <1>10, <1>11, <1>12, <1>13
       DEF FlashNext, Driver

(* A request is not NoCall. *)
LEMMA RequestIsSomething ==
    ASSUME NEW c \in Calls
    PROVE  Request(c) # NoCall
<1>1. Request(c).cells \in SUBSET Nat
    <2>1. CASE c.op = "write"
        <3>1. \A k \in c.zeros : c.adr + k \in Nat
            BY <2>1, CallKinds
        <3> QED
            BY <2>1, <3>1 DEF Request, Target
    <2>2. CASE c.op = "read"
        <3>1. c.adr \in Nat /\ c.len \in Nat
            BY <2>2, CallKinds
        <3>2. \A k \in 0 .. c.len - 1 : (c.adr + k) % Size \in Nat
            <4>1. SUFFICES ASSUME NEW k \in 0 .. c.len - 1
                           PROVE  (c.adr + k) % Size \in Nat
                OBVIOUS
            <4>2. c.adr + k \in Int
                BY <3>1
            <4> QED
                BY <4>2, FlashSizes
        <3> QED
            BY <2>2, <3>2 DEF Request, Range
    <2>3. CASE c.op = "erase"
        <3>1. Unit(c) \subseteq Nat
            BY <2>3, CellsOfUnit, FlashSizes
        <3> QED
            BY <2>3, <3>1 DEF Request
    <2> QED
        BY <2>1, <2>2, <2>3, CallKinds
<1>2. Request(c) \in [op : {"write", "read", "erase"}, cells : SUBSET Nat]
    BY <1>1, CallKinds DEF Request
<1> QED
    BY <1>2, NothingAssumption

(* The state of the NorMemory the driver stands for. *)
NorRequest == IF at = "idle" \/ ~orderly THEN NoCall ELSE Request(call)
NorDone == orderly /\ (at = "unselect" \/ (at \in {"poll", "flags"} /\ ~Busy))
NorCleared == IF orderly THEN cleared ELSE {}
NorRet == IF orderly THEN ret ELSE 0
NorGot == IF orderly THEN got ELSE {}

LEMMA NorStutters ==
    ASSUME UNCHANGED <<NorCleared, NorRequest, NorDone, NorRet, NorGot>>
    PROVE  [Nor!Next]_(Nor!vars)
    BY DEF NorCleared, NorRequest, NorDone, NorRet, NorGot, Nor!vars

LEMMA NorReturns ==
    ASSUME NorRequest # NoCall, NorRequest' = NoCall, ~NorDone',
           NorRet' = IF NorDone THEN 0 ELSE -1, UNCHANGED <<NorCleared, NorGot>>
    PROVE  [Nor!Next]_(Nor!vars)
    BY DEF NorCleared, NorRequest, NorDone, NorRet, NorGot, Nor!Next, Nor!Return

LEMMA NorApplies ==
    ASSUME NorRequest # NoCall, ~NorDone, NorDone', UNCHANGED <<NorRequest, NorRet>>,
           NorCleared' = IF NorRequest.op = "write" THEN NorCleared \cup NorRequest.cells
                         ELSE IF NorRequest.op = "erase" THEN NorCleared \ NorRequest.cells
                         ELSE NorCleared,
           NorGot' = IF NorRequest.op = "read" THEN NorCleared \cap NorRequest.cells ELSE NorGot
    PROVE  [Nor!Next]_(Nor!vars)
    BY DEF NorCleared, NorRequest, NorDone, NorRet, NorGot, Nor!Next, Nor!Apply

LEMMA NorStep ==
    ASSUME FlashTypes, OrderlyInv, [FlashNext]_flashVars
    PROVE  [Nor!Next]_(Nor!vars)
<1>0. UNCHANGED orderly
    BY DEF FlashNext, Driver, Complete, Fault, Finish, Begin, Check, IsBusy, WriteEnable, ReadLatch,
       Program, Erase, Poll, Flags, Read, Unselect, Continue, Return, flashVars, rest
<1>1. CASE ~orderly
    BY <1>0, <1>1, NorStutters DEF NorCleared, NorRequest, NorDone, NorRet, NorGot
<1>2. CASE orderly
    <2> USE <1>0, <1>2
    <2>0. /\ ~failed /\ ~timeout
          /\ at # "poll" => ~Busy
          /\ at # "idle" => Kept(call) /\ (call.op = "write" => off = 0)
          /\ at \in {"latch", "command"} => latch
          /\ at = "busy" /\ call.op = "write" => latch
          /\ at = "poll" /\ Busy => job = Request(call)
        BY DEF OrderlyInv
    <2>01. /\ NorCleared = cleared /\ NorRet = ret /\ NorGot = got
           /\ NorCleared' = cleared' /\ NorRet' = ret' /\ NorGot' = got'
           /\ NorRequest = (IF at = "idle" THEN NoCall ELSE Request(call))
           /\ NorRequest' = (IF at' = "idle" THEN NoCall ELSE Request(call)')
           /\ NorDone = (at = "unselect" \/ (at \in {"poll", "flags"} /\ ~Busy))
           /\ NorDone' = (at' = "unselect" \/ (at' \in {"poll", "flags"} /\ ~Busy'))
        BY DEF NorCleared, NorRequest, NorDone, NorRet, NorGot
    <2>02. ASSUME UNCHANGED call PROVE UNCHANGED Request(call)
        BY <2>02 DEF Request, Target, Range, Unit
    <2>03. ASSUME at # "idle" PROVE call \in Calls /\ Request(call) # NoCall
        BY <2>03, RequestIsSomething DEF FlashTypes
    <2>1. CASE Complete
        <3>1. UNCHANGED <<at, call, ret, got>> /\ Busy /\ ~Busy'
            BY <2>1 DEF Complete, Finish, Busy, driver
        <3>2. at = "poll" /\ job = Request(call)
            BY <2>0, <3>1
        <3>3. job.op \in {"write", "erase"}
            BY <3>2 DEF Request, FlashTypes
        <3>4. cleared' = IF job.op = "erase" THEN cleared \ job.cells
                                             ELSE cleared \cup job.cells
            BY <2>1 DEF Complete, Finish
        <3> QED
            BY <2>01, <2>02, <2>03, <3>1, <3>2, <3>3, <3>4, NorApplies
    <2>2. CASE Fault
        BY <2>2 DEF Fault
    <2>3. ASSUME NEW c \in Calls, Begin(c) PROVE [Nor!Next]_(Nor!vars)
        <3>1. /\ at = "idle" /\ at' = "check" /\ call' = c /\ got' = {}
              /\ UNCHANGED <<ret, cleared>>
            BY <2>3 DEF Begin, memory
        <3>2. /\ NorRequest = NoCall /\ NorRequest' = Request(c) /\ ~NorDone' /\ NorGot' = {}
              /\ UNCHANGED <<NorCleared, NorRet>>
            BY <2>01, <3>1 DEF Request, Target, Range, Unit
        <3>3. Nor!Call(Request(c))
            BY <3>2 DEF NorCleared, NorRequest, NorDone, NorRet, NorGot, Nor!Call
        <3> QED
            BY <3>3 DEF Nor!Next
    <2>4. CASE Check \/ IsBusy \/ WriteEnable \/ ReadLatch
        <3>1. /\ at \in {"check", "busy", "wren", "latch"} /\ UNCHANGED <<call, got, cleared>>
              /\ \/ at' \in {"wren", "read", "busy", "command", "latch"} /\ ret' = ret
                 \/ at' = "idle" /\ ret' = -1
            <4>1. CASE Check
                <5>1. call \in Calls /\ call.op \in {"write", "read", "erase"}
                    BY <4>1, CallKinds DEF Check, FlashTypes
                <5>2. FirstStep[call.op] \in {"wren", "read", "busy"}
                    BY <5>1 DEF FirstStep
                <5> QED
                    BY <4>1, <5>2 DEF Check, Continue, Return, memory
            <4>2. CASE IsBusy
                BY <4>2 DEF IsBusy, Continue, Return, memory
            <4>3. CASE WriteEnable \/ ReadLatch
                BY <4>3 DEF WriteEnable, ReadLatch, Continue, Return, memory
            <4> QED
                BY <2>4, <4>1, <4>2, <4>3
        <3>2. CASE at' = "idle" /\ ret' = -1
            BY <2>01, <2>03, <3>1, <3>2, NorReturns
        <3>3. CASE at' \in {"wren", "read", "busy", "command", "latch"} /\ ret' = ret
            BY <2>01, <2>02, <3>1, <3>3, NorStutters
        <3> QED
            BY <3>1, <3>2, <3>3
    <2>5. CASE Program \/ Erase
        <3>1. /\ at = "command" /\ at' = "poll" /\ UNCHANGED <<call, ret, got, cleared>>
            BY <2>5 DEF Program, Erase, Continue
        <3>2. Busy'
            <4>1. latch /\ ~Busy /\ call \in Calls
                BY <2>0, <3>1 DEF FlashTypes
            <4>2. job' \in Jobs
                <5>1. CASE Program
                    <6>1. [op |-> "write", cells |-> Zeros(call.adr + off, Chunk)] \in Jobs
                        BY <4>1, <5>1, CellsOfProgram DEF Program, Jobs
                    <6> QED
                        BY <4>1, <5>1, <6>1 DEF Program, Accept
                <5>2. CASE Erase
                    <6>1. [op |-> "erase", cells |-> Unit(call)] \in Jobs
                        BY <4>1, <5>2, CellsOfUnit DEF Erase, Jobs
                    <6> QED
                        BY <4>1, <5>2, <6>1 DEF Erase, Accept
                <5> QED
                    BY <2>5, <5>1, <5>2
            <4> QED
                BY <4>2, NothingAssumption DEF Busy
        <3> QED
            BY <2>01, <2>02, <3>1, <3>2, NorStutters
    <2>6. CASE Poll
        <3>1. /\ at = "poll" /\ at' = "flags" /\ ~Busy
              /\ UNCHANGED <<call, ret, got, cleared, job>>
            BY <2>6 DEF Poll, memory
        <3> QED
            BY <2>01, <2>02, <3>1, NorStutters DEF Busy
    <2>7. CASE Flags
        <3>1. at = "flags" /\ UNCHANGED <<call, got, cleared>>
            BY <2>7 DEF Flags, Return
        <3>2. ~(call.op = "write" /\ off + Chunk < call.len)
            <4>1. ASSUME call.op = "write" PROVE ~(off + Chunk < call.len)
                <5>1. call \in Calls /\ Chunk = call.len /\ off = 0
                    BY <2>0, <3>1, <4>1, OnePageIsOneChunk DEF FlashTypes
                <5> QED
                    BY <4>1, <5>1, CallKinds
            <4> QED
                BY <4>1
        <3>3. at' = "idle" /\ ret' = 0
            BY <2>0, <2>7, <3>2 DEF Flags, Return
        <3> QED
            BY <2>0, <2>01, <2>03, <3>1, <3>3, NorReturns
    <2>8. CASE Read
        <3>1. /\ at = "read" /\ at' = "unselect" /\ got' = cleared \cap Range(call)
              /\ UNCHANGED <<call, ret, cleared>>
            BY <2>0, <2>8 DEF Read, memory
        <3>2. call.op = "read" /\ Request(call).op = "read" /\ Request(call).cells = Range(call)
            BY <3>1 DEF FlashTypes, Request
        <3> QED
            BY <2>01, <2>02, <2>03, <3>1, <3>2, NorApplies
    <2>9. CASE Unselect
        <3>1. at = "unselect" /\ at' = "idle" /\ ret' = 0 /\ UNCHANGED <<got, cleared>>
            BY <2>9 DEF Unselect, Return, memory
        <3> QED
            BY <2>01, <2>03, <3>1, NorReturns
    <2>10. CASE UNCHANGED flashVars
        <3>1. UNCHANGED <<at, call, ret, got, cleared, job>>
            BY <2>10 DEF flashVars, driver, memory
        <3> QED
            BY <2>01, <2>02, <3>1, NorStutters DEF Busy
    <2> QED
        BY <2>1, <2>2, <2>3, <2>4, <2>5, <2>6, <2>7, <2>8, <2>9, <2>10 DEF FlashNext, Driver
<1> QED
    BY <1>1, <1>2

(* In an orderly behaviour the driver is a NOR memory: what returns 0 has  *)
(* taken effect, what returns -1 has changed nothing.                      *)
THEOREM FlashIsNor ==
    FlashSpec => ImplementsNor
<1>1. FlashInit => FlashTypes /\ OrderlyInv /\ Nor!Init
    <2> SUFFICES ASSUME FlashInit PROVE FlashTypes /\ OrderlyInv /\ Nor!Init
        OBVIOUS
    <2>1. OrderlyInv
        BY DEF FlashInit, OrderlyInv, Busy
    <2>2. Nor!Init
        BY DEF FlashInit, Nor!Init
    <2> QED
        BY <2>1, <2>2, FlashStarts
<1>2. FlashTypes /\ OrderlyInv /\ [FlashNext]_flashVars => FlashTypes' /\ OrderlyInv'
    BY FlashTypesStep, OrderlyStep
<1>3. FlashTypes /\ OrderlyInv /\ [FlashNext]_flashVars => [Nor!Next]_(Nor!vars)
    BY NorStep
<1> QED
    BY <1>1, <1>2, <1>3, PTL DEF FlashSpec, ImplementsNor, Nor!Spec
=============================================================================
