------------------------------- MODULE SpiBus -------------------------------
(***************************************************************************)
(* SPI port 0 (drivers/spi/spi.c), which both radios, the NOR flash and    *)
(* the FRAM share.  spi_write, spi_read and spi_transfer select a chip,    *)
(* exchange their bytes one by one, polling the flags of the USCI, and     *)
(* unselect the chip; the memory drivers make the same steps with          *)
(* spi_select_slave and SPI_CS_NONE.  Nothing guards the port: a task that *)
(* is preempted anywhere in a transfer leaves the flags and the chip       *)
(* select to the next one.                                                 *)
(*                                                                         *)
(* The tasks busy-wait, so a task runs until it ends its transfer or one   *)
(* of a higher priority is released by the tick; tasks of one priority     *)
(* share the processor (FreeRTOSConfig.h).  The USCI is external: its      *)
(* transmit buffer feeds a shift register, and the transmit flag is raised *)
(* when a byte moves from the one to the other, and only then.             *)
(***************************************************************************)
EXTENDS Naturals

CONSTANTS Tasks,    \* the tasks that use the port
          Chips,    \* the chip selects of the port
          ChipOf,   \* the chip a task talks to
          Prio,     \* the priority of a task
          MaxLen,   \* bound: the bytes of a task's transfers
          NoByte    \* nothing in a register

ASSUME SpiBusAssumption ==
  /\ ChipOf \in [Tasks -> Chips] /\ Prio \in [Tasks -> Nat]
  /\ MaxLen \in [Tasks -> Nat]

(* The k-th byte of a task, and the answer to it: the chips that hear it   *)
(* are the selected ones.                                                  *)
Byte == [task : Tasks, k : Nat]
Word == [byte : Byte, heard : SUBSET Chips]

ASSUME NoByteAssumption == NoByte \notin Byte \cup Word

VARIABLES pc,       \* the next step of each task
          len,      \* bytes of its transfer
          i,        \* the byte it is at
          own,      \* whether its last spi_read_byte returned the answer to its byte
          low,      \* the chips whose CS line is low
          txifg,    \* external: transmit flag, txbuf is empty
          txbuf,    \* external: transmit buffer
          shift,    \* external: shift register
          rxifg,    \* external: receive flag, rxbuf is full
          rxbuf,    \* external: receive buffer
          mixed     \* history: a transfer has begun while another was in progress

usci == <<txifg, txbuf, shift, rxifg, rxbuf>>
task == <<pc, len, i, own>>
vars == <<task, low, usci, mixed>>

Init ==
  /\ pc = [t \in Tasks |-> "idle"]
  /\ len = [t \in Tasks |-> 0] /\ i = [t \in Tasks |-> 0]
  /\ own = [t \in Tasks |-> FALSE]
  /\ low = {}
  /\ txifg = TRUE /\ txbuf = NoByte /\ shift = NoByte
  /\ rxifg = FALSE /\ rxbuf = NoByte
  /\ mixed = FALSE

-----------------------------------------------------------------------------
(* The USCI.                                                               *)
Load ==
  /\ txbuf # NoByte /\ shift = NoByte
  /\ shift' = txbuf /\ txbuf' = NoByte /\ txifg' = TRUE
  /\ UNCHANGED <<task, low, rxifg, rxbuf, mixed>>

Exchange ==
  /\ shift # NoByte
  /\ rxbuf' = [byte |-> shift, heard |-> low] /\ rxifg' = TRUE
  /\ shift' = NoByte
  /\ UNCHANGED <<task, low, txifg, txbuf, mixed>>

-----------------------------------------------------------------------------
Runs(t) == \A u \in Tasks : Prio[u] > Prio[t] => pc[u] = "idle"

At(t, step) == Runs(t) /\ pc[t] = step
Goto(t, step) == pc' = [pc EXCEPT ![t] = step]

SelectSlaveCleared(t, n) == \* mutant: clears the flags first
  /\ At(t, "idle")
  /\ mixed' = (mixed \/ \E u \in Tasks : pc[u] # "idle")
  /\ low' = low \cup {ChipOf[t]}
  /\ len' = [len EXCEPT ![t] = n] /\ i' = [i EXCEPT ![t] = 1]
  /\ Goto(t, "wait_tx")
  /\ txifg' = FALSE /\ rxifg' = FALSE
  /\ UNCHANGED <<own, txbuf, shift, rxbuf>>

SelectSlave(t, n) ==
  /\ At(t, "idle")
  /\ mixed' = (mixed \/ \E u \in Tasks : pc[u] # "idle")
  /\ low' = low \cup {ChipOf[t]}
  /\ len' = [len EXCEPT ![t] = n] /\ i' = [i EXCEPT ![t] = 1]
  /\ Goto(t, "wait_tx")
  /\ UNCHANGED <<own, usci>>

(* spi_write_byte.                                                         *)
WaitTx(t) ==
  /\ At(t, "wait_tx")
  /\ txifg
  /\ Goto(t, "clear_tx")
  /\ UNCHANGED <<len, i, own, low, usci, mixed>>

ClearTx(t) ==
  /\ At(t, "clear_tx")
  /\ txifg' = FALSE
  /\ Goto(t, "transmit")
  /\ UNCHANGED <<len, i, own, low, txbuf, shift, rxifg, rxbuf, mixed>>

Transmit(t) ==
  /\ At(t, "transmit")
  /\ txbuf' = [task |-> t, k |-> i[t]] /\ txifg' = FALSE
  /\ Goto(t, "wait_rx")
  /\ UNCHANGED <<len, i, own, low, shift, rxifg, rxbuf, mixed>>

(* The answer to the byte t has sent, when its chip hears it and no other. *)
Answer(t) == [byte |-> [task |-> t, k |-> i[t]], heard |-> {ChipOf[t]}]

(* spi_read_byte.                                                          *)
WaitRxSkipped(t) == \* mutant: reads without waiting for the answer
  /\ At(t, "wait_rx")
  /\ Goto(t, "clear_rx")
  /\ UNCHANGED <<len, i, own, low, usci, mixed>>

WaitRx(t) ==
  /\ At(t, "wait_rx")
  /\ rxifg
  /\ Goto(t, "clear_rx")
  /\ UNCHANGED <<len, i, own, low, usci, mixed>>

ClearRx(t) ==
  /\ At(t, "clear_rx")
  /\ rxifg' = FALSE
  /\ Goto(t, "receive")
  /\ UNCHANGED <<len, i, own, low, txifg, txbuf, shift, rxbuf, mixed>>

Receive(t) ==
  /\ At(t, "receive")
  /\ own' = [own EXCEPT ![t] = rxbuf = Answer(t)] /\ rxifg' = FALSE
  /\ Goto(t, "next")
  /\ UNCHANGED <<len, i, low, txifg, txbuf, shift, rxbuf, mixed>>

\* The loop over the bytes, then the CS pin is disabled.
NextByte(t) ==
  /\ At(t, "next")
  /\ i[t] < len[t]
  /\ i' = [i EXCEPT ![t] = @ + 1]
  /\ own' = [own EXCEPT ![t] = FALSE]
  /\ Goto(t, "wait_tx")
  /\ UNCHANGED <<len, low, usci, mixed>>

Forget(t) ==
  /\ len' = [len EXCEPT ![t] = 0] /\ i' = [i EXCEPT ![t] = 0]
  /\ own' = [own EXCEPT ![t] = FALSE]

UnselectSlave(t) ==
  /\ At(t, "next")
  /\ i[t] = len[t]
  /\ low' = low \ {ChipOf[t]}
  /\ Goto(t, "idle") /\ Forget(t)
  /\ UNCHANGED <<usci, mixed>>

Step(t) ==
  \/ WaitTx(t) \/ ClearTx(t) \/ Transmit(t)
  \/ WaitRx(t) \/ ClearRx(t) \/ Receive(t)
  \/ NextByte(t) \/ UnselectSlave(t)

Next ==
  \/ Load \/ Exchange
  \/ \E t \in Tasks : Step(t) \/ \E n \in 1 .. MaxLen[t] : SelectSlave(t, n)

(* The clock of the port runs, and so does the processor.                  *)
Spec == Init /\ [][Next]_vars
FairSpec == Spec /\ WF_vars(Load \/ Exchange) /\ WF_vars(\E t \in Tasks : Step(t))

-----------------------------------------------------------------------------
TypeOK ==
  /\ pc \in [Tasks -> {"idle", "wait_tx", "clear_tx", "transmit",
                       "wait_rx", "clear_rx", "receive", "next"}]
  /\ len \in [Tasks -> Nat] /\ i \in [Tasks -> Nat]
  /\ own \in [Tasks -> BOOLEAN]
  /\ low \in SUBSET Chips
  /\ txifg \in BOOLEAN /\ txbuf \in Byte \cup {NoByte}
  /\ shift \in Byte \cup {NoByte}
  /\ rxifg \in BOOLEAN /\ rxbuf \in Word \cup {NoByte}
  /\ mixed \in BOOLEAN

(* What a task reads in exchange for a byte is the answer to that byte, by *)
(* the task's chip and by no other, until transfers mix.                   *)
OwnAnswers ==
  \A t \in Tasks : pc[t] = "next" /\ ~mixed => own[t]

(* "Wait until TX buffer ready" (spi_write_byte): a task that waits does   *)
(* so because a byte is in the buffer, or because another task was         *)
(* preempted after it cleared the flag and before it filled the buffer;    *)
(* nothing else can make the wait one without an end.                      *)
WaitsForBuffer ==
  \A t \in Tasks : At(t, "wait_tx") /\ ~txifg =>
    txbuf # NoByte \/ \E u \in Tasks \ {t} : pc[u] = "transmit"

(* Transfers that have not mixed leave the port as they found it: no chip  *)
(* selected, nothing under way, and the flags telling so.                  *)
LeavesQuiet ==
  (\A t \in Tasks : pc[t] = "idle") /\ ~mixed =>
    low = {} /\ txbuf = NoByte /\ shift = NoByte /\ txifg /\ ~rxifg

(* Every transfer ends, or is mixed with another.                          *)
TransfersEnd == \A t \in Tasks : pc[t] # "idle" ~> pc[t] = "idle" \/ mixed
=============================================================================
