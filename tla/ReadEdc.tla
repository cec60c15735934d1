------------------------------ MODULE ReadEdc ------------------------------
(***************************************************************************)
(* Reading the EDC payload: payload_init(PAYLOAD_EDC_0), then the task of  *)
(* app/tasks/read_edc.c over devices/payload and drivers/edc.  Every       *)
(* exchange flushes the receive buffer, writes a command, waits 100 ms and *)
(* reads a frame of fixed length.  A packet is taken in two exchanges:     *)
(* GET_PTT_PKG reads the oldest one, PTT_POP removes it, and nothing in    *)
(* either names the packet.                                                *)
(*                                                                         *)
(* The payload is external: it obeys commands in order and its answers     *)
(* trickle into the receive buffer, which is a FIFO of cells (module       *)
(* UartRx; the buffer holds six PTT frames, so it never fills up here).  A *)
(* cell stands for several bytes: longer frames have more cells, and a     *)
(* frame passes its checksum exactly if all its cells are those of one     *)
(* answer.                                                                 *)
(***************************************************************************)
EXTENDS Naturals, Sequences

CONSTANTS MaxPackets, \* bound: packets the payload decodes in a behaviour
          MaxBehind   \* bound: commands and cells the payload may lag behind

ASSUME ReadEdcAssumption == MaxPackets \in Nat /\ MaxBehind \in Nat

Packets == 1 .. MaxPackets

\* EDC_FRAME_*_LEN, 9, 26 and 49 bytes: the order of the lengths is kept.
FrameLen == [state |-> 1, hk |-> 2, ptt |-> 3]

Frame(kind, value) ==
  [k \in 1 .. FrameLen[kind] |-> [kind |-> kind, part |-> k, value |-> value]]

NoCell == [kind |-> "none", part |-> 0, value |-> 0]

VARIABLES store,    \* external: the payload's FIFO of decoded packets
          decoded,  \* external: how many it has decoded
          resumed,  \* external: its PTT decoding task runs
          inbox,    \* external: commands it has not obeyed yet
          wire,     \* external: cells it has not sent yet
          delay,    \* external: how late its answers are in this behaviour,
                    \* see Delays
          rx,       \* the receive buffer of UART_PORT_1
          at,       \* the next step of the start-up and of the task
          left,     \* state.ptt_available - i: packets still to read
          ptt,      \* the packet read last
          delivered \* the packets written to the log

(* All commands are answered within the 100 ms "window" of the read that   *)
(* follows, in the "gap" before the next command, or possibly "later".     *)
Delays == {"window", "gap", "later"}

payload == <<store, decoded, resumed, inbox, wire, delay>>
edcVars == <<payload, rx, at, left, ptt, delivered>>

EdcInit ==
  /\ store = <<>> /\ decoded = 0 /\ resumed = FALSE
  /\ inbox = <<>> /\ wire = <<>> /\ delay \in Delays /\ rx = <<>>
  /\ at = "check" /\ left = 0 /\ ptt = 0 /\ delivered = <<>>

-----------------------------------------------------------------------------
(* The payload.                                                            *)
Decode ==
  /\ resumed /\ decoded < MaxPackets
  /\ decoded' = decoded + 1
  /\ store' = Append(store, decoded + 1)
  /\ UNCHANGED <<resumed, inbox, wire, delay, rx, at, left, ptt, delivered>>

\* The frame a command is answered with; an empty FIFO has none to send.
Answer(cmd) ==
  IF cmd = "GET_STATE" THEN Frame("state", Len(store))
  ELSE IF cmd = "GET_HK_PKG" THEN Frame("hk", 0)
  ELSE IF cmd = "GET_PTT_PKG" /\ store # <<>> THEN Frame("ptt", Head(store))
  ELSE <<>>

Obey ==
  /\ inbox # <<>>
  /\ inbox' = Tail(inbox)
  /\ wire' = wire \o Answer(Head(inbox))
  /\ store' = IF Head(inbox) = "PTT_POP" /\ store # <<>> THEN Tail(store) ELSE store
  /\ resumed' = (resumed \/ Head(inbox) = "PTT_RESUME")
  /\ UNCHANGED <<decoded, delay, rx, at, left, ptt, delivered>>

Arrive ==
  /\ wire # <<>>
  /\ rx' = Append(rx, Head(wire))
  /\ wire' = Tail(wire)
  /\ UNCHANGED <<store, decoded, resumed, inbox, delay, at, left, ptt, delivered>>

Settled == inbox = <<>> /\ wire = <<>>

-----------------------------------------------------------------------------
SendUnflushed(cmd) == \* mutant: earlier answers stay in the buffer
  /\ IF delay = "later" THEN Len(inbox) + Len(wire) < MaxBehind ELSE Settled
  /\ inbox' = Append(inbox, cmd)
  /\ UNCHANGED <<store, decoded, resumed, wire, delay, rx, delivered>>

(* edc_write_cmd: flush, then write.                                       *)
Send(cmd) ==
  /\ IF delay = "later" THEN Len(inbox) + Len(wire) < MaxBehind ELSE Settled
  /\ rx' = <<>>
  /\ inbox' = Append(inbox, cmd)
  /\ UNCHANGED <<store, decoded, resumed, wire, delay, delivered>>

(* edc_read after the delay of 100 ms: it fails if no byte is there, and   *)
(* else takes a frame's length, padded when fewer bytes are there.         *)
Answered == delay = "window" => Settled

FrameRead(kind) ==
  [k \in 1 .. FrameLen[kind] |-> IF k <= Len(rx) THEN rx[k] ELSE NoCell]

TakeFrame(kind) ==
  /\ Answered
  /\ rx' = SubSeq(rx, FrameLen[kind] + 1, Len(rx))
  /\ UNCHANGED <<payload, delivered>>

\* edc_get_*_pkg: the frame identifier is the expected one.
IdOk(kind) == rx # <<>> /\ rx[1].kind = kind /\ rx[1].part = 1

SumUnchecked(kind) == rx # <<>> \* mutant: any bytes pass for the frame

\* edc_get_*: and the checksum is right.
SumOk(kind) == IdOk(kind) /\ FrameRead(kind) = Frame(kind, rx[1].value)

-----------------------------------------------------------------------------
(* payload_init(PAYLOAD_EDC_0): edc_init checks the device with GET_STATE; *)
(* only if it answers are the clock set, housekeeping read and the         *)
(* decoding task resumed.                                                  *)
InitCheck ==
  /\ at = "check" /\ at' = "check_read"
  /\ Send("GET_STATE")
  /\ UNCHANGED <<left, ptt>>

InitCheckRead ==
  /\ at = "check_read" /\ TakeFrame("state")
  /\ at' = IF IdOk("state") THEN "rtc" ELSE "hk"
  /\ UNCHANGED <<left, ptt>>

InitSetRtc ==
  /\ at = "rtc" /\ at' = "init_hk"
  /\ Send("RTC_SET")
  /\ UNCHANGED <<left, ptt>>

\* No delay separates this command from RTC_SET.
InitHk ==
  /\ at = "init_hk" /\ at' = "init_hk_read"
  /\ Send("GET_HK_PKG")
  /\ UNCHANGED <<left, ptt>>

InitHkRead ==
  /\ at = "init_hk_read" /\ TakeFrame("hk")
  /\ at' = "resume"
  /\ UNCHANGED <<left, ptt>>

InitResume ==
  /\ at = "resume" /\ at' = "hk"
  /\ Send("PTT_RESUME")
  /\ UNCHANGED <<left, ptt>>

-----------------------------------------------------------------------------
(* One cycle of vTaskReadEDC.                                              *)
Hk ==
  /\ at = "hk" /\ at' = "hk_read"
  /\ Send("GET_HK_PKG")
  /\ UNCHANGED <<left, ptt>>

\* Whatever is read goes to the housekeeping buffer.
HkRead ==
  /\ at = "hk_read" /\ TakeFrame("hk")
  /\ at' = "state"
  /\ UNCHANGED <<left, ptt>>

State ==
  /\ at = "state" /\ at' = "state_read"
  /\ Send("GET_STATE")
  /\ UNCHANGED <<left, ptt>>

StateReadOffByOne == \* mutant: one packet is left unread
  /\ at = "state_read" /\ TakeFrame("state")
  /\ left' = IF SumOk("state") /\ rx[1].value > 0 THEN rx[1].value - 1 ELSE 0
  /\ at' = IF left' > 0 THEN "ptt" ELSE "hk"
  /\ UNCHANGED ptt

StateRead ==
  /\ at = "state_read" /\ TakeFrame("state")
  /\ left' = IF SumOk("state") THEN rx[1].value ELSE 0
  /\ at' = IF left' > 0 THEN "ptt" ELSE "hk"
  /\ UNCHANGED ptt

Ptt ==
  /\ at = "ptt" /\ at' = "ptt_read"
  /\ Send("GET_PTT_PKG")
  /\ UNCHANGED <<left, ptt>>

\* The for loop goes on after a delay of 500 ms, and the cycle after 60 s.
LoopEnd ==
  /\ left' = left - 1
  /\ at' = IF left > 1 THEN "ptt" ELSE "hk"

PttRead ==
  /\ at = "ptt_read" /\ TakeFrame("ptt")
  /\ IF SumOk("ptt")
     THEN at' = "pop" /\ ptt' = rx[1].value /\ UNCHANGED left
     ELSE LoopEnd /\ UNCHANGED ptt

PopRetried == \* mutant: the command may be sent again
  /\ at = "pop" /\ at' \in {"pop", "log"}
  /\ Send("PTT_POP")
  /\ UNCHANGED <<left, ptt>>

Pop ==
  /\ at = "pop" /\ at' = "log"
  /\ Send("PTT_POP")
  /\ UNCHANGED <<left, ptt>>

Log ==
  /\ at = "log"
  /\ delivered' = Append(delivered, ptt)
  /\ LoopEnd
  /\ UNCHANGED <<payload, rx, ptt>>

-----------------------------------------------------------------------------
Startup == InitCheck \/ InitCheckRead \/ InitSetRtc \/ InitHk \/ InitHkRead \/ InitResume
Cycle == Hk \/ HkRead \/ State \/ StateRead \/ Ptt \/ PttRead \/ Pop \/ Log

EdcNext == Decode \/ Obey \/ Arrive \/ Startup \/ Cycle

(* The task is scheduled for ever; the payload obeys and answers.          *)
EdcSpec == EdcInit /\ [][EdcNext]_edcVars
EdcFairSpec == EdcSpec /\ WF_edcVars(Startup \/ Cycle) /\ WF_edcVars(Obey) /\ WF_edcVars(Arrive)

-----------------------------------------------------------------------------
Cells == [kind : {"state", "hk"}, part : 1 .. 3, value : 0 .. MaxPackets]
           \cup [kind : {"ptt"}, part : 1 .. 3, value : Packets]

Commands ==
  {"GET_STATE", "GET_HK_PKG", "GET_PTT_PKG", "PTT_POP", "PTT_RESUME", "RTC_SET"}

Steps == {"check", "check_read", "rtc", "init_hk", "init_hk_read", "resume", "hk", "hk_read",
          "state", "state_read", "ptt", "ptt_read", "pop", "log"}

EdcTypeOK ==
  /\ delay \in Delays /\ at \in Steps /\ inbox \in Seq(Commands)
  /\ store \in Seq(Packets) /\ decoded \in 0 .. MaxPackets /\ resumed \in BOOLEAN
  /\ wire \in Seq(Cells) /\ rx \in Seq(Cells)
  /\ left \in 0 .. MaxPackets /\ ptt \in 0 .. MaxPackets
  /\ delivered \in Seq(Packets)

(* However late the payload answers, each PTT_POP it obeys was paid for    *)
(* with a packet that was read: the number of packets gone from the        *)
(* payload never exceeds the number delivered or about to be.              *)
PopsArePaid ==
  decoded - Len(store) <= Len(delivered) + (IF at = "log" THEN 1 ELSE 0)

(* However late it answers, a stale frame is a whole earlier packet: the   *)
(* log may repeat a packet but never goes back to an older one.            *)
NeverBackwards ==
  \A k \in 1 .. Len(delivered) - 1 : delivered[k] <= delivered[k + 1]

(* If each answer is there when it is read, every packet the payload       *)
(* decodes is logged in the end.                                           *)
Logged(p) == \E k \in 1 .. Len(delivered) : delivered[k] = p

AllDelivered ==
  \A p \in Packets : delay = "window" /\ decoded >= p ~> Logged(p)

(* If all answers are in before the next command, packets are delivered    *)
(* exactly once and in order.  A delivery takes effect with the PTT_POP.   *)
PopPending == \E k \in 1 .. Len(inbox) : inbox[k] = "PTT_POP"

Waiting ==
  IF delay = "later" THEN <<>> ELSE IF PopPending THEN Tail(store) ELSE store

Delivered ==
  IF delay = "later" THEN <<>>
  ELSE IF at = "log" THEN Append(delivered, ptt) ELSE delivered

Delivery == INSTANCE PttDelivery WITH waiting <- Waiting, delivered <- Delivered
ImplementsPttDelivery == Delivery!Spec
=============================================================================
