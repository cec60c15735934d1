-------------------------------- MODULE Ttc ---------------------------------
(***************************************************************************)
(* The two radios (devices/ttc, drivers/sl_ttc2) as their two users see    *)
(* them: the task read_ttc, which opens them and copies their housekeeping *)
(* into sat_data_buf, and the task process_tc, which takes the uplinked    *)
(* packets from the second one.                                            *)
(*                                                                         *)
(* A transfer over SPI port 0 is one step (module SpiBus has its bytes).   *)
(* What comes back is the register, zeros if nothing drives the line, or   *)
(* noise that fails the checksum; the checksum of zeros is zero, so they   *)
(* pass it.  process_tc has the higher priority: read_ttc runs only while  *)
(* it sleeps or may be waiting for the log.                                *)
(***************************************************************************)
EXTENDS Naturals, Sequences

CONSTANTS MaxPackets, \* bound: packets uplinked in a behaviour
          MaxFaults   \* bound: times a radio stops answering

ASSUME TtcAssumption == MaxPackets \in Nat /\ MaxFaults \in Nat

Radios == {"TTC_0", "TTC_1"}

(* The fields of ttc_data_t in the order they are read.  A "raw" field is  *)
(* filled by sl_ttc2_read_reg itself, so only if the checksum is right; a  *)
(* "cast" one is copied from a variable that is all ones until then.       *)
Fields == <<"raw", "cast", "raw">>

VARIABLES good,       \* external: the radio answers properly
          faults,     \* external: times one has stopped to
          fifo,       \* external: packets received by TTC_1
          sent,       \* external: packets uplinked
          configured, \* ttc_0_config and ttc_1_config are filled in
          open,       \* ttc_0_is_open and ttc_1_is_open
          pc, radio,  \* the next step of read_ttc, and for which radio
          field,      \* the field it is at
          errors,     \* err_counter
          data,       \* sat_data_buf.ttc_*.data: "old" if not read this cycle
          stamped,    \* sat_data_buf.ttc_*.timestamp is set this cycle
          tpc,        \* the next step of process_tc
          failed,     \* ttc_recv returned an error
          first,      \* what pkt[0] holds
          ran         \* the pkt[0] it switched on this cycle

line == <<good, faults>>
uplink == <<fifo, sent>>
reader == <<configured, open, pc, radio, field, errors, data, stamped>>
tc == <<tpc, failed, first, ran>>
vars == <<line, uplink, reader, tc>>

Init ==
  /\ good = [r \in Radios |-> TRUE] /\ faults = 0
  /\ fifo = <<>> /\ sent = 0
  /\ configured = [r \in Radios |-> FALSE] /\ open = [r \in Radios |-> FALSE]
  /\ pc = "init" /\ radio = "TTC_0" /\ field = 1 /\ errors = 0
  /\ data = [r \in Radios |-> [f \in DOMAIN Fields |-> "old"]]
  /\ stamped = [r \in Radios |-> FALSE]
  /\ tpc = "sleep" /\ failed = FALSE /\ first = "zero" /\ ran = {}

-----------------------------------------------------------------------------
(* The radios.                                                             *)
Uplink ==
  /\ sent < MaxPackets
  /\ sent' = sent + 1 /\ fifo' = Append(fifo, sent + 1)
  /\ UNCHANGED <<line, reader, tc>>

Fault(r) ==
  /\ good[r] /\ faults < MaxFaults
  /\ good' = [good EXCEPT ![r] = FALSE] /\ faults' = faults + 1
  /\ UNCHANGED <<uplink, reader, tc>>

Repair(r) ==
  /\ ~good[r]
  /\ good' = [good EXCEPT ![r] = TRUE]
  /\ UNCHANGED <<faults, uplink, reader, tc>>

Answers(r) == IF good[r] THEN {"real"} ELSE {"real", "silent", "noise"}

(* sl_ttc2_read_reg: the checksum is right.                                *)
Passes(answer) == answer # "noise"

(* sl_ttc2_check_device: the identifier is wrong only if it could be read. *)
DevicePasses(answer) == Passes(answer) => answer = "real"

-----------------------------------------------------------------------------
(* read_ttc: ttc_init for both radios, then ttc_get_data for both.         *)
Reads(step) == tpc \in {"sleep", "log"} /\ pc = step

Then(step, last) ==
  IF radio = "TTC_0" THEN pc' = step /\ radio' = "TTC_1"
                     ELSE pc' = last /\ radio' = "TTC_0"

NextRadio == Then("init", "check")

InitOpen ==
  /\ Reads("init") /\ open[radio]
  /\ NextRadio
  /\ UNCHANGED <<line, uplink, configured, open, field, errors, data, stamped, tc>>

InitConfigure ==
  /\ Reads("init") /\ ~open[radio]
  /\ configured' = [configured EXCEPT ![radio] = TRUE]
  /\ pc' = "id"
  /\ UNCHANGED <<line, uplink, open, radio, field, errors, data, stamped, tc>>

InitId ==
  /\ Reads("id")
  /\ \E a \in Answers(radio) :
       IF DevicePasses(a) THEN pc' = "hw" /\ UNCHANGED radio ELSE NextRadio
  /\ UNCHANGED <<line, uplink, configured, open, field, errors, data, stamped, tc>>

InitHardware ==
  /\ Reads("hw")
  /\ \E a \in Answers(radio) :
       IF Passes(a) THEN pc' = "fw" /\ UNCHANGED radio ELSE NextRadio
  /\ UNCHANGED <<line, uplink, configured, open, field, errors, data, stamped, tc>>

InitFirmware ==
  /\ Reads("fw")
  /\ \E a \in Answers(radio) : open' = [open EXCEPT ![radio] = Passes(a)]
  /\ NextRadio
  /\ UNCHANGED <<line, uplink, configured, field, errors, data, stamped, tc>>

\* ttc_get_data returns 0 if the device is not there.
CheckDevice ==
  /\ Reads("check")
  /\ \E a \in Answers(radio) : pc' = IF DevicePasses(a) THEN "hk" ELSE "stamp"
  /\ field' = 1 /\ errors' = 0
  /\ UNCHANGED <<line, uplink, configured, open, radio, data, stamped, tc>>

(* What a field holds after the read.                                      *)
Value(f, answer) ==
  IF Passes(answer) THEN answer
  ELSE IF Fields[f] = "cast" THEN "ones" ELSE data[radio][f]

ReadFieldUncounted == \* mutant: the errors of cast fields do not count
  /\ Reads("hk")
  /\ \E a \in Answers(radio) :
       /\ data' = [data EXCEPT ![radio][field] = Value(field, a)]
       /\ errors' = IF Passes(a) \/ Fields[field] = "cast" THEN errors ELSE errors + 1
  /\ IF field < Len(Fields) THEN field' = field + 1 /\ UNCHANGED pc
                            ELSE pc' = "stamp" /\ UNCHANGED field
  /\ UNCHANGED <<line, uplink, configured, open, radio, stamped, tc>>

ReadField ==
  /\ Reads("hk")
  /\ \E a \in Answers(radio) :
       /\ data' = [data EXCEPT ![radio][field] = Value(field, a)]
       /\ errors' = IF Passes(a) THEN errors ELSE errors + 1
  /\ IF field < Len(Fields) THEN field' = field + 1 /\ UNCHANGED pc
                            ELSE pc' = "stamp" /\ UNCHANGED field
  /\ UNCHANGED <<line, uplink, configured, open, radio, stamped, tc>>

StampFirst == \* mutant: both time stamps go to the first record
  /\ Reads("stamp")
  /\ stamped' = [stamped EXCEPT !["TTC_0"] = (errors = 0)]
  /\ Then("check", "sleep")
  /\ UNCHANGED <<line, uplink, configured, open, field, errors, data, tc>>

Stamp ==
  /\ Reads("stamp")
  /\ stamped' = [stamped EXCEPT ![radio] = (errors = 0)]
  /\ Then("check", "sleep")
  /\ UNCHANGED <<line, uplink, configured, open, field, errors, data, tc>>

\* The next cycle begins: what was read is old.
Wake ==
  /\ Reads("sleep")
  /\ pc' = "init"
  /\ data' = [r \in Radios |-> [f \in DOMAIN Fields |-> "old"]]
  /\ stamped' = [r \in Radios |-> FALSE]
  /\ UNCHANGED <<line, uplink, configured, open, radio, field, errors, tc>>

ReadTtc ==
  \/ InitOpen \/ InitConfigure \/ InitId \/ InitHardware \/ InitFirmware
  \/ CheckDevice \/ ReadField \/ Stamp \/ Wake

-----------------------------------------------------------------------------
(* process_tc.  A configuration that is not filled in is all zeros, and so *)
(* names the chip select of TTC_0, which receives no packets.              *)
Tuned == IF configured["TTC_1"] THEN "TTC_1" ELSE "TTC_0"

(* ttc_avail is positive.                                                  *)
Avail(answer) == answer = "real" /\ Tuned = "TTC_1" /\ fifo # <<>>

WakeTc ==
  /\ tpc = "sleep" /\ tpc' = "avail"
  /\ failed' = FALSE /\ first' = "zero" /\ ran' = {}
  /\ UNCHANGED <<line, uplink, reader>>

AvailTc ==
  /\ tpc = "avail"
  /\ \E a \in Answers(Tuned) : tpc' = IF Avail(a) THEN "log" ELSE "sleep"
  /\ UNCHANGED <<line, uplink, reader, failed, first, ran>>

LogTc ==
  /\ tpc = "log" /\ tpc' = "recv"
  /\ UNCHANGED <<line, uplink, reader, failed, first, ran>>

\* ttc_recv asks again; sl_ttc2_read_packet puts its command in the buffer.
Recv ==
  /\ tpc = "recv"
  /\ \E a \in Answers(Tuned) :
       IF Avail(a) THEN tpc' = "length" /\ first' = "command" /\ UNCHANGED failed
                   ELSE tpc' = "dispatch" /\ failed' = TRUE /\ UNCHANGED first
  /\ UNCHANGED <<line, uplink, reader, ran>>

ReadLength ==
  /\ tpc = "length"
  /\ \E a \in Answers(Tuned) :
       IF Passes(a) THEN tpc' = "packet" /\ UNCHANGED failed
                    ELSE tpc' = "dispatch" /\ failed' = TRUE
  /\ UNCHANGED <<line, uplink, reader, first, ran>>

ReadPacketChecked == \* mutant: the checksum received is compared
  /\ tpc = "packet" /\ tpc' = "dispatch"
  /\ \E a \in Answers(Tuned) :
       /\ failed' = ~Passes(a)
       /\ first' = IF a = "silent" THEN "zero" ELSE "packet"
  /\ fifo' = Tail(fifo)
  /\ UNCHANGED <<line, sent, reader, ran>>

ReadPacketKept == \* mutant: the packet stays in the radio
  /\ tpc = "packet" /\ tpc' = "dispatch"
  /\ failed' = FALSE /\ first' = "packet"
  /\ UNCHANGED <<line, uplink, reader, ran>>

(* The checksum is compared with itself, so this read never fails; whether *)
(* a radio that does not answer took the command is up to the fault, and   *)
(* so is whether the first byte looks like one of a packet.                *)
ReadPacket ==
  /\ tpc = "packet" /\ tpc' = "dispatch"
  /\ \E a \in Answers(Tuned) :
       /\ first' = IF a = "silent" THEN "zero" ELSE "packet"
       /\ \/ fifo' = Tail(fifo)
          \/ a # "real" /\ UNCHANGED fifo
  /\ failed' = FALSE
  /\ UNCHANGED <<line, sent, reader, ran>>

\* `if (ttc_recv(...) != 0)', and only then the switch on pkt[0].
Dispatch ==
  /\ tpc = "dispatch" /\ tpc' = "sleep"
  /\ ran' = IF failed THEN ran \cup {first} ELSE ran
  /\ UNCHANGED <<line, uplink, reader, failed, first>>

ProcessTc ==
  WakeTc \/ AvailTc \/ LogTc \/ Recv \/ ReadLength \/ ReadPacket \/ Dispatch

Next ==
  \/ Uplink \/ \E r \in Radios : Fault(r) \/ Repair(r)
  \/ ReadTtc \/ ProcessTc

(* read_ttc gets the processor again and again, while process_tc sleeps;   *)
(* a fault does not last for ever.                                         *)
Spec == Init /\ [][Next]_vars
FairSpec ==
  /\ Spec
  /\ SF_vars(ReadTtc) /\ WF_vars(ProcessTc)
  /\ \A r \in Radios : WF_vars(Repair(r))

-----------------------------------------------------------------------------
TypeOK ==
  /\ good \in [Radios -> BOOLEAN] /\ faults \in 0 .. MaxFaults
  /\ sent \in 0 .. MaxPackets /\ fifo \in Seq(1 .. MaxPackets)
  /\ configured \in [Radios -> BOOLEAN] /\ open \in [Radios -> BOOLEAN]
  /\ pc \in {"init", "id", "hw", "fw", "check", "hk", "stamp", "sleep"}
  /\ radio \in Radios /\ field \in DOMAIN Fields /\ errors \in 0 .. Len(Fields)
  /\ data \in [Radios -> [DOMAIN Fields -> {"old", "real", "silent", "ones"}]]
  /\ stamped \in [Radios -> BOOLEAN]
  /\ tpc \in {"sleep", "avail", "log", "recv", "length", "packet", "dispatch"}
  /\ failed \in BOOLEAN /\ first \in {"zero", "command", "packet"}
  /\ ran \in SUBSET {"zero", "command", "packet"}

(* A record of sat_data_buf gets a new time stamp (read_ttc) only if all   *)
(* its fields were read and passed the checksum in this cycle, or none was *)
(* touched in it.                                                          *)
StampIsWhole ==
  \A r \in Radios : stamped[r] =>
    \/ \A f \in DOMAIN Fields : data[r][f] \in {"real", "silent"}
    \/ \A f \in DOMAIN Fields : data[r][f] = "old"

(* A reception that failed never makes process_tc switch on the first byte *)
(* of a packet: what it left in pkt[0] is no telecommand.                  *)
NoGhostCommand == "packet" \notin ran

(* "This task processes all the telecommands" (firmware.tex): a packet     *)
(* that was received whole is switched on before process_tc sleeps again.  *)
ReceivedIsRun == tpc = "sleep" /\ first = "packet" => first \in ran

(* Every packet the radio holds is taken from it, unless the radio fails   *)
(* again and again.                                                        *)
AllTaken == \A p \in 1 .. MaxPackets :
  sent >= p ~> sent >= p /\ \A k \in DOMAIN fifo : fifo[k] # p

(* Both records are refreshed again and again, with values that were read  *)
(* in the cycle of their time stamp.                                       *)
FreshAgain == \A r \in Radios :
  []<>(stamped[r] /\ \A f \in DOMAIN Fields : data[r][f] = "real")
=============================================================================
