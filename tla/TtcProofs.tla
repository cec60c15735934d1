------------------------------ MODULE TtcProofs ------------------------------
(***************************************************************************)
(* Proofs about Ttc, for every number of packets and of faults.            *)
(***************************************************************************)
EXTENDS Ttc, TLAPS

Touched == {"real", "silent"}
Packet  == 1 .. MaxPackets
FieldNo == 1 .. 3

LEMMA FieldNumbers == DOMAIN Fields = FieldNo /\ Len(Fields) = 3
  BY DEF Fields, FieldNo

LEMMA TwoRadios == Radios = {"TTC_0", "TTC_1"}
  BY DEF Radios

(* A packet is read from a radio that has one, which only process_tc takes. *)
Pending == tpc \in {"length", "packet"} => fifo # <<>>

(* What is known of the record of a radio at each step of read_ttc.        *)
Untouched(r) == ~stamped[r] /\ \A f \in DOMAIN Fields : data[r][f] = "old"

Whole(r) == \/ \A f \in DOMAIN Fields : data[r][f] \in Touched
            \/ \A f \in DOMAIN Fields : data[r][f] = "old"

Early   == pc \in {"init", "id", "hw", "fw"} => \A r \in Radios : Untouched(r)
Turn    == pc \in {"check", "hk", "stamp"} =>
             ~stamped[radio] /\ (radio = "TTC_0" => Untouched("TTC_1"))
Fresh   == pc = "check" => Untouched(radio)
ReadSoFar == pc = "hk" =>
             errors < field /\ (errors = 0 => \A f \in DOMAIN Fields :
                                                f < field => data[radio][f] \in Touched)
Done    == pc = "stamp" /\ errors = 0 => Whole(radio)

Records == Early /\ Turn /\ Fresh /\ ReadSoFar /\ Done /\ StampIsWhole

(* What pkt[0] holds at each step of process_tc.                           *)
Buffer ==
  /\ tpc \in {"avail", "log", "recv"} => first = "zero" /\ ~failed
  /\ tpc \in {"length", "packet"} => first = "command"
  /\ tpc = "dispatch" /\ failed => first # "packet"
  /\ NoGhostCommand

IInv == TypeOK /\ Pending /\ Records /\ Buffer

-----------------------------------------------------------------------------
LEMMA InitHolds == Init => IInv
<1> SUFFICES ASSUME Init PROVE IInv
  OBVIOUS
<1> USE TtcAssumption, FieldNumbers
<1>1. TypeOK
  <2>1. /\ good \in [Radios -> BOOLEAN] /\ faults \in 0 .. MaxFaults
        /\ configured \in [Radios -> BOOLEAN] /\ open \in [Radios -> BOOLEAN]
        /\ stamped \in [Radios -> BOOLEAN]
    BY DEF Init
  <2>2. sent \in 0 .. MaxPackets /\ fifo \in Seq(1 .. MaxPackets)
    BY DEF Init
  <2>3. radio \in Radios /\ field \in DOMAIN Fields /\ errors \in 0 .. Len(Fields)
    BY DEF Init, Radios, FieldNo
  <2>4. data \in [Radios -> [DOMAIN Fields -> {"old", "real", "silent", "ones"}]]
    BY DEF Init
  <2> QED
    BY <2>1, <2>2, <2>3, <2>4 DEF Init, TypeOK
<1>2. Pending /\ Buffer
  BY DEF Init, Pending, Buffer, NoGhostCommand
<1>3. Records
  BY DEF Init, Records, Early, Turn, Fresh, ReadSoFar, Done, StampIsWhole, Untouched, Radios
<1> QED
  BY <1>1, <1>2, <1>3 DEF IInv

-----------------------------------------------------------------------------
(* The radios and process_tc leave the reader's variables alone.           *)
LEMMA Uplinks ==
  ASSUME TypeOK, Pending, Uplink
  PROVE  TypeOK' /\ Pending' /\ UNCHANGED <<reader, tc>>
<1> USE TtcAssumption
<1>1. sent' \in 0 .. MaxPackets /\ sent' \in Packet
  BY DEF Uplink, TypeOK, Packet
<1>2. fifo' \in Seq(Packet) /\ fifo' # <<>>
  <2>1. fifo \in Seq(Packet) /\ fifo' = Append(fifo, sent') /\ sent' \in Packet
    BY <1>1 DEF Uplink, TypeOK, Packet
  <2>2. Append(fifo, sent') \in Seq(Packet) /\ Len(Append(fifo, sent')) = Len(fifo) + 1
    BY <2>1
  <2>3. Len(fifo) \in Nat /\ Len(<<>>) = 0
    BY <2>1
  <2> QED
    BY <2>1, <2>2, <2>3
<1>3. TypeOK'
  BY <1>1, <1>2 DEF Uplink, TypeOK, Packet, line, reader, tc
<1> QED
  BY <1>2, <1>3 DEF Uplink, Pending, reader, tc

LEMMA Faults ==
  ASSUME TypeOK, Pending, NEW r \in Radios, Fault(r) \/ Repair(r)
  PROVE  TypeOK' /\ Pending' /\ UNCHANGED <<reader, tc>>
<1> USE TtcAssumption
<1>1. good' \in [Radios -> BOOLEAN]
  BY DEF Fault, Repair, TypeOK
<1>2. faults' \in 0 .. MaxFaults
  BY DEF Fault, Repair, TypeOK
<1>3. UNCHANGED <<uplink, reader, tc>>
  BY DEF Fault, Repair
<1>4. Pending'
  BY <1>3 DEF Pending, uplink, tc
<1>5. TypeOK'
  BY <1>1, <1>2, <1>3 DEF TypeOK, uplink, reader, tc
<1> QED
  BY <1>3, <1>4, <1>5

LEMMA ProcessTypes ==
  ASSUME TypeOK, Pending, ProcessTc
  PROVE  TypeOK' /\ Pending' /\ UNCHANGED reader
<1> USE TtcAssumption
<1>1. UNCHANGED <<line, reader, sent>>
  BY DEF ProcessTc, WakeTc, AvailTc, LogTc, Recv, ReadLength, ReadPacket, Dispatch, uplink
<1>2. /\ tpc' \in {"sleep", "avail", "log", "recv", "length", "packet", "dispatch"}
      /\ first' \in {"zero", "command", "packet"}
      /\ ran' \in SUBSET {"zero", "command", "packet"}
  BY DEF TypeOK, ProcessTc, WakeTc, AvailTc, LogTc, Recv, ReadLength, ReadPacket, Dispatch
<1>3. failed' \in BOOLEAN
  BY DEF TypeOK, ProcessTc, WakeTc, AvailTc, LogTc, Recv, ReadLength, ReadPacket, Dispatch
<1>4. fifo' \in Seq(1 .. MaxPackets) /\ Pending'
  <2>1. CASE ReadPacket
    <3>1. fifo \in Seq(1 .. MaxPackets) /\ fifo # <<>> /\ tpc' = "dispatch"
      BY <2>1 DEF ReadPacket, Pending, TypeOK
    <3>2. fifo' \in {fifo, Tail(fifo)}
      BY <2>1 DEF ReadPacket
    <3> QED
      BY <3>1, <3>2 DEF Pending
  <2>2. CASE Recv
    BY <2>2 DEF Recv, Avail, Pending, TypeOK, uplink
  <2>3. CASE WakeTc \/ AvailTc \/ LogTc \/ ReadLength \/ Dispatch
    BY <2>3 DEF WakeTc, AvailTc, LogTc, ReadLength, Dispatch, Pending, TypeOK, uplink
  <2> QED
    BY <2>1, <2>2, <2>3 DEF ProcessTc
<1> QED
  BY <1>1, <1>2, <1>3, <1>4 DEF TypeOK, line, reader

LEMMA ProcessBuffer ==
  ASSUME Buffer, ProcessTc
  PROVE  Buffer'
<1> USE DEF Buffer, NoGhostCommand
<1>1. CASE WakeTc
  BY <1>1 DEF WakeTc
<1>2. CASE AvailTc \/ LogTc
  BY <1>2 DEF AvailTc, LogTc
<1>3. CASE Recv
  BY <1>3 DEF Recv
<1>4. CASE ReadLength
  BY <1>4 DEF ReadLength
<1>5. CASE ReadPacket
  BY <1>5 DEF ReadPacket
<1>6. CASE Dispatch
  BY <1>6 DEF Dispatch
<1> QED
  BY <1>1, <1>2, <1>3, <1>4, <1>5, <1>6 DEF ProcessTc

-----------------------------------------------------------------------------
(* The steps of read_ttc.                                                  *)
LEMMA Turns ==
  ASSUME NEW step, NEW last, radio \in Radios, Then(step, last)
  PROVE  /\ radio' \in Radios
         /\ radio = "TTC_0" => pc' = step /\ radio' = "TTC_1"
         /\ radio # "TTC_0" => pc' = last /\ radio' = "TTC_0"
  BY DEF Then, Radios

LEMMA ReaderTypes ==
  ASSUME TypeOK, Records, ReadTtc
  PROVE  TypeOK' /\ UNCHANGED <<line, uplink, tc>>
<1> USE FieldNumbers DEF FieldNo
<1>1. UNCHANGED <<line, uplink, tc>>
  BY DEF ReadTtc, InitOpen, InitConfigure, InitId, InitHardware, InitFirmware,
         CheckDevice, ReadField, Stamp, Wake
<1>2. /\ pc' \in {"init", "id", "hw", "fw", "check", "hk", "stamp", "sleep"}
      /\ radio' \in Radios
  <2>1. CASE InitOpen \/ InitId \/ InitHardware \/ InitFirmware \/ Stamp
    BY <2>1 DEF TypeOK, InitOpen, InitId, InitHardware, InitFirmware, Stamp, NextRadio,
                Then, Radios
  <2>2. CASE InitConfigure \/ CheckDevice \/ ReadField \/ Wake
    BY <2>2 DEF TypeOK, InitConfigure, CheckDevice, ReadField, Wake
  <2> QED
    BY <2>1, <2>2 DEF ReadTtc
<1>3. configured' \in [Radios -> BOOLEAN] /\ stamped' \in [Radios -> BOOLEAN]
  BY DEF TypeOK, ReadTtc, InitOpen, InitConfigure, InitId, InitHardware, InitFirmware,
         CheckDevice, ReadField, Stamp, Wake
<1>4. open' \in [Radios -> BOOLEAN]
  BY DEF TypeOK, ReadTtc, InitOpen, InitConfigure, InitId, InitHardware, InitFirmware,
         CheckDevice, ReadField, Stamp, Wake, Passes
<1>5. /\ field' \in DOMAIN Fields /\ errors' \in 0 .. Len(Fields)
      /\ data' \in [Radios -> [DOMAIN Fields -> {"old", "real", "silent", "ones"}]]
  <2>1. CASE ReadField
    <3>1. pc = "hk" /\ field \in 1 .. 3 /\ errors \in 0 .. 3 /\ errors < field
      BY <2>1 DEF ReadField, Reads, TypeOK, Records, ReadSoFar
    <3>2. PICK a \in Answers(radio) :
            /\ data' = [data EXCEPT ![radio][field] = Value(field, a)]
            /\ errors' = IF Passes(a) THEN errors ELSE errors + 1
      BY <2>1 DEF ReadField
    <3>3. a \in {"real", "silent", "noise"}
      BY DEF Answers
    <3>4. Value(field, a) \in {"old", "real", "silent", "ones"}
      BY <3>1, <3>3 DEF Value, Passes, TypeOK
    <3>5. data' \in [Radios -> [DOMAIN Fields -> {"old", "real", "silent", "ones"}]]
      BY <3>2, <3>4 DEF TypeOK
    <3>6. errors' \in 0 .. 3
      BY <3>1, <3>2
    <3>7. field' \in 1 .. 3
      BY <2>1, <3>1 DEF ReadField
    <3> QED
      BY <3>5, <3>6, <3>7
  <2>2. CASE Wake
    BY <2>2 DEF Wake, TypeOK
  <2>3. CASE InitOpen \/ InitConfigure \/ InitId \/ InitHardware \/ InitFirmware
             \/ CheckDevice \/ Stamp
    BY <2>3 DEF InitOpen, InitConfigure, InitId, InitHardware, InitFirmware, CheckDevice,
                Stamp, TypeOK
  <2> QED
    BY <2>1, <2>2, <2>3 DEF ReadTtc
<1> QED
  BY <1>1, <1>2, <1>3, <1>4, <1>5 DEF TypeOK, line, uplink, tc

LEMMA ReaderRecords ==
  ASSUME TypeOK, TypeOK', Records, ReadTtc
  PROVE  Records'
<1> USE FieldNumbers DEF FieldNo
<1>1. CASE InitOpen \/ InitId \/ InitHardware \/ InitFirmware
  <2>1. /\ pc \in {"init", "id", "hw", "fw"} /\ UNCHANGED <<data, stamped>>
        /\ pc' \in {"init", "hw", "fw", "check"} /\ radio' \in Radios
    BY <1>1 DEF InitOpen, InitId, InitHardware, InitFirmware, Reads, NextRadio, Then, Radios, TypeOK
  <2>2. \A r \in Radios : Untouched(r) /\ Untouched(r)'
    BY <2>1 DEF Records, Early, Untouched
  <2> QED
    BY <2>1, <2>2 DEF Records, Early, Turn, Fresh, ReadSoFar, Done, StampIsWhole,
                      Untouched, Radios
<1>2. CASE InitConfigure
  BY <1>2 DEF InitConfigure, Reads, Records, Early, Turn, Fresh, ReadSoFar, Done,
              StampIsWhole, Untouched
<1>3. CASE CheckDevice
  <2>1. /\ pc = "check" /\ pc' \in {"hk", "stamp"} /\ UNCHANGED <<radio, data, stamped>>
        /\ field' = 1 /\ errors' = 0
    BY <1>3 DEF CheckDevice, Reads
  <2> QED
    BY <2>1 DEF Records, Early, Turn, Fresh, ReadSoFar, Done, StampIsWhole, Untouched, Whole
<1>4. CASE ReadField
  <2>1. /\ pc = "hk" /\ pc' \in {"hk", "stamp"} /\ UNCHANGED <<radio, stamped>>
        /\ radio \in Radios /\ field \in 1 .. 3 /\ errors \in Nat
        /\ pc' = "hk" => field < 3 /\ field' = field + 1
        /\ pc' = "stamp" => ~(field < 3)
    BY <1>4 DEF ReadField, Reads, TypeOK
  <2>2. PICK a \in Answers(radio) :
          /\ data' = [data EXCEPT ![radio][field] = Value(field, a)]
          /\ errors' = IF Passes(a) THEN errors ELSE errors + 1
    BY <1>4 DEF ReadField
  <2>3. a \in {"real", "silent", "noise"}
    BY DEF Answers
  <2>4. errors' = 0 => errors = 0 /\ Value(field, a) \in Touched
    BY <2>1, <2>2, <2>3 DEF Passes, Value, Touched
  <2>5. /\ \A r \in Radios \ {radio} : data'[r] = data[r]
        /\ data'[radio][field] = Value(field, a)
        /\ \A f \in 1 .. 3 \ {field} : data'[radio][f] = data[radio][f]
    BY <2>1, <2>2 DEF TypeOK
  <2>6. errors < field
        /\ (errors = 0 => \A f \in 1 .. 3 : f < field => data[radio][f] \in Touched)
    BY <2>1 DEF Records, ReadSoFar
  <2>7. errors' = 0 => \A f \in 1 .. 3 : f <= field => data'[radio][f] \in Touched
    BY <2>1, <2>4, <2>5, <2>6
  <2>8. ReadSoFar'
    BY <2>1, <2>2, <2>6, <2>7 DEF ReadSoFar
  <2>9. Done'
    BY <2>1, <2>7 DEF Done, Whole
  <2>10. Early' /\ Fresh'
    BY <2>1 DEF Early, Fresh
  <2>11. Turn'
    BY <2>1, <2>5 DEF Turn, Records, Untouched, Radios
  <2>12. StampIsWhole'
    BY <2>1, <2>5 DEF Records, Turn, StampIsWhole
  <2> QED
    BY <2>8, <2>9, <2>10, <2>11, <2>12 DEF Records
<1>5. CASE Stamp
  <2>1. /\ pc = "stamp" /\ radio \in Radios /\ UNCHANGED data
        /\ stamped' = [stamped EXCEPT ![radio] = (errors = 0)]
        /\ Then("check", "sleep")
    BY <1>5 DEF Stamp, Reads, TypeOK
  <2>2. /\ radio = "TTC_0" => pc' = "check" /\ radio' = "TTC_1"
        /\ radio # "TTC_0" => pc' = "sleep" /\ radio' = "TTC_0"
    BY <2>1, Turns
  <2>3. \A r \in Radios \ {radio} : stamped'[r] = stamped[r]
    BY <2>1 DEF TypeOK
  <2>4. stamped'[radio] => Whole(radio)
    BY <2>1 DEF TypeOK, Records, Done
  <2>5. StampIsWhole'
    BY <2>1, <2>3, <2>4 DEF Records, StampIsWhole, Whole, Touched
  <2>6. radio = "TTC_0" => Untouched("TTC_1")'
    BY <2>1, <2>3 DEF Records, Turn, Untouched, Radios
  <2>7. Early' /\ Turn' /\ Fresh' /\ ReadSoFar' /\ Done'
    BY <2>2, <2>6 DEF Early, Turn, Fresh, ReadSoFar, Done, Untouched
  <2> QED
    BY <2>5, <2>7 DEF Records
<1>6. CASE Wake
  BY <1>6 DEF Wake, Records, Early, Turn, Fresh, ReadSoFar, Done, StampIsWhole, Untouched
<1> QED
  BY <1>1, <1>2, <1>3, <1>4, <1>5, <1>6 DEF ReadTtc

-----------------------------------------------------------------------------
LEMMA NextHolds == IInv /\ [Next]_vars => IInv'
<1> SUFFICES ASSUME IInv, [Next]_vars PROVE IInv'
  OBVIOUS
<1>1. CASE Uplink \/ \E r \in Radios : Fault(r) \/ Repair(r)
  <2>1. TypeOK' /\ Pending' /\ UNCHANGED <<reader, tc>>
    BY <1>1, Uplinks, Faults DEF IInv
  <2>2. Records' /\ Buffer'
    BY <2>1 DEF IInv, reader, tc, Records, Early, Turn, Fresh, ReadSoFar, Done, StampIsWhole,
                Untouched, Whole, Buffer, NoGhostCommand
  <2> QED
    BY <2>1, <2>2 DEF IInv
<1>2. CASE ReadTtc
  <2>1. TypeOK' /\ UNCHANGED <<line, uplink, tc>>
    BY <1>2, ReaderTypes DEF IInv
  <2>2. Records'
    BY <1>2, <2>1, ReaderRecords DEF IInv
  <2>3. Pending' /\ Buffer'
    BY <2>1 DEF IInv, uplink, tc, Pending, Buffer, NoGhostCommand
  <2> QED
    BY <2>1, <2>2, <2>3 DEF IInv
<1>3. CASE ProcessTc
  <2>1. TypeOK' /\ Pending' /\ UNCHANGED reader
    BY <1>3, ProcessTypes DEF IInv
  <2>2. Records'
    BY <2>1 DEF IInv, reader, Records, Early, Turn, Fresh, ReadSoFar, Done, StampIsWhole,
                Untouched, Whole
  <2>3. Buffer'
    BY <1>3, ProcessBuffer DEF IInv
  <2> QED
    BY <2>1, <2>2, <2>3 DEF IInv
<1>4. CASE UNCHANGED vars
  BY <1>4 DEF vars, line, uplink, reader, tc, IInv, TypeOK, Pending, Records, Early, Turn, Fresh,
              ReadSoFar, Done, StampIsWhole, Untouched, Whole, Buffer, NoGhostCommand
<1> QED
  BY <1>1, <1>2, <1>3, <1>4 DEF Next

LEMMA Invariance == Spec => []IInv
  BY InitHolds, NextHolds, PTL DEF Spec

(* Every variable stays in its type, whatever the radios answer: a packet  *)
(* is taken only from a radio that holds one, and no field counts twice.   *)
THEOREM TypesHold == Spec => []TypeOK
<1>1. IInv => TypeOK
  BY DEF IInv
<1> QED
  BY <1>1, Invariance, PTL

(* A record of a radio that has a new time stamp was read and checked in   *)
(* all its fields in this cycle, or in none.                               *)
THEOREM StampedIsWhole == Spec => []StampIsWhole
<1>1. IInv => StampIsWhole
  BY DEF IInv, Records
<1> QED
  BY <1>1, Invariance, PTL

(* A reception that failed leaves no telecommand in pkt[0] for process_tc  *)
(* to switch on, at whichever transfer it failed.                          *)
THEOREM NoGhosts == Spec => []NoGhostCommand
<1>1. IInv => NoGhostCommand
  BY DEF IInv, Buffer
<1> QED
  BY <1>1, Invariance, PTL
=============================================================================
