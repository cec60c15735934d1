----------------------------- MODULE EpsProofs -----------------------------
(***************************************************************************)
(* The records of the EPS for every list of registers, every number of     *)
(* attempts and every limit of the wait: type correctness, StampIsChecked  *)
(* and StampIsTrue.                                                        *)
(***************************************************************************)
EXTENDS Eps, TLAPS

Reading == {"write", "bus", "read", "field"}

(* What is good enough for a field: in the end its own register if the EPS *)
(* is on time, and a frame with a good CRC in any case.                    *)
Good(f, v) ==
  /\ v \in Registers \cup {"zero"}
  /\ regime = "timely" => v = Fields[f]

(* The EPS answers, or is about to, with the register that is read.        *)
Asked ==
  pc \in {"bus", "read"} /\ ~err =>
    \/ pending = Register(want)
    \/ pending = "none" /\ selected = Register(want)

(* A frame that was read without an error.                                 *)
FrameIsGood ==
  pc = "field" /\ ~err => Good(want, val)

(* The fields already read, as long as no error was counted.               *)
ReadSoFar ==
  /\ pc \in Reading /\ errors = 0 => \A f \in 1 .. (want - 1) : Good(f, data[f])
  /\ pc = "stamp" /\ errors = 0 => \A f \in DOMAIN Fields : Good(f, data[f])
  /\ stamped => pc = "sleep" /\ \A f \in DOMAIN Fields : Good(f, data[f])

(* Each field counts one error at most.                                    *)
Counted ==
  /\ pc = "field" => want > 0
  /\ pc = "open" => want = 0
  /\ pc \in Reading \cup {"open"} => errors < want \/ errors = 0
  /\ pc = "write" => tries < Attempts

IInv == TypeOK /\ Asked /\ FrameIsGood /\ ReadSoFar /\ Counted

-----------------------------------------------------------------------------
(* The list of registers has a first one.                                  *)
LEMMA FieldsLen ==
  /\ Len(Fields) \in Nat \ {0} /\ DOMAIN Fields = 1 .. Len(Fields)
  /\ \A f \in DOMAIN Fields : Fields[f] \in Registers
<1>1. Fields \in Seq(STRING) /\ Fields # <<>>
  BY EpsAssumption
<1> QED BY <1>1 DEF Registers

(* A register is none of the other values of a frame.                      *)
LEMMA RegistersApart == Registers \cap {"none", "old", "zero", "cut", "disturbed"} = {}
BY EpsAssumption DEF Registers

LEMMA RegisterType == \A w \in 0 .. Len(Fields) : Register(w) \in Registers
BY FieldsLen DEF Register, Registers

LEMMA InitIInv == Init => IInv
<1> SUFFICES ASSUME Init PROVE IInv
  OBVIOUS
<1>1. data \in [DOMAIN Fields -> Registers \cup {"old", "zero", "cut", "disturbed"}]
  BY DEF Init
<1>2. want \in 0 .. Len(Fields) /\ errors \in 0 .. Len(Fields)
  BY FieldsLen DEF Init
<1>3. faults \in 0 .. MaxFaults /\ tries \in 0 .. Attempts /\ ticks \in 0 .. SlaveTimeout
  BY EpsAssumption DEF Init
<1>4. TypeOK
  BY <1>1, <1>2, <1>3 DEF Init, TypeOK
<1>5. Asked /\ FrameIsGood /\ ReadSoFar /\ Counted
  BY DEF Init, Asked, FrameIsGood, ReadSoFar, Counted, Reading
<1> QED BY <1>4, <1>5 DEF IInv

-----------------------------------------------------------------------------
(* The steps of the EPS and of the bus.                                    *)
LEMMA DeviceIInv == ASSUME IInv, Switch \/ Hold \/ Release PROVE IInv'
<1>1. TypeOK'
  <2>1. CASE Switch BY <2>1 DEF Switch, IInv, TypeOK, record
  <2>2. CASE Hold BY <2>2, EpsAssumption DEF Hold, IInv, TypeOK, record
  <2>3. CASE Release BY <2>3 DEF Release, IInv, TypeOK, record
  <2> QED BY <2>1, <2>2, <2>3
<1>2. Asked'
  <2>1. CASE Switch
    BY <2>1 DEF Switch, IInv, Asked, Register
  <2>2. CASE Hold \/ Release
    BY <2>2 DEF Hold, Release, IInv, Asked, Register
  <2> QED BY <2>1, <2>2
<1>3. UNCHANGED <<regime, pc, want, tries, val, err, record>>
  BY DEF Switch, Hold, Release
<1>4. FrameIsGood' BY <1>3 DEF IInv, FrameIsGood, Good
<1>5. ReadSoFar' BY <1>3 DEF IInv, ReadSoFar, Good, record
<1>6. Counted' BY <1>3 DEF IInv, Counted, record
<1> QED BY <1>1, <1>2, <1>4, <1>5, <1>6 DEF IInv

(* Writing the address of a register.                                      *)
LEMMA WriteIInv == ASSUME IInv, Write \/ WriteFails \/ WaitBus PROVE IInv'
<1>1. TypeOK'
  <2>1. CASE Write
    BY <2>1, RegisterType DEF Write, IInv, TypeOK, record
  <2>2. CASE WriteFails
    <3>1. tries' \in 0 .. Attempts
      BY <2>2, EpsAssumption DEF WriteFails, IInv, TypeOK, Counted
    <3>2. pending' \in Registers \cup {"none"}
      BY <2>2, RegisterType DEF WriteFails, IInv, TypeOK
    <3>3. faults' \in 0 .. MaxFaults /\ err' \in BOOLEAN /\ pc' \in {"write", "read"}
      BY <2>2, EpsAssumption DEF WriteFails, IInv, TypeOK
    <3> QED BY <2>2, <3>1, <3>2, <3>3 DEF WriteFails, IInv, TypeOK, record
  <2>3. CASE WaitBus BY <2>3 DEF WaitBus, IInv, TypeOK, record, device
  <2> QED BY <2>1, <2>2, <2>3
<1>2. Asked'
  <2>1. CASE Write BY <2>1 DEF Write, Asked, Register
  <2>2. CASE WriteFails BY <2>2 DEF WriteFails, Asked
  <2>3. CASE WaitBus BY <2>3 DEF WaitBus, IInv, Asked, Register, device
  <2> QED BY <2>1, <2>2, <2>3
<1>3. /\ UNCHANGED <<regime, want, val, record>>
      /\ pc \in Reading /\ pc' \in {"write", "bus", "read"}
      /\ pc' = "write" => tries' < Attempts
  <2>1. CASE Write BY <2>1 DEF Write, Reading
  <2>2. CASE WriteFails
    BY <2>2, EpsAssumption DEF WriteFails, Reading, IInv, Counted, TypeOK
  <2>3. CASE WaitBus BY <2>3 DEF WaitBus, Reading, device
  <2> QED BY <2>1, <2>2, <2>3
<1>4. FrameIsGood' BY <1>3 DEF FrameIsGood
<1>5. ReadSoFar' BY <1>3 DEF IInv, ReadSoFar, Good, record, Reading
<1>6. Counted' BY <1>3 DEF IInv, Counted, record, Reading
<1> QED BY <1>1, <1>2, <1>4, <1>5, <1>6 DEF IInv

(* Reading the frame: if it passes, it is the register asked for, unless   *)
(* the EPS is late or has stopped in it.                                   *)
LEMMA ReadIInv == ASSUME IInv, Read PROVE IInv'
<1>1. PICK frame \in Frames :
        /\ faults' = IF frame = "disturbed" THEN faults + 1 ELSE faults
        /\ ticks' = Waited(frame)
        /\ val' = frame
        /\ err' = (err \/ ReadFails(ticks') \/ ~Crc(frame))
  BY DEF Read
<1>2. /\ pc = "read" /\ Ready /\ pc' = IF want = 0 THEN "open" ELSE "field"
      /\ UNCHANGED <<regime, selected, pending, busy, open, want, tries, record>>
  BY DEF Read
<1>3. TypeOK
  BY DEF IInv
<1>4. frame \in Registers \cup {"zero", "cut", "disturbed"}
  BY <1>3 DEF Frames, TypeOK
<1>5. faults' \in 0 .. MaxFaults
  <2>1. CASE frame = "disturbed"
    <3>1. selected # "disturbed" BY <1>3, RegistersApart DEF TypeOK
    <3>2. faults < MaxFaults
      BY <2>1, <3>1 DEF Frames
    <3> QED BY <1>1, <1>3, <2>1, <3>2, EpsAssumption DEF TypeOK
  <2>2. CASE frame # "disturbed"
    BY <1>1, <1>3, <2>2 DEF TypeOK
  <2> QED BY <2>1, <2>2
<1>6. ticks' \in 0 .. SlaveTimeout
  BY <1>1, EpsAssumption DEF Waited
<1>7. TypeOK'
  <2>1. val' \in Registers \cup {"zero", "cut", "disturbed"} /\ err' \in BOOLEAN
    BY <1>1, <1>3, <1>4 DEF TypeOK
  <2>2. pc' \in {"open", "field"} BY <1>2
  <2> QED BY <1>2, <1>3, <1>5, <1>6, <2>1, <2>2 DEF TypeOK, record
<1>8. FrameIsGood'
  <2> SUFFICES ASSUME pc' = "field", ~err' PROVE Good(want, val)'
    BY DEF FrameIsGood
  <2>1. ~err /\ Crc(frame) /\ want # 0 BY <1>1, <1>2
  <2>2. frame \in Registers \cup {"zero"} BY <2>1 DEF Crc
  <2>3. ASSUME regime = "timely" PROVE frame = Fields[want]
    <3>1. frame \in {selected, "disturbed"} BY <2>3 DEF Frames
    <3>2. frame = selected BY <2>2, <3>1, RegistersApart
    <3>3. pending = "none" BY <1>2, <2>3 DEF Ready
    <3>4. Register(want) \in Registers BY <1>3, RegisterType DEF TypeOK
    <3>5. selected = Register(want)
      BY <1>2, <2>1, <3>3, <3>4, RegistersApart DEF IInv, Asked
    <3> QED BY <2>1, <3>2, <3>5 DEF Register
  <2> QED BY <1>1, <1>2, <2>2, <2>3 DEF Good
<1>9. Asked' BY <1>2 DEF Asked
<1>10. ReadSoFar' BY <1>2 DEF IInv, ReadSoFar, Good, record, Reading
<1>11. Counted' BY <1>2, <1>3 DEF IInv, Counted, record, Reading, TypeOK
<1> QED BY <1>7, <1>8, <1>9, <1>10, <1>11 DEF IInv

-----------------------------------------------------------------------------
(* The steps of the task between two registers.                            *)
LEMMA WakeIInv == ASSUME IInv, Wake PROVE IInv'
<1>1. TypeOK BY DEF IInv
<1>2. want' \in {0, 1} /\ pc' = "write" /\ tries' = 0 /\ err' = FALSE /\ errors' = 0
      /\ data' = [f \in DOMAIN Fields |-> "old"] /\ stamped' = FALSE
  BY DEF Wake, ReadReg
<1>3. TypeOK'
  <2>1. data' \in [DOMAIN Fields -> Registers \cup {"old", "zero", "cut", "disturbed"}]
    BY <1>2
  <2>2. want' \in 0 .. Len(Fields) /\ errors' \in 0 .. Len(Fields)
    BY <1>2, FieldsLen
  <2>3. tries' \in 0 .. Attempts
    BY <1>2, EpsAssumption
  <2>4. UNCHANGED <<device, open, ticks, val>>
    BY DEF Wake
  <2> QED BY <1>1, <1>2, <2>1, <2>2, <2>3, <2>4 DEF TypeOK, device
<1>4. Asked' /\ FrameIsGood' BY <1>2 DEF Asked, FrameIsGood
<1>5. ReadSoFar'
  <2> SUFFICES ASSUME NEW f \in 1 .. (want' - 1) PROVE FALSE
    BY <1>2 DEF ReadSoFar
  <2>1. CASE want' = 0
    BY <2>1
  <2>2. CASE want' = 1
    BY <2>2
  <2> QED BY <1>2, <2>1, <2>2
<1>6. Counted' BY <1>2, EpsAssumption DEF Counted
<1> QED BY <1>3, <1>4, <1>5, <1>6 DEF IInv

LEMMA OpenIInv == ASSUME IInv, OpenEps PROVE IInv'
<1>1. TypeOK /\ pc = "open" /\ want = 0 /\ errors = 0 /\ ~stamped
  BY DEF IInv, OpenEps, Counted, ReadSoFar, TypeOK
<1>2. CASE open'
  <2>1. pc' = "write" /\ want' = 1 /\ tries' = 0 /\ err' = FALSE
    BY <1>2 DEF OpenEps, ReadReg
  <2>2. TypeOK'
    <3>1. want' \in 0 .. Len(Fields)
      BY <2>1, FieldsLen
    <3>2. tries' \in 0 .. Attempts
      BY <2>1, EpsAssumption
    <3>3. UNCHANGED <<device, ticks, val, record>>
      BY DEF OpenEps
    <3>4. open' \in BOOLEAN
      BY <1>2
    <3> QED BY <1>1, <2>1, <3>1, <3>2, <3>3, <3>4 DEF TypeOK, device, record
  <2>3. Asked' /\ FrameIsGood' BY <2>1 DEF Asked, FrameIsGood
  <2>4. ReadSoFar' BY <1>1, <2>1 DEF OpenEps, ReadSoFar, Reading, record
  <2>5. Counted' BY <1>1, <2>1, EpsAssumption DEF OpenEps, Counted, record
  <2> QED BY <2>2, <2>3, <2>4, <2>5 DEF IInv
<1>3. CASE ~open'
  <2>1. pc' = "sleep" /\ UNCHANGED <<want, tries, err>>
    BY <1>3 DEF OpenEps
  <2>2. open' \in BOOLEAN BY <1>1 DEF OpenEps, IsEps, TypeOK
  <2>3. TypeOK'
    BY <1>1, <2>1, <2>2 DEF OpenEps, TypeOK, device, record
  <2>4. Asked' /\ FrameIsGood' /\ Counted' BY <2>1 DEF Asked, FrameIsGood, Counted, Reading
  <2>5. ReadSoFar' BY <1>1, <2>1 DEF OpenEps, ReadSoFar, Reading, record
  <2> QED BY <2>3, <2>4, <2>5 DEF IInv
<1> QED BY <1>2, <1>3

LEMMA FieldIInv == ASSUME IInv, Field PROVE IInv'
<1>1. /\ TypeOK /\ pc = "field" /\ want \in 1 .. Len(Fields) /\ errors < want /\ ~stamped
      /\ errors \in Nat
  BY DEF IInv, Field, Counted, ReadSoFar, TypeOK, Reading
<1>2. /\ data' = [data EXCEPT ![want] = val] /\ stamped' = FALSE
      /\ errors' = IF err THEN errors + 1 ELSE errors
      /\ regime' = regime
  BY <1>1 DEF Field, device, TypeOK
<1>3. data' \in [DOMAIN Fields -> Registers \cup {"old", "zero", "cut", "disturbed"}]
  BY <1>1, <1>2 DEF TypeOK
<1>4. errors' \in 0 .. want
  BY <1>1, <1>2
<1>5. errors' = 0 => \A f \in 1 .. want : Good(f, data[f])'
  <2> SUFFICES ASSUME errors' = 0, NEW f \in 1 .. want PROVE Good(f, data[f])'
    OBVIOUS
  <2>1. ~err /\ errors = 0 BY <1>1, <1>2
  <2>2. CASE f = want
    <3>1. data'[f] = val BY <1>1, <1>2, <2>2, FieldsLen DEF TypeOK
    <3> QED BY <1>1, <1>2, <2>1, <2>2, <3>1 DEF IInv, FrameIsGood, Good
  <2>3. CASE f # want
    <3>1. f \in 1 .. (want - 1) BY <1>1, <2>3
    <3>2. data'[f] = data[f] BY <1>1, <1>2, <2>3, FieldsLen DEF TypeOK
    <3> QED BY <1>1, <1>2, <2>1, <3>1, <3>2 DEF IInv, ReadSoFar, Reading, Good
  <2> QED BY <2>2, <2>3
<1>6. CASE want < Len(Fields)
  <2>1. pc' = "write" /\ want' = want + 1 /\ tries' = 0 /\ err' = FALSE
    BY <1>6 DEF Field, NextField, ReadReg
  <2>2. want' \in 0 .. Len(Fields) /\ errors' \in 0 .. Len(Fields)
    BY <1>1, <1>4, <1>6, <2>1, FieldsLen
  <2>3. TypeOK'
    <3>1. tries' \in 0 .. Attempts
      BY <2>1, EpsAssumption
    <3>2. UNCHANGED <<device, open, ticks, val>>
      BY DEF Field
    <3> QED BY <1>1, <1>2, <1>3, <2>1, <2>2, <3>1, <3>2 DEF TypeOK, device
  <2>4. Asked' /\ FrameIsGood' BY <2>1 DEF Asked, FrameIsGood
  <2>5. want' - 1 = want BY <1>1, <2>1
  <2>6. ReadSoFar' BY <1>2, <1>5, <2>1, <2>5 DEF ReadSoFar
  <2>7. Counted' BY <1>1, <1>4, <2>1, EpsAssumption DEF Counted
  <2> QED BY <2>3, <2>4, <2>6, <2>7 DEF IInv
<1>7. CASE ~(want < Len(Fields))
  <2>1. pc' = "stamp" /\ UNCHANGED <<want, tries, err>>
    BY <1>7 DEF Field, NextField
  <2>2. want = Len(Fields)
    <3>1. Len(Fields) \in Nat BY FieldsLen
    <3>2. want \in 1 .. Len(Fields) BY <1>1
    <3> QED BY <1>7, <3>1, <3>2
  <2>3. errors' \in 0 .. Len(Fields) BY <1>4, <2>2
  <2>4. TypeOK'
    <3>1. UNCHANGED <<device, open, ticks, val>>
      BY DEF Field
    <3> QED BY <1>1, <1>2, <1>3, <2>1, <2>3, <3>1 DEF TypeOK, device
  <2>5. Asked' /\ FrameIsGood' /\ Counted'
    BY <2>1 DEF Asked, FrameIsGood, Counted, Reading
  <2>6. DOMAIN Fields = 1 .. want BY <2>2, FieldsLen
  <2>7. ReadSoFar' BY <1>2, <1>5, <2>1, <2>6 DEF ReadSoFar, Reading
  <2> QED BY <2>4, <2>5, <2>7 DEF IInv
<1> QED BY <1>6, <1>7

LEMMA StampIInv == ASSUME IInv, Stamp PROVE IInv'
<1>1. /\ pc = "stamp" /\ pc' = "sleep" /\ stamped' = (errors = 0)
      /\ UNCHANGED <<device, open, want, tries, ticks, val, err, errors, data>>
  BY DEF Stamp
<1>2. TypeOK' BY <1>1 DEF IInv, TypeOK, device
<1>3. Asked' /\ FrameIsGood' /\ Counted'
  BY <1>1 DEF Asked, FrameIsGood, Counted, Reading
<1>4. ReadSoFar' BY <1>1 DEF IInv, ReadSoFar, Reading, Good, device
<1> QED BY <1>2, <1>3, <1>4 DEF IInv

-----------------------------------------------------------------------------
(* IInv holds in every reachable state.                                    *)
THEOREM InductiveInvariant == Spec => []IInv
<1>1. IInv /\ [Next]_vars => IInv'
  <2> SUFFICES ASSUME IInv, [Next]_vars PROVE IInv'
    OBVIOUS
  <2>1. CASE Switch \/ Hold \/ Release BY <2>1, DeviceIInv
  <2>2. CASE Write \/ WriteFails \/ WaitBus BY <2>2, WriteIInv
  <2>3. CASE Read BY <2>3, ReadIInv
  <2>4. CASE Wake BY <2>4, WakeIInv
  <2>5. CASE OpenEps BY <2>5, OpenIInv
  <2>6. CASE Field BY <2>6, FieldIInv
  <2>7. CASE Stamp BY <2>7, StampIInv
  <2>8. CASE UNCHANGED vars
    BY <2>8 DEF vars, device, record, IInv, TypeOK, Asked, FrameIsGood, ReadSoFar,
                Counted, Good, Register
  <2> QED BY <2>1, <2>2, <2>3, <2>4, <2>5, <2>6, <2>7, <2>8 DEF Next, Task
<1> QED BY InitIInv, <1>1, PTL DEF Spec

(* The fields, the error counter and the retries stay in range: read_eps   *)
(* never counts more errors than there are registers.                      *)
THEOREM TypeCorrect == Spec => []TypeOK
<1>1. IInv => TypeOK BY DEF IInv
<1> QED BY InductiveInvariant, <1>1, PTL

(* A time stamp of this cycle (read_eps) is given only to a record all of  *)
(* whose fields passed the CRC in it.                                      *)
THEOREM StampedIsChecked == Spec => []StampIsChecked
<1>1. IInv => StampIsChecked
  BY RegistersApart DEF IInv, ReadSoFar, Good, StampIsChecked
<1> QED BY InductiveInvariant, <1>1, PTL

(* If the EPS is ready within the delay of sl_eps2_read_reg and does not   *)
(* stop in a frame, each field of such a record is its own register.       *)
THEOREM StampedIsTrue == Spec => []StampIsTrue
<1>1. IInv => StampIsTrue
  BY DEF IInv, ReadSoFar, Good, StampIsTrue
<1> QED BY InductiveInvariant, <1>1, PTL
=============================================================================
