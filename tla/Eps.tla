-------------------------------- MODULE Eps ---------------------------------
(***************************************************************************)
(* Reading the EPS: the task read_eps over devices/eps, drivers/sl_eps2,   *)
(* the I2C buffer drivers/tca4311a and drivers/i2c.  A register is read by *)
(* writing its address (retried), waiting 50 ms and reading a frame; the   *)
(* address in the frame is not looked at, its CRC-8 is.                    *)
(*                                                                         *)
(* The EPS is external.  It switches to the register asked for some time   *)
(* after the write, and it may stop clocking bytes out: i2c_read then      *)
(* takes the receive register again and again, and zeros pass the CRC.     *)
(***************************************************************************)
EXTENDS Naturals, Sequences

CONSTANTS Fields,       \* the registers of eps_data_t, in the order they
                        \* are read
          Attempts,     \* SL_EPS2_I2C_OP_ATTEMPTS
          SlaveTimeout, \* I2C_SLAVE_TIMEOUT
          MaxFaults     \* bound: errors of the bus in a behaviour

ASSUME EpsAssumption ==
  /\ Attempts \in Nat \ {0} /\ SlaveTimeout \in Nat \ {0} /\ MaxFaults \in Nat
  /\ Fields \in Seq(STRING) /\ Fields # <<>>
  /\ \A f \in DOMAIN Fields : Fields[f] \notin {"id", "none", "old", "zero", "cut", "disturbed"}

Registers == {"id"} \cup {Fields[f] : f \in DOMAIN Fields}

(* How the EPS behaves: it is ready within the 50 ms and clocks its frames *)
(* out, it may be late, or it may stop in a frame.                         *)
Regimes == {"timely", "late", "mute"}

VARIABLES regime,   \* external: one of Regimes, the same for ever
          selected, \* external: the register the EPS answers with
          pending,  \* external: the one it is about to switch to
          busy,     \* external: the bus is held
          faults,   \* external: errors so far
          open,     \* eps_is_open
          pc,       \* the next step of the task
          want,     \* the register that is read: 0 for the identifier
          tries,    \* i of the retry loops
          ticks,    \* timeout of i2c_read
          val, err, \* what sl_eps2_read_reg returns
          errors,   \* err_counter
          data,     \* sat_data_buf.eps.data: "old" if not read this cycle
          stamped   \* sat_data_buf.eps.timestamp is set this cycle

device == <<regime, selected, pending, busy, faults>>
record == <<errors, data, stamped>>
vars == <<device, open, pc, want, tries, ticks, val, err, record>>

Init ==
  /\ regime \in Regimes /\ selected \in Registers /\ pending = "none"
  /\ busy = FALSE /\ faults = 0
  /\ open = FALSE /\ pc = "sleep" /\ want = 0 /\ tries = 0 /\ ticks = 0
  /\ val = "zero" /\ err = FALSE
  /\ errors = 0 /\ data = [f \in DOMAIN Fields |-> "old"] /\ stamped = FALSE

-----------------------------------------------------------------------------
(* The EPS and the bus.                                                    *)
Switch ==
  /\ pending # "none"
  /\ selected' = pending /\ pending' = "none"
  /\ UNCHANGED <<regime, busy, faults, open, pc, want, tries, ticks, val, err, record>>

Hold ==
  /\ ~busy /\ faults < MaxFaults
  /\ busy' = TRUE /\ faults' = faults + 1
  /\ UNCHANGED <<regime, selected, pending, open, pc, want, tries, ticks, val, err, record>>

Release ==
  /\ busy /\ busy' = FALSE
  /\ UNCHANGED <<regime, selected, pending, faults, open, pc, want, tries, ticks, val, err, record>>

-----------------------------------------------------------------------------
(* sl_eps2_read_reg.                                                       *)
Register(w) == IF w = 0 THEN "id" ELSE Fields[w]

ReadReg(w) == pc' = "write" /\ want' = w /\ tries' = 0 /\ err' = FALSE

\* i2c_write succeeds, then waits until the bus is free.
Write ==
  /\ pc = "write" /\ pc' = "bus"
  /\ pending' = Register(want)
  /\ UNCHANGED <<regime, selected, busy, faults, open, want, tries, ticks, val, err, record>>

\* A time-out: the EPS may have heard the address all the same.
WriteFails ==
  /\ pc = "write"
  /\ faults < MaxFaults /\ faults' = faults + 1
  /\ tries' = tries + 1
  /\ pc' = IF tries' = Attempts THEN "read" ELSE "write"
  /\ err' = (tries' = Attempts)
  /\ pending' \in {pending, Register(want)}
  /\ UNCHANGED <<regime, selected, busy, open, want, ticks, val, record>>

WaitBus ==
  /\ pc = "bus" /\ pc' = "read"
  /\ ~busy
  /\ UNCHANGED <<device, open, want, tries, ticks, val, err, record>>

ReadyAtOnce == TRUE \* mutant: the frame is read without a delay

(* 50 ms have passed.                                                      *)
Ready == regime # "late" => pending = "none"

(* A frame, one that was disturbed, or, when the EPS stops, as many copies *)
(* of the last byte received as are missing: all zeros if none came, and   *)
(* the one before it was zero.                                             *)
Frames ==
  {selected} \cup (IF faults < MaxFaults THEN {"disturbed"} ELSE {})
    \cup (IF regime = "mute" THEN {"zero", "cut"} ELSE {})

Waited(frame) == IF frame \in {"zero", "cut"} THEN SlaveTimeout ELSE 0

(* `if (timeout > I2C_SLAVE_TIMEOUT)': the loops stop at I2C_SLAVE_TIMEOUT,*)
(* so that a read is never tried again.                                    *)
ReadFails(t) == t > SlaveTimeout

Crc(frame) == frame \in Registers \cup {"zero"}

Read ==
  /\ pc = "read" /\ Ready
  /\ \E frame \in Frames :
       /\ faults' = IF frame = "disturbed" THEN faults + 1 ELSE faults
       /\ ticks' = Waited(frame)
       /\ val' = frame
       /\ err' = (err \/ ReadFails(ticks') \/ ~Crc(frame))
  /\ pc' = IF want = 0 THEN "open" ELSE "field"
  /\ UNCHANGED <<regime, selected, pending, busy, open, want, tries, record>>

-----------------------------------------------------------------------------
WakeAgain == \* mutant: err_counter is not reset
  /\ pc = "sleep"
  /\ IF open THEN ReadReg(1) ELSE ReadReg(0)
  /\ data' = [f \in DOMAIN Fields |-> "old"] /\ stamped' = FALSE
  /\ UNCHANGED <<device, open, ticks, val, errors>>

(* The task.  eps_init does nothing if the EPS is open.                    *)
Wake ==
  /\ pc = "sleep"
  /\ IF open THEN ReadReg(1) ELSE ReadReg(0)
  /\ errors' = 0 /\ data' = [f \in DOMAIN Fields |-> "old"] /\ stamped' = FALSE
  /\ UNCHANGED <<device, open, ticks, val>>

(* sl_eps2_check_device.                                                   *)
IsEps == ~err /\ val = "id"

\* eps_init; then eps_get_data, which needs the EPS open.
OpenEps ==
  /\ pc = "open"
  /\ open' = IsEps
  /\ IF open' THEN ReadReg(1)
              ELSE pc' = "sleep" /\ UNCHANGED <<want, tries, err>>
  /\ UNCHANGED <<device, ticks, val, record>>

\* sl_eps2_read_data goes on with the next register, or returns.
NextField ==
  IF want < Len(Fields) THEN ReadReg(want + 1)
                        ELSE pc' = "stamp" /\ UNCHANGED <<want, tries, err>>

FieldUncounted == \* mutant: only the last field's error is kept
  /\ pc = "field"
  /\ data' = [data EXCEPT ![want] = val]
  /\ errors' = IF err THEN 1 ELSE 0
  /\ NextField
  /\ UNCHANGED <<device, open, ticks, val, stamped>>

\* sl_eps2_read_data: the value is stored whether it was read well or not.
Field ==
  /\ pc = "field"
  /\ data' = [data EXCEPT ![want] = val]
  /\ errors' = IF err THEN errors + 1 ELSE errors
  /\ NextField
  /\ UNCHANGED <<device, open, ticks, val, stamped>>

Stamp ==
  /\ pc = "stamp" /\ pc' = "sleep"
  /\ stamped' = (errors = 0)
  /\ UNCHANGED <<device, open, want, tries, ticks, val, err, errors, data>>

Task ==
  \/ Wake \/ OpenEps \/ Field \/ Stamp
  \/ Write \/ WriteFails \/ WaitBus \/ Read

Next == Switch \/ Hold \/ Release \/ Task

(* The EPS obeys, the bus is not held for ever, and the task runs.         *)
Spec == Init /\ [][Next]_vars
FairSpec == Spec /\ WF_vars(Switch) /\ WF_vars(Release) /\ WF_vars(Task)

-----------------------------------------------------------------------------
TypeOK ==
  /\ regime \in Regimes /\ selected \in Registers
  /\ pending \in Registers \cup {"none"}
  /\ busy \in BOOLEAN /\ faults \in 0 .. MaxFaults /\ open \in BOOLEAN
  /\ pc \in {"sleep", "open", "field", "stamp", "write", "bus", "read"}
  /\ want \in 0 .. Len(Fields) /\ tries \in 0 .. Attempts
  /\ ticks \in 0 .. SlaveTimeout
  /\ val \in Registers \cup {"zero", "cut", "disturbed"} /\ err \in BOOLEAN
  /\ errors \in 0 .. Len(Fields)
  /\ data \in [DOMAIN Fields -> Registers \cup {"old", "zero", "cut", "disturbed"}]
  /\ stamped \in BOOLEAN

(* A record with a time stamp of this cycle (read_eps) holds in each field *)
(* the register of that field, if the EPS is ready within the delay of     *)
(* sl_eps2_read_reg and does not stop in a frame.                          *)
StampIsTrue ==
  regime = "timely" /\ stamped => \A f \in DOMAIN Fields : data[f] = Fields[f]

(* However the EPS behaves, such a record was read in this cycle in all    *)
(* its fields and each passed the CRC.                                     *)
StampIsChecked ==
  stamped => \A f \in DOMAIN Fields : data[f] \notin {"old", "cut", "disturbed"}

(* An EPS that is ready in time is read successfully again and again, once *)
(* the errors of the bus are over, also if they hit the opening.           *)
FreshAgain == regime = "timely" => []<>stamped
=============================================================================
