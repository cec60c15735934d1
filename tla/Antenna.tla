------------------------------ MODULE Antenna ------------------------------
(***************************************************************************)
(* The antenna module: the tasks read_antenna and antenna_deployment over  *)
(* devices/antenna, drivers/isis_antenna and the I2C buffer of             *)
(* drivers/tca4311a, whose EN pin connects the antenna to the bus.  Each   *)
(* task goes through conversations, a conversation through transfers, and  *)
(* a transfer enables the buffer, runs, and disables it.  The two tasks    *)
(* share the pin and take no lock.                                         *)
(*                                                                         *)
(* config.h does not create antenna_deployment: a build without it is a    *)
(* behaviour of Spec in which it hibernates for ever.  The antenna, and    *)
(* what a disturbed bus makes of a transfer, are external.                 *)
(***************************************************************************)
EXTENDS Naturals, Sequences

CONSTANTS Attempts,       \* ISIS_ANTENNA_I2C_OP_ATTEMPTS
          ArmTries,       \* timeout_ms / 1000 in antenna_deploy
          HibernationMin, \* CONFIG_ANTENNA_DEPLOYMENT_HIBERNATION_MIN
          DeployAttempts, \* CONFIG_ANTENNA_DEPLOYMENT_ATTEMPTS
          MaxFaults,      \* bound: failed transfers since the last boot
          MaxResets       \* bound: resets

ASSUME AntennaAssumption ==
  /\ {Attempts, ArmTries, DeployAttempts} \subseteq Nat \ {0}
  /\ {HibernationMin, MaxFaults, MaxResets} \subseteq Nat

Tasks == {"read", "deploy"}

(* antenna_deploy: between arming and disarming each antenna is burnt, and *)
(* then all in sequence.                                                   *)
BurnSet == {"ant_1", "ant_2", "ant_3", "ant_4", "sequential"}
Routine == <<"arm", "ant_1", "ant_2", "ant_3", "ant_4", "sequential", "status", "disarm">>

VARIABLES overlap,  \* transfers of the two tasks may overlap (fixed)
          enabled,  \* the EN pin of the TCA4311A
          armed,    \* external: the antenna is armed
          faults,   \* external: failed transfers since the last boot
          resets,
          burnt,    \* history: burn commands an armed antenna took
          pc,       \* the next step of a task
          todo,     \* the conversations a task has before it, first the present
          step,     \* the transfer of that conversation
          i, j,     \* the loops of isis_antenna_i2c_write and _read
          ok,       \* what the last of these returned
          open,     \* antenna_is_open
          stamped,  \* sat_data_buf.antenna.timestamp is set this cycle
          tries,    \* attempts to arm
          hib,      \* initial_hib_time_count
          counter   \* ant_deployment_counter

antenna == <<armed, burnt, faults>>
calls == <<todo, step, i>>
reader == <<open, stamped>>
deployer == <<tries, hib, counter>>
fixed == <<overlap, resets>>
vars == <<fixed, enabled, antenna, pc, calls, j, ok, reader, deployer>>

(* After a boot.  startup's antenna_init has put the pin low and failed    *)
(* there, as InitAntenna does.                                             *)
Boot ==
  [pc |-> [t \in Tasks |-> IF t = "read" THEN "sleep" ELSE "hibernate"],
   todo |-> [t \in Tasks |-> <<>>],
   zero |-> [t \in Tasks |-> 0]]

Init ==
  /\ overlap \in BOOLEAN /\ resets = 0
  /\ enabled = FALSE /\ armed = FALSE /\ burnt = {} /\ faults = 0
  /\ pc = Boot.pc /\ todo = Boot.todo
  /\ step = Boot.zero /\ i = Boot.zero /\ j = Boot.zero
  /\ ok = [t \in Tasks |-> FALSE]
  /\ open = FALSE /\ stamped = FALSE
  /\ tries = 0 /\ hib = 0 /\ counter = 0

-----------------------------------------------------------------------------
(* isis_antenna_i2c_write and isis_antenna_i2c_read.                       *)

(* The transfers of a conversation: commands that are written, and "read". *)
(* What is made of the bytes of an answer is left out.                     *)
Status == <<"status", "read">>
Temperature == <<"temp", "read">>

Transfers(c) ==
  CASE c \in {"arm", "disarm"} -> <<c, "status", "read">>
    [] c = "status"            -> Status
    [] c = "temp"              -> Temperature
    [] c \in BurnSet           -> <<c>>

Present(t) == Transfers(Head(todo[t]))[step[t]]

(* What tca4311a_disable returns when the pin could be set.                *)
DisableStatus == "READY"

(* Without overlap, no task uses the buffer while it is another's.         *)
Clear(t) ==
  overlap \/ \A u \in Tasks \ {t} : pc[u] \notin {"transfer", "disable"}

Goto(t, p) == pc' = [pc EXCEPT ![t] = p]

Enable(t) ==
  /\ pc[t] = "enable" /\ Clear(t)
  /\ enabled' = TRUE
  /\ Goto(t, "transfer")
  /\ UNCHANGED <<fixed, antenna, calls, j, ok, reader, deployer>>

(* A command the antenna hears.                                            *)
Hears(c) ==
  /\ armed' = CASE c = "arm" -> TRUE [] c = "disarm" -> FALSE [] OTHER -> armed
  /\ burnt' = IF c \in BurnSet /\ armed THEN burnt \cup {c} ELSE burnt

TransferOnce(t) == \* mutant: a failed transfer is not tried again
  /\ pc[t] = "transfer"
  /\ \E heard, fine \in BOOLEAN :
       /\ heard => enabled
       /\ enabled /\ fine => heard
       /\ ~fine => faults < MaxFaults
       /\ faults' = IF fine THEN faults ELSE faults + 1
       /\ IF heard THEN Hears(Present(t)) ELSE UNCHANGED <<armed, burnt>>
       /\ IF fine THEN Goto(t, "disable") /\ UNCHANGED <<i, ok>>
                  ELSE /\ i' = [i EXCEPT ![t] = @ + 1]
                       /\ ok' = [ok EXCEPT ![t] = FALSE]
                       /\ Goto(t, "result")
  /\ j' = [j EXCEPT ![t] = 0]
  /\ UNCHANGED <<fixed, enabled, todo, step, reader, deployer>>

(* tca4311a_write or tca4311a_read.  The antenna hears nothing through a   *)
(* disabled buffer, and may have heard a transfer that is reported failed. *)
Transfer(t) ==
  /\ pc[t] = "transfer"
  /\ \E heard, fine \in BOOLEAN :
       /\ heard => enabled
       /\ enabled /\ fine => heard
       /\ ~fine => faults < MaxFaults
       /\ faults' = IF fine THEN faults ELSE faults + 1
       /\ IF heard THEN Hears(Present(t)) ELSE UNCHANGED <<armed, burnt>>
       /\ IF fine THEN Goto(t, "disable") /\ UNCHANGED <<i, ok>>
                  ELSE /\ i' = [i EXCEPT ![t] = @ + 1]
                       /\ ok' = [ok EXCEPT ![t] = FALSE]
                       /\ Goto(t, IF i'[t] < Attempts THEN "enable" ELSE "result")
  /\ j' = [j EXCEPT ![t] = 0]
  /\ UNCHANGED <<fixed, enabled, todo, step, reader, deployer>>

DisableWaits(t) == \* mutant: a loop without a limit
  /\ pc[t] = "disable"
  /\ enabled' = FALSE
  /\ ok' = [ok EXCEPT ![t] = (DisableStatus = "NOT_READY")]
  /\ Goto(t, IF ok'[t] THEN "result" ELSE "disable")
  /\ UNCHANGED <<fixed, antenna, calls, j, reader, deployer>>

(* A pass of the loop that waits for TCA4311A_NOT_READY.                   *)
Disable(t) ==
  /\ pc[t] = "disable"
  /\ enabled' = FALSE
  /\ j' = [j EXCEPT ![t] = @ + 1]
  /\ ok' = [ok EXCEPT ![t] = (DisableStatus = "NOT_READY")]
  /\ Goto(t, IF ok'[t] \/ j'[t] = Attempts THEN "result" ELSE "disable")
  /\ UNCHANGED <<fixed, antenna, calls, reader, deployer>>

(* The next conversation, or the end of the list.                          *)
Converse(t, list, end) ==
  /\ todo' = [todo EXCEPT ![t] = list]
  /\ step' = [step EXCEPT ![t] = 1]
  /\ i' = [i EXCEPT ![t] = 0]
  /\ Goto(t, IF list = <<>> THEN end ELSE "enable")

(* A transfer of a conversation that is not its last succeeded.            *)
More(t) == ok[t] /\ step[t] < Len(Transfers(Head(todo[t])))

NextTransfer(t) ==
  /\ step' = [step EXCEPT ![t] = @ + 1]
  /\ i' = [i EXCEPT ![t] = 0]
  /\ Goto(t, "enable")
  /\ UNCHANGED todo

-----------------------------------------------------------------------------
(* The task read_antenna.                                                  *)
GetData == <<"status", "temp">>

(* antenna_init and, if it fails, antenna_get_data all the same.           *)
Wake ==
  /\ pc["read"] = "sleep" /\ Clear("read")
  /\ enabled' = (open /\ enabled)
  /\ Converse("read",
       IF ~open /\ DisableStatus = "NOT_READY" THEN <<"temp", "status">> \o GetData
                                               ELSE GetData, "sleep")
  /\ stamped' = FALSE
  /\ UNCHANGED <<fixed, antenna, j, ok, open, deployer>>

ReadResult ==
  /\ pc["read"] = "result"
  /\ IF More("read") THEN NextTransfer("read") /\ UNCHANGED reader
     ELSE /\ IF Len(todo["read"]) > Len(GetData)
               THEN /\ Converse("read", IF ok["read"] THEN Tail(todo["read"])
                                                      ELSE GetData, "sleep")
                    /\ open' = (ok["read"] /\ Len(todo'["read"]) = Len(GetData))
                    /\ UNCHANGED stamped
               ELSE /\ Converse("read", IF ok["read"] THEN Tail(todo["read"])
                                                      ELSE <<>>, "sleep")
                    /\ stamped' = (ok["read"] /\ todo'["read"] = <<>>)
                    /\ UNCHANGED open
  /\ UNCHANGED <<fixed, enabled, antenna, j, ok, deployer>>

-----------------------------------------------------------------------------
(* The task antenna_deployment.                                            *)
Hibernate ==
  /\ pc["deploy"] = "hibernate" /\ hib < HibernationMin
  /\ hib' = hib + 1
  /\ UNCHANGED <<fixed, enabled, antenna, pc, calls, j, ok, reader, tries, counter>>

Deploy ==
  /\ pc["deploy"] = "hibernate" /\ hib = HibernationMin
  /\ Converse("deploy", IF counter < DeployAttempts THEN Routine ELSE <<>>, "ended")
  /\ tries' = 0
  /\ UNCHANGED <<fixed, enabled, antenna, j, ok, reader, hib, counter>>

(* The loop that arms the antenna ends.                                    *)
Armed(good) == good \/ tries + 1 = ArmTries

(* Whatever a step returns, the routine goes on to the next.  arm and      *)
(* disarm also fail if the armed bit they read is not the one expected.    *)
DeployResult ==
  /\ pc["deploy"] = "result"
  /\ IF More("deploy") THEN NextTransfer("deploy") /\ UNCHANGED <<tries, counter>>
     ELSE \E bit \in BOOLEAN :
       LET good == ok["deploy"] /\ bit
           arming == Head(todo["deploy"]) = "arm" /\ ~Armed(good)
       IN  /\ Converse("deploy", IF arming THEN todo["deploy"]
                                           ELSE Tail(todo["deploy"]), "ended")
           /\ tries' = IF arming THEN tries + 1 ELSE tries
           /\ counter' = IF todo'["deploy"] = <<>> THEN 2 ELSE counter
  /\ UNCHANGED <<fixed, enabled, antenna, j, ok, reader, hib>>

-----------------------------------------------------------------------------
(* A reset by system_reset or the watchdog.  sat_data_buf is lost.         *)
Reset ==
  /\ resets < MaxResets /\ resets' = resets + 1
  /\ enabled' = FALSE /\ burnt' = {} /\ faults' = 0
  /\ pc' = Boot.pc /\ todo' = Boot.todo
  /\ step' = Boot.zero /\ i' = Boot.zero /\ j' = Boot.zero
  /\ ok' = [t \in Tasks |-> FALSE]
  /\ open' = FALSE /\ stamped' = FALSE
  /\ tries' = 0 /\ hib' = 0 /\ counter' = 0
  /\ UNCHANGED <<overlap, armed>>

I2c(t) == Enable(t) \/ Transfer(t) \/ Disable(t)
Reader == Wake \/ ReadResult \/ I2c("read")
Deployer == Hibernate \/ Deploy \/ DeployResult \/ I2c("deploy")

Next == Reader \/ Deployer \/ Reset

(* antenna_deployment has the highest priority, and read_antenna sleeps    *)
(* for most of its minute, so that it cannot keep the bus.                 *)
Spec == Init /\ [][Next]_vars
FairSpec == Spec /\ WF_vars(Reader) /\ SF_vars(Deployer)

-----------------------------------------------------------------------------
TypeOK ==
  /\ overlap \in BOOLEAN /\ resets \in 0 .. MaxResets
  /\ enabled \in BOOLEAN /\ armed \in BOOLEAN
  /\ faults \in 0 .. MaxFaults /\ burnt \subseteq BurnSet
  /\ pc \in [Tasks -> {"sleep", "hibernate", "enable", "transfer", "disable",
                       "result", "ended"}]
  /\ \A t \in Tasks : /\ Len(todo[t]) <= Len(Routine)
                      /\ todo[t] # <<>> => step[t] \in DOMAIN Transfers(Head(todo[t]))
  /\ i \in [Tasks -> 0 .. Attempts] /\ j \in [Tasks -> 0 .. Attempts]
  /\ ok \in [Tasks -> BOOLEAN] /\ open \in BOOLEAN /\ stamped \in BOOLEAN
  /\ tries \in 0 .. ArmTries - 1 /\ hib \in 0 .. HibernationMin /\ counter \in {0, 2}

(* When the deployment routine has ended the armed antenna has taken every *)
(* burn command and the antenna is disarmed (antenna_deploy), although     *)
(* each step is reported as failed, and also if an earlier boot was cut    *)
(* off in the routine: if fewer transfers failed than a loop has attempts  *)
(* and the tasks did not use the buffer at once.                           *)
Released ==
  ~overlap /\ faults < Attempts /\ pc["deploy"] = "ended" =>
    burnt = BurnSet /\ ~armed

(* With so few failures the antenna is cut off from the bus whenever no    *)
(* task is in a transfer (isis_antenna_i2c_write, isis_antenna_i2c_read),  *)
(* in any interleaving of the tasks.                                       *)
CutOffWhenIdle ==
  faults < Attempts /\ (\A t \in Tasks : pc[t] \notin {"enable", "transfer", "disable"})
    => ~enabled

(* Every cycle of read_antenna ends, and so does the deployment, whatever  *)
(* fails: no loop of the routine or of a transfer waits for a success.     *)
RoutinesEnd == []<>(pc["read"] = "sleep") /\ <>[](pc["deploy"] = "ended")
=============================================================================
