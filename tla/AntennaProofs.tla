---------------------------- MODULE AntennaProofs ----------------------------
(***************************************************************************)
(* Proofs about Antenna, for every number of attempts, tries, faults and   *)
(* resets.  tca4311a_disable never returns what the loops of the driver    *)
(* wait for, so that no call ever succeeds; the routine is carried all the *)
(* same by the attempts at each transfer.                                  *)
(***************************************************************************)
EXTENDS Antenna, SequenceTheorems, TLAPS

Conversations == BurnSet \cup {"arm", "disarm", "status", "temp"}

(* What is left of the routine from its k-th conversation on.              *)
Rest(k) == SubSeq(Routine, k, 8)

LEMMA RoutineSteps ==
  /\ Routine \in Seq(Conversations) /\ Len(Routine) = 8
  /\ Routine[1] = "arm" /\ Routine[7] = "status" /\ Routine[8] = "disarm"
  /\ Routine[2] = "ant_1" /\ Routine[3] = "ant_2" /\ Routine[4] = "ant_3"
  /\ Routine[5] = "ant_4" /\ Routine[6] = "sequential"
  BY DEF Routine, Conversations, BurnSet

(* Every conversation begins with the command it is named for.             *)
LEMMA FirstTransfer ==
  ASSUME NEW c \in Conversations
  PROVE  1 \in DOMAIN Transfers(c) /\ Transfers(c)[1] = c
<1>1. CASE c \in {"arm", "disarm"}
  BY <1>1 DEF Transfers
<1>2. CASE c = "status"
  BY <1>2 DEF Transfers, Status, BurnSet
<1>3. CASE c = "temp"
  BY <1>3 DEF Transfers, Temperature, BurnSet
<1>4. CASE c \in BurnSet
  <2>1. Transfers(c) = <<c>>
    BY <1>4 DEF Transfers, BurnSet
  <2> QED
    BY <2>1
<1> QED
  BY <1>1, <1>2, <1>3, <1>4 DEF Conversations

LEMMA Remainders ==
  ASSUME NEW k \in 1 .. 8
  PROVE  /\ Rest(k) # <<>> /\ Len(Rest(k)) = 9 - k
         /\ Head(Rest(k)) = Routine[k] /\ Routine[k] \in Conversations
         /\ Tail(Rest(k)) = Rest(k + 1)
<1>1. Routine \in Seq(Conversations) /\ Len(Routine) = 8
  BY RoutineSteps
<1>2. Head(Rest(k)) = Routine[k] /\ Tail(Rest(k)) = Rest(k + 1)
  BY <1>1, HeadTailOfSubSeq DEF Rest
<1>3. Len(Rest(k)) = 9 - k
  <2>1. \A n \in k .. 8 : Routine[n] \in Conversations
    BY <1>1
  <2>2. Len(SubSeq(Routine, k, 8)) = IF k <= 8 THEN 8 - k + 1 ELSE 0
    BY <2>1, SubSeqProperties
  <2> QED
    BY <2>2 DEF Rest
<1>4. Routine[k] \in Conversations
  <2>1. \A n \in 1 .. Len(Routine) : Routine[n] \in Conversations
    BY <1>1, ElementOfSeq
  <2> QED
    BY <1>1, <2>1
<1>5. Rest(k) # <<>>
  BY <1>3
<1> QED
  BY <1>2, <1>3, <1>4, <1>5

LEMMA Ends == Rest(9) = <<>> /\ Rest(1) = Routine
<1>1. Rest(9) = <<>>
  BY SubSeqEmpty DEF Rest
<1>2. Rest(1) = Routine
  BY RoutineSteps, SubSeqFull DEF Rest
<1> QED
  BY <1>1, <1>2

LEMMA RestIsList ==
  ASSUME NEW k \in 1 .. 9
  PROVE  Rest(k) \in Seq(Conversations) /\ (Rest(k) = <<>> <=> k = 9)
<1>1. \A n \in k .. 8 : Routine[n] \in Conversations
  <2> TAKE n \in k .. 8
  <2>1. n \in 1 .. 8
    OBVIOUS
  <2> QED
    BY <2>1, Remainders
<1>2. Rest(k) \in Seq(Conversations)
  BY <1>1, SubSeqProperties DEF Rest
<1>3. CASE k = 9
  BY <1>2, <1>3, Ends
<1>4. CASE k # 9
  <2>1. k \in 1 .. 8
    BY <1>4
  <2> QED
    BY <1>2, <1>4, <2>1, Remainders
<1> QED
  BY <1>3, <1>4

-----------------------------------------------------------------------------
Busy == {"enable", "transfer", "disable", "result"}

Shape == /\ todo \in [Tasks -> Seq(Conversations)] /\ step \in [Tasks -> {0, 1}]
         /\ DOMAIN pc = Tasks

(* No call of the driver succeeds.                                         *)
Never == ~open /\ \A t \in Tasks : ~ok[t]

(* The loops of a transfer.                                                *)
Loops == \A t \in Tasks : /\ i[t] <= faults
                          /\ pc[t] \in {"enable", "transfer"} => i[t] < Attempts
                          /\ pc[t] = "disable" => j[t] < Attempts

(* The conversation a task is in.                                          *)
Reading == \/ pc["read"] = "sleep" /\ todo["read"] = <<>>
           \/ pc["read"] \in Busy /\ todo["read"] = GetData /\ step["read"] = 1

Deploying ==
  \/ pc["deploy"] = "hibernate" /\ todo["deploy"] = <<>> /\ counter = 0
  \/ pc["deploy"] = "ended" /\ todo["deploy"] = <<>>
  \/ /\ pc["deploy"] \in Busy /\ step["deploy"] = 1 /\ counter = 0
     /\ \E k \in 1 .. 8 : todo["deploy"] = Rest(k)

(* Without overlap the transfers of one task find the buffer enabled.      *)
Apart == ~overlap =>
  /\ ~(pc["read"] \in {"transfer", "disable"} /\ pc["deploy"] \in {"transfer", "disable"})
  /\ \A t \in Tasks : pc[t] = "transfer" => enabled

(* The burn commands of the routine before its k-th conversation.          *)
Burnt(k) == \A n \in 1 .. k - 1 : Routine[n] \in BurnSet => Routine[n] \in burnt

(* A transfer that did not fail in all its attempts was heard.             *)
Progress == ~overlap /\ faults < Attempts =>
  /\ \A k \in 1 .. 8 : todo["deploy"] = Rest(k) =>
       /\ pc["deploy"] \in {"enable", "transfer"} => Burnt(k) /\ (k \in 2 .. 7 => armed)
       /\ pc["deploy"] \in {"disable", "result"} =>
            Burnt(k + 1) /\ (k < 8 => armed) /\ (k = 8 => ~armed)
  /\ pc["deploy"] = "ended" => BurnSet = burnt /\ ~armed

Known == Never /\ Loops /\ Reading /\ Deploying
IInv == TypeOK /\ Shape /\ Known /\ Apart /\ CutOffWhenIdle /\ Progress

LEMMA TwoTasks == Tasks = {"read", "deploy"}
  BY DEF Tasks

(* What a task that is in a conversation is about to transfer.             *)
LEMMA Presents ==
  ASSUME Shape, Reading, Deploying
  PROVE  /\ pc["read"] \in Busy => Present("read") = "status"
         /\ \A k \in 1 .. 8 : pc["deploy"] \in Busy /\ todo["deploy"] = Rest(k) =>
              Present("deploy") = Routine[k]
<1>1. ASSUME pc["read"] \in Busy PROVE Present("read") = "status"
  <2>1. todo["read"] = GetData /\ step["read"] = 1
    BY <1>1 DEF Reading, Busy
  <2>2. Head(GetData) = "status" /\ "status" \in Conversations
    BY DEF GetData, Conversations
  <2> QED
    BY <2>1, <2>2, FirstTransfer DEF Present
<1>2. ASSUME NEW k \in 1 .. 8, pc["deploy"] \in Busy, todo["deploy"] = Rest(k)
      PROVE  Present("deploy") = Routine[k]
  <2>1. step["deploy"] = 1
    BY <1>2 DEF Deploying, Busy
  <2> QED
    BY <1>2, <2>1, FirstTransfer, Remainders DEF Present
<1> QED
  BY <1>1, <1>2

(* A task that is in no conversation has none before it.                   *)
LEMMA Steps ==
  ASSUME Shape, Reading, Deploying
  PROVE  \A t \in Tasks : /\ Len(todo[t]) <= Len(Routine)
                          /\ todo[t] # <<>> => step[t] \in DOMAIN Transfers(Head(todo[t]))
<1>1. /\ Len(GetData) = 2 /\ Head(GetData) = "status" /\ "status" \in Conversations
      /\ Len(<<>>) = 0 /\ Len(Routine) = 8
  <2>1. Len(GetData) = 2 /\ Head(GetData) = "status"
    BY DEF GetData
  <2>2. Len(<<>>) = 0
    OBVIOUS
  <2> QED
    BY <2>1, <2>2, RoutineSteps DEF Conversations
<1>2. /\ Len(todo["read"]) <= 8
      /\ todo["read"] # <<>> => step["read"] \in DOMAIN Transfers(Head(todo["read"]))
  <2>1. 1 \in DOMAIN Transfers(Head(GetData))
    BY <1>1, FirstTransfer
  <2>2. CASE todo["read"] = <<>>
    BY <2>2, <1>1
  <2>3. CASE todo["read"] = GetData /\ step["read"] = 1
    BY <2>1, <2>3, <1>1
  <2> QED
    BY <2>2, <2>3 DEF Reading
<1>3. /\ Len(todo["deploy"]) <= 8
      /\ todo["deploy"] # <<>> => step["deploy"] \in DOMAIN Transfers(Head(todo["deploy"]))
  <2>1. CASE todo["deploy"] = <<>>
    BY <2>1, <1>1
  <2>2. CASE step["deploy"] = 1 /\ \E k \in 1 .. 8 : todo["deploy"] = Rest(k)
    <3>1. PICK k \in 1 .. 8 : todo["deploy"] = Rest(k)
      BY <2>2
    <3>2. Len(Rest(k)) = 9 - k /\ Head(Rest(k)) \in Conversations
      BY Remainders
    <3> QED
      BY <2>2, <3>1, <3>2, FirstTransfer
  <2> QED
    BY <2>1, <2>2 DEF Deploying
<1> QED
  BY <1>1, <1>2, <1>3, TwoTasks

-----------------------------------------------------------------------------
LEMMA InitHolds == Init => IInv
<1> SUFFICES ASSUME Init PROVE IInv
  OBVIOUS
<1> USE AntennaAssumption
<1>1. /\ pc = [t \in Tasks |-> IF t = "read" THEN "sleep" ELSE "hibernate"]
      /\ todo = [t \in Tasks |-> <<>>] /\ step = [t \in Tasks |-> 0]
      /\ i = [t \in Tasks |-> 0] /\ j = [t \in Tasks |-> 0]
  BY DEF Init, Boot
<1>2. Shape
  BY <1>1 DEF Shape
<1>3. Known
  BY <1>1, TwoTasks DEF Init, Known, Never, Loops, Reading, Deploying
<1>4. TypeOK
  <2>1. \A t \in Tasks : /\ Len(todo[t]) <= Len(Routine)
                         /\ todo[t] # <<>> => step[t] \in DOMAIN Transfers(Head(todo[t]))
    BY <1>2, <1>3, Steps DEF Known
  <2>2. /\ i \in [Tasks -> 0 .. Attempts] /\ j \in [Tasks -> 0 .. Attempts]
        /\ ok \in [Tasks -> BOOLEAN]
    BY <1>1 DEF Init
  <2>3. pc \in [Tasks -> {"sleep", "hibernate", "enable", "transfer", "disable",
                         "result", "ended"}]
    BY <1>1
  <2>4. /\ resets \in 0 .. MaxResets /\ faults \in 0 .. MaxFaults /\ tries \in 0 .. ArmTries - 1
        /\ hib \in 0 .. HibernationMin /\ counter \in {0, 2} /\ burnt \subseteq BurnSet
    BY DEF Init
  <2> QED
    BY <2>1, <2>2, <2>3, <2>4 DEF Init, TypeOK
<1>5. Apart /\ CutOffWhenIdle
  BY <1>1, TwoTasks DEF Init, Apart, CutOffWhenIdle
<1>6. Progress
  <2>1. \A k \in 1 .. 8 : todo["deploy"] # Rest(k)
    BY <1>1, TwoTasks, Remainders
  <2> QED
    BY <1>1, <2>1, TwoTasks DEF Progress
<1> QED
  BY <1>2, <1>3, <1>4, <1>5, <1>6 DEF IInv

(* The conjuncts of TypeOK but the one that Steps derives.                 *)
Typed ==
  /\ overlap \in BOOLEAN /\ resets \in 0 .. MaxResets
  /\ enabled \in BOOLEAN /\ armed \in BOOLEAN
  /\ faults \in 0 .. MaxFaults /\ burnt \subseteq BurnSet
  /\ pc \in [Tasks -> {"sleep", "hibernate", "enable", "transfer", "disable",
                       "result", "ended"}]
  /\ i \in [Tasks -> 0 .. Attempts] /\ j \in [Tasks -> 0 .. Attempts]
  /\ ok \in [Tasks -> BOOLEAN] /\ open \in BOOLEAN /\ stamped \in BOOLEAN
  /\ tries \in 0 .. ArmTries - 1 /\ hib \in 0 .. HibernationMin /\ counter \in {0, 2}

LEMMA TypedIsEnough == Typed /\ Shape /\ Known <=> TypeOK /\ Shape /\ Known
<1>1. ASSUME Shape, Known
      PROVE \A t \in Tasks : /\ Len(todo[t]) <= Len(Routine)
                             /\ todo[t] # <<>> => step[t] \in DOMAIN Transfers(Head(todo[t]))
  BY <1>1, Steps DEF Known
<1> QED
  BY <1>1 DEF Typed, TypeOK

-----------------------------------------------------------------------------
(* The steps of a transfer.                                                *)
LEMMA EnableHolds ==
  ASSUME IInv, NEW t \in Tasks, Enable(t)
  PROVE  Typed' /\ Shape' /\ Known' /\ Apart' /\ CutOffWhenIdle' /\ Progress'
<1>1. /\ pc[t] = "enable" /\ pc' = [pc EXCEPT ![t] = "transfer"] /\ enabled' = TRUE
      /\ UNCHANGED <<overlap, resets, armed, burnt, faults, todo, step, i, j, ok, open,
                     stamped, tries, hib, counter>>
  BY DEF Enable, Goto, fixed, antenna, calls, reader, deployer
<1>2. Typed /\ Shape /\ Known /\ Apart /\ Progress
  BY TypedIsEnough DEF IInv
<1>3. pc'[t] = "transfer" /\ \A u \in Tasks \ {t} : pc'[u] = pc[u]
  BY <1>1, <1>2 DEF Typed
<1>4. Typed'
  BY <1>1, <1>2 DEF Typed
<1>5. Shape'
  BY <1>1, <1>2 DEF Shape
<1>6. Never'
  BY <1>1, <1>2 DEF Known, Never
<1>7. Loops'
  BY <1>1, <1>2, <1>3 DEF Known, Loops
<1>8. Reading'
  BY <1>1, <1>2, <1>3, TwoTasks DEF Known, Reading, Busy
<1>9. Deploying'
  BY <1>1, <1>2, <1>3, TwoTasks DEF Known, Deploying, Busy
<1>10. Apart'
  BY <1>1, <1>2, <1>3, TwoTasks DEF Apart, Enable, Clear
<1>11. CutOffWhenIdle'
  BY <1>3 DEF CutOffWhenIdle
<1>12. Progress'
  BY <1>1, <1>2, <1>3, TwoTasks DEF Progress, Burnt
<1> QED
  BY <1>4, <1>5, <1>6, <1>7, <1>8, <1>9, <1>10, <1>11, <1>12 DEF Known

LEMMA TransferHolds ==
  ASSUME IInv, NEW t \in Tasks, Transfer(t)
  PROVE  Typed' /\ Shape' /\ Known' /\ Apart' /\ CutOffWhenIdle' /\ Progress'
<1> USE AntennaAssumption
<1>1. /\ pc[t] = "transfer" /\ j' = [j EXCEPT ![t] = 0]
      /\ UNCHANGED <<overlap, resets, enabled, todo, step, open, stamped, tries, hib, counter>>
  BY DEF Transfer, fixed, reader, deployer
<1>2. Typed /\ Shape /\ Known /\ Apart /\ CutOffWhenIdle /\ Progress
  BY TypedIsEnough DEF IInv
<1>3. PICK heard \in BOOLEAN, fine \in BOOLEAN :
       /\ heard => enabled
       /\ enabled /\ fine => heard
       /\ ~fine => faults < MaxFaults
       /\ faults' = IF fine THEN faults ELSE faults + 1
       /\ IF heard THEN Hears(Present(t)) ELSE UNCHANGED <<armed, burnt>>
       /\ IF fine THEN Goto(t, "disable") /\ UNCHANGED <<i, ok>>
                  ELSE /\ i' = [i EXCEPT ![t] = @ + 1]
                       /\ ok' = [ok EXCEPT ![t] = FALSE]
                       /\ Goto(t, IF i'[t] < Attempts THEN "enable" ELSE "result")
  BY DEF Transfer
<1>4. /\ i[t] \in Nat /\ i[t] < Attempts /\ i[t] <= faults /\ faults \in Nat
      /\ i \in [Tasks -> 0 .. Attempts] /\ Attempts \in Nat /\ MaxFaults \in Nat
  BY <1>1, <1>2 DEF Typed, Known, Loops
<1>5. /\ faults' \in 0 .. MaxFaults /\ faults <= faults'
      /\ i' \in [Tasks -> 0 .. Attempts] /\ i'[t] <= faults'
      /\ \A u \in Tasks \ {t} : i'[u] = i[u]
      /\ ok' \in [Tasks -> BOOLEAN] /\ \A u \in Tasks : ok'[u] => ok[u]
  <2>1. faults' \in 0 .. MaxFaults /\ faults <= faults'
    BY <1>2, <1>3, <1>4 DEF Typed
  <2>2. CASE fine
    BY <1>2, <1>3, <1>4, <2>1, <2>2 DEF Typed
  <2>3. CASE ~fine
    <3>1. i' \in [Tasks -> 0 .. Attempts] /\ i'[t] = i[t] + 1 /\ \A u \in Tasks \ {t} : i'[u] = i[u]
      BY <1>3, <1>4, <2>3
    <3>2. ok' \in [Tasks -> BOOLEAN] /\ \A u \in Tasks : ok'[u] => ok[u]
      BY <1>2, <1>3, <2>3 DEF Typed
    <3> QED
      BY <1>3, <1>4, <2>1, <2>3, <3>1, <3>2
  <2> QED
    BY <2>2, <2>3
<1>6. /\ pc'[t] \in {"disable", "enable", "result"} /\ \A u \in Tasks \ {t} : pc'[u] = pc[u]
      /\ pc' = [pc EXCEPT ![t] = pc'[t]]
      /\ pc'[t] = "disable" <=> fine
      /\ pc'[t] = "enable" => i'[t] < Attempts
      /\ pc'[t] = "result" => ~(faults' < Attempts)
  <2>1. DOMAIN pc = Tasks
    BY <1>2 DEF Shape
  <2>2. CASE fine
    BY <1>3, <2>1, <2>2 DEF Goto
  <2>3. CASE ~fine
    BY <1>3, <1>4, <1>5, <2>1, <2>3 DEF Goto
  <2> QED
    BY <2>2, <2>3
<1>7. /\ armed' \in BOOLEAN /\ burnt' \subseteq BurnSet /\ burnt \subseteq burnt'
  BY <1>2, <1>3 DEF Hears, Typed
<1>8. Typed'
  <2>1. j' \in [Tasks -> 0 .. Attempts]
    BY <1>1, <1>2, <1>4 DEF Typed
  <2>2. pc' \in [Tasks -> {"sleep", "hibernate", "enable", "transfer", "disable",
                          "result", "ended"}]
    BY <1>2, <1>6 DEF Typed
  <2> QED
    BY <1>1, <1>2, <1>5, <1>7, <2>1, <2>2 DEF Typed
<1>9. Shape'
  BY <1>1, <1>2, <1>6 DEF Shape
<1>10. Never'
  BY <1>1, <1>2, <1>5 DEF Known, Never
<1>11. Loops'
  <2>1. j'[t] = 0 /\ \A u \in Tasks \ {t} : j'[u] = j[u]
    BY <1>1, <1>2 DEF Typed
  <2>2. \A u \in Tasks : i[u] \in Nat
    BY <1>4
  <2> QED
    BY <1>2, <1>4, <1>5, <1>6, <2>1, <2>2 DEF Known, Loops
<1>12. Reading'
  BY <1>1, <1>2, <1>6, TwoTasks DEF Known, Reading, Busy
<1>13. Deploying'
  BY <1>1, <1>2, <1>6, TwoTasks DEF Known, Deploying, Busy
<1>14. Apart'
  BY <1>1, <1>2, <1>6, TwoTasks DEF Apart
<1>15. CutOffWhenIdle'
  BY <1>6 DEF CutOffWhenIdle
<1>16. Progress'
  <2> SUFFICES ASSUME ~overlap, faults' < Attempts PROVE Progress'
    BY <1>1 DEF Progress
  <2>1. faults < Attempts /\ enabled
    BY <1>1, <1>2, <1>4, <1>5 DEF Apart
  <2>2. pc'[t] # "result" /\ (fine => heard)
    BY <1>3, <1>6, <2>1
  <2>3. CASE t = "read"
    <3>1. Present("read") = "status"
      BY <1>1, <1>2, <2>3, Presents DEF Known, Busy
    <3>2. UNCHANGED <<armed, burnt>>
      BY <1>3, <2>3, <3>1 DEF Hears, BurnSet
    <3>3. pc'["deploy"] = pc["deploy"]
      BY <1>6, <2>3, TwoTasks
    <3> QED
      BY <1>1, <1>2, <2>1, <3>2, <3>3 DEF Progress, Burnt
  <2>4. CASE t = "deploy"
    <3>1. ASSUME NEW k \in 1 .. 8, todo'["deploy"] = Rest(k)
          PROVE  /\ pc'["deploy"] \in {"enable", "transfer"} => Burnt(k)' /\ (k \in 2 .. 7 => armed')
                 /\ pc'["deploy"] \in {"disable", "result"} =>
                      Burnt(k + 1)' /\ (k < 8 => armed') /\ (k = 8 => ~armed')
      <4>1. todo["deploy"] = Rest(k) /\ Burnt(k) /\ (k \in 2 .. 7 => armed)
        BY <1>1, <1>2, <2>1, <2>4, <3>1 DEF Progress
      <4>2. Present("deploy") = Routine[k]
        BY <1>1, <1>2, <2>4, <4>1, Presents DEF Known, Busy
      <4>3. heard => /\ k = 1 => armed'
                     /\ k = 8 => ~armed'
                     /\ k \in 2 .. 7 => armed' = armed
                     /\ Routine[k] \in BurnSet /\ armed => Routine[k] \in burnt'
        <5> SUFFICES ASSUME heard PROVE
              /\ k = 1 => armed'
              /\ k = 8 => ~armed'
              /\ k \in 2 .. 7 => armed' = armed
              /\ Routine[k] \in BurnSet /\ armed => Routine[k] \in burnt'
          OBVIOUS
        <5>1. Hears(Routine[k])
          BY <1>3, <2>4, <4>2
        <5>2. k \in 2 .. 7 => Routine[k] \notin {"arm", "disarm"}
          BY RoutineSteps
        <5>3. /\ k = 1 => Routine[k] = "arm"
              /\ k = 8 => Routine[k] = "disarm"
          BY RoutineSteps
        <5> QED
          BY <5>1, <5>2, <5>3 DEF Hears
      <4>4. Burnt(k)'
        BY <1>7, <4>1 DEF Burnt
      <4>5. CASE pc'["deploy"] = "enable"
        <5>1. k \in 2 .. 7 => armed'
          BY <1>3, <4>1, <4>3
        <5> QED
          BY <4>4, <4>5, <5>1
      <4>6. CASE pc'["deploy"] = "disable"
        <5>1. heard
          BY <1>6, <2>2, <2>4, <4>6
        <5>2. Burnt(k + 1)'
          <6>1. Routine[k] \in BurnSet => k \in 2 .. 7
            BY RoutineSteps DEF BurnSet
          <6>2. Routine[k] \in BurnSet => Routine[k] \in burnt'
            BY <4>1, <4>3, <5>1, <6>1
          <6> QED
            BY <4>4, <6>2 DEF Burnt
        <5> QED
          BY <4>1, <4>3, <4>6, <5>1, <5>2
      <4> QED
        BY <1>6, <2>2, <2>4, <4>5, <4>6
    <3> QED
      BY <1>6, <2>4, <3>1 DEF Progress
  <2> QED
    BY <2>3, <2>4, TwoTasks
<1> QED
  BY <1>8, <1>9, <1>10, <1>11, <1>12, <1>13, <1>14, <1>15, <1>16 DEF Known

LEMMA DisableHolds ==
  ASSUME IInv, NEW t \in Tasks, Disable(t)
  PROVE  Typed' /\ Shape' /\ Known' /\ Apart' /\ CutOffWhenIdle' /\ Progress'
<1> USE AntennaAssumption
<1>1. /\ pc[t] = "disable" /\ enabled' = FALSE
      /\ j' = [j EXCEPT ![t] = @ + 1]
      /\ ok' = [ok EXCEPT ![t] = FALSE]
      /\ Goto(t, IF ok'[t] \/ j'[t] = Attempts THEN "result" ELSE "disable")
      /\ UNCHANGED <<overlap, resets, armed, burnt, faults, todo, step, i, open,
                     stamped, tries, hib, counter>>
  BY DEF Disable, DisableStatus, fixed, antenna, calls, reader, deployer
<1>2. Typed /\ Shape /\ Known /\ Apart /\ Progress
  BY TypedIsEnough DEF IInv
<1>3. /\ j[t] \in Nat /\ j[t] < Attempts /\ Attempts \in Nat
      /\ j' \in [Tasks -> 0 .. Attempts] /\ j'[t] = j[t] + 1
      /\ \A u \in Tasks \ {t} : j'[u] = j[u]
  BY <1>1, <1>2 DEF Typed, Known, Loops
<1>4. ok' \in [Tasks -> BOOLEAN] /\ \A u \in Tasks : ok'[u] => ok[u]
  BY <1>1, <1>2 DEF Typed
<1>5. /\ pc' = [pc EXCEPT ![t] = pc'[t]]
      /\ pc'[t] \in {"disable", "result"} /\ \A u \in Tasks \ {t} : pc'[u] = pc[u]
      /\ pc'[t] = "disable" => j'[t] # Attempts
  BY <1>1, <1>2 DEF Shape, Goto
<1>6. Typed'
  <2>1. pc' \in [Tasks -> {"sleep", "hibernate", "enable", "transfer", "disable",
                          "result", "ended"}]
    BY <1>2, <1>5 DEF Typed
  <2> QED
    BY <1>1, <1>2, <1>3, <1>4, <2>1 DEF Typed
<1>7. Shape'
  BY <1>1, <1>2, <1>5 DEF Shape
<1>8. Never'
  BY <1>1, <1>2, <1>4 DEF Known, Never
<1>9. Loops'
  BY <1>1, <1>2, <1>3, <1>5 DEF Known, Loops
<1>10. Reading'
  BY <1>1, <1>2, <1>5, TwoTasks DEF Known, Reading, Busy
<1>11. Deploying'
  BY <1>1, <1>2, <1>5, TwoTasks DEF Known, Deploying, Busy
<1>12. Apart'
  BY <1>1, <1>2, <1>5, TwoTasks DEF Apart
<1>13. CutOffWhenIdle'
  BY <1>1 DEF CutOffWhenIdle
<1>14. Progress'
  BY <1>1, <1>2, <1>5, TwoTasks DEF Progress, Burnt
<1> QED
  BY <1>6, <1>7, <1>8, <1>9, <1>10, <1>11, <1>12, <1>13, <1>14 DEF Known

(* A task goes on to the conversations of a list.                          *)
LEMMA Converses ==
  ASSUME Typed, Shape, NEW t \in Tasks, NEW list \in Seq(Conversations), NEW end,
         Converse(t, list, end)
  PROVE  /\ todo' \in [Tasks -> Seq(Conversations)] /\ todo'[t] = list
         /\ step' \in [Tasks -> {0, 1}] /\ step'[t] = 1
         /\ i' = [i EXCEPT ![t] = 0] /\ i'[t] = 0
         /\ DOMAIN pc' = Tasks /\ pc' = [pc EXCEPT ![t] = pc'[t]]
         /\ pc'[t] = IF list = <<>> THEN end ELSE "enable"
         /\ \A u \in Tasks \ {t} : /\ todo'[u] = todo[u] /\ step'[u] = step[u]
                                   /\ i'[u] = i[u] /\ pc'[u] = pc[u]
<1>1. DOMAIN pc = Tasks
  BY DEF Shape
<1>2. /\ todo' = [todo EXCEPT ![t] = list] /\ step' = [step EXCEPT ![t] = 1]
      /\ i' = [i EXCEPT ![t] = 0]
      /\ pc' = [pc EXCEPT ![t] = IF list = <<>> THEN end ELSE "enable"]
  BY DEF Converse, Goto
<1>3. todo' \in [Tasks -> Seq(Conversations)] /\ step' \in [Tasks -> {0, 1}]
  BY <1>2 DEF Shape
<1>4. i'[t] = 0 /\ \A u \in Tasks \ {t} : i'[u] = i[u]
  BY <1>2 DEF Typed
<1>5. DOMAIN pc' = Tasks /\ pc' = [pc EXCEPT ![t] = pc'[t]]
  BY <1>1, <1>2
<1>6. /\ todo'[t] = list /\ step'[t] = 1
      /\ \A u \in Tasks \ {t} : todo'[u] = todo[u] /\ step'[u] = step[u]
  BY <1>2 DEF Shape
<1>7. /\ pc'[t] = IF list = <<>> THEN end ELSE "enable"
      /\ \A u \in Tasks \ {t} : pc'[u] = pc[u]
  BY <1>1, <1>2
<1> QED
  BY <1>2, <1>3, <1>4, <1>5, <1>6, <1>7

-----------------------------------------------------------------------------
(* The steps of read_antenna between its conversations.                    *)
LEMMA ReaderHolds ==
  ASSUME IInv, Wake \/ ReadResult
  PROVE  Typed' /\ Shape' /\ Known' /\ Apart' /\ CutOffWhenIdle' /\ Progress'
<1> USE AntennaAssumption
<1>1. Typed /\ Shape /\ Known /\ Apart /\ CutOffWhenIdle /\ Progress
  BY TypedIsEnough DEF IInv
<1>2. open = FALSE /\ ok["read"] = FALSE /\ ~More("read")
  BY <1>1, TwoTasks DEF Typed, Known, Never, More
<1>3. Len(GetData) = 2 /\ GetData \in Seq(Conversations) /\ GetData # <<>>
  BY DEF GetData, Conversations
<1>4. <<>> \in Seq(Conversations)
  OBVIOUS
<1>5. PICK list \in {GetData, <<>>} :
        /\ Converse("read", list, "sleep")
        /\ list = GetData => pc["read"] = "sleep" /\ Clear("read") /\ enabled' = FALSE
        /\ list = <<>> => pc["read"] = "result" /\ enabled' = enabled
  <2>1. CASE Wake
    <3>1. Converse("read", GetData, "sleep")
      BY <1>2, <2>1 DEF Wake, DisableStatus
    <3>2. pc["read"] = "sleep" /\ Clear("read") /\ enabled' = FALSE
      BY <1>2, <2>1 DEF Wake
    <3> QED
      BY <1>3, <3>1, <3>2
  <2>2. CASE ReadResult
    <3>1. todo["read"] = GetData
      BY <1>1, <2>2 DEF ReadResult, Known, Reading
    <3>2. Converse("read", <<>>, "sleep")
      <4>1. ~(Len(todo["read"]) > Len(GetData))
        <5>1. Len(todo["read"]) = 2 /\ Len(GetData) = 2
          BY <1>3, <3>1, Zenon
        <5> QED
          BY <5>1
      <4>2. Converse("read", IF ok["read"] THEN Tail(todo["read"]) ELSE <<>>, "sleep")
        BY <1>2, <2>2, <4>1 DEF ReadResult
      <4>3. (IF ok["read"] THEN Tail(todo["read"]) ELSE <<>>) = <<>>
        BY <1>2
      <4> QED
        BY <4>2, <4>3
    <3>3. pc["read"] = "result" /\ enabled' = enabled
      BY <2>2 DEF ReadResult
    <3> QED
      BY <1>3, <3>2, <3>3
  <2> QED
    BY <2>1, <2>2
<1>6. open' = FALSE /\ stamped' \in BOOLEAN
  <2>1. CASE Wake
    BY <1>2, <2>1 DEF Wake
  <2>2. CASE ReadResult
    <3>1. todo["read"] = GetData
      BY <1>1, <2>2 DEF ReadResult, Known, Reading
    <3>2. UNCHANGED open /\ stamped' = (ok["read"] /\ todo'["read"] = <<>>)
      <4>1. ~(Len(todo["read"]) > Len(GetData))
        <5>1. Len(todo["read"]) = 2 /\ Len(GetData) = 2
          BY <1>3, <3>1, Zenon
        <5> QED
          BY <5>1
      <4> QED
        BY <1>2, <2>2, <4>1 DEF ReadResult
    <3> QED
      BY <1>2, <3>2
  <2> QED
    BY <2>1, <2>2
<1>7. UNCHANGED <<overlap, resets, armed, burnt, faults, j, ok, tries, hib, counter>>
  BY DEF Wake, ReadResult, fixed, antenna, deployer
<1>8. /\ todo' \in [Tasks -> Seq(Conversations)] /\ todo'["read"] = list
      /\ step' \in [Tasks -> {0, 1}] /\ step'["read"] = 1
      /\ i' = [i EXCEPT !["read"] = 0] /\ i'["read"] = 0
      /\ DOMAIN pc' = Tasks /\ pc' = [pc EXCEPT !["read"] = pc'["read"]]
      /\ pc'["read"] = IF list = <<>> THEN "sleep" ELSE "enable"
      /\ /\ todo'["deploy"] = todo["deploy"] /\ step'["deploy"] = step["deploy"]
         /\ i'["deploy"] = i["deploy"] /\ pc'["deploy"] = pc["deploy"]
  <2>1. list \in Seq(Conversations) /\ "read" \in Tasks /\ "deploy" \in Tasks \ {"read"}
    BY <1>3, <1>4, TwoTasks
  <2> HIDE DEF Converse
  <2> QED
    BY <1>1, <1>5, <2>1, Converses
<1>9. Typed'
  <2>1. i' \in [Tasks -> 0 .. Attempts]
    BY <1>1, <1>8, TwoTasks DEF Typed
  <2>2. pc' \in [Tasks -> {"sleep", "hibernate", "enable", "transfer", "disable",
                          "result", "ended"}]
    BY <1>1, <1>8 DEF Typed
  <2>3. enabled' \in BOOLEAN
    BY <1>1, <1>5 DEF Typed
  <2> QED
    BY <1>1, <1>6, <1>7, <2>1, <2>2, <2>3 DEF Typed
<1>10. Shape'
  BY <1>8 DEF Shape
<1>11. Never'
  BY <1>1, <1>6, <1>7 DEF Known, Never
<1>12. Loops'
  BY <1>1, <1>7, <1>8, TwoTasks DEF Known, Loops, Typed
<1>13. Reading'
  BY <1>3, <1>5, <1>8 DEF Reading, Busy
<1>14. Deploying'
  BY <1>1, <1>7, <1>8 DEF Known, Deploying
<1>15. Apart'
  <2>1. CASE list = GetData
    BY <1>1, <1>3, <1>5, <1>7, <1>8, <2>1, TwoTasks DEF Apart, Clear
  <2>2. CASE list = <<>>
    BY <1>1, <1>3, <1>5, <1>7, <1>8, <2>2, TwoTasks DEF Apart
  <2> QED
    BY <2>1, <2>2
<1>16. CutOffWhenIdle'
  BY <1>1, <1>5, <1>7, <1>8, TwoTasks DEF CutOffWhenIdle
<1>17. Progress'
  BY <1>1, <1>7, <1>8 DEF Progress, Burnt
<1> QED
  BY <1>9, <1>10, <1>11, <1>12, <1>13, <1>14, <1>15, <1>16, <1>17 DEF Known

-----------------------------------------------------------------------------
(* The steps of antenna_deployment between its conversations.              *)
LEMMA Unique ==
  ASSUME NEW k \in 1 .. 8, NEW l \in 1 .. 8, Rest(k) = Rest(l)
  PROVE  k = l
<1>1. 9 - k = 9 - l
  BY Remainders
<1> QED
  BY <1>1

LEMMA HibernateHolds ==
  ASSUME IInv, Hibernate
  PROVE  Typed' /\ Shape' /\ Known' /\ Apart' /\ CutOffWhenIdle' /\ Progress'
<1> USE AntennaAssumption
<1>1. Typed /\ Shape /\ Known /\ Apart /\ CutOffWhenIdle /\ Progress
  BY TypedIsEnough DEF IInv
<1>2. /\ UNCHANGED <<overlap, resets, enabled, armed, burnt, faults, pc, todo, step, i, j, ok,
                     open, stamped, tries, counter>>
      /\ hib < HibernationMin /\ hib' = hib + 1
  BY DEF Hibernate, fixed, antenna, calls, reader
<1>3. hib' \in 0 .. HibernationMin
  BY <1>1, <1>2 DEF Typed
<1>4. Typed' /\ Shape'
  BY <1>1, <1>2, <1>3 DEF Typed, Shape
<1>5. Known'
  BY <1>1, <1>2 DEF Known, Never, Loops, Reading, Deploying
<1>6. Apart' /\ CutOffWhenIdle'
  BY <1>1, <1>2 DEF Apart, CutOffWhenIdle
<1>7. Progress'
  BY <1>1, <1>2 DEF Progress, Burnt
<1> QED
  BY <1>4, <1>5, <1>6, <1>7

(* The task deploy has begun a list and touched nothing else.              *)
LEMMA DeployerHolds ==
  ASSUME IInv, NEW k \in 1 .. 9, Converse("deploy", Rest(k), "ended"),
         pc["deploy"] \notin {"transfer", "disable", "enable"},
         UNCHANGED <<overlap, resets, enabled, armed, burnt, faults, j, ok, open, stamped, hib>>,
         tries' \in 0 .. ArmTries - 1, counter' = IF k = 9 THEN 2 ELSE 0,
         ~overlap /\ faults < Attempts =>
           /\ Burnt(k) /\ (k \in 2 .. 7 => armed)
           /\ k = 9 => BurnSet = burnt /\ ~armed
  PROVE  Typed' /\ Shape' /\ Known' /\ Apart' /\ CutOffWhenIdle' /\ Progress'
<1> USE AntennaAssumption
<1>1. Typed /\ Shape /\ Known /\ Apart /\ CutOffWhenIdle /\ Progress
  BY TypedIsEnough DEF IInv
<1>2. Rest(k) \in Seq(Conversations) /\ (Rest(k) = <<>> <=> k = 9)
  BY RestIsList
<1>3. "deploy" \in Tasks /\ "read" \in Tasks \ {"deploy"}
  BY TwoTasks
<1>4. /\ todo' \in [Tasks -> Seq(Conversations)] /\ todo'["deploy"] = Rest(k)
      /\ step' \in [Tasks -> {0, 1}] /\ step'["deploy"] = 1
      /\ i' = [i EXCEPT !["deploy"] = 0] /\ i'["deploy"] = 0
      /\ DOMAIN pc' = Tasks /\ pc' = [pc EXCEPT !["deploy"] = pc'["deploy"]]
      /\ pc'["deploy"] = IF Rest(k) = <<>> THEN "ended" ELSE "enable"
      /\ /\ todo'["read"] = todo["read"] /\ step'["read"] = step["read"]
         /\ i'["read"] = i["read"] /\ pc'["read"] = pc["read"]
  BY <1>1, <1>2, <1>3, Converses
<1>5. Typed'
  <2>1. i' \in [Tasks -> 0 .. Attempts]
    BY <1>1, <1>3, <1>4 DEF Typed
  <2>2. pc' \in [Tasks -> {"sleep", "hibernate", "enable", "transfer", "disable",
                          "result", "ended"}]
    BY <1>1, <1>4 DEF Typed
  <2>3. counter' \in {0, 2}
    OBVIOUS
  <2> QED
    BY <1>1, <2>1, <2>2, <2>3 DEF Typed
<1>6. Shape'
  BY <1>4 DEF Shape
<1>7. Never' /\ Reading'
  BY <1>1, <1>4 DEF Known, Never, Reading
<1>8. Loops'
  BY <1>1, <1>4, TwoTasks DEF Known, Loops, Typed
<1>9. Deploying'
  BY <1>2, <1>4 DEF Deploying, Busy
<1>10. Apart'
  BY <1>1, <1>4, TwoTasks DEF Apart
<1>11. CutOffWhenIdle'
  BY <1>1, <1>4, TwoTasks DEF CutOffWhenIdle
<1>12. Progress'
  <2> SUFFICES ASSUME ~overlap, faults < Attempts PROVE Progress'
    BY DEF Progress
  <2>1. CASE k = 9
    <3>1. pc'["deploy"] = "ended"
      BY <1>2, <1>4, <2>1
    <3>2. BurnSet = burnt' /\ ~armed'
      BY <2>1
    <3> QED
      BY <3>1, <3>2 DEF Progress
  <2>2. CASE k \in 1 .. 8
    <3>1. pc'["deploy"] = "enable"
      BY <1>2, <1>4, <2>2
    <3>2. ASSUME NEW l \in 1 .. 8, todo'["deploy"] = Rest(l)
          PROVE  Burnt(l)' /\ (l \in 2 .. 7 => armed')
      <4>1. l = k
        BY <1>4, <2>2, <3>2, Unique
      <4> QED
        BY <4>1 DEF Burnt
    <3> QED
      BY <3>1, <3>2 DEF Progress
  <2> QED
    BY <2>1, <2>2
<1> QED
  BY <1>5, <1>6, <1>7, <1>8, <1>9, <1>10, <1>11, <1>12 DEF Known

LEMMA DeployHolds ==
  ASSUME IInv, Deploy
  PROVE  Typed' /\ Shape' /\ Known' /\ Apart' /\ CutOffWhenIdle' /\ Progress'
<1> USE AntennaAssumption
<1>1. pc["deploy"] = "hibernate" /\ counter = 0
  BY DEF Deploy, IInv, Known, Deploying, Busy
<1>2. Converse("deploy", Rest(1), "ended")
  BY <1>1, Ends DEF Deploy
<1>3. UNCHANGED <<overlap, resets, enabled, armed, burnt, faults, j, ok, open, stamped, hib>>
  BY DEF Deploy, fixed, antenna, reader
<1>4. tries' \in 0 .. ArmTries - 1 /\ counter' = 0
  BY <1>1 DEF Deploy
<1>5. Burnt(1)
  BY DEF Burnt
<1> QED
  BY <1>1, <1>2, <1>3, <1>4, <1>5, DeployerHolds

LEMMA DeployResultHolds ==
  ASSUME IInv, DeployResult
  PROVE  Typed' /\ Shape' /\ Known' /\ Apart' /\ CutOffWhenIdle' /\ Progress'
<1> USE AntennaAssumption
<1>1. Typed /\ Shape /\ Known /\ Apart /\ CutOffWhenIdle /\ Progress
  BY TypedIsEnough DEF IInv
<1>2. ~ok["deploy"] /\ ~More("deploy")
  BY <1>1, TwoTasks DEF Known, Never, More
<1>3. pc["deploy"] = "result" /\ counter = 0
  BY <1>1 DEF DeployResult, Known, Deploying
<1>4. PICK k \in 1 .. 8 : todo["deploy"] = Rest(k)
  BY <1>1, <1>3 DEF Known, Deploying
<1>5. ~overlap /\ faults < Attempts =>
        Burnt(k + 1) /\ (k < 8 => armed) /\ (k = 8 => ~armed)
  BY <1>1, <1>3, <1>4 DEF Progress
<1>6. UNCHANGED <<overlap, resets, enabled, armed, burnt, faults, j, ok, open, stamped, hib>>
  BY DEF DeployResult, fixed, antenna, reader
<1> DEFINE arming == Head(todo["deploy"]) = "arm" /\ tries + 1 # ArmTries
<1>7. /\ Converse("deploy", IF arming THEN todo["deploy"] ELSE Tail(todo["deploy"]), "ended")
      /\ tries' = IF arming THEN tries + 1 ELSE tries
      /\ counter' = IF todo'["deploy"] = <<>> THEN 2 ELSE counter
  BY <1>2 DEF DeployResult, Armed
<1> DEFINE l == IF arming THEN k ELSE k + 1
<1>8. l \in 1 .. 9 /\ (l = 9 => k = 8)
  OBVIOUS
<1>9. Converse("deploy", Rest(l), "ended")
  BY <1>4, <1>7, Remainders
<1>10. arming => k = 1
  <2>1. Head(todo["deploy"]) = Routine[k]
    BY <1>4, Remainders
  <2>2. k \in 2 .. 8 => Routine[k] # "arm"
    BY RoutineSteps
  <2> QED
    BY <2>1, <2>2
<1>11. tries' \in 0 .. ArmTries - 1
  BY <1>1, <1>7 DEF Typed
<1>12. Rest(l) = <<>> <=> l = 9
  <2> HIDE DEF l
  <2> QED
    BY <1>8, RestIsList
<1>13. counter' = IF l = 9 THEN 2 ELSE 0
  <2>1. todo'["deploy"] = Rest(l)
    BY <1>1, <1>9, TwoTasks DEF Converse, Shape
  <2> QED
    BY <1>3, <1>7, <1>12, <2>1
<1>14. ~overlap /\ faults < Attempts =>
         /\ Burnt(l) /\ (l \in 2 .. 7 => armed)
         /\ l = 9 => BurnSet = burnt /\ ~armed
  <2> SUFFICES ASSUME ~overlap, faults < Attempts
      PROVE /\ Burnt(l) /\ (l \in 2 .. 7 => armed)
            /\ l = 9 => BurnSet = burnt /\ ~armed
    OBVIOUS
  <2>1. Burnt(k + 1) /\ (k < 8 => armed) /\ (k = 8 => ~armed)
    BY <1>5
  <2>2. Burnt(l)
    BY <1>10, <2>1 DEF Burnt
  <2>3. l \in 2 .. 7 => armed
    BY <1>10, <2>1
  <2>4. l = 9 => BurnSet \subseteq burnt
    BY <2>2, RoutineSteps DEF Burnt, BurnSet
  <2> QED
    BY <1>1, <1>8, <2>1, <2>2, <2>3, <2>4 DEF Typed
<1> HIDE DEF l, arming
<1>15. pc["deploy"] \notin {"transfer", "disable", "enable"}
  BY <1>3
<1> QED
  BY <1>6, <1>8, <1>9, <1>11, <1>13, <1>14, <1>15, DeployerHolds

-----------------------------------------------------------------------------
LEMMA ResetHolds ==
  ASSUME IInv, Reset
  PROVE  Typed' /\ Shape' /\ Known' /\ Apart' /\ CutOffWhenIdle' /\ Progress'
<1> USE AntennaAssumption
<1>1. /\ pc' = [t \in Tasks |-> IF t = "read" THEN "sleep" ELSE "hibernate"]
      /\ todo' = [t \in Tasks |-> <<>>] /\ step' = [t \in Tasks |-> 0]
      /\ i' = [t \in Tasks |-> 0] /\ j' = [t \in Tasks |-> 0]
      /\ ok' = [t \in Tasks |-> FALSE]
  BY DEF Reset, Boot
<1>2. Typed
  BY TypedIsEnough DEF IInv
<1>3. /\ enabled' = FALSE /\ burnt' = {} /\ faults' = 0 /\ open' = FALSE /\ stamped' = FALSE
      /\ tries' = 0 /\ hib' = 0 /\ counter' = 0 /\ UNCHANGED <<overlap, armed>>
      /\ resets < MaxResets /\ resets' = resets + 1
  BY DEF Reset
<1>4. Shape'
  BY <1>1 DEF Shape
<1>5. Known'
  BY <1>1, <1>3, TwoTasks DEF Known, Never, Loops, Reading, Deploying
<1>6. Typed'
  <2>1. /\ i' \in [Tasks -> 0 .. Attempts] /\ j' \in [Tasks -> 0 .. Attempts]
        /\ ok' \in [Tasks -> BOOLEAN]
    BY <1>1
  <2>2. pc' \in [Tasks -> {"sleep", "hibernate", "enable", "transfer", "disable",
                          "result", "ended"}]
    BY <1>1
  <2>3. /\ resets' \in 0 .. MaxResets /\ faults' \in 0 .. MaxFaults
        /\ tries' \in 0 .. ArmTries - 1 /\ hib' \in 0 .. HibernationMin /\ counter' \in {0, 2}
    BY <1>2, <1>3 DEF Typed
  <2> QED
    BY <1>2, <1>3, <2>1, <2>2, <2>3 DEF Typed
<1>7. Apart' /\ CutOffWhenIdle'
  BY <1>1, <1>3, TwoTasks DEF Apart, CutOffWhenIdle
<1>8. Progress'
  <2>1. \A k \in 1 .. 8 : todo'["deploy"] # Rest(k)
    BY <1>1, TwoTasks, Remainders
  <2> QED
    BY <1>1, <2>1, TwoTasks DEF Progress
<1> QED
  BY <1>4, <1>5, <1>6, <1>7, <1>8

LEMMA NextHolds == IInv /\ [Next]_vars => IInv'
<1> SUFFICES ASSUME IInv, [Next]_vars PROVE IInv'
  OBVIOUS
<1>1. CASE Next
  <2>1. Typed' /\ Shape' /\ Known' /\ Apart' /\ CutOffWhenIdle' /\ Progress'
    <3>1. CASE \E t \in Tasks : I2c(t)
      BY <3>1, EnableHolds, TransferHolds, DisableHolds DEF I2c
    <3>2. CASE Wake \/ ReadResult
      BY <3>2, ReaderHolds
    <3>3. CASE Hibernate \/ Deploy \/ DeployResult
      BY <3>3, HibernateHolds, DeployHolds, DeployResultHolds
    <3>4. CASE Reset
      BY <3>4, ResetHolds
    <3> QED
      BY <1>1, <3>1, <3>2, <3>3, <3>4, TwoTasks DEF Next, Reader, Deployer
  <2>2. TypeOK'
    BY <2>1, TypedIsEnough, PTL
  <2> QED
    BY <2>1, <2>2 DEF IInv
<1>2. CASE UNCHANGED vars
  BY <1>2 DEF vars, fixed, antenna, calls, reader, deployer, IInv, TypeOK, Shape, Known, Never,
              Loops, Reading, Deploying, Apart, CutOffWhenIdle, Progress, Burnt
<1> QED
  BY <1>1, <1>2

LEMMA Invariance == Spec => []IInv
  BY InitHolds, NextHolds, PTL DEF Spec

(* Every loop of the driver and of the deployment stays in its limit, and  *)
(* no conversation goes on past its transfers.                             *)
THEOREM TypesHold == Spec => []TypeOK
<1>1. IInv => TypeOK
  BY DEF IInv
<1> QED
  BY <1>1, Invariance, PTL

(* With fewer failures than attempts the antenna is cut off from the bus   *)
(* when no task is in a transfer, also when the transfers of the two tasks *)
(* mix and after any number of resets.                                     *)
THEOREM CutOff == Spec => []CutOffWhenIdle
<1>1. IInv => CutOffWhenIdle
  BY DEF IInv
<1> QED
  BY <1>1, Invariance, PTL

(* When the routine has ended, every burn command has reached the armed    *)
(* antenna and the antenna is disarmed, although no step of it is ever     *)
(* reported as a success.                                                  *)
THEOREM DeploymentReleases == Spec => []Released
<1>1. IInv => Released
  BY DEF IInv, Progress, Released
<1> QED
  BY <1>1, Invariance, PTL

(* No task ever sees antenna_init, or a transfer, succeed: the loops of    *)
(* isis_antenna_i2c_write and _read wait for a result that                 *)
(* tca4311a_disable does not return.                                       *)
THEOREM NothingSucceeds == Spec => [](~open /\ \A t \in Tasks : ~ok[t])
<1>1. IInv => ~open /\ \A t \in Tasks : ~ok[t]
  BY DEF IInv, Known, Never
<1> QED
  BY <1>1, Invariance, PTL
=============================================================================
