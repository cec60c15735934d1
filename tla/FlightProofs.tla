---------------------------- MODULE FlightProofs ----------------------------
(***************************************************************************)
(* Flight for every choice of its periods, limits and bursts: its types,   *)
(* the watchdogs that spare a computer that does not hang, the clock that  *)
(* never runs fast, and the time that is read in two words.  Then the log  *)
(* that its tasks share (module SysLog), for every set of tasks.           *)
(***************************************************************************)
EXTENDS Flight, SysLog, TLAPS

LEMMA ConstantTypes ==
    /\ FeedPeriod \in Nat /\ FeedPeriod > 0 /\ MaxBurst \in Nat /\ MaxBurst > 0
    /\ Sec \in Nat /\ Sec > 0 /\ WaitTicks \in Nat /\ ResetPeriod \in Nat
    /\ B \in Nat /\ B > 1 /\ IntLimit \in Nat /\ ExtLimit \in Nat
    /\ 0 < IntLimit /\ 0 < ExtLimit
    /\ B * B \in Nat /\ B * B > 0 /\ Saved \subseteq Time
<1>1. /\ FeedPeriod \in Nat /\ FeedPeriod > 0 /\ MaxBurst \in Nat /\ MaxBurst > 0
      /\ Sec \in Nat /\ Sec > 0 /\ WaitTicks \in Nat /\ ResetPeriod \in Nat
      /\ B \in Nat /\ B > 1 /\ IntLimit \in Nat /\ ExtLimit \in Nat
    BY FlightAssumption
<1>2. 0 < IntLimit /\ 0 < ExtLimit
    BY <1>1, BurstAssumption
<1>3. B * B \in Nat /\ B * B > 0
    BY <1>1
<1> QED
    BY <1>1, <1>2, <1>3, FlightAssumption DEF Time

(* The words of a time are words. *)
LEMMA WordsOfTime ==
    ASSUME NEW t \in Time, NEW w \in Word
    PROVE  WordOf(t, w) \in 0 .. B - 1
<1>1. B \in Nat /\ B > 1 /\ t \in Nat /\ t < B * B
    BY ConstantTypes DEF Time
<1>2. t % B \in 0 .. B - 1
    BY <1>1
<1>3. t \div B \in Nat
    BY <1>1
<1>4. t = B * (t \div B) + (t % B)
    BY <1>1
<1>5. t \div B < B
    <2>1. SUFFICES ASSUME t \div B >= B PROVE FALSE
        BY <1>1, <1>3
    <2>2. B * (t \div B) >= B * B
        BY <1>1, <1>3, <2>1
    <2> QED
        BY <1>1, <1>2, <1>3, <1>4, <2>2
<1> QED
    BY <1>1, <1>2, <1>3, <1>5 DEF WordOf

LEMMA Dwindles ==
    ASSUME NEW m \in Nat, NEW n \in 0 .. m
    PROVE  After(n) \in 0 .. m
    BY DEF After

LEMMA ZeroIsTime == 0 \in Time
<1>1. B * B \in Nat /\ B * B > 0
    BY ConstantTypes
<1> QED
    BY <1>1 DEF Time

LEMMA NextTime ==
    ASSUME NEW t \in Time
    PROVE  (t + 1) % (B * B) \in Time
<1>1. B * B \in Nat /\ B * B > 0 /\ t + 1 \in Int
    BY ConstantTypes DEF Time
<1> DEFINE m == B * B
<1>2. (t + 1) % m \in 0 .. m - 1
    <2> HIDE DEF m
    <2>1. m \in Nat /\ m > 0
        BY <1>1 DEF m
    <2> QED
        BY <1>1, <2>1
<1> QED
    BY <1>2 DEF Time

LEMMA OldClockTypes ==
    ASSUME ClockTypes
    PROVE  /\ nap \in Nat /\ nap <= Sec + WaitTicks
           /\ slack \in Int /\ slack <= MaxSlack
           /\ last \in Time /\ time \in [Word -> 0 .. B - 1]
           /\ clock \in Time /\ reader \in Read \cup {None}
    BY DEF ClockTypes

LEMMA NextClockTypes ==
    ASSUME tc' \in {"wait", "load", "set", "sleep", "count", "carry"},
           nap' \in Nat, nap' <= Sec + WaitTicks, slack' \in Int, slack' <= MaxSlack,
           last' \in Time, time' \in [Word -> 0 .. B - 1],
           clock' \in Time, reader' \in Read \cup {None}
    PROVE  ClockTypes'
    BY DEF ClockTypes

LEMMA NextWord ==
    ASSUME NEW n \in 0 .. B - 1
    PROVE  (n + 1) % B \in 0 .. B - 1
    BY ConstantTypes

LEMMA ReadGoesOn ==
    ASSUME ClockTypes, NEW t \in Time, Updated(t)
    PROVE  clock' \in Time /\ reader' \in Read \cup {None}
<1>1. CASE reader = None
    BY <1>1 DEF Updated
<1>2. CASE reader # None
    <2>1. reader \in Read
        BY <1>2 DEF ClockTypes
    <2>2. /\ reader' = [reader EXCEPT !.shown = @ \cup {t},
                              !.crossed = @ \/ t \div B # clock \div B]
          /\ clock' = t
        BY <1>2 DEF Updated
    <2>3. (reader.crossed \/ t \div B # clock \div B) \in BOOLEAN
        OBVIOUS
    <2>4. reader' \in Read
        BY <2>1, <2>2, <2>3 DEF Read
    <2> QED
        BY <2>2, <2>4
<1> QED
    BY <1>1, <1>2

-----------------------------------------------------------------------------
LEMMA InitTypes == Init => TypeOK
<1> SUFFICES ASSUME Init PROVE TypeOK
    OBVIOUS
<1> USE DEF Init
<1>1. ProcessorTypes
    <2>1. burst \in 0 .. MaxBurst /\ resetIn \in 0 .. ResetPeriod
        BY ConstantTypes
    <2> QED
        BY <2>1 DEF ProcessorTypes
<1>2. WatchdogTypes
    BY ConstantTypes DEF WatchdogTypes
<1>3. ClockTypes
    BY ConstantTypes, ZeroIsTime DEF ClockTypes, Word, MaxSlack
<1> QED
    BY <1>1, <1>2, <1>3 DEF TypeOK

LEMMA ResetTypes ==
    ASSUME ProcessorTypes, Reset
    PROVE  TypeOK'
<1> USE DEF Reset
<1>1. ProcessorTypes'
    <2>1. burst' \in 0 .. MaxBurst /\ resetIn' \in 0 .. ResetPeriod
        BY ConstantTypes
    <2> QED
        BY <2>1 DEF ProcessorTypes
<1>2. WatchdogTypes'
    BY ConstantTypes DEF WatchdogTypes
<1>3. ClockTypes'
    BY ConstantTypes, ZeroIsTime DEF ClockTypes, Word, MaxSlack
<1> QED
    BY <1>1, <1>2, <1>3 DEF TypeOK

(* A step that leaves the words of the time to the lemma about its clock.  *)
LEMMA StepTypes == TypeOK /\ [Next]_vars => TypeOK'
<1> SUFFICES ASSUME TypeOK, [Next]_vars PROVE TypeOK'
    OBVIOUS
<1>0. ProcessorTypes /\ WatchdogTypes /\ ClockTypes
    BY DEF TypeOK
<1>1. CASE Tick
    <2>1. ProcessorTypes'
        BY <1>0, <1>1, Dwindles, ConstantTypes DEF Tick, ProcessorTypes
    <2>2. WatchdogTypes'
        BY <1>0, <1>1, Dwindles, ConstantTypes DEF Tick, WatchdogTypes, Bitten
    <2>3. ClockTypes'
        <3>1. nap' \in Nat /\ nap' <= Sec + WaitTicks
            BY <1>0, <1>1, ConstantTypes DEF Tick, ClockTypes, After
        <3>2. slack' \in Int /\ slack' <= MaxSlack
            BY <1>0, <1>1, ConstantTypes DEF Tick, ClockTypes, MaxSlack
        <3> QED
            BY <1>0, <1>1, <3>1, <3>2 DEF Tick, ClockTypes
    <2> QED
        BY <2>1, <2>2, <2>3 DEF TypeOK
<1>2. CASE \E n \in 1 .. MaxBurst : Wake(n)
    BY <1>0, <1>2, ConstantTypes
       DEF Wake, TypeOK, ProcessorTypes, WatchdogTypes, ClockTypes, watchdogs, clockwork
<1>3. CASE Hang
    BY <1>0, <1>3
       DEF Hang, TypeOK, ProcessorTypes, WatchdogTypes, ClockTypes, watchdogs, clockwork
<1>4. CASE Cycle
    BY <1>0, <1>4, ConstantTypes
       DEF Cycle, TypeOK, ProcessorTypes, WatchdogTypes, ClockTypes, clockwork
<1>5. CASE FeedInt
    BY <1>0, <1>5, ConstantTypes
       DEF FeedInt, TypeOK, ProcessorTypes, WatchdogTypes, ClockTypes, clockwork
<1>6. CASE FeedExt
    BY <1>0, <1>6, ConstantTypes
       DEF FeedExt, TypeOK, ProcessorTypes, WatchdogTypes, ClockTypes, clockwork
<1>7. CASE WatchdogReset \/ SystemReset
    BY <1>0, <1>7, ResetTypes DEF WatchdogReset, SystemReset
<1>8. CASE Startup
    BY <1>0, <1>8 DEF Startup, InitFram, StartupDone, TypeOK,
       ProcessorTypes, WatchdogTypes, ClockTypes, watchdogs, clockwork
<1>9. CASE TimeControl
    <2>1. ProcessorTypes' /\ WatchdogTypes'
        BY <1>0, <1>9 DEF TimeControl, Load, SetFirst, SetSecond, NextSecond, Count, Carry,
           Elsewhere, watchdogs, ProcessorTypes, WatchdogTypes
    <2>2. ASSUME Load PROVE ClockTypes'
        <3>1. tc' = "load" /\ UNCHANGED <<nap, time, clock, slack, reader>>
            BY <2>2 DEF Load
        <3>2. last' \in Time
            BY <1>0, <2>2, ZeroIsTime, ConstantTypes DEF Load, ProcessorTypes
        <3> QED
            BY <1>0, <3>1, <3>2, NextClockTypes, OldClockTypes
    <2>3. ASSUME NEW w \in Word, SetFirst(w) PROVE ClockTypes'
        <3>1. tc' = "set" /\ UNCHANGED <<nap, last, clock, slack, reader>>
            BY <2>3 DEF SetFirst
        <3>2. time' \in [Word -> 0 .. B - 1]
            BY <1>0, <2>3, WordsOfTime DEF SetFirst, ClockTypes
        <3> QED
            BY <1>0, <3>1, <3>2, NextClockTypes, OldClockTypes
    <2>4. ASSUME SetSecond PROVE ClockTypes'
        <3>1. tc' = "sleep" /\ UNCHANGED last
            BY <2>4 DEF SetSecond
        <3>2. clock' \in Time /\ reader' \in Read \cup {None}
            BY <1>0, <2>4, ReadGoesOn DEF SetSecond, ClockTypes
        <3>3. time' \in [Word -> 0 .. B - 1]
            BY <1>0, <2>4, WordsOfTime DEF SetSecond, ClockTypes
        <3>4. nap' \in Nat /\ nap' <= Sec + WaitTicks
            BY <2>4, ConstantTypes DEF SetSecond
        <3>5. slack' \in Int /\ slack' <= MaxSlack
            BY <2>4, ConstantTypes DEF SetSecond, MaxSlack
        <3> QED
            BY <1>0, <3>1, <3>2, <3>3, <3>4, <3>5, NextClockTypes, OldClockTypes
    <2>5. ASSUME NextSecond PROVE ClockTypes'
        <3>1. tc' = "count" /\ UNCHANGED <<last, time, clock, slack, reader>>
            BY <2>5 DEF NextSecond
        <3>2. nap' \in Nat /\ nap' <= Sec + WaitTicks
            BY <2>5, ConstantTypes DEF NextSecond
        <3> QED
            BY <1>0, <3>1, <3>2, NextClockTypes, OldClockTypes
    <2>6. ASSUME Count PROVE ClockTypes'
        <3>1. tc' \in {"carry", "sleep"} /\ UNCHANGED <<nap, last>>
            BY <2>6 DEF Count
        <3>2. clock' \in Time /\ reader' \in Read \cup {None}
            BY <1>0, <2>6, ReadGoesOn, NextTime DEF Count, ClockTypes
        <3>3. time' \in [Word -> 0 .. B - 1]
            BY <1>0, <2>6, NextWord DEF Count, ClockTypes, Word
        <3>4. slack' \in Int /\ slack' <= MaxSlack
            BY <1>0, <2>6, ConstantTypes DEF Count, ClockTypes, MaxSlack
        <3> QED
            BY <1>0, <3>1, <3>2, <3>3, <3>4, NextClockTypes, OldClockTypes
    <2>7. ASSUME Carry PROVE ClockTypes'
        <3>1. tc' = "sleep" /\ UNCHANGED <<nap, last, slack>>
            BY <2>7 DEF Carry
        <3>2. clock' \in Time /\ reader' \in Read \cup {None}
            BY <1>0, <2>7, ReadGoesOn, NextTime DEF Carry, ClockTypes
        <3>3. time' \in [Word -> 0 .. B - 1]
            BY <1>0, <2>7, NextWord DEF Carry, ClockTypes, Word
        <3> QED
            BY <1>0, <3>1, <3>2, <3>3, NextClockTypes, OldClockTypes
    <2> QED
        BY <1>9, <2>1, <2>2, <2>3, <2>4, <2>5, <2>6, <2>7 DEF TimeControl, TypeOK
<1>10. CASE ReadSecond \/ \E w \in Word : ReadFirst(w)
    <2>1. ASSUME NEW w \in Word, ReadFirst(w) PROVE reader' \in Read
        BY <1>0, <2>1 DEF ReadFirst, ClockTypes, Read
    <2> QED
        BY <1>0, <1>10, <2>1 DEF ReadFirst, ReadSecond, Elsewhere, watchdogs, clockwork,
           TypeOK, ProcessorTypes, WatchdogTypes, ClockTypes
<1>11. CASE UNCHANGED vars
    BY <1>0, <1>11 DEF vars, watchdogs, clockwork, TypeOK,
       ProcessorTypes, WatchdogTypes, ClockTypes
<1> QED
    BY <1>1, <1>2, <1>3, <1>4, <1>5, <1>6, <1>7, <1>8, <1>9, <1>10, <1>11 DEF Next, Watchdog

(* Every variable keeps to its range.                                      *)
THEOREM TypesHold == Spec => []TypeOK
<1>1. Init => TypeOK
    BY InitTypes
<1>2. TypeOK /\ [Next]_vars => TypeOK'
    BY StepTypes
<1> QED
    BY <1>1, <1>2, PTL DEF Spec

-----------------------------------------------------------------------------
(***************************************************************************)
(* The watchdogs.  Between its statements the watchdog task loses at most  *)
(* one burst, and one more before a cycle begins; NotLate counts what each *)
(* watchdog has waited, and may still wait, at each of them.               *)
(***************************************************************************)
NotLate ==
    /\ wd = "cycle" /\ feed > 0 => int + feed <= FeedPeriod /\ ext + feed <= FeedPeriod
    /\ wd = "cycle" /\ feed = 0 => /\ \/ int + burst <= FeedPeriod + MaxBurst
                                      \/ int + burst <= 2 * MaxBurst
                                   /\ ext + burst <= FeedPeriod + MaxBurst
    /\ wd = "int" => /\ \/ int + burst <= FeedPeriod + 2 * MaxBurst
                        \/ int + burst <= 3 * MaxBurst
                     /\ ext + burst <= FeedPeriod + 2 * MaxBurst
    /\ wd = "ext" => /\ int + burst <= MaxBurst /\ ext + burst <= FeedPeriod + 3 * MaxBurst
                     /\ feed > 0 => int + feed <= FeedPeriod

WatchdogInv == ~hung => NotLate

LEMMA SparedNow == TypeOK /\ WatchdogInv => NoFalseReset
<1> SUFFICES ASSUME TypeOK, WatchdogInv, ~hung PROVE ~Bitten
    BY DEF NoFalseReset
<1>1. /\ wd \in {"cycle", "int", "ext"} /\ feed \in 0 .. FeedPeriod
      /\ int \in Nat /\ ext \in Nat /\ burst \in 0 .. MaxBurst
    BY DEF TypeOK, WatchdogTypes, ProcessorTypes
<1>2. /\ int <= FeedPeriod + 2 * MaxBurst \/ int <= 3 * MaxBurst
      /\ ext <= FeedPeriod + 3 * MaxBurst
    BY <1>1, ConstantTypes, BurstAssumption DEF WatchdogInv, NotLate
<1> QED
    BY <1>1, <1>2, ConstantTypes, BurstAssumption DEF Bitten

LEMMA WatchdogStep == TypeOK /\ WatchdogInv /\ [Next]_vars => WatchdogInv'
<1> SUFFICES ASSUME TypeOK, WatchdogInv, [Next]_vars, ~hung' PROVE NotLate'
    BY DEF WatchdogInv
<1>0. /\ wd \in {"cycle", "int", "ext"} /\ feed \in 0 .. FeedPeriod
      /\ int \in Nat /\ ext \in Nat /\ burst \in 0 .. MaxBurst
      /\ FeedPeriod \in Nat /\ MaxBurst \in Nat
    BY ConstantTypes DEF TypeOK, WatchdogTypes, ProcessorTypes
<1>1. CASE Tick
    <2>1. ~hung /\ NotLate
        BY <1>1 DEF Tick, WatchdogInv
    <2>2. /\ wd' = wd /\ int' = int + 1 /\ ext' = ext + 1
          /\ feed' = After(feed) /\ burst' = After(burst)
          /\ burst = 0 => wd = "cycle" /\ feed > 0
        BY <1>0, <1>1, <2>1 DEF Tick, FeedDue
    <2> QED
        BY <1>0, <2>1, <2>2 DEF NotLate, After
<1>2. CASE \E n \in 1 .. MaxBurst : Wake(n)
    <2>1. ~hung /\ NotLate
        BY <1>2 DEF Wake, WatchdogInv
    <2>2. UNCHANGED <<wd, feed, int, ext>> /\ wd = "cycle" /\ feed > 0
        BY <1>0, <1>2 DEF Wake, FeedDue, watchdogs
    <2> QED
        BY <1>0, <2>1, <2>2 DEF NotLate
<1>3. CASE Hang
    BY <1>3 DEF Hang
<1>4. CASE Cycle
    <2>1. ~hung /\ NotLate
        BY <1>4 DEF Cycle, WatchdogInv
    <2>2. /\ burst = 0 /\ wd = "cycle" /\ feed = 0 /\ wd' = "int"
          /\ int' = int /\ ext' = ext /\ burst' \in 0 .. MaxBurst
        BY <1>4 DEF Cycle
    <2>3. PICK b \in 0 .. MaxBurst : burst' = b
        BY <2>2
    <2> QED
        BY <1>0, <2>1, <2>2, <2>3 DEF NotLate
<1>5. CASE FeedInt
    <2>1. ~hung /\ NotLate
        BY <1>5 DEF FeedInt, WatchdogInv
    <2>2. /\ burst = 0 /\ wd = "int" /\ wd' = "ext" /\ feed' = feed
          /\ int' = 0 /\ ext' = ext /\ burst' \in 0 .. MaxBurst
        BY <1>5 DEF FeedInt
    <2>3. PICK b \in 0 .. MaxBurst : burst' = b
        BY <2>2
    <2> QED
        BY <1>0, <2>1, <2>2, <2>3 DEF NotLate
<1>6. CASE FeedExt
    <2>1. ~hung /\ NotLate
        BY <1>6 DEF FeedExt, WatchdogInv
    <2>2. /\ burst = 0 /\ wd = "ext" /\ wd' = "cycle" /\ feed' = feed
          /\ int' = int /\ ext' = 0 /\ burst' \in 0 .. MaxBurst
        BY <1>6 DEF FeedExt
    <2>3. PICK b \in 0 .. MaxBurst : burst' = b
        BY <2>2
    <2> QED
        BY <1>0, <2>1, <2>2, <2>3 DEF NotLate
<1>7. CASE WatchdogReset \/ SystemReset
    <2>1. /\ wd' = "cycle" /\ feed' = 0 /\ int' = 0 /\ ext' = 0
          /\ burst' \in 1 .. MaxBurst
        BY <1>7 DEF WatchdogReset, SystemReset, Reset
    <2>2. PICK b \in 1 .. MaxBurst : burst' = b
        BY <2>1
    <2> QED
        BY <1>0, <2>1, <2>2 DEF NotLate
<1>8. CASE UNCHANGED <<burst, hung, watchdogs>>
    BY <1>8 DEF watchdogs, WatchdogInv, NotLate
<1>9. CASE Startup \/ TimeControl \/ ReadSecond \/ \E w \in Word : ReadFirst(w)
    <2>1. UNCHANGED <<burst, hung, watchdogs>>
        BY <1>9 DEF Startup, InitFram, StartupDone, TimeControl, Load, SetFirst, SetSecond,
           NextSecond, Count, Carry, ReadFirst, ReadSecond, Elsewhere
    <2> QED
        BY <1>8, <2>1
<1>10. CASE UNCHANGED vars
    BY <1>8, <1>10 DEF vars
<1> QED
    BY <1>1, <1>2, <1>3, <1>4, <1>5, <1>6, <1>7, <1>9, <1>10 DEF Next, Watchdog

(***************************************************************************)
(* A watchdog resets only a computer that hangs, for every period, burst   *)
(* and pair of limits that satisfy BurstAssumption.                        *)
(***************************************************************************)
THEOREM WatchdogsSpare == Spec => []NoFalseReset
<1>1. Init => WatchdogInv
    BY ConstantTypes DEF Init, WatchdogInv, NotLate
<1>2. TypeOK /\ WatchdogInv /\ [Next]_vars => WatchdogInv'
    BY WatchdogStep
<1>3. TypeOK /\ WatchdogInv => NoFalseReset
    BY SparedNow
<1> QED
    BY <1>1, <1>2, <1>3, TypesHold, PTL DEF Spec

-----------------------------------------------------------------------------
(***************************************************************************)
(* The clock.  While vTaskTimeControl sleeps, what has passed and what it  *)
(* still sleeps make a second at least; from the moment it wakes, two.     *)
(***************************************************************************)
ClockInv ==
    /\ slack >= 0
    /\ tc \in {"sleep", "carry"} => slack + nap >= Sec
    /\ tc = "count" => slack >= Sec /\ slack + nap >= 2 * Sec

LEMMA ClockStep == TypeOK /\ ClockInv /\ [Next]_vars => ClockInv'
<1> SUFFICES ASSUME TypeOK, ClockInv, [Next]_vars PROVE ClockInv'
    OBVIOUS
<1>0. nap \in Nat /\ slack \in Int /\ slack <= 2 * Sec
    BY DEF TypeOK, ClockTypes, MaxSlack
<1>1. CASE Tick
    <2>1. /\ tc' = tc /\ nap' = IF nap = 0 THEN 0 ELSE nap - 1
          /\ slack' = IF slack < 2 * Sec THEN slack + 1 ELSE slack
        BY <1>1 DEF Tick, After, MaxSlack
    <2> QED
        BY <1>0, <2>1, ConstantTypes DEF ClockInv
<1>2. CASE WatchdogReset \/ SystemReset
    BY <1>2 DEF WatchdogReset, SystemReset, Reset, ClockInv
<1>3. CASE UNCHANGED <<tc, nap, slack>>
    BY <1>3 DEF ClockInv
<1>4. CASE Hang \/ Watchdog \/ Startup \/ ReadSecond \/ UNCHANGED vars
    <2>1. UNCHANGED <<tc, nap, slack>>
        BY <1>4 DEF Hang, Watchdog, Cycle, FeedInt, FeedExt, Startup, InitFram,
           StartupDone, ReadSecond, vars, clockwork
    <2> QED
        BY <1>3, <2>1
<1>5. CASE \/ \E n \in 1 .. MaxBurst : Wake(n)
           \/ \E w \in Word : ReadFirst(w)
    <2>1. UNCHANGED <<tc, nap, slack>>
        BY <1>5 DEF Wake, ReadFirst, clockwork
    <2> QED
        BY <1>3, <2>1
<1>6. CASE TimeControl
    <2>1. CASE Load \/ \E w \in Word : SetFirst(w)
        BY <2>1 DEF Load, SetFirst, ClockInv
    <2>2. CASE SetSecond
        <3>1. tc' = "sleep" /\ nap' = Sec /\ slack' = 0
            BY <2>2 DEF SetSecond
        <3> QED
            BY <3>1, ConstantTypes DEF ClockInv
    <2>3. CASE NextSecond
        <3>1. tc = "sleep" /\ nap = 0 /\ tc' = "count" /\ nap' = Sec /\ slack' = slack
            BY <2>3 DEF NextSecond, Runs
        <3> QED
            BY <1>0, <3>1, ConstantTypes DEF ClockInv
    <2>4. CASE Count
        <3>1. tc = "count" /\ tc' \in {"sleep", "carry"} /\ nap' = nap /\ slack' = slack - Sec
            BY <2>4 DEF Count, Runs
        <3> QED
            BY <1>0, <3>1, ConstantTypes DEF ClockInv
    <2>5. CASE Carry
        <3>1. tc = "carry" /\ tc' = "sleep" /\ nap' = nap /\ slack' = slack
            BY <2>5 DEF Carry, Runs
        <3> QED
            BY <3>1 DEF ClockInv
    <2> QED
        BY <1>6, <2>1, <2>2, <2>3, <2>4, <2>5 DEF TimeControl
<1> QED
    BY <1>1, <1>2, <1>4, <1>5, <1>6 DEF Next

(***************************************************************************)
(* The clock has counted no second that has not passed since it was set.   *)
(***************************************************************************)
THEOREM ClockNeverFast == Spec => []NeverFast
<1>1. Init => ClockInv
    BY DEF Init, ClockInv
<1>2. TypeOK /\ ClockInv /\ [Next]_vars => ClockInv'
    BY ClockStep
<1>3. ClockInv => NeverFast
    BY DEF ClockInv, NeverFast
<1> QED
    BY <1>1, <1>2, <1>3, TypesHold, PTL DEF Spec

-----------------------------------------------------------------------------
(***************************************************************************)
(* The two words of a time determine it.                                   *)
(***************************************************************************)
LEMMA SameWords ==
    ASSUME NEW h \in Nat, NEW g \in Nat, NEW a \in 0 .. B - 1, NEW b \in 0 .. B - 1,
           a + B * h = b + B * g
    PROVE  a = b /\ h = g
<1>0. B \in Nat /\ B > 1
    BY ConstantTypes
<1>1. SUFFICES h = g
    BY <1>0
<1>2. CASE h > g
    <2>1. PICK d \in Nat : h = g + 1 + d
        <3>1. h - g - 1 \in Nat
            BY <1>2
        <3> QED
            BY <3>1
    <2>2. B * h = B * g + B + B * d
        BY <1>0, <2>1
    <2>3. B * d \in Nat /\ B * g \in Nat
        BY <1>0, <2>1
    <2> QED
        BY <1>0, <2>2, <2>3
<1>3. CASE g > h
    <2>1. PICK d \in Nat : g = h + 1 + d
        <3>1. g - h - 1 \in Nat
            BY <1>3
        <3> QED
            BY <3>1
    <2>2. B * g = B * h + B + B * d
        BY <1>0, <2>1
    <2>3. B * d \in Nat /\ B * h \in Nat
        BY <1>0, <2>1
    <2> QED
        BY <1>0, <2>2, <2>3
<1> QED
    BY <1>2, <1>3

LEMMA WordsMakeTime ==
    ASSUME NEW t \in Time
    PROVE  /\ t = (t % B) + B * (t \div B)
           /\ t % B \in 0 .. B - 1 /\ t \div B \in 0 .. B - 1
<1>1. t % B \in 0 .. B - 1 /\ t \div B \in 0 .. B - 1
    BY WordsOfTime DEF WordOf, Word
<1>2. B \in Nat /\ B > 1 /\ t \in Nat
    BY ConstantTypes DEF Time
<1> QED
    BY <1>1, <1>2

LEMMA TimeHasWords ==
    ASSUME NEW a \in 0 .. B - 1, NEW h \in 0 .. B - 1
    PROVE  /\ a + B * h \in Time
           /\ (a + B * h) % B = a /\ (a + B * h) \div B = h
<1> DEFINE t == a + B * h
<1>0. B \in Nat /\ B > 1
    BY ConstantTypes
<1>1. t \in Time
    <2>1. B * h <= B * (B - 1) /\ B * (B - 1) = B * B - B /\ B * h \in Nat
        <3>1. PICK d \in Nat : B - 1 = h + d
            <4>1. B - 1 - h \in Nat
                BY <1>0
            <4> QED
                BY <1>0, <4>1
        <3>2. B * (B - 1) = B * h + B * d /\ B * d \in Nat /\ B * h \in Nat
            BY <1>0, <3>1
        <3> QED
            BY <1>0, <3>2
    <2> QED
        BY <1>0, <2>1 DEF Time
<1>2. /\ t = (t % B) + B * (t \div B)
      /\ t % B \in 0 .. B - 1 /\ t \div B \in 0 .. B - 1
    BY <1>1, WordsMakeTime
<1> QED
    BY <1>0, <1>1, <1>2, SameWords

LEMMA Multiple ==
    ASSUME NEW d \in Int
    PROVE  (B * d) % B = 0
<1> DEFINE x == B * d
           q == x \div B
           r == x % B
<1>0. B \in Nat /\ B > 1
    BY ConstantTypes
<1>1. x \in Int /\ q \in Int /\ r \in 0 .. B - 1 /\ x = B * q + r
    <2>1. x \in Int
        BY <1>0
    <2> HIDE DEF x
    <2> QED
        BY <1>0, <2>1
<1>2. r = B * (d - q)
    <2> HIDE DEF q, r
    <2>1. B * (d - q) = B * d - B * q
        BY <1>0, <1>1
    <2> QED
        BY <1>0, <1>1, <2>1
<1>3. d - q = 0
    <2> HIDE DEF q, r
    <2>1. CASE d - q >= 1
        <3>1. PICK e \in Nat : d - q = 1 + e
            <4>1. d - q - 1 \in Nat /\ d - q = 1 + (d - q - 1)
                BY <1>1, <2>1
            <4> QED
                BY <4>1
        <3>2. r = B + B * e /\ B * e \in Nat
            BY <1>0, <1>2, <3>1
        <3> QED
            BY <1>0, <1>1, <3>2
    <2>2. CASE d - q <= -1
        <3>1. PICK e \in Nat : q - d = 1 + e
            <4>1. q - d - 1 \in Nat /\ q - d = 1 + (q - d - 1)
                BY <1>1, <2>2
            <4> QED
                BY <4>1
        <3>2. d - q = -(1 + e)
            BY <1>1, <3>1
        <3>3. r = -(B + B * e) /\ B * e \in Nat
            BY <1>0, <1>2, <3>1, <3>2
        <3> QED
            BY <1>0, <1>1, <3>3
    <2> QED
        BY <1>1, <2>1, <2>2
<1> QED
    BY <1>0, <1>2, <1>3

(* One more in the low word, and the carry when it wraps. *)
LEMMA Increment ==
    ASSUME NEW t \in Time
    PROVE  LET n == (t + 1) % (B * B)
           IN  /\ n \in Time
               /\ t % B # B - 1 => n % B = (t % B) + 1 /\ n \div B = t \div B
               /\ t % B = B - 1 => n % B = 0 /\ n \div B = (t \div B + 1) % B
<1> DEFINE a == t % B
           h == t \div B
           m == B * B
<1>0. B \in Nat /\ B > 1 /\ m \in Nat /\ m > 0
    BY ConstantTypes
<1>1. t = a + B * h /\ a \in 0 .. B - 1 /\ h \in 0 .. B - 1
    BY WordsMakeTime
<1>2. ASSUME t + 1 \in Time PROVE (t + 1) % m = t + 1
    <2>1. t + 1 \in 0 .. m - 1
        BY <1>2 DEF Time
    <2> HIDE DEF m
    <2> QED
        BY <1>0, <2>1
<1>3. CASE a # B - 1
    <2>1. t + 1 = (a + 1) + B * h /\ a + 1 \in 0 .. B - 1
        <3> HIDE DEF a, h
        <3> QED
            BY <1>0, <1>1, <1>3
    <2>2. /\ t + 1 \in Time
          /\ (t + 1) % B = a + 1 /\ (t + 1) \div B = h
        <3> HIDE DEF a, h
        <3> QED
            BY <1>1, <2>1, TimeHasWords
    <2> QED
        BY <1>2, <1>3, <2>2
<1>4. CASE a = B - 1 /\ h < B - 1
    <2>1. t + 1 = 0 + B * (h + 1) /\ h + 1 \in 0 .. B - 1 /\ 0 \in 0 .. B - 1
        <3> HIDE DEF a, h
        <3> QED
            BY <1>0, <1>1, <1>4
    <2>2. /\ t + 1 \in Time
          /\ (t + 1) % B = 0 /\ (t + 1) \div B = h + 1
        <3> HIDE DEF a, h
        <3> QED
            BY <2>1, TimeHasWords
    <2>3. (h + 1) % B = h + 1
        <3> HIDE DEF a, h
        <3> QED
            BY <1>0, <1>1, <2>1
    <2> QED
        BY <1>2, <1>4, <2>2, <2>3
<1>5. CASE a = B - 1 /\ h = B - 1
    <2>1. t + 1 = m
        <3>1. t = (B - 1) + B * (B - 1)
            BY <1>1, <1>5
        <3> QED
            BY <1>0, <3>1
    <2>2. m % m = 0 /\ B % B = 0
        <3> HIDE DEF m
        <3> QED
            BY <1>0
    <2>3. (t + 1) % m = 0
        BY <2>1, <2>2
    <2>4. 0 \in Time /\ 0 % B = 0 /\ 0 \div B = 0
        BY <1>0, ZeroIsTime
    <2>5. (h + 1) % B = 0
        <3>1. h + 1 = B
            BY <1>0, <1>5
        <3> QED
            BY <2>2, <3>1
    <2> QED
        BY <1>5, <2>3, <2>4, <2>5
<1> QED
    BY <1>1, <1>3, <1>4, <1>5

(***************************************************************************)
(* The words of the time.  They are those of the clock but while an        *)
(* assignment or a carry is half done.                                     *)
(***************************************************************************)
TimeInv ==
    /\ tc \notin {"set", "carry"} => \A w \in Word : time[w] = WordOf(clock, w)
    /\ tc = "set" => \A w \in Word : \E t \in {last, clock} : time[w] = WordOf(t, w)
    /\ tc = "carry" => time["lo"] = 0 /\ clock % B = B - 1 /\ time["hi"] = clock \div B
    /\ tc \in {"wait", "load", "set"} => clock = 0

(***************************************************************************)
(* A read under way has a word of a time that the clock has shown since or *)
(* is about to show, and of one it has shown while it crossed no turn.     *)
(***************************************************************************)
ReadInv ==
    reader # None =>
        /\ clock \in reader.shown
        /\ \E t \in Shown : reader.value = WordOf(t, reader.word)
        /\ ~reader.crossed =>
               /\ \A t \in reader.shown : t \div B = clock \div B
               /\ \E t \in reader.shown : reader.value = WordOf(t, reader.word)

LEMMA ZeroWords == \A w \in Word : WordOf(0, w) = 0
    BY ConstantTypes DEF WordOf

LEMMA TimeStep == TypeOK /\ TimeInv /\ [Next]_vars => TimeInv'
<1> SUFFICES ASSUME TypeOK, TimeInv, [Next]_vars PROVE TimeInv'
    OBVIOUS
<1>0. /\ tc \in {"wait", "load", "set", "sleep", "count", "carry"}
      /\ time \in [Word -> 0 .. B - 1] /\ clock \in Time /\ last \in Time
    BY DEF TypeOK, ClockTypes
<1>1. CASE UNCHANGED <<tc, time, clock, last>>
    BY <1>1 DEF TimeInv
<1>2. CASE Tick \/ Hang \/ Watchdog \/ Startup \/ ReadSecond \/ UNCHANGED vars
    <2>1. UNCHANGED <<tc, time, clock, last>>
        BY <1>2 DEF Tick, Hang, Watchdog, Cycle, FeedInt, FeedExt, Startup, InitFram,
           StartupDone, ReadSecond, vars, clockwork
    <2> QED
        BY <1>1, <2>1
<1>3. CASE \/ \E n \in 1 .. MaxBurst : Wake(n)
           \/ \E w \in Word : ReadFirst(w)
    <2>1. UNCHANGED <<tc, time, clock, last>>
        BY <1>3 DEF Wake, ReadFirst, clockwork
    <2> QED
        BY <1>1, <2>1
<1>4. CASE WatchdogReset \/ SystemReset
    <2>1. tc' = "wait" /\ clock' = 0 /\ time' = [w \in Word |-> 0]
        BY <1>4 DEF WatchdogReset, SystemReset, Reset
    <2> QED
        BY <2>1, ZeroWords DEF TimeInv
<1>5. CASE TimeControl
    <2>1. CASE Load
        <3>1. tc = "wait" /\ tc' = "load" /\ UNCHANGED <<time, clock>>
            BY <2>1 DEF Load, Runs
        <3> QED
            BY <3>1 DEF TimeInv
    <2>2. ASSUME NEW v \in Word, SetFirst(v) PROVE TimeInv'
        <3>1. /\ tc = "load" /\ tc' = "set" /\ UNCHANGED <<last, clock>>
              /\ time' = [time EXCEPT ![v] = WordOf(last, v)]
            BY <2>2 DEF SetFirst, Runs
        <3>2. clock = 0 /\ \A w \in Word : time[w] = WordOf(clock, w)
            BY <3>1 DEF TimeInv
        <3>3. \A w \in Word : time'[w] = IF w = v THEN WordOf(last, w) ELSE WordOf(clock, w)
            BY <1>0, <3>1, <3>2
        <3>4. \A w \in Word : \E t \in {last, clock} : time'[w] = WordOf(t, w)
            BY <3>3
        <3> QED
            BY <3>1, <3>2, <3>4 DEF TimeInv
    <2>3. CASE SetSecond
        <3>1. tc' = "sleep" /\ clock' = last /\ time' = [w \in Word |-> WordOf(last, w)]
            BY <2>3 DEF SetSecond, Updated
        <3> QED
            BY <3>1 DEF TimeInv
    <2>4. CASE NextSecond
        <3>1. tc = "sleep" /\ tc' = "count" /\ UNCHANGED <<time, clock>>
            BY <2>4 DEF NextSecond, Runs
        <3> QED
            BY <3>1 DEF TimeInv
    <2>5. CASE Count
        <3>1. /\ tc = "count" /\ time' = [time EXCEPT !["lo"] = (@ + 1) % B]
              /\ IF time["lo"] = B - 1
                 THEN tc' = "carry" /\ clock' = clock
                 ELSE tc' = "sleep" /\ clock' = (clock + 1) % (B * B)
            BY <2>5 DEF Count, Runs, Updated
        <3>2. time["lo"] = clock % B /\ time["hi"] = clock \div B
            BY <3>1 DEF TimeInv, Word, WordOf
        <3>3. time'["lo"] = (time["lo"] + 1) % B /\ time'["hi"] = time["hi"]
            BY <1>0, <3>1 DEF Word
        <3>4. CASE time["lo"] = B - 1
            <4>1. time'["lo"] = 0
                <5>1. B - 1 + 1 = B /\ B % B = 0
                    BY ConstantTypes
                <5> QED
                    BY <3>3, <3>4, <5>1
            <4> QED
                BY <3>1, <3>2, <3>3, <3>4, <4>1 DEF TimeInv
        <3>5. CASE time["lo"] # B - 1
            <4>1. time["lo"] \in 0 .. B - 1
                BY <1>0 DEF Word
            <4>2. (time["lo"] + 1) % B = time["lo"] + 1
                BY <3>5, <4>1, ConstantTypes
            <4>3. time'["lo"] = clock' % B /\ time'["hi"] = clock' \div B
                BY <1>0, <3>1, <3>2, <3>3, <3>5, <4>2, Increment
            <4> QED
                BY <3>1, <3>5, <4>3 DEF TimeInv, Word, WordOf
        <3> QED
            BY <3>4, <3>5
    <2>6. CASE Carry
        <3>1. /\ tc = "carry" /\ tc' = "sleep" /\ clock' = (clock + 1) % (B * B)
              /\ time' = [time EXCEPT !["hi"] = (@ + 1) % B]
            BY <2>6 DEF Carry, Runs, Updated
        <3>2. time["lo"] = 0 /\ clock % B = B - 1 /\ time["hi"] = clock \div B
            BY <3>1 DEF TimeInv
        <3>3. time'["lo"] = time["lo"] /\ time'["hi"] = (time["hi"] + 1) % B
            BY <1>0, <3>1 DEF Word
        <3>4. time'["lo"] = clock' % B /\ time'["hi"] = clock' \div B
            BY <1>0, <3>1, <3>2, <3>3, Increment
        <3> QED
            BY <3>1, <3>4 DEF TimeInv, Word, WordOf
    <2> QED
        BY <1>5, <2>1, <2>2, <2>3, <2>4, <2>5, <2>6 DEF TimeControl
<1> QED
    BY <1>2, <1>3, <1>4, <1>5 DEF Next

(* A new time is shown to the read that is under way. *)
LEMMA ReadSees ==
    ASSUME ClockTypes, ReadInv, NEW t \in Time, Updated(t),
           tc' \notin {"set", "carry"}, \A s \in Shown \ reader.shown : s = t
    PROVE  ReadInv'
<1> SUFFICES ASSUME reader' # None
             PROVE  /\ clock' \in reader'.shown
                    /\ \E s \in Shown' : reader'.value = WordOf(s, reader'.word)
                    /\ ~reader'.crossed =>
                         /\ \A s \in reader'.shown : s \div B = clock' \div B
                         /\ \E s \in reader'.shown : reader'.value = WordOf(s, reader'.word)
    BY DEF ReadInv
<1>1. reader # None /\ reader \in Read /\ clock' = t
    BY DEF Updated, ClockTypes
<1>2. /\ reader'.shown = reader.shown \cup {t} /\ reader'.word = reader.word
      /\ reader'.value = reader.value
      /\ reader'.crossed = (reader.crossed \/ t \div B # clock \div B)
    BY <1>1 DEF Updated, Read
<1>3. Shown' = reader'.shown
    BY DEF Shown
<1>4. \E s \in reader'.shown : reader'.value = WordOf(s, reader'.word)
    <2>1. PICK s \in Shown : reader.value = WordOf(s, reader.word)
        BY <1>1 DEF ReadInv
    <2>2. s \in reader'.shown
        BY <1>2, <2>1
    <2> QED
        BY <1>2, <2>1, <2>2
<1>5. ~reader'.crossed => \A s \in reader'.shown : s \div B = clock' \div B
    BY <1>1, <1>2 DEF ReadInv
<1> QED
    BY <1>1, <1>2, <1>3, <1>4, <1>5

(* A step that shows no time and takes none from those about to show. *)
LEMMA ReadKeeps ==
    ASSUME ReadInv, UNCHANGED <<clock, reader>>, Shown \subseteq Shown'
    PROVE  ReadInv'
    BY DEF ReadInv

LEMMA ReadStep == TypeOK /\ TimeInv /\ ReadInv /\ [Next]_vars => ReadInv'
<1> SUFFICES ASSUME TypeOK, TimeInv, ReadInv, [Next]_vars PROVE ReadInv'
    OBVIOUS
<1>0. /\ tc \in {"wait", "load", "set", "sleep", "count", "carry"}
      /\ time \in [Word -> 0 .. B - 1] /\ clock \in Time /\ last \in Time /\ ClockTypes
    BY DEF TypeOK, ClockTypes
<1>1. CASE UNCHANGED <<tc, clock, last, reader>>
    BY <1>1 DEF ReadInv, Shown
<1>2. CASE Tick \/ Hang \/ Watchdog \/ Startup \/ UNCHANGED vars
    <2>1. UNCHANGED <<tc, clock, last, reader>>
        BY <1>2 DEF Tick, Hang, Watchdog, Cycle, FeedInt, FeedExt, Startup, InitFram,
           StartupDone, vars, clockwork
    <2> QED
        BY <1>1, <2>1
<1>3. CASE \E n \in 1 .. MaxBurst : Wake(n)
    <2>1. UNCHANGED <<tc, clock, last, reader>>
        BY <1>3 DEF Wake, clockwork
    <2> QED
        BY <1>1, <2>1
<1>4. CASE WatchdogReset \/ SystemReset \/ ReadSecond
    <2>1. reader' = None
        BY <1>4 DEF WatchdogReset, SystemReset, Reset, ReadSecond
    <2> QED
        BY <2>1 DEF ReadInv
<1>5. ASSUME NEW v \in Word, ReadFirst(v) PROVE ReadInv'
    <2>1. /\ reader' = [word |-> v, value |-> time[v], shown |-> {clock},
                        crossed |-> tc \in {"set", "carry"}]
          /\ UNCHANGED <<tc, clock, last, time>>
        BY <1>5 DEF ReadFirst, clockwork
    <2>2. Shown' = {clock} \cup {t \in {last} : tc = "set"}
                          \cup {t \in {(clock + 1) % (B * B)} : tc = "carry"}
        BY <2>1 DEF Shown
    <2>3. \E t \in Shown' : time[v] = WordOf(t, v)
        <3>1. CASE tc = "carry"
            <4>1. /\ ((clock + 1) % (B * B)) % B = 0
                  /\ time["lo"] = 0 /\ time["hi"] = clock \div B
                BY <1>0, <3>1, Increment DEF TimeInv
            <4>2. CASE v = "lo"
                BY <2>2, <3>1, <4>1, <4>2 DEF WordOf
            <4>3. CASE v = "hi"
                BY <2>2, <3>1, <4>1, <4>3 DEF WordOf
            <4> QED
                BY <4>2, <4>3 DEF Word
        <3>2. CASE tc = "set"
            BY <2>2, <3>2 DEF TimeInv
        <3>3. CASE tc \notin {"set", "carry"}
            BY <2>2, <3>3 DEF TimeInv
        <3> QED
            BY <3>1, <3>2, <3>3
    <2>4. tc \notin {"set", "carry"} => time[v] = WordOf(clock, v)
        BY DEF TimeInv
    <2> QED
        BY <2>1, <2>3, <2>4 DEF ReadInv
<1>6. CASE TimeControl
    <2>1. CASE Load \/ NextSecond
        <3>1. tc \notin {"set", "carry"} /\ UNCHANGED <<clock, reader>>
            BY <2>1 DEF Load, NextSecond, Runs
        <3>2. Shown \subseteq Shown'
            BY <3>1 DEF Shown
        <3> QED
            BY <3>1, <3>2, ReadKeeps
    <2>2. ASSUME NEW v \in Word, SetFirst(v) PROVE ReadInv'
        <3>1. tc = "load" /\ UNCHANGED <<clock, reader>>
            BY <2>2 DEF SetFirst, Runs
        <3>2. Shown \subseteq Shown'
            BY <3>1 DEF Shown
        <3> QED
            BY <3>1, <3>2, ReadKeeps
    <2>3. CASE SetSecond
        <3>1. tc = "set" /\ tc' = "sleep" /\ Updated(last)
            BY <2>3 DEF SetSecond, Runs
        <3>2. \A s \in Shown \ reader.shown : s = last
            BY <3>1 DEF Shown
        <3> QED
            BY <1>0, <3>1, <3>2, ReadSees
    <2>4. CASE Count
        <3>1. CASE time["lo"] = B - 1
            <4>1. tc = "count" /\ UNCHANGED <<clock, reader>>
                BY <2>4, <3>1 DEF Count, Runs
            <4>2. Shown \subseteq Shown'
                BY <4>1 DEF Shown
            <4> QED
                BY <4>1, <4>2, ReadKeeps
        <3>2. CASE time["lo"] # B - 1
            <4> DEFINE n == (clock + 1) % (B * B)
            <4>1. tc = "count" /\ tc' = "sleep" /\ Updated(n)
                BY <2>4, <3>2 DEF Count, Runs
            <4>2. \A s \in Shown \ reader.shown : s = n
                BY <4>1 DEF Shown
            <4>3. n \in Time
                BY <1>0, NextTime
            <4> HIDE DEF n
            <4> QED
                BY <1>0, <4>1, <4>2, <4>3, ReadSees
        <3> QED
            BY <3>1, <3>2
    <2>5. CASE Carry
        <3> DEFINE n == (clock + 1) % (B * B)
        <3>1. tc = "carry" /\ tc' = "sleep" /\ Updated(n)
            BY <2>5 DEF Carry, Runs
        <3>2. \A s \in Shown \ reader.shown : s = n
            BY <3>1 DEF Shown
        <3>3. n \in Time
            BY <1>0, NextTime
        <3> HIDE DEF n
        <3> QED
            BY <1>0, <3>1, <3>2, <3>3, ReadSees
    <2> QED
        BY <1>6, <2>1, <2>2, <2>3, <2>4, <2>5 DEF TimeControl
<1> QED
    BY <1>2, <1>3, <1>4, <1>5, <1>6 DEF Next

(* The stamp is made of the word that was read and of the other one now. *)
LEMMA ShownNow == TypeOK /\ TimeInv /\ ReadInv => StampIsShown
<1> SUFFICES ASSUME TypeOK, TimeInv, ReadInv, reader # None
             PROVE  LET stamp == TimeOf([time EXCEPT ![reader.word] = reader.value])
                    IN  /\ stamp \in Shown \/ reader.crossed \/ tc \in {"set", "carry"}
                        /\ \E t \in Shown : (stamp - t) % B = 0
    BY DEF StampIsShown
<1> DEFINE stamp == TimeOf([time EXCEPT ![reader.word] = reader.value])
<1>0. /\ tc \in {"wait", "load", "set", "sleep", "count", "carry"}
      /\ time \in [Word -> 0 .. B - 1] /\ clock \in Time /\ last \in Time
      /\ reader \in Read
    BY DEF TypeOK, ClockTypes
<1>1. /\ reader.word \in Word /\ reader.value \in 0 .. B - 1
      /\ reader.shown \subseteq Time /\ time["lo"] \in 0 .. B - 1 /\ time["hi"] \in 0 .. B - 1
    BY <1>0 DEF Read, Word
<1>2. Shown \subseteq Time /\ clock \in Shown
    BY <1>0, <1>1, NextTime DEF Shown, ReadInv
<1>3. /\ reader.word = "lo" => stamp = reader.value + B * time["hi"]
      /\ reader.word = "hi" => stamp = time["lo"] + B * reader.value
    BY <1>0 DEF TimeOf, Word
<1>4. PICK a \in 0 .. B - 1, h \in 0 .. B - 1 :
          /\ stamp = a + B * h
          /\ a = IF reader.word = "lo" THEN reader.value ELSE time["lo"]
          /\ h = IF reader.word = "lo" THEN time["hi"] ELSE reader.value
    BY <1>1, <1>3 DEF Word
<1>5. ASSUME ~reader.crossed, tc \notin {"set", "carry"} PROVE stamp \in Shown
    <2>1. time["lo"] = clock % B /\ time["hi"] = clock \div B
        BY <1>5 DEF TimeInv, Word, WordOf
    <2>2. PICK s \in reader.shown : reader.value = WordOf(s, reader.word)
        BY <1>5 DEF ReadInv
    <2>3. s \in Time /\ s \in Shown /\ s \div B = clock \div B
        BY <1>1, <1>5, <2>2 DEF Shown, ReadInv
    <2>4. CASE reader.word = "lo"
        <3>1. a = s % B /\ h = s \div B
            BY <1>4, <2>1, <2>2, <2>3, <2>4 DEF WordOf
        <3>2. stamp = s
            BY <1>4, <2>3, <3>1, WordsMakeTime
        <3> QED
            BY <2>3, <3>2
    <2>5. CASE reader.word = "hi"
        <3>1. a = clock % B /\ h = clock \div B
            BY <1>4, <2>1, <2>2, <2>3, <2>5 DEF WordOf
        <3>2. stamp = clock
            BY <1>0, <1>4, <3>1, WordsMakeTime
        <3> QED
            BY <1>2, <3>2
    <2> QED
        BY <1>1, <2>4, <2>5 DEF Word
<1>6. \E t \in Shown : a = t % B
    <2>1. CASE reader.word = "lo"
        <3>1. a = reader.value /\ \E t \in Shown : reader.value = WordOf(t, "lo")
            BY <1>4, <2>1 DEF ReadInv
        <3> QED
            BY <3>1 DEF WordOf
    <2>2. CASE reader.word = "hi" /\ tc \notin {"set", "carry"}
        BY <1>2, <1>4, <2>2 DEF TimeInv, Word, WordOf
    <2>3. CASE reader.word = "hi" /\ tc = "set"
        <3>1. PICK t \in {last, clock} : time["lo"] = WordOf(t, "lo")
            BY <2>3 DEF TimeInv, Word
        <3>2. t \in Shown
            BY <1>2, <2>3, <3>1 DEF Shown
        <3> QED
            BY <1>4, <2>3, <3>1, <3>2 DEF WordOf
    <2>4. CASE reader.word = "hi" /\ tc = "carry"
        <3>1. time["lo"] = 0 /\ ((clock + 1) % (B * B)) % B = 0
            BY <1>0, <2>4, Increment DEF TimeInv
        <3>2. (clock + 1) % (B * B) \in Shown
            BY <2>4 DEF Shown
        <3> QED
            BY <1>4, <2>4, <3>1, <3>2
    <2> QED
        BY <1>1, <2>1, <2>2, <2>3, <2>4 DEF Word
<1>7. \E t \in Shown : (stamp - t) % B = 0
    <2>1. PICK t \in Shown : a = t % B
        BY <1>6
    <2>2. t = a + B * (t \div B) /\ t \div B \in Int
        BY <1>2, <2>1, WordsMakeTime
    <2>3. stamp - t = B * (h - t \div B)
        <3> DEFINE g == t \div B
        <3>1. B \in Nat /\ h \in Int /\ g \in Int /\ a \in Int
            BY <1>4, <2>2, ConstantTypes
        <3>2. t = a + B * g /\ stamp = a + B * h
            BY <1>4, <2>2
        <3> HIDE DEF g, stamp
        <3>3. stamp - t = B * (h - g)
            BY <3>1, <3>2
        <3> QED
            BY <3>3 DEF g
    <2>4. (B * (h - t \div B)) % B = 0
        BY <1>4, <2>2, Multiple
    <2> QED
        BY <2>3, <2>4
<1> QED
    BY <1>5, <1>7

(***************************************************************************)
(* A time read in two words was shown meanwhile, or was about to show,     *)
(* unless the high word changed; and its low word was, whatever happened:  *)
(* for words of every size and every time in the FRAM.                     *)
(***************************************************************************)
THEOREM StampHolds == Spec => []StampIsShown
<1>1. Init => TimeInv /\ ReadInv
    BY ZeroWords DEF Init, TimeInv, ReadInv
<1>2. TypeOK /\ TimeInv /\ ReadInv /\ [Next]_vars => TimeInv' /\ ReadInv'
    BY TimeStep, ReadStep
<1>3. TypeOK /\ TimeInv /\ ReadInv => StampIsShown
    BY ShownNow
<1> QED
    BY <1>1, <1>2, <1>3, TypesHold, PTL DEF Spec

-----------------------------------------------------------------------------
(***************************************************************************)
(* The system log.                                                         *)
(***************************************************************************)
(* The orderly part of the open line belongs to the holder of the mutex,   *)
(* who has not written the end of the line yet.                            *)
LineOwned ==
  \A a \in line : a[2] => holder = a[1] /\ pc[a[1]] \in {"print", "newline"}

\* Without a mutex nobody holds it.
NoMutex == ~created => holder = NoTask

IInv == LogTypeOK /\ HolderOwns /\ LineOwned /\ NoMutex /\ HaltsAreForced

LEMMA InitIInv == LogInit => IInv
<1> SUFFICES ASSUME LogInit PROVE IInv
  OBVIOUS
<1>1. LogTypeOK
  <2>1. created \in BOOLEAN /\ holder \in Tasks \cup {NoTask} /\ halted \in BOOLEAN
    BY DEF LogInit
  <2>2. pc \in [Tasks -> {"idle", "wait", "print", "newline", "give"}]
    BY DEF LogInit
  <2>3. ok \in [Tasks -> BOOLEAN] /\ line \subseteq Tasks \X BOOLEAN
    BY DEF LogInit
  <2> QED
    BY <2>1, <2>2, <2>3 DEF LogTypeOK
<1>2. HolderOwns
  <2>1. pc = [t \in Tasks |-> "idle"] /\ holder = NoTask
    BY DEF LogInit
  <2>2. \A t \in Tasks : ~Writing(t)
    BY <2>1 DEF Writing
  <2>3. \A t \in Tasks : holder # t
    BY <2>1, SysLogAssumption
  <2> QED
    BY <2>2, <2>3, Zenon DEF HolderOwns
<1>3. LineOwned /\ NoMutex /\ HaltsAreForced
  BY DEF LogInit, LineOwned, NoMutex, HaltsAreForced
<1> QED
  BY <1>1, <1>2, <1>3 DEF IInv

(* A task enters the critical section: with the mutex, which nobody held,  *)
(* or without it.                                                          *)
LEMMA EnterIInv ==
  ASSUME IInv, NEW t \in Tasks, Take(t) \/ TimeOut(t) \/ TakeWithoutMutex(t)
  PROVE  IInv'
<1>1. LogTypeOK /\ HolderOwns /\ LineOwned /\ NoMutex /\ HaltsAreForced
  BY DEF IInv
<1>2. /\ pc \in [Tasks -> {"idle", "wait", "print", "newline", "give"}]
      /\ ok \in [Tasks -> BOOLEAN] /\ holder \in Tasks \cup {NoTask}
  BY <1>1 DEF LogTypeOK
<1>3. PICK r \in BOOLEAN :
        /\ pc' = [pc EXCEPT ![t] = "print"] /\ ok' = [ok EXCEPT ![t] = r]
        /\ r => holder = NoTask /\ holder' = t /\ created
        /\ ~r => holder' = holder
  BY DEF Take, TimeOut, TakeWithoutMutex, Enter
<1>4. /\ created' = created /\ line' = line /\ halted' = halted
      /\ pc[t] \in {"idle", "wait"}
  BY DEF Take, TimeOut, TakeWithoutMutex
<1>5. holder # t
  BY <1>1, <1>4 DEF HolderOwns, Writing
<1>6. LogTypeOK'
  BY <1>1, <1>3, <1>4 DEF LogTypeOK
<1>7. HolderOwns'
  <2> SUFFICES ASSUME NEW u \in Tasks
               PROVE  (pc'[u] \in {"print", "newline", "give"} /\ ok'[u]) <=> holder' = u
    BY DEF HolderOwns, Writing
  <2>1. CASE u = t
    BY <1>2, <1>3, <1>5, <2>1
  <2>2. CASE u # t
    <3>1. pc'[u] = pc[u] /\ ok'[u] = ok[u]
      BY <1>2, <1>3, <2>2
    <3>2. holder' = u <=> holder = u
      BY <1>3, <2>2, SysLogAssumption
    <3> QED
      BY <1>1, <3>1, <3>2 DEF HolderOwns, Writing
  <2> QED
    BY <2>1, <2>2
<1>8. LineOwned'
  <2> SUFFICES ASSUME NEW a \in line, a[2]
               PROVE  holder' = a[1] /\ pc'[a[1]] \in {"print", "newline"}
    BY <1>4 DEF LineOwned
  <2>1. holder = a[1] /\ pc[a[1]] \in {"print", "newline"} /\ a[1] \in Tasks
    BY <1>1 DEF LineOwned, LogTypeOK
  <2>2. holder' = holder
    BY <1>3, <2>1, SysLogAssumption
  <2> QED
    BY <1>2, <1>3, <1>5, <2>1, <2>2
<1>9. NoMutex'
  BY <1>1, <1>3, <1>4 DEF NoMutex
<1>10. HaltsAreForced'
  BY <1>4 DEF Take, TimeOut, TakeWithoutMutex, HaltsAreForced
<1> QED
  BY <1>6, <1>7, <1>8, <1>9, <1>10 DEF IInv

(* A task that waits, prints or ends its line neither gains nor loses the  *)
(* mutex.                                                                  *)
LEMMA WriteIInv ==
  ASSUME IInv, NEW t \in Tasks, Wait(t) \/ PrintMsg(t) \/ NewLine(t)
  PROVE  IInv'
<1>1. LogTypeOK /\ HolderOwns /\ LineOwned /\ NoMutex /\ HaltsAreForced
  BY DEF IInv
<1>2. /\ pc \in [Tasks -> {"idle", "wait", "print", "newline", "give"}]
      /\ ok \in [Tasks -> BOOLEAN] /\ line \subseteq Tasks \X BOOLEAN
  BY <1>1 DEF LogTypeOK
<1>3. PICK q \in {"wait", "print", "newline", "give"} :
        /\ pc' = [pc EXCEPT ![t] = q]
        /\ Writing(t) <=> q # "wait"
        /\ q = "give" => line' = {}
        /\ line' \subseteq line \cup {<<t, ok[t]>>}
        /\ line' \subseteq line \/ pc[t] = "print"
  BY <1>2 DEF Wait, PrintMsg, NewLine, Writing
<1>4. created' = created /\ holder' = holder /\ ok' = ok /\ halted' = halted
  BY DEF Wait, PrintMsg, NewLine
<1>5. LogTypeOK'
  BY <1>1, <1>2, <1>3, <1>4 DEF LogTypeOK
<1>6. HolderOwns'
  <2> SUFFICES ASSUME NEW u \in Tasks
               PROVE  (pc'[u] \in {"print", "newline", "give"} /\ ok[u]) <=> holder = u
    BY <1>4 DEF HolderOwns, Writing
  <2>1. pc'[u] \in {"print", "newline", "give"} <=> Writing(u)
    BY <1>2, <1>3 DEF Writing
  <2> QED
    BY <1>1, <2>1 DEF HolderOwns
<1>7. LineOwned'
  <2> SUFFICES ASSUME NEW a \in line', a[2]
               PROVE  holder = a[1] /\ pc'[a[1]] \in {"print", "newline"}
    BY <1>4 DEF LineOwned
  <2>1. CASE a \in line
    <3>1. holder = a[1] /\ pc[a[1]] \in {"print", "newline"} /\ a[1] \in Tasks
      BY <1>1, <1>2, <2>1 DEF LineOwned
    <3>2. a[1] = t => pc'[t] \in {"print", "newline"}
      BY <1>2, <1>3, <3>1 DEF Writing
    <3> QED
      BY <1>2, <1>3, <3>1, <3>2
  <2>2. CASE a \notin line
    <3>1. a[1] = t /\ ok[t] /\ pc[t] = "print" /\ pc'[t] # "give" /\ pc'[t] # "wait"
      BY <1>2, <1>3, <2>2 DEF Writing
    <3>2. holder = t
      BY <1>1, <3>1 DEF HolderOwns, Writing
    <3> QED
      BY <1>2, <1>3, <3>1, <3>2
  <2> QED
    BY <2>1, <2>2
<1>8. NoMutex'
  BY <1>1, <1>4 DEF NoMutex
<1>9. HaltsAreForced'
  BY <1>4 DEF Wait, PrintMsg, NewLine, HaltsAreForced
<1> QED
  BY <1>5, <1>6, <1>7, <1>8, <1>9 DEF IInv

(* sys_log_new_line releases the mutex of its own task only.               *)
LEMMA GiveIInv ==
  ASSUME IInv, NEW t \in Tasks, Give(t)
  PROVE  IInv'
<1>1. LogTypeOK /\ HolderOwns /\ LineOwned /\ NoMutex /\ HaltsAreForced
  BY DEF IInv
<1>2. /\ pc \in [Tasks -> {"idle", "wait", "print", "newline", "give"}]
      /\ ok \in [Tasks -> BOOLEAN] /\ line \subseteq Tasks \X BOOLEAN
  BY <1>1 DEF LogTypeOK
<1>3. created' = created /\ ok' = ok /\ line' = line /\ pc[t] = "give"
  BY DEF Give
<1>4. CASE created /\ holder \notin {NoTask, t}
  <2>1. halted' = TRUE /\ holder' = holder /\ pc' = pc
    BY <1>4 DEF Give
  <2>2. ~ok[t]
    BY <1>1, <1>3, <1>4 DEF HolderOwns, Writing
  <2>3. HaltsAreForced'
    BY <1>3, <2>1, <2>2 DEF HaltsAreForced
  <2>4. LogTypeOK' /\ HolderOwns' /\ LineOwned' /\ NoMutex'
    BY <1>1, <1>3, <2>1 DEF LogTypeOK, HolderOwns, Writing, LineOwned, NoMutex
  <2> QED
    BY <2>3, <2>4 DEF IInv
<1>5. CASE ~(created /\ holder \notin {NoTask, t})
  <2>1. /\ holder' = NoTask /\ pc' = [pc EXCEPT ![t] = "idle"]
        /\ halted' = halted /\ holder \in {NoTask, t}
    BY <1>1, <1>5 DEF Give, NoMutex
  <2>2. LogTypeOK'
    BY <1>1, <1>3, <2>1 DEF LogTypeOK
  <2>3. HolderOwns'
    <3> SUFFICES ASSUME NEW u \in Tasks
                 PROVE  ~(pc'[u] \in {"print", "newline", "give"} /\ ok[u])
      BY <1>3, <2>1, SysLogAssumption DEF HolderOwns, Writing
    <3>1. CASE u = t
      BY <1>2, <2>1, <3>1
    <3>2. CASE u # t
      <4>1. pc'[u] = pc[u] /\ holder # u
        BY <1>2, <2>1, <3>2, SysLogAssumption
      <4> QED
        BY <1>1, <4>1 DEF HolderOwns, Writing
    <3> QED
      BY <3>1, <3>2
  <2>4. LineOwned'
    <3> SUFFICES ASSUME NEW a \in line, a[2] PROVE FALSE
      BY <1>3 DEF LineOwned
    <3>1. holder = a[1] /\ pc[a[1]] \in {"print", "newline"} /\ a[1] \in Tasks
      BY <1>1, <1>2 DEF LineOwned
    <3> QED
      BY <1>3, <2>1, <3>1, SysLogAssumption
  <2>5. NoMutex'
    BY <2>1 DEF NoMutex
  <2>6. HaltsAreForced'
    BY <2>1 DEF Give, HaltsAreForced
  <2> QED
    BY <2>2, <2>3, <2>4, <2>5, <2>6 DEF IInv
<1> QED
  BY <1>4, <1>5

(* The types of the log, the holder of its mutex and the open line agree:  *)
(* the inductive invariant of SysLog.                                      *)
THEOREM InductiveInvariant == LogSpec => []IInv
<1>1. IInv /\ [LogNext]_logVars => IInv'
  <2> SUFFICES ASSUME IInv, [LogNext]_logVars PROVE IInv'
    OBVIOUS
  <2>1. CASE LogNext
    BY <2>1, EnterIInv, WriteIInv, GiveIInv DEF LogNext
  <2>2. CASE UNCHANGED logVars
    BY <2>2 DEF logVars, IInv, LogTypeOK, HolderOwns, Writing, LineOwned, NoMutex, HaltsAreForced
  <2> QED
    BY <2>1, <2>2
<1> QED
  BY <1>1, InitIInv, PTL DEF LogSpec

(* Whatever time-outs expire, the mutex is with the task that took it for  *)
(* as long as that task writes its line, and with nobody else.             *)
THEOREM MutexIsOwned == LogSpec => []HolderOwns
<1>1. IInv => HolderOwns
  BY DEF IInv
<1> QED
  BY <1>1, InductiveInvariant, PTL

(* The kernel's assertion only ever fails in a task whose take has failed. *)
THEOREM OnlyForcedHalt == LogSpec => []HaltsAreForced
<1>1. IInv => HaltsAreForced
  BY DEF IInv
<1> QED
  BY <1>1, InductiveInvariant, PTL

-----------------------------------------------------------------------------
(* Refinement of LineLog: the open line has at most one orderly writer.    *)
OneWriter ==
  /\ \A u \in Tasks : Owned(u) => Writer = u
  /\ (\A u \in Tasks : ~Owned(u)) => Writer = NoTask

LEMMA IInvOneWriter == IInv => OneWriter
<1> SUFFICES ASSUME IInv PROVE OneWriter
  OBVIOUS
<1>1. (\A u \in Tasks : ~Owned(u)) => Writer = NoTask
  BY Zenon DEF Writer
<1>2. ASSUME NEW u \in Tasks, Owned(u) PROVE Writer = u
  <2>1. ASSUME NEW v \in Tasks, Owned(v) PROVE holder = v
    <3>1. <<v, TRUE>>[1] = v /\ <<v, TRUE>>[2] = TRUE /\ <<v, TRUE>> \in line
      BY <2>1 DEF Owned
    <3> QED
      BY <3>1, Zenon DEF IInv, LineOwned
  <2>2. \A v \in Tasks : Owned(v) <=> v = u
    BY <1>2, <2>1
  <2>3. Writer = CHOOSE v \in Tasks : Owned(v)
    BY <1>2, Zenon DEF Writer
  <2>4. Writer \in Tasks /\ Owned(Writer)
    BY <1>2, <2>3, Zenon
  <2> QED
    BY <2>2, <2>4
<1> QED
  BY <1>1, <1>2 DEF OneWriter

LEMMA NextOneWriter == IInv' => OneWriter'
  BY IInvOneWriter, PTL

(* Every step of the log is a step of LineLog: text printed with the mutex *)
(* is written by the holder, text printed without it is not the LineLog's. *)
LEMMA NextWritesLines ==
  ASSUME IInv, IInv', NEW t \in Tasks,
         \/ Take(t) \/ Wait(t) \/ TimeOut(t) \/ TakeWithoutMutex(t)
         \/ PrintMsg(t) \/ NewLine(t) \/ Give(t)
  PROVE  [Console!Next]_Writer
<1>1. LogTypeOK /\ HolderOwns /\ LineOwned /\ OneWriter /\ OneWriter'
  BY IInvOneWriter, NextOneWriter DEF IInv
<1>2. CASE PrintMsg(t) /\ ok[t]
  <2>1. holder = t /\ line' = line \cup {<<t, TRUE>>}
    BY <1>1, <1>2 DEF PrintMsg, Writing, HolderOwns, LogTypeOK
  <2>2. ASSUME NEW u \in Tasks, Owned(u) PROVE u = t
    <3>1. <<u, TRUE>>[1] = u /\ <<u, TRUE>>[2] = TRUE /\ <<u, TRUE>> \in line
      BY <2>2 DEF Owned
    <3>2. holder = u
      BY <1>1, <3>1, Zenon DEF LineOwned
    <3> QED
      BY <2>1, <3>2
  <2>3. Writer \in {NoTask, t}
    BY <1>1, <2>2, Zenon DEF OneWriter
  <2>4. Owned(t)'
    BY <2>1 DEF Owned
  <2>5. Writer' = t
    BY <1>1, <2>4, Zenon DEF OneWriter
  <2> QED
    BY <2>3, <2>5 DEF Console!Next, Console!Write
<1>3. CASE NewLine(t)
  <2>1. \A u \in Tasks : ~Owned(u)'
    BY <1>3 DEF NewLine, Owned
  <2>2. Writer' = NoTask
    BY <1>1, <2>1, Zenon DEF OneWriter
  <2> QED
    BY <2>2 DEF Console!Next, Console!EndLine
<1>4. CASE ~(PrintMsg(t) /\ ok[t]) /\ ~NewLine(t)
  <2>1. line' = line \/ line' = line \cup {<<t, FALSE>>}
    BY <1>1, <1>4 DEF Take, Wait, TimeOut, TakeWithoutMutex, PrintMsg, Give, LogTypeOK
  <2>2. ASSUME NEW u \in Tasks PROVE Owned(u)' <=> Owned(u)
    <3>1. <<u, TRUE>> # <<t, FALSE>>
      OBVIOUS
    <3>2. <<u, TRUE>> \in line' <=> <<u, TRUE>> \in line
      BY <2>1, <3>1
    <3> QED
      BY <3>2 DEF Owned
  <2>3. Writer' = Writer
    <3>1. CASE \E u \in Tasks : Owned(u)
      BY <1>1, <2>2, <3>1, Zenon DEF OneWriter
    <3>2. CASE \A u \in Tasks : ~Owned(u)
      BY <1>1, <2>2, <3>2, Zenon DEF OneWriter
    <3> QED
      BY <3>1, <3>2
  <2> QED
    BY <2>3
<1> QED
  BY <1>2, <1>3, <1>4

(* What is written with the mutex is a LineLog, for every set of tasks and *)
(* whatever time-outs expire.                                              *)
THEOREM LinesAreWhole == LogSpec => ImplementsLineLog
<1>1. LogInit => Console!Init
  <2> SUFFICES ASSUME LogInit PROVE Writer = NoTask
    BY DEF Console!Init
  <2>1. \A u \in Tasks : ~Owned(u)
    BY DEF LogInit, Owned
  <2> QED
    BY <2>1, Zenon DEF Writer
<1>2. IInv /\ IInv' /\ [LogNext]_logVars => [Console!Next]_Writer
  <2> SUFFICES ASSUME IInv, IInv', [LogNext]_logVars PROVE [Console!Next]_Writer
    OBVIOUS
  <2>1. CASE LogNext
    BY <2>1, NextWritesLines DEF LogNext
  <2>2. CASE UNCHANGED logVars
    BY <2>2 DEF logVars, Writer, Owned
  <2> QED
    BY <2>1, <2>2
<1> QED
  BY <1>1, <1>2, InductiveInvariant, PTL DEF LogSpec, ImplementsLineLog, Console!Spec

-----------------------------------------------------------------------------
(* Without failures every writer has the mutex.                            *)
Orderly == created /\ \A t \in Tasks : Writing(t) => ok[t]

LEMMA NextOrderly ==
  ASSUME Failures = {}, LogTypeOK, Orderly, [LogNext]_logVars
  PROVE  Orderly'
<1>1. /\ pc \in [Tasks -> {"idle", "wait", "print", "newline", "give"}]
      /\ ok \in [Tasks -> BOOLEAN]
  BY DEF LogTypeOK
<1>2. CASE UNCHANGED logVars
  BY <1>2 DEF logVars, Orderly, Writing
<1>3. ASSUME NEW t \in Tasks, Take(t) PROVE Orderly'
  BY <1>1, <1>3 DEF Take, Enter, Orderly, Writing
<1>4. ASSUME NEW t \in Tasks, TimeOut(t) \/ TakeWithoutMutex(t) PROVE Orderly'
  BY <1>4 DEF TimeOut, TakeWithoutMutex, Orderly
<1>5. ASSUME NEW t \in Tasks, Wait(t) \/ PrintMsg(t) \/ NewLine(t) \/ Give(t)
      PROVE  Orderly'
  <2>1. created' = created /\ ok' = ok
    BY <1>5 DEF Wait, PrintMsg, NewLine, Give
  <2>2. ASSUME NEW u \in Tasks PROVE Writing(u)' => Writing(u)
    BY <1>1, <1>5 DEF Wait, PrintMsg, NewLine, Give, Writing
  <2> QED
    BY <2>1, <2>2 DEF Orderly
<1> QED
  BY <1>2, <1>3, <1>4, <1>5 DEF LogNext

(* If every take gets the mutex in time, no task gives a mutex it does not *)
(* hold and the system never stops in configASSERT.                        *)
THEOREM NeverHalts == ASSUME Failures = {} PROVE LogSpec => []GivenByHolder
<1>1. LogInit => Orderly
  BY DEF LogInit, Orderly, Writing
<1>2. IInv /\ Orderly /\ [LogNext]_logVars => Orderly'
  BY NextOrderly DEF IInv
<1>3. IInv /\ Orderly => GivenByHolder
  BY DEF IInv, Orderly, HaltsAreForced, Writing, GivenByHolder
<1> QED
  BY <1>1, <1>2, <1>3, InductiveInvariant, PTL DEF LogSpec
=============================================================================
