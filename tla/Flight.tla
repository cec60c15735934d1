------------------------------- MODULE Flight -------------------------------
(***************************************************************************)
(* What keeps the computer going from one reset to the next, in ticks of   *)
(* the kernel: start-up (main.c, app/tasks/startup.c), the two watchdogs   *)
(* and the task that resets them (devices/watchdog, watchdog_reset.c), the *)
(* clock and the task that counts it (system/system.c, time_control.c) and *)
(* the task that restarts the computer (system_reset.c).                   *)
(*                                                                         *)
(* The watchdog task has the lowest priority but idle: all other tasks and *)
(* main together keep it from the processor for a stretch of ticks, the    *)
(* burst, and their statements run within one.  A task that is due gets    *)
(* its burst before the next tick and its next statement before the burst  *)
(* ends; the watchdog task gets one statement at least between two bursts. *)
(***************************************************************************)
EXTENDS Integers, FiniteSets

CONSTANTS
    FeedPeriod,     \* TASK_WATCHDOG_RESET_PERIOD_MS
    IntLimit,       \* time-out of the internal watchdog
    ExtLimit,       \* time-out of the TPS3823
    MaxBurst,       \* the longest burst of a computer that does not hang
    Sec,            \* TASK_TIME_CONTROL_PERIOD_MS
    WaitTicks,      \* TASK_TIME_CONTROL_INIT_TIMEOUT_MS
    ResetPeriod,    \* TASK_SYSTEM_RESET_PERIOD_MS
    B,              \* values of a word of the processor
    Saved,          \* the times the FRAM may hold
    None

ASSUME FlightAssumption ==
    /\ {FeedPeriod, MaxBurst, Sec, WaitTicks, ResetPeriod, B} \subseteq Nat \ {0}
    /\ {IntLimit, ExtLimit} \subseteq Nat
    /\ MaxBurst < Sec /\ B > 1
    /\ Saved \subseteq 0 .. B * B - 1

(* The time a burst may cost each of the three statements of the watchdog task: *)
(* the internal watchdog waits for the rest of a period and two bursts, or for  *)
(* three bursts that are longer; the external one for a period and three.       *)
ASSUME BurstAssumption ==
    /\ FeedPeriod + 2 * MaxBurst < IntLimit /\ 3 * MaxBurst < IntLimit
    /\ FeedPeriod + 3 * MaxBurst < ExtLimit

VARIABLES
    record,     \* the time in the FRAM, None when it has none that is valid
    boot,       \* how far vTaskStartup has come
    fram,       \* fram_conf is set
    burst,      \* ticks until the watchdog task gets the processor
    hung,       \* whether it never will
    wd,         \* the statement of vTaskWatchdogReset that comes next
    feed,       \* ticks until its next cycle
    int,        \* ticks since the internal watchdog was reset
    ext,        \* ticks since the external one was
    tc,         \* the statement of vTaskTimeControl that comes next
    nap,        \* ticks until it wakes
    last,       \* last_sys_time
    time,       \* sys_time, in two words
    clock,      \* history: the time the last complete update left
    slack,      \* history: ticks that have passed, less those of the seconds counted
    reader,     \* a system_get_time that has read one word
    resetIn     \* ticks until vTaskSystemReset wakes

watchdogs == <<wd, feed, int, ext>>
clockwork == <<tc, nap, last, time, clock, slack>>
vars == <<record, boot, fram, burst, hung, watchdogs, clockwork, reader, resetIn>>

Word    == {"lo", "hi"}
WordOf(t, w) == IF w = "lo" THEN t % B ELSE t \div B
TimeOf(f) == f["lo"] + B * f["hi"]

(***************************************************************************)
(* What a reset leaves: the FRAM keeps its record, all else starts again,  *)
(* main and the first tasks with it.                                       *)
(***************************************************************************)
Reset ==
    /\ boot' = "fram" /\ fram' = FALSE
    /\ burst' \in 1 .. MaxBurst /\ hung' = FALSE
    /\ wd' = "cycle" /\ feed' = 0 /\ int' = 0 /\ ext' = 0
    /\ tc' = "wait" /\ nap' = WaitTicks /\ last' = 0
    /\ time' = [w \in Word |-> 0] /\ clock' = 0 /\ slack' = 0
    /\ reader' = None /\ resetIn' = ResetPeriod
    /\ UNCHANGED record

Init ==
    /\ boot = "fram" /\ fram = FALSE
    /\ burst \in 1 .. MaxBurst /\ hung = FALSE
    /\ wd = "cycle" /\ feed = 0 /\ int = 0 /\ ext = 0
    /\ tc = "wait" /\ nap = WaitTicks /\ last = 0
    /\ time = [w \in Word |-> 0] /\ clock = 0 /\ slack = 0
    /\ reader = None /\ resetIn = ResetPeriod
    /\ record \in Saved \cup {None}

-----------------------------------------------------------------------------
(* What is due, and keeps the tick from coming before it has begun. *)
FeedDue  == feed = 0 \/ wd # "cycle"

TimeDueWhenBooted == \* mutant: the wait for start-up has no time-out
    IF tc = "wait" THEN boot = "done"
    ELSE tc \in {"load", "set", "count", "carry"} \/ nap = 0

TimeDue  == IF tc = "wait" THEN nap = 0 \/ boot = "done"
            ELSE tc \in {"load", "set", "count", "carry"} \/ nap = 0
ResetDue == resetIn = 0
Bitten   == int >= IntLimit \/ ext >= ExtLimit

After(n) == IF n = 0 THEN 0 ELSE n - 1

(* Higher tasks wake and take the processor; or one of them never stops. *)
Wake(n) ==
    /\ burst = 0 /\ ~FeedDue /\ ~Bitten
    /\ burst' = n
    /\ UNCHANGED <<record, boot, fram, hung, watchdogs, clockwork, reader, resetIn>>

Hang ==
    /\ burst > 0 /\ ~hung
    /\ hung' = TRUE
    /\ UNCHANGED <<record, boot, fram, burst, watchdogs, clockwork, reader, resetIn>>

MaxSlack == 2 * Sec     \* bound: what passes beyond two seconds does not matter

TickFeeds == \* mutant: the tick interrupt resets the watchdogs
    /\ ~Bitten
    /\ hung \/ IF burst = 0 THEN ~FeedDue /\ ~TimeDue /\ ~ResetDue
                            ELSE burst > 1 \/ (~TimeDue /\ ~ResetDue)
    /\ burst' = IF hung THEN burst ELSE After(burst)
    /\ feed' = After(feed) /\ int' = 0 /\ ext' = 0
    /\ nap' = After(nap) /\ resetIn' = After(resetIn)
    /\ slack' = IF slack < MaxSlack THEN slack + 1 ELSE slack
    /\ UNCHANGED <<record, boot, fram, hung, wd, tc, last, time, clock, reader>>

(***************************************************************************)
(* A tick of the kernel, which is one of every counter.                    *)
(***************************************************************************)
Tick ==
    /\ ~Bitten
    /\ hung \/ IF burst = 0 THEN ~FeedDue /\ ~TimeDue /\ ~ResetDue
                            ELSE burst > 1 \/ (~TimeDue /\ ~ResetDue)
    /\ burst' = IF hung THEN burst ELSE After(burst)
    /\ feed' = After(feed) /\ int' = int + 1 /\ ext' = ext + 1
    /\ nap' = After(nap) /\ resetIn' = After(resetIn)
    /\ slack' = IF slack < MaxSlack THEN slack + 1 ELSE slack
    /\ UNCHANGED <<record, boot, fram, hung, wd, tc, last, time, clock, reader>>

-----------------------------------------------------------------------------
(***************************************************************************)
(* vTaskWatchdogReset: last_cycle is read, wdt_reset, tps382x_trigger and  *)
(* vTaskDelayUntil.  After each statement a burst may begin.               *)
(***************************************************************************)
Cycle ==
    /\ burst = 0 /\ wd = "cycle" /\ feed = 0
    /\ wd' = "int" /\ feed' = FeedPeriod
    /\ burst' \in 0 .. MaxBurst
    /\ UNCHANGED <<record, boot, fram, hung, int, ext, clockwork, reader, resetIn>>

FeedInt ==
    /\ burst = 0 /\ wd = "int"
    /\ wd' = "ext" /\ int' = 0
    /\ burst' \in 0 .. MaxBurst
    /\ UNCHANGED <<record, boot, fram, hung, feed, ext, clockwork, reader, resetIn>>

FeedIntOnly == \* mutant: the pin of the external watchdog does not toggle
    /\ burst = 0 /\ wd = "ext"
    /\ wd' = "cycle" /\ ext' = ext
    /\ burst' \in 0 .. MaxBurst
    /\ UNCHANGED <<record, boot, fram, hung, feed, int, clockwork, reader, resetIn>>

FeedExt ==
    /\ burst = 0 /\ wd = "ext"
    /\ wd' = "cycle" /\ ext' = 0
    /\ burst' \in 0 .. MaxBurst
    /\ UNCHANGED <<record, boot, fram, hung, feed, int, clockwork, reader, resetIn>>

(* A watchdog that has run out resets the computer. *)
WatchdogReset == Bitten /\ Reset

(* vTaskSystemReset: system_reset, a software brownout reset. *)
SystemReset == burst > 0 /\ ResetDue /\ Reset

-----------------------------------------------------------------------------
(***************************************************************************)
(* vTaskStartup: media_init of the FRAM, which hardware of the first       *)
(* version does not have; and the bit that says that start-up is over.     *)
(***************************************************************************)
InitFram ==
    /\ burst > 0 /\ boot = "fram"
    /\ boot' = "devices" /\ fram' \in BOOLEAN
    /\ UNCHANGED <<record, burst, hung, watchdogs, clockwork, reader, resetIn>>

StartupDone ==
    /\ burst > 0 /\ boot = "devices"
    /\ boot' = "done"
    /\ UNCHANGED <<record, fram, burst, hung, watchdogs, clockwork, reader, resetIn>>

-----------------------------------------------------------------------------
(***************************************************************************)
(* vTaskTimeControl.  Runs(l) is that it stands at l and has the           *)
(* processor.  Words are written one at a time: of the two of an           *)
(* assignment the compiler chooses which is first; of an increment it is   *)
(* the low one, whose carry the high one needs.                            *)
(***************************************************************************)
Runs(l) == burst > 0 /\ tc = l
Elsewhere == UNCHANGED <<record, boot, fram, burst, hung, watchdogs, resetIn>>

(* The time has changed to t, and a read that is under way sees it change. *)
Updated(t) ==
    /\ clock' = t
    /\ reader' = IF reader = None THEN None
                 ELSE [reader EXCEPT !.shown = @ \cup {t},
                                     !.crossed = @ \/ t \div B # clock \div B]

(***************************************************************************)
(* time_control_load_sys_time: before media_init has set fram_conf the     *)
(* read goes to another chip, and what comes is taken for no valid record. *)
(***************************************************************************)
Load ==
    /\ Runs("wait") /\ TimeDue
    /\ tc' = "load"
    /\ last' = IF fram /\ record # None THEN record ELSE 0
    /\ Elsewhere /\ UNCHANGED <<nap, time, clock, slack, reader>>

(* system_set_time, and the delay before the first second. *)
SetFirst(w) ==
    /\ Runs("load") /\ tc' = "set"
    /\ time' = [time EXCEPT ![w] = WordOf(last, w)]
    /\ Elsewhere /\ UNCHANGED <<nap, last, clock, slack, reader>>

SetSecondAtOnce == \* mutant: the first second is counted at once
    /\ Runs("set") /\ tc' = "sleep"
    /\ nap' = 0
    /\ time' = [w \in Word |-> WordOf(last, w)] /\ slack' = 0
    /\ Updated(last)
    /\ Elsewhere /\ UNCHANGED last

SetSecond ==
    /\ Runs("set") /\ tc' = "sleep"
    /\ nap' = Sec
    /\ time' = [w \in Word |-> WordOf(last, w)] /\ slack' = 0
    /\ Updated(last)
    /\ Elsewhere /\ UNCHANGED last

(* Its cycle: last_cycle is read, system_increment_time, vTaskDelayUntil. *)
NextSecond ==
    /\ Runs("sleep") /\ nap = 0
    /\ tc' = "count" /\ nap' = Sec
    /\ Elsewhere /\ UNCHANGED <<last, time, clock, slack, reader>>

CountLowOnly == \* mutant: the low word wraps without a carry
    /\ Runs("count") /\ tc' = "sleep"
    /\ time' = [time EXCEPT !["lo"] = (@ + 1) % B]
    /\ slack' = slack - Sec
    /\ Updated((clock + 1) % (B * B))
    /\ Elsewhere /\ UNCHANGED <<nap, last>>

Count ==
    /\ Runs("count")
    /\ time' = [time EXCEPT !["lo"] = (@ + 1) % B]
    /\ slack' = slack - Sec
    /\ IF time["lo"] = B - 1
       THEN tc' = "carry" /\ UNCHANGED <<clock, reader>>
       ELSE tc' = "sleep" /\ Updated((clock + 1) % (B * B))
    /\ Elsewhere /\ UNCHANGED <<nap, last>>

Carry ==
    /\ Runs("carry") /\ tc' = "sleep"
    /\ time' = [time EXCEPT !["hi"] = (@ + 1) % B]
    /\ Updated((clock + 1) % (B * B))
    /\ Elsewhere /\ UNCHANGED <<nap, last, slack>>

-----------------------------------------------------------------------------
(***************************************************************************)
(* system_get_time, in a task above or below vTaskTimeControl.             *)
(***************************************************************************)
ReadFirst(w) ==
    /\ burst > 0 /\ reader = None
    /\ reader' = [word |-> w, value |-> time[w], shown |-> {clock},
                  crossed |-> tc \in {"set", "carry"}]
    /\ Elsewhere /\ UNCHANGED clockwork

ReadSecond ==
    /\ burst > 0 /\ reader # None
    /\ reader' = None
    /\ Elsewhere /\ UNCHANGED clockwork

-----------------------------------------------------------------------------
TimeControl == \/ Load \/ SetSecond \/ NextSecond \/ Count \/ Carry
               \/ \E w \in Word : SetFirst(w)

Startup == InitFram \/ StartupDone

Watchdog == Cycle \/ FeedInt \/ FeedExt

Next == \/ Tick \/ Hang \/ Watchdog \/ WatchdogReset \/ SystemReset \/ Startup
        \/ \E n \in 1 .. MaxBurst : Wake(n)
        \/ TimeControl \/ ReadSecond \/ \E w \in Word : ReadFirst(w)

Spec == Init /\ [][Next]_vars

(***************************************************************************)
(* The tick comes and a watchdog that has run out bites; a task that is    *)
(* due runs if the computer does not hang, whether or not it may in a hang.*)
(***************************************************************************)
Fairness == /\ WF_vars(Tick) /\ WF_vars(WatchdogReset)
            /\ WF_vars(~hung /\ SystemReset) /\ WF_vars(~hung /\ TimeControl)
            /\ WF_vars(Watchdog) /\ WF_vars(\E n \in 1 .. MaxBurst : Wake(n))

FairSpec == Spec /\ Fairness

-----------------------------------------------------------------------------
Time == 0 .. B * B - 1

Read == [word : Word, value : 0 .. B - 1, shown : SUBSET Time, crossed : BOOLEAN]

ProcessorTypes ==
    /\ record \in Saved \cup {None}
    /\ boot \in {"fram", "devices", "done"} /\ fram \in BOOLEAN
    /\ burst \in 0 .. MaxBurst /\ hung \in BOOLEAN /\ resetIn \in 0 .. ResetPeriod

WatchdogTypes ==
    /\ wd \in {"cycle", "int", "ext"} /\ feed \in 0 .. FeedPeriod
    /\ int \in 0 .. IntLimit /\ ext \in 0 .. ExtLimit

ClockTypes ==
    /\ tc \in {"wait", "load", "set", "sleep", "count", "carry"}
    /\ nap \in Nat /\ nap <= Sec + WaitTicks
    /\ slack \in Int /\ slack <= MaxSlack
    /\ last \in Time /\ time \in [Word -> 0 .. B - 1] /\ clock \in Time
    /\ reader \in Read \cup {None}

TypeOK == ProcessorTypes /\ WatchdogTypes /\ ClockTypes

(***************************************************************************)
(* Only a computer that hangs is reset by a watchdog: the burst before     *)
(* each statement of the watchdog task costs neither watchdog its limit.   *)
(***************************************************************************)
NoFalseReset == Bitten => hung

(***************************************************************************)
(* A time that is read in two words is one the clock showed while it was   *)
(* read, or was about to show, unless the high word changed meanwhile;     *)
(* even then it is off by whole turns of the low word.                     *)
(***************************************************************************)
Shown == reader.shown \cup {t \in {last} : tc = "set"}
                      \cup {t \in {(clock + 1) % (B * B)} : tc = "carry"}

StampIsShown ==
    reader # None =>
        LET stamp == TimeOf([time EXCEPT ![reader.word] = reader.value])
        IN  /\ stamp \in Shown \/ reader.crossed \/ tc \in {"set", "carry"}
            /\ \E t \in Shown : (stamp - t) % B = 0

(***************************************************************************)
(* The clock never runs fast: it has counted no second that has not passed *)
(* since it was set, however late the one before was counted.              *)
(***************************************************************************)
NeverFast == slack >= 0

(***************************************************************************)
(* A hang ends, whatever task hangs and wherever.                          *)
(***************************************************************************)
HangEnds == hung ~> ~hung

(***************************************************************************)
(* A computer that does not hang counts seconds for ever, however often it *)
(* is reset and whether or not start-up is ever over.                      *)
(***************************************************************************)
ClockRuns == <>[]~hung => []<>(tc = "count")
=============================================================================
