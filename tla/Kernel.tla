------------------------------- MODULE Kernel -------------------------------
(***************************************************************************)
(* The kernel services the firmware's tasks use, as those tasks use them:  *)
(* one Starter sleeps in its drivers, sets the start-up bit and suspends   *)
(* itself for ever (app/tasks/startup.c); every other task waits for the   *)
(* bit with a timeout and then runs for ever a cycle in which it may log   *)
(* an event, which takes the mutex of the system log with a timeout and    *)
(* gives it back, and at the end of which it sleeps (app/tasks/*.c).       *)
(*                                                                         *)
(* One task runs at a time.  Between any two of its steps the tick         *)
(* interrupt may come.  The steps are cut where interrupts are enabled     *)
(* and the scheduler is not locked: what a call does between               *)
(* vTaskSuspendAll and xTaskResumeAll is one step, in which ticks may      *)
(* pend, as nothing else can run and no tick is counted there.             *)
(***************************************************************************)
EXTENDS Scheduler

CONSTANTS
    Starter,        \* xTaskStartupHandle
    Idle,           \* the idle task, always ready at priority 0
    Created,        \* the other tasks, in the order create_tasks creates them
    Base,           \* uxBasePriority of each task
    Period,         \* ticks a task sleeps in each cycle, the Starter once
    Until,          \* the tasks that sleep with vTaskDelayUntil; others use vTaskDelay
    Loggers,        \* the tasks that log
    TakeTicks,      \* SYS_LOG_MUTEX_WAIT_TIME_MS
    BitTicks,       \* TASK_..._INIT_TIMEOUT_MS of each task
    MaxPended       \* bound: ticks that pend while the scheduler is locked

Tasks  == Task \ {Idle}
Worker == Tasks \ {Starter}

ASSUME KernelAssumption ==
    /\ Idle \in Task /\ Starter \in Tasks
    /\ MaxPriorities \in Nat \ {0} /\ NULL \notin Task /\ Mark \notin Task
    /\ Created \in Seq(Tasks) /\ {Created[i] : i \in DOMAIN Created} = Tasks
    /\ \A i, j \in DOMAIN Created : Created[i] = Created[j] => i = j
    /\ Base \in [Task -> Priority] /\ \A t \in Task : Base[t] = 0 <=> t = Idle
    /\ Until \subseteq Worker /\ Loggers \subseteq Worker
    /\ Period \in [Tasks -> 1 .. MaxDelay - 1]
    /\ TakeTicks \in 1 .. MaxDelay - 1 /\ BitTicks \in [Worker -> 1 .. MaxDelay - 1]
    /\ MaxPended \in Nat

VARIABLES
    k,          \* the scheduler
    holder,     \* xMutexHolder; the mutex is there to take when it is NULL
    bit,        \* TASK_STARTUP_DONE in the event group
    pc,         \* where each task is
    left,       \* xTicksToWait of xQueueSemaphoreTake
    entered,    \* xTimeOnEntering, once xEntryTimeSet
    inherited,  \* xInheritanceOccurred
    last,       \* last_cycle
    waited,     \* history: the ticks since xTimeOnEntering was first set
    age,        \* history: the ticks since last_cycle was read, up to W
    halted      \* whether a configASSERT has failed

local == <<left, entered, inherited, last>>
vars  == <<k, holder, bit, pc, local, waited, age, halted>>

Unset == -1

Location == {"devices", "boot", "waited", "cycle", "take", "suspend", "blocked", "expired",
             "giveup", "logging", "sleep", "slept", "began", "stop", "stopping", "stopped"}

(***************************************************************************)
(* create_tasks, vTaskStartScheduler: the tasks are made ready in the      *)
(* order they are created, and the last of the highest priority runs.      *)
(***************************************************************************)
AddNewTask(s, t) ==
    AddToReady([s EXCEPT !.cur = IF Base[@] <= Base[t] THEN t ELSE @], t)

Started ==
    LET k0 == [tick |-> 0, unblock |-> MaxDelay, delayed |-> <<>>, overflow |-> <<>>,
               ready |-> [p \in Priority |-> EmptyRing], top |-> 0, parked |-> {},
               cur |-> Created[1], locked |-> FALSE, pended |-> 0, yield |-> FALSE,
               prio |-> Base, stale |-> Task, mwait |-> <<>>, bwait |-> <<>>]
        f[i \in 0 .. Len(Created)] ==
               IF i = 0 THEN k0 ELSE AddNewTask(f[i - 1], Created[i])
    IN  AddToReady(f[Len(Created)], Idle)

Init ==
    /\ k = Started
    /\ holder = NULL /\ bit = FALSE /\ halted = FALSE
    /\ pc = [t \in Tasks |-> IF t = Starter THEN "devices" ELSE "boot"]
    /\ left = [t \in Worker |-> 0]
    /\ entered = [t \in Worker |-> Unset]
    /\ inherited = [t \in Worker |-> FALSE]
    /\ last = [t \in Worker |-> 0]
    /\ waited = [t \in Worker |-> 0]
    /\ age = [t \in Until |-> W]

At(t, l)     == ~halted /\ k.cur = t /\ pc[t] = l
Go(t, l)     == pc' = [pc EXCEPT ![t] = l]
Put(f, t, v) == f' = [f EXCEPT ![t] = v]

(* n ticks more have passed; the histories are cut where they stop to matter. *)
More(h, n, most) == IF h + n < most THEN h + n ELSE most

Later(n) ==
    /\ waited' = [t \in Worker |-> IF entered[t] = Unset THEN 0
                                   ELSE More(waited[t], n, TakeTicks)]
    /\ age' = [t \in Until |-> More(age[t], n, W)]

(***************************************************************************)
(* vTaskSuspendAll, and n ticks before xTaskResumeAll.                     *)
(***************************************************************************)
Suspended(n) == LET f[j \in 0 .. n] == IF j = 0 THEN SuspendAll(k) ELSE TickISR(f[j - 1])
                IN  f[n]

Ticking(n) == n \in 0 .. MaxPended /\ Later(n)

(* xTaskResumeAll and, when it has not yielded, portYIELD_WITHIN_API at l. *)
ResumeThen(s, t, done, l) ==
    /\ k' = ResumeAll(s)
    /\ Go(t, IF Yielded(s) THEN done ELSE l)

-----------------------------------------------------------------------------
(***************************************************************************)
(* xEventGroupWaitBits(task_startup_status, TASK_STARTUP_DONE, pdFALSE,    *)
(* pdTRUE, timeout); what it returns is not looked at.                     *)
(***************************************************************************)
WaitBits(t, n) ==
    /\ At(t, "boot") /\ t \in Worker /\ Ticking(n)
    /\ IF bit THEN k' = ResumeAll(Suspended(n)) /\ Go(t, "cycle")
              ELSE ResumeThen(PlaceOnUnorderedEventList(Suspended(n), BitTicks[t]), t,
                              "cycle", "waited")
    /\ UNCHANGED <<holder, bit, local, halted>>

(* portYIELD_WITHIN_API after a call that has put its caller to sleep. *)
PortYield(t) ==
    /\ \/ At(t, "waited")  /\ Go(t, "cycle")
       \/ At(t, "blocked") /\ Go(t, "take")
       \/ At(t, "slept")   /\ Go(t, "cycle")
       \/ At(t, "stopped") /\ UNCHANGED pc
       \/ At(t, "began")   /\ Go(t, "boot")
    /\ k' = SwitchContext(k)
    /\ UNCHANGED <<holder, bit, local, waited, age, halted>>

-----------------------------------------------------------------------------
(***************************************************************************)
(* vTaskStartup: drivers of the devices it initialises sleep (vTaskDelay); *)
(* then xEventGroupSetBits, and vTaskSuspend of itself.                    *)
(***************************************************************************)
InitDevices(n) ==
    /\ At(Starter, "devices") /\ Ticking(n)
    /\ ResumeThen(AddToDelayed(Suspended(n), Period[Starter], FALSE), Starter, "boot", "began")
    /\ UNCHANGED <<holder, bit, local, halted>>

SetBits(n) ==
    /\ At(Starter, "boot") /\ Ticking(n)
    /\ bit' = TRUE
    /\ k' = ResumeAll(RemoveAllFromUnorderedEventList(Suspended(n)))
    /\ Go(Starter, "stop")
    /\ UNCHANGED <<holder, local, halted>>

(* The two critical sections of vTaskSuspend, before its portYIELD. *)
Suspend ==
    /\ \/ /\ At(Starter, "stop") /\ Go(Starter, "stopping")
          /\ k' = [RemoveFromReady(k, Starter) EXCEPT !.parked = @ \cup {Starter}]
       \/ /\ At(Starter, "stopping") /\ Go(Starter, "stopped")
          /\ k' = ResetNextUnblock(k)
    /\ UNCHANGED <<holder, bit, local, waited, age, halted>>

-----------------------------------------------------------------------------
(***************************************************************************)
(* A cycle of a task: the tick is read, an event is logged or not, and the *)
(* task sleeps.                                                            *)
(***************************************************************************)
Cycle(t) ==
    /\ At(t, "cycle")
    /\ \/ Go(t, "sleep") /\ UNCHANGED left
       \/ t \in Loggers /\ Go(t, "take") /\ Put(left, t, TakeTicks)
    /\ IF t \in Until THEN Put(last, t, k.tick) /\ Put(age, t, 0)
                      ELSE UNCHANGED <<last, age>>
    /\ UNCHANGED <<k, holder, bit, entered, inherited, waited, halted>>

(* vTaskDelayUntil and vTaskDelay. *)
Sleep(t, n) ==
    /\ At(t, "sleep") /\ Ticking(n)
    /\ LET k0   == Suspended(n)
           wake == TimeToWake(last[t], Period[t])
           s    == IF t \notin Until THEN AddToDelayed(k0, Period[t], FALSE)
                   ELSE IF ShouldDelay(k0.tick, last[t], Period[t])
                   THEN AddToDelayed(k0, Elapsed(k0.tick, wake), FALSE) ELSE k0
       IN  ResumeThen(s, t, "cycle", "slept")
    /\ Put(last, t, 0)
    /\ UNCHANGED <<holder, bit, left, entered, inherited, halted>>

-----------------------------------------------------------------------------
(***************************************************************************)
(* sys_log_mutex_take: xQueueSemaphoreTake.  Returns goes on to log, with  *)
(* the mutex or without it: sys_log.c does not look at what take returns.  *)
(***************************************************************************)
Returns(t) ==
    /\ Go(t, "logging")
    /\ Put(left, t, 0) /\ Put(entered, t, Unset)
    /\ Put(inherited, t, FALSE) /\ Put(waited, t, 0)

(* The critical section at the head of its loop. *)
Take(t) ==
    /\ At(t, "take")
    /\ \/ /\ holder = NULL
          /\ holder' = t /\ Returns(t)
          /\ k' = [k EXCEPT !.stale = @ \cup {t}]
          /\ UNCHANGED halted
       \/ /\ holder # NULL /\ left[t] = 0 /\ inherited[t]  \* configASSERT, queue.c:1505
          /\ halted' = TRUE
          /\ UNCHANGED <<k, holder, pc, left, entered, inherited, waited>>
       \/ /\ holder # NULL /\ left[t] = 0 /\ ~inherited[t]
          /\ k' = [k EXCEPT !.stale = @ \cup {t}] /\ Returns(t)
          /\ UNCHANGED <<holder, halted>>
       \/ /\ holder # NULL /\ left[t] > 0
          /\ Go(t, "suspend")
          /\ IF entered[t] = Unset
             THEN Put(entered, t, k.tick) /\ k' = [k EXCEPT !.stale = @ \ {t}]
             ELSE UNCHANGED <<entered, k>>
          /\ UNCHANGED <<holder, left, inherited, waited, halted>>
    /\ UNCHANGED <<bit, last, age>>

RestUncounted(t) == left[t]     \* mutant: every wait starts from the beginning

(* What is left of the wait. *)
Rest(t) == left[t] - Elapsed(entered[t], k.tick)

(***************************************************************************)
(* Between vTaskSuspendAll and xTaskResumeAll: xTaskCheckForTimeOut, which *)
(* takes what has passed off the wait; then the task inherits its priority *)
(* to the holder and waits, or tries again, or has timed out.              *)
(***************************************************************************)
Block(t, n) ==
    /\ At(t, "suspend") /\ Ticking(n)
    /\ LET k0      == Suspended(n)
           wrapped == t \in k.stale
           over    == TimedOut(k.tick, entered[t], wrapped, left[t])
           again   == [k0 EXCEPT !.stale = @ \ {t}]
       IN  \/ /\ over
              /\ Put(left, t, IF wrapped /\ k.tick >= entered[t] THEN left[t] ELSE 0)
              /\ k' = ResumeAll(k0) /\ Go(t, "expired")
              /\ UNCHANGED <<entered, inherited>>
           \/ /\ ~over /\ holder = NULL
              /\ Put(left, t, Rest(t)) /\ Put(entered, t, k.tick)
              /\ k' = ResumeAll(again) /\ Go(t, "take")
              /\ UNCHANGED inherited
           \/ /\ ~over /\ holder # NULL
              /\ Put(left, t, Rest(t)) /\ Put(entered, t, k.tick)
              /\ Put(inherited, t, Inherits(k, holder, Base[holder]))
              /\ ResumeThen(PlaceOnEventList(PriorityInherit(again, holder), Rest(t)),
                            t, "take", "blocked")
    /\ UNCHANGED <<holder, bit, last, halted>>

(* A wait that has timed out: prvIsQueueEmpty decides whether to try again. *)
Expired(t) ==
    /\ At(t, "expired")
    /\ \/ holder = NULL /\ Go(t, "take") /\ UNCHANGED <<k, left, entered, inherited, waited>>
       \/ /\ holder # NULL /\ inherited[t] /\ Go(t, "giveup")
          /\ UNCHANGED <<k, left, entered, inherited, waited>>
       \/ /\ holder # NULL /\ ~inherited[t] /\ Returns(t)
          /\ k' = [k EXCEPT !.stale = @ \cup {t}]
    /\ UNCHANGED <<holder, bit, last, age, halted>>

GiveUp(t) ==
    /\ At(t, "giveup")
    /\ k' = [(IF holder = NULL THEN k
              ELSE DisinheritAfterTimeout(k, holder, Base[holder]))
                EXCEPT !.stale = @ \cup {t}]
    /\ Returns(t)
    /\ UNCHANGED <<holder, bit, last, age, halted>>

(***************************************************************************)
(* sys_log_mutex_give: xQueueGenericSend, whether the caller holds the     *)
(* mutex or not.  A mutex that is there is a full queue.                   *)
(***************************************************************************)
Give(t) ==
    /\ At(t, "logging")
    /\ \/ holder = NULL /\ Go(t, "sleep") /\ UNCHANGED <<k, holder, halted>>
       \/ /\ holder = t /\ holder' = NULL /\ Go(t, "sleep")
          /\ LET k1 == PriorityDisinherit(k, t, Base[t])
                 k2 == RemoveFromEventList(k1)
             IN  k' = IF k.mwait # <<>>
                      THEN IF k2.yield THEN SwitchContext(k2) ELSE k2
                      ELSE IF k.prio[t] # Base[t] THEN SwitchContext(k1) ELSE k1
          /\ UNCHANGED halted
       \/ /\ holder \notin {NULL, t}                       \* configASSERT, tasks.c:4049
          /\ halted' = TRUE /\ UNCHANGED <<k, holder, pc>>
    /\ UNCHANGED <<bit, local, waited, age>>

-----------------------------------------------------------------------------
(* The tick interrupt. *)
Tick ==
    /\ ~halted
    /\ k' = TickISR(k) /\ Later(1)
    /\ UNCHANGED <<holder, bit, pc, local, halted>>

(* A failed configASSERT spins with the interrupts disabled. *)
Hang == halted /\ UNCHANGED vars

Step(t) == \/ \E n \in 0 .. MaxPended : WaitBits(t, n) \/ Sleep(t, n) \/ Block(t, n)
           \/ PortYield(t) \/ Cycle(t) \/ Take(t) \/ Expired(t) \/ GiveUp(t) \/ Give(t)

Next == \/ \E t \in Worker : Step(t)
        \/ \E n \in 0 .. MaxPended : InitDevices(n) \/ SetBits(n)
        \/ Suspend \/ PortYield(Starter) \/ Tick \/ Hang

Spec == Init /\ [][Next]_vars

-----------------------------------------------------------------------------
(***************************************************************************)
(* Properties.                                                             *)
(***************************************************************************)
(* The ticks a task still has to sleep, and 0 for one that does not. *)
Left(t) == IF t \in Delayed(k)
           THEN Elapsed(k.tick, (CHOOSE i \in Items(k.delayed) \cup Items(k.overflow) :
                                    i.owner = t).value)
           ELSE 0

TypeOK ==
    /\ k.tick \in TickType /\ k.unblock \in TickType
    /\ k.top \in Priority /\ k.prio \in [Task -> Priority]
    /\ k.cur \in Task /\ ~k.locked /\ k.pended = 0 /\ k.yield \in BOOLEAN
    /\ holder \in Worker \cup {NULL} /\ bit \in BOOLEAN /\ halted \in BOOLEAN
    /\ pc \in [Tasks -> Location]
    /\ left \in [Worker -> TickType] /\ last \in [Worker -> TickType]
    /\ entered \in [Worker -> TickType \cup {Unset}]
    /\ inherited \in [Worker -> BOOLEAN]
    /\ waited \in [Worker -> 0 .. TakeTicks] /\ age \in [Until -> 0 .. W]

(***************************************************************************)
(* The lists of tasks.c agree with each other: a task is in exactly one of *)
(* the ready lists, the delayed lists and the suspended list, under its    *)
(* present priority if it is ready; the two delayed lists hold this turn   *)
(* of the tick counter and the next, each in order; the tick interrupt     *)
(* looks at the delayed list no later than its first task is due; and no   *)
(* ready list lies above uxTopReadyPriority, where the scheduler starts    *)
(* its search.                                                             *)
(***************************************************************************)
Filed ==
    /\ \A t \in Task : Cardinality({x \in {"ready", "delayed", "parked"} :
                           t \in CASE x = "ready" -> Ready(k)
                                   [] x = "delayed" -> Delayed(k)
                                   [] x = "parked" -> k.parked}) = 1
    /\ \A t \in Ready(k) : InReady(k, t) /\ k.prio[t] <= k.top
    /\ \A i \in Items(k.delayed) : k.tick < i.value /\ k.unblock <= i.value
    /\ \A i \in Items(k.overflow) : i.value < k.tick
    /\ \A n \in 1 .. Len(k.delayed) - 1 : k.delayed[n].value <= k.delayed[n + 1].value
    /\ \A n \in 1 .. Len(k.overflow) - 1 : k.overflow[n].value <= k.overflow[n + 1].value

(***************************************************************************)
(* The kernel's clock is the one Alarms promises, across the wrap of the   *)
(* tick counter, the two delayed lists, xNextTaskUnblockTime and the ticks *)
(* that pend while the scheduler is locked.                                *)
(***************************************************************************)
Alarm == INSTANCE Alarms WITH
             Sleeper <- Tasks, Wrap <- W, Longest <- MaxDelay,
             MaxTicks <- IF MaxPended > 1 THEN MaxPended ELSE 1,
             now <- k.tick, left <- [t \in Tasks |-> Left(t)],
             waits <- Owners(k.mwait) \cup Owners(k.bwait)

SleepsExactly == Alarm!Spec

(***************************************************************************)
(* A task with vTaskDelayUntil begins its cycle no sooner than one period  *)
(* after it began the last one, and sleeps until just then when it sleeps  *)
(* at all; one that was held up for a turn of the tick counter or more is  *)
(* beyond what vTaskDelayUntil can tell.                                   *)
(***************************************************************************)
Punctual ==
    \A t \in Until :
      /\ At(t, "cycle") /\ t \in Ready(k) => age[t] >= Period[t]
      /\ t \in Delayed(k) \ (Owners(k.mwait) \cup Owners(k.bwait)) /\ age[t] < W
            => age[t] + Left(t) = Period[t]

(***************************************************************************)
(* No ready task has a higher priority than the one that runs, except      *)
(* where a call has put its caller to sleep and is about to yield: the     *)
(* kernel never forgets to switch when a mutex is given back, a priority   *)
(* is lowered, a bit is set or a wait ends.                                *)
(***************************************************************************)
HighestRuns == \A t \in Ready(k) : k.prio[t] <= k.prio[k.cur] \/ k.cur \notin Ready(k)

(***************************************************************************)
(* The mutex and the bit are not left lying while somebody sleeps for      *)
(* them: when the mutex is free and tasks wait for it, a task that is      *)
(* awake is on its way to it; when the bit is set nobody waits for it.     *)
(***************************************************************************)
OnItsWay(t) == pc[t] \in {"take", "suspend", "expired", "blocked"}

NoLostWakeup ==
    /\ holder = NULL /\ k.mwait # <<>> =>
           \E t \in Worker \ Owners(k.mwait) : t \in Ready(k) /\ OnItsWay(t)
    /\ bit => k.bwait = <<>>

(***************************************************************************)
(* Priority inheritance: the holder runs at the priority of every task     *)
(* that waits for it, or higher; and a task runs above its own priority    *)
(* only while it holds the mutex and a task of that priority is in a take  *)
(* that raised it.                                                         *)
(***************************************************************************)
Inheritance ==
    /\ holder # NULL => \A w \in Owners(k.mwait) : k.prio[holder] >= k.prio[w]
    /\ \A t \in Task : k.prio[t] # Base[t] =>
          /\ t = holder
          /\ \E u \in Worker \ {t} : inherited[u] /\ k.prio[u] = k.prio[t]

(***************************************************************************)
(* A take that fails has waited TakeTicks, however often it was woken and  *)
(* lost the mutex to another task; and a task that waits has just the rest *)
(* of them before it, unless the tick counter has gone round twice since.  *)
(***************************************************************************)
FailsOnTime ==
    [][\A t \in Worker : pc[t] # "logging" /\ pc'[t] = "logging" /\ holder' # t
                            => waited[t] = TakeTicks]_vars

WaitsTheRest ==
    \A t \in Owners(k.mwait) : waited[t] < TakeTicks => waited[t] + Left(t) = TakeTicks
=============================================================================
