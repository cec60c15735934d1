----------------------------- MODULE Scheduler -----------------------------
(***************************************************************************)
(* The state of the FreeRTOS scheduler and what its functions make of it   *)
(* (freertos/tasks.c as config/FreeRTOSConfig.h builds it: preemption,     *)
(* time slices, mutexes, no deletion, no tick hook, no tickless idle).     *)
(*                                                                         *)
(* A scheduler state is a record k:                                        *)
(*   tick      xTickCount              pended    uxPendedTicks             *)
(*   unblock   xNextTaskUnblockTime    yield     xYieldPending             *)
(*   delayed   pxDelayedTaskList       overflow  pxOverflowDelayedTaskList *)
(*   ready     pxReadyTasksLists       top       uxTopReadyPriority        *)
(*   parked    xSuspendedTaskList      locked    uxSchedulerSuspended      *)
(*   cur       pxCurrentTCB            prio      uxPriority of each task   *)
(*   stale     the tasks whose TimeOut_t notes another xNumOfOverflows     *)
(*   mwait     xTasksWaitingToReceive of the mutex                         *)
(*   bwait     xTasksWaitingForBits of the event group                     *)
(* Each function below is an operator from k to the k it leaves behind.    *)
(* Interrupts never use the kernel in this firmware, so xPendingReadyList  *)
(* stays empty and is left out.                                            *)
(***************************************************************************)
EXTENDS Lists, Ticks

CONSTANTS Task, NULL, MaxPriorities

Priority == 0 .. MaxPriorities - 1

InReady(k, t) == t \in RingItems(k.ready[k.prio[t]])
Ready(k)      == UNION {RingItems(k.ready[p]) : p \in Priority}
Delayed(k)    == Owners(k.delayed) \cup Owners(k.overflow)

(* prvAddTaskToReadyList and taskRECORD_READY_PRIORITY. *)
AddToReady(k, t) ==
    [k EXCEPT !.ready[k.prio[t]] = InsertEnd(@, t),
              !.top = IF k.prio[t] > @ THEN k.prio[t] ELSE @]

RemoveFromReady(k, t) == [k EXCEPT !.ready[k.prio[t]] = RingRemove(@, t)]

(* Takes t out of whatever keeps it from running, and makes it ready. *)
MakeReady(k, t) ==
    AddToReady([k EXCEPT !.delayed  = ListRemove(@, t),
                         !.overflow = ListRemove(@, t),
                         !.parked   = @ \ {t},
                         !.mwait    = ListRemove(@, t),
                         !.bwait    = ListRemove(@, t)], t)

(***************************************************************************)
(* taskSELECT_HIGHEST_PRIORITY_TASK and vTaskSwitchContext.                *)
(***************************************************************************)
SwitchContext(k) ==
    IF k.locked
    THEN [k EXCEPT !.yield = TRUE]
    ELSE LET p == CHOOSE q \in 0 .. k.top :
                    /\ ~RingIsEmpty(k.ready[q])
                    /\ \A r \in q + 1 .. k.top : RingIsEmpty(k.ready[r])
             ring == Advance(k.ready[p])
         IN  [k EXCEPT !.yield = FALSE, !.top = p,
                       !.ready[p] = ring, !.cur = Index(ring)]

(***************************************************************************)
(* xTaskIncrementTick of an unlocked scheduler.  The value it returns is   *)
(* left out: the tick interrupt of this port switches whatever it is, and  *)
(* has set xYieldPending for every tick that xTaskResumeAll catches up.    *)
(***************************************************************************)
ResetNextUnblock(k) ==
    [k EXCEPT !.unblock = IF k.delayed = <<>> THEN MaxDelay
                                              ELSE Head(k.delayed).value]

SwitchDelayedListsOnly(k) == \* mutant: xNextTaskUnblockTime stays as it was
    [k EXCEPT !.delayed = k.overflow, !.overflow = k.delayed, !.stale = Task]

SwitchDelayedLists(k) ==
    ResetNextUnblock([k EXCEPT !.delayed = k.overflow, !.overflow = k.delayed,
                               !.stale = Task])

(* How many tasks at the head of the delayed list are due. *)
Due(k) == Cardinality({i \in DOMAIN k.delayed :
                         \A j \in 1 .. i : k.delayed[j].value <= k.tick})

UnblockDueListed(k) == \* mutant: a wait that ends stays on the list of the event
    LET f[i \in 0 .. Len(k.delayed)] ==
            IF i = 0 THEN k ELSE [MakeReady(f[i - 1], k.delayed[i].owner) EXCEPT
                                     !.mwait = k.mwait, !.bwait = k.bwait]
    IN  ResetNextUnblock(f[Due(k)])

UnblockDue(k) ==
    LET f[i \in 0 .. Len(k.delayed)] ==
            IF i = 0 THEN k ELSE MakeReady(f[i - 1], k.delayed[i].owner)
    IN  ResetNextUnblock(f[Due(k)])

IncrementTick(k) ==
    LET k1 == [k EXCEPT !.tick = (@ + 1) % W]
        k2 == IF k1.tick = 0 THEN SwitchDelayedLists(k1) ELSE k1
    IN  IF k2.tick >= k2.unblock THEN UnblockDue(k2) ELSE k2

(* vPortPreemptiveTickISR: a locked scheduler only counts the tick. *)
TickISR(k) ==
    SwitchContext(IF k.locked THEN [k EXCEPT !.pended = @ + 1]
                              ELSE IncrementTick(k))

(***************************************************************************)
(* vTaskSuspendAll and xTaskResumeAll.  The yield of xTaskResumeAll is     *)
(* inside its critical section; it returns whether it yielded.             *)
(***************************************************************************)
SuspendAll(k) == [k EXCEPT !.locked = TRUE]

CatchUpUncounted(k) == \* mutant: the pended ticks are not taken off the count
    LET f[i \in 0 .. k.pended] ==
            IF i = 0 THEN [k EXCEPT !.locked = FALSE] ELSE IncrementTick(f[i - 1])
    IN  f[k.pended]

CatchUp(k) ==
    LET f[i \in 0 .. k.pended] ==
            IF i = 0 THEN [k EXCEPT !.locked = FALSE] ELSE IncrementTick(f[i - 1])
    IN  [f[k.pended] EXCEPT !.pended = 0]

ResumeAll(k) == IF k.yield THEN SwitchContext(CatchUp(k)) ELSE CatchUp(k)

Yielded(k) == k.yield

AddToDelayedUnnoticed(k, n, canBlockForever) == \* mutant: forgets xNextTaskUnblockTime
    LET i  == Item(k.cur, TimeToWake(k.tick, n))
        k1 == RemoveFromReady(k, k.cur)
    IN  IF i.value < k.tick THEN [k1 EXCEPT !.overflow = Insert(@, i)]
                            ELSE [k1 EXCEPT !.delayed = Insert(@, i)]

(***************************************************************************)
(* prvAddCurrentTaskToDelayedList.                                         *)
(***************************************************************************)
AddToDelayed(k, n, canBlockForever) ==
    LET t  == k.cur
        w  == TimeToWake(k.tick, n)
        k1 == RemoveFromReady(k, t)
    IN  IF n = MaxDelay /\ canBlockForever
        THEN [k1 EXCEPT !.parked = @ \cup {t}]
        ELSE IF w < k.tick
        THEN [k1 EXCEPT !.overflow = Insert(@, Item(t, w))]
        ELSE [k1 EXCEPT !.delayed = Insert(@, Item(t, w)),
                        !.unblock = IF w < @ THEN w ELSE @]

(* vTaskPlaceOnEventList: the waiters of the mutex, highest priority first. *)
PlaceOnEventList(k, n) ==
    AddToDelayed([k EXCEPT !.mwait =
                    Insert(@, Item(k.cur, MaxPriorities - k.prio[k.cur]))], n, TRUE)

(* vTaskPlaceOnUnorderedEventList: the waiters for bits, in order of arrival. *)
PlaceOnUnorderedEventList(k, n) ==
    AddToDelayed([k EXCEPT !.bwait = Append(@, Item(k.cur, 0))], n, TRUE)

RemoveFromEventListQuietly(k) == MakeReady(k, Head(k.mwait).owner) \* mutant: no yield

(* xTaskRemoveFromEventList: the first waiter of the mutex becomes ready. *)
RemoveFromEventList(k) ==
    LET t == Head(k.mwait).owner
    IN  [MakeReady(k, t) EXCEPT !.yield = @ \/ k.prio[t] > k.prio[k.cur]]

(* vTaskRemoveFromUnorderedEventList, for each waiter in turn. *)
RemoveAllFromUnorderedEventList(k) ==
    LET f[i \in 0 .. Len(k.bwait)] ==
            IF i = 0 THEN k
            ELSE LET t == k.bwait[i].owner
                 IN  [MakeReady(f[i - 1], t) EXCEPT
                         !.yield = @ \/ k.prio[t] > k.prio[k.cur]]
    IN  f[Len(k.bwait)]

(***************************************************************************)
(* Priority inheritance.  SetPriority moves a ready task to the list of    *)
(* its new priority; the three functions of tasks.c decide which it is.    *)
(***************************************************************************)
SetPriority(k, t, p) ==
    IF InReady(k, t)
    THEN AddToReady([RemoveFromReady(k, t) EXCEPT !.prio[t] = p], t)
    ELSE [k EXCEPT !.prio[t] = p]

(* xTaskPriorityInherit; Inherits is the value it returns. *)
PriorityInherit(k, h) ==
    IF h # NULL /\ k.prio[h] < k.prio[k.cur] THEN SetPriority(k, h, k.prio[k.cur])
                                             ELSE k

Inherits(k, h, base) == h # NULL /\ base < k.prio[k.cur]

(* xTaskPriorityDisinherit, for the one mutex there is. *)
PriorityDisinherit(k, h, base) ==
    IF k.prio[h] # base THEN SetPriority(k, h, base) ELSE k

(* prvGetDisinheritPriorityAfterTimeout. *)
HighestWaiting(k) ==
    IF k.mwait = <<>> THEN 0 ELSE MaxPriorities - Head(k.mwait).value

DisinheritNever(k, h, base) == k    \* mutant: a priority outlives its reason

(* vTaskPriorityDisinheritAfterTimeout. *)
DisinheritAfterTimeout(k, h, base) ==
    LET p == IF base < HighestWaiting(k) THEN HighestWaiting(k) ELSE base
    IN  IF h # NULL /\ k.prio[h] # p THEN SetPriority(k, h, p) ELSE k
=============================================================================
