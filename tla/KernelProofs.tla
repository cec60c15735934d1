---------------------------- MODULE KernelProofs ----------------------------
(***************************************************************************)
(* What is proved of the kernel, for every set of tasks, every period and  *)
(* every width of the tick counter:                                        *)
(*   - Sound, the inductive invariant of Kernel: the lists, the clock and  *)
(*     the objects of the tasks agree after every call.  TypeOK and Filed  *)
(*     follow from it;                                                     *)
(*   - that the kernel implements Alarms, from what each step does to the  *)
(*     time a sleeper has left (the lemmas named Turn);                    *)
(*   - NoLostWakeup, FailsOnTime and WaitsTheRest, and Punctual, each from *)
(*     an invariant of its own beside Sound: Fetched, Timed and Kept;      *)
(*   - HighestRuns and Inheritance, from Fair and Ranked, which hold only  *)
(*     together.                                                           *)
(* A lemma named after an operation says what it does (Does), or that it   *)
(* keeps Sound (Sound), Timed (Timing), Kept (Keeping), Fair (Evenly, with *)
(* the priorities unchanged) or Ranked (Ranked).                           *)
(***************************************************************************)
EXTENDS SchedulerProofs

-----------------------------------------------------------------------------
(***************************************************************************)
(* The invariant.  The scheduler is steady; the task that runs is ready    *)
(* or about to yield; one that sleeps is in a call that sleeps, and one    *)
(* that waits for the mutex in its take, filed under its priority; the     *)
(* holder is logging, so it is awake.                                      *)
(***************************************************************************)
Resting == {"waited", "blocked", "slept", "began", "stopping", "stopped"}
Dozing  == {"waited", "blocked", "slept", "began", "cycle", "take", "boot"}

Locals ==
    /\ holder \in Worker \cup {NULL} /\ bit \in BOOLEAN /\ halted \in BOOLEAN
    /\ pc \in [Tasks -> Location]
    /\ left \in [Worker -> 0 .. TakeTicks] /\ last \in [Worker -> TickType]
    /\ entered \in [Worker -> TickType \cup {Unset}]
    /\ inherited \in [Worker -> BOOLEAN]
    /\ waited \in [Worker -> 0 .. TakeTicks] /\ age \in [Until -> 0 .. W]

Awake    == k.cur \in Ready(k) \/ (k.cur \in Tasks /\ pc[k.cur] \in Resting)
Dreaming == \A t \in Delayed(k) : t \in Tasks /\ pc[t] \in Dozing
Parking  == k.parked \subseteq {Starter}
Holding  == holder # NULL => pc[holder] = "logging"
Queueing == \A x \in Items(k.mwait) : /\ x.owner \in Worker /\ pc[x.owner] \in {"blocked", "take"}
                                      /\ x.value = MaxPriorities - k.prio[x.owner]
BitQueue == bit => Items(k.bwait) = {}
Noted    == \A t \in Worker : pc[t] = "suspend" => entered[t] \in TickType

Posts == Awake /\ Dreaming /\ Parking /\ Queueing
Sound == Locals /\ Steady(k) /\ Posts /\ Holding /\ BitQueue /\ Noted

LEMMA Kinds ==
    /\ Worker \subseteq Tasks /\ Tasks \subseteq Task /\ Starter \in Tasks /\ Starter \notin Worker
    /\ Idle \notin Tasks /\ Until \subseteq Worker /\ NULL \notin Task
    /\ MaxPended \in Nat /\ MaxPriorities \in Nat
    /\ TakeTicks \in Naps /\ TakeTicks # MaxDelay
    /\ \A t \in Worker : BitTicks[t] \in Naps /\ BitTicks[t] # MaxDelay
    /\ \A t \in Tasks : Period[t] \in Naps /\ Period[t] \in TickType
<1>1. Width
  BY WidthIs
<1>2. \A n \in 1 .. MaxDelay - 1 : n \in Naps /\ n \in TickType /\ n # MaxDelay
  BY <1>1 DEF Width, Naps
<1> QED
  BY <1>2, KernelAssumption DEF Worker, Tasks

LEMMA OnwardFacts ==
    ASSUME NEW q, Steady(q), NEW r, NEW A, NEW M, NEW B, NEW n, Onward(r, q, A, M, B, n)
    PROVE  /\ r \in SchedState /\ Steady(r)
           /\ \A t \in Delayed(r) : \E x \in A : x.owner = t /\ Elapsed(q.tick, x.value) > n
           /\ \A x \in A : Elapsed(q.tick, x.value) > n => x.owner \in Delayed(r)
           /\ Ready(r) = Task \ (Delayed(r) \cup q.parked)
<1>1. Steady(r) /\ r.parked = q.parked
  BY DEF Onward
<1>2. r \in SchedState /\ Filing(r) /\ Ready(r) = Task \ (Delayed(r) \cup r.parked)
  BY <1>1, SteadyState
<1>3. Delayed(r) = {x.owner : x \in Asleep(r)}
  BY <1>2, AsleepOwners DEF OwnersOf
<1>4. Asleep(r) = {x \in A : Elapsed(q.tick, x.value) > n}
  BY DEF Onward
<1> QED
  BY <1>1, <1>2, <1>3, <1>4

LEMMA SleeperIsReadyAgain ==
    ASSUME NEW q, Steady(q), NEW r, NEW M, NEW B, NEW n, Onward(r, q, Asleep(q), M, B, n)
    PROVE  /\ Delayed(r) \subseteq Delayed(q) /\ Ready(q) \subseteq Ready(r)
<1>1. q \in SchedState /\ Filing(q) /\ Ready(q) = Task \ (Delayed(q) \cup q.parked)
  BY SteadyState
<1>2. Delayed(q) = {x.owner : x \in Asleep(q)}
  BY <1>1, AsleepOwners DEF OwnersOf
<1>3. /\ \A t \in Delayed(r) : \E x \in Asleep(q) : x.owner = t
      /\ Ready(r) = Task \ (Delayed(r) \cup q.parked)
  BY OnwardFacts
<1>4. Delayed(r) \subseteq Delayed(q)
  BY <1>2, <1>3
<1> QED
  BY <1>1, <1>3, <1>4

(* A task that is not about to yield is ready while it runs. *)
LEMMA RunnerIsReady ==
    ASSUME Sound, NEW t \in Tasks, NEW l, At(t, l), l \notin Resting
    PROVE  /\ k.cur = t /\ pc[t] = l /\ ~halted /\ t \in Ready(k) /\ t \notin Delayed(k)
           /\ t # Idle /\ k \in SchedState /\ Steady(k)
<1>1. k.cur = t /\ pc[t] = l /\ ~halted
  BY DEF At
<1>2. t \in Ready(k)
  BY <1>1 DEF Sound, Posts, Awake
<1>3. k \in SchedState /\ Steady(k) /\ Ready(k) = Task \ (Delayed(k) \cup k.parked)
  BY SteadyState DEF Sound
<1> QED
  BY <1>1, <1>2, <1>3, Kinds

LEMMA TickingIs ==
    ASSUME NEW n, Ticking(n)
    PROVE  n \in Nat
  BY Kinds DEF Ticking

(***************************************************************************)
(* What each action makes of the scheduler.                                *)
(***************************************************************************)
LEMMA WaitBitsDoes ==
    ASSUME Sound, NEW t, NEW n, WaitBits(t, n)
    PROVE  /\ t \in Worker /\ n \in Nat /\ k.cur = t /\ pc[t] = "boot" /\ t \in Ready(k)
           /\ \/ /\ bit /\ Go(t, "cycle") /\ k'.cur \in Ready(k')
                 /\ Onward(k', k, Asleep(k), Items(k.mwait), Items(k.bwait), n)
              \/ /\ ~bit
                 /\ \/ Go(t, "cycle") /\ k'.cur \in Ready(k')
                    \/ Go(t, "waited") /\ k'.cur = t
                 /\ AwaitsBit(k', k, BitTicks[t], n)
<1>1. t \in Worker /\ At(t, "boot") /\ n \in Nat
  BY TickingIs DEF WaitBits
<1>2. /\ k.cur = t /\ pc[t] = "boot" /\ t \in Ready(k) /\ t # Idle
      /\ k \in SchedState /\ Steady(k)
  BY <1>1, RunnerIsReady, Kinds DEF Resting
<1>3. PICK s : s = Suspended(n)
  OBVIOUS
<1>4. Frozen(s, k, n)
  BY <1>1, <1>2, <1>3, SuspendedIs
<1>5. CASE bit
  <2>1. k' = ResumeAll(s) /\ Go(t, "cycle")
    BY <1>3, <1>5 DEF WaitBits
  <2>2. PICK r : r = k'
    OBVIOUS
  <2>3. /\ Onward(r, k, Asleep(k), Items(k.mwait), Items(k.bwait), n)
        /\ r.cur \in Ready(r) \/ r.cur = k.cur
    BY <1>1, <1>2, <1>4, <2>1, <2>2, TicksWent
  <2>4. r.cur \in Ready(r)
    BY <1>2, <2>3, SleeperIsReadyAgain
  <2> QED
    BY <1>1, <1>2, <1>5, <2>1, <2>2, <2>3, <2>4
<1>6. CASE ~bit
  <2>1. PICK d : d = PlaceOnUnorderedEventList(s, BitTicks[t])
    OBVIOUS
  <2>2. k' = ResumeAll(d) /\ Go(t, IF d.yield THEN "cycle" ELSE "waited")
    BY <1>3, <1>6, <2>1 DEF WaitBits, ResumeThen, Yielded
  <2>3. PICK r : r = k'
    OBVIOUS
  <2>4. /\ BitTicks[t] \in Naps /\ BitTicks[t] # MaxDelay
        /\ k.cur \in Ready(k) /\ k.cur # Idle /\ r = ResumeAll(d)
    BY <1>1, <1>2, <2>2, <2>3, Kinds
  <2>5. /\ AwaitsBit(r, k, BitTicks[t], n)
        /\ d.yield => r.cur \in Ready(r)
        /\ ~d.yield => r.cur = k.cur
    BY <1>1, <1>2, <1>4, <2>1, <2>4, WaitedForBit
  <2>6. CASE d.yield
    BY <1>1, <1>2, <1>6, <2>2, <2>3, <2>5, <2>6
  <2>7. CASE ~d.yield
    BY <1>1, <1>2, <1>6, <2>2, <2>3, <2>5, <2>7
  <2> QED
    BY <2>6, <2>7
<1> QED
  BY <1>5, <1>6

LEMMA InitDevicesDoes ==
    ASSUME Sound, NEW n, InitDevices(n)
    PROVE  /\ n \in Nat /\ k.cur = Starter /\ pc[Starter] = "devices" /\ Starter \in Ready(k)
           /\ \/ Go(Starter, "boot") /\ k'.cur \in Ready(k')
              \/ Go(Starter, "began") /\ k'.cur = Starter
           /\ Slumbers(k', k, Period[Starter], n)
<1>1. Starter \in Tasks /\ At(Starter, "devices") /\ n \in Nat /\ Period[Starter] \in Naps
  BY TickingIs, Kinds DEF InitDevices
<1>2. /\ k.cur = Starter /\ pc[Starter] = "devices" /\ Starter \in Ready(k) /\ Starter # Idle
      /\ k \in SchedState /\ Steady(k)
  BY <1>1, RunnerIsReady DEF Resting
<1>3. PICK s : s = Suspended(n)
  OBVIOUS
<1>4. Frozen(s, k, n)
  BY <1>1, <1>2, <1>3, SuspendedIs
<1>5. PICK d : d = FallAsleep(s, Period[Starter])
  OBVIOUS
<1>6. k' = ResumeAll(d) /\ Go(Starter, IF d.yield THEN "boot" ELSE "began")
  BY <1>3, <1>5 DEF InitDevices, FallAsleep, ResumeThen, Yielded
<1>7. PICK r : r = k'
  OBVIOUS
<1>a. k.cur \in Ready(k) /\ k.cur # Idle /\ r = ResumeAll(d)
  BY <1>2, <1>6, <1>7
<1>8. /\ Slumbers(r, k, Period[Starter], n)
      /\ d.yield => r.cur \in Ready(r)
      /\ ~d.yield => r.cur = k.cur
  BY <1>1, <1>2, <1>4, <1>5, <1>a, SleptOn
<1>9. CASE d.yield
  BY <1>1, <1>2, <1>6, <1>7, <1>8, <1>9
<1>10. CASE ~d.yield
  BY <1>1, <1>2, <1>6, <1>7, <1>8, <1>10
<1> QED
  BY <1>9, <1>10

LEMMA SetBitsDoes ==
    ASSUME Sound, NEW n, SetBits(n)
    PROVE  /\ n \in Nat /\ k.cur = Starter /\ pc[Starter] = "boot" /\ Starter \in Ready(k)
           /\ k'.cur \in Ready(k') /\ Go(Starter, "stop")
           /\ Onward(k', k, {x \in Asleep(k) : x.owner \notin Owners(k.bwait)},
                     Items(k.mwait), {}, n)
<1>1. Starter \in Tasks /\ At(Starter, "boot") /\ n \in Nat
  BY TickingIs, Kinds DEF SetBits
<1>2. /\ k.cur = Starter /\ pc[Starter] = "boot" /\ Starter \in Ready(k)
      /\ Starter \notin Delayed(k) /\ k \in SchedState /\ Steady(k)
  BY <1>1, RunnerIsReady DEF Resting
<1>3. PICK s : s = Suspended(n)
  OBVIOUS
<1>4. Frozen(s, k, n)
  BY <1>1, <1>2, <1>3, SuspendedIs
<1>5. k' = ResumeAll(RemoveAllFromUnorderedEventList(s)) /\ Go(Starter, "stop")
  BY <1>3 DEF SetBits
<1>6. PICK r : r = k'
  OBVIOUS
<1>7. /\ Onward(r, k, {x \in Asleep(k) : x.owner \notin Owners(k.bwait)}, Items(k.mwait), {}, n)
      /\ r.cur \in Ready(r) \/ r.cur = k.cur
  BY <1>1, <1>2, <1>4, <1>5, <1>6, BitWokeAll
<1>8. Starter \in Ready(r)
  <2>1. /\ \A t \in Delayed(r) : \E x \in Asleep(k) : x.owner = t
        /\ Ready(r) = Task \ (Delayed(r) \cup k.parked)
    BY <1>2, <1>7, OnwardFacts
  <2>2. Filing(k) /\ Ready(k) = Task \ (Delayed(k) \cup k.parked)
    BY <1>2, SteadyState
  <2>3. Delayed(k) = {x.owner : x \in Asleep(k)}
    BY <1>2, <2>2, AsleepOwners DEF OwnersOf
  <2> QED
    BY <1>2, <2>1, <2>2, <2>3
<1> QED
  BY <1>1, <1>2, <1>5, <1>6, <1>7, <1>8

(* The ticks the caller of vTaskDelay or vTaskDelayUntil sleeps. *)
Nap(t) == IF t \in Until THEN Elapsed(k.tick, TimeToWake(last[t], Period[t])) ELSE Period[t]

LEMMA SleepDoes ==
    ASSUME Sound, NEW t \in Worker, NEW n, Sleep(t, n)
    PROVE  /\ n \in Nat /\ k.cur = t /\ pc[t] = "sleep" /\ t \in Ready(k)
           /\ \/ Go(t, "cycle") /\ k'.cur \in Ready(k')
              \/ Go(t, "slept") /\ k'.cur = t
           /\ \/ /\ t \in Until /\ ~ShouldDelay(k.tick, last[t], Period[t])
                 /\ k'.cur \in Ready(k')
                 /\ Onward(k', k, Asleep(k), Items(k.mwait), Items(k.bwait), n)
              \/ /\ t \in Until => ShouldDelay(k.tick, last[t], Period[t])
                 /\ Nap(t) \in Naps
                 /\ Slumbers(k', k, Nap(t), n)
<1>1. t \in Tasks /\ At(t, "sleep") /\ n \in Nat
  BY TickingIs, Kinds DEF Sleep
<1>2. /\ k.cur = t /\ pc[t] = "sleep" /\ t \in Ready(k) /\ t # Idle
      /\ k \in SchedState /\ Steady(k)
  BY <1>1, RunnerIsReady DEF Resting
<1>3. PICK s : s = Suspended(n)
  OBVIOUS
<1>4. Frozen(s, k, n) /\ s.tick = k.tick
  BY <1>1, <1>2, <1>3, SuspendedIs DEF Frozen
<1>5. PICK m : m = Nap(t)
  OBVIOUS
<1>6. PICK d : d = IF t \in Until /\ ~ShouldDelay(k.tick, last[t], Period[t]) THEN s
                   ELSE FallAsleep(s, m)
  OBVIOUS
<1>7. k' = ResumeAll(d) /\ Go(t, IF d.yield THEN "cycle" ELSE "slept")
  <2>1. LET wake == TimeToWake(last[t], Period[t])
            u    == IF t \notin Until THEN AddToDelayed(s, Period[t], FALSE)
                    ELSE IF ShouldDelay(s.tick, last[t], Period[t])
                    THEN AddToDelayed(s, Elapsed(s.tick, wake), FALSE) ELSE s
        IN  ResumeThen(u, t, "cycle", "slept")
    BY <1>3 DEF Sleep
  <2>2. ResumeThen(d, t, "cycle", "slept")
    BY <1>4, <1>5, <1>6, <2>1 DEF Nap, FallAsleep
  <2> QED
    BY <2>2 DEF ResumeThen, Yielded
<1>8. PICK r : r = k'
  OBVIOUS
<1>9. CASE t \in Until /\ ~ShouldDelay(k.tick, last[t], Period[t])
  <2>1. r = ResumeAll(s)
    BY <1>6, <1>7, <1>8, <1>9
  <2>2. /\ Onward(r, k, Asleep(k), Items(k.mwait), Items(k.bwait), n)
        /\ r.cur \in Ready(r) \/ r.cur = k.cur
    BY <1>1, <1>2, <1>4, <2>1, TicksWent
  <2>3. t \in Ready(r)
    BY <1>2, <2>2, SleeperIsReadyAgain
  <2>4. d = s
    BY <1>6, <1>9
  <2>5. s \in SchedState /\ Filing(s) /\ Clock(s) /\ s.pended = n
    <3>1. Filing(k) /\ Clock(k) /\ k.pended = 0
      BY <1>2, SteadyState DEF Steady
    <3>2. s \in SchedState /\ s.pended = n
      BY <1>1, <1>4, <3>1 DEF Frozen
    <3> QED
      BY <1>2, <1>4, <3>1, <3>2, FrozenFiling
  <2>6. ~s.yield => r.cur = s.cur
    BY <2>1, <2>5, Resumed
  <2>7. s.cur = t
    BY <1>2, <1>4 DEF Frozen
  <2>8. CASE s.yield
    <3>1. Go(t, "cycle") /\ r.cur \in Ready(r)
      BY <1>2, <1>7, <2>2, <2>3, <2>4, <2>8
    <3> QED
      BY <1>1, <1>2, <1>8, <1>9, <2>2, <3>1
  <2>9. CASE ~s.yield
    <3>1. Go(t, "slept") /\ r.cur = t /\ r.cur \in Ready(r)
      BY <1>2, <1>7, <2>3, <2>4, <2>6, <2>7, <2>9
    <3> QED
      BY <1>1, <1>2, <1>8, <1>9, <2>2, <3>1
  <2> QED
    BY <2>8, <2>9
<1>10. CASE ~(t \in Until /\ ~ShouldDelay(k.tick, last[t], Period[t]))
  <2>1. d = FallAsleep(s, m)
    BY <1>6, <1>10
  <2>2. m \in Naps
    <3>1. CASE t \notin Until
      BY <1>1, <1>5, <3>1, Kinds DEF Nap
    <3>2. CASE t \in Until
      <4>1. PICK wake : wake = TimeToWake(last[t], Period[t])
        OBVIOUS
      <4>2. last[t] \in TickType /\ Period[t] \in TickType /\ k.tick \in TickType
        BY <1>1, <1>2, Kinds, StateFields DEF Sound, Locals
      <4>3. wake \in TickType
        BY <4>1, <4>2, WakeInRange
      <4>4. W \in Nat /\ W > 1 /\ TickType = 0 .. W - 1
        BY WidthIs DEF Width
      <4>5. wake # k.tick
        BY <1>10, <3>2, <4>1, <4>2, <4>3, <4>4 DEF ShouldDelay
      <4>6. m = IF k.tick <= wake THEN wake - k.tick ELSE wake - k.tick + W
        BY <1>5, <3>2, <4>1, <4>2, <4>3, ElapsedIsDifference DEF Nap
      <4> QED
        BY <4>2, <4>3, <4>4, <4>5, <4>6 DEF Naps
    <3> QED
      BY <3>1, <3>2
  <2>a. k.cur \in Ready(k) /\ k.cur # Idle /\ r = ResumeAll(d)
    BY <1>2, <1>7, <1>8
  <2>3. /\ Slumbers(r, k, m, n)
        /\ d.yield => r.cur \in Ready(r)
        /\ ~d.yield => r.cur = k.cur
    BY <1>1, <1>2, <1>4, <2>1, <2>2, <2>a, SleptOn
  <2>4. CASE d.yield
    BY <1>1, <1>2, <1>5, <1>7, <1>8, <1>10, <2>2, <2>3, <2>4
  <2>5. CASE ~d.yield
    BY <1>1, <1>2, <1>5, <1>7, <1>8, <1>10, <2>2, <2>3, <2>5
  <2> QED
    BY <2>4, <2>5
<1> QED
  BY <1>9, <1>10

-----------------------------------------------------------------------------
(* What changes while the scheduler is locked changes as it would without   *)
(* the ticks that pend.                                                      *)
LEMMA FrozenStale ==
    ASSUME NEW q \in SchedState, NEW s, NEW n, Frozen(s, q, n), NEW S \in SUBSET Task,
           NEW a, a = [s EXCEPT !.stale = S], NEW b, b = [q EXCEPT !.stale = S]
    PROVE  Frozen(a, b, n)
<1>1. s \in SchedState
  BY DEF Frozen
<1>2. a \in SchedState
  BY <1>1 DEF SchedState
<1>3. /\ a.tick = s.tick /\ a.unblock = s.unblock /\ a.locked = s.locked /\ a.stale = S
      /\ a.pended = s.pended /\ a.yield = s.yield /\ a.prio = s.prio /\ a.cur = s.cur
      /\ a.ready = s.ready /\ a.top = s.top /\ SameLists(a, s) /\ SameWaits(a, s)
  BY <1>1 DEF SchedState, SameLists, SameWaits
<1>4. /\ b.tick = q.tick /\ b.unblock = q.unblock /\ b.stale = S
      /\ b.pended = q.pended /\ b.yield = q.yield /\ b.prio = q.prio /\ b.cur = q.cur
      /\ b.ready = q.ready /\ b.top = q.top /\ SameLists(b, q) /\ SameWaits(b, q)
  BY DEF SchedState, SameLists, SameWaits
<1> QED
  BY <1>2, <1>3, <1>4 DEF Frozen, SameLists, SameWaits

LEMMA FrozenReadied ==
    ASSUME NEW q \in SchedState, NEW s \in SchedState, s.ready = q.ready, s.top = q.top,
           s.prio = q.prio, NEW t \in Task,
           NEW a, a = AddToReady(s, t), NEW b, b = AddToReady(q, t)
    PROVE  a.ready = b.ready /\ a.top = b.top
<1>1. PICK p \in Priority : p = s.prio[t] /\ p = q.prio[t]
  BY StateFields
<1>2. PICK ring : ring = InsertEnd(s.ready[p], t)
  OBVIOUS
<1>3. PICK rings : rings = [s.ready EXCEPT ![p] = ring]
  OBVIOUS
<1>4. PICK top : top = IF p > s.top THEN p ELSE s.top
  OBVIOUS
<1>5. a = [s EXCEPT !.ready = rings, !.top = top]
  BY <1>1, <1>2, <1>3, <1>4 DEF AddToReady, SchedState
<1>6. b = [q EXCEPT !.ready = rings, !.top = top]
  BY <1>1, <1>2, <1>3, <1>4 DEF AddToReady, SchedState
<1> QED
  BY <1>5, <1>6 DEF SchedState

LEMMA FrozenPriority ==
    ASSUME NEW q \in SchedState, Filing(q), NEW s, NEW n, Frozen(s, q, n),
           NEW t \in Task, NEW p \in Priority,
           NEW a, a = SetPriority(s, t, p), NEW b, b = SetPriority(q, t, p)
    PROVE  Frozen(a, b, n)
<1>1. s \in SchedState /\ Filing(s)
  BY FrozenFiling DEF Frozen
<1>2. Filing(a) /\ Repriced(a, s, t, p)
  BY <1>1, PrioritySet
<1>3. Filing(b) /\ Repriced(b, q, t, p)
  BY PrioritySet
<1>4. s.ready = q.ready /\ s.top = q.top /\ s.prio = q.prio
  BY DEF Frozen
<1>5. a.ready = b.ready /\ a.top = b.top
  <2>1. InReady(s, t) <=> InReady(q, t)
    BY <1>4 DEF InReady
  <2>2. PICK prio \in [Task -> Priority] : prio = [s.prio EXCEPT ![t] = p]
    BY <1>1, StateFields
  <2>3. CASE ~InReady(s, t)
    <3>1. a = [s EXCEPT !.prio = prio] /\ b = [q EXCEPT !.prio = prio]
      BY <1>1, <1>4, <2>1, <2>2, <2>3 DEF SetPriority, SchedState
    <3> QED
      BY <1>1, <1>4, <3>1 DEF SchedState
  <2>4. CASE InReady(s, t)
    <3>1. PICK x : x = s.prio[t]
      OBVIOUS
    <3>2. PICK rings : rings = [s.ready EXCEPT ![x] = RingRemove(s.ready[x], t)]
      OBVIOUS
    <3>3. /\ RemoveFromReady(s, t) = [s EXCEPT !.ready = rings]
          /\ RemoveFromReady(q, t) = [q EXCEPT !.ready = rings]
      BY <1>1, <1>4, <3>1, <3>2 DEF RemoveFromReady, SchedState
    <3>4. PICK u : u = [s EXCEPT !.ready = rings, !.prio = prio]
      OBVIOUS
    <3>5. PICK v : v = [q EXCEPT !.ready = rings, !.prio = prio]
      OBVIOUS
    <3>6. a = AddToReady(u, t) /\ b = AddToReady(v, t)
      <4>1. u = [RemoveFromReady(s, t) EXCEPT !.prio[t] = p]
        BY <1>1, <2>2, <3>3, <3>4 DEF SchedState
      <4>2. v = [RemoveFromReady(q, t) EXCEPT !.prio[t] = p]
        BY <1>4, <2>2, <3>3, <3>5 DEF SchedState
      <4> QED
        BY <2>1, <2>4, <4>1, <4>2 DEF SetPriority
    <3>7. rings \in [Priority -> Ring]
      BY <1>1, <3>1, <3>2, StateFields, RingRemoved
    <3>8. u \in SchedState /\ v \in SchedState
      BY <1>1, <2>2, <3>4, <3>5, <3>7 DEF SchedState
    <3>9. /\ u.ready = rings /\ u.prio = prio /\ u.top = s.top
          /\ v.ready = rings /\ v.prio = prio /\ v.top = q.top
      BY <1>1, <3>4, <3>5 DEF SchedState
    <3> QED
      BY <1>4, <3>6, <3>8, <3>9, FrozenReadied
  <2> QED
    BY <2>3, <2>4
<1>6. a \in SchedState
  BY <1>2 DEF Filing, Placed
<1> QED
  BY <1>2, <1>3, <1>5, <1>6 DEF Frozen, Repriced, SameClock, SameLists, SameWaits

(* xTaskPriorityInherit changes the priority of the holder, or nothing. *)
LEMMA Inherited ==
    ASSUME NEW q, Steady(q), NEW s, NEW n, Frozen(s, q, n), NEW h \in Task,
           NEW a, a = PriorityInherit(s, h)
    PROVE  \E b : /\ Frozen(a, b, n) /\ Still(b, q) /\ b.stale = q.stale /\ b.parked = q.parked
                  /\ b.cur = q.cur
                  /\ b.prio = [q.prio EXCEPT ![h] = IF q.prio[h] < q.prio[q.cur]
                                                    THEN q.prio[q.cur] ELSE q.prio[h]]
<1>1. q \in SchedState /\ Filing(q)
  BY SteadyState
<1>2. s.prio = q.prio /\ s.cur = q.cur /\ h # NULL
  BY Kinds DEF Frozen
<1>3. PICK p \in Priority : p = q.prio[q.cur]
  BY <1>1, StateFields
<1>4. PICK b : b = IF q.prio[h] < p THEN SetPriority(q, h, p) ELSE q
  OBVIOUS
<1>5. CASE q.prio[h] < p
  <2>1. a = SetPriority(s, h, p) /\ b = SetPriority(q, h, p)
    BY <1>2, <1>3, <1>4, <1>5 DEF PriorityInherit
  <2>2. Frozen(a, b, n)
    BY <1>1, <2>1, FrozenPriority
  <2>3. b = IF q.prio[h] # p THEN SetPriority(q, h, p) ELSE q
    <3>1. q.prio[h] \in Nat /\ p \in Nat
      BY <1>1, StateFields, Priorities
    <3> QED
      BY <1>5, <2>1, <3>1
  <2>4. /\ Still(b, q) /\ b.stale = q.stale /\ b.parked = q.parked /\ b.cur = q.cur
        /\ b.prio = [q.prio EXCEPT ![h] = p]
    BY <2>3, PriorityIs
  <2> QED
    BY <1>3, <1>5, <2>2, <2>4
<1>6. CASE ~(q.prio[h] < p)
  <2>1. a = s /\ b = q
    BY <1>2, <1>3, <1>4, <1>6 DEF PriorityInherit
  <2>2. [q.prio EXCEPT ![h] = q.prio[h]] = q.prio
    BY <1>1, StateFields
  <2>3. Still(b, q)
    BY <2>1 DEF Still, SameWaits
  <2> QED
    BY <1>3, <1>6, <2>1, <2>2, <2>3
<1> QED
  BY <1>5, <1>6

(***************************************************************************)
(* The wait of a take.                                                     *)
(***************************************************************************)
Over(t) == TimedOut(k.tick, entered[t], t \in k.stale, left[t])

LEMMA RestIsLeft ==
    ASSUME Sound, NEW t \in Worker, entered[t] \in TickType, ~Over(t)
    PROVE  /\ Rest(t) \in 1 .. left[t] /\ Rest(t) \in 0 .. TakeTicks
           /\ Rest(t) \in Naps /\ Rest(t) # MaxDelay
<1>1. /\ left[t] \in 0 .. TakeTicks /\ TakeTicks \in 1 .. W - 2
      /\ W \in Nat /\ TickType = 0 .. W - 1 /\ MaxDelay = W - 1
  BY KernelAssumption, WidthIs DEF Sound, Locals, Width
<1>2. k.tick \in TickType
  BY SteadyState, StateFields DEF Sound
<1>3. PICK e \in Nat : e = Elapsed(entered[t], k.tick)
  BY <1>1, <1>2, ElapsedIsDifference
<1>4. e < left[t]
  BY <1>1, <1>3 DEF Over, TimedOut
<1>5. Rest(t) = left[t] - e
  BY <1>3 DEF Rest
<1> QED
  BY <1>1, <1>4, <1>5 DEF Naps

Ripe(t, n) ==
    /\ Over(t) /\ Go(t, "expired")
    /\ Put(left, t, IF t \in k.stale /\ k.tick >= entered[t] THEN left[t] ELSE 0)
    /\ UNCHANGED <<entered, inherited>>
    /\ k'.cur \in Ready(k') /\ Onward(k', k, Asleep(k), Items(k.mwait), Items(k.bwait), n)

Noting(t) == ~Over(t) /\ Put(left, t, Rest(t)) /\ Put(entered, t, k.tick)

Luckily(t, n) ==
    /\ Noting(t) /\ holder = NULL /\ Go(t, "take") /\ UNCHANGED inherited
    /\ k'.cur \in Ready(k')
    /\ \E q : /\ Still(q, k) /\ q.stale = k.stale \ {t} /\ q.parked = k.parked
              /\ q.cur = k.cur /\ q.prio = k.prio
              /\ Onward(k', q, Asleep(q), Items(q.mwait), Items(q.bwait), n)

Heir(t) == [k.prio EXCEPT ![holder] = IF k.prio[holder] < k.prio[t] THEN k.prio[t]
                                                                    ELSE k.prio[holder]]

Lining(t, n) ==
    /\ Noting(t) /\ holder \in Worker \ {t} /\ Put(inherited, t, Inherits(k, holder, Base[holder]))
    /\ \/ Go(t, "take") /\ k'.cur \in Ready(k')
       \/ Go(t, "blocked") /\ k'.cur = t
    /\ \E q : /\ Still(q, k) /\ q.stale = k.stale \ {t} /\ q.parked = k.parked
              /\ q.cur = k.cur /\ q.prio = Heir(t) /\ Queues(k', q, Rest(t), n)

LEMMA StillFacts ==
    ASSUME NEW q, Steady(q), NEW r, Still(r, q), r.parked = q.parked
    PROVE  /\ r \in SchedState /\ Steady(r) /\ Ready(r) = Ready(q) /\ Delayed(r) = Delayed(q)
           /\ r.mwait = q.mwait /\ r.bwait = q.bwait
<1>1. Steady(r) /\ r.mwait = q.mwait /\ r.bwait = q.bwait
  BY DEF Still, SameWaits
<1>2. /\ r \in SchedState /\ Filing(r) /\ Ready(r) = Task \ (Delayed(r) \cup r.parked)
      /\ q \in SchedState /\ Filing(q) /\ Ready(q) = Task \ (Delayed(q) \cup q.parked)
  BY <1>1, SteadyState
<1>3. Delayed(r) = {x.owner : x \in Asleep(r)} /\ Delayed(q) = {x.owner : x \in Asleep(q)}
  BY <1>2, AsleepOwners DEF OwnersOf
<1>4. Asleep(r) = Asleep(q)
  BY DEF Still
<1> QED
  BY <1>1, <1>2, <1>3, <1>4

LEMMA BlockDoes ==
    ASSUME Sound, NEW t \in Worker, NEW n, Block(t, n)
    PROVE  /\ n \in Nat /\ k.cur = t /\ pc[t] = "suspend" /\ t \in Ready(k)
           /\ entered[t] \in TickType
           /\ Ripe(t, n) \/ Luckily(t, n) \/ Lining(t, n)
<1>1. t \in Tasks /\ At(t, "suspend") /\ n \in Nat
  BY TickingIs, Kinds DEF Block
<1>2. /\ k.cur = t /\ pc[t] = "suspend" /\ t \in Ready(k) /\ t # Idle
      /\ k \in SchedState /\ Steady(k)
  BY <1>1, RunnerIsReady DEF Resting
<1>3. entered[t] \in TickType
  BY <1>2 DEF Sound, Noted
<1>4. PICK s : s = Suspended(n)
  OBVIOUS
<1>5. Frozen(s, k, n)
  BY <1>1, <1>2, <1>4, SuspendedIs
<1>6. PICK S \in SUBSET Task : S = k.stale \ {t}
  BY <1>2, StateFields
<1>7. PICK a : a = [s EXCEPT !.stale = S]
  OBVIOUS
<1>8. s \in SchedState /\ s.stale = k.stale
  BY <1>5 DEF Frozen
<1>9. \/ /\ Over(t) /\ Put(left, t, IF t \in k.stale /\ k.tick >= entered[t] THEN left[t] ELSE 0)
         /\ k' = ResumeAll(s) /\ Go(t, "expired") /\ UNCHANGED <<entered, inherited>>
      \/ /\ Noting(t) /\ holder = NULL /\ k' = ResumeAll(a) /\ Go(t, "take")
         /\ UNCHANGED inherited
      \/ /\ Noting(t) /\ holder # NULL /\ Put(inherited, t, Inherits(k, holder, Base[holder]))
         /\ ResumeThen(PlaceOnEventList(PriorityInherit(a, holder), Rest(t)), t, "take", "blocked")
  <2>1. a = [s EXCEPT !.stale = @ \ {t}]
    BY <1>6, <1>7, <1>8 DEF SchedState
  <2> QED
    BY <1>4, <2>1 DEF Block, Over, Noting
<1>10. PICK b : b = [k EXCEPT !.stale = S]
  OBVIOUS
<1>11. Frozen(a, b, n)
  BY <1>2, <1>5, <1>7, <1>10, FrozenStale
<1>12. /\ Still(b, k) /\ b.stale = S /\ b.parked = k.parked /\ b.prio = k.prio /\ b.cur = k.cur
  BY <1>2, <1>10, StaleSet
<1>13. Ready(b) = Ready(k) /\ Steady(b) /\ b \in SchedState
  BY <1>2, <1>12, StillFacts
<1>14. PICK r : r = k'
  OBVIOUS
<1>15. CASE /\ Over(t) /\ Put(left, t, IF t \in k.stale /\ k.tick >= entered[t] THEN left[t] ELSE 0)
            /\ k' = ResumeAll(s) /\ Go(t, "expired") /\ UNCHANGED <<entered, inherited>>
  <2>1. /\ Onward(r, k, Asleep(k), Items(k.mwait), Items(k.bwait), n)
        /\ r.cur \in Ready(r) \/ r.cur = k.cur
    BY <1>1, <1>2, <1>5, <1>14, <1>15, TicksWent
  <2>2. r.cur \in Ready(r)
    BY <1>2, <2>1, SleeperIsReadyAgain
  <2>3. Ripe(t, n)
    BY <1>14, <1>15, <2>1, <2>2 DEF Ripe
  <2> QED
    BY <1>1, <1>2, <1>3, <2>3
<1>16. CASE /\ Noting(t) /\ holder = NULL /\ k' = ResumeAll(a) /\ Go(t, "take")
            /\ UNCHANGED inherited
  <2>1. /\ Onward(r, b, Asleep(b), Items(b.mwait), Items(b.bwait), n)
        /\ r.cur \in Ready(r) \/ r.cur = b.cur
    BY <1>1, <1>11, <1>13, <1>14, <1>16, TicksWent
  <2>2. r.cur \in Ready(r)
    BY <1>2, <1>12, <1>13, <2>1, SleeperIsReadyAgain
  <2>3. Luckily(t, n)
    BY <1>6, <1>12, <1>14, <1>16, <2>1, <2>2 DEF Luckily
  <2> QED
    BY <1>1, <1>2, <1>3, <2>3
<1>17. CASE /\ Noting(t) /\ holder # NULL /\ Put(inherited, t, Inherits(k, holder, Base[holder]))
            /\ ResumeThen(PlaceOnEventList(PriorityInherit(a, holder), Rest(t)), t, "take", "blocked")
  <2>1. holder \in Worker \ {t} /\ holder \in Task
    BY <1>2, <1>17, Kinds DEF Sound, Locals, Holding
  <2>2. PICK c : c = PriorityInherit(a, holder)
    OBVIOUS
  <2>3. PICK h \in Task : h = holder
    BY <2>1
  <2>4. PICK q : /\ Frozen(c, q, n) /\ Still(q, b) /\ q.stale = b.stale /\ q.parked = b.parked
                 /\ q.cur = b.cur
                 /\ q.prio = [b.prio EXCEPT ![h] = IF b.prio[h] < b.prio[b.cur]
                                                   THEN b.prio[b.cur] ELSE b.prio[h]]
    BY <1>11, <1>13, <2>2, <2>3, Inherited
  <2>5. Still(q, k) /\ q.prio = Heir(t) /\ q.stale = k.stale \ {t} /\ q.parked = k.parked /\ q.cur = k.cur
    BY <1>2, <1>6, <1>12, <2>3, <2>4 DEF Still, SameWaits, Heir
  <2>6. PICK m : m = Rest(t)
    OBVIOUS
  <2>7. m \in Naps /\ m # MaxDelay
    BY <1>3, <1>17, <2>6, RestIsLeft DEF Noting
  <2>8. PICK d : d = PlaceOnEventList(c, m)
    OBVIOUS
  <2>9. r = ResumeAll(d) /\ Go(t, IF d.yield THEN "take" ELSE "blocked")
    BY <1>14, <1>17, <2>2, <2>6, <2>8 DEF ResumeThen, Yielded
  <2>10. Steady(q) /\ q.cur \in Ready(q) /\ q.cur # Idle
    BY <1>2, <2>5, StillFacts
  <2>11. /\ Queues(r, q, m, n)
         /\ d.yield => r.cur \in Ready(r)
         /\ ~d.yield => r.cur = q.cur
    BY <1>1, <2>4, <2>7, <2>8, <2>9, <2>10, WaitedOn
  <2>12. \/ Go(t, "take") /\ r.cur \in Ready(r)
         \/ Go(t, "blocked") /\ r.cur = t
    <3>1. CASE d.yield
      BY <2>9, <2>11, <3>1
    <3>2. CASE ~d.yield
      BY <1>2, <2>5, <2>9, <2>11, <3>2
    <3> QED
      BY <3>1, <3>2
  <2>13. Lining(t, n)
    BY <1>14, <1>17, <2>1, <2>5, <2>6, <2>11, <2>12 DEF Lining
  <2> QED
    BY <1>1, <1>2, <1>3, <2>13
<1> QED
  BY <1>9, <1>15, <1>16, <1>17

-----------------------------------------------------------------------------
(***************************************************************************)
(* The mutex is given back.                                                *)
(***************************************************************************)
Released(t) ==
    /\ holder = t /\ holder' = NULL /\ Go(t, "sleep") /\ UNCHANGED halted
    /\ Steady(k') /\ k'.tick = k.tick /\ k'.stale = k.stale /\ k'.parked = k.parked
    /\ k'.prio = [k.prio EXCEPT ![t] = Base[t]]
    /\ k'.cur \in Ready(k') /\ Items(k'.bwait) = Items(k.bwait)
    /\ \/ /\ k.mwait = <<>> /\ Asleep(k') = Asleep(k) /\ Items(k'.mwait) = Items(k.mwait)
       \/ \E h \in Owners(k.mwait) :
            /\ h = Head(k.mwait).owner
            /\ Asleep(k') = {x \in Asleep(k) : x.owner # h}
            /\ Items(k'.mwait) = {x \in Items(k.mwait) : x.owner # h}

LEMMA ReadyFrom ==
    ASSUME NEW q, Steady(q), NEW r, Steady(r), r.parked = q.parked, Asleep(r) \subseteq Asleep(q)
    PROVE  Ready(q) \subseteq Ready(r) /\ Delayed(r) \subseteq Delayed(q)
<1>1. /\ r \in SchedState /\ Filing(r) /\ Ready(r) = Task \ (Delayed(r) \cup r.parked)
      /\ q \in SchedState /\ Filing(q) /\ Ready(q) = Task \ (Delayed(q) \cup q.parked)
  BY SteadyState
<1>2. Delayed(r) = {x.owner : x \in Asleep(r)} /\ Delayed(q) = {x.owner : x \in Asleep(q)}
  BY <1>1, AsleepOwners DEF OwnersOf
<1> QED
  BY <1>1, <1>2

LEMMA GiveDoes ==
    ASSUME Sound, NEW t \in Worker, Give(t)
    PROVE  /\ k.cur = t /\ pc[t] = "logging" /\ t \in Ready(k) /\ t \notin Delayed(k)
           /\ \/ holder = NULL /\ Go(t, "sleep") /\ UNCHANGED <<k, holder, halted>>
              \/ Released(t)
              \/ holder # NULL /\ halted' = TRUE /\ UNCHANGED <<k, holder, pc>>
<1>1. t \in Tasks /\ t \in Task /\ At(t, "logging")
  BY Kinds DEF Give
<1>2. /\ k.cur = t /\ pc[t] = "logging" /\ t \in Ready(k) /\ t \notin Delayed(k)
      /\ k \in SchedState /\ Steady(k)
  BY <1>1, RunnerIsReady DEF Resting
<1>3. CASE holder = NULL /\ Go(t, "sleep") /\ UNCHANGED <<k, holder, halted>>
  BY <1>2, <1>3
<1>4. CASE holder \notin {NULL, t} /\ halted' = TRUE /\ UNCHANGED <<k, holder, pc>>
  BY <1>2, <1>4
<1>5. CASE /\ holder = t /\ holder' = NULL /\ Go(t, "sleep")
           /\ LET k1 == PriorityDisinherit(k, t, Base[t])
                  k2 == RemoveFromEventList(k1)
              IN  k' = IF k.mwait # <<>>
                       THEN IF k2.yield THEN SwitchContext(k2) ELSE k2
                       ELSE IF k.prio[t] # Base[t] THEN SwitchContext(k1) ELSE k1
           /\ UNCHANGED halted
  <2>1. PICK p \in Priority : p = Base[t]
    BY <1>1, KernelAssumption
  <2>2. PICK q : q = PriorityDisinherit(k, t, Base[t])
    OBVIOUS
  <2>3. q = IF k.prio[t] # p THEN SetPriority(k, t, p) ELSE k
    BY <2>1, <2>2 DEF PriorityDisinherit
  <2>4. /\ Still(q, k) /\ q.stale = k.stale /\ q.parked = k.parked /\ q.cur = k.cur
        /\ q.prio = [k.prio EXCEPT ![t] = p]
    BY <1>1, <1>2, <2>3, PriorityIs
  <2>5. /\ Steady(q) /\ Ready(q) = Ready(k) /\ q.mwait = k.mwait /\ q.bwait = k.bwait
        /\ Asleep(q) = Asleep(k) /\ q.tick = k.tick
    BY <1>2, <2>4, StillFacts DEF Still
  <2>6. PICK r : r = k'
    OBVIOUS
  <2>7. CASE k.mwait = <<>>
    <3>1. /\ Steady(r) /\ r.tick = q.tick /\ r.stale = q.stale /\ r.parked = q.parked
          /\ r.prio = q.prio /\ Asleep(r) = Asleep(q) /\ SameWaits(r, q)
          /\ r.cur \in Ready(r)
      <4>1. CASE k.prio[t] # Base[t]
        <5>1. r = SwitchContext(q)
          BY <1>5, <2>2, <2>6, <2>7, <4>1
        <5> QED
          BY <2>5, <5>1, YieldedNow DEF Still
      <4>2. CASE k.prio[t] = Base[t]
        <5>1. r = q
          BY <1>5, <2>2, <2>6, <2>7, <4>2
        <5> QED
          BY <1>2, <2>4, <2>5, <5>1 DEF SameWaits
      <4> QED
        BY <4>1, <4>2
    <3>2. Released(t)
      BY <1>5, <2>1, <2>4, <2>5, <2>6, <2>7, <3>1 DEF Released, SameWaits
    <3> QED
      BY <1>2, <3>2
  <2>8. CASE k.mwait # <<>>
    <3>1. PICK h : h = Head(q.mwait).owner
      OBVIOUS
    <3>2. PICK d : d = RemoveFromEventList(q)
      OBVIOUS
    <3>3. r = IF d.yield THEN SwitchContext(d) ELSE d
      BY <1>5, <2>2, <2>6, <2>8, <3>2
    <3>4. /\ h \in Owners(q.mwait)
          /\ Steady(r) /\ r.tick = q.tick /\ r.stale = q.stale /\ r.parked = q.parked
          /\ r.prio = q.prio /\ (r.cur \in Ready(r) \/ r.cur = q.cur)
          /\ Asleep(r) = {x \in Asleep(q) : x.owner # h}
          /\ Items(r.mwait) = {x \in Items(q.mwait) : x.owner # h}
          /\ Items(r.bwait) = Items(q.bwait)
      <4>1. Bequeathed(r, q, h)
        BY <2>5, <2>8, <3>1, <3>2, <3>3, HeirWoken
      <4> QED
        BY <4>1 DEF Bequeathed
    <3>5. Ready(q) \subseteq Ready(r)
      BY <2>5, <3>4, ReadyFrom
    <3>6. r.cur \in Ready(r)
      BY <1>2, <2>4, <2>5, <3>4, <3>5
    <3>7. /\ h \in Owners(k.mwait) /\ h = Head(k.mwait).owner
          /\ Asleep(r) = {x \in Asleep(k) : x.owner # h}
          /\ Items(r.mwait) = {x \in Items(k.mwait) : x.owner # h}
      BY <2>5, <3>1, <3>4
    <3>8. Released(t)
      BY <1>5, <2>1, <2>4, <2>5, <2>6, <3>4, <3>6, <3>7 DEF Released
    <3> QED
      BY <1>2, <3>8
  <2> QED
    BY <2>7, <2>8
<1> QED
  BY <1>3, <1>4, <1>5 DEF Give

(***************************************************************************)
(* A take gives up: the holder's priority is what the waiters left need.   *)
(***************************************************************************)
Lowered == IF Base[holder] < HighestWaiting(k) THEN HighestWaiting(k) ELSE Base[holder]

LEMMA WaitingPriority ==
    ASSUME Sound, holder \in Worker
    PROVE  /\ HighestWaiting(k) \in Priority /\ Lowered \in Priority
           /\ \A x \in Items(k.mwait) : k.prio[x.owner] <= HighestWaiting(k)
           /\ k.mwait # <<>> => \E x \in Items(k.mwait) : HighestWaiting(k) = k.prio[x.owner]
           /\ k.mwait = <<>> => HighestWaiting(k) = 0
<1>1. k \in SchedState /\ k.mwait \in List
  BY SteadyState, StateFields DEF Sound
<1>2. \A x \in Items(k.mwait) : x.owner \in Worker /\ x.value = MaxPriorities - k.prio[x.owner]
  BY DEF Sound, Posts, Queueing
<1>3. \A x \in Items(k.mwait) : k.prio[x.owner] \in Priority
  BY <1>1, <1>2, Kinds, StateFields
<1>4. MaxPriorities \in Nat /\ Base[holder] \in Priority /\ 0 \in Priority
  BY KernelAssumption, Kinds, Priorities
<1>5. CASE k.mwait = <<>>
  <2>1. HighestWaiting(k) = 0 /\ Items(k.mwait) = {}
    BY <1>5 DEF HighestWaiting, Items
  <2> QED
    BY <1>4, <1>5, <2>1 DEF Lowered
<1>6. CASE k.mwait # <<>>
  <2>1. PICK c \in List : c = k.mwait
    BY <1>1
  <2>2. /\ Head(c) \in Items(c) /\ \A x \in Items(c) : Head(c).value <= x.value
    BY <1>6, <2>1, ListHead
  <2>3. PICK i : i = Head(c)
    OBVIOUS
  <2>4. i \in Items(k.mwait) /\ \A x \in Items(k.mwait) : i.value <= x.value
    BY <2>1, <2>2, <2>3
  <2>5. HighestWaiting(k) = MaxPriorities - i.value
    BY <1>6, <2>1, <2>3 DEF HighestWaiting
  <2>6. HighestWaiting(k) = k.prio[i.owner]
    BY <1>2, <1>3, <1>4, <2>4, <2>5 DEF Priority
  <2>7. ASSUME NEW x \in Items(k.mwait) PROVE k.prio[x.owner] <= k.prio[i.owner]
    BY <1>2, <1>3, <1>4, <2>4, <2>7 DEF Priority
  <2> QED
    BY <1>3, <1>4, <1>6, <2>4, <2>6, <2>7 DEF Lowered
<1> QED
  BY <1>5, <1>6

LEMMA GiveUpDoes ==
    ASSUME Sound, NEW t \in Worker, GiveUp(t)
    PROVE  /\ k.cur = t /\ pc[t] = "giveup" /\ t \in Ready(k) /\ t \notin Delayed(k)
           /\ Returns(t) /\ Still(k', k) /\ k'.stale = k.stale \cup {t} /\ k'.parked = k.parked
           /\ k'.cur = t
           /\ holder = NULL  => k'.prio = k.prio
           /\ holder # NULL => k'.prio = [k.prio EXCEPT ![holder] = Lowered]
<1>1. t \in Tasks /\ t \in Task /\ At(t, "giveup")
  BY Kinds DEF GiveUp
<1>2. /\ k.cur = t /\ pc[t] = "giveup" /\ t \in Ready(k) /\ t \notin Delayed(k)
      /\ k \in SchedState /\ Steady(k)
  BY <1>1, RunnerIsReady DEF Resting
<1>3. PICK q : q = IF holder = NULL THEN k ELSE DisinheritAfterTimeout(k, holder, Base[holder])
  OBVIOUS
<1>4. /\ Still(q, k) /\ q.stale = k.stale /\ q.parked = k.parked /\ q.cur = k.cur
      /\ holder = NULL  => q.prio = k.prio
      /\ holder # NULL => q.prio = [k.prio EXCEPT ![holder] = Lowered]
  <2>1. CASE holder = NULL
    BY <1>2, <1>3, <2>1 DEF Still, SameWaits
  <2>2. CASE holder # NULL
    <3>1. holder \in Worker /\ holder \in Task
      BY <2>2, Kinds DEF Sound, Locals
    <3>2. PICK h \in Task : h = holder
      BY <3>1
    <3>3. PICK p \in Priority : p = Lowered
      BY <3>1, WaitingPriority
    <3>4. q = IF k.prio[h] # p THEN SetPriority(k, h, p) ELSE k
      BY <1>3, <2>2, <3>2, <3>3 DEF DisinheritAfterTimeout, Lowered
    <3>5. /\ Still(q, k) /\ q.stale = k.stale /\ q.parked = k.parked /\ q.cur = k.cur
          /\ q.prio = [k.prio EXCEPT ![h] = p]
      BY <1>2, <3>4, PriorityIs
    <3> QED
      BY <2>2, <3>2, <3>3, <3>5
  <2> QED
    BY <2>1, <2>2
<1>5. Steady(q) /\ q \in SchedState
  BY <1>2, <1>4, StillFacts
<1>6. PICK S \in SUBSET Task : S = k.stale \cup {t}
  BY <1>1, <1>2, StateFields
<1>7. k' = [q EXCEPT !.stale = S]
  <2>1. k' = [q EXCEPT !.stale = @ \cup {t}]
    BY <1>3 DEF GiveUp
  <2> QED
    BY <1>4, <1>5, <1>6, <2>1 DEF SchedState
<1>8. PICK r : r = k'
  OBVIOUS
<1>9. /\ Still(r, q) /\ r.stale = S /\ r.parked = q.parked /\ r.prio = q.prio /\ r.cur = q.cur
  BY <1>5, <1>7, <1>8, StaleSet
<1>10. Still(r, k)
  BY <1>4, <1>9 DEF Still, SameWaits
<1>11. Returns(t)
  BY DEF GiveUp
<1> QED
  BY <1>2, <1>4, <1>6, <1>8, <1>9, <1>10, <1>11

(***************************************************************************)
(* The other steps.                                                        *)
(***************************************************************************)
LEMMA PortYieldDoes ==
    ASSUME Sound, NEW t, PortYield(t)
    PROVE  /\ k.cur = t
           /\ \/ pc[t] = "waited"  /\ Go(t, "cycle")
              \/ pc[t] = "blocked" /\ Go(t, "take")
              \/ pc[t] = "slept"   /\ Go(t, "cycle")
              \/ pc[t] = "stopped" /\ UNCHANGED pc
              \/ pc[t] = "began"   /\ Go(t, "boot")
           /\ Still(k', k) /\ k'.stale = k.stale /\ k'.parked = k.parked /\ k'.prio = k.prio
           /\ k'.cur \in Ready(k')
<1>1. Steady(k)
  BY DEF Sound
<1>2. PICK r : r = k'
  OBVIOUS
<1>3. r = SwitchContext(k)
  BY <1>2 DEF PortYield
<1>4. /\ Still(r, k) /\ r.stale = k.stale /\ r.parked = k.parked /\ r.prio = k.prio
      /\ r.cur \in Ready(r)
  BY <1>1, <1>3, YieldedNow
<1>5. /\ k.cur = t
      /\ \/ pc[t] = "waited"  /\ Go(t, "cycle")
         \/ pc[t] = "blocked" /\ Go(t, "take")
         \/ pc[t] = "slept"   /\ Go(t, "cycle")
         \/ pc[t] = "stopped" /\ UNCHANGED pc
         \/ pc[t] = "began"   /\ Go(t, "boot")
  BY DEF PortYield, At
<1> QED
  BY <1>2, <1>4, <1>5

LEMMA SuspendDoes ==
    ASSUME Sound, Suspend
    PROVE  /\ k.cur = Starter
           /\ \/ /\ pc[Starter] = "stop" /\ Go(Starter, "stopping")
                 /\ k'.parked = k.parked \cup {Starter}
              \/ /\ pc[Starter] = "stopping" /\ Go(Starter, "stopped")
                 /\ k'.parked = k.parked
           /\ Still(k', k) /\ k'.stale = k.stale /\ k'.prio = k.prio /\ k'.cur = Starter
<1>1. Steady(k) /\ Starter \in Tasks /\ Starter \in Task
  BY Kinds DEF Sound
<1>2. PICK r : r = k'
  OBVIOUS
<1>3. CASE /\ At(Starter, "stop") /\ Go(Starter, "stopping")
           /\ k' = [RemoveFromReady(k, Starter) EXCEPT !.parked = @ \cup {Starter}]
  <2>1. k.cur = Starter /\ pc[Starter] = "stop" /\ Starter \in Ready(k) /\ Starter # Idle
    BY <1>1, <1>3, RunnerIsReady DEF Resting
  <2>2. /\ Still(r, k) /\ r.stale = k.stale /\ r.parked = k.parked \cup {Starter}
        /\ r.prio = k.prio /\ r.cur = k.cur
    <3>1. r = Park(k, Starter)
      BY <1>2, <1>3 DEF Park
    <3> QED
      BY <1>1, <2>1, <3>1, ParkedNow
  <2> QED
    BY <1>2, <1>3, <2>1, <2>2
<1>4. CASE At(Starter, "stopping") /\ Go(Starter, "stopped") /\ k' = ResetNextUnblock(k)
  <2>1. k.cur = Starter /\ pc[Starter] = "stopping"
    BY <1>4 DEF At
  <2>2. /\ Still(r, k) /\ r.stale = k.stale /\ r.parked = k.parked
        /\ r.prio = k.prio /\ r.cur = k.cur
    BY <1>1, <1>2, <1>4, UnblockResetNow
  <2> QED
    BY <1>2, <1>4, <2>1, <2>2
<1> QED
  BY <1>3, <1>4 DEF Suspend

LEMMA TickDoes ==
    ASSUME Sound, Tick
    PROVE  Onward(k', k, Asleep(k), Items(k.mwait), Items(k.bwait), 1) /\ k'.cur \in Ready(k')
<1>1. Steady(k)
  BY DEF Sound
<1>2. PICK r : r = k'
  OBVIOUS
<1>3. r = TickISR(k)
  BY <1>2 DEF Tick
<1> QED
  BY <1>1, <1>2, <1>3, TickCame

-----------------------------------------------------------------------------
(***************************************************************************)
(* Every step preserves the invariant.                                     *)
(***************************************************************************)
(* The runner goes on to l. *)
LEMMA Moved ==
    ASSUME Sound, NEW t \in Tasks, NEW l \in Location, Go(t, l), Steady(k'),
           k'.cur \in Ready(k') \/ (k'.cur = t /\ l \in Resting),
           k'.parked \subseteq {Starter},
           \A u \in Delayed(k') : (u = t /\ l \in Dozing) \/ (u # t /\ u \in Delayed(k)),
           \A x \in Items(k'.mwait) :
              \/ x \in Items(k.mwait) /\ x.owner # t /\ k'.prio[x.owner] = k.prio[x.owner]
              \/ /\ x.owner = t /\ t \in Worker /\ l \in {"blocked", "take"}
                 /\ x.value = MaxPriorities - k'.prio[t]
    PROVE  Posts'
<1>1. pc' = [pc EXCEPT ![t] = l] /\ pc \in [Tasks -> Location]
  BY DEF Go, Sound, Locals
<1>2. pc'[t] = l /\ \A u \in Tasks : u # t => pc'[u] = pc[u]
  BY <1>1
<1>3. Awake'
  BY <1>2 DEF Awake
<1>4. Dreaming'
  BY <1>2 DEF Sound, Posts, Dreaming
<1>5. Parking'
  BY DEF Parking
<1>6. Queueing'
  <2>1. ASSUME NEW x \in Items(k'.mwait)
        PROVE  /\ x.owner \in Worker /\ pc'[x.owner] \in {"blocked", "take"}
               /\ x.value = MaxPriorities - k'.prio[x.owner]
    <3>1. CASE x \in Items(k.mwait) /\ x.owner # t /\ k'.prio[x.owner] = k.prio[x.owner]
      <4>1. /\ x.owner \in Worker /\ pc[x.owner] \in {"blocked", "take"}
            /\ x.value = MaxPriorities - k.prio[x.owner]
        BY <3>1 DEF Sound, Posts, Queueing
      <4> QED
        BY <1>2, <3>1, <4>1, Kinds
    <3>2. CASE /\ x.owner = t /\ t \in Worker /\ l \in {"blocked", "take"}
               /\ x.value = MaxPriorities - k'.prio[t]
      BY <1>2, <3>2
    <3> QED
      BY <2>1, <3>1, <3>2
  <2> QED
    BY <2>1 DEF Queueing
<1> QED
  BY <1>3, <1>4, <1>5, <1>6 DEF Posts

(* Nobody but the holder changes its priority, and it does not wait. *)
LEMMA HolderDoesNotWait ==
    ASSUME Sound
    PROVE  /\ holder # NULL => \A x \in Items(k.mwait) : x.owner # holder
           /\ \A x \in Items(k.mwait) : x.owner \in Worker /\ x.owner \in Delayed(k)
           /\ \A u \in Owners(k.mwait) : u \in Worker /\ u \in Delayed(k)
<1>1. Filing(k) /\ k.mwait \in List
  BY SteadyState, StateFields DEF Sound
<1>2. \A x \in Items(k.mwait) : x.owner \in Owners(k.mwait)
  BY <1>1, ListFacts
<1>3. \A u \in Owners(k.mwait) : u \in Delayed(k) /\ \E x \in Items(k.mwait) : x.owner = u
  BY <1>1, ListFacts DEF Filing, Waiters
<1>4. \A x \in Items(k.mwait) : x.owner \in Worker /\ pc[x.owner] \in {"blocked", "take"}
  BY DEF Sound, Posts, Queueing
<1>5. holder # NULL => \A x \in Items(k.mwait) : x.owner # holder
  BY <1>4 DEF Sound, Holding
<1> QED
  BY <1>2, <1>3, <1>4, <1>5

(* The scheduler does not change but for its marks of overflows. *)
LEMMA MovedStill ==
    ASSUME Sound, NEW t \in Tasks, NEW l \in Location, Go(t, l), t \notin Delayed(k),
           Still(k', k), k'.parked = k.parked, k'.prio = k.prio,
           k'.cur \in Ready(k') \/ (k'.cur = t /\ (t \in Ready(k) \/ l \in Resting))
    PROVE  Posts' /\ Steady(k') /\ Items(k'.bwait) = Items(k.bwait)
<1>1. Steady(k)
  BY DEF Sound
<1>2. PICK r : r = k'
  OBVIOUS
<1>3. /\ Steady(r) /\ Ready(r) = Ready(k) /\ Delayed(r) = Delayed(k)
      /\ r.mwait = k.mwait /\ r.bwait = k.bwait
  BY <1>1, <1>2, StillFacts
<1>4. \A x \in Items(k.mwait) : x.owner # t
  BY HolderDoesNotWait
<1>5. k'.parked \subseteq {Starter}
  BY DEF Sound, Posts, Parking
<1>6. \A u \in Delayed(k') : u # t /\ u \in Delayed(k)
  BY <1>2, <1>3
<1>7. \A x \in Items(k'.mwait) : x \in Items(k.mwait) /\ x.owner # t /\ k'.prio[x.owner] = k.prio[x.owner]
  BY <1>2, <1>3, <1>4
<1>8. k'.cur \in Ready(k') \/ (k'.cur = t /\ l \in Resting)
  BY <1>2, <1>3
<1>9. Posts'
  BY <1>2, <1>3, <1>5, <1>6, <1>7, <1>8, Moved
<1> QED
  BY <1>2, <1>3, <1>9

LEMMA LaterTypes ==
    ASSUME Sound, NEW n \in Nat, Later(n)
    PROVE  waited' \in [Worker -> 0 .. TakeTicks] /\ age' \in [Until -> 0 .. W]
<1>1. TakeTicks \in Nat /\ W \in Nat
  BY KernelAssumption, WidthIs DEF Width
<1>2. ASSUME NEW t \in Worker
      PROVE  (IF entered[t] = Unset THEN 0 ELSE More(waited[t], n, TakeTicks)) \in 0 .. TakeTicks
  <2>1. waited[t] \in 0 .. TakeTicks
    BY <1>2 DEF Sound, Locals
  <2> QED
    BY <1>1, <2>1 DEF More
<1>3. ASSUME NEW t \in Until PROVE More(age[t], n, W) \in 0 .. W
  <2>1. age[t] \in 0 .. W
    BY <1>3 DEF Sound, Locals
  <2> QED
    BY <1>1, <2>1 DEF More
<1> QED
  BY <1>2, <1>3 DEF Later

(* What Holding and Noted say of the others does not change. *)
LEMMA OthersKept ==
    ASSUME Sound, NEW t \in Tasks, NEW l \in Location, Go(t, l), l # "suspend",
           pc[t] # "logging", UNCHANGED holder,
           \A u \in Worker \ {t} : entered'[u] = entered[u]
    PROVE  Holding' /\ Noted'
<1>1. pc' = [pc EXCEPT ![t] = l] /\ pc \in [Tasks -> Location]
  BY DEF Go, Sound, Locals
<1>2. pc'[t] = l /\ \A u \in Tasks : u # t => pc'[u] = pc[u]
  BY <1>1
<1>3. holder \in Worker \cup {NULL} /\ Worker \subseteq Tasks
  BY Kinds DEF Sound, Locals
<1>4. Holding'
  BY <1>2, <1>3 DEF Sound, Holding
<1>5. Noted'
  BY <1>2, <1>3 DEF Sound, Noted
<1> QED
  BY <1>4, <1>5

(* Time passes, and the runner may fall asleep or wait. *)
LEMMA MovedOnward ==
    ASSUME Sound, NEW t \in Tasks, t \notin Delayed(k), NEW l \in Location, Go(t, l), NEW n \in Nat,
           NEW q, Steady(q), Asleep(q) = Asleep(k), q.parked = k.parked,
           \A x \in Items(k.mwait) : q.prio[x.owner] = k.prio[x.owner],
           NEW A, A \subseteq Asleep(k) \cup {x \in A : x.owner = t},
           NEW M, \A x \in M : \/ x \in Items(k.mwait)
                               \/ /\ x.owner = t /\ t \in Worker /\ l \in {"blocked", "take"}
                                  /\ x.value = MaxPriorities - q.prio[t],
           NEW B, Onward(k', q, A, M, B, n),
           k'.cur \in Ready(k') \/ (k'.cur = t /\ l \in Resting),
           l \in Dozing \/ A \subseteq Asleep(k)
    PROVE  Posts' /\ Steady(k') /\ Items(k'.bwait) \subseteq B
<1>1. k \in SchedState /\ Filing(k) /\ Steady(k)
  BY SteadyState DEF Sound
<1>2. Delayed(k) = {x.owner : x \in Asleep(k)}
  BY <1>1, AsleepOwners DEF OwnersOf
<1>3. PICK r : r = k'
  OBVIOUS
<1>4. /\ Steady(r) /\ \A u \in Delayed(r) : \E x \in A : x.owner = u
  BY <1>3, OnwardFacts
<1>5. \A u \in Delayed(k') : (u = t /\ l \in Dozing) \/ (u # t /\ u \in Delayed(k))
  BY <1>2, <1>3, <1>4
<1>6. k'.parked \subseteq {Starter} /\ k'.prio = q.prio
  BY DEF Sound, Posts, Parking, Onward
<1>7. \A x \in Items(k.mwait) : x.owner # t
  BY HolderDoesNotWait
<1>8. \A x \in Items(k'.mwait) :
         \/ x \in Items(k.mwait) /\ x.owner # t /\ k'.prio[x.owner] = k.prio[x.owner]
         \/ /\ x.owner = t /\ t \in Worker /\ l \in {"blocked", "take"}
            /\ x.value = MaxPriorities - k'.prio[t]
  <2>1. \A x \in Items(k'.mwait) : x \in M
    BY DEF Onward
  <2> QED
    BY <1>6, <1>7, <2>1
<1>9. Posts'
  BY <1>3, <1>4, <1>5, <1>6, <1>8, Moved
<1> QED
  BY <1>3, <1>4, <1>9 DEF Onward

LEMMA WaitBitsSound ==
    ASSUME Sound, NEW t, NEW n, WaitBits(t, n)
    PROVE  Sound'
<1>1. /\ t \in Worker /\ t \in Tasks /\ n \in Nat /\ k.cur = t /\ pc[t] = "boot" /\ t \in Ready(k)
      /\ UNCHANGED <<holder, bit, left, entered, inherited, last, halted>> /\ Later(n)
  BY WaitBitsDoes, Kinds DEF WaitBits, Ticking, local
<1>2. Steady(k) /\ t \notin Delayed(k)
  BY <1>1, SteadyState DEF Sound
<1>3. PICK l \in {"cycle", "waited"} : Go(t, l)
  BY WaitBitsDoes
<1>4. l \in Location /\ l \in Dozing /\ l # "suspend"
  BY DEF Location, Dozing
<1>5. Posts' /\ Steady(k') /\ (bit => Items(k'.bwait) \subseteq Items(k.bwait))
  <2>1. CASE /\ bit /\ Go(t, "cycle") /\ k'.cur \in Ready(k')
             /\ Onward(k', k, Asleep(k), Items(k.mwait), Items(k.bwait), n)
    BY <1>1, <1>2, <1>3, <1>4, <2>1, MovedOnward
  <2>2. CASE /\ ~bit
             /\ \/ Go(t, "cycle") /\ k'.cur \in Ready(k')
                \/ Go(t, "waited") /\ k'.cur = t
             /\ AwaitsBit(k', k, BitTicks[t], n)
    <3>1. PICK A : A = Asleep(k) \cup {Item(t, TimeToWake(k.tick, BitTicks[t]))}
      OBVIOUS
    <3>2. Onward(k', k, A, Items(k.mwait), Items(k.bwait) \cup {Item(t, 0)}, n)
      BY <1>1, <2>2, <3>1 DEF AwaitsBit
    <3>3. A \subseteq Asleep(k) \cup {x \in A : x.owner = t}
      BY <3>1 DEF Item
    <3>4. PICK m \in Location : Go(t, m) /\ m \in Dozing /\ (k'.cur \in Ready(k') \/ (k'.cur = t /\ m \in Resting))
      BY <2>2 DEF Location, Dozing, Resting
    <3> QED
      BY <1>1, <1>2, <2>2, <3>2, <3>3, <3>4, MovedOnward
  <2> QED
    BY <2>1, <2>2, WaitBitsDoes
<1>6. Locals'
  <2>1. pc' \in [Tasks -> Location]
    BY <1>3, <1>4 DEF Go, Sound, Locals
  <2> QED
    BY <1>1, <2>1, LaterTypes DEF Sound, Locals
<1>7. Holding' /\ Noted'
  BY <1>1, <1>3, <1>4, OthersKept
<1>8. BitQueue'
  BY <1>1, <1>5 DEF Sound, BitQueue
<1> QED
  BY <1>5, <1>6, <1>7, <1>8 DEF Sound

LEMMA InitDevicesSound ==
    ASSUME Sound, NEW n, InitDevices(n)
    PROVE  Sound'
<1>1. /\ Starter \in Tasks /\ n \in Nat /\ k.cur = Starter /\ pc[Starter] = "devices"
      /\ Starter \in Ready(k) /\ Slumbers(k', k, Period[Starter], n)
      /\ UNCHANGED <<holder, bit, left, entered, inherited, last, halted>> /\ Later(n)
  BY InitDevicesDoes, Kinds DEF InitDevices, Ticking, local
<1>2. Steady(k) /\ Starter \notin Delayed(k)
  BY <1>1, SteadyState DEF Sound
<1>3. PICK l \in {"boot", "began"} :
         Go(Starter, l) /\ (k'.cur \in Ready(k') \/ (k'.cur = Starter /\ l \in Resting))
  BY InitDevicesDoes DEF Resting
<1>4. l \in Location /\ l \in Dozing /\ l # "suspend"
  BY DEF Location, Dozing
<1>5. PICK A : A = Asleep(k) \cup {Item(Starter, TimeToWake(k.tick, Period[Starter]))}
  OBVIOUS
<1>6. Onward(k', k, A, Items(k.mwait), Items(k.bwait), n)
  BY <1>1, <1>5 DEF Slumbers
<1>7. A \subseteq Asleep(k) \cup {x \in A : x.owner = Starter}
  BY <1>5 DEF Item
<1>8. Posts' /\ Steady(k') /\ Items(k'.bwait) \subseteq Items(k.bwait)
  BY <1>1, <1>2, <1>3, <1>4, <1>6, <1>7, MovedOnward
<1>9. Locals'
  <2>1. pc' \in [Tasks -> Location]
    BY <1>3, <1>4 DEF Go, Sound, Locals
  <2> QED
    BY <1>1, <2>1, LaterTypes DEF Sound, Locals
<1>10. Holding' /\ Noted'
  BY <1>1, <1>3, <1>4, OthersKept
<1>11. BitQueue'
  BY <1>1, <1>8 DEF Sound, BitQueue
<1> QED
  BY <1>8, <1>9, <1>10, <1>11 DEF Sound

LEMMA SetBitsSound ==
    ASSUME Sound, NEW n, SetBits(n)
    PROVE  Sound'
<1>1. /\ Starter \in Tasks /\ n \in Nat /\ k.cur = Starter /\ pc[Starter] = "boot"
      /\ Starter \in Ready(k) /\ k'.cur \in Ready(k') /\ Go(Starter, "stop")
      /\ UNCHANGED <<holder, left, entered, inherited, last, halted>> /\ bit' = TRUE /\ Later(n)
  BY SetBitsDoes, Kinds DEF SetBits, Ticking, local
<1>2. Steady(k) /\ Starter \notin Delayed(k)
  BY <1>1, SteadyState DEF Sound
<1>3. PICK A : A = {x \in Asleep(k) : x.owner \notin Owners(k.bwait)}
  OBVIOUS
<1>4. Onward(k', k, A, Items(k.mwait), {}, n)
  BY <1>3, SetBitsDoes
<1>5. PICK l \in Location : l = "stop"
  BY DEF Location
<1>6. A \subseteq Asleep(k) /\ A \subseteq Asleep(k) \cup {x \in A : x.owner = Starter}
  BY <1>3
<1>a. PICK B : B = {}
  OBVIOUS
<1>b. Onward(k', k, A, Items(k.mwait), B, n) /\ Go(Starter, l)
  BY <1>1, <1>4, <1>5, <1>a
<1>7. Posts' /\ Steady(k') /\ Items(k'.bwait) \subseteq B
  BY <1>1, <1>2, <1>5, <1>6, <1>b, MovedOnward
<1>8. Locals'
  <2>1. pc' \in [Tasks -> Location]
    BY <1>1, <1>5 DEF Go, Sound, Locals
  <2> QED
    BY <1>1, <2>1, LaterTypes DEF Sound, Locals
<1>9. Holding' /\ Noted'
  BY <1>1, <1>5, OthersKept
<1>10. BitQueue'
  BY <1>7, <1>a DEF BitQueue
<1> QED
  BY <1>7, <1>8, <1>9, <1>10 DEF Sound

LEMMA SleepSound ==
    ASSUME Sound, NEW t \in Worker, NEW n, Sleep(t, n)
    PROVE  Sound'
<1>1. /\ t \in Tasks /\ n \in Nat /\ k.cur = t /\ pc[t] = "sleep" /\ t \in Ready(k)
      /\ UNCHANGED <<holder, bit, left, entered, inherited, halted>> /\ Later(n)
      /\ Put(last, t, 0)
  BY SleepDoes, Kinds DEF Sleep, Ticking
<1>2. Steady(k) /\ t \notin Delayed(k)
  BY <1>1, SteadyState DEF Sound
<1>3. PICK l \in {"cycle", "slept"} :
         Go(t, l) /\ (k'.cur \in Ready(k') \/ (k'.cur = t /\ l \in Resting))
  BY SleepDoes DEF Resting
<1>4. l \in Location /\ l \in Dozing /\ l # "suspend"
  BY DEF Location, Dozing
<1>5. Posts' /\ Steady(k') /\ Items(k'.bwait) \subseteq Items(k.bwait)
  <2>1. CASE Onward(k', k, Asleep(k), Items(k.mwait), Items(k.bwait), n)
    BY <1>1, <1>2, <1>3, <1>4, <2>1, MovedOnward
  <2>2. CASE Slumbers(k', k, Nap(t), n)
    <3>1. PICK A : A = Asleep(k) \cup {Item(t, TimeToWake(k.tick, Nap(t)))}
      OBVIOUS
    <3>2. Onward(k', k, A, Items(k.mwait), Items(k.bwait), n)
      BY <1>1, <2>2, <3>1 DEF Slumbers
    <3>3. A \subseteq Asleep(k) \cup {x \in A : x.owner = t}
      BY <3>1 DEF Item
    <3> QED
      BY <1>1, <1>2, <1>3, <1>4, <3>2, <3>3, MovedOnward
  <2> QED
    BY <2>1, <2>2, SleepDoes
<1>6. Locals'
  <2>1. pc' \in [Tasks -> Location]
    BY <1>3, <1>4 DEF Go, Sound, Locals
  <2>2. last' \in [Worker -> TickType]
    <3>1. 0 \in TickType
      BY WidthIs DEF Width
    <3> QED
      BY <1>1, <3>1 DEF Put, Sound, Locals
  <2> QED
    BY <1>1, <2>1, <2>2, LaterTypes DEF Sound, Locals
<1>7. Holding' /\ Noted'
  BY <1>1, <1>3, <1>4, OthersKept
<1>8. BitQueue'
  BY <1>1, <1>5 DEF Sound, BitQueue
<1> QED
  BY <1>5, <1>6, <1>7, <1>8 DEF Sound

LEMMA BlockSound ==
    ASSUME Sound, NEW t \in Worker, NEW n, Block(t, n)
    PROVE  Sound'
<1>1. /\ t \in Tasks /\ n \in Nat /\ k.cur = t /\ pc[t] = "suspend" /\ t \in Ready(k)
      /\ entered[t] \in TickType
      /\ UNCHANGED <<holder, bit, last, halted>> /\ Later(n)
  BY BlockDoes, Kinds DEF Block, Ticking
<1>2. Steady(k) /\ t \notin Delayed(k) /\ k.tick \in TickType
  BY <1>1, SteadyState, StateFields DEF Sound
<1>3. CASE Ripe(t, n)
  <2>1. PICK l \in Location : l = "expired"
    BY DEF Location
  <2>2. /\ Go(t, l) /\ k'.cur \in Ready(k') /\ UNCHANGED <<entered, inherited>>
        /\ Onward(k', k, Asleep(k), Items(k.mwait), Items(k.bwait), n)
    BY <1>3, <2>1 DEF Ripe
  <2>3. Posts' /\ Steady(k') /\ Items(k'.bwait) \subseteq Items(k.bwait)
    BY <1>1, <1>2, <2>2, MovedOnward
  <2>4. Locals'
    <3>1. pc' \in [Tasks -> Location]
      BY <2>2 DEF Go, Sound, Locals
    <3>2. left' \in [Worker -> 0 .. TakeTicks]
      <4>1. left[t] \in 0 .. TakeTicks /\ 0 \in 0 .. TakeTicks
        BY KernelAssumption DEF Sound, Locals
      <4> QED
        BY <1>3, <4>1 DEF Ripe, Put, Sound, Locals
    <3> QED
      BY <1>1, <2>2, <3>1, <3>2, LaterTypes DEF Sound, Locals
  <2>5. Holding' /\ Noted'
    BY <1>1, <2>1, <2>2, OthersKept
  <2>6. BitQueue'
    BY <1>1, <2>3 DEF Sound, BitQueue
  <2> QED
    BY <2>3, <2>4, <2>5, <2>6 DEF Sound
<1>4. ASSUME Noting(t), NEW l \in Location, Go(t, l), l # "suspend",
             inherited' \in [Worker -> BOOLEAN], Posts', Steady(k'),
             Items(k'.bwait) \subseteq Items(k.bwait)
      PROVE  Sound'
  <2>1. pc' \in [Tasks -> Location]
    BY <1>4 DEF Go, Sound, Locals
  <2>2. left' \in [Worker -> 0 .. TakeTicks]
    BY <1>1, <1>4, RestIsLeft DEF Noting, Put, Sound, Locals
  <2>3. entered' \in [Worker -> TickType \cup {Unset}]
    BY <1>2, <1>4 DEF Noting, Put, Sound, Locals
  <2>4. Locals'
    BY <1>1, <1>4, <2>1, <2>2, <2>3, LaterTypes DEF Sound, Locals
  <2>5. \A u \in Worker \ {t} : entered'[u] = entered[u]
    BY <1>4 DEF Noting, Put, Sound, Locals
  <2>6. Holding' /\ Noted'
    BY <1>1, <1>4, <2>5, OthersKept
  <2>7. BitQueue'
    BY <1>1, <1>4 DEF Sound, BitQueue
  <2> QED
    BY <1>4, <2>4, <2>6, <2>7 DEF Sound
<1>5. CASE Luckily(t, n)
  <2>1. PICK l \in Location : l = "take" /\ l \in Dozing /\ l # "suspend"
    BY DEF Location, Dozing
  <2>2. PICK q : /\ Still(q, k) /\ q.stale = k.stale \ {t} /\ q.parked = k.parked
                 /\ q.cur = k.cur /\ q.prio = k.prio
                 /\ Onward(k', q, Asleep(q), Items(q.mwait), Items(q.bwait), n)
    BY <1>5 DEF Luckily
  <2>3. Steady(q) /\ Asleep(q) = Asleep(k) /\ q.mwait = k.mwait /\ q.bwait = k.bwait
    BY <2>2 DEF Still, SameWaits
  <2>4. Go(t, l) /\ k'.cur \in Ready(k') /\ Noting(t) /\ inherited' = inherited
    BY <1>5, <2>1 DEF Luckily
  <2>5. Posts' /\ Steady(k') /\ Items(k'.bwait) \subseteq Items(k.bwait)
    BY <1>1, <1>2, <2>1, <2>2, <2>3, <2>4, MovedOnward
  <2> QED
    BY <1>4, <2>1, <2>4, <2>5 DEF Sound, Locals
<1>6. CASE Lining(t, n)
  <2>1. PICK l \in Location : /\ l \in {"take", "blocked"} /\ l \in Dozing /\ l # "suspend" /\ Go(t, l)
                              /\ k'.cur \in Ready(k') \/ (k'.cur = t /\ l \in Resting)
    BY <1>6 DEF Lining, Location, Dozing, Resting
  <2>2. PICK q : /\ Still(q, k) /\ q.stale = k.stale \ {t} /\ q.parked = k.parked
                 /\ q.cur = k.cur /\ q.prio = Heir(t) /\ Queues(k', q, Rest(t), n)
    BY <1>6 DEF Lining
  <2>3. /\ Steady(q) /\ Asleep(q) = Asleep(k) /\ q.mwait = k.mwait /\ q.bwait = k.bwait
        /\ k.prio \in [Task -> Priority]
    BY <1>2, <2>2, SteadyState, StateFields DEF Still, SameWaits
  <2>4. \A x \in Items(k.mwait) : q.prio[x.owner] = k.prio[x.owner]
    <3>1. \A x \in Items(k.mwait) : x.owner # holder /\ x.owner \in Task
      BY <1>6, HolderDoesNotWait, Kinds DEF Lining
    <3> QED
      BY <2>2, <2>3, <3>1 DEF Heir
  <2>5. PICK A : A = Asleep(k) \cup {Item(t, TimeToWake(q.tick, Rest(t)))}
    OBVIOUS
  <2>6. PICK M : M = Items(k.mwait) \cup {Item(t, MaxPriorities - q.prio[t])}
    OBVIOUS
  <2>7. Onward(k', q, A, M, Items(k.bwait), n)
    BY <1>1, <2>2, <2>3, <2>5, <2>6 DEF Queues
  <2>8. A \subseteq Asleep(k) \cup {x \in A : x.owner = t}
    BY <2>5 DEF Item
  <2>9. \A x \in M : \/ x \in Items(k.mwait)
                     \/ /\ x.owner = t /\ t \in Worker /\ l \in {"blocked", "take"}
                        /\ x.value = MaxPriorities - q.prio[t]
    BY <2>1, <2>6 DEF Item
  <2>10. Posts' /\ Steady(k') /\ Items(k'.bwait) \subseteq Items(k.bwait)
    <3>1. PICK B : B = Items(k.bwait) /\ Onward(k', q, A, M, B, n)
      BY <2>7
    <3>2. /\ Go(t, l) /\ l \in Dozing /\ q.parked = k.parked
          /\ k'.cur \in Ready(k') \/ (k'.cur = t /\ l \in Resting)
      BY <2>1, <2>2
    <3>3. t \in Tasks /\ t \notin Delayed(k) /\ n \in Nat /\ Steady(q) /\ Asleep(q) = Asleep(k)
      BY <1>1, <1>2, <2>3
    <3>4. Posts' /\ Steady(k') /\ Items(k'.bwait) \subseteq B
      BY <2>4, <2>8, <2>9, <3>1, <3>2, <3>3, MovedOnward, SMTT(30)
    <3> QED
      BY <3>1, <3>4
  <2>11. Noting(t) /\ inherited' \in [Worker -> BOOLEAN]
    <3>1. Inherits(k, holder, Base[holder]) \in BOOLEAN
      BY Zenon DEF Inherits
    <3> QED
      BY <1>6, <3>1 DEF Lining, Put, Sound, Locals
  <2> QED
    BY <1>4, <2>1, <2>10, <2>11
<1> QED
  BY <1>3, <1>5, <1>6, BlockDoes

LEMMA CycleSound ==
    ASSUME Sound, NEW t \in Worker, Cycle(t)
    PROVE  Sound'
<1>1. /\ t \in Tasks /\ At(t, "cycle")
      /\ UNCHANGED <<k, holder, bit, entered, inherited, waited, halted>>
  BY Kinds DEF Cycle
<1>2. /\ k.cur = t /\ pc[t] = "cycle" /\ t \in Ready(k) /\ t \notin Delayed(k)
      /\ k \in SchedState /\ Steady(k)
  BY <1>1, RunnerIsReady DEF Resting
<1>3. PICK l \in Location : Go(t, l) /\ l # "suspend"
  BY DEF Cycle, Location
<1>4. Still(k', k) /\ k'.parked = k.parked /\ k'.prio = k.prio /\ k'.cur = t
  BY <1>1, <1>2 DEF Still, SameWaits
<1>5. Posts' /\ Steady(k') /\ Items(k'.bwait) = Items(k.bwait)
  BY <1>1, <1>2, <1>3, <1>4, MovedStill
<1>6. Locals'
  <2>1. pc' \in [Tasks -> Location]
    BY <1>3 DEF Go, Sound, Locals
  <2>2. left' \in [Worker -> 0 .. TakeTicks]
    <3>1. TakeTicks \in 0 .. TakeTicks
      BY KernelAssumption
    <3> QED
      BY <3>1 DEF Cycle, Put, Sound, Locals
  <2>3. last' \in [Worker -> TickType] /\ age' \in [Until -> 0 .. W]
    <3>1. k.tick \in TickType /\ 0 \in 0 .. W
      BY <1>2, StateFields, WidthIs DEF Width
    <3> QED
      BY <3>1 DEF Cycle, Put, Sound, Locals
  <2> QED
    BY <1>1, <2>1, <2>2, <2>3 DEF Sound, Locals
<1>7. Holding' /\ Noted'
  BY <1>1, <1>2, <1>3, OthersKept
<1>8. BitQueue'
  BY <1>1, <1>5 DEF Sound, BitQueue
<1> QED
  BY <1>5, <1>6, <1>7, <1>8 DEF Sound

(* What Returns leaves of the take. *)
LEMMA ReturnsTypes ==
    ASSUME Sound, NEW t \in Worker, Returns(t)
    PROVE  /\ left' \in [Worker -> 0 .. TakeTicks]
           /\ entered' \in [Worker -> TickType \cup {Unset}]
           /\ inherited' \in [Worker -> BOOLEAN]
           /\ waited' \in [Worker -> 0 .. TakeTicks]
           /\ pc' \in [Tasks -> Location]
           /\ \A u \in Worker \ {t} : entered'[u] = entered[u]
<1>1. 0 \in 0 .. TakeTicks
  BY KernelAssumption
<1>2. left' \in [Worker -> 0 .. TakeTicks] /\ waited' \in [Worker -> 0 .. TakeTicks]
  BY <1>1 DEF Returns, Put, Sound, Locals
<1>3. /\ entered' \in [Worker -> TickType \cup {Unset}]
      /\ \A u \in Worker \ {t} : entered'[u] = entered[u]
  BY DEF Returns, Put, Sound, Locals
<1>4. inherited' \in [Worker -> BOOLEAN]
  <2>1. inherited' = [inherited EXCEPT ![t] = FALSE] /\ inherited \in [Worker -> BOOLEAN]
    BY DEF Returns, Put, Sound, Locals
  <2> QED
    BY <2>1, Zenon
<1>5. pc' \in [Tasks -> Location]
  BY DEF Returns, Go, Sound, Locals, Location
<1> QED
  BY <1>2, <1>3, <1>4, <1>5

LEMMA TakeSound ==
    ASSUME Sound, NEW t \in Worker, Take(t)
    PROVE  Sound'
<1>1. t \in Tasks /\ t \in Task /\ At(t, "take") /\ UNCHANGED <<bit, last, age>>
  BY Kinds DEF Take
<1>2. /\ k.cur = t /\ pc[t] = "take" /\ t \in Ready(k) /\ t \notin Delayed(k)
      /\ k \in SchedState /\ Steady(k) /\ k.tick \in TickType
  BY <1>1, RunnerIsReady, StateFields DEF Resting
<1>3. PICK up \in SUBSET Task : up = k.stale \cup {t}
  BY <1>1, <1>2, StateFields
<1>4. PICK down \in SUBSET Task : down = k.stale \ {t}
  BY <1>2, StateFields
<1>5. ASSUME k' = k \/ k' = [k EXCEPT !.stale = up] \/ k' = [k EXCEPT !.stale = down]
      PROVE  Still(k', k) /\ k'.parked = k.parked /\ k'.prio = k.prio /\ k'.cur = t
  <2>1. PICK r : r = k'
    OBVIOUS
  <2>2. CASE r = k
    BY <1>2, <2>1, <2>2 DEF Still, SameWaits
  <2>3. CASE r = [k EXCEPT !.stale = up]
    BY <1>2, <2>1, <2>3, StaleSet
  <2>4. CASE r = [k EXCEPT !.stale = down]
    BY <1>2, <2>1, <2>4, StaleSet
  <2> QED
    BY <1>5, <2>1, <2>2, <2>3, <2>4
<1>6. k.stale \cup {t} = up /\ k.stale \ {t} = down
  BY <1>3, <1>4
<1>7. PICK out \in Location : out = "logging"
  BY DEF Location
<1>8. CASE /\ holder = NULL /\ holder' = t /\ Returns(t)
           /\ k' = [k EXCEPT !.stale = @ \cup {t}] /\ UNCHANGED halted
  <2>1. k' = [k EXCEPT !.stale = up]
    BY <1>2, <1>6, <1>8 DEF SchedState
  <2>2. Go(t, out)
    BY <1>7, <1>8 DEF Returns
  <2>3. Posts' /\ Steady(k') /\ Items(k'.bwait) = Items(k.bwait)
    BY <1>1, <1>2, <1>5, <2>1, <2>2, MovedStill
  <2>4. Locals'
    BY <1>1, <1>8, ReturnsTypes DEF Sound, Locals
  <2>5. pc'[t] = "logging"
    BY <1>1, <1>7, <2>2 DEF Go, Sound, Locals
  <2>6. Holding' /\ Noted'
    <3>1. \A u \in Worker : u # t => pc'[u] = pc[u] /\ entered'[u] = entered[u]
      BY <2>2, <1>8, ReturnsTypes, Kinds DEF Go, Sound, Locals
    <3> QED
      BY <1>8, <2>5, <3>1 DEF Holding, Noted, Sound
  <2>7. BitQueue'
    BY <1>1, <2>3 DEF Sound, BitQueue
  <2> QED
    BY <2>3, <2>4, <2>6, <2>7 DEF Sound
<1>9. CASE /\ holder # NULL /\ halted' = TRUE
           /\ UNCHANGED <<k, holder, pc, left, entered, inherited, waited>>
  <2>1. Locals'
    BY <1>1, <1>9 DEF Sound, Locals
  <2>2. Posts' /\ Steady(k') /\ Holding' /\ BitQueue' /\ Noted'
    BY <1>1, <1>9 DEF Sound, Posts, Awake, Dreaming, Parking, Queueing, Holding, BitQueue, Noted
  <2> QED
    BY <2>1, <2>2 DEF Sound
<1>10. CASE /\ k' = [k EXCEPT !.stale = @ \cup {t}] /\ Returns(t)
            /\ UNCHANGED <<holder, halted>>
  <2>1. k' = [k EXCEPT !.stale = up]
    BY <1>2, <1>6, <1>10 DEF SchedState
  <2>2. Go(t, out)
    BY <1>7, <1>10 DEF Returns
  <2>3. Posts' /\ Steady(k') /\ Items(k'.bwait) = Items(k.bwait)
    BY <1>1, <1>2, <1>5, <2>1, <2>2, MovedStill
  <2>4. Locals'
    BY <1>1, <1>10, ReturnsTypes DEF Sound, Locals
  <2>5. Holding' /\ Noted'
    BY <1>1, <1>2, <1>7, <1>10, <2>2, ReturnsTypes, OthersKept
  <2>6. BitQueue'
    BY <1>1, <2>3 DEF Sound, BitQueue
  <2> QED
    BY <2>3, <2>4, <2>5, <2>6 DEF Sound
<1>11. CASE /\ Go(t, "suspend")
            /\ IF entered[t] = Unset
               THEN Put(entered, t, k.tick) /\ k' = [k EXCEPT !.stale = @ \ {t}]
               ELSE UNCHANGED <<entered, k>>
            /\ UNCHANGED <<holder, left, inherited, waited, halted>>
  <2>1. k' = k \/ k' = [k EXCEPT !.stale = down]
    BY <1>2, <1>6, <1>11 DEF SchedState
  <2>2. PICK l \in Location : l = "suspend"
    BY DEF Location
  <2>3. Go(t, l)
    BY <1>11, <2>2
  <2>4. Posts' /\ Steady(k') /\ Items(k'.bwait) = Items(k.bwait)
    BY <1>1, <1>2, <1>5, <2>1, <2>3, MovedStill
  <2>5. pc' \in [Tasks -> Location] /\ pc'[t] = "suspend" /\ \A u \in Tasks : u # t => pc'[u] = pc[u]
    BY <1>1, <2>2, <2>3 DEF Go, Sound, Locals
  <2>6. /\ entered' \in [Worker -> TickType \cup {Unset}] /\ entered'[t] \in TickType
        /\ \A u \in Worker : u # t => entered'[u] = entered[u]
    <3>1. entered \in [Worker -> TickType \cup {Unset}]
      BY DEF Sound, Locals
    <3>2. CASE entered[t] = Unset
      BY <1>2, <1>11, <3>1, <3>2 DEF Put
    <3>3. CASE entered[t] # Unset
      BY <1>11, <3>1, <3>3
    <3> QED
      BY <3>2, <3>3
  <2>7. Locals'
    BY <1>1, <1>11, <2>5, <2>6 DEF Sound, Locals
  <2>8. Holding'
    BY <1>2, <1>11, <2>5, Kinds DEF Sound, Locals, Holding
  <2>9. Noted'
    BY <2>5, <2>6, Kinds DEF Sound, Noted
  <2>10. BitQueue'
    BY <1>1, <2>4 DEF Sound, BitQueue
  <2> QED
    BY <2>4, <2>7, <2>8, <2>9, <2>10 DEF Sound
<1> QED
  BY <1>8, <1>9, <1>10, <1>11 DEF Take

LEMMA ExpiredSound ==
    ASSUME Sound, NEW t \in Worker, Expired(t)
    PROVE  Sound'
<1>1. t \in Tasks /\ t \in Task /\ At(t, "expired") /\ UNCHANGED <<holder, bit, last, age, halted>>
  BY Kinds DEF Expired
<1>2. /\ k.cur = t /\ pc[t] = "expired" /\ t \in Ready(k) /\ t \notin Delayed(k)
      /\ k \in SchedState /\ Steady(k)
  BY <1>1, RunnerIsReady DEF Resting
<1>3. CASE \/ holder = NULL /\ Go(t, "take") /\ UNCHANGED <<k, left, entered, inherited, waited>>
           \/ /\ holder # NULL /\ inherited[t] /\ Go(t, "giveup")
              /\ UNCHANGED <<k, left, entered, inherited, waited>>
  <2>1. PICK l \in Location : Go(t, l) /\ l # "suspend"
    BY <1>3 DEF Location
  <2>2. Still(k', k) /\ k'.parked = k.parked /\ k'.prio = k.prio /\ k'.cur = t
    BY <1>2, <1>3 DEF Still, SameWaits
  <2>3. Posts' /\ Steady(k') /\ Items(k'.bwait) = Items(k.bwait)
    BY <1>1, <1>2, <2>1, <2>2, MovedStill
  <2>4. Locals'
    <3>1. pc' \in [Tasks -> Location]
      BY <2>1 DEF Go, Sound, Locals
    <3> QED
      BY <1>1, <1>3, <3>1 DEF Sound, Locals
  <2>5. Holding' /\ Noted'
    BY <1>1, <1>2, <1>3, <2>1, OthersKept
  <2>6. BitQueue'
    BY <1>1, <2>3 DEF Sound, BitQueue
  <2> QED
    BY <2>3, <2>4, <2>5, <2>6 DEF Sound
<1>4. CASE Returns(t) /\ k' = [k EXCEPT !.stale = @ \cup {t}]
  <2>1. PICK up \in SUBSET Task : up = k.stale \cup {t}
    BY <1>1, <1>2, StateFields
  <2>2. k' = [k EXCEPT !.stale = up]
    BY <1>2, <1>4, <2>1 DEF SchedState
  <2>3. PICK r : r = k'
    OBVIOUS
  <2>4. Still(r, k) /\ r.parked = k.parked /\ r.prio = k.prio /\ r.cur = k.cur
    BY <1>2, <2>2, <2>3, StaleSet
  <2>5. PICK out \in Location : out = "logging"
    BY DEF Location
  <2>6. Go(t, out)
    BY <1>4, <2>5 DEF Returns
  <2>7. Posts' /\ Steady(k') /\ Items(k'.bwait) = Items(k.bwait)
    BY <1>1, <1>2, <2>3, <2>4, <2>6, MovedStill
  <2>8. Locals'
    BY <1>1, <1>4, ReturnsTypes DEF Sound, Locals
  <2>9. Holding' /\ Noted'
    BY <1>1, <1>2, <1>4, <2>5, <2>6, ReturnsTypes, OthersKept
  <2>10. BitQueue'
    BY <1>1, <2>7 DEF Sound, BitQueue
  <2> QED
    BY <2>7, <2>8, <2>9, <2>10 DEF Sound
<1> QED
  BY <1>3, <1>4 DEF Expired

LEMMA GiveUpSound ==
    ASSUME Sound, NEW t \in Worker, GiveUp(t)
    PROVE  Sound'
<1>1. t \in Tasks /\ t \in Task /\ UNCHANGED <<holder, bit, last, age, halted>>
  BY Kinds DEF GiveUp
<1>2. /\ k.cur = t /\ pc[t] = "giveup" /\ t \in Ready(k) /\ t \notin Delayed(k) /\ Returns(t)
      /\ Still(k', k) /\ k'.parked = k.parked /\ k'.cur = t
      /\ holder = NULL  => k'.prio = k.prio
      /\ holder # NULL => k'.prio = [k.prio EXCEPT ![holder] = Lowered]
  BY GiveUpDoes
<1>3. Steady(k) /\ k \in SchedState
  BY SteadyState DEF Sound
<1>4. PICK out \in Location : out = "logging"
  BY DEF Location
<1>5. Go(t, out)
  BY <1>2, <1>4 DEF Returns
<1>6. PICK r : r = k'
  OBVIOUS
<1>7. /\ Steady(r) /\ Ready(r) = Ready(k) /\ Delayed(r) = Delayed(k)
      /\ r.mwait = k.mwait /\ r.bwait = k.bwait
  BY <1>2, <1>3, <1>6, StillFacts
<1>8. \A x \in Items(k.mwait) : x.owner # t /\ k'.prio[x.owner] = k.prio[x.owner]
  <2>1. k.prio \in [Task -> Priority]
    BY <1>3, StateFields
  <2> QED
    BY <1>2, <2>1, HolderDoesNotWait, Kinds
<1>9. Posts'
  <2>1. k'.parked \subseteq {Starter}
    BY <1>2 DEF Sound, Posts, Parking
  <2>2. k'.cur \in Ready(k') /\ \A u \in Delayed(k') : u # t /\ u \in Delayed(k)
    BY <1>2, <1>6, <1>7
  <2>3. \A x \in Items(k'.mwait) : x \in Items(k.mwait) /\ x.owner # t /\ k'.prio[x.owner] = k.prio[x.owner]
    BY <1>6, <1>7, <1>8
  <2> QED
    BY <1>1, <1>5, <1>6, <1>7, <2>1, <2>2, <2>3, Moved
<1>10. Locals'
  BY <1>1, <1>2, ReturnsTypes DEF Sound, Locals
<1>11. Holding' /\ Noted'
  BY <1>1, <1>2, <1>4, <1>5, ReturnsTypes, OthersKept
<1>12. BitQueue'
  BY <1>1, <1>6, <1>7 DEF Sound, BitQueue
<1> QED
  BY <1>6, <1>7, <1>9, <1>10, <1>11, <1>12 DEF Sound

LEMMA GiveSound ==
    ASSUME Sound, NEW t \in Worker, Give(t)
    PROVE  Sound'
<1>1. t \in Tasks /\ t \in Task /\ UNCHANGED <<bit, left, entered, inherited, last, waited, age>>
  BY Kinds DEF Give, local
<1>2. k.cur = t /\ pc[t] = "logging" /\ t \in Ready(k) /\ t \notin Delayed(k)
  BY GiveDoes
<1>3. Steady(k) /\ k \in SchedState
  BY SteadyState DEF Sound
<1>4. PICK l \in Location : l = "sleep"
  BY DEF Location
<1>5. ASSUME Go(t, l) PROVE /\ pc' \in [Tasks -> Location] /\ pc'[t] = "sleep"
                            /\ \A u \in Tasks : u # t => pc'[u] = pc[u]
  BY <1>1, <1>4, <1>5 DEF Go, Sound, Locals
<1>6. CASE holder = NULL /\ Go(t, "sleep") /\ UNCHANGED <<k, holder, halted>>
  <2>1. Go(t, l)
    BY <1>4, <1>6
  <2>2. Still(k', k) /\ k'.parked = k.parked /\ k'.prio = k.prio /\ k'.cur = t
    BY <1>2, <1>3, <1>6 DEF Still, SameWaits
  <2>3. Posts' /\ Steady(k') /\ Items(k'.bwait) = Items(k.bwait)
    BY <1>1, <1>2, <2>1, <2>2, MovedStill
  <2>4. Locals'
    BY <1>1, <1>5, <1>6, <2>1 DEF Sound, Locals
  <2>5. Holding'
    BY <1>6 DEF Holding
  <2>6. Noted'
    BY <1>1, <1>5, <2>1, Kinds DEF Sound, Noted
  <2>7. BitQueue'
    BY <1>1, <2>3 DEF Sound, BitQueue
  <2> QED
    BY <2>3, <2>4, <2>5, <2>6, <2>7 DEF Sound
<1>7. CASE Released(t)
  <2>1. Go(t, l)
    BY <1>4, <1>7 DEF Released
  <2>2. PICK r : r = k'
    OBVIOUS
  <2>3. /\ Steady(r) /\ r.parked = k.parked /\ Asleep(r) \subseteq Asleep(k)
        /\ Items(r.mwait) \subseteq Items(k.mwait) /\ r.prio = [k.prio EXCEPT ![t] = Base[t]]
        /\ r.cur \in Ready(r) /\ Items(r.bwait) = Items(k.bwait)
    BY <1>7, <2>2 DEF Released
  <2>4. Delayed(r) \subseteq Delayed(k)
    BY <1>3, <2>3, ReadyFrom
  <2>5. Posts'
    <3>1. k'.parked \subseteq {Starter}
      BY <2>2, <2>3 DEF Sound, Posts, Parking
    <3>2. \A u \in Delayed(k') : u # t /\ u \in Delayed(k)
      BY <1>2, <2>2, <2>4
    <3>3. \A x \in Items(k'.mwait) : x \in Items(k.mwait) /\ x.owner # t /\ k'.prio[x.owner] = k.prio[x.owner]
      <4>1. k.prio \in [Task -> Priority]
        BY <1>3, StateFields
      <4>2. \A x \in Items(k.mwait) : x.owner # t /\ x.owner \in Task
        BY <1>2, HolderDoesNotWait, Kinds
      <4> QED
        BY <2>2, <2>3, <4>1, <4>2
    <3> QED
      BY <1>1, <2>1, <2>2, <2>3, <3>1, <3>2, <3>3, Moved
  <2>6. Locals'
    BY <1>1, <1>5, <1>7, <2>1 DEF Sound, Locals, Released
  <2>7. Holding'
    BY <1>7 DEF Holding, Released
  <2>8. Noted'
    BY <1>1, <1>5, <2>1, Kinds DEF Sound, Noted
  <2>9. BitQueue'
    BY <1>1, <2>2, <2>3 DEF Sound, BitQueue
  <2> QED
    BY <2>2, <2>3, <2>5, <2>6, <2>7, <2>8, <2>9 DEF Sound
<1>8. CASE holder # NULL /\ halted' = TRUE /\ UNCHANGED <<k, holder, pc>>
  <2>1. Locals'
    BY <1>1, <1>8 DEF Sound, Locals
  <2>2. Posts' /\ Steady(k') /\ Holding' /\ BitQueue' /\ Noted'
    BY <1>1, <1>8 DEF Sound, Posts, Awake, Dreaming, Parking, Queueing, Holding, BitQueue, Noted
  <2> QED
    BY <2>1, <2>2 DEF Sound
<1> QED
  BY <1>6, <1>7, <1>8, GiveDoes

LEMMA PortYieldSound ==
    ASSUME Sound, NEW t \in Tasks, PortYield(t)
    PROVE  Sound'
<1>1. UNCHANGED <<holder, bit, left, entered, inherited, last, waited, age, halted>>
  BY DEF PortYield, local
<1>2. /\ k.cur = t
      /\ \/ pc[t] = "waited"  /\ Go(t, "cycle")
         \/ pc[t] = "blocked" /\ Go(t, "take")
         \/ pc[t] = "slept"   /\ Go(t, "cycle")
         \/ pc[t] = "stopped" /\ UNCHANGED pc
         \/ pc[t] = "began"   /\ Go(t, "boot")
      /\ Still(k', k) /\ k'.stale = k.stale /\ k'.parked = k.parked /\ k'.prio = k.prio
      /\ k'.cur \in Ready(k')
  BY PortYieldDoes
<1>3. Steady(k) /\ pc \in [Tasks -> Location] /\ t \in Task
  BY Kinds DEF Sound, Locals
<1>4. PICK l \in Location : Go(t, l) /\ l # "suspend" /\ l \in Resting \cup Dozing
                            /\ (t \in Delayed(k) => l \in Dozing)
                            /\ (pc[t] \in {"blocked", "take"} => l = "take")
  <2>1. CASE pc[t] \in {"waited", "slept"} /\ Go(t, "cycle")
    BY <2>1 DEF Location, Resting, Dozing
  <2>2. CASE pc[t] = "blocked" /\ Go(t, "take")
    BY <2>2 DEF Location, Resting, Dozing
  <2>3. CASE pc[t] = "stopped" /\ UNCHANGED pc
    <3>1. Go(t, "stopped")
      BY <1>3, <2>3 DEF Go
    <3>2. t \notin Delayed(k)
      BY <2>3 DEF Sound, Posts, Dreaming, Dozing
    <3> QED
      BY <2>3, <3>1, <3>2 DEF Location, Resting, Dozing
  <2>4. CASE pc[t] = "began" /\ Go(t, "boot")
    BY <2>4 DEF Location, Resting, Dozing
  <2> QED
    BY <1>2, <2>1, <2>2, <2>3, <2>4
<1>5. PICK r : r = k'
  OBVIOUS
<1>6. /\ Steady(r) /\ Ready(r) = Ready(k) /\ Delayed(r) = Delayed(k)
      /\ r.mwait = k.mwait /\ r.bwait = k.bwait
  BY <1>2, <1>3, <1>5, StillFacts
<1>7. Posts'
  <2>1. k'.parked \subseteq {Starter}
    BY <1>2 DEF Sound, Posts, Parking
  <2>2. \A u \in Delayed(k') : (u = t /\ l \in Dozing) \/ (u # t /\ u \in Delayed(k))
    BY <1>4, <1>5, <1>6
  <2>3. \A x \in Items(k'.mwait) :
           \/ x \in Items(k.mwait) /\ x.owner # t /\ k'.prio[x.owner] = k.prio[x.owner]
           \/ /\ x.owner = t /\ t \in Worker /\ l \in {"blocked", "take"}
              /\ x.value = MaxPriorities - k'.prio[t]
    <3>1. \A x \in Items(k.mwait) : /\ x.owner \in Worker /\ pc[x.owner] \in {"blocked", "take"}
                                    /\ x.value = MaxPriorities - k.prio[x.owner]
      BY DEF Sound, Posts, Queueing
    <3> QED
      BY <1>2, <1>4, <1>5, <1>6, <3>1
  <2> QED
    BY <1>2, <1>4, <1>5, <1>6, <2>1, <2>2, <2>3, Moved
<1>8. Locals'
  <2>1. pc' \in [Tasks -> Location]
    BY <1>4 DEF Go, Sound, Locals
  <2> QED
    BY <1>1, <2>1 DEF Sound, Locals
<1>9. Holding' /\ Noted'
  <2>1. pc[t] # "logging"
    BY <1>2
  <2> QED
    BY <1>1, <1>4, <2>1, OthersKept
<1>10. BitQueue'
  BY <1>1, <1>5, <1>6 DEF Sound, BitQueue
<1> QED
  BY <1>5, <1>6, <1>7, <1>8, <1>9, <1>10 DEF Sound

LEMMA SuspendSound ==
    ASSUME Sound, Suspend
    PROVE  Sound'
<1>1. /\ UNCHANGED <<holder, bit, left, entered, inherited, last, waited, age, halted>>
      /\ Starter \in Tasks /\ Starter \in Task
  BY Kinds DEF Suspend, local
<1>2. /\ k.cur = Starter
      /\ \/ /\ pc[Starter] = "stop" /\ Go(Starter, "stopping")
            /\ k'.parked = k.parked \cup {Starter}
         \/ /\ pc[Starter] = "stopping" /\ Go(Starter, "stopped")
            /\ k'.parked = k.parked
      /\ Still(k', k) /\ k'.stale = k.stale /\ k'.prio = k.prio /\ k'.cur = Starter
  BY SuspendDoes
<1>3. k \in SchedState /\ Filing(k) /\ Steady(k) /\ k.parked \subseteq {Starter}
  BY SteadyState DEF Sound, Posts, Parking
<1>4. PICK l \in Location : Go(Starter, l) /\ l # "suspend" /\ l \in Resting
  BY <1>2 DEF Location, Resting
<1>5. Starter \notin Delayed(k)
  BY <1>2 DEF Sound, Posts, Dreaming, Dozing
<1>6. PICK r : r = k'
  OBVIOUS
<1>7. /\ Steady(r) /\ Delayed(r) = Delayed(k) /\ r.mwait = k.mwait /\ r.bwait = k.bwait
  <2>1. Steady(r) /\ Asleep(r) = Asleep(k) /\ r.mwait = k.mwait /\ r.bwait = k.bwait
    BY <1>2, <1>6 DEF Still, SameWaits
  <2>2. r \in SchedState /\ Filing(r)
    BY <2>1, SteadyState
  <2>3. Delayed(r) = OwnersOf(Asleep(r)) /\ Delayed(k) = OwnersOf(Asleep(k))
    BY <1>3, <2>2, AsleepOwners
  <2> QED
    BY <2>1, <2>3
<1>8. Posts'
  <2>1. k'.parked \subseteq {Starter}
    BY <1>2, <1>3
  <2>2. \A u \in Delayed(k') : u # Starter /\ u \in Delayed(k)
    BY <1>5, <1>6, <1>7
  <2>3. \A x \in Items(k'.mwait) :
           x \in Items(k.mwait) /\ x.owner # Starter /\ k'.prio[x.owner] = k.prio[x.owner]
    BY <1>2, <1>6, <1>7, HolderDoesNotWait, Kinds
  <2> QED
    BY <1>1, <1>2, <1>4, <1>6, <1>7, <2>1, <2>2, <2>3, Moved
<1>9. Locals'
  <2>1. pc' \in [Tasks -> Location]
    BY <1>4 DEF Go, Sound, Locals
  <2> QED
    BY <1>1, <2>1 DEF Sound, Locals
<1>10. Holding' /\ Noted'
  BY <1>1, <1>2, <1>4, OthersKept
<1>11. BitQueue'
  BY <1>1, <1>6, <1>7 DEF Sound, BitQueue
<1> QED
  BY <1>6, <1>7, <1>8, <1>9, <1>10, <1>11 DEF Sound

LEMMA TickSound ==
    ASSUME Sound, Tick
    PROVE  Sound'
<1>1. UNCHANGED <<holder, bit, pc, left, entered, inherited, last, halted>> /\ Later(1)
  BY DEF Tick, local
<1>2. Onward(k', k, Asleep(k), Items(k.mwait), Items(k.bwait), 1) /\ k'.cur \in Ready(k')
  BY TickDoes
<1>3. Steady(k)
  BY DEF Sound
<1>4. PICK r : r = k'
  OBVIOUS
<1>5. Delayed(r) \subseteq Delayed(k)
  BY <1>2, <1>3, <1>4, SleeperIsReadyAgain
<1>6. /\ Steady(r) /\ r.parked = k.parked /\ r.prio = k.prio /\ r.cur \in Ready(r)
      /\ Items(r.mwait) \subseteq Items(k.mwait) /\ Items(r.bwait) \subseteq Items(k.bwait)
  BY <1>2, <1>4 DEF Onward
<1>7. Posts'
  BY <1>1, <1>4, <1>5, <1>6 DEF Sound, Posts, Awake, Dreaming, Parking, Queueing
<1>8. Locals'
  BY <1>1, LaterTypes DEF Sound, Locals
<1>9. Holding' /\ BitQueue' /\ Noted'
  BY <1>1, <1>4, <1>6 DEF Sound, Holding, BitQueue, Noted
<1> QED
  BY <1>4, <1>6, <1>7, <1>8, <1>9 DEF Sound

LEMMA StutterSound ==
    ASSUME Sound, UNCHANGED vars
    PROVE  Sound'
BY DEF vars, local, Sound, Locals, Posts, Awake, Dreaming, Parking, Queueing, Holding, BitQueue, Noted

LEMMA NextSound ==
    ASSUME Sound, [Next]_vars
    PROVE  Sound'
<1>1. ASSUME NEW t \in Worker, Step(t) PROVE Sound'
  <2>1. ASSUME NEW n \in 0 .. MaxPended, WaitBits(t, n) \/ Sleep(t, n) \/ Block(t, n) PROVE Sound'
    BY <2>1, WaitBitsSound, SleepSound, BlockSound
  <2>2. CASE PortYield(t)
    BY <2>2, PortYieldSound, Kinds
  <2>3. CASE Cycle(t) \/ Take(t) \/ Expired(t) \/ GiveUp(t) \/ Give(t)
    BY <2>3, CycleSound, TakeSound, ExpiredSound, GiveUpSound, GiveSound
  <2> QED
    BY <1>1, <2>1, <2>2, <2>3 DEF Step
<1>2. ASSUME NEW n \in 0 .. MaxPended, InitDevices(n) \/ SetBits(n) PROVE Sound'
  BY <1>2, InitDevicesSound, SetBitsSound
<1>3. CASE Suspend \/ PortYield(Starter) \/ Tick
  BY <1>3, SuspendSound, PortYieldSound, TickSound, Kinds
<1>4. CASE Hang \/ UNCHANGED vars
  BY <1>4, StutterSound DEF Hang
<1> QED
  BY <1>1, <1>2, <1>3, <1>4 DEF Next

-----------------------------------------------------------------------------
(***************************************************************************)
(* The start.                                                              *)
(***************************************************************************)
Bare ==
    [tick |-> 0, unblock |-> MaxDelay, delayed |-> <<>>, overflow |-> <<>>,
     ready |-> [p \in Priority |-> EmptyRing], top |-> 0, parked |-> {},
     cur |-> Created[1], locked |-> FALSE, pended |-> 0, yield |-> FALSE,
     prio |-> Base, stale |-> Task, mwait |-> <<>>, bwait |-> <<>>]

CreateFold(g, n) ==
    g = [i \in 0 .. n |-> IF i = 0 THEN Bare ELSE AddNewTask(g[i - 1], Created[i])]

LEMMA CreateFolds ==
    ASSUME NEW m \in Nat
    PROVE  \E g : CreateFold(g, m)
<1> DEFINE S == {n \in Nat : \E g : CreateFold(g, n)}
<1>1. 0 \in S
  <2>1. [i \in 0 .. 0 |-> Bare] =
            [i \in 0 .. 0 |-> IF i = 0 THEN Bare
                              ELSE AddNewTask([j \in 0 .. 0 |-> Bare][i - 1], Created[i])]
    OBVIOUS
  <2> QED
    BY <2>1 DEF CreateFold
<1>2. ASSUME NEW n \in Nat, n \in S PROVE n + 1 \in S
  <2>1. PICK g : CreateFold(g, n)
    BY <1>2
  <2>2. g = [i \in 0 .. n |-> IF i = 0 THEN Bare ELSE AddNewTask(g[i - 1], Created[i])]
    BY <2>1 DEF CreateFold
  <2>3. PICK h : h = [i \in 0 .. n + 1 |-> IF i = n + 1 THEN AddNewTask(g[n], Created[i])
                                                        ELSE g[i]]
    OBVIOUS
  <2>4. h = [i \in 0 .. n + 1 |-> IF i = 0 THEN Bare ELSE AddNewTask(h[i - 1], Created[i])]
    BY <2>2, <2>3
  <2>5. CreateFold(h, n + 1)
    BY <2>4 DEF CreateFold
  <2> QED
    BY <2>5
<1> HIDE DEF S
<1>3. m \in S
  BY <1>1, <1>2, Induct
<1> QED
  BY <1>3 DEF S

(* Nothing sleeps or waits, and the tasks T are ready. *)
Begun(s, T) ==
    /\ s \in SchedState /\ Rings(s) /\ Ready(s) = T
    /\ s.tick = 0 /\ ~s.locked /\ s.pended = 0 /\ ~s.yield /\ s.parked = {}
    /\ s.delayed = <<>> /\ s.overflow = <<>> /\ s.mwait = <<>> /\ s.bwait = <<>>
    /\ s.prio = Base

(* The task to run is the highest of them. *)
Led(s, T) == \A u \in T : Base[u] <= Base[s.cur]

LEMMA NoItems == Items(<<>>) = {} /\ Owners(<<>>) = {} /\ <<>> \in List
  BY DEF Items, Owners, List, OwnedOnce, Ordered

LEMMA BareIsBegun == Begun(Bare, {}) /\ Bare.cur = Created[1] /\ Created[1] \in Tasks
<1>1. Created[1] \in Tasks
  <2>1. /\ Created \in Seq(Tasks) /\ {Created[i] : i \in DOMAIN Created} = Tasks /\ Starter \in Tasks
    BY KernelAssumption
  <2>2. Len(Created) \in Nat /\ DOMAIN Created = 1 .. Len(Created) /\ Len(Created) # 0
    BY <2>1
  <2> QED
    BY <2>1, <2>2
<1>2. PICK s : s = Bare
  OBVIOUS
<1>3. PICK rings \in [Priority -> Ring] : rings = [p \in Priority |-> EmptyRing]
  BY EmptyRingIsRing
<1>4. /\ s.tick = 0 /\ s.locked = FALSE /\ s.pended = 0 /\ s.yield = FALSE /\ s.parked = {}
      /\ s.delayed = <<>> /\ s.overflow = <<>> /\ s.mwait = <<>> /\ s.bwait = <<>>
      /\ s.ready = rings /\ s.top = 0 /\ s.cur = Created[1] /\ s.prio = Base
  BY <1>2, <1>3 DEF Bare
<1>5. s \in SchedState
  <2>1. 0 \in TickType /\ MaxDelay \in TickType
    BY WidthIs DEF Width
  <2>2. Base \in [Task -> Priority] /\ 0 \in Priority /\ Created[1] \in Task
    BY <1>1, KernelAssumption, Priorities, Kinds
  <2>3. s = [tick |-> 0, unblock |-> MaxDelay, delayed |-> <<>>, overflow |-> <<>>,
             ready |-> rings, top |-> 0, parked |-> {},
             cur |-> Created[1], locked |-> FALSE, pended |-> 0, yield |-> FALSE,
             prio |-> Base, stale |-> Task, mwait |-> <<>>, bwait |-> <<>>]
    BY <1>2, <1>3 DEF Bare
  <2> QED
    BY <2>1, <2>2, <2>3, NoItems DEF SchedState
<1>6. Ready(s) = {} /\ Rings(s)
  BY <1>3, <1>4, EmptyRingIsRing DEF Ready, Rings, RingIsEmpty
<1> QED
  BY <1>1, <1>2, <1>4, <1>5, <1>6 DEF Begun

LEMMA BegunMore ==
    ASSUME NEW s, NEW T, Begun(s, T), NEW t \in Task, t \notin T, NEW r, r = AddToReady(s, t)
    PROVE  Begun(r, T \cup {t}) /\ r.cur = s.cur
<1>1. /\ r \in SchedState /\ Rings(r) /\ Ready(r) = Ready(s) \cup {t}
      /\ SameClock(r, s) /\ SameLists(r, s) /\ SameWaits(r, s)
      /\ r.cur = s.cur /\ r.yield = s.yield /\ r.prio = s.prio
  BY AddedToReady DEF Begun
<1> QED
  BY <1>1 DEF Begun, SameClock, SameLists, SameWaits

LEMMA TaskCreated ==
    ASSUME NEW s, NEW T, Begun(s, T), NEW t \in Task, t \notin T, NEW r, r = AddNewTask(s, t)
    PROVE  /\ Begun(r, T \cup {t}) /\ (r.cur = s.cur \/ r.cur = t)
           /\ Led(s, T) /\ T \subseteq Task => Led(r, T \cup {t})
<1>1. PICK c \in Task : c = IF Base[s.cur] <= Base[t] THEN t ELSE s.cur
  BY StateFields DEF Begun
<1>2. PICK u : u = [s EXCEPT !.cur = c]
  OBVIOUS
<1>3. s \in SchedState
  BY DEF Begun
<1>4. u = [s EXCEPT !.cur = IF Base[@] <= Base[t] THEN t ELSE @]
  BY <1>1, <1>2, <1>3 DEF SchedState
<1>5. u \in SchedState
  BY <1>2, <1>3 DEF SchedState
<1>6. /\ u.cur = c /\ u.ready = s.ready /\ u.top = s.top /\ u.prio = s.prio /\ u.tick = s.tick
      /\ u.locked = s.locked /\ u.pended = s.pended /\ u.yield = s.yield
      /\ SameLists(u, s) /\ SameWaits(u, s)
  BY <1>2, <1>3 DEF SchedState, SameLists, SameWaits
<1>7. Begun(u, T)
  BY <1>5, <1>6 DEF Begun, Rings, Ready, SameLists, SameWaits
<1>8. r = AddToReady(u, t)
  BY <1>4 DEF AddNewTask
<1>9. Begun(r, T \cup {t}) /\ r.cur = c
  BY <1>6, <1>7, <1>8, BegunMore
<1>10. ASSUME Led(s, T), T \subseteq Task PROVE Led(r, T \cup {t})
  <2>1. s.cur \in Task /\ \A v \in Task : Base[v] \in Nat
    BY <1>3, StateFields, Priorities, KernelAssumption
  <2> QED
    BY <1>1, <1>9, <1>10, <2>1 DEF Led
<1> QED
  BY <1>1, <1>9, <1>10

LEMMA StartIsSteady ==
    ASSUME NEW s, Begun(s, Task)
    PROVE  Steady(s) /\ Delayed(s) = {} /\ Items(s.mwait) = {} /\ Items(s.bwait) = {}
<1>1. Delayed(s) = {} /\ Items(s.mwait) = {} /\ Items(s.bwait) = {} /\ Owners(s.mwait) = {} /\ Owners(s.bwait) = {}
  BY NoItems DEF Begun, Delayed
<1>2. Apart(s)
  BY <1>1, NoItems DEF Begun, Apart
<1>3. Placed(s)
  BY <1>2, KernelAssumption DEF Begun, Placed
<1>4. Waiters(s)
  BY <1>1 DEF Waiters
<1>5. Clock(s)
  BY NoItems DEF Begun, Clock
<1> QED
  BY <1>1, <1>3, <1>4, <1>5 DEF Begun, Steady, Filing

LEMMA StartedIs ==
    Begun(Started, Task) /\ Started.cur \in Task /\ Led(Started, Task)
<1>0. Created \in Seq(Tasks) /\ Len(Created) \in Nat
  <2>1. Created \in Seq(Tasks)
    BY KernelAssumption
  <2> QED
    BY <2>1
<1>1. PICK n \in Nat : n = Len(Created)
  BY <1>0
<1>2. PICK f : f = CHOOSE g : CreateFold(g, n)
  OBVIOUS
<1>3. CreateFold(f, n)
  BY <1>2, CreateFolds
<1>4. Started = AddToReady(f[n], Idle)
  BY <1>1, <1>2 DEF Started, CreateFold, Bare
<1>5. f[0] = Bare /\ \A i \in 0 .. n - 1 : f[i + 1] = AddNewTask(f[i], Created[i + 1])
  BY <1>3 DEF CreateFold
<1>6. /\ \A i \in 1 .. n : Created[i] \in Tasks
      /\ Tasks = {Created[i] : i \in 1 .. n}
      /\ \A i, j \in 1 .. n : Created[i] = Created[j] => i = j
  <2>1. DOMAIN Created = 1 .. n /\ \A i \in 1 .. n : Created[i] \in Tasks
    BY <1>0, <1>1
  <2>2. /\ {Created[i] : i \in DOMAIN Created} = Tasks
        /\ \A i, j \in DOMAIN Created : Created[i] = Created[j] => i = j
    BY KernelAssumption
  <2> QED
    BY <2>1, <2>2
<1> DEFINE Fine(i) == /\ Begun(f[i], {Created[j] : j \in 1 .. i}) /\ f[i].cur \in Tasks
                      /\ Led(f[i], {Created[j] : j \in 1 .. i})
           S == {i \in Nat : i <= n => Fine(i)}
<1>7. 0 \in S
  <2>1. {Created[j] : j \in 1 .. 0} = {}
    OBVIOUS
  <2> QED
    BY <1>5, <2>1, BareIsBegun DEF Led
<1>8. ASSUME NEW i \in Nat, i \in S, i + 1 <= n PROVE Fine(i + 1)
  <2>1. i \in 0 .. n - 1 /\ i + 1 \in 1 .. n
    BY <1>8
  <2>2. PICK q : q = f[i]
    OBVIOUS
  <2>3. PICK r : r = f[i + 1]
    OBVIOUS
  <2>4. PICK T : T = {Created[j] : j \in 1 .. i}
    OBVIOUS
  <2>5. Begun(q, T) /\ q.cur \in Tasks /\ Led(q, T) /\ T \subseteq Task
    BY <1>6, <1>8, <2>1, <2>2, <2>4, Kinds
  <2>6. PICK t \in Task : t = Created[i + 1] /\ t \in Tasks
    BY <1>6, <2>1, Kinds
  <2>7. t \notin T
    <3>1. \A j \in 1 .. i : j \in 1 .. n /\ j # i + 1
      BY <2>1
    <3> QED
      BY <1>6, <2>1, <2>4, <2>6, <3>1
  <2>8. r = AddNewTask(q, t)
    BY <1>5, <2>1, <2>2, <2>3, <2>6
  <2>9. Begun(r, T \cup {t}) /\ (r.cur = q.cur \/ r.cur = t) /\ Led(r, T \cup {t})
    BY <2>5, <2>7, <2>8, TaskCreated
  <2>10. T \cup {t} = {Created[j] : j \in 1 .. i + 1}
    <3>1. 1 .. i + 1 = (1 .. i) \cup {i + 1}
      BY <2>1
    <3> QED
      BY <2>4, <2>6, <3>1
  <2> QED
    BY <2>3, <2>5, <2>6, <2>9, <2>10
<1>9. Fine(n)
  <2> HIDE DEF Fine
  <2>1. ASSUME NEW i \in Nat, i \in S PROVE i + 1 \in S
    BY <1>8, <2>1
  <2> HIDE DEF S
  <2>2. n \in S
    BY <1>7, <2>1, Induct
  <2> QED
    BY <2>2 DEF S
<1>10. PICK q : q = f[n]
  OBVIOUS
<1>11. Begun(q, Tasks) /\ q.cur \in Tasks /\ Led(q, Tasks)
  BY <1>6, <1>9, <1>10
<1>12. Idle \in Task /\ Idle \notin Tasks /\ Tasks \cup {Idle} = Task
  BY KernelAssumption DEF Tasks
<1>13. PICK s : s = Started
  OBVIOUS
<1>14. Begun(s, Tasks \cup {Idle}) /\ s.cur = q.cur
  BY <1>4, <1>10, <1>11, <1>12, <1>13, BegunMore
<1>15. Led(s, Task)
  <2>1. Base[Idle] = 0 /\ Base[q.cur] \in Nat
    BY <1>11, <1>12, KernelAssumption, Priorities
  <2> QED
    BY <1>11, <1>12, <1>14, <2>1 DEF Led
<1> QED
  BY <1>11, <1>12, <1>13, <1>14, <1>15

LEMMA InitSound == Init => Sound
<1> SUFFICES ASSUME Init PROVE Sound
  OBVIOUS
<1>1. k = Started
  BY DEF Init
<1>2. Begun(k, Task) /\ k.cur \in Task
  BY <1>1, StartedIs
<1>3. Steady(k) /\ Delayed(k) = {} /\ Items(k.mwait) = {} /\ Items(k.bwait) = {}
  BY <1>2, StartIsSteady
<1>4. Posts
  BY <1>2, <1>3 DEF Posts, Awake, Dreaming, Parking, Queueing, Begun
<1>5. Locals
  <2>1. 0 \in TickType /\ W \in 0 .. W /\ 0 \in 0 .. TakeTicks
    BY KernelAssumption, WidthIs DEF Width
  <2>2. pc \in [Tasks -> Location]
    BY DEF Init, Location
  <2> QED
    BY <2>1, <2>2 DEF Init, Locals
<1>6. Holding /\ BitQueue /\ Noted
  BY Kinds DEF Init, Holding, BitQueue, Noted
<1> QED
  BY <1>3, <1>4, <1>5, <1>6 DEF Sound

(* The scheduler and the objects of the tasks are as the code means them   *)
(* to be after every call: the inductive invariant.                        *)
THEOREM SoundHolds == Spec => []Sound
<1>1. Init => Sound
  BY InitSound
<1>2. Sound /\ [Next]_vars => Sound'
  BY NextSound
<1> QED
  BY <1>1, <1>2, PTL DEF Spec

(***************************************************************************)
(* Every variable has its type, and between two steps the scheduler is not *)
(* locked and owes no tick.                                                *)
(***************************************************************************)
THEOREM TypesHold == Spec => []TypeOK
<1>1. Sound => TypeOK
  <2> SUFFICES ASSUME Sound PROVE TypeOK
    OBVIOUS
  <2>1. /\ k \in SchedState /\ ~k.locked /\ k.pended = 0
    BY SteadyState DEF Sound, Steady
  <2>2. /\ k.tick \in TickType /\ k.unblock \in TickType /\ k.top \in Priority
        /\ k.prio \in [Task -> Priority] /\ k.cur \in Task /\ k.yield \in BOOLEAN
    BY <2>1, StateFields
  <2>3. 0 .. TakeTicks \subseteq TickType
    BY KernelAssumption, WidthIs DEF Width
  <2> QED
    BY <2>1, <2>2, <2>3 DEF TypeOK, Sound, Locals
<1> QED
  BY <1>1, SoundHolds, PTL

(***************************************************************************)
(* The ready lists, the two delayed lists and the suspended list agree     *)
(* with each other and with the clock, after every call.                   *)
(***************************************************************************)
THEOREM FiledHolds == Spec => []Filed
<1>1. Sound => Filed
  <2> SUFFICES ASSUME Sound PROVE Filed
    OBVIOUS
  <2>1. /\ k \in SchedState /\ Clock(k) /\ Placed(k) /\ Rings(k)
        /\ Ready(k) = Task \ (Delayed(k) \cup k.parked) /\ Delayed(k) \cap k.parked = {}
    BY SteadyState DEF Sound, Placed
  <2>2. ASSUME NEW t \in Task
        PROVE  Cardinality({x \in {"ready", "delayed", "parked"} :
                         t \in CASE x = "ready" -> Ready(k)
                                 [] x = "delayed" -> Delayed(k)
                                 [] x = "parked" -> k.parked}) = 1
    <3>1. PICK where : where = {x \in {"ready", "delayed", "parked"} :
                       t \in CASE x = "ready" -> Ready(k)
                               [] x = "delayed" -> Delayed(k)
                               [] x = "parked" -> k.parked}
      OBVIOUS
    <3>2. /\ "ready"   \in where <=> t \in Ready(k)
          /\ "delayed" \in where <=> t \in Delayed(k)
          /\ "parked"  \in where <=> t \in k.parked
          /\ where \subseteq {"ready", "delayed", "parked"}
      BY <3>1
    <3>3. where = {"ready"} \/ where = {"delayed"} \/ where = {"parked"}
      BY <2>1, <2>2, <3>2
    <3> QED
      BY <3>1, <3>3, FS_Singleton
  <2>3. ASSUME NEW t \in Ready(k) PROVE InReady(k, t) /\ k.prio[t] <= k.top
    <3>1. t \in Task /\ k.prio[t] \in Priority /\ k.top \in Priority
          /\ k.ready[k.prio[t]] \in Ring
      BY <2>1, StateFields
    <3>2. t \in RingItems(k.ready[k.prio[t]])
      BY <2>1, <3>1, ReadyRing
    <3>3. ~RingIsEmpty(k.ready[k.prio[t]])
      BY <3>1, <3>2, RingFacts
    <3>4. ~(k.prio[t] > k.top)
      BY <2>1, <3>1, <3>3 DEF Rings
    <3> QED
      BY <3>1, <3>2, <3>4, Priorities DEF InReady
  <2>4. /\ \A i \in Items(k.delayed) : k.tick < i.value /\ k.unblock <= i.value
        /\ \A i \in Items(k.overflow) : i.value < k.tick
    BY <2>1 DEF Clock
  <2>5. ASSUME NEW s \in List, NEW n \in 1 .. Len(s) - 1 PROVE s[n].value <= s[n + 1].value
    <3>1. Len(s) \in Nat /\ DOMAIN s = 1 .. Len(s) /\ Ordered(s)
      BY ListFacts
    <3>2. n \in DOMAIN s /\ n + 1 \in DOMAIN s /\ n < n + 1
      BY <3>1
    <3> QED
      BY <3>1, <3>2 DEF Ordered
  <2>6. k.delayed \in List /\ k.overflow \in List
    BY <2>1, StateFields
  <2>7. /\ \A n \in 1 .. Len(k.delayed) - 1 : k.delayed[n].value <= k.delayed[n + 1].value
        /\ \A n \in 1 .. Len(k.overflow) - 1 : k.overflow[n].value <= k.overflow[n + 1].value
    BY <2>5, <2>6
  <2> QED
    BY <2>2, <2>3, <2>4, <2>7 DEF Filed
<1> QED
  BY <1>1, SoundHolds, PTL

-----------------------------------------------------------------------------
(***************************************************************************)
(* Every step of task t, seen by the others: the tasks S are woken, t goes *)
(* to sleep or not (D is its item or empty), and n ticks pass.             *)
(***************************************************************************)
Turn(r, q, t, S, D, n) ==
    /\ S \subseteq Owners(q.mwait) \cup Owners(q.bwait)
    /\ \/ D = {}
       \/ /\ S = {} /\ t \in Ready(q)
          /\ \E m \in Naps : D = {Item(t, TimeToWake(q.tick, m))}
    /\ r.tick = (q.tick + n) % W
    /\ Asleep(r) = {x \in Asleep(q) \cup D : x.owner \notin S /\ Elapsed(q.tick, x.value) > n}
    /\ \A u \in Task : u # t \/ D = {} =>
          /\ u \in Owners(r.mwait) <=> u \in Owners(q.mwait) /\ u \in Delayed(r)
          /\ u \in Owners(r.bwait) <=> u \in Owners(q.bwait) /\ u \in Delayed(r)
    /\ r.parked \subseteq q.parked \cup {t}

StaleOthers(r, q, t, n) ==
    \A u \in Task \ {t} : u \in r.stale <=> (q.tick + n >= W \/ u \in q.stale)

LEMMA OwnersAre ==
    ASSUME NEW s, Steady(s)
    PROVE  /\ s \in SchedState /\ Delayed(s) = OwnersOf(Asleep(s))
           /\ Owners(s.mwait) = OwnersOf(Items(s.mwait))
           /\ Owners(s.bwait) = OwnersOf(Items(s.bwait))
           /\ Owners(s.mwait) \subseteq Delayed(s) /\ Owners(s.bwait) \subseteq Delayed(s)
           /\ Delayed(s) \subseteq Task /\ Ready(s) = Task \ (Delayed(s) \cup s.parked)
           /\ \A x, y \in Asleep(s) : x.owner = y.owner => x = y
<1>1. s \in SchedState /\ Filing(s) /\ Ready(s) = Task \ (Delayed(s) \cup s.parked)
  BY SteadyState
<1>2. /\ s.mwait \in List /\ s.bwait \in List /\ Delayed(s) \subseteq Task
  BY <1>1, StateFields
<1>3. ASSUME NEW l \in List PROVE Owners(l) = OwnersOf(Items(l))
  BY <1>3, ListFacts DEF OwnersOf
<1>4. Owners(s.mwait) \subseteq Delayed(s) /\ Owners(s.bwait) \subseteq Delayed(s)
  BY <1>1 DEF Filing, Waiters
<1> QED
  BY <1>1, <1>2, <1>3, <1>4, AsleepOwners

(* Who sleeps has a tick to go at least. *)
LEMMA SomeTicksToGo ==
    ASSUME NEW s, Steady(s), NEW x \in Asleep(s)
    PROVE  /\ x.owner \in Task /\ x.owner \in Delayed(s)
           /\ x.value \in TickType /\ s.tick \in TickType /\ x.value # s.tick
           /\ Elapsed(s.tick, x.value) \in 1 .. W - 1
<1>1. s \in SchedState /\ Filing(s) /\ Clock(s) /\ s.tick \in TickType
  BY SteadyState, StateFields
<1>2. x.owner \in Task /\ x.value \in Nat /\ x.owner \in Delayed(s)
  BY <1>1, AsleepOwners DEF OwnersOf
<1>3. W \in Nat /\ W > 1 /\ TickType = 0 .. W - 1
  BY WidthIs DEF Width
<1>4. x.value \in TickType /\ x.value # s.tick
  BY <1>1, <1>2, <1>3 DEF Clock, Asleep
<1>5. Elapsed(s.tick, x.value) = IF s.tick <= x.value THEN x.value - s.tick
                                                      ELSE x.value - s.tick + W
  BY <1>1, <1>4, ElapsedIsDifference
<1> QED
  BY <1>1, <1>2, <1>3, <1>4, <1>5

(* Who dozes off, and who the lists M and B of waiters still hold. *)
Dozer(q, t, S, D) ==
    \/ D = {}
    \/ S = {} /\ t \in Ready(q) /\ \E m \in Naps : D = {Item(t, TimeToWake(q.tick, m))}

SameMarks(p, q, t) ==
    p.parked = q.parked /\ \A u \in Task \ {t} : u \in p.stale <=> u \in q.stale

StillQueued(q, t, S, D, M, B) ==
    \A u \in Task : u \notin S /\ (u # t \/ D = {}) =>
        /\ u \in OwnersOf(M) <=> u \in Owners(q.mwait)
        /\ u \in OwnersOf(B) <=> u \in Owners(q.bwait)

LEMMA OnwardTurn ==
    ASSUME NEW q, Steady(q), NEW t, NEW p, Still(p, q), SameMarks(p, q, t),
           NEW S, S \subseteq Owners(q.mwait) \cup Owners(q.bwait), NEW D, Dozer(q, t, S, D),
           NEW A, A = {x \in Asleep(q) \cup D : x.owner \notin S},
           NEW M, NEW B, StillQueued(q, t, S, D, M, B),
           NEW n \in Nat, NEW r, Onward(r, p, A, M, B, n)
    PROVE  Turn(r, q, t, S, D, n) /\ StaleOthers(r, q, t, n)
<1>1. /\ Steady(r) /\ Steady(p) /\ p.tick = q.tick
      /\ r.tick = (q.tick + n) % W
      /\ r.stale = IF q.tick + n >= W THEN Task ELSE p.stale
      /\ Asleep(r) = {x \in A : Elapsed(q.tick, x.value) > n}
      /\ Items(r.mwait) = {x \in M : x.owner \in Delayed(r)}
      /\ Items(r.bwait) = {x \in B : x.owner \in Delayed(r)}
      /\ r.parked = q.parked
  BY DEF Onward, Still, SameMarks
<1>2. /\ Delayed(r) = OwnersOf(Asleep(r)) /\ Owners(r.mwait) = OwnersOf(Items(r.mwait))
      /\ Owners(r.bwait) = OwnersOf(Items(r.bwait))
  BY <1>1, OwnersAre
<1>3. \A u \in Delayed(r) : u \notin S
  BY <1>1, <1>2 DEF OwnersOf
<1>4. Asleep(r) = {x \in Asleep(q) \cup D : x.owner \notin S /\ Elapsed(q.tick, x.value) > n}
  BY <1>1
<1>5. ASSUME NEW u \in Task, u # t \/ D = {}
      PROVE  /\ u \in Owners(r.mwait) <=> u \in Owners(q.mwait) /\ u \in Delayed(r)
             /\ u \in Owners(r.bwait) <=> u \in Owners(q.bwait) /\ u \in Delayed(r)
  <2>1. u \in Owners(r.mwait) <=> u \in OwnersOf(M) /\ u \in Delayed(r)
    BY <1>1, <1>2 DEF OwnersOf
  <2>2. u \in Owners(r.bwait) <=> u \in OwnersOf(B) /\ u \in Delayed(r)
    BY <1>1, <1>2 DEF OwnersOf
  <2> QED
    BY <1>3, <1>5, <2>1, <2>2 DEF StillQueued
<1>6. Turn(r, q, t, S, D, n)
  BY <1>1, <1>4, <1>5 DEF Turn, Dozer
<1>7. StaleOthers(r, q, t, n)
  BY <1>1 DEF StaleOthers, SameMarks
<1> QED
  BY <1>6, <1>7

LEMMA TickOfNow ==
    ASSUME NEW q, Steady(q)
    PROVE  q.tick = (q.tick + 0) % W /\ ~(q.tick + 0 >= W)
<1>1. q.tick \in 0 .. W - 1 /\ W \in Nat /\ W > 1
  BY SteadyState, StateFields, WidthIs DEF Width
<1> QED
  BY <1>1, ModOnce

LEMMA SameTurn ==
    ASSUME NEW q, Steady(q), NEW t, NEW r, Steady(r), r.tick = q.tick, Asleep(r) = Asleep(q),
           Items(r.mwait) = Items(q.mwait), Items(r.bwait) = Items(q.bwait),
           r.parked \subseteq q.parked \cup {t},
           \A u \in Task \ {t} : u \in r.stale <=> u \in q.stale
    PROVE  Turn(r, q, t, {}, {}, 0) /\ StaleOthers(r, q, t, 0)
<1>1. /\ Delayed(r) = OwnersOf(Asleep(r)) /\ Owners(r.mwait) = OwnersOf(Items(r.mwait))
      /\ Owners(r.bwait) = OwnersOf(Items(r.bwait))
  BY OwnersAre
<1>2. /\ Delayed(q) = OwnersOf(Asleep(q)) /\ Owners(q.mwait) = OwnersOf(Items(q.mwait))
      /\ Owners(q.bwait) = OwnersOf(Items(q.bwait))
      /\ Owners(q.mwait) \subseteq Delayed(q) /\ Owners(q.bwait) \subseteq Delayed(q)
  BY OwnersAre
<1>3. q.tick = (q.tick + 0) % W /\ ~(q.tick + 0 >= W)
  BY TickOfNow
<1>4. \A x \in Asleep(q) : Elapsed(q.tick, x.value) > 0
  BY SomeTicksToGo
<1>5. Asleep(r) = {x \in Asleep(q) \cup {} : x.owner \notin {} /\ Elapsed(q.tick, x.value) > 0}
  BY <1>4
<1>6. Turn(r, q, t, {}, {}, 0)
  BY <1>1, <1>2, <1>3, <1>5 DEF Turn
<1>7. StaleOthers(r, q, t, 0)
  BY <1>3 DEF StaleOthers
<1> QED
  BY <1>6, <1>7

LEMMA StillTurn ==
    ASSUME NEW q, Steady(q), NEW t, NEW r, Still(r, q), r.parked \subseteq q.parked \cup {t},
           \A u \in Task \ {t} : u \in r.stale <=> u \in q.stale
    PROVE  Turn(r, q, t, {}, {}, 0) /\ StaleOthers(r, q, t, 0)
<1>1. /\ Steady(r) /\ r.tick = q.tick /\ Asleep(r) = Asleep(q)
      /\ r.mwait = q.mwait /\ r.bwait = q.bwait
  BY DEF Still, SameWaits
<1> QED
  BY <1>1, SameTurn

LEMMA ReleasedTurn ==
    ASSUME NEW q, Steady(q), NEW t, NEW r, Steady(r), r.tick = q.tick, r.stale = q.stale,
           r.parked = q.parked, NEW h \in Owners(q.mwait),
           Asleep(r) = {x \in Asleep(q) : x.owner # h},
           Items(r.mwait) = {x \in Items(q.mwait) : x.owner # h}, Items(r.bwait) = Items(q.bwait)
    PROVE  Turn(r, q, t, {h}, {}, 0) /\ StaleOthers(r, q, t, 0)
<1>1. /\ Delayed(r) = OwnersOf(Asleep(r)) /\ Owners(r.mwait) = OwnersOf(Items(r.mwait))
      /\ Owners(r.bwait) = OwnersOf(Items(r.bwait))
  BY OwnersAre
<1>2. /\ Delayed(q) = OwnersOf(Asleep(q)) /\ Owners(q.mwait) = OwnersOf(Items(q.mwait))
      /\ Owners(q.bwait) = OwnersOf(Items(q.bwait))
      /\ Owners(q.mwait) \subseteq Delayed(q) /\ Owners(q.bwait) \subseteq Delayed(q)
  BY OwnersAre
<1>3. h \notin Owners(q.bwait)
  BY SteadyState DEF Filing, Waiters
<1>4. q.tick = (q.tick + 0) % W /\ ~(q.tick + 0 >= W)
  BY TickOfNow
<1>5. \A x \in Asleep(q) : Elapsed(q.tick, x.value) > 0
  BY SomeTicksToGo
<1>6. Asleep(r) = {x \in Asleep(q) \cup {} : x.owner \notin {h} /\ Elapsed(q.tick, x.value) > 0}
  BY <1>5
<1>7. ASSUME NEW u
      PROVE  /\ u \in Delayed(r) <=> u \in Delayed(q) /\ u # h
             /\ u \in Owners(r.mwait) <=> u \in Owners(q.mwait) /\ u # h
             /\ u \in Owners(r.bwait) <=> u \in Owners(q.bwait)
  BY <1>1, <1>2 DEF OwnersOf
<1>8. ASSUME NEW u \in Task
      PROVE  /\ u \in Owners(r.mwait) <=> u \in Owners(q.mwait) /\ u \in Delayed(r)
             /\ u \in Owners(r.bwait) <=> u \in Owners(q.bwait) /\ u \in Delayed(r)
  BY <1>2, <1>3, <1>7
<1>9. Turn(r, q, t, {h}, {}, 0)
  BY <1>4, <1>6, <1>8 DEF Turn
<1>10. StaleOthers(r, q, t, 0)
  BY <1>4 DEF StaleOthers
<1> QED
  BY <1>9, <1>10

LEMMA DozeTurn ==
    ASSUME NEW q, Steady(q), NEW t, NEW D,
           Dozer(q, t, {}, D),
           NEW A, A = Asleep(q) \cup D,
           NEW n \in Nat, NEW r, Onward(r, q, A, Items(q.mwait), Items(q.bwait), n)
    PROVE  Turn(r, q, t, {}, D, n) /\ StaleOthers(r, q, t, n)
<1>1. Owners(q.mwait) = OwnersOf(Items(q.mwait)) /\ Owners(q.bwait) = OwnersOf(Items(q.bwait))
  BY OwnersAre
<1>2. Still(q, q)
  BY DEF Still, SameWaits
<1>3. PICK S : S = {}
  OBVIOUS
<1>4. PICK M : M = Items(q.mwait)
  OBVIOUS
<1>5. PICK B : B = Items(q.bwait)
  OBVIOUS
<1>6. A = {x \in Asleep(q) \cup D : x.owner \notin S} /\ S \subseteq Owners(q.mwait) \cup Owners(q.bwait)
  BY <1>3
<1>7. StillQueued(q, t, S, D, M, B)
  BY <1>1, <1>4, <1>5 DEF StillQueued
<1>8. SameMarks(q, q, t) /\ Dozer(q, t, S, D)
  BY <1>3 DEF SameMarks
<1>9. Onward(r, q, A, M, B, n)
  BY <1>4, <1>5
<1>11. Turn(r, q, t, S, D, n) /\ StaleOthers(r, q, t, n)
  BY <1>2, <1>6, <1>7, <1>8, <1>9, OnwardTurn
<1> QED
  BY <1>3, <1>11

(***************************************************************************)
(* What a step of t leaves of the others' variables.                       *)
(***************************************************************************)
Most == IF MaxPended > 1 THEN MaxPended ELSE 1

Alone(t) ==
    /\ \A u \in Tasks \ {t} : pc'[u] = pc[u]
    /\ \A u \in Worker \ {t} : /\ left'[u] = left[u] /\ entered'[u] = entered[u]
                               /\ inherited'[u] = inherited[u] /\ last'[u] = last[u]

Aged(t, n) ==
    /\ \A u \in Worker \ {t} :
          IF entered[u] = Unset THEN waited'[u] \in {0, waited[u]}
                                ELSE waited'[u] = More(waited[u], n, TakeTicks)
    /\ \A u \in Until \ {t} : age'[u] = More(age[u], n, W)

Passing(t, S, D, n) ==
    /\ n \in 0 .. Most
    /\ Turn(k', k, t, S, D, n) /\ StaleOthers(k', k, t, n) /\ Alone(t) /\ Aged(t, n)

LEMMA MostIs == Most \in Nat /\ 0 \in 0 .. Most /\ 1 \in 0 .. Most /\ 0 .. MaxPended \subseteq 0 .. Most
  BY KernelAssumption DEF Most

LEMMA LaterAges ==
    ASSUME NEW t, NEW n, Later(n)
    PROVE  Aged(t, n)
<1>1. Until \subseteq Worker
  BY Kinds
<1> QED
  BY <1>1 DEF Later, Aged

LEMMA NothingAges ==
    ASSUME Sound, NEW t, \A u \in Worker \ {t} : waited'[u] = waited[u],
           \A u \in Until \ {t} : age'[u] = age[u]
    PROVE  Aged(t, 0)
<1>1. TakeTicks \in Nat /\ W \in Nat
  BY KernelAssumption, WidthIs DEF Width
<1>2. /\ \A u \in Worker : waited[u] \in 0 .. TakeTicks
      /\ \A u \in Until : age[u] \in 0 .. W
  BY DEF Sound, Locals
<1>3. \A u \in Worker : More(waited[u], 0, TakeTicks) = waited[u]
  BY <1>1, <1>2 DEF More
<1>4. \A u \in Until : More(age[u], 0, W) = age[u]
  BY <1>1, <1>2 DEF More
<1> QED
  BY <1>3, <1>4 DEF Aged

(* A step in which no time passes and nobody else is woken. *)
LEMMA QuietPassing ==
    ASSUME Sound, NEW t, Still(k', k), k'.parked \subseteq k.parked \cup {t},
           \A u \in Task \ {t} : u \in k'.stale <=> u \in k.stale,
           Alone(t), \A u \in Worker \ {t} : waited'[u] = waited[u],
           \A u \in Until \ {t} : age'[u] = age[u]
    PROVE  Passing(t, {}, {}, 0)
<1>1. PICK r : r = k'
  OBVIOUS
<1>2. PICK q : q = k
  OBVIOUS
<1>3. Turn(r, q, t, {}, {}, 0) /\ StaleOthers(r, q, t, 0)
  BY <1>1, <1>2, StillTurn DEF Sound
<1>4. Aged(t, 0)
  BY NothingAges
<1> QED
  BY <1>1, <1>2, <1>3, <1>4, MostIs DEF Passing

LEMMA WaitBitsTurn ==
    ASSUME Sound, NEW t, NEW n, WaitBits(t, n)
    PROVE  /\ t \in Worker /\ n \in 0 .. MaxPended /\ pc[t] = "boot" /\ t \in Ready(k)
           /\ UNCHANGED <<holder, bit, left, entered, inherited, last, halted>> /\ Later(n)
           /\ Go(t, "cycle") \/ Go(t, "waited")
           /\ \E D : Passing(t, {}, D, n)
<1>1. /\ t \in Worker /\ t \in Tasks /\ n \in Nat /\ n \in 0 .. MaxPended /\ k.cur = t
      /\ pc[t] = "boot" /\ t \in Ready(k)
      /\ UNCHANGED <<holder, bit, left, entered, inherited, last, halted>> /\ Later(n)
  BY WaitBitsDoes, Kinds DEF WaitBits, Ticking, local
<1>2. Steady(k) /\ Still(k, k)
  BY DEF Sound, Still, SameWaits
<1>3. PICK r : r = k'
  OBVIOUS
<1>4. /\ Owners(k.mwait) = OwnersOf(Items(k.mwait)) /\ Owners(k.bwait) = OwnersOf(Items(k.bwait))
  BY <1>2, OwnersAre
<1>5. \E D : Turn(r, k, t, {}, D, n) /\ StaleOthers(r, k, t, n)
  <2>1. CASE Onward(r, k, Asleep(k), Items(k.mwait), Items(k.bwait), n)
    <3>1. Asleep(k) = Asleep(k) \cup {} /\ Dozer(k, t, {}, {})
      BY DEF Dozer
    <3>2. Turn(r, k, t, {}, {}, n) /\ StaleOthers(r, k, t, n)
      BY <1>1, <1>2, <2>1, <3>1, DozeTurn
    <3> QED
      BY <3>2
  <2>2. CASE AwaitsBit(r, k, BitTicks[t], n)
    <3>1. PICK D : D = {Item(t, TimeToWake(k.tick, BitTicks[t]))}
      OBVIOUS
    <3>2. PICK A : A = Asleep(k) \cup D
      OBVIOUS
    <3>3. PICK B : B = Items(k.bwait) \cup {Item(t, 0)}
      OBVIOUS
    <3>4. Onward(r, k, A, Items(k.mwait), B, n)
      BY <1>1, <2>2, <3>1, <3>2, <3>3 DEF AwaitsBit
    <3>5. PICK S : S = {}
      OBVIOUS
    <3>6. PICK M : M = Items(k.mwait)
      OBVIOUS
    <3>7. A = {x \in Asleep(k) \cup D : x.owner \notin S}
      BY <3>2, <3>5
    <3>8. Dozer(k, t, S, D) /\ SameMarks(k, k, t) /\ S \subseteq Owners(k.mwait) \cup Owners(k.bwait)
      BY <1>1, <3>1, <3>5, Kinds DEF Dozer, SameMarks
    <3>9. StillQueued(k, t, S, D, M, B)
      <4>1. D # {} /\ OwnersOf(M) = Owners(k.mwait)
        BY <1>4, <3>1, <3>6
      <4>2. Item(t, 0).owner = t
        BY DEF Item
      <4>3. \A u : u # t => (u \in OwnersOf(B) <=> u \in OwnersOf(Items(k.bwait)))
        BY <3>3, <4>2 DEF OwnersOf
      <4> QED
        BY <1>4, <4>1, <4>3 DEF StillQueued
    <3>10. Onward(r, k, A, M, B, n)
      BY <3>4, <3>6
    <3>11. Turn(r, k, t, S, D, n) /\ StaleOthers(r, k, t, n)
      BY <1>1, <1>2, <3>7, <3>8, <3>9, <3>10, OnwardTurn
    <3>12. Turn(r, k, t, {}, D, n) /\ StaleOthers(r, k, t, n)
      BY <3>5, <3>11
    <3> QED
      BY <3>12
  <2> QED
    BY <1>3, <2>1, <2>2, WaitBitsDoes
<1>6. Go(t, "cycle") \/ Go(t, "waited")
  BY WaitBitsDoes
<1>7. Alone(t)
  BY <1>1, <1>6 DEF Alone, Go, Sound, Locals
<1> QED
  BY <1>1, <1>3, <1>5, <1>6, <1>7, LaterAges, MostIs DEF Passing

LEMMA InitDevicesTurn ==
    ASSUME Sound, NEW n, InitDevices(n)
    PROVE  /\ n \in 0 .. MaxPended /\ Later(n)
           /\ UNCHANGED <<holder, bit, left, entered, inherited, last, halted>>
           /\ Go(Starter, "boot") \/ Go(Starter, "began")
           /\ \E D : Passing(Starter, {}, D, n)
<1>1. /\ Starter \in Tasks /\ n \in Nat /\ n \in 0 .. MaxPended /\ k.cur = Starter
      /\ Starter \in Ready(k) /\ Slumbers(k', k, Period[Starter], n)
      /\ UNCHANGED <<holder, bit, left, entered, inherited, last, halted>> /\ Later(n)
      /\ Go(Starter, "boot") \/ Go(Starter, "began")
  BY InitDevicesDoes, Kinds DEF InitDevices, Ticking, local
<1>2. Steady(k) /\ Still(k, k)
  BY DEF Sound, Still, SameWaits
<1>3. PICK r : r = k'
  OBVIOUS
<1>4. Owners(k.mwait) = OwnersOf(Items(k.mwait)) /\ Owners(k.bwait) = OwnersOf(Items(k.bwait))
  BY <1>2, OwnersAre
<1>5. PICK D : D = {Item(Starter, TimeToWake(k.tick, Period[Starter]))}
  OBVIOUS
<1>6. PICK A : A = Asleep(k) \cup D
  OBVIOUS
<1>7. Onward(r, k, A, Items(k.mwait), Items(k.bwait), n)
  BY <1>1, <1>3, <1>5, <1>6 DEF Slumbers
<1>9. Dozer(k, Starter, {}, D)
  BY <1>1, <1>5, Kinds DEF Dozer
<1>10. Turn(r, k, Starter, {}, D, n) /\ StaleOthers(r, k, Starter, n)
  BY <1>1, <1>2, <1>6, <1>7, <1>9, DozeTurn
<1>11. Alone(Starter)
  BY <1>1 DEF Alone, Go, Sound, Locals
<1> QED
  BY <1>1, <1>3, <1>10, <1>11, LaterAges, MostIs DEF Passing

LEMMA SetBitsTurn ==
    ASSUME Sound, NEW n, SetBits(n)
    PROVE  /\ n \in 0 .. MaxPended /\ Later(n)
           /\ UNCHANGED <<holder, left, entered, inherited, last, halted>> /\ bit'
           /\ Go(Starter, "stop") /\ Passing(Starter, Owners(k.bwait), {}, n)
<1>1. /\ Starter \in Tasks /\ n \in Nat /\ n \in 0 .. MaxPended /\ k.cur = Starter
      /\ Starter \in Ready(k) /\ Go(Starter, "stop") /\ bit'
      /\ UNCHANGED <<holder, left, entered, inherited, last, halted>> /\ Later(n)
  BY SetBitsDoes, Kinds DEF SetBits, Ticking, local
<1>2. Steady(k) /\ Still(k, k)
  BY DEF Sound, Still, SameWaits
<1>3. PICK r : r = k'
  OBVIOUS
<1>4. Owners(k.mwait) = OwnersOf(Items(k.mwait)) /\ Owners(k.bwait) = OwnersOf(Items(k.bwait))
  BY <1>2, OwnersAre
<1>5. PICK A : A = {x \in Asleep(k) : x.owner \notin Owners(k.bwait)}
  OBVIOUS
<1>6. PICK B : B = {}
  OBVIOUS
<1>7. Onward(r, k, A, Items(k.mwait), B, n)
  BY <1>3, <1>5, <1>6, SetBitsDoes
<1>a. PICK S : S = Owners(k.bwait)
  OBVIOUS
<1>8. A = {x \in Asleep(k) \cup {} : x.owner \notin S} /\ S \subseteq Owners(k.mwait) \cup Owners(k.bwait)
  BY <1>5, <1>a
<1>b. PICK M : M = Items(k.mwait)
  OBVIOUS
<1>9. StillQueued(k, Starter, S, {}, M, B)
  BY <1>4, <1>6, <1>a, <1>b DEF StillQueued, OwnersOf
<1>d. Onward(r, k, A, M, B, n)
  BY <1>7, <1>b
<1>e. SameMarks(k, k, Starter) /\ Dozer(k, Starter, S, {})
  BY DEF SameMarks, Dozer
<1>c. Turn(r, k, Starter, S, {}, n) /\ StaleOthers(r, k, Starter, n)
  BY <1>1, <1>2, <1>8, <1>9, <1>d, <1>e, OnwardTurn
<1>10. Turn(r, k, Starter, Owners(k.bwait), {}, n) /\ StaleOthers(r, k, Starter, n)
  BY <1>a, <1>c
<1>11. Alone(Starter)
  BY <1>1 DEF Alone, Go, Sound, Locals
<1> QED
  BY <1>1, <1>3, <1>10, <1>11, LaterAges, MostIs DEF Passing

LEMMA SleepTurn ==
    ASSUME Sound, NEW t \in Worker, NEW n, Sleep(t, n)
    PROVE  /\ n \in 0 .. MaxPended /\ Later(n)
           /\ UNCHANGED <<holder, bit, left, entered, inherited, halted>> /\ Put(last, t, 0)
           /\ Go(t, "cycle") \/ Go(t, "slept")
           /\ pc[t] = "sleep" /\ t \in Ready(k)
           /\ \/ /\ t \in Until /\ ~ShouldDelay(k.tick, last[t], Period[t])
                 /\ Passing(t, {}, {}, n)
              \/ /\ t \in Until => ShouldDelay(k.tick, last[t], Period[t])
                 /\ Nap(t) \in Naps
                 /\ Passing(t, {}, {Item(t, TimeToWake(k.tick, Nap(t)))}, n)
<1>1. /\ t \in Tasks /\ n \in Nat /\ n \in 0 .. MaxPended /\ k.cur = t /\ pc[t] = "sleep"
      /\ t \in Ready(k) /\ UNCHANGED <<holder, bit, left, entered, inherited, halted>> /\ Later(n)
      /\ Put(last, t, 0) /\ (Go(t, "cycle") \/ Go(t, "slept"))
  BY SleepDoes, Kinds DEF Sleep, Ticking
<1>2. Steady(k) /\ Still(k, k)
  BY DEF Sound, Still, SameWaits
<1>3. PICK r : r = k'
  OBVIOUS
<1>4. Owners(k.mwait) = OwnersOf(Items(k.mwait)) /\ Owners(k.bwait) = OwnersOf(Items(k.bwait))
  BY <1>2, OwnersAre
<1>5. Alone(t)
  BY <1>1 DEF Alone, Go, Put, Sound, Locals
<1>6. CASE /\ t \in Until /\ ~ShouldDelay(k.tick, last[t], Period[t])
           /\ Onward(k', k, Asleep(k), Items(k.mwait), Items(k.bwait), n)
  <2>1. Asleep(k) = Asleep(k) \cup {} /\ Dozer(k, t, {}, {})
    BY DEF Dozer
  <2>a. Onward(r, k, Asleep(k), Items(k.mwait), Items(k.bwait), n)
    BY <1>3, <1>6
  <2>2. Turn(r, k, t, {}, {}, n) /\ StaleOthers(r, k, t, n)
    BY <1>1, <1>2, <2>a, <2>1, DozeTurn
  <2>3. Passing(t, {}, {}, n)
    BY <1>1, <1>3, <1>5, <2>2, LaterAges, MostIs DEF Passing
  <2> QED
    BY <1>1, <1>6, <2>3
<1>7. CASE /\ t \in Until => ShouldDelay(k.tick, last[t], Period[t])
           /\ Nap(t) \in Naps
           /\ Slumbers(k', k, Nap(t), n)
  <2>1. PICK D : D = {Item(t, TimeToWake(k.tick, Nap(t)))}
    OBVIOUS
  <2>2. PICK A : A = Asleep(k) \cup D
    OBVIOUS
  <2>3. Onward(r, k, A, Items(k.mwait), Items(k.bwait), n)
    BY <1>1, <1>3, <1>7, <2>1, <2>2 DEF Slumbers
  <2>5. Dozer(k, t, {}, D)
    BY <1>1, <1>7, <2>1 DEF Dozer
  <2>6. Turn(r, k, t, {}, D, n) /\ StaleOthers(r, k, t, n)
    BY <1>1, <1>2, <2>2, <2>3, <2>5, DozeTurn
  <2>7. Passing(t, {}, D, n)
    BY <1>1, <1>3, <1>5, <2>6, LaterAges, MostIs DEF Passing
  <2> QED
    BY <1>1, <1>7, <2>1, <2>7
<1> QED
  BY <1>6, <1>7, SleepDoes

(* What a task that goes on waiting has noted. *)
Renoted(t, n) ==
    /\ ~Over(t) /\ Put(left, t, Rest(t)) /\ Put(entered, t, k.tick)
    /\ t \in k'.stale <=> k.tick + n >= W

LEMMA BlockTurn ==
    ASSUME Sound, NEW t \in Worker, NEW n, Block(t, n)
    PROVE  /\ n \in 0 .. MaxPended /\ Later(n) /\ UNCHANGED <<holder, bit, last, halted>>
           /\ pc[t] = "suspend" /\ t \in Ready(k) /\ entered[t] \in TickType
           /\ \/ /\ Over(t) /\ Go(t, "expired") /\ UNCHANGED <<entered, inherited>>
                 /\ Put(left, t, IF t \in k.stale /\ k.tick >= entered[t] THEN left[t] ELSE 0)
                 /\ Passing(t, {}, {}, n)
              \/ /\ Renoted(t, n) /\ holder = NULL /\ Go(t, "take") /\ UNCHANGED inherited
                 /\ Passing(t, {}, {}, n)
              \/ /\ Renoted(t, n) /\ holder \in Worker \ {t} /\ (Go(t, "take") \/ Go(t, "blocked"))
                 /\ Put(inherited, t, Inherits(k, holder, Base[holder]))
                 /\ Passing(t, {}, {Item(t, TimeToWake(k.tick, Rest(t)))}, n)
                 /\ t \in Delayed(k') => t \in Owners(k'.mwait)
<1>1. /\ t \in Tasks /\ t \in Task /\ n \in Nat /\ n \in 0 .. MaxPended /\ k.cur = t
      /\ pc[t] = "suspend" /\ t \in Ready(k) /\ entered[t] \in TickType
      /\ UNCHANGED <<holder, bit, last, halted>> /\ Later(n)
  BY BlockDoes, Kinds DEF Block, Ticking
<1>2. Steady(k) /\ Still(k, k)
  BY DEF Sound, Still, SameWaits
<1>3. PICK r : r = k'
  OBVIOUS
<1>4. Owners(k.mwait) = OwnersOf(Items(k.mwait)) /\ Owners(k.bwait) = OwnersOf(Items(k.bwait))
  BY <1>2, OwnersAre
<1>5. ASSUME NEW D, Turn(r, k, t, {}, D, n), StaleOthers(r, k, t, n), Alone(t)
      PROVE  Passing(t, {}, D, n)
  BY <1>1, <1>3, <1>5, LaterAges, MostIs DEF Passing
<1>6. CASE Ripe(t, n)
  <2>1. Asleep(k) = Asleep(k) \cup {} /\ Dozer(k, t, {}, {})
    BY DEF Dozer
  <2>2. Onward(r, k, Asleep(k), Items(k.mwait), Items(k.bwait), n)
    BY <1>3, <1>6 DEF Ripe
  <2>3. Turn(r, k, t, {}, {}, n) /\ StaleOthers(r, k, t, n)
    BY <1>1, <1>2, <2>1, <2>2, DozeTurn
  <2>4. Alone(t)
    BY <1>1, <1>6 DEF Ripe, Alone, Go, Put, Sound, Locals
  <2> QED
    BY <1>1, <1>5, <1>6, <2>3, <2>4 DEF Ripe
<1>7. CASE Luckily(t, n)
  <2>1. PICK q : /\ Still(q, k) /\ q.stale = k.stale \ {t} /\ q.parked = k.parked
                 /\ q.cur = k.cur
                 /\ Onward(r, q, Asleep(q), Items(q.mwait), Items(q.bwait), n)
    BY <1>3, <1>7 DEF Luckily
  <2>2. q.tick = k.tick /\ Asleep(q) = Asleep(k) /\ q.mwait = k.mwait /\ q.bwait = k.bwait
    BY <2>1 DEF Still, SameWaits
  <2>3. PICK S : S = {}
    OBVIOUS
  <2>4. PICK A : A = Asleep(q)
    OBVIOUS
  <2>5. PICK M : M = Items(q.mwait)
    OBVIOUS
  <2>6. PICK B : B = Items(q.bwait)
    OBVIOUS
  <2>7. /\ Dozer(k, t, S, {}) /\ SameMarks(q, k, t) /\ S \subseteq Owners(k.mwait) \cup Owners(k.bwait)
        /\ A = {x \in Asleep(k) \cup {} : x.owner \notin S} /\ StillQueued(k, t, S, {}, M, B)
    BY <1>4, <2>1, <2>2, <2>3, <2>4, <2>5, <2>6 DEF Dozer, SameMarks, StillQueued
  <2>8. Onward(r, q, A, M, B, n)
    BY <2>1, <2>4, <2>5, <2>6
  <2>9. Turn(r, k, t, S, {}, n) /\ StaleOthers(r, k, t, n)
    BY <1>1, <1>2, <2>1, <2>7, <2>8, OnwardTurn
  <2>10. t \in r.stale <=> k.tick + n >= W
    BY <1>1, <2>1, <2>2 DEF Onward
  <2>11. Renoted(t, n)
    BY <1>3, <1>7, <2>10 DEF Renoted, Luckily, Noting
  <2>12. Alone(t)
    BY <1>1, <1>7 DEF Luckily, Noting, Alone, Go, Put, Sound, Locals
  <2>13. Passing(t, {}, {}, n)
    BY <1>5, <2>3, <2>9, <2>12
  <2> QED
    BY <1>1, <1>7, <2>11, <2>13 DEF Luckily
<1>8. CASE Lining(t, n)
  <2>1. PICK q : /\ Still(q, k) /\ q.stale = k.stale \ {t} /\ q.parked = k.parked
                 /\ q.cur = k.cur /\ Queues(r, q, Rest(t), n)
    BY <1>3, <1>8 DEF Lining
  <2>2. q.tick = k.tick /\ Asleep(q) = Asleep(k) /\ q.mwait = k.mwait /\ q.bwait = k.bwait
    BY <2>1 DEF Still, SameWaits
  <2>3. PICK S : S = {}
    OBVIOUS
  <2>4. PICK D : D = {Item(t, TimeToWake(k.tick, Rest(t)))}
    OBVIOUS
  <2>5. PICK A : A = Asleep(q) \cup D
    OBVIOUS
  <2>6. PICK M : M = Items(q.mwait) \cup {Item(t, MaxPriorities - q.prio[t])}
    OBVIOUS
  <2>7. PICK B : B = Items(q.bwait)
    OBVIOUS
  <2>8. Onward(r, q, A, M, B, n)
    BY <1>1, <2>1, <2>2, <2>4, <2>5, <2>6, <2>7 DEF Queues
  <2>9. Dozer(k, t, S, D)
    <3>1. Rest(t) \in Naps
      BY <1>1, <1>8, RestIsLeft DEF Lining, Noting
    <3> QED
      BY <1>1, <2>3, <2>4, <3>1 DEF Dozer
  <2>10. Item(t, MaxPriorities - q.prio[t]).owner = t
    BY DEF Item
  <2>11. StillQueued(k, t, S, D, M, B)
    <3>1. D # {} /\ OwnersOf(B) = Owners(k.bwait)
      BY <1>4, <2>2, <2>4, <2>7
    <3>2. \A u : u # t => (u \in OwnersOf(M) <=> u \in OwnersOf(Items(k.mwait)))
      BY <2>2, <2>6, <2>10 DEF OwnersOf
    <3> QED
      BY <1>4, <3>1, <3>2 DEF StillQueued
  <2>12. /\ SameMarks(q, k, t) /\ S \subseteq Owners(k.mwait) \cup Owners(k.bwait)
         /\ A = {x \in Asleep(k) \cup D : x.owner \notin S}
    BY <2>1, <2>2, <2>3, <2>5 DEF SameMarks
  <2>13. Turn(r, k, t, S, D, n) /\ StaleOthers(r, k, t, n)
    BY <1>1, <1>2, <2>1, <2>8, <2>9, <2>11, <2>12, OnwardTurn
  <2>14. t \in r.stale <=> k.tick + n >= W
    BY <1>1, <2>1, <2>2, <2>8 DEF Onward
  <2>15. Renoted(t, n)
    BY <1>3, <1>8, <2>14 DEF Renoted, Lining, Noting
  <2>16. Alone(t)
    BY <1>1, <1>8 DEF Lining, Noting, Alone, Go, Put, Sound, Locals
  <2>17. Passing(t, {}, {Item(t, TimeToWake(k.tick, Rest(t)))}, n)
    BY <1>5, <2>3, <2>4, <2>13, <2>16
  <2>18. t \in Delayed(r) => t \in Owners(r.mwait)
    <3>1. Steady(r) /\ Items(r.mwait) = {x \in M : x.owner \in Delayed(r)}
      BY <2>8 DEF Onward
    <3>2. Owners(r.mwait) = OwnersOf(Items(r.mwait))
      BY <3>1, OwnersAre
    <3>3. Item(t, MaxPriorities - q.prio[t]) \in M
      BY <2>6
    <3> QED
      BY <2>10, <3>1, <3>2, <3>3 DEF OwnersOf
  <2> QED
    BY <1>1, <1>3, <1>8, <2>15, <2>17, <2>18 DEF Lining
<1> QED
  BY <1>6, <1>7, <1>8, BlockDoes

LEMMA MarkedStill ==
    ASSUME Sound, NEW t \in Task,
           \/ k' = k \/ k' = [k EXCEPT !.stale = @ \cup {t}] \/ k' = [k EXCEPT !.stale = @ \ {t}]
    PROVE  /\ Still(k', k) /\ k'.parked = k.parked /\ k'.prio = k.prio /\ k'.cur = k.cur
           /\ \A u \in Task \ {t} : u \in k'.stale <=> u \in k.stale
           /\ k' = [k EXCEPT !.stale = @ \ {t}] => t \notin k'.stale
<1>1. k \in SchedState /\ Steady(k) /\ k.stale \in SUBSET Task
  BY SteadyState, StateFields DEF Sound
<1>2. PICK r : r = k'
  OBVIOUS
<1>3. CASE r = k
  <2>1. /\ Still(r, k) /\ r.parked = k.parked /\ r.prio = k.prio /\ r.cur = k.cur
        /\ r.stale = k.stale
    BY <1>1, <1>3 DEF Still, SameWaits
  <2>2. k' = [k EXCEPT !.stale = @ \ {t}] => t \notin k'.stale
    BY <1>1 DEF SchedState
  <2> QED
    BY <1>2, <2>1, <2>2
<1>4. ASSUME NEW S \in SUBSET Task, r = [k EXCEPT !.stale = S]
      PROVE  Still(r, k) /\ r.parked = k.parked /\ r.prio = k.prio /\ r.cur = k.cur /\ r.stale = S
  BY <1>1, <1>4, StaleSet
<1>5. CASE r = [k EXCEPT !.stale = @ \cup {t}]
  <2>1. PICK S \in SUBSET Task : S = k.stale \cup {t}
    BY <1>1
  <2>2. r = [k EXCEPT !.stale = S]
    BY <1>1, <1>5, <2>1 DEF SchedState
  <2>3. /\ Still(r, k) /\ r.parked = k.parked /\ r.prio = k.prio /\ r.cur = k.cur
        /\ r.stale = S
    BY <1>4, <2>2
  <2>4. k' = [k EXCEPT !.stale = @ \ {t}] => t \notin k'.stale
    BY <1>1 DEF SchedState
  <2> QED
    BY <1>2, <2>1, <2>3, <2>4
<1>6. CASE r = [k EXCEPT !.stale = @ \ {t}]
  <2>1. PICK S \in SUBSET Task : S = k.stale \ {t}
    BY <1>1
  <2>2. r = [k EXCEPT !.stale = S]
    BY <1>1, <1>6, <2>1 DEF SchedState
  <2>3. /\ Still(r, k) /\ r.parked = k.parked /\ r.prio = k.prio /\ r.cur = k.cur
        /\ r.stale = S
    BY <1>4, <2>2
  <2> QED
    BY <1>2, <2>1, <2>3
<1> QED
  BY <1>2, <1>3, <1>5, <1>6

LEMMA CycleTurn ==
    ASSUME Sound, NEW t \in Worker, Cycle(t)
    PROVE  pc[t] = "cycle" /\ k.cur = t /\ t \in Ready(k) /\ Passing(t, {}, {}, 0)
<1>1. /\ t \in Tasks /\ t \in Task /\ At(t, "cycle")
      /\ UNCHANGED <<k, holder, bit, entered, inherited, waited, halted>>
  BY Kinds DEF Cycle
<1>2. k.cur = t /\ pc[t] = "cycle" /\ t \in Ready(k)
  BY <1>1, RunnerIsReady DEF Resting
<1>3. /\ Still(k', k) /\ k'.parked \subseteq k.parked \cup {t}
      /\ \A u \in Task \ {t} : u \in k'.stale <=> u \in k.stale
  BY <1>1, MarkedStill
<1>4. Alone(t)
  BY <1>1 DEF Cycle, Alone, Go, Put, Sound, Locals
<1>5. \A u \in Until \ {t} : age'[u] = age[u]
  BY DEF Cycle, Put, Sound, Locals
<1> QED
  BY <1>1, <1>2, <1>3, <1>4, <1>5, QuietPassing

LEMMA TakeTurn ==
    ASSUME Sound, NEW t \in Worker, Take(t)
    PROVE  pc[t] = "take" /\ k.cur = t /\ t \in Ready(k) /\ Passing(t, {}, {}, 0)
<1>1. t \in Tasks /\ t \in Task /\ At(t, "take") /\ UNCHANGED <<bit, last, age>>
  BY Kinds DEF Take
<1>2. k.cur = t /\ pc[t] = "take" /\ t \in Ready(k)
  BY <1>1, RunnerIsReady DEF Resting
<1>3. \/ k' = k \/ k' = [k EXCEPT !.stale = @ \cup {t}] \/ k' = [k EXCEPT !.stale = @ \ {t}]
  BY DEF Take
<1>4. /\ Still(k', k) /\ k'.parked \subseteq k.parked \cup {t}
      /\ \A u \in Task \ {t} : u \in k'.stale <=> u \in k.stale
  BY <1>1, <1>3, MarkedStill
<1>5. Alone(t) /\ \A u \in Worker \ {t} : waited'[u] = waited[u]
  BY <1>1 DEF Take, Returns, Alone, Go, Put, Sound, Locals
<1> QED
  BY <1>1, <1>2, <1>4, <1>5, QuietPassing

LEMMA ExpiredTurn ==
    ASSUME Sound, NEW t \in Worker, Expired(t)
    PROVE  pc[t] = "expired" /\ k.cur = t /\ t \in Ready(k) /\ Passing(t, {}, {}, 0)
<1>1. t \in Tasks /\ t \in Task /\ At(t, "expired") /\ UNCHANGED <<holder, bit, last, age, halted>>
  BY Kinds DEF Expired
<1>2. k.cur = t /\ pc[t] = "expired" /\ t \in Ready(k)
  BY <1>1, RunnerIsReady DEF Resting
<1>3. \/ k' = k \/ k' = [k EXCEPT !.stale = @ \cup {t}] \/ k' = [k EXCEPT !.stale = @ \ {t}]
  BY DEF Expired
<1>4. /\ Still(k', k) /\ k'.parked \subseteq k.parked \cup {t}
      /\ \A u \in Task \ {t} : u \in k'.stale <=> u \in k.stale
  BY <1>1, <1>3, MarkedStill
<1>5. Alone(t) /\ \A u \in Worker \ {t} : waited'[u] = waited[u]
  BY <1>1 DEF Expired, Returns, Alone, Go, Put, Sound, Locals
<1> QED
  BY <1>1, <1>2, <1>4, <1>5, QuietPassing

LEMMA GiveUpTurn ==
    ASSUME Sound, NEW t \in Worker, GiveUp(t)
    PROVE  pc[t] = "giveup" /\ k.cur = t /\ t \in Ready(k) /\ Returns(t) /\ Passing(t, {}, {}, 0)
<1>1. t \in Tasks /\ t \in Task /\ UNCHANGED <<holder, bit, last, age, halted>>
  BY Kinds DEF GiveUp
<1>2. /\ pc[t] = "giveup" /\ k.cur = t /\ t \in Ready(k) /\ Returns(t)
      /\ Still(k', k) /\ k'.stale = k.stale \cup {t} /\ k'.parked = k.parked
  BY GiveUpDoes
<1>3. Alone(t) /\ \A u \in Worker \ {t} : waited'[u] = waited[u]
  BY <1>1, <1>2 DEF Returns, Alone, Go, Put, Sound, Locals
<1> QED
  BY <1>1, <1>2, <1>3, QuietPassing

LEMMA GiveTurn ==
    ASSUME Sound, NEW t \in Worker, Give(t)
    PROVE  /\ pc[t] = "logging" /\ k.cur = t /\ t \in Ready(k)
           /\ UNCHANGED <<bit, left, entered, inherited, last, waited, age>>
           /\ \/ holder = NULL /\ Go(t, "sleep") /\ UNCHANGED <<holder, k>> /\ Passing(t, {}, {}, 0)
              \/ /\ holder = t /\ holder' = NULL /\ Go(t, "sleep")
                 /\ \/ k.mwait = <<>> /\ Passing(t, {}, {}, 0)
                    \/ \E h \in Owners(k.mwait) :
                          h = Head(k.mwait).owner /\ Passing(t, {h}, {}, 0)
              \/ holder # NULL /\ UNCHANGED <<holder, pc, k>> /\ Passing(t, {}, {}, 0)
<1>1. t \in Tasks /\ t \in Task /\ UNCHANGED <<bit, left, entered, inherited, last, waited, age>>
  BY Kinds DEF Give, local
<1>2. pc[t] = "logging" /\ k.cur = t /\ t \in Ready(k)
  BY GiveDoes
<1>3. ASSUME Go(t, "sleep") \/ UNCHANGED pc PROVE Alone(t) /\ Aged(t, 0)
  <2>1. Alone(t)
    BY <1>1, <1>3 DEF Alone, Go, Sound, Locals
  <2> QED
    BY <1>1, <2>1, NothingAges
<1>4. ASSUME UNCHANGED k, Go(t, "sleep") \/ UNCHANGED pc PROVE Passing(t, {}, {}, 0)
  <2>1. /\ Still(k', k) /\ k'.parked \subseteq k.parked \cup {t}
        /\ \A u \in Task \ {t} : u \in k'.stale <=> u \in k.stale
    BY <1>1, <1>4, MarkedStill
  <2> QED
    BY <1>1, <1>3, <1>4, <2>1, QuietPassing
<1>5. CASE Released(t)
  <2>1. PICK r : r = k'
    OBVIOUS
  <2>2. Go(t, "sleep") /\ holder = t /\ holder' = NULL /\ Alone(t) /\ Aged(t, 0)
    BY <1>3, <1>5 DEF Released
  <2>3. /\ Steady(r) /\ Steady(k) /\ r.tick = k.tick /\ r.stale = k.stale /\ r.parked = k.parked
        /\ Items(r.bwait) = Items(k.bwait)
    BY <1>5, <2>1 DEF Released, Sound
  <2>4. ASSUME Asleep(r) = Asleep(k), Items(r.mwait) = Items(k.mwait)
        PROVE  Passing(t, {}, {}, 0)
    <3>1. Turn(r, k, t, {}, {}, 0) /\ StaleOthers(r, k, t, 0)
      BY <2>3, <2>4, SameTurn
    <3> QED
      BY <2>1, <2>2, <2>4, <3>1, MostIs DEF Passing
  <2>5. ASSUME NEW h \in Owners(k.mwait), Asleep(r) = {x \in Asleep(k) : x.owner # h},
               Items(r.mwait) = {x \in Items(k.mwait) : x.owner # h}
        PROVE  Passing(t, {h}, {}, 0)
    <3>1. Turn(r, k, t, {h}, {}, 0) /\ StaleOthers(r, k, t, 0)
      BY <2>3, <2>5, ReleasedTurn
    <3> QED
      BY <2>1, <2>2, <3>1, MostIs DEF Passing
  <2>6. \/ k.mwait = <<>> /\ Passing(t, {}, {}, 0)
        \/ \E h \in Owners(k.mwait) : h = Head(k.mwait).owner /\ Passing(t, {h}, {}, 0)
    BY <1>5, <2>1, <2>4, <2>5 DEF Released
  <2> QED
    BY <1>1, <1>2, <2>2, <2>6
<1> QED
  BY <1>1, <1>2, <1>4, <1>5, GiveDoes

LEMMA PortYieldTurn ==
    ASSUME Sound, NEW t \in Tasks, PortYield(t)
    PROVE  /\ UNCHANGED <<holder, bit, left, entered, inherited, last, waited, age, halted>>
           /\ \/ pc[t] = "waited"  /\ Go(t, "cycle")
              \/ pc[t] = "blocked" /\ Go(t, "take")
              \/ pc[t] = "slept"   /\ Go(t, "cycle")
              \/ pc[t] = "stopped" /\ UNCHANGED pc
              \/ pc[t] = "began"   /\ Go(t, "boot")
           /\ Still(k', k) /\ k'.parked = k.parked /\ k'.stale = k.stale /\ Passing(t, {}, {}, 0)
<1>1. UNCHANGED <<holder, bit, left, entered, inherited, last, waited, age, halted>>
  BY DEF PortYield, local
<1>2. /\ \/ pc[t] = "waited"  /\ Go(t, "cycle")
         \/ pc[t] = "blocked" /\ Go(t, "take")
         \/ pc[t] = "slept"   /\ Go(t, "cycle")
         \/ pc[t] = "stopped" /\ UNCHANGED pc
         \/ pc[t] = "began"   /\ Go(t, "boot")
      /\ Still(k', k) /\ k'.stale = k.stale /\ k'.parked = k.parked
  BY PortYieldDoes
<1>3. Alone(t)
  <2>1. \A u \in Tasks \ {t} : pc'[u] = pc[u]
    BY <1>2 DEF Go, Sound, Locals
  <2> QED
    BY <1>1, <2>1 DEF Alone
<1> QED
  BY <1>1, <1>2, <1>3, QuietPassing

LEMMA SuspendTurn ==
    ASSUME Sound, Suspend
    PROVE  /\ UNCHANGED <<holder, bit, left, entered, inherited, last, waited, age, halted>>
           /\ Go(Starter, "stopping") \/ Go(Starter, "stopped")
           /\ Passing(Starter, {}, {}, 0)
<1>1. UNCHANGED <<holder, bit, left, entered, inherited, last, waited, age, halted>>
  BY DEF Suspend, local
<1>2. /\ Go(Starter, "stopping") \/ Go(Starter, "stopped")
      /\ k'.parked = k.parked \cup {Starter} \/ k'.parked = k.parked
      /\ Still(k', k) /\ k'.stale = k.stale
  BY SuspendDoes
<1>3. Alone(Starter)
  <2>1. \A u \in Tasks \ {Starter} : pc'[u] = pc[u]
    BY <1>2 DEF Go, Sound, Locals
  <2> QED
    BY <1>1, <2>1 DEF Alone
<1>4. k'.parked \subseteq k.parked \cup {Starter}
  BY <1>2
<1>5. /\ \A u \in Task \ {Starter} : u \in k'.stale <=> u \in k.stale
      /\ \A u \in Worker \ {Starter} : waited'[u] = waited[u]
      /\ \A u \in Until \ {Starter} : age'[u] = age[u]
  BY <1>1, <1>2
<1>6. Passing(Starter, {}, {}, 0)
  BY <1>2, <1>3, <1>4, <1>5, QuietPassing
<1> QED
  BY <1>1, <1>2, <1>6

LEMMA TickTurn ==
    ASSUME Sound, Tick
    PROVE  /\ UNCHANGED <<holder, bit, pc, left, entered, inherited, last, halted>>
           /\ Passing(Idle, {}, {}, 1)
<1>1. UNCHANGED <<holder, bit, pc, left, entered, inherited, last, halted>> /\ Later(1)
  BY DEF Tick, local
<1>2. Onward(k', k, Asleep(k), Items(k.mwait), Items(k.bwait), 1)
  BY TickDoes
<1>3. PICK r : r = k'
  OBVIOUS
<1>4. PICK q : q = k
  OBVIOUS
<1>5. /\ Asleep(q) = Asleep(q) \cup {} /\ Dozer(q, Idle, {}, {}) /\ Steady(q) /\ 1 \in Nat
      /\ Onward(r, q, Asleep(q), Items(q.mwait), Items(q.bwait), 1)
  BY <1>2, <1>3, <1>4 DEF Dozer, Sound
<1>6. Turn(r, q, Idle, {}, {}, 1) /\ StaleOthers(r, q, Idle, 1)
  BY <1>5, DozeTurn
<1>7. Alone(Idle)
  BY <1>1 DEF Alone
<1> QED
  BY <1>1, <1>3, <1>4, <1>6, <1>7, LaterAges, MostIs DEF Passing

LEMMA StutterTurn ==
    ASSUME Sound, UNCHANGED vars
    PROVE  Passing(Idle, {}, {}, 0)
<1>1. k' = k /\ UNCHANGED <<pc, left, entered, inherited, last, waited, age>>
  BY DEF vars, local
<1>2. /\ Still(k', k) /\ k'.parked \subseteq k.parked \cup {Idle}
      /\ \A u \in Task \ {Idle} : u \in k'.stale <=> u \in k.stale
  BY <1>1, MarkedStill, KernelAssumption
<1>3. Alone(Idle)
  BY <1>1 DEF Alone
<1> QED
  BY <1>1, <1>2, <1>3, QuietPassing

(* Every step is a turn of somebody. *)
LEMMA StepTurn ==
    ASSUME Sound, [Next]_vars
    PROVE  \E t \in Task : \E S, D, n : Passing(t, S, D, n) /\ (t \in Tasks \/ D = {})
<1>2. Worker \subseteq Task /\ Starter \in Task /\ Starter \in Tasks /\ Idle \in Task /\ Worker \subseteq Tasks
  BY Kinds, KernelAssumption
<1>3. ASSUME NEW t \in Worker, Step(t)
      PROVE  \E S, D, n : Passing(t, S, D, n)
  <2>1. ASSUME NEW n \in 0 .. MaxPended, WaitBits(t, n) PROVE \E S, D, m : Passing(t, S, D, m)
    BY <2>1, WaitBitsTurn
  <2>2. ASSUME NEW n \in 0 .. MaxPended, Sleep(t, n) PROVE \E S, D, m : Passing(t, S, D, m)
    BY <2>2, SleepTurn
  <2>3. ASSUME NEW n \in 0 .. MaxPended, Block(t, n) PROVE \E S, D, m : Passing(t, S, D, m)
    BY <2>3, BlockTurn
  <2>4. CASE PortYield(t)
    BY <1>2, <2>4, PortYieldTurn
  <2>5. CASE Cycle(t)
    BY <2>5, CycleTurn
  <2>6. CASE Take(t)
    BY <2>6, TakeTurn
  <2>7. CASE Expired(t)
    BY <2>7, ExpiredTurn
  <2>8. CASE GiveUp(t)
    BY <2>8, GiveUpTurn
  <2>9. CASE Give(t)
    BY <2>9, GiveTurn
  <2> QED
    BY <1>3, <2>1, <2>2, <2>3, <2>4, <2>5, <2>6, <2>7, <2>8, <2>9 DEF Step
<1>4. CASE \E t \in Worker : Step(t)
  BY <1>2, <1>3, <1>4
<1>5. ASSUME NEW n \in 0 .. MaxPended, InitDevices(n)
      PROVE  \E t \in Task : \E S, D, m : Passing(t, S, D, m) /\ (t \in Tasks \/ D = {})
  BY <1>2, <1>5, InitDevicesTurn
<1>6. ASSUME NEW n \in 0 .. MaxPended, SetBits(n)
      PROVE  \E t \in Task : \E S, D, m : Passing(t, S, D, m) /\ (t \in Tasks \/ D = {})
  BY <1>2, <1>6, SetBitsTurn
<1>7. CASE Suspend
  BY <1>2, <1>7, SuspendTurn
<1>8. CASE PortYield(Starter)
  BY <1>2, <1>8, PortYieldTurn
<1>9. CASE Tick
  BY <1>2, <1>9, TickTurn
<1>10. CASE Hang \/ UNCHANGED vars
  BY <1>2, <1>10, StutterTurn DEF Hang
<1> QED
  BY <1>4, <1>5, <1>6, <1>7, <1>8, <1>9, <1>10 DEF Next

-----------------------------------------------------------------------------
(***************************************************************************)
(* The ticks a task has left to sleep.                                     *)
(***************************************************************************)
LeftOf(s, t) ==
    IF t \in Delayed(s) THEN Elapsed(s.tick, (CHOOSE i \in Asleep(s) : i.owner = t).value) ELSE 0

LEMMA LeftIs ==
    ASSUME NEW t
    PROVE  Left(t) = LeftOf(k, t)
BY DEF Left, LeftOf, Asleep

LEMMA TicksLeft ==
    ASSUME NEW s, Steady(s), NEW t
    PROVE  /\ \A x \in Asleep(s) : x.owner = t => LeftOf(s, t) = Elapsed(s.tick, x.value)
           /\ t \notin Delayed(s) => LeftOf(s, t) = 0
           /\ t \in Delayed(s) <=> LeftOf(s, t) > 0
           /\ t \in Delayed(s) => \E x \in Asleep(s) : x.owner = t
           /\ LeftOf(s, t) \in 0 .. W - 1
<1>1. /\ Delayed(s) = OwnersOf(Asleep(s))
      /\ \A x, y \in Asleep(s) : x.owner = y.owner => x = y
  BY OwnersAre
<1>2. t \in Delayed(s) <=> \E x \in Asleep(s) : x.owner = t
  BY <1>1 DEF OwnersOf
<1>3. ASSUME NEW x \in Asleep(s), x.owner = t
      PROVE  LeftOf(s, t) = Elapsed(s.tick, x.value) /\ LeftOf(s, t) \in 1 .. W - 1
  <2>1. (CHOOSE i \in Asleep(s) : i.owner = t) = x
    BY <1>1, <1>3
  <2>2. LeftOf(s, t) = Elapsed(s.tick, x.value)
    BY <1>2, <1>3, <2>1 DEF LeftOf
  <2> QED
    BY <1>3, <2>2, SomeTicksToGo
<1>4. t \notin Delayed(s) => LeftOf(s, t) = 0
  BY DEF LeftOf
<1>5. W \in Nat /\ W > 1
  BY WidthIs DEF Width
<1>6. CASE t \in Delayed(s)
  BY <1>2, <1>3, <1>5, <1>6
<1>7. CASE t \notin Delayed(s)
  BY <1>2, <1>4, <1>5, <1>7
<1> QED
  BY <1>6, <1>7

LEMMA ElapsedLater ==
    ASSUME NEW a \in TickType, NEW v \in TickType, NEW n \in Nat, n < Elapsed(a, v)
    PROVE  Elapsed((a + n) % W, v) = Elapsed(a, v) - n /\ (a + n) % W \in TickType
<1>1. W \in Nat /\ W > 1 /\ TickType = 0 .. W - 1
  BY WidthIs DEF Width
<1>2. Elapsed(a, v) = IF a <= v THEN v - a ELSE v - a + W
  BY ElapsedIsDifference
<1>3. n \in TickType
  BY <1>1, <1>2
<1>4. PICK b \in TickType : b = (a + n) % W /\ b = IF a + n < W THEN a + n ELSE a + n - W
  BY <1>3, WakeInRange DEF TimeToWake
<1>5. Elapsed(b, v) = IF b <= v THEN v - b ELSE v - b + W
  BY ElapsedIsDifference
<1> QED
  BY <1>1, <1>2, <1>4, <1>5

LEMMA NapIsWhole ==
    ASSUME NEW a \in TickType, NEW m \in Naps
    PROVE  TimeToWake(a, m) \in TickType /\ Elapsed(a, TimeToWake(a, m)) = m
<1>1. W \in Nat /\ W > 1 /\ TickType = 0 .. W - 1 /\ m \in TickType
  BY WidthIs DEF Width, Naps
<1>2. PICK b \in TickType : b = TimeToWake(a, m) /\ b = IF a + m < W THEN a + m ELSE a + m - W
  BY <1>1, WakeInRange
<1>3. Elapsed(a, b) = IF a <= b THEN b - a ELSE b - a + W
  BY ElapsedIsDifference
<1> QED
  BY <1>1, <1>2, <1>3 DEF Naps

(* What the clock does to who sleeps already. *)
LEMMA SleeperLater ==
    ASSUME NEW q, Steady(q), NEW r, Steady(r), NEW t, NEW S, NEW D, NEW n \in Nat,
           Turn(r, q, t, S, D, n), NEW u, u # t \/ D = {}
    PROVE  /\ u \in S => LeftOf(r, u) = 0 /\ u \notin Delayed(r)
           /\ u \notin S /\ LeftOf(q, u) > n => LeftOf(r, u) = LeftOf(q, u) - n
           /\ LeftOf(q, u) <= n => LeftOf(r, u) = 0
           /\ \A x \in Asleep(r) : x.owner = u => x \in Asleep(q)
           /\ u \in Delayed(r) => u \in Delayed(q) /\ LeftOf(q, u) > n
<1>1. /\ r.tick = (q.tick + n) % W
      /\ Asleep(r) = {x \in Asleep(q) \cup D : x.owner \notin S /\ Elapsed(q.tick, x.value) > n}
  BY DEF Turn
<1>2. \A x \in D : x.owner = t
  BY DEF Turn, Item
<1>3. Delayed(r) = OwnersOf(Asleep(r)) /\ Delayed(q) = OwnersOf(Asleep(q))
  BY OwnersAre
<1>4. \A x \in Asleep(r) : x.owner = u => x \in Asleep(q)
  BY <1>1, <1>2
<1>5. u \in S => u \notin Delayed(r) /\ LeftOf(r, u) = 0
  BY <1>1, <1>3 DEF OwnersOf, LeftOf
<1>6. LeftOf(q, u) \in Nat /\ LeftOf(r, u) \in Nat
  BY TicksLeft
<1>7. ASSUME NEW x \in Asleep(q), x.owner = u, u \notin S, LeftOf(q, u) > n
      PROVE  LeftOf(r, u) = LeftOf(q, u) - n
  <2>1. LeftOf(q, u) = Elapsed(q.tick, x.value)
    BY <1>7, TicksLeft
  <2>2. x \in Asleep(r)
    BY <1>1, <1>7, <2>1
  <2>3. LeftOf(r, u) = Elapsed(r.tick, x.value)
    BY <1>7, <2>2, TicksLeft
  <2>4. q.tick \in TickType /\ x.value \in TickType
    BY <1>7, SomeTicksToGo
  <2> QED
    BY <1>1, <1>7, <2>1, <2>3, <2>4, ElapsedLater
<1>8. ASSUME LeftOf(q, u) <= n
      PROVE  u \notin Delayed(r)
  <2>1. SUFFICES ASSUME u \in Delayed(r) PROVE FALSE
    OBVIOUS
  <2>2. PICK x \in Asleep(r) : x.owner = u
    BY <1>3, <2>1 DEF OwnersOf
  <2>3. x \in Asleep(q) /\ Elapsed(q.tick, x.value) > n
    BY <1>1, <1>4, <2>2
  <2>4. LeftOf(q, u) = Elapsed(q.tick, x.value)
    BY <2>2, <2>3, TicksLeft
  <2> QED
    BY <1>6, <1>8, <2>3, <2>4
<1>9. LeftOf(q, u) <= n => LeftOf(r, u) = 0
  BY <1>8 DEF LeftOf
<1>10. u \notin S /\ LeftOf(q, u) > n => LeftOf(r, u) = LeftOf(q, u) - n
  <2>1. SUFFICES ASSUME u \notin S, LeftOf(q, u) > n PROVE LeftOf(r, u) = LeftOf(q, u) - n
    OBVIOUS
  <2>2. \E x \in Asleep(q) : x.owner = u
    BY <1>6, <2>1, TicksLeft
  <2> QED
    BY <1>7, <2>1, <2>2
<1>11. u \in Delayed(r) => u \in Delayed(q) /\ LeftOf(q, u) > n
  <2>1. u \in Delayed(r) => u \in Delayed(q)
    BY <1>3, <1>4 DEF OwnersOf
  <2> QED
    BY <1>6, <1>8, <2>1
<1> QED
  BY <1>4, <1>5, <1>9, <1>10, <1>11

(* And to who goes to sleep. *)
LEMMA DozerLater ==
    ASSUME NEW q, Steady(q), NEW r, Steady(r), NEW t, t \in Ready(q), NEW m \in Naps, NEW n \in Nat,
           Turn(r, q, t, {}, {Item(t, TimeToWake(q.tick, m))}, n)
    PROVE  /\ LeftOf(q, t) = 0
           /\ m > n => LeftOf(r, t) = m - n
           /\ ~(m > n) => LeftOf(r, t) = 0
           /\ t \in Delayed(r) => m > n
           /\ \A x \in Asleep(r) : x.owner = t => x = Item(t, TimeToWake(q.tick, m))
<1>1. PICK D : D = {Item(t, TimeToWake(q.tick, m))}
  OBVIOUS
<1>2. /\ r.tick = (q.tick + n) % W
      /\ Asleep(r) = {x \in Asleep(q) \cup D : Elapsed(q.tick, x.value) > n}
  BY <1>1 DEF Turn
<1>3. PICK y : y = Item(t, TimeToWake(q.tick, m))
  OBVIOUS
<1>4. D = {y} /\ y.owner = t /\ y.value = TimeToWake(q.tick, m)
  BY <1>1, <1>3 DEF Item
<1>5. /\ Delayed(r) = OwnersOf(Asleep(r)) /\ Delayed(q) = OwnersOf(Asleep(q))
      /\ Ready(q) = Task \ (Delayed(q) \cup q.parked) /\ q \in SchedState
  BY OwnersAre
<1>6. t \notin Delayed(q) /\ \A x \in Asleep(q) : x.owner # t
  BY <1>5 DEF OwnersOf
<1>7. q.tick \in TickType
  BY <1>5, StateFields
<1>8. y.value \in TickType /\ Elapsed(q.tick, y.value) = m
  BY <1>4, <1>7, NapIsWhole
<1>9. \A x \in Asleep(r) : x.owner = t => x = y
  BY <1>2, <1>4, <1>6
<1>10. LeftOf(q, t) = 0
  BY <1>6 DEF LeftOf
<1>11. CASE m > n
  <2>1. y \in Asleep(r)
    BY <1>2, <1>4, <1>8, <1>11
  <2>2. LeftOf(r, t) = Elapsed(r.tick, y.value)
    BY <1>4, <2>1, TicksLeft
  <2>3. LeftOf(r, t) = m - n
    BY <1>2, <1>7, <1>8, <1>11, <2>2, ElapsedLater
  <2> QED
    BY <1>3, <1>9, <1>10, <1>11, <2>3
<1>12. CASE ~(m > n)
  <2>1. t \notin Delayed(r)
    BY <1>2, <1>5, <1>8, <1>9, <1>12 DEF OwnersOf
  <2>2. LeftOf(r, t) = 0
    BY <2>1 DEF LeftOf
  <2> QED
    BY <1>3, <1>9, <1>10, <1>12, <2>1, <2>2
<1> QED
  BY <1>11, <1>12

-----------------------------------------------------------------------------
(***************************************************************************)
(* Every step is one of Alarms.                                            *)
(***************************************************************************)
LEMMA LeftThen ==
    ASSUME NEW t
    PROVE  Left(t)' = LeftOf(k', t)
BY DEF Left, LeftOf, Asleep

Waits(s) == Owners(s.mwait) \cup Owners(s.bwait)

LEMMA WaitsAre ==
    ASSUME Sound
    PROVE  \A u \in Waits(k) : u \in Tasks /\ u \in Delayed(k) /\ LeftOf(k, u) > 0
<1>1. Steady(k) /\ \A u \in Delayed(k) : u \in Tasks
  BY DEF Sound, Posts, Dreaming
<1>2. Owners(k.mwait) \subseteq Delayed(k) /\ Owners(k.bwait) \subseteq Delayed(k)
  BY <1>1, OwnersAre
<1>3. \A u \in Delayed(k) : LeftOf(k, u) > 0
  BY <1>1, TicksLeft
<1> QED
  BY <1>1, <1>2, <1>3 DEF Waits

LEMMA WaitsThen ==
    ASSUME Sound'
    PROVE  \A u \in Waits(k') : u \in Tasks /\ u \in Delayed(k') /\ LeftOf(k', u) > 0
<1>1. Steady(k') /\ \A u \in Delayed(k') : u \in Tasks
  BY DEF Sound, Posts, Dreaming
<1>2. Owners(k'.mwait) \subseteq Delayed(k') /\ Owners(k'.bwait) \subseteq Delayed(k')
  BY <1>1, OwnersAre
<1>3. \A u \in Delayed(k') : LeftOf(k', u) > 0
  BY <1>1, TicksLeft
<1> QED
  BY <1>1, <1>2, <1>3 DEF Waits

LEMMA AlarmTurn ==
    ASSUME Sound, Sound', NEW t \in Task, NEW S, NEW D, NEW n, Passing(t, S, D, n),
           t \in Tasks \/ D = {}
    PROVE  Alarm!Next
<1>1. Steady(k) /\ Steady(k') /\ n \in Nat /\ n \in 0 .. Most /\ Turn(k', k, t, S, D, n)
  BY MostIs DEF Sound, Passing
<1>2. \A u \in Tasks : /\ Left(u) = LeftOf(k, u) /\ Left(u)' = LeftOf(k', u)
                       /\ LeftOf(k, u) \in Nat /\ LeftOf(k', u) \in Nat
                       /\ u \in Delayed(k') <=> LeftOf(k', u) > 0
  BY <1>1, LeftIs, LeftThen, TicksLeft, WidthIs DEF Width
<1>3. S \subseteq Waits(k) /\ k'.tick = (k.tick + n) % W
  BY <1>1 DEF Turn, Waits
<1>4. \A u \in Tasks : u # t \/ D = {} =>
          (u \in Waits(k') <=> u \in Waits(k) /\ u \in Delayed(k'))
  BY <1>1, Kinds DEF Turn, Waits
<1>5. \A u \in Tasks : u # t \/ D = {} =>
          /\ u \in S => LeftOf(k', u) = 0
          /\ u \notin S /\ LeftOf(k, u) > n => LeftOf(k', u) = LeftOf(k, u) - n
          /\ LeftOf(k, u) <= n => LeftOf(k', u) = 0
  BY <1>1, SleeperLater
<1>6. /\ \A u \in Waits(k) : u \in Tasks /\ u \in Delayed(k) /\ LeftOf(k, u) > 0
      /\ \A u \in Waits(k') : u \in Tasks /\ u \in Delayed(k') /\ LeftOf(k', u) > 0
  BY WaitsAre, WaitsThen
<1>7. Waits(k) = Owners(k.mwait) \cup Owners(k.bwait) /\ Waits(k)' = Waits(k')
      /\ Waits(k') = (Owners(k.mwait) \cup Owners(k.bwait))'
  BY DEF Waits
<1>8. CASE D = {}
  <2>1. \A u \in Tasks : Left(u)' = Alarm!After(IF u \in S THEN 0 ELSE Left(u), n)
    BY <1>1, <1>2, <1>5, <1>8 DEF Alarm!After
  <2>2. Waits(k') = {u \in Waits(k) \ S : LeftOf(k', u) > 0}
    <3>1. \A u \in Tasks : u \in S => LeftOf(k', u) = 0
      BY <1>5, <1>8
    <3>2. \A u \in Tasks : u \in Waits(k') <=> u \in Waits(k) \ S /\ LeftOf(k', u) > 0
      <4> SUFFICES ASSUME NEW u \in Tasks
                   PROVE  u \in Waits(k') <=> u \in Waits(k) \ S /\ LeftOf(k', u) > 0
        OBVIOUS
      <4>1. u \in Waits(k') <=> u \in Waits(k) /\ u \in Delayed(k')
        BY <1>4, <1>8
      <4>2. u \in Delayed(k') <=> LeftOf(k', u) > 0
        BY <1>2
      <4>3. u \in S => ~(LeftOf(k', u) > 0)
        BY <3>1
      <4> QED
        BY <4>1, <4>2, <4>3
    <3> QED
      BY <1>6, <3>2
  <2>3. Alarm!Step(n, S, {}, 0, {})
    <3>1. \A u \in Waits(k) : u \in Tasks
      BY <1>6
    <3>2. {u \in Waits(k) \ S : LeftOf(k', u) > 0} =
          {u \in (Waits(k) \ S) \cup {} : [v \in Tasks |-> Left(v)]'[u] > 0}
      BY <1>2, <3>1
    <3>3. [u \in Tasks |-> Left(u)]' =
          [u \in Tasks |-> Alarm!After([v \in Tasks |-> IF v \in S THEN 0
                                         ELSE IF v \in {} THEN 0
                                         ELSE [w \in Tasks |-> Left(w)][v]][u], n)]
      BY <2>1
    <3> QED
      BY <1>3, <1>7, <2>2, <3>2, <3>3 DEF Alarm!Step
  <2>4. 1 \in 1 .. MaxDelay
    BY WidthIs DEF Width
  <2>5. n \in 0 .. (IF MaxPended > 1 THEN MaxPended ELSE 1)
        /\ S \in SUBSET (Owners(k.mwait) \cup Owners(k.bwait))
    BY <1>1, <1>3, <1>7 DEF Most
  <2> QED
    BY <2>3, <2>4, <2>5 DEF Alarm!Next
<1>9. CASE D # {}
  <2>1. t \in Tasks /\ S = {} /\ t \in Ready(k)
    BY <1>1, <1>9 DEF Turn
  <2>2. PICK m \in Naps : D = {Item(t, TimeToWake(k.tick, m))}
    BY <1>1, <1>9 DEF Turn
  <2>3. Turn(k', k, t, {}, {Item(t, TimeToWake(k.tick, m))}, n)
    BY <1>1, <2>1, <2>2
  <2>4. /\ LeftOf(k, t) = 0
        /\ m > n => LeftOf(k', t) = m - n
        /\ ~(m > n) => LeftOf(k', t) = 0
    BY <1>1, <2>1, <2>3, DozerLater
  <2>5. t \notin Waits(k)
    BY <1>6, <2>4
  <2>6. m \in Nat /\ m \in 1 .. MaxDelay
    BY WidthIs DEF Width, Naps
  <2>7. \A u \in Tasks : Left(u)' = Alarm!After(IF u = t THEN m ELSE Left(u), n)
    <3> SUFFICES ASSUME NEW u \in Tasks
                 PROVE  Left(u)' = Alarm!After(IF u = t THEN m ELSE Left(u), n)
      OBVIOUS
    <3>1. CASE u = t
      BY <1>2, <2>4, <3>1 DEF Alarm!After
    <3>2. CASE u # t
      BY <1>1, <1>2, <1>5, <2>1, <3>2 DEF Alarm!After
    <3> QED
      BY <3>1, <3>2
  <2>8. PICK may \in {TRUE, FALSE} : may <=> t \in Waits(k')
    BY Zenon
  <2>9. PICK T : T = IF may THEN {t} ELSE {}
    OBVIOUS
  <2>10. Waits(k') = {u \in Waits(k) \cup T : LeftOf(k', u) > 0}
    <3>1. \A u \in Tasks : u \in Waits(k') <=> u \in Waits(k) \cup T /\ LeftOf(k', u) > 0
      <4> SUFFICES ASSUME NEW u \in Tasks
                   PROVE  u \in Waits(k') <=> u \in Waits(k) \cup T /\ LeftOf(k', u) > 0
        OBVIOUS
      <4>1. CASE u = t
        BY <1>6, <2>5, <2>8, <2>9, <4>1
      <4>2. CASE u # t
        <5>1. u \in Waits(k') <=> u \in Waits(k) /\ u \in Delayed(k')
          BY <1>4, <4>2
        <5>2. u \in Delayed(k') <=> LeftOf(k', u) > 0
          BY <1>2
        <5>3. u \in Waits(k) \cup T <=> u \in Waits(k)
          BY <2>9, <4>2
        <5> QED
          BY <5>1, <5>2, <5>3
      <4> QED
        BY <4>1, <4>2
    <3>2. \A u \in T : u \in Tasks
      BY <2>1, <2>9
    <3> QED
      BY <1>6, <3>1, <3>2
  <2>11. Alarm!Step(n, {}, {t}, m, T)
    <3>1. \A u \in Waits(k) \cup T : u \in Tasks
      BY <1>6, <2>1, <2>9
    <3>2. {u \in Waits(k) \cup T : LeftOf(k', u) > 0} =
          {u \in (Waits(k) \ {}) \cup T : [v \in Tasks |-> Left(v)]'[u] > 0}
      BY <1>2, <3>1
    <3>3. [u \in Tasks |-> Left(u)]' =
          [u \in Tasks |-> Alarm!After([v \in Tasks |-> IF v \in {} THEN 0
                                         ELSE IF v \in {t} THEN m
                                         ELSE [w \in Tasks |-> Left(w)][v]][u], n)]
      BY <2>7
    <3> QED
      BY <1>3, <1>7, <2>10, <3>2, <3>3 DEF Alarm!Step
  <2>12. n \in 0 .. (IF MaxPended > 1 THEN MaxPended ELSE 1)
         /\ {} \in SUBSET (Owners(k.mwait) \cup Owners(k.bwait))
    BY <1>1 DEF Most
  <2>13. [w \in Tasks |-> Left(w)][t] = 0
    BY <1>2, <2>1, <2>4
  <2>14. Alarm!Step(n, {}, {t}, m, IF may THEN {t} ELSE {})
    BY <2>9, <2>11
  <2> QED
    BY <2>1, <2>6, <2>8, <2>12, <2>13, <2>14 DEF Alarm!Next
<1> QED
  BY <1>8, <1>9

(* Nobody sleeps at the start. *)
LEMMA AlarmInit == Init => Alarm!Init
<1> SUFFICES ASSUME Init PROVE Alarm!Init
  OBVIOUS
<1>1. k = Started /\ Begun(k, Task)
  BY StartedIs DEF Init
<1>2. Steady(k) /\ Delayed(k) = {} /\ k.tick = 0
  BY <1>1, StartIsSteady DEF Begun
<1>3. Owners(k.mwait) \cup Owners(k.bwait) = {}
  BY <1>1, NoItems DEF Begun
<1>4. \A u \in Tasks : Left(u) = 0
  BY <1>2, LeftIs, TicksLeft
<1> QED
  BY <1>2, <1>3, <1>4 DEF Alarm!Init

(***************************************************************************)
(* The kernel's clock implements Alarms: who sleeps is woken after exactly *)
(* the ticks it asked for, whatever wraps, pends or is reordered on the    *)
(* way.                                                                    *)
(***************************************************************************)
THEOREM ClockIsExact == Spec => SleepsExactly
<1>1. Sound /\ Sound' /\ [Next]_vars => Alarm!Next
  <2> SUFFICES ASSUME Sound, Sound', [Next]_vars PROVE Alarm!Next
    OBVIOUS
  <2>1. PICK t \in Task : \E S, D, n : Passing(t, S, D, n) /\ (t \in Tasks \/ D = {})
    BY StepTurn
  <2> QED
    BY <2>1, AlarmTurn
<1> QED
  BY <1>1, AlarmInit, SoundHolds, PTL DEF Spec, SleepsExactly, Alarm!Spec

-----------------------------------------------------------------------------
(***************************************************************************)
(* The mutex is not left lying.                                            *)
(***************************************************************************)
Fetched ==
    holder = NULL /\ k.mwait # <<>> => \E u \in Worker : u \in Ready(k) /\ OnItsWay(u)

LEMMA NoWaiters ==
    ASSUME NEW s \in List
    PROVE  /\ s = <<>> <=> Owners(s) = {}
           /\ Items(s) = {} => s = <<>>
<1>1. s \in Seq(Entry) /\ DOMAIN s = 1 .. Len(s) /\ Len(s) \in Nat
  BY ListFacts
<1>2. s # <<>> => 1 \in DOMAIN s
  BY <1>1
<1>3. s # <<>> => s[1].owner \in Owners(s) /\ s[1] \in Items(s)
  BY <1>2 DEF Owners, Items
<1> QED
  BY <1>3, NoItems

(* Who is ready, and does not fall asleep itself, stays ready. *)
LEMMA StaysReady ==
    ASSUME Sound, Sound', NEW t, NEW S, NEW D, NEW n, Passing(t, S, D, n),
           NEW u \in Worker, u \in Ready(k), u # t \/ D = {}
    PROVE  u \in Ready(k')
<1>1. Steady(k) /\ Steady(k') /\ n \in Nat /\ Turn(k', k, t, S, D, n) /\ u \in Task
  BY MostIs, Kinds DEF Sound, Passing
<1>2. u \in Delayed(k') => u \in Delayed(k)
  BY <1>1, SleeperLater
<1>3. u \notin k'.parked
  BY Kinds DEF Sound, Posts, Parking
<1>4. Ready(k) = Task \ (Delayed(k) \cup k.parked) /\ Ready(k') = Task \ (Delayed(k') \cup k'.parked)
  BY <1>1, OwnersAre
<1> QED
  BY <1>1, <1>2, <1>3, <1>4

(* Nobody begins to wait for the mutex but the runner. *)
LEMMA NoNewWaiter ==
    ASSUME Sound, Sound', NEW t, NEW S, NEW D, NEW n, Passing(t, S, D, n),
           NEW u \in Owners(k'.mwait), u # t \/ D = {}
    PROVE  u \in Owners(k.mwait)
<1>1. Turn(k', k, t, S, D, n) /\ Steady(k')
  BY DEF Passing, Sound
<1>2. u \in Task
  BY <1>1, OwnersAre
<1> QED
  BY <1>1, <1>2 DEF Turn

LEMMA FetchedTurn ==
    ASSUME Sound, Sound', Fetched, NEW t, NEW S, NEW D, NEW n, Passing(t, S, D, n),
           holder' = NULL => holder = NULL,
           D = {} \/ t \notin Owners(k'.mwait),
           t \in Worker /\ OnItsWay(t) /\ holder' = NULL => D = {} /\ OnItsWay(t)'
    PROVE  Fetched'
<1> SUFFICES ASSUME holder' = NULL, k'.mwait # <<>>
             PROVE  \E u \in Worker : u \in Ready(k') /\ OnItsWay(u)'
  BY DEF Fetched
<1>1. k.mwait \in List /\ k'.mwait \in List
  BY SteadyState, StateFields DEF Sound
<1>2. PICK v : v \in Owners(k'.mwait)
  BY <1>1, NoWaiters
<1>3. v \in Owners(k.mwait)
  BY <1>2, NoNewWaiter
<1>4. k.mwait # <<>>
  BY <1>1, <1>3, NoWaiters
<1>5. PICK u \in Worker : u \in Ready(k) /\ OnItsWay(u)
  BY <1>4 DEF Fetched
<1>6. u # t \/ D = {}
  BY <1>5
<1>7. u \in Ready(k')
  BY <1>5, <1>6, StaysReady
<1>8. OnItsWay(u)'
  <2>1. CASE u = t
    BY <1>5, <2>1
  <2>2. CASE u # t
    <3>1. pc'[u] = pc[u]
      BY <2>2, Kinds DEF Passing, Alone
    <3> QED
      BY <1>5, <3>1 DEF OnItsWay
  <2> QED
    BY <2>1, <2>2
<1> QED
  BY <1>7, <1>8

(* Who is at none of these places does not wait for the mutex. *)
LEMMA NotQueueing ==
    ASSUME Sound', NEW t \in Tasks, pc'[t] \notin {"blocked", "take"}
    PROVE  t \notin Owners(k'.mwait)
<1>1. \A x \in Items(k'.mwait) : pc'[x.owner] \in {"blocked", "take"}
  BY DEF Sound, Posts, Queueing
<1>2. Owners(k'.mwait) = OwnersOf(Items(k'.mwait))
  BY OwnersAre DEF Sound
<1> QED
  BY <1>1, <1>2 DEF OwnersOf

LEMMA PlaceIs ==
    ASSUME Sound, NEW t \in Tasks, NEW l, Go(t, l)
    PROVE  pc'[t] = l
BY DEF Go, Sound, Locals

LEMMA FetchedNext ==
    ASSUME Sound, Sound', [Next]_vars, Fetched
    PROVE  Fetched'
<1>1. ASSUME NEW t \in Worker, NEW n, WaitBits(t, n) PROVE Fetched'
  <2>1. PICK D : Passing(t, {}, D, n)
    BY <1>1, WaitBitsTurn
  <2>2. holder' = holder /\ pc[t] = "boot" /\ pc'[t] \notin {"blocked", "take"}
    BY <1>1, WaitBitsTurn, PlaceIs, Kinds
  <2>3. ~OnItsWay(t) /\ t \notin Owners(k'.mwait)
    BY <2>2, NotQueueing, Kinds DEF OnItsWay
  <2> QED
    BY <2>1, <2>2, <2>3, FetchedTurn
<1>2. ASSUME NEW t \in Worker, NEW n, Sleep(t, n) PROVE Fetched'
  <2>1. PICK D : Passing(t, {}, D, n)
    BY <1>2, SleepTurn
  <2>2. holder' = holder /\ pc[t] = "sleep" /\ pc'[t] \notin {"blocked", "take"}
    BY <1>2, SleepTurn, PlaceIs, Kinds
  <2>3. ~OnItsWay(t) /\ t \notin Owners(k'.mwait)
    BY <2>2, NotQueueing, Kinds DEF OnItsWay
  <2> QED
    BY <2>1, <2>2, <2>3, FetchedTurn
<1>3. ASSUME NEW t \in Worker, NEW n, Block(t, n) PROVE Fetched'
  <2>1. holder' = holder
    BY <1>3, BlockTurn
  <2>2. CASE holder # NULL
    BY <2>1, <2>2 DEF Fetched
  <2>3. CASE holder = NULL
    <3>1. holder \notin Worker
      BY <2>3, Kinds
    <3>2. Passing(t, {}, {}, n) /\ (Go(t, "expired") \/ Go(t, "take"))
      BY <1>3, <3>1, BlockTurn
    <3>3. OnItsWay(t)'
      BY <3>2, PlaceIs, Kinds DEF OnItsWay
    <3> QED
      BY <2>1, <3>2, <3>3, FetchedTurn
  <2> QED
    BY <2>2, <2>3
<1>4. ASSUME NEW t \in Tasks, PortYield(t) PROVE Fetched'
  <2>1. holder' = holder /\ Passing(t, {}, {}, 0)
    BY <1>4, PortYieldTurn
  <2>2. OnItsWay(t) => OnItsWay(t)'
    BY <1>4, PortYieldTurn, PlaceIs DEF OnItsWay
  <2> QED
    BY <2>1, <2>2, FetchedTurn
<1>5. ASSUME NEW t \in Worker, Cycle(t) PROVE Fetched'
  <2>1. Passing(t, {}, {}, 0) /\ pc[t] = "cycle"
    BY <1>5, CycleTurn
  <2>2. holder' = holder
    BY <1>5 DEF Cycle
  <2>3. ~OnItsWay(t)
    BY <2>1 DEF OnItsWay
  <2> QED
    BY <2>1, <2>2, <2>3, FetchedTurn
<1>6. ASSUME NEW t \in Worker, Take(t) PROVE Fetched'
  <2>1. Passing(t, {}, {}, 0) /\ pc[t] = "take"
    BY <1>6, TakeTurn
  <2>2. CASE holder = NULL
    <3>1. holder' = t
      BY <1>6, <2>2 DEF Take
    <3> QED
      BY <3>1, Kinds DEF Fetched
  <2>3. CASE holder # NULL
    <3>1. holder' = holder
      BY <1>6, <2>3 DEF Take
    <3> QED
      BY <2>3, <3>1 DEF Fetched
  <2> QED
    BY <2>2, <2>3
<1>7. ASSUME NEW t \in Worker, Expired(t) PROVE Fetched'
  <2>1. Passing(t, {}, {}, 0) /\ holder' = holder
    BY <1>7, ExpiredTurn DEF Expired
  <2>2. holder = NULL => OnItsWay(t)'
    BY <1>7, PlaceIs, Kinds DEF Expired, OnItsWay
  <2> QED
    BY <2>1, <2>2, FetchedTurn
<1>8. ASSUME NEW t \in Worker, GiveUp(t) PROVE Fetched'
  <2>1. Passing(t, {}, {}, 0) /\ pc[t] = "giveup"
    BY <1>8, GiveUpTurn
  <2>2. holder' = holder
    BY <1>8 DEF GiveUp
  <2>3. ~OnItsWay(t)
    BY <2>1 DEF OnItsWay
  <2> QED
    BY <2>1, <2>2, <2>3, FetchedTurn
<1>9. ASSUME NEW t \in Worker, Give(t) PROVE Fetched'
  <2>1. pc[t] = "logging" /\ ~OnItsWay(t)
    BY <1>9, GiveTurn DEF OnItsWay
  <2>2. CASE holder' = holder
    <3>1. CASE holder = NULL
      <4>1. Passing(t, {}, {}, 0)
        BY <1>9, <2>2, <3>1, GiveTurn, Kinds
      <4> QED
        BY <2>1, <2>2, <4>1, FetchedTurn
    <3>2. CASE holder # NULL
      BY <2>2, <3>2 DEF Fetched
    <3> QED
      BY <3>1, <3>2
  <2>3. CASE holder' # holder
    <3>1. k.mwait \in List /\ k'.mwait \in List /\ Steady(k) /\ Steady(k')
      BY SteadyState, StateFields DEF Sound
    <3>2. CASE k.mwait = <<>> /\ Passing(t, {}, {}, 0)
      <4>1. \A u \in Owners(k'.mwait) : u \in Owners(k.mwait)
        BY <3>2, NoNewWaiter
      <4>2. k'.mwait = <<>>
        BY <3>1, <3>2, <4>1, NoWaiters
      <4> QED
        BY <4>2 DEF Fetched
    <3>3. CASE \E h \in Owners(k.mwait) : Passing(t, {h}, {}, 0)
      <4>1. PICK h \in Owners(k.mwait) : Passing(t, {h}, {}, 0)
        BY <3>3
      <4>2. \E x \in Items(k.mwait) : x.owner = h
        BY <3>1, ListFacts
      <4>3. h \in Worker /\ pc[h] \in {"blocked", "take"}
        BY <4>2 DEF Sound, Posts, Queueing
      <4>4. h # t
        BY <2>1, <4>3
      <4>5. pc'[h] = pc[h]
        BY <4>1, <4>3, <4>4, Kinds DEF Passing, Alone
      <4>6. h \notin Delayed(k')
        <5>1. Turn(k', k, t, {h}, {}, 0) /\ 0 \in Nat
          BY <4>1 DEF Passing
        <5>2. PICK H : H = {h}
          OBVIOUS
        <5>3. Turn(k', k, t, H, {}, 0) /\ h \in H
          BY <5>1, <5>2
        <5> QED
          BY <3>1, <4>4, <5>3, SleeperLater
      <4>7. h \in Ready(k')
        <5>1. h \notin k'.parked
          BY <4>3, Kinds DEF Sound, Posts, Parking
        <5>2. Ready(k') = Task \ (Delayed(k') \cup k'.parked)
          BY <3>1, OwnersAre
        <5> QED
          BY <4>3, <4>6, <5>1, <5>2, Kinds
      <4> QED
        BY <4>3, <4>5, <4>7 DEF Fetched, OnItsWay
    <3> QED
      BY <1>9, <2>3, <3>2, <3>3, GiveTurn
  <2> QED
    BY <2>2, <2>3
<1>10. ASSUME NEW n, InitDevices(n) PROVE Fetched'
  <2>1. PICK D : Passing(Starter, {}, D, n)
    BY <1>10, InitDevicesTurn
  <2>2. holder' = holder /\ pc'[Starter] \notin {"blocked", "take"}
    BY <1>10, InitDevicesTurn, PlaceIs, Kinds
  <2>3. Starter \notin Owners(k'.mwait) /\ Starter \notin Worker
    BY <2>2, NotQueueing, Kinds
  <2> QED
    BY <2>1, <2>2, <2>3, FetchedTurn
<1>11. ASSUME NEW n, SetBits(n) PROVE Fetched'
  <2>1. PICK S : S = Owners(k.bwait)
    OBVIOUS
  <2>2. holder' = holder /\ Passing(Starter, S, {}, n) /\ Starter \notin Worker
    BY <1>11, <2>1, SetBitsTurn, Kinds
  <2> QED
    BY <2>2, FetchedTurn
<1>12. ASSUME Suspend PROVE Fetched'
  <2>1. holder' = holder /\ Passing(Starter, {}, {}, 0) /\ Starter \notin Worker
    BY <1>12, SuspendTurn, Kinds
  <2> QED
    BY <2>1, FetchedTurn
<1>13. ASSUME Tick PROVE Fetched'
  <2>1. holder' = holder /\ Passing(Idle, {}, {}, 1) /\ Idle \notin Worker
    BY <1>13, TickTurn, Kinds
  <2> QED
    BY <2>1, FetchedTurn
<1>14. ASSUME UNCHANGED vars PROVE Fetched'
  BY <1>14 DEF vars, Fetched, OnItsWay
<1> QED
  BY <1>1, <1>2, <1>3, <1>4, <1>5, <1>6, <1>7, <1>8, <1>9, <1>10, <1>11, <1>12, <1>13, <1>14,
     Kinds DEF Next, Step, Hang

(***************************************************************************)
(* No wake-up is lost: while the mutex is free and somebody waits for it,  *)
(* somebody else is awake and on its way to it; and nobody waits for the   *)
(* bit once it is set.                                                     *)
(***************************************************************************)
THEOREM WakeupsArrive == Spec => []NoLostWakeup
<1>1. Init => Fetched
  <2> SUFFICES ASSUME Init PROVE Fetched
    OBVIOUS
  <2>1. k.mwait = <<>>
    BY StartedIs DEF Init, Begun
  <2> QED
    BY <2>1 DEF Fetched
<1>2. Sound /\ Fetched => NoLostWakeup
  <2> SUFFICES ASSUME Sound, Fetched PROVE NoLostWakeup
    OBVIOUS
  <2>1. Steady(k) /\ k.bwait \in List /\ Owners(k.mwait) \subseteq Delayed(k)
        /\ Ready(k) \cap Delayed(k) = {}
    BY OwnersAre, StateFields DEF Sound
  <2>2. bit => k.bwait = <<>>
    BY <2>1, NoWaiters DEF Sound, BitQueue
  <2> QED
    BY <2>1, <2>2 DEF NoLostWakeup, Fetched
<1>3. Sound /\ Sound' /\ [Next]_vars /\ Fetched => Fetched'
  BY FetchedNext
<1> QED
  BY <1>1, <1>2, <1>3, SoundHolds, PTL DEF Spec

-----------------------------------------------------------------------------
(***************************************************************************)
(* The wait of a take.  What is left of it, less what has passed since it  *)
(* was noted, is what the take still has to wait; the overflow count has   *)
(* changed since just when the tick counter is below the tick noted; and   *)
(* who waits for the mutex is filed to wake when its wait is over.         *)
(***************************************************************************)
Taking == {"take", "suspend", "blocked", "expired", "giveup"}

OnTime(w, l, e, now, u, marked) ==
    e # Unset /\ w < TakeTicks =>
        /\ l - Elapsed(e, now) = TakeTicks - w
        /\ u \in marked <=> now < e

WakesAtEnd(u) == \A x \in Asleep(k) : x.owner = u => x.value = TimeToWake(entered[u], left[u])

Timing(u) ==
    /\ pc[u] \notin Taking => entered[u] = Unset
    /\ entered[u] = Unset => /\ waited[u] = 0
                             /\ pc[u] \notin {"suspend", "blocked", "expired", "giveup"}
                             /\ pc[u] = "take" => left[u] = TakeTicks
    /\ pc[u] \in {"expired", "giveup"} => waited[u] = TakeTicks
    /\ OnTime(waited[u], left[u], entered[u], k.tick, u, k.stale)
    /\ u \in Owners(k.mwait) => entered[u] # Unset /\ WakesAtEnd(u)

Timed == \A u \in Worker : Timing(u)

(* n more ticks change none of it. *)
LEMMA OnTimeLater ==
    ASSUME NEW w \in 0 .. TakeTicks, NEW l \in 0 .. TakeTicks, NEW e \in TickType,
           NEW now \in TickType, NEW n \in Nat, NEW u, NEW s, NEW r,
           OnTime(w, l, e, now, u, s),
           u \in r <=> (now + n >= W \/ u \in s)
    PROVE  OnTime(More(w, n, TakeTicks), l, e, (now + n) % W, u, r)
<1>1. /\ W \in Nat /\ W > 1 /\ now \in 0 .. W - 1 /\ e \in 0 .. W - 1
      /\ TakeTicks \in 1 .. W - 2 /\ TickType = 0 .. W - 1
  BY WidthIs, KernelAssumption DEF Width
<1> SUFFICES ASSUME More(w, n, TakeTicks) < TakeTicks
             PROVE  /\ l - Elapsed(e, (now + n) % W) = TakeTicks - More(w, n, TakeTicks)
                    /\ u \in r <=> (now + n) % W < e
  BY DEF OnTime
<1>2. More(w, n, TakeTicks) = w + n /\ w + n < TakeTicks
  BY <1>1 DEF More
<1>3. e # Unset
  BY <1>1 DEF Unset
<1>4. l - Elapsed(e, now) = TakeTicks - w /\ (u \in s <=> now < e)
  BY <1>1, <1>2, <1>3 DEF OnTime
<1>5. Elapsed(e, now) = IF e <= now THEN now - e ELSE now - e + W
  BY ElapsedIsDifference
<1>6. Elapsed(e, now) \in 0 .. W - 1
  BY <1>1, <1>5
<1>7. Elapsed(e, now) + n < W - 1
  BY <1>1, <1>2, <1>4, <1>6
<1>8. n \in TickType
  BY <1>1, <1>6, <1>7
<1>9. PICK now2 \in TickType : now2 = (now + n) % W /\ now2 = IF now + n < W THEN now + n
                                                                          ELSE now + n - W
  BY <1>8, WakeInRange DEF TimeToWake
<1>10. Elapsed(e, now2) = IF e <= now2 THEN now2 - e ELSE now2 - e + W
  BY ElapsedIsDifference
<1>11. PICK a \in 0 .. W - 1 : a = Elapsed(e, now)
  BY <1>6
<1>12. Elapsed(e, now2) = a + n
  BY <1>1, <1>5, <1>7, <1>9, <1>10, <1>11
<1>13. u \in r <=> now2 < e
  <2>1. CASE now < e
    <3>1. u \in r /\ now2 < e
      BY <1>1, <1>4, <1>5, <1>7, <1>9, <1>11, <2>1
    <3> QED
      BY <3>1
  <2>2. CASE ~(now < e)
    <3>1. u \in r <=> now + n >= W
      BY <1>4, <2>2
    <3>2. now2 < e <=> now + n >= W
      BY <1>1, <1>5, <1>7, <1>9, <1>11, <2>2
    <3> QED
      BY <3>1, <3>2
  <2> QED
    BY <2>1, <2>2
<1>14. l - Elapsed(e, now2) = TakeTicks - (w + n)
  <2>1. l - a = TakeTicks - w
    BY <1>4, <1>11
  <2>2. l - (a + n) = TakeTicks - (w + n)
    BY <1>1, <2>1
  <2> QED
    BY <1>12, <2>2
<1> QED
  BY <1>2, <1>9, <1>13, <1>14

LEMMA WorkerTypes ==
    ASSUME Sound, NEW u \in Worker
    PROVE  /\ left[u] \in 0 .. TakeTicks /\ entered[u] \in TickType \cup {Unset}
           /\ waited[u] \in 0 .. TakeTicks /\ pc[u] \in Location
           /\ u \in Task /\ u \in Tasks /\ k.tick \in TickType
           /\ TakeTicks \in Nat /\ TakeTicks >= 1
<1>1. k \in SchedState
  BY SteadyState DEF Sound
<1> QED
  BY <1>1, StateFields, Kinds, KernelAssumption DEF Sound, Locals

(* The waits of the others go on. *)
LEMMA TimingOfOthers ==
    ASSUME Sound, Sound', NEW t, NEW S, NEW D, NEW n, Passing(t, S, D, n),
           NEW u \in Worker, u # t, Timing(u)
    PROVE  Timing(u)'
<1>1. Steady(k) /\ Steady(k') /\ n \in Nat /\ Turn(k', k, t, S, D, n)
  BY MostIs DEF Sound, Passing
<1>2. /\ pc'[u] = pc[u] /\ left'[u] = left[u] /\ entered'[u] = entered[u]
      /\ k'.tick = (k.tick + n) % W /\ (u \in k'.stale <=> (k.tick + n >= W \/ u \in k.stale))
      /\ IF entered[u] = Unset THEN waited'[u] \in {0, waited[u]}
                               ELSE waited'[u] = More(waited[u], n, TakeTicks)
  BY Kinds DEF Passing, Alone, Aged, StaleOthers, Turn
<1>3. /\ left[u] \in 0 .. TakeTicks /\ entered[u] \in TickType \cup {Unset}
      /\ waited[u] \in 0 .. TakeTicks /\ k.tick \in TickType
      /\ TakeTicks \in Nat /\ TakeTicks >= 1
  BY WorkerTypes
<1>4. OnTime(waited'[u], left'[u], entered'[u], k'.tick, u, k'.stale)
  <2>1. CASE entered[u] = Unset
    BY <1>2, <2>1 DEF OnTime
  <2>2. CASE entered[u] # Unset
    <3>1. entered[u] \in TickType /\ OnTime(waited[u], left[u], entered[u], k.tick, u, k.stale)
      BY <1>3, <2>2 DEF Timing
    <3>2. OnTime(More(waited[u], n, TakeTicks), left[u], entered[u], (k.tick + n) % W, u, k'.stale)
      BY <1>1, <1>2, <1>3, <3>1, OnTimeLater
    <3> QED
      BY <1>2, <2>2, <3>2
  <2> QED
    BY <2>1, <2>2
<1>5. u \in Owners(k'.mwait) => entered'[u] # Unset /\ WakesAtEnd(u)'
  <2> SUFFICES ASSUME u \in Owners(k'.mwait) PROVE entered'[u] # Unset /\ WakesAtEnd(u)'
    OBVIOUS
  <2>1. u \in Owners(k.mwait)
    BY NoNewWaiter
  <2>2. entered[u] # Unset /\ \A x \in Asleep(k) : x.owner = u =>
                                  x.value = TimeToWake(entered[u], left[u])
    BY <2>1 DEF Timing, WakesAtEnd
  <2>3. \A x \in Asleep(k') : x.owner = u => x \in Asleep(k)
    BY <1>1, SleeperLater
  <2>4. \A x \in Asleep(k') : x.owner = u => x.value = TimeToWake(entered'[u], left'[u])
    BY <1>2, <2>2, <2>3
  <2> QED
    BY <1>2, <2>2, <2>4 DEF WakesAtEnd
<1>6. pc'[u] \in {"expired", "giveup"} => waited'[u] = TakeTicks
  <2> SUFFICES ASSUME pc[u] \in {"expired", "giveup"} PROVE waited'[u] = TakeTicks
    BY <1>2
  <2>1. waited[u] = TakeTicks /\ entered[u] # Unset
    BY <1>3 DEF Timing
  <2>2. More(waited[u], n, TakeTicks) = TakeTicks
    BY <1>1, <1>3, <2>1 DEF More
  <2> QED
    BY <1>2, <2>1, <2>2
<1>7. entered'[u] = Unset => /\ waited'[u] = 0
                             /\ pc'[u] \notin {"suspend", "blocked", "expired", "giveup"}
                             /\ pc'[u] = "take" => left'[u] = TakeTicks
  BY <1>2 DEF Timing
<1>8. pc'[u] \notin Taking => entered'[u] = Unset
  BY <1>2 DEF Timing
<1> QED
  BY <1>4, <1>5, <1>6, <1>7, <1>8 DEF Timing

(* A task that is not in a take. *)
LEMMA OutOfTake ==
    ASSUME Sound', NEW t \in Worker, entered'[t] = Unset, waited'[t] = 0,
           pc'[t] \notin Taking
    PROVE  Timing(t)'
<1>1. t \notin Owners(k'.mwait)
  BY NotQueueing, Kinds DEF Taking
<1> QED
  BY <1>1 DEF Timing, OnTime, Taking

LEMMA LaterThen ==
    ASSUME NEW n, Later(n), NEW t \in Worker
    PROVE  waited'[t] = IF entered[t] = Unset THEN 0 ELSE More(waited[t], n, TakeTicks)
BY DEF Later

LEMMA PutIs ==
    ASSUME Sound, NEW t \in Worker, NEW v
    PROVE  /\ Put(left, t, v) => left'[t] = v
           /\ Put(entered, t, v) => entered'[t] = v
           /\ Put(inherited, t, v) => inherited'[t] = v
           /\ Put(last, t, v) => last'[t] = v
           /\ Put(waited, t, v) => waited'[t] = v
           /\ t \in Until /\ Put(age, t, v) => age'[t] = v
BY DEF Put, Sound, Locals

(* A take returns. *)
LEMMA ReturnedFromTake ==
    ASSUME Sound, Sound', NEW t \in Worker, Returns(t)
    PROVE  Timing(t)'
<1>1. pc'[t] = "logging"
  BY PlaceIs, Kinds DEF Returns
<1>2. entered'[t] = Unset /\ waited'[t] = 0
  BY PutIs DEF Returns
<1> QED
  BY <1>1, <1>2, OutOfTake DEF Taking

(* Nothing of a task's wait changes but the place it is at. *)
LEMMA TimingSame ==
    ASSUME Sound, Sound', NEW t \in Worker, Timing(t),
           left'[t] = left[t], entered'[t] = entered[t], waited'[t] = waited[t],
           k'.tick = k.tick, t \in k'.stale <=> t \in k.stale, t \notin Delayed(k'),
           entered[t] # Unset, pc'[t] \in Taking,
           pc'[t] \in {"expired", "giveup"} => waited[t] = TakeTicks
    PROVE  Timing(t)'
<1>1. t \notin Owners(k'.mwait)
  BY OwnersAre DEF Sound
<1>2. OnTime(waited[t], left[t], entered[t], k.tick, t, k.stale)
  BY DEF Timing
<1>3. OnTime(waited'[t], left'[t], entered'[t], k'.tick, t, k'.stale)
  BY <1>2 DEF OnTime
<1> QED
  BY <1>1, <1>3 DEF Timing

LEMMA WaitBitsTiming ==
    ASSUME Sound, Sound', Timed, NEW t \in Worker, NEW n, WaitBits(t, n)
    PROVE  Timing(t)'
<1>1. entered'[t] = entered[t] /\ pc[t] = "boot" /\ pc'[t] \notin Taking /\ Later(n)
  BY WaitBitsTurn, PlaceIs, Kinds DEF Taking
<1>2. entered[t] = Unset
  BY <1>1 DEF Timed, Timing, Taking
<1> QED
  BY <1>1, <1>2, LaterThen, OutOfTake

LEMMA SleepTiming ==
    ASSUME Sound, Sound', Timed, NEW t \in Worker, NEW n, Sleep(t, n)
    PROVE  Timing(t)'
<1>1. entered'[t] = entered[t] /\ pc[t] = "sleep" /\ pc'[t] \notin Taking /\ Later(n)
  BY SleepTurn, PlaceIs, Kinds DEF Taking
<1>2. entered[t] = Unset
  BY <1>1 DEF Timed, Timing, Taking
<1> QED
  BY <1>1, <1>2, LaterThen, OutOfTake

LEMMA CycleTiming ==
    ASSUME Sound, Sound', Timed, NEW t \in Worker, Cycle(t)
    PROVE  Timing(t)'
<1>1. /\ entered'[t] = entered[t] /\ waited'[t] = waited[t] /\ pc[t] = "cycle"
      /\ k' = k /\ t \in Ready(k)
  BY CycleTurn DEF Cycle
<1>2. entered[t] = Unset /\ waited[t] = 0
  BY <1>1 DEF Timed, Timing, Taking
<1>3. CASE Go(t, "sleep")
  <2>1. pc'[t] = "sleep"
    BY <1>3, PlaceIs, Kinds
  <2> QED
    BY <1>1, <1>2, <2>1, OutOfTake DEF Taking
<1>4. CASE Go(t, "take") /\ Put(left, t, TakeTicks)
  <2>1. pc'[t] = "take" /\ left'[t] = TakeTicks
    BY <1>4, PlaceIs, PutIs, Kinds
  <2>2. t \notin Owners(k'.mwait)
    BY <1>1, OwnersAre DEF Sound
  <2> QED
    BY <1>1, <1>2, <2>1, <2>2 DEF Timing, OnTime, Taking
<1> QED
  BY <1>3, <1>4 DEF Cycle

LEMMA TakeTiming ==
    ASSUME Sound, Sound', Timed, NEW t \in Worker, Take(t)
    PROVE  Timing(t)'
<1>1. pc[t] = "take" /\ t \in Ready(k) /\ Passing(t, {}, {}, 0)
  BY TakeTurn
<1>2. t \notin Delayed(k') /\ t \notin Owners(k'.mwait)
  <2>1. t \in Ready(k')
    BY <1>1, StaysReady
  <2> QED
    BY <2>1, OwnersAre DEF Sound
<1>3. Timing(t)
  BY DEF Timed
<1>4. CASE Returns(t)
  BY <1>4, ReturnedFromTake
<1>5. CASE UNCHANGED <<k, holder, pc, left, entered, inherited, waited>>
  <2> QED
    BY <1>1, <1>2, <1>3, <1>5 DEF Timing, OnTime
<1>6. CASE /\ holder # NULL /\ left[t] > 0 /\ Go(t, "suspend")
           /\ IF entered[t] = Unset
              THEN Put(entered, t, k.tick) /\ k' = [k EXCEPT !.stale = @ \ {t}]
              ELSE UNCHANGED <<entered, k>>
           /\ UNCHANGED <<holder, left, inherited, waited, halted>>
  <2>1. pc'[t] = "suspend" /\ left'[t] = left[t] /\ waited'[t] = waited[t]
    BY <1>6, PlaceIs, Kinds
  <2>2. /\ left[t] \in 0 .. TakeTicks /\ entered[t] \in TickType \cup {Unset}
        /\ waited[t] \in 0 .. TakeTicks /\ k.tick \in TickType
        /\ TakeTicks \in Nat /\ TakeTicks >= 1 /\ t \in Task
    BY WorkerTypes
  <2>3. CASE entered[t] # Unset
    <3>1. k' = k /\ entered'[t] = entered[t]
      BY <1>6, <2>3
    <3> QED
      BY <1>2, <1>3, <2>1, <2>3, <3>1, TimingSame DEF Taking
  <2>4. CASE entered[t] = Unset
    <3>1. k' = [k EXCEPT !.stale = @ \ {t}] /\ entered'[t] = k.tick
      BY <1>6, <2>4, PutIs
    <3>2. k'.tick = k.tick /\ t \notin k'.stale
      BY <2>2, <3>1, MarkedStill DEF Still
    <3>3. left[t] = TakeTicks /\ waited[t] = 0
      BY <1>1, <1>3, <2>4 DEF Timing
    <3>4. Elapsed(k.tick, k.tick) = 0 /\ k.tick \in Nat /\ k.tick # Unset
      BY <2>2, ElapsedIsDifference, WidthIs DEF Width, Unset
    <3>5. OnTime(waited'[t], left'[t], entered'[t], k'.tick, t, k'.stale)
      BY <2>1, <2>2, <3>1, <3>2, <3>3, <3>4 DEF OnTime
    <3> QED
      BY <1>2, <2>1, <3>1, <3>4, <3>5 DEF Timing, Taking
  <2> QED
    BY <2>3, <2>4
<1> QED
  BY <1>4, <1>5, <1>6 DEF Take

(* A wait that is over has lasted. *)
LEMMA OverIsDone ==
    ASSUME Sound, NEW t \in Worker, Timing(t), entered[t] \in TickType, Over(t)
    PROVE  waited[t] = TakeTicks
<1>1. /\ left[t] \in 0 .. TakeTicks /\ waited[t] \in 0 .. TakeTicks /\ k.tick \in TickType
      /\ TakeTicks \in Nat
  BY WorkerTypes
<1> SUFFICES ASSUME waited[t] < TakeTicks PROVE FALSE
  BY <1>1
<1>2. entered[t] # Unset /\ entered[t] \in Int /\ k.tick \in Int
  BY <1>1, WidthIs DEF Width, Unset
<1>3. left[t] - Elapsed(entered[t], k.tick) = TakeTicks - waited[t]
      /\ (t \in k.stale <=> k.tick < entered[t])
  BY <1>2 DEF Timing, OnTime
<1>4. Elapsed(entered[t], k.tick) \in Int
  <2>1. PICK a \in TickType : a = entered[t]
    OBVIOUS
  <2>2. PICK b \in TickType : b = k.tick
    BY <1>1
  <2>3. a \in Int /\ b \in Int /\ W \in Int
    BY WidthIs DEF Width
  <2>4. Elapsed(a, b) \in Int
    BY <2>3, ElapsedIsDifference
  <2> QED
    BY <2>1, <2>2, <2>4
<1>5. ~(Elapsed(entered[t], k.tick) >= left[t])
  BY <1>1, <1>3, <1>4
<1>6. ~(t \in k.stale /\ k.tick >= entered[t])
  BY <1>2, <1>3
<1> QED
  BY <1>5, <1>6 DEF Over, TimedOut

LEMMA BlockTiming ==
    ASSUME Sound, Sound', Timed, NEW t \in Worker, NEW n, Block(t, n)
    PROVE  Timing(t)'
<1>1. /\ n \in 0 .. MaxPended /\ n \in Nat /\ Later(n) /\ pc[t] = "suspend" /\ t \in Ready(k)
      /\ entered[t] \in TickType
  <2>1. /\ n \in 0 .. MaxPended /\ Later(n) /\ pc[t] = "suspend" /\ t \in Ready(k)
        /\ entered[t] \in TickType
    BY BlockTurn
  <2> QED
    BY <2>1, Kinds
<1>2. /\ left[t] \in 0 .. TakeTicks /\ entered[t] # Unset
      /\ waited[t] \in 0 .. TakeTicks /\ k.tick \in TickType
      /\ TakeTicks \in Nat /\ TakeTicks >= 1 /\ k.tick # Unset
  BY <1>1, WorkerTypes, WidthIs DEF Width, Unset
<1>3. Timing(t) /\ waited'[t] = More(waited[t], n, TakeTicks)
  BY <1>1, <1>2, LaterThen DEF Timed
<1>4. CASE /\ Over(t) /\ Go(t, "expired") /\ UNCHANGED <<entered, inherited>>
           /\ Passing(t, {}, {}, n)
  <2>1. waited[t] = TakeTicks
    BY <1>1, <1>3, <1>4, OverIsDone
  <2>2. waited'[t] = TakeTicks
    BY <1>1, <1>2, <1>3, <2>1 DEF More
  <2>3. pc'[t] = "expired" /\ entered'[t] = entered[t]
    BY <1>4, PlaceIs, Kinds
  <2>4. t \notin Owners(k'.mwait)
    BY <2>3, NotQueueing, Kinds
  <2> QED
    BY <1>2, <2>2, <2>3, <2>4 DEF Timing, OnTime, Taking
<1>5. CASE /\ Renoted(t, n) /\ (Go(t, "take") \/ Go(t, "blocked"))
           /\ \/ Passing(t, {}, {}, n)
              \/ Passing(t, {}, {Item(t, TimeToWake(k.tick, Rest(t)))}, n)
  <2>1. /\ ~Over(t) /\ left'[t] = Rest(t) /\ entered'[t] = k.tick
        /\ (t \in k'.stale <=> k.tick + n >= W)
    BY <1>5, PutIs DEF Renoted
  <2>2. Rest(t) \in 0 .. TakeTicks /\ Rest(t) \in Naps
    BY <1>1, <2>1, RestIsLeft
  <2>3. waited[t] < TakeTicks => Rest(t) = TakeTicks - waited[t]
    BY <1>2, <1>3 DEF Timing, OnTime, Rest
  <2>4. Elapsed(k.tick, k.tick) = 0 /\ k.tick \in Nat
    BY <1>2, ElapsedIsDifference, WidthIs DEF Width
  <2>5. PICK N : N = {}
    OBVIOUS
  <2>6. OnTime(waited[t], Rest(t), k.tick, k.tick, t, N)
    BY <1>2, <2>2, <2>3, <2>4, <2>5 DEF OnTime
  <2>7. t \in k'.stale <=> (k.tick + n >= W \/ t \in N)
    BY <2>1, <2>5
  <2>8. OnTime(More(waited[t], n, TakeTicks), Rest(t), k.tick, (k.tick + n) % W, t, k'.stale)
    BY <1>1, <1>2, <2>2, <2>6, <2>7, OnTimeLater
  <2>9. k'.tick = (k.tick + n) % W
    BY <1>5 DEF Passing, Turn
  <2>10. OnTime(waited'[t], left'[t], entered'[t], k'.tick, t, k'.stale)
    BY <1>3, <2>1, <2>8, <2>9
  <2>11. pc'[t] \in {"take", "blocked"}
    BY <1>5, PlaceIs, Kinds
  <2>12. t \in Owners(k'.mwait) => WakesAtEnd(t)'
    <3> SUFFICES ASSUME t \in Owners(k'.mwait) PROVE WakesAtEnd(t)'
      OBVIOUS
    <3>1. Steady(k) /\ Steady(k') /\ t \in Delayed(k') /\ t \notin Ready(k')
      BY OwnersAre DEF Sound
    <3>2. CASE Passing(t, {}, {}, n)
      <4>1. t \in Ready(k')
        BY <1>1, <3>2, StaysReady
      <4> QED
        BY <3>1, <4>1
    <3>3. CASE Passing(t, {}, {Item(t, TimeToWake(k.tick, Rest(t)))}, n)
      <4>1. \A x \in Asleep(k') : x.owner = t => x = Item(t, TimeToWake(k.tick, Rest(t)))
        BY <1>1, <2>2, <3>1, <3>3, DozerLater DEF Passing
      <4> QED
        BY <2>1, <4>1 DEF WakesAtEnd, Item
    <3> QED
      BY <1>5, <3>2, <3>3
  <2> QED
    BY <1>2, <2>1, <2>10, <2>11, <2>12 DEF Timing, Taking
<1> QED
  BY <1>4, <1>5, BlockTurn

LEMMA ExpiredTiming ==
    ASSUME Sound, Sound', Timed, NEW t \in Worker, Expired(t)
    PROVE  Timing(t)'
<1>1. pc[t] = "expired" /\ t \in Ready(k) /\ Passing(t, {}, {}, 0)
  BY ExpiredTurn
<1>2. t \notin Delayed(k')
  <2>1. t \in Ready(k')
    BY <1>1, StaysReady
  <2> QED
    BY <2>1, OwnersAre DEF Sound
<1>3. Timing(t) /\ entered[t] # Unset /\ waited[t] = TakeTicks
  BY <1>1 DEF Timed, Timing
<1>4. CASE Returns(t)
  BY <1>4, ReturnedFromTake
<1>5. CASE (Go(t, "take") \/ Go(t, "giveup")) /\ UNCHANGED <<k, left, entered, inherited, waited>>
  <2>1. pc'[t] \in {"take", "giveup"}
    BY <1>5, PlaceIs, Kinds
  <2> QED
    BY <1>2, <1>3, <1>5, <2>1, TimingSame DEF Taking
<1> QED
  BY <1>4, <1>5 DEF Expired

LEMMA PortYieldTiming ==
    ASSUME Sound, Sound', Timed, NEW t \in Worker, PortYield(t)
    PROVE  Timing(t)'
<1>1. /\ UNCHANGED <<left, entered, waited>> /\ Still(k', k) /\ k'.stale = k.stale
      /\ Timing(t)
  BY PortYieldTurn, Kinds DEF Timed
<1>2. CASE pc[t] = "blocked" /\ Go(t, "take")
  <2>1. pc'[t] = "take"
    BY <1>2, PlaceIs, Kinds
  <2>2. entered[t] # Unset
    BY <1>1, <1>2 DEF Timing
  <2>3. OnTime(waited'[t], left'[t], entered'[t], k'.tick, t, k'.stale)
    BY <1>1 DEF Timing, Still
  <2>4. t \in Owners(k'.mwait) => WakesAtEnd(t)'
    BY <1>1 DEF Timing, Still, SameWaits, WakesAtEnd
  <2> QED
    BY <1>1, <2>1, <2>2, <2>3, <2>4 DEF Timing, Taking
<1>3. CASE pc[t] \notin Taking /\ pc'[t] \notin Taking
  <2>1. entered'[t] = Unset /\ waited'[t] = 0
    BY <1>1, <1>3 DEF Timing
  <2> QED
    BY <1>3, <2>1, OutOfTake
<1>4. CASE pc[t] \in {"waited", "slept", "stopped", "began"}
  <2>1. pc[t] \notin Taking
    BY <1>4 DEF Taking
  <2>2. pc'[t] \in {"cycle", "boot", "stopped"}
    BY <1>4, PortYieldTurn, PlaceIs, Kinds
  <2> QED
    BY <1>3, <2>1, <2>2 DEF Taking
<1> QED
  BY <1>2, <1>4, PortYieldTurn, Kinds

LEMMA GiveTiming ==
    ASSUME Sound, Sound', Timed, NEW t \in Worker, Give(t)
    PROVE  Timing(t)'
<1>1. pc[t] = "logging" /\ UNCHANGED <<left, entered, waited>>
  BY GiveTurn
<1>2. entered'[t] = Unset /\ waited'[t] = 0
  BY <1>1 DEF Timed, Timing, Taking
<1>3. pc'[t] \in {"sleep", "logging"}
  BY <1>1, GiveTurn, PlaceIs, Kinds
<1> QED
  BY <1>2, <1>3, OutOfTake DEF Taking

(* A step of a worker changes the wait of no other. *)
LEMMA TimedByStep ==
    ASSUME Sound, Sound', Timed, NEW t, NEW S, NEW D, NEW n, Passing(t, S, D, n),
           t \in Worker => Timing(t)'
    PROVE  Timed'
<1>1. ASSUME NEW u \in Worker PROVE Timing(u)'
  <2>1. CASE u = t
    BY <2>1
  <2>2. CASE u # t
    BY <2>2, TimingOfOthers DEF Timed
  <2> QED
    BY <2>1, <2>2
<1> QED
  BY <1>1 DEF Timed

LEMMA TimedNext ==
    ASSUME Sound, Sound', [Next]_vars, Timed
    PROVE  Timed'
<1>1. ASSUME NEW t \in Worker, NEW n, WaitBits(t, n) PROVE Timed'
  BY <1>1, WaitBitsTurn, WaitBitsTiming, TimedByStep
<1>2. ASSUME NEW t \in Worker, NEW n, Sleep(t, n) PROVE Timed'
  <2>1. PICK D : Passing(t, {}, D, n)
    BY <1>2, SleepTurn
  <2> QED
    BY <1>2, <2>1, SleepTiming, TimedByStep
<1>3. ASSUME NEW t \in Worker, NEW n, Block(t, n) PROVE Timed'
  <2>1. PICK D : Passing(t, {}, D, n)
    BY <1>3, BlockTurn
  <2> QED
    BY <1>3, <2>1, BlockTiming, TimedByStep
<1>4. ASSUME NEW t \in Tasks, PortYield(t) PROVE Timed'
  <2>1. Passing(t, {}, {}, 0)
    BY <1>4, PortYieldTurn
  <2> QED
    BY <1>4, <2>1, PortYieldTiming, TimedByStep
<1>5. ASSUME NEW t \in Worker, Cycle(t) PROVE Timed'
  BY <1>5, CycleTurn, CycleTiming, TimedByStep
<1>6. ASSUME NEW t \in Worker, Take(t) PROVE Timed'
  BY <1>6, TakeTurn, TakeTiming, TimedByStep
<1>7. ASSUME NEW t \in Worker, Expired(t) PROVE Timed'
  BY <1>7, ExpiredTurn, ExpiredTiming, TimedByStep
<1>8. ASSUME NEW t \in Worker, GiveUp(t) PROVE Timed'
  <2>1. Returns(t) /\ Passing(t, {}, {}, 0)
    BY <1>8, GiveUpTurn
  <2> QED
    BY <2>1, ReturnedFromTake, TimedByStep
<1>9. ASSUME NEW t \in Worker, Give(t) PROVE Timed'
  <2>1. \E S : Passing(t, S, {}, 0)
    BY <1>9, GiveTurn
  <2> QED
    BY <1>9, <2>1, GiveTiming, TimedByStep
<1>10. ASSUME NEW n, InitDevices(n) PROVE Timed'
  BY <1>10, InitDevicesTurn, Kinds, TimedByStep
<1>11. ASSUME NEW n, SetBits(n) PROVE Timed'
  <2>1. PICK S : S = Owners(k.bwait)
    OBVIOUS
  <2>2. Passing(Starter, S, {}, n) /\ Starter \notin Worker
    BY <1>11, <2>1, SetBitsTurn, Kinds
  <2> QED
    BY <2>2, TimedByStep
<1>12. ASSUME Suspend PROVE Timed'
  BY <1>12, SuspendTurn, Kinds, TimedByStep
<1>13. ASSUME Tick PROVE Timed'
  BY <1>13, TickTurn, Kinds, TimedByStep
<1>14. ASSUME UNCHANGED vars PROVE Timed'
  BY <1>14, StutterTurn, Kinds, TimedByStep
<1> QED
  BY <1>1, <1>2, <1>3, <1>4, <1>5, <1>6, <1>7, <1>8, <1>9, <1>10, <1>11, <1>12, <1>13, <1>14,
     Kinds DEF Next, Step, Hang

LEMMA TimedInit == Init => Timed
<1> SUFFICES ASSUME Init, NEW u \in Worker PROVE Timing(u)
  BY DEF Timed
<1>1. k.mwait = <<>>
  BY StartedIs DEF Init, Begun
<1>2. u \notin Owners(k.mwait)
  BY <1>1, NoItems
<1>3. entered[u] = Unset /\ waited[u] = 0 /\ pc[u] = "boot"
  BY Kinds DEF Init
<1> QED
  BY <1>2, <1>3 DEF Timing, OnTime, Taking

(* A failed take has waited. *)
LEMMA FailsThen ==
    ASSUME Sound, Timed, [Next]_vars
    PROVE  \A t \in Worker : pc[t] # "logging" /\ pc'[t] = "logging" /\ holder' # t
                                => waited[t] = TakeTicks
<1> SUFFICES ASSUME NEW t \in Worker, pc[t] # "logging", pc'[t] = "logging", holder' # t
             PROVE  waited[t] = TakeTicks
  OBVIOUS
<1>1. /\ left[t] \in 0 .. TakeTicks /\ entered[t] \in TickType \cup {Unset}
      /\ waited[t] \in 0 .. TakeTicks /\ k.tick \in TickType /\ t \in Tasks
      /\ TakeTicks \in Nat /\ TakeTicks >= 1 /\ Timing(t)
  BY WorkerTypes DEF Timed
<1>2. ASSUME NEW u \in Tasks, NEW l, Go(u, l), l = "logging" => u # t PROVE FALSE
  BY <1>1, <1>2 DEF Go, Sound, Locals
<1>3. ASSUME UNCHANGED pc PROVE FALSE
  BY <1>3
<1>4. ASSUME NEW u \in Worker, NEW n, WaitBits(u, n) PROVE FALSE
  BY <1>4, <1>2, WaitBitsTurn, Kinds
<1>5. ASSUME NEW u \in Worker, NEW n, Sleep(u, n) PROVE FALSE
  BY <1>5, <1>2, SleepTurn, Kinds
<1>6. ASSUME NEW u \in Worker, NEW n, Block(u, n) PROVE FALSE
  BY <1>6, <1>2, BlockTurn, Kinds
<1>7. ASSUME NEW u \in Tasks, PortYield(u) PROVE FALSE
  BY <1>7, <1>2, <1>3, PortYieldTurn, Kinds
<1>8. ASSUME NEW u \in Worker, Cycle(u) PROVE FALSE
  BY <1>8, <1>2, Kinds DEF Cycle
<1>9. ASSUME NEW u \in Worker, Take(u) PROVE waited[t] = TakeTicks
  <2>1. u = t
    <3>1. \A l : Go(u, l) => u = t
      BY <1>2, Kinds
    <3> QED
      BY <1>9, <1>3, <3>1 DEF Take, Returns
  <2>2. pc[t] = "take" /\ (holder = NULL => holder' = t)
    BY <1>9, <2>1, TakeTurn DEF Take
  <2>3. left[t] = 0
    BY <1>9, <1>2, <1>3, <2>1, <2>2, Kinds DEF Take
  <2>4. entered[t] # Unset
    BY <1>1, <2>2, <2>3 DEF Timing
  <2>5. OnTime(waited[t], left[t], entered[t], k.tick, t, k.stale)
    BY <1>1 DEF Timing
  <2>6. Elapsed(entered[t], k.tick) \in Nat
    <3>1. PICK a \in TickType : a = entered[t]
      BY <1>1, <2>4
    <3>2. PICK b \in TickType : b = k.tick
      BY <1>1
    <3>3. a \in Int /\ b \in Int /\ W \in Nat /\ a < W /\ b >= 0
      BY WidthIs DEF Width
    <3>4. Elapsed(a, b) \in Nat
      <4>1. Elapsed(a, b) = IF a <= b THEN b - a ELSE b - a + W
        BY ElapsedIsDifference
      <4> QED
        BY <3>3, <4>1
    <3> QED
      BY <3>1, <3>2, <3>4
  <2> QED
    BY <1>1, <2>3, <2>4, <2>5, <2>6 DEF OnTime
<1>10. ASSUME NEW u \in Worker, Expired(u) PROVE waited[t] = TakeTicks
  <2>1. u = t
    <3>1. \A l : Go(u, l) => u = t
      BY <1>2, Kinds
    <3> QED
      BY <1>10, <3>1 DEF Expired, Returns
  <2> QED
    BY <1>1, <1>10, <2>1, ExpiredTurn DEF Timing
<1>11. ASSUME NEW u \in Worker, GiveUp(u) PROVE waited[t] = TakeTicks
  <2>1. u = t
    <3>1. \A l : Go(u, l) => u = t
      BY <1>2, Kinds
    <3> QED
      BY <1>11, <3>1 DEF GiveUp, Returns
  <2> QED
    BY <1>1, <1>11, <2>1, GiveUpTurn DEF Timing
<1>12. ASSUME NEW u \in Worker, Give(u) PROVE FALSE
  BY <1>12, <1>2, <1>3, GiveTurn, Kinds
<1>13. ASSUME NEW n, InitDevices(n) PROVE FALSE
  BY <1>13, <1>2, InitDevicesTurn, Kinds
<1>14. ASSUME NEW n, SetBits(n) PROVE FALSE
  BY <1>14, <1>2, SetBitsTurn, Kinds
<1>15. ASSUME Suspend PROVE FALSE
  BY <1>15, <1>2, SuspendTurn, Kinds
<1>16. ASSUME Tick PROVE FALSE
  BY <1>16, <1>3, TickTurn
<1>17. ASSUME UNCHANGED vars PROVE FALSE
  BY <1>17 DEF vars
<1> QED
  BY <1>4, <1>5, <1>6, <1>7, <1>8, <1>9, <1>10, <1>11, <1>12, <1>13, <1>14, <1>15, <1>16, <1>17,
     Kinds DEF Next, Step, Hang

(* Who waits has just the rest of its wait before it. *)
LEMMA RestIsBefore ==
    ASSUME Sound, Timed
    PROVE  WaitsTheRest
<1> SUFFICES ASSUME NEW t \in Owners(k.mwait), waited[t] < TakeTicks
             PROVE  waited[t] + Left(t) = TakeTicks
  BY DEF WaitsTheRest
<1>1. Steady(k) /\ t \in Delayed(k) /\ t \in Worker
  BY OwnersAre, HolderDoesNotWait DEF Sound
<1>2. /\ left[t] \in 0 .. TakeTicks /\ entered[t] \in TickType \cup {Unset}
      /\ waited[t] \in 0 .. TakeTicks /\ k.tick \in TickType
      /\ TakeTicks \in Nat /\ TakeTicks >= 1 /\ Timing(t)
  BY <1>1, WorkerTypes DEF Timed
<1>3. entered[t] # Unset /\ WakesAtEnd(t)
  BY <1>2 DEF Timing
<1>4. left[t] - Elapsed(entered[t], k.tick) = TakeTicks - waited[t]
  BY <1>2, <1>3 DEF Timing, OnTime
<1>5. PICK x \in Asleep(k) : x.owner = t
  BY <1>1, TicksLeft
<1>6. Left(t) = Elapsed(k.tick, TimeToWake(entered[t], left[t]))
  BY <1>1, <1>3, <1>5, LeftIs, TicksLeft DEF WakesAtEnd
<1>7. PICK e \in TickType : e = entered[t]
  BY <1>2, <1>3
<1>8. PICK now \in TickType : now = k.tick
  BY <1>2
<1>9. PICK l \in 0 .. TakeTicks : l = left[t]
  BY <1>2
<1>10. /\ W \in Nat /\ W > 1 /\ now \in 0 .. W - 1 /\ e \in 0 .. W - 1
       /\ TakeTicks \in 1 .. W - 2 /\ l \in TickType /\ l \in 0 .. W - 2
  BY WidthIs, KernelAssumption DEF Width
<1>11. PICK d \in Int : d = Elapsed(e, now) /\ d = IF e <= now THEN now - e ELSE now - e + W
  BY <1>10, ElapsedIsDifference
<1>12. PICK v \in TickType : v = TimeToWake(e, l) /\ v = IF e + l < W THEN e + l ELSE e + l - W
  BY <1>10, WakeInRange
<1>13. Elapsed(now, v) = IF now <= v THEN v - now ELSE v - now + W
  BY ElapsedIsDifference
<1>14. l - d = TakeTicks - waited[t] /\ l - d >= 1
  BY <1>2, <1>4, <1>7, <1>8, <1>9, <1>11
<1>15. v \in 0 .. W - 1
  BY WidthIs DEF Width
<1>16. Elapsed(now, v) = l - d
  BY <1>10, <1>11, <1>12, <1>13, <1>14, <1>15
<1> QED
  BY <1>2, <1>6, <1>7, <1>8, <1>9, <1>12, <1>14, <1>16

(* Both hold with it. *)
LEMMA TimedHolds == Spec => []Timed
<1>1. Sound /\ Sound' /\ [Next]_vars /\ Timed => Timed'
  BY TimedNext
<1> QED
  BY <1>1, TimedInit, SoundHolds, PTL DEF Spec

(***************************************************************************)
(* A take that fails has waited TakeTicks, however often it was woken in   *)
(* between and found the mutex taken again, and wherever the tick counter  *)
(* wrapped.                                                                *)
(***************************************************************************)
THEOREM TakesFailOnTime == Spec => FailsOnTime
<1>1. Sound /\ Timed /\ [Next]_vars =>
        [\A t \in Worker : pc[t] # "logging" /\ pc'[t] = "logging" /\ holder' # t
                               => waited[t] = TakeTicks]_vars
  BY FailsThen
<1> QED
  BY <1>1, SoundHolds, TimedHolds, PTL DEF Spec, FailsOnTime

(***************************************************************************)
(* A task that waits for the mutex is filed to wake when just the rest of  *)
(* its wait is over.                                                       *)
(***************************************************************************)
THEOREM RestIsWaited == Spec => []WaitsTheRest
<1>1. Sound /\ Timed => WaitsTheRest
  BY RestIsBefore
<1> QED
  BY <1>1, SoundHolds, TimedHolds, PTL

-----------------------------------------------------------------------------
(***************************************************************************)
(* The periods of vTaskDelayUntil.  While a task works, its age is what    *)
(* has passed since the tick it read; when it sleeps, the rest of its      *)
(* period is what it still has to sleep.                                   *)
(***************************************************************************)
Working == Taking \cup {"logging", "sleep"}
Pausing == {"cycle", "slept"}

Keeping(t) ==
    /\ pc[t] \in Working \cup Pausing \cup {"boot", "waited"}
    /\ pc[t] \in {"boot", "waited"} => age[t] = W
    /\ pc[t] \in Working =>
          /\ age[t] < W => age[t] = Elapsed(last[t], k.tick)
          /\ t \in Delayed(k) => t \in Owners(k.mwait)
    /\ pc[t] \in Pausing =>
          /\ t \in Ready(k) => age[t] >= Period[t]
          /\ t \in Delayed(k) /\ age[t] < W => age[t] + LeftOf(k, t) = Period[t]
          /\ t \in Owners(k.bwait) => age[t] = W

Kept == \A t \in Until : Keeping(t)

LEMMA ElapsedOn ==
    ASSUME NEW e \in TickType, NEW now \in TickType, NEW n \in Nat, Elapsed(e, now) + n < W
    PROVE  Elapsed(e, (now + n) % W) = Elapsed(e, now) + n
<1>1. W \in Nat /\ W > 1 /\ now \in 0 .. W - 1 /\ e \in 0 .. W - 1 /\ TickType = 0 .. W - 1
  BY WidthIs DEF Width
<1>2. PICK d \in 0 .. W - 1 : d = Elapsed(e, now) /\ d = IF e <= now THEN now - e ELSE now - e + W
  <2>1. Elapsed(e, now) = IF e <= now THEN now - e ELSE now - e + W
    BY ElapsedIsDifference
  <2>2. Elapsed(e, now) \in 0 .. W - 1
    BY <1>1, <2>1
  <2> QED
    BY <2>1, <2>2
<1>3. n \in TickType
  BY <1>1, <1>2
<1>4. PICK now2 \in TickType : now2 = (now + n) % W /\ now2 = IF now + n < W THEN now + n
                                                                          ELSE now + n - W
  BY <1>3, WakeInRange DEF TimeToWake
<1>5. Elapsed(e, now2) = IF e <= now2 THEN now2 - e ELSE now2 - e + W
  BY ElapsedIsDifference
<1>6. now2 \in 0 .. W - 1
  BY <1>1
<1>7. Elapsed(e, now2) = d + n
  BY <1>1, <1>2, <1>4, <1>5, <1>6
<1> QED
  BY <1>2, <1>4, <1>7

LEMMA WakeAfterElapsed ==
    ASSUME NEW a \in TickType, NEW b \in TickType
    PROVE  Elapsed(a, b) \in TickType /\ TimeToWake(a, Elapsed(a, b)) = b
<1>1. W \in Nat /\ W > 1 /\ a \in 0 .. W - 1 /\ b \in 0 .. W - 1 /\ TickType = 0 .. W - 1
  BY WidthIs DEF Width
<1>2. PICK d \in 0 .. W - 1 : d = Elapsed(a, b) /\ d = IF a <= b THEN b - a ELSE b - a + W
  <2>1. Elapsed(a, b) = IF a <= b THEN b - a ELSE b - a + W
    BY ElapsedIsDifference
  <2>2. Elapsed(a, b) \in 0 .. W - 1
    BY <1>1, <2>1
  <2> QED
    BY <2>1, <2>2
<1>3. d \in TickType
  BY <1>1
<1>4. TimeToWake(a, d) = IF a + d < W THEN a + d ELSE a + d - W
  BY <1>3, WakeInRange
<1> QED
  BY <1>1, <1>2, <1>3, <1>4

(* What a task that works asks vTaskDelayUntil for. *)
LEMMA AgeDecides ==
    ASSUME NEW a \in TickType, NEW now \in TickType, NEW p \in TickType
    PROVE  /\ Elapsed(a, now) \in TickType
           /\ ShouldDelay(now, a, p) <=> Elapsed(a, now) < p
           /\ ShouldDelay(now, a, p) => Elapsed(now, TimeToWake(a, p)) = p - Elapsed(a, now)
<1>1. PICK e \in TickType : e = Elapsed(a, now) /\ TimeToWake(a, e) = now
  BY WakeAfterElapsed
<1>2. /\ ShouldDelay(TimeToWake(a, e), a, p) <=> e < p
      /\ e < p => Elapsed(TimeToWake(a, e), TimeToWake(a, p)) = p - e
  BY DelayUntilIsExact
<1> QED
  BY <1>1, <1>2

LEMMA UntilTypes ==
    ASSUME Sound, NEW t \in Until
    PROVE  /\ t \in Worker /\ t \in Tasks /\ t \in Task /\ pc[t] \in Location
           /\ age[t] \in 0 .. W /\ last[t] \in TickType /\ k.tick \in TickType
           /\ Period[t] \in TickType /\ Period[t] \in 1 .. W - 1 /\ W \in Nat
<1>1. k \in SchedState
  BY SteadyState DEF Sound
<1>2. t \in Worker /\ t \in Tasks /\ t \in Task
  BY Kinds
<1>3. Period[t] \in TickType /\ Period[t] \in 1 .. W - 1 /\ W \in Nat
  BY <1>2, Kinds, WidthIs DEF Naps, Width
<1> QED
  BY <1>1, <1>2, <1>3, StateFields DEF Sound, Locals

LEMMA GrownAge ==
    ASSUME NEW a \in 0 .. W, NEW n \in Nat
    PROVE  /\ a = W => More(a, n, W) = W
           /\ More(a, n, W) < W => a < W /\ More(a, n, W) = a + n
           /\ a + n < W => More(a, n, W) = a + n
           /\ a + n >= W => More(a, n, W) = W
           /\ More(a, n, W) >= a /\ More(a, n, W) \in 0 .. W
BY WidthIs DEF Width, More

(* A worker is ready or asleep. *)
LEMMA ReadyOrAsleep ==
    ASSUME Sound, NEW t \in Worker
    PROVE  /\ t \in Ready(k) <=> t \notin Delayed(k)
           /\ t \in Owners(k.mwait) \cup Owners(k.bwait) => t \in Delayed(k)
BY OwnersAre, Kinds DEF Sound, Posts, Parking

LEMMA ReadyOrAsleepThen ==
    ASSUME Sound', NEW t \in Worker
    PROVE  /\ t \in Ready(k') <=> t \notin Delayed(k')
           /\ t \in Owners(k'.mwait) \cup Owners(k'.bwait) => t \in Delayed(k')
<1>1. Steady(k') /\ k'.parked \subseteq {Starter}
  BY DEF Sound, Posts, Parking
<1> QED
  BY <1>1, OwnersAre, Kinds

(* The others. *)
LEMMA KeepingOfOthers ==
    ASSUME Sound, Sound', NEW t, NEW S, NEW D, NEW n, Passing(t, S, D, n),
           NEW u \in Until, u # t, Keeping(u)
    PROVE  Keeping(u)'
<1>1. /\ Steady(k) /\ Steady(k') /\ n \in Nat /\ Turn(k', k, t, S, D, n)
      /\ S \subseteq Owners(k.mwait) \cup Owners(k.bwait)
  BY MostIs DEF Sound, Passing, Turn
<1>2. /\ u \in Worker /\ u \in Tasks /\ u \in Task /\ pc[u] \in Location
      /\ age[u] \in 0 .. W /\ last[u] \in TickType /\ k.tick \in TickType
      /\ Period[u] \in TickType /\ Period[u] \in 1 .. W - 1 /\ W \in Nat
  BY UntilTypes
<1>3. /\ pc'[u] = pc[u] /\ last'[u] = last[u] /\ age'[u] = More(age[u], n, W)
      /\ k'.tick = (k.tick + n) % W
      /\ u \in Owners(k'.mwait) <=> u \in Owners(k.mwait) /\ u \in Delayed(k')
      /\ u \in Owners(k'.bwait) <=> u \in Owners(k.bwait) /\ u \in Delayed(k')
  BY <1>1, <1>2 DEF Passing, Alone, Aged, Turn
<1>4. /\ u \in S => LeftOf(k', u) = 0 /\ u \notin Delayed(k')
      /\ u \notin S /\ LeftOf(k, u) > n => LeftOf(k', u) = LeftOf(k, u) - n
      /\ LeftOf(k, u) <= n => LeftOf(k', u) = 0
      /\ u \in Delayed(k') => u \in Delayed(k) /\ LeftOf(k, u) > n
  BY <1>1, SleeperLater
<1>5. /\ u \in Delayed(k) <=> LeftOf(k, u) > 0
      /\ u \in Delayed(k') <=> LeftOf(k', u) > 0
      /\ LeftOf(k, u) \in Nat /\ LeftOf(k', u) \in Nat
  BY <1>1, <1>2, TicksLeft
<1>6. /\ u \in Ready(k) <=> u \notin Delayed(k)
      /\ u \in Ready(k') <=> u \notin Delayed(k')
  BY <1>2, ReadyOrAsleep, ReadyOrAsleepThen
<1>7. /\ age[u] = W => More(age[u], n, W) = W
      /\ More(age[u], n, W) < W => age[u] < W /\ More(age[u], n, W) = age[u] + n
      /\ age[u] + n < W => More(age[u], n, W) = age[u] + n
      /\ age[u] + n >= W => More(age[u], n, W) = W
      /\ More(age[u], n, W) >= age[u] /\ More(age[u], n, W) \in 0 .. W
  BY <1>1, <1>2, GrownAge
<1>8. pc[u] \in Working =>
          /\ age'[u] < W => age'[u] = Elapsed(last'[u], k'.tick)
          /\ u \in Delayed(k') => u \in Owners(k'.mwait)
  <2> SUFFICES ASSUME pc[u] \in Working
               PROVE  /\ age'[u] < W => age'[u] = Elapsed(last'[u], k'.tick)
                      /\ u \in Delayed(k') => u \in Owners(k'.mwait)
    OBVIOUS
  <2>1. u \in Delayed(k') => u \in Owners(k'.mwait)
    BY <1>3, <1>4 DEF Keeping
  <2>2. ASSUME age'[u] < W PROVE age'[u] = Elapsed(last'[u], k'.tick)
    <3>1. age[u] < W /\ age'[u] = age[u] + n
      BY <1>3, <1>7, <2>2
    <3>2. age[u] = Elapsed(last[u], k.tick)
      BY <3>1 DEF Keeping
    <3>3. Elapsed(last[u], (k.tick + n) % W) = Elapsed(last[u], k.tick) + n
      BY <1>1, <1>2, <2>2, <3>1, <3>2, ElapsedOn
    <3> QED
      BY <1>3, <3>1, <3>2, <3>3
  <2> QED
    BY <2>1, <2>2
<1>9. pc[u] \in Pausing =>
          /\ u \in Ready(k') => age'[u] >= Period[u]
          /\ u \in Delayed(k') /\ age'[u] < W => age'[u] + LeftOf(k', u) = Period[u]
          /\ u \in Owners(k'.bwait) => age'[u] = W
  <2> SUFFICES ASSUME pc[u] \in Pausing
               PROVE  /\ u \in Ready(k') => age'[u] >= Period[u]
                      /\ u \in Delayed(k') /\ age'[u] < W => age'[u] + LeftOf(k', u) = Period[u]
                      /\ u \in Owners(k'.bwait) => age'[u] = W
    OBVIOUS
  <2>1. /\ u \in Ready(k) => age[u] >= Period[u]
        /\ u \in Delayed(k) /\ age[u] < W => age[u] + LeftOf(k, u) = Period[u]
        /\ u \in Owners(k.bwait) => age[u] = W
    BY DEF Keeping
  <2>2. u \in Owners(k'.bwait) => age'[u] = W
    BY <1>3, <1>7, <2>1
  <2>3. u \in S => age[u] = W
    <3>1. u \notin Owners(k.mwait)
      BY <1>2, HolderDoesNotWait DEF Sound, Posts, Queueing, Pausing, Owners, Items
    <3> QED
      BY <1>1, <2>1, <3>1
  <2>4. ASSUME u \in Delayed(k'), age'[u] < W PROVE age'[u] + LeftOf(k', u) = Period[u]
    <3>1. u \in Delayed(k) /\ LeftOf(k, u) > n /\ u \notin S
      BY <1>4, <2>4
    <3>2. age'[u] = age[u] + n /\ age[u] < W
      BY <1>3, <1>7, <2>4
    <3>3. LeftOf(k', u) = LeftOf(k, u) - n
      BY <1>4, <3>1
    <3>4. age[u] + LeftOf(k, u) = Period[u]
      BY <2>1, <3>1, <3>2
    <3> QED
      BY <1>1, <1>2, <1>5, <3>2, <3>3, <3>4
  <2>5. ASSUME u \in Ready(k') PROVE age'[u] >= Period[u]
    <3>1. CASE age[u] = W \/ age[u] + n >= W
      BY <1>2, <1>3, <1>7, <3>1
    <3>2. CASE u \in Ready(k)
      BY <1>2, <1>3, <1>7, <2>1, <3>2
    <3>3. CASE u \in Delayed(k) /\ age[u] # W /\ age[u] + n < W
      <4>1. ~(LeftOf(k, u) > n)
        BY <1>1, <1>4, <1>5, <1>6, <2>3, <2>5, <3>3
      <4>2. age[u] + LeftOf(k, u) = Period[u]
        BY <1>2, <2>1, <3>3
      <4>3. age'[u] = age[u] + n
        BY <1>3, <1>7, <3>3
      <4> QED
        BY <1>1, <1>2, <1>5, <4>1, <4>2, <4>3
    <3> QED
      BY <1>1, <1>2, <1>6, <3>1, <3>2, <3>3
  <2> QED
    BY <2>2, <2>4, <2>5
<1>10. pc[u] \in {"boot", "waited"} => age'[u] = W
  BY <1>3, <1>7 DEF Keeping
<1> QED
  BY <1>3, <1>8, <1>9, <1>10 DEF Keeping

(* A task whose age no longer counts. *)
LEMMA FullAge ==
    ASSUME Sound', NEW t \in Until, age'[t] = W, pc'[t] \in {"waited", "cycle"}
    PROVE  Keeping(t)'
<1>1. Period[t] \in 1 .. W - 1 /\ W \in Nat
  BY Kinds, WidthIs DEF Naps, Width
<1> QED
  BY <1>1 DEF Keeping, Working, Taking, Pausing

(* A task at work that goes on without sleeping. *)
LEMMA StillWorking ==
    ASSUME Sound, NEW t \in Until, Keeping(t), pc[t] \in Working, pc'[t] \in Working,
           last'[t] = last[t], age'[t] = age[t], k'.tick = k.tick,
           t \in Delayed(k') => t \in Owners(k'.mwait)
    PROVE  Keeping(t)'
BY DEF Keeping, Working, Taking, Pausing

LEMMA AwakeAfter ==
    ASSUME Sound, Sound', NEW t \in Worker, t \in Ready(k), NEW S, NEW n, Passing(t, S, {}, n)
    PROVE  t \in Ready(k') /\ t \notin Delayed(k') /\ t \notin Owners(k'.mwait) \cup Owners(k'.bwait)
<1>1. t \in Ready(k')
  BY StaysReady
<1> QED
  BY <1>1, ReadyOrAsleepThen

LEMMA WaitBitsKeeping ==
    ASSUME Sound, Sound', Kept, NEW t \in Until, NEW n, WaitBits(t, n)
    PROVE  Keeping(t)'
<1>1. t \in Worker /\ t \in Tasks /\ age[t] \in 0 .. W /\ W \in Nat
  BY UntilTypes
<1>2. pc[t] = "boot" /\ Later(n) /\ n \in Nat /\ pc'[t] \in {"waited", "cycle"}
  BY <1>1, WaitBitsTurn, PlaceIs, Kinds
<1>3. age[t] = W
  BY <1>2 DEF Kept, Keeping
<1>4. age'[t] = W
  BY <1>1, <1>2, <1>3, GrownAge DEF Later
<1> QED
  BY <1>2, <1>4, FullAge

LEMMA PortYieldKeeping ==
    ASSUME Sound, Sound', Kept, NEW t \in Until, PortYield(t)
    PROVE  Keeping(t)'
<1>1. t \in Worker /\ t \in Tasks
  BY UntilTypes
<1>2. /\ UNCHANGED <<last, age>> /\ Still(k', k) /\ k'.parked = k.parked /\ Keeping(t)
      /\ Steady(k) /\ Steady(k')
  BY <1>1, PortYieldTurn DEF Kept, Sound
<1>3. /\ Delayed(k') = Delayed(k) /\ Ready(k') = Ready(k) /\ k'.mwait = k.mwait
      /\ k'.bwait = k.bwait /\ k'.tick = k.tick /\ Asleep(k') = Asleep(k)
  BY <1>2, StillFacts DEF Still
<1>4. LeftOf(k', t) = LeftOf(k, t)
  BY <1>3 DEF LeftOf
<1>5. CASE pc[t] = "waited" /\ Go(t, "cycle")
  <2>1. pc'[t] = "cycle" /\ age'[t] = W
    BY <1>1, <1>2, <1>5, PlaceIs DEF Keeping
  <2> QED
    BY <2>1, FullAge
<1>6. CASE pc[t] = "blocked" /\ Go(t, "take")
  <2>1. pc'[t] = "take" /\ pc[t] \in Working /\ pc'[t] \in Working
    BY <1>1, <1>6, PlaceIs DEF Working, Taking
  <2>2. t \in Delayed(k') => t \in Owners(k'.mwait)
    BY <1>2, <1>3, <2>1 DEF Keeping
  <2> QED
    BY <1>2, <1>3, <2>1, <2>2, StillWorking
<1>7. CASE pc[t] = "slept" /\ Go(t, "cycle")
  <2>1. pc'[t] = "cycle"
    BY <1>1, <1>7, PlaceIs
  <2>2. /\ t \in Ready(k') => age'[t] >= Period[t]
        /\ t \in Delayed(k') /\ age'[t] < W => age'[t] + LeftOf(k', t) = Period[t]
        /\ t \in Owners(k'.bwait) => age'[t] = W
    BY <1>2, <1>3, <1>4, <1>7 DEF Keeping, Pausing
  <2> QED
    BY <2>1, <2>2 DEF Keeping, Pausing, Working, Taking
<1>8. pc[t] \notin {"stopped", "began"}
  BY <1>2 DEF Keeping, Working, Taking, Pausing
<1> QED
  BY <1>1, <1>5, <1>6, <1>7, <1>8, PortYieldTurn

LEMMA CycleKeeping ==
    ASSUME Sound, Sound', Kept, NEW t \in Until, Cycle(t)
    PROVE  Keeping(t)'
<1>1. t \in Worker /\ t \in Tasks /\ k.tick \in TickType /\ W \in Nat
  BY UntilTypes
<1>2. /\ pc'[t] \in {"sleep", "take"} /\ last'[t] = k.tick /\ age'[t] = 0 /\ k' = k
      /\ t \in Ready(k) /\ Passing(t, {}, {}, 0)
  <2>1. Go(t, "sleep") \/ Go(t, "take")
    BY DEF Cycle
  <2>2. pc'[t] \in {"sleep", "take"}
    BY <1>1, <2>1, PlaceIs
  <2>3. last'[t] = k.tick /\ age'[t] = 0 /\ k' = k
    BY <1>1, PutIs DEF Cycle
  <2> QED
    BY <1>1, <2>2, <2>3, CycleTurn
<1>3. t \notin Delayed(k')
  BY <1>1, <1>2, AwakeAfter
<1>4. Elapsed(k.tick, k.tick) = 0
  <2>1. k.tick \in Int
    BY <1>1, WidthIs DEF Width
  <2> QED
    BY <1>1, <2>1, ElapsedIsDifference
<1> QED
  BY <1>2, <1>3, <1>4 DEF Keeping, Working, Taking, Pausing

LEMMA TakeKeeping ==
    ASSUME Sound, Sound', Kept, NEW t \in Until, Take(t)
    PROVE  Keeping(t)'
<1>1. t \in Worker /\ t \in Tasks
  BY UntilTypes
<1>2. pc[t] = "take" /\ t \in Ready(k) /\ Passing(t, {}, {}, 0) /\ UNCHANGED <<last, age>>
  BY <1>1, TakeTurn DEF Take
<1>3. Go(t, "logging") \/ Go(t, "suspend") \/ UNCHANGED pc
  BY DEF Take, Returns
<1>4. pc'[t] \in Working /\ pc[t] \in Working
  BY <1>1, <1>2, <1>3, PlaceIs DEF Working, Taking
<1>5. k'.tick = k.tick
  BY <1>1, Kinds, MarkedStill DEF Take, Still
<1> QED
  BY <1>1, <1>2, <1>4, <1>5, AwakeAfter, StillWorking DEF Kept

LEMMA ExpiredKeeping ==
    ASSUME Sound, Sound', Kept, NEW t \in Until, Expired(t)
    PROVE  Keeping(t)'
<1>1. t \in Worker /\ t \in Tasks
  BY UntilTypes
<1>2. pc[t] = "expired" /\ t \in Ready(k) /\ Passing(t, {}, {}, 0) /\ UNCHANGED <<last, age>>
  BY <1>1, ExpiredTurn DEF Expired
<1>3. Go(t, "logging") \/ Go(t, "take") \/ Go(t, "giveup")
  BY DEF Expired, Returns
<1>4. pc'[t] \in Working /\ pc[t] \in Working
  BY <1>1, <1>2, <1>3, PlaceIs DEF Working, Taking
<1>5. k'.tick = k.tick
  BY <1>1, Kinds, MarkedStill DEF Expired, Still
<1> QED
  BY <1>1, <1>2, <1>4, <1>5, AwakeAfter, StillWorking DEF Kept

LEMMA GiveUpKeeping ==
    ASSUME Sound, Sound', Kept, NEW t \in Until, GiveUp(t)
    PROVE  Keeping(t)'
<1>1. t \in Worker /\ t \in Tasks
  BY UntilTypes
<1>2. /\ pc[t] = "giveup" /\ t \in Ready(k) /\ Passing(t, {}, {}, 0) /\ UNCHANGED <<last, age>>
      /\ Go(t, "logging") /\ k'.tick = k.tick
  BY <1>1, GiveUpTurn, GiveUpDoes DEF GiveUp, Returns, Still
<1>3. pc'[t] \in Working /\ pc[t] \in Working
  BY <1>1, <1>2, PlaceIs DEF Working, Taking
<1> QED
  BY <1>1, <1>2, <1>3, AwakeAfter, StillWorking DEF Kept

LEMMA GiveKeeping ==
    ASSUME Sound, Sound', Kept, NEW t \in Until, Give(t)
    PROVE  Keeping(t)'
<1>1. t \in Worker /\ t \in Tasks
  BY UntilTypes
<1>2. /\ pc[t] = "logging" /\ t \in Ready(k) /\ UNCHANGED <<last, age>>
      /\ Go(t, "sleep") \/ UNCHANGED pc
      /\ \E S : Passing(t, S, {}, 0)
  BY <1>1, GiveTurn
<1>3. pc'[t] \in Working /\ pc[t] \in Working
  BY <1>1, <1>2, PlaceIs DEF Working, Taking
<1>4. k'.tick = k.tick
  BY <1>1, GiveDoes DEF Released
<1> QED
  BY <1>1, <1>2, <1>3, <1>4, AwakeAfter, StillWorking DEF Kept

LEMMA BlockKeeping ==
    ASSUME Sound, Sound', Kept, NEW t \in Until, NEW n, Block(t, n)
    PROVE  Keeping(t)'
<1>1. /\ t \in Worker /\ t \in Tasks /\ age[t] \in 0 .. W /\ last[t] \in TickType
      /\ k.tick \in TickType /\ W \in Nat
  BY UntilTypes
<1>2. pc[t] = "suspend" /\ Later(n) /\ n \in 0 .. MaxPended /\ t \in Ready(k) /\ UNCHANGED last
  BY <1>1, BlockTurn
<1>3. n \in Nat /\ Keeping(t)
  BY <1>2, Kinds DEF Kept
<1>4. pc'[t] \in Working /\ pc[t] \in Working
  <2>1. Go(t, "expired") \/ Go(t, "take") \/ Go(t, "blocked")
    BY <1>1, BlockTurn
  <2> QED
    BY <1>1, <1>2, <2>1, PlaceIs DEF Working, Taking
<1>5. (\E D : Passing(t, {}, D, n)) /\ (t \in Delayed(k') => t \in Owners(k'.mwait))
  <2>1. CASE Passing(t, {}, {}, n)
    BY <1>1, <1>2, <2>1, AwakeAfter
  <2>2. CASE /\ \E D : Passing(t, {}, D, n)
             /\ t \in Delayed(k') => t \in Owners(k'.mwait)
    BY <2>2
  <2> QED
    BY <1>1, <2>1, <2>2, BlockTurn
<1>6. k'.tick = (k.tick + n) % W
  BY <1>5 DEF Passing, Turn
<1>7. age'[t] = More(age[t], n, W)
  BY <1>2 DEF Later
<1>8. ASSUME age'[t] < W PROVE age'[t] = Elapsed(last'[t], k'.tick)
  <2>1. age[t] < W /\ age'[t] = age[t] + n
    BY <1>1, <1>3, <1>7, <1>8, GrownAge
  <2>2. age[t] = Elapsed(last[t], k.tick)
    BY <1>3, <1>4, <2>1 DEF Keeping
  <2>3. Elapsed(last[t], (k.tick + n) % W) = Elapsed(last[t], k.tick) + n
    BY <1>1, <1>3, <1>8, <2>1, <2>2, ElapsedOn
  <2> QED
    BY <1>2, <1>6, <2>1, <2>2, <2>3
<1> QED
  BY <1>4, <1>5, <1>8 DEF Keeping, Working, Taking, Pausing

LEMMA SleepKeeping ==
    ASSUME Sound, Sound', Kept, NEW t \in Until, NEW n, Sleep(t, n)
    PROVE  Keeping(t)'
<1>1. /\ t \in Worker /\ t \in Tasks /\ t \in Task /\ age[t] \in 0 .. W /\ last[t] \in TickType
      /\ k.tick \in TickType /\ Period[t] \in TickType /\ Period[t] \in 1 .. W - 1 /\ W \in Nat
  BY UntilTypes
<1>2. /\ n \in 0 .. MaxPended /\ Later(n) /\ pc[t] = "sleep" /\ t \in Ready(k)
      /\ pc'[t] \in {"cycle", "slept"}
  BY <1>1, SleepTurn, PlaceIs, Kinds
<1>3. /\ n \in Nat /\ Keeping(t) /\ age'[t] = More(age[t], n, W)
      /\ Steady(k) /\ Steady(k')
  BY <1>2, Kinds DEF Kept, Later, Sound
<1>4. /\ age[t] = W => More(age[t], n, W) = W
      /\ age[t] + n < W => More(age[t], n, W) = age[t] + n
      /\ age[t] + n >= W => More(age[t], n, W) = W
      /\ More(age[t], n, W) >= age[t] /\ More(age[t], n, W) \in 0 .. W
  BY <1>1, <1>3, GrownAge
<1>5. t \notin Owners(k'.bwait)
  <2>1. t \notin Owners(k.bwait)
    BY <1>1, <1>2, ReadyOrAsleep
  <2>2. \A x \in Items(k'.bwait) : x \in Items(k.bwait)
    BY <1>1, SleepDoes DEF Onward, Slumbers
  <2>3. Owners(k.bwait) = OwnersOf(Items(k.bwait)) /\ Owners(k'.bwait) = OwnersOf(Items(k'.bwait))
    BY <1>3, OwnersAre
  <2> QED
    BY <2>1, <2>2, <2>3 DEF OwnersOf
<1>6. /\ t \in Ready(k') => age'[t] >= Period[t]
      /\ t \in Delayed(k') /\ age'[t] < W => age'[t] + LeftOf(k', t) = Period[t]
  <2>1. CASE age[t] = W
    BY <1>1, <1>3, <1>4, <2>1
  <2>2. CASE age[t] # W
    <3>1. age[t] < W /\ age[t] = Elapsed(last[t], k.tick)
      BY <1>1, <1>2, <1>3, <2>2 DEF Keeping, Working, Taking
    <3>2. /\ ShouldDelay(k.tick, last[t], Period[t]) <=> age[t] < Period[t]
          /\ ShouldDelay(k.tick, last[t], Period[t]) => Nap(t) = Period[t] - age[t]
      BY <1>1, <3>1, AgeDecides DEF Nap
    <3>3. CASE ~ShouldDelay(k.tick, last[t], Period[t])
      <4>1. Passing(t, {}, {}, n)
        BY <1>1, <3>3, SleepTurn
      <4>2. t \notin Delayed(k')
        BY <1>1, <1>2, <4>1, AwakeAfter
      <4> QED
        BY <1>1, <1>3, <1>4, <3>2, <3>3, <4>2
    <3>4. CASE ShouldDelay(k.tick, last[t], Period[t])
      <4>1. Nap(t) \in Naps /\ Passing(t, {}, {Item(t, TimeToWake(k.tick, Nap(t)))}, n)
        BY <1>1, <3>4, SleepTurn
      <4>2. PICK m \in Naps : m = Nap(t)
        BY <4>1
      <4>3. /\ m > n => LeftOf(k', t) = m - n
            /\ t \in Delayed(k') => m > n
        BY <1>2, <1>3, <4>1, <4>2, DozerLater DEF Passing
      <4>4. m = Period[t] - age[t]
        BY <3>2, <3>4, <4>2
      <4>5. /\ t \in Delayed(k') <=> LeftOf(k', t) > 0
            /\ t \in Ready(k') <=> t \notin Delayed(k')
        BY <1>1, <1>3, TicksLeft, ReadyOrAsleepThen
      <4>6. ASSUME t \in Delayed(k') PROVE age'[t] + LeftOf(k', t) = Period[t]
        <5>1. m > n /\ LeftOf(k', t) = m - n
          BY <4>3, <4>6
        <5>2. age[t] + n < W
          BY <1>1, <1>3, <4>4, <5>1
        <5> QED
          BY <1>1, <1>3, <1>4, <4>4, <5>1, <5>2
      <4>7. ASSUME t \in Ready(k') PROVE age'[t] >= Period[t]
        <5>1. ~(m > n)
          <6> SUFFICES ASSUME m > n PROVE FALSE
            OBVIOUS
          <6>1. LeftOf(k', t) = m - n
            BY <4>3
          <6>2. m \in Int
            BY WidthIs DEF Naps, Width
          <6> QED
            BY <1>3, <4>5, <4>7, <6>1, <6>2
        <5>2. age[t] + n >= Period[t]
          BY <1>1, <1>3, <4>4, <5>1
        <5> QED
          BY <1>1, <1>3, <1>4, <5>2
      <4> QED
        BY <4>6, <4>7
    <3> QED
      BY <3>3, <3>4
  <2> QED
    BY <2>1, <2>2
<1> QED
  BY <1>2, <1>5, <1>6 DEF Keeping, Working, Taking, Pausing

LEMMA KeptByStep ==
    ASSUME Sound, Sound', Kept, NEW t, NEW S, NEW D, NEW n, Passing(t, S, D, n),
           t \in Until => Keeping(t)'
    PROVE  Kept'
<1>1. ASSUME NEW u \in Until PROVE Keeping(u)'
  <2>1. CASE u = t
    BY <2>1
  <2>2. CASE u # t
    BY <2>2, KeepingOfOthers DEF Kept
  <2> QED
    BY <2>1, <2>2
<1> QED
  BY <1>1 DEF Kept

LEMMA KeptNext ==
    ASSUME Sound, Sound', [Next]_vars, Kept
    PROVE  Kept'
<1>1. ASSUME NEW t \in Worker, NEW n, WaitBits(t, n) PROVE Kept'
  BY <1>1, WaitBitsTurn, WaitBitsKeeping, KeptByStep
<1>2. ASSUME NEW t \in Worker, NEW n, Sleep(t, n) PROVE Kept'
  <2>1. PICK D : Passing(t, {}, D, n)
    BY <1>2, SleepTurn
  <2> QED
    BY <1>2, <2>1, SleepKeeping, KeptByStep
<1>3. ASSUME NEW t \in Worker, NEW n, Block(t, n) PROVE Kept'
  <2>1. PICK D : Passing(t, {}, D, n)
    BY <1>3, BlockTurn
  <2> QED
    BY <1>3, <2>1, BlockKeeping, KeptByStep
<1>4. ASSUME NEW t \in Tasks, PortYield(t) PROVE Kept'
  <2>1. Passing(t, {}, {}, 0)
    BY <1>4, PortYieldTurn
  <2> QED
    BY <1>4, <2>1, PortYieldKeeping, KeptByStep
<1>5. ASSUME NEW t \in Worker, Cycle(t) PROVE Kept'
  BY <1>5, CycleTurn, CycleKeeping, KeptByStep
<1>6. ASSUME NEW t \in Worker, Take(t) PROVE Kept'
  BY <1>6, TakeTurn, TakeKeeping, KeptByStep
<1>7. ASSUME NEW t \in Worker, Expired(t) PROVE Kept'
  BY <1>7, ExpiredTurn, ExpiredKeeping, KeptByStep
<1>8. ASSUME NEW t \in Worker, GiveUp(t) PROVE Kept'
  BY <1>8, GiveUpTurn, GiveUpKeeping, KeptByStep
<1>9. ASSUME NEW t \in Worker, Give(t) PROVE Kept'
  <2>1. \E S : Passing(t, S, {}, 0)
    BY <1>9, GiveTurn
  <2> QED
    BY <1>9, <2>1, GiveKeeping, KeptByStep
<1>10. ASSUME NEW n, InitDevices(n) PROVE Kept'
  BY <1>10, InitDevicesTurn, Kinds, KeptByStep
<1>11. ASSUME NEW n, SetBits(n) PROVE Kept'
  <2>1. PICK S : S = Owners(k.bwait)
    OBVIOUS
  <2>2. Passing(Starter, S, {}, n) /\ Starter \notin Until
    BY <1>11, <2>1, SetBitsTurn, Kinds
  <2> QED
    BY <2>2, KeptByStep
<1>12. ASSUME Suspend PROVE Kept'
  BY <1>12, SuspendTurn, Kinds, KeptByStep
<1>13. ASSUME Tick PROVE Kept'
  BY <1>13, TickTurn, Kinds, KeptByStep
<1>14. ASSUME UNCHANGED vars PROVE Kept'
  BY <1>14, StutterTurn, Kinds, KeptByStep
<1> QED
  BY <1>1, <1>2, <1>3, <1>4, <1>5, <1>6, <1>7, <1>8, <1>9, <1>10, <1>11, <1>12, <1>13, <1>14,
     Kinds DEF Next, Step, Hang

LEMMA KeptInit == Init => Kept
<1> SUFFICES ASSUME Init, NEW u \in Until PROVE Keeping(u)
  BY DEF Kept
<1>1. age[u] = W /\ pc[u] = "boot"
  BY Kinds DEF Init
<1> QED
  BY <1>1 DEF Keeping, Working, Taking, Pausing

(* Who begins a cycle, or sleeps to its end, keeps its period. *)
LEMMA KeptIsPunctual ==
    ASSUME Sound, Kept
    PROVE  Punctual
<1> SUFFICES ASSUME NEW t \in Until
             PROVE  /\ At(t, "cycle") /\ t \in Ready(k) => age[t] >= Period[t]
                    /\ t \in Delayed(k) \ (Owners(k.mwait) \cup Owners(k.bwait)) /\ age[t] < W
                          => age[t] + Left(t) = Period[t]
  BY DEF Punctual
<1>1. Keeping(t) /\ Left(t) = LeftOf(k, t) /\ age[t] \in 0 .. W
  BY LeftIs, UntilTypes DEF Kept
<1>2. At(t, "cycle") /\ t \in Ready(k) => age[t] >= Period[t]
  BY <1>1 DEF At, Keeping, Pausing
<1>3. ASSUME t \in Delayed(k) \ (Owners(k.mwait) \cup Owners(k.bwait)), age[t] < W
      PROVE  age[t] + Left(t) = Period[t]
  <2>1. pc[t] \in Pausing
    BY <1>1, <1>3, WidthIs DEF Width, Keeping
  <2> QED
    BY <1>1, <1>3, <2>1 DEF Keeping
<1> QED
  BY <1>2, <1>3

(***************************************************************************)
(* A task with vTaskDelayUntil begins its cycle no sooner than one period  *)
(* after it began the last one, and sleeps until just then when it sleeps, *)
(* wherever the tick counter wraps in between.                             *)
(***************************************************************************)
THEOREM PeriodsAreKept == Spec => []Punctual
<1>1. Sound /\ Sound' /\ [Next]_vars /\ Kept => Kept'
  BY KeptNext
<1>2. Sound /\ Kept => Punctual
  BY KeptIsPunctual
<1> QED
  BY <1>1, <1>2, KeptInit, SoundHolds, PTL DEF Spec

-----------------------------------------------------------------------------
(***************************************************************************)
(* The highest priority runs.  Fair says it of the scheduler between two   *)
(* steps; while the scheduler is locked, either nothing has changed what   *)
(* should run, or a yield is owed and xTaskResumeAll pays it.              *)
(***************************************************************************)
Fair(s) == s.cur \in Ready(s) => Highest(s)
Owed(s) == s.yield \/ (s.pended = 0 /\ Fair(s))

(* Nobody who sleeps is due. *)
LEMMA NobodyDue ==
    ASSUME NEW s \in SchedState, Filing(s), Clock(s)
    PROVE  \A x \in Asleep(s) : Elapsed(s.tick, x.value) > 0
<1> SUFFICES ASSUME NEW x \in Asleep(s) PROVE Elapsed(s.tick, x.value) > 0
  OBVIOUS
<1>1. W \in Nat /\ W > 1 /\ TickType = 0 .. W - 1 /\ s.tick \in TickType /\ x.value \in Nat
  BY WidthIs, StateFields, AsleepOwners DEF Width
<1>2. x.value \in TickType /\ x.value # s.tick
  BY <1>1 DEF Clock, Asleep
<1>3. Elapsed(s.tick, x.value) = IF s.tick <= x.value THEN x.value - s.tick
                                                      ELSE x.value - s.tick + W
  BY <1>1, <1>2, ElapsedIsDifference
<1> QED
  BY <1>1, <1>2, <1>3

LEMMA FairResumed ==
    ASSUME NEW s \in SchedState, Filing(s), Clock(s), Owed(s), NEW r, r = ResumeAll(s)
    PROVE  Fair(r)
<1>1. /\ Passed(r, s, s.pended)
      /\ s.yield => Highest(r)
      /\ ~s.yield => r.cur = s.cur
  BY Resumed
<1>2. CASE s.yield
  BY <1>1, <1>2 DEF Fair
<1>3. CASE ~s.yield
  <2>1. Passed(r, s, 0) /\ Fair(s) /\ r.cur = s.cur
    BY <1>1, <1>3 DEF Owed
  <2>2. Filing(r) /\ r \in SchedState
    BY <2>1 DEF Passed, Filing, Placed
  <2>3. Delayed(s) \subseteq Delayed(r)
    <3>1. Delayed(s) = OwnersOf(Asleep(s)) /\ Delayed(r) = OwnersOf(Asleep(r))
      BY <2>2, AsleepOwners
    <3>2. Asleep(s) \subseteq Asleep(r)
      BY <2>1, NobodyDue DEF Passed
    <3> QED
      BY <3>1, <3>2 DEF OwnersOf
  <2>4. Ready(r) = Ready(s) /\ r.prio = s.prio
    BY <2>1, <2>3 DEF Passed
  <2> QED
    BY <2>1, <2>4 DEF Fair, Highest
<1> QED
  BY <1>2, <1>3, StateFields

(* What a call finds when it has locked the scheduler. *)
LEMMA FairFrozen ==
    ASSUME NEW q, Steady(q), Fair(q), NEW n \in Nat, NEW s, Frozen(s, q, n)
    PROVE  /\ s \in SchedState /\ Filing(s) /\ Clock(s) /\ Placed(s) /\ Owed(s)
           /\ Ready(s) = Ready(q) /\ s.cur = q.cur /\ s.prio = q.prio
<1>1. q \in SchedState /\ Filing(q) /\ Clock(q) /\ Placed(q) /\ q.pended = 0
  BY SteadyState DEF Steady
<1>2. Filing(s) /\ Clock(s) /\ Placed(s) /\ Ready(s) = Ready(q)
  BY <1>1, FrozenFiling
<1>3. s \in SchedState /\ s.cur = q.cur /\ s.prio = q.prio /\ s.pended = q.pended + n
      /\ (n > 0 => s.yield)
  BY DEF Frozen
<1>4. Fair(s)
  BY <1>2, <1>3 DEF Fair, Highest
<1>5. CASE n = 0
  BY <1>1, <1>2, <1>3, <1>4, <1>5 DEF Owed
<1>6. CASE n > 0
  BY <1>2, <1>3, <1>6 DEF Owed
<1> QED
  BY <1>5, <1>6

LEMMA FairTicks ==
    ASSUME NEW q, Steady(q), Fair(q), NEW n \in Nat, NEW s, Frozen(s, q, n), NEW r, r = ResumeAll(s)
    PROVE  Fair(r)
BY FairFrozen, FairResumed

(* The caller has fallen asleep, for ticks, for the bit or for the mutex. *)
LEMMA FairDozed ==
    ASSUME NEW s, Owed(s), NEW d, NEW n, Dozed(d, s, n), Filing(d), Clock(d), NEW r, r = ResumeAll(d)
    PROVE  Fair(r)
<1>1. d \in SchedState
  BY DEF Filing, Placed
<1>2. Owed(d)
  BY DEF Dozed, Owed, Fair
<1> QED
  BY <1>1, <1>2, FairResumed

LEMMA FairAsleep ==
    ASSUME NEW q, Steady(q), Fair(q), q.cur \in Ready(q), q.cur # Idle, NEW n \in Nat,
           NEW m \in Naps, NEW s, Frozen(s, q, n), NEW d, d = FallAsleep(s, m),
           NEW r, r = ResumeAll(d)
    PROVE  Fair(r)
<1>1. /\ s \in SchedState /\ Filing(s) /\ Clock(s) /\ Placed(s) /\ Owed(s)
      /\ s.cur \in Ready(s) /\ s.cur # Idle
  BY FairFrozen
<1>2. PICK forever \in BOOLEAN : forever = FALSE
  OBVIOUS
<1>3. d = AddToDelayed(s, m, forever)
  BY <1>2 DEF FallAsleep
<1>4. Placed(d) /\ Clock(d) /\ SameWaits(d, s) /\ Dozed(d, s, m)
  BY <1>1, <1>2, <1>3, FellAsleep
<1>5. Filing(d)
  <2>1. Waiters(s) /\ Delayed(s) \subseteq Delayed(d)
    BY <1>1, <1>4 DEF Filing, Dozed
  <2>2. Waiters(d)
    BY <1>4, <2>1 DEF Waiters, SameWaits
  <2> QED
    BY <1>4, <2>2 DEF Filing
<1> QED
  BY <1>1, <1>4, <1>5, FairDozed

LEMMA FairForBit ==
    ASSUME NEW q, Steady(q), Fair(q), q.cur \in Ready(q), q.cur # Idle, NEW n \in Nat,
           NEW m \in Naps, m # MaxDelay, NEW s, Frozen(s, q, n),
           NEW d, d = PlaceOnUnorderedEventList(s, m), NEW r, r = ResumeAll(d)
    PROVE  Fair(r)
<1>1. /\ s \in SchedState /\ Filing(s) /\ Clock(s) /\ Owed(s)
      /\ s.cur \in Ready(s) /\ s.cur # Idle
  BY FairFrozen
<1>2. Filing(d) /\ Clock(d) /\ Dozed(d, s, m)
  BY <1>1, PlacedOnUnorderedEventList
<1> QED
  BY <1>1, <1>2, FairDozed

LEMMA FairForMutex ==
    ASSUME NEW q, Steady(q), Fair(q), q.cur \in Ready(q), q.cur # Idle, NEW n \in Nat,
           NEW m \in Naps, m # MaxDelay, NEW s, Frozen(s, q, n),
           NEW d, d = PlaceOnEventList(s, m), NEW r, r = ResumeAll(d)
    PROVE  Fair(r)
<1>1. /\ s \in SchedState /\ Filing(s) /\ Clock(s) /\ Owed(s)
      /\ s.cur \in Ready(s) /\ s.cur # Idle
  BY FairFrozen
<1>2. Filing(d) /\ Clock(d) /\ Dozed(d, s, m)
  BY <1>1, PlacedOnEventList
<1> QED
  BY <1>1, <1>2, FairDozed

(* Those who wait for the bit are woken. *)
LEMMA FairWoken ==
    ASSUME NEW q, Steady(q), Fair(q), q.cur \in Ready(q), NEW n \in Nat, NEW s, Frozen(s, q, n),
           NEW r, r = ResumeAll(RemoveAllFromUnorderedEventList(s))
    PROVE  Fair(r)
<1>1. s \in SchedState /\ Filing(s) /\ Clock(s) /\ Owed(s) /\ s.cur \in Ready(s)
  BY FairFrozen
<1>2. PICK d : d = RemoveAllFromUnorderedEventList(s)
  OBVIOUS
<1>3. /\ Filing(d) /\ Woken(d, s, Owners(s.bwait)) /\ SameClock(d, s)
      /\ d.cur = s.cur /\ d.prio = s.prio
      /\ s.yield => d.yield
      /\ \A t \in Owners(s.bwait) : s.prio[t] > s.prio[s.cur] => d.yield
  BY <1>1, <1>2, RemovedAllFromUnorderedEventList
<1>4. d \in SchedState
  BY <1>3 DEF Filing, Placed
<1>5. Clock(d)
  <2>1. /\ \A x \in Items(d.delayed) : x \in Items(s.delayed)
        /\ \A x \in Items(d.overflow) : x \in Items(s.overflow)
    BY <1>3 DEF Woken
  <2> QED
    BY <1>1, <1>3, <2>1 DEF Clock, SameClock
<1>6. Owed(d)
  <2>1. CASE d.yield
    BY <2>1 DEF Owed
  <2>2. CASE ~d.yield
    <3>1. s.pended = 0 /\ d.pended = 0 /\ Fair(s)
      BY <1>1, <1>3, <2>2 DEF Owed, SameClock
    <3>2. Ready(d) = Ready(s) \cup Owners(s.bwait)
      BY <1>3 DEF Woken
    <3>3. Owners(s.bwait) \subseteq Task /\ Owners(s.bwait) \cap Ready(s) = {}
      BY <1>1, WaiterIsAsleep
    <3>4. /\ \A t \in Task : s.prio[t] \in Nat
          /\ s.cur \in Task
      BY <1>1, StateFields, Priorities
    <3>5. \A t \in Owners(s.bwait) : s.prio[t] <= s.prio[s.cur]
      BY <1>3, <2>2, <3>3, <3>4
    <3> QED
      BY <1>1, <1>3, <3>1, <3>2, <3>5 DEF Owed, Fair, Highest
  <2> QED
    BY <1>4, <2>1, <2>2, StateFields
<1>7. r = ResumeAll(d)
  BY <1>2
<1> QED
  BY <1>3, <1>4, <1>5, <1>6, <1>7, FairResumed

LEMMA FairStill ==
    ASSUME NEW q, Steady(q), Fair(q), NEW r, Still(r, q), r.parked = q.parked,
           r.prio = q.prio, r.cur = q.cur
    PROVE  Fair(r)
BY StillFacts DEF Fair, Highest

(* A call that makes its caller sleep or wakes another, a tick, a yield:    *)
(* the priorities are as they were and the highest runs.                   *)
Evenly == Fair(k') /\ k'.prio = k.prio

LEMMA RunnerIs ==
    ASSUME Sound, NEW t \in Tasks, NEW l, At(t, l), l \notin Resting, NEW n, Ticking(n)
    PROVE  /\ Steady(k) /\ k.cur \in Ready(k) /\ k.cur # Idle /\ n \in Nat /\ k.cur = t
           /\ Frozen(Suspended(n), k, n)
<1>1. /\ Steady(k) /\ k \in SchedState /\ k.cur \in Ready(k) /\ k.cur # Idle /\ k.cur = t
  BY RunnerIsReady
<1>2. n \in Nat
  BY TickingIs
<1> QED
  BY <1>1, <1>2, SuspendedIs

LEMMA WaitBitsEvenly ==
    ASSUME Sound, Fair(k), NEW t, NEW n, WaitBits(t, n)
    PROVE  Evenly
<1>1. k'.prio = k.prio
  BY WaitBitsDoes DEF Onward, AwaitsBit
<1>2. At(t, "boot") /\ t \in Tasks /\ Ticking(n) /\ "boot" \notin Resting
  BY Kinds DEF WaitBits, Resting
<1>3. PICK s : s = Suspended(n)
  OBVIOUS
<1>4. Steady(k) /\ k.cur \in Ready(k) /\ k.cur # Idle /\ n \in Nat /\ Frozen(s, k, n)
  BY <1>2, <1>3, RunnerIs
<1>5. PICK m, d : /\ m \in Naps /\ m # MaxDelay /\ m = BitTicks[t]
                  /\ d = PlaceOnUnorderedEventList(s, m)
  BY Kinds DEF WaitBits
<1>6. PICK r : r = k'
  OBVIOUS
<1>7. r = ResumeAll(s) \/ r = ResumeAll(d)
  BY <1>3, <1>5, <1>6 DEF WaitBits, ResumeThen
<1>8. Fair(r)
  BY <1>4, <1>5, <1>7, FairTicks, FairForBit
<1> QED
  BY <1>1, <1>6, <1>8 DEF Evenly

LEMMA InitDevicesEvenly ==
    ASSUME Sound, Fair(k), NEW n, InitDevices(n)
    PROVE  Evenly
<1>1. k'.prio = k.prio
  BY InitDevicesDoes DEF Onward, Slumbers
<1>2. At(Starter, "devices") /\ Starter \in Tasks /\ Ticking(n) /\ "devices" \notin Resting
  BY Kinds DEF InitDevices, Resting
<1>3. PICK s : s = Suspended(n)
  OBVIOUS
<1>4. Steady(k) /\ k.cur \in Ready(k) /\ k.cur # Idle /\ n \in Nat /\ Frozen(s, k, n)
  BY <1>2, <1>3, RunnerIs
<1>5. PICK m \in Naps : m = Period[Starter]
  BY Kinds
<1>6. PICK r : r = k'
  OBVIOUS
<1>7. r = ResumeAll(FallAsleep(s, m))
  BY <1>3, <1>5, <1>6 DEF InitDevices, ResumeThen, FallAsleep
<1>8. Fair(r)
  BY <1>4, <1>7, FairAsleep
<1> QED
  BY <1>1, <1>6, <1>8 DEF Evenly

LEMMA SetBitsEvenly ==
    ASSUME Sound, Fair(k), NEW n, SetBits(n)
    PROVE  Evenly
<1>1. k'.prio = k.prio
  BY SetBitsDoes DEF Onward
<1>2. At(Starter, "boot") /\ Starter \in Tasks /\ Ticking(n) /\ "boot" \notin Resting
  BY Kinds DEF SetBits, Resting
<1>3. PICK s : s = Suspended(n)
  OBVIOUS
<1>4. Steady(k) /\ k.cur \in Ready(k) /\ n \in Nat /\ Frozen(s, k, n)
  BY <1>2, <1>3, RunnerIs
<1>5. PICK r : r = k'
  OBVIOUS
<1>6. r = ResumeAll(RemoveAllFromUnorderedEventList(s))
  BY <1>3, <1>5 DEF SetBits
<1>7. Fair(r)
  BY <1>4, <1>6, FairWoken
<1> QED
  BY <1>1, <1>5, <1>7 DEF Evenly

LEMMA SleepEvenly ==
    ASSUME Sound, Fair(k), NEW t \in Worker, NEW n, Sleep(t, n)
    PROVE  Evenly
<1>1. /\ k'.prio = k.prio
      /\ (t \in Until => ShouldDelay(k.tick, last[t], Period[t])) => Nap(t) \in Naps
  BY SleepDoes DEF Onward, Slumbers
<1>2. At(t, "sleep") /\ t \in Tasks /\ Ticking(n) /\ "sleep" \notin Resting
  BY Kinds DEF Sleep, Resting
<1>3. PICK s : s = Suspended(n)
  OBVIOUS
<1>4. Steady(k) /\ k.cur \in Ready(k) /\ k.cur # Idle /\ n \in Nat /\ Frozen(s, k, n)
  BY <1>2, <1>3, RunnerIs
<1>5. PICK r : r = k'
  OBVIOUS
<1>6. s.tick = k.tick
  BY <1>4 DEF Frozen
<1>7. CASE t \in Until /\ ~ShouldDelay(k.tick, last[t], Period[t])
  <2>1. r = ResumeAll(s)
    BY <1>3, <1>5, <1>6, <1>7 DEF Sleep, ResumeThen
  <2>2. Fair(r)
    BY <1>4, <2>1, FairTicks
  <2> QED
    BY <1>1, <1>5, <2>2 DEF Evenly
<1>8. CASE t \in Until => ShouldDelay(k.tick, last[t], Period[t])
  <2>1. PICK m \in Naps : m = Nap(t)
    BY <1>1, <1>8
  <2>2. r = ResumeAll(FallAsleep(s, m))
    BY <1>3, <1>5, <1>6, <1>8, <2>1 DEF Sleep, ResumeThen, FallAsleep, Nap
  <2>3. Fair(r)
    BY <1>4, <2>2, FairAsleep
  <2> QED
    BY <1>1, <1>5, <2>3 DEF Evenly
<1> QED
  BY <1>7, <1>8

LEMMA PortYieldEvenly ==
    ASSUME Sound, NEW t, PortYield(t)
    PROVE  Evenly
<1>1. Filing(k) /\ Clock(k) /\ ~k.locked /\ k.pended = 0 /\ k \in SchedState
  BY SteadyState DEF Sound, Steady
<1>2. PICK r : r = k'
  OBVIOUS
<1>3. r = SwitchContext(k)
  BY <1>2 DEF PortYield
<1>4. r.prio = k.prio /\ Highest(r)
  BY <1>1, <1>3, SwitchedNow
<1> QED
  BY <1>2, <1>4 DEF Evenly, Fair

LEMMA SuspendEvenly ==
    ASSUME Sound, Fair(k), Suspend
    PROVE  Evenly
<1>1. /\ k.cur = Starter /\ Still(k', k) /\ k'.prio = k.prio /\ k'.cur = Starter
      /\ k'.parked = k.parked \cup {Starter} \/ k'.parked = k.parked
  BY SuspendDoes
<1>2. PICK r : r = k'
  OBVIOUS
<1>3. Steady(k) /\ Steady(r)
  BY <1>1, <1>2 DEF Sound, Still
<1>4. Fair(r)
  <2>1. CASE r.parked = k.parked
    BY <1>1, <1>2, <1>3, <2>1, FairStill
  <2>2. CASE r.parked = k.parked \cup {Starter}
    <3>1. r.cur \notin Ready(r)
      BY <1>1, <1>2, <1>3, <2>2, SteadyState
    <3> QED
      BY <3>1 DEF Fair
  <2> QED
    BY <1>1, <1>2, <2>1, <2>2
<1> QED
  BY <1>1, <1>2, <1>4 DEF Evenly

LEMMA TickEvenly ==
    ASSUME Sound, Tick
    PROVE  Evenly
<1>1. PICK r : r = k'
  OBVIOUS
<1>2. r = TickISR(k) /\ Steady(k)
  BY <1>1 DEF Tick, Sound
<1>3. Highest(r) /\ r.prio = k.prio
  BY <1>2, TickCame DEF Onward
<1> QED
  BY <1>1, <1>3 DEF Evenly, Fair

(* Only a mark of an overflow changes. *)
LEMMA MarkEvenly ==
    ASSUME Sound, Fair(k), NEW t \in Task,
           \/ k' = k \/ k' = [k EXCEPT !.stale = @ \cup {t}] \/ k' = [k EXCEPT !.stale = @ \ {t}]
    PROVE  Evenly
<1>1. Steady(k) /\ Still(k', k) /\ k'.parked = k.parked /\ k'.prio = k.prio /\ k'.cur = k.cur
  BY MarkedStill DEF Sound
<1>2. PICK r : r = k'
  OBVIOUS
<1>3. Fair(r)
  BY <1>1, <1>2, FairStill
<1> QED
  BY <1>1, <1>2, <1>3 DEF Evenly

LEMMA BlockFair ==
    ASSUME Sound, Fair(k), NEW t \in Worker, NEW n, Block(t, n)
    PROVE  Fair(k')
<1>1. At(t, "suspend") /\ t \in Tasks /\ Ticking(n) /\ "suspend" \notin Resting
  BY Kinds DEF Block, Resting
<1>2. PICK s : s = Suspended(n)
  OBVIOUS
<1>3. /\ Steady(k) /\ k.cur \in Ready(k) /\ k.cur # Idle /\ n \in Nat /\ k.cur = t
      /\ Frozen(s, k, n) /\ k \in SchedState
  BY <1>1, <1>2, RunnerIs, SteadyState
<1>4. PICK S \in SUBSET Task : S = k.stale \ {t}
  BY <1>3, StateFields
<1>5. PICK a : a = [s EXCEPT !.stale = S]
  OBVIOUS
<1>6. a = [s EXCEPT !.stale = @ \ {t}]
  <2>1. s \in SchedState /\ s.stale = k.stale
    BY <1>3 DEF Frozen
  <2> QED
    BY <1>4, <1>5, <2>1 DEF SchedState
<1>7. PICK b : b = [k EXCEPT !.stale = S]
  OBVIOUS
<1>8. Frozen(a, b, n)
  BY <1>3, <1>5, <1>7, FrozenStale
<1>9. /\ Still(b, k) /\ b.parked = k.parked /\ b.prio = k.prio /\ b.cur = k.cur
  BY <1>3, <1>7, StaleSet
<1>10. Ready(b) = Ready(k) /\ Steady(b) /\ b \in SchedState
  BY <1>3, <1>9, StillFacts
<1>11. Fair(b)
  BY <1>3, <1>9, FairStill
<1>12. PICK r : r = k'
  OBVIOUS
<1>13. \/ r = ResumeAll(s)
       \/ r = ResumeAll(a)
       \/ /\ holder # NULL /\ ~Over(t)
          /\ r = ResumeAll(PlaceOnEventList(PriorityInherit(a, holder), Rest(t)))
  BY <1>2, <1>6, <1>12 DEF Block, ResumeThen, Over
<1>14. CASE r = ResumeAll(s)
  BY <1>3, <1>12, <1>14, FairTicks
<1>15. CASE r = ResumeAll(a)
  BY <1>3, <1>8, <1>10, <1>11, <1>12, <1>15, FairTicks
<1>16. CASE /\ holder # NULL /\ ~Over(t)
            /\ r = ResumeAll(PlaceOnEventList(PriorityInherit(a, holder), Rest(t)))
  <2>1. PICK h \in Task : h = holder
    BY <1>16, Kinds DEF Sound, Locals
  <2>2. PICK c : c = PriorityInherit(a, holder)
    OBVIOUS
  <2>3. PICK q : /\ Frozen(c, q, n) /\ Still(q, b) /\ q.parked = b.parked /\ q.cur = b.cur
                 /\ q.prio = [b.prio EXCEPT ![h] = IF b.prio[h] < b.prio[b.cur]
                                                   THEN b.prio[b.cur] ELSE b.prio[h]]
    BY <1>8, <1>10, <2>1, <2>2, Inherited
  <2>4. Steady(q) /\ Ready(q) = Ready(b)
    BY <1>10, <2>3, StillFacts
  <2>5. Fair(q)
    <3>1. /\ b.prio \in [Task -> Priority] /\ Ready(b) \subseteq Task /\ b.cur \in Ready(b)
          /\ \A u \in Task : b.prio[u] \in Nat
      BY <1>3, <1>9, <1>10, StateFields, Priorities
    <3>2. /\ \A u \in Task \ {h} : q.prio[u] = b.prio[u]
          /\ q.prio[h] = IF b.prio[h] < b.prio[b.cur] THEN b.prio[b.cur] ELSE b.prio[h]
      BY <2>3, <3>1
    <3>3. \A u \in Ready(b) : b.prio[u] <= b.prio[b.cur]
      BY <1>11, <3>1 DEF Fair, Highest
    <3>4. \A u \in Ready(b) : q.prio[u] <= q.prio[b.cur]
      BY <3>1, <3>2, <3>3
    <3> QED
      BY <2>3, <2>4, <3>4 DEF Fair, Highest
  <2>6. PICK m : m = Rest(t)
    OBVIOUS
  <2>7. m \in Naps /\ m # MaxDelay
    BY <1>1, <1>3, <1>16, <2>6, RestIsLeft DEF Sound, Noted, At
  <2>8. q.cur \in Ready(q) /\ q.cur # Idle
    BY <1>3, <1>9, <1>10, <2>3, <2>4
  <2>9. PICK d : d = PlaceOnEventList(c, m)
    OBVIOUS
  <2>10. r = ResumeAll(d)
    BY <1>16, <2>2, <2>6, <2>9
  <2>11. Fair(r)
    BY <1>3, <2>3, <2>4, <2>5, <2>7, <2>8, <2>9, <2>10, FairForMutex
  <2> QED
    BY <1>12, <2>11
<1> QED
  BY <1>13, <1>14, <1>15, <1>16

(***************************************************************************)
(* The ranks, beside Fair: only the holder runs above its own priority; it *)
(* runs at the priority of every waiter, who remembers to have raised it;  *)
(* when the mutex is free, a task as urgent as every waiter is on its way  *)
(* to it; a raised priority is that of a take which still waits or has     *)
(* timed out; and a waiter times out no later than anyone more urgent in a *)
(* take, so that when the task that raised the holder has timed out nobody *)
(* less urgent waits: whoever is woken is above the lowered holder.        *)
(***************************************************************************)
Own == \A t \in Task : k.prio[t] # Base[t] => t = holder /\ k.prio[t] > Base[t]

Served == holder # NULL => \A w \in Owners(k.mwait) : k.prio[w] <= k.prio[holder]

Marked == holder # NULL => \A w \in Owners(k.mwait) : k.prio[w] > Base[holder] => inherited[w]

Coming ==
    holder = NULL /\ k.mwait # <<>> =>
        \E u \in Worker : /\ u \in Ready(k) /\ OnItsWay(u)
                          /\ \A w \in Owners(k.mwait) : k.prio[w] <= k.prio[u]

Cause(u) == /\ u # holder /\ inherited[u] /\ k.prio[u] = k.prio[holder]
            /\ u \in Owners(k.mwait) \/ waited[u] = TakeTicks

Caused == holder # NULL /\ k.prio[holder] # Base[holder] => \E u \in Worker : Cause(u)

Ahead(h) ==
    /\ LeftOf(k, h) <= TakeTicks
    /\ \A w \in Worker : entered[w] # Unset /\ Base[w] > Base[h]
                            => waited[w] + LeftOf(k, h) <= TakeTicks

Earlier == \A h \in Owners(k.mwait) : Ahead(h)

Lying == \A t \in Worker : pc[t] \in Taking /\ t \in Delayed(k) => t \in Owners(k.mwait)

Ranks  == Own /\ Served /\ Marked /\ Coming /\ Caused
Ranked == Ranks /\ Earlier /\ Lying

(* What a step of t makes of its own wait. *)
Goes(t, n) ==
    entered'[t] # Unset => IF entered[t] = Unset THEN waited'[t] = 0
                           ELSE waited'[t] = More(waited[t], n, TakeTicks)

LEMMA PassingIs ==
    ASSUME Sound, Sound', NEW t, NEW S, NEW D, NEW n, Passing(t, S, D, n)
    PROVE  /\ Steady(k) /\ Steady(k') /\ n \in Nat /\ Turn(k', k, t, S, D, n)
           /\ TakeTicks \in Nat /\ TakeTicks >= 1 /\ W \in Nat
           /\ D = {} \/ t \in Ready(k)
           /\ Ready(k) \cap Delayed(k) = {}
           /\ Owners(k.mwait) \subseteq Worker /\ Owners(k.mwait) \subseteq Delayed(k)
           /\ Owners(k'.mwait) \subseteq Worker /\ Owners(k'.mwait) \subseteq Delayed(k')
           /\ k.mwait \in List /\ k'.mwait \in List
<1>1. n \in Nat /\ TakeTicks \in Nat /\ TakeTicks >= 1 /\ W \in Nat
  BY MostIs, WidthIs, KernelAssumption DEF Passing, Width
<1>2. Steady(k) /\ Steady(k') /\ Turn(k', k, t, S, D, n) /\ (D = {} \/ t \in Ready(k))
  BY DEF Passing, Sound, Turn
<1>3. /\ Ready(k) \cap Delayed(k) = {}
      /\ Owners(k.mwait) \subseteq Delayed(k) /\ Owners(k'.mwait) \subseteq Delayed(k')
      /\ k.mwait \in List /\ k'.mwait \in List
  BY <1>2, OwnersAre, StateFields
<1>4. Owners(k.mwait) \subseteq Worker /\ Owners(k'.mwait) \subseteq Worker
  BY <1>3, ListFacts DEF Sound, Posts, Queueing
<1> QED
  BY <1>1, <1>2, <1>3, <1>4

LEMMA LyingTurn ==
    ASSUME Sound, Sound', Lying, NEW t, NEW S, NEW D, NEW n, Passing(t, S, D, n),
           t \in Worker /\ pc'[t] \in Taking /\ t \in Delayed(k') =>
               t \in Owners(k'.mwait) \/ (D = {} /\ pc[t] \in Taking)
    PROVE  Lying'
<1> SUFFICES ASSUME NEW u \in Worker, pc'[u] \in Taking, u \in Delayed(k')
             PROVE  u \in Owners(k'.mwait)
  BY DEF Lying
<1>1. u \in Task /\ u \in Tasks
  BY Kinds
<1>2. u = t => u \in Owners(k'.mwait) \/ (D = {} /\ pc[u] \in Taking)
  OBVIOUS
<1>3. u # t => pc[u] \in Taking
  BY <1>1 DEF Passing, Alone
<1>4. CASE (u # t \/ D = {}) /\ pc[u] \in Taking
  <2>1. u \in Delayed(k)
    BY <1>4, PassingIs, SleeperLater
  <2> QED
    BY <1>1, <1>4, <2>1 DEF Lying, Passing, Turn
<1> QED
  BY <1>2, <1>3, <1>4

LEMMA AheadTurn ==
    ASSUME Sound, Sound', Earlier, NEW t, NEW S, NEW D, NEW n, Passing(t, S, D, n),
           t \in Worker => Goes(t, n), NEW h \in Owners(k'.mwait), h # t \/ D = {}
    PROVE  Ahead(h)'
<1> SUFFICES /\ LeftOf(k', h) <= TakeTicks
             /\ \A w \in Worker : entered'[w] # Unset /\ Base[w] > Base[h]
                                     => waited'[w] + LeftOf(k', h) <= TakeTicks
  BY DEF Ahead, LeftOf, Asleep
<1>1. h \in Owners(k.mwait) /\ h \in Delayed(k')
  BY NoNewWaiter, PassingIs
<1>2. LeftOf(k', h) = LeftOf(k, h) - n /\ LeftOf(k, h) > n
  BY <1>1, PassingIs, SleeperLater
<1>3. PICK l \in Nat : l = LeftOf(k, h)
  BY PassingIs, TicksLeft
<1>4. l <= TakeTicks /\ \A w \in Worker : entered[w] # Unset /\ Base[w] > Base[h]
                                             => waited[w] + l <= TakeTicks
  BY <1>1, <1>3 DEF Earlier, Ahead
<1>5. ASSUME NEW w \in Worker, entered'[w] # Unset, Base[w] > Base[h]
      PROVE  waited'[w] + (l - n) <= TakeTicks
  <2>1. IF entered[w] = Unset THEN waited'[w] = 0 ELSE waited'[w] = More(waited[w], n, TakeTicks)
    <3>1. CASE w = t
      BY <1>5, <3>1 DEF Goes
    <3>2. CASE w # t
      BY <1>5, <3>2 DEF Passing, Alone, Aged
    <3> QED
      BY <3>1, <3>2
  <2>2. waited[w] \in 0 .. TakeTicks
    BY WorkerTypes
  <2> QED
    BY <1>3, <1>4, <1>5, <2>1, <2>2, PassingIs DEF More
<1> QED
  BY <1>2, <1>3, <1>4, <1>5, PassingIs

LEMMA EarlierTurn ==
    ASSUME Sound, Sound', Earlier, NEW t, NEW S, NEW D, NEW n, Passing(t, S, D, n),
           D = {} \/ t \notin Owners(k'.mwait), t \in Worker => Goes(t, n)
    PROVE  Earlier'
<1>1. ASSUME NEW h \in Owners(k'.mwait) PROVE Ahead(h)'
  BY <1>1, AheadTurn
<1> QED
  BY <1>1 DEF Earlier

(* Who raised the holder goes on waiting, or its wait is over.             *)
LEMMA CauseTurn ==
    ASSUME Sound, Sound', Timed, NEW t, NEW S, NEW D, NEW n, Passing(t, S, D, n),
           Owners(k.mwait) \cap S = {}, NEW u \in Worker, Cause(u),
           u = t => Goes(t, n) /\ entered'[t] # Unset
    PROVE  u \in Owners(k'.mwait) \/ waited'[u] = TakeTicks
<1>1. /\ Timing(u) /\ waited[u] \in 0 .. TakeTicks /\ TakeTicks \in Nat /\ TakeTicks >= 1
      /\ n \in Nat /\ u \in Task
  BY WorkerTypes, PassingIs DEF Timed
<1>2. entered[u] # Unset
  BY <1>1 DEF Timing, Cause
<1>3. waited'[u] = More(waited[u], n, TakeTicks)
  <2>1. CASE u = t
    BY <1>2, <2>1 DEF Goes
  <2>2. CASE u # t
    BY <1>2, <2>2 DEF Passing, Aged
  <2> QED
    BY <2>1, <2>2
<1>4. CASE waited[u] = TakeTicks
  BY <1>1, <1>3, <1>4 DEF More
<1>5. CASE u \in Owners(k.mwait) /\ waited[u] < TakeTicks
  <2>1. CASE u \in Delayed(k')
    <3>1. u # t \/ D = {}
      BY <1>5, PassingIs
    <3> QED
      BY <1>1, <1>5, <2>1, <3>1, PassingIs DEF Turn
  <2>2. CASE u \notin Delayed(k')
    <3>1. waited[u] + LeftOf(k, u) = TakeTicks
      BY <1>5, RestIsBefore, LeftIs DEF WaitsTheRest
    <3>2. u \notin S /\ (u # t \/ D = {})
      BY <1>5, PassingIs
    <3>3. PICK l \in Nat : l = LeftOf(k, u)
      BY PassingIs, TicksLeft
    <3>4. ~(l > n)
      <4>1. LeftOf(k', u) = 0
        BY <2>2, PassingIs, TicksLeft
      <4>2. l > n => LeftOf(k', u) = l - n
        BY <3>2, <3>3, PassingIs, SleeperLater
      <4> QED
        BY <1>1, <3>3, <4>1, <4>2
    <3> QED
      BY <1>1, <1>3, <3>1, <3>3, <3>4 DEF More
  <2> QED
    BY <2>1, <2>2
<1> QED
  BY <1>1, <1>4, <1>5 DEF Cause

(* A step that changes neither a priority nor the holder.                  *)
Harmless(t, D, n) ==
    /\ pc'[t] \in Taking /\ t \in Delayed(k') => D = {} /\ pc[t] \in Taking
    /\ holder = NULL /\ OnItsWay(t) => D = {} /\ OnItsWay(t)'
    /\ inherited'[t] = inherited[t] \/ (holder = NULL /\ t \notin Owners(k.mwait))
    /\ Goes(t, n)
    /\ holder # NULL /\ inherited[t] /\ entered[t] # Unset => entered'[t] # Unset

LEMMA RankedTurn ==
    ASSUME Sound, Sound', Timed, Ranked, NEW t, NEW S, NEW D, NEW n, Passing(t, S, D, n),
           k'.prio = k.prio, holder' = holder, Owners(k.mwait) \cap S = {},
           D = {} \/ t \notin Owners(k'.mwait), t \in Worker => Harmless(t, D, n)
    PROVE  Ranked'
<1>1. Lying'
  BY LyingTurn DEF Ranked, Harmless
<1>2. Earlier'
  BY EarlierTurn DEF Ranked, Harmless
<1>3. ASSUME NEW w \in Owners(k'.mwait)
      PROVE  /\ w \in Owners(k.mwait) /\ w \in Worker
             /\ holder # NULL => inherited'[w] = inherited[w]
  <2>1. w \in Owners(k.mwait) /\ w \in Worker
    BY NoNewWaiter, PassingIs
  <2>2. CASE w = t
    BY <2>1, <2>2 DEF Harmless
  <2>3. CASE w # t
    BY <2>1, <2>3 DEF Passing, Alone
  <2> QED
    BY <2>1, <2>2, <2>3
<1>4. Own' /\ Served' /\ Marked'
  BY <1>3 DEF Ranked, Ranks, Own, Served, Marked
<1>5. Coming'
  <2> SUFFICES ASSUME holder = NULL, k'.mwait # <<>>
               PROVE  \E u \in Worker : /\ u \in Ready(k') /\ OnItsWay(u)'
                                        /\ \A w \in Owners(k'.mwait) : k.prio[w] <= k.prio[u]
    BY DEF Coming, OnItsWay
  <2>1. k.mwait # <<>>
    BY <1>3, PassingIs, NoWaiters
  <2>2. PICK u \in Worker : /\ u \in Ready(k) /\ OnItsWay(u)
                            /\ \A w \in Owners(k.mwait) : k.prio[w] <= k.prio[u]
    BY <2>1 DEF Ranked, Ranks, Coming
  <2>3. OnItsWay(u)' /\ (u # t \/ D = {})
    BY <2>2, Kinds DEF Harmless, Passing, Alone, OnItsWay
  <2>4. u \in Ready(k')
    BY <2>2, <2>3, StaysReady
  <2> QED
    BY <1>3, <2>2, <2>3, <2>4
<1>6. Caused'
  <2> SUFFICES ASSUME holder # NULL, k.prio[holder] # Base[holder]
               PROVE  \E u \in Worker : Cause(u)'
    BY DEF Caused, Cause
  <2>1. PICK u \in Worker : Cause(u)
    BY DEF Ranked, Ranks, Caused
  <2>2. entered[u] # Unset
    <3>1. Timing(u) /\ TakeTicks >= 1 /\ TakeTicks \in Nat
      BY PassingIs DEF Timed
    <3> QED
      BY <2>1, <3>1 DEF Timing, Cause
  <2>3. u = t => Goes(t, n) /\ entered'[t] # Unset
    BY <2>1, <2>2 DEF Harmless, Cause
  <2>4. u \in Owners(k'.mwait) \/ waited'[u] = TakeTicks
    BY <2>1, <2>3, CauseTurn DEF Ranked
  <2>5. inherited'[u]
    <3>1. CASE u = t
      BY <2>1, <3>1 DEF Harmless, Cause
    <3>2. CASE u # t
      BY <2>1, <3>2 DEF Passing, Alone, Cause
    <3> QED
      BY <3>1, <3>2
  <2> QED
    BY <2>1, <2>4, <2>5 DEF Cause
<1> QED
  BY <1>1, <1>2, <1>4, <1>5, <1>6 DEF Ranked, Ranks

LEMMA RankTypes ==
    ASSUME Sound
    PROVE  /\ k.prio \in [Task -> Priority] /\ \A u \in Task : k.prio[u] \in Nat /\ Base[u] \in Nat
           /\ Worker \subseteq Task /\ NULL \notin Task /\ holder \in Worker \cup {NULL}
           /\ Owners(k.mwait) \subseteq Worker /\ holder \notin Owners(k.mwait)
           /\ Ready(k) \subseteq Task /\ Owners(k.mwait) \cap Ready(k) = {}
<1>1. /\ k \in SchedState /\ Steady(k) /\ holder \in Worker \cup {NULL}
      /\ Owners(k.mwait) \subseteq Worker /\ Owners(k.mwait) \subseteq Delayed(k)
  BY SteadyState, OwnersAre, HolderDoesNotWait DEF Sound, Locals
<1>2. /\ k.prio \in [Task -> Priority] /\ \A u \in Task : k.prio[u] \in Nat /\ Base[u] \in Nat
      /\ Ready(k) \subseteq Task
  BY <1>1, StateFields, Priorities, KernelAssumption
<1>3. holder \notin Owners(k.mwait)
  <2>1. \A u \in Owners(k.mwait) : \E x \in Items(k.mwait) : x.owner = u
    BY <1>1, StateFields, ListFacts
  <2> QED
    BY <1>1, <2>1, Kinds, HolderDoesNotWait
<1>4. Owners(k.mwait) \cap Ready(k) = {}
  BY <1>1, OwnersAre
<1> QED
  BY <1>1, <1>2, <1>3, <1>4, Kinds

(* The mutex is taken, by a task as urgent as every waiter.                *)
LEMMA TakenRanked ==
    ASSUME Sound, Sound', Timed, Fair(k), Ranked, NEW t \in Worker, Take(t), holder = NULL
    PROVE  Ranked'
<1>1. /\ k.cur = t /\ t \in Ready(k) /\ Passing(t, {}, {}, 0)
      /\ holder' = t /\ Returns(t) /\ k' = [k EXCEPT !.stale = @ \cup {t}]
  BY TakeTurn DEF Take
<1>2. /\ t \in Task /\ k'.prio = k.prio /\ k'.mwait = k.mwait
  BY <1>1, Kinds, MarkedStill DEF Still, SameWaits
<1>3. pc'[t] = "logging" /\ entered'[t] = Unset
  BY <1>1, Kinds, PlaceIs, PutIs DEF Returns
<1>4. Lying'
  BY <1>1, <1>3, LyingTurn DEF Ranked, Taking
<1>5. Earlier'
  BY <1>1, <1>3, EarlierTurn DEF Ranked, Goes
<1>6. \A u \in Task : k.prio[u] = Base[u]
  BY RankTypes DEF Ranked, Ranks, Own
<1>7. Own' /\ Coming' /\ Caused'
  BY <1>1, <1>2, <1>6, Kinds DEF Own, Coming, Caused
<1>8. \A w \in Owners(k.mwait) : k.prio[w] <= k.prio[t]
  <2> SUFFICES ASSUME NEW w \in Owners(k.mwait) PROVE k.prio[w] <= k.prio[t]
    OBVIOUS
  <2>1. k.mwait # <<>>
    BY DEF Owners
  <2>2. PICK u \in Worker : u \in Ready(k) /\ k.prio[w] <= k.prio[u]
    BY <2>1 DEF Ranked, Ranks, Coming
  <2>3. k.prio[u] <= k.prio[t]
    BY <1>1, <2>2 DEF Fair, Highest
  <2> QED
    BY <1>2, <2>2, <2>3, RankTypes
<1>9. Served' /\ Marked'
  BY <1>1, <1>2, <1>6, <1>8, RankTypes DEF Served, Marked
<1> QED
  BY <1>4, <1>5, <1>7, <1>9 DEF Ranked, Ranks

(* A take that raised the holder gives up, and the holder's priority is    *)
(* what the waiters left need.                                             *)
LEMMA GivenUpRanked ==
    ASSUME Sound, Sound', Timed, Fair(k), Ranked, NEW t \in Worker, GiveUp(t), holder # NULL
    PROVE  Ranked' /\ Fair(k')
<1>1. /\ k.cur = t /\ t \in Ready(k) /\ Passing(t, {}, {}, 0) /\ Returns(t) /\ holder' = holder
      /\ k'.prio = [k.prio EXCEPT ![holder] = Lowered] /\ pc[t] = "giveup"
      /\ Still(k', k) /\ k'.parked = k.parked /\ k'.cur = t
  BY GiveUpDoes, GiveUpTurn DEF GiveUp
<1>2. /\ holder \in Worker /\ holder \in Task /\ t \in Task /\ holder # t
      /\ Lowered \in Nat /\ HighestWaiting(k) \in Nat
  BY <1>1, RankTypes, WaitingPriority, Priorities, Kinds DEF Sound, Holding
<1>3. /\ \A u \in Task \ {holder} : k'.prio[u] = k.prio[u]
      /\ k'.prio[holder] = Lowered /\ k'.mwait = k.mwait
  BY <1>1, <1>2, RankTypes DEF Still, SameWaits
<1>4. pc'[t] = "logging" /\ entered'[t] = Unset
  BY <1>1, Kinds, PlaceIs, PutIs DEF Returns
<1>5. Lying'
  BY <1>1, <1>4, LyingTurn DEF Ranked, Taking
<1>6. Earlier'
  BY <1>1, <1>4, EarlierTurn DEF Ranked, Goes
<1>7. /\ Lowered >= Base[holder] /\ Lowered >= HighestWaiting(k)
      /\ Lowered # Base[holder] => Lowered = HighestWaiting(k) /\ Lowered > Base[holder]
  BY <1>2, RankTypes DEF Lowered
<1>8. \A w \in Owners(k.mwait) : /\ w \in Worker /\ w \in Task \ {holder} /\ w # t
                                 /\ k.prio[w] <= HighestWaiting(k)
  <2>1. \A w \in Owners(k.mwait) : \E x \in Items(k.mwait) : x.owner = w
    BY SteadyState, StateFields, ListFacts DEF Sound
  <2> QED
    BY <1>1, <1>2, <2>1, RankTypes, WaitingPriority
<1>9. Own'
  BY <1>1, <1>3, <1>7 DEF Ranked, Ranks, Own
<1>10. Served'
  BY <1>1, <1>2, <1>3, <1>7, <1>8, RankTypes DEF Served
<1>11. \A w \in Owners(k.mwait) : k.prio[w] > Base[holder] => inherited'[w]
  BY <1>1, <1>2, <1>8 DEF Ranked, Ranks, Marked, Passing, Alone
<1>12. Marked' /\ Coming'
  BY <1>1, <1>2, <1>3, <1>8, <1>11 DEF Marked, Coming
<1>13. Caused'
  <2> SUFFICES ASSUME Lowered # Base[holder] PROVE \E u \in Worker : Cause(u)'
    BY <1>1, <1>3 DEF Caused
  <2>1. k.mwait # <<>>
    BY <1>2, <1>7, RankTypes, WaitingPriority
  <2>2. PICK x \in Items(k.mwait) : HighestWaiting(k) = k.prio[x.owner]
    BY <1>2, <2>1, WaitingPriority
  <2>3. PICK u : u = x.owner /\ u \in Owners(k.mwait)
    BY SteadyState, StateFields, ListFacts DEF Sound
  <2>4. inherited'[u] /\ k'.prio[u] = Lowered
    BY <1>3, <1>7, <1>8, <1>11, <2>2, <2>3
  <2> QED
    BY <1>1, <1>3, <1>8, <2>3, <2>4 DEF Cause
<1>14. Fair(k')
  <2>1. PICK r : r = k'
    OBVIOUS
  <2>2. Ready(r) = Ready(k) /\ r.cur = t
    BY <1>1, <2>1, StillFacts DEF Sound
  <2>3. Lowered <= k.prio[holder]
    <3>1. k.prio[holder] >= Base[holder]
      BY <1>2, RankTypes DEF Ranked, Ranks, Own
    <3>2. CASE k.mwait = <<>>
      <4>1. HighestWaiting(k) = 0
        BY <1>2, <3>2, WaitingPriority
      <4> QED
        BY <1>2, <3>1, <4>1, RankTypes DEF Lowered
    <3>3. CASE k.mwait # <<>>
      <4>1. PICK x \in Items(k.mwait) : HighestWaiting(k) = k.prio[x.owner]
        BY <1>2, <3>3, WaitingPriority
      <4>2. x.owner \in Owners(k.mwait)
        BY SteadyState, StateFields, ListFacts DEF Sound
      <4> QED
        BY <1>2, <3>1, <4>1, <4>2 DEF Ranked, Ranks, Served, Lowered
    <3> QED
      BY <3>2, <3>3
  <2>4. \A u \in Ready(k) : u \in Task /\ k.prio[u] \in Nat /\ k.prio[u] <= k.prio[t]
    BY <1>1, RankTypes DEF Fair, Highest
  <2>5. \A u \in Ready(k) : r.prio[u] <= r.prio[t]
    BY <1>2, <1>3, <2>1, <2>3, <2>4, RankTypes
  <2> QED
    BY <2>1, <2>2, <2>5 DEF Fair, Highest
<1> QED
  BY <1>5, <1>6, <1>9, <1>10, <1>12, <1>13, <1>14 DEF Ranked, Ranks

(* A take raises the holder, or finds it high enough, and waits.           *)
LEMMA LinedRanked ==
    ASSUME Sound, Sound', Timed, Fair(k), Ranked, NEW t \in Worker, NEW n, Block(t, n),
           ~Over(t), holder # NULL
    PROVE  Ranked'
<1>0. \/ /\ Over(t) /\ Go(t, "expired") /\ UNCHANGED <<entered, inherited>>
         /\ Put(left, t, IF t \in k.stale /\ k.tick >= entered[t] THEN left[t] ELSE 0)
         /\ Passing(t, {}, {}, n)
      \/ Renoted(t, n) /\ holder = NULL
      \/ /\ Renoted(t, n) /\ holder \in Worker \ {t}
         /\ Put(inherited, t, Inherits(k, holder, Base[holder]))
         /\ Passing(t, {}, {Item(t, TimeToWake(k.tick, Rest(t)))}, n)
         /\ t \in Delayed(k') => t \in Owners(k'.mwait)
  BY BlockTurn
<1>1. /\ Later(n) /\ holder' = holder /\ k.cur = t /\ t \in Ready(k) /\ pc[t] = "suspend"
      /\ entered[t] \in TickType /\ Put(entered, t, k.tick) /\ holder \in Worker \ {t}
      /\ Put(inherited, t, Inherits(k, holder, Base[holder]))
      /\ Passing(t, {}, {Item(t, TimeToWake(k.tick, Rest(t)))}, n)
      /\ t \in Delayed(k') => t \in Owners(k'.mwait)
  BY <1>0, BlockTurn, BlockDoes DEF Renoted
<1>2. k'.prio = Heir(t)
  BY BlockDoes DEF Ripe, Luckily, Lining, Queues, Onward
<1>3. /\ t \in Task /\ holder \in Task /\ holder # t
      /\ \A u \in Task \ {holder} : k'.prio[u] = k.prio[u]
      /\ k'.prio[holder] = IF k.prio[holder] < k.prio[t] THEN k.prio[t] ELSE k.prio[holder]
  BY <1>1, <1>2, RankTypes DEF Heir
<1>4. PICK D : D = {Item(t, TimeToWake(k.tick, Rest(t)))}
  OBVIOUS
<1>5. Passing(t, {}, D, n)
  BY <1>1, <1>4
<1>6. /\ entered'[t] = k.tick /\ entered'[t] # Unset
      /\ Base[holder] < k.prio[t] => inherited'[t]
  <2>1. k.tick # Unset
    BY WorkerTypes, WidthIs DEF Width, Unset
  <2> QED
    BY <1>1, <2>1, PutIs DEF Inherits
<1>7. waited'[t] = More(waited[t], n, TakeTicks) /\ Goes(t, n)
  <2>1. entered[t] # Unset
    BY <1>1, WidthIs DEF Width, Unset
  <2> QED
    BY <1>1, <2>1, LaterThen DEF Goes
<1>8. ASSUME NEW w \in Owners(k'.mwait), w # t
      PROVE  /\ w \in Owners(k.mwait) /\ w \in Task \ {holder}
             /\ inherited'[w] = inherited[w]
  <2>1. w \in Owners(k.mwait)
    BY <1>5, <1>8, NoNewWaiter
  <2> QED
    BY <1>5, <1>8, <2>1, RankTypes DEF Passing, Alone
<1>9. k.prio[holder] >= Base[holder]
  BY <1>3, RankTypes DEF Ranked, Ranks, Own
<1>10. Own'
  BY <1>1, <1>3, <1>9, RankTypes DEF Ranked, Ranks, Own
<1>11. Served'
  BY <1>1, <1>3, <1>8, RankTypes DEF Ranked, Ranks, Served
<1>12. Marked' /\ Coming'
  BY <1>1, <1>3, <1>6, <1>8 DEF Ranked, Ranks, Marked, Coming
<1>13. Lying'
  BY <1>1, <1>5, LyingTurn DEF Ranked
<1>14. PICK m \in Naps : m = Rest(t)
  BY <1>1, RestIsLeft
<1>15. /\ m > n => LeftOf(k', t) = m - n
       /\ t \in Delayed(k') => m > n
       /\ n \in Nat /\ m \in 1 .. TakeTicks
  <2>1. m \in 0 .. TakeTicks /\ n \in Nat
    BY <1>1, <1>5, <1>14, RestIsLeft, PassingIs
  <2>2. Turn(k', k, t, {}, {Item(t, TimeToWake(k.tick, m))}, n)
    BY <1>4, <1>5, <1>14, PassingIs
  <2> QED
    BY <1>1, <1>5, <1>14, <2>1, <2>2, PassingIs, DozerLater DEF Naps
<1>16. t \in Owners(k'.mwait) \/ waited'[t] = TakeTicks
  <2>1. CASE m > n
    BY <1>1, <1>5, <1>15, <2>1, PassingIs, TicksLeft
  <2>2. CASE ~(m > n)
    <3>1. /\ waited[t] \in 0 .. TakeTicks /\ TakeTicks \in Nat /\ entered[t] # Unset
          /\ Timing(t)
      BY <1>1, WorkerTypes, WidthIs DEF Timed, Width, Unset
    <3>2. waited[t] < TakeTicks => m = TakeTicks - waited[t]
      BY <1>14, <3>1 DEF Timing, OnTime, Rest
    <3> QED
      BY <1>7, <1>15, <2>2, <3>1, <3>2 DEF More
  <2> QED
    BY <1>15, <2>1, <2>2
<1>17. Caused'
  <2> SUFFICES ASSUME k'.prio[holder] # Base[holder] PROVE \E u \in Worker : Cause(u)'
    BY <1>1 DEF Caused
  <2>1. CASE k.prio[holder] < k.prio[t]
    <3>1. inherited'[t]
      BY <1>3, <1>6, <1>9, <2>1, RankTypes
    <3> QED
      BY <1>1, <1>3, <1>16, <2>1, <3>1 DEF Cause
  <2>2. CASE ~(k.prio[holder] < k.prio[t])
    <3>1. PICK u \in Worker : Cause(u)
      BY <1>1, <1>3, <2>2 DEF Ranked, Ranks, Caused
    <3>2. u \in Owners(k'.mwait) \/ waited'[u] = TakeTicks
      BY <1>5, <1>6, <1>7, <3>1, CauseTurn
    <3>3. inherited'[u]
      <4>1. CASE u = t
        BY <1>3, <1>6, <1>9, <2>2, <3>1, <4>1, RankTypes DEF Cause
      <4>2. CASE u # t
        BY <1>5, <3>1, <4>2 DEF Cause, Passing, Alone
      <4> QED
        BY <4>1, <4>2
    <3> QED
      BY <1>1, <1>3, <2>2, <3>1, <3>2, <3>3, RankTypes DEF Cause
  <2> QED
    BY <2>1, <2>2
<1>18. Earlier'
  <2>1. ASSUME NEW h \in Owners(k'.mwait), h # t PROVE Ahead(h)'
    BY <1>5, <1>7, <2>1, AheadTurn DEF Ranked
  <2>2. ASSUME t \in Owners(k'.mwait) PROVE Ahead(t)'
    <3>1. LeftOf(k', t) <= TakeTicks
      BY <1>5, <1>15, <2>2, PassingIs
    <3>2. ASSUME NEW w \in Worker, entered'[w] # Unset, Base[w] > Base[t] PROVE FALSE
      <4>1. w \in Task /\ w # t /\ k.prio[t] = Base[t] /\ k.prio[w] >= Base[w]
        BY <1>3, <3>2, RankTypes DEF Ranked, Ranks, Own
      <4>2. pc[w] \in Taking
        BY <1>5, <3>2, <4>1 DEF Timed, Timing, Passing, Alone
      <4>3. \A u \in Ready(k) : k.prio[u] <= k.prio[t]
        BY <1>1 DEF Fair, Highest
      <4>4. CASE w \in Ready(k)
        BY <1>3, <3>2, <4>1, <4>3, <4>4, RankTypes
      <4>5. CASE w \in Delayed(k)
        <5>1. k.prio[w] <= k.prio[holder]
          BY <1>1, <4>2, <4>5, RankTypes DEF Ranked, Ranks, Lying, Served
        <5>2. holder \in Ready(k)
          <6>1. holder \notin Delayed(k)
            BY <1>1, RankTypes DEF Sound, Holding, Posts, Dreaming, Dozing
          <6> QED
            BY <1>1, <6>1, ReadyOrAsleep
        <5> QED
          BY <1>3, <3>2, <4>1, <4>3, <5>1, <5>2, RankTypes
      <4> QED
        BY <4>4, <4>5, ReadyOrAsleep
    <3> QED
      BY <3>1, <3>2 DEF Ahead, LeftOf, Asleep
  <2> QED
    BY <2>1, <2>2 DEF Earlier
<1> QED
  BY <1>10, <1>11, <1>12, <1>13, <1>17, <1>18 DEF Ranked, Ranks

(* The first who waits is the most urgent of them.                         *)
LEMMA HeadIsHighest ==
    ASSUME Sound, k.mwait # <<>>, NEW h, h = Head(k.mwait).owner
    PROVE  /\ h \in Owners(k.mwait) /\ h \in Worker /\ h \in Delayed(k)
           /\ pc[h] \in {"blocked", "take"}
           /\ \A w \in Owners(k.mwait) : k.prio[w] <= k.prio[h]
<1>1. PICK c \in List : c = k.mwait
  BY SteadyState, StateFields DEF Sound
<1>2. PICK i : i = Head(c)
  OBVIOUS
<1>3. i \in Items(c) /\ \A x \in Items(c) : i.value <= x.value
  BY <1>1, <1>2, ListHead
<1>4. /\ \A x \in Items(c) : /\ x.owner \in Worker /\ x.value = MaxPriorities - k.prio[x.owner]
                             /\ pc[x.owner] \in {"blocked", "take"}
      /\ MaxPriorities \in Nat /\ \A u \in Task : k.prio[u] \in Nat
  BY <1>1, RankTypes, KernelAssumption DEF Sound, Posts, Queueing
<1>5. i.owner = h /\ h \in Task
  BY <1>1, <1>2, <1>3, <1>4, Kinds
<1>7. ASSUME NEW x \in Items(c) PROVE k.prio[x.owner] <= k.prio[h]
  <2>1. /\ x.value = MaxPriorities - k.prio[x.owner] /\ i.value = MaxPriorities - k.prio[h]
        /\ i.value <= x.value /\ x.owner \in Task
    BY <1>3, <1>4, <1>5, <1>7, Kinds
  <2>2. MaxPriorities \in Nat /\ k.prio[x.owner] \in Nat /\ k.prio[h] \in Nat
    BY <1>4, <1>5, <2>1
  <2> QED
    BY <2>1, <2>2
<1>6. Owners(c) = OwnersOf(Items(c)) /\ Owners(c) \subseteq Delayed(k)
  BY <1>1, OwnersAre DEF Sound
<1> QED
  BY <1>1, <1>3, <1>4, <1>5, <1>6, <1>7 DEF OwnersOf

LEMMA FairHeir ==
    ASSUME NEW q, Steady(q), q.cur \in Ready(q), q.mwait # <<>>, NEW h, h = Head(q.mwait).owner,
           NEW d, d = RemoveFromEventList(q),
           NEW r, r = IF d.yield THEN SwitchContext(d) ELSE d,
           q.prio[h] > q.prio[q.cur] \/ Highest(q)
    PROVE  Fair(r)
<1>1. q \in SchedState /\ Filing(q) /\ q.yield = FALSE /\ ~q.locked
  BY SteadyState, StateFields DEF Steady
<1>2. /\ h \in Owners(q.mwait) /\ Filing(d) /\ Woken(d, q, {h}) /\ SameClock(d, q)
      /\ d.cur = q.cur /\ d.prio = q.prio
      /\ d.yield = (q.yield \/ q.prio[h] > q.prio[q.cur])
  BY <1>1, RemovedFromEventList
<1>3. CASE d.yield
  <2>1. r = SwitchContext(d) /\ d \in SchedState /\ Placed(d) /\ ~d.locked
    BY <1>1, <1>2, <1>3 DEF Filing, Placed, SameClock
  <2> QED
    BY <2>1, Switched DEF Fair
<1>4. CASE ~d.yield
  <2>1. /\ r = d /\ ~(q.prio[h] > q.prio[q.cur]) /\ Highest(q)
        /\ Ready(d) = Ready(q) \cup {h} /\ h \in Task
    BY <1>1, <1>2, <1>4, WaiterIsAsleep DEF Woken
  <2>2. \A u \in Task : q.prio[u] \in Nat
    BY <1>1, StateFields, Priorities
  <2>3. q.cur \in Task
    BY <1>1, StateFields
  <2>4. q.prio[h] <= q.prio[q.cur]
    BY <2>1, <2>2, <2>3
  <2>5. r.prio = q.prio /\ r.cur = q.cur /\ Ready(r) = Ready(q) \cup {h}
    BY <1>2, <2>1
  <2>6. Highest(r)
    BY <2>1, <2>4, <2>5 DEF Highest
  <2> QED
    BY <2>6 DEF Fair
<1> QED
  BY <1>1, <1>2, <1>3, <1>4, StateFields DEF Filing, Placed

(* The holder has been raised: it is outranked when it is lowered.         *)
LEMMA HeirIsHigher ==
    ASSUME Sound, Timed, Ranked, NEW t \in Worker, holder = t, k.prio[t] # Base[t],
           k.mwait # <<>>, NEW h, h = Head(k.mwait).owner
    PROVE  k.prio[h] > Base[t]
<1>1. /\ h \in Owners(k.mwait) /\ h \in Worker /\ h \in Delayed(k)
      /\ \A w \in Owners(k.mwait) : k.prio[w] <= k.prio[h]
  BY HeadIsHighest
<1>2. PICK u \in Worker : Cause(u)
  BY Kinds DEF Ranked, Ranks, Caused
<1>3. /\ u \in Task /\ h \in Task /\ t \in Task /\ h # t /\ u # t
      /\ k.prio[u] = k.prio[t] /\ k.prio[t] > Base[t]
      /\ k.prio[u] = Base[u] /\ k.prio[h] = Base[h]
  BY <1>1, <1>2, RankTypes DEF Cause, Ranked, Ranks, Own
<1>4. CASE u \in Owners(k.mwait)
  BY <1>1, <1>3, <1>4, RankTypes
<1>5. CASE waited[u] = TakeTicks
  <2>1. TakeTicks \in Nat /\ TakeTicks >= 1 /\ Timing(u)
    BY WorkerTypes DEF Timed
  <2>2. entered[u] # Unset
    BY <1>5, <2>1 DEF Timing
  <2>3. LeftOf(k, h) \in Nat /\ LeftOf(k, h) >= 1
    BY <1>1, <1>3, TicksLeft DEF Sound
  <2>4. Base[u] > Base[h] => waited[u] + LeftOf(k, h) <= TakeTicks
    BY <1>1, <2>2 DEF Ranked, Earlier, Ahead
  <2> QED
    BY <1>3, <1>5, <2>1, <2>3, <2>4, RankTypes
<1> QED
  BY <1>2, <1>4, <1>5 DEF Cause

LEMMA GiveFair ==
    ASSUME Sound, Timed, Fair(k), Ranked, NEW t \in Worker, Give(t)
    PROVE  Fair(k')
<1>1. /\ t \in Tasks /\ t \in Task /\ k.cur = t /\ t \in Ready(k) /\ Steady(k) /\ Highest(k)
  BY GiveDoes, Kinds DEF Fair, Sound
<1>2. CASE UNCHANGED k
  BY <1>2
<1>3. CASE /\ holder = t
           /\ LET k1 == PriorityDisinherit(k, t, Base[t])
                  k2 == RemoveFromEventList(k1)
              IN  k' = IF k.mwait # <<>>
                       THEN IF k2.yield THEN SwitchContext(k2) ELSE k2
                       ELSE IF k.prio[t] # Base[t] THEN SwitchContext(k1) ELSE k1
  <2>1. PICK p \in Priority : p = Base[t]
    BY <1>1, KernelAssumption
  <2>2. PICK q : q = PriorityDisinherit(k, t, Base[t])
    OBVIOUS
  <2>3. q = IF k.prio[t] # p THEN SetPriority(k, t, p) ELSE k
    BY <2>1, <2>2 DEF PriorityDisinherit
  <2>4. /\ Still(q, k) /\ q.parked = k.parked /\ q.cur = k.cur
        /\ q.prio = [k.prio EXCEPT ![t] = p]
    BY <1>1, <2>3, PriorityIs
  <2>5. Steady(q) /\ Ready(q) = Ready(k) /\ q.mwait = k.mwait
    BY <1>1, <2>4, StillFacts DEF Still, SameWaits
  <2>6. k.prio[t] = Base[t] => q = k
    BY <2>1, <2>3
  <2>7. PICK r : r = k'
    OBVIOUS
  <2>8. CASE k.mwait = <<>>
    <3>1. CASE k.prio[t] # Base[t]
      <4>1. r = SwitchContext(q)
        BY <1>3, <2>2, <2>7, <2>8, <3>1
      <4>2. q \in SchedState /\ Filing(q) /\ ~q.locked
        BY <2>5, SteadyState DEF Steady
      <4> QED
        BY <2>7, <4>1, <4>2, Switched DEF Fair, Filing
    <3>2. CASE k.prio[t] = Base[t]
      <4>1. r = k
        BY <1>3, <2>2, <2>6, <2>7, <2>8, <3>2
      <4> QED
        BY <2>7, <4>1
    <3> QED
      BY <3>1, <3>2
  <2>9. CASE k.mwait # <<>>
    <3>1. PICK h : h = Head(q.mwait).owner
      OBVIOUS
    <3>2. PICK d : d = RemoveFromEventList(q)
      OBVIOUS
    <3>3. r = IF d.yield THEN SwitchContext(d) ELSE d
      BY <1>3, <2>2, <2>7, <2>9, <3>2
    <3>4. q.prio[h] > q.prio[q.cur] \/ Highest(q)
      <4>1. CASE k.prio[t] = Base[t]
        BY <1>1, <2>6, <4>1
      <4>2. CASE k.prio[t] # Base[t]
        <5>1. h = Head(k.mwait).owner
          BY <2>5, <3>1
        <5>2. k.prio[h] > Base[t]
          BY <1>3, <2>9, <4>2, <5>1, HeirIsHigher
        <5>3. h \in Task /\ h # t
          BY <1>3, <2>9, <5>1, HeadIsHighest, RankTypes
        <5> QED
          BY <1>1, <2>1, <2>4, <5>2, <5>3, RankTypes
      <4> QED
        BY <4>1, <4>2
    <3>5. q.cur \in Ready(q) /\ q.mwait # <<>>
      BY <1>1, <2>4, <2>5, <2>9
    <3>6. Fair(r)
      BY <2>5, <3>1, <3>2, <3>3, <3>4, <3>5, FairHeir
    <3> QED
      BY <2>7, <3>6
  <2> QED
    BY <2>8, <2>9
<1> QED
  BY <1>2, <1>3 DEF Give

(* The mutex is given back, and the first who waits is on its way to it.   *)
LEMMA ReleasedRanked ==
    ASSUME Sound, Sound', Timed, Ranked, NEW t \in Worker, Give(t), holder' = NULL, holder # NULL
    PROVE  Ranked'
<1>1. /\ pc[t] = "logging" /\ t \in Ready(k) /\ UNCHANGED <<entered, inherited>>
      /\ holder = t /\ Go(t, "sleep")
      /\ \/ k.mwait = <<>> /\ Passing(t, {}, {}, 0)
         \/ \E h \in Owners(k.mwait) : h = Head(k.mwait).owner /\ Passing(t, {h}, {}, 0)
  BY GiveTurn
<1>2. Released(t)
  BY GiveDoes
<1>3. /\ t \in Tasks /\ t \in Task /\ pc'[t] = "sleep" /\ entered'[t] = Unset
      /\ k'.prio = [k.prio EXCEPT ![t] = Base[t]]
  <2>1. entered[t] = Unset
    BY <1>1 DEF Timed, Timing, Taking
  <2> QED
    BY <1>1, <1>2, <2>1, PlaceIs, Kinds DEF Released
<1>4. PICK S : Passing(t, S, {}, 0)
  BY <1>1
<1>5. Lying'
  BY <1>3, <1>4, LyingTurn DEF Ranked, Taking
<1>6. Earlier'
  BY <1>3, <1>4, EarlierTurn DEF Ranked, Goes
<1>7. \A u \in Task : k'.prio[u] = Base[u] /\ (u # t => k'.prio[u] = k.prio[u])
  BY <1>1, <1>3, RankTypes DEF Ranked, Ranks, Own
<1>8. Own' /\ Served' /\ Marked' /\ Caused'
  BY <1>7 DEF Own, Served, Marked, Caused
<1>9. Coming'
  <2> SUFFICES ASSUME k'.mwait # <<>>
               PROVE  \E u \in Worker : /\ u \in Ready(k') /\ OnItsWay(u)'
                                        /\ \A w \in Owners(k'.mwait) : k'.prio[w] <= k'.prio[u]
    BY DEF Coming, OnItsWay
  <2>1. k.mwait # <<>>
    <3>1. PICK v : v \in Owners(k'.mwait)
      BY <1>4, PassingIs, NoWaiters
    <3>2. v \in Owners(k.mwait)
      BY <1>4, <3>1, NoNewWaiter
    <3> QED
      BY <1>4, <3>2, PassingIs, NoWaiters
  <2>2. PICK h : h = Head(k.mwait).owner
    OBVIOUS
  <2>3. /\ h \in Worker /\ pc[h] \in {"blocked", "take"} /\ h \in Owners(k.mwait)
        /\ \A w \in Owners(k.mwait) : k.prio[w] <= k.prio[h]
    BY <2>1, <2>2, HeadIsHighest
  <2>4. Asleep(k') = {x \in Asleep(k) : x.owner # h}
    BY <1>2, <2>1, <2>2 DEF Released
  <2>5. h \in Ready(k')
    <3>1. h \notin Delayed(k')
      BY <2>4, OwnersAre DEF Sound, OwnersOf
    <3> QED
      BY <2>3, <3>1, ReadyOrAsleepThen
  <2>6. OnItsWay(h)' /\ h # t
    BY <1>1, <1>4, <2>3, Kinds DEF OnItsWay, Passing, Alone
  <2>7. ASSUME NEW w \in Owners(k'.mwait) PROVE k'.prio[w] <= k'.prio[h]
    <3>1. w \in Owners(k.mwait) /\ w \in Task /\ h \in Task
      BY <1>4, <2>3, <2>7, NoNewWaiter, RankTypes
    <3>2. w # t
      BY <1>1, <3>1, RankTypes
    <3> QED
      BY <1>7, <2>3, <2>6, <3>1, <3>2
  <2> QED
    BY <2>3, <2>5, <2>6, <2>7
<1> QED
  BY <1>5, <1>6, <1>8, <1>9 DEF Ranked, Ranks

(* A step outside a take, or of no worker.                                 *)
LEMMA OutsideRanked ==
    ASSUME Sound, Sound', Timed, Ranked, Evenly, holder' = holder,
           NEW t, NEW S, NEW D, NEW n, Passing(t, S, D, n), Owners(k.mwait) \cap S = {},
           t \in Worker => /\ pc[t] \notin Taking /\ pc'[t] \notin Taking
                           /\ UNCHANGED <<entered, inherited>>
    PROVE  Ranked' /\ Fair(k')
<1>1. t \in Worker => Harmless(t, D, n) /\ t \notin Owners(k'.mwait)
  <2> SUFFICES ASSUME t \in Worker PROVE Harmless(t, D, n) /\ t \notin Owners(k'.mwait)
    OBVIOUS
  <2>1. entered[t] = Unset
    BY DEF Timed, Timing
  <2>2. t \notin Owners(k'.mwait)
    BY NotQueueing, Kinds DEF Taking
  <2> QED
    BY <2>1, <2>2 DEF Harmless, Goes, Taking, OnItsWay
<1>2. t \notin Owners(k'.mwait)
  <2>1. Owners(k'.mwait) \subseteq Worker
    BY PassingIs
  <2> QED
    BY <1>1, <2>1
<1> QED
  BY <1>1, <1>2, RankedTurn DEF Evenly

(* A step inside a take in which its caller does not fall asleep.          *)
LEMMA InsideRanked ==
    ASSUME Sound, Sound', Timed, Ranked, Evenly, holder' = holder,
           NEW t \in Worker, NEW n, Passing(t, {}, {}, n), Harmless(t, {}, n)
    PROVE  Ranked' /\ Fair(k')
BY RankedTurn DEF Evenly

LEMMA NothingMore == ASSUME Sound, NEW t \in Worker PROVE More(waited[t], 0, TakeTicks) = waited[t]
<1>1. waited[t] \in 0 .. TakeTicks /\ TakeTicks \in Nat
  BY WorkerTypes
<1> QED
  BY <1>1 DEF More

LEMMA CycleRanked ==
    ASSUME Sound, Sound', Timed, Fair(k), Ranked, NEW t \in Worker, Cycle(t)
    PROVE  Ranked' /\ Fair(k')
<1>1. /\ pc[t] = "cycle" /\ t \in Ready(k) /\ Passing(t, {}, {}, 0)
      /\ UNCHANGED <<k, holder, entered, inherited>> /\ t \in Task
  BY CycleTurn, Kinds DEF Cycle
<1>2. Evenly
  BY <1>1 DEF Evenly
<1>3. CASE Go(t, "sleep")
  <2>1. pc[t] \notin Taking /\ pc'[t] \notin Taking
    BY <1>1, <1>3, PlaceIs, Kinds DEF Taking
  <2> QED
    BY <1>1, <1>2, <2>1, OutsideRanked
<1>4. CASE Go(t, "take")
  <2>1. pc'[t] = "take" /\ entered[t] = Unset
    BY <1>1, <1>4, PlaceIs, Kinds DEF Timed, Timing, Taking
  <2>2. t \notin Delayed(k')
    BY <1>1, PassingIs
  <2>3. Harmless(t, {}, 0)
    BY <1>1, <2>1, <2>2 DEF Harmless, Goes, OnItsWay
  <2> QED
    BY <1>1, <1>2, <2>3, InsideRanked
<1> QED
  BY <1>3, <1>4 DEF Cycle

LEMMA PortYieldRanked ==
    ASSUME Sound, Sound', Timed, Ranked, NEW t \in Tasks, PortYield(t)
    PROVE  Ranked' /\ Fair(k')
<1>1. /\ UNCHANGED <<holder, entered, inherited, waited>> /\ Passing(t, {}, {}, 0) /\ Evenly
  BY PortYieldTurn, PortYieldEvenly
<1>2. CASE t \in Worker /\ pc[t] = "blocked" /\ Go(t, "take")
  <2>1. pc'[t] = "take" /\ waited'[t] = More(waited[t], 0, TakeTicks)
    BY <1>1, <1>2, PlaceIs, NothingMore
  <2>2. entered[t] # Unset
    BY <1>2 DEF Timed, Timing
  <2>3. Harmless(t, {}, 0)
    BY <1>1, <1>2, <2>1, <2>2 DEF Harmless, Goes, OnItsWay, Taking
  <2> QED
    BY <1>1, <1>2, <2>3, InsideRanked
<1>3. CASE t \in Worker => ~(pc[t] = "blocked" /\ Go(t, "take"))
  <2>1. t \in Worker => pc[t] \in {"waited", "slept", "stopped", "began"}
    BY <1>3, PortYieldTurn
  <2>2. t \in Worker => pc[t] \notin Taking /\ pc'[t] \notin Taking
    BY <2>1, PortYieldTurn, PlaceIs DEF Taking
  <2> QED
    BY <1>1, <2>2, OutsideRanked
<1> QED
  BY <1>2, <1>3

LEMMA TakeRanked ==
    ASSUME Sound, Sound', Timed, Fair(k), Ranked, NEW t \in Worker, Take(t)
    PROVE  Ranked' /\ Fair(k')
<1>1. /\ pc[t] = "take" /\ t \in Ready(k) /\ Passing(t, {}, {}, 0) /\ t \in Task
      /\ Timing(t) /\ k.tick # Unset
  <2>1. k.tick # Unset
    BY WorkerTypes, WidthIs DEF Width, Unset
  <2> QED
    BY <2>1, TakeTurn, Kinds DEF Timed
<1>2. Evenly
  BY <1>1, MarkEvenly DEF Take
<1>3. CASE holder = NULL
  BY <1>2, <1>3, TakenRanked DEF Evenly
<1>4. CASE holder # NULL
  <2>1. CASE UNCHANGED <<k, holder, pc, entered, inherited, waited>>
    <3>1. Harmless(t, {}, 0)
      BY <1>1, <2>1, NothingMore DEF Harmless, Goes, OnItsWay, Taking
    <3> QED
      BY <1>1, <1>2, <2>1, <3>1, InsideRanked
  <2>2. CASE ~inherited[t] /\ Returns(t) /\ UNCHANGED holder
    <3>1. pc'[t] = "logging" /\ entered'[t] = Unset /\ inherited'[t] = FALSE
      BY <2>2, PlaceIs, PutIs, Kinds DEF Returns
    <3>2. inherited'[t] = inherited[t]
      BY <2>2, <3>1 DEF Sound, Locals
    <3>3. Harmless(t, {}, 0)
      BY <1>4, <2>2, <3>1, <3>2 DEF Harmless, Goes, Taking
    <3> QED
      BY <1>1, <1>2, <2>2, <3>3, InsideRanked
  <2>3. CASE /\ Go(t, "suspend") /\ UNCHANGED <<holder, left, inherited, waited>>
             /\ IF entered[t] = Unset THEN Put(entered, t, k.tick) ELSE UNCHANGED entered
    <3>1. pc'[t] = "suspend" /\ entered'[t] # Unset
      BY <1>1, <2>3, PlaceIs, PutIs, Kinds
    <3>2. Goes(t, 0)
      BY <1>1, <2>3, NothingMore DEF Goes, Timing
    <3>3. Harmless(t, {}, 0)
      BY <1>1, <2>3, <3>1, <3>2 DEF Harmless, OnItsWay, Taking
    <3> QED
      BY <1>1, <1>2, <2>3, <3>3, InsideRanked
  <2> QED
    BY <1>4, <2>1, <2>2, <2>3 DEF Take
<1> QED
  BY <1>3, <1>4

LEMMA ExpiredRanked ==
    ASSUME Sound, Sound', Timed, Fair(k), Ranked, NEW t \in Worker, Expired(t)
    PROVE  Ranked' /\ Fair(k')
<1>1. /\ pc[t] = "expired" /\ t \in Ready(k) /\ Passing(t, {}, {}, 0) /\ t \in Task
      /\ UNCHANGED holder
  BY ExpiredTurn, Kinds DEF Expired
<1>2. Evenly
  BY <1>1, MarkEvenly DEF Expired
<1>3. CASE UNCHANGED <<entered, inherited, waited>> /\ (Go(t, "take") \/ (holder # NULL /\ Go(t, "giveup")))
  <2>1. pc'[t] = "take" \/ (holder # NULL /\ pc'[t] = "giveup")
    BY <1>3, PlaceIs, Kinds
  <2>2. Harmless(t, {}, 0)
    BY <1>1, <1>3, <2>1, NothingMore DEF Harmless, Goes, OnItsWay, Taking
  <2> QED
    BY <1>1, <1>2, <2>2, InsideRanked
<1>4. CASE holder # NULL /\ ~inherited[t] /\ Returns(t)
  <2>1. pc'[t] = "logging" /\ entered'[t] = Unset /\ inherited'[t] = FALSE
    BY <1>4, PlaceIs, PutIs, Kinds DEF Returns
  <2>2. inherited'[t] = inherited[t]
    BY <1>4, <2>1 DEF Sound, Locals
  <2>3. Harmless(t, {}, 0)
    BY <1>4, <2>1, <2>2 DEF Harmless, Goes, Taking
  <2> QED
    BY <1>1, <1>2, <2>3, InsideRanked
<1> QED
  BY <1>3, <1>4 DEF Expired

LEMMA GiveUpAlone ==
    ASSUME Sound, Sound', Timed, Fair(k), Ranked, NEW t \in Worker, GiveUp(t), holder = NULL
    PROVE  Ranked' /\ Fair(k')
<1>1. /\ pc[t] = "giveup" /\ t \in Ready(k) /\ Returns(t) /\ Passing(t, {}, {}, 0) /\ t \in Task
      /\ UNCHANGED holder
  BY GiveUpTurn, Kinds DEF GiveUp
<1>2. Evenly
  <2>1. k' = [k EXCEPT !.stale = @ \cup {t}]
    BY DEF GiveUp
  <2> QED
    BY <1>1, <2>1, MarkEvenly
<1>3. pc'[t] = "logging" /\ entered'[t] = Unset
  BY <1>1, PlaceIs, PutIs, Kinds DEF Returns
<1>4. t \notin Owners(k.mwait)
  BY <1>1, RankTypes
<1>5. Harmless(t, {}, 0)
  BY <1>1, <1>3, <1>4 DEF Harmless, Goes, OnItsWay, Taking
<1> QED
  BY <1>1, <1>2, <1>5, InsideRanked

LEMMA BlockRanked ==
    ASSUME Sound, Sound', Timed, Fair(k), Ranked, NEW t \in Worker, NEW n, Block(t, n)
    PROVE  Ranked' /\ Fair(k')
<1>1. /\ pc[t] = "suspend" /\ Later(n) /\ UNCHANGED holder /\ entered[t] # Unset
      /\ waited'[t] = More(waited[t], n, TakeTicks) /\ k.tick # Unset
  <2>1. entered[t] \in TickType /\ k.tick \in TickType
    BY BlockTurn, WorkerTypes
  <2>2. entered[t] # Unset /\ k.tick # Unset
    BY <2>1, WidthIs DEF Width, Unset
  <2> QED
    BY <2>2, BlockTurn, LaterThen
<1>2. Fair(k')
  BY BlockFair
<1>3. CASE ~Over(t) /\ holder # NULL
  BY <1>2, <1>3, LinedRanked
<1>4. CASE Over(t) \/ holder = NULL
  <2>1. /\ Passing(t, {}, {}, n) /\ UNCHANGED inherited
        /\ \/ Go(t, "expired") /\ UNCHANGED entered
           \/ Go(t, "take") /\ Put(entered, t, k.tick)
    BY <1>4, BlockTurn, Kinds DEF Renoted
  <2>2. k'.prio = k.prio
    BY <1>4, BlockDoes, Kinds DEF Ripe, Luckily, Lining, Noting, Onward
  <2>3. /\ pc'[t] \in {"expired", "take"} /\ entered'[t] # Unset
    BY <1>1, <2>1, PlaceIs, PutIs, Kinds
  <2>4. Harmless(t, {}, n)
    BY <1>1, <2>1, <2>3 DEF Harmless, Goes, OnItsWay, Taking
  <2> QED
    BY <1>1, <1>2, <2>1, <2>2, <2>4, InsideRanked DEF Evenly
<1> QED
  BY <1>3, <1>4

LEMMA GiveRanked ==
    ASSUME Sound, Sound', Timed, Fair(k), Ranked, NEW t \in Worker, Give(t)
    PROVE  Ranked' /\ Fair(k')
<1>1. Fair(k')
  BY GiveFair
<1>2. CASE holder # NULL /\ holder' = NULL
  BY <1>1, <1>2, ReleasedRanked
<1>3. CASE UNCHANGED <<holder, k>> /\ (Go(t, "sleep") \/ UNCHANGED pc)
  <2>1. Passing(t, {}, {}, 0) /\ UNCHANGED <<entered, inherited>> /\ pc[t] = "logging"
    BY <1>3, GiveTurn, Kinds
  <2>2. pc[t] \notin Taking /\ pc'[t] \notin Taking
    BY <1>3, <2>1, PlaceIs, Kinds DEF Taking
  <2>3. Evenly
    BY <1>3 DEF Evenly
  <2> QED
    BY <1>3, <2>1, <2>2, <2>3, OutsideRanked
<1> QED
  BY <1>2, <1>3, GiveTurn, Kinds

LEMMA RankedNext ==
    ASSUME Sound, Sound', Timed, [Next]_vars, Fair(k), Ranked
    PROVE  Fair(k') /\ Ranked'
<1> DEFINE Goal == Ranked' /\ Fair(k')
<1>1. ASSUME NEW t \in Worker, NEW n, WaitBits(t, n) PROVE Goal
  <2>1. PICK D : Passing(t, {}, D, n)
    BY <1>1, WaitBitsTurn
  <2>2. /\ UNCHANGED <<holder, entered, inherited>>
        /\ pc[t] \notin Taking /\ pc'[t] \notin Taking
    BY <1>1, WaitBitsTurn, PlaceIs, Kinds DEF Taking
  <2> QED
    BY <1>1, <2>1, <2>2, WaitBitsEvenly, OutsideRanked
<1>2. ASSUME NEW t \in Worker, NEW n, Sleep(t, n) PROVE Goal
  <2>1. PICK D : Passing(t, {}, D, n)
    BY <1>2, SleepTurn
  <2>2. /\ UNCHANGED <<holder, entered, inherited>>
        /\ pc[t] \notin Taking /\ pc'[t] \notin Taking
    BY <1>2, SleepTurn, PlaceIs, Kinds DEF Taking
  <2> QED
    BY <1>2, <2>1, <2>2, SleepEvenly, OutsideRanked
<1>3. ASSUME NEW t \in Worker, NEW n, Block(t, n) PROVE Goal
  BY <1>3, BlockRanked
<1>4. ASSUME NEW t \in Tasks, PortYield(t) PROVE Goal
  BY <1>4, PortYieldRanked
<1>5. ASSUME NEW t \in Worker, Cycle(t) PROVE Goal
  BY <1>5, CycleRanked
<1>6. ASSUME NEW t \in Worker, Take(t) PROVE Goal
  BY <1>6, TakeRanked
<1>7. ASSUME NEW t \in Worker, Expired(t) PROVE Goal
  BY <1>7, ExpiredRanked
<1>8. ASSUME NEW t \in Worker, GiveUp(t) PROVE Goal
  BY <1>8, GivenUpRanked, GiveUpAlone
<1>9. ASSUME NEW t \in Worker, Give(t) PROVE Goal
  BY <1>9, GiveRanked
<1>10. ASSUME NEW n, InitDevices(n) PROVE Goal
  <2>1. PICK D : Passing(Starter, {}, D, n)
    BY <1>10, InitDevicesTurn
  <2> QED
    BY <1>10, <2>1, InitDevicesTurn, InitDevicesEvenly, Kinds, OutsideRanked
<1>11. ASSUME NEW n, SetBits(n) PROVE Goal
  <2>1. PICK S : S = Owners(k.bwait)
    OBVIOUS
  <2>2. Passing(Starter, S, {}, n) /\ Starter \notin Worker /\ UNCHANGED holder
    BY <1>11, <2>1, SetBitsTurn, Kinds
  <2>3. Owners(k.mwait) \cap S = {}
    BY <2>1, SteadyState DEF Sound, Filing, Waiters
  <2> QED
    BY <1>11, <2>2, <2>3, SetBitsEvenly, OutsideRanked
<1>12. ASSUME Suspend PROVE Goal
  BY <1>12, SuspendTurn, SuspendEvenly, Kinds, OutsideRanked
<1>13. ASSUME Tick PROVE Goal
  BY <1>13, TickTurn, TickEvenly, Kinds, OutsideRanked
<1>14. ASSUME UNCHANGED vars PROVE Goal
  <2>1. UNCHANGED holder /\ Evenly
    BY <1>14 DEF vars, Evenly
  <2> QED
    BY <1>14, <2>1, StutterTurn, Kinds, OutsideRanked
<1> QED
  BY <1>1, <1>2, <1>3, <1>4, <1>5, <1>6, <1>7, <1>8, <1>9, <1>10, <1>11, <1>12, <1>13, <1>14,
     Kinds DEF Next, Step, Hang

LEMMA RankedInit == Init => Fair(k) /\ Ranked
<1> SUFFICES ASSUME Init PROVE Fair(k) /\ Ranked
  OBVIOUS
<1>1. /\ k.mwait = <<>> /\ k.prio = Base /\ k.cur \in Task /\ Ready(k) = Task
      /\ \A u \in Task : Base[u] <= Base[k.cur]
  BY StartedIs DEF Init, Begun, Led
<1>2. Owners(k.mwait) = {} /\ holder = NULL /\ \A t \in Worker : pc[t] = "boot"
  BY <1>1, NoItems, Kinds DEF Init
<1> QED
  BY <1>1, <1>2 DEF Fair, Highest, Ranked, Ranks, Own, Served, Marked, Coming, Caused, Earlier,
                    Lying, Taking

Ruled == Fair(k) /\ Ranked

LEMMA RuledHolds == Spec => []Ruled
<1>1. Sound /\ Sound' /\ Timed /\ [Next]_vars /\ Ruled => Ruled'
  BY RankedNext DEF Ruled
<1>2. Init => Ruled
  BY RankedInit DEF Ruled
<1> QED
  BY <1>1, <1>2, SoundHolds, TimedHolds, PTL DEF Spec

(***************************************************************************)
(* The highest priority runs: whatever is given back, lowered, set or      *)
(* timed out, no ready task has a higher priority than the one that runs,  *)
(* but for a task that has put itself to sleep and is about to yield.      *)
(***************************************************************************)
THEOREM HighestAlwaysRuns == Spec => []HighestRuns
<1>1. Ruled => HighestRuns
  BY DEF Ruled, Fair, Highest, HighestRuns
<1> QED
  BY <1>1, RuledHolds, PTL

(***************************************************************************)
(* Priorities are inherited: the holder of the mutex runs at the priority  *)
(* of whoever waits for it, and above its own only while somebody of that  *)
(* priority is in a take that raised it; what a take that timed out or a   *)
(* give leaves behind is no priority of anybody gone.                      *)
(***************************************************************************)
THEOREM PrioritiesAreInherited == Spec => []Inheritance
<1>1. Sound /\ Ruled => Inheritance
  <2> SUFFICES ASSUME Sound, Ranked PROVE Inheritance
    BY DEF Ruled
  <2>1. ASSUME holder # NULL, NEW w \in Owners(k.mwait) PROVE k.prio[holder] >= k.prio[w]
    BY <2>1, RankTypes DEF Ranked, Ranks, Served
  <2>2. ASSUME NEW t \in Task, k.prio[t] # Base[t]
        PROVE  /\ t = holder
               /\ \E u \in Worker \ {t} : inherited[u] /\ k.prio[u] = k.prio[t]
    <3>1. t = holder /\ holder # NULL
      BY <2>2, Kinds, KernelAssumption DEF Ranked, Ranks, Own
    <3> QED
      BY <2>2, <3>1 DEF Ranked, Ranks, Caused, Cause
  <2> QED
    BY <2>1, <2>2 DEF Inheritance
<1> QED
  BY <1>1, RuledHolds, SoundHolds, PTL

=============================================================================
