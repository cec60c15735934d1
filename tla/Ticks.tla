------------------------------- MODULE Ticks -------------------------------
(***************************************************************************)
(* The kernel's tick arithmetic.  TickType_t is an unsigned integer of W   *)
(* values (W is 2^32 on this port; the runs use a small W, the proofs any).*)
(***************************************************************************)
EXTENDS Integers

CONSTANT W

ASSUME TickAssumption == W \in Nat /\ W > 1

TickType == 0 .. W - 1

(* portMAX_DELAY: to a call that may block for ever it means for ever. *)
MaxDelay == W - 1

(* The tick at which a wait of n ticks that starts at tick `now` ends. *)
TimeToWake(now, n) == (now + n) % W

(* Ticks from tick a to tick b, round the wrap. *)
Elapsed(a, b) == (b - a) % W

(* pdMS_TO_TICKS: the product is a TickType_t too, and wraps. *)
MsToTicks(ms, rate) == ((ms * rate) % W) \div 1000

ShouldDelayUnwrapped(now, last, n) == \* mutant: compares across the wrap
    TimeToWake(last, n) > now

(***************************************************************************)
(* vTaskDelayUntil: whether a task that should next wake at last + n has   *)
(* to wait at all at tick `now`.                                           *)
(***************************************************************************)
ShouldDelay(now, last, n) ==
    LET wake == TimeToWake(last, n)
    IN  IF now < last THEN wake < last /\ wake > now
                      ELSE wake < last \/ wake > now

TimedOutByWrap(now, entered, wrapped, n) == \* mutant: a wrap ends the wait
    n # MaxDelay /\ (wrapped \/ Elapsed(entered, now) >= n)

(***************************************************************************)
(* xTaskCheckForTimeOut: whether a wait of n ticks noted at tick `entered` *)
(* is over at tick `now`.  `wrapped` says that xNumOfOverflows has changed *)
(* since; a wait of MaxDelay never ends.                                   *)
(***************************************************************************)
TimedOut(now, entered, wrapped, n) ==
    /\ n # MaxDelay
    /\ \/ wrapped /\ now >= entered
       \/ Elapsed(entered, now) >= n
=============================================================================
