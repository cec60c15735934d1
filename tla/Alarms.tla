------------------------------- MODULE Alarms -------------------------------
(***************************************************************************)
(* What the tasks may expect of the kernel's clock: a task that goes to    *)
(* sleep for n ticks is awake again after exactly n ticks, neither sooner  *)
(* nor later, wherever the tick counter wraps and whoever else sleeps; one *)
(* that waits for something as well may also be woken sooner, and one that *)
(* is awake waits for nothing.                                             *)
(***************************************************************************)
EXTENDS Integers

CONSTANTS
    Sleeper,
    Wrap,       \* number of values of the tick counter
    Longest,    \* the longest sleep asked for
    MaxTicks    \* bound: ticks that pass in one step

VARIABLES
    now,        \* the tick counter
    left,       \* the ticks each task still has to sleep; 0 when it is awake
    waits       \* the sleeping tasks that something else may wake

After(n, m) == IF n > m THEN n - m ELSE 0

Init == now = 0 /\ left = [t \in Sleeper |-> 0] /\ waits = {}

(* The tasks of `woken` are woken, those of `dozing` fall asleep, m ticks pass. *)
Step(m, woken, dozing, n, may) ==
    LET asleep == [t \in Sleeper |-> IF t \in woken THEN 0
                                     ELSE IF t \in dozing THEN n ELSE left[t]]
    IN  /\ now' = (now + m) % Wrap
        /\ left' = [t \in Sleeper |-> After(asleep[t], m)]
        /\ waits' = {t \in (waits \ woken) \cup may : left'[t] > 0}

Next == \E m \in 0 .. MaxTicks, woken \in SUBSET waits, n \in 1 .. Longest :
          \/ Step(m, woken, {}, 0, {})
          \/ \E t \in Sleeper, may \in {TRUE, FALSE} :
               /\ left[t] = 0 /\ woken = {}
               /\ Step(m, {}, {t}, n, IF may THEN {t} ELSE {})

Spec == Init /\ [][Next]_<<now, left, waits>>
=============================================================================
