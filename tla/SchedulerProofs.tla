--------------------------- MODULE SchedulerProofs ---------------------------
(***************************************************************************)
(* What is proved of the operators the kernel is built from, for every set *)
(* of tasks and every width of the tick counter:                           *)
(*   - the tick arithmetic of Ticks is exact across its wrap;              *)
(*   - lemmas on the lists of Lists: what each operation keeps and holds;  *)
(*   - lemmas on each operation of Scheduler: what it returns when it is   *)
(*     called on a state whose lists agree, under the lock of the          *)
(*     scheduler (Frozen, Passed) and from one call to the next (Steady).  *)
(***************************************************************************)
EXTENDS Kernel, FiniteSetTheorems, TLAPS

-----------------------------------------------------------------------------
(***************************************************************************)
(* The tick arithmetic.                                                    *)
(***************************************************************************)
(* A number that has gone round at most once, either way, is reduced by    *)
(* adding or taking off one turn.                                          *)
LEMMA ModOnce ==
    ASSUME NEW x \in Int
    PROVE  /\ 0 <= x /\ x < W => x % W = x
           /\ -W <= x /\ x < 0 => x % W = x + W
           /\ W <= x /\ x < 2 * W => x % W = x - W
<1>1. W \in Nat /\ W > 1
  BY TickAssumption
<1>2. x % W \in 0 .. W - 1
  BY <1>1
<1>3. x = W * (x \div W) + (x % W)
  BY <1>1, SMT
<1> QED
  BY <1>1, <1>2, <1>3, SMTT(30)

LEMMA Multiples ==
    ASSUME NEW w \in Nat, w > 1, NEW d \in Int
    PROVE  (d >= 2 => w * d >= 2 * w) /\ (d <= -1 => w * d <= -w)
<1>1. d >= 2 => w * (d - 2) >= 0
  OBVIOUS
<1>2. d <= -1 => w * (-1 - d) >= 0
  OBVIOUS
<1>3. w * (d - 2) = w * d - 2 * w
  OBVIOUS
<1>4. w * (-1 - d) = -w - w * d
  OBVIOUS
<1> QED
  BY <1>1, <1>2, <1>3, <1>4

(* Counting on from a reduced number is counting on from the number. *)
LEMMA ModNext ==
    ASSUME NEW a \in Nat
    PROVE  ((a % W) + 1) % W = (a + 1) % W
<1>1. W \in Nat /\ W > 1
  BY TickAssumption
<1>2. PICK q \in Int : q = a \div W
  BY <1>1
<1>3. PICK r \in 0 .. W - 1 : r = a % W
  BY <1>1
<1>4. PICK q2 \in Int : q2 = (a + 1) \div W
  BY <1>1
<1>5. PICK r2 \in 0 .. W - 1 : r2 = (a + 1) % W
  BY <1>1
<1>6. a = W * q + r
  BY <1>1, <1>2, <1>3, SMT
<1>7. a + 1 = W * q2 + r2
  BY <1>1, <1>4, <1>5, SMT
<1>8. W * (q2 - q) = r + 1 - r2
  BY <1>1, <1>6, <1>7
<1>9. q2 - q = 0 \/ q2 - q = 1
  BY <1>1, <1>8, Multiples
<1>10. CASE q2 - q = 0
  BY <1>1, <1>3, <1>5, <1>8, <1>10, ModOnce
<1>11. CASE q2 - q = 1
  BY <1>1, <1>3, <1>5, <1>8, <1>11, ModOnce
<1> QED
  BY <1>9, <1>10, <1>11

LEMMA WakeInRange ==
    ASSUME NEW now \in TickType, NEW n \in TickType
    PROVE  /\ TimeToWake(now, n) \in TickType
           /\ TimeToWake(now, n) = IF now + n < W THEN now + n ELSE now + n - W
<1>1. W \in Nat /\ W > 1 /\ now \in 0 .. W - 1 /\ n \in 0 .. W - 1
  BY TickAssumption DEF TickType
<1>2. CASE now + n < W
  <2>1. (now + n) % W = now + n
    BY <1>1, <1>2, ModOnce
  <2> QED
    BY <1>1, <1>2, <2>1 DEF TimeToWake, TickType
<1>3. CASE ~(now + n < W)
  <2>1. (now + n) % W = now + n - W
    BY <1>1, <1>3, ModOnce
  <2> QED
    BY <1>1, <1>3, <2>1 DEF TimeToWake, TickType
<1> QED
  BY <1>2, <1>3

LEMMA ElapsedIsDifference ==
    ASSUME NEW a \in TickType, NEW b \in TickType
    PROVE  Elapsed(a, b) = IF a <= b THEN b - a ELSE b - a + W
<1>1. W \in Nat /\ W > 1 /\ a \in 0 .. W - 1 /\ b \in 0 .. W - 1
  BY TickAssumption DEF TickType
<1>2. CASE a <= b
  BY <1>1, <1>2, ModOnce DEF Elapsed
<1>3. CASE ~(a <= b)
  BY <1>1, <1>3, ModOnce DEF Elapsed
<1> QED
  BY <1>2, <1>3

(***************************************************************************)
(* vTaskDelayUntil, called e ticks after last_cycle was read and less than *)
(* one turn of the counter after it, lets its caller sleep just when the   *)
(* period of n ticks is not over, and for the rest of it, wherever the     *)
(* counter wraps.                                                          *)
(***************************************************************************)
THEOREM DelayUntilIsExact ==
    ASSUME NEW began \in TickType, NEW n \in TickType, NEW e \in TickType
    PROVE  LET now == TimeToWake(began, e)
           IN  /\ ShouldDelay(now, began, n) <=> e < n
               /\ e < n => Elapsed(now, TimeToWake(began, n)) = n - e
<1> DEFINE now == TimeToWake(began, e)
           wake == TimeToWake(began, n)
<1>1. /\ W \in Nat /\ W > 1
      /\ began \in 0 .. W - 1 /\ n \in 0 .. W - 1 /\ e \in 0 .. W - 1
  BY TickAssumption DEF TickType
<1>2. /\ now \in 0 .. W - 1
      /\ now = IF began + e < W THEN began + e ELSE began + e - W
  BY WakeInRange DEF TickType
<1>3. /\ wake \in 0 .. W - 1
      /\ wake = IF began + n < W THEN began + n ELSE began + n - W
  BY WakeInRange DEF TickType
<1>4. Elapsed(now, wake) = IF now <= wake THEN wake - now ELSE wake - now + W
  BY <1>2, <1>3, ElapsedIsDifference DEF TickType
<1>5. ShouldDelay(now, began, n) <=> (IF now < began THEN wake < began /\ wake > now
                                                   ELSE wake < began \/ wake > now)
  BY DEF ShouldDelay
<1> HIDE DEF now, wake
<1>6. ShouldDelay(now, began, n) <=> e < n
  BY <1>1, <1>2, <1>3, <1>5
<1>7. e < n => Elapsed(now, wake) = n - e
  BY <1>1, <1>2, <1>3, <1>4
<1> QED
  BY <1>6, <1>7 DEF now, wake

(***************************************************************************)
(* xTaskCheckForTimeOut, called r ticks after a wait was noted at tick     *)
(* `noted`, says that a wait of n ticks is over just when r is at least n, *)
(* provided that the counter has wrapped no more than once since.          *)
(***************************************************************************)
THEOREM TimeOutIsExact ==
    ASSUME NEW noted \in TickType, NEW n \in TickType, n # MaxDelay,
           NEW r \in Nat, noted + r < 2 * W
    PROVE  TimedOut((noted + r) % W, noted, noted + r >= W, n) <=> r >= n
<1> DEFINE now == (noted + r) % W
<1>1. W \in Nat /\ W > 1 /\ noted \in 0 .. W - 1 /\ n \in 0 .. W - 1
  BY TickAssumption DEF TickType
<1>2. /\ now \in 0 .. W - 1
      /\ now = IF noted + r < W THEN noted + r ELSE noted + r - W
  <2>1. CASE noted + r < W
    BY <1>1, <2>1, ModOnce
  <2>2. CASE ~(noted + r < W)
    BY <1>1, <2>2, ModOnce
  <2> QED
    BY <2>1, <2>2
<1>3. Elapsed(noted, now) = IF noted <= now THEN now - noted
                                                 ELSE now - noted + W
  BY <1>2, ElapsedIsDifference DEF TickType
<1>4. TimedOut(now, noted, noted + r >= W, n) <=>
          (noted + r >= W /\ now >= noted) \/ Elapsed(noted, now) >= n
  BY DEF TimedOut
<1> HIDE DEF now
<1>5. TimedOut(now, noted, noted + r >= W, n) <=> r >= n
  BY <1>1, <1>2, <1>3, <1>4
<1> QED
  BY <1>5 DEF now

(***************************************************************************)
(* pdMS_TO_TICKS is exact, at one tick in a millisecond, as long as the    *)
(* product fits the counter.                                               *)
(***************************************************************************)
THEOREM ShortTimesConvert ==
    ASSUME NEW ms \in Nat, 1000 * ms < W
    PROVE  MsToTicks(ms, 1000) = ms
<1>1. (ms * 1000) % W = ms * 1000
  BY TickAssumption, ModOnce
<1> QED
  BY <1>1 DEF MsToTicks

(***************************************************************************)
(* The product does not fit for TASK_SYSTEM_RESET_PERIOD_MS: vTaskDelay is *)
(* asked for 1640261 ticks, 27 minutes, in place of ten hours.             *)
(***************************************************************************)
THEOREM ResetPeriodWraps ==
    W = 4294967296 => MsToTicks(36000000, 1000) = 1640261
  BY DEF MsToTicks

-----------------------------------------------------------------------------
(***************************************************************************)
(* Induction, over sets instead of formulas.                               *)
(***************************************************************************)
LEMMA Induct ==
    ASSUME NEW S, 0 \in S, \A n \in Nat : n \in S => n + 1 \in S
    PROVE  Nat \subseteq S
<1> SUFFICES ASSUME NEW m \in Nat, m \notin S PROVE FALSE
  OBVIOUS
<1> DEFINE A == (0 .. m) \cap S
           f == [n \in A |-> n + 1]
<1>1. IsFiniteSet(A) /\ IsFiniteSet(A \ {0})
  <2>1. 0 \in Int /\ m \in Int
    OBVIOUS
  <2>2. IsFiniteSet(0 .. m)
    BY <2>1, FS_Interval
  <2>3. A \in SUBSET (0 .. m)
    OBVIOUS
  <2> QED
    BY <2>2, <2>3, FS_Subset, FS_RemoveElement
<1>2. Cardinality(A \ {0}) < Cardinality(A)
  <2>1. Cardinality(A) \in Nat
    BY <1>1, FS_CardinalityType
  <2>2. 0 \in A
    OBVIOUS
  <2>3. Cardinality(A \ {0}) = Cardinality(A) - 1
    BY <1>1, <2>2, FS_RemoveElement
  <2> QED
    BY <2>1, <2>3
<1>3. f \in [A -> A \ {0}]
  OBVIOUS
<1>4. \E x, y \in A : x # y /\ f[x] = f[y]
  <2> HIDE DEF A, f
  <2> QED
    BY <1>1, <1>2, <1>3, FS_PigeonHole
<1> QED
  BY <1>4

(* A set of places that holds every place before one of its own is the     *)
(* places up to some number, which is its size.                            *)
LEMMA Prefix ==
    ASSUME NEW m \in Nat, NEW D \in SUBSET (1 .. m),
           \A i \in D : \A j \in 1 .. i : j \in D
    PROVE  Cardinality(D) \in 0 .. m /\ D = 1 .. Cardinality(D)
<1> DEFINE S == {n \in Nat : n \in D \/ n = 0 \/ \E l \in 0 .. n : D = 1 .. l}
<1>1. 0 \in S
  OBVIOUS
<1>2. ASSUME NEW n \in Nat, n \in S PROVE n + 1 \in S
  <2>1. CASE \E l \in 0 .. n : D = 1 .. l
    BY <2>1
  <2>2. CASE n + 1 \in D
    BY <2>2
  <2>3. CASE (n \in D \/ n = 0) /\ n + 1 \notin D
    <3>1. 1 .. n \subseteq D
      BY <2>3
    <3>2. \A i \in D : i <= n
      <4> SUFFICES ASSUME NEW i \in D, i > n PROVE FALSE
        OBVIOUS
      <4>1. n + 1 \in 1 .. i
        OBVIOUS
      <4> QED
        BY <2>3, <4>1
    <3>3. D \subseteq 1 .. n
      BY <3>2
    <3>4. D = 1 .. n
      BY <3>1, <3>3
    <3> QED
      BY <3>4
  <2> QED
    BY <1>2, <2>1, <2>2, <2>3
<1>3. m + 1 \in S
  <2> HIDE DEF S
  <2>1. Nat \subseteq S
    BY <1>1, <1>2, Induct
  <2> QED
    BY <2>1
<1>4. PICK l \in 0 .. m + 1 : D = 1 .. l
  BY <1>3
<1>5. l \in 0 .. m
  BY <1>4
<1>6. Cardinality(1 .. l) = l
  <2>1. 1 \in Int /\ l \in Int
    BY <1>5
  <2> QED
    BY <1>5, <2>1, FS_Interval
<1> QED
  BY <1>4, <1>5, <1>6

(* A bounded set of numbers that is not empty has a greatest one.          *)
LEMMA Greatest ==
    ASSUME NEW m \in Nat, NEW D \in SUBSET (0 .. m), D # {}
    PROVE  \E p \in D : \A q \in D : q <= p
<1> DEFINE S == {n \in Nat : \A E \in SUBSET (0 .. n) : E # {} => \E p \in E : \A q \in E : q <= p}
<1>1. 0 \in S
  <2>1. ASSUME NEW E \in SUBSET (0 .. 0), E # {} PROVE \E p \in E : \A q \in E : q <= p
    <3>1. \A x \in E : x = 0
      OBVIOUS
    <3>2. 0 \in E
      BY <2>1, <3>1
    <3> QED
      BY <3>1, <3>2
  <2> QED
    BY <2>1
<1>2. ASSUME NEW n \in Nat, n \in S PROVE n + 1 \in S
  <2> SUFFICES ASSUME NEW E \in SUBSET (0 .. n + 1), E # {}
               PROVE  \E p \in E : \A q \in E : q <= p
    OBVIOUS
  <2>1. CASE n + 1 \in E
    BY <2>1
  <2>2. CASE n + 1 \notin E
    <3>1. E \in SUBSET (0 .. n)
      BY <2>2
    <3> QED
      BY <1>2, <3>1
  <2> QED
    BY <2>1, <2>2
<1>3. m \in S
  <2> HIDE DEF S
  <2> QED
    BY <1>1, <1>2, Induct
<1> QED
  BY <1>3

-----------------------------------------------------------------------------
(***************************************************************************)
(* The lists.                                                              *)
(***************************************************************************)
LEMMA Concatenated ==
    ASSUME NEW S, NEW a \in Seq(S), NEW b \in Seq(S)
    PROVE  /\ a \o b \in Seq(S) /\ Len(a \o b) = Len(a) + Len(b)
           /\ \A i \in 1 .. Len(a) : (a \o b)[i] = a[i]
           /\ \A i \in 1 .. Len(b) : (a \o b)[Len(a) + i] = b[i]
  OBVIOUS

LEMMA WithoutPlaces ==
    ASSUME NEW S, NEW s \in Seq(S), NEW n \in 1 .. Len(s)
    PROVE  /\ Without(s, n) \in Seq(S) /\ Len(Without(s, n)) = Len(s) - 1
           /\ \A i \in 1 .. n - 1 : Without(s, n)[i] = s[i]
           /\ \A i \in n .. Len(s) - 1 : Without(s, n)[i] = s[i + 1]
<1>1. Len(s) \in Nat /\ n \in Nat /\ 1 <= n /\ n <= Len(s)
  OBVIOUS
<1>2. PICK a : a = SubSeq(s, 1, n - 1)
  OBVIOUS
<1>3. PICK b : b = SubSeq(s, n + 1, Len(s))
  OBVIOUS
<1>4. PICK c : c = Without(s, n)
  OBVIOUS
<1>5. /\ a \in Seq(S) /\ Len(a) = n - 1
      /\ \A i \in 1 .. n - 1 : a[i] = s[i]
  BY <1>2
<1>6. /\ b \in Seq(S) /\ Len(b) = Len(s) - n
      /\ \A i \in 1 .. Len(s) - n : b[i] = s[i + n]
  BY <1>3
<1>7. c = a \o b
  BY <1>2, <1>3, <1>4 DEF Without
<1>8. /\ c \in Seq(S) /\ Len(c) = Len(a) + Len(b)
      /\ \A i \in 1 .. Len(a) : c[i] = a[i]
      /\ \A i \in 1 .. Len(b) : c[Len(a) + i] = b[i]
  <2>1. a \in Seq(S) /\ b \in Seq(S)
    BY <1>5, <1>6
  <2> QED
    BY <1>7, <2>1, Concatenated
<1>9. ASSUME NEW i \in n .. Len(s) - 1 PROVE c[i] = s[i + 1]
  <2>1. i - (n - 1) \in 1 .. Len(b) /\ i = Len(a) + (i - (n - 1)) /\ i + 1 = (i - (n - 1)) + n
    BY <1>1, <1>5, <1>6
  <2>2. c[i] = b[i - (n - 1)]
    BY <1>8, <2>1
  <2> QED
    BY <1>6, <2>1, <2>2
<1> QED
  BY <1>1, <1>4, <1>5, <1>6, <1>8, <1>9

(* A ring holds its end marker and each of its tasks once.                 *)
Distinct(s) == \A i, j \in DOMAIN s : s[i] = s[j] => i = j

Ring == {r \in Seq(Task \cup {Mark}) : Distinct(r) /\ \E i \in DOMAIN r : r[i] = Mark}

LEMMA RingFacts ==
    ASSUME NEW r \in Ring
    PROVE  /\ r \in Seq(Task \cup {Mark}) /\ Len(r) \in Nat /\ Len(r) >= 1
           /\ DOMAIN r = 1 .. Len(r) /\ Distinct(r) /\ Mark \notin Task
           /\ RingItems(r) \subseteq Task
           /\ \A t \in Task : t \in RingItems(r) <=> \E i \in 1 .. Len(r) : r[i] = t
           /\ RingIsEmpty(r) <=> RingItems(r) = {}
<1>1. /\ r \in Seq(Task \cup {Mark}) /\ Len(r) \in Nat /\ DOMAIN r = 1 .. Len(r) /\ Distinct(r)
      /\ \A i \in 1 .. Len(r) : r[i] \in Task \cup {Mark}
  BY DEF Ring
<1>2. PICK m \in 1 .. Len(r) : r[m] = Mark
  BY <1>1 DEF Ring
<1>3. Mark \notin Task
  BY KernelAssumption
<1>4. /\ RingItems(r) \subseteq Task
      /\ \A t \in Task : t \in RingItems(r) <=> \E i \in 1 .. Len(r) : r[i] = t
  BY <1>1, <1>3 DEF RingItems
<1>5. RingIsEmpty(r) <=> RingItems(r) = {}
  <2>1. ASSUME r = <<Mark>> PROVE RingItems(r) = {}
    BY <2>1 DEF RingItems
  <2>2. ASSUME RingItems(r) = {} PROVE r = <<Mark>>
    <3>1. \A i \in 1 .. Len(r) : r[i] = Mark
      BY <1>1, <2>2 DEF RingItems
    <3>2. \A i \in 1 .. Len(r) : i = m
      BY <1>1, <1>2, <3>1 DEF Distinct
    <3>3. 1 \in 1 .. Len(r) /\ Len(r) \in 1 .. Len(r)
      BY <1>1, <1>2
    <3>4. Len(r) = 1 /\ r[1] = Mark
      BY <3>1, <3>2, <3>3
    <3> QED
      BY <1>1, <3>4
  <2> QED
    BY <2>1, <2>2 DEF RingIsEmpty, EmptyRing
<1> QED
  BY <1>1, <1>2, <1>3, <1>4, <1>5

LEMMA EmptyRingIsRing == EmptyRing \in Ring /\ RingItems(EmptyRing) = {}
  BY DEF EmptyRing, Ring, Distinct, RingItems

LEMMA RingInsert ==
    ASSUME NEW r \in Ring, NEW t \in Task, t \notin RingItems(r)
    PROVE  InsertEnd(r, t) \in Ring /\ RingItems(InsertEnd(r, t)) = RingItems(r) \cup {t}
<1>s. PICK s : s = InsertEnd(r, t)
  OBVIOUS
<1>0. PICK n \in Nat : n = Len(r)
  BY RingFacts
<1>1. /\ r \in Seq(Task \cup {Mark}) /\ n \in Nat /\ n >= 1 /\ Distinct(r) /\ DOMAIN r = 1 .. n
      /\ t # Mark /\ \A i \in 1 .. n : r[i] # t
  BY <1>0, RingFacts
<1>2. /\ s \in Seq(Task \cup {Mark}) /\ Len(s) = n + 1
      /\ \A i \in 1 .. n - 1 : s[i] = r[i]
      /\ s[n] = t /\ s[n + 1] = r[n]
  <2>1. PICK a : a = SubSeq(r, 1, n - 1)
    OBVIOUS
  <2>2. a \in Seq(Task \cup {Mark}) /\ Len(a) = n - 1 /\ \A i \in 1 .. n - 1 : a[i] = r[i]
    BY <1>1, <2>1
  <2>3. PICK b : b = <<t, r[n]>>
    OBVIOUS
  <2>4. b \in Seq(Task \cup {Mark}) /\ Len(b) = 2 /\ b[1] = t /\ b[2] = r[n]
    BY <1>1, <2>3
  <2>5. /\ s \in Seq(Task \cup {Mark}) /\ Len(s) = Len(a) + Len(b)
        /\ \A i \in 1 .. Len(a) : s[i] = a[i]
        /\ \A i \in 1 .. Len(b) : s[Len(a) + i] = b[i]
    <3>1. s = a \o b
      BY <1>0, <1>s, <2>1, <2>3 DEF InsertEnd
    <3>2. a \in Seq(Task \cup {Mark}) /\ b \in Seq(Task \cup {Mark})
      BY <2>2, <2>4
    <3> QED
      BY <3>1, <3>2, Concatenated
  <2>6. \A i \in 1 .. n - 1 : s[i] = r[i]
    BY <2>2, <2>5
  <2>7. s[n] = t /\ s[n + 1] = r[n]
    <3>1. n = n - 1 + 1 /\ n + 1 = n - 1 + 2 /\ 1 \in 1 .. 2 /\ 2 \in 1 .. 2
      BY <1>1
    <3> QED
      BY <2>2, <2>4, <2>5, <3>1
  <2>8. Len(s) = n + 1
    BY <2>2, <2>4, <2>5
  <2> QED
    BY <2>5, <2>6, <2>7, <2>8
<1>3. DOMAIN s = 1 .. n + 1
  BY <1>1, <1>2
<1>4. Distinct(s)
  <2> SUFFICES ASSUME NEW i \in 1 .. n + 1, NEW j \in 1 .. n + 1, s[i] = s[j], i < j PROVE FALSE
    BY <1>1, <1>3 DEF Distinct
  <2> QED
    BY <1>1, <1>2 DEF Distinct
<1>5. \E i \in DOMAIN s : s[i] = Mark
  <2>1. PICK i \in 1 .. n : r[i] = Mark
    BY <1>1 DEF Ring
  <2>2. CASE i = n
    BY <1>1, <1>2, <1>3, <2>1, <2>2
  <2>3. CASE i < n
    BY <1>1, <1>2, <1>3, <2>1, <2>3
  <2>4. i \in Nat /\ i <= n
    BY <1>1
  <2> QED
    BY <1>1, <2>2, <2>3, <2>4
<1>6. RingItems(s) \subseteq RingItems(r) \cup {t}
  BY <1>1, <1>2, <1>3 DEF RingItems
<1>7. t \in RingItems(s)
  BY <1>1, <1>2, <1>3 DEF RingItems
<1>8. ASSUME NEW i \in 1 .. n, r[i] # Mark PROVE r[i] \in RingItems(s)
  <2>1. CASE i = n
    BY <1>1, <1>2, <1>3, <1>8, <2>1 DEF RingItems
  <2>2. CASE i < n
    BY <1>1, <1>2, <1>3, <1>8, <2>2 DEF RingItems
  <2>3. i \in Nat /\ i <= n
    BY <1>1
  <2> QED
    BY <1>1, <2>1, <2>2, <2>3
<1>9. RingItems(s) = RingItems(r) \cup {t}
  BY <1>1, <1>6, <1>7, <1>8 DEF RingItems
<1> QED
  BY <1>s, <1>2, <1>4, <1>5, <1>9 DEF Ring

(* What is left of a sequence without repetitions when one place is taken. *)
LEMMA WithoutItem ==
    ASSUME NEW S, NEW s \in Seq(S), Distinct(s), NEW n \in 1 .. Len(s)
    PROVE  /\ Distinct(Without(s, n))
           /\ Items(Without(s, n)) = Items(s) \ {s[n]}
<1>1. PICK c : c = Without(s, n)
  OBVIOUS
<1>2. PICK m \in Nat : m = Len(s)
  OBVIOUS
<1>3. /\ c \in Seq(S) /\ Len(c) = m - 1 /\ n \in 1 .. m /\ DOMAIN s = 1 .. m
      /\ \A i \in 1 .. n - 1 : c[i] = s[i]
      /\ \A i \in n .. m - 1 : c[i] = s[i + 1]
  <2>1. /\ Without(s, n) \in Seq(S) /\ Len(Without(s, n)) = Len(s) - 1
        /\ \A i \in 1 .. n - 1 : Without(s, n)[i] = s[i]
        /\ \A i \in n .. Len(s) - 1 : Without(s, n)[i] = s[i + 1]
    BY WithoutPlaces
  <2>2. n \in 1 .. m /\ DOMAIN s = 1 .. m
    BY <1>2
  <2> QED
    BY <1>1, <1>2, <2>1, <2>2
<1>4. DOMAIN c = 1 .. m - 1 /\ n \in Nat
  BY <1>3
<1>5. ASSUME NEW i \in 1 .. m - 1
      PROVE  \E j \in 1 .. m : c[i] = s[j] /\ j # n /\ (j = i \/ (i >= n /\ j = i + 1)) /\ (i >= n => j = i + 1)
  <2>1. i \in Nat /\ (i < n \/ i >= n)
    BY <1>4
  <2>2. CASE i < n
    BY <1>3, <1>4, <2>1, <2>2
  <2>3. CASE i >= n
    <3>1. i \in n .. m - 1 /\ i + 1 \in 1 .. m /\ i + 1 # n
      BY <1>4, <2>1, <2>3
    <3> QED
      BY <1>3, <2>3, <3>1
  <2> QED
    BY <2>1, <2>2, <2>3
<1>6. Distinct(c)
  <2> SUFFICES ASSUME NEW i \in 1 .. m - 1, NEW j \in 1 .. m - 1, c[i] = c[j] PROVE i = j
    BY <1>4 DEF Distinct
  <2>1. PICK x \in 1 .. m : c[i] = s[x] /\ (x = i \/ (i >= n /\ x = i + 1)) /\ (i >= n => x = i + 1)
    BY <1>5
  <2>2. PICK y \in 1 .. m : c[j] = s[y] /\ (y = j \/ (j >= n /\ y = j + 1)) /\ (j >= n => y = j + 1)
    BY <1>5
  <2>3. x = y
    BY <1>3, <2>1, <2>2 DEF Distinct
  <2> QED
    BY <1>3, <1>4, <2>1, <2>2, <2>3
<1>7. Items(c) \subseteq Items(s) \ {s[n]}
  <2> SUFFICES ASSUME NEW i \in 1 .. m - 1 PROVE c[i] \in Items(s) \ {s[n]}
    BY <1>4 DEF Items
  <2>1. PICK j \in 1 .. m : c[i] = s[j] /\ j # n
    BY <1>5
  <2> QED
    BY <1>3, <2>1 DEF Items, Distinct
<1>8. ASSUME NEW j \in 1 .. m, s[j] # s[n] PROVE s[j] \in Items(c)
  <2>1. j \in Nat /\ (j < n \/ j > n)
    BY <1>4, <1>8
  <2>2. CASE j < n
    <3>1. j \in 1 .. n - 1 /\ j \in 1 .. m - 1
      BY <1>3, <1>4, <2>1, <2>2
    <3> QED
      BY <1>3, <1>4, <3>1 DEF Items
  <2>3. CASE j > n
    <3>1. j - 1 \in n .. m - 1 /\ j - 1 \in 1 .. m - 1 /\ (j - 1) + 1 = j
      BY <1>4, <2>1, <2>3
    <3> QED
      BY <1>3, <1>4, <3>1 DEF Items
  <2> QED
    BY <2>1, <2>2, <2>3
<1>9. Items(c) = Items(s) \ {s[n]}
  <2>1. ASSUME NEW x \in Items(s) \ {s[n]} PROVE x \in Items(c)
    <3>1. PICK j \in 1 .. m : x = s[j]
      BY <1>3 DEF Items
    <3> QED
      BY <1>8, <3>1
  <2> QED
    BY <1>7, <2>1
<1> QED
  BY <1>1, <1>6, <1>9

LEMMA RingRemoved ==
    ASSUME NEW r \in Ring, NEW t \in Task
    PROVE  RingRemove(r, t) \in Ring /\ RingItems(RingRemove(r, t)) = RingItems(r) \ {t}
<1>1. CASE t \in RingItems(r)
  <2>1. PICK n : n = CHOOSE i \in DOMAIN r : r[i] = t
    OBVIOUS
  <2>2. n \in DOMAIN r /\ r[n] = t
    BY <1>1, <2>1 DEF RingItems
  <2>3. PICK c : c = RingRemove(r, t)
    OBVIOUS
  <2>4. c = Without(r, n)
    BY <1>1, <2>1, <2>3 DEF RingRemove
  <2>5. r \in Seq(Task \cup {Mark}) /\ Distinct(r) /\ n \in 1 .. Len(r) /\ Mark \notin Task
    BY <2>2, RingFacts
  <2>6. c \in Seq(Task \cup {Mark}) /\ Distinct(c) /\ Items(c) = Items(r) \ {t}
    BY <2>2, <2>4, <2>5, WithoutPlaces, WithoutItem
  <2>7. Mark \in Items(r) /\ Mark # t
    BY <2>5 DEF Ring, Items
  <2>8. Mark \in Items(c)
    BY <2>6, <2>7
  <2>9. c \in Ring
    BY <2>6, <2>8 DEF Ring, Items
  <2>10. RingItems(c) = RingItems(r) \ {t}
    BY <2>6 DEF RingItems, Items
  <2> QED
    BY <2>3, <2>9, <2>10
<1>2. CASE t \notin RingItems(r)
  BY <1>2 DEF RingRemove
<1> QED
  BY <1>1, <1>2

LEMMA Turning ==
    ASSUME NEW r \in Ring
    PROVE  /\ Turned(r) \in Ring /\ RingItems(Turned(r)) = RingItems(r)
           /\ Len(Turned(r)) = Len(r) /\ Turned(r)[Len(r)] = r[1]
           /\ Len(r) > 1 => Turned(r)[1] = r[2]
<1>1. PICK n \in Nat : n = Len(r)
  BY RingFacts
<1>2. r \in Seq(Task \cup {Mark}) /\ n >= 1 /\ DOMAIN r = 1 .. n /\ Distinct(r)
  BY <1>1, RingFacts
<1>3. PICK a : a = Tail(r)
  OBVIOUS
<1>4. a \in Seq(Task \cup {Mark}) /\ Len(a) = n - 1 /\ \A i \in 1 .. n - 1 : a[i] = r[i + 1]
  BY <1>1, <1>2, <1>3
<1>5. PICK b : b = <<Head(r)>>
  OBVIOUS
<1>6. b \in Seq(Task \cup {Mark}) /\ Len(b) = 1 /\ b[1] = r[1]
  BY <1>1, <1>2, <1>5
<1>7. PICK s : s = Turned(r)
  OBVIOUS
<1>8. /\ s \in Seq(Task \cup {Mark}) /\ Len(s) = Len(a) + Len(b)
      /\ \A i \in 1 .. Len(a) : s[i] = a[i]
      /\ \A i \in 1 .. Len(b) : s[Len(a) + i] = b[i]
  <2>1. s = a \o b
    BY <1>3, <1>5, <1>7 DEF Turned
  <2>2. a \in Seq(Task \cup {Mark}) /\ b \in Seq(Task \cup {Mark})
    BY <1>4, <1>6
  <2> QED
    BY <2>1, <2>2, Concatenated
<1>9. Len(s) = n /\ DOMAIN s = 1 .. n
  BY <1>4, <1>6, <1>8
<1>10. /\ \A i \in 1 .. n - 1 : s[i] = r[i + 1]
       /\ s[n] = r[1]
  <2>1. n = (n - 1) + 1 /\ 1 \in 1 .. 1
    OBVIOUS
  <2> QED
    BY <1>4, <1>6, <1>8, <2>1
<1>11. Distinct(s)
  <2> SUFFICES ASSUME NEW i \in 1 .. n, NEW j \in 1 .. n, s[i] = s[j], i < j PROVE FALSE
    BY <1>9 DEF Distinct
  <2>1. i + 1 \in 1 .. n /\ s[i] = r[i + 1] /\ i + 1 # 1 /\ 1 \in 1 .. n
    BY <1>10
  <2>2. CASE j = n
    <3>1. r[i + 1] = r[1]
      BY <1>10, <2>1, <2>2
    <3> QED
      BY <1>2, <2>1, <3>1 DEF Distinct
  <2>3. CASE j < n
    <3>1. j + 1 \in 1 .. n /\ s[j] = r[j + 1] /\ i + 1 # j + 1
      BY <1>10, <2>3
    <3>2. r[i + 1] = r[j + 1]
      BY <2>1, <3>1
    <3> QED
      BY <1>2, <2>1, <3>1, <3>2 DEF Distinct
  <2> QED
    BY <2>2, <2>3
<1>12. Items(s) = Items(r)
  <2>1. ASSUME NEW i \in 1 .. n PROVE s[i] \in Items(r)
    <3>1. CASE i = n
      BY <1>2, <1>10, <3>1 DEF Items
    <3>2. CASE i < n
      <4>1. i \in 1 .. n - 1 /\ i + 1 \in 1 .. n
        BY <3>2
      <4> QED
        BY <1>2, <1>10, <4>1 DEF Items
    <3> QED
      BY <3>1, <3>2
  <2>2. ASSUME NEW i \in 1 .. n PROVE r[i] \in Items(s)
    <3>1. CASE i = 1
      BY <1>2, <1>9, <1>10, <3>1 DEF Items
    <3>2. CASE i > 1
      <4>1. i - 1 \in 1 .. n - 1 /\ i - 1 \in 1 .. n /\ (i - 1) + 1 = i
        BY <3>2
      <4> QED
        BY <1>9, <1>10, <4>1 DEF Items
    <3> QED
      BY <3>1, <3>2
  <2> QED
    BY <1>2, <1>9, <2>1, <2>2 DEF Items
<1>13. s \in Ring /\ RingItems(s) = RingItems(r)
  <2>1. Mark \in Items(s)
    BY <1>12 DEF Ring, Items
  <2> QED
    BY <1>8, <1>11, <1>12, <2>1 DEF Ring, RingItems, Items
<1> QED
  BY <1>1, <1>2, <1>7, <1>9, <1>10, <1>13

LEMMA RingAdvanced ==
    ASSUME NEW r \in Ring, ~RingIsEmpty(r)
    PROVE  /\ Advance(r) \in Ring /\ RingItems(Advance(r)) = RingItems(r)
           /\ Index(Advance(r)) \in RingItems(r)
<1>1. /\ r \in Seq(Task \cup {Mark}) /\ Len(r) \in Nat /\ Len(r) >= 1 /\ Distinct(r)
      /\ DOMAIN r = 1 .. Len(r) /\ Head(r) = r[1] /\ RingItems(r) # {}
  BY RingFacts
<1>2. \A i \in 1 .. Len(r) : r[i] # Mark => r[i] \in RingItems(r)
  BY <1>1 DEF RingItems
<1>3. CASE r[1] = Mark
  <2>1. Len(r) > 1
    <3>1. \E i \in 1 .. Len(r) : r[i] # Mark
      BY <1>1 DEF RingItems
    <3> QED
      BY <1>1, <1>3, <3>1
  <2>2. r[2] # Mark /\ r[2] \in RingItems(r)
    BY <1>1, <1>2, <1>3, <2>1 DEF Distinct
  <2>3. Turned(r) \in Ring /\ Turned(r)[1] = r[2] /\ Len(Turned(r)) = Len(r) /\ RingItems(Turned(r)) = RingItems(r)
    BY <2>1, Turning
  <2>4. PICK u : u = Turned(r)
    OBVIOUS
  <2>5. /\ Turned(u) \in Ring /\ RingItems(Turned(u)) = RingItems(r)
        /\ Len(Turned(u)) = Len(r) /\ Turned(u)[Len(r)] = r[2]
    BY <2>3, <2>4, Turning
  <2>6. Advance(r) = Turned(u)
    BY <1>1, <1>3, <2>4 DEF Advance
  <2> QED
    BY <2>2, <2>5, <2>6 DEF Index
<1>4. CASE r[1] # Mark
  <2>1. Advance(r) = Turned(r)
    BY <1>1, <1>4 DEF Advance
  <2>2. r[1] \in RingItems(r)
    BY <1>1, <1>2, <1>4
  <2> QED
    BY <2>1, <2>2, Turning DEF Index
<1> QED
  BY <1>3, <1>4

(* A delayed or an event list holds each owner once, in the order of the   *)
(* values.                                                                 *)
Entry == [owner : Task, value : Nat]

OwnedOnce(s) == \A i, j \in DOMAIN s : s[i].owner = s[j].owner => i = j
Ordered(s)   == \A i, j \in DOMAIN s : i < j => s[i].value <= s[j].value

List == {s \in Seq(Entry) : OwnedOnce(s) /\ Ordered(s)}

LEMMA ListFacts ==
    ASSUME NEW s \in List
    PROVE  /\ s \in Seq(Entry) /\ OwnedOnce(s) /\ Ordered(s) /\ Distinct(s)
           /\ Len(s) \in Nat /\ DOMAIN s = 1 .. Len(s)
           /\ \A i \in 1 .. Len(s) : s[i] \in Entry /\ s[i].value \in Nat /\ s[i].owner \in Task
           /\ Items(s) \subseteq Entry /\ Owners(s) \subseteq Task
           /\ \A x \in Items(s) : x.owner \in Owners(s)
           /\ \A t \in Owners(s) : \E x \in Items(s) : x.owner = t
           /\ \A x, y \in Items(s) : x.owner = y.owner => x = y
<1>1. s \in Seq(Entry) /\ OwnedOnce(s) /\ Ordered(s)
  BY DEF List
<1>2. Len(s) \in Nat /\ DOMAIN s = 1 .. Len(s) /\ \A i \in 1 .. Len(s) : s[i] \in Entry
  BY <1>1
<1>3. \A i \in 1 .. Len(s) : s[i].value \in Nat /\ s[i].owner \in Task
  BY <1>2 DEF Entry
<1>4. Distinct(s)
  BY <1>1 DEF OwnedOnce, Distinct
<1>5. /\ \A x \in Items(s) : x.owner \in Owners(s)
      /\ \A t \in Owners(s) : \E x \in Items(s) : x.owner = t
  BY DEF Items, Owners
<1>6. \A x, y \in Items(s) : x.owner = y.owner => x = y
  BY <1>1 DEF Items, OwnedOnce
<1> QED
  BY <1>1, <1>2, <1>3, <1>4, <1>5, <1>6 DEF Items, Owners

LEMMA ListHead ==
    ASSUME NEW s \in List, s # <<>>
    PROVE  /\ Head(s) \in Items(s) /\ Head(s) \in Entry
           /\ \A x \in Items(s) : Head(s).value <= x.value
<1>1. /\ s \in Seq(Entry) /\ Ordered(s) /\ Len(s) \in Nat /\ DOMAIN s = 1 .. Len(s)
      /\ \A i \in 1 .. Len(s) : s[i].value \in Nat
  BY ListFacts
<1>2. 1 \in 1 .. Len(s) /\ Head(s) = s[1]
  BY <1>1
<1>3. \A i \in 1 .. Len(s) : s[1].value <= s[i].value
  BY <1>1, <1>2 DEF Ordered
<1> QED
  BY <1>1, <1>2, <1>3, ListFacts DEF Items

LEMMA ListRemoved ==
    ASSUME NEW s \in List, NEW t
    PROVE  /\ ListRemove(s, t) \in List
           /\ Items(ListRemove(s, t)) = {x \in Items(s) : x.owner # t}
           /\ Owners(ListRemove(s, t)) = Owners(s) \ {t}
<1>1. /\ s \in Seq(Entry) /\ OwnedOnce(s) /\ Ordered(s) /\ Distinct(s)
      /\ DOMAIN s = 1 .. Len(s) /\ Len(s) \in Nat
  BY ListFacts
<1>2. PICK c : c = ListRemove(s, t)
  OBVIOUS
<1>3. CASE t \in Owners(s)
  <2>1. PICK n : n = CHOOSE i \in DOMAIN s : s[i].owner = t
    OBVIOUS
  <2>2. n \in DOMAIN s /\ s[n].owner = t
    BY <1>3, <2>1 DEF Owners
  <2>3. c = Without(s, n)
    BY <1>2, <1>3, <2>1 DEF ListRemove
  <2>4. PICK m \in Nat : m = Len(s)
    BY <1>1
  <2>5. /\ c \in Seq(Entry) /\ Len(c) = m - 1 /\ n \in 1 .. m
        /\ \A i \in 1 .. n - 1 : c[i] = s[i]
        /\ \A i \in n .. m - 1 : c[i] = s[i + 1]
    <3>1. n \in 1 .. Len(s)
      BY <1>1, <2>2
    <3>2. /\ Without(s, n) \in Seq(Entry) /\ Len(Without(s, n)) = Len(s) - 1
          /\ \A i \in 1 .. n - 1 : Without(s, n)[i] = s[i]
          /\ \A i \in n .. Len(s) - 1 : Without(s, n)[i] = s[i + 1]
      BY <1>1, <3>1, WithoutPlaces
    <3> QED
      BY <2>3, <2>4, <3>1, <3>2
  <2>6. Items(c) = Items(s) \ {s[n]}
    BY <1>1, <2>2, <2>3, WithoutItem
  <2>7. Items(c) = {x \in Items(s) : x.owner # t}
    BY <1>1, <2>2, <2>6 DEF Items, OwnedOnce
  <2>8. DOMAIN c = 1 .. m - 1 /\ n \in Nat
    BY <2>5
  <2>9. ASSUME NEW i \in 1 .. m - 1, NEW j \in 1 .. m - 1, i < j
        PROVE  c[i].owner # c[j].owner /\ c[i].value <= c[j].value
    <3>1. CASE j < n
      <4>1. i \in 1 .. n - 1 /\ j \in 1 .. n - 1 /\ i \in 1 .. m /\ j \in 1 .. m
        BY <2>8, <2>9, <3>1
      <4>2. c[i] = s[i] /\ c[j] = s[j]
        BY <2>5, <4>1
      <4>3. i # j
        BY <2>9
      <4> QED
        BY <1>1, <2>4, <2>9, <4>1, <4>2, <4>3 DEF OwnedOnce, Ordered
    <3>2. CASE i >= n
      <4>1. i \in n .. m - 1 /\ j \in n .. m - 1 /\ i + 1 \in 1 .. m /\ j + 1 \in 1 .. m /\ i + 1 < j + 1
        BY <2>8, <2>9, <3>2
      <4>2. c[i] = s[i + 1] /\ c[j] = s[j + 1]
        BY <2>5, <4>1
      <4>3. i + 1 # j + 1
        BY <2>9
      <4> QED
        BY <1>1, <2>4, <4>1, <4>2, <4>3 DEF OwnedOnce, Ordered
    <3>3. CASE i < n /\ j >= n
      <4>1. i \in 1 .. n - 1 /\ j \in n .. m - 1 /\ i \in 1 .. m /\ j + 1 \in 1 .. m /\ i < j + 1
        BY <2>8, <2>9, <3>3
      <4>2. c[i] = s[i] /\ c[j] = s[j + 1]
        BY <2>5, <4>1
      <4>3. i # j + 1
        BY <2>9
      <4> QED
        BY <1>1, <2>4, <4>1, <4>2, <4>3 DEF OwnedOnce, Ordered
    <3> QED
      BY <2>8, <3>1, <3>2, <3>3
  <2>10. OwnedOnce(c) /\ Ordered(c)
    BY <2>8, <2>9 DEF OwnedOnce, Ordered
  <2>11. Owners(c) = Owners(s) \ {t}
    <3>1. c \in List
      BY <2>5, <2>10 DEF List
    <3> QED
      BY <2>7, <3>1, ListFacts
  <2> QED
    BY <1>2, <2>5, <2>7, <2>10, <2>11 DEF List
<1>4. CASE t \notin Owners(s)
  BY <1>4, ListFacts DEF ListRemove
<1> QED
  BY <1>3, <1>4

LEMMA ListInserted ==
    ASSUME NEW s \in List, NEW e \in Entry, e.owner \notin Owners(s)
    PROVE  /\ Insert(s, e) \in List /\ Items(Insert(s, e)) = Items(s) \cup {e}
           /\ Owners(Insert(s, e)) = Owners(s) \cup {e.owner}
<1>1. PICK m \in Nat : m = Len(s)
  BY ListFacts
<1>2. /\ s \in Seq(Entry) /\ OwnedOnce(s) /\ Ordered(s) /\ DOMAIN s = 1 .. m
      /\ \A i \in 1 .. m : s[i] \in Entry /\ s[i].value \in Nat
      /\ e.value \in Nat /\ \A i \in 1 .. m : s[i].owner # e.owner
  <2>1. e.value \in Nat
    BY DEF Entry
  <2>2. /\ s \in Seq(Entry) /\ OwnedOnce(s) /\ Ordered(s) /\ DOMAIN s = 1 .. m
        /\ \A i \in 1 .. m : s[i] \in Entry /\ s[i].value \in Nat
    BY <1>1, ListFacts
  <2>3. \A i \in 1 .. m : s[i].owner # e.owner
    BY <2>2 DEF Owners
  <2> QED
    BY <2>1, <2>2, <2>3
<1>2a. \A i, j \in 1 .. m : i < j => s[i].owner # s[j].owner /\ s[i].value <= s[j].value
  <2> SUFFICES ASSUME NEW i \in 1 .. m, NEW j \in 1 .. m, i < j
               PROVE  s[i].owner # s[j].owner /\ s[i].value <= s[j].value
    OBVIOUS
  <2>1. i # j
    OBVIOUS
  <2> QED
    BY <1>2, <2>1 DEF OwnedOnce, Ordered
<1>3. PICK D : D = {j \in DOMAIN s : s[j].value <= e.value}
  OBVIOUS
<1>4. PICK n \in 0 .. m : n = Cardinality(D) /\ D = 1 .. n
  <2>1. D \in SUBSET (1 .. m)
    BY <1>2, <1>3
  <2>2. ASSUME NEW i \in D, NEW j \in 1 .. i PROVE j \in D
    <3>1. i \in 1 .. m /\ s[i].value <= e.value /\ s[i].value \in Nat /\ j \in 1 .. m
      BY <1>2, <1>3
    <3>2. s[j].value <= s[i].value /\ s[j].value \in Nat
      <4>1. CASE j = i
        BY <1>2, <3>1, <4>1
      <4>2. CASE j < i
        BY <1>2, <1>2a, <3>1, <4>2
      <4> QED
        BY <2>2, <3>1, <4>1, <4>2
    <3> QED
      BY <1>2, <1>3, <3>1, <3>2
  <2> QED
    BY <2>1, <2>2, Prefix
<1>5. /\ \A i \in 1 .. n : s[i].value <= e.value
      /\ \A i \in 1 .. m : i > n => s[i].value > e.value
  <2>1. \A i \in 1 .. n : i \in D
    BY <1>4
  <2>2. ASSUME NEW i \in 1 .. m, i > n PROVE i \notin D
    <3>1. i \notin 1 .. n
      BY <1>4, <2>2
    <3> QED
      BY <1>4, <3>1
  <2> QED
    BY <1>2, <1>3, <2>1, <2>2
<1>6. PICK a : a = SubSeq(s, 1, n)
  OBVIOUS
<1>7. a \in Seq(Entry) /\ Len(a) = n /\ \A i \in 1 .. n : a[i] = s[i]
  BY <1>1, <1>2, <1>6
<1>8. PICK b : b = SubSeq(s, n + 1, m)
  OBVIOUS
<1>9. b \in Seq(Entry) /\ Len(b) = m - n /\ \A i \in 1 .. m - n : b[i] = s[i + n]
  BY <1>1, <1>2, <1>8
<1>10. PICK d : d = a \o <<e>>
  OBVIOUS
<1>11. /\ d \in Seq(Entry) /\ Len(d) = n + 1
       /\ \A i \in 1 .. n : d[i] = s[i]
       /\ d[n + 1] = e
  <2>1. PICK f : f = <<e>>
    OBVIOUS
  <2>2. f \in Seq(Entry) /\ Len(f) = 1 /\ f[1] = e
    BY <2>1
  <2>3. d = a \o f /\ a \in Seq(Entry) /\ Len(a) = n
    BY <1>7, <1>10, <2>1
  <2>4. /\ d \in Seq(Entry) /\ Len(d) = Len(a) + Len(f)
        /\ \A i \in 1 .. Len(a) : d[i] = a[i]
        /\ \A i \in 1 .. Len(f) : d[Len(a) + i] = f[i]
    <3>1. a \in Seq(Entry) /\ f \in Seq(Entry) /\ d = a \o f
      BY <2>2, <2>3
    <3> QED
      BY <3>1, Concatenated
  <2> QED
    BY <1>7, <2>2, <2>3, <2>4
<1>12. PICK c : c = Insert(s, e)
  OBVIOUS
<1>13. c = d \o b
  BY <1>1, <1>3, <1>4, <1>6, <1>8, <1>10, <1>12 DEF Insert
<1>14. /\ c \in Seq(Entry) /\ Len(c) = Len(d) + Len(b)
       /\ \A i \in 1 .. Len(d) : c[i] = d[i]
       /\ \A i \in 1 .. Len(b) : c[Len(d) + i] = b[i]
  <2>1. d \in Seq(Entry) /\ b \in Seq(Entry)
    BY <1>9, <1>11
  <2> QED
    BY <1>13, <2>1, Concatenated
<1>15. Len(c) = m + 1 /\ DOMAIN c = 1 .. m + 1 /\ n \in Nat /\ n <= m
  BY <1>9, <1>11, <1>14
<1>16. \A i \in 1 .. n : c[i] = s[i]
  BY <1>11, <1>14, <1>15
<1>17. c[n + 1] = e
  BY <1>11, <1>14, <1>15
<1>18. \A i \in n + 1 .. m : c[i + 1] = s[i]
  <2> SUFFICES ASSUME NEW i \in n + 1 .. m PROVE c[i + 1] = s[i]
    OBVIOUS
  <2>1. i - n \in 1 .. Len(b) /\ i + 1 = Len(d) + (i - n) /\ (i - n) + n = i
    BY <1>9, <1>11, <1>15
  <2>2. c[i + 1] = b[i - n]
    BY <1>14, <2>1
  <2> QED
    BY <1>9, <2>1, <2>2
<1>19. ASSUME NEW i \in 1 .. m + 1, NEW j \in 1 .. m + 1, i < j
       PROVE  c[i].owner # c[j].owner /\ c[i].value <= c[j].value
  <2>1. CASE j <= n
    <3>1. i \in 1 .. n /\ j \in 1 .. n /\ i \in 1 .. m /\ j \in 1 .. m
      BY <1>15, <1>19, <2>1
    <3> QED
      BY <1>2a, <1>16, <1>19, <3>1
  <2>2. CASE j = n + 1
    <3>1. i \in 1 .. n /\ i \in 1 .. m
      BY <1>15, <1>19, <2>2
    <3> QED
      BY <1>2, <1>5, <1>16, <1>17, <2>2, <3>1
  <2>3. CASE j > n + 1 /\ i <= n
    <3>1. i \in 1 .. n /\ i \in 1 .. m /\ j - 1 \in n + 1 .. m /\ j - 1 \in 1 .. m /\ (j - 1) + 1 = j /\ i < j - 1
      BY <1>15, <1>19, <2>3
    <3>2. c[i] = s[i] /\ c[j] = s[j - 1]
      BY <1>16, <1>18, <3>1
    <3> QED
      BY <1>2a, <3>1, <3>2
  <2>4. CASE j > n + 1 /\ i = n + 1
    <3>1. j - 1 \in n + 1 .. m /\ j - 1 \in 1 .. m /\ (j - 1) + 1 = j /\ j - 1 > n
      BY <1>15, <1>19, <2>4
    <3>2. c[i] = e /\ c[j] = s[j - 1]
      BY <1>17, <1>18, <2>4, <3>1
    <3> QED
      BY <1>2, <1>5, <3>1, <3>2
  <2>5. CASE j > n + 1 /\ i > n + 1
    <3>1. /\ i - 1 \in n + 1 .. m /\ i - 1 \in 1 .. m /\ (i - 1) + 1 = i
          /\ j - 1 \in n + 1 .. m /\ j - 1 \in 1 .. m /\ (j - 1) + 1 = j /\ i - 1 < j - 1
      BY <1>15, <1>19, <2>5
    <3>2. c[i] = s[i - 1] /\ c[j] = s[j - 1]
      BY <1>18, <3>1
    <3> QED
      BY <1>2a, <3>1, <3>2
  <2> QED
    BY <1>15, <2>1, <2>2, <2>3, <2>4, <2>5
<1>20. c \in List
  <2>1. Ordered(c)
    BY <1>15, <1>19 DEF Ordered
  <2>2. OwnedOnce(c)
    <3> SUFFICES ASSUME NEW i \in 1 .. m + 1, NEW j \in 1 .. m + 1, i # j
                 PROVE  c[i].owner # c[j].owner
      BY <1>15 DEF OwnedOnce
    <3>1. i < j \/ j < i
      BY <1>15
    <3> QED
      BY <1>19, <3>1
  <2> QED
    BY <1>14, <2>1, <2>2 DEF List
<1>21. Items(c) = Items(s) \cup {e}
  <2>1. ASSUME NEW i \in 1 .. m + 1 PROVE c[i] \in Items(s) \cup {e}
    <3>1. CASE i <= n
      <4>1. i \in 1 .. n /\ i \in 1 .. m
        BY <1>15, <3>1
      <4> QED
        BY <1>2, <1>16, <4>1 DEF Items
    <3>2. CASE i = n + 1
      BY <1>17, <3>2
    <3>3. CASE i > n + 1
      <4>1. i - 1 \in n + 1 .. m /\ i - 1 \in 1 .. m /\ (i - 1) + 1 = i
        BY <1>15, <3>3
      <4> QED
        BY <1>2, <1>18, <4>1 DEF Items
    <3> QED
      BY <1>15, <3>1, <3>2, <3>3
  <2>2. ASSUME NEW i \in 1 .. m PROVE s[i] \in Items(c)
    <3>1. CASE i <= n
      <4>1. i \in 1 .. n /\ i \in 1 .. m + 1
        BY <1>15, <3>1
      <4> QED
        BY <1>15, <1>16, <4>1 DEF Items
    <3>2. CASE i > n
      <4>1. i \in n + 1 .. m /\ i + 1 \in 1 .. m + 1
        BY <1>15, <3>2
      <4> QED
        BY <1>15, <1>18, <4>1 DEF Items
    <3> QED
      BY <1>15, <3>1, <3>2
  <2>3. e \in Items(c)
    <3>1. n + 1 \in 1 .. m + 1
      BY <1>15
    <3> QED
      BY <1>15, <1>17, <3>1 DEF Items
  <2>4. \A x \in Items(s) : x \in Items(c)
    BY <1>2, <2>2 DEF Items
  <2>5. \A x \in Items(c) : x \in Items(s) \cup {e}
    BY <1>15, <2>1 DEF Items
  <2> QED
    BY <2>3, <2>4, <2>5
<1>22. Owners(c) = Owners(s) \cup {e.owner}
  BY <1>20, <1>21, ListFacts
<1> QED
  BY <1>12, <1>20, <1>21, <1>22

-----------------------------------------------------------------------------
(***************************************************************************)
(* The scheduler.                                                          *)
(***************************************************************************)
SchedState ==
    [tick : TickType, unblock : TickType, delayed : List, overflow : List,
     ready : [Priority -> Ring], top : Priority, parked : SUBSET Task, cur : Task,
     locked : BOOLEAN, pended : Nat, yield : BOOLEAN, prio : [Task -> Priority],
     stale : SUBSET Task, mwait : List, bwait : List]

(* What a step of the scheduler may leave as it was. *)
SameClock(r, s) == /\ r.tick = s.tick /\ r.unblock = s.unblock /\ r.locked = s.locked
                   /\ r.pended = s.pended /\ r.stale = s.stale
SameLists(r, s) == r.delayed = s.delayed /\ r.overflow = s.overflow /\ r.parked = s.parked
SameWaits(r, s) == r.mwait = s.mwait /\ r.bwait = s.bwait

(* A task is in the ring of its priority only, and none is above top. *)
Rings(s) ==
    /\ \A p \in Priority : \A t \in RingItems(s.ready[p]) : s.prio[t] = p
    /\ \A p \in Priority : p > s.top => RingIsEmpty(s.ready[p])

(* The delayed lists together. *)
Asleep(s) == Items(s.delayed) \cup Items(s.overflow)

(* Every task is in one place. *)
Apart(s) ==
    \A t \in Task :
      /\ t \in Ready(s) \/ t \in Delayed(s) \/ t \in s.parked
      /\ ~(t \in Ready(s) /\ t \in Delayed(s)) /\ ~(t \in Ready(s) /\ t \in s.parked)
      /\ ~(t \in Delayed(s) /\ t \in s.parked)
      /\ ~(t \in Owners(s.delayed) /\ t \in Owners(s.overflow))

(* A task that waits for an event has a time to wake at, and one event.    *)
Waiters(s) ==
    /\ Owners(s.mwait) \subseteq Delayed(s) /\ Owners(s.bwait) \subseteq Delayed(s)
    /\ Owners(s.mwait) \cap Owners(s.bwait) = {}
    /\ \A x \in Items(s.bwait) : x.value = 0

Placed(s) == s \in SchedState /\ Rings(s) /\ Apart(s) /\ Idle \in Ready(s)
Filing(s) == Placed(s) /\ Waiters(s)

(* The delayed list holds what is left of this turn of the tick counter,   *)
(* the overflow list what comes in the next.                               *)
Clock(s) ==
    /\ \A x \in Items(s.delayed) : s.tick < x.value /\ x.value < W /\ s.unblock <= x.value
    /\ \A x \in Items(s.overflow) : x.value < s.tick

LEMMA Priorities == 0 \in Priority /\ \A p \in Priority : p \in Nat /\ 0 .. p \subseteq Priority
  BY KernelAssumption DEF Priority

LEMMA StateFields ==
    ASSUME NEW s \in SchedState
    PROVE  /\ s.tick \in TickType /\ s.unblock \in TickType
           /\ s.delayed \in List /\ s.overflow \in List /\ s.mwait \in List /\ s.bwait \in List
           /\ s.ready \in [Priority -> Ring] /\ s.top \in Priority /\ s.parked \in SUBSET Task
           /\ s.cur \in Task /\ s.locked \in BOOLEAN /\ s.pended \in Nat /\ s.yield \in BOOLEAN
           /\ s.prio \in [Task -> Priority] /\ s.stale \in SUBSET Task
           /\ \A p \in Priority : s.ready[p] \in Ring
           /\ \A t \in Task : s.prio[t] \in Priority
           /\ Ready(s) \subseteq Task /\ Delayed(s) \subseteq Task
<1>1. /\ s.ready \in [Priority -> Ring] /\ s.delayed \in List /\ s.overflow \in List
  BY DEF SchedState
<1>2. Ready(s) \subseteq Task
  BY <1>1, RingFacts DEF Ready
<1>3. Delayed(s) \subseteq Task
  BY <1>1, ListFacts DEF Delayed
<1> QED
  BY <1>1, <1>2, <1>3 DEF SchedState

LEMMA ReadyRing ==
    ASSUME NEW s \in SchedState, Rings(s), NEW t \in Task
    PROVE  t \in Ready(s) <=> t \in RingItems(s.ready[s.prio[t]])
  BY StateFields DEF Rings, Ready

LEMMA AddedToReady ==
    ASSUME NEW s \in SchedState, Rings(s), NEW t \in Task, t \notin Ready(s),
           NEW r, r = AddToReady(s, t)
    PROVE  /\ r \in SchedState /\ Rings(r) /\ Ready(r) = Ready(s) \cup {t}
           /\ SameClock(r, s) /\ SameLists(r, s) /\ SameWaits(r, s)
           /\ r.cur = s.cur /\ r.yield = s.yield /\ r.prio = s.prio
           /\ Delayed(r) = Delayed(s)
<1>1. PICK p \in Priority : p = s.prio[t]
  BY StateFields
<1>2. PICK ring \in Ring : ring = InsertEnd(s.ready[p], t) /\ RingItems(ring) = RingItems(s.ready[p]) \cup {t}
  <2>1. t \notin RingItems(s.ready[p]) /\ s.ready[p] \in Ring
    BY <1>1, ReadyRing, StateFields
  <2> QED
    BY <2>1, RingInsert
<1>3. PICK top \in Priority : top = IF p > s.top THEN p ELSE s.top
  BY StateFields
<1>r. PICK rings : rings = [s.ready EXCEPT ![p] = ring]
  OBVIOUS
<1>4. r = [s EXCEPT !.ready = rings, !.top = top]
  BY <1>1, <1>2, <1>3, <1>r DEF AddToReady, SchedState
<1>5. r \in SchedState
  <2>1. rings \in [Priority -> Ring]
    BY <1>r, StateFields
  <2> QED
    BY <1>4, <2>1 DEF SchedState
<1>6. /\ r.ready = rings /\ r.top = top
      /\ SameClock(r, s) /\ SameLists(r, s) /\ SameWaits(r, s)
      /\ r.cur = s.cur /\ r.yield = s.yield /\ r.prio = s.prio
  BY <1>4 DEF SchedState, SameClock, SameLists, SameWaits
<1>7. \A q \in Priority : r.ready[q] = IF q = p THEN ring ELSE s.ready[q]
  BY <1>r, <1>6, StateFields
<1>8. Ready(r) = Ready(s) \cup {t}
  BY <1>1, <1>2, <1>7 DEF Ready
<1>9. \A q \in Priority : \A u \in RingItems(r.ready[q]) : r.prio[u] = q
  BY <1>1, <1>2, <1>6, <1>7 DEF Rings
<1>10. ASSUME NEW q \in Priority, q > top PROVE RingIsEmpty(r.ready[q])
  <2>1. q # p /\ q > s.top
    BY <1>3, <1>10, StateFields, Priorities
  <2> QED
    BY <1>7, <2>1 DEF Rings
<1> QED
  BY <1>5, <1>6, <1>8, <1>9, <1>10 DEF Rings, Delayed, SameLists

LEMMA RemovedFromReady ==
    ASSUME NEW s \in SchedState, Rings(s), NEW t \in Task, t \in Ready(s),
           NEW r, r = RemoveFromReady(s, t)
    PROVE  /\ r \in SchedState /\ Rings(r) /\ Ready(r) = Ready(s) \ {t}
           /\ SameClock(r, s) /\ SameLists(r, s) /\ SameWaits(r, s)
           /\ r.cur = s.cur /\ r.yield = s.yield /\ r.prio = s.prio
           /\ Delayed(r) = Delayed(s)
<1>1. PICK p \in Priority : p = s.prio[t]
  BY StateFields
<1>2. PICK ring \in Ring : ring = RingRemove(s.ready[p], t) /\ RingItems(ring) = RingItems(s.ready[p]) \ {t}
  BY StateFields, RingRemoved
<1>3. PICK rings : rings = [s.ready EXCEPT ![p] = ring]
  OBVIOUS
<1>4. r = [s EXCEPT !.ready = rings]
  BY <1>1, <1>2, <1>3 DEF RemoveFromReady, SchedState
<1>5. r \in SchedState
  <2>1. rings \in [Priority -> Ring]
    BY <1>3, StateFields
  <2> QED
    BY <1>4, <2>1 DEF SchedState
<1>6. /\ r.ready = rings /\ r.top = s.top
      /\ SameClock(r, s) /\ SameLists(r, s) /\ SameWaits(r, s)
      /\ r.cur = s.cur /\ r.yield = s.yield /\ r.prio = s.prio
  BY <1>4 DEF SchedState, SameClock, SameLists, SameWaits
<1>7. \A q \in Priority : r.ready[q] = IF q = p THEN ring ELSE s.ready[q]
  BY <1>3, <1>6, StateFields
<1>8. Ready(r) = Ready(s) \ {t}
  <2>1. \A q \in Priority : q # p => t \notin RingItems(s.ready[q])
    BY <1>1 DEF Rings
  <2> QED
    BY <1>2, <1>7, <2>1 DEF Ready
<1>9. \A q \in Priority : \A u \in RingItems(r.ready[q]) : r.prio[u] = q
  BY <1>2, <1>6, <1>7 DEF Rings
<1>10. ASSUME NEW q \in Priority, q > s.top PROVE RingIsEmpty(r.ready[q])
  <2>1. RingIsEmpty(s.ready[q]) /\ s.ready[q] \in Ring /\ r.ready[q] \in Ring
    BY <1>5, <1>10, StateFields DEF Rings
  <2>2. RingItems(s.ready[q]) = {}
    BY <2>1, RingFacts
  <2>3. RingItems(r.ready[q]) = {}
    BY <1>2, <1>7, <2>2
  <2> QED
    BY <2>1, <2>3, RingFacts
<1> QED
  BY <1>5, <1>6, <1>8, <1>9, <1>10 DEF Rings, Delayed, SameLists

(* The tasks of S have been taken out of wherever they were, and are ready. *)
Woken(r, s, S) ==
    /\ Ready(r) = Ready(s) \cup S
    /\ Items(r.delayed)  = {x \in Items(s.delayed)  : x.owner \notin S}
    /\ Items(r.overflow) = {x \in Items(s.overflow) : x.owner \notin S}
    /\ Items(r.mwait)    = {x \in Items(s.mwait)    : x.owner \notin S}
    /\ Items(r.bwait)    = {x \in Items(s.bwait)    : x.owner \notin S}
    /\ r.parked = s.parked \ S

LEMMA MadeReady ==
    ASSUME NEW s \in SchedState, Filing(s), NEW t \in Task, t \notin Ready(s),
           NEW r, r = MakeReady(s, t)
    PROVE  /\ Filing(r) /\ Woken(r, s, {t}) /\ SameClock(r, s)
           /\ r.cur = s.cur /\ r.yield = s.yield /\ r.prio = s.prio
<1>1. PICK d \in List : /\ d = ListRemove(s.delayed, t) /\ Owners(d) = Owners(s.delayed) \ {t}
                        /\ Items(d) = {x \in Items(s.delayed) : x.owner # t}
  BY StateFields, ListRemoved
<1>2. PICK o \in List : /\ o = ListRemove(s.overflow, t) /\ Owners(o) = Owners(s.overflow) \ {t}
                        /\ Items(o) = {x \in Items(s.overflow) : x.owner # t}
  BY StateFields, ListRemoved
<1>3. PICK m \in List : /\ m = ListRemove(s.mwait, t) /\ Owners(m) = Owners(s.mwait) \ {t}
                        /\ Items(m) = {x \in Items(s.mwait) : x.owner # t}
  BY StateFields, ListRemoved
<1>4. PICK b \in List : /\ b = ListRemove(s.bwait, t) /\ Owners(b) = Owners(s.bwait) \ {t}
                        /\ Items(b) = {x \in Items(s.bwait) : x.owner # t}
  BY StateFields, ListRemoved
<1>5. PICK q : q = [s EXCEPT !.delayed = d, !.overflow = o, !.parked = @ \ {t},
                             !.mwait = m, !.bwait = b]
  OBVIOUS
<1>6. r = AddToReady(q, t)
  BY <1>1, <1>2, <1>3, <1>4, <1>5 DEF MakeReady, SchedState
<1>7. q \in SchedState
  BY <1>5 DEF SchedState
<1>8. /\ q.ready = s.ready /\ q.top = s.top /\ q.prio = s.prio /\ q.cur = s.cur
      /\ q.yield = s.yield /\ SameClock(q, s)
      /\ q.delayed = d /\ q.overflow = o /\ q.parked = s.parked \ {t}
      /\ q.mwait = m /\ q.bwait = b
  BY <1>5 DEF SchedState, SameClock
<1>9. Ready(q) = Ready(s) /\ Rings(q)
  BY <1>8 DEF Ready, Rings, Filing, Placed
<1>10. /\ r \in SchedState /\ Rings(r) /\ Ready(r) = Ready(s) \cup {t}
       /\ SameClock(r, q) /\ SameLists(r, q) /\ SameWaits(r, q)
       /\ r.cur = s.cur /\ r.yield = s.yield /\ r.prio = s.prio
  BY <1>6, <1>7, <1>8, <1>9, AddedToReady
<1>11. /\ r.delayed = d /\ r.overflow = o /\ r.parked = s.parked \ {t}
       /\ r.mwait = m /\ r.bwait = b
  BY <1>8, <1>10 DEF SameLists, SameWaits
<1>12. SameClock(r, s)
  BY <1>8, <1>10 DEF SameClock
<1>13. Woken(r, s, {t})
  BY <1>1, <1>2, <1>3, <1>4, <1>10, <1>11 DEF Woken
<1>14. Delayed(r) = Delayed(s) \ {t}
  BY <1>1, <1>2, <1>11 DEF Delayed
<1>15. Apart(r)
  <2> SUFFICES ASSUME NEW u \in Task
               PROVE  /\ u \in Ready(r) \/ u \in Delayed(r) \/ u \in r.parked
                      /\ ~(u \in Ready(r) /\ u \in Delayed(r)) /\ ~(u \in Ready(r) /\ u \in r.parked)
                      /\ ~(u \in Delayed(r) /\ u \in r.parked)
                      /\ ~(u \in Owners(r.delayed) /\ u \in Owners(r.overflow))
    BY DEF Apart
  <2>1. /\ u \in Ready(s) \/ u \in Delayed(s) \/ u \in s.parked
        /\ ~(u \in Ready(s) /\ u \in Delayed(s)) /\ ~(u \in Ready(s) /\ u \in s.parked)
        /\ ~(u \in Delayed(s) /\ u \in s.parked)
        /\ ~(u \in Owners(s.delayed) /\ u \in Owners(s.overflow))
    BY DEF Filing, Placed, Apart
  <2> QED
    BY <1>1, <1>2, <1>10, <1>11, <1>14, <2>1
<1>16. Idle \in Ready(r)
  BY <1>10 DEF Filing, Placed
<1>17. Waiters(r)
  <2>1. /\ Owners(s.mwait) \subseteq Delayed(s) /\ Owners(s.bwait) \subseteq Delayed(s)
        /\ Owners(s.mwait) \cap Owners(s.bwait) = {}
        /\ \A x \in Items(s.bwait) : x.value = 0
    BY DEF Filing, Waiters
  <2> QED
    BY <1>3, <1>4, <1>11, <1>14, <2>1 DEF Waiters
<1> QED
  BY <1>10, <1>12, <1>13, <1>15, <1>16, <1>17 DEF Filing, Placed

(* What the scheduler chooses: the highest priority that is ready. *)
LEMMA Chosen ==
    ASSUME NEW s \in SchedState, Placed(s),
           NEW p, p = CHOOSE q \in 0 .. s.top :
                        /\ ~RingIsEmpty(s.ready[q])
                        /\ \A r \in q + 1 .. s.top : RingIsEmpty(s.ready[r])
    PROVE  /\ p \in Priority /\ p <= s.top /\ ~RingIsEmpty(s.ready[p])
           /\ \A q \in Priority : q > p => RingIsEmpty(s.ready[q])
<1>1. PICK top \in Nat : top = s.top /\ top \in Priority
  BY StateFields, Priorities
<1>2. PICK D : D = {q \in 0 .. top : ~RingIsEmpty(s.ready[q])}
  OBVIOUS
<1>3. PICK b \in Priority : Idle \in RingItems(s.ready[b])
  BY DEF Placed, Ready
<1>4. ~RingIsEmpty(s.ready[b])
  BY <1>3, StateFields, RingFacts
<1>5. b \in D
  BY <1>1, <1>2, <1>3, <1>4, Priorities DEF Placed, Rings
<1>6. PICK q \in D : \A r \in D : r <= q
  BY <1>1, <1>2, <1>5, Greatest
<1>7. q \in 0 .. s.top /\ ~RingIsEmpty(s.ready[q])
  BY <1>1, <1>2
<1>8. \A r \in q + 1 .. s.top : RingIsEmpty(s.ready[r])
  BY <1>1, <1>2, <1>6
<1>9. /\ p \in 0 .. s.top /\ ~RingIsEmpty(s.ready[p])
      /\ \A r \in p + 1 .. s.top : RingIsEmpty(s.ready[r])
  BY <1>7, <1>8
<1>10. p \in Priority /\ p <= s.top
  BY <1>1, <1>9, Priorities
<1>11. ASSUME NEW r \in Priority, r > p PROVE RingIsEmpty(s.ready[r])
  <2>1. CASE r > s.top
    BY <2>1 DEF Placed, Rings
  <2>2. CASE ~(r > s.top)
    <3>1. r \in Nat /\ p \in Nat /\ s.top \in Nat
      BY <1>1, <1>10, Priorities
    <3>2. r \in p + 1 .. s.top
      BY <1>11, <2>2, <3>1
    <3> QED
      BY <1>9, <3>2
  <2> QED
    BY <2>1, <2>2
<1> QED
  BY <1>9, <1>10, <1>11

Highest(s) == /\ s.cur \in Ready(s)
              /\ \A t \in Ready(s) : s.prio[t] <= s.prio[s.cur]

LEMMA Switched ==
    ASSUME NEW s \in SchedState, Placed(s), ~s.locked, NEW r, r = SwitchContext(s)
    PROVE  /\ r \in SchedState /\ Placed(r) /\ Ready(r) = Ready(s) /\ ~r.yield
           /\ SameClock(r, s) /\ SameLists(r, s) /\ SameWaits(r, s) /\ r.prio = s.prio
           /\ Highest(r)
<1>1. PICK p : p = CHOOSE q \in 0 .. s.top :
                        /\ ~RingIsEmpty(s.ready[q])
                        /\ \A u \in q + 1 .. s.top : RingIsEmpty(s.ready[u])
  OBVIOUS
<1>2. /\ p \in Priority /\ p <= s.top /\ ~RingIsEmpty(s.ready[p])
      /\ \A q \in Priority : q > p => RingIsEmpty(s.ready[q])
  BY <1>1, Chosen
<1>3. PICK ring \in Ring : /\ ring = Advance(s.ready[p]) /\ RingItems(ring) = RingItems(s.ready[p])
                           /\ Index(ring) \in RingItems(ring)
  BY <1>2, StateFields, RingAdvanced
<1>4. PICK rings : rings = [s.ready EXCEPT ![p] = ring]
  OBVIOUS
<1>5. PICK t : t = Index(ring)
  OBVIOUS
<1>6. t \in RingItems(ring) /\ t \in Task
  BY <1>3, <1>5, RingFacts
<1>7. r = [s EXCEPT !.yield = FALSE, !.top = p, !.ready = rings, !.cur = t]
  BY <1>1, <1>3, <1>4, <1>5 DEF SwitchContext, SchedState
<1>8. rings \in [Priority -> Ring]
  BY <1>4, StateFields
<1>9. r \in SchedState
  <2>1. PICK y \in BOOLEAN : y = FALSE
    OBVIOUS
  <2>2. r = [s EXCEPT !.yield = y, !.top = p, !.ready = rings, !.cur = t]
    BY <1>7, <2>1
  <2>3. PICK u : u = [s EXCEPT !.yield = y, !.top = p]
    OBVIOUS
  <2>4. u \in SchedState
    BY <1>2, <2>3 DEF SchedState
  <2>5. r = [u EXCEPT !.ready = rings, !.cur = t]
    BY <2>2, <2>3, <2>4 DEF SchedState
  <2>6. r \in SchedState
    BY <1>6, <1>8, <2>4, <2>5 DEF SchedState
  <2> QED
    BY <2>6
<1>10. /\ r.ready = rings /\ r.top = p /\ r.cur = t /\ r.yield = FALSE /\ r.prio = s.prio
       /\ SameClock(r, s) /\ SameLists(r, s) /\ SameWaits(r, s)
  BY <1>7 DEF SchedState, SameClock, SameLists, SameWaits
<1>11. \A q \in Priority : r.ready[q] \in Ring /\ RingItems(r.ready[q]) = RingItems(s.ready[q])
  BY <1>3, <1>4, <1>10, StateFields
<1>12. Ready(r) = Ready(s)
  BY <1>11 DEF Ready
<1>13. Rings(r)
  <2>1. \A q \in Priority : \A u \in RingItems(r.ready[q]) : r.prio[u] = q
    BY <1>10, <1>11 DEF Placed, Rings
  <2>2. \A q \in Priority : q > p => RingIsEmpty(r.ready[q])
    BY <1>2, <1>11, StateFields, RingFacts
  <2> QED
    BY <1>10, <2>1, <2>2 DEF Rings
<1>14. Apart(r)
  BY <1>10, <1>12 DEF Placed, Apart, SameLists, Delayed
<1>15. t \in Ready(s) /\ s.prio[t] = p
  <2>1. t \in RingItems(s.ready[p])
    BY <1>3, <1>6
  <2> QED
    BY <1>2, <2>1 DEF Ready, Placed, Rings
<1>16. ASSUME NEW u \in Ready(s) PROVE s.prio[u] <= p
  <2>1. PICK q \in Priority : u \in RingItems(s.ready[q])
    BY DEF Ready
  <2>2. s.prio[u] = q
    BY <2>1 DEF Placed, Rings
  <2>3. ~RingIsEmpty(s.ready[q])
    BY <2>1, StateFields, RingFacts
  <2>4. ~(q > p)
    BY <1>2, <2>3
  <2> QED
    BY <1>2, <2>2, <2>4, Priorities
<1>17. Highest(r)
  BY <1>10, <1>12, <1>15, <1>16 DEF Highest
<1> QED
  BY <1>9, <1>10, <1>12, <1>13, <1>14, <1>17 DEF Placed

-----------------------------------------------------------------------------
(***************************************************************************)
(* The clock.                                                              *)
(***************************************************************************)
Width == W \in Nat /\ W > 1 /\ TickType = 0 .. W - 1 /\ MaxDelay = W - 1

LEMMA WidthIs == Width
  BY TickAssumption DEF Width, TickType, MaxDelay

(* Everything but xNextTaskUnblockTime. *)
LEMMA UnblockReset ==
    ASSUME NEW s \in SchedState, Filing(s), \A x \in Items(s.delayed) : x.value < W,
           NEW r, r = ResetNextUnblock(s)
    PROVE  /\ Filing(r) /\ SameLists(r, s) /\ SameWaits(r, s) /\ Ready(r) = Ready(s)
           /\ r.tick = s.tick /\ r.locked = s.locked /\ r.pended = s.pended /\ r.stale = s.stale
           /\ r.cur = s.cur /\ r.yield = s.yield /\ r.prio = s.prio
           /\ \A x \in Items(r.delayed) : r.unblock <= x.value
<1>1. PICK u : u = IF s.delayed = <<>> THEN MaxDelay ELSE Head(s.delayed).value
  OBVIOUS
<1>2. u \in TickType /\ \A x \in Items(s.delayed) : u <= x.value
  <2>1. CASE s.delayed = <<>>
    <3>1. Items(s.delayed) = {}
      BY <2>1 DEF Items
    <3> QED
      BY <1>1, <2>1, <3>1, WidthIs DEF Width
  <2>2. CASE s.delayed # <<>>
    <3>1. /\ Head(s.delayed) \in Items(s.delayed) /\ Head(s.delayed) \in Entry
          /\ \A x \in Items(s.delayed) : Head(s.delayed).value <= x.value
      BY <2>2, StateFields, ListHead
    <3>2. Head(s.delayed).value \in Nat
      BY <3>1 DEF Entry
    <3>3. u = Head(s.delayed).value
      BY <1>1, <2>2
    <3>4. u \in Nat /\ u < W
      BY <3>1, <3>2, <3>3
    <3> QED
      BY <3>1, <3>3, <3>4, WidthIs DEF Width
  <2> QED
    BY <2>1, <2>2
<1>3. r = [s EXCEPT !.unblock = u]
  BY <1>1 DEF ResetNextUnblock, SchedState
<1>4. r \in SchedState
  BY <1>2, <1>3 DEF SchedState
<1>5. /\ r.unblock = u /\ SameLists(r, s) /\ SameWaits(r, s) /\ r.ready = s.ready /\ r.top = s.top
      /\ r.tick = s.tick /\ r.locked = s.locked /\ r.pended = s.pended /\ r.stale = s.stale
      /\ r.cur = s.cur /\ r.yield = s.yield /\ r.prio = s.prio
  BY <1>3 DEF SchedState, SameLists, SameWaits
<1>6. Ready(r) = Ready(s) /\ Delayed(r) = Delayed(s)
  BY <1>5 DEF Ready, Delayed, SameLists
<1>7. Placed(r)
  BY <1>4, <1>5, <1>6 DEF Filing, Placed, Rings, Apart, SameLists
<1>8. Waiters(r)
  BY <1>5, <1>6 DEF Filing, Waiters, SameWaits
<1> QED
  BY <1>2, <1>5, <1>6, <1>7, <1>8 DEF Filing, SameLists

(* The tasks at the head of the delayed list that are due. *)
DueOf(s) == {x \in Items(s.delayed) : x.value <= s.tick}
OwnersOf(X) == {x.owner : x \in X}

LEMMA DuePlaces ==
    ASSUME NEW s \in SchedState
    PROVE  /\ Due(s) \in 0 .. Len(s.delayed)
           /\ DueOf(s) = {s.delayed[i] : i \in 1 .. Due(s)}
<1>1. PICK d \in List : d = s.delayed
  BY StateFields
<1>2. PICK m \in Nat : m = Len(d)
  BY ListFacts
<1>3. /\ DOMAIN d = 1 .. m /\ Ordered(d) /\ \A i \in 1 .. m : d[i].value \in Nat
  BY <1>2, ListFacts
<1>4. s.tick \in Nat
  BY StateFields, WidthIs DEF Width
<1>5. PICK D : D = {i \in DOMAIN d : \A j \in 1 .. i : d[j].value <= s.tick}
  OBVIOUS
<1>6. D \in SUBSET (1 .. m)
  BY <1>3, <1>5
<1>7. \A i \in D : \A j \in 1 .. i : j \in D
  <2> SUFFICES ASSUME NEW i \in D, NEW j \in 1 .. i PROVE j \in D
    OBVIOUS
  <2>1. i \in 1 .. m /\ j \in 1 .. m /\ \A l \in 1 .. j : l \in 1 .. i
    BY <1>6
  <2> QED
    BY <1>3, <1>5, <2>1
<1>8. PICK n \in 0 .. m : n = Cardinality(D) /\ D = 1 .. n
  BY <1>6, <1>7, Prefix
<1>9. n = Due(s)
  BY <1>1, <1>5, <1>8 DEF Due
<1>10. \A i \in D : d[i].value <= s.tick
  <2>1. \A i \in D : i \in 1 .. i
    BY <1>6
  <2> QED
    BY <1>5, <2>1
<1>11. ASSUME NEW i \in 1 .. m, d[i].value <= s.tick PROVE i \in D
  <2>1. ASSUME NEW j \in 1 .. i PROVE d[j].value <= s.tick
    <3>1. j \in 1 .. m /\ (j = i \/ j < i)
      OBVIOUS
    <3>2. d[j].value <= d[i].value
      BY <1>3, <3>1 DEF Ordered
    <3> QED
      BY <1>3, <1>4, <1>11, <3>1, <3>2
  <2> QED
    BY <1>3, <1>5, <2>1
<1>12. \A i \in 1 .. m : d[i].value <= s.tick <=> i \in 1 .. n
  BY <1>8, <1>10, <1>11
<1>13. DueOf(s) = {d[i] : i \in 1 .. n}
  BY <1>1, <1>3, <1>12 DEF DueOf, Items
<1> QED
  BY <1>1, <1>2, <1>9, <1>13

LEMMA WokenThen ==
    ASSUME NEW s, NEW r, NEW q, NEW S, NEW T, Woken(r, s, S), Woken(q, r, T)
    PROVE  Woken(q, s, S \cup T)
  BY DEF Woken

(* A recursive function is what its equation says, as there is one.        *)
UnblockFold(g, s, d, n) ==
    g = [i \in 0 .. n |-> IF i = 0 THEN s ELSE MakeReady(g[i - 1], d[i].owner)]

LEMMA UnblockFolds ==
    ASSUME NEW s, NEW d, NEW m \in Nat
    PROVE  \E g : UnblockFold(g, s, d, m)
<1> DEFINE S == {n \in Nat : \E g : UnblockFold(g, s, d, n)}
<1>1. 0 \in S
  <2>1. [i \in 0 .. 0 |-> s] =
            [i \in 0 .. 0 |-> IF i = 0 THEN s
                              ELSE MakeReady([j \in 0 .. 0 |-> s][i - 1], d[i].owner)]
    OBVIOUS
  <2> QED
    BY <2>1 DEF UnblockFold
<1>2. ASSUME NEW n \in Nat, n \in S PROVE n + 1 \in S
  <2>1. PICK g : UnblockFold(g, s, d, n)
    BY <1>2
  <2>2. PICK h : h = [i \in 0 .. n + 1 |-> IF i = n + 1 THEN MakeReady(g[n], d[i].owner) ELSE g[i]]
    OBVIOUS
  <2>3. h = [i \in 0 .. n + 1 |-> IF i = 0 THEN s ELSE MakeReady(h[i - 1], d[i].owner)]
    BY <2>1, <2>2 DEF UnblockFold
  <2> QED
    BY <2>3 DEF UnblockFold
<1> HIDE DEF S
<1>3. m \in S
  BY <1>1, <1>2, Induct
<1> QED
  BY <1>3 DEF S

LEMMA Unblocked ==
    ASSUME NEW s \in SchedState, Filing(s), \A x \in Items(s.delayed) : x.value < W,
           NEW r, r = UnblockDue(s)
    PROVE  /\ Filing(r) /\ Woken(r, s, OwnersOf(DueOf(s)))
           /\ r.tick = s.tick /\ r.locked = s.locked /\ r.pended = s.pended /\ r.stale = s.stale
           /\ r.cur = s.cur /\ r.yield = s.yield /\ r.prio = s.prio
           /\ \A x \in Items(r.delayed) : r.unblock <= x.value
<1>1. PICK d \in List : d = s.delayed
  BY StateFields
<1>2. PICK m \in Nat : m = Len(d) /\ DOMAIN d = 1 .. m
  BY ListFacts
<1>3. Due(s) \in 0 .. m /\ DueOf(s) = {d[i] : i \in 1 .. Due(s)}
  BY <1>1, <1>2, DuePlaces
<1>4. PICK f : f = CHOOSE g : UnblockFold(g, s, d, m)
  OBVIOUS
<1>5. r = ResetNextUnblock(f[Due(s)])
  BY <1>1, <1>2, <1>4 DEF UnblockDue, UnblockFold
<1>6. UnblockFold(f, s, d, m)
  BY <1>4, UnblockFolds
<1>7. f[0] = s /\ \A i \in 0 .. m - 1 : f[i + 1] = MakeReady(f[i], d[i + 1].owner)
  BY <1>6 DEF UnblockFold
<1> DEFINE Fine(i) == /\ Filing(f[i]) /\ Woken(f[i], s, {d[j].owner : j \in 1 .. i})
                      /\ SameClock(f[i], s)
                      /\ f[i].cur = s.cur /\ f[i].yield = s.yield /\ f[i].prio = s.prio
           S == {i \in Nat : i <= m => Fine(i)}
<1>8. 0 \in S
  <2>1. {d[j].owner : j \in 1 .. 0} = {}
    OBVIOUS
  <2>2. Woken(s, s, {}) /\ SameClock(s, s)
    BY DEF Woken, SameClock
  <2> QED
    BY <1>7, <2>1, <2>2
<1>9. ASSUME NEW i \in Nat, i \in S PROVE i + 1 \in S
  <2> SUFFICES ASSUME i + 1 <= m PROVE Fine(i + 1)
    OBVIOUS
  <2>1. Fine(i) /\ i \in 0 .. m - 1 /\ i + 1 \in 1 .. m
    BY <1>9
  <2>2. PICK q : q = f[i]
    OBVIOUS
  <2>3. PICK T : T = {d[j].owner : j \in 1 .. i}
    OBVIOUS
  <2>4. /\ Filing(q) /\ Woken(q, s, T) /\ SameClock(q, s)
        /\ q.cur = s.cur /\ q.yield = s.yield /\ q.prio = s.prio
    BY <2>1, <2>2, <2>3
  <2>5. PICK t \in Task : t = d[i + 1].owner
    BY <1>2, <2>1, ListFacts
  <2>6. t \notin Ready(q)
    <3>1. t \in Owners(s.delayed) /\ t \in Delayed(s)
      BY <1>1, <1>2, <2>1, <2>5 DEF Owners, Delayed
    <3>2. t \notin Ready(s)
      BY <3>1 DEF Filing, Placed, Apart
    <3>3. t \notin T
      <4> SUFFICES ASSUME NEW j \in 1 .. i, t = d[j].owner PROVE FALSE
        BY <2>3
      <4>1. j \in 1 .. m /\ j # i + 1
        BY <2>1
      <4>2. d \in List /\ DOMAIN d = 1 .. m
        BY <1>2, ListFacts
      <4> QED
        BY <2>1, <2>5, <4>1, <4>2 DEF List, OwnedOnce
    <3> QED
      BY <2>4, <3>2, <3>3 DEF Woken
  <2>7. f[i + 1] = MakeReady(q, t)
    BY <1>7, <2>1, <2>2, <2>5
  <2>8. PICK n : n = f[i + 1]
    OBVIOUS
  <2>9. /\ Filing(n) /\ Woken(n, q, {t}) /\ SameClock(n, q)
        /\ n.cur = q.cur /\ n.yield = q.yield /\ n.prio = q.prio
    <3>1. q \in SchedState
      BY <2>4 DEF Filing, Placed
    <3> QED
      BY <2>4, <2>6, <2>7, <2>8, <3>1, MadeReady
  <2>10. T \cup {t} = {d[j].owner : j \in 1 .. i + 1}
    BY <2>3, <2>5
  <2>11. Woken(n, s, T \cup {t})
    BY <2>4, <2>9, WokenThen
  <2>12. SameClock(n, s)
    BY <2>4, <2>9 DEF SameClock
  <2> QED
    BY <2>4, <2>8, <2>9, <2>10, <2>11, <2>12
<1>10. PICK n : n = Due(s)
  OBVIOUS
<1>11. Fine(n)
  <2> HIDE DEF S, Fine
  <2>1. n \in S
    BY <1>3, <1>8, <1>9, <1>10, Induct
  <2> QED
    BY <1>3, <1>10, <2>1 DEF S
<1>12. PICK q : q = f[n]
  OBVIOUS
<1>13. {d[j].owner : j \in 1 .. n} = OwnersOf(DueOf(s))
  BY <1>3, <1>10 DEF OwnersOf
<1>14. /\ Filing(q) /\ Woken(q, s, OwnersOf(DueOf(s))) /\ SameClock(q, s)
       /\ q.cur = s.cur /\ q.yield = s.yield /\ q.prio = s.prio
  BY <1>11, <1>12, <1>13
<1>15. q \in SchedState /\ \A x \in Items(q.delayed) : x.value < W
  BY <1>14 DEF Filing, Placed, Woken
<1>16. r = ResetNextUnblock(q)
  BY <1>5, <1>10, <1>12
<1>17. /\ Filing(r) /\ SameLists(r, q) /\ SameWaits(r, q) /\ Ready(r) = Ready(q)
       /\ r.tick = q.tick /\ r.locked = q.locked /\ r.pended = q.pended /\ r.stale = q.stale
       /\ r.cur = q.cur /\ r.yield = q.yield /\ r.prio = q.prio
       /\ \A x \in Items(r.delayed) : r.unblock <= x.value
  BY <1>14, <1>15, <1>16, UnblockReset
<1>18. Woken(r, s, OwnersOf(DueOf(s)))
  BY <1>14, <1>17 DEF Woken, SameLists, SameWaits
<1> QED
  BY <1>14, <1>17, <1>18 DEF SameClock

LEMMA AsleepOwners ==
    ASSUME NEW s \in SchedState, Filing(s)
    PROVE  /\ Delayed(s) = OwnersOf(Asleep(s))
           /\ \A x, y \in Asleep(s) : x.owner = y.owner => x = y
           /\ \A x \in Asleep(s) : x \in Entry /\ x.value \in Nat /\ x.owner \in Task
           /\ \A x \in Items(s.delayed) : x \notin Items(s.overflow)
           /\ \A x \in Asleep(s) : x.owner \notin Ready(s) /\ x.owner \notin s.parked
<1>1. s.delayed \in List /\ s.overflow \in List
  BY StateFields
<1>2. /\ \A x, y \in Items(s.delayed) : x.owner = y.owner => x = y
      /\ \A x \in Items(s.delayed) : x \in Entry /\ x.owner \in Owners(s.delayed)
      /\ \A t \in Owners(s.delayed) : \E x \in Items(s.delayed) : x.owner = t
  BY <1>1, ListFacts
<1>3. /\ \A x, y \in Items(s.overflow) : x.owner = y.owner => x = y
      /\ \A x \in Items(s.overflow) : x \in Entry /\ x.owner \in Owners(s.overflow)
      /\ \A t \in Owners(s.overflow) : \E x \in Items(s.overflow) : x.owner = t
  BY <1>1, ListFacts
<1>4. \A x \in Asleep(s) : x \in Entry /\ x.value \in Nat /\ x.owner \in Task
  BY <1>2, <1>3 DEF Asleep, Entry
<1>5. \A t \in Task : ~(t \in Owners(s.delayed) /\ t \in Owners(s.overflow))
  BY DEF Filing, Placed, Apart
<1>6. \A x \in Items(s.delayed) : \A y \in Items(s.overflow) : x.owner # y.owner
  BY <1>2, <1>3, <1>4, <1>5 DEF Asleep
<1>7. Delayed(s) = OwnersOf(Asleep(s))
  BY <1>2, <1>3 DEF Delayed, Asleep, OwnersOf
<1>8. \A x \in Asleep(s) : x.owner \in Delayed(s)
  BY <1>7 DEF OwnersOf
<1>9. \A t \in Task : t \in Delayed(s) => t \notin Ready(s) /\ t \notin s.parked
  BY DEF Filing, Placed, Apart
<1> QED
  BY <1>2, <1>3, <1>4, <1>6, <1>7, <1>8, <1>9 DEF Asleep

(* One tick: those whose time it is are ready, and nothing else has moved. *)
Rung(s, tick) == {x \in Asleep(s) : x.value = tick}

Ticked(r, s, tick) ==
    /\ r.tick = tick
    /\ Ready(r) = Ready(s) \cup OwnersOf(Rung(s, tick))
    /\ Asleep(r) = Asleep(s) \ Rung(s, tick)
    /\ Items(r.mwait) = {x \in Items(s.mwait) : x.owner \notin OwnersOf(Rung(s, tick))}
    /\ Items(r.bwait) = {x \in Items(s.bwait) : x.owner \notin OwnersOf(Rung(s, tick))}
    /\ r.parked = s.parked /\ r.prio = s.prio
    /\ r.cur = s.cur /\ r.yield = s.yield /\ r.locked = s.locked /\ r.pended = s.pended

LEMMA Rang ==
    ASSUME NEW s \in SchedState, Filing(s),
           \A x \in Items(s.delayed) : s.tick <= x.value /\ x.value < W /\ s.unblock <= x.value,
           \A x \in Items(s.overflow) : x.value < s.tick,
           NEW r, r = IF s.tick >= s.unblock THEN UnblockDue(s) ELSE s
    PROVE  Filing(r) /\ Clock(r) /\ Ticked(r, s, s.tick) /\ r.stale = s.stale
<1>1. s.tick \in Nat /\ s.unblock \in Nat
  BY StateFields, WidthIs DEF Width
<1>2. /\ \A x, y \in Asleep(s) : x.owner = y.owner => x = y
      /\ \A x \in Asleep(s) : x.value \in Nat /\ x.owner \in Task
      /\ \A x \in Items(s.delayed) : x \notin Items(s.overflow)
      /\ \A x \in Asleep(s) : x.owner \notin s.parked
  BY AsleepOwners
<1>3. PICK T : T = OwnersOf(Rung(s, s.tick))
  OBVIOUS
<1>4. CASE s.tick >= s.unblock
  <2>1. r = UnblockDue(s)
    BY <1>4
  <2>2. DueOf(s) = Rung(s, s.tick)
    BY <1>1, <1>2 DEF DueOf, Rung, Asleep
  <2>3. /\ Filing(r) /\ Woken(r, s, T)
        /\ r.tick = s.tick /\ r.locked = s.locked /\ r.pended = s.pended /\ r.stale = s.stale
        /\ r.cur = s.cur /\ r.yield = s.yield /\ r.prio = s.prio
        /\ \A x \in Items(r.delayed) : r.unblock <= x.value
    BY <1>3, <2>1, <2>2, Unblocked
  <2>4. \A x \in Asleep(s) : x.owner \in T <=> x \in Rung(s, s.tick)
    BY <1>2, <1>3 DEF OwnersOf, Rung
  <2>5. /\ Items(r.delayed) = {x \in Items(s.delayed) : x.value # s.tick}
        /\ Items(r.overflow) = Items(s.overflow)
    BY <1>1, <1>2, <2>3, <2>4 DEF Woken, Rung, Asleep
  <2>6. Asleep(r) = Asleep(s) \ Rung(s, s.tick)
    BY <1>1, <1>2, <2>5 DEF Asleep, Rung
  <2>7. Clock(r)
    BY <1>1, <1>2, <2>3, <2>5 DEF Clock, Asleep
  <2>8. r.parked = s.parked
    <3>1. \A t \in T : t \notin s.parked
      BY <1>2, <1>3 DEF OwnersOf, Rung
    <3> QED
      BY <2>3, <3>1 DEF Woken
  <2> QED
    BY <1>3, <2>3, <2>6, <2>7, <2>8 DEF Ticked, Woken
<1>5. CASE ~(s.tick >= s.unblock)
  <2>1. r = s
    BY <1>5
  <2>2. Rung(s, s.tick) = {}
    BY <1>1, <1>2, <1>5 DEF Rung, Asleep
  <2>3. OwnersOf(Rung(s, s.tick)) = {}
    BY <2>2 DEF OwnersOf
  <2>4. Clock(r)
    BY <1>1, <1>2, <1>5, <2>1 DEF Clock, Asleep
  <2> QED
    BY <2>1, <2>2, <2>3, <2>4 DEF Ticked
<1> QED
  BY <1>4, <1>5

LEMMA Incremented ==
    ASSUME NEW s \in SchedState, Filing(s), Clock(s), NEW r, r = IncrementTick(s)
    PROVE  /\ Filing(r) /\ Clock(r) /\ Ticked(r, s, (s.tick + 1) % W)
           /\ r.stale = IF s.tick + 1 = W THEN Task ELSE s.stale
<1>1. W \in Nat /\ W > 1 /\ s.tick \in 0 .. W - 1 /\ s.unblock \in 0 .. W - 1
  BY StateFields, WidthIs DEF Width
<1>2. PICK tick \in 0 .. W - 1 : /\ tick = (s.tick + 1) % W
                                 /\ tick = IF s.tick + 1 = W THEN 0 ELSE s.tick + 1
  <2>1. CASE s.tick + 1 = W
    BY <1>1, <2>1, ModOnce
  <2>2. CASE s.tick + 1 < W
    BY <1>1, <2>2, ModOnce
  <2> QED
    BY <1>1, <2>1, <2>2
<1>3. PICK q : q = [s EXCEPT !.tick = tick]
  OBVIOUS
<1>4. q \in SchedState
  BY <1>2, <1>3, WidthIs DEF SchedState, Width
<1>5. /\ q.tick = tick /\ q.unblock = s.unblock /\ SameLists(q, s) /\ SameWaits(q, s)
      /\ q.ready = s.ready /\ q.top = s.top /\ q.locked = s.locked /\ q.pended = s.pended
      /\ q.stale = s.stale /\ q.cur = s.cur /\ q.yield = s.yield /\ q.prio = s.prio
  BY <1>3 DEF SchedState, SameLists, SameWaits
<1>6. Ready(q) = Ready(s) /\ Delayed(q) = Delayed(s) /\ Asleep(q) = Asleep(s)
  BY <1>5 DEF Ready, Delayed, Asleep, SameLists
<1>7. Filing(q)
  <2>1. Placed(q)
    BY <1>4, <1>5, <1>6 DEF Filing, Placed, Rings, Apart, SameLists
  <2> QED
    BY <1>5, <1>6, <2>1 DEF Filing, Waiters, SameWaits
<1>8. CASE s.tick + 1 # W
  <2>1. tick # 0 /\ tick = s.tick + 1
    BY <1>1, <1>2, <1>8
  <2>2. r = IF q.tick >= q.unblock THEN UnblockDue(q) ELSE q
    BY <1>2, <1>3, <1>5, <2>1 DEF IncrementTick
  <2>3. /\ \A x \in Items(q.delayed) : q.tick <= x.value /\ x.value < W /\ q.unblock <= x.value
        /\ \A x \in Items(q.overflow) : x.value < q.tick
    <3>1. \A x \in Items(s.delayed) \cup Items(s.overflow) : x.value \in Nat
      BY AsleepOwners DEF Asleep
    <3> QED
      BY <1>1, <1>5, <2>1, <3>1 DEF Clock, SameLists
  <2>4. Filing(r) /\ Clock(r) /\ Ticked(r, q, q.tick) /\ r.stale = q.stale
    BY <1>4, <1>7, <2>2, <2>3, Rang
  <2> QED
    BY <1>2, <1>5, <1>6, <1>8, <2>4 DEF Ticked, Rung, SameLists, SameWaits
<1>9. CASE s.tick + 1 = W
  <2>1. tick = 0
    BY <1>1, <1>2, <1>9
  <2>2. PICK u : u = [q EXCEPT !.delayed = q.overflow, !.overflow = q.delayed, !.stale = Task]
    OBVIOUS
  <2>3. PICK v : v = ResetNextUnblock(u)
    OBVIOUS
  <2>4. r = IF v.tick >= v.unblock THEN UnblockDue(v) ELSE v
    <3>1. r = LET n == IF q.tick = 0 THEN SwitchDelayedLists(q) ELSE q
              IN  IF n.tick >= n.unblock THEN UnblockDue(n) ELSE n
      BY <1>2, <1>3 DEF IncrementTick
    <3>2. q.tick = 0
      BY <1>5, <2>1
    <3>3. v = SwitchDelayedLists(q)
      BY <2>2, <2>3 DEF SwitchDelayedLists
    <3> QED
      BY <3>1, <3>2, <3>3
  <2>5. u \in SchedState
    BY <1>4, <2>2 DEF SchedState
  <2>6. /\ u.tick = 0 /\ u.delayed = s.overflow /\ u.overflow = s.delayed /\ u.parked = s.parked
        /\ SameWaits(u, s)
        /\ u.ready = s.ready /\ u.top = s.top /\ u.locked = s.locked /\ u.pended = s.pended
        /\ u.stale = Task /\ u.cur = s.cur /\ u.yield = s.yield /\ u.prio = s.prio
    <3>1. /\ u.tick = q.tick /\ u.delayed = q.overflow /\ u.overflow = q.delayed /\ u.parked = q.parked
          /\ SameWaits(u, q)
          /\ u.ready = q.ready /\ u.top = q.top /\ u.locked = q.locked /\ u.pended = q.pended
          /\ u.stale = Task /\ u.cur = q.cur /\ u.yield = q.yield /\ u.prio = q.prio
      BY <1>4, <2>2 DEF SchedState, SameWaits
    <3> QED
      BY <1>5, <2>1, <3>1 DEF SameLists, SameWaits
  <2>7. Ready(u) = Ready(s) /\ Delayed(u) = Delayed(s) /\ Asleep(u) = Asleep(s)
    BY <2>6 DEF Ready, Delayed, Asleep
  <2>8. Filing(u)
    <3>1. Placed(u)
      BY <2>5, <2>6, <2>7 DEF Filing, Placed, Rings, Apart
    <3> QED
      BY <2>6, <2>7, <3>1 DEF Filing, Waiters, SameWaits
  <2>9. \A x \in Items(s.delayed) \cup Items(s.overflow) : x.value \in Nat
    BY AsleepOwners DEF Asleep
  <2>10. Items(s.delayed) = {}
    BY <1>1, <1>9, <2>9 DEF Clock
  <2>11. \A x \in Items(u.delayed) : x.value < W
    BY <1>1, <1>9, <2>6, <2>9 DEF Clock
  <2>12. /\ Filing(v) /\ SameLists(v, u) /\ SameWaits(v, u) /\ Ready(v) = Ready(u)
         /\ v.tick = u.tick /\ v.locked = u.locked /\ v.pended = u.pended /\ v.stale = u.stale
         /\ v.cur = u.cur /\ v.yield = u.yield /\ v.prio = u.prio
         /\ \A x \in Items(v.delayed) : v.unblock <= x.value
    BY <2>3, <2>5, <2>8, <2>11, UnblockReset
  <2>13. /\ \A x \in Items(v.delayed) : v.tick <= x.value /\ x.value < W /\ v.unblock <= x.value
         /\ \A x \in Items(v.overflow) : x.value < v.tick
    BY <2>6, <2>9, <2>10, <2>11, <2>12 DEF SameLists
  <2>14. Filing(r) /\ Clock(r) /\ Ticked(r, v, v.tick) /\ r.stale = v.stale
    <3>1. v \in SchedState
      BY <2>12 DEF Filing, Placed
    <3> QED
      BY <2>4, <2>12, <2>13, <3>1, Rang
  <2>15. Asleep(v) = Asleep(s) /\ Ready(v) = Ready(s)
    BY <2>7, <2>12 DEF Asleep, SameLists
  <2> QED
    BY <1>2, <1>9, <2>1, <2>6, <2>12, <2>14, <2>15 DEF Ticked, Rung, SameLists, SameWaits
<1> QED
  BY <1>8, <1>9

-----------------------------------------------------------------------------
(***************************************************************************)
(* Between vTaskSuspendAll and xTaskResumeAll.                             *)
(***************************************************************************)
(* The scheduler is locked and n ticks pend; the rest is as it was in q.   *)
Frozen(s, q, n) ==
    /\ s \in SchedState /\ s.locked /\ s.pended = q.pended + n
    /\ (n = 0 => s.yield = q.yield) /\ (n > 0 => s.yield)
    /\ s.tick = q.tick /\ s.unblock = q.unblock /\ s.stale = q.stale
    /\ SameLists(s, q) /\ SameWaits(s, q)
    /\ s.ready = q.ready /\ s.top = q.top /\ s.cur = q.cur /\ s.prio = q.prio

SuspendFold(g, s, n) ==
    g = [i \in 0 .. n |-> IF i = 0 THEN SuspendAll(s) ELSE TickISR(g[i - 1])]

LEMMA SuspendFolds ==
    ASSUME NEW s, NEW m \in Nat
    PROVE  \E g : SuspendFold(g, s, m)
<1> DEFINE S == {n \in Nat : \E g : SuspendFold(g, s, n)}
<1>1. 0 \in S
  <2>1. [i \in 0 .. 0 |-> SuspendAll(s)] =
            [i \in 0 .. 0 |-> IF i = 0 THEN SuspendAll(s)
                              ELSE TickISR([j \in 0 .. 0 |-> SuspendAll(s)][i - 1])]
    OBVIOUS
  <2> QED
    BY <2>1 DEF SuspendFold
<1>2. ASSUME NEW n \in Nat, n \in S PROVE n + 1 \in S
  <2>1. PICK g : SuspendFold(g, s, n)
    BY <1>2
  <2>2. PICK h : h = [i \in 0 .. n + 1 |-> IF i = n + 1 THEN TickISR(g[n]) ELSE g[i]]
    OBVIOUS
  <2>3. h = [i \in 0 .. n + 1 |-> IF i = 0 THEN SuspendAll(s) ELSE TickISR(h[i - 1])]
    BY <2>1, <2>2 DEF SuspendFold
  <2> QED
    BY <2>3 DEF SuspendFold
<1> HIDE DEF S
<1>3. m \in S
  BY <1>1, <1>2, Induct
<1> QED
  BY <1>3 DEF S

LEMMA TickWhileLocked ==
    ASSUME NEW q \in SchedState, NEW s, NEW i \in Nat, Frozen(s, q, i),
           NEW r, r = TickISR(s)
    PROVE  Frozen(r, q, i + 1)
<1>1. PICK u : u = [s EXCEPT !.pended = @ + 1]
  OBVIOUS
<1>2. s \in SchedState /\ s.locked
  BY DEF Frozen
<1>3. s.pended \in Nat /\ q.pended \in Nat
  BY <1>2, StateFields
<1>4. u \in SchedState /\ u.locked
  BY <1>1, <1>2, <1>3 DEF SchedState
<1>5. r = SwitchContext(u)
  BY <1>1, <1>2 DEF TickISR
<1>6. r = [u EXCEPT !.yield = TRUE]
  BY <1>4, <1>5 DEF SwitchContext
<1>7. r \in SchedState
  BY <1>4, <1>6 DEF SchedState
<1>8. /\ r.locked = s.locked /\ r.pended = s.pended + 1 /\ r.yield = TRUE
      /\ r.tick = s.tick /\ r.unblock = s.unblock /\ r.stale = s.stale
      /\ r.ready = s.ready /\ r.top = s.top /\ r.cur = s.cur /\ r.prio = s.prio
      /\ SameLists(r, s) /\ SameWaits(r, s)
  BY <1>1, <1>2, <1>4, <1>6 DEF SchedState, SameLists, SameWaits
<1>9. r.pended = q.pended + (i + 1)
  BY <1>3, <1>8 DEF Frozen
<1> QED
  BY <1>2, <1>7, <1>8, <1>9 DEF Frozen, SameLists, SameWaits

LEMMA SuspendedIs ==
    ASSUME k \in SchedState, NEW n \in Nat, NEW s, s = Suspended(n)
    PROVE  Frozen(s, k, n)
<1>1. PICK f : f = CHOOSE g : SuspendFold(g, k, n)
  OBVIOUS
<1>2. s = f[n]
  BY <1>1 DEF Suspended, SuspendFold
<1>3. SuspendFold(f, k, n)
  BY <1>1, SuspendFolds
<1>4. f[0] = SuspendAll(k) /\ \A i \in 0 .. n - 1 : f[i + 1] = TickISR(f[i])
  BY <1>3 DEF SuspendFold
<1> DEFINE S == {i \in Nat : i <= n => Frozen(f[i], k, i)}
<1>5. 0 \in S
  <2>1. PICK q : q = f[0]
    OBVIOUS
  <2>2. q = [k EXCEPT !.locked = TRUE]
    BY <1>4, <2>1 DEF SuspendAll
  <2>3. q \in SchedState
    BY <2>2 DEF SchedState
  <2>4. /\ q.locked = TRUE /\ q.pended = k.pended /\ q.yield = k.yield
        /\ q.tick = k.tick /\ q.unblock = k.unblock /\ q.stale = k.stale
        /\ q.ready = k.ready /\ q.top = k.top /\ q.cur = k.cur /\ q.prio = k.prio
        /\ SameLists(q, k) /\ SameWaits(q, k)
    BY <2>2 DEF SchedState, SameLists, SameWaits
  <2>5. k.pended \in Nat
    BY StateFields
  <2>6. Frozen(q, k, 0)
    BY <2>3, <2>4, <2>5 DEF Frozen
  <2> QED
    BY <2>1, <2>6
<1>6. ASSUME NEW i \in Nat, i \in S PROVE i + 1 \in S
  <2> SUFFICES ASSUME i + 1 <= n PROVE Frozen(f[i + 1], k, i + 1)
    OBVIOUS
  <2>1. Frozen(f[i], k, i) /\ f[i + 1] = TickISR(f[i])
    BY <1>4, <1>6
  <2> QED
    BY <2>1, TickWhileLocked
<1>7. n \in S
  <2> HIDE DEF S
  <2> QED
    BY <1>5, <1>6, Induct
<1> QED
  BY <1>2, <1>7

LEMMA FrozenFiling ==
    ASSUME NEW q \in SchedState, NEW s, NEW n, Frozen(s, q, n)
    PROVE  /\ Ready(s) = Ready(q) /\ Delayed(s) = Delayed(q) /\ Asleep(s) = Asleep(q)
           /\ Placed(q) => Placed(s)
           /\ Filing(q) => Filing(s)
           /\ Clock(q) => Clock(s)
<1>1. Ready(s) = Ready(q) /\ Delayed(s) = Delayed(q) /\ Asleep(s) = Asleep(q)
  BY DEF Frozen, Ready, Delayed, Asleep, SameLists
<1>2. Placed(q) => Placed(s)
  BY <1>1 DEF Frozen, Placed, Rings, Apart, SameLists
<1>3. Filing(q) => Filing(s)
  BY <1>1, <1>2 DEF Frozen, Filing, Waiters, SameWaits
<1>4. Clock(q) => Clock(s)
  BY DEF Frozen, Clock, SameLists
<1> QED
  BY <1>1, <1>2, <1>3, <1>4

-----------------------------------------------------------------------------
(* n ticks have passed: those with no more than n ticks to sleep are ready, *)
(* and nothing else has moved.                                              *)
Passed(r, s, n) ==
    /\ Filing(r) /\ Clock(r) /\ ~r.locked
    /\ r.tick = (s.tick + n) % W
    /\ r.stale = IF s.tick + n >= W THEN Task ELSE s.stale
    /\ Asleep(r) = {x \in Asleep(s) : Elapsed(s.tick, x.value) > n}
    /\ Ready(r) = Ready(s) \cup (Delayed(s) \ Delayed(r))
    /\ Items(r.mwait) = {x \in Items(s.mwait) : x.owner \in Delayed(r)}
    /\ Items(r.bwait) = {x \in Items(s.bwait) : x.owner \in Delayed(r)}
    /\ r.parked = s.parked /\ r.prio = s.prio

LEMMA PassedOne ==
    ASSUME NEW s, Filing(s), Clock(s), s.tick \in TickType, NEW q \in SchedState, NEW i \in Nat,
           Passed(q, s, i), NEW r, r = IncrementTick(q)
    PROVE  /\ Passed(r, s, i + 1)
           /\ r.cur = q.cur /\ r.yield = q.yield /\ r.pended = q.pended
<1>1. W \in Nat /\ W > 1 /\ s.tick \in 0 .. W - 1 /\ q.tick \in 0 .. W - 1
  BY StateFields, WidthIs DEF Width
<1>2. Filing(q) /\ Clock(q)
  BY DEF Passed
<1>3. PICK tick : tick = (q.tick + 1) % W
  OBVIOUS
<1>4. /\ Filing(r) /\ Clock(r) /\ Ticked(r, q, tick)
      /\ r.stale = IF q.tick + 1 = W THEN Task ELSE q.stale
  BY <1>2, <1>3, Incremented
<1>5. tick = (s.tick + (i + 1)) % W
  <2>1. s.tick + i \in Nat /\ (s.tick + i) + 1 = s.tick + (i + 1)
    BY <1>1
  <2>2. q.tick = (s.tick + i) % W
    BY DEF Passed
  <2> QED
    BY <1>3, <2>1, <2>2, ModNext
<1>6. r.stale = IF s.tick + (i + 1) >= W THEN Task ELSE s.stale
  <2>1. CASE s.tick + i >= W
    BY <1>1, <1>4, <2>1 DEF Passed
  <2>2. CASE ~(s.tick + i >= W)
    <3>1. q.tick = s.tick + i
      BY <1>1, <2>2, ModOnce DEF Passed
    <3>2. q.stale = s.stale
      BY <2>2 DEF Passed
    <3>3. s.tick + (i + 1) >= W <=> q.tick + 1 = W
      BY <1>1, <2>2, <3>1
    <3> QED
      BY <1>4, <3>2, <3>3
  <2> QED
    BY <2>1, <2>2
<1>7. ASSUME NEW x \in Asleep(q)
      PROVE  (x.value = tick <=> ~(Elapsed(s.tick, x.value) > i + 1))
  <2>1. x \in Asleep(s) /\ Elapsed(s.tick, x.value) > i
    BY DEF Passed
  <2>2. x.value \in 0 .. W - 1 /\ x.value # s.tick
    <3>1. s \in SchedState
      BY DEF Filing, Placed
    <3>2. x.value \in Nat
      BY <2>1, <3>1, AsleepOwners
    <3> QED
      BY <1>1, <2>1, <3>2 DEF Clock, Asleep
  <2>3. Elapsed(s.tick, x.value) = IF s.tick <= x.value THEN x.value - s.tick
                                                       ELSE x.value - s.tick + W
    BY <1>1, <2>2, ElapsedIsDifference DEF TickType
  <2>4. i < W
    BY <1>1, <2>1, <2>2, <2>3
  <2>5. tick = IF s.tick + (i + 1) >= W THEN s.tick + (i + 1) - W ELSE s.tick + (i + 1)
    <3>1. 0 <= s.tick + (i + 1) /\ s.tick + (i + 1) < 2 * W /\ s.tick + (i + 1) \in Int
      BY <1>1, <2>4
    <3> QED
      BY <1>1, <1>5, <3>1, ModOnce
  <2> QED
    BY <1>1, <2>1, <2>2, <2>3, <2>4, <2>5
<1>8. Asleep(r) = {x \in Asleep(s) : Elapsed(s.tick, x.value) > i + 1}
  <2>1. Asleep(r) = {x \in Asleep(q) : Elapsed(s.tick, x.value) > i + 1}
    BY <1>4, <1>7 DEF Ticked, Rung
  <2>2. \A x \in Asleep(s) : Elapsed(s.tick, x.value) \in Int
    <3>1. \A x \in Asleep(s) : x.value \in Nat
      BY AsleepOwners DEF Filing, Placed
    <3> QED
      BY <1>1, <3>1 DEF Elapsed
  <2> QED
    BY <2>1, <2>2 DEF Passed
<1>9. PICK T : T = OwnersOf(Rung(q, tick))
  OBVIOUS
<1>10. /\ Delayed(q) = OwnersOf(Asleep(q)) /\ Delayed(r) = OwnersOf(Asleep(r))
       /\ \A x, y \in Asleep(q) : x.owner = y.owner => x = y
  BY <1>2, <1>4, AsleepOwners DEF Filing, Placed
<1>11. Delayed(r) = Delayed(q) \ T /\ T \subseteq Delayed(q)
  BY <1>4, <1>9, <1>10 DEF Ticked, OwnersOf, Rung
<1>12. Delayed(q) \subseteq Delayed(s)
  <2>1. Delayed(s) = OwnersOf(Asleep(s))
    BY AsleepOwners DEF Filing, Placed
  <2> QED
    BY <1>10, <2>1 DEF Passed, OwnersOf
<1>13. /\ Ready(r) = Ready(q) \cup T
       /\ Items(r.mwait) = {x \in Items(q.mwait) : x.owner \notin T}
       /\ Items(r.bwait) = {x \in Items(q.bwait) : x.owner \notin T}
  BY <1>4, <1>9 DEF Ticked
<1>14. Ready(r) = Ready(s) \cup (Delayed(s) \ Delayed(r))
  BY <1>11, <1>12, <1>13 DEF Passed
<1>15. /\ Items(r.mwait) = {x \in Items(s.mwait) : x.owner \in Delayed(r)}
       /\ Items(r.bwait) = {x \in Items(s.bwait) : x.owner \in Delayed(r)}
  BY <1>11, <1>13 DEF Passed
<1> QED
  BY <1>3, <1>4, <1>5, <1>6, <1>8, <1>14, <1>15 DEF Passed, Ticked

Unlocked(s) == [s EXCEPT !.locked = FALSE]

CatchUpFold(g, s, n) ==
    g = [i \in 0 .. n |-> IF i = 0 THEN Unlocked(s) ELSE IncrementTick(g[i - 1])]

LEMMA CatchUpFolds ==
    ASSUME NEW s, NEW m \in Nat
    PROVE  \E g : CatchUpFold(g, s, m)
<1> DEFINE S == {n \in Nat : \E g : CatchUpFold(g, s, n)}
<1>1. 0 \in S
  <2>1. [i \in 0 .. 0 |-> Unlocked(s)] =
            [i \in 0 .. 0 |-> IF i = 0 THEN Unlocked(s)
                              ELSE IncrementTick([j \in 0 .. 0 |-> Unlocked(s)][i - 1])]
    OBVIOUS
  <2> QED
    BY <2>1 DEF CatchUpFold
<1>2. ASSUME NEW n \in Nat, n \in S PROVE n + 1 \in S
  <2>1. PICK g : CatchUpFold(g, s, n)
    BY <1>2
  <2>2. PICK h : h = [i \in 0 .. n + 1 |-> IF i = n + 1 THEN IncrementTick(g[n]) ELSE g[i]]
    OBVIOUS
  <2>3. CatchUpFold(h, s, n + 1)
    BY <2>1, <2>2 DEF CatchUpFold
  <2> QED
    BY <2>3
<1> HIDE DEF S
<1>3. m \in S
  BY <1>1, <1>2, Induct
<1> QED
  BY <1>3 DEF S

LEMMA CaughtUp ==
    ASSUME NEW s \in SchedState, Filing(s), Clock(s), NEW r, r = CatchUp(s)
    PROVE  /\ Passed(r, s, s.pended) /\ r.pended = 0
           /\ r.cur = s.cur /\ r.yield = s.yield
<1>1. PICK n \in Nat : n = s.pended
  BY StateFields
<1>2. PICK f : f = CHOOSE g : CatchUpFold(g, s, n)
  OBVIOUS
<1>3. CatchUpFold(f, s, n)
  BY <1>2, CatchUpFolds
<1>4. r = [f[n] EXCEPT !.pended = 0]
  BY <1>1, <1>2 DEF CatchUp, CatchUpFold, Unlocked
<1>5. f[0] = Unlocked(s) /\ \A i \in 0 .. n - 1 : f[i + 1] = IncrementTick(f[i])
  BY <1>3 DEF CatchUpFold
<1>6. s.tick \in TickType
  BY StateFields
<1> DEFINE Fine(i) == Passed(f[i], s, i) /\ f[i].cur = s.cur /\ f[i].yield = s.yield
           S == {i \in Nat : i <= n => Fine(i)}
<1>7. 0 \in S
  <2>1. PICK q : q = f[0]
    OBVIOUS
  <2>2. q = [s EXCEPT !.locked = FALSE]
    BY <1>5, <2>1 DEF Unlocked
  <2>3. q \in SchedState
    BY <2>2 DEF SchedState
  <2>4. /\ q.locked = FALSE /\ q.tick = s.tick /\ q.unblock = s.unblock /\ q.stale = s.stale
        /\ q.ready = s.ready /\ q.top = s.top /\ q.cur = s.cur /\ q.prio = s.prio
        /\ q.yield = s.yield /\ SameLists(q, s) /\ SameWaits(q, s)
    BY <2>2 DEF SchedState, SameLists, SameWaits
  <2>5. Ready(q) = Ready(s) /\ Delayed(q) = Delayed(s) /\ Asleep(q) = Asleep(s)
    BY <2>4 DEF Ready, Delayed, Asleep, SameLists
  <2>6. Filing(q) /\ Clock(q)
    <3>1. Placed(q)
      BY <2>3, <2>4, <2>5 DEF Filing, Placed, Rings, Apart, SameLists
    <3>2. Waiters(q)
      BY <2>4, <2>5 DEF Filing, Waiters, SameWaits
    <3>3. Clock(q)
      BY <2>4 DEF Clock, SameLists
    <3> QED
      BY <3>1, <3>2, <3>3 DEF Filing
  <2>7. W \in Nat /\ W > 1 /\ s.tick \in 0 .. W - 1
    BY <1>6, WidthIs DEF Width
  <2>8. s.tick + 0 = s.tick /\ s.tick % W = s.tick /\ ~(s.tick + 0 >= W)
    BY <2>7, ModOnce
  <2>9. \A x \in Asleep(s) : Elapsed(s.tick, x.value) > 0
    <3> SUFFICES ASSUME NEW x \in Asleep(s) PROVE Elapsed(s.tick, x.value) > 0
      OBVIOUS
    <3>1. x.value \in 0 .. W - 1 /\ x.value # s.tick
      <4>1. x.value \in Nat
        BY AsleepOwners
      <4> QED
        BY <2>7, <4>1 DEF Clock, Asleep
    <3> QED
      BY <2>7, <3>1, ElapsedIsDifference DEF TickType
  <2>10. /\ Items(s.mwait) = {x \in Items(s.mwait) : x.owner \in Delayed(s)}
         /\ Items(s.bwait) = {x \in Items(s.bwait) : x.owner \in Delayed(s)}
    <3>1. s.mwait \in List /\ s.bwait \in List
      BY StateFields
    <3>2. /\ \A x \in Items(s.mwait) : x.owner \in Owners(s.mwait)
          /\ \A x \in Items(s.bwait) : x.owner \in Owners(s.bwait)
      BY <3>1, ListFacts
    <3> QED
      BY <3>2 DEF Filing, Waiters
  <2>11. Passed(q, s, 0)
    BY <2>4, <2>5, <2>6, <2>8, <2>9, <2>10 DEF Passed, SameLists, SameWaits
  <2> QED
    BY <2>1, <2>4, <2>11
<1>8. ASSUME NEW i \in Nat, i \in S PROVE i + 1 \in S
  <2> SUFFICES ASSUME i + 1 <= n PROVE Fine(i + 1)
    OBVIOUS
  <2>1. PICK q : q = f[i]
    OBVIOUS
  <2>2. Passed(q, s, i) /\ q.cur = s.cur /\ q.yield = s.yield
    BY <1>8, <2>1
  <2>3. PICK u : u = f[i + 1]
    OBVIOUS
  <2>4. u = IncrementTick(q)
    BY <1>5, <2>1, <2>3
  <2>5. q \in SchedState
    BY <2>2 DEF Passed, Filing, Placed
  <2>6. Passed(u, s, i + 1) /\ u.cur = q.cur /\ u.yield = q.yield
    BY <1>6, <2>2, <2>4, <2>5, PassedOne
  <2> QED
    BY <2>2, <2>3, <2>6
<1>9. PICK q : q = f[n]
  OBVIOUS
<1>10. Passed(q, s, n) /\ q.cur = s.cur /\ q.yield = s.yield
  <2>1. Fine(n)
    <3> HIDE DEF S, Fine
    <3>1. n \in S
      BY <1>7, <1>8, Induct
    <3> QED
      BY <3>1 DEF S
  <2> QED
    BY <1>9, <2>1
<1>11. r = [q EXCEPT !.pended = 0]
  BY <1>4, <1>9
<1>12. q \in SchedState
  BY <1>10 DEF Passed, Filing, Placed
<1>13. r \in SchedState
  BY <1>11, <1>12 DEF SchedState
<1>14. /\ r.locked = q.locked /\ r.tick = q.tick /\ r.unblock = q.unblock /\ r.stale = q.stale
       /\ r.ready = q.ready /\ r.top = q.top /\ r.cur = q.cur /\ r.prio = q.prio
       /\ r.yield = q.yield /\ r.pended = 0 /\ SameLists(r, q) /\ SameWaits(r, q)
  BY <1>11, <1>12 DEF SchedState, SameLists, SameWaits
<1>15. Ready(r) = Ready(q) /\ Delayed(r) = Delayed(q) /\ Asleep(r) = Asleep(q)
  BY <1>14 DEF Ready, Delayed, Asleep, SameLists
<1>16. Filing(r) /\ Clock(r)
  <2>1. Placed(r)
    BY <1>10, <1>13, <1>14, <1>15 DEF Passed, Filing, Placed, Rings, Apart, SameLists
  <2>2. Waiters(r)
    BY <1>10, <1>14, <1>15 DEF Passed, Filing, Waiters, SameWaits
  <2>3. Clock(r)
    BY <1>10, <1>14 DEF Passed, Clock, SameLists
  <2> QED
    BY <2>1, <2>2, <2>3 DEF Filing
<1>17. Passed(r, s, n)
  BY <1>10, <1>14, <1>15, <1>16 DEF Passed, SameLists, SameWaits
<1> QED
  BY <1>1, <1>10, <1>14, <1>17

LEMMA Resumed ==
    ASSUME NEW s \in SchedState, Filing(s), Clock(s), NEW r, r = ResumeAll(s)
    PROVE  /\ Passed(r, s, s.pended) /\ r.pended = 0 /\ ~r.yield
           /\ s.yield => Highest(r)
           /\ ~s.yield => r.cur = s.cur
<1>1. PICK q : q = CatchUp(s)
  OBVIOUS
<1>2. PICK n \in Nat : n = s.pended
  BY StateFields
<1>3. Passed(q, s, n) /\ q.pended = 0 /\ q.cur = s.cur /\ q.yield = s.yield
  BY <1>1, <1>2, CaughtUp
<1>4. CASE s.yield
  <2>1. r = SwitchContext(q)
    BY <1>1, <1>4 DEF ResumeAll
  <2>2. q \in SchedState /\ Placed(q) /\ ~q.locked
    BY <1>3 DEF Passed, Filing, Placed
  <2>3. /\ Placed(r) /\ Ready(r) = Ready(q) /\ ~r.yield
        /\ SameClock(r, q) /\ SameLists(r, q) /\ SameWaits(r, q) /\ r.prio = q.prio
        /\ Highest(r)
    BY <2>1, <2>2, Switched
  <2>4. Delayed(r) = Delayed(q) /\ Asleep(r) = Asleep(q)
    BY <2>3 DEF Delayed, Asleep, SameLists
  <2>5. Filing(r) /\ Clock(r)
    <3>1. Waiters(r)
      BY <1>3, <2>3, <2>4 DEF Passed, Filing, Waiters, SameWaits
    <3>2. Clock(r)
      BY <1>3, <2>3 DEF Passed, Clock, SameLists, SameClock
    <3> QED
      BY <2>3, <3>1, <3>2 DEF Filing
  <2>6. Passed(r, s, n)
    BY <1>3, <2>3, <2>4, <2>5 DEF Passed, SameClock, SameLists, SameWaits
  <2> QED
    BY <1>2, <1>3, <1>4, <2>3, <2>6 DEF SameClock
<1>5. CASE ~s.yield
  <2>1. r = q
    BY <1>1, <1>5 DEF ResumeAll
  <2> QED
    BY <1>2, <1>3, <1>5, <2>1
<1> QED
  BY <1>4, <1>5

-----------------------------------------------------------------------------
(***************************************************************************)
(* The caller goes to sleep.                                               *)
(***************************************************************************)
Naps == 1 .. W - 1

LEMMA ItemIs ==
    ASSUME NEW t \in Task, NEW v \in Nat
    PROVE  Item(t, v) \in Entry /\ Item(t, v).owner = t /\ Item(t, v).value = v
  BY DEF Item, Entry

(* The caller has gone from the ready tasks to those that sleep, for n ticks. *)
Dozed(r, s, n) ==
    /\ Ready(r) = Ready(s) \ {s.cur} /\ Delayed(r) = Delayed(s) \cup {s.cur}
    /\ Asleep(r) = Asleep(s) \cup {Item(s.cur, TimeToWake(s.tick, n))}
    /\ r.tick = s.tick /\ r.locked = s.locked /\ r.pended = s.pended /\ r.stale = s.stale
    /\ r.parked = s.parked /\ r.cur = s.cur /\ r.yield = s.yield /\ r.prio = s.prio

LEMMA FellAsleep ==
    ASSUME NEW s \in SchedState, Placed(s), Clock(s), s.cur \in Ready(s), s.cur # Idle,
           NEW n \in Naps, NEW forever \in BOOLEAN, n = MaxDelay => forever = FALSE,
           NEW r, r = AddToDelayed(s, n, forever)
    PROVE  Placed(r) /\ Clock(r) /\ SameWaits(r, s) /\ Dozed(r, s, n)
<1>1. PICK t \in Task : t = s.cur /\ t # Idle /\ t \in Ready(s)
  BY StateFields
<1>2. W \in Nat /\ W > 1 /\ s.tick \in 0 .. W - 1 /\ s.unblock \in 0 .. W - 1
  BY StateFields, WidthIs DEF Width
<1>3. PICK w \in 0 .. W - 1 : w = TimeToWake(s.tick, n) /\ w # s.tick
  <2>1. n \in TickType /\ s.tick \in TickType
    BY <1>2, WidthIs DEF Width, Naps
  <2>2. /\ TimeToWake(s.tick, n) \in TickType
        /\ TimeToWake(s.tick, n) = IF s.tick + n < W THEN s.tick + n ELSE s.tick + n - W
    BY <2>1, WakeInRange
  <2> QED
    BY <1>2, <2>2, WidthIs DEF Width, Naps
<1>4. PICK e \in Entry : e = Item(t, w) /\ e.owner = t /\ e.value = w
  BY <1>2, <1>3, ItemIs
<1>5. PICK q : q = RemoveFromReady(s, t)
  OBVIOUS
<1>6. /\ q \in SchedState /\ Rings(q) /\ Ready(q) = Ready(s) \ {t}
      /\ SameClock(q, s) /\ SameLists(q, s) /\ SameWaits(q, s)
      /\ q.cur = s.cur /\ q.yield = s.yield /\ q.prio = s.prio
  BY <1>1, <1>5, RemovedFromReady DEF Placed
<1>7. /\ t \notin Owners(s.delayed) /\ t \notin Owners(s.overflow) /\ t \notin s.parked
      /\ t \notin Delayed(s)
  BY <1>1 DEF Placed, Apart, Delayed
<1>8. /\ s.delayed \in List /\ s.overflow \in List
  BY StateFields
<1>9. CASE w < s.tick
  <2>1. PICK o \in List : /\ o = Insert(s.overflow, e) /\ Items(o) = Items(s.overflow) \cup {e}
                          /\ Owners(o) = Owners(s.overflow) \cup {t}
    BY <1>4, <1>7, <1>8, ListInserted
  <2>2. r = [q EXCEPT !.overflow = o]
    <3>1. q.overflow = s.overflow
      BY <1>6 DEF SameLists
    <3>2. r = [q EXCEPT !.overflow = Insert(@, e)]
      BY <1>1, <1>3, <1>4, <1>5, <1>9 DEF AddToDelayed
    <3> QED
      BY <1>6, <2>1, <3>1, <3>2 DEF SchedState
  <2>3. r \in SchedState
    BY <1>6, <2>2 DEF SchedState
  <2>4. /\ r.delayed = q.delayed /\ r.overflow = o /\ r.parked = q.parked /\ SameClock(r, q)
        /\ SameWaits(r, q) /\ r.ready = q.ready /\ r.top = q.top
        /\ r.cur = q.cur /\ r.yield = q.yield /\ r.prio = q.prio
    BY <1>6, <2>2 DEF SchedState, SameClock, SameWaits
  <2>5. /\ r.delayed = s.delayed /\ r.parked = s.parked /\ SameClock(r, s) /\ SameWaits(r, s)
        /\ r.cur = s.cur /\ r.yield = s.yield /\ r.prio = s.prio
    BY <1>6, <2>4 DEF SameClock, SameLists, SameWaits
  <2>6. Ready(r) = Ready(s) \ {t} /\ Rings(r)
    BY <1>6, <2>4 DEF Ready, Rings
  <2>7. Delayed(r) = Delayed(s) \cup {t} /\ Asleep(r) = Asleep(s) \cup {e}
    BY <2>1, <2>4, <2>5 DEF Delayed, Asleep
  <2>8. Apart(r)
    <3> SUFFICES ASSUME NEW u \in Task
                 PROVE  /\ u \in Ready(r) \/ u \in Delayed(r) \/ u \in r.parked
                        /\ ~(u \in Ready(r) /\ u \in Delayed(r)) /\ ~(u \in Ready(r) /\ u \in r.parked)
                        /\ ~(u \in Delayed(r) /\ u \in r.parked)
                        /\ ~(u \in Owners(r.delayed) /\ u \in Owners(r.overflow))
      BY DEF Apart
    <3>1. /\ u \in Ready(s) \/ u \in Delayed(s) \/ u \in s.parked
          /\ ~(u \in Ready(s) /\ u \in Delayed(s)) /\ ~(u \in Ready(s) /\ u \in s.parked)
          /\ ~(u \in Delayed(s) /\ u \in s.parked)
          /\ ~(u \in Owners(s.delayed) /\ u \in Owners(s.overflow))
      BY DEF Placed, Apart
    <3> QED
      BY <1>7, <2>1, <2>4, <2>5, <2>6, <2>7, <3>1
  <2>9. Clock(r)
    BY <1>3, <1>4, <1>9, <2>1, <2>4, <2>5 DEF Clock, SameClock
  <2>10. Placed(r)
    BY <1>1, <2>3, <2>6, <2>8 DEF Placed
  <2> QED
    BY <1>1, <1>3, <1>4, <2>5, <2>6, <2>7, <2>9, <2>10 DEF SameClock, Dozed
<1>10. CASE ~(w < s.tick)
  <2>1. PICK d \in List : /\ d = Insert(s.delayed, e) /\ Items(d) = Items(s.delayed) \cup {e}
                          /\ Owners(d) = Owners(s.delayed) \cup {t}
    BY <1>4, <1>7, <1>8, ListInserted
  <2>2. PICK b \in 0 .. W - 1 : /\ b = (IF w < s.unblock THEN w ELSE s.unblock)
                                /\ b <= w /\ b <= s.unblock
    BY <1>2, <1>3
  <2>3. r = [q EXCEPT !.delayed = d, !.unblock = b]
    <3>1. q.delayed = s.delayed /\ q.unblock = s.unblock
      BY <1>6 DEF SameLists, SameClock
    <3>2. r = [q EXCEPT !.delayed = Insert(@, e), !.unblock = IF w < @ THEN w ELSE @]
      BY <1>1, <1>3, <1>4, <1>5, <1>10 DEF AddToDelayed
    <3> QED
      BY <1>6, <2>1, <2>2, <3>1, <3>2 DEF SchedState
  <2>4. r \in SchedState
    BY <1>6, <2>2, <2>3, WidthIs DEF SchedState, Width
  <2>5. /\ r.delayed = d /\ r.overflow = q.overflow /\ r.parked = q.parked /\ r.unblock = b
        /\ r.tick = q.tick /\ r.locked = q.locked /\ r.pended = q.pended /\ r.stale = q.stale
        /\ SameWaits(r, q) /\ r.ready = q.ready /\ r.top = q.top
        /\ r.cur = q.cur /\ r.yield = q.yield /\ r.prio = q.prio
    BY <1>6, <2>3 DEF SchedState, SameWaits
  <2>6. /\ r.overflow = s.overflow /\ r.parked = s.parked /\ SameWaits(r, s)
        /\ r.tick = s.tick /\ r.locked = s.locked /\ r.pended = s.pended /\ r.stale = s.stale
        /\ r.cur = s.cur /\ r.yield = s.yield /\ r.prio = s.prio
    BY <1>6, <2>5 DEF SameClock, SameLists, SameWaits
  <2>7. Ready(r) = Ready(s) \ {t} /\ Rings(r)
    BY <1>6, <2>5 DEF Ready, Rings
  <2>8. Delayed(r) = Delayed(s) \cup {t} /\ Asleep(r) = Asleep(s) \cup {e}
    BY <2>1, <2>5, <2>6 DEF Delayed, Asleep
  <2>9. Apart(r)
    <3> SUFFICES ASSUME NEW u \in Task
                 PROVE  /\ u \in Ready(r) \/ u \in Delayed(r) \/ u \in r.parked
                        /\ ~(u \in Ready(r) /\ u \in Delayed(r)) /\ ~(u \in Ready(r) /\ u \in r.parked)
                        /\ ~(u \in Delayed(r) /\ u \in r.parked)
                        /\ ~(u \in Owners(r.delayed) /\ u \in Owners(r.overflow))
      BY DEF Apart
    <3>1. /\ u \in Ready(s) \/ u \in Delayed(s) \/ u \in s.parked
          /\ ~(u \in Ready(s) /\ u \in Delayed(s)) /\ ~(u \in Ready(s) /\ u \in s.parked)
          /\ ~(u \in Delayed(s) /\ u \in s.parked)
          /\ ~(u \in Owners(s.delayed) /\ u \in Owners(s.overflow))
      BY DEF Placed, Apart
    <3> QED
      BY <1>7, <2>1, <2>5, <2>6, <2>7, <2>8, <3>1
  <2>10. Clock(r)
    <3>1. \A x \in Items(s.delayed) : x.value \in Nat
      BY <1>8, ListFacts DEF Entry
    <3>2. \A x \in Items(s.delayed) : s.tick < x.value /\ x.value < W /\ b <= x.value
      BY <1>2, <2>2, <3>1 DEF Clock
    <3>3. s.tick < w /\ w < W /\ b <= w
      BY <1>2, <1>3, <1>10, <2>2
    <3>4. \A x \in Items(r.delayed) : r.tick < x.value /\ x.value < W /\ r.unblock <= x.value
      BY <1>4, <2>1, <2>5, <2>6, <3>2, <3>3
    <3> QED
      BY <2>6, <3>4 DEF Clock
  <2>11. Placed(r)
    BY <1>1, <2>4, <2>7, <2>9 DEF Placed
  <2> QED
    BY <1>1, <1>3, <1>4, <2>6, <2>7, <2>8, <2>10, <2>11 DEF Dozed
<1> QED
  BY <1>9, <1>10

LEMMA PlacedOnEventList ==
    ASSUME NEW s \in SchedState, Filing(s), Clock(s), s.cur \in Ready(s), s.cur # Idle,
           NEW n \in Naps, n # MaxDelay, NEW r, r = PlaceOnEventList(s, n)
    PROVE  /\ Filing(r) /\ Clock(r) /\ Dozed(r, s, n) /\ r.bwait = s.bwait
           /\ Items(r.mwait) = Items(s.mwait) \cup {Item(s.cur, MaxPriorities - s.prio[s.cur])}
<1>1. PICK t \in Task : t = s.cur /\ t \in Ready(s)
  BY StateFields
<1>2. t \notin Delayed(s) /\ t \notin Owners(s.mwait) /\ t \notin Owners(s.bwait)
  BY <1>1 DEF Filing, Placed, Apart, Waiters
<1>3. PICK e \in Entry : e = Item(t, MaxPriorities - s.prio[t]) /\ e.owner = t
  <2>1. s.prio[t] \in Priority /\ MaxPriorities \in Nat
    BY StateFields, KernelAssumption
  <2>2. MaxPriorities - s.prio[t] \in Nat
    BY <2>1 DEF Priority
  <2> QED
    BY <2>2, ItemIs
<1>4. PICK m \in List : /\ m = Insert(s.mwait, e) /\ Items(m) = Items(s.mwait) \cup {e}
                        /\ Owners(m) = Owners(s.mwait) \cup {t}
  BY <1>2, <1>3, StateFields, ListInserted
<1>5. PICK q : q = [s EXCEPT !.mwait = m]
  OBVIOUS
<1>6. r = AddToDelayed(q, n, TRUE)
  BY <1>1, <1>3, <1>4, <1>5 DEF PlaceOnEventList
<1>7. q \in SchedState
  BY <1>5 DEF SchedState
<1>8. /\ q.mwait = m /\ q.bwait = s.bwait /\ SameClock(q, s) /\ SameLists(q, s)
      /\ q.ready = s.ready /\ q.top = s.top /\ q.cur = s.cur /\ q.yield = s.yield /\ q.prio = s.prio
  BY <1>5 DEF SchedState, SameClock, SameLists
<1>9. Ready(q) = Ready(s) /\ Delayed(q) = Delayed(s) /\ Asleep(q) = Asleep(s)
  BY <1>8 DEF Ready, Delayed, Asleep, SameLists
<1>10. Placed(q) /\ Clock(q)
  BY <1>7, <1>8, <1>9 DEF Filing, Placed, Rings, Apart, Clock, SameClock, SameLists
<1>11. Placed(r) /\ Clock(r) /\ SameWaits(r, q) /\ Dozed(r, q, n)
  <2>1. q.cur \in Ready(q) /\ q.cur # Idle
    BY <1>1, <1>8, <1>9
  <2>2. PICK forever \in BOOLEAN : forever = TRUE
    OBVIOUS
  <2>3. r = AddToDelayed(q, n, forever)
    BY <1>6, <2>2
  <2> QED
    BY <1>7, <1>10, <2>1, <2>3, FellAsleep
<1>12. r.mwait = m /\ r.bwait = s.bwait
  BY <1>8, <1>11 DEF SameWaits
<1>13. Waiters(r)
  <2>1. Delayed(r) = Delayed(s) \cup {t}
    BY <1>1, <1>8, <1>9, <1>11 DEF Dozed
  <2> QED
    BY <1>2, <1>4, <1>12, <2>1 DEF Filing, Waiters
<1> QED
  <2>1. Dozed(r, s, n)
    BY <1>8, <1>9, <1>11 DEF Dozed, SameClock, SameLists
  <2> QED
    BY <1>1, <1>3, <1>4, <1>11, <1>12, <1>13, <2>1 DEF Filing

LEMMA ListAppended ==
    ASSUME NEW s \in List, NEW t \in Task, t \notin Owners(s), \A x \in Items(s) : x.value = 0
    PROVE  /\ Append(s, Item(t, 0)) \in List
           /\ Items(Append(s, Item(t, 0))) = Items(s) \cup {Item(t, 0)}
           /\ Owners(Append(s, Item(t, 0))) = Owners(s) \cup {t}
<1>1. PICK m \in Nat : m = Len(s)
  BY ListFacts
<1>2. PICK e \in Entry : e = Item(t, 0) /\ e.owner = t /\ e.value = 0
  BY ItemIs
<1>3. /\ s \in Seq(Entry) /\ OwnedOnce(s) /\ DOMAIN s = 1 .. m
      /\ \A i \in 1 .. m : s[i].owner # t /\ s[i].value = 0
  BY <1>1, ListFacts DEF Items, Owners
<1>4. PICK c : c = Append(s, e)
  OBVIOUS
<1>5. /\ c \in Seq(Entry) /\ DOMAIN c = 1 .. m + 1 /\ c[m + 1] = e
      /\ \A i \in 1 .. m : c[i] = s[i]
  BY <1>1, <1>3, <1>4
<1>6. \A i \in 1 .. m + 1 : i \in 1 .. m \/ i = m + 1
  OBVIOUS
<1>7. \A i \in 1 .. m + 1 : c[i].value = 0
  BY <1>2, <1>3, <1>5, <1>6
<1>8. OwnedOnce(c)
  <2> SUFFICES ASSUME NEW i \in 1 .. m + 1, NEW j \in 1 .. m + 1, c[i].owner = c[j].owner PROVE i = j
    BY <1>5 DEF OwnedOnce
  <2> QED
    BY <1>2, <1>3, <1>5, <1>6 DEF OwnedOnce
<1>9. Ordered(c)
  BY <1>5, <1>7 DEF Ordered
<1>10. Items(c) = Items(s) \cup {e}
  <2>1. \A i \in 1 .. m : c[i] \in Items(s) /\ s[i] \in Items(c)
    BY <1>3, <1>5 DEF Items
  <2>2. e \in Items(c)
    BY <1>5 DEF Items
  <2> QED
    BY <1>3, <1>5, <1>6, <2>1, <2>2 DEF Items
<1>11. c \in List
  BY <1>5, <1>8, <1>9 DEF List
<1>12. Owners(c) = Owners(s) \cup {t}
  BY <1>2, <1>10, <1>11, ListFacts
<1> QED
  BY <1>2, <1>4, <1>10, <1>11, <1>12

LEMMA PlacedOnUnorderedEventList ==
    ASSUME NEW s \in SchedState, Filing(s), Clock(s), s.cur \in Ready(s), s.cur # Idle,
           NEW n \in Naps, n # MaxDelay, NEW r, r = PlaceOnUnorderedEventList(s, n)
    PROVE  /\ Filing(r) /\ Clock(r) /\ Dozed(r, s, n) /\ r.mwait = s.mwait
           /\ Items(r.bwait) = Items(s.bwait) \cup {Item(s.cur, 0)}
<1>1. PICK t \in Task : t = s.cur /\ t \in Ready(s)
  BY StateFields
<1>2. t \notin Delayed(s) /\ t \notin Owners(s.mwait) /\ t \notin Owners(s.bwait)
  BY <1>1 DEF Filing, Placed, Apart, Waiters
<1>3. PICK b \in List : /\ b = Append(s.bwait, Item(t, 0)) /\ Items(b) = Items(s.bwait) \cup {Item(t, 0)}
                        /\ Owners(b) = Owners(s.bwait) \cup {t}
  BY <1>2, StateFields, ListAppended DEF Filing, Waiters
<1>5. PICK q : q = [s EXCEPT !.bwait = b]
  OBVIOUS
<1>6. r = AddToDelayed(q, n, TRUE)
  BY <1>1, <1>3, <1>5 DEF PlaceOnUnorderedEventList
<1>7. q \in SchedState
  BY <1>5 DEF SchedState
<1>8. /\ q.mwait = s.mwait /\ q.bwait = b /\ SameClock(q, s) /\ SameLists(q, s)
      /\ q.ready = s.ready /\ q.top = s.top /\ q.cur = s.cur /\ q.yield = s.yield /\ q.prio = s.prio
  BY <1>5 DEF SchedState, SameClock, SameLists
<1>9. Ready(q) = Ready(s) /\ Delayed(q) = Delayed(s) /\ Asleep(q) = Asleep(s)
  BY <1>8 DEF Ready, Delayed, Asleep, SameLists
<1>10. Placed(q) /\ Clock(q)
  BY <1>7, <1>8, <1>9 DEF Filing, Placed, Rings, Apart, Clock, SameClock, SameLists
<1>11. Placed(r) /\ Clock(r) /\ SameWaits(r, q) /\ Dozed(r, q, n)
  <2>1. q.cur \in Ready(q) /\ q.cur # Idle
    BY <1>1, <1>8, <1>9
  <2>2. PICK forever \in BOOLEAN : forever = TRUE
    OBVIOUS
  <2>3. r = AddToDelayed(q, n, forever)
    BY <1>6, <2>2
  <2> QED
    BY <1>7, <1>10, <2>1, <2>3, FellAsleep
<1>12. r.mwait = s.mwait /\ r.bwait = b
  BY <1>8, <1>11 DEF SameWaits
<1>13. Waiters(r)
  <2>1. Delayed(r) = Delayed(s) \cup {t}
    BY <1>1, <1>8, <1>9, <1>11 DEF Dozed
  <2>2. \A x \in Items(b) : x.value = 0
    BY <1>3 DEF Filing, Waiters, Item
  <2> QED
    BY <1>2, <1>3, <1>12, <2>1, <2>2 DEF Filing, Waiters
<1> QED
  <2>1. Dozed(r, s, n)
    BY <1>8, <1>9, <1>11 DEF Dozed, SameClock, SameLists
  <2> QED
    BY <1>1, <1>3, <1>11, <1>12, <1>13, <2>1 DEF Filing

-----------------------------------------------------------------------------
(***************************************************************************)
(* A waiter is woken.                                                      *)
(***************************************************************************)
LEMMA WaiterIsAsleep ==
    ASSUME NEW s \in SchedState, Filing(s), NEW t, t \in Owners(s.mwait) \cup Owners(s.bwait)
    PROVE  t \in Task /\ t \in Delayed(s) /\ t \notin Ready(s)
<1>1. t \in Delayed(s)
  BY DEF Filing, Waiters
<1>2. t \in Task
  BY <1>1, StateFields
<1> QED
  BY <1>1, <1>2 DEF Filing, Placed, Apart

LEMMA RemovedFromEventList ==
    ASSUME NEW s \in SchedState, Filing(s), s.mwait # <<>>,
           NEW t, t = Head(s.mwait).owner, NEW r, r = RemoveFromEventList(s)
    PROVE  /\ t \in Owners(s.mwait)
           /\ Filing(r) /\ Woken(r, s, {t}) /\ SameClock(r, s)
           /\ r.cur = s.cur /\ r.prio = s.prio
           /\ r.yield = (s.yield \/ s.prio[t] > s.prio[s.cur])
<1>1. t \in Owners(s.mwait)
  BY StateFields, ListHead, ListFacts
<1>2. t \in Task /\ t \notin Ready(s)
  BY <1>1, WaiterIsAsleep
<1>3. PICK q : q = MakeReady(s, t)
  OBVIOUS
<1>4. /\ Filing(q) /\ Woken(q, s, {t}) /\ SameClock(q, s)
      /\ q.cur = s.cur /\ q.yield = s.yield /\ q.prio = s.prio
  BY <1>2, <1>3, MadeReady
<1>5. PICK y \in BOOLEAN : y = (s.yield \/ s.prio[t] > s.prio[s.cur])
  OBVIOUS
<1>6. q \in SchedState
  BY <1>4 DEF Filing, Placed
<1>7. r = [q EXCEPT !.yield = y]
  <2>1. r = [q EXCEPT !.yield = @ \/ s.prio[t] > s.prio[s.cur]]
    BY <1>3 DEF RemoveFromEventList
  <2>2. (q.yield \/ s.prio[t] > s.prio[s.cur]) = y
    BY <1>4, <1>5
  <2> QED
    BY <1>6, <2>1, <2>2 DEF SchedState
<1>8. r \in SchedState
  BY <1>6, <1>7 DEF SchedState
<1>9. /\ r.yield = y /\ SameClock(r, q) /\ SameLists(r, q) /\ SameWaits(r, q)
      /\ r.ready = q.ready /\ r.top = q.top /\ r.cur = q.cur /\ r.prio = q.prio
  BY <1>6, <1>7 DEF SchedState, SameClock, SameLists, SameWaits
<1>10. Ready(r) = Ready(q) /\ Delayed(r) = Delayed(q)
  BY <1>9 DEF Ready, Delayed, SameLists
<1>11. Placed(r)
  BY <1>4, <1>8, <1>9, <1>10 DEF Filing, Placed, Rings, Apart, SameLists
<1>12. Waiters(r)
  BY <1>4, <1>9, <1>10 DEF Filing, Waiters, SameWaits
<1>13. Woken(r, s, {t})
  BY <1>4, <1>9, <1>10 DEF Woken, SameLists, SameWaits
<1> QED
  BY <1>1, <1>4, <1>5, <1>9, <1>11, <1>12, <1>13 DEF Filing, SameClock

NotifyFold(g, s, n) ==
    g = [i \in 0 .. n |->
            IF i = 0 THEN s
            ELSE LET t == s.bwait[i].owner
                 IN  [MakeReady(g[i - 1], t) EXCEPT !.yield = @ \/ s.prio[t] > s.prio[s.cur]]]

Notify(q, s, t) == [MakeReady(q, t) EXCEPT !.yield = @ \/ s.prio[t] > s.prio[s.cur]]

LEMMA NotifyFolds ==
    ASSUME NEW s, NEW m \in Nat
    PROVE  \E g : NotifyFold(g, s, m)
<1> DEFINE S == {n \in Nat : \E g : NotifyFold(g, s, n)}
<1>1. 0 \in S
  <2>1. [i \in 0 .. 0 |-> s] =
            [i \in 0 .. 0 |-> IF i = 0 THEN s
                              ELSE Notify([j \in 0 .. 0 |-> s][i - 1], s, s.bwait[i].owner)]
    OBVIOUS
  <2> QED
    BY <2>1 DEF NotifyFold, Notify
<1>2. ASSUME NEW n \in Nat, n \in S PROVE n + 1 \in S
  <2>1. PICK g : NotifyFold(g, s, n)
    BY <1>2
  <2>2. g = [i \in 0 .. n |-> IF i = 0 THEN s ELSE Notify(g[i - 1], s, s.bwait[i].owner)]
    BY <2>1 DEF NotifyFold, Notify
  <2>3. PICK h : h = [i \in 0 .. n + 1 |-> IF i = n + 1 THEN Notify(g[n], s, s.bwait[i].owner)
                                                        ELSE g[i]]
    OBVIOUS
  <2>4. h = [i \in 0 .. n + 1 |-> IF i = 0 THEN s ELSE Notify(h[i - 1], s, s.bwait[i].owner)]
    BY <2>2, <2>3
  <2>5. NotifyFold(h, s, n + 1)
    BY <2>4 DEF NotifyFold, Notify
  <2> QED
    BY <2>5
<1> HIDE DEF S
<1>3. m \in S
  BY <1>1, <1>2, Induct
<1> QED
  BY <1>3 DEF S

LEMMA Notified ==
    ASSUME NEW s \in SchedState, NEW q \in SchedState, Filing(q), q.cur = s.cur, q.prio = s.prio,
           NEW t \in Task, t \notin Ready(q), NEW r, r = Notify(q, s, t)
    PROVE  /\ Filing(r) /\ Woken(r, q, {t}) /\ SameClock(r, q)
           /\ r.cur = q.cur /\ r.prio = q.prio
           /\ r.yield = (q.yield \/ s.prio[t] > s.prio[s.cur])
<1>3. PICK u : u = MakeReady(q, t)
  OBVIOUS
<1>4. /\ Filing(u) /\ Woken(u, q, {t}) /\ SameClock(u, q)
      /\ u.cur = q.cur /\ u.yield = q.yield /\ u.prio = q.prio
  BY <1>3, MadeReady
<1>5. PICK y \in BOOLEAN : y = (q.yield \/ s.prio[t] > s.prio[s.cur])
  OBVIOUS
<1>6. u \in SchedState
  BY <1>4 DEF Filing, Placed
<1>7. r = [u EXCEPT !.yield = y]
  <2>1. r = [u EXCEPT !.yield = @ \/ s.prio[t] > s.prio[s.cur]]
    BY <1>3 DEF Notify
  <2>2. (u.yield \/ s.prio[t] > s.prio[s.cur]) = y
    BY <1>4, <1>5
  <2> QED
    BY <1>6, <2>1, <2>2 DEF SchedState
<1>8. r \in SchedState
  BY <1>6, <1>7 DEF SchedState
<1>9. /\ r.yield = y /\ SameClock(r, u) /\ SameLists(r, u) /\ SameWaits(r, u)
      /\ r.ready = u.ready /\ r.top = u.top /\ r.cur = u.cur /\ r.prio = u.prio
  BY <1>6, <1>7 DEF SchedState, SameClock, SameLists, SameWaits
<1>10. Ready(r) = Ready(u) /\ Delayed(r) = Delayed(u)
  BY <1>9 DEF Ready, Delayed, SameLists
<1>11. Placed(r)
  BY <1>4, <1>8, <1>9, <1>10 DEF Filing, Placed, Rings, Apart, SameLists
<1>12. Waiters(r)
  BY <1>4, <1>9, <1>10 DEF Filing, Waiters, SameWaits
<1>13. Woken(r, q, {t})
  BY <1>4, <1>9, <1>10 DEF Woken, SameLists, SameWaits
<1> QED
  BY <1>4, <1>5, <1>9, <1>11, <1>12, <1>13 DEF Filing, SameClock

LEMMA RemovedAllFromUnorderedEventList ==
    ASSUME NEW s \in SchedState, Filing(s), NEW r, r = RemoveAllFromUnorderedEventList(s)
    PROVE  /\ Filing(r) /\ Woken(r, s, Owners(s.bwait)) /\ SameClock(r, s)
           /\ r.cur = s.cur /\ r.prio = s.prio /\ r.bwait = <<>>
           /\ s.yield => r.yield
           /\ \A t \in Owners(s.bwait) : s.prio[t] > s.prio[s.cur] => r.yield
<1>1. PICK b \in List : b = s.bwait
  BY StateFields
<1>2. PICK m \in Nat : m = Len(b) /\ DOMAIN b = 1 .. m
  BY ListFacts
<1>3. PICK f : f = CHOOSE g : NotifyFold(g, s, m)
  OBVIOUS
<1>4. r = f[m]
  BY <1>1, <1>2, <1>3 DEF RemoveAllFromUnorderedEventList, NotifyFold
<1>5. NotifyFold(f, s, m)
  BY <1>3, NotifyFolds
<1>6. f[0] = s /\ \A i \in 0 .. m - 1 : f[i + 1] = Notify(f[i], s, b[i + 1].owner)
  <2>1. f = [i \in 0 .. m |-> IF i = 0 THEN s ELSE Notify(f[i - 1], s, b[i].owner)]
    BY <1>1, <1>5 DEF NotifyFold, Notify
  <2> QED
    BY <2>1
<1> DEFINE Fine(i) == /\ Filing(f[i]) /\ Woken(f[i], s, {b[j].owner : j \in 1 .. i})
                      /\ SameClock(f[i], s) /\ f[i].cur = s.cur /\ f[i].prio = s.prio
                      /\ s.yield => f[i].yield
                      /\ \A j \in 1 .. i : s.prio[b[j].owner] > s.prio[s.cur] => f[i].yield
           S == {i \in Nat : i <= m => Fine(i)}
<1>7. 0 \in S
  <2>1. {b[j].owner : j \in 1 .. 0} = {}
    OBVIOUS
  <2>2. Woken(s, s, {}) /\ SameClock(s, s)
    BY DEF Woken, SameClock
  <2> QED
    BY <1>6, <2>1, <2>2
<1>8. ASSUME NEW i \in Nat, i \in S PROVE i + 1 \in S
  <2> SUFFICES ASSUME i + 1 <= m PROVE Fine(i + 1)
    OBVIOUS
  <2>1. Fine(i) /\ i \in 0 .. m - 1 /\ i + 1 \in 1 .. m
    BY <1>8
  <2>2. PICK q : q = f[i]
    OBVIOUS
  <2>3. PICK T : T = {b[j].owner : j \in 1 .. i}
    OBVIOUS
  <2>4. /\ Filing(q) /\ Woken(q, s, T) /\ SameClock(q, s)
        /\ q.cur = s.cur /\ q.prio = s.prio
        /\ s.yield => q.yield
        /\ \A j \in 1 .. i : s.prio[b[j].owner] > s.prio[s.cur] => q.yield
    BY <2>1, <2>2, <2>3
  <2>5. PICK t \in Task : t = b[i + 1].owner
    BY <1>2, <2>1, ListFacts
  <2>6. t \notin Ready(q)
    <3>1. t \in Owners(s.bwait)
      BY <1>1, <1>2, <2>1, <2>5 DEF Owners
    <3>2. t \notin Ready(s)
      BY <3>1, WaiterIsAsleep
    <3>3. t \notin T
      <4> SUFFICES ASSUME NEW j \in 1 .. i, t = b[j].owner PROVE FALSE
        BY <2>3
      <4>1. j \in 1 .. m /\ j # i + 1
        BY <2>1
      <4>2. b \in List /\ DOMAIN b = 1 .. m
        BY <1>2, ListFacts
      <4> QED
        BY <2>1, <2>5, <4>1, <4>2 DEF List, OwnedOnce
    <3> QED
      BY <2>4, <3>2, <3>3 DEF Woken
  <2>7. PICK n : n = f[i + 1]
    OBVIOUS
  <2>8. /\ Filing(n) /\ Woken(n, q, {t}) /\ SameClock(n, q)
        /\ n.cur = q.cur /\ n.prio = q.prio
        /\ n.yield = (q.yield \/ s.prio[t] > s.prio[s.cur])
    <3>1. q \in SchedState
      BY <2>4 DEF Filing, Placed
    <3>2. n = Notify(q, s, t)
      BY <1>6, <2>1, <2>2, <2>5, <2>7
    <3> QED
      BY <2>4, <2>6, <3>1, <3>2, Notified
  <2>9. T \cup {t} = {b[j].owner : j \in 1 .. i + 1}
    BY <2>3, <2>5
  <2>10. Woken(n, s, T \cup {t})
    BY <2>4, <2>8, WokenThen
  <2>11. SameClock(n, s)
    BY <2>4, <2>8 DEF SameClock
  <2>12. ASSUME NEW j \in 1 .. i + 1, s.prio[b[j].owner] > s.prio[s.cur] PROVE n.yield
    <3>1. CASE j \in 1 .. i
      BY <2>4, <2>8, <2>12, <3>1
    <3>2. CASE j = i + 1
      BY <2>5, <2>8, <2>12, <3>2
    <3> QED
      BY <3>1, <3>2
  <2> QED
    BY <2>4, <2>7, <2>8, <2>9, <2>10, <2>11, <2>12
<1>9. Fine(m)
  <2> HIDE DEF S, Fine
  <2>1. m \in S
    BY <1>7, <1>8, Induct
  <2> QED
    BY <2>1 DEF S
<1>10. {b[j].owner : j \in 1 .. m} = Owners(s.bwait)
  BY <1>1, <1>2 DEF Owners
<1>11. /\ Filing(r) /\ Woken(r, s, Owners(s.bwait)) /\ SameClock(r, s)
       /\ r.cur = s.cur /\ r.prio = s.prio
       /\ s.yield => r.yield
       /\ \A j \in 1 .. m : s.prio[b[j].owner] > s.prio[s.cur] => r.yield
  BY <1>4, <1>9, <1>10
<1>12. \A t \in Owners(s.bwait) : s.prio[t] > s.prio[s.cur] => r.yield
  BY <1>10, <1>11
<1>13. r.bwait = <<>>
  <2>1. Items(r.bwait) = {}
    BY <1>1, <1>11, ListFacts DEF Woken
  <2>2. r.bwait \in List
    BY <1>11, StateFields DEF Filing, Placed
  <2>3. PICK c \in List : c = r.bwait
    BY <2>2
  <2>4. Items(c) = {}
    BY <2>1, <2>3
  <2>5. c \in Seq(Entry)
    BY <2>3 DEF List
  <2>6. Len(c) \in Nat /\ DOMAIN c = 1 .. Len(c)
    BY <2>5
  <2>7. ASSUME Len(c) # 0 PROVE FALSE
    <3>1. 1 \in DOMAIN c
      BY <2>6, <2>7
    <3>2. c[1] \in Items(c)
      BY <3>1 DEF Items
    <3> QED
      BY <2>4, <3>2
  <2>8. c = <<>>
    BY <2>5, <2>7
  <2> QED
    BY <2>3, <2>8
<1> QED
  BY <1>11, <1>12, <1>13

-----------------------------------------------------------------------------
(***************************************************************************)
(* A priority changes.                                                     *)
(***************************************************************************)
Repriced(r, s, t, p) ==
    /\ r.prio = [s.prio EXCEPT ![t] = p]
    /\ Ready(r) = Ready(s) /\ Delayed(r) = Delayed(s)
    /\ SameClock(r, s) /\ SameLists(r, s) /\ SameWaits(r, s)
    /\ r.cur = s.cur /\ r.yield = s.yield

LEMMA PrioritySet ==
    ASSUME NEW s \in SchedState, Filing(s), NEW t \in Task, NEW p \in Priority,
           NEW r, r = SetPriority(s, t, p)
    PROVE  Filing(r) /\ Repriced(r, s, t, p)
<1>1. PICK prio \in [Task -> Priority] : prio = [s.prio EXCEPT ![t] = p]
  BY StateFields
<1>2. CASE t \in Ready(s)
  <2>1. InReady(s, t)
    BY <1>2, ReadyRing DEF InReady, Filing, Placed
  <2>2. PICK q : q = RemoveFromReady(s, t)
    OBVIOUS
  <2>3. /\ q \in SchedState /\ Rings(q) /\ Ready(q) = Ready(s) \ {t}
        /\ SameClock(q, s) /\ SameLists(q, s) /\ SameWaits(q, s)
        /\ q.cur = s.cur /\ q.yield = s.yield /\ q.prio = s.prio
    BY <1>2, <2>2, RemovedFromReady DEF Filing, Placed
  <2>4. PICK u : u = [q EXCEPT !.prio = prio]
    OBVIOUS
  <2>5. r = AddToReady(u, t)
    <3>1. [q EXCEPT !.prio[t] = p] = u
      BY <1>1, <2>3, <2>4 DEF SchedState
    <3> QED
      BY <2>1, <2>2, <3>1 DEF SetPriority
  <2>6. u \in SchedState
    BY <2>3, <2>4 DEF SchedState
  <2>7. /\ u.prio = prio /\ u.ready = q.ready /\ u.top = q.top /\ u.cur = q.cur /\ u.yield = q.yield
        /\ SameClock(u, q) /\ SameLists(u, q) /\ SameWaits(u, q)
    BY <2>3, <2>4 DEF SchedState, SameClock, SameLists, SameWaits
  <2>8. Ready(u) = Ready(q)
    BY <2>7 DEF Ready
  <2>9. Rings(u)
    <3>1. ASSUME NEW x \in Priority, NEW y \in RingItems(u.ready[x]) PROVE u.prio[y] = x
      <4>1. y \in Ready(q) /\ y \in RingItems(q.ready[x])
        BY <2>7, <3>1 DEF Ready
      <4>2. y # t /\ y \in Task /\ q.prio[y] = x
        BY <2>3, <4>1, StateFields DEF Rings
      <4> QED
        BY <1>1, <2>3, <2>7, <4>2, StateFields
    <3> QED
      BY <2>3, <2>7, <3>1 DEF Rings
  <2>10. t \notin Ready(u)
    BY <2>3, <2>8
  <2>11. /\ r \in SchedState /\ Rings(r) /\ Ready(r) = Ready(u) \cup {t}
         /\ SameClock(r, u) /\ SameLists(r, u) /\ SameWaits(r, u)
         /\ r.cur = u.cur /\ r.yield = u.yield /\ r.prio = u.prio
    BY <2>5, <2>6, <2>9, <2>10, AddedToReady
  <2>12. /\ SameClock(r, s) /\ SameLists(r, s) /\ SameWaits(r, s)
         /\ r.cur = s.cur /\ r.yield = s.yield /\ r.prio = prio
    BY <2>3, <2>7, <2>11 DEF SameClock, SameLists, SameWaits
  <2>13. Ready(r) = Ready(s) /\ Delayed(r) = Delayed(s)
    BY <1>2, <2>3, <2>8, <2>11, <2>12 DEF Delayed, SameLists
  <2>14. Placed(r)
    BY <2>11, <2>12, <2>13 DEF Filing, Placed, Apart, SameLists
  <2>15. Waiters(r)
    BY <2>12, <2>13 DEF Filing, Waiters, SameWaits
  <2> QED
    BY <1>1, <2>12, <2>13, <2>14, <2>15 DEF Filing, Repriced
<1>3. CASE t \notin Ready(s)
  <2>1. ~InReady(s, t)
    BY <1>3, ReadyRing DEF InReady, Filing, Placed
  <2>2. r = [s EXCEPT !.prio = prio]
    BY <1>1, <2>1 DEF SetPriority, SchedState
  <2>3. r \in SchedState
    BY <2>2 DEF SchedState
  <2>4. /\ r.prio = prio /\ r.ready = s.ready /\ r.top = s.top /\ r.cur = s.cur /\ r.yield = s.yield
        /\ SameClock(r, s) /\ SameLists(r, s) /\ SameWaits(r, s)
    BY <2>2 DEF SchedState, SameClock, SameLists, SameWaits
  <2>5. Ready(r) = Ready(s) /\ Delayed(r) = Delayed(s)
    BY <2>4 DEF Ready, Delayed, SameLists
  <2>6. Rings(r)
    <3>1. ASSUME NEW x \in Priority, NEW y \in RingItems(r.ready[x]) PROVE r.prio[y] = x
      <4>1. y \in Ready(s) /\ y \in RingItems(s.ready[x])
        BY <2>4, <3>1 DEF Ready
      <4>2. y # t /\ y \in Task /\ s.prio[y] = x
        BY <1>3, <4>1, StateFields DEF Filing, Placed, Rings
      <4> QED
        BY <1>1, <2>4, <4>2, StateFields
    <3> QED
      BY <2>4, <3>1 DEF Filing, Placed, Rings
  <2>7. Placed(r)
    BY <2>3, <2>4, <2>5, <2>6 DEF Filing, Placed, Apart, SameLists
  <2>8. Waiters(r)
    BY <2>4, <2>5 DEF Filing, Waiters, SameWaits
  <2> QED
    BY <1>1, <2>4, <2>5, <2>7, <2>8 DEF Filing, Repriced
<1> QED
  BY <1>2, <1>3

-----------------------------------------------------------------------------
(***************************************************************************)
(* What a step makes of the scheduler.  Between the steps it is not        *)
(* locked, and no tick and no yield is pending.                            *)
(***************************************************************************)
Steady(s) == Filing(s) /\ Clock(s) /\ ~s.locked /\ s.pended = 0 /\ ~s.yield

(* n ticks after q, when of the sleepers A and of the waiters M and B those *)
(* are left whose time has not come.                                        *)
Onward(r, q, A, M, B, n) ==
    /\ Steady(r)
    /\ r.tick = (q.tick + n) % W
    /\ r.stale = IF q.tick + n >= W THEN Task ELSE q.stale
    /\ Asleep(r) = {x \in A : Elapsed(q.tick, x.value) > n}
    /\ Items(r.mwait) = {x \in M : x.owner \in Delayed(r)}
    /\ Items(r.bwait) = {x \in B : x.owner \in Delayed(r)}
    /\ r.parked = q.parked /\ r.prio = q.prio

LEMMA SteadyState ==
    ASSUME NEW s, Steady(s)
    PROVE  /\ s \in SchedState /\ Filing(s) /\ Clock(s) /\ Placed(s) /\ ~s.locked
           /\ Ready(s) = Task \ (Delayed(s) \cup s.parked)
           /\ Delayed(s) \cap s.parked = {}
<1>1. s \in SchedState /\ Filing(s) /\ Clock(s) /\ Placed(s) /\ Apart(s) /\ ~s.locked
  BY DEF Steady, Filing, Placed
<1>2. Ready(s) \subseteq Task /\ Delayed(s) \subseteq Task
  BY <1>1, StateFields
<1> QED
  BY <1>1, <1>2 DEF Apart

LEMMA ThenResumed ==
    ASSUME NEW s \in SchedState, Filing(s), Clock(s), NEW n \in Nat, s.pended = n,
           NEW q, q.tick = s.tick, q.stale = s.stale, q.parked = s.parked, q.prio = s.prio,
           NEW r, r = ResumeAll(s)
    PROVE  /\ Onward(r, q, Asleep(s), Items(s.mwait), Items(s.bwait), n)
           /\ s.yield => r.cur \in Ready(r)
           /\ ~s.yield => r.cur = s.cur
<1>1. /\ Passed(r, s, n) /\ r.pended = 0 /\ ~r.yield
      /\ s.yield => Highest(r)
      /\ ~s.yield => r.cur = s.cur
  BY Resumed
<1>2. Steady(r)
  BY <1>1 DEF Steady, Passed
<1>3. Onward(r, q, Asleep(s), Items(s.mwait), Items(s.bwait), n)
  BY <1>1, <1>2 DEF Onward, Passed
<1> QED
  BY <1>1, <1>3 DEF Highest

(* Nothing but ticks. *)
LEMMA TicksWent ==
    ASSUME NEW q, Steady(q), NEW n \in Nat, NEW s, Frozen(s, q, n), NEW r, r = ResumeAll(s)
    PROVE  /\ Onward(r, q, Asleep(q), Items(q.mwait), Items(q.bwait), n)
           /\ r.cur \in Ready(r) \/ r.cur = q.cur
<1>1. q \in SchedState /\ Filing(q) /\ Clock(q)
  BY SteadyState
<1>2. s \in SchedState /\ Filing(s) /\ Clock(s) /\ Asleep(s) = Asleep(q)
  BY <1>1, FrozenFiling DEF Frozen
<1>3. /\ s.pended = n /\ q.tick = s.tick /\ q.stale = s.stale /\ q.parked = s.parked
      /\ q.prio = s.prio /\ s.mwait = q.mwait /\ s.bwait = q.bwait /\ s.cur = q.cur
  BY DEF Frozen, Steady, SameLists, SameWaits
<1>4. s.yield \in BOOLEAN
  BY <1>2, StateFields
<1>5. /\ Onward(r, q, Asleep(s), Items(s.mwait), Items(s.bwait), n)
      /\ s.yield => r.cur \in Ready(r)
      /\ ~s.yield => r.cur = s.cur
  BY <1>2, <1>3, ThenResumed
<1> QED
  BY <1>2, <1>3, <1>5

(* The caller of q has fallen asleep for m ticks, of which n have gone; it  *)
(* waits for nothing else, for the mutex, or for the bit.                   *)
Slumbers(r, q, m, n) ==
    Onward(r, q, Asleep(q) \cup {Item(q.cur, TimeToWake(q.tick, m))},
           Items(q.mwait), Items(q.bwait), n)

Queues(r, q, m, n) ==
    Onward(r, q, Asleep(q) \cup {Item(q.cur, TimeToWake(q.tick, m))},
           Items(q.mwait) \cup {Item(q.cur, MaxPriorities - q.prio[q.cur])},
           Items(q.bwait), n)

AwaitsBit(r, q, m, n) ==
    Onward(r, q, Asleep(q) \cup {Item(q.cur, TimeToWake(q.tick, m))},
           Items(q.mwait), Items(q.bwait) \cup {Item(q.cur, 0)}, n)

(* A sleep without an event. *)
FallAsleep(s, m) == AddToDelayed(s, m, FALSE)

LEMMA SleptOn ==
    ASSUME NEW q, Steady(q), q.cur \in Ready(q), q.cur # Idle, NEW n \in Nat, NEW m \in Naps,
           NEW s, Frozen(s, q, n), NEW d, d = FallAsleep(s, m), NEW r, r = ResumeAll(d)
    PROVE  /\ Slumbers(r, q, m, n)
           /\ d.yield => r.cur \in Ready(r)
           /\ ~d.yield => r.cur = q.cur
<1>1. q \in SchedState /\ Filing(q) /\ Clock(q)
  BY SteadyState
<1>2. /\ s \in SchedState /\ Filing(s) /\ Clock(s) /\ Placed(s)
      /\ Asleep(s) = Asleep(q) /\ Ready(s) = Ready(q)
  BY <1>1, FrozenFiling DEF Frozen, Filing
<1>3. /\ s.pended = n /\ q.tick = s.tick /\ q.stale = s.stale /\ q.parked = s.parked
      /\ q.prio = s.prio /\ s.mwait = q.mwait /\ s.bwait = q.bwait /\ s.cur = q.cur
  BY DEF Frozen, Steady, SameLists, SameWaits
<1>4. PICK forever \in BOOLEAN : forever = FALSE
  OBVIOUS
<1>a. d = AddToDelayed(s, m, forever)
  BY <1>4 DEF FallAsleep
<1>5. Placed(d) /\ Clock(d) /\ SameWaits(d, s) /\ Dozed(d, s, m)
  BY <1>2, <1>3, <1>4, <1>a, FellAsleep
<1>6. d \in SchedState /\ Filing(d)
  <2>1. Waiters(s) /\ Delayed(s) \subseteq Delayed(d)
    BY <1>2, <1>5 DEF Filing, Dozed
  <2>2. Waiters(d)
    BY <1>5, <2>1 DEF Waiters, SameWaits
  <2> QED
    BY <1>5, <2>2 DEF Filing, Placed
<1>7. /\ d.pended = n /\ q.tick = d.tick /\ q.stale = d.stale /\ q.parked = d.parked
      /\ q.prio = d.prio /\ d.mwait = q.mwait /\ d.bwait = q.bwait /\ d.cur = q.cur
      /\ Asleep(d) = Asleep(q) \cup {Item(q.cur, TimeToWake(q.tick, m))}
  BY <1>2, <1>3, <1>5 DEF Dozed, SameWaits
<1>8. /\ Onward(r, q, Asleep(d), Items(d.mwait), Items(d.bwait), n)
      /\ d.yield => r.cur \in Ready(r)
      /\ ~d.yield => r.cur = d.cur
  BY <1>5, <1>6, <1>7, ThenResumed
<1> QED
  BY <1>7, <1>8 DEF Slumbers

LEMMA WaitedOn ==
    ASSUME NEW q, Steady(q), q.cur \in Ready(q), q.cur # Idle, NEW n \in Nat,
           NEW m \in Naps, m # MaxDelay,
           NEW s, Frozen(s, q, n), NEW d, d = PlaceOnEventList(s, m), NEW r, r = ResumeAll(d)
    PROVE  /\ Queues(r, q, m, n)
           /\ d.yield => r.cur \in Ready(r)
           /\ ~d.yield => r.cur = q.cur
<1>1. q \in SchedState /\ Filing(q) /\ Clock(q)
  BY SteadyState
<1>2. /\ s \in SchedState /\ Filing(s) /\ Clock(s) /\ Placed(s)
      /\ Asleep(s) = Asleep(q) /\ Ready(s) = Ready(q)
  BY <1>1, FrozenFiling DEF Frozen, Filing
<1>3. /\ s.pended = n /\ q.tick = s.tick /\ q.stale = s.stale /\ q.parked = s.parked
      /\ q.prio = s.prio /\ s.mwait = q.mwait /\ s.bwait = q.bwait /\ s.cur = q.cur
  BY DEF Frozen, Steady, SameLists, SameWaits
<1>5. /\ Filing(d) /\ Clock(d) /\ Dozed(d, s, m) /\ d.bwait = s.bwait
      /\ Items(d.mwait) = Items(s.mwait) \cup {Item(s.cur, MaxPriorities - s.prio[s.cur])}
  BY <1>2, <1>3, PlacedOnEventList
<1>6. d \in SchedState
  BY <1>5 DEF Filing, Placed
<1>7. /\ d.pended = n /\ q.tick = d.tick /\ q.stale = d.stale /\ q.parked = d.parked
      /\ q.prio = d.prio /\ d.bwait = q.bwait /\ d.cur = q.cur
      /\ Asleep(d) = Asleep(q) \cup {Item(q.cur, TimeToWake(q.tick, m))}
      /\ Items(d.mwait) = Items(q.mwait) \cup {Item(q.cur, MaxPriorities - q.prio[q.cur])}
  BY <1>2, <1>3, <1>5 DEF Dozed
<1>8. /\ Onward(r, q, Asleep(d), Items(d.mwait), Items(d.bwait), n)
      /\ d.yield => r.cur \in Ready(r)
      /\ ~d.yield => r.cur = d.cur
  BY <1>5, <1>6, <1>7, ThenResumed
<1> QED
  BY <1>7, <1>8 DEF Queues

LEMMA WaitedForBit ==
    ASSUME NEW q, Steady(q), q.cur \in Ready(q), q.cur # Idle, NEW n \in Nat,
           NEW m \in Naps, m # MaxDelay, NEW s, Frozen(s, q, n),
           NEW d, d = PlaceOnUnorderedEventList(s, m), NEW r, r = ResumeAll(d)
    PROVE  /\ AwaitsBit(r, q, m, n)
           /\ d.yield => r.cur \in Ready(r)
           /\ ~d.yield => r.cur = q.cur
<1>1. q \in SchedState /\ Filing(q) /\ Clock(q)
  BY SteadyState
<1>2. /\ s \in SchedState /\ Filing(s) /\ Clock(s) /\ Placed(s)
      /\ Asleep(s) = Asleep(q) /\ Ready(s) = Ready(q)
  BY <1>1, FrozenFiling DEF Frozen, Filing
<1>3. /\ s.pended = n /\ q.tick = s.tick /\ q.stale = s.stale /\ q.parked = s.parked
      /\ q.prio = s.prio /\ s.mwait = q.mwait /\ s.bwait = q.bwait /\ s.cur = q.cur
  BY DEF Frozen, Steady, SameLists, SameWaits
<1>5. /\ Filing(d) /\ Clock(d) /\ Dozed(d, s, m) /\ d.mwait = s.mwait
      /\ Items(d.bwait) = Items(s.bwait) \cup {Item(s.cur, 0)}
  BY <1>2, <1>3, PlacedOnUnorderedEventList
<1>6. d \in SchedState
  BY <1>5 DEF Filing, Placed
<1>7. /\ d.pended = n /\ q.tick = d.tick /\ q.stale = d.stale /\ q.parked = d.parked
      /\ q.prio = d.prio /\ d.mwait = q.mwait /\ d.cur = q.cur
      /\ Asleep(d) = Asleep(q) \cup {Item(q.cur, TimeToWake(q.tick, m))}
      /\ Items(d.bwait) = Items(q.bwait) \cup {Item(q.cur, 0)}
  BY <1>2, <1>3, <1>5 DEF Dozed
<1>8. /\ Onward(r, q, Asleep(d), Items(d.mwait), Items(d.bwait), n)
      /\ d.yield => r.cur \in Ready(r)
      /\ ~d.yield => r.cur = d.cur
  BY <1>5, <1>6, <1>7, ThenResumed
<1> QED
  BY <1>7, <1>8 DEF AwaitsBit

(* Who waits for the bit is woken. *)
LEMMA BitWokeAll ==
    ASSUME NEW q, Steady(q), NEW n \in Nat, NEW s, Frozen(s, q, n),
           NEW r, r = ResumeAll(RemoveAllFromUnorderedEventList(s))
    PROVE  /\ Onward(r, q, {x \in Asleep(q) : x.owner \notin Owners(q.bwait)},
                     Items(q.mwait), {}, n)
           /\ r.cur \in Ready(r) \/ r.cur = q.cur
<1>1. q \in SchedState /\ Filing(q) /\ Clock(q)
  BY SteadyState
<1>2. /\ s \in SchedState /\ Filing(s) /\ Clock(s) /\ Asleep(s) = Asleep(q)
  BY <1>1, FrozenFiling DEF Frozen
<1>3. /\ s.pended = n /\ q.tick = s.tick /\ q.stale = s.stale /\ q.parked = s.parked
      /\ q.prio = s.prio /\ s.mwait = q.mwait /\ s.bwait = q.bwait /\ s.cur = q.cur
  BY DEF Frozen, Steady, SameLists, SameWaits
<1>4. PICK S : S = Owners(q.bwait)
  OBVIOUS
<1>5. PICK d : d = RemoveAllFromUnorderedEventList(s)
  OBVIOUS
<1>6. /\ Filing(d) /\ Woken(d, s, S) /\ SameClock(d, s)
      /\ d.cur = s.cur /\ d.prio = s.prio /\ d.bwait = <<>>
  BY <1>2, <1>3, <1>4, <1>5, RemovedAllFromUnorderedEventList
<1>7. d \in SchedState
  BY <1>6 DEF Filing, Placed
<1>8. Asleep(d) = {x \in Asleep(q) : x.owner \notin S}
  BY <1>2, <1>6 DEF Woken, Asleep
<1>9. Items(d.bwait) = {}
  BY <1>6 DEF Items
<1>10. S \subseteq Delayed(q) /\ Owners(q.mwait) \cap S = {}
  BY <1>1, <1>4 DEF Filing, Waiters
<1>11. Items(d.mwait) = Items(q.mwait)
  <2>1. \A x \in Items(q.mwait) : x.owner \in Owners(q.mwait)
    BY <1>1, StateFields, ListFacts
  <2> QED
    BY <1>3, <1>6, <1>10, <2>1 DEF Woken
<1>12. d.parked = q.parked
  <2>1. Delayed(q) \cap q.parked = {}
    BY SteadyState
  <2> QED
    BY <1>3, <1>6, <1>10, <2>1 DEF Woken
<1>13. Clock(d)
  <2>1. \A x \in Items(d.delayed) : x \in Items(s.delayed)
    BY <1>6 DEF Woken
  <2>2. \A x \in Items(d.overflow) : x \in Items(s.overflow)
    BY <1>6 DEF Woken
  <2> QED
    BY <1>2, <1>6, <2>1, <2>2 DEF Clock, SameClock
<1>14. d.pended = n /\ q.tick = d.tick /\ q.stale = d.stale /\ q.prio = d.prio /\ d.cur = q.cur
  BY <1>3, <1>6 DEF SameClock
<1>15. /\ Onward(r, q, Asleep(d), Items(d.mwait), Items(d.bwait), n)
       /\ d.yield => r.cur \in Ready(r)
       /\ ~d.yield => r.cur = d.cur
  BY <1>5, <1>6, <1>7, <1>12, <1>13, <1>14, ThenResumed
<1>16. d.yield \in BOOLEAN
  BY <1>7, StateFields
<1> QED
  BY <1>4, <1>8, <1>9, <1>11, <1>14, <1>15

(* The tick interrupt. *)
LEMMA TickCame ==
    ASSUME NEW q, Steady(q), NEW r, r = TickISR(q)
    PROVE  /\ Onward(r, q, Asleep(q), Items(q.mwait), Items(q.bwait), 1)
           /\ r.cur \in Ready(r) /\ Highest(r)
<1>1. q \in SchedState /\ Filing(q) /\ Clock(q) /\ ~q.locked /\ q.pended = 0
  BY SteadyState DEF Steady
<1>2. PICK u : u = IncrementTick(q)
  OBVIOUS
<1>3. q.tick \in TickType /\ W \in Nat /\ W > 1 /\ q.tick \in 0 .. W - 1
  BY <1>1, StateFields, WidthIs DEF Width
<1>4. Passed(q, q, 0)
  <2>1. (q.tick + 0) % W = q.tick /\ ~(q.tick + 0 >= W)
    BY <1>3, ModOnce
  <2>2. \A x \in Asleep(q) : Elapsed(q.tick, x.value) > 0
    <3>1. ASSUME NEW x \in Asleep(q) PROVE x.value \in 0 .. W - 1 /\ x.value # q.tick
      <4>1. x.value \in Nat
        BY <1>1, AsleepOwners
      <4>2. CASE x \in Items(q.delayed)
        BY <1>1, <1>3, <4>1, <4>2 DEF Clock
      <4>3. CASE x \in Items(q.overflow)
        BY <1>1, <1>3, <4>1, <4>3 DEF Clock
      <4> QED
        BY <3>1, <4>2, <4>3 DEF Asleep
    <3>2. ASSUME NEW x \in Asleep(q) PROVE Elapsed(q.tick, x.value) > 0
      <4>1. PICK v \in TickType : v = x.value
        BY <3>1 DEF TickType
      <4>2. Elapsed(q.tick, v) = IF q.tick <= v THEN v - q.tick ELSE v - q.tick + W
        BY <1>3, ElapsedIsDifference
      <4> QED
        BY <1>3, <3>1, <4>1, <4>2 DEF TickType
    <3> QED
      BY <3>2
  <2>3. /\ \A x \in Items(q.mwait) : x.owner \in Delayed(q)
        /\ \A x \in Items(q.bwait) : x.owner \in Delayed(q)
    <3>1. /\ \A x \in Items(q.mwait) : x.owner \in Owners(q.mwait)
          /\ \A x \in Items(q.bwait) : x.owner \in Owners(q.bwait)
      BY <1>1, StateFields, ListFacts
    <3> QED
      BY <1>1, <3>1 DEF Filing, Waiters
  <2>4. \A A : A \cup (Delayed(q) \ Delayed(q)) = A
    OBVIOUS
  <2> QED
    BY <1>1, <2>1, <2>2, <2>3, <2>4 DEF Passed
<1>5. Passed(u, q, 1) /\ u.cur = q.cur /\ u.pended = q.pended
  <2>1. 0 \in Nat /\ 0 + 1 = 1
    OBVIOUS
  <2> QED
    BY <1>1, <1>2, <1>3, <1>4, <2>1, PassedOne
<1>6. r = SwitchContext(u)
  BY <1>1, <1>2 DEF TickISR
<1>7. u \in SchedState /\ Placed(u) /\ ~u.locked
  BY <1>5 DEF Passed, Filing, Placed
<1>8. /\ Placed(r) /\ Ready(r) = Ready(u) /\ ~r.yield
      /\ SameClock(r, u) /\ SameLists(r, u) /\ SameWaits(r, u) /\ r.prio = u.prio
      /\ Highest(r)
  BY <1>6, <1>7, Switched
<1>9. Delayed(r) = Delayed(u) /\ Asleep(r) = Asleep(u)
  BY <1>8 DEF Delayed, Asleep, SameLists
<1>10. Steady(r)
  <2>1. Waiters(r)
    BY <1>5, <1>8, <1>9 DEF Passed, Filing, Waiters, SameWaits
  <2>2. Clock(r)
    BY <1>5, <1>8 DEF Passed, Clock, SameLists, SameClock
  <2> QED
    BY <1>1, <1>5, <1>7, <1>8, <2>1, <2>2 DEF Steady, Filing, SameClock
<1>11. Onward(r, q, Asleep(q), Items(q.mwait), Items(q.bwait), 1)
  BY <1>5, <1>8, <1>9, <1>10 DEF Onward, Passed, SameClock, SameLists, SameWaits
<1> QED
  BY <1>8, <1>11 DEF Highest

-----------------------------------------------------------------------------
(* No time passes, and nobody goes to sleep or is woken. *)
Still(r, q) == Steady(r) /\ r.tick = q.tick /\ Asleep(r) = Asleep(q) /\ SameWaits(r, q)

(* The yield a call asked for is taken. *)
LEMMA SwitchedNow ==
    ASSUME NEW s \in SchedState, Filing(s), Clock(s), ~s.locked, s.pended = 0,
           NEW r, r = SwitchContext(s)
    PROVE  /\ Still(r, s) /\ r.stale = s.stale /\ r.parked = s.parked /\ r.prio = s.prio
           /\ Highest(r)
<1>1. Placed(s)
  BY DEF Filing
<1>2. /\ Placed(r) /\ Ready(r) = Ready(s) /\ ~r.yield
      /\ SameClock(r, s) /\ SameLists(r, s) /\ SameWaits(r, s) /\ r.prio = s.prio
      /\ Highest(r)
  BY <1>1, Switched
<1>3. Delayed(r) = Delayed(s) /\ Asleep(r) = Asleep(s)
  BY <1>2 DEF Delayed, Asleep, SameLists
<1>4. Waiters(r)
  BY <1>2, <1>3 DEF Filing, Waiters, SameWaits
<1>5. Clock(r)
  BY <1>2 DEF Clock, SameLists, SameClock
<1>6. Steady(r)
  BY <1>2, <1>4, <1>5 DEF Steady, Filing, SameClock
<1> QED
  BY <1>2, <1>3, <1>6 DEF Still, SameClock, SameLists

LEMMA YieldedNow ==
    ASSUME NEW q, Steady(q), NEW r, r = SwitchContext(q)
    PROVE  /\ Still(r, q) /\ r.stale = q.stale /\ r.parked = q.parked /\ r.prio = q.prio
           /\ r.cur \in Ready(r)
<1>1. q \in SchedState /\ Filing(q) /\ Clock(q) /\ ~q.locked /\ q.pended = 0
  BY SteadyState DEF Steady
<1>2. /\ Still(r, q) /\ r.stale = q.stale /\ r.parked = q.parked /\ r.prio = q.prio
      /\ Highest(r)
  BY <1>1, SwitchedNow
<1> QED
  BY <1>2 DEF Highest

LEMMA StaleSet ==
    ASSUME NEW q, Steady(q), NEW S \in SUBSET Task, NEW r, r = [q EXCEPT !.stale = S]
    PROVE  /\ Still(r, q) /\ r.stale = S /\ r.parked = q.parked /\ r.prio = q.prio
           /\ r.cur = q.cur
<1>1. q \in SchedState /\ Filing(q) /\ Clock(q)
  BY SteadyState
<1>2. r \in SchedState
  BY <1>1 DEF SchedState
<1>3. /\ r.stale = S /\ r.tick = q.tick /\ r.unblock = q.unblock /\ r.locked = q.locked
      /\ r.pended = q.pended /\ r.yield = q.yield /\ r.prio = q.prio /\ r.cur = q.cur
      /\ r.ready = q.ready /\ r.top = q.top /\ SameLists(r, q) /\ SameWaits(r, q)
  BY <1>1 DEF SchedState, SameLists, SameWaits
<1>4. Ready(r) = Ready(q) /\ Delayed(r) = Delayed(q) /\ Asleep(r) = Asleep(q)
  BY <1>3 DEF Ready, Delayed, Asleep, SameLists
<1>5. Placed(r)
  BY <1>1, <1>2, <1>3, <1>4 DEF Filing, Placed, Rings, Apart, SameLists
<1>6. Waiters(r)
  BY <1>1, <1>3, <1>4 DEF Filing, Waiters, SameWaits
<1>7. Clock(r)
  BY <1>1, <1>3 DEF Clock, SameLists
<1>8. Steady(r)
  BY <1>3, <1>5, <1>6, <1>7 DEF Steady, Filing
<1> QED
  BY <1>3, <1>4, <1>8 DEF Still, SameLists

(* A task suspends itself. *)
Park(q, t) == [RemoveFromReady(q, t) EXCEPT !.parked = @ \cup {t}]

LEMMA ParkedNow ==
    ASSUME NEW q, Steady(q), NEW t \in Task, t \in Ready(q), t # Idle,
           NEW r, r = Park(q, t)
    PROVE  /\ Still(r, q) /\ r.stale = q.stale /\ r.parked = q.parked \cup {t}
           /\ r.prio = q.prio /\ r.cur = q.cur
<1>1. q \in SchedState /\ Filing(q) /\ Clock(q) /\ Placed(q)
  BY SteadyState
<1>2. PICK u : u = RemoveFromReady(q, t)
  OBVIOUS
<1>3. /\ u \in SchedState /\ Rings(u) /\ Ready(u) = Ready(q) \ {t}
      /\ SameClock(u, q) /\ SameLists(u, q) /\ SameWaits(u, q)
      /\ u.cur = q.cur /\ u.yield = q.yield /\ u.prio = q.prio
      /\ Delayed(u) = Delayed(q)
  BY <1>1, <1>2, RemovedFromReady DEF Placed
<1>4. PICK P \in SUBSET Task : P = q.parked \cup {t}
  BY <1>1, StateFields
<1>5. r = [u EXCEPT !.parked = P]
  BY <1>2, <1>3, <1>4 DEF Park, SameLists
<1>6. r \in SchedState
  BY <1>3, <1>5 DEF SchedState
<1>7. /\ r.parked = P /\ r.delayed = u.delayed /\ r.overflow = u.overflow /\ SameWaits(r, u)
      /\ SameClock(r, u) /\ r.cur = u.cur /\ r.yield = u.yield /\ r.prio = u.prio
      /\ r.ready = u.ready /\ r.top = u.top
  BY <1>3, <1>5 DEF SchedState, SameWaits, SameClock
<1>8. /\ r.delayed = q.delayed /\ r.overflow = q.overflow /\ SameWaits(r, q)
      /\ SameClock(r, q) /\ r.cur = q.cur /\ r.yield = q.yield /\ r.prio = q.prio
  BY <1>3, <1>7 DEF SameWaits, SameClock, SameLists
<1>9. Ready(r) = Ready(q) \ {t} /\ Delayed(r) = Delayed(q) /\ Asleep(r) = Asleep(q)
  BY <1>3, <1>7, <1>8 DEF Ready, Delayed, Asleep
<1>10. Rings(r)
  BY <1>3, <1>7 DEF Rings
<1>11. Apart(r)
  <2>1. Apart(q)
    BY <1>1 DEF Placed
  <2>2. ASSUME NEW u1 \in Task
        PROVE  /\ u1 \in Ready(r) \/ u1 \in Delayed(r) \/ u1 \in r.parked
               /\ ~(u1 \in Ready(r) /\ u1 \in Delayed(r)) /\ ~(u1 \in Ready(r) /\ u1 \in r.parked)
               /\ ~(u1 \in Delayed(r) /\ u1 \in r.parked)
               /\ ~(u1 \in Owners(r.delayed) /\ u1 \in Owners(r.overflow))
    BY <1>4, <1>7, <1>8, <1>9, <2>1 DEF Apart
  <2> QED
    BY <2>2 DEF Apart
<1>12. Placed(r)
  BY <1>1, <1>6, <1>9, <1>10, <1>11 DEF Placed
<1>13. Waiters(r)
  BY <1>1, <1>8, <1>9 DEF Filing, Waiters, SameWaits
<1>14. Clock(r)
  BY <1>1, <1>8 DEF Clock, SameClock
<1>15. Steady(r)
  BY <1>8, <1>12, <1>13, <1>14 DEF Steady, Filing, SameClock
<1> QED
  BY <1>4, <1>7, <1>8, <1>9, <1>15 DEF Still, SameClock

LEMMA UnblockResetNow ==
    ASSUME NEW q, Steady(q), NEW r, r = ResetNextUnblock(q)
    PROVE  /\ Still(r, q) /\ r.stale = q.stale /\ r.parked = q.parked
           /\ r.prio = q.prio /\ r.cur = q.cur
<1>1. q \in SchedState /\ Filing(q) /\ Clock(q)
  BY SteadyState
<1>2. \A x \in Items(q.delayed) : x.value < W
  BY <1>1 DEF Clock
<1>3. /\ Filing(r) /\ SameLists(r, q) /\ SameWaits(r, q) /\ Ready(r) = Ready(q)
      /\ r.tick = q.tick /\ r.locked = q.locked /\ r.pended = q.pended /\ r.stale = q.stale
      /\ r.cur = q.cur /\ r.yield = q.yield /\ r.prio = q.prio
      /\ \A x \in Items(r.delayed) : r.unblock <= x.value
  BY <1>1, <1>2, UnblockReset
<1>4. Clock(r)
  BY <1>1, <1>3 DEF Clock, SameLists
<1> QED
  BY <1>3, <1>4 DEF Still, Steady, Asleep, SameLists

(* The priority of t is p. *)
LEMMA PriorityIs ==
    ASSUME NEW q, Steady(q), NEW t \in Task, NEW p \in Priority,
           NEW r, r = IF q.prio[t] # p THEN SetPriority(q, t, p) ELSE q
    PROVE  /\ Still(r, q) /\ r.stale = q.stale /\ r.parked = q.parked /\ r.cur = q.cur
           /\ r.prio = [q.prio EXCEPT ![t] = p]
<1>1. q \in SchedState /\ Filing(q) /\ Clock(q)
  BY SteadyState
<1>2. CASE q.prio[t] # p
  <2>1. Filing(r) /\ Repriced(r, q, t, p)
    BY <1>1, <1>2, PrioritySet
  <2>2. Clock(r)
    BY <1>1, <2>1 DEF Repriced, Clock, SameClock, SameLists
  <2> QED
    BY <2>1, <2>2 DEF Repriced, Still, Steady, SameClock, SameLists, Asleep
<1>3. CASE q.prio[t] = p
  <2>1. r = q /\ q.prio \in [Task -> Priority]
    BY <1>1, <1>3, StateFields
  <2>2. [q.prio EXCEPT ![t] = p] = q.prio
    BY <1>3, <2>1
  <2> QED
    BY <2>1, <2>2 DEF Still, SameWaits
<1> QED
  BY <1>2, <1>3

(***************************************************************************)
(* The mutex is given back while somebody waits for it.                    *)
(***************************************************************************)
Bequeathed(r, q, h) ==
    /\ h \in Owners(q.mwait)
    /\ Steady(r) /\ r.tick = q.tick /\ r.stale = q.stale /\ r.parked = q.parked
    /\ r.prio = q.prio /\ (r.cur \in Ready(r) \/ r.cur = q.cur)
    /\ Asleep(r) = {x \in Asleep(q) : x.owner # h}
    /\ Items(r.mwait) = {x \in Items(q.mwait) : x.owner # h}
    /\ Items(r.bwait) = Items(q.bwait)

LEMMA HeirWoken ==
    ASSUME NEW q, Steady(q), q.mwait # <<>>, NEW h, h = Head(q.mwait).owner,
           NEW d, d = RemoveFromEventList(q),
           NEW r, r = IF d.yield THEN SwitchContext(d) ELSE d
    PROVE  Bequeathed(r, q, h)
<1>1. q \in SchedState /\ Filing(q) /\ Clock(q)
  BY SteadyState
<1>2. /\ h \in Owners(q.mwait)
      /\ Filing(d) /\ Woken(d, q, {h}) /\ SameClock(d, q)
      /\ d.cur = q.cur /\ d.prio = q.prio
  BY <1>1, RemovedFromEventList
<1>3. d \in SchedState /\ d.yield \in BOOLEAN
  BY <1>2, StateFields DEF Filing, Placed
<1>4. ~d.locked /\ d.pended = 0 /\ d.tick = q.tick /\ d.stale = q.stale
  BY <1>2 DEF SameClock, Steady
<1>5. Clock(d)
  <2>1. /\ \A x \in Items(d.delayed) : x \in Items(q.delayed)
        /\ \A x \in Items(d.overflow) : x \in Items(q.overflow)
    BY <1>2 DEF Woken
  <2> QED
    BY <1>1, <1>2, <2>1 DEF Clock, SameClock
<1>6. Asleep(d) = {x \in Asleep(q) : x.owner # h}
  BY <1>2 DEF Woken, Asleep
<1>7. Items(d.mwait) = {x \in Items(q.mwait) : x.owner # h}
  BY <1>2 DEF Woken
<1>8. Items(d.bwait) = Items(q.bwait)
  <2>1. h \notin Owners(q.bwait)
    BY <1>1, <1>2 DEF Filing, Waiters
  <2>2. \A x \in Items(q.bwait) : x.owner \in Owners(q.bwait)
    BY <1>1, StateFields, ListFacts
  <2> QED
    BY <1>2, <2>1, <2>2 DEF Woken
<1>9. d.parked = q.parked
  <2>1. h \notin q.parked
    BY <1>1, <1>2, SteadyState DEF Filing, Waiters
  <2> QED
    BY <1>2, <2>1 DEF Woken
<1>10. CASE d.yield
  <2>1. /\ Still(r, d) /\ r.stale = d.stale /\ r.parked = d.parked /\ r.prio = d.prio
        /\ Highest(r)
    BY <1>2, <1>3, <1>4, <1>5, <1>10, SwitchedNow
  <2> QED
    BY <1>2, <1>4, <1>6, <1>7, <1>8, <1>9, <2>1 DEF Bequeathed, Still, SameWaits, Highest
<1>11. CASE ~d.yield
  <2>1. r = d /\ Steady(d)
    BY <1>2, <1>4, <1>5, <1>11 DEF Steady
  <2> QED
    BY <1>2, <1>4, <1>6, <1>7, <1>8, <1>9, <2>1 DEF Bequeathed
<1> QED
  BY <1>3, <1>10, <1>11

=============================================================================
