-------------------------- MODULE PalmClocksProofs --------------------------
(***************************************************************************)
(* The timer and the clock for any rates, any width of the counter and any *)
(* length of the day.  Each update of the timer keeps the counter balanced *)
(* and on time; what the history has heard of a second tells whether its   *)
(* events can still come.                                                  *)
(***************************************************************************)
EXTENDS PalmClocks, TLAPS

-----------------------------------------------------------------------------
(* Division. *)

\* The quotient and what it leaves.
LEMMA DivBounds ==
  ASSUME NEW a \in Nat, NEW d \in Nat \ {0}
  PROVE  a \div d \in Nat /\ (a \div d) * d <= a /\ a < (a \div d) * d + d
BY SMT

\* A quotient is no more than the number it is bounded by.
LEMMA DivAtMost ==
  ASSUME NEW a \in Nat, NEW d \in Nat \ {0}, NEW k \in Nat, a <= k * d
  PROVE  a \div d <= k
BY SMT

\* A number is its quotient times the divisor, and a remainder below it.
LEMMA ModDiv ==
  ASSUME NEW a \in Int, NEW d \in Nat \ {0}
  PROVE  a % d \in 0 .. d - 1 /\ a \div d \in Int /\ a = d * (a \div d) + (a % d)
BY SMT

\* The remainder is the only one.
LEMMA ModUnique ==
  ASSUME NEW d \in Nat \ {0}, NEW q \in Int, NEW p \in Int,
         NEW r \in 0 .. d - 1, NEW s \in 0 .. d - 1, d * q + r = d * p + s
  PROVE  r = s
BY SMT

\* What is added to a remainder may as well be added before.
LEMMA ModAdds ==
  ASSUME NEW a \in Int, NEW b \in Int, NEW d \in Nat \ {0}
  PROVE  ((a % d) + b) % d = (a + b) % d
<1> DEFINE q == a \div d
           m == a % d
           p == (m + b) \div d
           r == (m + b) % d
           e == (a + b) \div d
           s == (a + b) % d
<1>1. q \in Int /\ m \in 0 .. d - 1 /\ a = d * q + m
  BY ModDiv
<1>2. p \in Int /\ r \in 0 .. d - 1 /\ m + b = d * p + r
  BY <1>1, ModDiv
<1>3. e \in Int /\ s \in 0 .. d - 1 /\ a + b = d * e + s
  BY ModDiv
<1> HIDE DEF q, m, p, r, e, s
<1>4. d * (q + p) + r = d * e + s
  BY <1>1, <1>2, <1>3
<1> DEFINE f == q + p
<1>5. f \in Int /\ d * f + r = d * e + s
  BY <1>1, <1>2, <1>4
<1>6. r \in 0 .. d - 1 /\ s \in 0 .. d - 1 /\ e \in Int
  BY <1>2, <1>3
<1> HIDE DEF f
<1>7. r = s
  BY <1>5, <1>6, ModUnique
<1> QED BY <1>7 DEF m, r, s

-----------------------------------------------------------------------------
(* What an update takes off the time not yet counted. *)

\* The time taken for t ticks fits in the gap, and differs from t ticks by less than a unit
\* either way; at one tick per den units not at all.
LEMMA TimeUsed ==
  ASSUME NEW n \in Nat \ {0}, NEW d \in Nat \ {0}, NEW gap \in Nat, NEW t \in Nat \ {0},
         NEW used,
         t = (gap * n) \div d,
         used = IF (t * d) \div n = 0 THEN gap ELSE (t * d) \div n
  PROVE  /\ used \in 0 .. gap
         /\ n = 1 => t * d = used
         /\ t * d - used * n \in -d .. n
<1> DEFINE g == gap * n
           x == t * d
           w == x \div n
<1>1. g \in Nat /\ x \in Nat
  BY SMT
<1>2. x <= g /\ g < x + d
  BY <1>1, DivBounds
<1>3. w \in Nat /\ w * n <= x /\ x < w * n + n
  <2> HIDE DEF x
  <2> QED BY <1>1, DivBounds
<1>4. w <= gap
  <2> HIDE DEF x
  <2> QED BY <1>1, <1>2, DivAtMost
<1>5. CASE w = 0
  <2>0. used = gap
    BY <1>5
  <2>1. used = gap /\ x < n
    <3> HIDE DEF x, w
    <3> QED BY <1>1, <1>3, <1>5, <2>0
  <2>2. n # 1
    <3> SUFFICES ASSUME n = 1 PROVE FALSE
      OBVIOUS
    <3> HIDE DEF x
    <3>1. x = 0
      BY <1>1, <2>1
    <3>2. x >= 1
      BY DEF x
    <3> QED BY <3>1, <3>2
  <2>3. x - g \in -d .. n
    <3> HIDE DEF x, g
    <3> QED BY <1>1, <1>2, <2>1
  <2> QED BY <2>1, <2>2, <2>3
<1>6. CASE w # 0
  <2>1. used = w
    BY <1>6
  <2>2. n = 1 => x = w
    <3> HIDE DEF x, w
    <3> QED BY <1>1, <1>3
  <2>3. x - w * n \in -d .. n
    <3> DEFINE y == w * n
    <3>1. y \in Nat
      BY <1>3
    <3> HIDE DEF x, w, y
    <3>2. y <= x /\ x < y + n
      BY <1>3 DEF y
    <3>3. x - y \in -d .. n
      BY <1>1, <3>1, <3>2
    <3> QED BY <3>3 DEF y
  <2>4. w \in 0 .. gap
    <3> HIDE DEF w
    <3> QED BY <1>3, <1>4
  <2> HIDE DEF x, w
  <2>5. /\ used \in 0 .. gap /\ (n = 1 => x = used) /\ x - used * n \in -d .. n
    BY <2>1, <2>2, <2>3, <2>4
  <2> QED BY <2>5 DEF x
<1> QED BY <1>5, <1>6

\* A count as it is opened is balanced and on time.
LEMMA Fresh ==
  ASSUME NEW v \in 0 .. CounterSize - 1, NEW r \in SUBSET Flag, NEW cy \in Nat, NEW mi \in Nat,
         NEW s \in BOOLEAN, NEW ctl, NEW cmp \in Nat, NEW rate \in Rate
  PROVE  LET c == Opened(v, r, cy, mi, s)
         IN /\ c \in Count /\ c.raised = r
            /\ Balanced(c, ctl, cmp)
            /\ OnTime(c, rate, IF s THEN c.microGap ELSE c.cycleGap)
<1> DEFINE c == Opened(v, r, cy, mi, s)
<1>1. c \in Count /\ c.raised = r
  BY DEF Opened, Count
<1>2. Balanced(c, ctl, cmp)
  <2>1. v % CounterSize = v
    BY ClockConstants
  <2>2. /\ c.counter = v /\ c.base = v /\ c.ticks = 0 /\ c.fires = 0
    BY DEF Opened
  <2>3. 0 * cmp = 0
    BY SMT
  <2> HIDE DEF c
  <2> QED BY <2>1, <2>2, <2>3 DEF Balanced
<1>3. OnTime(c, rate, IF s THEN c.microGap ELSE c.cycleGap)
  <2>1. /\ c.passed = (IF s THEN c.microGap ELSE c.cycleGap) /\ c.ticks = 0 /\ c.updates = 0
        /\ c.passed \in Nat
    BY DEF Opened
  <2>2. rate.num \in Nat /\ rate.den \in Nat
    BY DEF Rate
  <2> HIDE DEF c
  <2>3. /\ 0 * rate.den = 0 /\ 0 * rate.num = 0 /\ (c.passed - c.passed) * rate.num = 0
    BY <2>1, <2>2
  <2> QED BY <2>1, <2>2, <2>3 DEF OnTime
<1> QED BY <1>1, <1>2, <1>3

-----------------------------------------------------------------------------
(* An update keeps the timer's promises. *)

TimerTypes ==
  /\ clock \in Clock \cup {Stopped} /\ control \in SUBSET TimerControl
  /\ compare \in 0 .. CounterSize - 1 /\ asleep \in {"yes", "no"}

Caused(c) == "TIMER" \in c.raised => "COMPARE" \in c.raised

TimerGood(c) ==
  /\ c \in Count /\ Caused(c)
  /\ clock # Stopped => Balanced(c, control, compare) /\ OnTime(c, Scale, Gap(c))

\* A timer that is not stopped ticks at a rate above 0.
LEMMA ScaleType ==
  ASSUME TimerTypes, clock # Stopped
  PROVE  Scale \in Rate /\ Scale.num \in Nat \ {0} /\ Scale.den \in Nat \ {0}
BY ClockConstants DEF TimerTypes, Scale, Rate, Asleep

\* Ticks that use up the time they stand for, but for a fraction of one, keep the count good.
LEMMA CountedGood ==
  ASSUME TimerTypes, clock # Stopped, NEW c, TimerGood(c),
         NEW ticks \in Nat \ {0}, NEW cycles \in Nat, NEW micros \in Nat, NEW used \in Nat,
         used <= Gap(c),
         (IF Asleep THEN micros ELSE cycles) = Gap(c) - used,
         Scale.num = 1 => ticks * Scale.den = used,
         ticks * Scale.den - used * Scale.num \in -Scale.den .. Scale.num
  PROVE  TimerGood(Counted(c, ticks, cycles, micros))
<1> DEFINE k == Counted(c, ticks, cycles, micros)
           updated == c.counter + ticks
           hit == compare # 0 /\ updated >= compare
           restarts == hit /\ "FREE_RUN" \notin control
           less == IF restarts THEN compare ELSE 0
           fires == IF hit THEN 1 ELSE 0
<1>1. c \in Count /\ c.counter \in Nat /\ c.base \in Nat /\ c.ticks \in Nat /\ c.fires \in Nat
      /\ c.updates \in Nat /\ c.passed \in Nat /\ c.raised \in SUBSET Flag /\ Gap(c) \in Nat
  BY ClockConstants DEF TimerGood, Count, Gap
<1>2. CounterSize \in Nat \ {0} /\ compare \in Nat
  BY ClockConstants DEF TimerTypes
<1>3. Scale.num \in Nat \ {0} /\ Scale.den \in Nat \ {0}
  BY ScaleType
<1>4. /\ k.counter = (updated - less) % CounterSize
      /\ k.raised = c.raised \cup Raised(hit)
      /\ k.base = c.base /\ k.passed = c.passed /\ k.ticks = c.ticks + ticks
      /\ k.fires = c.fires + fires /\ k.updates = c.updates + 1
      /\ k.cycleGap = cycles /\ k.microGap = micros
  <2>1. updated \in Int /\ updated - 0 = updated
    BY <1>1
  <2> QED BY <2>1 DEF Counted, AfterCompare
<1>5. Raised(hit) \in SUBSET Flag /\ Caused(k)
  <2>1. Raised(hit) \in SUBSET Flag
    BY DEF Raised, Flag
  <2>2. "TIMER" \in Raised(hit) => "COMPARE" \in Raised(hit)
    BY DEF Raised
  <2>3. Caused(c)
    BY DEF TimerGood
  <2> HIDE DEF k, hit
  <2> QED BY <1>4, <2>1, <2>2, <2>3 DEF Caused
<1>6. k.counter \in 0 .. CounterSize - 1
  <2>1. updated - less \in Int
    BY <1>1, <1>2
  <2> HIDE DEF updated, less, k
  <2> QED BY <1>2, <1>4, <2>1, ModDiv
<1>7. k \in Count
  <2>1. k = [counter |-> k.counter, raised |-> k.raised, cycleGap |-> k.cycleGap,
             microGap |-> k.microGap, base |-> k.base, passed |-> k.passed,
             ticks |-> k.ticks, fires |-> k.fires, updates |-> k.updates]
    BY DEF Counted
  <2>2. fires \in Nat
    OBVIOUS
  <2>3. c.base \in 0 .. CounterSize - 1
    BY <1>1 DEF Count
  <2> HIDE DEF k, hit, fires
  <2> QED BY <1>1, <1>4, <1>5, <1>6, <2>1, <2>2, <2>3 DEF Count
<1>8. Balanced(k, control, compare)
  <2> DEFINE taken == IF "FREE_RUN" \in control THEN 0 ELSE c.fires * compare
             taken2 == IF "FREE_RUN" \in control THEN 0 ELSE (c.fires + fires) * compare
  <2>1. taken \in Int /\ taken2 = taken + less
    <3>1. CASE "FREE_RUN" \in control
      BY <3>1
    <3>2. CASE "FREE_RUN" \notin control /\ hit
      BY <1>1, <1>2, <3>2
    <3>3. CASE "FREE_RUN" \notin control /\ ~hit
      BY <1>1, <1>2, <3>3
    <3> QED BY <3>1, <3>2, <3>3
  <2>2. c.counter = (c.base + c.ticks - taken) % CounterSize
    BY DEF TimerGood, Balanced
  <2>3. less \in Int
    BY <1>2
  <2> DEFINE a == c.base + c.ticks - taken
             b == ticks - less
  <2> HIDE DEF taken, taken2, less, k, hit, fires
  <2>4. a \in Int /\ b \in Int
    BY <1>1, <2>1, <2>3
  <2>5. updated - less = c.counter + b /\ c.base + (c.ticks + ticks) - taken2 = a + b
    BY <1>1, <2>1, <2>3
  <2>6. k.counter = ((a % CounterSize) + b) % CounterSize
    BY <1>4, <2>2, <2>5
  <2> HIDE DEF a, b
  <2>7. k.counter = (a + b) % CounterSize
    BY <1>2, <2>4, <2>6, ModAdds
  <2>8. k.counter = (k.base + k.ticks - taken2) % CounterSize
    BY <1>4, <2>5, <2>7
  <2>9. taken2 = IF "FREE_RUN" \in control THEN 0 ELSE k.fires * compare
    BY <1>4 DEF taken2
  <2> QED BY <2>8, <2>9 DEF Balanced
<1>9. OnTime(k, Scale, Gap(k))
  <2> DEFINE num == Scale.num
             den == Scale.den
             gap == Gap(c)
             owed == c.ticks * den - (c.passed - gap) * num
             more == ticks * den - used * num
             owed2 == k.ticks * den - (k.passed - Gap(k)) * num
  <2>1. Gap(k) = gap - used
    BY <1>4 DEF Gap
  <2>2. owed \in Int /\ more \in Int /\ owed2 = owed + more
    <3> HIDE DEF num, den, gap, k
    <3>1. num \in Int /\ den \in Int /\ gap \in Int
      BY <1>1, <1>3 DEF num, den, gap
    <3> QED BY <1>1, <1>4, <2>1, <3>1
  <2>3. CASE num = 1
    <3>1. owed = 0
      BY <2>3 DEF TimerGood, OnTime
    <3>2. more = 0
      BY <2>3
    <3> HIDE DEF owed, owed2, more
    <3>3. owed2 = 0
      BY <2>2, <3>1, <3>2
    <3> QED BY <2>3, <3>3 DEF OnTime, owed2
  <2>4. CASE num # 1
    <3> DEFINE ud == c.updates * den
               un == c.updates * num
    <3>1. owed \in -ud .. un
      BY <2>4 DEF TimerGood, OnTime
    <3>2. more \in -den .. num
      OBVIOUS
    <3>3. /\ k.updates * den = ud + den /\ k.updates * num = un + num
          /\ ud \in Int /\ un \in Int
      <4> HIDE DEF num, den, k
      <4>1. num \in Nat /\ den \in Nat
        BY <1>3 DEF num, den
      <4> QED BY <1>1, <1>4, <4>1
    <3>4. num \in Nat /\ den \in Nat
      BY <1>3
    <3> HIDE DEF owed, owed2, more, ud, un, k
    <3>5. owed2 \in -(ud + den) .. un + num
      <4> HIDE DEF num, den
      <4> QED BY <2>2, <3>1, <3>2, <3>3, <3>4
    <3> QED BY <2>4, <3>3, <3>5 DEF OnTime, owed2
  <2> QED BY <2>3, <2>4
<1> QED BY <1>5, <1>7, <1>8, <1>9 DEF TimerGood

\* Bringing the count up to date keeps it good.
LEMMA UpdatedGood ==
  ASSUME TimerTypes, NEW c, TimerGood(c)
  PROVE  TimerGood(Updated(c))
<1>1. c \in Count /\ c.counter \in 0 .. CounterSize - 1 /\ c.raised \in SUBSET Flag
      /\ c.cycleGap \in Nat /\ c.microGap \in Nat /\ Gap(c) \in Nat
  BY DEF TimerGood, Count, Gap
<1>2. CASE clock = Stopped
  <2>1. Updated(c) = Opened(c.counter, c.raised, 0, 0, Asleep)
    BY <1>2 DEF Updated
  <2>2. Opened(c.counter, c.raised, 0, 0, Asleep) \in Count
    BY <1>1 DEF Opened, Count
  <2>3. Opened(c.counter, c.raised, 0, 0, Asleep).raised = c.raised
    BY DEF Opened
  <2> QED BY <1>2, <2>1, <2>2, <2>3 DEF TimerGood, Caused
<1>3. CASE clock # Stopped
  <2> DEFINE ticks == (Gap(c) * Scale.num) \div Scale.den
             used == Consumed(Gap(c), ticks)
             cycles == IF Asleep THEN 0 ELSE c.cycleGap - used
             micros == IF Asleep THEN c.microGap - used ELSE 0
             idle == [c EXCEPT !.microGap = IF Asleep THEN @ ELSE 0]
  <2>1. Scale.num \in Nat \ {0} /\ Scale.den \in Nat \ {0}
    BY <1>3, ScaleType
  <2>2. ticks \in Nat
    <3>1. Gap(c) * Scale.num \in Nat
      BY <1>1, <2>1
    <3> QED BY <2>1, <3>1, DivBounds
  <2>3. CASE ticks = 0
    <3>1. Updated(c) = idle
      BY <1>3, <2>3 DEF Updated
    <3>2. idle \in Count /\ idle.raised = c.raised
      BY <1>1 DEF Count
    <3>3. /\ idle.counter = c.counter /\ idle.base = c.base /\ idle.ticks = c.ticks
          /\ idle.fires = c.fires /\ idle.passed = c.passed /\ idle.updates = c.updates
          /\ Gap(idle) = Gap(c)
      BY <1>1 DEF Count, Gap
    <3> HIDE DEF idle
    <3>4. Balanced(idle, control, compare)
      BY <1>3, <3>3 DEF TimerGood, Balanced
    <3>5. OnTime(idle, Scale, Gap(idle))
      BY <1>3, <3>3 DEF TimerGood, OnTime
    <3> QED BY <3>1, <3>2, <3>4, <3>5 DEF TimerGood, Caused
  <2>4. CASE ticks # 0
    <3>1. Updated(c) = Counted(c, ticks, cycles, micros)
      BY <1>3, <2>4 DEF Updated
    <3>2. used = IF (ticks * Scale.den) \div Scale.num = 0 THEN Gap(c)
                 ELSE (ticks * Scale.den) \div Scale.num
      BY DEF Consumed
    <3>3. /\ used \in 0 .. Gap(c)
          /\ Scale.num = 1 => ticks * Scale.den = used
          /\ ticks * Scale.den - used * Scale.num \in -Scale.den .. Scale.num
      <4> DEFINE n == Scale.num
                 d == Scale.den
                 gap == Gap(c)
      <4>1. ticks = (gap * n) \div d
        OBVIOUS
      <4>2. used = IF (ticks * d) \div n = 0 THEN gap ELSE (ticks * d) \div n
        BY <3>2
      <4>3. gap \in Nat /\ n \in Nat \ {0} /\ d \in Nat \ {0} /\ ticks \in Nat \ {0}
        BY <1>1, <2>1, <2>2, <2>4
      <4> HIDE DEF n, d, gap, ticks, used
      <4>4. used \in 0 .. gap /\ (n = 1 => ticks * d = used) /\ ticks * d - used * n \in -d .. n
        BY <4>1, <4>2, <4>3, TimeUsed
      <4> QED BY <4>4 DEF n, d, gap
    <3>4. cycles \in Nat /\ micros \in Nat
          /\ (IF Asleep THEN micros ELSE cycles) = Gap(c) - used
      <4> HIDE DEF used
      <4> QED BY <1>1, <3>3 DEF Gap
    <3> HIDE DEF ticks, used, cycles, micros
    <3>5. TimerGood(Counted(c, ticks, cycles, micros))
      <4>1. ticks \in Nat \ {0} /\ used \in Nat /\ used <= Gap(c)
        BY <1>1, <2>2, <2>4, <3>3
      <4> QED BY <1>3, <3>3, <3>4, <4>1, CountedGood
    <3> QED BY <3>1, <3>5
  <2> QED BY <2>3, <2>4
<1> QED BY <1>2, <1>3

\* Time that goes by keeps it good.
LEMMA LaterGood ==
  ASSUME TimerTypes, NEW c, TimerGood(c), NEW cycles \in Nat, NEW micros \in Nat
  PROVE  TimerGood(Later(c, cycles, micros))
<1> DEFINE k == Later(c, cycles, micros)
           more == IF Asleep THEN micros ELSE cycles
<1>1. c \in Count /\ more \in Nat
  BY DEF TimerGood
<1>2. /\ k.counter = c.counter /\ k.base = c.base /\ k.ticks = c.ticks
      /\ k.fires = c.fires /\ k.updates = c.updates /\ k.raised = c.raised
      /\ k.cycleGap = c.cycleGap + cycles /\ k.microGap = c.microGap + micros
      /\ k.passed = c.passed + more
  BY <1>1 DEF Count, Later
<1>3. k \in Count
  <2> DEFINE k1 == [c EXCEPT !.cycleGap = c.cycleGap + cycles]
             k2 == [k1 EXCEPT !.microGap = c.microGap + micros]
             k3 == [k2 EXCEPT !.passed = c.passed + more]
  <2>1. k = k3
    BY <1>1 DEF Later, Count
  <2>2. k1 \in Count
    BY <1>1 DEF Count
  <2>3. k2 \in Count
    <3> HIDE DEF k1
    <3>1. c.microGap + micros \in Nat
      BY <1>1 DEF Count
    <3> QED BY <2>2, <3>1 DEF Count
  <2>4. k3 \in Count
    <3> HIDE DEF k2, more
    <3>1. c.passed + more \in Nat
      BY <1>1 DEF Count
    <3> QED BY <2>3, <3>1 DEF Count
  <2> QED BY <2>1, <2>4
<1> HIDE DEF k
<1>4. k.passed - Gap(k) = c.passed - Gap(c)
  BY <1>1, <1>2 DEF Count, Gap
<1>5. Caused(k) /\ (clock # Stopped => Balanced(k, control, compare))
  BY <1>2 DEF TimerGood, Caused, Balanced
<1>6. clock # Stopped => OnTime(k, Scale, Gap(k))
  BY <1>2, <1>4 DEF TimerGood, OnTime
<1> QED BY <1>3, <1>5, <1>6 DEF TimerGood, k

-----------------------------------------------------------------------------
(* The inductive invariant. *)

TimerInv == TimerTypes /\ seen \in SUBSET {"COMPARE"} /\ TimerGood(count)

RtcTypes ==
  /\ second \in Nat /\ shown \in 0 .. Day - 1 /\ lastSecond \in Nat \cup {None}
  /\ alarm \in 0 .. Day - 1
  /\ rtcControl \in SUBSET {"ENABLE"}
  /\ rtcMask \in SUBSET RtcEvent /\ rtcStatus \in SUBSET RtcEvent
  /\ rtcPending \in BOOLEAN
  /\ watch \in Watch

\* What the history has heard of the second tells whether its events can still come.
WatchInv ==
  /\ lastSecond <= second
  /\ watch.heard = "no" => watch.rang = {}
  /\ watch.heard = "yes" => lastSecond = second
  /\ watch.armed = "yes" =>
       /\ RtcOn /\ "ALARM" \in rtcMask /\ lastSecond # None
       /\ second % Day = alarm
       /\ watch.heard = "no" => lastSecond # second

RtcInv == RtcTypes /\ WatchInv /\ RtcRequestCurrent /\ AlarmRings /\ EventsOnce

SavedInv ==
  /\ saved \in {NoSnapshot} \cup Snapshot
  /\ saved.taken = "yes" => Caused(saved)

ClockInv == TimerInv /\ RtcInv /\ SavedInv

\* What the invariant says for the properties.
LEMMA ClockInvMeans ==
  ClockInv => /\ TypeOK /\ RequestHasCause /\ CounterBalances /\ TicksMatchTime
              /\ RtcRequestCurrent /\ AlarmRings /\ EventsOnce
<1> SUFFICES ASSUME ClockInv
             PROVE  /\ TypeOK /\ RequestHasCause /\ CounterBalances /\ TicksMatchTime
                    /\ RtcRequestCurrent /\ AlarmRings /\ EventsOnce
  OBVIOUS
<1>1. TypeOK
  BY DEF ClockInv, TimerInv, TimerTypes, TimerGood, RtcInv, RtcTypes, SavedInv, TypeOK
<1>2. RequestHasCause /\ CounterBalances /\ TicksMatchTime
  BY DEF ClockInv, TimerInv, TimerGood, Caused, RequestHasCause, CounterBalances, TicksMatchTime
<1> QED BY <1>1, <1>2 DEF ClockInv, RtcInv

\* The invariant holds at power on.
LEMMA ClockInit == Init => ClockInv
<1> SUFFICES ASSUME Init PROVE ClockInv
  OBVIOUS
<1>1. TimerInv
  <2>1. TimerTypes /\ seen \in SUBSET {"COMPARE"}
    BY ClockConstants DEF Init, TimerTypes
  <2>2. count \in Count /\ count.raised = {}
    BY ClockConstants DEF Init, Opened, Count
  <2> QED BY <2>1, <2>2 DEF Init, TimerInv, TimerGood, Caused
<1>2. RtcTypes
  <2>1. Unarmed \in Watch
    BY DEF Unarmed, Watch
  <2>2. rtcPending \in BOOLEAN
    BY Zenon DEF Init
  <2> QED BY <2>1, <2>2, ClockConstants DEF Init, RtcTypes
<1>3. WatchInv /\ AlarmRings /\ EventsOnce
  BY DEF Init, Unarmed, WatchInv, AlarmRings, EventsOnce, None
<1>4. RtcRequestCurrent
  BY DEF Init, RtcRequestCurrent, RtcRequested
<1>5. SavedInv
  BY DEF Init, SavedInv, NoSnapshot
<1> QED BY <1>1, <1>2, <1>3, <1>4, <1>5 DEF ClockInv, RtcInv

-----------------------------------------------------------------------------
(* Steps of the timer. *)

\* A timer whose setting stays is judged by the same rates and registers.
LEMMA TimerKept ==
  ASSUME TimerInv, UNCHANGED <<setup, asleep>>, seen' \in SUBSET {"COMPARE"}, TimerGood(count')
  PROVE  TimerInv'
<1>1. TimerTypes'
  BY DEF TimerInv, TimerTypes, setup
<1>2. TimerGood(count)'
  BY DEF TimerGood, Scale, Gap, Asleep, setup
<1> QED BY <1>1, <1>2 DEF TimerInv

\* Nothing happens to the timer.
LEMMA TimerSame == TimerInv /\ UNCHANGED timer => TimerInv'
<1> SUFFICES ASSUME TimerInv, UNCHANGED timer PROVE TimerInv'
  OBVIOUS
<1>1. TimerGood(count')
  BY DEF TimerInv, timer
<1> QED BY <1>1, TimerKept DEF TimerInv, timer

\* The timer is brought up to date.
LEMMA TimerUpdate ==
  ASSUME TimerInv, UNCHANGED <<setup, seen, asleep>>, count' = Updated(count)
  PROVE  TimerInv'
<1>1. TimerGood(count')
  BY UpdatedGood DEF TimerInv
<1> QED BY <1>1, TimerKept DEF TimerInv

\* A timer that was just set or has changed its unit starts balanced and on time.
LEMMA TimerOpened ==
  ASSUME TimerTypes', seen' \in SUBSET {"COMPARE"},
         NEW v \in 0 .. CounterSize - 1, NEW r \in SUBSET Flag, NEW cy \in Nat, NEW mi \in Nat,
         "TIMER" \in r => "COMPARE" \in r,
         count' = Opened(v, r, cy, mi, Asleep')
  PROVE  TimerInv'
<1>1. count' \in Count /\ count'.raised = r
  BY DEF Opened, Count
<1>2. ASSUME clock' # Stopped
      PROVE  Balanced(count, control, compare)' /\ OnTime(count, Scale, Gap(count))'
  <2>1. Scale' \in Rate
    BY <1>2, ClockConstants DEF TimerTypes, Scale, Rate, Asleep
  <2>2. compare' \in Nat
    BY ClockConstants DEF TimerTypes
  <2>3. Asleep' \in BOOLEAN
    BY DEF Asleep
  <2>4. Balanced(count', control', compare')
        /\ OnTime(count', Scale', IF Asleep' THEN count'.microGap ELSE count'.cycleGap)
    BY <2>1, <2>2, <2>3, Fresh
  <2> QED BY <2>4 DEF Balanced, OnTime, Gap
<1> QED BY <1>1, <1>2 DEF TimerInv, TimerGood, Caused

\* A write to TSTAT1 withdraws the request.
LEMMA TimerAcknowledged ==
  ASSUME TimerInv, NEW b \in BOOLEAN, CpuWriteStatus(b)
  PROVE  TimerInv'
<1> DEFINE r == (IF b THEN {"COMPARE"} ELSE {}) \cup RequestKept(b)
<1>1. r \in SUBSET Flag /\ ("TIMER" \in r => "COMPARE" \in r)
  <2>1. RequestKept(b) \in SUBSET Flag /\ (RequestKept(b) # {} => b)
    BY DEF RequestKept, Flag
  <2> HIDE DEF r
  <2>2. r = (IF b THEN {"COMPARE"} ELSE {}) \cup RequestKept(b)
    BY DEF r
  <2> QED BY <2>1, <2>2 DEF Flag
<1>2. count' = [count EXCEPT !.raised = r] /\ count \in Count
  BY DEF CpuWriteStatus, TimerInv, TimerGood
<1> HIDE DEF r
<1>3. count' \in Count /\ count'.raised = r
  BY <1>1, <1>2 DEF Count
<1>4. /\ count'.counter = count.counter /\ count'.base = count.base
      /\ count'.ticks = count.ticks /\ count'.fires = count.fires
      /\ count'.updates = count.updates /\ count'.passed = count.passed
      /\ Gap(count') = Gap(count)
  BY <1>2 DEF Count, Gap
<1>5. TimerGood(count')
  <2>1. clock # Stopped => Balanced(count', control, compare) /\ OnTime(count', Scale, Gap(count'))
    BY <1>4 DEF TimerInv, TimerGood, Balanced, OnTime
  <2> QED BY <1>1, <1>3, <2>1 DEF TimerGood, Caused
<1> QED BY <1>5, TimerKept DEF CpuWriteStatus

\* Every step keeps what is said of the timer.
LEMMA TimerStep == ClockInv /\ Next => TimerInv'
<1> SUFFICES ASSUME ClockInv, Next PROVE TimerInv'
  OBVIOUS
<1>1. TimerInv
  BY DEF ClockInv
<1>2. /\ count.counter \in 0 .. CounterSize - 1 /\ count.raised \in SUBSET Flag
      /\ count.cycleGap \in Nat /\ count.microGap \in Nat
      /\ "TIMER" \in count.raised => "COMPARE" \in count.raised
  BY <1>1 DEF TimerInv, TimerGood, Count, Caused
<1>3. CASE HostMicro
  <2>1. TimerGood(count')
    BY <1>1, <1>3, LaterGood DEF HostMicro, TimerInv
  <2> QED BY <1>1, <1>3, <2>1, TimerKept DEF HostMicro, TimerInv
<1>4. ASSUME NEW cycles \in 1 .. MaxPassed, EndSlice(cycles) PROVE TimerInv'
  <2>1. TimerGood(Later(count, cycles, 0))
    BY <1>1, LaterGood DEF TimerInv
  <2>2. TimerGood(count')
    BY <1>1, <1>4, <2>1, UpdatedGood DEF EndSlice, TimerInv
  <2> QED BY <1>1, <1>4, <2>2, TimerKept DEF EndSlice, TimerInv
<1>5. CASE Cycle
  BY <1>1, <1>5, TimerUpdate DEF Cycle
<1>6. ASSUME NEW ck \in Clock \cup {Stopped}, NEW ctl \in SUBSET TimerControl,
             CpuWriteControl(ck, ctl)
      PROVE  TimerInv'
  <2>1. TimerTypes' /\ seen' \in SUBSET {"COMPARE"}
    BY <1>1, <1>6 DEF CpuWriteControl, TimerInv, TimerTypes
  <2>2. count' = Opened(count.counter, count.raised, 0, 0, Asleep')
    BY <1>6 DEF CpuWriteControl, Rebased, Asleep
  <2> QED BY <1>2, <2>1, <2>2, TimerOpened
<1>7. ASSUME NEW v \in CompareValues, CpuWriteCompare(v) PROVE TimerInv'
  <2>1. TimerTypes' /\ seen' \in SUBSET {"COMPARE"}
    BY <1>1, <1>7, ClockConstants DEF CpuWriteCompare, TimerInv, TimerTypes
  <2>2. count' = Opened(count.counter, count.raised, 0, 0, Asleep')
    BY <1>7 DEF CpuWriteCompare, Rebased, Asleep
  <2> QED BY <1>2, <2>1, <2>2, TimerOpened
<1>8. ASSUME NEW v \in 0 .. CounterSize - 1, CpuWriteCounter(v) PROVE TimerInv'
  <2>1. TimerTypes' /\ seen' \in SUBSET {"COMPARE"}
    BY <1>1, <1>8 DEF CpuWriteCounter, TimerInv, TimerTypes, setup
  <2>2. count' = Opened(v, count.raised, 0, 0, Asleep')
    BY <1>8 DEF CpuWriteCounter, Rebased, Asleep
  <2> QED BY <1>2, <2>1, <2>2, TimerOpened
<1>9. CASE CpuReadCounter
  BY <1>1, <1>9, TimerUpdate DEF CpuReadCounter
<1>10. CASE CpuReadStatus
  <2>1. TimerGood(Updated(count))
    BY <1>1, UpdatedGood DEF TimerInv
  <2>2. TimerGood(count')
    BY <1>1, <1>10, <2>1, UpdatedGood DEF CpuReadStatus, TimerInv
  <2>3. seen' \in SUBSET {"COMPARE"}
    BY <1>1, <1>10 DEF CpuReadStatus, TimerInv
  <2> QED BY <1>1, <1>10, <2>2, <2>3, TimerKept DEF CpuReadStatus
<1>11. ASSUME NEW b \in BOOLEAN, CpuWriteStatus(b) PROVE TimerInv'
  BY <1>1, <1>11, TimerAcknowledged
<1>12. ASSUME NEW s \in {"yes", "no"}, SetAsleep(s) PROVE TimerInv'
  <2>1. TimerTypes' /\ seen' \in SUBSET {"COMPARE"}
    BY <1>1, <1>12 DEF SetAsleep, TimerInv, TimerTypes, setup
  <2>2. count' = Opened(count.counter, count.raised, count.cycleGap, count.microGap, Asleep')
    BY <1>12 DEF SetAsleep, Asleep
  <2> QED BY <1>2, <2>1, <2>2, TimerOpened
<1>13. CASE Reset
  <2>1. TimerTypes' /\ seen' \in SUBSET {"COMPARE"} /\ Asleep' = FALSE
    BY <1>13, ClockConstants DEF Reset, TimerTypes, Asleep
  <2>2. count' = Opened(0, {}, 0, 0, Asleep')
    BY <1>13, <2>1 DEF Reset
  <2>3. 0 \in 0 .. CounterSize - 1 /\ {} \in SUBSET Flag
    BY ClockConstants
  <2> QED BY <2>1, <2>2, <2>3, TimerOpened
<1>14. CASE SaveState
  BY <1>1, <1>14, TimerUpdate DEF SaveState
<1>15. CASE LoadState
  <2>1. saved \in Snapshot /\ ("TIMER" \in saved.raised => "COMPARE" \in saved.raised)
    BY <1>15 DEF LoadState, ClockInv, SavedInv, NoSnapshot, Caused
  <2>2. TimerTypes' /\ seen' \in SUBSET {"COMPARE"}
    BY <1>15, <2>1 DEF LoadState, TimerTypes, Snapshot
  <2>3. PICK gap \in {saved.cycleGap, 0} :
          count' = Opened(saved.counter, saved.raised, gap, 0, Asleep')
    BY <1>15 DEF LoadState, Asleep
  <2>4. /\ saved.counter \in 0 .. CounterSize - 1 /\ saved.raised \in SUBSET Flag /\ gap \in Nat
    BY <2>1 DEF Snapshot
  <2> QED BY <2>1, <2>2, <2>3, <2>4, TimerOpened
<1>16. CASE UNCHANGED timer
  BY <1>1, <1>16, TimerSame
<1> QED
  BY <1>3, <1>4, <1>5, <1>6, <1>7, <1>8, <1>9, <1>10, <1>11, <1>12, <1>13, <1>14, <1>15, <1>16
  DEF Next, HostSecond, ReadRtc, CpuWriteTime, CpuWriteAlarm, CpuWriteRtcControl,
      CpuWriteRtcMask, CpuWriteRtcStatus

-----------------------------------------------------------------------------
(* Steps of the clock. *)

\* Nothing happens to the clock.
LEMMA RtcSame == RtcInv /\ UNCHANGED rtc => RtcInv'
<1> SUFFICES ASSUME RtcInv, UNCHANGED rtc PROVE RtcInv'
  OBVIOUS
<1> USE DEF RtcInv, rtc, rtcSetup
<1>1. RtcTypes'
  BY DEF RtcTypes
<1>2. WatchInv' /\ AlarmRings' /\ EventsOnce'
  BY DEF WatchInv, AlarmRings, EventsOnce, RtcOn
<1>3. RtcRequestCurrent'
  BY DEF RtcRequestCurrent, RtcRequested, RtcOn
<1> QED BY <1>1, <1>2, <1>3

\* The clock is brought up to date.
LEMMA RtcUpdate == RtcInv /\ UpdateRtc => RtcInv'
<1> SUFFICES ASSUME RtcInv, UpdateRtc PROVE RtcInv'
  OBVIOUS
<1> USE DEF RtcInv
<1> DEFINE rung == IF Ringing THEN Due ELSE {}
<1>1. rung \in SUBSET RtcEvent /\ rung \subseteq rtcMask
  BY DEF RtcTypes, Due
<1>2. second % Day \in 0 .. Day - 1
  BY ModDiv, ClockConstants DEF RtcTypes
<1>3. watch' = [watch EXCEPT !.heard = "yes", !.rang = @ \cup rung,
                             !.again = @ \cup (watch.rang \cap rung)]
  BY DEF UpdateRtc
<1>4. /\ watch'.armed = watch.armed /\ watch'.heard = "yes"
      /\ watch'.rang = watch.rang \cup rung
      /\ watch'.again = watch.again \cup (watch.rang \cap rung)
  <2> HIDE DEF rung
  <2> QED BY <1>3 DEF RtcTypes, Watch
<1>5. watch' \in Watch
  <2> HIDE DEF rung
  <2> QED BY <1>1, <1>3 DEF RtcTypes, Watch
<1>6. RtcTypes'
  <2>1. rtcStatus' \in SUBSET RtcEvent
    BY <1>1 DEF UpdateRtc, RtcTypes
  <2>2. rtcPending' \in BOOLEAN
    <3>1. CASE Ringing
      BY <3>1, Zenon DEF UpdateRtc, RtcRequested, RtcOn
    <3>2. CASE ~Ringing
      BY <3>2, Zenon DEF UpdateRtc, RtcTypes
    <3> QED BY <3>1, <3>2
  <2> QED BY <1>2, <1>5, <2>1, <2>2 DEF UpdateRtc, RtcTypes, rtcSetup
<1>7. watch.heard = "yes" => ~Ringing
  BY DEF WatchInv, Ringing
<1>8. EventsOnce'
  <2>1. watch.rang \cap rung = {}
    BY <1>7 DEF WatchInv, RtcTypes, Watch
  <2> QED BY <1>4, <2>1 DEF EventsOnce
<1>9. AlarmRings'
  <2>1. CASE watch.heard = "yes"
    BY <1>4, <2>1 DEF AlarmRings
  <2>2. CASE watch.heard = "no" /\ watch.armed = "yes"
    <3>1. Ringing /\ "ALARM" \in Due
      BY <2>2 DEF WatchInv, Ringing, Due
    <3> QED BY <1>4, <3>1 DEF AlarmRings
  <2>3. watch.heard \in {"yes", "no"} /\ watch.armed \in {"yes", "no"}
    BY DEF RtcTypes, Watch
  <2> QED BY <1>4, <2>1, <2>2, <2>3 DEF AlarmRings
<1>10. WatchInv'
  <2>1. second' = second /\ lastSecond' = second /\ alarm' = alarm
        /\ rtcControl' = rtcControl /\ rtcMask' = rtcMask
    BY DEF UpdateRtc, rtcSetup
  <2>2. second # None /\ second <= second
    BY DEF RtcTypes, None
  <2> HIDE DEF rung
  <2> QED BY <1>4, <2>1, <2>2 DEF WatchInv, RtcOn
<1>11. RtcRequestCurrent'
  <2>1. CASE Ringing
    BY <2>1, Zenon DEF UpdateRtc, RtcRequestCurrent, RtcRequested, RtcOn, rtcSetup
  <2>2. CASE ~Ringing
    <3>1. rtcStatus' = rtcStatus /\ rtcPending' = rtcPending /\ rtcMask' = rtcMask
          /\ rtcControl' = rtcControl
      BY <2>2 DEF UpdateRtc, rtcSetup
    <3> QED BY <3>1 DEF RtcRequestCurrent, RtcRequested, RtcOn
  <2> QED BY <2>1, <2>2
<1> QED BY <1>6, <1>8, <1>9, <1>10, <1>11

\* An alarm that is no longer watched for stays typed.
LEMMA Disarmed ==
  ASSUME RtcTypes
  PROVE  LET w == [watch EXCEPT !.armed = "no"]
         IN /\ w \in Watch /\ w.armed = "no"
            /\ w.heard = watch.heard /\ w.rang = watch.rang /\ w.again = watch.again
BY DEF RtcTypes, Watch

\* A second of which nothing is expected.
LEMMA RtcUnwatched ==
  ASSUME RtcTypes', RtcRequestCurrent', lastSecond' <= second', watch' = Unarmed
  PROVE  RtcInv'
BY DEF RtcInv, Unarmed, WatchInv, AlarmRings, EventsOnce

\* Every step keeps what is said of the clock.
LEMMA RtcStep == ClockInv /\ Next => RtcInv'
<1> SUFFICES ASSUME ClockInv, Next PROVE RtcInv'
  OBVIOUS
<1>1. RtcInv /\ RtcTypes
  BY DEF ClockInv, RtcInv
<1>2. Unarmed \in Watch
  BY DEF Unarmed, Watch
<1>3. CASE UpdateRtc
  BY <1>1, <1>3, RtcUpdate
<1>4. CASE UNCHANGED rtc
  BY <1>1, <1>4, RtcSame
<1>5. CASE HostSecond
  <2> USE <1>5 DEF HostSecond, rtcSetup
  <2> DEFINE asked == RtcOn /\ "ALARM" \in rtcMask /\ lastSecond # None
                      /\ (second + 1) % Day = alarm
  <2>1. /\ watch' \in Watch /\ watch'.heard = "no" /\ watch'.rang = {} /\ watch'.again = {}
        /\ watch'.armed = "yes" => asked
    BY DEF Unarmed, Watch
  <2>2. second' = second + 1 /\ second + 1 \in Nat /\ lastSecond <= second
    BY <1>1 DEF RtcTypes, RtcInv, WatchInv
  <2>3. RtcTypes'
    BY <1>1, <2>1, <2>2 DEF RtcTypes
  <2>4. WatchInv' /\ AlarmRings' /\ EventsOnce'
    <3>1. lastSecond \in Int /\ second \in Nat
      BY <1>1 DEF RtcTypes, None
    <3>2. lastSecond <= second + 1 /\ lastSecond # second + 1
      BY <2>2, <3>1
    <3> QED BY <2>1, <2>2, <3>2 DEF WatchInv, AlarmRings, EventsOnce, RtcOn
  <2>5. RtcRequestCurrent'
    BY <1>1 DEF RtcInv, RtcRequestCurrent, RtcRequested, RtcOn
  <2> QED BY <2>3, <2>4, <2>5 DEF RtcInv
<1>6. ASSUME NEW t \in 0 .. Day - 1, CpuWriteTime(t) PROVE RtcInv'
  <2> USE <1>6 DEF CpuWriteTime, rtcSetup
  <2>1. t \in Nat /\ None <= t
    BY ClockConstants DEF None
  <2>2. RtcTypes'
    BY <1>1, <1>2, <2>1 DEF RtcTypes
  <2>3. RtcRequestCurrent'
    BY <1>1 DEF RtcInv, RtcRequestCurrent, RtcRequested, RtcOn
  <2> QED BY <2>1, <2>2, <2>3, RtcUnwatched
<1>7. ASSUME NEW t \in 0 .. Day - 1, CpuWriteAlarm(t) PROVE RtcInv'
  <2> USE <1>7 DEF CpuWriteAlarm
  <2>1. /\ watch' \in Watch /\ watch'.armed = "no" /\ watch'.heard = watch.heard
        /\ watch'.rang = watch.rang /\ watch'.again = watch.again
    BY <1>1, Disarmed
  <2>2. RtcTypes'
    BY <1>1, <2>1 DEF RtcTypes
  <2>3. WatchInv' /\ AlarmRings' /\ EventsOnce'
    BY <1>1, <2>1 DEF RtcInv, WatchInv, AlarmRings, EventsOnce
  <2>4. RtcRequestCurrent'
    BY <1>1 DEF RtcInv, RtcRequestCurrent, RtcRequested, RtcOn
  <2> QED BY <2>2, <2>3, <2>4 DEF RtcInv
<1>8. ASSUME NEW ctl \in SUBSET {"ENABLE"}, CpuWriteRtcControl(ctl) PROVE RtcInv'
  <2> USE <1>8 DEF CpuWriteRtcControl, RequestRenewed
  <2>1. /\ watch' \in Watch /\ watch'.armed = "no" /\ watch'.heard = watch.heard
        /\ watch'.rang = watch.rang /\ watch'.again = watch.again
    BY <1>1, Disarmed
  <2>2. RtcRequestCurrent' /\ rtcPending' \in BOOLEAN
    BY Zenon DEF RtcRequestCurrent, RtcRequested, RtcOn
  <2>3. RtcTypes'
    BY <1>1, <2>1, <2>2 DEF RtcTypes
  <2>4. WatchInv' /\ AlarmRings' /\ EventsOnce'
    BY <1>1, <2>1 DEF RtcInv, WatchInv, AlarmRings, EventsOnce
  <2> QED BY <2>2, <2>3, <2>4 DEF RtcInv
<1>9. ASSUME NEW mask \in MaskValues, CpuWriteRtcMask(mask) PROVE RtcInv'
  <2> USE <1>9 DEF CpuWriteRtcMask, RequestRenewed
  <2>1. /\ watch' \in Watch /\ watch'.armed = "no" /\ watch'.heard = watch.heard
        /\ watch'.rang = watch.rang /\ watch'.again = watch.again
    BY <1>1, Disarmed
  <2>2. RtcRequestCurrent' /\ rtcPending' \in BOOLEAN
    BY Zenon DEF RtcRequestCurrent, RtcRequested, RtcOn
  <2>3. RtcTypes'
    BY <1>1, <2>1, <2>2, ClockConstants DEF RtcTypes
  <2>4. WatchInv' /\ AlarmRings' /\ EventsOnce'
    BY <1>1, <2>1 DEF RtcInv, WatchInv, AlarmRings, EventsOnce
  <2> QED BY <2>2, <2>3, <2>4 DEF RtcInv
<1>10. ASSUME NEW taken \in SUBSET RtcEvent, CpuWriteRtcStatus(taken) PROVE RtcInv'
  <2> USE <1>10 DEF CpuWriteRtcStatus, RequestRenewed, rtcSetup
  <2>1. RtcRequestCurrent' /\ rtcPending' \in BOOLEAN
    BY Zenon DEF RtcRequestCurrent, RtcRequested, RtcOn
  <2>2. RtcTypes'
    BY <1>1, <2>1 DEF RtcTypes
  <2>3. WatchInv' /\ AlarmRings' /\ EventsOnce'
    BY <1>1 DEF RtcInv, WatchInv, AlarmRings, EventsOnce, RtcOn
  <2> QED BY <2>1, <2>2, <2>3 DEF RtcInv
<1>11. CASE Reset
  <2> USE <1>11 DEF Reset
  <2>1. rtcPending' \in BOOLEAN /\ RtcRequestCurrent'
    BY Zenon DEF RtcRequestCurrent, RtcRequested
  <2>2. RtcTypes'
    BY <1>2, <2>1, ClockConstants DEF RtcTypes
  <2>3. lastSecond' <= second'
    BY DEF None
  <2> QED BY <2>1, <2>2, <2>3, RtcUnwatched
<1>12. CASE LoadState
  <2> USE <1>12 DEF LoadState, RequestRenewed
  <2>1. saved \in Snapshot
    BY DEF ClockInv, SavedInv, NoSnapshot
  <2>2. rtcPending' \in BOOLEAN /\ RtcRequestCurrent'
    BY Zenon DEF RtcRequestCurrent, RtcRequested, RtcOn
  <2>3. saved.shown \in Nat /\ None <= saved.shown
    BY <2>1, ClockConstants DEF Snapshot, None
  <2>4. RtcTypes'
    BY <1>2, <2>1, <2>2, <2>3 DEF RtcTypes, Snapshot
  <2> QED BY <2>2, <2>3, <2>4, RtcUnwatched
<1> QED
  BY <1>3, <1>4, <1>5, <1>6, <1>7, <1>8, <1>9, <1>10, <1>11, <1>12
  DEF Next, HostMicro, EndSlice, Cycle, CpuWriteControl, CpuWriteCompare, CpuWriteCounter,
      CpuReadCounter, CpuReadStatus, CpuWriteStatus, SetAsleep, ReadRtc, SaveState

-----------------------------------------------------------------------------
(* Snapshots, and the theorems. *)

\* The request that is saved has its cause saved with it.
LEMMA SavedStep == ClockInv /\ Next /\ TimerInv' /\ RtcInv' => SavedInv'
<1> SUFFICES ASSUME ClockInv, Next, TimerInv', RtcInv' PROVE SavedInv'
  OBVIOUS
<1>1. CASE SaveState
  <2> USE <1>1 DEF SaveState
  <2>1. /\ count'.counter \in 0 .. CounterSize - 1 /\ count'.raised \in SUBSET Flag
        /\ count'.cycleGap \in Nat /\ Caused(count')
    BY DEF TimerInv, TimerGood, Count, Caused
  <2>2. /\ clock \in Clock \cup {Stopped} /\ control \in SUBSET TimerControl
        /\ compare \in 0 .. CounterSize - 1 /\ seen \in SUBSET {"COMPARE"}
        /\ asleep \in {"yes", "no"}
    BY DEF ClockInv, TimerInv, TimerTypes
  <2>3. /\ shown' \in 0 .. Day - 1 /\ alarm \in 0 .. Day - 1
        /\ rtcControl \in SUBSET {"ENABLE"} /\ rtcMask \in SUBSET RtcEvent
        /\ rtcStatus' \in SUBSET RtcEvent
    BY DEF ClockInv, RtcInv, RtcTypes
  <2>4. saved'.raised = count'.raised
    OBVIOUS
  <2>5. saved' \in Snapshot
    BY <2>1, <2>2, <2>3 DEF Snapshot
  <2> QED BY <2>1, <2>4, <2>5 DEF SavedInv, Caused
<1>2. CASE UNCHANGED saved
  BY <1>2 DEF ClockInv, SavedInv
<1> QED
  BY <1>1, <1>2
  DEF Next, HostMicro, HostSecond, EndSlice, Cycle, CpuWriteControl, CpuWriteCompare,
      CpuWriteCounter, CpuReadCounter, CpuReadStatus, CpuWriteStatus, SetAsleep, ReadRtc,
      CpuWriteTime, CpuWriteAlarm, CpuWriteRtcControl, CpuWriteRtcMask, CpuWriteRtcStatus,
      Reset, LoadState

\* Every step keeps the invariant.
LEMMA ClockNext == ClockInv /\ [Next]_vars => ClockInv'
<1> SUFFICES ASSUME ClockInv, [Next]_vars PROVE ClockInv'
  OBVIOUS
<1>1. CASE Next
  BY <1>1, TimerStep, RtcStep, SavedStep DEF ClockInv
<1>2. CASE UNCHANGED vars
  BY <1>2, TimerSame, RtcSame DEF ClockInv, SavedInv, vars
<1> QED BY <1>1, <1>2

\* What palm_hw.cpp keeps of the timer and the clock holds at every step.
THEOREM ClockAlwaysInv == Spec => []ClockInv
BY ClockInit, ClockNext, PTL DEF Spec

\* The registers and histories keep their types.
THEOREM TypeCorrect == Spec => []TypeOK
BY ClockAlwaysInv, ClockInvMeans, PTL

\* A pending timer interrupt shows its compare in the status.
THEOREM RequestAlwaysHasCause == Spec => []RequestHasCause
BY ClockAlwaysInv, ClockInvMeans, PTL

\* No tick is lost at a compare or a wrap of the counter.
THEOREM CounterAlwaysBalances == Spec => []CounterBalances
BY ClockAlwaysInv, ClockInvMeans, PTL

\* The ticks stand for the time that passed.
THEOREM TicksAlwaysMatchTime == Spec => []TicksMatchTime
BY ClockAlwaysInv, ClockInvMeans, PTL

\* The counter and the time agree.
THEOREM TimerAlwaysCountsTime == Spec => []TimerCountsTime
<1>1. CounterBalances /\ TicksMatchTime => TimerCountsTime
  BY DEF TimerCountsTime
<1> QED BY <1>1, CounterAlwaysBalances, TicksAlwaysMatchTime, PTL

\* The clock's request is there exactly while an event is wanted and stands.
THEOREM RtcRequestAlwaysCurrent == Spec => []RtcRequestCurrent
BY ClockAlwaysInv, ClockInvMeans, PTL

\* An alarm set in time rings in its second.
THEOREM AlarmAlwaysRings == Spec => []AlarmRings
BY ClockAlwaysInv, ClockInvMeans, PTL

\* No event comes twice in a second.
THEOREM EventsAlwaysOnce == Spec => []EventsOnce
BY ClockAlwaysInv, ClockInvMeans, PTL

\* A second brings what it should, once.
THEOREM SecondAlwaysBringsItsEvents == Spec => []SecondBringsItsEvents
<1>1. AlarmRings /\ EventsOnce => SecondBringsItsEvents
  BY DEF SecondBringsItsEvents
<1> QED BY <1>1, AlarmAlwaysRings, EventsAlwaysOnce, PTL
=============================================================================
