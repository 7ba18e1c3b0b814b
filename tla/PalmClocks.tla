----------------------------- MODULE PalmClocks -----------------------------
(***************************************************************************)
(* The timer and the real-time clock of palm_hw.cpp.                       *)
(*                                                                         *)
(* Awake, the timer counts emulated cycles, which palmHwAdvanceCycles      *)
(* advances at the end of a CPU slice; asleep it counts microseconds of    *)
(* the host.  Each update turns the time since the last one into whole     *)
(* ticks and keeps the rest, so only the distances from the last update    *)
(* are kept here.  The clock reads the host's second when it is updated.   *)
(* All of it runs in the loop task; host time passes between any two       *)
(* calls.  The guest writes words, in one step; its reads are one step for *)
(* each byte, since the code updates the device for each and host time may *)
(* pass between two.                                                       *)
(***************************************************************************)
EXTENDS Integers

CONSTANTS
  Clock,           \* settings of clock source and prescaler that count
  AwakeRate,       \* activeTimerScale: ticks per cycle, [Clock -> [num, den]]
  SleepRate,       \* sleepingTimerScale: ticks per microsecond
  CounterSize,     \* 2^16
  CompareValues,   \* values the guest writes to $604
  Day,             \* seconds of a day
  RtcEvent,        \* second, minute, hour, day and alarm interrupts
  EventAt,         \* seconds of the day at which an event other than ALARM is due
  MaskValues,      \* values the guest writes to $B10
  MaxPassed,       \* bound: cycles or microseconds since the timer was last set
  MaxSecond        \* bound: the host's second

Rate == [num : Nat \ {0}, den : Nat \ {0}]
None == -1
Stopped == "stopped"

ASSUME ClockConstants ==
  /\ AwakeRate \in [Clock -> Rate] /\ SleepRate \in [Clock -> Rate]
  /\ Stopped \notin Clock
  /\ CounterSize \in Nat \ {0} /\ CompareValues \subseteq 0 .. CounterSize - 1
  /\ Day \in Nat \ {0}
  /\ "ALARM" \in RtcEvent /\ EventAt \in [RtcEvent -> SUBSET (0 .. Day - 1)]
  /\ MaskValues \subseteq SUBSET RtcEvent
  /\ MaxPassed \in Nat /\ MaxSecond \in Nat

VARIABLES
  clock,          \* control $600 and prescaler $602: a member of Clock, or Stopped
  control,        \* of $600: FREE_RUN, and INT_ENABLE for TMR_CONTROL_INT_ENABLE
  compare,        \* $604
  count,          \* $608, the flags a compare raises, the time not yet counted, the history
  seen,           \* the COMPARE flag in lastTimerStatus
  asleep,         \* palmHwIsAsleep: "yes" or "no"
  second,         \* rtcHostSeconds
  shown,          \* $B00, as the second of the day
  lastSecond,     \* lastRtcSecond
  alarm,          \* $B04, as the second of the day
  rtcControl,     \* of $B0C: ENABLE for RTC_CONTROL_ENABLE
  rtcMask,        \* $B10
  rtcStatus,      \* $B0E
  rtcPending,     \* INT_LO_RTC in $312
  watch,          \* history: what this second should bring and has brought
  saved           \* what the last snapshot holds of the clocks, or NoSnapshot

setup == <<clock, control, compare>>
timer == <<setup, count, seen, asleep>>
rtcSetup == <<alarm, rtcControl, rtcMask>>
rtc   == <<second, shown, lastSecond, rtcSetup, rtcStatus, rtcPending, watch>>
vars  == <<timer, rtc, saved>>

NoSnapshot == [taken |-> "no"]

-----------------------------------------------------------------------------
(* The timer. *)

\* COMPARE stands for TMR_STATUS_COMPARE in $60A, TIMER for INT_LO_TIMER in $312.
Flag == {"COMPARE", "TIMER"}

TimerControl == {"FREE_RUN", "INT_ENABLE"}
Asleep == asleep = "yes"

Scale  == IF Asleep THEN SleepRate[clock] ELSE AwakeRate[clock]
Gap(c) == IF Asleep THEN c.microGap ELSE c.cycleGap

\* The timer at a given count, with a fresh page of the history: where the count starts,
\* the time that passed, the ticks and the compares counted, and the updates that did it.
Opened(counter, raised, cycles, micros, sleeping) ==
  [counter |-> counter, raised |-> raised, cycleGap |-> cycles, microGap |-> micros,
   base |-> counter, passed |-> IF sleeping THEN micros ELSE cycles,
   ticks |-> 0, fires |-> 0, updates |-> 0]

\* The count after a compare, when the timer does not run free.
AfterCompare(updated) == updated - compare

\* Mutant: the whole time since the last update counts as used up.
ConsumedAll(gap, ticks) == gap

\* The time that so many ticks stand for.
Consumed(gap, ticks) ==
  LET whole == (ticks * Scale.den) \div Scale.num
  IN IF whole = 0 THEN gap ELSE whole

\* The flags an update raises.
Raised(hit) ==
  IF hit THEN {"COMPARE"} \cup (IF "INT_ENABLE" \in control THEN {"TIMER"} ELSE {}) ELSE {}

\* applyTimerTicks for at least one tick, after the time they stand for is taken off.
\* A count past several compares takes off one of them: the others are left to later ticks.
Counted(c, ticks, cycles, micros) ==
  LET updated == c.counter + ticks
      hit     == compare # 0 /\ updated >= compare
  IN [counter |-> (IF hit /\ "FREE_RUN" \notin control THEN AfterCompare(updated) ELSE updated) % CounterSize,
      raised |-> c.raised \cup Raised(hit),
      cycleGap |-> cycles, microGap |-> micros,
      base |-> c.base, passed |-> c.passed,
      ticks |-> c.ticks + ticks,
      fires |-> c.fires + (IF hit THEN 1 ELSE 0),
      updates |-> c.updates + 1]

\* updateTimer.  A timer that does not count forgets the time that passed; less than a
\* tick is kept for the next update.
Updated(c) ==
  IF clock = Stopped THEN Opened(c.counter, c.raised, 0, 0, Asleep)
  ELSE LET ticks == (Gap(c) * Scale.num) \div Scale.den
           used  == Consumed(Gap(c), ticks)
       IN IF ticks = 0
          THEN [c EXCEPT !.microGap = IF Asleep THEN @ ELSE 0]
          ELSE Counted(c, ticks,
                       IF Asleep THEN 0 ELSE c.cycleGap - used,
                       IF Asleep THEN c.microGap - used ELSE 0)

-----------------------------------------------------------------------------
(* The real-time clock. *)

RtcOn == "ENABLE" \in rtcControl

RtcRequested(on, mask, status) == on /\ status \cap mask # {}

\* Mutant: the events are those of the second the register showed before.
DueStale == {e \in rtcMask : \/ shown \in EventAt[e]
                             \/ e = "ALARM" /\ shown = alarm}

\* The events the guest asked for that are due at the host's second.
Due == {e \in rtcMask : \/ (second % Day) \in EventAt[e]
                        \/ e = "ALARM" /\ second % Day = alarm}

\* Only a new second brings events, and not the first after the clock was set.
Ringing == second # lastSecond /\ lastSecond # None /\ RtcOn

\* updateRtcTime
UpdateRtc ==
  LET rung == IF Ringing THEN Due ELSE {}
  IN /\ shown' = second % Day
     /\ lastSecond' = second
     /\ rtcStatus' = rtcStatus \cup rung
     /\ rtcPending' = IF Ringing THEN RtcRequested(RtcOn, rtcMask, rtcStatus \cup rung)
                                 ELSE rtcPending
     /\ watch' = [watch EXCEPT !.heard = "yes", !.rang = @ \cup rung,
                               !.again = @ \cup (watch.rang \cap rung)]
     /\ UNCHANGED <<second, rtcSetup>>

\* A watch on a second of which nothing is expected.
Unarmed == [armed |-> "no", heard |-> "no", rang |-> {}, again |-> {}]

-----------------------------------------------------------------------------
(* The host: its time passes, and the loop task runs slices of the CPU. *)

\* Time that passes in the timer's present unit is time not yet counted.
Later(c, cycles, micros) ==
  [c EXCEPT !.cycleGap = @ + cycles, !.microGap = @ + micros,
            !.passed = @ + (IF Asleep THEN micros ELSE cycles)]

HostMicro ==
  /\ count.microGap < MaxPassed
  /\ Asleep => count.passed < MaxPassed
  /\ count' = Later(count, 0, 1)
  /\ UNCHANGED <<setup, seen, asleep, rtc, saved>>

\* The second that starts is watched: its alarm must ring if it is asked for by now.
HostSecond ==
  /\ second < MaxSecond
  /\ second' = second + 1
  /\ watch' = [Unarmed EXCEPT !.armed =
                IF /\ RtcOn /\ "ALARM" \in rtcMask /\ lastSecond # None
                   /\ (second + 1) % Day = alarm
                THEN "yes" ELSE "no"]
  /\ UNCHANGED <<timer, shown, lastSecond, rtcSetup, rtcStatus, rtcPending, saved>>

\* The end of executePalmCpuSlice: palmHwAdvanceCycles, held back to the pace of the host
\* when awake, and the palmHwCycle that follows it.
EndSlice(cycles) ==
  /\ count.cycleGap + cycles <= MaxPassed
  /\ ~Asleep => count.passed + cycles <= MaxPassed
  /\ count' = Updated(Later(count, cycles, 0))
  /\ UpdateRtc
  /\ UNCHANGED <<setup, seen, asleep, saved>>

\* palmHwCycle
Cycle ==
  /\ count' = Updated(count)
  /\ UpdateRtc
  /\ UNCHANGED <<setup, seen, asleep, saved>>

-----------------------------------------------------------------------------
(* The guest's accesses to the timer. *)

\* A write to $600 .. $609 starts the timer's distances afresh.
Rebased(counter, raised) == Opened(counter, raised, 0, 0, Asleep)

CpuWriteControl(ck, ctl) ==
  /\ clock' = ck /\ control' = ctl
  /\ count' = Rebased(count.counter, count.raised)
  /\ UNCHANGED <<compare, seen, asleep, rtc, saved>>

CpuWriteCompare(v) ==
  /\ compare' = v
  /\ count' = Rebased(count.counter, count.raised)
  /\ UNCHANGED <<clock, control, seen, asleep, rtc, saved>>

CpuWriteCounter(v) ==
  /\ count' = Rebased(v, count.raised)
  /\ UNCHANGED <<setup, seen, asleep, rtc, saved>>

\* A byte of $608
CpuReadCounter ==
  /\ count' = Updated(count)
  /\ UNCHANGED <<setup, seen, asleep, rtc, saved>>

\* A read of a byte of $60A updates the timer twice.
CpuReadStatus ==
  /\ count' = Updated(Updated(count))
  /\ seen' = seen \cup (count'.raised \cap {"COMPARE"})
  /\ UNCHANGED <<setup, asleep, rtc, saved>>

\* Whether the timer's interrupt outlives a write of the status: the write of the high
\* byte already takes it back unless a compare stands that the guest has not read.
RequestKept(b) ==
  IF b /\ "COMPARE" \in count.raised /\ "COMPARE" \notin seen
  THEN count.raised \cap {"TIMER"} ELSE {}

\* The register takes the value first, so what lastTimerStatus should protect is gone.
CpuWriteStatus(b) ==
  /\ count' = [count EXCEPT !.raised = (IF b THEN {"COMPARE"} ELSE {}) \cup RequestKept(b)]
  /\ seen' = {}
  /\ UNCHANGED <<setup, asleep, rtc, saved>>

\* A write of the PLL control puts the timer on the other unit of time.
SetAsleep(s) ==
  /\ asleep' = s
  /\ count' = Opened(count.counter, count.raised, count.cycleGap, count.microGap, s = "yes")
  /\ UNCHANGED <<setup, seen, rtc, saved>>
-----------------------------------------------------------------------------
(* The guest's accesses to the real-time clock. *)

\* A read of a byte of $B00; it brings the events of a new second as palmHwCycle does.
ReadRtc == UpdateRtc /\ UNCHANGED <<timer, saved>>

\* seedRtcFromTimeRegister: the host's clock is set to the time of day shown, its day is lost.
CpuWriteTime(t) ==
  /\ shown' = t /\ second' = t /\ lastSecond' = None
  /\ watch' = Unarmed
  /\ UNCHANGED <<timer, rtcSetup, rtcStatus, rtcPending, saved>>

CpuWriteAlarm(t) ==
  /\ alarm' = t
  /\ watch' = [watch EXCEPT !.armed = "no"]
  /\ UNCHANGED <<timer, second, shown, lastSecond, rtcControl, rtcMask, rtcStatus, rtcPending, saved>>

\* Mutant: the request is left as it was.
RequestLeft(ctl, mask, status) == rtcPending

\* updateRtcInterrupts after a write
RequestRenewed(ctl, mask, status) == RtcRequested("ENABLE" \in ctl, mask, status)

CpuWriteRtcControl(ctl) ==
  /\ rtcControl' = ctl
  /\ rtcPending' = RequestRenewed(ctl, rtcMask, rtcStatus)
  /\ watch' = [watch EXCEPT !.armed = "no"]
  /\ UNCHANGED <<timer, second, shown, lastSecond, alarm, rtcMask, rtcStatus, saved>>

CpuWriteRtcMask(mask) ==
  /\ rtcMask' = mask
  /\ rtcPending' = RequestRenewed(rtcControl, mask, rtcStatus)
  /\ watch' = [watch EXCEPT !.armed = "no"]
  /\ UNCHANGED <<timer, second, shown, lastSecond, alarm, rtcControl, rtcStatus, saved>>

\* Writing ones to $B0E takes events back.
CpuWriteRtcStatus(taken) ==
  /\ rtcStatus' = rtcStatus \ taken
  /\ rtcPending' = RequestRenewed(rtcControl, rtcMask, rtcStatus')
  /\ UNCHANGED <<timer, second, shown, lastSecond, rtcSetup, watch, saved>>

-----------------------------------------------------------------------------
(* Reset and snapshots. *)

\* palmHwInit, when the emulator starts and when Palm OS is reset; the snapshot stays.
Reset ==
  /\ clock' = Stopped /\ control' = {} /\ compare' = CounterSize - 1
  /\ count' = Opened(0, {}, 0, 0, FALSE)
  /\ seen' = {} /\ asleep' = "no"
  /\ second' = 0 /\ shown' = 0 /\ lastSecond' = None /\ alarm' = 0
  /\ rtcControl' = {} /\ rtcMask' = {} /\ rtcStatus' = {} /\ rtcPending' = FALSE
  /\ watch' = Unarmed
  /\ UNCHANGED saved

\* palmHwSaveState: the clocks are brought up to date, then recorded.
SaveState ==
  /\ count' = Updated(count)
  /\ UpdateRtc
  /\ saved' = [taken |-> "yes",
               clock |-> clock, control |-> control, compare |-> compare,
               counter |-> count'.counter, raised |-> count'.raised,
               cycleGap |-> count'.cycleGap, seen |-> seen, asleep |-> asleep,
               shown |-> shown', alarm |-> alarm, rtcControl |-> rtcControl,
               rtcMask |-> rtcMask, rtcStatus |-> rtcStatus']
  /\ UNCHANGED <<setup, seen, asleep>>

\* palmHwLoadState.  The host's clock continues from the time of day saved; the cycles not
\* yet counted are dropped when the baseline saved was cycle 0.
LoadState ==
  /\ saved.taken = "yes"
  /\ clock' = saved.clock /\ control' = saved.control /\ compare' = saved.compare
  /\ \E gap \in {saved.cycleGap, 0} :
       count' = Opened(saved.counter, saved.raised, gap, 0, saved.asleep = "yes")
  /\ seen' = saved.seen /\ asleep' = saved.asleep
  /\ shown' = saved.shown /\ second' = saved.shown /\ lastSecond' = None
  /\ alarm' = saved.alarm /\ rtcControl' = saved.rtcControl
  /\ rtcMask' = saved.rtcMask /\ rtcStatus' = saved.rtcStatus
  /\ rtcPending' = RequestRenewed(saved.rtcControl, saved.rtcMask, saved.rtcStatus)
  /\ watch' = Unarmed
  /\ UNCHANGED saved

-----------------------------------------------------------------------------
Init ==
  /\ clock = Stopped /\ control = {} /\ compare = CounterSize - 1
  /\ count = Opened(0, {}, 0, 0, FALSE)
  /\ seen = {} /\ asleep = "no"
  /\ second = 0 /\ shown = 0 /\ lastSecond = None /\ alarm = 0
  /\ rtcControl = {} /\ rtcMask = {} /\ rtcStatus = {} /\ rtcPending = FALSE
  /\ watch = Unarmed
  /\ saved = NoSnapshot

Next ==
  \/ HostMicro \/ HostSecond \/ Cycle
  \/ \E cycles \in 1 .. MaxPassed : EndSlice(cycles)
  \/ \E ck \in Clock \cup {Stopped}, ctl \in SUBSET TimerControl : CpuWriteControl(ck, ctl)
  \/ \E v \in CompareValues : CpuWriteCompare(v)
  \/ \E v \in 0 .. CounterSize - 1 : CpuWriteCounter(v)
  \/ CpuReadCounter \/ CpuReadStatus
  \/ \E b \in BOOLEAN : CpuWriteStatus(b)
  \/ \E s \in {"yes", "no"} : SetAsleep(s)
  \/ ReadRtc
  \/ \E t \in 0 .. Day - 1 : CpuWriteTime(t) \/ CpuWriteAlarm(t)
  \/ \E ctl \in SUBSET {"ENABLE"} : CpuWriteRtcControl(ctl)
  \/ \E mask \in MaskValues : CpuWriteRtcMask(mask)
  \/ \E taken \in SUBSET RtcEvent : CpuWriteRtcStatus(taken)
  \/ Reset \/ SaveState \/ LoadState

Spec == Init /\ [][Next]_vars

-----------------------------------------------------------------------------
(* Properties. *)

Count ==
  [counter : 0 .. CounterSize - 1, raised : SUBSET Flag, cycleGap : Nat, microGap : Nat,
   base : 0 .. CounterSize - 1, passed : Nat, ticks : Nat, fires : Nat, updates : Nat]

Watch == [armed : {"yes", "no"}, heard : {"yes", "no"}, rang : SUBSET RtcEvent,
          again : SUBSET RtcEvent]

Snapshot ==
  [taken : {"yes"}, clock : Clock \cup {Stopped}, control : SUBSET TimerControl,
   compare : 0 .. CounterSize - 1, counter : 0 .. CounterSize - 1, raised : SUBSET Flag,
   cycleGap : Nat, seen : SUBSET {"COMPARE"}, asleep : {"yes", "no"},
   shown : 0 .. Day - 1, alarm : 0 .. Day - 1, rtcControl : SUBSET {"ENABLE"},
   rtcMask : SUBSET RtcEvent, rtcStatus : SUBSET RtcEvent]

\* Counter and compare fit their registers, no time is owed backwards, and the
\* time of day shown is one.
TypeOK ==
  /\ clock \in Clock \cup {Stopped} /\ control \in SUBSET TimerControl
  /\ compare \in 0 .. CounterSize - 1
  /\ count \in Count
  /\ seen \in SUBSET {"COMPARE"} /\ asleep \in {"yes", "no"}
  /\ second \in Nat /\ shown \in 0 .. Day - 1 /\ lastSecond \in Nat \cup {None}
  /\ alarm \in 0 .. Day - 1
  /\ rtcControl \in SUBSET {"ENABLE"}
  /\ rtcMask \in SUBSET RtcEvent /\ rtcStatus \in SUBSET RtcEvent
  /\ rtcPending \in BOOLEAN
  /\ watch \in Watch
  /\ saved \in {NoSnapshot} \cup Snapshot

\* The timer's interrupt is pending only while the status register shows the compare that
\* caused it: the handler of the guest reads the status to find out who called it, and no
\* acknowledgement, reset or restored snapshot leaves it a request without a cause.
RequestHasCause == "TIMER" \in count.raised => "COMPARE" \in count.raised

Balanced(c, ctl, cmp) ==
  c.counter = (c.base + c.ticks
               - (IF "FREE_RUN" \in ctl THEN 0 ELSE c.fires * cmp)) % CounterSize

\* No tick is lost at a compare or at the end of the counter's width: however the ticks were
\* split over updates, the counter is where it started, plus the ticks, less one compare
\* value for each compare that restarted it.
CounterBalances == clock # Stopped => Balanced(count, control, compare)

OnTime(c, rate, gap) ==
  LET owed == c.ticks * rate.den - (c.passed - gap) * rate.num
  IN IF rate.num = 1 THEN owed = 0
     ELSE owed \in -(c.updates * rate.den) .. c.updates * rate.num

\* The ticks counted stand for the time that passed, however irregular the updates were.
\* With a rate of one tick per den units nothing is lost or invented; with a larger one,
\* as asleep, each update may be off by no more than num parts of a tick.
TicksMatchTime == clock # Stopped => OnTime(count, Scale, Gap(count))

\* Both: the counter is neither ahead of the time nor behind it, across compares, wraps and
\* updates at any moment (updateTimer, applyTimerTicks).
TimerCountsTime == CounterBalances /\ TicksMatchTime

\* The clock asks for an interrupt exactly while it is on and an event stands that the guest
\* wants to hear of: no write of control, mask or status and no snapshot leaves the request
\* behind.
RtcRequestCurrent == rtcPending <=> RtcRequested(RtcOn, rtcMask, rtcStatus)

\* An alarm that is set before its second starts rings in that second, whoever looks at the
\* clock first, the guest or palmHwCycle.
AlarmRings == watch.armed = "yes" /\ watch.heard = "yes" => "ALARM" \in watch.rang

\* No event comes twice in a second, however often the clock is looked at in it.
EventsOnce == watch.again = {}

\* Both: what a second should bring comes, and comes once, although two functions use up the
\* new second (updateRtcTime from a register read and from palmHwCycle).
SecondBringsItsEvents == AlarmRings /\ EventsOnce
=============================================================================
