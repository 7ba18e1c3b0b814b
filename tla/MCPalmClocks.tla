---------------------------- MODULE MCPalmClocks ----------------------------
(* The values PalmClocks is checked with. *)
EXTENDS PalmClocks

\* Awake, the cycles of the "fast" setting are the ticks; those of "slow" are divided.
MCAwakeRate == [ck \in Clock |-> [num |-> 1, den |-> IF ck = "fast" THEN 1 ELSE 3]]

\* Asleep, "fast" has more ticks than microseconds, and not a whole number of them.
MCSleepRate == [ck \in Clock |-> IF ck = "fast" THEN [num |-> 3, den |-> 2]
                                                 ELSE [num |-> 1, den |-> 2]]

MCEventAt == [e \in RtcEvent |-> IF e = "MINUTE" THEN {0, 2} ELSE {}]

MCMaskValues == {{}, {"ALARM"}, {"MINUTE", "ALARM"}}

TimerAtRest ==
  /\ clock = Stopped /\ control = {} /\ compare = CounterSize - 1 /\ seen = {} /\ asleep = "no"
  /\ count = Opened(0, {}, 0, 0, FALSE)

ClockAtRest ==
  second = 0 /\ shown = 0 /\ alarm = 0 /\ rtcControl = {} /\ rtcMask = {} /\ rtcStatus = {}

\* The two devices share no register: one of them moves, the other stays at its reset.
OneDeviceMoves == TimerAtRest \/ ClockAtRest

\* Bound: the snapshots that are kept, while the device they are about moves.  Of the timer,
\* those of a slow count one short of its compare; of the clock, those with its alarm wanted
\* at the last second of the day.
FewSnapshots ==
  saved.taken = "yes" =>
    \/ /\ saved.clock = "slow" /\ saved.control = {"INT_ENABLE"} /\ saved.compare = 2
       /\ saved.counter = 1 /\ saved.seen = {} /\ saved.asleep = "no" /\ saved.cycleGap = 1
       /\ ClockAtRest
    \/ /\ saved.rtcMask = {"ALARM"} /\ saved.alarm = Day - 1 /\ saved.rtcControl = {"ENABLE"}
       /\ saved.shown > 0
       /\ TimerAtRest
=============================================================================
