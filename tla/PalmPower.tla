----------------------------- MODULE PalmPower ------------------------------
(***************************************************************************)
(* The loop task of ESP32-PALM.ino: one pass serves the requests, follows  *)
(* the guest into and out of its sleep, reads the touch panel and gives    *)
(* the guest CPU time.  Saving presses the guest's power key, waits until  *)
(* it sleeps with quiet inputs, captures it and wakes it again; a boot     *)
(* from a snapshot wakes it the same way.                                  *)
(*                                                                         *)
(* One step is one call between two points where the guest runs or the     *)
(* panel is read; phase says which comes next.  A CPU slice lets a guest   *)
(* that runs do anything it can: sleep, wake, acknowledge requests or set  *)
(* its ports up.  The loops of the services count slices or milliseconds.  *)
(***************************************************************************)
EXTENDS PanelTouch

CONSTANTS
  ActiveMhz, SleepMhz,  \* ESP32_ACTIVE_CPU_MHZ, ESP32_PALM_SLEEP_CPU_MHZ
  BootSlices,           \* slices autoWakeRestoredPalm waits for the guest to wake
  PulseSlices,          \* PALM_STATE_SAVE_SLEEP_PULSE_SLICES and ..._WAKE_PULSE_SLICES
  SettleMs,             \* PALM_STATE_SAVE_SLEEP_SETTLE_MS
  TimeoutMs,            \* PALM_STATE_SAVE_SLEEP_TIMEOUT_MS
  WakeSettleMs,         \* the settle time of wakePalmAfterStateSave
  WakeAttempts          \* its attempts

LoopPhase  == {"head", "serve", "touch", "serveAgain", "run", "burst", "ran"}
SleepPhase == {"sleepPress", "sleepPulse", "sleepSettle", "slept", "capture"}
WakePhase  == {"wakeStart", "wakePress", "wakePulse", "wakeSettle", "saved"}
BootPhase  == {"bootStart", "bootPress", "bootPulse", "bootSettle"}
Phase      == LoopPhase \cup SleepPhase \cup WakePhase \cup BootPhase \cup {"otherFirmware"}

ASSUME PowerConstants ==
  /\ ActiveMhz # SleepMhz
  /\ BootSlices \in Nat /\ PulseSlices \in Nat
  /\ SettleMs \in Nat /\ TimeoutMs \in Nat /\ WakeSettleMs \in Nat
  /\ WakeAttempts \in Nat \ {0}

VARIABLES
  phase,         \* where the loop task is
  resume,        \* the phase a save returns to
  count,         \* slices of a pulse, or milliseconds of a settle loop
  quietFor,      \* millis() - quietStartMs
  attempt,       \* of wakePalmAfterStateSave
  mhz,           \* the clock of the processor
  wakeService,   \* palmLowPowerWakeServiceActive
  panelOn,       \* esp_lcd_panel_disp_on_off
  needsRestart,  \* rgbPanelNeedsRestart
  other          \* a request of another source: timer, clock, UART, cradle, ...

loopVars == <<resume, count, quietFor, attempt>>
modeVars == <<mhz, wakeService, panelOn, needsRestart>>
vars     == <<touchVars, finger, lowPower, asleep, keyVars, phase, loopVars, modeVars, other>>

-----------------------------------------------------------------------------
(* The guest. *)

\* palmHwGetInterruptLevel() > 0 or palmHwHasWakeSource().
Attention == other \/ hwPen \/ keyPending # "none"

\* executePalmCpuSlice, with the pen and key requests as they are then: a guest that sleeps
\* without a request is not run.
CpuSlice(pen, keys) ==
  \/ /\ ~asleep \/ other \/ pen \/ keys # "none"
     /\ asleep' \in BOOLEAN /\ other' \in BOOLEAN /\ keyPending' \in {"none", "edge", "level"}
  \/ /\ asleep /\ ~other /\ ~pen /\ keys = "none"
     /\ keyPending' = keys
     /\ other' \in BOOLEAN
     /\ UNCHANGED asleep

\* palmHwSetPowerButton.
SetPowerButton(down) ==
  LET keys == IF down THEN hwKeys \cup {"power"} ELSE hwKeys \ {"power"}
  IN /\ hwKeys' = keys
     /\ IF keys = hwKeys THEN UNCHANGED keyPending ELSE keyPending' \in KeyEffect

\* palmHwSleepSnapshotInputsQuiet.
InputsQuiet == ~hwPen /\ hwKeys = {} /\ keyPending = "none"

-----------------------------------------------------------------------------
(* The display and the clock. *)

\* setPanelOutputEnabled: the DMA is restarted before anything is shown.
SetPanelOutput(on) ==
  /\ panelOn' = on
  /\ needsRestart' = (needsRestart /\ ~on)

\* setPalmLowPowerMode(true).  Going dark takes longer than a touch is debounced.
EnterLowPower ==
  /\ lowPower' = TRUE /\ wakeService' = FALSE /\ mhz' = SleepMhz
  /\ panelOn' = FALSE /\ needsRestart' = FALSE
  /\ requireRelease' = (cached \/ bitsDown # "none")
  /\ pollDue' = TRUE
  /\ sinceTouch' = IF cached THEN DebounceMs ELSE 0

\* Mutant: the clock stays as the wake service left it.
LeaveLowPowerSlowly ==
  /\ lowPower' = FALSE /\ wakeService' = FALSE /\ UNCHANGED mhz
  /\ SetPanelOutput(TRUE)
  /\ requireRelease' = FALSE /\ pollDue' = TRUE

\* setPalmLowPowerMode(false), in low power.
LeaveLowPower ==
  /\ lowPower' = FALSE /\ wakeService' = FALSE /\ mhz' = ActiveMhz
  /\ SetPanelOutput(TRUE)
  /\ requireRelease' = FALSE
  /\ pollDue' = TRUE

\* updatePalmLowPowerMode.
UpdateLowPower ==
  IF ~asleep /\ lowPower THEN LeaveLowPower /\ UNCHANGED sinceTouch
  ELSE IF asleep /\ ~lowPower /\ ~wakeTouch THEN EnterLowPower
  ELSE UNCHANGED <<lowPower, modeVars, requireRelease, pollDue, sinceTouch>>

\* setPalmLowPowerWakeService.
SetWakeService(on) ==
  IF lowPower /\ on # wakeService
  THEN wakeService' = on /\ mhz' = IF on THEN ActiveMhz ELSE SleepMhz
  ELSE UNCHANGED <<wakeService, mhz>>
-----------------------------------------------------------------------------
(* The loop. *)

Go(p) == phase' = p

LoopHead ==
  /\ phase = "head" /\ Go("serve")
  /\ UpdateLowPower
  /\ UNCHANGED <<latch, bitsDown, holdVars, sinceSeen, cached, candidate, candidateAge,
                 nativePen, wakeTouch, finger, asleep, keyVars, loopVars, other>>

\* The services are called one after the other; with nothing requested they return.
ServeNone ==
  /\ phase \in {"serve", "serveAgain"} /\ requests = {}
  /\ Go(IF phase = "serve" THEN "touch" ELSE "run")
  /\ UpdateLowPower
  /\ UNCHANGED <<latch, bitsDown, holdVars, sinceSeen, cached, candidate, candidateAge,
                 nativePen, wakeTouch, finger, asleep, keyVars, loopVars, other>>

\* servicePalmTouchInput.
Touch ==
  /\ phase = "touch" /\ Go("serveAgain")
  /\ TouchPass
  /\ UNCHANGED <<lowPower, asleep, loopVars, modeVars, other>>

\* Lit, a frame may be due at once; dark, there is a request to serve or nothing to do.
Run ==
  /\ phase = "run" /\ ~lowPower
  /\ Go("burst") \/ Go("head")
  /\ UNCHANGED <<touchVars, finger, lowPower, asleep, keyVars, loopVars, modeVars, other>>

\* palmLowPowerNeedsWakeService.
NeedsWakeService(late) == ~requireRelease /\ (wakeTouch \/ Attention \/ late)

\* enterPalmDeepIdle: light sleep, if the chip allows it, stops the DMA of the panel.
DeepIdle == needsRestart' \in {needsRestart, TRUE}

\* palmHwCycle may find a timer or the clock due.
RunDark ==
  /\ phase = "run" /\ lowPower
  /\ \E late \in BOOLEAN :
       /\ other' = (other \/ late)
       /\ IF NeedsWakeService(late)
          THEN Go("burst") /\ SetWakeService(TRUE) /\ UNCHANGED needsRestart
          ELSE Go("head") /\ SetWakeService(FALSE) /\ DeepIdle
  /\ UNCHANGED <<touchVars, finger, lowPower, asleep, keyVars, loopVars, panelOn>>

\* runPalmCpuForBudget: any number of slices.
Burst ==
  /\ phase = "burst" /\ Go(IF lowPower THEN "ran" ELSE "head")
  /\ CpuSlice(hwPen, keyPending)
  /\ UNCHANGED <<touchVars, finger, lowPower, hwPen, hwKeys, loopVars, modeVars>>

RanDark ==
  /\ phase = "ran" /\ Go("head")
  /\ \/ ~asleep /\ LeaveLowPower
     \/ /\ asleep /\ ~wakeTouch /\ ~Attention
        /\ SetWakeService(FALSE) /\ DeepIdle
        /\ UNCHANGED <<lowPower, panelOn, requireRelease, pollDue>>
     \/ /\ asleep /\ (wakeTouch \/ Attention)
        /\ UNCHANGED <<lowPower, modeVars, requireRelease, pollDue>>
  /\ UNCHANGED <<latch, bitsDown, holdVars, sinceSeen, cached, sinceTouch, candidate,
                 candidateAge, nativePen, wakeTouch, finger, asleep, keyVars, loopVars, other>>

-----------------------------------------------------------------------------
(* The services. *)

\* What the three services do first.
BeginService(preserveResetHold) ==
  /\ ReleaseTouch(preserveResetHold)
  /\ IF lowPower THEN LeaveLowPower
     ELSE /\ mhz' = ActiveMhz /\ SetPanelOutput(TRUE)
          /\ UNCHANGED <<lowPower, wakeService, requireRelease, pollDue>>

Serving(request, earlier) ==
  /\ phase \in {"serve", "serveAgain"}
  /\ request \in requests /\ requests \cap earlier = {}
  /\ requests' = requests \ {request}

\* servicePalmStateSaveRequest up to the guest's sleep: requestPalmSleepForStateSave.
ServeSave ==
  /\ Serving("save", {})
  /\ BeginService(FALSE) /\ PrepareForSleepSnapshot
  /\ Go(IF asleep THEN "sleepSettle" ELSE "sleepPress")
  /\ resume' = phase /\ count' = 0 /\ quietFor' = 0
  /\ UNCHANGED <<finger, asleep, attempt, other>>

\* serviceFirmwareSwitchRequest: the chip restarts, or there is no other firmware.
ServeSwitch ==
  /\ Serving("switch", {"save"})
  /\ BeginService(FALSE) /\ PrepareForSleepSnapshot
  /\ Go("otherFirmware") \/ UNCHANGED phase
  /\ UNCHANGED <<finger, asleep, loopVars, other>>

\* servicePalmOsResetRequest: the guest starts again from palmHwInit.
ServeReset ==
  /\ Serving("reset", {"save", "switch"})
  /\ BeginService(TRUE)
  /\ asleep' = FALSE /\ other' = FALSE
  /\ hwPen' = FALSE /\ hwKeys' = {} /\ keyPending' = "none"
  /\ UNCHANGED <<finger, phase, loopVars>>

\* palmHwSetPowerButton(true): every pulse begins with it.
PressPower ==
  /\ \/ phase = "sleepPress" /\ Go("sleepPulse")
     \/ phase = "wakePress" /\ Go("wakePulse")
     \/ phase = "bootPress" /\ Go("bootPulse")
  /\ SetPowerButton(TRUE)
  /\ count' = 0
  /\ UNCHANGED <<touchVars, finger, lowPower, asleep, hwPen, resume, quietFor, attempt,
                 modeVars, other>>

PulseOver ==
  \/ phase = "sleepPulse" /\ (asleep \/ count = PulseSlices)
  \/ phase = "wakePulse" /\ (~asleep \/ count = PulseSlices)
  \/ phase = "bootPulse" /\ (~asleep \/ count = BootSlices)

Pulse ==
  /\ phase \in {"sleepPulse", "wakePulse", "bootPulse"} /\ ~PulseOver
  /\ CpuSlice(hwPen, keyPending)
  /\ count' = count + 1
  /\ UNCHANGED <<touchVars, finger, lowPower, hwPen, hwKeys, phase, resume, quietFor, attempt,
                 modeVars>>

AfterPulse ==
  \/ phase = "sleepPulse" /\ Go("sleepSettle")
  \/ phase = "wakePulse" /\ Go("wakeSettle")
  \/ phase = "bootPulse" /\ Go("bootSettle")

\* Mutant: a pulse that woke the guest ends with the key still down.
ReleasePowerAsleep ==
  /\ PulseOver /\ AfterPulse
  /\ IF asleep THEN SetPowerButton(FALSE) ELSE UNCHANGED <<hwKeys, keyPending>>
  /\ count' = 0 /\ quietFor' = 0
  /\ UNCHANGED <<touchVars, finger, lowPower, asleep, hwPen, resume, attempt, modeVars, other>>

ReleasePower ==
  /\ PulseOver /\ AfterPulse
  /\ SetPowerButton(FALSE)
  /\ count' = 0 /\ quietFor' = 0
  /\ UNCHANGED <<touchVars, finger, lowPower, asleep, hwPen, resume, attempt, modeVars, other>>

\* Mutant: an unquiet guest starts the timeout again.
SettleSleepAnew ==
  /\ phase = "sleepSettle" /\ count < TimeoutMs
  /\ hwPen' = FALSE /\ hwKeys' = {}
  /\ CpuSlice(FALSE, Quieted)
  /\ \E d \in Gaps :
       IF asleep' /\ keyPending' = "none"
       THEN count' = Older(count, d, TimeoutMs) /\ quietFor' = Older(quietFor, d, SettleMs)
       ELSE count' = 0 /\ quietFor' = 0
  /\ Go(IF asleep' /\ keyPending' = "none" /\ quietFor' = SettleMs THEN "slept"
        ELSE "sleepSettle")
  /\ UNCHANGED <<touchVars, finger, lowPower, resume, attempt, modeVars>>

\* waitPalmSleepSettledForStateSave: inputs are cleared again before every slice.
SettleSleep ==
  /\ phase = "sleepSettle" /\ count < TimeoutMs
  /\ hwPen' = FALSE /\ hwKeys' = {}
  /\ CpuSlice(FALSE, Quieted)
  /\ \E d \in Gaps :
       /\ count' = Older(count, d, TimeoutMs)
       /\ quietFor' = IF asleep' /\ keyPending' = "none" THEN Older(quietFor, d, SettleMs) ELSE 0
  /\ Go(IF asleep' /\ keyPending' = "none" /\ quietFor' = SettleMs THEN "slept"
        ELSE "sleepSettle")
  /\ UNCHANGED <<touchVars, finger, lowPower, resume, attempt, modeVars>>

\* Mutant: sleep is enough, whatever the inputs.
SettleTimeoutNoisy ==
  /\ phase = "sleepSettle" /\ count = TimeoutMs
  /\ Go(IF asleep THEN "slept" ELSE "saved")
  /\ UNCHANGED <<touchVars, finger, lowPower, asleep, keyVars, loopVars, modeVars, other>>

SettleTimeout ==
  /\ phase = "sleepSettle" /\ count = TimeoutMs
  /\ IF asleep /\ InputsQuiet
     THEN Go("slept") /\ UNCHANGED modeVars
     ELSE /\ Go(IF asleep THEN "wakeStart" ELSE "saved")
          /\ SetPanelOutput(FALSE) /\ UNCHANGED <<mhz, wakeService>>
  /\ UNCHANGED <<touchVars, finger, lowPower, asleep, keyVars, loopVars, other>>

Slept ==
  /\ phase = "slept" /\ Go("capture")
  /\ SetPanelOutput(FALSE)
  /\ PrepareForSleepSnapshot
  /\ UNCHANGED <<touchVars, finger, lowPower, asleep, loopVars, mhz, wakeService, other>>

\* savePalmStateToSd, which is the module SnapshotStore.
Capture ==
  /\ phase = "capture" /\ Go("wakeStart")
  /\ UNCHANGED <<touchVars, finger, lowPower, asleep, keyVars, loopVars, modeVars, other>>

\* wakePalmAfterStateSave; the guest sleeps whenever it is called.
WakeStart ==
  /\ phase = "wakeStart" /\ Go("wakePress")
  /\ PrepareForSleepSnapshot
  /\ attempt' = 0
  /\ UNCHANGED <<touchVars, finger, lowPower, asleep, resume, count, quietFor, modeVars, other>>

WakeSettled == count = WakeSettleMs \/ (count > 0 /\ asleep)

\* Mutant: the time is only counted while the guest sleeps.
SettleWakeAnew ==
  /\ phase = "wakeSettle" /\ ~WakeSettled
  /\ CpuSlice(hwPen, keyPending)
  /\ count' = IF asleep' THEN 1 ELSE 0
  /\ UNCHANGED <<touchVars, finger, lowPower, hwPen, hwKeys, phase, resume, quietFor, attempt,
                 modeVars>>

SettleWake ==
  /\ phase = "wakeSettle" /\ ~WakeSettled
  /\ CpuSlice(hwPen, keyPending)
  /\ \E d \in Gaps : count' = Older(count, d, WakeSettleMs)
  /\ UNCHANGED <<touchVars, finger, lowPower, hwPen, hwKeys, phase, resume, quietFor, attempt,
                 modeVars>>

NextAttempt ==
  /\ phase = "wakeSettle" /\ WakeSettled
  /\ attempt' = attempt + 1
  /\ Go(IF asleep /\ attempt' < WakeAttempts THEN "wakePress" ELSE "saved")
  /\ UNCHANGED <<touchVars, finger, lowPower, asleep, keyVars, resume, count, quietFor,
                 modeVars, other>>

FinishSave ==
  /\ phase = "saved" /\ Go(resume)
  /\ SetPanelOutput(~asleep)
  /\ UNCHANGED <<touchVars, finger, lowPower, asleep, keyVars, loopVars, mhz, wakeService,
                 other>>

\* autoWakeRestoredPalm, around its pulse.
BootStart ==
  /\ phase = "bootStart" /\ Go("bootPress")
  /\ PrepareForSleepSnapshot
  /\ UNCHANGED <<touchVars, finger, lowPower, asleep, loopVars, modeVars, other>>

BootSettle ==
  /\ phase = "bootSettle" /\ Go("head")
  /\ CpuSlice(hwPen, keyPending)
  /\ UNCHANGED <<touchVars, finger, lowPower, hwPen, hwKeys, loopVars, modeVars>>

\* The other firmware is another program.
Gone == phase = "otherFirmware" /\ UNCHANGED vars

-----------------------------------------------------------------------------
\* setup(): a cold boot, or a restored guest, which was asleep with quiet keys when captured.
Init ==
  /\ latch = "none" /\ bitsDown = "none"
  /\ saveHold = {} /\ saveAge = 0 /\ resetHold = {} /\ resetAge = 0 /\ requests = {}
  /\ sinceSeen = 0 /\ cached = FALSE /\ sinceTouch = 0 /\ candidate = FALSE /\ candidateAge = 0
  /\ pollDue = TRUE /\ nativePen = FALSE /\ wakeTouch = FALSE /\ requireRelease = FALSE
  /\ finger = NoFinger
  /\ lowPower = FALSE /\ wakeService = FALSE /\ mhz = ActiveMhz
  /\ panelOn = TRUE /\ needsRestart = FALSE
  /\ hwPen = FALSE /\ hwKeys = {} /\ keyPending = "none"
  /\ asleep \in BOOLEAN /\ phase = IF asleep THEN "bootStart" ELSE "head"
  /\ other \in (IF asleep THEN BOOLEAN ELSE {FALSE})
  /\ resume = "serve" /\ count = 0 /\ quietFor = 0 /\ attempt = 0

LoopStep    == LoopHead \/ ServeNone \/ Touch \/ Run \/ RunDark \/ Burst \/ RanDark
ServiceStep == ServeSave \/ ServeSwitch \/ ServeReset
PulseStep   == PressPower \/ Pulse \/ ReleasePower
SaveStep    == SettleSleep \/ SettleTimeout \/ Slept \/ Capture \/ WakeStart \/ SettleWake
                 \/ NextAttempt \/ FinishSave
BootStep    == BootStart \/ BootSettle

Next == LoopStep \/ ServiceStep \/ PulseStep \/ SaveStep \/ BootStep \/ Gone

\* The loop task goes on, and a finger does not stay on the panel for ever.
Lifted == Touch /\ \E d \in Gaps : PassLifted(d)

Spec == Init /\ [][Next]_vars /\ WF_vars(Next) /\ SF_vars(Lifted)

-----------------------------------------------------------------------------
(* Properties. *)

\* The type of every variable.
TypeOK ==
  /\ TouchTypeOK
  /\ lowPower \in BOOLEAN /\ asleep \in BOOLEAN
  /\ hwPen \in BOOLEAN /\ hwKeys \subseteq HwButton /\ keyPending \in {"none", "edge", "level"}
  /\ phase \in Phase /\ resume \in {"serve", "serveAgain"}
  /\ count \in Nat /\ quietFor \in 0 .. SettleMs /\ attempt \in 0 .. WakeAttempts
  /\ mhz \in {ActiveMhz, SleepMhz} /\ wakeService \in BOOLEAN
  /\ panelOn \in BOOLEAN /\ needsRestart \in BOOLEAN /\ other \in BOOLEAN

\* Whenever the loop is between two services, the pen and the keys the guest sees are exactly
\* those of the touch the panel state holds: no service, sleep or wake leaves a key stuck.
KeysFollowFinger ==
  phase \in LoopPhase =>
    /\ hwPen = nativePen
    /\ hwKeys = KeysOf(bitsDown) \cup (IF wakeTouch THEN {"power"} ELSE {})

\* The clock is slow only in low power without a wake service; services run out of low power,
\* and no burst of CPU slices runs at the slow clock.
GuestRunsAtFullSpeed ==
  /\ mhz = IF lowPower /\ ~wakeService THEN SleepMhz ELSE ActiveMhz
  /\ phase \notin LoopPhase => ~lowPower
  /\ phase = "burst" => ~lowPower \/ wakeService

\* Nothing is shown on a panel whose DMA has yet to be restarted, nor in low power; at the
\* touch pass and at the burst decision the panel is lit just when the loop is out of low power,
\* and low power means a sleeping guest.
PanelFollowsGuest ==
  /\ panelOn => ~needsRestart /\ ~lowPower
  /\ phase \in {"touch", "run"} => (panelOn <=> ~lowPower) /\ (lowPower => asleep)

\* Clock and panel are in step with the guest, through every sleep, wake, save and reset
\* (setPalmLowPowerMode, setPalmLowPowerWakeService).
PowerFollowsGuest == GuestRunsAtFullSpeed /\ PanelFollowsGuest

\* A snapshot is captured only of a sleeping guest with quiet inputs, and no touch of the panel
\* state is left that could move a key before the capture.
CaptureIsQuiet ==
  phase = "capture" => /\ asleep /\ InputsQuiet
                       /\ ~nativePen /\ ~wakeTouch /\ bitsDown = "none"

\* A finger that woke the guest is never its pen, even after the guest is awake, until it lifts.
WakingFingerNeverTaps == finger.woke => ~hwPen

\* The guard for a touch left from before the sleep is up only in low power and never together
\* with a waking touch, which it would keep from being served.
WakeTouchIsServed == requireRelease => lowPower /\ ~wakeTouch

\* A request needs a finger that has stayed on its button for the whole hold time, gaps up to
\* the grace time apart; saving and switching are asked for once per touch of the button.
HoldsAreEarned ==
  [][/\ "save" \in requests' \ requests =>
          finger'.place = "save" /\ finger'.time >= SaveHoldMs /\ "save" \notin finger.asked
     /\ "reset" \in requests' \ requests =>
          finger'.place = "reset" /\ finger'.time >= ResetHoldMs
     /\ "switch" \in requests' \ requests =>
          /\ finger'.place = "reset" /\ finger'.time >= SwitchHoldMs
          /\ "switch" \notin finger.asked]_vars

\* A save that has begun ends, whatever the guest does, and the loop reads the panel again.
SaveEnds == phase \in SleepPhase ~> phase = "touch"

\* A guest that is awake while the panel is dark gets it lit, or sleeps again.
AwakeIsShown == (~asleep /\ ~panelOn) ~> (asleep \/ panelOn)

\* A request that comes in low power is served: the guest runs at full speed or the request has
\* gone, once the finger of before the sleep has lifted.
RequestIsServed == (lowPower /\ Attention) ~> (~lowPower \/ wakeService \/ ~Attention)
=============================================================================
