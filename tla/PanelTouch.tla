----------------------------- MODULE PanelTouch -----------------------------
(***************************************************************************)
(* The touch panel of ESP32-PALM.ino: what one pass of the loop task makes *)
(* of the GT911's reading.  A touch that starts on a side button stays     *)
(* with that button until it ends; one that starts on the screen is the    *)
(* pen, or, while the guest sleeps, its power key.  Save and reset buttons *)
(* must be held; a touch already there when the guest falls asleep has to  *)
(* end before anything wakes it.                                           *)
(*                                                                         *)
(* Positions are the place touched and whether it moved; times are ages,   *)
(* kept only as long and as far as something looks at them.  The flags     *)
(* touchInputDisabled and palmOsResetInProgress are up only inside the     *)
(* services of PalmPower, which read no touch, so their branches here are  *)
(* never taken; lastTouchDown equals cachedTouchDown after every pass, and *)
(* the latched hold is always the latched button itself.                   *)
(***************************************************************************)
EXTENDS Naturals

CONSTANTS
  HwButton,     \* side buttons wired to keys of the guest, the power button among them
  Gaps,         \* times between two passes
  SaveHoldMs,   \* PALM_STATE_SAVE_HOLD_MS
  ResetHoldMs,  \* PALM_OS_RESET_HOLD_MS
  SwitchHoldMs, \* PALM_FIRMWARE_SWITCH_HOLD_MS
  GraceMs,      \* PALM_BUTTON_HOLD_RELEASE_GRACE_MS
  DebounceMs,   \* PALM_TOUCH_RELEASE_DEBOUNCE_MS
  StableMs      \* TOUCH_STABLE_DOWN_MS

HoldButton == {"save", "reset"}      \* VIRTUAL_BUTTON_HOLD_MASK
Button     == HwButton \cup HoldButton
Place      == Button \cup {"screen"}

ASSUME TouchConstants ==
  /\ "power" \in HwButton /\ HwButton \cap (HoldButton \cup {"screen", "none"}) = {}
  /\ Gaps \subseteq Nat \ {0}
  /\ SaveHoldMs \in Nat /\ ResetHoldMs \in Nat /\ SwitchHoldMs \in Nat
  /\ GraceMs \in Nat /\ DebounceMs \in Nat /\ StableMs \in Nat
  /\ SaveHoldMs <= SwitchHoldMs /\ ResetHoldMs <= SwitchHoldMs

VARIABLES
  latch,           \* virtualTouchBits, "screen" for a touch without one, "none" for no touch
  bitsDown,        \* virtualButtonBitsDown
  saveHold,        \* saveButtonHoldActive; saveButtonHoldTriggered and ...ReleaseRequired
  saveAge,         \* now - saveButtonHoldStartMs
  resetHold,       \* resetButtonHoldActive, resetButtonHoldTriggered; ...FirmwareSwitchTriggered
                   \* and resetButtonReleaseRequired
  resetAge,        \* now - resetButtonHoldStartMs
  sinceSeen,       \* now - holdButtonLastSeenMs
  cached,          \* cachedTouchDown
  sinceTouch,      \* now - lastControllerTouchMs
  candidate,       \* touchCandidateActive
  candidateAge,    \* now - touchCandidateMs
  pollDue,         \* lastTouchPollMs = 0
  nativePen,       \* nativePenDown
  wakeTouch,       \* wakeTouchActive
  requireRelease,  \* palmLowPowerRequireTouchRelease
  requests,        \* palmStateSaveRequested, palmOsResetRequested, firmwareSwitchRequested
  finger,          \* history: where the panel reported the finger, how long, what it asked for
  lowPower,        \* palmLowPowerModeActive
  asleep,          \* palmHwIsAsleep
  hwPen,           \* penDown, with its pending request
  hwKeys,          \* buttonBitsDown
  keyPending       \* the key requests: "none", "edge" or "level", one that no quiet keypad clears

holdVars  == <<saveHold, saveAge, resetHold, resetAge, requests>>
touchVars == <<latch, bitsDown, holdVars, sinceSeen, cached, sinceTouch, candidate,
               candidateAge, pollDue, nativePen, wakeTouch, requireRelease>>
keyVars   == <<hwPen, hwKeys, keyPending>>

Older(age, d, cap) == IF age + d > cap THEN cap ELSE age + d

-----------------------------------------------------------------------------
(* The holds. *)

\* Mutant: the release gate always goes with the hold.
DropSaveHoldAndGate(gateToo) == saveHold' = {} /\ saveAge' = 0

\* resetSaveButtonHold and resetResetButtonHold.
DropSaveHold(gateToo) ==
  /\ saveHold' = IF gateToo THEN {} ELSE saveHold \cap {"gate"}
  /\ saveAge' = 0

DropResetHold(gateToo) ==
  /\ resetHold' = IF gateToo THEN {} ELSE resetHold \cap {"gate"}
  /\ resetAge' = 0

DropHolds(gatesToo) ==
  DropSaveHold(gatesToo) /\ DropResetHold(gatesToo) /\ UNCHANGED requests

SaveDue(d) == saveHold = {"active"} /\ saveAge + d >= SaveHoldMs

\* updateSaveButtonHold(true).
HoldSave(d) ==
  /\ saveHold' = IF SaveDue(d) THEN {"active", "gate"}
                 ELSE IF "gate" \in saveHold THEN saveHold ELSE {"active"}
  /\ saveAge' = IF "active" \in saveHold THEN Older(saveAge, d, SaveHoldMs) ELSE 0
  /\ requests' = IF SaveDue(d) THEN requests \cup {"save"} ELSE requests

SwitchDue(d) ==
  "active" \in resetHold /\ "gate" \notin resetHold /\ resetAge + d >= SwitchHoldMs

ResetDue(d) == resetHold = {"active"} /\ ~SwitchDue(d) /\ resetAge + d >= ResetHoldMs

\* updateResetButtonHold(true).
HoldReset(d) ==
  /\ resetHold' = IF SwitchDue(d) THEN {"active", "triggered", "gate"}
                  ELSE IF ResetDue(d) THEN {"active", "triggered"}
                  ELSE IF "gate" \in resetHold THEN resetHold ELSE resetHold \cup {"active"}
  /\ resetAge' = IF "active" \in resetHold THEN Older(resetAge, d, SwitchHoldMs) ELSE 0
  /\ requests' = requests \cup (IF SwitchDue(d) THEN {"switch"} ELSE {})
                          \cup (IF ResetDue(d) THEN {"reset"} ELSE {})

\* Both updates, with the button seen down; the hold of another button ends with its gate.
HoldButtons(b, d) ==
  CASE b = "save"  -> HoldSave(d) /\ DropResetHold(TRUE)
    [] b = "reset" -> HoldReset(d) /\ DropSaveHold(TRUE)
    [] OTHER       -> DropHolds(TRUE)

-----------------------------------------------------------------------------
(* One reading: getPalmScreenTouch.  It returns whether the panel is touched elsewhere than *)
(* on a button, which is cached'. *)

NoTouch == cached' = FALSE /\ sinceTouch' = 0 /\ candidate' = FALSE /\ candidateAge' = 0

\* The interval has not elapsed.
SkipPoll(d) ==
  /\ ~pollDue
  /\ saveAge' = IF "active" \in saveHold THEN Older(saveAge, d, SaveHoldMs) ELSE 0
  /\ resetAge' = IF "active" \in resetHold THEN Older(resetAge, d, SwitchHoldMs) ELSE 0
  /\ sinceSeen' = IF bitsDown \in HoldButton THEN Older(sinceSeen, d, GraceMs + 1) ELSE 0
  /\ sinceTouch' = IF cached THEN Older(sinceTouch, d, DebounceMs) ELSE 0
  /\ candidateAge' = IF candidate THEN Older(candidateAge, d, StableMs) ELSE 0
  /\ UNCHANGED <<latch, bitsDown, saveHold, resetHold, requests, cached, candidate, pollDue,
                 requireRelease>>

\* A touch that was there when the guest fell asleep.
ReadStaleTouch ==
  /\ lowPower /\ requireRelease
  /\ latch' = "none" /\ bitsDown' = "none" /\ sinceSeen' = 0
  /\ DropHolds(FALSE)
  /\ NoTouch
  /\ pollDue' = FALSE /\ UNCHANGED requireRelease

\* The button or the screen the touch belongs to: where it started.
LatchAfter(place) ==
  IF asleep THEN "none"
  ELSE IF latch = "none" /\ ~cached /\ ~candidate THEN place ELSE latch

ReadButton(place, d) ==
  /\ ~(lowPower /\ requireRelease)
  /\ LatchAfter(place) \in Button
  /\ latch' = LatchAfter(place)
  /\ IF place = latch'
     THEN bitsDown' = place /\ HoldButtons(place, d)
     ELSE bitsDown' = "none" /\ DropHolds(FALSE)
  /\ sinceSeen' = 0
  /\ NoTouch
  /\ pollDue' = FALSE /\ UNCHANGED requireRelease

\* An awake guest sees the pen when the touch has been steady.
ReadScreen(place, moved, d) ==
  /\ ~(lowPower /\ requireRelease)
  /\ LatchAfter(place) \notin Button
  /\ latch' = LatchAfter(place)
  /\ IF asleep
     THEN /\ bitsDown' = "none"
          /\ IF bitsDown # "none" \/ latch # "none" THEN DropHolds(FALSE) ELSE UNCHANGED holdVars
     ELSE UNCHANGED bitsDown /\ DropHolds(FALSE)
  /\ sinceSeen' = 0
  /\ \/ /\ ~cached /\ ~asleep /\ (~candidate \/ moved)
        /\ candidate' = TRUE /\ candidateAge' = 0 /\ cached' = FALSE /\ sinceTouch' = 0
     \/ /\ ~cached /\ ~asleep /\ candidate /\ ~moved /\ candidateAge + d < StableMs
        /\ candidateAge' = candidateAge + d
        /\ UNCHANGED <<candidate, cached, sinceTouch>>
     \/ /\ cached \/ asleep \/ (candidate /\ ~moved /\ candidateAge + d >= StableMs)
        /\ cached' = TRUE /\ sinceTouch' = 0 /\ candidate' = FALSE /\ candidateAge' = 0
  /\ pollDue' = FALSE /\ UNCHANGED requireRelease

\* The controller may drop a finger for a moment: a hold outlives that.
ReadDropout(d) ==
  /\ bitsDown \in HoldButton /\ sinceSeen + d <= GraceMs
  /\ HoldButtons(bitsDown, d)
  /\ sinceSeen' = sinceSeen + d
  /\ NoTouch
  /\ pollDue' = FALSE /\ UNCHANGED <<latch, bitsDown, requireRelease>>

\* Mutant: the guard for the touch of before the sleep stays.
ReadUpGuarded(d) ==
  /\ ~(bitsDown \in HoldButton /\ sinceSeen + d <= GraceMs)
  /\ DropHolds(TRUE)
  /\ latch' = "none" /\ bitsDown' = "none" /\ sinceSeen' = 0
  /\ NoTouch /\ pollDue' = FALSE /\ UNCHANGED requireRelease

ReadUp(d) ==
  /\ ~(bitsDown \in HoldButton /\ sinceSeen + d <= GraceMs)
  /\ DropHolds(TRUE)
  /\ requireRelease' = FALSE
  /\ latch' = "none" /\ bitsDown' = "none" /\ sinceSeen' = 0
  /\ cached' = (cached /\ sinceTouch + d < DebounceMs)
  /\ sinceTouch' = IF cached' THEN sinceTouch + d ELSE 0
  /\ candidate' = FALSE /\ candidateAge' = 0
  /\ pollDue' = FALSE
-----------------------------------------------------------------------------
(* What the guest gets of it: servicePalmTouchInput with PALM_TOUCH_USE_RAW_ADC. *)

KeysOf(b) == {b} \cap HwButton

\* What a key that moves may do to the requests, as the guest has set port D up.
KeyEffect == IF keyPending = "level" THEN {"level"} ELSE {"none", "edge"}

\* Mutant: the touch is the power key only while the guest sleeps.
FeedPalmAwake ==
  LET waking == cached' /\ asleep
      keys   == (hwKeys \ KeysOf(bitsDown)) \cup KeysOf(bitsDown')
      power  == waking \/ bitsDown' = "power"
  IN /\ wakeTouch' = waking
     /\ nativePen' = (cached' /\ ~waking)
     /\ hwPen' = IF nativePen' = nativePen THEN hwPen ELSE nativePen'
     /\ hwKeys' = IF power THEN keys \cup {"power"} ELSE keys \ {"power"}
     /\ IF hwKeys' = hwKeys THEN UNCHANGED keyPending ELSE keyPending' \in KeyEffect

\* The first touch of a sleeping guest is its power key until it ends, and no pen.
FeedPalm ==
  LET waking == wakeTouch \/ (cached' /\ asleep)
      keys   == (hwKeys \ KeysOf(bitsDown)) \cup KeysOf(bitsDown')
      power  == (waking /\ cached') \/ bitsDown' = "power"
  IN /\ wakeTouch' = (waking /\ cached')
     /\ nativePen' = (cached' /\ ~waking)
     /\ hwPen' = IF nativePen' = nativePen THEN hwPen ELSE nativePen'
     /\ hwKeys' = IF cached' /\ ~waking THEN keys
                  ELSE IF power THEN keys \cup {"power"} ELSE keys \ {"power"}
     /\ IF hwKeys' = hwKeys THEN UNCHANGED keyPending ELSE keyPending' \in KeyEffect

\* palmHwPrepareForSleepSnapshot.
Quieted == IF keyPending = "level" THEN "level" ELSE "none"

PrepareForSleepSnapshot == hwPen' = FALSE /\ hwKeys' = {} /\ keyPending' = Quieted

\* releaseTouchForStateSave, up to the registers.
ReleaseTouch(preserveResetHold) ==
  /\ bitsDown' = "none" /\ sinceSeen' = 0
  /\ DropSaveHold(FALSE)
  /\ IF preserveResetHold THEN UNCHANGED <<resetHold, resetAge>> ELSE DropResetHold(FALSE)
  /\ NoTouch
  /\ wakeTouch' = FALSE /\ nativePen' = FALSE
  /\ UNCHANGED latch

-----------------------------------------------------------------------------
(* The history of the finger as the panel reported it: the place, for how long without a *)
(* gap longer than the grace time, the time since the last reading, what it has asked for *)
(* since it last came down or went to another button, and whether it woke the guest. *)

NoFinger == [place |-> "none", time |-> 0, gap |-> 0, asked |-> {}, woke |-> FALSE]

AskedBy(place) ==
  CASE place = "save" -> {"save"} [] place = "reset" -> {"switch"} [] place \in HwButton -> {}
    [] OTHER -> {"save", "switch"}

Asked(before) == before \cup ((requests' \ requests) \cap {"save", "switch"})

FingerOn(place, d) ==
  finger' = [place |-> place,
             time  |-> IF finger.place = place THEN Older(finger.time, d, SwitchHoldMs) ELSE 0,
             gap   |-> 0,
             asked |-> Asked(finger.asked \cap AskedBy(place)),
             woke  |-> finger.woke \/ wakeTouch']

FingerUnseen(d) ==
  IF finger.place = "none" THEN UNCHANGED finger
  ELSE finger' = [place |-> finger.place, time |-> Older(finger.time, d, SwitchHoldMs),
                  gap |-> Older(finger.gap, d, GraceMs + 1),
                  asked |-> finger.asked, woke |-> finger.woke]

FingerUp(d) ==
  finger' = IF finger.place = "none" \/ finger.gap + d > GraceMs THEN NoFinger
            ELSE [place |-> finger.place, time |-> Older(finger.time, d, SwitchHoldMs),
                  gap |-> finger.gap + d, asked |-> Asked({}), woke |-> FALSE]

\* One pass: no reading, or one of a finger, or of none; then what the guest gets.
PassUnread(d) == SkipPoll(d) /\ FeedPalm /\ FingerUnseen(d)

PassTouched(place, d) ==
  /\ ReadStaleTouch \/ ReadButton(place, d) \/ \E moved \in BOOLEAN : ReadScreen(place, moved, d)
  /\ FeedPalm
  /\ FingerOn(place, d)

PassLifted(d) == (ReadDropout(d) \/ ReadUp(d)) /\ FeedPalm /\ FingerUp(d)

TouchPass ==
  \E d \in Gaps : PassUnread(d) \/ PassLifted(d) \/ \E place \in Place : PassTouched(place, d)

-----------------------------------------------------------------------------
\* The types of the touch variables: no age outgrows what looks at it.
TouchTypeOK ==
  /\ latch \in Place \cup {"none"} /\ bitsDown \in Button \cup {"none"}
  /\ saveHold \subseteq {"active", "gate"} /\ resetHold \subseteq {"active", "triggered", "gate"}
  /\ saveAge \in 0 .. SaveHoldMs /\ resetAge \in 0 .. SwitchHoldMs
  /\ requests \subseteq {"save", "reset", "switch"}
  /\ sinceSeen \in 0 .. GraceMs + 1 /\ sinceTouch \in 0 .. DebounceMs
  /\ candidateAge \in 0 .. StableMs
  /\ cached \in BOOLEAN /\ candidate \in BOOLEAN /\ pollDue \in BOOLEAN
  /\ nativePen \in BOOLEAN /\ wakeTouch \in BOOLEAN /\ requireRelease \in BOOLEAN
  /\ finger.place \in Place \cup {"none"} /\ finger.time \in 0 .. SwitchHoldMs
  /\ finger.gap \in 0 .. GraceMs + 1 /\ finger.asked \subseteq {"save", "switch"}
=============================================================================
