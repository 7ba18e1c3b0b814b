---------------------- MODULE PowerAndSnapshotProofs ----------------------
(***************************************************************************)
(* PalmPower for every gap between passes, every hold, grace, debounce and *)
(* settle time and any number of slices: the types, the safety properties  *)
(* the runs check, and the inductive invariant they rest on.  It adds what *)
(* a service finds the touch state in, that no request waits for a later   *)
(* pass, where a waking touch and a hold come from, and when the panel may *)
(* be dark while the guest is awake.                                       *)
(*                                                                         *)
(* SnapshotStore, where the saves of PalmPower go, for any number of       *)
(* sections, any set of faults and any guest: StoreInv says what the half- *)
(* written temporary file and the half-restored machine hold.              *)
(***************************************************************************)
EXTENDS PalmPower, SnapshotStore, TLAPS

PulsePhase == {"sleepPulse", "wakePulse", "bootPulse"}

\* A service runs without any touch; the only key down is the one of its pulse.
ServiceQuiet ==
  phase \notin LoopPhase =>
    /\ ~cached /\ ~nativePen /\ ~wakeTouch /\ ~hwPen /\ bitsDown = "none"
    /\ hwKeys = IF phase \in PulsePhase THEN {"power"} ELSE {}

\* Every request is served before the pass that made it goes on, and comes without a pen.
NothingWaits ==
  /\ phase \in {"head", "touch", "run", "burst", "ran"} \cup BootPhase => requests = {}
  /\ requests # {} => ~cached

\* A waking touch is a touch of the screen, and no pen.
WakeShape ==
  /\ wakeTouch => cached /\ ~nativePen
  /\ cached => latch \notin Button
  /\ requireRelease => lowPower /\ ~wakeTouch /\ (pollDue \/ ~cached)
  /\ finger.woke => wakeTouch

\* A hold is at most as old as the finger that holds; what it asked for keeps its gate down.
SaveShape ==
  /\ "active" \in saveHold => latch = "save" /\ finger.place = "save" /\ saveAge <= finger.time
  /\ "save" \in finger.asked => "gate" \in saveHold

ResetShape ==
  /\ "active" \in resetHold => latch = "reset" /\ finger.place = "reset" /\ resetAge <= finger.time
  /\ "switch" \in finger.asked => "gate" \in resetHold

BitsShape ==
  bitsDown \in HoldButton => latch = bitsDown /\ finger.place = bitsDown /\ finger.gap = sinceSeen

HoldShape == SaveShape /\ ResetShape /\ BitsShape

\* An awake guest has the panel, but for the end of a save that the next update corrects.
PanelShape ==
  /\ phase \in LoopPhase /\ ~lowPower /\ ~panelOn =>
       phase \in {"serve", "serveAgain"} /\ asleep /\ ~wakeTouch
  /\ phase \in BootPhase => panelOn
  /\ phase = "ran" => lowPower

\* An attempt to wake the guest is one of the attempts there are.
AttemptShape == phase \in {"wakePress", "wakePulse", "wakeSettle"} => attempt < WakeAttempts

\* Once asleep with quiet keys, the guest stays so up to the capture.
SleptQuiet == phase \in {"slept", "capture"} => asleep /\ keyPending = "none"

IInv ==
  /\ TypeOK /\ KeysFollowFinger /\ ServiceQuiet /\ NothingWaits /\ WakeShape /\ HoldShape
  /\ GuestRunsAtFullSpeed /\ PanelFollowsGuest /\ PanelShape /\ SleptQuiet
  /\ AttemptShape

-----------------------------------------------------------------------------
(* The holds in one reading of the panel. *)

\* A pass that reads nothing lets the hold and the finger grow older alike.
LEMMA UnreadKeepsHolds ==
  ASSUME TouchTypeOK, HoldShape, NEW d \in Gaps, PassUnread(d)
  PROVE  HoldShape' /\ requests' = requests
PROOF
  <1> USE TouchConstants DEF TouchTypeOK, HoldShape, PassUnread, SkipPoll, FingerUnseen, Older
  <1>1. SaveShape' BY DEF SaveShape
  <1>2. ResetShape' BY DEF ResetShape
  <1>3. BitsShape' BY DEF BitsShape, HoldButton
  <1> QED BY <1>1, <1>2, <1>3

\* A hold that a dropout is forgiven goes on.
LEMMA DropoutKeepsHolds ==
  ASSUME TouchTypeOK, HoldShape, NEW d \in Gaps, ReadDropout(d), FingerUp(d)
  PROVE  HoldShape'
PROOF
  <1> USE TouchConstants DEF TouchTypeOK, HoldShape, ReadDropout, FingerUp, Older, BitsShape,
          HoldButton
  <1>1. SaveShape'
    BY DEF SaveShape, HoldButtons, HoldSave, HoldReset, DropSaveHold, DropResetHold, DropHolds,
           SaveDue, SwitchDue, ResetDue, Asked
  <1>2. ResetShape'
    BY DEF ResetShape, HoldButtons, HoldSave, HoldReset, DropSaveHold, DropResetHold, DropHolds,
           SaveDue, SwitchDue, ResetDue, Asked
  <1>3. BitsShape' OBVIOUS
  <1> QED BY <1>1, <1>2, <1>3

\* A finger that is gone leaves neither hold nor gate.
LEMMA UpKeepsHolds ==
  ASSUME TouchTypeOK, HoldShape, NEW d \in Gaps, ReadUp(d), FingerUp(d)
  PROVE  HoldShape' /\ requests' = requests
PROOF
  <1> USE TouchConstants DEF TouchTypeOK, HoldShape, ReadUp, FingerUp, NoFinger, Older,
          DropHolds, DropSaveHold, DropResetHold, Asked
  <1>1. SaveShape' BY DEF SaveShape
  <1>2. ResetShape' BY DEF ResetShape
  <1>3. BitsShape' BY DEF BitsShape, HoldButton
  <1> QED BY <1>1, <1>2, <1>3

\* A touch of before the sleep ends every hold.
LEMMA StaleKeepsHolds ==
  ASSUME TouchTypeOK, HoldShape, NEW d \in Gaps, NEW place \in Place,
         ReadStaleTouch, FingerOn(place, d)
  PROVE  HoldShape' /\ requests' = requests
PROOF
  <1> USE TouchConstants DEF TouchTypeOK, HoldShape, ReadStaleTouch, FingerOn, Older, DropHolds,
          DropSaveHold, DropResetHold, Asked, AskedBy
  <1>1. SaveShape' BY DEF SaveShape
  <1>2. ResetShape' BY DEF ResetShape
  <1>3. BitsShape' BY DEF BitsShape, HoldButton
  <1> QED BY <1>1, <1>2, <1>3

\* A button that is touched holds, and ends what the other button held.
LEMMA ButtonKeepsHolds ==
  ASSUME TouchTypeOK, HoldShape, requests = {}, NEW d \in Gaps, NEW place \in Place,
         ReadButton(place, d), FingerOn(place, d)
  PROVE  HoldShape'
PROOF
  <1> USE TouchConstants DEF TouchTypeOK, HoldShape, ReadButton, FingerOn, Older, HoldButton,
          Button, HoldButtons, HoldSave, HoldReset, DropSaveHold, DropResetHold, DropHolds,
          SaveDue, SwitchDue, ResetDue, Asked, AskedBy
  <1>1. SaveShape' BY DEF SaveShape
  <1>2. ResetShape' BY DEF ResetShape
  <1>3. BitsShape' BY DEF BitsShape
  <1> QED BY <1>1, <1>2, <1>3

\* A touch of the screen ends every hold there is.
LEMMA ScreenKeepsHolds ==
  ASSUME TouchTypeOK, HoldShape, NEW d \in Gaps, NEW place \in Place, NEW moved \in BOOLEAN,
         ReadScreen(place, moved, d), FingerOn(place, d)
  PROVE  HoldShape' /\ requests' = requests
PROOF
  <1> USE TouchConstants DEF TouchTypeOK, HoldShape, ReadScreen, FingerOn, Older, HoldButton,
          Button, DropSaveHold, DropResetHold, DropHolds, holdVars, Asked, AskedBy
  <1>1. SaveShape' BY DEF SaveShape
  <1>2. ResetShape' BY DEF ResetShape
  <1>3. BitsShape' BY DEF BitsShape, LatchAfter
  <1>4. requests' = requests OBVIOUS
  <1> QED BY <1>1, <1>2, <1>3, <1>4

\* One pass: the holds stay sound, and a request comes with no touch of the screen.
LEMMA TouchKeepsHolds ==
  ASSUME TouchTypeOK, HoldShape, requests = {}, TouchPass
  PROVE  HoldShape' /\ (requests' # {} => ~cached')
PROOF
  <1>1. PICK d \in Gaps : PassUnread(d) \/ PassLifted(d)
                            \/ \E place \in Place : PassTouched(place, d)
    BY DEF TouchPass
  <1>2. CASE PassUnread(d)
    BY <1>2, UnreadKeepsHolds
  <1>3. CASE ReadDropout(d) /\ FeedPalm /\ FingerUp(d)
    <2>1. ~cached' BY <1>3 DEF ReadDropout, NoTouch
    <2> QED BY <1>3, <2>1, DropoutKeepsHolds
  <1>4. CASE ReadUp(d) /\ FeedPalm /\ FingerUp(d)
    BY <1>4, UpKeepsHolds
  <1>5. ASSUME NEW place \in Place, PassTouched(place, d)
        PROVE  HoldShape' /\ (requests' # {} => ~cached')
    <2>1. CASE ReadStaleTouch
      BY <1>5, <2>1, StaleKeepsHolds DEF PassTouched
    <2>2. CASE ReadButton(place, d)
      <3>1. ~cached' BY <2>2 DEF ReadButton, NoTouch
      <3> QED BY <1>5, <2>2, <3>1, ButtonKeepsHolds DEF PassTouched
    <2>3. CASE \E moved \in BOOLEAN : ReadScreen(place, moved, d)
      BY <1>5, <2>3, ScreenKeepsHolds DEF PassTouched
    <2> QED BY <1>5, <2>1, <2>2, <2>3 DEF PassTouched
  <1> QED BY <1>1, <1>2, <1>3, <1>4, <1>5 DEF PassLifted

-----------------------------------------------------------------------------
(* The waking touch, and the keys of the guest. *)

\* Where a pass leaves the touch, the waking touch and its finger.
LEMMA TouchKeepsWake ==
  ASSUME WakeShape, TouchPass, lowPower' = lowPower
  PROVE  WakeShape'
PROOF
  <1> USE DEF WakeShape, FeedPalm
  <1>1. PICK d \in Gaps : PassUnread(d) \/ PassLifted(d)
                            \/ \E place \in Place : PassTouched(place, d)
    BY DEF TouchPass
  <1>2. CASE PassUnread(d)
    <2> USE <1>2 DEF PassUnread
    <2>1. wakeTouch' => cached' /\ ~nativePen' OBVIOUS
    <2>2. cached' => latch' \notin Button BY DEF SkipPoll
    <2>3. requireRelease' => lowPower' /\ ~wakeTouch' /\ (pollDue' \/ ~cached') BY DEF SkipPoll
    <2>4. finger'.woke = finger.woke BY DEF FingerUnseen
    <2>5. finger'.woke => wakeTouch' BY <2>4 DEF SkipPoll
    <2> QED BY <2>1, <2>2, <2>3, <2>5
  <1>3. CASE PassLifted(d)
    <2> USE <1>3 DEF PassLifted, ReadDropout, ReadUp, NoTouch
    <2>1. wakeTouch' => cached' /\ ~nativePen' OBVIOUS
    <2>2. cached' => latch' \notin Button BY TouchConstants DEF Button, HoldButton
    <2>3. requireRelease' => lowPower' /\ ~wakeTouch' /\ (pollDue' \/ ~cached') OBVIOUS
    <2>4. finger'.woke = FALSE BY DEF FingerUp, NoFinger
    <2> QED BY <2>1, <2>2, <2>3, <2>4
  <1>5. ASSUME NEW place \in Place, PassTouched(place, d)
        PROVE  WakeShape'
    <2>1. CASE ReadStaleTouch
      BY <1>5, <2>1 DEF PassTouched, ReadStaleTouch, NoTouch, FingerOn
    <2>2. CASE ReadButton(place, d)
      <3> USE <1>5, <2>2 DEF PassTouched, ReadButton, NoTouch
      <3>1. wakeTouch' => cached' /\ ~nativePen' OBVIOUS
      <3>2. cached' => latch' \notin Button OBVIOUS
      <3>3. requireRelease' => lowPower' /\ ~wakeTouch' /\ (pollDue' \/ ~cached') OBVIOUS
      <3>4. ~wakeTouch BY TouchConstants DEF LatchAfter, Button, HoldButton
      <3>5. ~wakeTouch' OBVIOUS
      <3>6. finger'.woke = (finger.woke \/ wakeTouch') BY DEF FingerOn
      <3> QED BY <3>1, <3>2, <3>3, <3>4, <3>5, <3>6
    <2>3. ASSUME NEW moved \in BOOLEAN, ReadScreen(place, moved, d)
          PROVE  WakeShape'
      BY <1>5, <2>3 DEF PassTouched, ReadScreen, FingerOn
    <2> QED BY <1>5, <2>1, <2>2, <2>3 DEF PassTouched
  <1> QED BY <1>1, <1>2, <1>3, <1>5

\* Whatever the reading, the guest's keys and pen follow the touch.
LEMMA FeedKeepsKeys ==
  ASSUME TouchTypeOK, FeedPalm, hwPen = nativePen,
         hwKeys = KeysOf(bitsDown) \cup (IF wakeTouch THEN {"power"} ELSE {})
  PROVE  /\ hwPen' = nativePen'
         /\ hwKeys' = KeysOf(bitsDown') \cup (IF wakeTouch' THEN {"power"} ELSE {})
PROOF
  <1> USE TouchConstants DEF FeedPalm
  <1>1. hwPen' = nativePen' OBVIOUS
  <1>2. hwKeys' = KeysOf(bitsDown') \cup (IF wakeTouch' THEN {"power"} ELSE {}) BY DEF KeysOf
  <1> QED BY <1>1, <1>2

\* A request comes of a finger that has held for the whole time.
LEMMA TouchEarns ==
  ASSUME TouchTypeOK, HoldShape, requests = {}, TouchPass
  PROVE  /\ "save" \in requests' => finger'.place = "save" /\ finger'.time >= SaveHoldMs
                                      /\ "save" \notin finger.asked
         /\ "reset" \in requests' => finger'.place = "reset" /\ finger'.time >= ResetHoldMs
         /\ "switch" \in requests' => finger'.place = "reset" /\ finger'.time >= SwitchHoldMs
                                        /\ "switch" \notin finger.asked
PROOF
  <1> DEFINE Earned ==
        /\ "save" \in requests' => finger'.place = "save" /\ finger'.time >= SaveHoldMs
                                     /\ "save" \notin finger.asked
        /\ "reset" \in requests' => finger'.place = "reset" /\ finger'.time >= ResetHoldMs
        /\ "switch" \in requests' => finger'.place = "reset" /\ finger'.time >= SwitchHoldMs
                                       /\ "switch" \notin finger.asked
  <1>1. PICK d \in Gaps : PassUnread(d) \/ PassLifted(d)
                            \/ \E place \in Place : PassTouched(place, d)
    BY DEF TouchPass
  <1>2. CASE PassUnread(d)
    BY <1>2, UnreadKeepsHolds
  <1>3. CASE ReadDropout(d) /\ FingerUp(d)
    BY <1>3, TouchConstants
    DEF TouchTypeOK, HoldShape, SaveShape, ResetShape, BitsShape, ReadDropout, FingerUp, Older,
        HoldButton, HoldButtons, HoldSave, HoldReset, DropSaveHold, DropResetHold, DropHolds,
        SaveDue, SwitchDue, ResetDue
  <1>4. CASE ReadUp(d) /\ FingerUp(d)
    BY <1>4, UpKeepsHolds
  <1>5. ASSUME NEW place \in Place, PassTouched(place, d)
        PROVE  Earned
    <2>1. CASE ReadStaleTouch
      BY <1>5, <2>1, StaleKeepsHolds DEF PassTouched
    <2>2. CASE ReadButton(place, d)
      BY <1>5, <2>2, TouchConstants
      DEF TouchTypeOK, HoldShape, SaveShape, ResetShape, PassTouched, ReadButton, FingerOn, Older,
          HoldButton, HoldButtons, HoldSave, HoldReset, DropSaveHold, DropResetHold, DropHolds,
          SaveDue, SwitchDue, ResetDue
    <2>3. CASE \E moved \in BOOLEAN : ReadScreen(place, moved, d)
      BY <1>5, <2>3, ScreenKeepsHolds DEF PassTouched
    <2> QED BY <1>5, <2>1, <2>2, <2>3 DEF PassTouched
  <1> QED BY <1>1, <1>2, <1>3, <1>4, <1>5 DEF PassLifted

-----------------------------------------------------------------------------
(* The types of one pass. *)

ReadingFlags ==
  cached \in BOOLEAN /\ candidate \in BOOLEAN /\ pollDue \in BOOLEAN /\ requireRelease \in BOOLEAN

ReadingAges ==
  /\ latch \in Place \cup {"none"} /\ bitsDown \in Button \cup {"none"}
  /\ sinceSeen \in 0 .. GraceMs + 1 /\ sinceTouch \in 0 .. DebounceMs
  /\ candidateAge \in 0 .. StableMs

HoldTypes ==
  /\ saveHold \subseteq {"active", "gate"} /\ resetHold \subseteq {"active", "triggered", "gate"}
  /\ saveAge \in 0 .. SaveHoldMs /\ resetAge \in 0 .. SwitchHoldMs
  /\ requests \subseteq {"save", "reset", "switch"}

FingerTypes ==
  /\ finger.place \in Place \cup {"none"} /\ finger.time \in 0 .. SwitchHoldMs
  /\ finger.gap \in 0 .. GraceMs + 1 /\ finger.asked \subseteq {"save", "switch"}

Reading(d) ==
  SkipPoll(d) \/ ReadDropout(d) \/ ReadUp(d) \/ ReadStaleTouch
    \/ \E place \in Place :
         ReadButton(place, d) \/ \E moved \in BOOLEAN : ReadScreen(place, moved, d)

\* What one reading does to the button a hold is for.
LEMMA HoldButtonsTypes ==
  ASSUME TouchTypeOK, NEW d \in Gaps, NEW b, HoldButtons(b, d)
  PROVE  HoldTypes'
PROOF
  <1> USE TouchConstants DEF TouchTypeOK, HoldTypes, HoldButtons, HoldSave, HoldReset, SaveDue,
          SwitchDue, ResetDue, DropSaveHold, DropResetHold, DropHolds, Older
  <1>1. CASE b = "save" BY <1>1
  <1>2. CASE b = "reset" BY <1>2
  <1>3. CASE b \notin {"save", "reset"} BY <1>3
  <1> QED BY <1>1, <1>2, <1>3

\* A hold that ends leaves only its gate, or nothing.
LEMMA DropHoldsTypes ==
  ASSUME TouchTypeOK, NEW gates \in BOOLEAN, DropHolds(gates)
  PROVE  HoldTypes'
PROOF
  BY TouchConstants DEF TouchTypeOK, HoldTypes, DropSaveHold, DropResetHold, DropHolds

\* No reading takes the panel's state out of its types.
LEMMA ReadingKeepsTypes ==
  ASSUME TouchTypeOK, NEW d \in Gaps, Reading(d)
  PROVE  ReadingFlags' /\ ReadingAges' /\ HoldTypes'
PROOF
  <1> USE TouchConstants DEF TouchTypeOK
  <1>1. CASE SkipPoll(d)
    <2>1. ReadingFlags' BY <1>1 DEF SkipPoll, ReadingFlags
    <2>2. ReadingAges' BY <1>1 DEF SkipPoll, ReadingAges, Older
    <2>3. HoldTypes' BY <1>1 DEF SkipPoll, HoldTypes, Older
    <2> QED BY <2>1, <2>2, <2>3
  <1>2. CASE ReadDropout(d)
    <2>1. ReadingFlags' BY <1>2, Zenon DEF ReadDropout, ReadingFlags, NoTouch
    <2>2. ReadingAges' BY <1>2 DEF ReadDropout, ReadingAges, NoTouch
    <2>3. HoldTypes' BY <1>2, HoldButtonsTypes DEF ReadDropout
    <2> QED BY <2>1, <2>2, <2>3
  <1>3. CASE ReadUp(d)
    <2>1. ReadingFlags' BY <1>3, Zenon DEF ReadUp, ReadingFlags
    <2>2. sinceTouch' \in 0 .. DebounceMs
      <3>1. CASE cached /\ sinceTouch + d < DebounceMs
        <4>1. cached' BY <1>3, <3>1, Zenon DEF ReadUp
        <4>2. sinceTouch' = sinceTouch + d BY <1>3, <4>1, Zenon DEF ReadUp
        <4> QED BY <3>1, <4>2
      <3>2. CASE ~(cached /\ sinceTouch + d < DebounceMs)
        <4>1. ~cached' BY <1>3, <3>2, Zenon DEF ReadUp
        <4>2. sinceTouch' = 0 BY <1>3, <4>1, Zenon DEF ReadUp
        <4> QED BY <4>2
      <3> QED BY <3>1, <3>2
    <2>4. ReadingAges' BY <1>3, <2>2 DEF ReadUp, ReadingAges
    <2>3. HoldTypes' BY <1>3, DropHoldsTypes DEF ReadUp
    <2> QED BY <2>1, <2>3, <2>4
  <1>4. CASE ReadStaleTouch
    <2>1. ReadingFlags' BY <1>4, Zenon DEF ReadStaleTouch, ReadingFlags, NoTouch
    <2>2. ReadingAges' BY <1>4 DEF ReadStaleTouch, ReadingAges, NoTouch
    <2>3. HoldTypes' BY <1>4, DropHoldsTypes DEF ReadStaleTouch
    <2> QED BY <2>1, <2>2, <2>3
  <1>5. ASSUME NEW place \in Place, ReadButton(place, d)
        PROVE  ReadingFlags' /\ ReadingAges' /\ HoldTypes'
    <2>1. ReadingFlags' BY <1>5, Zenon DEF ReadButton, ReadingFlags, NoTouch
    <2>2. latch' \in Button /\ bitsDown' \in Button \cup {"none"}
      BY <1>5, Zenon DEF ReadButton
    <2>4. sinceSeen' = 0 /\ sinceTouch' = 0 /\ candidateAge' = 0
      BY <1>5 DEF ReadButton, NoTouch
    <2>5. ReadingAges' BY <2>2, <2>4 DEF ReadingAges, Place
    <2>3. HoldTypes' BY <1>5, HoldButtonsTypes, DropHoldsTypes DEF ReadButton
    <2> QED BY <2>1, <2>3, <2>5
  <1>6. ASSUME NEW place \in Place, NEW moved \in BOOLEAN, ReadScreen(place, moved, d)
        PROVE  ReadingFlags' /\ ReadingAges' /\ HoldTypes'
    <2>1. ReadingFlags' BY <1>6, Zenon DEF ReadScreen, ReadingFlags
    <2>2. latch' \in Place \cup {"none"} /\ bitsDown' \in Button \cup {"none"}
      BY <1>6 DEF ReadScreen, LatchAfter
    <2>4. sinceTouch' \in 0 .. DebounceMs /\ candidateAge' \in 0 .. StableMs /\ sinceSeen' = 0
      BY <1>6 DEF ReadScreen
    <2>5. ReadingAges' BY <2>2, <2>4 DEF ReadingAges
    <2>3. HoldTypes'
      <3>1. CASE DropHolds(FALSE) BY <3>1, DropHoldsTypes
      <3>2. CASE UNCHANGED holdVars BY <3>2 DEF holdVars, HoldTypes
      <3> QED BY <1>6, <3>1, <3>2 DEF ReadScreen
    <2> QED BY <2>1, <2>3, <2>5
  <1> QED BY <1>1, <1>2, <1>3, <1>4, <1>5, <1>6 DEF Reading

\* The history of the finger stays within its bounds.
LEMMA FingerKeepsTypes ==
  ASSUME TouchTypeOK, HoldTypes', NEW d \in Gaps,
         FingerUnseen(d) \/ FingerUp(d) \/ \E place \in Place : FingerOn(place, d)
  PROVE  FingerTypes'
PROOF
  <1> USE TouchConstants DEF TouchTypeOK, HoldTypes, FingerTypes, Asked, Older, NoFinger
  <1>1. CASE FingerUnseen(d) BY <1>1 DEF FingerUnseen
  <1>2. CASE FingerUp(d) BY <1>2 DEF FingerUp
  <1>3. ASSUME NEW place \in Place, FingerOn(place, d) PROVE FingerTypes'
    BY <1>3 DEF FingerOn
  <1> QED BY <1>1, <1>2, <1>3

\* What the guest gets of a pass: servicePalmTouchInput keeps the types of its pen and keys.
LEMMA FeedKeepsTypes ==
  ASSUME TouchTypeOK, ReadingAges', ReadingFlags', FeedPalm, hwPen \in BOOLEAN,
         hwKeys \subseteq HwButton, keyPending \in {"none", "edge", "level"}
  PROVE  /\ nativePen' \in BOOLEAN /\ wakeTouch' \in BOOLEAN /\ hwPen' \in BOOLEAN
         /\ hwKeys' \subseteq HwButton /\ keyPending' \in {"none", "edge", "level"}
PROOF
  <1>1. nativePen' \in BOOLEAN /\ wakeTouch' \in BOOLEAN BY Zenon DEF FeedPalm
  <1>2. hwPen' \in BOOLEAN BY <1>1, Zenon DEF FeedPalm
  <1>3. hwKeys' \subseteq HwButton BY TouchConstants DEF FeedPalm, KeysOf
  <1>4. keyPending' \in {"none", "edge", "level"} BY DEF FeedPalm, KeyEffect
  <1> QED BY <1>1, <1>2, <1>3, <1>4

\* A pass keeps the types of the touch and of the guest's keys.
LEMMA TouchKeepsTypes ==
  ASSUME TouchTypeOK, TouchPass, hwPen \in BOOLEAN, hwKeys \subseteq HwButton,
         keyPending \in {"none", "edge", "level"}
  PROVE  /\ TouchTypeOK'
         /\ hwPen' \in BOOLEAN /\ hwKeys' \subseteq HwButton
         /\ keyPending' \in {"none", "edge", "level"}
PROOF
  <1>1. PICK d \in Gaps : PassUnread(d) \/ PassLifted(d)
                            \/ \E place \in Place : PassTouched(place, d)
    BY DEF TouchPass
  <1>2. Reading(d) /\ FeedPalm
    BY <1>1 DEF PassUnread, PassLifted, PassTouched, Reading
  <1>3. ReadingFlags' /\ ReadingAges' /\ HoldTypes' BY <1>2, ReadingKeepsTypes
  <1>4. FingerTypes'
    BY <1>1, <1>3, FingerKeepsTypes DEF PassUnread, PassLifted, PassTouched
  <1>5. /\ nativePen' \in BOOLEAN /\ wakeTouch' \in BOOLEAN /\ hwPen' \in BOOLEAN
        /\ hwKeys' \subseteq HwButton /\ keyPending' \in {"none", "edge", "level"}
    BY <1>2, <1>3, FeedKeepsTypes
  <1> QED BY <1>3, <1>4, <1>5, Zenon
          DEF TouchTypeOK, ReadingFlags, ReadingAges, HoldTypes, FingerTypes

-----------------------------------------------------------------------------
(* Every step keeps the types. *)

ModeTypes ==
  /\ lowPower \in BOOLEAN /\ wakeService \in BOOLEAN /\ panelOn \in BOOLEAN
  /\ needsRestart \in BOOLEAN /\ mhz \in {ActiveMhz, SleepMhz}

KeyTypes ==
  hwPen \in BOOLEAN /\ hwKeys \subseteq HwButton /\ keyPending \in {"none", "edge", "level"}

LoopTypes ==
  /\ phase \in Phase /\ resume \in {"serve", "serveAgain"}
  /\ count \in Nat /\ quietFor \in 0 .. SettleMs /\ attempt \in 0 .. WakeAttempts
  /\ asleep \in BOOLEAN /\ other \in BOOLEAN

\* The type invariant in the parts that the actions change together.
LEMMA TypeParts ==
  TypeOK <=> TouchTypeOK /\ ModeTypes /\ KeyTypes /\ LoopTypes
PROOF
  BY Zenon DEF TypeOK, ModeTypes, KeyTypes, LoopTypes

\* A step that leaves the touch state alone keeps its types.
LEMMA SameTouch ==
  ASSUME TouchTypeOK, UNCHANGED <<touchVars, finger>>
  PROVE  TouchTypeOK'
PROOF
  BY Zenon DEF TouchTypeOK, touchVars, holdVars

\* The panel and the modes: setPanelOutputEnabled and setPalmLowPowerMode.
LEMMA PanelTypes ==
  ASSUME ModeTypes, NEW on \in BOOLEAN, SetPanelOutput(on)
  PROVE  panelOn' \in BOOLEAN /\ needsRestart' \in BOOLEAN
PROOF
  <1>1. panelOn' \in BOOLEAN BY Zenon DEF SetPanelOutput
  <1>2. needsRestart' \in BOOLEAN BY Zenon DEF SetPanelOutput
  <1> QED BY <1>1, <1>2

\* setPalmLowPowerMode(false) keeps the types.
LEMMA LeaveTypes ==
  ASSUME ModeTypes, LeaveLowPower
  PROVE  ModeTypes' /\ requireRelease' \in BOOLEAN /\ pollDue' \in BOOLEAN
PROOF
  <1>1. panelOn' \in BOOLEAN /\ needsRestart' \in BOOLEAN BY PanelTypes DEF LeaveLowPower
  <1>2. ModeTypes' BY <1>1, Zenon DEF LeaveLowPower, ModeTypes
  <1>3. requireRelease' \in BOOLEAN /\ pollDue' \in BOOLEAN BY Zenon DEF LeaveLowPower
  <1> QED BY <1>2, <1>3

\* setPalmLowPowerMode(true) keeps the types.
LEMMA EnterTypes ==
  ASSUME TouchTypeOK, ModeTypes, EnterLowPower
  PROVE  /\ ModeTypes' /\ requireRelease' \in BOOLEAN /\ pollDue' \in BOOLEAN
         /\ sinceTouch' \in 0 .. DebounceMs
PROOF
  <1>1. ModeTypes' BY Zenon DEF EnterLowPower, ModeTypes
  <1>2. requireRelease' \in BOOLEAN /\ pollDue' \in BOOLEAN BY Zenon DEF EnterLowPower
  <1>3. sinceTouch' \in 0 .. DebounceMs BY TouchConstants DEF EnterLowPower
  <1> QED BY <1>1, <1>2, <1>3

\* updatePalmLowPowerMode keeps the types.
LEMMA UpdateTypes ==
  ASSUME TouchTypeOK, ModeTypes, UpdateLowPower
  PROVE  /\ ModeTypes' /\ requireRelease' \in BOOLEAN /\ pollDue' \in BOOLEAN
         /\ sinceTouch' \in 0 .. DebounceMs
PROOF
  <1>1. CASE ~asleep /\ lowPower
    BY <1>1, LeaveTypes DEF UpdateLowPower, TouchTypeOK
  <1>2. CASE asleep /\ ~lowPower /\ ~wakeTouch
    BY <1>2, EnterTypes DEF UpdateLowPower
  <1>3. CASE ~(~asleep /\ lowPower) /\ ~(asleep /\ ~lowPower /\ ~wakeTouch)
    BY <1>3 DEF UpdateLowPower, TouchTypeOK, ModeTypes, modeVars
  <1> QED BY <1>1, <1>2, <1>3

\* Whatever the guest does in a slice, its state stays one it can be in.
LEMMA SliceTypes ==
  ASSUME LoopTypes, KeyTypes, NEW pen, NEW keys \in {"none", "edge", "level"}, CpuSlice(pen, keys)
  PROVE  asleep' \in BOOLEAN /\ other' \in BOOLEAN /\ keyPending' \in {"none", "edge", "level"}
PROOF
  BY DEF CpuSlice, LoopTypes

\* What the three services do first keeps the types.
LEMMA ServiceTypes ==
  ASSUME TouchTypeOK, ModeTypes, NEW preserve \in BOOLEAN, BeginService(preserve),
         requests' \subseteq requests, UNCHANGED finger
  PROVE  TouchTypeOK' /\ ModeTypes'
PROOF
  <1>1. ReleaseTouch(preserve) BY DEF BeginService
  <1>2. /\ saveHold' \subseteq {"active", "gate"} /\ saveAge' \in 0 .. SaveHoldMs
        /\ resetHold' \subseteq {"active", "triggered", "gate"} /\ resetAge' \in 0 .. SwitchHoldMs
    <2>1. saveHold' = saveHold \cap {"gate"} /\ saveAge' = 0
      BY <1>1, Zenon DEF ReleaseTouch, DropSaveHold
    <2>2. \/ resetHold' = resetHold /\ resetAge' = resetAge
          \/ resetHold' = resetHold \cap {"gate"} /\ resetAge' = 0
      BY <1>1, Zenon DEF ReleaseTouch, DropResetHold
    <2>3. saveHold' \subseteq {"active", "gate"} /\ saveAge' \in 0 .. SaveHoldMs
      BY <2>1, TouchConstants DEF TouchTypeOK
    <2>4. resetHold' \subseteq {"active", "triggered", "gate"}
      BY <2>2 DEF TouchTypeOK
    <2>5. resetAge' \in 0 .. SwitchHoldMs
      BY <2>2, TouchConstants DEF TouchTypeOK
    <2> QED BY <2>3, <2>4, <2>5
  <1>3. /\ cached' = FALSE /\ candidate' = FALSE /\ wakeTouch' = FALSE /\ nativePen' = FALSE
        /\ sinceTouch' = 0 /\ candidateAge' = 0 /\ sinceSeen' = 0
        /\ bitsDown' = "none" /\ latch' = latch
    BY <1>1 DEF ReleaseTouch, NoTouch
  <1>4. ModeTypes' /\ requireRelease' \in BOOLEAN /\ pollDue' \in BOOLEAN
    <2>1. CASE lowPower BY <2>1, LeaveTypes DEF BeginService
    <2>2. CASE ~lowPower
      <3>1. SetPanelOutput(TRUE) /\ mhz' = ActiveMhz
            /\ UNCHANGED <<lowPower, wakeService, requireRelease, pollDue>>
        BY <2>2 DEF BeginService
      <3>2. panelOn' \in BOOLEAN /\ needsRestart' \in BOOLEAN BY <3>1, PanelTypes
      <3> QED BY <3>1, <3>2 DEF ModeTypes, TouchTypeOK
    <2> QED BY <2>1, <2>2
  <1>5. /\ cached' \in BOOLEAN /\ candidate' \in BOOLEAN /\ nativePen' \in BOOLEAN
        /\ wakeTouch' \in BOOLEAN
    BY <1>3, Zenon
  <1>6. /\ sinceTouch' \in 0 .. DebounceMs /\ candidateAge' \in 0 .. StableMs
        /\ sinceSeen' \in 0 .. GraceMs + 1
        /\ latch' \in Place \cup {"none"} /\ bitsDown' \in Button \cup {"none"}
        /\ requests' \subseteq {"save", "reset", "switch"}
    BY <1>3, TouchConstants DEF TouchTypeOK
  <1> QED BY <1>2, <1>4, <1>5, <1>6, Zenon DEF TouchTypeOK

\* palmHwSetPowerButton keeps the types of the keys.
LEMMA PowerKeyTypes ==
  ASSUME KeyTypes, NEW down \in BOOLEAN, SetPowerButton(down)
  PROVE  hwKeys' \subseteq HwButton /\ keyPending' \in {"none", "edge", "level"}
PROOF
  BY TouchConstants DEF KeyTypes, SetPowerButton, KeyEffect

\* palmHwPrepareForSleepSnapshot keeps the types of the keys.
LEMMA PrepareTypes ==
  ASSUME KeyTypes, PrepareForSleepSnapshot
  PROVE  KeyTypes'
PROOF
  <1>1. hwPen' \in BOOLEAN BY Zenon DEF PrepareForSleepSnapshot
  <1>2. hwKeys' \subseteq HwButton /\ keyPending' \in {"none", "edge", "level"}
    BY DEF PrepareForSleepSnapshot, Quieted, KeyTypes
  <1> QED BY <1>1, <1>2 DEF KeyTypes

\* Every step keeps the types.
LEMMA TypeStep ==
  TypeOK /\ AttemptShape /\ [Next]_vars => TypeOK'
PROOF
  <1> SUFFICES ASSUME TypeOK, AttemptShape, [Next]_vars PROVE TypeOK'
    OBVIOUS
  <1>0. TouchTypeOK /\ ModeTypes /\ KeyTypes /\ LoopTypes BY TypeParts
  <1> DEFINE Types == TouchTypeOK /\ ModeTypes /\ KeyTypes /\ LoopTypes
  <1> SUFFICES Types'
    <2>1. (TypeOK <=> TouchTypeOK /\ ModeTypes /\ KeyTypes /\ LoopTypes)'
      BY Zenon DEF TypeOK, ModeTypes, KeyTypes, LoopTypes
    <2> QED BY <2>1
  <1> USE <1>0
  <1>1. CASE LoopHead \/ ServeNone
    <2>1. ModeTypes' /\ requireRelease' \in BOOLEAN /\ pollDue' \in BOOLEAN
          /\ sinceTouch' \in 0 .. DebounceMs
      BY <1>1, UpdateTypes DEF LoopHead, ServeNone
    <2>2. TouchTypeOK'
      BY <1>1, <2>1, Zenon DEF LoopHead, ServeNone, TouchTypeOK, holdVars
    <2>3. KeyTypes' BY <1>1 DEF LoopHead, ServeNone, KeyTypes, keyVars
    <2>4. LoopTypes' BY <1>1 DEF LoopHead, ServeNone, LoopTypes, loopVars, Go, Phase, LoopPhase
    <2> QED BY <2>1, <2>2, <2>3, <2>4
  <1>2. CASE Touch
    <2>1. TouchTypeOK' /\ KeyTypes' BY <1>2, TouchKeepsTypes DEF Touch, KeyTypes
    <2>2. ModeTypes' BY <1>2 DEF Touch, ModeTypes, modeVars
    <2>3. LoopTypes' BY <1>2 DEF Touch, LoopTypes, loopVars, Go, Phase, LoopPhase
    <2> QED BY <2>1, <2>2, <2>3
  <1>3. CASE Run
    <2>1. TouchTypeOK' BY <1>3, SameTouch DEF Run
    <2>2. ModeTypes' /\ KeyTypes' BY <1>3 DEF Run, ModeTypes, KeyTypes, modeVars, keyVars
    <2>3. LoopTypes' BY <1>3 DEF Run, LoopTypes, loopVars, Go, Phase, LoopPhase
    <2> QED BY <2>1, <2>2, <2>3
  <1>4. CASE RunDark
    <2>1. TouchTypeOK' BY <1>4, SameTouch DEF RunDark
    <2>2. KeyTypes' BY <1>4 DEF RunDark, KeyTypes, keyVars
    <2>3. wakeService' \in BOOLEAN /\ needsRestart' \in BOOLEAN /\ other' \in BOOLEAN
      <3>1. other' \in BOOLEAN BY <1>4, Zenon DEF RunDark, LoopTypes
      <3>2. wakeService' \in BOOLEAN BY <1>4, Zenon DEF RunDark, SetWakeService, ModeTypes
      <3>3. needsRestart' \in BOOLEAN BY <1>4, Zenon DEF RunDark, DeepIdle, ModeTypes
      <3> QED BY <3>1, <3>2, <3>3
    <2>4. ModeTypes' BY <1>4, <2>3 DEF RunDark, SetWakeService, ModeTypes
    <2>5. LoopTypes'
      BY <1>4, <2>3 DEF RunDark, LoopTypes, loopVars, Go, Phase, LoopPhase
    <2> QED BY <2>1, <2>2, <2>4, <2>5
  <1>5. CASE Burst
    <2>1. asleep' \in BOOLEAN /\ other' \in BOOLEAN /\ keyPending' \in {"none", "edge", "level"}
      BY <1>5, SliceTypes DEF Burst, KeyTypes
    <2>2. TouchTypeOK' BY <1>5, SameTouch DEF Burst
    <2>3. KeyTypes' /\ ModeTypes' BY <1>5, <2>1 DEF Burst, KeyTypes, ModeTypes, modeVars
    <2>4. LoopTypes' BY <1>5, <2>1 DEF Burst, LoopTypes, loopVars, Go, Phase, LoopPhase
    <2> QED BY <2>2, <2>3, <2>4
  <1>6. CASE RanDark
    <2>1. ModeTypes' /\ requireRelease' \in BOOLEAN /\ pollDue' \in BOOLEAN
      <3>1. CASE LeaveLowPower BY <3>1, LeaveTypes
      <3>2. CASE SetWakeService(FALSE) /\ DeepIdle
                 /\ UNCHANGED <<lowPower, panelOn, requireRelease, pollDue>>
        <4>1. wakeService' \in BOOLEAN /\ needsRestart' \in BOOLEAN
          BY <3>2, Zenon DEF SetWakeService, DeepIdle, ModeTypes
        <4> QED BY <3>2, <4>1 DEF SetWakeService, ModeTypes, TouchTypeOK
      <3>3. CASE UNCHANGED <<lowPower, modeVars, requireRelease, pollDue>>
        BY <3>3 DEF ModeTypes, TouchTypeOK, modeVars
      <3> QED BY <1>6, <3>1, <3>2, <3>3 DEF RanDark
    <2>2. TouchTypeOK' BY <1>6, <2>1, Zenon DEF RanDark, TouchTypeOK, holdVars
    <2>3. KeyTypes' BY <1>6 DEF RanDark, KeyTypes, keyVars
    <2>4. LoopTypes' BY <1>6 DEF RanDark, LoopTypes, loopVars, Go, Phase, LoopPhase
    <2> QED BY <2>1, <2>2, <2>3, <2>4
  <1>7. CASE ServeSave
    <2>1. TouchTypeOK' /\ ModeTypes' BY <1>7, ServiceTypes DEF ServeSave, Serving
    <2>2. KeyTypes' BY <1>7, PrepareTypes DEF ServeSave
    <2>3. LoopTypes'
      BY <1>7, PowerConstants DEF ServeSave, Serving, LoopTypes, Go, Phase, SleepPhase
    <2> QED BY <2>1, <2>2, <2>3
  <1>8. CASE ServeSwitch
    <2>1. TouchTypeOK' /\ ModeTypes' BY <1>8, ServiceTypes DEF ServeSwitch, Serving
    <2>2. KeyTypes' BY <1>8, PrepareTypes DEF ServeSwitch
    <2>3. LoopTypes' BY <1>8 DEF ServeSwitch, LoopTypes, Go, Phase, loopVars
    <2> QED BY <2>1, <2>2, <2>3
  <1>9. CASE ServeReset
    <2>1. TouchTypeOK' /\ ModeTypes' BY <1>9, ServiceTypes DEF ServeReset, Serving
    <2>2. hwPen' \in BOOLEAN /\ asleep' \in BOOLEAN /\ other' \in BOOLEAN
      BY <1>9, Zenon DEF ServeReset
    <2>3. KeyTypes' BY <1>9, <2>2 DEF ServeReset, KeyTypes
    <2>4. LoopTypes' BY <1>9, <2>2 DEF ServeReset, LoopTypes, loopVars
    <2> QED BY <2>1, <2>3, <2>4
  <1>10. CASE PressPower \/ ReleasePower
    <2>1. TouchTypeOK' BY <1>10, SameTouch DEF PressPower, ReleasePower
    <2>2. hwKeys' \subseteq HwButton /\ keyPending' \in {"none", "edge", "level"}
      BY <1>10, PowerKeyTypes DEF PressPower, ReleasePower
    <2>3. KeyTypes' /\ ModeTypes'
      BY <1>10, <2>2 DEF PressPower, ReleasePower, KeyTypes, ModeTypes, modeVars
    <2>4. LoopTypes'
      <3> USE PowerConstants DEF LoopTypes, Go, Phase, SleepPhase, WakePhase, BootPhase
      <3>1. CASE PressPower BY <3>1 DEF PressPower
      <3>2. CASE ReleasePower
        <4>1. phase' \in Phase BY <3>2 DEF ReleasePower, AfterPulse
        <4>2. count' = 0 /\ quietFor' = 0 BY <3>2 DEF ReleasePower
        <4> QED BY <3>2, <4>1, <4>2 DEF ReleasePower
      <3> QED BY <1>10, <3>1, <3>2
    <2> QED BY <2>1, <2>3, <2>4
  <1>11. CASE Pulse \/ SettleWake
    <2>1. asleep' \in BOOLEAN /\ other' \in BOOLEAN /\ keyPending' \in {"none", "edge", "level"}
      BY <1>11, SliceTypes DEF Pulse, SettleWake, KeyTypes
    <2>2. TouchTypeOK' BY <1>11, SameTouch DEF Pulse, SettleWake
    <2>3. KeyTypes' /\ ModeTypes'
      BY <1>11, <2>1 DEF Pulse, SettleWake, KeyTypes, ModeTypes, modeVars
    <2>4. count' \in Nat
      BY <1>11, TouchConstants, PowerConstants DEF Pulse, SettleWake, LoopTypes, Older
    <2>5. LoopTypes' BY <1>11, <2>1, <2>4 DEF Pulse, SettleWake, LoopTypes
    <2> QED BY <2>2, <2>3, <2>5
  <1>12. CASE SettleSleep
    <2>1. asleep' \in BOOLEAN /\ other' \in BOOLEAN /\ keyPending' \in {"none", "edge", "level"}
      <3>1. Quieted \in {"none", "edge", "level"} BY DEF Quieted
      <3> QED BY <1>12, <3>1, SliceTypes DEF SettleSleep
    <2>2. TouchTypeOK' BY <1>12, SameTouch DEF SettleSleep
    <2>3. hwPen' \in BOOLEAN BY <1>12, Zenon DEF SettleSleep
    <2>4. KeyTypes' /\ ModeTypes'
      BY <1>12, <2>1, <2>3 DEF SettleSleep, KeyTypes, ModeTypes, modeVars
    <2>5. count' \in Nat /\ quietFor' \in 0 .. SettleMs
      BY <1>12, TouchConstants, PowerConstants DEF SettleSleep, LoopTypes, Older
    <2>6. LoopTypes'
      BY <1>12, <2>1, <2>5 DEF SettleSleep, LoopTypes, Go, Phase, SleepPhase
    <2> QED BY <2>2, <2>4, <2>6
  <1>13. CASE SettleTimeout \/ FinishSave
    <2>1. TouchTypeOK' BY <1>13, SameTouch DEF SettleTimeout, FinishSave
    <2>2. KeyTypes' BY <1>13 DEF SettleTimeout, FinishSave, KeyTypes, keyVars
    <2>3. panelOn' \in BOOLEAN /\ needsRestart' \in BOOLEAN
      <3>1. (~asleep) \in BOOLEAN BY Zenon
      <3>2. CASE FinishSave BY <3>1, <3>2, PanelTypes DEF FinishSave
      <3>3. CASE SettleTimeout BY <3>3, PanelTypes DEF SettleTimeout, modeVars, ModeTypes
      <3> QED BY <1>13, <3>2, <3>3
    <2>4. ModeTypes' BY <1>13, <2>3 DEF SettleTimeout, FinishSave, ModeTypes, modeVars
    <2>5. LoopTypes'
      BY <1>13 DEF SettleTimeout, FinishSave, LoopTypes, loopVars, Go, Phase, SleepPhase,
                   WakePhase, LoopPhase
    <2> QED BY <2>1, <2>2, <2>4, <2>5
  <1>14. CASE Slept
    <2>1. TouchTypeOK' BY <1>14, SameTouch DEF Slept
    <2>2. KeyTypes' BY <1>14, PrepareTypes DEF Slept
    <2>3. panelOn' \in BOOLEAN /\ needsRestart' \in BOOLEAN BY <1>14, PanelTypes DEF Slept
    <2>4. ModeTypes' BY <1>14, <2>3 DEF Slept, ModeTypes
    <2>5. LoopTypes' BY <1>14 DEF Slept, LoopTypes, loopVars, Go, Phase, SleepPhase
    <2> QED BY <2>1, <2>2, <2>4, <2>5
  <1>15. CASE Capture \/ NextAttempt \/ BootStart \/ WakeStart
    <2>1. TouchTypeOK' BY <1>15, SameTouch DEF Capture, NextAttempt, BootStart, WakeStart
    <2>2. KeyTypes'
      BY <1>15, PrepareTypes DEF Capture, NextAttempt, BootStart, WakeStart, KeyTypes, keyVars
    <2>3. ModeTypes'
      BY <1>15 DEF Capture, NextAttempt, BootStart, WakeStart, ModeTypes, modeVars
    <2>4. LoopTypes'
      <3> USE PowerConstants DEF LoopTypes, loopVars, Go, Phase, WakePhase, BootPhase
      <3>1. CASE NextAttempt BY <3>1 DEF NextAttempt, AttemptShape
      <3>2. CASE Capture \/ BootStart \/ WakeStart
        BY <3>2 DEF Capture, BootStart, WakeStart
      <3> QED BY <1>15, <3>1, <3>2
    <2> QED BY <2>1, <2>2, <2>3, <2>4
  <1>16. CASE BootSettle
    <2>1. asleep' \in BOOLEAN /\ other' \in BOOLEAN /\ keyPending' \in {"none", "edge", "level"}
      BY <1>16, SliceTypes DEF BootSettle, KeyTypes
    <2>2. TouchTypeOK' BY <1>16, SameTouch DEF BootSettle
    <2>3. KeyTypes' /\ ModeTypes' BY <1>16, <2>1 DEF BootSettle, KeyTypes, ModeTypes, modeVars
    <2>4. LoopTypes' BY <1>16, <2>1 DEF BootSettle, LoopTypes, loopVars, Go, Phase, LoopPhase
    <2> QED BY <2>2, <2>3, <2>4
  <1>17. CASE UNCHANGED vars
    <2>1. TouchTypeOK' BY <1>17, SameTouch DEF vars
    <2>2. ModeTypes' /\ KeyTypes' /\ LoopTypes'
      BY <1>17 DEF vars, ModeTypes, KeyTypes, LoopTypes, modeVars, keyVars, loopVars
    <2> QED BY <2>1, <2>2
  <1> QED
    BY <1>1, <1>2, <1>3, <1>4, <1>5, <1>6, <1>7, <1>8, <1>9, <1>10, <1>11, <1>12, <1>13, <1>14,
       <1>15, <1>16, <1>17
    DEF Next, LoopStep, ServiceStep, PulseStep, SaveStep, BootStep, Gone

-----------------------------------------------------------------------------
(* Every step keeps the rest of the invariant. *)

\* wakePalmAfterStateSave makes no attempt beyond its last.
LEMMA AttemptStep ==
  ASSUME TypeOK, AttemptShape, [Next]_vars
  PROVE  AttemptShape'
PROOF
  <1> USE PowerConstants DEF AttemptShape, Go, LoopPhase
  <1>1. CASE LoopStep
    BY <1>1 DEF LoopStep, LoopHead, ServeNone, Touch, Run, RunDark, Burst, RanDark
  <1>2. CASE ServiceStep
    BY <1>2 DEF ServiceStep, ServeSave, ServeSwitch, ServeReset, loopVars
  <1>3. CASE PulseStep
    BY <1>3 DEF PulseStep, PressPower, Pulse, ReleasePower, AfterPulse
  <1>4. CASE SaveStep
    <2>1. CASE WakeStart BY <2>1 DEF WakeStart
    <2>2. CASE NextAttempt BY <2>2 DEF NextAttempt
    <2>3. CASE SettleSleep \/ SettleTimeout \/ Slept \/ Capture \/ SettleWake
      BY <2>3 DEF SettleSleep, SettleTimeout, Slept, Capture, SettleWake, loopVars
    <2>4. CASE FinishSave BY <2>4 DEF FinishSave, TypeOK
    <2> QED BY <1>4, <2>1, <2>2, <2>3, <2>4 DEF SaveStep
  <1>5. CASE BootStep BY <1>5 DEF BootStep, BootStart, BootSettle
  <1>6. CASE UNCHANGED vars BY <1>6 DEF vars, loopVars
  <1> QED BY <1>1, <1>2, <1>3, <1>4, <1>5, <1>6 DEF Next, Gone

\* What a service leaves of the touch.
LEMMA ServiceReleases ==
  ASSUME NEW preserve \in BOOLEAN, BeginService(preserve)
  PROVE  /\ ~cached' /\ ~nativePen' /\ ~wakeTouch' /\ bitsDown' = "none"
         /\ latch' = latch
PROOF
  BY DEF BeginService, ReleaseTouch, NoTouch, LeaveLowPower

\* Every step keeps the keys with the finger, and the services free of touches.
LEMMA KeysStep ==
  ASSUME IInv, [Next]_vars
  PROVE  KeysFollowFinger' /\ ServiceQuiet'
PROOF
  <1> DEFINE Follow == /\ hwPen = nativePen
                       /\ hwKeys = KeysOf(bitsDown)
                                     \cup (IF wakeTouch THEN {"power"} ELSE {})
  <1>0. TypeOK /\ KeysFollowFinger /\ ServiceQuiet BY DEF IInv
  <1>a. KeysOf("none") = {} BY TouchConstants DEF KeysOf
  <1> USE DEF KeysFollowFinger, ServiceQuiet, Go, PulsePhase
  <1>1. CASE Touch
    <2>1. phase \in LoopPhase /\ phase' \in LoopPhase BY <1>1 DEF Touch, LoopPhase
    <2>2. FeedPalm BY <1>1 DEF Touch, TouchPass, PassUnread, PassLifted, PassTouched
    <2>3. Follow' BY <1>0, <2>1, <2>2, FeedKeepsKeys DEF TypeOK
    <2> QED BY <2>1, <2>3
  <1>2. CASE LoopHead \/ ServeNone \/ Run \/ RunDark \/ Burst \/ RanDark
    <2>1. phase \in LoopPhase /\ phase' \in LoopPhase
      BY <1>2 DEF LoopHead, ServeNone, Run, RunDark, Burst, RanDark, LoopPhase
    <2>2. UNCHANGED <<hwPen, hwKeys, nativePen, bitsDown, wakeTouch>>
      BY <1>2 DEF LoopHead, ServeNone, Run, RunDark, Burst, RanDark, keyVars, touchVars
    <2> QED BY <1>0, <2>1, <2>2
  <1>3. CASE ServiceStep
    <2>1. ~cached' /\ ~nativePen' /\ ~wakeTouch' /\ bitsDown' = "none"
      BY <1>3, ServiceReleases DEF ServiceStep, ServeSave, ServeSwitch, ServeReset
    <2>2. ~hwPen' /\ hwKeys' = {} /\ phase' \notin PulsePhase
      BY <1>3 DEF ServiceStep, ServeSave, ServeSwitch, ServeReset, PrepareForSleepSnapshot, Serving
    <2>3. hwPen' = FALSE /\ nativePen' = FALSE
      BY <1>3, Zenon DEF ServiceStep, ServeSave, ServeSwitch, ServeReset, PrepareForSleepSnapshot,
                         BeginService, ReleaseTouch
    <2>4. KeysOf(bitsDown') = {} BY <2>1, <1>a
    <2> QED BY <2>1, <2>2, <2>3, <2>4
  <1>4. CASE PressPower
    BY <1>0, <1>4 DEF PressPower, SetPowerButton, touchVars, LoopPhase
  <1>5. CASE Pulse
    BY <1>0, <1>5 DEF Pulse, touchVars, LoopPhase
  <1>6. CASE ReleasePower
    BY <1>0, <1>6 DEF ReleasePower, PulseOver, AfterPulse, SetPowerButton, touchVars, LoopPhase
  <1>7. CASE SettleSleep
    BY <1>0, <1>7 DEF SettleSleep, touchVars, LoopPhase
  <1>8. CASE SettleTimeout \/ Slept \/ Capture \/ WakeStart \/ SettleWake \/ NextAttempt
               \/ BootStart
    <2> USE <1>0 DEF PrepareForSleepSnapshot, touchVars, keyVars, LoopPhase
    <2>1. CASE SettleTimeout
      <3>1. phase = "sleepSettle" /\ phase' \in {"slept", "wakeStart", "saved"}
        BY <2>1 DEF SettleTimeout
      <3>2. UNCHANGED <<touchVars, keyVars>> BY <2>1 DEF SettleTimeout
      <3> QED BY <3>1, <3>2
    <2>2. CASE Slept \/ WakeStart \/ BootStart
      <3>1. /\ phase \in {"slept", "wakeStart", "bootStart"}
            /\ phase' \in {"capture", "wakePress", "bootPress"}
        BY <2>2 DEF Slept, WakeStart, BootStart
      <3>2. UNCHANGED touchVars /\ ~hwPen' /\ hwKeys' = {}
        BY <2>2 DEF Slept, WakeStart, BootStart
      <3> QED BY <3>1, <3>2
    <2>3. CASE Capture \/ SettleWake BY <2>3 DEF Capture, SettleWake
    <2>4. CASE NextAttempt BY <2>4 DEF NextAttempt
    <2> QED BY <1>8, <2>1, <2>2, <2>3, <2>4
  <1>9. CASE FinishSave \/ BootSettle
    <2>1. phase' \in LoopPhase BY <1>0, <1>9 DEF FinishSave, BootSettle, TypeOK, LoopPhase
    <2>2. ~nativePen' /\ ~wakeTouch' /\ ~hwPen' /\ bitsDown' = "none" /\ hwKeys' = {}
      BY <1>0, <1>9 DEF FinishSave, BootSettle, touchVars, keyVars, LoopPhase
    <2>3. hwPen' = nativePen'
      <3>1. nativePen' \in BOOLEAN /\ hwPen' \in BOOLEAN
        BY <1>0, <1>9 DEF FinishSave, BootSettle, TypeOK, TouchTypeOK, touchVars, keyVars
      <3> QED BY <2>2, <3>1
    <2> QED BY <2>1, <2>2, <2>3, <1>a
  <1>10. CASE UNCHANGED vars
    BY <1>0, <1>10 DEF vars, touchVars, keyVars
  <1> QED
    BY <1>1, <1>2, <1>3, <1>4, <1>5, <1>6, <1>7, <1>8, <1>9, <1>10
    DEF Next, LoopStep, PulseStep, SaveStep, BootStep, Gone

\* No step leaves a request for the pass after it.
LEMMA RequestStep ==
  ASSUME IInv, [Next]_vars
  PROVE  NothingWaits'
PROOF
  <1>0. TypeOK /\ NothingWaits /\ HoldShape /\ ServiceQuiet BY DEF IInv
  <1> USE DEF NothingWaits, Go, BootPhase
  <1>1. CASE Touch
    <2>1. requests = {} BY <1>0, <1>1 DEF Touch
    <2>2. requests' # {} => ~cached'
      BY <1>0, <1>1, <2>1, TouchKeepsHolds DEF Touch, TypeOK
    <2> QED BY <1>1, <2>2 DEF Touch
  <1>2. CASE LoopHead \/ ServeNone \/ Run \/ RunDark \/ Burst \/ RanDark
    BY <1>0, <1>2 DEF LoopHead, ServeNone, Run, RunDark, Burst, RanDark, touchVars, holdVars
  <1>3. CASE ServiceStep
    BY <1>0, <1>3, ServiceReleases
    DEF ServiceStep, ServeSave, ServeSwitch, ServeReset, Serving
  <1>4. CASE PulseStep
    <2>1. UNCHANGED touchVars BY <1>4 DEF PulseStep, PressPower, Pulse, ReleasePower
    <2>2. CASE PressPower BY <1>0, <2>1, <2>2 DEF PressPower, touchVars, holdVars
    <2>3. CASE Pulse BY <1>0, <2>1, <2>3 DEF Pulse, touchVars, holdVars
    <2>4. CASE ReleasePower
      BY <1>0, <2>1, <2>4 DEF ReleasePower, AfterPulse, touchVars, holdVars
    <2> QED BY <1>4, <2>2, <2>3, <2>4 DEF PulseStep
  <1>5. CASE SaveStep
    <2>1. UNCHANGED touchVars
      BY <1>5 DEF SaveStep, SettleSleep, SettleTimeout, Slept, Capture, WakeStart, SettleWake,
                  NextAttempt, FinishSave
    <2>2. phase' \notin {"head", "touch", "run", "burst", "ran"} \cup BootPhase
      BY <1>0, <1>5 DEF SaveStep, SettleSleep, SettleTimeout, Slept, Capture, WakeStart, SettleWake,
                        NextAttempt, FinishSave, TypeOK
    <2> QED BY <1>0, <2>1, <2>2 DEF touchVars, holdVars
  <1>6. CASE BootStart
    BY <1>0, <1>6 DEF BootStart, touchVars, holdVars
  <1>7. CASE BootSettle
    BY <1>0, <1>7 DEF BootSettle, touchVars, holdVars
  <1>8. CASE UNCHANGED vars
    BY <1>0, <1>8 DEF vars, touchVars, holdVars
  <1> QED
    BY <1>1, <1>2, <1>3, <1>4, <1>5, <1>6, <1>7, <1>8 DEF Next, LoopStep, BootStep, Gone

\* Every step keeps the waking touch a touch of the screen that is no pen.
LEMMA WakeStep ==
  ASSUME IInv, [Next]_vars
  PROVE  WakeShape'
PROOF
  <1>0. WakeShape /\ NothingWaits /\ GuestRunsAtFullSpeed BY DEF IInv
  <1> USE DEF WakeShape
  <1>1. CASE Touch BY <1>0, <1>1, TouchKeepsWake DEF Touch
  <1>2. CASE LoopHead \/ ServeNone
    <2>1. UNCHANGED <<latch, cached, nativePen, wakeTouch, finger>>
      BY <1>2 DEF LoopHead, ServeNone
    <2>2. UpdateLowPower BY <1>2 DEF LoopHead, ServeNone
    <2> QED BY <1>0, <2>1, <2>2 DEF UpdateLowPower, EnterLowPower, LeaveLowPower
  <1>3. CASE RanDark
    <2>1. UNCHANGED <<latch, cached, nativePen, wakeTouch, finger>> BY <1>3 DEF RanDark
    <2>2. LeaveLowPower \/ UNCHANGED <<lowPower, requireRelease, pollDue>> BY <1>3 DEF RanDark
    <2>3. CASE LeaveLowPower BY <1>0, <2>1, <2>3 DEF LeaveLowPower
    <2>4. CASE UNCHANGED <<lowPower, requireRelease, pollDue>> BY <1>0, <2>1, <2>4
    <2> QED BY <2>2, <2>3, <2>4
  <1>4. CASE ServiceStep
    <2>1. requests # {} /\ UNCHANGED finger
      BY <1>4 DEF ServiceStep, ServeSave, ServeSwitch, ServeReset, Serving
    <2>2. PICK preserve \in BOOLEAN : BeginService(preserve)
      BY <1>4 DEF ServiceStep, ServeSave, ServeSwitch, ServeReset
    <2>3. ~cached' /\ ~wakeTouch' BY <2>2, ServiceReleases
    <2>4. ~wakeTouch /\ ~finger.woke BY <1>0, <2>1 DEF NothingWaits
    <2>5. requireRelease' => lowPower'
      BY <1>0, <2>2 DEF BeginService, LeaveLowPower
    <2> QED BY <2>1, <2>3, <2>4, <2>5
  <1>5. CASE UNCHANGED <<touchVars, finger, lowPower>>
    BY <1>0, <1>5 DEF touchVars
  <1>6. CASE Run \/ RunDark \/ Burst \/ PulseStep \/ SaveStep \/ BootStep \/ UNCHANGED vars
    BY <1>5, <1>6 DEF Run, RunDark, Burst, PulseStep, SaveStep, BootStep, PressPower, Pulse,
       ReleasePower, SettleSleep, SettleTimeout, Slept, Capture, WakeStart, SettleWake, NextAttempt,
       FinishSave, BootStart, BootSettle, vars
  <1> QED BY <1>1, <1>2, <1>3, <1>4, <1>6 DEF Next, LoopStep, Gone

\* Every step keeps a hold no older than the finger that holds.
LEMMA HoldStep ==
  ASSUME IInv, [Next]_vars
  PROVE  HoldShape'
PROOF
  <1>0. TypeOK /\ HoldShape /\ NothingWaits BY DEF IInv
  <1>1. CASE Touch
    BY <1>0, <1>1, TouchKeepsHolds DEF Touch, TypeOK, NothingWaits
  <1>2. CASE ServiceStep
    <2>1. PICK preserve \in BOOLEAN : BeginService(preserve)
      BY <1>2 DEF ServiceStep, ServeSave, ServeSwitch, ServeReset
    <2>2. UNCHANGED <<finger, latch>> /\ bitsDown' = "none"
      BY <1>2, <2>1, ServiceReleases DEF ServiceStep, ServeSave, ServeSwitch, ServeReset
    <2>3. saveHold' = saveHold \cap {"gate"}
      BY <2>1, Zenon DEF BeginService, ReleaseTouch, DropSaveHold
    <2>4. \/ resetHold' = resetHold /\ resetAge' = resetAge
          \/ resetHold' = resetHold \cap {"gate"} /\ resetAge' = 0
      BY <2>1, Zenon DEF BeginService, ReleaseTouch, DropResetHold
    <2>5. SaveShape' BY <1>0, <2>2, <2>3 DEF HoldShape, SaveShape
    <2>6. ResetShape' BY <1>0, <2>2, <2>4 DEF HoldShape, ResetShape
    <2>7. BitsShape' BY <2>2 DEF BitsShape, HoldButton
    <2> QED BY <2>5, <2>6, <2>7 DEF HoldShape
  <1>3. CASE UNCHANGED <<latch, bitsDown, holdVars, sinceSeen, finger>>
    BY <1>0, <1>3 DEF holdVars, HoldShape, SaveShape, ResetShape, BitsShape
  <1>4. CASE LoopHead \/ ServeNone \/ Run \/ RunDark \/ Burst \/ RanDark
    BY <1>3, <1>4 DEF LoopHead, ServeNone, Run, RunDark, Burst, RanDark, touchVars
  <1>5. CASE PulseStep \/ SaveStep \/ BootStep \/ UNCHANGED vars
    BY <1>3, <1>5 DEF PulseStep, SaveStep, BootStep, PressPower, Pulse, ReleasePower, SettleSleep,
       SettleTimeout, Slept, Capture, WakeStart, SettleWake, NextAttempt, FinishSave, BootStart,
       BootSettle, vars, touchVars
  <1> QED BY <1>1, <1>2, <1>4, <1>5 DEF Next, LoopStep, Gone

\* Every step keeps the clock fast wherever the guest may run.
LEMMA ClockStep ==
  ASSUME IInv, [Next]_vars
  PROVE  GuestRunsAtFullSpeed'
PROOF
  <1>0. GuestRunsAtFullSpeed /\ TypeOK BY DEF IInv
  <1> USE <1>0 DEF GuestRunsAtFullSpeed, LoopPhase, Go
  <1>1. CASE LoopHead \/ ServeNone
    <2>1. phase' \in {"serve", "touch", "run"} /\ phase \in LoopPhase /\ UpdateLowPower
      BY <1>1 DEF LoopHead, ServeNone
    <2>2. CASE ~asleep /\ lowPower
      <3>1. lowPower' = FALSE /\ mhz' = ActiveMhz BY <2>1, <2>2 DEF UpdateLowPower, LeaveLowPower
      <3>2. ~lowPower' BY <3>1, Zenon
      <3> QED BY <2>1, <3>1, <3>2
    <2>3. CASE asleep /\ ~lowPower /\ ~wakeTouch
      <3>1. lowPower' = TRUE /\ wakeService' = FALSE /\ mhz' = SleepMhz
        BY <2>1, <2>3 DEF UpdateLowPower, EnterLowPower
      <3>2. lowPower' /\ ~wakeService' BY <3>1, Zenon
      <3> QED BY <2>1, <3>1, <3>2
    <2>4. CASE ~(~asleep /\ lowPower) /\ ~(asleep /\ ~lowPower /\ ~wakeTouch)
      <3>1. UNCHANGED <<lowPower, mhz, wakeService>>
        BY <2>1, <2>4 DEF UpdateLowPower, modeVars
      <3> QED BY <2>1, <3>1
    <2> QED BY <2>2, <2>3, <2>4
  <1>2. CASE Touch \/ Burst \/ Run
    BY <1>2 DEF Touch, Burst, Run, modeVars
  <1>3. CASE RunDark
    BY <1>3 DEF RunDark, SetWakeService
  <1>4. CASE RanDark
    <2>1. phase' = "head" BY <1>4 DEF RanDark
    <2>2. mhz' = IF lowPower' /\ ~wakeService' THEN SleepMhz ELSE ActiveMhz
      <3>1. CASE LeaveLowPower BY <3>1 DEF LeaveLowPower
      <3>2. CASE SetWakeService(FALSE) /\ UNCHANGED lowPower
        <4>1. CASE lowPower /\ wakeService
          <5>1. wakeService' = FALSE /\ mhz' = SleepMhz
            BY <3>2, <4>1 DEF SetWakeService
          <5>2. ~wakeService' BY <5>1, Zenon
          <5> QED BY <3>2, <4>1, <5>1, <5>2
        <4>2. CASE ~(lowPower /\ wakeService)
          <5>1. wakeService \in BOOLEAN BY DEF TypeOK
          <5>2. ~(lowPower /\ FALSE # wakeService) BY <4>2, <5>1
          <5>3. UNCHANGED <<wakeService, mhz>> BY <3>2, <5>2 DEF SetWakeService
          <5> QED BY <3>2, <5>3
        <4> QED BY <4>1, <4>2
      <3>3. CASE UNCHANGED <<lowPower, modeVars>> BY <3>3 DEF modeVars
      <3> QED BY <1>4, <3>1, <3>2, <3>3 DEF RanDark
    <2> QED BY <2>1, <2>2
  <1>5. CASE ServiceStep
    <2>1. PICK preserve \in BOOLEAN : BeginService(preserve)
      BY <1>5 DEF ServiceStep, ServeSave, ServeSwitch, ServeReset
    <2>2. ~lowPower' /\ mhz' = ActiveMhz
      BY <2>1 DEF BeginService, LeaveLowPower
    <2> QED BY <2>2
  <1>6. CASE UNCHANGED <<lowPower, mhz, wakeService>> /\ phase \notin LoopPhase /\ phase' # "burst"
    BY <1>6
  <1>7. CASE PulseStep
    BY <1>6, <1>7 DEF PulseStep, PressPower, Pulse, ReleasePower, PulseOver, AfterPulse, modeVars
  <1>8. CASE SaveStep
    BY <1>6, <1>8 DEF SaveStep, SettleSleep, SettleTimeout, Slept, Capture, WakeStart, SettleWake,
                      NextAttempt, FinishSave, modeVars, TypeOK
  <1>9. CASE BootStep BY <1>6, <1>9 DEF BootStep, BootStart, BootSettle, modeVars
  <1>10. CASE UNCHANGED vars BY <1>10 DEF vars, modeVars
  <1> QED
    BY <1>1, <1>2, <1>3, <1>4, <1>5, <1>7, <1>8, <1>9, <1>10 DEF Next, LoopStep, Gone

\* The two invariants of the panel in one.
PanelInv == PanelFollowsGuest /\ PanelShape

\* Every step keeps the panel with the guest.
LEMMA PanelStep ==
  ASSUME IInv, [Next]_vars
  PROVE  PanelInv'
PROOF
  <1>0. PanelInv /\ TypeOK /\ ServiceQuiet /\ GuestRunsAtFullSpeed BY DEF IInv, PanelInv
  <1> USE <1>0 DEF PanelInv, PanelFollowsGuest, PanelShape, LoopPhase, BootPhase, Go
  <1>1. CASE LoopHead \/ ServeNone
    <2>1. /\ phase \in {"head", "serve", "serveAgain"} /\ phase' \in {"serve", "touch", "run"}
          /\ UpdateLowPower /\ UNCHANGED <<asleep, wakeTouch>>
      BY <1>1 DEF LoopHead, ServeNone
    <2>2. CASE ~asleep /\ lowPower
      BY <2>1, <2>2 DEF UpdateLowPower, LeaveLowPower, SetPanelOutput
    <2>3. CASE asleep /\ ~lowPower /\ ~wakeTouch
      BY <2>1, <2>3 DEF UpdateLowPower, EnterLowPower
    <2>4. CASE ~(~asleep /\ lowPower) /\ ~(asleep /\ ~lowPower /\ ~wakeTouch)
      BY <2>1, <2>4 DEF UpdateLowPower, modeVars
    <2> QED BY <2>2, <2>3, <2>4
  <1>2. CASE Touch
    BY <1>2 DEF Touch, modeVars
  <1>3. CASE Run \/ Burst
    BY <1>3 DEF Run, Burst, modeVars, touchVars
  <1>4. CASE RunDark
    <2>1. lowPower /\ ~panelOn /\ UNCHANGED <<lowPower, panelOn>> /\ phase' \in {"burst", "head"}
      BY <1>4 DEF RunDark
    <2> QED BY <2>1
  <1>5. CASE RanDark
    <2>1. lowPower /\ ~panelOn /\ phase' = "head" BY <1>5 DEF RanDark
    <2>2. CASE LeaveLowPower BY <2>1, <2>2 DEF LeaveLowPower, SetPanelOutput
    <2>3. CASE UNCHANGED <<lowPower, panelOn>> BY <2>1, <2>3
    <2> QED BY <1>5, <2>2, <2>3 DEF RanDark, modeVars
  <1>6. CASE ServiceStep
    <2>1. PICK preserve \in BOOLEAN : BeginService(preserve)
      BY <1>6 DEF ServiceStep, ServeSave, ServeSwitch, ServeReset
    <2>2. ~lowPower' /\ panelOn' /\ ~needsRestart'
      BY <2>1 DEF BeginService, LeaveLowPower, SetPanelOutput
    <2>3. phase' \notin {"touch", "run", "ran"}
      BY <1>6 DEF ServiceStep, ServeSave, ServeSwitch, ServeReset, Serving
    <2> QED BY <2>2, <2>3
  <1>7. CASE PulseStep
    <2>1. UNCHANGED <<panelOn, needsRestart, lowPower>>
      BY <1>7 DEF PulseStep, PressPower, Pulse, ReleasePower, modeVars
    <2>2. phase' \notin LoopPhase /\ (phase' \in BootPhase => phase \in BootPhase)
      BY <1>7 DEF PulseStep, PressPower, Pulse, ReleasePower, AfterPulse, PulseOver
    <2> QED BY <2>1, <2>2
  <1>8. CASE FinishSave
    <2>1. ~lowPower /\ ~wakeTouch /\ UNCHANGED <<lowPower, asleep, wakeTouch>>
      BY <1>8 DEF FinishSave, ServiceQuiet, GuestRunsAtFullSpeed, touchVars
    <2>2. SetPanelOutput(~asleep) /\ phase' \in {"serve", "serveAgain"}
      BY <1>8 DEF FinishSave, TypeOK
    <2> QED BY <2>1, <2>2 DEF SetPanelOutput
  <1>9. CASE SettleSleep \/ SettleTimeout \/ Slept \/ Capture \/ WakeStart \/ SettleWake
               \/ NextAttempt
    <2>1. phase' \notin LoopPhase \cup BootPhase
      BY <1>9 DEF SettleSleep, SettleTimeout, Slept, Capture, WakeStart, SettleWake, NextAttempt
    <2>2. lowPower' = lowPower
      BY <1>9 DEF SettleSleep, SettleTimeout, Slept, Capture, WakeStart, SettleWake, NextAttempt
    <2>3. SetPanelOutput(FALSE) \/ UNCHANGED <<panelOn, needsRestart>>
      BY <1>9 DEF SettleSleep, SettleTimeout, Slept, Capture, WakeStart, SettleWake, NextAttempt,
                  modeVars
    <2> QED BY <2>1, <2>2, <2>3 DEF SetPanelOutput
  <1>10. CASE BootStep
    BY <1>10 DEF BootStep, BootStart, BootSettle, modeVars, GuestRunsAtFullSpeed
  <1>11. CASE UNCHANGED vars BY <1>11 DEF vars, modeVars, touchVars
  <1> QED
    BY <1>1, <1>2, <1>3, <1>4, <1>5, <1>6, <1>7, <1>8, <1>9, <1>10, <1>11
    DEF Next, LoopStep, SaveStep, Gone

\* What is captured sleeps with quiet keys, however the settle loop ended.
LEMMA SleptStep ==
  ASSUME IInv, [Next]_vars
  PROVE  SleptQuiet'
PROOF
  <1>0. SleptQuiet /\ TypeOK BY DEF IInv
  <1> USE <1>0 DEF SleptQuiet, Go
  <1>1. CASE SettleSleep BY <1>1 DEF SettleSleep
  <1>2. CASE SettleTimeout BY <1>2 DEF SettleTimeout, InputsQuiet, keyVars
  <1>3. CASE Slept BY <1>3 DEF Slept, PrepareForSleepSnapshot, Quieted
  <1>4. CASE LoopStep
    BY <1>4 DEF LoopStep, LoopHead, ServeNone, Touch, Run, RunDark, Burst, RanDark
  <1>5. CASE ServiceStep
    BY <1>5 DEF ServiceStep, ServeSave, ServeSwitch, ServeReset, Serving
  <1>6. CASE PulseStep BY <1>6 DEF PulseStep, PressPower, Pulse, ReleasePower, AfterPulse, PulseOver
  <1>7. CASE Capture \/ WakeStart \/ SettleWake \/ NextAttempt \/ FinishSave
    BY <1>7 DEF Capture, WakeStart, SettleWake, NextAttempt, FinishSave, TypeOK
  <1>8. CASE BootStep BY <1>8 DEF BootStep, BootStart, BootSettle
  <1>9. CASE UNCHANGED vars BY <1>9 DEF vars, keyVars
  <1> QED
    BY <1>1, <1>2, <1>3, <1>4, <1>5, <1>6, <1>7, <1>8, <1>9 DEF Next, SaveStep, Gone

-----------------------------------------------------------------------------
(* The theorems. *)

\* setup() leaves the loop in the invariant, cold or restored.
LEMMA InitInv ==
  Init => IInv
PROOF
  <1> SUFFICES ASSUME Init PROVE IInv
    OBVIOUS
  <1> USE TouchConstants, PowerConstants
  <1>1. TypeOK
    <2>1. /\ cached \in BOOLEAN /\ candidate \in BOOLEAN /\ pollDue \in BOOLEAN
          /\ nativePen \in BOOLEAN /\ wakeTouch \in BOOLEAN /\ requireRelease \in BOOLEAN
      BY Zenon DEF Init
    <2>2. /\ lowPower \in BOOLEAN /\ asleep \in BOOLEAN /\ hwPen \in BOOLEAN
          /\ wakeService \in BOOLEAN /\ panelOn \in BOOLEAN /\ needsRestart \in BOOLEAN
      BY Zenon DEF Init
    <2>3. other \in BOOLEAN
      <3>1. CASE asleep BY <3>1 DEF Init
      <3>2. CASE ~asleep
        <4>1. other = FALSE BY <3>2 DEF Init
        <4> QED BY <4>1, Zenon
      <3> QED BY <3>1, <3>2
    <2>4. TouchTypeOK
      <3>1. /\ saveAge = 0 /\ resetAge = 0 /\ sinceSeen = 0 /\ sinceTouch = 0 /\ candidateAge = 0
            /\ finger.place = "none" /\ finger.time = 0 /\ finger.gap = 0 /\ finger.asked = {}
            /\ saveHold = {} /\ resetHold = {} /\ requests = {} /\ latch = "none"
            /\ bitsDown = "none"
        BY DEF Init, NoFinger
      <3>2. /\ saveAge \in 0 .. SaveHoldMs /\ resetAge \in 0 .. SwitchHoldMs
            /\ sinceSeen \in 0 .. GraceMs + 1 /\ sinceTouch \in 0 .. DebounceMs
            /\ candidateAge \in 0 .. StableMs
            /\ finger.time \in 0 .. SwitchHoldMs /\ finger.gap \in 0 .. GraceMs + 1
        BY <3>1
      <3>3. /\ latch \in Place \cup {"none"} /\ bitsDown \in Button \cup {"none"}
            /\ finger.place \in Place \cup {"none"}
            /\ saveHold \subseteq {"active", "gate"}
            /\ resetHold \subseteq {"active", "triggered", "gate"}
            /\ requests \subseteq {"save", "reset", "switch"}
            /\ finger.asked \subseteq {"save", "switch"}
        BY <3>1
      <3> QED BY <2>1, <3>2, <3>3, Zenon DEF TouchTypeOK
    <2>5. /\ hwKeys \subseteq HwButton /\ keyPending \in {"none", "edge", "level"}
          /\ phase \in Phase /\ resume \in {"serve", "serveAgain"}
          /\ count \in Nat /\ quietFor \in 0 .. SettleMs /\ attempt \in 0 .. WakeAttempts
          /\ mhz \in {ActiveMhz, SleepMhz}
      BY DEF Init, Phase, LoopPhase, BootPhase
    <2> QED BY <2>2, <2>3, <2>4, <2>5, Zenon DEF TypeOK
  <1>2. KeysFollowFinger /\ ServiceQuiet
    <2>1. /\ hwPen = nativePen /\ hwKeys = {} /\ bitsDown = "none" /\ ~wakeTouch /\ ~cached
          /\ ~nativePen /\ ~hwPen /\ phase \notin PulsePhase
      BY DEF Init, PulsePhase
    <2> QED BY <2>1 DEF KeysFollowFinger, ServiceQuiet, KeysOf
  <1>3. NothingWaits /\ AttemptShape /\ SleptQuiet
    BY DEF Init, NothingWaits, AttemptShape, SleptQuiet
  <1>4. WakeShape
    <2>1. ~wakeTouch /\ ~cached /\ ~requireRelease /\ ~finger.woke BY DEF Init, NoFinger
    <2> QED BY <2>1 DEF WakeShape
  <1>5. HoldShape
    BY DEF Init, NoFinger, HoldShape, SaveShape, ResetShape, BitsShape, HoldButton
  <1>6. GuestRunsAtFullSpeed /\ PanelFollowsGuest /\ PanelShape
    BY DEF Init, GuestRunsAtFullSpeed, PanelFollowsGuest, PanelShape
  <1> QED BY <1>1, <1>2, <1>3, <1>4, <1>5, <1>6 DEF IInv

\* Every step keeps the invariant.
LEMMA StepInv ==
  IInv /\ [Next]_vars => IInv'
PROOF
  <1> SUFFICES ASSUME IInv, [Next]_vars PROVE IInv'
    OBVIOUS
  <1>1. TypeOK' BY TypeStep DEF IInv
  <1>2. AttemptShape' BY AttemptStep DEF IInv
  <1>3. PanelFollowsGuest' /\ PanelShape' BY PanelStep DEF PanelInv
  <1> QED BY <1>1, <1>2, <1>3, KeysStep, RequestStep, WakeStep, HoldStep, ClockStep, SleptStep
          DEF IInv

\* The invariant the other theorems are read off holds for all times.
THEOREM Invariance == Spec => []IInv
PROOF
  BY InitInv, StepInv, PTL DEF Spec

\* Every variable keeps its type and no age outgrows what looks at it, for all times.
THEOREM TypeCorrect == Spec => []TypeOK
PROOF
  <1>1. IInv => TypeOK BY DEF IInv
  <1> QED BY Invariance, <1>1, PTL

\* Between the services the guest's pen and keys are those of the touch: none stays stuck.
THEOREM KeysAlwaysFollow == Spec => []KeysFollowFinger
PROOF
  <1>1. IInv => KeysFollowFinger BY DEF IInv
  <1> QED BY Invariance, <1>1, PTL

\* The clock is slow only where no guest runs.
THEOREM GuestAlwaysAtFullSpeed == Spec => []GuestRunsAtFullSpeed
PROOF
  <1>1. IInv => GuestRunsAtFullSpeed BY DEF IInv
  <1> QED BY Invariance, <1>1, PTL

\* The panel is dark and lit with the guest, and lit only with its DMA in step.
THEOREM PanelAlwaysFollows == Spec => []PanelFollowsGuest
PROOF
  <1>1. IInv => PanelFollowsGuest BY DEF IInv
  <1> QED BY Invariance, <1>1, PTL

\* Clock and panel stay in step with the guest.
THEOREM PowerAlwaysFollows == Spec => []PowerFollowsGuest
PROOF
  <1>1. IInv => PowerFollowsGuest BY DEF IInv, PowerFollowsGuest
  <1> QED BY Invariance, <1>1, PTL

\* A snapshot is only ever captured of a sleeping guest without a key or a touch.
THEOREM CaptureAlwaysQuiet == Spec => []CaptureIsQuiet
PROOF
  <1>1. IInv => CaptureIsQuiet
    BY DEF IInv, SleptQuiet, ServiceQuiet, CaptureIsQuiet, InputsQuiet, LoopPhase, PulsePhase
  <1> QED BY Invariance, <1>1, PTL

\* The finger that woke the guest is not its pen before it has lifted.
THEOREM WakingFingerNeverPen == Spec => []WakingFingerNeverTaps
PROOF
  <1>1. ASSUME IInv PROVE WakingFingerNeverTaps
    <2>1. finger.woke => ~nativePen /\ wakeTouch BY <1>1 DEF IInv, WakeShape
    <2>2. CASE phase \in LoopPhase
      BY <1>1, <2>1, <2>2 DEF IInv, KeysFollowFinger, WakingFingerNeverTaps
    <2>3. CASE phase \notin LoopPhase
      BY <1>1, <2>3 DEF IInv, ServiceQuiet, WakingFingerNeverTaps
    <2> QED BY <2>2, <2>3
  <1> QED BY Invariance, <1>1, PTL

\* The guard of before the sleep never holds back a waking touch.
THEOREM WakeTouchAlwaysServed == Spec => []WakeTouchIsServed
PROOF
  <1>1. IInv => WakeTouchIsServed BY DEF IInv, WakeShape, WakeTouchIsServed
  <1> QED BY Invariance, <1>1, PTL

\* Every save, reset and switch is asked for by a finger that held for the whole time.
THEOREM HoldsAlwaysEarned == Spec => HoldsAreEarned
PROOF
  <1> DEFINE Earned ==
        /\ "save" \in requests' \ requests =>
             finger'.place = "save" /\ finger'.time >= SaveHoldMs /\ "save" \notin finger.asked
        /\ "reset" \in requests' \ requests =>
             finger'.place = "reset" /\ finger'.time >= ResetHoldMs
        /\ "switch" \in requests' \ requests =>
             finger'.place = "reset" /\ finger'.time >= SwitchHoldMs /\ "switch" \notin finger.asked
  <1>1. ASSUME IInv, [Next]_vars PROVE [Earned]_vars
    <2>1. CASE Touch
      <3>1. requests = {} /\ TouchTypeOK /\ HoldShape /\ TouchPass
        BY <1>1, <2>1 DEF IInv, TypeOK, NothingWaits, Touch
      <3> QED BY <3>1, TouchEarns
    <2>2. CASE requests' \subseteq requests BY <2>2
    <2>3. CASE LoopHead \/ ServeNone \/ Run \/ RunDark \/ Burst \/ RanDark
      BY <2>2, <2>3 DEF LoopHead, ServeNone, Run, RunDark, Burst, RanDark, touchVars, holdVars
    <2>4. CASE ServiceStep
      BY <2>2, <2>4 DEF ServiceStep, ServeSave, ServeSwitch, ServeReset, Serving
    <2>5. CASE PulseStep \/ SaveStep \/ BootStep
      <3>1. UNCHANGED touchVars
        BY <2>5 DEF PulseStep, SaveStep, BootStep, PressPower, Pulse, ReleasePower, SettleSleep,
           SettleTimeout, Slept, Capture, WakeStart, SettleWake, NextAttempt, FinishSave, BootStart,
           BootSettle
      <3> QED BY <2>2, <3>1 DEF touchVars, holdVars
    <2> QED BY <1>1, <2>1, <2>3, <2>4, <2>5 DEF Next, LoopStep, Gone
  <1> QED BY Invariance, <1>1, PTL DEF Spec, HoldsAreEarned


-----------------------------------------------------------------------------
(* The snapshot store *)

\* Every part whose section is in the file is the captured one.
Agrees(f) == \A p \in Part : SectionOf(p) <= f.size => f.data[p] = captured[p]

\* What the temporary file holds while a save is under way.
SavingInv ==
  /\ pc = "write" => /\ tmp.kind = "native" /\ tmp.size < Last
                     /\ captured = machine /\ Agrees(tmp)
  /\ pc = "close" => /\ tmp.kind = "native" /\ tmp.size = Last /\ Agrees(tmp)
  /\ pc \in {"swap", "rename"} =>
       /\ tmp.kind = "native" /\ Agrees(tmp)
       /\ tmp.size = Last \/ tails = "lost"

\* What the machine holds while a boot is under way.
Restoring(from, to) == machine = [p \in Part |-> IF p \in from .. to THEN final.data[p] ELSE 0]
BootingInv ==
  /\ pc = "open" => machine = Cold /\ restored = "no"
  /\ pc = "restore" =>
       /\ restored = "no"
       /\ \/ /\ Whole(final) /\ at \in 2 .. Last
             /\ IF at = 2 THEN machine = Cold ELSE Restoring(1, at - 1)
          \/ /\ final.kind = "raw" /\ at \in 3 .. Last - 1
             /\ Restoring(3, at - 1)

StoreInv == StoreTypeOK /\ SavingInv /\ BootingInv /\ FinalIsCommitted

-----------------------------------------------------------------------------
\* Each part is stored in a section.
LEMMA SectionRange ==
  ASSUME NEW p \in Part PROVE SectionOf(p) \in 1 .. Last
BY StoreConstants DEF Part, SectionOf

\* The cold and the earlier machine are machines, and the empty files are files.
LEMMA Contents == Cold \in Content /\ Earlier \in Content /\ NoFile \in File /\ NewFile \in File
BY StoreConstants DEF Cold, Earlier, Content, NoFile, NewFile, File

\* A file that lost its end still agrees with what was captured, as far as it goes.
LEMMA TruncatedFile ==
  ASSUME NEW f \in File, NEW n \in 0 .. Last, Agrees(f), n <= f.size
  PROVE  /\ Truncated(f, n) \in File /\ Truncated(f, n).kind = f.kind
         /\ Truncated(f, n).size = n /\ Agrees(Truncated(f, n))
<1>1. Truncated(f, n) \in File
  BY StoreConstants DEF Truncated, File, Content
<1>2. ASSUME NEW p \in Part, SectionOf(p) <= n PROVE Truncated(f, n).data[p] = captured[p]
  <2>1. SectionOf(p) <= f.size
    BY <1>2, SectionRange DEF File
  <2>2. Truncated(f, n).data[p] = f.data[p]
    BY <1>2 DEF Truncated
  <2> QED BY <2>1, <2>2 DEF Agrees
<1> QED BY <1>1, <1>2 DEF Truncated, Agrees

\* A whole file that agrees with the captured machine is the captured machine.
LEMMA WholeAgrees ==
  ASSUME NEW f \in File, f.size = Last, Agrees(f), captured \in Content
  PROVE  f.data = captured
<1>1. ASSUME NEW p \in Part PROVE f.data[p] = captured[p]
  BY SectionRange, StoreConstants DEF Agrees
<1> QED BY <1>1 DEF File, Content

-----------------------------------------------------------------------------
\* The invariant holds before the first boot.
LEMMA StoreInvInit == StoreInit => StoreInv
<1> SUFFICES ASSUME StoreInit PROVE StoreInv
  OBVIOUS
<1>1. final \in File
  BY Contents, StoreConstants DEF StoreInit, File
<1>2. StoreTypeOK
  BY <1>1, Contents, StoreConstants DEF StoreInit, StoreTypeOK
<1>3. FinalIsCommitted
  BY DEF StoreInit, FinalIsCommitted, Whole
<1> QED BY <1>2, <1>3 DEF StoreInit, StoreInv, SavingInv, BootingInv

\* A boot keeps it, whether it restores or not.
LEMMA StoreBoot == StoreInv /\ Boot => StoreInv'
<1> SUFFICES ASSUME StoreInv, Boot PROVE StoreInv'
  OBVIOUS
<1> USE DEF StoreInv
<1>1. CASE PowerOn
  <2>1. StoreTypeOK'
    BY <1>1, Contents DEF PowerOn, StoreTypeOK, card
  <2> QED BY <1>1, <2>1 DEF PowerOn, SavingInv, BootingInv, FinalIsCommitted, Whole, card
<1>2. CASE FindsNothing \/ RestoreFails
  <2>1. StoreTypeOK'
    BY <1>2, StoreConstants DEF FindsNothing, RestoreFails, StoreTypeOK, card
  <2> QED BY <1>2, <2>1 DEF FindsNothing, RestoreFails, SavingInv, BootingInv, FinalIsCommitted,
                            Whole, card
<1>3. CASE FindsNative
  <2>1. StoreTypeOK'
    BY <1>3, StoreConstants DEF FindsNative, StoreTypeOK, card
  <2>2. BootingInv'
    BY <1>3, StoreConstants DEF FindsNative, BootingInv, card, Whole
  <2> QED BY <1>3, <2>1, <2>2 DEF FindsNative, SavingInv, FinalIsCommitted, Whole, card
<1>4. CASE FindsRaw
  <2>1. StoreTypeOK'
    BY <1>4, StoreConstants DEF FindsRaw, StoreTypeOK, card
  <2>2. Restoring(3, 2)
    BY <1>4 DEF FindsRaw, BootingInv, Cold, Restoring
  <2>3. BootingInv'
    BY <1>4, <2>2, StoreConstants DEF FindsRaw, BootingInv, card, Restoring
  <2> QED BY <1>4, <2>1, <2>3 DEF FindsRaw, SavingInv, FinalIsCommitted, Whole, card
<1>5. CASE RestoreSection
  <2> DEFINE limit == IF final.kind = "raw" THEN Last - 1 ELSE Last
  <2>1. machine' \in Content
    BY <1>5 DEF RestoreSection, Loaded, StoreTypeOK, Content, File
  <2>2. at \in 2 .. limit /\ limit \in 3 .. Last
    BY <1>5, StoreConstants DEF RestoreSection, BootingInv, Whole
  <2>3. final \in File /\ final.kind \in {"native", "raw"} /\ final' = final
    BY <1>5 DEF RestoreSection, BootingInv, Whole, StoreTypeOK, card
  <2>4. (at' \in 0 .. Last) /\ (pc' = pc \/ pc' = "run") /\ (restored' = restored \/ restored' = final.kind)
    BY <1>5, <2>2, StoreConstants DEF RestoreSection
  <2>5. StoreTypeOK'
    BY <1>5, <2>1, <2>3, <2>4 DEF RestoreSection, StoreTypeOK, card
  <2>6. ASSUME at < limit PROVE BootingInv'
    <3>1. at' = at + 1 /\ pc' = "restore" /\ restored' = "no" /\ at # Last
      BY <1>5, <2>2, <2>6, StoreConstants DEF RestoreSection, BootingInv
    <3>2. machine' = [p \in Part |-> IF p \in PartsRead THEN final.data[p] ELSE machine[p]]
      BY <1>5 DEF RestoreSection, Loaded
    <3>3. PartsRead = IF at = 2 THEN {1, 2} ELSE {at}
      BY <3>1 DEF PartsRead
    <3>4. CASE Whole(final)
      <4>1. limit = Last /\ at' \in 3 .. Last
        BY <3>1, <3>4, <2>2, <2>6, StoreConstants DEF Whole
      <4>2. machine' = [p \in Part |-> IF p \in 1 .. at THEN final.data[p] ELSE 0]
        <5>1. CASE at = 2
          <6>1. machine = Cold
            BY <5>1, <3>4, <1>5 DEF BootingInv, RestoreSection, Whole
          <6>2. PartsRead = 1 .. at
            BY <3>3, <5>1
          <6> QED BY <6>1, <6>2, <3>2 DEF Cold
        <5>2. CASE at # 2
          <6>1. Restoring(1, at - 1)
            BY <5>2, <3>4, <1>5 DEF BootingInv, RestoreSection, Whole
          <6>2. PartsRead = {at}
            BY <5>2, <3>3
          <6>3. \A p \in Part : p \in 1 .. at <=> p \in 1 .. at - 1 \/ p = at
            BY <2>2, StoreConstants DEF Part
          <6> QED BY <6>1, <6>2, <6>3, <3>2 DEF Restoring
        <5> QED BY <5>1, <5>2
      <4>3. at' - 1 = at
        BY <3>1, <2>2
      <4>4. Restoring(1, at - 1)'
        BY <4>2, <4>3, <2>3 DEF Restoring
      <4> QED BY <4>1, <4>4, <3>1, <3>4, <2>3 DEF BootingInv, Whole
    <3>5. CASE ~Whole(final)
      <4>1. final.kind = "raw" /\ at \in 3 .. Last - 1 /\ Restoring(3, at - 1)
        BY <3>5, <1>5 DEF BootingInv, RestoreSection
      <4>2. PartsRead = {at}
        BY <3>3, <4>1, StoreConstants
      <4>3. \A p \in Part : p \in 3 .. at <=> p \in 3 .. at - 1 \/ p = at
        BY <4>1, StoreConstants DEF Part
      <4>4. machine' = [p \in Part |-> IF p \in 3 .. at THEN final.data[p] ELSE 0]
        BY <4>1, <4>2, <4>3, <3>2 DEF Restoring
      <4>5. at' - 1 = at /\ at' \in 3 .. Last - 1
        BY <3>1, <4>1, <2>6, StoreConstants
      <4>6. Restoring(3, at - 1)'
        BY <4>4, <4>5, <2>3 DEF Restoring
      <4> QED BY <4>1, <4>5, <4>6, <3>1, <2>3 DEF BootingInv
    <3> QED BY <3>4, <3>5
  <2>7. ASSUME ~(at < limit) PROVE BootingInv'
    BY <1>5, <2>7 DEF RestoreSection, BootingInv
  <2> QED BY <1>5, <2>5, <2>6, <2>7 DEF RestoreSection, SavingInv, FinalIsCommitted, Whole, card
<1> QED BY <1>1, <1>2, <1>3, <1>4, <1>5 DEF Boot

\* A save keeps it, at every step and every failure.
LEMMA StoreSave == StoreInv /\ Save => StoreInv'
<1> SUFFICES ASSUME StoreInv, Save PROVE StoreInv'
  OBVIOUS
<1> USE DEF StoreInv
<1>1. CASE SaveBegins
  <2>1. StoreTypeOK'
    BY <1>1, Contents DEF SaveBegins, StoreTypeOK
  <2>2. SavingInv'
    <3>1. \A p \in Part : ~(SectionOf(p) <= 0)
      BY SectionRange, StoreConstants
    <3> QED BY <1>1, <3>1, StoreConstants DEF SaveBegins, SavingInv, NewFile, Agrees
  <2> QED BY <1>1, <2>1, <2>2 DEF SaveBegins, BootingInv, FinalIsCommitted, Whole
<1>2. CASE SaveCannotOpen \/ WriteFails
  <2>1. StoreTypeOK'
    BY <1>2, Contents DEF SaveCannotOpen, WriteFails, StoreTypeOK
  <2> QED BY <1>2, <2>1 DEF SaveCannotOpen, WriteFails, SavingInv, BootingInv, FinalIsCommitted, Whole
<1>3. CASE WriteSection
  <2> DEFINE k == tmp.size + 1
  <2>1. /\ tmp.kind = "native" /\ tmp.size < Last /\ captured = machine /\ Agrees(tmp)
        /\ tmp.size \in Nat /\ tmp.data \in Content /\ captured \in Content
    BY <1>3, StoreConstants DEF WriteSection, SavingInv, StoreTypeOK, File
  <2>2. tmp' = Appended(tmp, k, captured) /\ captured' = captured /\ machine' = machine
    BY <1>3, <2>1 DEF WriteSection
  <2>3. k \in 1 .. Last
    BY <2>1, StoreConstants
  <2>4. tmp' \in File /\ tmp'.size = k /\ tmp'.kind = "native"
    BY <2>1, <2>2, <2>3, StoreConstants DEF Appended, File, Content
  <2>5. Agrees(tmp)'
    <3> SUFFICES ASSUME NEW p \in Part, SectionOf(p) <= k PROVE tmp'.data[p] = captured[p]
      BY <2>2, <2>4 DEF Agrees
    <3>1. tmp'.data[p] = IF SectionOf(p) = k THEN captured[p] ELSE tmp.data[p]
      BY <2>2 DEF Appended
    <3>2. SectionOf(p) # k => SectionOf(p) <= tmp.size
      BY <2>1, SectionRange, StoreConstants
    <3> QED BY <3>1, <3>2, <2>1 DEF Agrees
  <2>6. pc' = (IF k = Last THEN "close" ELSE "write") /\ UNCHANGED <<final, at, restored, gen, committed, tails>>
    BY <1>3 DEF WriteSection
  <2>7. StoreTypeOK'
    BY <2>2, <2>4, <2>6 DEF StoreTypeOK
  <2>8. SavingInv'
    BY <2>1, <2>2, <2>3, <2>4, <2>5, <2>6, StoreConstants DEF SavingInv
  <2> QED BY <2>6, <2>7, <2>8, <1>3 DEF BootingInv, FinalIsCommitted, Whole
<1>4. CASE CloseTemp
  <2>2. tmp \in File /\ tmp.kind = "native" /\ tmp.size = Last /\ Agrees(tmp)
    BY <1>4 DEF CloseTemp, SavingInv, StoreTypeOK
  <2>1. PICK n \in 0 .. Last : tmp' = Truncated(tmp, n) /\ tails' = IF n < Last THEN "lost" ELSE tails
    BY <1>4, <2>2 DEF CloseTemp
  <2>3. n <= tmp.size
    BY <2>2, StoreConstants
  <2>4. /\ Truncated(tmp, n) \in File /\ Truncated(tmp, n).kind = "native"
        /\ Truncated(tmp, n).size = n /\ Agrees(Truncated(tmp, n))
    BY <2>2, <2>3, TruncatedFile
  <2>5. Agrees(tmp)'
    BY <1>4, <2>1, <2>4 DEF CloseTemp, Agrees
  <2>6. n = Last \/ tails' = "lost"
    BY <2>1, StoreConstants
  <2>7. StoreTypeOK'
    BY <1>4, <2>1, <2>4 DEF CloseTemp, StoreTypeOK
  <2>8. SavingInv'
    BY <1>4, <2>1, <2>4, <2>5, <2>6 DEF CloseTemp, SavingInv
  <2> QED BY <1>4, <2>7, <2>8 DEF CloseTemp, BootingInv, FinalIsCommitted, Whole
<1>5. CASE RemoveFinal
  <2>1. StoreTypeOK'
    BY <1>5, Contents DEF RemoveFinal, StoreTypeOK
  <2>2. SavingInv'
    BY <1>5 DEF RemoveFinal, SavingInv, Agrees
  <2>3. FinalIsCommitted'
    BY <1>5 DEF RemoveFinal, FinalIsCommitted, Whole, NoFile
  <2> QED BY <1>5, <2>1, <2>2, <2>3 DEF RemoveFinal, BootingInv
<1>6. CASE RenameTemp
  <2>1. StoreTypeOK'
    BY <1>6, Contents DEF RenameTemp, StoreTypeOK
  <2>2. Whole(tmp) => tmp.data = captured
    BY <1>6, WholeAgrees DEF RenameTemp, SavingInv, StoreTypeOK, Whole
  <2>3. FinalIsCommitted'
    BY <1>6, <2>2 DEF RenameTemp, FinalIsCommitted, Whole
  <2> QED BY <1>6, <2>1, <2>3 DEF RenameTemp, SavingInv, BootingInv
<1>7. CASE RenameFails
  <2>1. StoreTypeOK'
    BY <1>7, Contents DEF RenameFails, StoreTypeOK
  <2> QED BY <1>7, <2>1 DEF RenameFails, SavingInv, BootingInv, FinalIsCommitted, Whole
<1> QED BY <1>1, <1>2, <1>3, <1>4, <1>5, <1>6, <1>7 DEF Save

\* A file that lost its end is a file.
LEMMA TruncatedType ==
  ASSUME NEW f \in File, NEW n \in 0 .. Last PROVE Truncated(f, n) \in File
BY StoreConstants DEF Truncated, File, Content

\* Every step keeps the invariant.
LEMMA StoreInvNext == StoreInv /\ [StoreNext]_storeVars => StoreInv'
<1> SUFFICES ASSUME StoreInv, [StoreNext]_storeVars PROVE StoreInv'
  OBVIOUS
<1>1. CASE PowerLoss
  <2>1. tmp' \in File
    <3>1. tmp \in File
      BY DEF StoreInv, StoreTypeOK
    <3>2. \A n \in 0 .. tmp.size : n \in 0 .. Last
      BY <3>1, StoreConstants DEF File
    <3> QED BY <1>1, <3>1, <3>2, TruncatedType DEF PowerLoss
  <2>2. StoreTypeOK'
    BY <1>1, <2>1, Contents, StoreConstants DEF PowerLoss, StoreInv, StoreTypeOK
  <2> QED BY <1>1, <2>2 DEF PowerLoss, StoreInv, SavingInv, BootingInv, FinalIsCommitted, Whole
<1>2. ASSUME NEW S \in Touched, RunGuest(S) PROVE StoreInv'
  <2>1. gen + 1 \in 0 .. MaxGen
    BY <1>2, StoreConstants DEF RunGuest, StoreInv, StoreTypeOK
  <2>2. machine' \in Content
    BY <1>2, <2>1 DEF RunGuest, StoreInv, StoreTypeOK, Content
  <2>3. StoreTypeOK'
    BY <1>2, <2>1, <2>2 DEF RunGuest, StoreInv, StoreTypeOK, card
  <2> QED BY <1>2, <2>3 DEF RunGuest, StoreInv, SavingInv, BootingInv, FinalIsCommitted, Whole, card
<1>3. CASE UNCHANGED storeVars
  <2>1. StoreTypeOK' /\ FinalIsCommitted'
    BY <1>3 DEF storeVars, card, StoreInv, StoreTypeOK, FinalIsCommitted, Whole
  <2>2. SavingInv'
    BY <1>3 DEF storeVars, card, StoreInv, SavingInv, Agrees
  <2>3. BootingInv'
    BY <1>3 DEF storeVars, card, StoreInv, BootingInv, Restoring, Whole
  <2> QED BY <2>1, <2>2, <2>3 DEF StoreInv
<1> QED BY <1>1, <1>2, <1>3, StoreBoot, StoreSave DEF StoreNext

-----------------------------------------------------------------------------
(* The theorems. *)

\* Every file, buffer and program counter keeps its type.
THEOREM StoreTypeCorrect == StoreSpec => []StoreTypeOK
<1>1. StoreInv => StoreTypeOK
  BY DEF StoreInv
<1> QED BY <1>1, StoreInvInit, StoreInvNext, PTL DEF StoreSpec

\* A snapshot that a boot would accept is the machine of the last successful save, with
\* any calls failing and power lost at any step.
THEOREM FinalAlwaysCommitted == StoreSpec => []FinalIsCommitted
<1>1. StoreInv => FinalIsCommitted
  BY DEF StoreInv
<1> QED BY <1>1, StoreInvInit, StoreInvNext, PTL DEF StoreSpec

\* A torn snapshot lies under the final name only after a close that lost the end of a file.
THEOREM NeverTorn == StoreSpec => []FinalNeverTorn
<1>1. StoreInit => FinalNeverTorn
  BY DEF StoreInit, FinalNeverTorn, Whole
<1>2. StoreInv /\ FinalNeverTorn /\ [StoreNext]_storeVars => FinalNeverTorn'
  <2> SUFFICES ASSUME StoreInv, FinalNeverTorn, [StoreNext]_storeVars PROVE FinalNeverTorn'
    OBVIOUS
  <2>1. CASE RenameTemp
    BY <2>1 DEF RenameTemp, StoreInv, SavingInv, FinalNeverTorn, Whole
  <2>2. CASE RemoveFinal
    BY <2>2 DEF RemoveFinal, FinalNeverTorn, Whole, NoFile
  <2>3. ASSUME final' = final PROVE FinalNeverTorn'
    <3>1. tails = "lost" => tails' = "lost"
      BY DEF StoreNext, Boot, PowerOn, FindsNothing, FindsNative, FindsRaw, RestoreSection, RestoreFails,
             Save, SaveBegins, SaveCannotOpen, WriteSection, WriteFails, CloseTemp, RemoveFinal,
             RenameTemp, RenameFails, PowerLoss, RunGuest, storeVars
    <3> QED BY <2>3, <3>1 DEF FinalNeverTorn, Whole
  <2>4. Boot \/ PowerLoss \/ (\E S \in Touched : RunGuest(S)) \/ UNCHANGED storeVars => final' = final
    BY DEF Boot, PowerOn, FindsNothing, FindsNative, FindsRaw, RestoreSection, RestoreFails,
           PowerLoss, RunGuest, storeVars, card
  <2>5. Save => final' = final \/ RenameTemp \/ RemoveFinal
    BY DEF Save, SaveBegins, SaveCannotOpen, WriteSection, WriteFails, CloseTemp, RenameFails
  <2> QED BY <2>1, <2>2, <2>3, <2>4, <2>5 DEF StoreNext
<1> QED BY <1>1, <1>2, StoreInvInit, StoreInvNext, PTL DEF StoreSpec

\* What a boot leaves behind: the saved machine, a RAM image, a cold machine, or, only
\* after a read that failed, something else.
THEOREM BootAlwaysColdOrSaved == StoreSpec => BootColdOrSaved
<1> DEFINE Ended == \/ restored' = "native" /\ machine' = committed
                    \/ restored' = "raw" /\ machine' = [p \in Part |-> IF p \in 3 .. Last - 1
                                                                      THEN final.data[p] ELSE 0]
                    \/ restored' = "no" /\ machine' = Cold
                    \/ RestoreFails
<1>1. StoreInv /\ [StoreNext]_storeVars => [(pc = "open" \/ pc = "restore") /\ pc' = "run" => Ended]_storeVars
  <2> SUFFICES ASSUME StoreInv, StoreNext, pc = "open" \/ pc = "restore", pc' = "run" PROVE Ended
    OBVIOUS
  <2>1. FindsNothing \/ RestoreSection \/ RestoreFails
    BY DEF StoreNext, Boot, PowerOn, FindsNative, FindsRaw, Save, SaveBegins, SaveCannotOpen,
           WriteSection, WriteFails, CloseTemp, RemoveFinal, RenameTemp, RenameFails,
           PowerLoss, RunGuest
  <2>2. CASE FindsNothing
    BY <2>2 DEF FindsNothing, StoreInv, BootingInv
  <2>3. CASE RestoreSection
    <3>1. machine' = [p \in Part |-> IF p \in PartsRead THEN final.data[p] ELSE machine[p]]
      BY <2>3 DEF RestoreSection, Loaded
    <3>2. CASE Whole(final)
      <4>1. at = Last /\ restored' = "native" /\ Restoring(1, at - 1)
        BY <2>3, <3>2, StoreConstants DEF RestoreSection, StoreInv, BootingInv, Whole
      <4>2. PartsRead = {0, Last}
        BY <4>1, StoreConstants DEF PartsRead
      <4>3. \A p \in Part : p \in 1 .. Last - 1 \/ p \in {0, Last}
        BY StoreConstants DEF Part
      <4>4. machine' = [p \in Part |-> final.data[p]]
        BY <3>1, <4>1, <4>2, <4>3 DEF Restoring
      <4>5. final.data = [p \in Part |-> final.data[p]]
        BY DEF StoreInv, StoreTypeOK, File, Content
      <4> QED BY <3>2, <4>1, <4>4, <4>5 DEF StoreInv, FinalIsCommitted
    <3>3. CASE ~Whole(final)
      <4>1. final.kind = "raw" /\ at = Last - 1 /\ restored' = "raw" /\ Restoring(3, at - 1)
        BY <2>3, <3>3, StoreConstants DEF RestoreSection, StoreInv, BootingInv
      <4>2. PartsRead = {at}
        BY <4>1, StoreConstants DEF PartsRead
      <4>3. \A p \in Part : p \in 3 .. Last - 1 <=> p \in 3 .. at - 1 \/ p = at
        BY <4>1, StoreConstants DEF Part
      <4> QED BY <3>1, <4>1, <4>2, <4>3 DEF Restoring
    <3> QED BY <3>2, <3>3
  <2>4. CASE RestoreFails
    BY <2>4
  <2> QED BY <2>1, <2>2, <2>3, <2>4
<1> QED BY <1>1, StoreInvInit, StoreInvNext, PTL DEF StoreSpec, BootColdOrSaved

\* The card loses its last whole snapshot only to a failed rename, to a save begun with the
\* final name empty, or to a close that lost the end of a file.
THEOREM CopyAlwaysOutlives == StoreSpec => CopyOutlivesSave
<1> DEFINE Excused == \/ RenameFails
                      \/ ~Whole(final) /\ (SaveBegins \/ SaveCannotOpen)
                      \/ tails' = "lost"
<1>1. StoreInv /\ [StoreNext]_storeVars => [HasCopy /\ ~HasCopy' => Excused]_storeVars
  <2> SUFFICES ASSUME StoreInv, StoreNext, HasCopy, ~Excused PROVE HasCopy'
    OBVIOUS
  <2>1. CASE Boot
    BY <2>1 DEF Boot, PowerOn, FindsNothing, FindsNative, FindsRaw, RestoreSection, RestoreFails,
                card, HasCopy, Whole
  <2>2. CASE SaveBegins \/ SaveCannotOpen \/ RenameFails
    BY <2>2 DEF SaveBegins, SaveCannotOpen, HasCopy, Whole
  <2>3. CASE WriteSection \/ WriteFails
    BY <2>3 DEF WriteSection, WriteFails, HasCopy, Whole
  <2>4. CASE CloseTemp
    BY <2>4 DEF CloseTemp, HasCopy, Whole
  <2>5. CASE RemoveFinal
    BY <2>5 DEF RemoveFinal, StoreInv, SavingInv, HasCopy, Whole
  <2>6. CASE RenameTemp
    BY <2>6 DEF RenameTemp, StoreInv, SavingInv, HasCopy, Whole
  <2>7. CASE PowerLoss
    BY <2>7 DEF PowerLoss, HasCopy, Whole
  <2>8. CASE \E S \in Touched : RunGuest(S)
    BY <2>8 DEF RunGuest, card, HasCopy, Whole
  <2> QED BY <2>1, <2>2, <2>3, <2>4, <2>5, <2>6, <2>7, <2>8 DEF StoreNext, Save
<1> QED BY <1>1, StoreInvInit, StoreInvNext, PTL DEF StoreSpec, CopyOutlivesSave
=============================================================================
