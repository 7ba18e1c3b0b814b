--------------------------- MODULE RenderPipeline ---------------------------
(***************************************************************************)
(* The picture's way from the emulated LCD to the panel (ESP32-PALM.ino).  *)
(*                                                                         *)
(* Three actors share the frame state.  The loop task (core 1) captures    *)
(* the guest's screen every PALM_LCD_REDRAW_INTERVAL_MS, changes the       *)
(* pictures of the side buttons and puts the panel to sleep.  The render   *)
(* task (core 0) waits for notifications and publishes a frame.  The panel *)
(* interrupt takes the pending frame at the start of a scan.  The mutex    *)
(* renderSurfaceMutex excludes the loop and the render task from each      *)
(* other while they publish; it protects neither the button pictures, nor  *)
(* panelStaticGeneration, nor anything from the interrupt.  The interrupt  *)
(* is allocated by setup(), so it runs on core 1 and the loop task makes   *)
(* no step while it runs; the render task does.                            *)
(*                                                                         *)
(* A picture is the number of the drawing it shows; 0 is a white screen.   *)
(***************************************************************************)
EXTENDS Naturals

CONSTANTS
    Profile,        \* "IIIx", "m100" or "IIIc": who decodes, and who skips
    MaxPictures,    \* bound: pictures the guest draws
    MaxStrips,      \* bound: changes of the button pictures
    MaxSleeps       \* bound: times Palm OS falls asleep

ASSUME ProfileAssumption == Profile \in {"IIIx", "m100", "IIIc"}
ASSUME BoundAssumption ==
    MaxPictures \in Nat /\ MaxStrips \in Nat /\ MaxSleeps \in Nat

VARIABLES
    drawn,          \* the last picture in the guest's LCD memory
    lcdOn,          \* the LCD registers describe a valid screen
    snapshot,       \* dragonballRenderSnapshot, sed1375RenderSnapshot
    surface,        \* palmSurface
    waitingDrawn,   \* lcdWaitingDrawn
    strip,          \* state the button pictures are drawn from
    generation,     \* panelStaticGeneration
    awake,          \* ~palmLowPowerModeActive
    sleeps,
    loopAt,         \* where the loop task is
    notified,       \* the render task's notification count is not 0
    renderAt,       \* where the render task is
    owner,          \* holder of renderSurfaceMutex
    pubAt,          \* where the holder is in publishPanelFrame
    frames,         \* panelFrames: what each shows
    marked,         \* panelFrameStaticGeneration
    savedGeneration,\* local staticGeneration of publishPanelFrame
    drawIndex,      \* drawPanelFrameIndex
    staticReady,    \* panelStaticFramesReady
    active,         \* activePanelFrame
    pending,        \* pendingPanelFrame
    scanAt,         \* where the panel interrupt is
    taken,          \* the pending frame it has read
    lost            \* history: an interrupt cleared a frame it did not take

guest == <<drawn, lcdOn, sleeps>>
buttons == <<strip, generation>>
capture == <<snapshot, surface, waitingDrawn>>
tasks == <<loopAt, notified, renderAt, owner, pubAt>>
panel == <<frames, marked, savedGeneration, drawIndex, staticReady>>
scan == <<active, pending, scanAt, taken, lost>>
vars == <<guest, buttons, capture, tasks, panel, scan, awake>>

NoFrame == 2
Pictures == 0 .. MaxPictures
Strips == 0 .. MaxStrips
Frame == [lcd : Pictures, strip : Strips, shell : BOOLEAN]

TypeOK ==
    /\ drawn \in Pictures /\ lcdOn \in BOOLEAN /\ sleeps \in 0 .. MaxSleeps
    /\ snapshot \in [valid : BOOLEAN, of : Pictures]
    /\ surface \in Pictures /\ waitingDrawn \in BOOLEAN
    /\ strip \in Strips /\ generation \in Strips /\ awake \in BOOLEAN
    /\ loopAt \in {"run", "mark", "waiting", "sleeping", "publish"}
    /\ notified \in BOOLEAN /\ renderAt \in {"wait", "lock", "publish"}
    /\ owner \in {"none", "loop", "render"}
    /\ pubAt \in {"idle", "decode", "static", "ready", "strips", "mark",
                  "lcd", "announce"}
    /\ frames \in [0 .. 1 -> Frame]
    /\ marked \in [0 .. 1 -> Strips] /\ savedGeneration \in Strips
    /\ drawIndex \in 0 .. 1 /\ staticReady \in BOOLEAN
    /\ active \in 0 .. 1 /\ pending \in 0 .. 1 \cup {NoFrame}
    /\ scanAt \in {"idle", "swap", "clear"} /\ taken \in 0 .. 1
    /\ lost \in BOOLEAN

\* The state setup() leaves: the boot pattern went through the static path.
Init ==
    /\ drawn = 0 /\ lcdOn = FALSE /\ sleeps = 0
    /\ snapshot = [valid |-> FALSE, of |-> 0]
    /\ surface = 0 /\ waitingDrawn = FALSE
    /\ strip = 0 /\ generation = 0 /\ awake = TRUE
    /\ loopAt = "run" /\ notified = FALSE /\ renderAt = "wait"
    /\ owner = "none" /\ pubAt = "idle"
    /\ frames = [f \in 0 .. 1 |-> [lcd |-> 0, strip |-> 0, shell |-> TRUE]]
    /\ marked = [f \in 0 .. 1 |-> 0] /\ savedGeneration = 0
    /\ drawIndex = 0 /\ staticReady = TRUE
    /\ active = 0 /\ pending = NoFrame
    /\ scanAt = "idle" /\ taken = 0 /\ lost = FALSE

Other(f) == 1 - f

\* The loop task runs: it is between two of its services, and the panel
\* interrupt of its core is not being served.
LoopRuns == loopAt = "run" /\ scanAt = "idle"

-----------------------------------------------------------------------------
(* The guest, inside the loop task's CPU slices.                           *)

\* Palm OS draws; a screen that was off is on again.
GuestDraws ==
    /\ LoopRuns /\ awake /\ drawn < MaxPictures
    /\ drawn' = drawn + 1 /\ lcdOn' = TRUE
    /\ UNCHANGED <<sleeps, buttons, capture, tasks, panel, scan, awake>>

\* Palm OS, or a reset, clears the LCD registers.
GuestLcdOff ==
    /\ LoopRuns /\ awake /\ lcdOn
    /\ lcdOn' = FALSE
    /\ UNCHANGED <<drawn, sleeps, buttons, capture, tasks, panel, scan, awake>>

-----------------------------------------------------------------------------
(* The loop task.                                                          *)

\* Mutant: the validity of the snapshot goes unread.
ReusableInvalid == Profile = "IIIc" /\ snapshot.of = drawn

\* The IIIc's snapshot already shows the screen: nothing to draw.
SnapshotReusable ==
    Profile = "IIIc" /\ snapshot.valid /\ snapshot.of = drawn

\* Mutant: the IIIc's skip is taken everywhere, by the picture on the surface.
RedrawSkips ==
    /\ LoopRuns /\ awake /\ lcdOn
    /\ surface # drawn
    /\ owner = "none"
    /\ IF Profile = "IIIx"
          THEN surface' = drawn /\ UNCHANGED snapshot
          ELSE snapshot' = [valid |-> TRUE, of |-> drawn] /\ UNCHANGED surface
    /\ waitingDrawn' = FALSE
    /\ notified' = TRUE
    /\ UNCHANGED <<guest, buttons, loopAt, renderAt, owner, pubAt, panel, scan, awake>>

\* drawPalmFrameFromEmulatedLcd with a valid screen.  A taken mutex makes it
\* give up until the next interval.
RedrawLcd ==
    /\ LoopRuns /\ awake /\ lcdOn
    /\ ~SnapshotReusable
    /\ owner = "none"
    /\ IF Profile = "IIIx"
          THEN surface' = drawn /\ UNCHANGED snapshot
          ELSE snapshot' = [valid |-> TRUE, of |-> drawn] /\ UNCHANGED surface
    /\ waitingDrawn' = FALSE
    /\ notified' = TRUE
    /\ UNCHANGED <<guest, buttons, loopAt, renderAt, owner, pubAt, panel, scan, awake>>

\* drawWaitingFrame up to the mutex ...
WaitingFrame ==
    /\ LoopRuns /\ awake /\ ~lcdOn /\ ~waitingDrawn
    /\ waitingDrawn' = TRUE /\ loopAt' = "waiting"
    /\ UNCHANGED <<guest, buttons, snapshot, surface, notified, renderAt,
                   owner, pubAt, panel, scan, awake>>

\* ... and into publishPanelFrame, which the loop task calls itself.
WaitingFrameLocked ==
    /\ loopAt = "waiting" /\ scanAt = "idle" /\ owner = "none"
    /\ owner' = "loop" /\ pubAt' = "decode" /\ loopAt' = "publish"
    /\ surface' = 0
    /\ UNCHANGED <<guest, buttons, snapshot, waitingDrawn, notified, renderAt,
                   panel, scan, awake>>

\* setSaveButtonResult, setResetButtonResult: first the state that the
\* pictures are drawn from ...
ButtonChanges ==
    /\ LoopRuns /\ strip < MaxStrips
    /\ strip' = strip + 1 /\ loopAt' = "mark"
    /\ UNCHANGED <<guest, generation, capture, notified, renderAt, owner,
                   pubAt, panel, scan, awake>>

\* Mutant: the render is requested and the generation left as it was.
InvalidateWithoutGeneration ==
    /\ loopAt = "mark" /\ scanAt = "idle"
    /\ notified' = (notified \/ staticReady)
    /\ loopAt' = "run"
    /\ UNCHANGED <<guest, buttons, capture, renderAt, owner, pubAt, panel, scan, awake>>

\* ... then invalidatePanelStaticLayer.
InvalidateStaticLayer ==
    /\ loopAt = "mark" /\ scanAt = "idle"
    /\ generation' = generation + 1
    /\ notified' = (notified \/ staticReady)
    /\ loopAt' = "run"
    /\ UNCHANGED <<guest, strip, capture, renderAt, owner, pubAt, panel, scan, awake>>

\* setPalmLowPowerMode(true) up to the mutex ...
FallAsleep ==
    /\ LoopRuns /\ awake /\ sleeps < MaxSleeps
    /\ sleeps' = sleeps + 1 /\ loopAt' = "sleeping"
    /\ UNCHANGED <<drawn, lcdOn, buttons, capture, notified, renderAt, owner,
                   pubAt, panel, scan, awake>>

\* Mutant: the sleep screen is drawn without the mutex.
SleepWhiteUnlocked ==
    /\ loopAt = "sleeping" /\ scanAt = "idle"
    /\ surface' = 0
    /\ snapshot' = [snapshot EXCEPT !.valid = @ /\ Profile # "IIIc"]
    /\ frames' = [frames EXCEPT ![Other(drawIndex)] =
                     [lcd |-> 0, strip |-> strip, shell |-> FALSE]]
    /\ pending' = Other(drawIndex) /\ drawIndex' = Other(drawIndex)
    /\ staticReady' = FALSE
    /\ awake' = FALSE /\ loopAt' = "run"
    /\ UNCHANGED <<guest, buttons, waitingDrawn, notified, renderAt, owner, pubAt,
                   marked, savedGeneration, active, scanAt, taken, lost>>

\* ... and drawSleepWhiteFrame under it.
SleepWhiteFrame ==
    /\ loopAt = "sleeping" /\ scanAt = "idle" /\ owner = "none"
    /\ surface' = 0
    /\ snapshot' = [snapshot EXCEPT !.valid = @ /\ Profile # "IIIc"]
    /\ frames' = [frames EXCEPT ![Other(drawIndex)] =
                     [lcd |-> 0, strip |-> strip, shell |-> FALSE]]
    /\ pending' = Other(drawIndex) /\ drawIndex' = Other(drawIndex)
    /\ staticReady' = FALSE
    /\ awake' = FALSE /\ loopAt' = "run"
    /\ UNCHANGED <<guest, buttons, waitingDrawn, notified, renderAt, owner, pubAt,
                   marked, savedGeneration, active, scanAt, taken, lost>>

\* setPalmLowPowerMode(false), which takes no mutex.
WakeUp ==
    /\ LoopRuns /\ ~awake
    /\ awake' = TRUE /\ staticReady' = FALSE
    /\ snapshot' = [snapshot EXCEPT !.valid = @ /\ Profile # "IIIc"]
    /\ UNCHANGED <<guest, buttons, surface, waitingDrawn, tasks, frames, marked,
                   savedGeneration, drawIndex, scan>>

-----------------------------------------------------------------------------
(* The render task.                                                        *)

\* ulTaskNotifyTake(pdTRUE): all notifications so far are one.
TakeNotification ==
    /\ renderAt = "wait" /\ notified
    /\ notified' = FALSE /\ renderAt' = "lock"
    /\ UNCHANGED <<guest, buttons, capture, loopAt, owner, pubAt, panel, scan, awake>>

RenderLocked ==
    /\ renderAt = "lock" /\ owner = "none"
    /\ owner' = "render" /\ pubAt' = "decode" /\ renderAt' = "publish"
    /\ UNCHANGED <<guest, buttons, capture, loopAt, notified, panel, scan, awake>>

-----------------------------------------------------------------------------
(* publishPanelFrame, run by whoever holds the mutex.                      *)

\* The holder can take a step.
PublisherRuns == owner = "render" \/ (owner = "loop" /\ scanAt = "idle")

\* Decode the snapshot into the surface and choose the static or the
\* incremental path.  The static path saves the generation here.
PublishDecode ==
    /\ pubAt = "decode" /\ PublisherRuns
    /\ surface' = IF snapshot.valid THEN snapshot.of ELSE surface
    /\ \/ ~staticReady /\ pubAt' = "static" /\ savedGeneration' = generation
       \/ /\ staticReady /\ UNCHANGED savedGeneration
          /\ pubAt' = IF marked[Other(drawIndex)] # generation
                         THEN "strips" ELSE "lcd"
    /\ UNCHANGED <<guest, buttons, snapshot, waitingDrawn, loopAt, notified, renderAt,
                   owner, frames, marked, drawIndex, staticReady, scan, awake>>

\* renderPanelStaticFrameFromSurface into frame 0, and the copy to frame 1.
PublishStatic ==
    /\ pubAt = "static" /\ PublisherRuns
    /\ frames' = [f \in 0 .. 1 |->
                     [lcd |-> surface, strip |-> strip, shell |-> TRUE]]
    /\ pubAt' = "ready"
    /\ UNCHANGED <<guest, buttons, capture, loopAt, notified, renderAt, owner, marked,
                   savedGeneration, drawIndex, staticReady, scan, awake>>

\* The holder returns and gives the mutex back.
Unlock ==
    /\ owner' = "none" /\ pubAt' = "idle"
    /\ IF owner = "loop" THEN loopAt' = "run" /\ UNCHANGED renderAt
                         ELSE renderAt' = "wait" /\ UNCHANGED loopAt

\* Both frames are current; frame 0 is shown at once and a frame that was
\* pending stays pending.
PublishReady ==
    /\ pubAt = "ready" /\ PublisherRuns
    /\ active' = 0 /\ drawIndex' = 0
    /\ marked' = [f \in 0 .. 1 |-> savedGeneration]
    /\ staticReady' = TRUE
    /\ Unlock
    /\ UNCHANGED <<guest, buttons, capture, notified, frames, savedGeneration,
                   pending, scanAt, taken, lost, awake>>

\* The strips are drawn from the state the loop task may be changing ...
PublishStrips ==
    /\ pubAt = "strips" /\ PublisherRuns
    /\ frames' = [frames EXCEPT ![Other(drawIndex)].strip = strip]
    /\ pubAt' = "mark"
    /\ UNCHANGED <<guest, buttons, capture, loopAt, notified, renderAt, owner, marked,
                   savedGeneration, drawIndex, staticReady, scan, awake>>

\* Mutant: both frames are marked, one is drawn.
PublishMarksBoth ==
    /\ pubAt = "mark" /\ PublisherRuns
    /\ marked' = [f \in 0 .. 1 |-> generation]
    /\ pubAt' = "lcd"
    /\ UNCHANGED <<guest, buttons, capture, loopAt, notified, renderAt, owner, frames,
                   savedGeneration, drawIndex, staticReady, scan, awake>>

\* ... and marked with the generation read again afterwards.
PublishMark ==
    /\ pubAt = "mark" /\ PublisherRuns
    /\ marked' = [marked EXCEPT ![Other(drawIndex)] = generation]
    /\ pubAt' = "lcd"
    /\ UNCHANGED <<guest, buttons, capture, loopAt, notified, renderAt, owner, frames,
                   savedGeneration, drawIndex, staticReady, scan, awake>>

PublishLcd ==
    /\ pubAt = "lcd" /\ PublisherRuns
    /\ frames' = [frames EXCEPT ![Other(drawIndex)].lcd = surface]
    /\ pubAt' = "announce"
    /\ UNCHANGED <<guest, buttons, capture, loopAt, notified, renderAt, owner, marked,
                   savedGeneration, drawIndex, staticReady, scan, awake>>

PublishAnnounce ==
    /\ pubAt = "announce" /\ PublisherRuns
    /\ pending' = Other(drawIndex) /\ drawIndex' = Other(drawIndex)
    /\ Unlock
    /\ UNCHANGED <<guest, buttons, capture, notified, frames, marked,
                   savedGeneration, staticReady, active, scanAt, taken, lost, awake>>

-----------------------------------------------------------------------------
(* rgbBounceFillCallback at the first row of a scan.                       *)

ScanSees ==
    /\ scanAt = "idle" /\ pending # NoFrame
    /\ scanAt' = "swap" /\ taken' = pending
    /\ UNCHANGED <<guest, buttons, capture, tasks, panel, active, pending, lost, awake>>

\* pendingPanelFrame is not volatile: the build may use the value it tested
\* or read the variable again.
ScanSwaps ==
    /\ scanAt = "swap"
    /\ taken' \in {taken, pending}
    /\ active' = taken'
    /\ scanAt' = "clear"
    /\ UNCHANGED <<guest, buttons, capture, tasks, panel, pending, lost, awake>>

ScanClears ==
    /\ scanAt = "clear"
    /\ pending' = NoFrame /\ scanAt' = "idle"
    /\ lost' = (lost \/ pending # taken)
    /\ UNCHANGED <<guest, buttons, capture, tasks, panel, active, taken, awake>>

-----------------------------------------------------------------------------
Guest == GuestDraws \/ GuestLcdOff
LoopServices == WaitingFrameLocked \/ InvalidateStaticLayer \/ SleepWhiteFrame
RenderTask == TakeNotification \/ RenderLocked
Publish == \/ PublishDecode \/ PublishStatic \/ PublishReady
           \/ PublishStrips \/ PublishMark \/ PublishLcd \/ PublishAnnounce
Scan == ScanSees \/ ScanSwaps \/ ScanClears

Next == \/ Guest \/ RedrawLcd \/ WaitingFrame \/ ButtonChanges \/ FallAsleep
        \/ WakeUp \/ LoopServices \/ RenderTask \/ Publish \/ Scan

Spec == Init /\ [][Next]_vars

\* loop() runs for ever and comes to the redraw each interval, the render
\* task's wait ends when it is notified, a holder of the mutex finishes, and
\* the panel scans for ever.  Nothing says that Palm OS draws, that buttons
\* change or that a sleeping Palm wakes.
Fairness == /\ WF_vars(RedrawLcd) /\ WF_vars(WaitingFrame)
            /\ WF_vars(LoopServices) /\ WF_vars(RenderTask)
            /\ WF_vars(Publish) /\ WF_vars(Scan)

FairSpec == Spec /\ Fairness

-----------------------------------------------------------------------------
(* Properties.                                                             *)

\* A frame the sleep screen wiped is never drawn on incrementally: whenever
\* publishPanelFrame may take the incremental path, both frames carry the
\* silkscreen and the side areas.
ShellComplete == staticReady => \A f \in 0 .. 1 : frames[f].shell

\* publishPanelFrame marks a frame with a generation read after the strips
\* were drawn, so one frame may show old button pictures and be taken for
\* current.  Never both: while one is fooled, the other is current or known
\* to be old, and the next publication repairs it.
NeverBothFooled ==
    loopAt # "mark" =>
        \E f \in 0 .. 1 : frames[f].strip = strip \/ marked[f] # generation

\* When the guest stops drawing, the panel ends up showing its last picture
\* inside the silkscreen, whatever publications the interrupt lost.
PanelCatchesUp ==
    <>[](awake /\ lcdOn => frames[active].lcd = drawn /\ frames[active].shell)

\* When the buttons stop changing, one of the two frames ends up showing them.
ButtonsCatchUp ==
    <>[](awake /\ lcdOn => \E f \in 0 .. 1 : frames[f].strip = strip)

\* The IIIc draws a picture once: the panel stays behind only when the
\* interrupt cleared the very publication that carried the picture.
CatchesUpUnlessLost == PanelCatchesUp \/ <>lost

\* The LCD area is redrawn on a fixed schedule, changed or not.
RedrawsForever == []<>(~awake \/ ~lcdOn \/ notified)
=============================================================================
