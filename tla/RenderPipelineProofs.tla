------------------------ MODULE RenderPipelineProofs ------------------------
(***************************************************************************)
(* The frames of the render pipeline for any number of pictures, button    *)
(* changes and sleeps.  The inductive invariant says what the static path  *)
(* has done when it declares the frames ready, and how old a strip may be  *)
(* when its frame is marked.                                               *)
(***************************************************************************)
EXTENDS RenderPipeline, TLAPS

Faces == 0 .. 1

\* The mutex, and the frame an interrupt is about to take.
TaskInv ==
    /\ owner = "none" => pubAt = "idle"
    /\ owner = "loop" => loopAt = "publish"
    /\ scanAt = "swap" => pending # NoFrame

\* What the static path knows between drawing the frames and declaring them.
FrameInv ==
    /\ pubAt \in {"static", "ready"} => ~staticReady
    /\ staticReady \/ pubAt = "ready" => \A f \in Faces : frames[f].shell

\* A strip drawn before it is marked is at least as new as the generation, or
\* the generation has moved past the other frame's mark since.
AgeInv ==
    /\ IF loopAt = "mark" THEN strip = generation + 1 ELSE strip = generation
    /\ savedGeneration <= generation
    /\ \A f \in Faces : marked[f] <= generation /\ frames[f].strip <= strip
    /\ pubAt = "mark" => \/ frames[Other(drawIndex)].strip >= generation
                         \/ marked[drawIndex] # generation
    /\ pubAt = "ready" => \/ \A f \in Faces : frames[f].strip >= generation
                          \/ savedGeneration # generation
    /\ NeverBothFooled

\* The two halves of TypeOK: Boolean flags, and everything else.
Flags ==
    /\ lcdOn \in BOOLEAN /\ waitingDrawn \in BOOLEAN /\ awake \in BOOLEAN
    /\ notified \in BOOLEAN /\ staticReady \in BOOLEAN /\ lost \in BOOLEAN

Snapshots == [valid : BOOLEAN, of : Pictures]
Types ==
    /\ drawn \in Pictures /\ sleeps \in 0 .. MaxSleeps
    /\ snapshot \in Snapshots /\ surface \in Pictures
    /\ strip \in Strips /\ generation \in Strips
    /\ loopAt \in {"run", "mark", "waiting", "sleeping", "publish"}
    /\ renderAt \in {"wait", "lock", "publish"}
    /\ owner \in {"none", "loop", "render"}
    /\ pubAt \in {"idle", "decode", "static", "ready", "strips", "mark",
                  "lcd", "announce"}
    /\ frames \in [0 .. 1 -> Frame]
    /\ marked \in [0 .. 1 -> Strips] /\ savedGeneration \in Strips
    /\ drawIndex \in 0 .. 1
    /\ active \in 0 .. 1 /\ pending \in 0 .. 1 \cup {NoFrame}
    /\ scanAt \in {"idle", "swap", "clear"} /\ taken \in 0 .. 1

Core == Types /\ FrameInv /\ AgeInv
RenderInv == Flags /\ TaskInv /\ Core

\* The flags are flags at the start, ...
LEMMA FlagsInit == Init => Flags
BY Zenon DEF Init, Flags

\* ... and after every step.
LEMMA FlagsNext == Flags /\ Next => Flags'
<1>1. Flags /\ (Guest \/ RedrawLcd) => Flags'
    BY Zenon DEF Flags, Guest, GuestDraws, GuestLcdOff, RedrawLcd, guest, capture, tasks, panel,
       scan
<1>2. Flags /\ (WaitingFrame \/ ButtonChanges \/ FallAsleep \/ WakeUp \/ LoopServices) => Flags'
    BY Zenon DEF Flags, LoopServices, ButtonChanges, InvalidateStaticLayer, WaitingFrame,
       WaitingFrameLocked, FallAsleep, WakeUp, SleepWhiteFrame, guest, capture, panel, scan, tasks
<1>3. Flags /\ (RenderTask \/ Scan) => Flags'
    BY Zenon DEF Flags, RenderTask, TakeNotification, RenderLocked, Scan, ScanSees, ScanSwaps,
       ScanClears, guest, capture, panel, scan, tasks
<1>4. Flags /\ Publish => Flags'
    BY Zenon DEF Flags, Publish, PublishDecode, PublishStatic, PublishReady, PublishStrips,
       PublishMark, PublishLcd, PublishAnnounce, Unlock, guest, capture, panel, scan, tasks
<1> QED BY <1>1, <1>2, <1>3, <1>4 DEF Next

\* Every step keeps what is said of the task.
LEMMA TaskNext == Types /\ TaskInv /\ Next => TaskInv'
<1> SUFFICES ASSUME Types, TaskInv, Next PROVE TaskInv'
    OBVIOUS
<1> USE DEF TaskInv
<1>1. CASE Guest \/ RedrawLcd
    BY <1>1 DEF Guest, GuestDraws, GuestLcdOff, RedrawLcd, LoopRuns, tasks, scan
<1>2. CASE WaitingFrame \/ ButtonChanges \/ FallAsleep \/ WakeUp
    BY <1>2 DEF WaitingFrame, ButtonChanges, FallAsleep, WakeUp, LoopRuns, tasks, scan
<1>3. CASE LoopServices
    BY <1>3 DEF LoopServices, WaitingFrameLocked, InvalidateStaticLayer, SleepWhiteFrame, scan
<1>4. CASE RenderTask
    BY <1>4 DEF RenderTask, TakeNotification, RenderLocked, scan
<1>5. CASE Publish
    <2>1. Other(drawIndex) # NoFrame
        BY DEF Types, Other, NoFrame
    <2> QED BY <1>5, <2>1 DEF Publish, PublishDecode, PublishStatic, PublishReady, PublishStrips,
               PublishMark, PublishLcd, PublishAnnounce, Unlock, scan
<1>6. CASE Scan
    BY <1>6 DEF Scan, ScanSees, ScanSwaps, ScanClears, tasks
<1> QED BY <1>1, <1>2, <1>3, <1>4, <1>5, <1>6 DEF Next

\* A picture that is taken is a snapshot.
LEMMA SnapshotTaken == \A p \in Pictures : [valid |-> TRUE, of |-> p] \in Snapshots
BY DEF Snapshots

\* The guest's and the loop's steps leave a snapshot.
LEMMA SnapshotStep ==
    ASSUME snapshot \in Snapshots, drawn \in Pictures,
           GuestDraws \/ GuestLcdOff \/ RedrawLcd \/ WaitingFrame \/ WaitingFrameLocked
               \/ FallAsleep \/ SleepWhiteFrame \/ WakeUp
    PROVE  snapshot' \in Snapshots
<1>1. CASE RedrawLcd
    BY <1>1, SnapshotTaken DEF RedrawLcd
<1>2. CASE SleepWhiteFrame \/ WakeUp
    BY <1>2 DEF SleepWhiteFrame, WakeUp, Snapshots
<1>3. CASE GuestDraws \/ GuestLcdOff \/ WaitingFrame \/ WaitingFrameLocked \/ FallAsleep
    BY <1>3 DEF GuestDraws, GuestLcdOff, WaitingFrame, WaitingFrameLocked, FallAsleep, capture
<1> QED BY <1>1, <1>2, <1>3

\* There are two buffers.
LEMMA OtherFace ==
    ASSUME NEW f \in Faces
    PROVE  Other(f) \in Faces /\ Other(f) # f /\ Faces = {f, Other(f)}
BY DEF Faces, Other

-----------------------------------------------------------------------------
\* The invariant holds at the start.
LEMMA RenderInit == Init => RenderInv
<1> SUFFICES ASSUME Init PROVE RenderInv
    OBVIOUS
<1>1. [lcd |-> 0, strip |-> 0, shell |-> TRUE] \in Frame /\ 0 \in Pictures /\ 0 \in Strips
    BY BoundAssumption DEF Frame, Pictures, Strips
<1>2. frames \in [0 .. 1 -> Frame] /\ marked \in [0 .. 1 -> Strips]
    BY <1>1 DEF Init
<1>3. Types
    <2>1. snapshot \in Snapshots
        BY <1>1 DEF Init, Snapshots
    <2> QED BY <1>1, <1>2, <2>1, BoundAssumption DEF Init, Types, NoFrame
<1>4. NeverBothFooled
    BY DEF Init, NeverBothFooled
<1>5. TaskInv /\ FrameInv /\ AgeInv
    BY <1>4 DEF Init, TaskInv, FrameInv, AgeInv, Faces
<1> QED BY <1>3, <1>5, FlagsInit DEF RenderInv, Core

\* The guest, captures and notifications leave frames, marks and ages alone.
LEMMA GuestStep ==
    RenderInv /\ (GuestDraws \/ GuestLcdOff \/ RedrawLcd) => Core'
<1> SUFFICES ASSUME RenderInv, GuestDraws \/ GuestLcdOff \/ RedrawLcd PROVE Core'
    OBVIOUS
<1>0. snapshot' \in Snapshots
    BY SnapshotStep DEF RenderInv, Core, Types
<1>1. Types'
    BY BoundAssumption, <1>0 DEF RenderInv, Core, Types, GuestDraws, GuestLcdOff, RedrawLcd, Pictures,
       guest, buttons, capture, tasks, panel, scan
<1>2. UNCHANGED <<panel, strip, generation, loopAt, owner, pubAt>>
    BY DEF GuestDraws, GuestLcdOff, RedrawLcd, tasks, buttons
<1> QED BY <1>1, <1>2 DEF RenderInv, Core, FrameInv, AgeInv, NeverBothFooled, panel

\* The loop's waiting, sleep and wake keep it, ...
LEMMA LoopStep ==
    RenderInv /\ (WaitingFrame \/ WaitingFrameLocked \/ FallAsleep \/ WakeUp) => Core'
<1> SUFFICES ASSUME RenderInv, WaitingFrame \/ WaitingFrameLocked \/ FallAsleep \/ WakeUp
             PROVE  Core'
    OBVIOUS
<1>0. snapshot' \in Snapshots
    BY SnapshotStep DEF RenderInv, Core, Types
<1>1. Types'
    BY BoundAssumption, <1>0 DEF RenderInv, Core, Types, WaitingFrame, WaitingFrameLocked, FallAsleep,
       WakeUp, LoopRuns, Pictures, guest, buttons, capture, tasks, panel, scan
<1>2. UNCHANGED <<frames, marked, savedGeneration, drawIndex, strip, generation>>
    BY DEF WaitingFrame, WaitingFrameLocked, FallAsleep, WakeUp, panel, buttons
<1>3. loopAt # "mark" /\ loopAt' # "mark"
    BY DEF WaitingFrame, WaitingFrameLocked, FallAsleep, WakeUp, LoopRuns, tasks
<1>4. \/ pubAt' = pubAt /\ owner' = owner
      \/ pubAt' = "decode" /\ owner' = "loop"
    BY DEF WaitingFrame, WaitingFrameLocked, FallAsleep, WakeUp, tasks
<1>5. staticReady' => staticReady
    BY DEF WaitingFrame, WaitingFrameLocked, FallAsleep, WakeUp, panel
<1> QED BY <1>1, <1>2, <1>3, <1>4, <1>5 DEF RenderInv, Core, FrameInv, AgeInv, NeverBothFooled, Types

\* ... the buttons and the layer they are drawn on, ...
LEMMA ButtonStep == RenderInv /\ (ButtonChanges \/ InvalidateStaticLayer) => Core'
<1> SUFFICES ASSUME RenderInv, ButtonChanges \/ InvalidateStaticLayer PROVE Core'
    OBVIOUS
<1>1. UNCHANGED <<panel, owner, pubAt>>
    BY DEF ButtonChanges, InvalidateStaticLayer
<1>2. FrameInv'
    BY <1>1 DEF RenderInv, Core, FrameInv, panel
<1>3. CASE ButtonChanges
    <2>1. Types'
        BY <1>3, BoundAssumption DEF RenderInv, Core, Types, ButtonChanges, Strips, guest, capture,
           panel, scan
    <2>2. strip' = generation + 1 /\ generation' = generation /\ loopAt' = "mark"
        BY <1>3 DEF RenderInv, Core, AgeInv, ButtonChanges, LoopRuns
    <2>3. \A f \in Faces : frames[f].strip <= strip'
        BY <1>3 DEF RenderInv, Core, Types, AgeInv, ButtonChanges, Faces, Frame, Strips
    <2> QED BY <1>1, <1>2, <2>1, <2>2, <2>3 DEF RenderInv, Core, AgeInv, NeverBothFooled, panel
<1>4. CASE InvalidateStaticLayer
    <2>1. strip = generation + 1 /\ generation' = strip /\ strip' = strip /\ loopAt' = "run"
        BY <1>4 DEF RenderInv, Core, AgeInv, InvalidateStaticLayer
    <2>2. Types'
        BY <1>4, <2>1 DEF RenderInv, Core, Types, InvalidateStaticLayer, guest, capture, panel, scan
    <2>3. savedGeneration < generation'
        BY <2>1 DEF RenderInv, Core, Types, AgeInv, Strips
    <2>4. \A f \in Faces : marked[f] < generation'
        BY <2>1 DEF RenderInv, Core, Types, AgeInv, Strips, Faces
    <2>5. drawIndex \in Faces /\ 0 \in Faces /\ savedGeneration \in Nat /\ generation' \in Nat
        BY <2>2 DEF RenderInv, Core, Types, Faces, Strips
    <2>6. marked \in [Faces -> Nat]
        BY DEF RenderInv, Core, Types, Faces, Strips
    <2>7. \A f \in Faces : marked[f] # generation'
        BY <2>4, <2>5, <2>6
    <2>8. savedGeneration # generation'
        BY <2>3, <2>5
    <2>9. AgeInv'
        BY <1>1, <2>1, <2>3, <2>4, <2>5, <2>6, <2>7, <2>8
           DEF RenderInv, Core, AgeInv, NeverBothFooled, panel, Faces
    <2> QED BY <1>2, <2>2, <2>9 DEF RenderInv, Core
<1> QED BY <1>3, <1>4

\* ... the white frame before sleep, ...
LEMMA SleepStep == RenderInv /\ SleepWhiteFrame => Core'
<1> SUFFICES ASSUME RenderInv, SleepWhiteFrame PROVE Core'
    OBVIOUS
<1>0. snapshot' \in Snapshots
    BY SnapshotStep DEF RenderInv, Core, Types
<1> DEFINE next == Other(drawIndex)
<1>1. drawIndex \in Faces /\ next \in Faces
    BY OtherFace DEF RenderInv, Core, Types, Faces
<1>2. frames' = [frames EXCEPT ![next] = [lcd |-> 0, strip |-> strip, shell |-> FALSE]]
    BY DEF SleepWhiteFrame
<1>3. Types'
    BY <1>0, <1>1, <1>2, BoundAssumption DEF RenderInv, Core, Types, SleepWhiteFrame, Pictures, Strips, Frame,
       Faces, guest, buttons
<1>4. pubAt = "idle" /\ pubAt' = "idle" /\ owner' = "none" /\ staticReady' = FALSE
    BY DEF RenderInv, TaskInv, SleepWhiteFrame
<1>5. frames'[next].strip = strip /\ \A f \in Faces : frames'[f].strip \in {strip, frames[f].strip}
    BY <1>1, <1>2 DEF RenderInv, Core, Types, Faces
<1>6. loopAt # "mark" /\ loopAt' = "run" /\ strip = generation /\ strip \in Nat
    BY DEF RenderInv, Core, Types, AgeInv, SleepWhiteFrame, Strips
<1>7. UNCHANGED <<strip, generation, marked, savedGeneration>>
    BY DEF SleepWhiteFrame, buttons
<1>8. NeverBothFooled'
    BY <1>1, <1>5, <1>7 DEF NeverBothFooled, Faces
<1>9. \A f \in Faces : frames'[f].strip <= strip'
    BY <1>5, <1>6, <1>7 DEF RenderInv, Core, AgeInv
<1>10. AgeInv'
    BY <1>4, <1>6, <1>7, <1>8, <1>9 DEF RenderInv, Core, AgeInv
<1> QED BY <1>3, <1>4, <1>10 DEF RenderInv, Core, FrameInv

\* ... taking a notification and rendering under the lock, ...
LEMMA LockStep == RenderInv /\ (TakeNotification \/ RenderLocked) => Core'
<1> SUFFICES ASSUME RenderInv, TakeNotification \/ RenderLocked PROVE Core'
    OBVIOUS
<1>1. Types'
    BY DEF RenderInv, Core, Types, TakeNotification, RenderLocked, guest, buttons, capture, panel, scan
<1> QED BY <1>1 DEF RenderInv, Core, FrameInv, AgeInv, NeverBothFooled, Types, TakeNotification,
                    RenderLocked, panel, buttons

\* ... and each step of publishing a frame: what was decoded, ...
LEMMA DecodeStep == RenderInv /\ PublishDecode => Core'
<1> SUFFICES ASSUME RenderInv, PublishDecode PROVE Core'
    OBVIOUS
<1>1. Types'
    BY DEF RenderInv, Core, Types, Snapshots, PublishDecode, guest, buttons, scan
<1>2. pubAt' \in {"static", "strips", "lcd"} /\ (pubAt' = "static" => ~staticReady)
    BY DEF PublishDecode
<1>3. savedGeneration' <= generation
    BY DEF RenderInv, Core, Types, AgeInv, PublishDecode, Strips
<1> QED BY <1>1, <1>2, <1>3 DEF RenderInv, Core, FrameInv, AgeInv, NeverBothFooled, Types,
           PublishDecode, buttons

\* ... the static layer and the readiness that goes with it, ...
LEMMA StaticStep == RenderInv /\ (PublishStatic \/ PublishReady) => Core'
<1> SUFFICES ASSUME RenderInv, PublishStatic \/ PublishReady PROVE Core'
    OBVIOUS
<1>1. CASE PublishStatic
    <2>1. Types'
        BY <1>1 DEF RenderInv, Core, Types, PublishStatic, Frame, guest, buttons, capture, scan
    <2>2. \A f \in Faces : frames'[f].shell /\ frames'[f].strip = strip
        BY <1>1 DEF PublishStatic, Faces
    <2>3. strip \in Nat /\ generation \in Nat /\ strip >= generation
        BY DEF RenderInv, Core, Types, AgeInv, Strips
    <2>4. pubAt = "static" /\ pubAt' = "ready"
        BY <1>1 DEF PublishStatic
    <2>5. UNCHANGED <<strip, generation, loopAt, owner, marked, savedGeneration, drawIndex,
                      staticReady>>
        BY <1>1 DEF PublishStatic, buttons
    <2>6. owner # "none" /\ ~staticReady
        BY <2>4 DEF RenderInv, Core, TaskInv, FrameInv
    <2>7. FrameInv'
        BY <2>2, <2>4, <2>5, <2>6 DEF FrameInv
    <2>8. NeverBothFooled'
        BY <2>2, <2>5 DEF NeverBothFooled, Faces
    <2>9. AgeInv'
        BY <2>2, <2>3, <2>4, <2>5, <2>8 DEF RenderInv, Core, AgeInv
    <2> QED BY <2>1, <2>7, <2>9 DEF RenderInv, Core
<1>2. CASE PublishReady
    <2>1. Types'
        BY <1>2 DEF RenderInv, Core, Types, PublishReady, Unlock, guest, buttons, capture
    <2>2. pubAt = "ready" /\ pubAt' = "idle" /\ owner' = "none"
        BY <1>2 DEF PublishReady, Unlock
    <2>3. UNCHANGED <<strip, generation, frames, savedGeneration>>
        BY <1>2 DEF PublishReady, buttons
    <2>4. \A f \in Faces : marked'[f] = savedGeneration
        BY <1>2 DEF PublishReady, Faces
    <2>5. loopAt' # "mark" <=> loopAt # "mark"
        BY <1>2 DEF PublishReady, Unlock, RenderInv, TaskInv
    <2>6. FrameInv'
        BY <2>2, <2>3 DEF RenderInv, Core, FrameInv
    <2>7. NeverBothFooled'
        <3>1. ASSUME loopAt # "mark", savedGeneration = generation
              PROVE  frames[0].strip = strip
            <4>1. frames[0].strip >= generation /\ frames[0].strip <= strip /\ strip = generation
                BY <2>2, <3>1 DEF RenderInv, Core, AgeInv, Faces
            <4>2. frames[0].strip \in Nat /\ generation \in Nat
                BY DEF RenderInv, Core, Types, Frame, Strips
            <4> QED BY <4>1, <4>2
        <3> QED BY <2>3, <2>4, <2>5, <3>1 DEF NeverBothFooled, Faces
    <2>8. AgeInv'
        BY <2>2, <2>3, <2>4, <2>5, <2>7 DEF RenderInv, Core, AgeInv
    <2> QED BY <2>1, <2>6, <2>8 DEF RenderInv, Core
<1> QED BY <1>1, <1>2

\* ... the button strip and its mark, ...
LEMMA StripStep == RenderInv /\ (PublishStrips \/ PublishMark) => Core'
<1> SUFFICES ASSUME RenderInv, PublishStrips \/ PublishMark PROVE Core'
    OBVIOUS
<1> DEFINE next == Other(drawIndex)
<1>1. drawIndex \in Faces /\ next \in Faces /\ next # drawIndex /\ Faces = {drawIndex, next}
    BY OtherFace DEF RenderInv, Core, Types, Faces
<1>2. strip \in Nat /\ generation \in Nat /\ strip >= generation
    BY DEF RenderInv, Core, Types, AgeInv, Strips
<1>3. frames \in [Faces -> Frame] /\ marked \in [Faces -> Strips]
    BY DEF RenderInv, Core, Types, Faces
<1>4. UNCHANGED <<strip, generation, loopAt, owner, savedGeneration, drawIndex, staticReady>>
    BY DEF PublishStrips, PublishMark, buttons
<1>5. pubAt \in {"strips", "mark"} /\ pubAt' \in {"mark", "lcd"}
    BY DEF PublishStrips, PublishMark
<1>6. CASE PublishStrips
    <2>1. frames' = [frames EXCEPT ![next].strip = strip] /\ marked' = marked
        BY <1>6 DEF PublishStrips
    <2>2. Types'
        BY <1>6, <1>1, <1>3, <2>1 DEF RenderInv, Core, Types, PublishStrips, Frame, Faces, guest,
           buttons, capture, scan
    <2>3. frames'[next].strip = strip /\ frames'[drawIndex] = frames[drawIndex]
        BY <1>1, <1>3, <2>1 DEF Frame
    <2>4. frames'[next].shell = frames[next].shell
        BY <1>1, <1>3, <2>1 DEF Frame
    <2>5. FrameInv'
        BY <1>1, <1>4, <1>5, <2>3, <2>4 DEF RenderInv, Core, FrameInv
    <2>6. NeverBothFooled'
        BY <1>1, <1>4, <2>3 DEF NeverBothFooled, Faces
    <2>7. AgeInv'
        BY <1>1, <1>2, <1>4, <1>5, <2>1, <2>3, <2>6 DEF RenderInv, Core, AgeInv
    <2> QED BY <2>2, <2>5, <2>7 DEF RenderInv, Core
<1>7. CASE PublishMark
    <2>1. marked' = [marked EXCEPT ![next] = generation] /\ frames' = frames /\ pubAt = "mark"
        BY <1>7 DEF PublishMark
    <2>2. Types'
        BY <1>7, <1>1, <1>3, <2>1 DEF RenderInv, Core, Types, PublishMark, Faces, guest, buttons,
           capture, scan
    <2>3. marked'[next] = generation /\ marked'[drawIndex] = marked[drawIndex]
        BY <1>1, <1>3, <2>1
    <2>4. FrameInv'
        BY <1>4, <1>5, <2>1 DEF RenderInv, Core, FrameInv
    <2>5. NeverBothFooled'
        <3>1. ASSUME loopAt # "mark", marked[drawIndex] = generation
              PROVE  frames[next].strip = strip
            <4>1. frames[next].strip >= generation /\ frames[next].strip <= strip
                  /\ strip = generation
                BY <1>1, <2>1, <3>1 DEF RenderInv, Core, AgeInv
            <4>2. frames[next].strip \in Nat
                BY <1>1, <1>3 DEF Frame, Strips
            <4> QED BY <1>2, <4>1, <4>2
        <3> QED BY <1>1, <1>4, <2>1, <2>3, <3>1 DEF NeverBothFooled, Faces
    <2>6. AgeInv'
        BY <1>1, <1>2, <1>4, <2>1, <2>3, <2>5, <1>7 DEF RenderInv, Core, AgeInv, PublishMark
    <2> QED BY <2>2, <2>4, <2>6 DEF RenderInv, Core
<1> QED BY <1>6, <1>7

\* ... the guest's picture, ...
LEMMA LcdStep == RenderInv /\ PublishLcd => Core'
<1> SUFFICES ASSUME RenderInv, PublishLcd PROVE Core'
    OBVIOUS
<1> DEFINE next == Other(drawIndex)
<1>1. next \in Faces /\ frames \in [Faces -> Frame]
    BY OtherFace DEF RenderInv, Core, Types, Faces
<1>2. frames' = [frames EXCEPT ![next].lcd = surface]
    BY DEF PublishLcd
<1>3. Types'
    BY <1>1, <1>2 DEF RenderInv, Core, Types, PublishLcd, Frame, Faces, guest, buttons, capture, scan
<1>4. \A f \in Faces : frames'[f].strip = frames[f].strip /\ frames'[f].shell = frames[f].shell
    BY <1>1, <1>2 DEF Frame
<1>5. UNCHANGED <<strip, generation, loopAt, owner, marked, savedGeneration, drawIndex, staticReady>>
    BY DEF PublishLcd, buttons
<1>6. pubAt = "lcd" /\ pubAt' = "announce"
    BY DEF PublishLcd
<1>7. FrameInv'
    BY <1>4, <1>5, <1>6 DEF RenderInv, Core, FrameInv
<1>8. AgeInv'
    BY <1>4, <1>5, <1>6 DEF RenderInv, Core, AgeInv, NeverBothFooled, Faces
<1> QED BY <1>3, <1>7, <1>8 DEF RenderInv, Core

\* ... the announcement, ...
LEMMA AnnounceStep == RenderInv /\ PublishAnnounce => Core'
<1> SUFFICES ASSUME RenderInv, PublishAnnounce PROVE Core'
    OBVIOUS
<1>1. Other(drawIndex) \in 0 .. 1
    BY OtherFace DEF RenderInv, Core, Types, Faces
<1>2. Types'
    BY <1>1 DEF RenderInv, Core, Types, PublishAnnounce, Unlock, guest, buttons, capture
<1>3. pubAt' = "idle" /\ owner' = "none"
    BY DEF PublishAnnounce, Unlock
<1>4. loopAt' # "mark" <=> loopAt # "mark"
    BY DEF PublishAnnounce, Unlock, RenderInv, TaskInv
<1>5. UNCHANGED <<strip, generation, frames, marked, savedGeneration, staticReady>>
    BY DEF PublishAnnounce, buttons
<1> QED BY <1>2, <1>3, <1>4, <1>5 DEF RenderInv, Core, FrameInv, AgeInv, NeverBothFooled

\* ... and the scan of the panel.
LEMMA ScanStep == RenderInv /\ Scan => Core'
<1> SUFFICES ASSUME RenderInv, Scan PROVE Core'
    OBVIOUS
<1>1. UNCHANGED <<guest, buttons, capture, tasks, panel, awake>>
    BY DEF Scan, ScanSees, ScanSwaps, ScanClears
<1>2. Types'
    BY DEF RenderInv, Core, TaskInv, Types, Scan, ScanSees, ScanSwaps, ScanClears, guest, buttons, capture,
       tasks, panel
<1> QED BY <1>1, <1>2 DEF RenderInv, Core, FrameInv, AgeInv, NeverBothFooled, buttons, tasks, panel

\* Every step keeps the invariant.
LEMMA RenderNext == RenderInv /\ [Next]_vars => RenderInv'
<1> SUFFICES ASSUME RenderInv, [Next]_vars PROVE RenderInv'
    OBVIOUS
<1>1. CASE UNCHANGED vars
    BY <1>1 DEF RenderInv, Core, Flags, Types, TaskInv, FrameInv, AgeInv, NeverBothFooled, vars,
       guest, buttons, capture, tasks, panel, scan
<1>2. CASE Next
    <2>1. Flags' /\ TaskInv'
        BY <1>2, FlagsNext, TaskNext DEF RenderInv, Core
    <2> QED BY <1>2, <2>1, GuestStep, LoopStep, ButtonStep, SleepStep, LockStep, DecodeStep, StaticStep,
        StripStep, LcdStep, AnnounceStep, ScanStep
               DEF RenderInv, Next, Guest, LoopServices, RenderTask, Publish
<1> QED BY <1>1, <1>2

-----------------------------------------------------------------------------
\* Frames, marks, tasks and interrupt keep their types for any bounds.
THEOREM TypeCorrect == Spec => []TypeOK
<1>1. RenderInv => TypeOK
    BY DEF RenderInv, Core, Flags, Types, Snapshots, TypeOK
<1> QED BY <1>1, RenderInit, RenderNext, PTL DEF Spec

\* Whenever publishPanelFrame may take the incremental path, neither frame is
\* one the sleep screen wiped.
THEOREM ShellAlwaysComplete == Spec => []ShellComplete
<1>1. RenderInv => ShellComplete
    BY DEF RenderInv, Core, FrameInv, ShellComplete, Faces
<1> QED BY <1>1, RenderInit, RenderNext, PTL DEF Spec

\* Reading the generation after the strips are drawn fools at most one frame.
THEOREM BothNeverFooled == Spec => []NeverBothFooled
<1>1. RenderInv => NeverBothFooled
    BY DEF RenderInv, Core, AgeInv
<1> QED BY <1>1, RenderInit, RenderNext, PTL DEF Spec
=============================================================================
