# ESP32-PALM: models, checks and proofs

ESP32-PALM runs Palm OS on an ESP32-S3 board: the Musashi 68000 core executes a Palm ROM
against an emulated DragonBall, and a sketch drives the panel, the touch screen, the SD
card and the serial port. A desktop harness runs the same machine on Windows, and a
separate tool speaks IrDA with it. This directory holds TLA+ models of the parts whose
behaviour depends on the order of events, the TLC runs that check them on small
instances, and TLAPS proofs for every value of their constants.

    tlc -workers 2 -config MCPalmUart.cfg MCPalmUart
    tlapm PalmUartProofs.tla

## The system

| Part | Where | State | Operations | Talks to |
|---|---|---|---|---|
| UART, IrDA probe echo | `palm_hw.cpp` | two ring FIFOs, status registers, echo budget and deadline | guest register accesses, `palmHwUartWriteRx/ReadTx`, save, load, reset | guest, serial bridge, interrupt registers |
| Serial bridge | `ESP32-PALM.ino` 2954 | none of its own | `servicePalmUartBridge` in every turn of `loop()` | USB serial, UART |
| Keys, pen, cradle, interrupt registers | `palm_hw.cpp` | button bits, port D registers and edges, pen, IRQ1 line, pending, mask, status | guest accesses, `palmHwSet*`, prepare for sleep | guest, touch and buttons, CPU slice |
| Timer, clock, cycle pacer | `palm_hw.cpp` | counter, compare, status, last cycles and microseconds, RTC registers | `palmHwCycle`, register accesses | host clock, interrupt registers |
| SPI, ADS7846 | `palm_hw.cpp` | shift registers, command bits | `completeSpiExchange` | guest, pen |
| LCD registers, backlight | `palm_hw.cpp` | registers | `palmHwGetLcdState` | render pipeline |
| Memory map, SED1375 | `palm_memory.cpp` | RAM segments, page caches, lookup table | `palmMemoryInit`, `palmRead*`, `palmWrite*`, `palmRam*Bytes` | CPU core, snapshot file |
| CPU slices, low power | `ESP32-PALM.ino` | low-power flags, wake requests | `executePalmCpuSlice`, `setPalmLowPowerMode`, deep idle | hardware, panel |
| Touch panel, side buttons | `ESP32-PALM.ino` | latched touch, hold timers, waking touch | `getPalmScreenTouch`, `servicePalmTouchInput` | fingers, pen and keys, services |
| Snapshot file | `ESP32-PALM.ino` | two files on the card, I/O buffers | `savePalmStateToSd`, `restorePalmStateFromSd` | all device state |
| Save, reset, firmware services | `ESP32-PALM.ino` | request flags, hold timers | `servicePalmStateSaveRequest` and others | low power, snapshot file |
| Render pipeline | `ESP32-PALM.ino` | surface, two panel frames, generations, pending and active frame | redraw, render task, scan interrupt, sleep screen | LCD registers, buttons |
| HotSync host | `PalmDesktopHarness/MainForm.vb` | PADP send and receive state, install state | SLP and PADP handlers, DLP sequence | UART of the native bridge |
| IrDA beam tool | `PalmBeamCom/MainForm.vb` | link, OBEX and sender state | frame handlers, timers | serial port |
| Native bridge | `NativeMusashi/` | a C copy of the hardware and the memory | exported calls | harness |

One task, `loop()`, runs the guest in slices and, between them, every service: bridge,
touch, buttons, save, redraw. Within that task an operation is atomic. Real concurrency
is in three places: the render task on the other core, the panel interrupt, and the
outside world (the host at the serial port, fingers, the card and the power supply).

What is hard, per part:

- *UART*: three status words derived by hand after each queue operation; bursts that wrap;
  an echo that must not survive the mode that armed it; snapshots taken with wrapped rings.
- *Inputs*: edge and level interrupts from the same columns, keys that go up before the
  guest looks, a sleeping guest that does not drive its keyboard rows, register writes in
  any order.
- *Snapshot file*: power loss between any two calls, calls that fail, results that the code
  does not look at.
- *Render pipeline*: two tasks and an interrupt over unguarded variables; publications that
  overtake each other; repairs that only happen at the next redraw.
- *Low power and services*: a save that runs the guest inside one turn of the loop and must leave
  clock, panel and keys as the guest needs them whichever way it ends; a touch that outlives
  the sleep or the wake it came in; a controller that drops the finger of a hold for a moment.
- *Clocks*: counting the same interval once, acknowledging without losing an event.
- *Memory*: pointers to whole pages are cached and never forgotten; the heap cuts the RAM
  where it likes, and words, pages and snapshot blocks cross the cuts.
- *HotSync host*: any acknowledgement sends the next fragment, any answer with the right
  command takes the install a step further; failures inside a send return to callers that
  overwrite them; sessions break off midway.
- *IrDA tool*: frames are lost and repeated, answers repeat with them, seven timers watch
  overlapping waits, and the user may start another file at any time.

`PROJECT.json` lists each hazard at its line with the properties that cover it.

## Modules

Each component has a module with one action per operation, an `MC` module with values for
TLC, and a module of proofs; the proofs about the snapshot store are in one with those
about the services that save, `PowerAndSnapshotProofs`.

### PalmUart and ByteLink

`PalmUart` is the UART of `palm_hw.cpp` with the serial bridge. Registers are kept as the
set of flags the code tests. The rings have their array, head, tail and count, so wrapping
and bursts are those of the code; `Put`, `PutMany`, `Take`, `Contents` and `Loaded` are the
queue helpers, `UpdateUartRegs` the function of that name. Guest actions are `CpuReadRx`,
`CpuWriteTx` (and `CpuWriteTxFull`, where the byte is lost), `CpuWriteControl` and
`CpuWriteMisc`; the host's are `HostSends`, `BridgeService` and `EchoWindowCloses`; `Reset`,
`SaveState` and `LoadState` end the list.

`ByteLink` is what the UART promises: two bounded queues that lose bytes only by counted
overruns, and snapshots that bring both queues back. `ImplementsByteLink` maps the rings
to the queues by `Contents`.

### PalmInputs

Key matrix, pen, cradle line and the interrupt registers. A port register is the set of
columns whose bit is set, `Wire` the profile's matrix and `SleepColumn` the columns a key
reaches while the guest sleeps. `KeyRequests` is `updatePortDInterrupts`, `WithCradleLevel`
is `updateCradleIrq1Level`, and each action ends by `UpdateStatus` or `UpdatePortD`
exactly where the code does. The interrupt sources of other devices are the set `Other`.
`CradleEdgeLatches` says of every step in edge mode that the active transition of the button
sets IRQ1, that nothing else sets it, and that only the acknowledgement takes it back.

### SnapshotStore

`savePalmStateToSd` and the restore at boot, call by call. A file is a kind, the number of
sections that reached the card and their content; content is the number of the guest
burst that wrote it, so that mixing two moments is visible. `PowerLoss` may come between
any two steps, and `Faults` names the calls that may fail. `committed` and `tails` are
history variables: what the last successful save captured, and whether closing a file
has ever lost its end (the failure the code cannot see).

### RenderPipeline

Loop task, render task and panel interrupt, each with its place in its code (`loopAt`,
`renderAt`, `pubAt`, `scanAt`). A picture is a number; frames carry the picture, the button
state they were drawn from and whether they have the silkscreen around them.
`publishPanelFrame` is split where another actor can see a difference. The mutex is
`owner`. The interrupt runs on the loop task's core, so the loop task stands still during
it and the render task does not. `pendingPanelFrame` is not volatile: a build may read it
once or twice, and both are allowed.

### PalmClocks

Timer and real-time clock. Of the two absolute time bases of the code, emulated cycles and
host microseconds, the model keeps the distances `systemCycles - timerLastCycles` and
`hostMonotonicMicros() - timerLastHostMicros`, which is all the code looks at. `Updated` is
`updateTimer` as a function of the count, since a read of the status calls it twice;
`Counted` is `applyTimerTicks`. The flags a compare raises, in the status register and in
the pending register, are one set. `UpdateRtc` is `updateRtcTime`; `HostSecond` moves the
host's clock. Two histories judge them: the page of the timer that `Opened` begins (where the
count started, time passed, ticks, compares), and `watch`, what the current second should
bring and has brought.

Two things the model shows and no document speaks of: in free-running mode every update
beyond the compare value raises the interrupt again, and `lastTimerStatus`, which should keep
an unread compare from being acknowledged, does not, because the register has taken the
written value before (`palm_hw.cpp` 1339 and 1371).

### PanelTouch and PalmPower

`PanelTouch` is what one pass makes of the touch panel: `SkipPoll`, `ReadStaleTouch`,
`ReadButton`, `ReadScreen`, `ReadDropout` and `ReadUp` are the ways through
`getPalmScreenTouch`, `FeedPalm` is `servicePalmTouchInput` in the variant that feeds the
touch converter. A position is the button touched or the screen, and whether it moved. Times
are ages: how long a hold has lasted, since when the hold button has been unseen, and so on,
each kept only as far as the code compares it. `finger` is a history variable: where the
panel reported the finger and for how long, what this touch has asked for, and whether it
woke the guest.

`PalmPower` composes it with `loop()`: `phase` says where the loop task is, and each step
lies between two points where the guest runs or the panel is read. The guest is arbitrary:
a `CpuSlice` of a guest that runs may sleep, wake, acknowledge or set its ports up; one that
sleeps without a request is not run. `EnterLowPower`, `LeaveLowPower`, `UpdateLowPower` and
`SetWakeService` are the functions of low power; `ServeSave` up to `FinishSave` the save
service, with its pulses of the power key, its settle loops, its capture (the module
`SnapshotStore`) and its attempts to wake; `ServeReset` and `ServeSwitch` the other two
services; `BootStart` and the boot phases `autoWakeRestoredPalm`. Of the hardware there is the
pen, the keys, one value for their requests (`"level"` is one that clearing the keys does not
clear, as the guest may have set port D up) and `other` for all other requests; `PalmInputs`
has them in full.

What the code has and its single task never reaches is left out: the branches on
`touchInputDisabled` and on a reset in progress (the services that set these flags read no
touch), the drift allowed to a held button (`rawInLatchedVirtualButton` has already failed),
the first branch of `wakePalmAfterStateSave` (it is called with a sleeping guest). Every
request is served in the turn of the touch that made it, which `NothingWaits` in the proofs
confirms. Unused places of the strip behave like a button without a key. Result
indicators, backlight and the drawn buttons are left out. Going dark takes at least 22 ms,
longer than the 10 ms of the release debounce, so a touch is past it afterwards.

Two observations: a reset of the OS has no gate against a second one in the same touch, as
saving and switching have (the hold itself has to begin again); and the guard for a touch
from before the sleep asks only for a touch that was seen, so a finger that had slid off its
button when the guest fell asleep wakes it again.

### MemoryMap and PalmMemory

`MemoryMap` says which address means what: `romPointerForAddress` with its two windows and
their mirrors over a chip select, `ramOffset` with the alias at the top, the registers at
both of their addresses, the word behind the RAM. `PalmMemory` has the state of
`palm_memory.cpp`: the segments the heap gave, and the two caches of page pointers. A
pointer is the *place* of a byte (segment and offset, image and offset, or what stands for
registers and nothing); an access is the cache it leaves and the places of its bytes, in the
order of the spans the code tries: cached page, ROM, RAM in one segment, byte by byte.
`AllocateLow`, `AllocateBlock` and `palmMemoryInitEnds` are `palmMemoryInit`, `Read`, `Write`
and `Fetch` the accesses, `BlockPlaces` the pieces in which the snapshot moves the RAM.
The values stored are left out: what could be wrong is where they are looked for.

What the model showed and documents say otherwise, or not at all: README_BRINGUP.md:29 has the
top of the 16 MB map back onto the RAM, but there the mirror of the ROM's 24-bit window
comes first; README_BRINGUP.md:65 has missing RAM mirrored, but `palmMemoryInit` fails
instead (palm_config.h:15-16). A write through the 24-bit alias of the registers reaches them
and a read there finds the ROM. Over a seam between two ROM windows a word is read as two
bytes in a row of the image, where its second byte's own address means another
(`AccessesAreBytes` excludes such a `Seam`).

### HotSyncHost and HotSync

`HotSyncHost` is the host of the desktop harness as one record. Each function of the code is
an operator from the host to the host it leaves, frames written going to the end of `uart`;
composing operators composes calls, so that a caller that overwrites what a call did does so
here. `HandlePalmSlpFrame` is the dispatcher, `HandlePadpDataFragment` and
`SendNextPadpFragment` PADP, `HandleDlpPayload` down to `SendNextInstallItem` the install.

`HotSync` puts it on a line with a Palm that acknowledges fragments, carries out whole requests
and answers them. That Palm is outside the repository and marked so in the map; it is what the host
needs of it. Faults are counted: a frame lost in either direction, a message sent again, a
request refused or asked in between, a session broken off. The user queues files, resets and
restores. `accepted`, `done` and `trouble` are histories.

What it shows of the code:

- An install broken off midway keeps its state. `BeginHotSyncWork` starts nothing unless the
  state is Idle, and a wake clears only Done and Failed, so later syncs install nothing until
  a reset or a restore (`InstallsEverything` starts from any other state).
- An answer is taken by its command alone. One that comes twice takes the install a step
  further, and while a long item is still being sent the failure that this causes is
  overwritten: the item is skipped and the install still reported complete.
  `CompleteMeansWhole` holds without such repeats, `WrittenOnceInOrder` with them.
- A block or item that leaves no room for the head of its argument fails inside the send, and the
  caller overwrites the failure: the host waits for an answer nobody owes it
  (`Sendable` excludes them).

### BeamSender, BeamReceiver, BeamTransfer and BeamLink

The IrDA tool both sends and receives. `BeamSender` and `BeamReceiver` are its halves, again as
records with one operator per function; `BeamLink` puts one of each on a line that loses
frames, with the timers of both windows as actions. The timers look at no line: one that is
meant to come after any answer may come early when the other window is slow
(`RetransmitTimerEarly`, `DiscoveryTimerEarly`). `BeamTransfer` is the promise: a file that is
started is saved at most once, whole, and is reported complete only when it was saved.
`ImplementsTransfer` is the refinement.

A send that breaks off another finds frames of it on the way. The history `past` is "gone"
when there are none, "left" while there may be some, and "mixed" once an early discovery timer
lets a new link be set up over them. `HandleIrdaSnrmFrame` clears the numbers of the link but not
the answers queued before it, so such an answer follows the UA and may be taken for frame 0 of
the new link. What the properties say then was found by letting it happen:

- `NeverStarved` holds all the same, and a saved object is still whole and in its order.
- `LossIsRepaired` does not: with an old answer taken as an answer of the new link, the two sides
  no longer count alike, and one loss may lead to the give-up (two sends, three faults and three
  retries show it). It speaks of links that are not mixed.
- `FewFrames` is broken by three sends and three faults; it speaks of links that are not mixed.
- "Beam send complete" may come before the file is saved, if several sends break off each other
  and each new one takes another old answer (eight sends and 22 faults show it). `BeamTransfer`
  has this as the step `Mix`, after which links are no longer `apart`.
- `SendEnds` needs more: it is about sends that start with the line clear, see below.

What it shows of the code:

- A send that breaks off another may never leave discovery: the last answer of the old link
  draws an acknowledgement, that draws the answer again, and each of them resets
  `irdaBeamLastProgressTick`, which holds back the next discovery. `SendEnds` is therefore about
  sends that start with the line clear.
- An empty file that is not a memo is reported complete and never saved.
- A lost SNRM or UA is not repeated: only the give-up timer of 45 s ends the wait. Discovery
  itself has no limit, and waiting for a credit has no timeout at all; `NeverStarved` says
  that between two of these tools that wait never happens.

## Runs

| Run | Question | Bounds |
|---|---|---|
| `uart` | Do rings, echo, bridge and snapshots behave as two queues with a current request? | 2-byte FIFOs, chunks of 2, two byte values, 2 bytes at the driver |
| `uart_irda_doc` | HARDWARE_PROFILES.md:244: every byte sent in IrDA mode echoes. Violated. | as `uart`, without snapshots |
| `inputs` | Are the requests always those of the inputs, does no edge get lost, and does a restored guest find its requests? | a corner of the IIIc matrix: 3 keys, 2 rows, 2 columns, pen, cradle, one foreign source |
| `store` | What is on the card after any fault, and what does a boot make of it? | 5 sections, 3 guest bursts, all faults |
| `render_iiix` | Does the panel catch up with screen, buttons and sleep? | 1 picture, 2 button changes, 2 sleeps |
| `render_iiic` | Where redraws are skipped, is only a lost publication never repaired? | 2 pictures, 1 button change, 1 sleep |
| `render_doc` | README_BRINGUP.md:53-55: a redraw on a fixed schedule. Violated on the IIIc. | 1 picture |
| `clocks` | Are ticks lost or invented, is each request current, does a second bring its events once? | 2 timer settings, a counter of 4, 3 units of time between writes, a day of 3 seconds |
| `power` | Do keys, panel, clock and low power stay with finger and guest through every save, reset and wake, are holds earned, does everything end? | power and one other key, holds of 2, 1 and 2, grace 1, debounce 2, settle 2 of 3, 2 attempts, pulses of 1 slice, unit gaps |
| `memory` | Are cached page pointers ever stale, does each access find the bytes of its addresses, does the snapshot move the RAM in order? | 64 addresses, pages of 4, 8 bytes of RAM in up to 3 segments, 8 of ROM, 2 cache entries |
| `hotsync` | Are databases written whole, once and in order, is no file lost, does an undisturbed sync install everything? | 3 files, 2 clicks, 2 syncs, 2 faults, transaction numbers to 5 |
| `beam` | Does a beam keep the promise of `BeamTransfer`, is each loss repaired, does a send end? | 3 files of up to 3 units, 2 sends, 2 faults, chunks of 2, numbers modulo 8, 2 retries |

Why the bounds are enough. A ring of two cells wraps, fills, overruns and takes a burst
that straddles its end. Two rows and two columns with a key that reaches both a shared and
an own column give every combination of edge, level, polarity and a second key on a held
column. Five sections have a header, registers, two RAM chunks and the display memory:
every branch of the copy loops, and a file can end after any of them. Two button
changes are needed to have both frames old, two sleeps to have a publication of before a
sleep end after the next one. Any saved state can be restored into any other, so `FewSnapshots`
keeps, of the snapshots of UART, inputs and clocks, those whose restore changes most.

A counter of four values wraps and passes
several compares in one update; the rates include one with more ticks than microseconds and
not a whole number of them, as the sleeping timer has. Timer and clock share no register, so
`OneDeviceMoves` lets one of them move in each behaviour.

Of the times of `power` only the order matters: the switch hold is longer than the reset hold,
the timeout longer than the settle time, the grace time shorter than a hold. With a grace
time of one unit a dropout may be forgiven or not, with two attempts one can follow another, and
two units of settling can be broken off. A pulse of one slice wakes the guest or does not.

The map of `memory` has the proportions of the real one: the ROM's 24-bit window lies over the
alias of the RAM and over the 24-bit registers, the image is repeated within its chip select,
RAM may be cut inside a page, and two cache entries make pages displace each other. In each
state every address is read, written and fetched at every width, and every block moved.

`hotsync` has a file without blocks and with an item of two fragments between others, one with
both blocks, and one whose second item cannot be sent; the Palm's transaction numbers wrap. Two
syncs let one meet what the other left behind, and two faults let one strike while another is
being repaired. `beam` has a program of two or three chunks, an empty memo and an empty file; of
two sends one is the memo (`OneMemo`), short enough to meet everything the other leaves
behind; of two faults one may be the early discovery timer. Fewer retries than the code's only
bring the give-up nearer.

What the two violations show: the probe echo stops at its budget, at the end of its
window or at a framing byte, so it is not the loopback that the document describes; and
the IIIc redraws only when its screen changed. The second matters: the interrupt may
clear a publication it did not take (`ESP32-PALM.ino` 1611), and on the other profiles the
fixed schedule repairs that, while on the IIIc nothing does until the screen changes.

## Fairness

`RenderPipeline`, `PalmPower`, `HotSync` and `BeamLink` have liveness. `FairSpec` of the first assumes weak fairness
of the loop task's redraw and services, of the render task, of a publication under way and of
the scan: `loop()` runs for ever, the render task is woken by its notification, the holder of a
mutex runs on, and the panel scans without end. Nothing is assumed of Palm OS, fingers or
waking; the properties speak of the time after they have come to rest.

`Spec` of `PalmPower` has weak fairness of the next step, since `loop()` never blocks, and strong
fairness of `Lifted`: if the loop reads the panel again and again, some reading finds no finger. A
finger that never lifts would keep the guard for a touch of before the sleep up for ever, by
design, so `RequestIsServed` needs it. Of the guest nothing is assumed: `SaveEnds` holds for one
that never sleeps and for one that never wakes.

`FairSpec` of `HotSync` has weak fairness of the host's two services, since the harness polls the
UART after every slice, and of the Palm's reading what it is sent. No user has to do anything, and no
fault has to happen or to stop: `InstallsEverything` is about sessions that nothing disturbs.

`Fairness` of `BeamLink` is the timers of the windows and the serial ports; it leaves out the
two early timers, the user and the losses.

## Proofs

| Module | Proved for all constants | Argument |
|---|---|---|
| `PalmUartProofs` | type correctness, coherent rings, current request, echo only in IrDA mode, the bridge loses nothing, the refinement of `ByteLink` | `RingInv`: each ring's head is its tail advanced by its count. From it, lemmas say what `Put`, `Take`, `PutMany` and `Loaded` do to `Contents`; the refinement follows action by action |
| `PalmInputsProofs` | type correctness, current interrupt lines, and the action properties | `InputInv`: types, lines current, and a saved snapshot whose own lines are current. Without the last part a restore could bring back a stale line |
| `RenderPipelineProofs` | type correctness, `ShellComplete`, `NeverBothFooled` | `RenderInv`: who may be publishing (`TaskInv`), what frames and marks can be at each place of a publication (`FrameInv`), and how old a saved generation is (`AgeInv`) |
| `PalmClocksProofs` | type correctness, the other properties of `clocks`, `RequestHasCause` | An update is a function, so `CountedGood` and `UpdatedGood` say once that it keeps the count balanced and on time, from lemmas on division. For the clock, `WatchInv`: what the history has heard of a second tells whether its events can still come |
| `HotSyncProofs` | type correctness, `QueueKept`, `MidwayHasImage`, `FragmentsInStep`, `WrittenOnceInOrder` | `IInv`: what was queued is what was reported followed by what waits in the host (`Waiting`), and a host midway has a database and a place in it (`Working`). Lemmas follow the host through the calls: sending keeps queue and place even when it fails (`Sends`), a received message keeps the queue (`Stays`) or takes off its installed head (`Installs`). Without `Working`, `CloseSent` could report an install of nothing. `FragmentsOK`: while a session is on and nothing was lost, the data frames on the line are a chain that begins with what the Palm has heard, and the fragment still to be sent continues it; the answer to a wake, on which the Palm forgets what it has heard, is a single frame. `InOrderOK`: requests and answers on the line are a round, from the answer the host gets next to its newest request, and on it no Create comes behind a Delete unless the host waits for that Create; the writes still to land are of one database and in order, behind what is written in it; a database that was just created is empty; while the host writes, all that is written or on its way comes before the part it sends next, and no answer to a sort block may still come while it waits for an application block. Without the last, an answer of an earlier request could take the host back to parts it has sent |
| `PalmMemoryProofs` | type correctness, `CachesCurrent`, `SegmentsTile`, `AccessesAreBytes`, `BlocksAreBytes` | `IInv`: the segments so far tile what has been allocated (`Tiled`), and the caches are empty until all of it is (`CachesOK`). From then on no segment moves, so an entry filled once stays right; one lemma for each width of access carries this through the halves of words. A page is whole in or out of every window and of the image, so the bytes of a word found through a page, a segment or the image are those found through their own addresses. Blocks are recursive functions of what is left to copy, and what they yield is an induction over that, made by hand from its least counterexample |
| `BeamLinkProofs` | type correctness and `NeverStarved`; as long as no discovery timer comes over frames under way (`TimelyDiscovery`), `FewFrames` and the refinement of `BeamTransfer` | The first two rest on `CreditInv`, which also holds when links are mixed: every answer that asks for body chunks came over TinyTP and so brings a credit, wherever it is, on a line, queued or kept to repeat. The others rest on `IInv`, which needs `TimelyDiscovery`, because with two links mixed no numbers tell whose turn it is; what then still holds of them is left to TLC. `IInv` is three facts about the sender, the receiver and both lines, the answers that are queued or in the slot counted with the line back. `Mode`: a link is left behind (`Leftover`), set up (`SettingUp`) or in step (`InLink`). In step, the numbers tell whose turn it is (`Asking`, `Answering`, `Pausing`); on either line frames are new or one old and no old one is behind a new one; and the new request, the frame kept to repeat, the last answer and the body received are those of the sender's state (`Asked`, `Answered`). `Tally`: what is saved is whole and no more often than it was started, less one for the file being sent unless this link has saved it. `LoadOf`: the frames that those under way can still lead to. Each handler is followed from what it calls upward, then once per mode. Without `Leftover` a last frame of a link broken off could not be told from one that saves twice, and without the order on the lines an old answer could be taken for a new one |
| `PowerAndSnapshotProofs`, store | type correctness and the four properties of `store` | `StoreInv`: what the temporary file holds at each place of a save (`SavingInv`), what the machine holds at each place of a restore (`BootingInv`), and `FinalIsCommitted` |
| `PowerAndSnapshotProofs`, power | type correctness, the other invariants of `power`, `WakeTouchIsServed`, `HoldsAreEarned` | `IInv` adds: a service runs without any touch and with no key but the one it presses (`ServiceQuiet`), no request waits for another turn (`NothingWaits`), a waking touch is a touch of the screen and no pen (`WakeShape`), a hold is at most as old as the finger that holds (`HoldShape`), an awake guest has the panel but for the end of a save (`PanelShape`), and a settled guest stays so up to the capture (`SleptQuiet`). Without the last, the test in the settle loop says nothing of the capture two steps later |

Some properties are proved and in no run, being parts of what the runs check or weaker than it:
the type invariants, `RingsCoherent`, `RequestMatchesQueues`, `EchoOnlyInIrda`, `PrepareQuiets`,
`FinalNeverTorn`, `RequestHasCause`, `WakeTouchIsServed`, `MidwayHasImage` and `SegmentsTile` among
them.

The assumptions are those stated with the constants of each module. What stays with TLC:

- liveness (`power`, `render_*`, `hotsync`, `beam`), since the prover has no rule for `ENABLED`;
- `CompleteMeansWhole` of `HotSync`, which has to count the answers still to come against the
  parts still to land; of `BeamLink`, `LossIsRepaired` and `SendEnds`, and `FewFrames` and
  `ImplementsTransfer` once a discovery timer came early.

Of the assumptions these are more than ranges of numbers. Every window of the memory map and the
ROM image are whole pages, and the register addresses that lie in the RAM's alias lie under
the ROM (`PageAssumption`), as in every profile. At most one memo is empty
(`ObjectAssumption`): two would be saved as the same empty object, and the model, which knows
a file by its units, could not say which of them was saved. `None` is no place in memory and
no frame (`NullAssumption`, `NoneAssumption`).

## Assumptions of the models

- The guest does not write the pending registers `$30E` to `$313` directly.
- The CPU part of a snapshot is whole; that it leaves out the stopped flag of the core and
  its pending interrupt level is not modelled.
- The guest writes the device registers of timer and clock by words, and the time by a long
  word, so no update falls between their bytes.
- A RAM image is recognised by its exact size, as in the code.
- The loop task and the panel interrupt share core 1.
- Capturing the screen does not fail and its depth is supported.
- `palmHwCycle` may find any request at any time; the guest of `PalmPower` may clear any.
- A damaged frame is a lost one: both desktop tools check length and checksum first. Frames
  that arrive are in order.
- The Palm of `HotSync` carries out every whole request it gets, one that is sent again under the
  same transaction number included.
- A running machine has all of its RAM (`palmMemoryInit` refuses to start without).
- `panelStaticGeneration` starts at 1 in the code and at 0 in the model; only equality matters.

## Not modelled

- *CPU core*: Musashi is third-party, and its 102,000 lines of `m68kops.c` are generated. It
  and its floating-point library, disassembler and tests are nine tenths of the repository's
  lines, so the models stand for a small share of all lines and for most of the project's own
  firmware. The guest is an arbitrary program everywhere.
- *Native desktop bridge*: a C copy of the hardware, the memory and their snapshots; what
  holds of the models would have to be compared with it line by line, not modelled again.
- *SPI and ADS7846*: one register write runs the exchange to its end, in a sequential shift
  register whose only lasting state is the command byte.
- *SED1375*: a lookup table written byte by byte and registers the renderer reads, without an
  order or a failure to get wrong. `PalmMemory` covers the profiles without it.
- *LCD registers, backlight, brightness*: functions of registers, without state of their own.
- *Hardware profiles*: constants, which the models take as theirs.
- *Harness forms, ROM extractor, RAM probe, document editor, build glue*: pure input and output,
  file conversion and painting on one user-interface thread.
- Within modelled parts: pixels, scaling and palettes; touch coordinates and the bus of the GT911,
  and the touch variants for the event queue and the pen calls; the reassembly of OBEX packets
  that a Palm splits over frames and rejected IAS queries; values stored in memory, bus errors
  and statistics.
