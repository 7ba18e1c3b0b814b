----------------------------- MODULE PalmInputs -----------------------------
(***************************************************************************)
(* The input side of the emulated DragonBall in palm_hw.cpp: the key       *)
(* matrix on port D, the pen, the cradle button on IRQ1, and the pending,  *)
(* mask and status registers they report through.                          *)
(*                                                                         *)
(* An 8-bit port register is the set of the columns whose bit is set, the  *)
(* interrupt registers are sets of sources, ICR keeps ET1 and POL1.  All   *)
(* functions run in the loop task, so each call is one atomic step; guest  *)
(* accesses happen inside a CPU slice of that task.                        *)
(***************************************************************************)
EXTENDS Naturals, FiniteSets

CONSTANTS
  Key,           \* KEY_BIT_*
  Row,           \* keyboard rows, driven low through ports B, C or F
  Col,           \* port D columns, the INT0..INT3 sources
  Wire,          \* the profile's matrix: <<row, key, column>>
  SleepColumn,   \* sleepingKeyEdgeColumns: [Key -> SUBSET Col]
  Other,         \* the sources of the other components (timer, RTC, UART, ...)
  RowValues,     \* sets of rows the guest drives
  PortDValues,   \* values the guest writes: [field of port D -> set of sets of columns]
  IcrValues,     \* values the guest writes to ICR
  MaskValues,    \* values the guest writes to the mask
  Inputs,        \* bound: which of "keys", "pen", "cradle" the host moves
  Snapshots      \* bound: does the run take and restore snapshots

Source    == {"PEN", "IRQ1", "KBD"} \cup Col \cup Other
KeySource == {"KBD"} \cup Col
PortD     == [outputs : SUBSET Col,    \* $418 direction
              polarity : SUBSET Col,   \* $41C
              request : SUBSET Col,    \* $41D
              kbdEnable : SUBSET Col,  \* $41E
              edge : SUBSET Col]       \* $41F
Icr       == [et1 : BOOLEAN, pol1 : BOOLEAN]

ASSUME InputConstants ==
  /\ Wire \subseteq Row \X Key \X Col
  /\ SleepColumn \in [Key -> SUBSET Col]
  /\ ({"PEN", "IRQ1", "KBD"} \cap (Col \cup Other)) = {} /\ Col \cap Other = {}
  /\ RowValues \subseteq SUBSET Row
  /\ DOMAIN PortDValues = {"outputs", "polarity", "request", "kbdEnable", "edge"}
  /\ \A f \in DOMAIN PortDValues : PortDValues[f] \subseteq SUBSET Col
  /\ IcrValues \subseteq Icr
  /\ MaskValues \subseteq SUBSET Source
  /\ Snapshots \in BOOLEAN

VARIABLES
  down,        \* buttonBitsDown
  rows,        \* rows driven: direction bit set and data bit clear
  portD,       \* configuration registers of port D
  portDEdge,   \* portDEdge
  penDown,     \* penDown
  lineLow,     \* cradleButtonLineLow
  icr,         \* ET1 and POL1 of $302
  asleep,      \* PLL_CONTROL_DISABLE in $200
  mask,        \* $304/$306
  pending,     \* $310/$312
  status,      \* $30C/$30E
  saved        \* <<>> or the input part of the last snapshot

keypad == <<down, rows, portD, portDEdge>>
vars   == <<keypad, penDown, lineLow, icr, asleep, mask, pending, status, saved>>

-----------------------------------------------------------------------------
(* What the registers say, as functions of the inputs. *)

\* portDKeyBits: the columns a held key connects to a driven row.
KeyColumns(rw, dn) == {c \in Col : \E r \in rw, k \in dn : <<r, k, c>> \in Wire}

\* updatePortDInterrupts.
KeyRequests(pd, rw, dn, edges) ==
  LET data  == KeyColumns(rw, dn)
      fires == {c \in Col : IF c \in pd.edge
                            THEN c \in edges /\ c \in pd.polarity
                            ELSE c \in data <=> c \in pd.polarity}
  IN ((fires \cap pd.request) \ pd.outputs)
       \cup (IF (data \cap pd.kbdEnable) \ pd.outputs # {} THEN {"KBD"} ELSE {})

\* cradleButtonIrq1Asserted.
CradleAsserted(i, low) == low # i.pol1

\* updateCradleIrq1Level.
WithCradleLevel(p, i, low) ==
  IF i.et1 THEN p
  ELSE IF CradleAsserted(i, low) THEN p \cup {"IRQ1"} ELSE p \ {"IRQ1"}

\* updateInterruptStatus.
UpdateStatus(p) ==
  /\ pending' = WithCradleLevel(p, icr', lineLow')
  /\ status' = pending' \ mask'

UpdatePortD(p) ==
  UpdateStatus((p \ KeySource) \cup KeyRequests(portD', rows', down', portDEdge'))

-----------------------------------------------------------------------------
(* Host inputs. *)

\* Mutant: no edge for a sleeping guest.
PressButtonUnheard(k) ==
  /\ "keys" \in Inputs /\ k \notin down
  /\ down' = down \cup {k}
  /\ portDEdge' = portDEdge \cup (KeyColumns(rows, down') \ KeyColumns(rows, down))
  /\ UNCHANGED <<rows, portD, penDown, lineLow, icr, asleep, mask, saved>>
  /\ UpdatePortD(pending)

\* palmHwSetButtonBits; a call that changes no button returns early.
PressButton(k) ==
  /\ "keys" \in Inputs /\ k \notin down
  /\ down' = down \cup {k}
  /\ portDEdge' = portDEdge \cup (KeyColumns(rows, down') \ KeyColumns(rows, down))
                            \cup (IF asleep THEN SleepColumn[k] ELSE {})
  /\ UNCHANGED <<rows, portD, penDown, lineLow, icr, asleep, mask, saved>>
  /\ UpdatePortD(pending)

\* Mutant: releasing a key drops the edge it made.
ReleaseButtonForgets(k) ==
  /\ "keys" \in Inputs /\ k \in down
  /\ down' = down \ {k}
  /\ portDEdge' = portDEdge \ (KeyColumns(rows, down) \ KeyColumns(rows, down'))
  /\ UNCHANGED <<rows, portD, penDown, lineLow, icr, asleep, mask, saved>>
  /\ UpdatePortD(pending)

ReleaseButton(k) ==
  /\ "keys" \in Inputs /\ k \in down
  /\ down' = down \ {k}
  /\ UNCHANGED <<rows, portD, portDEdge, penDown, lineLow, icr, asleep, mask, saved>>
  /\ UpdatePortD(pending)

\* palmHwSetPen and palmHwSetPenRaw.
SetPen(isDown) ==
  /\ "pen" \in Inputs
  /\ penDown' = isDown
  /\ UNCHANGED <<keypad, lineLow, icr, asleep, mask, saved>>
  /\ UpdateStatus(IF isDown THEN pending \cup {"PEN"} ELSE pending \ {"PEN"})

\* Mutant: the old state of the line is read after the new one is stored.
SetCradleLate(isDown) ==
  /\ "cradle" \in Inputs
  /\ lineLow' = isDown
  /\ UNCHANGED <<keypad, penDown, icr, asleep, mask, saved>>
  /\ UpdateStatus(IF icr.et1 /\ ~CradleAsserted(icr, lineLow') /\ CradleAsserted(icr, isDown)
                  THEN pending \cup {"IRQ1"} ELSE pending)

\* palmHwSetCradleButton.
SetCradle(isDown) ==
  /\ "cradle" \in Inputs
  /\ lineLow' = isDown
  /\ UNCHANGED <<keypad, penDown, icr, asleep, mask, saved>>
  /\ UpdateStatus(IF icr.et1 /\ ~CradleAsserted(icr, lineLow) /\ CradleAsserted(icr, isDown)
                  THEN pending \cup {"IRQ1"} ELSE pending)

-----------------------------------------------------------------------------
(* Guest register writes. *)

\* $418, $41C-$41F.
WritePortD(f, v) ==
  /\ portD' = [portD EXCEPT ![f] = v]
  /\ UNCHANGED <<down, rows, portDEdge, penDown, lineLow, icr, asleep, mask, saved>>
  /\ UpdatePortD(pending)

\* $419: a one acknowledges the edge of a column in edge mode.
AckEdges(v) ==
  /\ portDEdge' = portDEdge \ (v \cap portD.edge)
  /\ UNCHANGED <<down, rows, portD, penDown, lineLow, icr, asleep, mask, saved>>
  /\ UpdatePortD(pending)

\* Mutant: the interrupts are not recomputed.
DriveRowsQuietly(r) ==
  /\ rows' = r
  /\ UNCHANGED <<down, portD, portDEdge, penDown, lineLow, icr, asleep, mask,
                 pending, status, saved>>

\* $408/$409, $410/$411, $428/$429.
DriveRows(r) ==
  /\ rows' = r
  /\ UNCHANGED <<down, portD, portDEdge, penDown, lineLow, icr, asleep, mask, saved>>
  /\ UpdatePortD(pending)

\* $302.
WriteIcr(i) ==
  /\ icr' = i
  /\ UNCHANGED <<keypad, penDown, lineLow, asleep, mask, saved>>
  /\ UpdateStatus(pending)

\* $30D with the IRQ1 bit.
AckIrq1 ==
  /\ UNCHANGED <<keypad, penDown, lineLow, icr, asleep, mask, saved>>
  /\ UpdateStatus(IF icr.et1 THEN pending \ {"IRQ1"} ELSE pending)

\* $304-$307.
WriteMask(m) ==
  /\ mask' = m
  /\ UNCHANGED <<keypad, penDown, lineLow, icr, asleep, saved>>
  /\ UpdateStatus(pending)

\* $200: the PLL goes off or on.
WritePll(off) ==
  /\ asleep' = off
  /\ UNCHANGED <<keypad, penDown, lineLow, icr, mask, pending, status, saved>>

\* Another component sets or clears its own source.
SetOther(s, on) ==
  /\ UNCHANGED <<keypad, penDown, lineLow, icr, asleep, mask, saved>>
  /\ UpdateStatus(IF on THEN pending \cup {s} ELSE pending \ {s})

-----------------------------------------------------------------------------
(* Reset and snapshots. *)

NoPortD == [f \in {"outputs", "polarity", "request", "kbdEnable", "edge"} |-> {}]

\* palmHwInit.
Reset ==
  /\ down' = {} /\ rows' = {} /\ portD' = NoPortD /\ portDEdge' = {}
  /\ penDown' = FALSE /\ lineLow' = FALSE
  /\ icr' = [et1 |-> FALSE, pol1 |-> FALSE]
  /\ asleep' = FALSE
  /\ mask' = Source /\ pending' = {} /\ status' = {}
  /\ UNCHANGED saved

\* palmHwPrepareForSleepSnapshot.
PrepareForSleepSnapshot ==
  /\ down' = {} /\ portDEdge' = {} /\ penDown' = FALSE /\ lineLow' = FALSE
  /\ UNCHANGED <<rows, portD, icr, asleep, mask, saved>>
  /\ UpdatePortD(pending \ {"PEN", "IRQ1"})

\* palmHwSleepSnapshotInputsQuiet.
SnapshotInputsQuiet ==
  /\ ~penDown /\ down = {} /\ ~lineLow /\ portDEdge = {}
  /\ pending \cap ({"PEN", "IRQ1"} \cup KeySource) = {}

\* palmHwSaveState.
SaveState ==
  /\ Snapshots
  /\ saved' = <<[down |-> down, rows |-> rows, portD |-> portD, portDEdge |-> portDEdge,
                 penDown |-> penDown, icr |-> icr, asleep |-> asleep, mask |-> mask,
                 pending |-> pending, lineLow |-> lineLow]>>
  /\ UNCHANGED <<keypad, penDown, lineLow, icr, asleep, mask>>
  /\ UpdateStatus(pending)

\* Mutant: the edges are not part of the snapshot either.
LoadStateEdgeless ==
  /\ saved # <<>>
  /\ down' = saved[1].down /\ rows' = saved[1].rows /\ portD' = saved[1].portD
  /\ portDEdge' = {}
  /\ penDown' = saved[1].penDown /\ lineLow' = FALSE
  /\ icr' = saved[1].icr /\ asleep' = saved[1].asleep /\ mask' = saved[1].mask
  /\ UNCHANGED saved
  /\ UpdatePortD(saved[1].pending)

\* palmHwLoadState: the cradle line is not part of a snapshot.
LoadState ==
  /\ saved # <<>>
  /\ down' = saved[1].down /\ rows' = saved[1].rows /\ portD' = saved[1].portD
  /\ portDEdge' = saved[1].portDEdge
  /\ penDown' = saved[1].penDown /\ lineLow' = FALSE
  /\ icr' = saved[1].icr /\ asleep' = saved[1].asleep /\ mask' = saved[1].mask
  /\ UNCHANGED saved
  /\ UpdatePortD(saved[1].pending)

-----------------------------------------------------------------------------
Init ==
  /\ down = {} /\ rows = {} /\ portD = NoPortD /\ portDEdge = {}
  /\ penDown = FALSE /\ lineLow = FALSE
  /\ icr = [et1 |-> FALSE, pol1 |-> FALSE]
  /\ asleep = FALSE
  /\ mask = Source /\ pending = {} /\ status = {}
  /\ saved = <<>>

HostStep ==
  \/ \E k \in Key : PressButton(k) \/ ReleaseButton(k)
  \/ \E d \in BOOLEAN : SetPen(d) \/ SetCradle(d)
  \/ \E s \in Other, on \in BOOLEAN : SetOther(s, on)

GuestStep ==
  \/ \E f \in DOMAIN PortDValues : \E v \in PortDValues[f] : WritePortD(f, v)
  \/ \E v \in SUBSET Col : AckEdges(v)
  \/ \E r \in RowValues : DriveRows(r)
  \/ \E i \in IcrValues : WriteIcr(i)
  \/ AckIrq1
  \/ \E m \in MaskValues : WriteMask(m)
  \/ \E off \in BOOLEAN : WritePll(off)

StateStep == Reset \/ PrepareForSleepSnapshot \/ SaveState \/ LoadState

Next == HostStep \/ GuestStep \/ StateStep

Spec == Init /\ [][Next]_vars

-----------------------------------------------------------------------------
(* Properties. *)

SavedInputs ==
  [down : SUBSET Key, rows : SUBSET Row, portD : PortD, portDEdge : SUBSET Col,
   penDown : BOOLEAN, icr : Icr, asleep : BOOLEAN, mask : SUBSET Source,
   pending : SUBSET Source, lineLow : BOOLEAN]

\* Every register holds a value it can hold.
TypeOK ==
  /\ down \subseteq Key /\ rows \subseteq Row /\ portD \in PortD /\ portDEdge \subseteq Col
  /\ penDown \in BOOLEAN /\ lineLow \in BOOLEAN /\ icr \in Icr /\ asleep \in BOOLEAN
  /\ mask \subseteq Source /\ pending \subseteq Source /\ status \subseteq Source
  /\ saved = <<>> \/ \E s \in SavedInputs : saved = <<s>>

\* The pending requests of the keypad and the pen, and of the cradle in level mode, are
\* those of the inputs and the configuration as they are now, and the status register
\* the guest polls is the unmasked part of the pending register, whichever register
\* write, key, reset or restore came last.
RequestsCurrent(p, pd, rw, dn, edges, pen, i, low) ==
  /\ p \cap KeySource = KeyRequests(pd, rw, dn, edges)
  /\ "PEN" \in p <=> pen
  /\ ~i.et1 => ("IRQ1" \in p <=> CradleAsserted(i, low))

InterruptLinesCurrent ==
  /\ RequestsCurrent(pending, portD, rows, down, portDEdge, penDown, icr, lineLow)
  /\ status = pending \ mask

\* A key press the guest has asked to hear of is heard in the same step: the column it
\* newly connects raises KBD or its own interrupt, and on the IIIc a sleeping guest
\* gets the edge whether or not the row was being driven.
PressIsReported ==
  [][\A k \in Key : PressButton(k) =>
       LET rose == (KeyColumns(rows, down') \ KeyColumns(rows, down))
                     \cup (IF asleep THEN SleepColumn[k] ELSE {})
           seen == KeyColumns(rows, down') \ portD.outputs
       IN /\ ((rose \cap portD.edge \cap portD.polarity \cap portD.request) \ portD.outputs)
               \subseteq pending'
          /\ seen \cap portD.kbdEnable # {} => "KBD" \in pending']_vars

\* A key that is let go before the guest looks, or a keyboard scan that drives other
\* rows, never takes back the interrupt of a column in edge mode.
EdgesOutliveTheKey ==
  [][(\E k \in Key : ReleaseButton(k)) \/ (\E r \in RowValues : DriveRows(r)) =>
       pending \cap portD.edge \subseteq pending']_vars

\* HARDWARE_PROFILES.md, Cradle Button / IRQ1: in edge mode the active transition of the
\* line latches IRQ1 in the same step, nothing else does, and nothing but the guest's write
\* to the ISR takes it back (or a snapshot being prepared or restored); a request pending
\* when the guest switches from level to edge mode is kept as well.
CradleEdgeLatches ==
  [][icr'.et1 /\ ~(AckIrq1 \/ PrepareForSleepSnapshot \/ LoadState) =>
       LET edge == lineLow' # lineLow /\ CradleAsserted(icr', lineLow')
       IN "IRQ1" \in pending' <=> "IRQ1" \in pending \/ edge]_vars

\* Preparing a snapshot leaves the inputs quiet, except where the guest asked for
\* interrupts on an idle line: an active-low column in level mode, or an active-high
\* cradle line in level mode.  There the wait for a quiet sleep never ends.
PrepareQuiets ==
  [][PrepareForSleepSnapshot =>
       (SnapshotInputsQuiet' <=>
          /\ (portD.request \ (portD.outputs \cup portD.polarity)) \subseteq portD.edge
          /\ icr.et1 \/ ~icr.pol1)]_vars

\* A restored guest finds the requests it was saved with, apart from the cradle's.
RestoreKeepsRequests ==
  [][LoadState => pending' \ {"IRQ1"} = saved[1].pending \ {"IRQ1"}]_vars
=============================================================================
